------------------------------ MODULE ToolShell ------------------------------
(***************************************************************************)
(* The toolbox of a rollout and its shell: tools/base.py starts and closes *)
(* the tools, tools/shell.py keeps a bash in a detached tmux session and   *)
(* drives it with one-shot exec calls: it types a line per command, polls  *)
(* for the file with its exit code, and interrupts a command that takes    *)
(* too long with Ctrl-C, Ctrl-Z and a kill of the current job.             *)
(*                                                                         *)
(* The pane is modelled from how bash behaves: Ctrl-C discards what was    *)
(* typed ahead and, where it ends a command, the rest of its line with it, *)
(* so that no exit code is written; a command that Ctrl-Z stops has its    *)
(* line go on behind it.  The pauses of interrupt() are long enough for    *)
(* the pane to react to what was typed.  Bounds: ShellCalls, StartTries.   *)
(***************************************************************************)
EXTENDS Naturals, Sequences, SequencesExt

CONSTANTS ShellCalls, StartTries

ASSUME ShellBoundsAssumption == ShellCalls \in Nat /\ StartTries \in Nat \ {0}

(* What a command does when it is interrupted: dies, ends with a code of   *)
(* its own, ignores Ctrl-C, or also Ctrl-Z.  "spawns" leaves a job in the  *)
(* background and ends.                                                    *)
Kinds == {"dies", "spawns", "handles", "deaf", "stuck"}
KillLine == 0

VARIABLES
  box,      \* the rollout: out, starting, others, ready, running, interrupted,
            \* suspended, killing, closing, over
  tries,    \* start attempts of the shell
  panes,    \* tmux sessions that exist, by the attempt that created them
  mine,     \* the session the shell tool holds, 0 without one
  cutOff,   \* attempts that ended behind the creation of their session
  kinds,    \* the commands of the calls so far; a command id is its position
  typed,    \* lines typed that bash has not read
  fore,     \* the command in the foreground, 0 at the prompt
  jobs,     \* [command, stopped] of the jobs in the background
  code,     \* exit code files: none, exit or stopped
  unclosed  \* close() failed or was cancelled

shellvars == <<box, tries, panes, mine, cutOff, kinds, typed, fore, jobs, code, unclosed>>
host == <<box, tries, panes, mine, cutOff, kinds, unclosed>>
pane == <<typed, fore, jobs, code>>

ShellInit ==
  /\ box = "out" /\ tries = 0 /\ panes = {} /\ mine = 0 /\ cutOff = {} /\ unclosed = FALSE
  /\ kinds = <<>> /\ typed = <<>> /\ fore = 0 /\ jobs = <<>> /\ code = <<>>

Cid == Len(kinds)
Kind(c) == kinds[c]

-----------------------------------------------------------------------------
(* bash in the pane. *)

\* %+ is the job stopped last, or else the one put into the background last.
CurrentJob ==
  LET stopped == {k \in DOMAIN jobs : jobs[k].stopped}
      among == IF stopped = {} THEN DOMAIN jobs ELSE stopped
  IN CHOOSE k \in among : \A other \in among : other <= k

ReadLine ==
  /\ mine # 0 /\ fore = 0 /\ typed # <<>>
  /\ typed' = Tail(typed)
  /\ IF Head(typed) # KillLine
     THEN fore' = Head(typed) /\ UNCHANGED jobs
     ELSE /\ UNCHANGED fore
          /\ jobs' = IF jobs = <<>> THEN jobs ELSE RemoveAt(jobs, CurrentJob)
  /\ UNCHANGED <<host, code>>

\* The command ends by itself and its exit code is moved into place.
CommandExits ==
  /\ mine # 0 /\ fore # 0
  /\ fore' = 0 /\ code' = [code EXCEPT ![fore] = "exit"]
  /\ jobs' = IF Kind(fore) = "spawns" THEN Append(jobs, [command |-> fore, stopped |-> FALSE])
             ELSE jobs
  /\ UNCHANGED <<host, typed>>

CtrlC ==
  /\ typed' = <<>>
  /\ IF fore # 0 /\ Kind(fore) \notin {"deaf", "stuck"} THEN fore' = 0 ELSE UNCHANGED fore
  /\ code' = IF fore # 0 /\ Kind(fore) = "handles" THEN [code EXCEPT ![fore] = "exit"] ELSE code
  /\ UNCHANGED jobs

CtrlZ ==
  IF fore # 0 /\ Kind(fore) # "stuck"
  THEN /\ jobs' = Append(jobs, [command |-> fore, stopped |-> TRUE])
       /\ code' = [code EXCEPT ![fore] = "stopped"] /\ fore' = 0
       /\ UNCHANGED typed
  ELSE UNCHANGED pane

\* The pane has read what it can.
Settled == fore # 0 \/ typed = <<>>

-----------------------------------------------------------------------------
(* Toolbox.__aenter__, _start_tool. *)

\* The tools that were started are closed before the error propagates.
ToolStartFails == box' = "closing"

EnterToolbox ==
  /\ box = "out" /\ box' = "starting" /\ tries' = 1
  /\ UNCHANGED <<panes, mine, cutOff, kinds, unclosed, pane>>

\* tmux is there or was installed, and the session runs.
ShellStarted ==
  /\ box = "starting" /\ box' = "others"
  /\ panes' = panes \cup {tries} /\ mine' = tries
  /\ UNCHANGED <<tries, cutOff, kinds, unclosed, pane>>

\* An attempt fails, times out or is cancelled, possibly after new-session: the
\* tool does not know the session.  A cancellation of the rollout is not retried.
AttemptEnds ==
  /\ box = "starting"
  /\ \E created \in BOOLEAN :
       /\ panes' = IF created THEN panes \cup {tries} ELSE panes
       /\ cutOff' = IF created THEN cutOff \cup {tries} ELSE cutOff
  /\ \/ tries < StartTries /\ tries' = tries + 1 /\ UNCHANGED box
     \/ ToolStartFails /\ UNCHANGED tries
  /\ UNCHANGED <<mine, kinds, unclosed, pane>>

OthersStart ==
  /\ box = "others"
  /\ box' = "ready" \/ ToolStartFails
  /\ UNCHANGED <<tries, panes, mine, cutOff, kinds, unclosed, pane>>

-----------------------------------------------------------------------------
(* ShellTool.run. *)

\* start_command: the text is written to a file, and a line that loads it typed.
StartCommand(kind) ==
  /\ box = "ready" /\ Cid < ShellCalls
  /\ box' = "running" /\ kinds' = Append(kinds, kind)
  /\ typed' = Append(typed, Cid + 1) /\ code' = Append(code, "none")
  /\ UNCHANGED <<tries, panes, mine, cutOff, unclosed, fore, jobs>>

\* poll() finds the exit code.
CodeReturns ==
  /\ box = "running" /\ code[Cid] # "none" /\ box' = "ready"
  /\ UNCHANGED <<tries, panes, mine, cutOff, kinds, unclosed, pane>>

\* Mutant: what was typed is not discarded.
CommandExpiresQuietly ==
  /\ box = "running" /\ box' = "interrupted"
  /\ UNCHANGED <<tries, panes, mine, cutOff, kinds, unclosed, pane>>

\* The timeout is over at a poll that found none; it may be there by now.
CommandExpires ==
  /\ box = "running" /\ box' = "interrupted" /\ CtrlC
  /\ UNCHANGED <<tries, panes, mine, cutOff, kinds, unclosed>>

CodeAfterCtrlC ==
  /\ box = "interrupted" /\ Settled /\ code[Cid] # "none"
  /\ box' = "ready"
  /\ UNCHANGED <<tries, panes, mine, cutOff, kinds, unclosed, pane>>

StillNoCode ==
  /\ box = "interrupted" /\ Settled /\ code[Cid] = "none"
  /\ box' = "suspended" /\ CtrlZ
  /\ UNCHANGED <<tries, panes, mine, cutOff, kinds, unclosed>>

TypeKill ==
  /\ box = "suspended" /\ box' = "killing"
  /\ typed' = Append(typed, KillLine)
  /\ UNCHANGED <<tries, panes, mine, cutOff, kinds, unclosed, fore, jobs, code>>

InterruptReturns ==
  /\ box = "killing" /\ Settled /\ box' = "ready"
  /\ UNCHANGED <<tries, panes, mine, cutOff, kinds, unclosed, pane>>

\* An exec fails or the rollout is cancelled, or it is over: __aexit__.
LeaveToolbox ==
  /\ box \in {"ready", "running", "interrupted", "suspended", "killing"}
  /\ box' = "closing"
  /\ UNCHANGED <<tries, panes, mine, cutOff, kinds, unclosed, pane>>

\* Toolbox.close swallows what a tool raises; the session is gone with its pane.
CloseToolbox ==
  /\ box = "closing" /\ box' = "over"
  /\ \/ panes' = panes \ {mine} /\ UNCHANGED unclosed
     \/ mine # 0 /\ unclosed' = TRUE /\ UNCHANGED panes
  /\ mine' = 0
  /\ typed' = <<>> /\ fore' = 0 /\ jobs' = <<>>
  /\ UNCHANGED <<tries, cutOff, kinds, code>>

-----------------------------------------------------------------------------
ShellOver == box = "over" /\ UNCHANGED shellvars

ShellNext ==
  \/ ReadLine \/ CommandExits
  \/ EnterToolbox \/ ShellStarted \/ AttemptEnds \/ OthersStart
  \/ \E kind \in Kinds : StartCommand(kind)
  \/ CodeReturns \/ CommandExpires \/ CodeAfterCtrlC \/ StillNoCode \/ TypeKill
  \/ InterruptReturns \/ LeaveToolbox \/ CloseToolbox \/ ShellOver

ShellSpec == ShellInit /\ [][ShellNext]_shellvars

-----------------------------------------------------------------------------
(* Properties. *)

\* The type invariant.
ShellTypeOK ==
  /\ box \in {"out", "starting", "others", "ready", "running", "interrupted",
              "suspended", "killing", "closing", "over"}
  /\ tries \in 0..StartTries /\ panes \subseteq 1..StartTries
  /\ mine \in {0} \cup panes /\ cutOff \subseteq panes
  /\ kinds \in BoundedSeq(Kinds, ShellCalls) /\ fore \in 0..Cid
  /\ typed \in Seq(0..Cid) /\ jobs \in Seq([command : 1..Cid, stopped : BOOLEAN])
  /\ code \in [1..Cid -> {"none", "exit", "stopped"}]
  /\ unclosed \in BOOLEAN

\* Each command is typed at a prompt, with nothing of the command before it
\* stopped or typed ahead, whatever the earlier ones did to the interruption
\* (shell.py:317-332); one that ignores both signals is excluded by name.
FreshPrompt ==
  box = "ready" /\ (\A c \in 1..Cid : Kind(c) # "stuck") =>
    fore = 0 /\ typed = <<>> /\ \A k \in DOMAIN jobs : ~jobs[k].stopped

\* No command starts to run once its call has returned: the model was told that
\* it was cancelled, also when an earlier command held the pane all the time.
RunsInTurn ==
  \A k \in DOMAIN typed :
    typed[k] # KillLine => typed[k] = Cid /\ box \in {"running", "closing"}

\* A session of the toolbox does not outlive it, unless its close failed or its
\* start was cut off behind new-session (base.py:300 "roll back
\* partially-started tools").
PanesClosed == box = "over" /\ ~unclosed => panes \subseteq cutOff

\* The commands of a shell follow one another, and its sessions end with it.
ShellSound == ShellTypeOK /\ FreshPrompt /\ RunsInTurn /\ PanesClosed

=============================================================================
