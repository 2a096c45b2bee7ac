---------------------------- MODULE SandboxesProofs ----------------------------
(***************************************************************************)
(* Why the sandboxes of a rollout are clean: the inductive invariants of   *)
(* the parts that Sandboxes composes, for any number of tasks, attempts    *)
(* and commands, and any failures, timeouts and cancellations.             *)
(***************************************************************************)
EXTENDS Sandboxes, FiniteSetTheorems, WellFoundedInduction, SequenceTheorems, TLAPS

\* A step of the composition is a step of one part, and the others stutter.
LEMMA PartSteps ==
  ASSUME [SandboxNext]_<<parts, part>>
  PROVE  [Next]_vars /\ [DxNext]_dxvars /\ [ShellNext]_shellvars /\ [MasNext]_masvars
BY DEF SandboxNext, CallStep, AgentDxStep, ShellStep, ProcessStep, parts

-----------------------------------------------------------------------------
(* External applications: MasProcess.                                      *)

\* Once SIGKILL was sent, the group is empty and can get no new member: its
\* leader, who would start one, was in it.
MasInv ==
  /\ MasTypeOK
  /\ "left_group" \notin traits[Leader]
  /\ mas \in {"terminating", "draining"} => reason # "none"
  /\ mas # "over" => outcome = "none" /\ ~interrupted
  /\ mas = "draining" => Group = {}
  /\ GroupGone

LEMMA MasInvInit == MasInit => MasInv
<1> SUFFICES ASSUME MasInit PROVE MasInv
  OBVIOUS
<1>1. cancels \in 0..MaxCancels
  BY MasBoundAssumption DEF MasInit
<1>2. MasTypeOK
  BY <1>1 DEF MasInit, MasTypeOK
<1>3. QED BY <1>2 DEF MasInit, MasInv, GroupGone

LEMMA MasInvStep == MasInv /\ [MasNext]_masvars => MasInv'
<1> SUFFICES ASSUME MasInv, [MasNext]_masvars PROVE MasInv'
  OBVIOUS
<1> USE DEF MasInv, MasTypeOK, GroupGone, Group
<1>1. ASSUME NEW h \in Helpers, StartHelper(h) PROVE MasInv'
  BY <1>1 DEF StartHelper, Processes
<1>2. ASSUME NEW p \in Processes, ProcessExits(p) PROVE MasInv'
  BY <1>2 DEF ProcessExits
<1>3. CASE Launch
  BY <1>3 DEF Launch, Processes
<1>4. CASE Communicated
  BY <1>4 DEF Communicated
<1>5. CASE Return
  BY <1>5 DEF Return, Ends
<1>6. CASE TimesOut
  BY <1>6 DEF TimesOut, Handle, Survivors
<1>7. CASE Kill
  BY <1>7 DEF Kill
<1>8. CASE Drain
  BY <1>8 DEF Drain, Ends
<1>9. CASE CancelMas
  <2>1. cancels' \in 0..MaxCancels
    BY <1>9, MasBoundAssumption DEF CancelMas
  <2>2. CASE CancelCommunicate
    BY <1>9, <2>1, <2>2 DEF CancelMas, CancelCommunicate, Handle, Survivors
  <2>3. CASE CancelMasCleanup
    BY <1>9, <2>1, <2>3 DEF CancelMas, CancelMasCleanup, Ends
  <2>4. QED BY <1>9, <2>2, <2>3 DEF CancelMas
<1>10. CASE UNCHANGED masvars
  BY <1>10 DEF masvars
<1>11. QED BY <1>1, <1>2, <1>3, <1>4, <1>5, <1>6, <1>7, <1>8, <1>9, <1>10
  DEF MasNext, CallSteps, MasOver

\* For any helpers, whatever pipes they hold and signals they ignore: a command
\* that was given up leaves nothing of its process group behind, unless the
\* clean-up itself was cancelled before SIGKILL.
THEOREM ProcessesEnd == SandboxSpec => []ProcessSound
<1>1. SandboxInit => MasInv
  BY MasInvInit DEF SandboxInit
<1>2. MasInv /\ [SandboxNext]_<<parts, part>> => MasInv'
  BY PartSteps, MasInvStep
<1>3. MasInv => ProcessSound
  BY DEF MasInv, ProcessSound
<1>4. QED BY <1>1, <1>2, <1>3, PTL DEF SandboxSpec

-----------------------------------------------------------------------------
(* The shell of the toolbox: ToolShell.                                    *)

Boxes == {"out", "starting", "others", "ready", "running", "interrupted", "suspended",
          "killing", "closing", "over"}

\* The types, sequence by sequence.
ShellTypes ==
  /\ box \in Boxes /\ tries \in 0..StartTries /\ unclosed \in BOOLEAN
  /\ panes \subseteq 1..StartTries /\ mine \in {0} \cup panes /\ cutOff \subseteq panes
  /\ kinds \in Seq(Kinds) /\ Cid <= ShellCalls /\ fore \in 0..Cid
  /\ typed \in Seq(0..Cid) /\ jobs \in Seq([command : 1..Cid, stopped : BOOLEAN])
  /\ code \in Seq({"none", "exit", "stopped"}) /\ Len(code) = Cid

\* Who knows of which session: an attempt that is cut off is not tried again.
PanesKnown ==
  /\ mine \notin cutOff
  /\ ~unclosed => panes \subseteq cutOff \cup {mine}
  /\ box \in {"out", "starting", "over"} => mine = 0
  /\ box = "out" => panes = {}
  /\ box = "starting" => tries \in Nat \ {0} /\ \A a \in cutOff : a < tries

\* Nothing runs before the first call, and no call runs without a command.
CallsBegun ==
  /\ box \in {"out", "starting", "others"} =>
       kinds = <<>> /\ typed = <<>> /\ fore = 0 /\ jobs = <<>>
  /\ box \in {"running", "interrupted", "suspended", "killing"} => Cid >= 1

\* The line of the call in progress is the last one typed, and as long as it is
\* not read its command neither runs nor has a code.
LineWaits ==
  \A k \in DOMAIN typed : typed[k] # KillLine =>
    /\ typed[k] = Cid /\ k = Len(typed) /\ box \in {"running", "closing"}
    /\ code[Cid] = "none" /\ fore # Cid

NoneStopped == \A k \in DOMAIN jobs : ~jobs[k].stopped
LastStopped == \A k \in DOMAIN jobs : jobs[k].stopped => k = Len(jobs)

\* What the pane shows at each stage of a call, when no command is deaf to both
\* signals: Ctrl-C empties the line, Ctrl-Z leaves one job stopped, the kill ends
\* it.
PaneFollows ==
  (\A c \in 1..Cid : Kind(c) # "stuck") =>
    /\ box = "ready" => fore = 0 /\ typed = <<>> /\ NoneStopped
    /\ box = "running" =>
         /\ NoneStopped
         /\ \/ typed = <<Cid>> /\ fore = 0 /\ code[Cid] = "none"
            \/ typed = <<>> /\ fore = Cid /\ code[Cid] = "none"
            \/ typed = <<>> /\ fore = 0
    /\ box = "interrupted" =>
         /\ typed = <<>> /\ NoneStopped
         /\ fore # 0 => fore = Cid /\ code[Cid] = "none"
    /\ box = "suspended" => typed = <<>> /\ fore = 0 /\ LastStopped
    /\ box = "killing" =>
         /\ fore = 0
         /\ \/ typed = <<KillLine>> /\ LastStopped
            \/ typed = <<>> /\ NoneStopped

ShellInv == ShellTypes /\ PanesKnown /\ CallsBegun /\ LineWaits /\ PaneFollows

\* A set of positions that is not empty has a greatest one: the intervals above
\* its elements are finite, and strict inclusion of finite sets is well-founded.
LEMMA GreatestPosition ==
  ASSUME NEW n \in Nat, NEW A \in SUBSET (1..n), A # {}
  PROVE  \E k \in A : \A m \in A : m <= k
<1> DEFINE Above == {k..n : k \in A}
<1>1. IsWellFoundedOn(StrictSubsetOrdering(Nat), FiniteSubsetsOf(Nat))
  BY FS_StrictSubsetOrderingWellFounded
<1>2. Above \subseteq FiniteSubsetsOf(Nat)
  <2> SUFFICES ASSUME NEW k \in A PROVE k..n \in FiniteSubsetsOf(Nat)
    OBVIOUS
  <2>1. IsFiniteSet(k..n)
    BY FS_Interval
  <2>2. QED BY <2>1 DEF FiniteSubsetsOf
<1>3. Above # {}
  OBVIOUS
<1> HIDE DEF Above
<1>4. PICK S \in Above : \A T \in Above : ~ (<<T, S>> \in StrictSubsetOrdering(Nat))
  BY <1>1, <1>2, <1>3, WFMin
<1>5. PICK k \in A : S = k..n
  BY DEF Above
<1>6. ASSUME NEW m \in A, ~(m <= k) PROVE FALSE
  <2>1. m..n \in Above
    BY DEF Above
  <2>2. m..n \subseteq k..n /\ m..n # k..n
    BY <1>6
  <2>3. <<m..n, S>> \in StrictSubsetOrdering(Nat)
    BY <1>2, <1>5, <2>1, <2>2 DEF StrictSubsetOrdering, FiniteSubsetsOf
  <2>4. QED BY <1>4, <2>1, <2>3
<1>7. QED BY <1>6

\* What is left of a sequence when a position is removed.
LEMMA RemoveAtProperties ==
  ASSUME NEW S, NEW s \in Seq(S), NEW i \in 1..Len(s)
  PROVE  /\ RemoveAt(s, i) \in Seq(S)
         /\ \A k \in DOMAIN RemoveAt(s, i) :
              \E m \in 1..Len(s) : m # i /\ RemoveAt(s, i)[k] = s[m]
<1> DEFINE head == SubSeq(s, 1, i - 1)
           tail == SubSeq(s, i + 1, Len(s))
<1>1. /\ head \in Seq(S) /\ Len(head) = i - 1
      /\ \A k \in 1..(i - 1) : head[k] = s[k]
  <2>1. \A k \in 1..(i - 1) : s[k] \in S
    BY ElementOfSeq
  <2>2. QED BY <2>1, SubSeqProperties
<1>2. /\ tail \in Seq(S) /\ Len(tail) = Len(s) - i
      /\ \A k \in 1..(Len(s) - i) : tail[k] = s[i + k]
  <2>1. \A k \in (i + 1)..Len(s) : s[k] \in S
    BY ElementOfSeq
  <2>2. /\ tail \in Seq(S)
        /\ Len(tail) = IF i + 1 <= Len(s) THEN Len(s) - (i + 1) + 1 ELSE 0
        /\ \A k \in 1..(Len(s) - (i + 1) + 1) : tail[k] = s[(i + 1) + k - 1]
    BY <2>1, SubSeqProperties
  <2>3. QED BY <2>2
<1> HIDE DEF head, tail
<1>3. /\ head \o tail \in Seq(S) /\ Len(head \o tail) = Len(s) - 1
      /\ \A k \in 1..(Len(s) - 1) :
           (head \o tail)[k] = IF k <= i - 1 THEN s[k] ELSE s[k + 1]
  <2>1. /\ head \o tail \in Seq(S)
        /\ Len(head \o tail) = Len(head) + Len(tail)
        /\ \A k \in 1..(Len(head) + Len(tail)) :
             (head \o tail)[k] = IF k <= Len(head) THEN head[k] ELSE tail[k - Len(head)]
    BY <1>1, <1>2, ConcatProperties
  <2>2. QED BY <1>1, <1>2, <2>1
<1>4. RemoveAt(s, i) = head \o tail
  BY DEF RemoveAt, head, tail
<1>5. ASSUME NEW k \in 1..(Len(s) - 1)
      PROVE  \E m \in 1..Len(s) : m # i /\ (head \o tail)[k] = s[m]
  <2>1. CASE k <= i - 1
    <3>1. k \in 1..Len(s) /\ k # i
      BY <2>1
    <3>2. QED BY <1>3, <2>1, <3>1
  <2>2. CASE ~(k <= i - 1)
    <3>1. k + 1 \in 1..Len(s) /\ k + 1 # i
      BY <2>2
    <3>2. QED BY <1>3, <2>2, <3>1
  <2>3. QED BY <2>1, <2>2
<1>6. DOMAIN (head \o tail) = 1..(Len(s) - 1)
  BY <1>3, LenProperties
<1>7. QED BY <1>3, <1>4, <1>5, <1>6

\* The current job is one of the jobs; a stopped one, if there is any.
LEMMA CurrentJobFound ==
  ASSUME NEW S, jobs \in Seq(S), jobs # <<>>
  PROVE  /\ CurrentJob \in DOMAIN jobs /\ DOMAIN jobs = 1..Len(jobs)
         /\ NoneStopped \/ jobs[CurrentJob].stopped
<1> DEFINE stopped == {k \in DOMAIN jobs : jobs[k].stopped}
           among == IF stopped = {} THEN DOMAIN jobs ELSE stopped
<1>1. Len(jobs) \in Nat \ {0} /\ DOMAIN jobs = 1..Len(jobs)
  BY EmptySeq, LenProperties
<1>2. among \subseteq 1..Len(jobs) /\ among # {}
  BY <1>1
<1>3. \E k \in among : \A other \in among : other <= k
  <2> HIDE DEF among
  <2>1. QED BY <1>1, <1>2, GreatestPosition
<1>4. CurrentJob \in among
  BY <1>3 DEF CurrentJob
<1>5. QED BY <1>1, <1>2, <1>4 DEF NoneStopped

\* Killing the current job leaves none stopped, if the last one was.
LEMMA JobKilled ==
  ASSUME NEW S, jobs \in Seq(S), jobs # <<>>, jobs' = RemoveAt(jobs, CurrentJob)
  PROVE  jobs' \in Seq(S) /\ (LastStopped => NoneStopped')
<1>1. /\ CurrentJob \in 1..Len(jobs) /\ DOMAIN jobs = 1..Len(jobs)
      /\ NoneStopped \/ jobs[CurrentJob].stopped
  BY CurrentJobFound
<1>2. /\ jobs' \in Seq(S)
      /\ \A k \in DOMAIN jobs' : \E m \in 1..Len(jobs) : m # CurrentJob /\ jobs'[k] = jobs[m]
  BY <1>1, RemoveAtProperties
<1>3. QED BY <1>1, <1>2 DEF LastStopped, NoneStopped

LEMMA ShellInvInit == ShellInit => ShellInv
<1> SUFFICES ASSUME ShellInit PROVE ShellInv
  OBVIOUS
<1>1. ShellTypes
  <2>1. Cid = 0 /\ Cid <= ShellCalls /\ tries \in 0..StartTries /\ fore \in 0..Cid
    BY ShellBoundsAssumption, EmptySeq DEF ShellInit, Cid
  <2>2. kinds \in Seq(Kinds) /\ typed \in Seq(0..Cid) /\ Len(code) = 0
        /\ jobs \in Seq([command : 1..Cid, stopped : BOOLEAN])
        /\ code \in Seq({"none", "exit", "stopped"})
    BY EmptySeq DEF ShellInit
  <2>3. QED BY <2>1, <2>2 DEF ShellInit, ShellTypes, Boxes
<1>2. PanesKnown /\ CallsBegun
  BY DEF ShellInit, PanesKnown, CallsBegun
<1>3. LineWaits /\ PaneFollows
  BY DEF ShellInit, LineWaits, PaneFollows
<1>4. QED BY <1>1, <1>2, <1>3 DEF ShellInv

\* What bash does in the pane keeps the invariant.
LEMMA PaneKeepsInv ==
  ASSUME ShellInv, ReadLine \/ CommandExits
  PROVE  ShellInv'
<1> USE DEF ShellInv, Cid, Kind
<1>1. ShellTypes /\ UNCHANGED host
  BY DEF ReadLine, CommandExits
<1>2. PanesKnown'
  BY <1>1 DEF PanesKnown, host
<1>3. CASE ReadLine
  <2>1. /\ Head(typed) \in 0..Cid /\ Tail(typed) \in Seq(0..Cid)
        /\ Len(Tail(typed)) = Len(typed) - 1 /\ Len(typed) \in Nat \ {0}
        /\ \A k \in 1..(Len(typed) - 1) : Tail(typed)[k] = typed[k + 1]
        /\ Head(typed) = typed[1]
        /\ DOMAIN typed = 1..Len(typed) /\ DOMAIN Tail(typed) = 1..(Len(typed) - 1)
    BY <1>3, HeadTailProperties, EmptySeq, LenProperties DEF ShellTypes, ReadLine
  <2>2. /\ jobs' \in Seq([command : 1..Cid, stopped : BOOLEAN])
        /\ UNCHANGED jobs \/ (Head(typed) = KillLine /\ (LastStopped => NoneStopped'))
    BY <1>3, JobKilled DEF ShellTypes, ReadLine
  <2>3. ShellTypes'
    BY <1>1, <1>3, <2>1, <2>2 DEF ShellTypes, ReadLine, host
  <2>4. CallsBegun'
    BY <1>1, <1>3 DEF CallsBegun, ReadLine, host
  <2>5. LineWaits'
    <3>1. typed' = Tail(typed) /\ UNCHANGED <<box, kinds, code>>
      BY <1>1, <1>3 DEF ReadLine, host
    <3> SUFFICES ASSUME NEW k \in DOMAIN Tail(typed), Tail(typed)[k] # KillLine
                 PROVE  /\ Tail(typed)[k] = Cid /\ k = Len(Tail(typed))
                        /\ box \in {"running", "closing"}
                        /\ code[Cid] = "none" /\ fore' # Cid
      BY <3>1 DEF LineWaits
    <3>2. k + 1 \in DOMAIN typed /\ 1 \in DOMAIN typed /\ 1 # Len(typed)
          /\ Tail(typed)[k] = typed[k + 1]
      BY <2>1
    <3>3. Head(typed) = KillLine
      BY <2>1, <3>2 DEF LineWaits
    <3>4. UNCHANGED fore
      BY <1>3, <3>3 DEF ReadLine
    <3>5. /\ typed[k + 1] = Cid /\ k + 1 = Len(typed) /\ box \in {"running", "closing"}
          /\ code[Cid] = "none" /\ fore # Cid
      BY <3>2 DEF LineWaits
    <3>6. k = Len(Tail(typed))
      BY <2>1, <3>5
    <3>7. QED BY <3>2, <3>4, <3>5, <3>6
  <2>6. PaneFollows'
    <3> SUFFICES ASSUME \A c \in 1..Cid : kinds[c] # "stuck" PROVE PaneFollows'
      BY <1>1 DEF PaneFollows, host
    <3>1. CASE box = "running"
      <4>1. typed = <<Cid>> /\ fore = 0 /\ code[Cid] = "none" /\ NoneStopped
        BY <1>3, <3>1 DEF PaneFollows, ReadLine
      <4>2. Head(typed) = Cid /\ Tail(typed) = <<>> /\ Cid # KillLine
        BY <3>1, <4>1 DEF CallsBegun, KillLine
      <4>3. QED BY <1>1, <1>3, <3>1, <4>1, <4>2 DEF PaneFollows, ReadLine, host, NoneStopped
    <3>2. CASE box = "killing"
      <4>1. typed = <<KillLine>> /\ fore = 0 /\ LastStopped
        BY <1>3, <3>2 DEF PaneFollows, ReadLine
      <4>2. Head(typed) = KillLine /\ Tail(typed) = <<>>
        BY <4>1
      <4>3. NoneStopped'
        BY <1>3, <4>1, <4>2, JobKilled DEF ReadLine, NoneStopped, ShellTypes
      <4>4. QED BY <1>1, <1>3, <3>2, <4>1, <4>2, <4>3 DEF PaneFollows, ReadLine, host
    <3>3. CASE box \in {"ready", "interrupted", "suspended"}
      BY <1>3, <3>3 DEF PaneFollows, ReadLine
    <3>4. CASE box \notin {"running", "killing", "ready", "interrupted", "suspended"}
      BY <1>1, <3>4 DEF PaneFollows, host
    <3>5. QED BY <3>1, <3>2, <3>3, <3>4
  <2>7. QED BY <1>2, <2>3, <2>4, <2>5, <2>6
<1>4. CASE CommandExits
  <2>1. /\ jobs' \in Seq([command : 1..Cid, stopped : BOOLEAN])
        /\ NoneStopped => NoneStopped'
    <3>1. CASE UNCHANGED jobs
      BY <3>1 DEF ShellTypes, NoneStopped
    <3>2. CASE jobs' = Append(jobs, [command |-> fore, stopped |-> FALSE])
      <4>1. [command |-> fore, stopped |-> FALSE] \in [command : 1..Cid, stopped : BOOLEAN]
        BY <1>4 DEF ShellTypes, CommandExits
      <4>2. QED BY <3>2, <4>1, AppendProperties, LenProperties DEF ShellTypes, NoneStopped
    <3>3. QED BY <1>4, <3>1, <3>2 DEF CommandExits
  <2>2. /\ code' \in Seq({"none", "exit", "stopped"}) /\ Len(code') = Cid
        /\ \A c \in 1..Cid : c # fore => code'[c] = code[c]
    BY <1>4, ExceptSeq DEF ShellTypes, CommandExits
  <2>3. ShellTypes'
    BY <1>1, <1>4, <2>1, <2>2 DEF ShellTypes, CommandExits, host
  <2>4. CallsBegun'
    BY <1>1, <1>4 DEF CallsBegun, CommandExits, host
  <2>5. LineWaits'
    BY <1>1, <1>4, <2>2 DEF LineWaits, CommandExits, host, ShellTypes
  <2>6. PaneFollows'
    BY <1>1, <1>4, <2>1, <2>2 DEF PaneFollows, CommandExits, host, ShellTypes
  <2>7. QED BY <1>2, <2>3, <2>4, <2>5, <2>6
<1>5. QED BY <1>3, <1>4

\* Entering the toolbox keeps the invariant.
LEMMA EnteringKeepsInv ==
  ASSUME ShellInv, EnterToolbox \/ ShellStarted \/ AttemptEnds \/ OthersStart
  PROVE  ShellInv'
<1> USE DEF ShellInv, Cid, Kind
<1>1. UNCHANGED <<kinds, unclosed, pane>> /\ box' \notin {"running", "interrupted",
        "suspended", "killing"}
  BY DEF EnterToolbox, ShellStarted, AttemptEnds, OthersStart, ToolStartFails
<1> DEFINE PanesTyped == /\ tries \in 0..StartTries /\ panes \subseteq 1..StartTries
                         /\ mine \in {0} \cup panes /\ cutOff \subseteq panes
<1>2. PanesTyped' /\ PanesKnown'
  <2>1. PanesTyped
    BY DEF ShellTypes
  <2>2. CASE EnterToolbox
    BY <2>1, <2>2, ShellBoundsAssumption DEF PanesKnown, EnterToolbox
  <2>3. CASE ShellStarted
    BY <2>1, <2>3 DEF PanesKnown, ShellStarted
  <2>4. CASE AttemptEnds
    <3>1. tries \in 1..StartTries /\ mine = 0 /\ \A a \in cutOff : a < tries
      BY <2>1, <2>4 DEF PanesKnown, AttemptEnds
    <3>2. PICK created \in BOOLEAN :
            /\ panes' = IF created THEN panes \cup {tries} ELSE panes
            /\ cutOff' = IF created THEN cutOff \cup {tries} ELSE cutOff
      BY <2>4 DEF AttemptEnds
    <3>3. PanesTyped'
      BY <2>1, <2>4, <3>1, <3>2, ShellBoundsAssumption DEF AttemptEnds
    <3>4. 0 \notin cutOff' /\ (~unclosed => panes' \subseteq cutOff' \cup {0})
      BY <2>1, <3>1, <3>2 DEF PanesKnown
    <3>5. box' = "starting" => tries' = tries + 1
      BY <2>4 DEF AttemptEnds, ToolStartFails
    <3>6. \A a \in cutOff' : a < tries + 1
      BY <2>1, <3>1, <3>2
    <3>7. QED BY <2>4, <3>1, <3>3, <3>4, <3>5, <3>6 DEF PanesKnown, AttemptEnds, ToolStartFails
  <2>5. CASE OthersStart
    BY <2>1, <2>5 DEF PanesKnown, OthersStart, ToolStartFails
  <2>6. QED BY <2>2, <2>3, <2>4, <2>5
<1>3. ShellTypes'
  <2>1. box' \in Boxes
    BY DEF ShellTypes, Boxes, EnterToolbox, ShellStarted, AttemptEnds, OthersStart, ToolStartFails
  <2>2. QED BY <1>1, <1>2, <2>1 DEF ShellTypes, pane
<1>4. CallsBegun' /\ LineWaits' /\ PaneFollows'
  BY <1>1 DEF ShellTypes, CallsBegun, LineWaits, PaneFollows, NoneStopped, pane, EnterToolbox, ShellStarted,
    AttemptEnds, OthersStart, ToolStartFails
<1>5. QED BY <1>2, <1>3, <1>4

\* A command is typed at the prompt: the line of a call is the only one that waits.
LEMMA StartKeepsInv ==
  ASSUME ShellInv, NEW kind \in Kinds, StartCommand(kind)
  PROVE  ShellInv'
<1> USE DEF ShellInv
<1>1. /\ kinds' = Append(kinds, kind) /\ kinds' \in Seq(Kinds) /\ Len(kinds') = Cid + 1
      /\ \A c \in 1..Cid : kinds'[c] = kinds[c]
      /\ Cid \in Nat /\ Cid' = Cid + 1
  BY AppendProperties, LenProperties DEF ShellTypes, StartCommand, Cid
<1>2. /\ code' \in Seq({"none", "exit", "stopped"}) /\ Len(code') = Cid + 1
      /\ code'[Cid + 1] = "none"
  BY AppendProperties DEF ShellTypes, StartCommand
<1>3. typed \in Seq(0..(Cid + 1)) /\ jobs \in Seq([command : 1..(Cid + 1), stopped : BOOLEAN])
  <2>1. \A k \in 1..Len(typed) : typed[k] \in 0..Cid
    BY ElementOfSeq DEF ShellTypes
  <2>2. \A k \in 1..Len(jobs) : jobs[k] \in [command : 1..Cid, stopped : BOOLEAN]
    BY ElementOfSeq DEF ShellTypes
  <2>3. \A k \in 1..Len(typed) : typed[k] \in 0..(Cid + 1)
    BY <1>1, <2>1
  <2>4. [command : 1..Cid, stopped : BOOLEAN] \subseteq [command : 1..(Cid + 1), stopped : BOOLEAN]
    BY <1>1
  <2>5. \A k \in 1..Len(jobs) : jobs[k] \in [command : 1..(Cid + 1), stopped : BOOLEAN]
    BY <2>2, <2>4
  <2>6. typed \in Seq(0..(Cid + 1))
    BY <2>3, SeqDef, LenProperties DEF ShellTypes
  <2>7. jobs \in Seq([command : 1..(Cid + 1), stopped : BOOLEAN])
    <3> DEFINE Jobs == [command : 1..(Cid + 1), stopped : BOOLEAN]
    <3>1. jobs = [k \in 1..Len(jobs) |-> jobs[k]] /\ Len(jobs) \in Nat
      BY LenProperties DEF ShellTypes
    <3>2. \A k \in 1..Len(jobs) : jobs[k] \in Jobs
      BY <2>5
    <3> HIDE DEF Jobs
    <3>3. jobs \in [1..Len(jobs) -> Jobs]
      BY <3>1, <3>2
    <3>4. jobs \in Seq(Jobs)
      BY <3>1, <3>3, SeqDef
    <3>5. QED BY <3>4 DEF Jobs
  <2>8. QED BY <2>6, <2>7
<1>4. /\ typed' = Append(typed, Cid + 1) /\ typed' \in Seq(0..(Cid + 1))
      /\ Len(typed') = Len(typed) + 1 /\ DOMAIN typed' = 1..(Len(typed) + 1)
      /\ Len(typed) \in Nat /\ DOMAIN typed = 1..Len(typed)
      /\ \A k \in 1..Len(typed) : typed'[k] = typed[k]
      /\ typed'[Len(typed) + 1] = Cid + 1
  <2>1. Cid + 1 \in 0..(Cid + 1)
    BY <1>1
  <2>2. typed' = Append(typed, Cid + 1)
    BY DEF StartCommand
  <2>3. QED BY <1>3, <2>1, <2>2, AppendProperties, LenProperties
<1>5. /\ box = "ready" /\ box' = "running" /\ Cid < ShellCalls
      /\ UNCHANGED <<tries, panes, mine, cutOff, unclosed, fore, jobs>>
  BY DEF StartCommand
<1>6. ShellTypes'
  <2>1. fore \in 0..(Cid + 1) /\ Cid + 1 <= ShellCalls
    BY <1>1, <1>5, ShellBoundsAssumption DEF ShellTypes
  <2>2. box' \in Boxes
    BY <1>5 DEF Boxes
  <2>3. QED BY <1>1, <1>2, <1>3, <1>4, <1>5, <2>1, <2>2 DEF ShellTypes
<1>7. PanesKnown' /\ CallsBegun'
  BY <1>1, <1>5 DEF PanesKnown, CallsBegun
<1>8. LineWaits'
  <2>1. \A k \in 1..Len(typed) : typed[k] = KillLine
    BY <1>4, <1>5 DEF LineWaits
  <2>2. fore # Cid + 1
    BY <1>1 DEF ShellTypes
  <2>3. \A k \in DOMAIN typed' : typed'[k] # KillLine => k = Len(typed) + 1
    BY <1>4, <2>1
  <2>4. QED BY <1>1, <1>2, <1>4, <1>5, <2>2, <2>3 DEF LineWaits
<1>9. PaneFollows'
  <2> SUFFICES ASSUME \A c \in 1..(Cid + 1) : Kind(c)' # "stuck" PROVE PaneFollows'
    BY <1>1 DEF PaneFollows
  <2>1. \A c \in 1..Cid : Kind(c) # "stuck"
    BY <1>1 DEF Kind
  <2>2. fore = 0 /\ typed = <<>> /\ NoneStopped
    BY <1>5, <2>1 DEF PaneFollows
  <2>3. typed' = <<Cid + 1>>
    BY <1>4, <2>2
  <2>4. NoneStopped'
    BY <1>5, <2>2 DEF NoneStopped
  <2>5. QED BY <1>1, <1>2, <1>5, <2>2, <2>3, <2>4 DEF PaneFollows
<1>10. QED BY <1>6, <1>7, <1>8, <1>9

\* Ctrl-C, Ctrl-Z and the kill, and the return of the call.
LEMMA InterruptKeepsInv ==
  ASSUME ShellInv,
         CodeReturns \/ CommandExpires \/ CodeAfterCtrlC \/ StillNoCode \/ TypeKill
           \/ InterruptReturns
  PROVE  ShellInv'
<1> USE DEF ShellInv, Cid, Kind
<1>1. /\ UNCHANGED <<tries, panes, mine, cutOff, kinds, unclosed>>
      /\ box' \in {"ready", "interrupted", "suspended", "killing"}
      /\ box \in {"running", "interrupted", "suspended", "killing"}
  BY DEF CodeReturns, CommandExpires, CodeAfterCtrlC, StillNoCode, TypeKill, InterruptReturns
<1>2. PanesKnown' /\ CallsBegun'
  BY <1>1 DEF PanesKnown, CallsBegun
<1>3. box' \in Boxes
  BY <1>1 DEF Boxes
<1>4. CASE CodeReturns \/ CodeAfterCtrlC \/ InterruptReturns
  <2>1. UNCHANGED pane /\ box' = "ready"
    BY <1>4 DEF CodeReturns, CodeAfterCtrlC, InterruptReturns
  <2>2. ShellTypes'
    BY <1>1, <1>3, <2>1 DEF ShellTypes, pane
  <2>3. LineWaits'
    <3>1. box = "running" => code[Cid] # "none"
      BY <1>4 DEF CodeReturns, CodeAfterCtrlC, InterruptReturns
    <3>2. QED BY <1>1, <2>1, <3>1 DEF LineWaits, pane
  <2>4. PaneFollows'
    <3> SUFFICES ASSUME \A c \in 1..Cid : kinds[c] # "stuck"
                 PROVE  fore = 0 /\ typed = <<>> /\ NoneStopped
      BY <1>1, <2>1 DEF PaneFollows, pane, NoneStopped
    <3>1. CASE CodeReturns
      BY <3>1 DEF CodeReturns, PaneFollows
    <3>2. CASE CodeAfterCtrlC
      BY <3>2 DEF CodeAfterCtrlC, PaneFollows
    <3>3. CASE InterruptReturns
      BY <3>3 DEF InterruptReturns, PaneFollows, Settled
    <3>4. QED BY <1>4, <3>1, <3>2, <3>3
  <2>5. QED BY <1>2, <2>2, <2>3, <2>4
<1>5. CASE CommandExpires
  <2>1. /\ box = "running" /\ box' = "interrupted" /\ typed' = <<>> /\ UNCHANGED jobs
        /\ fore' = IF fore # 0 /\ kinds[fore] \notin {"deaf", "stuck"} THEN 0 ELSE fore
        /\ code' = IF fore # 0 /\ kinds[fore] = "handles" THEN [code EXCEPT ![fore] = "exit"]
                   ELSE code
    BY <1>5 DEF CommandExpires, CtrlC
  <2>2. /\ code' \in Seq({"none", "exit", "stopped"}) /\ Len(code') = Cid
        /\ fore' # 0 => UNCHANGED code
    <3>1. CASE fore # 0 /\ kinds[fore] = "handles"
      <4>1. fore \in 1..Len(code) /\ "exit" \in {"none", "exit", "stopped"}
        BY <3>1 DEF ShellTypes
      <4>2. code' = [code EXCEPT ![fore] = "exit"] /\ fore' = 0
        BY <2>1, <3>1
      <4>3. QED BY <4>1, <4>2, ExceptSeq DEF ShellTypes
    <3>2. CASE ~(fore # 0 /\ kinds[fore] = "handles")
      BY <2>1, <3>2 DEF ShellTypes
    <3>3. QED BY <3>1, <3>2
  <2>3. typed' \in Seq(0..Cid)
    BY <2>1, EmptySeq
  <2>4. ShellTypes'
    BY <1>1, <1>3, <2>1, <2>2, <2>3 DEF ShellTypes
  <2>5. LineWaits'
    BY <2>1 DEF LineWaits
  <2>6. PaneFollows'
    BY <1>1, <2>1, <2>2 DEF PaneFollows, NoneStopped
  <2>7. QED BY <1>2, <2>4, <2>5, <2>6
<1>6. CASE StillNoCode
  <2>1. box = "interrupted" /\ code[Cid] = "none" /\ box' = "suspended" /\ UNCHANGED typed
    BY <1>6 DEF StillNoCode, CtrlZ, pane
  <2>2. CASE fore # 0 /\ kinds[fore] # "stuck"
    <3> DEFINE stoppedJob == [command |-> fore, stopped |-> TRUE]
    <3>1. jobs' = Append(jobs, stoppedJob) /\ code' = [code EXCEPT ![fore] = "stopped"] /\ fore' = 0
      BY <1>6, <2>2 DEF StillNoCode, CtrlZ
    <3>2. /\ code' \in Seq({"none", "exit", "stopped"}) /\ Len(code') = Cid
      BY <2>2, <3>1, ExceptSeq DEF ShellTypes
    <3>3. /\ jobs' \in Seq([command : 1..Cid, stopped : BOOLEAN])
          /\ NoneStopped => LastStopped'
      <4>1. stoppedJob \in [command : 1..Cid, stopped : BOOLEAN]
        BY <2>2 DEF ShellTypes
      <4>2. QED BY <3>1, <4>1, AppendProperties, LenProperties
        DEF ShellTypes, NoneStopped, LastStopped
    <3>4. ShellTypes'
      BY <1>1, <1>3, <2>1, <3>1, <3>2, <3>3 DEF ShellTypes
    <3>5. LineWaits'
      BY <1>1, <2>1 DEF LineWaits
    <3>6. PaneFollows'
      BY <1>1, <2>1, <3>1, <3>3 DEF PaneFollows
    <3>7. QED BY <1>2, <3>4, <3>5, <3>6
  <2>3. CASE ~(fore # 0 /\ kinds[fore] # "stuck")
    <3>1. UNCHANGED pane
      BY <1>6, <2>3 DEF StillNoCode, CtrlZ
    <3>2. ShellTypes'
      BY <1>1, <1>3, <3>1 DEF ShellTypes, pane
    <3>3. LineWaits'
      BY <1>1, <2>1 DEF LineWaits
    <3>4. PaneFollows'
      BY <1>1, <2>1, <2>3, <3>1 DEF PaneFollows, NoneStopped, LastStopped, ShellTypes, pane
    <3>5. QED BY <1>2, <3>2, <3>3, <3>4
  <2>4. QED BY <2>2, <2>3
<1>7. CASE TypeKill
  <2>1. /\ box = "suspended" /\ box' = "killing" /\ typed' = Append(typed, KillLine)
        /\ UNCHANGED <<fore, jobs, code>>
    BY <1>7 DEF TypeKill
  <2>2. /\ typed' \in Seq(0..Cid) /\ DOMAIN typed' = 1..(Len(typed) + 1)
        /\ \A k \in 1..Len(typed) : typed'[k] = typed[k]
        /\ typed'[Len(typed) + 1] = KillLine
        /\ Len(typed) \in Nat /\ DOMAIN typed = 1..Len(typed)
    <3>1. KillLine \in 0..Cid
      BY LenProperties DEF KillLine, ShellTypes
    <3>2. QED BY <2>1, <3>1, AppendProperties, LenProperties DEF ShellTypes
  <2>3. ShellTypes'
    BY <1>1, <1>3, <2>1, <2>2 DEF ShellTypes
  <2>4. LineWaits'
    <3>1. \A k \in 1..Len(typed) : typed[k] = KillLine
      BY <2>1, <2>2 DEF LineWaits
    <3>2. \A k \in DOMAIN typed' : typed'[k] = KillLine
      BY <2>2, <3>1
    <3>3. QED BY <3>2 DEF LineWaits
  <2>5. PaneFollows'
    <3>1. typed = <<>> => typed' = <<KillLine>>
      BY <2>1
    <3>2. LastStopped => LastStopped'
      BY <2>1 DEF LastStopped
    <3>3. QED BY <1>1, <2>1, <3>1, <3>2 DEF PaneFollows
  <2>6. QED BY <1>2, <2>3, <2>4, <2>5
<1>8. QED BY <1>4, <1>5, <1>6, <1>7

\* Leaving and closing the toolbox.
LEMMA LeavingKeepsInv ==
  ASSUME ShellInv, LeaveToolbox \/ CloseToolbox
  PROVE  ShellInv'
<1> USE DEF ShellInv, Cid, Kind
<1>1. CASE LeaveToolbox
  <2>1. /\ box' = "closing" /\ UNCHANGED <<tries, panes, mine, cutOff, kinds, unclosed, pane>>
        /\ box \notin {"out", "starting", "over"}
    BY <1>1 DEF LeaveToolbox
  <2>2. ShellTypes' /\ PanesKnown' /\ CallsBegun'
    BY <2>1 DEF ShellTypes, PanesKnown, CallsBegun, Boxes, pane
  <2>3. LineWaits' /\ PaneFollows'
    BY <2>1 DEF LineWaits, PaneFollows, pane
  <2>4. QED BY <2>2, <2>3
<1>2. CASE CloseToolbox
  <2>1. /\ box = "closing" /\ box' = "over" /\ mine' = 0
        /\ typed' = <<>> /\ fore' = 0 /\ jobs' = <<>>
        /\ UNCHANGED <<tries, cutOff, kinds, code>>
    BY <1>2 DEF CloseToolbox
  <2>2. \/ panes' = panes \ {mine} /\ UNCHANGED unclosed
        \/ mine # 0 /\ unclosed' = TRUE /\ UNCHANGED panes
    BY <1>2 DEF CloseToolbox
  <2>3. PanesKnown' /\ panes' \subseteq 1..StartTries /\ cutOff \subseteq panes'
    <3>1. /\ cutOff \subseteq panes /\ panes \subseteq 1..StartTries /\ mine \notin cutOff
          /\ ~unclosed => panes \subseteq cutOff \cup {mine}
      BY DEF PanesKnown, ShellTypes
    <3>2. cutOff \subseteq panes' /\ panes' \subseteq panes
      BY <2>2, <3>1
    <3>3. ~unclosed' => panes' \subseteq cutOff
      BY <2>2, <3>1
    <3>4. 0 \notin cutOff
      BY <3>1
    <3>5. QED BY <2>1, <3>1, <3>2, <3>3, <3>4 DEF PanesKnown
  <2>4. /\ typed' \in Seq(0..Cid) /\ jobs' \in Seq([command : 1..Cid, stopped : BOOLEAN])
        /\ fore' \in 0..Cid
    BY <2>1, EmptySeq, LenProperties DEF ShellTypes
  <2>5. box' \in Boxes /\ unclosed' \in BOOLEAN
    BY <2>1, <2>2 DEF ShellTypes, Boxes
  <2>6. ShellTypes'
    BY <2>1, <2>3, <2>4, <2>5 DEF ShellTypes
  <2>7. CallsBegun' /\ LineWaits' /\ PaneFollows'
    BY <2>1 DEF CallsBegun, LineWaits, PaneFollows
  <2>8. QED BY <2>3, <2>6, <2>7
<1>3. QED BY <1>1, <1>2

LEMMA ShellInvStep == ShellInv /\ [ShellNext]_shellvars => ShellInv'
<1> SUFFICES ASSUME ShellInv, [ShellNext]_shellvars PROVE ShellInv'
  OBVIOUS
<1>1. CASE UNCHANGED shellvars
  BY <1>1 DEF shellvars, ShellInv, ShellTypes, PanesKnown, CallsBegun, LineWaits, PaneFollows,
    NoneStopped, LastStopped, Cid, Kind
<1>2. QED BY <1>1, PaneKeepsInv, EnteringKeepsInv, StartKeepsInv, InterruptKeepsInv, LeavingKeepsInv
  DEF ShellNext, ShellOver

\* The properties of the run follow.
LEMMA ShellInvSound == ShellInv => ShellSound
<1> SUFFICES ASSUME ShellInv PROVE ShellSound
  OBVIOUS
<1> USE DEF ShellInv
<1>1. ShellTypeOK
  <2>1. kinds \in [1..Cid -> Kinds] /\ Cid \in 0..ShellCalls
    BY LenProperties, ShellBoundsAssumption DEF ShellTypes, Cid
  <2>2. kinds \in BoundedSeq(Kinds, ShellCalls)
    BY <2>1 DEF BoundedSeq, SeqOf
  <2>3. code \in [1..Cid -> {"none", "exit", "stopped"}]
    BY LenProperties DEF ShellTypes
  <2>4. QED BY <2>2, <2>3 DEF ShellTypes, ShellTypeOK, Boxes
<1>2. FreshPrompt
  BY DEF PaneFollows, FreshPrompt, NoneStopped
<1>3. RunsInTurn
  BY DEF LineWaits, RunsInTurn
<1>4. PanesClosed
  BY DEF PanesKnown, PanesClosed, ShellTypes
<1>5. QED BY <1>1, <1>2, <1>3, <1>4 DEF ShellSound

\* For any number of commands and start attempts, and whatever fails or is
\* cancelled between: each command of the model is typed at a prompt that the
\* ones before it left clean, none runs behind its call, and no session stays
\* but the ones whose start or close was cut off.
THEOREM ShellEnds == SandboxSpec => []ShellSound
<1>1. SandboxInit => ShellInv
  BY ShellInvInit DEF SandboxInit
<1>2. ShellInv /\ [SandboxNext]_<<parts, part>> => ShellInv'
  BY PartSteps, ShellInvStep
<1>3. QED BY <1>1, <1>2, ShellInvSound, PTL DEF SandboxSpec

-----------------------------------------------------------------------------
(* The life of a sandbox: SandboxLifecycle.                                *)

Known(t, kind, a) == <<kind, a>> \in waived[t]

\* The deletion of an environment was sent, or it may be left by name.
Deleted(t, a) == kill[t][a] # "none" \/ Known(t, "close", a)

LifeTypes ==
  /\ LifecycleTypeOK /\ changes \in Nat
  /\ waived \in [Tasks -> SUBSET ({"create", "close", "stop"} \X (0..Retry))]

\* What has not been asked for is untouched, and no deletion is sent before
\* start() is over.
Untouched(t) ==
  /\ \A a \in Attempts : a > attempt[t] => env[t][a] = "none" /\ kill[t][a] = "none"
  /\ pc[t] \in {"idle", "queued", "preparing"} => env[t][attempt[t]] = "none"
  /\ pc[t] \in {"idle", "queued", "preparing", "creating", "setting"} =>
       kill[t][attempt[t]] = "none"
  /\ pc[t] = "backoff" => attempt[t] < Retry

\* What the object remembers, and what an earlier attempt has left in it.
Remembers(t) ==
  /\ handle[t] <= attempt[t]
  /\ pc[t] \in {"idle", "queued", "preparing", "creating", "compensating"} =>
       handle[t] < attempt[t]
  /\ pc[t] = "setting" => handle[t] = attempt[t]
  /\ runtime[t] => provider = "vefaas" /\ handle[t] # 0 /\ stopping[t] # "killing"
  /\ /\ handle[t] # 0
     /\ pc[t] \in Over \cup {"backoff", "idle", "queued", "preparing", "creating", "compensating"}
     => Deleted(t, handle[t])
  /\ pc[t] \in {"backoff", "idle", "queued"} =>
       /\ runtime[t] => Known(t, "close", handle[t])
       /\ provider # "vefaas" /\ handle[t] # 0 => Known(t, "stop", handle[t])

StopsOne(t) ==
  /\ stopping[t] # "no" => pc[t] \in {"cleanup", "exiting"}
  /\ stopping[t] = "closing" => handle[t] # 0 /\ provider = "vefaas"
  /\ stopping[t] = "killing" =>
       handle[t] \in {0, aim[t]} /\ aim[t] # 0 /\ kill[t][aim[t]] # "none"
  /\ why[t] = "cancelled" => pc[t] \in {"cleanup", "cancelled"}

\* Every environment is deleted, excused, remembered or being created.
Accounted(t) ==
  \A a \in Left(t) :
    \/ Deleted(t, a) \/ Known(t, "create", a)
    \/ handle[t] = a \/ (a = attempt[t] /\ pc[t] = "creating")

Ready(t) ==
  pc[t] = "inside" =>
    \/ handle[t] # 0 /\ env[t][handle[t]] = "ready" /\ kill[t][handle[t]] = "none"
    \/ Known(t, "stop", handle[t]) \/ Known(t, "close", handle[t])

TaskInv(t) == Untouched(t) /\ Remembers(t) /\ StopsOne(t) /\ Accounted(t) /\ Ready(t)

\* Nobody holds more of a semaphore than it has; as long as the limit stands
\* there is one at most.
SlotsHeld ==
  /\ \A g \in 1..Len(sems) : sems[g] > 0 /\ Cardinality(Holders(g)) <= sems[g]
  /\ changes = 0 =>
       /\ sems = <<>> \/ sems = <<limit>>
       /\ limit > 0 => \A t \in Tasks : pc[t] \in Starting \cup {"queued"} => slot[t] = 1

LifeInv == LifeTypes /\ (\A t \in Tasks : TaskInv(t)) /\ SlotsHeld

\* The variables of one task.
Same(u) ==
  UNCHANGED <<pc[u], attempt[u], slot[u], why[u], stopping[u], handle[u], runtime[u],
              aim[u], env[u], kill[u], waived[u]>>

LEMMA LifeInvInit == Init => LifeInv
<1> SUFFICES ASSUME Init PROVE LifeInv
  OBVIOUS
<1> USE RetryAssumption, LimitsAssumption DEF Init
<1>1. LifeTypes
  <2>1. sems \in Seq(Limits) /\ Len(sems) = 0
    BY EmptySeq
  <2>2. 1 \in Attempts /\ 0 \in 0..Retry
    BY DEF Attempts
  <2>3. QED BY <2>1, <2>2 DEF LifeTypes, LifecycleTypeOK
<1>2. ASSUME NEW t \in Tasks PROVE TaskInv(t)
  <2>1. Untouched(t) /\ Remembers(t) /\ StopsOne(t) /\ Ready(t)
    BY <1>2 DEF Untouched, Remembers, StopsOne, Ready, Attempts, Over
  <2>2. Accounted(t)
    BY <1>2 DEF Accounted, Left
  <2>3. QED BY <2>1, <2>2 DEF TaskInv
<1>3. SlotsHeld
  BY DEF SlotsHeld, Starting
<1>4. QED BY <1>1, <1>2, <1>3 DEF LifeInv

\* A task that a step does not touch keeps what holds of it.
LEMMA OthersKeepInv ==
  ASSUME NEW u \in Tasks, TaskInv(u), Same(u), UNCHANGED provider
  PROVE  TaskInv(u)'
BY DEF TaskInv, Same, Untouched, Remembers, StopsOne, Accounted, Ready, Left, Deleted, Known

\* The value of a function of functions is replaced at one place.
LEMMA ExceptTwice ==
  ASSUME NEW S, NEW T, NEW R, NEW f \in [S -> [T -> R]], NEW x \in S, NEW y \in T, NEW v \in R
  PROVE  /\ [f EXCEPT ![x][y] = v] \in [S -> [T -> R]]
         /\ \A u \in S \ {x} : [f EXCEPT ![x][y] = v][u] = f[u]
         /\ \A b \in T : [f EXCEPT ![x][y] = v][x][b] = IF b = y THEN v ELSE f[x][b]
OBVIOUS

LEMMA EnvExcept ==
  ASSUME LifeTypes, NEW t \in Tasks, NEW a \in Attempts,
         NEW state \in {"none", "asked", "bare", "ready", "gone"},
         env' = [env EXCEPT ![t][a] = state]
  PROVE  /\ env' \in [Tasks -> [Attempts -> {"none", "asked", "bare", "ready", "gone"}]]
         /\ \A u \in Tasks \ {t} : env'[u] = env[u]
         /\ \A b \in Attempts : env'[t][b] = IF b = a THEN state ELSE env[t][b]
<1> DEFINE States == {"none", "asked", "bare", "ready", "gone"}
<1>1. env \in [Tasks -> [Attempts -> States]] /\ state \in States
  BY DEF LifeTypes, LifecycleTypeOK
<1> HIDE DEF States
<1>2. /\ env' \in [Tasks -> [Attempts -> States]]
      /\ \A u \in Tasks \ {t} : env'[u] = env[u]
      /\ \A b \in Attempts : env'[t][b] = IF b = a THEN state ELSE env[t][b]
  BY <1>1, ExceptTwice
<1>3. QED BY <1>2 DEF States

LEMMA KillExcept ==
  ASSUME LifeTypes, NEW t \in Tasks, NEW a \in Attempts,
         NEW state \in {"none", "sent", "ok", "failed"},
         kill' = [kill EXCEPT ![t][a] = state]
  PROVE  /\ kill' \in [Tasks -> [Attempts -> {"none", "sent", "ok", "failed"}]]
         /\ \A u \in Tasks \ {t} : kill'[u] = kill[u]
         /\ \A b \in Attempts : kill'[t][b] = IF b = a THEN state ELSE kill[t][b]
<1> DEFINE States == {"none", "sent", "ok", "failed"}
<1>1. kill \in [Tasks -> [Attempts -> States]] /\ state \in States
  BY DEF LifeTypes, LifecycleTypeOK
<1> HIDE DEF States
<1>2. /\ kill' \in [Tasks -> [Attempts -> States]]
      /\ \A u \in Tasks \ {t} : kill'[u] = kill[u]
      /\ \A b \in Attempts : kill'[t][b] = IF b = a THEN state ELSE kill[t][b]
  BY <1>1, ExceptTwice
<1>3. QED BY <1>2 DEF States

\* Steps of __aenter__ up to the creation of the environment.
LEMMA EnterTypes ==
  ASSUME LifeTypes, NEW t \in Tasks,
         AskSlot(t) \/ BeginStart(t) \/ Create(t) \/ CreateReturns(t) \/ CreateRaises(t)
           \/ RuntimeAlive(t) \/ SetupReturns(t)
  PROVE  LifeTypes' /\ UNCHANGED provider /\ \A u \in Tasks \ {t} : Same(u)
<1> USE DEF LifeTypes, LifecycleTypeOK, Starting, Over, Go, LeaveStart
<1>1. 0 \in 0..Len(sems) /\ Attempts \subseteq 0..Retry
  BY LenProperties DEF Attempts
<1>2. CASE AskSlot(t)
  <2>1. limit > 0 => Append(sems, limit) \in Seq(Limits) /\ Len(Append(sems, limit)) = Len(sems) + 1
    BY AppendProperties
  <2>2. sems' \in Seq(Limits) /\ Len(sems) <= Len(sems') /\ Len(sems) \in Nat /\ Len(sems') \in Nat
    BY <1>2, <2>1, LenProperties, LimitsAssumption DEF AskSlot, Registered
  <2>3. slot' \in [Tasks -> 0..Len(sems')]
    BY <1>2, <2>2 DEF AskSlot
  <2>4. UNCHANGED <<provider, limit, changes, attempt, why, stopping, object, remote, waived, faults>>
        /\ pc' = [pc EXCEPT ![t] = "queued"] /\ \A u \in Tasks \ {t} : slot'[u] = slot[u]
    BY <1>2 DEF AskSlot
  <2>5. LifeTypes'
    BY <2>2, <2>3, <2>4 DEF object, remote
  <2>6. QED BY <2>4, <2>5 DEF object, remote, Same
<1>3. CASE BeginStart(t)
  <2>1. env' \in [Tasks -> [Attempts -> {"none", "asked", "bare", "ready", "gone"}]]
        /\ \A u \in Tasks \ {t} : env'[u] = env[u]
    <3>1. attempt[t] \in Attempts
      OBVIOUS
    <3>2. UNCHANGED env \/ env' = [env EXCEPT ![t][attempt[t]] = "asked"]
      BY <1>3 DEF BeginStart
    <3>3. QED BY <3>1, <3>2, EnvExcept
  <2>2. pc' \in [Tasks -> Starting \cup Over \cup
               {"idle", "queued", "inside", "cleanup", "exiting", "backoff"}]
        /\ slot' \in [Tasks -> 0..Len(sems)]
        /\ \A u \in Tasks \ {t} : pc'[u] = pc[u] /\ slot'[u] = slot[u]
    <3>1. PICK where \in {"inside", "preparing", "creating"} : pc' = [pc EXCEPT ![t] = where]
      BY <1>3 DEF BeginStart
    <3>2. UNCHANGED slot \/ slot' = [slot EXCEPT ![t] = 0]
      BY <1>3 DEF BeginStart
    <3>3. slot' \in [Tasks -> 0..Len(sems)] /\ \A u \in Tasks \ {t} : slot'[u] = slot[u]
      <4>1. CASE UNCHANGED slot
        BY <4>1
      <4>2. CASE slot' = [slot EXCEPT ![t] = 0]
        BY <1>1, <4>2
      <4>3. QED BY <3>2, <4>1, <4>2
    <3>4. QED BY <3>1, <3>3
  <2>3. UNCHANGED <<config, attempt, why, stopping, object, kill, waived, faults>>
    BY <1>3 DEF BeginStart
  <2>4. QED BY <2>1, <2>2, <2>3 DEF config, object, Same
<1>4. CASE Create(t)
  BY <1>1, <1>4 DEF Create, config, object, Same
<1>5. CASE CreateReturns(t)
  BY <1>1, <1>5 DEF CreateReturns, config, remote, Same
<1>6. CASE CreateRaises(t)
  BY <1>1, <1>6 DEF CreateRaises, config, object, remote, Same
<1>7. CASE RuntimeAlive(t)
  BY <1>1, <1>7 DEF RuntimeAlive, config, task, remote, Same
<1>8. CASE SetupReturns(t)
  BY <1>1, <1>8 DEF SetupReturns, config, object, Same
<1>9. QED BY <1>2, <1>3, <1>4, <1>5, <1>6, <1>7, <1>8

\* What fails, expires or is cancelled in start().
LEMMA FailureTypes ==
  ASSUME LifeTypes, NEW t \in Tasks,
         StartFails(t) \/ StartupTimeout(t) \/ CancelEnter(t) \/ DockerStartTimeout(t)
           \/ Compensated(t)
  PROVE  LifeTypes' /\ UNCHANGED provider /\ \A u \in Tasks \ {t} : Same(u)
<1> USE DEF LifeTypes, LifecycleTypeOK, Starting, Over, Go, LeaveStart
<1>1. 0 \in 0..Len(sems) /\ Attempts \subseteq 0..Retry
  BY LenProperties DEF Attempts
<1>2. CASE StartFails(t)
  BY <1>1, <1>2 DEF StartFails, config, object, remote, Same
<1>3. ASSUME NEW c \in {"error", "cancelled"}, InterruptStart(t, c)
      PROVE  LifeTypes' /\ UNCHANGED provider /\ \A u \in Tasks \ {t} : Same(u)
  <2>1. /\ UNCHANGED <<config, attempt, stopping, object, kill>>
        /\ pc' = [pc EXCEPT ![t] = "cleanup"] /\ slot' = [slot EXCEPT ![t] = 0]
        /\ why' = [why EXCEPT ![t] = c]
        /\ UNCHANGED env \/ env' = [env EXCEPT ![t][attempt[t]] = "gone"]
        /\ \/ UNCHANGED waived
           \/ waived' = [waived EXCEPT ![t] = @ \cup {<<"create", attempt[t]>>}]
    BY <1>3 DEF InterruptStart
  <2>2. <<"create", attempt[t]>> \in {"create", "close", "stop"} \X (0..Retry)
    BY <1>1
  <2>3. waived' \in [Tasks -> SUBSET ({"create", "close", "stop"} \X (0..Retry))]
        /\ \A u \in Tasks \ {t} : waived'[u] = waived[u]
    <3>1. ASSUME waived' = [waived EXCEPT ![t] = @ \cup {<<"create", attempt[t]>>}]
          PROVE  waived' \in [Tasks -> SUBSET ({"create", "close", "stop"} \X (0..Retry))]
                 /\ \A u \in Tasks \ {t} : waived'[u] = waived[u]
      BY <2>2, <3>1
    <3>2. QED BY <2>1, <3>1
  <2>4. env' \in [Tasks -> [Attempts -> {"none", "asked", "bare", "ready", "gone"}]]
        /\ \A u \in Tasks \ {t} : env'[u] = env[u]
    <3>1. attempt[t] \in Attempts
      OBVIOUS
    <3>2. QED BY <2>1, <3>1, EnvExcept
  <2>5. LifeTypes'
    BY <1>1, <2>1, <2>3, <2>4 DEF config, object
  <2>6. QED BY <2>1, <2>3, <2>4, <2>5 DEF config, object, Same
<1>4. CASE DockerStartTimeout(t)
  BY <1>1, <1>4 DEF DockerStartTimeout, config, object, Same
<1>5. CASE Compensated(t)
  BY <1>1, <1>5 DEF Compensated, config, object, remote, Same
<1>6. QED BY <1>2, <1>3, <1>4, <1>5 DEF StartupTimeout, CancelEnter

\* stop(), and what follows it.
LEMMA StopTypes ==
  ASSUME LifeTypes, NEW t \in Tasks, TaskInv(t),
         NothingToStop(t) \/ Stop(t) \/ RuntimeClosed(t) \/ StopReturns(t)
           \/ StopTimeout(t) \/ CancelExit(t) \/ CancelCleanup(t) \/ TryAgain(t) \/ LeaveBody(t)
  PROVE  LifeTypes' /\ UNCHANGED provider /\ \A u \in Tasks \ {t} : Same(u)
<1> USE DEF LifeTypes, LifecycleTypeOK, Starting, Over, Go
<1> DEFINE Places == {"done", "raised", "cancelled", "backoff"}
<1>1. 0 \in 0..Retry /\ Attempts \subseteq 0..Retry
  BY RetryAssumption DEF Attempts
<1>2. \A end \in {"done", "raised", "cancelled"} : AfterStop(t, end) \in Places
  BY DEF AfterStop
<1>3. CASE NothingToStop(t)
  BY <1>2, <1>3 DEF NothingToStop, StopOver, config, object, remote, Same
<1>4. ASSUME SendKill(t), handle[t] # 0
      PROVE  /\ aim' \in [Tasks -> 0..Retry] /\ handle' \in [Tasks -> 0..Retry]
             /\ stopping' \in [Tasks -> {"no", "closing", "killing"}]
             /\ kill' \in [Tasks -> [Attempts -> {"none", "sent", "ok", "failed"}]]
             /\ \A u \in Tasks \ {t} : /\ aim'[u] = aim[u] /\ handle'[u] = handle[u]
                                       /\ stopping'[u] = stopping[u] /\ kill'[u] = kill[u]
  BY <1>1, <1>4 DEF SendKill
<1>5. CASE Stop(t)
  BY <1>4, <1>5 DEF Stop, config, Same
<1>6. CASE RuntimeClosed(t)
  BY <1>4, <1>6 DEF RuntimeClosed, config, Same, TaskInv, StopsOne
<1>7. CASE StopReturns(t)
  BY <1>1, <1>2, <1>7 DEF StopReturns, StopOver, Forget, config, remote, Same
<1>8. ASSUME NEW end \in {"done", "cancelled"}, InterruptStop(t, end)
      PROVE  LifeTypes' /\ UNCHANGED provider /\ \A u \in Tasks \ {t} : Same(u)
  <2>1. /\ UNCHANGED <<config, attempt, slot, why, runtime, aim, env>>
        /\ pc' = [pc EXCEPT ![t] = AfterStop(t, end)]
        /\ stopping' = [stopping EXCEPT ![t] = "no"]
    BY <1>8 DEF InterruptStop, StopOver
  <2>2. /\ handle' \in [Tasks -> 0..Retry]
        /\ \A u \in Tasks \ {t} : handle'[u] = handle[u]
    <3>1. UNCHANGED handle \/ handle' = [handle EXCEPT ![t] = 0]
      <4>1. UNCHANGED handle \/ Forget(t, "cancelled")
        BY <1>8 DEF InterruptStop
      <4>2. [handle EXCEPT ![t] = @] = handle
        OBVIOUS
      <4>3. QED BY <4>1, <4>2 DEF Forget
    <3>2. CASE UNCHANGED handle
      BY <3>2
    <3>3. CASE handle' = [handle EXCEPT ![t] = 0]
      BY <1>1, <3>3
    <3>4. QED BY <3>1, <3>2, <3>3
  <2>3. /\ kill' \in [Tasks -> [Attempts -> {"none", "sent", "ok", "failed"}]]
        /\ \A u \in Tasks \ {t} : kill'[u] = kill[u]
    <3>1. UNCHANGED kill \/ (stopping[t] = "killing" /\ kill' = [kill EXCEPT ![t][aim[t]] = "failed"])
      BY <1>8 DEF InterruptStop
    <3>2. stopping[t] = "killing" => aim[t] \in Attempts
      BY DEF TaskInv, StopsOne, Attempts
    <3>3. QED BY <3>1, <3>2, KillExcept
  <2>4. /\ waived' \in [Tasks -> SUBSET ({"create", "close", "stop"} \X (0..Retry))]
        /\ \A u \in Tasks \ {t} : waived'[u] = waived[u]
    <3> DEFINE w == IF stopping[t] = "closing" THEN <<"close", handle[t]>> ELSE <<"stop", aim[t]>>
    <3>1. w \in {"create", "close", "stop"} \X (0..Retry)
      OBVIOUS
    <3>2. waived' = [waived EXCEPT ![t] = @ \cup {w}]
      BY <1>8 DEF InterruptStop
    <3> HIDE DEF w
    <3>3. QED BY <3>1, <3>2
  <2>5. LifeTypes'
    BY <1>2, <2>1, <2>2, <2>3, <2>4 DEF config
  <2>6. QED BY <2>1, <2>2, <2>3, <2>4, <2>5 DEF config, Same
<1>9. CASE CancelCleanup(t)
  BY <1>9 DEF CancelCleanup, config, object, remote, Same
<1>10. CASE TryAgain(t)
  <2>1. attempt[t] + 1 \in Attempts
    BY <1>10, RetryAssumption DEF TryAgain, TaskInv, Untouched, Attempts
  <2>2. /\ attempt' \in [Tasks -> Attempts] /\ why' \in [Tasks -> {"none", "error", "cancelled"}]
        /\ pc' \in [Tasks -> Starting \cup Over \cup
                      {"idle", "queued", "inside", "cleanup", "exiting", "backoff"}]
        /\ \A u \in Tasks \ {t} : attempt'[u] = attempt[u] /\ why'[u] = why[u] /\ pc'[u] = pc[u]
    <3>1. CASE /\ attempt' = [attempt EXCEPT ![t] = attempt[t] + 1]
               /\ why' = [why EXCEPT ![t] = "none"] /\ Go(t, "idle")
      BY <2>1, <3>1
    <3>2. CASE Go(t, "cancelled") /\ UNCHANGED <<attempt, why>>
      BY <3>2
    <3>3. QED BY <1>10, <3>1, <3>2 DEF TryAgain
  <2>3. UNCHANGED <<config, slot, stopping, object, remote, waived>>
    BY <1>10 DEF TryAgain
  <2>4. QED BY <2>2, <2>3 DEF config, object, remote, Same
<1>11. CASE LeaveBody(t)
  BY <1>11 DEF LeaveBody, config, object, remote, Same
<1>12. QED BY <1>3, <1>5, <1>6, <1>7, <1>8, <1>9, <1>10, <1>11 DEF StopTimeout, CancelExit

\* The provider answers.
LEMMA ProviderTypes ==
  ASSUME LifeTypes, NEW t \in Tasks, NEW a \in Attempts, Created(t, a) \/ Killed(t, a)
  PROVE  LifeTypes' /\ UNCHANGED provider /\ \A u \in Tasks \ {t} : Same(u)
<1>1. /\ env' \in [Tasks -> [Attempts -> {"none", "asked", "bare", "ready", "gone"}]]
      /\ \A u \in Tasks \ {t} : env'[u] = env[u]
  BY EnvExcept DEF Created, Killed, LifeTypes, LifecycleTypeOK
<1>2. /\ kill' \in [Tasks -> [Attempts -> {"none", "sent", "ok", "failed"}]]
      /\ \A u \in Tasks \ {t} : kill'[u] = kill[u]
  BY KillExcept DEF Created, Killed, LifeTypes, LifecycleTypeOK
<1>3. UNCHANGED <<config, task, object, waived>>
  BY DEF Created, Killed
<1>4. QED BY <1>1, <1>2, <1>3 DEF LifeTypes, LifecycleTypeOK, config, task, object, Same

\* Each step of a start keeps what holds of its task.
LEMMA EnterKeepsInv ==
  ASSUME LifeTypes, NEW t \in Tasks, TaskInv(t),
         AskSlot(t) \/ BeginStart(t) \/ Create(t) \/ CreateReturns(t) \/ CreateRaises(t)
           \/ RuntimeAlive(t) \/ SetupReturns(t)
  PROVE  TaskInv(t)'
<1> USE DEF TaskInv, Over
<1>1. /\ attempt[t] \in Attempts /\ handle[t] \in 0..Retry /\ Attempts \subseteq Nat \ {0}
      /\ attempt[t] \in Nat /\ handle[t] \in Nat
      /\ stopping[t] = "no" \/ pc[t] \in {"cleanup", "exiting"}
  BY DEF LifeTypes, LifecycleTypeOK, Attempts, StopsOne
<1>2. CASE AskSlot(t)
  <2>1. /\ pc[t] = "idle" /\ pc'[t] = "queued"
        /\ UNCHANGED <<provider, attempt, why, stopping, object, remote, waived>>
    BY <1>2 DEF AskSlot, Go, LifeTypes, LifecycleTypeOK
  <2>2. QED BY <2>1 DEF Untouched, Remembers, StopsOne, Accounted, Ready, Left, Deleted, Known, object, remote
<1>3. CASE BeginStart(t)
  <2>1. pc[t] = "queued" /\ UNCHANGED <<provider, attempt, why, stopping, object, kill, waived>>
    BY <1>3 DEF BeginStart, config
  <2>2. CASE Started(t)
    <3>1. pc'[t] = "inside" /\ UNCHANGED env
      BY <1>3, <2>2 DEF BeginStart, Go, LifeTypes, LifecycleTypeOK
    <3>2. Known(t, "stop", handle[t]) \/ Known(t, "close", handle[t])
      BY <2>1, <2>2 DEF Started, VefaasStarted, Remembers
    <3>3. QED BY <2>1, <3>1, <3>2
      DEF Untouched, Remembers, StopsOne, Accounted, Ready, Left, Deleted, Known, object
  <2>3. CASE ~Started(t) /\ Prepares
    <3>1. pc'[t] = "preparing" /\ UNCHANGED env
      BY <1>3, <2>3 DEF BeginStart, Go, LifeTypes, LifecycleTypeOK
    <3>2. QED BY <2>1, <3>1
      DEF Untouched, Remembers, StopsOne, Accounted, Ready, Left, Deleted, Known, object
  <2>4. CASE ~Started(t) /\ ~Prepares
    <3>1. /\ pc'[t] = "creating" /\ env' = [env EXCEPT ![t][attempt[t]] = "asked"]
      BY <1>3, <2>4 DEF BeginStart, Go, LifeTypes, LifecycleTypeOK
    <3>2. \A b \in Attempts : env'[t][b] = IF b = attempt[t] THEN "asked" ELSE env[t][b]
      BY <1>1, <3>1, EnvExcept
    <3>3. QED BY <1>1, <2>1, <3>1, <3>2
      DEF Untouched, Remembers, StopsOne, Accounted, Ready, Left, Deleted, Known, object
  <2>5. QED BY <2>2, <2>3, <2>4
<1>4. CASE Create(t)
  <2>1. /\ pc[t] = "preparing" /\ pc'[t] = "creating"
        /\ env' = [env EXCEPT ![t][attempt[t]] = "asked"]
        /\ UNCHANGED <<provider, attempt, why, stopping, object, kill, waived>>
    BY <1>4 DEF Create, Go, config, LifeTypes, LifecycleTypeOK
  <2>2. \A b \in Attempts : env'[t][b] = IF b = attempt[t] THEN "asked" ELSE env[t][b]
    BY <1>1, <2>1, EnvExcept
  <2>3. QED BY <1>1, <2>1, <2>2
    DEF Untouched, Remembers, StopsOne, Accounted, Ready, Left, Deleted, Known, object
<1>5. CASE CreateReturns(t)
  <2>1. /\ pc[t] = "creating" /\ pc'[t] = "setting" /\ handle'[t] = attempt[t]
        /\ UNCHANGED <<provider, attempt, why, stopping, runtime, aim, remote, waived>>
    BY <1>5 DEF CreateReturns, Go, config, LifeTypes, LifecycleTypeOK
  <2>2. QED BY <1>1, <2>1
    DEF Untouched, Remembers, StopsOne, Accounted, Ready, Left, Deleted, Known, remote
<1>6. CASE CreateRaises(t)
  <2>1. /\ pc[t] = "creating" /\ env[t][attempt[t]] = "gone"
        /\ pc'[t] = "cleanup" /\ why'[t] = "error"
        /\ UNCHANGED <<provider, attempt, stopping, object, remote, waived>>
    BY <1>6 DEF CreateRaises, LeaveStart, Go, config, LifeTypes, LifecycleTypeOK
  <2>2. QED BY <1>1, <2>1
    DEF Untouched, Remembers, StopsOne, Accounted, Ready, Left, Deleted, Known, object, remote
<1>7. CASE RuntimeAlive(t)
  <2>1. /\ pc[t] = "setting" /\ provider = "vefaas"
        /\ runtime' = [runtime EXCEPT ![t] = TRUE]
        /\ UNCHANGED <<provider, task, handle, aim, remote, waived>>
    BY <1>7 DEF RuntimeAlive, config
  <2>2. QED BY <1>1, <2>1
    DEF Untouched, Remembers, StopsOne, Accounted, Ready, Left, Deleted, Known, task, remote
<1>8. CASE SetupReturns(t)
  <2>1. /\ pc[t] = "setting" /\ pc'[t] = "inside" /\ why'[t] = "none"
        /\ env' = [env EXCEPT ![t][attempt[t]] = "ready"]
        /\ UNCHANGED <<provider, attempt, stopping, object, kill, waived>>
    BY <1>8 DEF SetupReturns, LeaveStart, Go, config, LifeTypes, LifecycleTypeOK
  <2>2. \A b \in Attempts : env'[t][b] = IF b = attempt[t] THEN "ready" ELSE env[t][b]
    BY <1>1, <2>1, EnvExcept
  <2>3. handle[t] = attempt[t] /\ kill[t][attempt[t]] = "none"
    BY <2>1 DEF Remembers, Untouched
  <2>4. QED BY <1>1, <2>1, <2>2, <2>3
    DEF Untouched, Remembers, StopsOne, Accounted, Ready, Left, Deleted, Known, object
<1>9. QED BY <1>2, <1>3, <1>4, <1>5, <1>6, <1>7, <1>8

\* So does what fails, expires or is cancelled in it.
LEMMA FailureKeepsInv ==
  ASSUME LifeTypes, NEW t \in Tasks, TaskInv(t),
         StartFails(t) \/ StartupTimeout(t) \/ CancelEnter(t) \/ DockerStartTimeout(t)
           \/ Compensated(t)
  PROVE  TaskInv(t)'
<1> USE DEF TaskInv, Over
<1>1. /\ attempt[t] \in Attempts /\ handle[t] \in 0..Retry /\ Attempts \subseteq Nat \ {0}
      /\ attempt[t] \in Nat /\ handle[t] \in Nat
      /\ stopping[t] = "no" \/ pc[t] \in {"cleanup", "exiting"}
  BY DEF LifeTypes, LifecycleTypeOK, Attempts, StopsOne
<1>2. CASE StartFails(t) \/ Compensated(t)
  <2>1. /\ pc[t] \in {"preparing", "setting", "compensating"}
        /\ pc[t] = "compensating" => kill[t][attempt[t]] # "none"
        /\ pc'[t] = "cleanup" /\ why'[t] = "error"
        /\ UNCHANGED <<provider, attempt, stopping, object, remote, waived>>
    BY <1>2 DEF StartFails, Compensated, LeaveStart, Go, config, LifeTypes, LifecycleTypeOK
  <2>2. QED BY <1>1, <2>1
    DEF Untouched, Remembers, StopsOne, Accounted, Ready, Left, Deleted, Known, object, remote
<1>3. ASSUME NEW c \in {"error", "cancelled"}, InterruptStart(t, c), pc[t] \in Starting \cup {"queued"}
      PROVE  TaskInv(t)'
  <2>1. /\ pc'[t] = "cleanup" /\ why'[t] = c
        /\ UNCHANGED <<provider, attempt, stopping, object, kill>>
    BY <1>3 DEF InterruptStart, LeaveStart, Go, config, LifeTypes, LifecycleTypeOK
  <2>2. /\ waived[t] \subseteq waived'[t]
        /\ pc[t] \in {"creating", "compensating"} => <<"create", attempt[t]>> \in waived'[t]
    BY <1>3 DEF InterruptStart, LifeTypes
  <2>3. \A b \in Attempts : env'[t][b] \in {env[t][b], "gone"}
    <3>1. UNCHANGED env \/ env' = [env EXCEPT ![t][attempt[t]] = "gone"]
      BY <1>3 DEF InterruptStart
    <3>2. QED BY <1>1, <3>1, EnvExcept
  <2>4. \A b \in Attempts : b > attempt[t] => env'[t][b] = "none"
    <3>1. UNCHANGED env \/ env' = [env EXCEPT ![t][attempt[t]] = "gone"]
      BY <1>3 DEF InterruptStart
    <3>2. \A b \in Attempts : b > attempt[t] => b # attempt[t]
      BY <1>1
    <3>3. QED BY <1>1, <3>1, <3>2, EnvExcept DEF Untouched
  <2>5. Untouched(t)' /\ Remembers(t)' /\ StopsOne(t)' /\ Ready(t)'
    BY <1>1, <1>3, <2>1, <2>2, <2>4 DEF Untouched, Remembers, StopsOne, Ready, Deleted, Known, object, Starting
  <2>6. Accounted(t)'
    BY <1>1, <1>3, <2>1, <2>2, <2>3 DEF Accounted, Left, Deleted, Known, object, Starting
  <2>7. QED BY <2>5, <2>6
<1>4. CASE DockerStartTimeout(t)
  <2>1. /\ pc[t] = "creating" /\ pc'[t] = "compensating"
        /\ kill' = [kill EXCEPT ![t][attempt[t]] = "sent"]
        /\ UNCHANGED <<provider, attempt, why, stopping, object, waived>>
    BY <1>4 DEF DockerStartTimeout, Go, config, LifeTypes, LifecycleTypeOK
  <2>2. PICK made \in {"bare", "gone"} : env' = [env EXCEPT ![t][attempt[t]] = made]
    BY <1>4 DEF DockerStartTimeout
  <2>3. \A b \in Attempts : /\ env'[t][b] = IF b = attempt[t] THEN made ELSE env[t][b]
                            /\ kill'[t][b] = IF b = attempt[t] THEN "sent" ELSE kill[t][b]
    <3>1. \A b \in Attempts : env'[t][b] = IF b = attempt[t] THEN made ELSE env[t][b]
      <4>1. made \in {"none", "asked", "bare", "ready", "gone"}
        OBVIOUS
      <4>2. QED BY <1>1, <2>2, <4>1, EnvExcept
    <3>2. \A b \in Attempts : kill'[t][b] = IF b = attempt[t] THEN "sent" ELSE kill[t][b]
      BY <1>1, <2>1, KillExcept
    <3>3. QED BY <3>1, <3>2
  <2>4. QED BY <1>1, <2>1, <2>3
    DEF Untouched, Remembers, StopsOne, Accounted, Ready, Left, Deleted, Known, object, Attempts
<1>5. QED BY <1>2, <1>3, <1>4 DEF StartupTimeout, CancelEnter

\* So does stop(), and what follows it.
LEMMA StopKeepsInv ==
  ASSUME LifeTypes, NEW t \in Tasks, TaskInv(t),
         NothingToStop(t) \/ Stop(t) \/ RuntimeClosed(t) \/ StopReturns(t)
           \/ StopTimeout(t) \/ CancelExit(t) \/ CancelCleanup(t) \/ TryAgain(t) \/ LeaveBody(t)
  PROVE  TaskInv(t)'
<1> USE DEF TaskInv, Over
<1>1. /\ attempt[t] \in Attempts /\ handle[t] \in 0..Retry /\ Attempts \subseteq Nat \ {0}
      /\ attempt[t] \in Nat /\ handle[t] \in Nat /\ (handle[t] # 0 => handle[t] \in Attempts)
      /\ stopping[t] = "no" \/ pc[t] \in {"cleanup", "exiting"}
      /\ attempt[t] <= Retry /\ Retry \in Nat /\ why[t] \in {"none", "error", "cancelled"}
  BY RetryAssumption DEF LifeTypes, LifecycleTypeOK, Attempts, StopsOne
\* Where a task goes when a stop() has ended.
<1> DEFINE Next4 == {"done", "raised", "cancelled", "backoff"}
<1>2. ASSUME NEW end \in {"done", "raised", "cancelled"}, pc[t] \in {"cleanup", "exiting"}
      PROVE  /\ AfterStop(t, end) \in Next4
             /\ AfterStop(t, end) = "backoff" => attempt[t] < Retry
             /\ why[t] = "cancelled" => AfterStop(t, end) = "cancelled"
  BY <1>1, <1>2 DEF AfterStop, StopsOne
<1>3. CASE NothingToStop(t)
  <2>1. /\ pc[t] \in {"cleanup", "exiting"} /\ pc'[t] = AfterStop(t, "done") /\ handle[t] = 0
        /\ stopping'[t] = "no"
        /\ UNCHANGED <<provider, attempt, why, object, remote, waived>>
    BY <1>3 DEF NothingToStop, StopOver, Go, config, LifeTypes, LifecycleTypeOK
  <2>2. /\ pc'[t] \in Next4 /\ (pc'[t] = "backoff" => attempt[t] < Retry)
        /\ why[t] = "cancelled" => pc'[t] = "cancelled"
    BY <1>2, <2>1
  <2>3. QED BY <1>1, <2>1, <2>2
    DEF Untouched, Remembers, StopsOne, Accounted, Ready, Left, Deleted, Known, object, remote
<1>4. ASSUME SendKill(t), handle[t] # 0, pc[t] \in {"cleanup", "exiting"}, ~runtime'[t],
             UNCHANGED <<provider, pc, attempt, why, env, waived>>
      PROVE  TaskInv(t)'
  <2>1. /\ aim'[t] = handle[t] /\ handle'[t] \in {0, handle[t]} /\ stopping'[t] = "killing"
        /\ kill' = [kill EXCEPT ![t][handle[t]] = "sent"]
    BY <1>4 DEF SendKill, LifeTypes, LifecycleTypeOK
  <2>2. \A b \in Attempts : kill'[t][b] = IF b = handle[t] THEN "sent" ELSE kill[t][b]
    BY <1>1, <1>4, <2>1, KillExcept
  <2>3. QED BY <1>1, <1>4, <2>1, <2>2
    DEF Untouched, Remembers, StopsOne, Accounted, Ready, Left, Deleted, Known
<1>5. CASE Stop(t)
  <2>1. /\ pc[t] \in {"cleanup", "exiting"} /\ stopping[t] = "no" /\ handle[t] # 0
        /\ UNCHANGED <<provider, pc, attempt, why, runtime, env, waived>>
    BY <1>5 DEF Stop, config
  <2>2. CASE runtime[t]
    <3>1. stopping'[t] = "closing" /\ UNCHANGED <<aim, kill, handle>>
      BY <1>5, <2>2 DEF Stop, LifeTypes, LifecycleTypeOK
    <3>2. QED BY <1>1, <2>1, <2>2, <3>1
      DEF Untouched, Remembers, StopsOne, Accounted, Ready, Left, Deleted, Known
  <2>3. CASE ~runtime[t]
    BY <1>4, <1>5, <2>1, <2>3 DEF Stop
  <2>4. QED BY <2>2, <2>3
<1>6. CASE RuntimeClosed(t)
  <2>1. /\ stopping[t] = "closing" /\ ~runtime'[t] /\ SendKill(t)
        /\ UNCHANGED <<provider, pc, attempt, why, env, waived>>
    BY <1>6 DEF RuntimeClosed, config, LifeTypes, LifecycleTypeOK
  <2>2. QED BY <1>4, <2>1 DEF StopsOne
<1>7. CASE StopReturns(t)
  <2>1. PICK end \in {"done", "raised"} : pc'[t] = AfterStop(t, end)
    BY <1>7 DEF StopReturns, StopOver, Go, LifeTypes, LifecycleTypeOK
  <2>2. /\ stopping[t] = "killing" /\ stopping'[t] = "no"
        /\ UNCHANGED <<provider, attempt, why, runtime, aim, remote, waived>>
        /\ handle'[t] = IF Keeps(kill[t][aim[t]]) THEN handle[t] ELSE 0
        /\ kill[t][aim[t]] \in {"ok", "failed"}
    BY <1>7 DEF StopReturns, StopOver, Forget, config, LifeTypes, LifecycleTypeOK
  <2>3. /\ pc'[t] \in Next4 /\ (pc'[t] = "backoff" => attempt[t] < Retry)
        /\ why[t] = "cancelled" => pc'[t] = "cancelled"
    BY <1>1, <1>2, <2>1, <2>2
  <2>4. /\ handle[t] \in {0, aim[t]} /\ aim[t] # 0 /\ kill[t][aim[t]] # "none" /\ ~runtime[t]
    BY <2>2 DEF StopsOne, Remembers
  <2>5. handle'[t] # 0 => provider = "vefaas" /\ handle'[t] = handle[t]
    BY <2>2 DEF Keeps, VefaasKeeps, YuanrongKeeps
  <2>6. handle'[t] \in {0, handle[t]}
    BY <2>2
  <2>7. QED BY <1>1, <2>2, <2>3, <2>4, <2>5, <2>6
    DEF Untouched, Remembers, StopsOne, Accounted, Ready, Left, Deleted, Known, remote
<1>8. ASSUME NEW end \in {"done", "cancelled"}, InterruptStop(t, end)
      PROVE  TaskInv(t)'
  <2>1. /\ pc'[t] = AfterStop(t, end) /\ stopping[t] # "no" /\ stopping'[t] = "no"
        /\ UNCHANGED <<provider, attempt, why, runtime, aim, env>>
    BY <1>8 DEF InterruptStop, StopOver, Go, config, LifeTypes, LifecycleTypeOK
  <2>2. /\ pc'[t] \in Next4 /\ (pc'[t] = "backoff" => attempt[t] < Retry)
        /\ why[t] = "cancelled" => pc'[t] = "cancelled"
    BY <1>1, <1>2, <2>1
  <2>3. /\ waived[t] \subseteq waived'[t]
        /\ stopping[t] = "closing" => <<"close", handle[t]>> \in waived'[t]
        /\ stopping[t] = "killing" => <<"stop", aim[t]>> \in waived'[t]
    BY <1>8 DEF InterruptStop, LifeTypes
  <2>4. /\ stopping[t] = "closing" => handle'[t] = handle[t]
        /\ stopping[t] = "killing" =>
             handle'[t] \in {0, handle[t]} /\ (~Keeps("cancelled") => handle'[t] = 0)
    BY <1>8 DEF InterruptStop, Forget, LifeTypes, LifecycleTypeOK
  <2>5. \A b \in Attempts : kill'[t][b] = kill[t][b] \/ (kill'[t][b] = "failed" /\ kill[t][b] = "sent")
    <3>1. \/ UNCHANGED kill
          \/ /\ stopping[t] = "killing" /\ kill[t][aim[t]] = "sent"
             /\ kill' = [kill EXCEPT ![t][aim[t]] = "failed"]
      BY <1>8 DEF InterruptStop
    <3>2. stopping[t] = "killing" => aim[t] \in Attempts
      BY DEF StopsOne, LifeTypes, LifecycleTypeOK, Attempts
    <3>3. QED BY <3>1, <3>2, KillExcept
  <2>6. stopping[t] \in {"closing", "killing"}
    BY <2>1 DEF LifeTypes, LifecycleTypeOK
  <2>7. CASE stopping[t] = "closing"
    <3>1. handle'[t] = handle[t] /\ handle[t] # 0 /\ provider = "vefaas"
          /\ <<"close", handle[t]>> \in waived'[t]
      BY <2>3, <2>4, <2>7 DEF StopsOne
    <3>2. QED BY <1>1, <2>1, <2>2, <2>3, <2>5, <3>1
      DEF Untouched, Remembers, StopsOne, Accounted, Ready, Left, Deleted, Known
  <2>8. CASE stopping[t] = "killing"
    <3>1. /\ handle[t] \in {0, aim[t]} /\ aim[t] # 0 /\ kill[t][aim[t]] # "none" /\ ~runtime[t]
          /\ aim[t] \in Attempts
      BY <2>8 DEF StopsOne, Remembers, LifeTypes, LifecycleTypeOK, Attempts
    <3>2. kill'[t][aim[t]] # "none"
      BY <2>5, <3>1
    <3>3. QED BY <1>1, <2>1, <2>2, <2>3, <2>4, <2>5, <2>8, <3>1, <3>2
      DEF Untouched, Remembers, StopsOne, Accounted, Ready, Left, Deleted, Known
  <2>9. QED BY <2>6, <2>7, <2>8
<1>9. CASE CancelCleanup(t)
  <2>1. /\ pc[t] = "cleanup"
        /\ UNCHANGED <<provider, pc, attempt, stopping, object, remote, waived>>
    BY <1>9 DEF CancelCleanup, config
  <2>2. QED BY <2>1
    DEF Untouched, Remembers, StopsOne, Accounted, Ready, Left, Deleted, Known, object, remote
<1>10. CASE TryAgain(t)
  <2>1. pc[t] = "backoff" /\ UNCHANGED <<provider, stopping, object, remote, waived>>
    BY <1>10 DEF TryAgain, config
  <2>2. CASE pc'[t] = "idle" /\ attempt'[t] = attempt[t] + 1 /\ why'[t] = "none"
    <3>1. attempt[t] + 1 \in Attempts /\ attempt[t] + 1 > attempt[t]
      BY <1>1, <2>1 DEF Untouched, Attempts
    <3>2. \A a \in Attempts : a > attempt[t] + 1 => a > attempt[t]
      BY <1>1 DEF Attempts
    <3>3. handle[t] < attempt[t] + 1
      BY <1>1 DEF Remembers
    <3>4. QED BY <1>1, <2>1, <2>2, <3>1, <3>2, <3>3
      DEF Untouched, Remembers, StopsOne, Accounted, Ready, Left, Deleted, Known, object, remote
  <2>3. CASE pc'[t] = "cancelled" /\ UNCHANGED <<attempt, why>>
    BY <1>1, <2>1, <2>3
    DEF Untouched, Remembers, StopsOne, Accounted, Ready, Left, Deleted, Known, object, remote
  <2>4. QED BY <1>10, <2>2, <2>3 DEF TryAgain, Go, LifeTypes, LifecycleTypeOK
<1>11. CASE LeaveBody(t)
  <2>1. /\ pc[t] = "inside" /\ pc'[t] = "exiting"
        /\ UNCHANGED <<provider, attempt, why, stopping, object, remote, waived>>
    BY <1>11 DEF LeaveBody, Go, config, LifeTypes, LifecycleTypeOK
  <2>2. QED BY <1>1, <2>1
    DEF Untouched, Remembers, StopsOne, Accounted, Ready, Left, Deleted, Known, object, remote
<1>12. QED BY <1>3, <1>5, <1>6, <1>7, <1>8, <1>9, <1>10, <1>11 DEF StopTimeout, CancelExit

\* And so do the answers of the provider.
LEMMA ProviderKeepsInv ==
  ASSUME LifeTypes, NEW t \in Tasks, TaskInv(t), NEW a \in Attempts, Created(t, a) \/ Killed(t, a)
  PROVE  TaskInv(t)'
<1> USE DEF TaskInv, Over
<1>1. /\ attempt[t] \in Attempts /\ handle[t] \in Nat /\ (handle[t] # 0 => handle[t] \in Attempts)
      /\ aim[t] # 0 => aim[t] \in Attempts
  BY RetryAssumption DEF LifeTypes, LifecycleTypeOK, Attempts
<1>2. UNCHANGED <<provider, task, object, waived>>
  BY DEF Created, Killed, config
<1>3. CASE Created(t, a)
  <2>1. env[t][a] = "asked" /\ UNCHANGED kill
    BY <1>3 DEF Created
  <2>2. PICK state \in {"bare", "gone"} : env' = [env EXCEPT ![t][a] = state]
    BY <1>3 DEF Created
  <2>3. state \in {"none", "asked", "bare", "ready", "gone"}
    OBVIOUS
  <2>4. \A b \in Attempts : env'[t][b] = IF b = a THEN state ELSE env[t][b]
    BY <2>2, <2>3, EnvExcept
  <2>5. QED BY <1>1, <1>2, <2>1, <2>4
    DEF Untouched, Remembers, StopsOne, Accounted, Ready, Left, Deleted, Known, task, object
<1>4. CASE Killed(t, a)
  <2>1. kill[t][a] = "sent"
    BY <1>4 DEF Killed
  <2>2. PICK state \in {"ok", "failed"} : kill' = [kill EXCEPT ![t][a] = state]
    BY <1>4 DEF Killed
  <2>3. state \in {"none", "sent", "ok", "failed"}
    OBVIOUS
  <2>4. \A b \in Attempts : kill'[t][b] = IF b = a THEN state ELSE kill[t][b]
    BY <2>2, <2>3, KillExcept
  <2>5. \A b \in Attempts : env'[t][b] = env[t][b] \/ (b = a /\ env'[t][b] = "gone")
    <3>1. UNCHANGED env \/ env' = [env EXCEPT ![t][a] = "gone"]
      BY <1>4 DEF Killed
    <3>2. QED BY <3>1, EnvExcept
  <2>6. QED BY <1>1, <1>2, <2>1, <2>4, <2>5
    DEF Untouched, Remembers, StopsOne, Accounted, Ready, Left, Deleted, Known, task, object
<1>5. QED BY <1>3, <1>4

\* The slots of a semaphore are held by tasks, so that their number is one.
LEMMA HoldersFinite ==
  ASSUME NEW g
  PROVE  IsFiniteSet(Holders(g)) /\ Cardinality(Holders(g)) \in Nat
<1>1. Holders(g) \subseteq Tasks
  BY DEF Holders
<1>2. QED BY <1>1, TasksAssumption, FS_Subset, FS_CardinalityType

\* A step that lets no task ask for a slot or take one.
LEMMA SlotsKept ==
  ASSUME LifeTypes, SlotsHeld, UNCHANGED <<sems, limit, changes>>,
         \A u \in Tasks : pc'[u] \in Starting \cup {"queued"} =>
           /\ pc[u] \in Starting \cup {"queued"} /\ slot'[u] = slot[u]
           /\ pc'[u] \in Starting => pc[u] \in Starting
  PROVE  SlotsHeld'
<1>1. ASSUME NEW g \in 1..Len(sems)
      PROVE  sems[g] > 0 /\ Cardinality(Holders(g)') <= sems[g]
  <2>1. Holders(g)' \subseteq Holders(g)
    BY DEF Holders
  <2>2. IsFiniteSet(Holders(g)) /\ Cardinality(Holders(g)) \in Nat
    BY HoldersFinite
  <2>3. Cardinality(Holders(g)') <= Cardinality(Holders(g)) /\ Cardinality(Holders(g)') \in Nat
    BY <2>1, <2>2, FS_Subset, FS_CardinalityType
  <2>4. sems[g] \in Int /\ sems[g] > 0 /\ Cardinality(Holders(g)) <= sems[g]
    BY LimitsAssumption, ElementOfSeq DEF SlotsHeld, LifeTypes, LifecycleTypeOK
  <2>5. QED BY <2>2, <2>3, <2>4
<1>2. QED BY <1>1 DEF SlotsHeld

LEMMA SlotsStep ==
  ASSUME LifeTypes, \A t \in Tasks : TaskInv(t), SlotsHeld, Next
  PROVE  SlotsHeld'
<1> USE DEF LifeTypes, LifecycleTypeOK, Starting, Go
<1>1. ASSUME NEW l \in Limits, ChangeLimit(l) PROVE SlotsHeld'
  <2>1. UNCHANGED <<sems, pc, slot>> /\ changes' # 0
    BY <1>1 DEF ChangeLimit, task
  <2>2. QED BY <2>1 DEF SlotsHeld, Holders
<1>2. ASSUME NEW t \in Tasks, AskSlot(t) PROVE SlotsHeld'
  <2>1. /\ pc[t] = "idle" /\ pc'[t] = "queued" /\ sems' = Registered
        /\ slot'[t] = IF limit <= 0 THEN 0 ELSE Len(sems')
        /\ \A u \in Tasks \ {t} : pc'[u] = pc[u] /\ slot'[u] = slot[u]
        /\ UNCHANGED <<limit, changes>>
    BY <1>2 DEF AskSlot
  <2>2. ASSUME NEW g PROVE Holders(g)' = Holders(g)
    BY <2>1 DEF Holders
  <2>3. CASE sems' = sems
    <3>1. limit > 0 => sems # <<>>
      BY <2>1, <2>3, LimitsAssumption, EmptySeq, AppendProperties DEF Registered
    <3>2. changes = 0 /\ limit > 0 => Len(sems) = 1
      <4>1. Len(<<limit>>) = 1
        OBVIOUS
      <4>2. QED BY <3>1, <4>1 DEF SlotsHeld
    <3>3. changes = 0 /\ limit > 0 =>
            \A u \in Tasks : pc'[u] \in Starting \cup {"queued"} => slot'[u] = 1
      <4>1. limit > 0 => ~(limit <= 0)
        BY LimitsAssumption
      <4>2. QED BY <2>1, <2>3, <3>2, <4>1 DEF SlotsHeld
    <3>4. \A g \in 1..Len(sems) : sems'[g] > 0 /\ Cardinality(Holders(g)') <= sems'[g]
      BY <2>2, <2>3 DEF SlotsHeld
    <3>5. QED BY <2>1, <2>3, <3>3, <3>4 DEF SlotsHeld
  <2>4. CASE sems' # sems
    <3>1. limit > 0 /\ sems' = Append(sems, limit) /\ (sems # <<>> => Last(sems) # limit)
      BY <2>1, <2>4, LimitsAssumption DEF Registered
    <3>2. /\ Len(sems') = Len(sems) + 1 /\ Len(sems) \in Nat
          /\ \A g \in 1..Len(sems) : sems'[g] = sems[g]
          /\ sems'[Len(sems) + 1] = limit
      BY <3>1, AppendProperties, LenProperties
    <3>3. Holders(Len(sems) + 1) = {}
      BY <3>2 DEF Holders
    <3>4. \A g \in 1..Len(sems') : sems'[g] > 0 /\ Cardinality(Holders(g)') <= sems'[g]
      <4> TAKE g \in 1..Len(sems')
      <4>1. CASE g \in 1..Len(sems)
        BY <2>2, <3>2, <4>1 DEF SlotsHeld
      <4>2. CASE g = Len(sems) + 1
        <5>1. Cardinality(Holders(g)') = 0
          BY <2>2, <3>3, <4>2, FS_EmptySet
        <5>2. sems'[g] = limit /\ limit > 0 /\ limit \in Int
          BY <3>1, <3>2, <4>2, LimitsAssumption
        <5>3. QED BY <5>1, <5>2
      <4>3. QED BY <3>2, <4>1, <4>2
    <3>5. changes = 0 => sems = <<>>
      <4>1. Last(<<limit>>) = limit /\ <<limit>> # <<>>
        BY DEF Last
      <4>2. QED BY <3>1, <4>1 DEF SlotsHeld
    <3>6. changes = 0 => sems' = <<limit>>
      <4>1. Append(<<>>, limit) = <<limit>>
        OBVIOUS
      <4>2. QED BY <3>1, <3>5, <4>1
    <3>7. changes = 0 => \A u \in Tasks : pc'[u] \in Starting \cup {"queued"} => slot'[u] = 1
      <4>1. changes = 0 => Len(sems') = 1
        BY <3>2, <3>5, EmptySeq
      <4>2. slot'[t] = Len(sems')
        BY <2>1, <3>1, LimitsAssumption
      <4>3. QED BY <2>1, <3>1, <4>1, <4>2 DEF SlotsHeld
    <3>8. QED BY <2>1, <3>4, <3>6, <3>7 DEF SlotsHeld
  <2>5. QED BY <2>3, <2>4
<1>3. ASSUME NEW t \in Tasks, BeginStart(t) PROVE SlotsHeld'
  <2>1. /\ pc[t] = "queued" /\ UNCHANGED <<sems, limit, changes>>
        /\ slot[t] # 0 => Cardinality(Holders(slot[t])) < sems[slot[t]]
        /\ \A u \in Tasks \ {t} : pc'[u] = pc[u] /\ slot'[u] = slot[u]
        /\ pc'[t] = "inside" \/ (pc'[t] \in {"preparing", "creating"} /\ slot'[t] = slot[t])
    BY <1>3 DEF BeginStart, config
  <2>2. ASSUME NEW g \in 1..Len(sems)
        PROVE  sems[g] > 0 /\ Cardinality(Holders(g)') <= sems[g]
    <3>1. sems[g] \in Int /\ sems[g] > 0 /\ Cardinality(Holders(g)) <= sems[g]
      BY LimitsAssumption, ElementOfSeq DEF SlotsHeld
    <3>2. IsFiniteSet(Holders(g)) /\ Cardinality(Holders(g)) \in Nat
      BY HoldersFinite
    <3>3. CASE slot[t] # g
      <4>1. Holders(g)' \subseteq Holders(g)
        BY <2>1, <3>3 DEF Holders
      <4>2. Cardinality(Holders(g)') <= Cardinality(Holders(g)) /\ Cardinality(Holders(g)') \in Nat
        BY <3>2, <4>1, FS_Subset, FS_CardinalityType
      <4>3. QED BY <3>1, <3>2, <4>2
    <3>4. CASE slot[t] = g
      <4>1. Holders(g)' \subseteq Holders(g) \cup {t}
        BY <2>1 DEF Holders
      <4>2. IsFiniteSet(Holders(g) \cup {t})
            /\ Cardinality(Holders(g) \cup {t}) <= Cardinality(Holders(g)) + 1
        <5>1. /\ IsFiniteSet(Holders(g) \cup {t})
              /\ Cardinality(Holders(g) \cup {t}) =
                   IF t \in Holders(g) THEN Cardinality(Holders(g)) ELSE Cardinality(Holders(g)) + 1
          BY <3>2, FS_AddElement
        <5>2. QED BY <3>2, <5>1
      <4>3. /\ Cardinality(Holders(g)') <= Cardinality(Holders(g) \cup {t})
            /\ Cardinality(Holders(g)') \in Nat /\ Cardinality(Holders(g) \cup {t}) \in Nat
        BY <4>1, <4>2, FS_Subset, FS_CardinalityType
      <4>4. Cardinality(Holders(g)) < sems[g]
        BY <2>1, <3>4
      <4>5. QED BY <3>1, <3>2, <4>2, <4>3, <4>4
    <3>5. QED BY <3>3, <3>4
  <2>3. changes = 0 /\ limit > 0 =>
          \A u \in Tasks : pc'[u] \in Starting \cup {"queued"} => slot'[u] = 1
    BY <2>1 DEF SlotsHeld
  <2>4. QED BY <2>1, <2>2, <2>3 DEF SlotsHeld
<1>4. ASSUME NEW t \in Tasks,
             Create(t) \/ CreateReturns(t) \/ CreateRaises(t) \/ RuntimeAlive(t) \/ SetupReturns(t)
      PROVE  SlotsHeld'
  BY <1>4, SlotsKept DEF Create, CreateReturns, CreateRaises, RuntimeAlive, SetupReturns, LeaveStart,
    config, task
<1>5. ASSUME NEW t \in Tasks,
             StartFails(t) \/ StartupTimeout(t) \/ CancelEnter(t) \/ DockerStartTimeout(t)
               \/ Compensated(t)
      PROVE  SlotsHeld'
  BY <1>5, SlotsKept DEF StartFails, StartupTimeout, CancelEnter, InterruptStart, DockerStartTimeout,
    Compensated, LeaveStart, config
<1>6. ASSUME NEW t \in Tasks,
             NothingToStop(t) \/ StopReturns(t) \/ StopTimeout(t) \/ CancelExit(t)
      PROVE  SlotsHeld'
  <2>1. AfterStop(t, "done") \notin Starting \cup {"queued"} /\ AfterStop(t, "raised") \notin Starting \cup {"queued"}
        /\ AfterStop(t, "cancelled") \notin Starting \cup {"queued"}
    BY DEF AfterStop
  <2>2. /\ UNCHANGED <<sems, limit, changes, slot>>
        /\ \E end \in {"done", "raised", "cancelled"} : pc' = [pc EXCEPT ![t] = AfterStop(t, end)]
    BY <1>6 DEF NothingToStop, StopReturns, StopTimeout, CancelExit, InterruptStop, StopOver, config
  <2>3. \A u \in Tasks : pc'[u] \in Starting \cup {"queued"} => u # t /\ pc'[u] = pc[u]
    BY <2>1, <2>2
  <2>4. QED BY <2>2, <2>3, SlotsKept
<1>7. ASSUME NEW t \in Tasks,
             Stop(t) \/ RuntimeClosed(t) \/ CancelCleanup(t) \/ TryAgain(t) \/ LeaveBody(t)
      PROVE  SlotsHeld'
  BY <1>7, SlotsKept DEF Stop, RuntimeClosed, CancelCleanup, TryAgain, LeaveBody, config
<1>8. ASSUME NEW t \in Tasks, NEW a \in Attempts, Created(t, a) \/ Killed(t, a) PROVE SlotsHeld'
  BY <1>8, SlotsKept DEF Created, Killed, config, task
<1>9. CASE Terminated
  BY <1>9, SlotsKept DEF Terminated, vars, config, task
<1>10. QED BY <1>1, <1>2, <1>3, <1>4, <1>5, <1>6, <1>7, <1>8, <1>9 DEF Next

LEMMA LifeInvStep == LifeInv /\ [Next]_vars => LifeInv'
<1> SUFFICES ASSUME LifeInv, [Next]_vars PROVE LifeInv'
  OBVIOUS
<1> USE DEF LifeInv
<1>1. CASE UNCHANGED vars
  <2>1. UNCHANGED <<config, task, object, remote, waived>>
    BY <1>1 DEF vars
  <2>2. LifeTypes'
    BY <2>1 DEF config, task, object, remote, LifeTypes, LifecycleTypeOK
  <2>3. \A u \in Tasks : TaskInv(u)'
    <3>1. \A u \in Tasks : Same(u) /\ UNCHANGED provider
      BY <2>1 DEF config, task, object, remote, Same
    <3>2. QED BY <3>1, OthersKeepInv
  <2>4. SlotsHeld'
    BY <2>1, SlotsKept DEF config, task
  <2>5. QED BY <2>2, <2>3, <2>4
<1>2. ASSUME NEW t \in Tasks, LifeTypes' /\ UNCHANGED provider /\ (\A u \in Tasks \ {t} : Same(u)),
             TaskInv(t)'
      PROVE  LifeTypes' /\ \A u \in Tasks : TaskInv(u)'
  BY <1>2, OthersKeepInv
<1>3. CASE Next
  <2>1. SlotsHeld'
    BY <1>3, SlotsStep
  <2>2. ASSUME NEW l \in Limits, ChangeLimit(l) PROVE LifeTypes' /\ \A u \in Tasks : TaskInv(u)'
    <3>1. LifeTypes'
      BY <2>2 DEF ChangeLimit, task, object, remote, LifeTypes, LifecycleTypeOK
    <3>2. \A u \in Tasks : Same(u)
      BY <2>2 DEF ChangeLimit, task, object, remote, Same
    <3>3. UNCHANGED provider
      BY <2>2 DEF ChangeLimit
    <3>4. QED BY <3>1, <3>2, <3>3, OthersKeepInv
  <2>3. ASSUME NEW t \in Tasks,
               AskSlot(t) \/ BeginStart(t) \/ Create(t) \/ CreateReturns(t) \/ CreateRaises(t)
                 \/ RuntimeAlive(t) \/ SetupReturns(t)
        PROVE  LifeTypes' /\ \A u \in Tasks : TaskInv(u)'
    BY <1>2, <2>3, EnterTypes, EnterKeepsInv
  <2>4. ASSUME NEW t \in Tasks,
               StartFails(t) \/ StartupTimeout(t) \/ CancelEnter(t) \/ DockerStartTimeout(t)
                 \/ Compensated(t)
        PROVE  LifeTypes' /\ \A u \in Tasks : TaskInv(u)'
    BY <1>2, <2>4, FailureTypes, FailureKeepsInv
  <2>5. ASSUME NEW t \in Tasks,
               NothingToStop(t) \/ Stop(t) \/ RuntimeClosed(t) \/ StopReturns(t) \/ StopTimeout(t)
                 \/ CancelExit(t) \/ CancelCleanup(t) \/ TryAgain(t) \/ LeaveBody(t)
        PROVE  LifeTypes' /\ \A u \in Tasks : TaskInv(u)'
    BY <1>2, <2>5, StopTypes, StopKeepsInv
  <2>6. ASSUME NEW t \in Tasks, NEW a \in Attempts, Created(t, a) \/ Killed(t, a)
        PROVE  LifeTypes' /\ \A u \in Tasks : TaskInv(u)'
    BY <1>2, <2>6, ProviderTypes, ProviderKeepsInv
  <2>7. LifeTypes' /\ \A u \in Tasks : TaskInv(u)'
    BY <1>1, <1>3, <2>2, <2>3, <2>4, <2>5, <2>6 DEF Next, Terminated
  <2>8. QED BY <2>1, <2>7
<1>4. QED BY <1>1, <1>3

\* The properties of the run follow.
LEMMA LifeInvSound == LifeInv => LifecycleSound
<1> SUFFICES ASSUME LifeInv PROVE LifecycleSound
  OBVIOUS
<1> USE DEF LifeInv, TaskInv
<1>1. LifecycleTypeOK
  BY DEF LifeTypes
<1>2. EveryEnvironmentDeleted
  <2> SUFFICES ASSUME NEW t \in Tasks, pc[t] \in Over, NEW a \in Left(t)
               PROVE  \/ kill[t][a] # "none"
                      \/ <<"create", a>> \in waived[t] \/ <<"close", a>> \in waived[t]
    BY DEF EveryEnvironmentDeleted
  <2>1. pc[t] # "creating" /\ a # 0
    BY DEF Over, Left, Attempts
  <2>2. Deleted(t, a) \/ Known(t, "create", a) \/ handle[t] = a
    BY <2>1 DEF Accounted
  <2>3. QED BY <2>1, <2>2 DEF Remembers, Deleted, Known
<1>3. ReadyMeansSetUp
  <2> SUFFICES ASSUME NEW t \in Tasks, pc[t] = "inside"
               PROVE  \/ /\ handle[t] # 0 /\ env[t][handle[t]] = "ready"
                         /\ kill[t][handle[t]] = "none"
                      \/ \E w \in waived[t] : w[1] \in {"stop", "close"} /\ w[2] = handle[t]
    BY DEF ReadyMeansSetUp
  <2>1. \A kind : <<kind, handle[t]>>[1] = kind /\ <<kind, handle[t]>>[2] = handle[t]
    OBVIOUS
  <2>2. QED BY <2>1 DEF Ready, Known
<1>4. StartupsBounded
  <2>1. CASE changes = 0 /\ limit > 0
    <3>1. CASE sems = <<limit>>
      <4>1. Len(sems) = 1 /\ sems[1] = limit
        BY <3>1
      <4>2. {t \in Tasks : pc[t] \in Starting} = Holders(1)
        BY <2>1 DEF SlotsHeld, Holders
      <4>3. Cardinality(Holders(1)) <= sems[1]
        BY <4>1 DEF SlotsHeld
      <4>4. QED BY <2>1, <4>1, <4>2, <4>3 DEF StartupsBounded
    <3>2. CASE sems = <<>>
      <4>1. \A t \in Tasks : slot[t] = 0
        BY <3>2, EmptySeq DEF LifeTypes, LifecycleTypeOK
      <4>2. {t \in Tasks : pc[t] \in Starting} = {}
        BY <2>1, <4>1 DEF SlotsHeld
      <4>3. limit \in Int
        BY LimitsAssumption DEF LifeTypes, LifecycleTypeOK
      <4>4. QED BY <2>1, <4>2, <4>3, FS_EmptySet DEF StartupsBounded
    <3>3. QED BY <2>1, <3>1, <3>2 DEF SlotsHeld
  <2>2. CASE changes = 0 /\ ~(limit > 0)
    BY <2>2 DEF StartupsBounded
  <2>3. CASE changes # 0
    <3>1. DOMAIN sems = 1..Len(sems)
      BY LenProperties DEF LifeTypes, LifecycleTypeOK
    <3>2. QED BY <2>3, <3>1 DEF StartupsBounded, SlotsHeld
  <2>4. QED BY <2>1, <2>2, <2>3
<1>5. QED BY <1>1, <1>2, <1>3, <1>4 DEF LifecycleSound

\* For any tasks, attempts, limits and providers, and however often something
\* fails, expires or is cancelled: what a task asked for is gone or its deletion
\* was sent, a body runs where start() has finished, and no semaphore is held by
\* more starts than it has slots.
THEOREM SandboxesCleanUp == SandboxSpec => []LifecycleSound
<1>1. SandboxInit => LifeInv
  BY LifeInvInit DEF SandboxInit
<1>2. LifeInv /\ [SandboxNext]_<<parts, part>> => LifeInv'
  BY PartSteps, LifeInvStep
<1>3. QED BY <1>1, <1>2, LifeInvSound, PTL DEF SandboxSpec

\* A cancellation is kept: the steps that set why[t] start from where it is not
\* cancelled.
LEMMA CancellationKept ==
  ASSUME LifeInv, LifeInv', [Next]_vars, NEW t \in Tasks, why[t] = "cancelled"
  PROVE  why'[t] = "cancelled" /\ pc'[t] \in {"cleanup", "cancelled"}
<1> USE DEF LifeInv, LifeTypes, LifecycleTypeOK, TaskInv, StopsOne
<1>1. pc[t] \in {"cleanup", "cancelled"}
  OBVIOUS
<1>2. why'[t] = "cancelled"
  <2>1. ASSUME NEW u \in Tasks,
               CreateRaises(u) \/ SetupReturns(u) \/ StartFails(u) \/ StartupTimeout(u)
                 \/ CancelEnter(u) \/ Compensated(u)
        PROVE  why'[t] = "cancelled"
    <3>1. pc[u] \in Starting \cup {"queued"} /\ \E where, c : LeaveStart(u, where, c)
      BY <2>1 DEF CreateRaises, SetupReturns, StartFails, StartupTimeout, CancelEnter,
        InterruptStart, Compensated, Starting
    <3>2. u # t
      BY <1>1, <3>1 DEF Starting
    <3>3. QED BY <3>1, <3>2 DEF LeaveStart
  <2>2. ASSUME NEW u \in Tasks, CancelCleanup(u) \/ TryAgain(u) PROVE why'[t] = "cancelled"
    BY <1>1, <2>2 DEF CancelCleanup, TryAgain
  <2>3. ASSUME NEW u \in Tasks,
               AskSlot(u) \/ BeginStart(u) \/ Create(u) \/ CreateReturns(u) \/ RuntimeAlive(u)
                 \/ DockerStartTimeout(u) \/ NothingToStop(u) \/ Stop(u) \/ RuntimeClosed(u)
                 \/ StopReturns(u) \/ StopTimeout(u) \/ CancelExit(u) \/ LeaveBody(u)
        PROVE  why'[t] = "cancelled"
    BY <2>3 DEF AskSlot, BeginStart, Create, CreateReturns, RuntimeAlive, DockerStartTimeout,
      NothingToStop, Stop, RuntimeClosed, StopReturns, StopTimeout, CancelExit, InterruptStop,
      LeaveBody, task
  <2>4. ASSUME NEW u \in Tasks, NEW a \in Attempts, Created(u, a) \/ Killed(u, a)
        PROVE  why'[t] = "cancelled"
    BY <2>4 DEF Created, Killed, task
  <2>5. ASSUME NEW l \in Limits, ChangeLimit(l) PROVE why'[t] = "cancelled"
    BY <2>5 DEF ChangeLimit, task
  <2>6. CASE UNCHANGED vars
    BY <2>6 DEF vars, task
  <2>7. QED BY <2>1, <2>2, <2>3, <2>4, <2>5, <2>6 DEF Next, Terminated
<1>3. QED BY <1>2

\* An enter that was cancelled is not retried, whatever happens in its cleanup.
THEOREM CancelledEnds == SandboxSpec => CancelledNeverRetries
<1>1. SandboxInit => LifeInv
  BY LifeInvInit DEF SandboxInit
<1>2. LifeInv /\ [SandboxNext]_<<parts, part>> => LifeInv'
  BY PartSteps, LifeInvStep
<1>3. ASSUME LifeInv, LifeInv', [SandboxNext]_<<parts, part>>
      PROVE  [\A t \in Tasks : why[t] = "cancelled" =>
                why'[t] = "cancelled" /\ pc'[t] \in {"cleanup", "cancelled"}]_vars
  BY <1>3, PartSteps, CancellationKept
<1>4. QED BY <1>1, <1>2, <1>3, PTL DEF SandboxSpec, CancelledNeverRetries

-----------------------------------------------------------------------------
(* agent_dx: AgentDxSandbox.                                               *)

\* The types, flag by flag.
DxPlaces ==
  /\ owner \in OwnerOver \cup
       {"entering", "creating", "settling", "setting", "rollback", "cleanup",
        "cleaning", "inside", "exiting", "stopping"}
  /\ try \in 1..Tries /\ cause \in {"none", "error", "cancelled"}
  /\ lock \in {"free", "owner", "timer"} \cup Commands
  /\ timer \in {"none", "armed", "fired", "stopping", "over"}
  /\ form \in [Commands -> Forms]
  /\ cmd \in [Commands -> CommandOver \cup {"idle", "running", "poisoning", "stopping"}]
DxFlags ==
  /\ environment \in BOOLEAN /\ identified \in BOOLEAN /\ attempted \in BOOLEAN
  /\ pending \in BOOLEAN /\ unconfirmed \in BOOLEAN /\ seen \in BOOLEAN
  /\ initializing \in BOOLEAN /\ fatal \in BOOLEAN /\ startupError \in BOOLEAN
DxStages ==
  /\ creation \in {"none", "pending", "ok", "refused", "unknown", "unknown without id"}
  /\ deletion \in {"idle", "kill", "delete", "seek", "purge", "confirm", "ok", "failed"}
  /\ rounds \in 0..Reconciles
  /\ instance \in {"none", "asked", "up", "gone"}
DxTypes == DxPlaces /\ DxFlags /\ DxStages

\* Who holds the lock is where its holder is, and deletes only then.
LockHeld ==
  /\ lock = "owner" <=>
       owner \in {"creating", "settling", "setting", "rollback", "cleaning", "stopping"}
  /\ lock = "timer" <=> timer = "stopping"
  /\ \A c \in Commands : lock = c <=> cmd[c] = "stopping"
  /\ deletion # "idle" => lock # "free" /\ owner \notin {"creating", "settling", "setting"}

\* What is known of the creation, and what the provider has made of it.
CreationFollows ==
  /\ creation = "none" <=> instance = "none"
  /\ creation = "none" => owner \in {"entering", "cleanup", "cleaning", "raised", "cancelled"}
  /\ creation = "none" <=> ~attempted
  /\ creation = "pending" => instance = "asked" /\ owner \in {"creating", "settling"}
  /\ creation = "ok" => instance \in {"up", "gone"}
  /\ creation = "refused" => instance = "gone"
  /\ seen => instance \in {"up", "gone"}

\* A debt without doubt is one for an Environment that was there, and a deletion
\* that has succeeded has paid it.
DebtSettled ==
  /\ pending /\ ~unconfirmed => instance \in {"up", "gone"}
  /\ deletion \in {"kill", "delete"} => instance \in {"up", "gone"}
  /\ deletion = "confirm" => seen
  /\ deletion = "ok" => ~pending

\* Once the body has ended nothing is left that could poison the sandbox.
BodyOver ==
  /\ owner # "inside" => \A c \in Commands : cmd[c] \in CommandOver \cup {"idle"}
  /\ owner \in {"stopping", "done"} => timer # "armed"

DxInv ==
  /\ DxTypes /\ DeletionOwed /\ FailureSurfaces
  /\ LockHeld /\ CreationFollows /\ DebtSettled /\ BodyOver

LEMMA DxInvInit == DxInit => DxInv
<1> SUFFICES ASSUME DxInit PROVE DxInv
  OBVIOUS
<1> USE DEF DxInit
<1>1. DxTypes
  <2>1. try \in 1..Tries /\ rounds \in 0..Reconciles
    BY CountsAssumption
  <2>2. QED BY <2>1 DEF DxTypes, DxPlaces, DxFlags, DxStages
<1>2. DeletionOwed /\ FailureSurfaces /\ CreationFollows /\ DebtSettled /\ BodyOver
  BY DEF DeletionOwed, FailureSurfaces, CreationFollows, DebtSettled, BodyOver
<1>3. LockHeld
  BY CommandsAssumption DEF LockHeld
<1>4. QED BY <1>1, <1>2, <1>3 DEF DxInv

\* The start of a deletion: which call it makes, and that it may make it.
LEMMA BeginDeleteFollows ==
  ASSUME NEW held, NEW open \in BOOLEAN, NEW doubtful \in BOOLEAN, NEW known \in BOOLEAN,
         held \in BOOLEAN, BeginDelete(held, open, doubtful, known)
  PROVE  /\ deletion' \in {"ok", "failed", "seek", "kill", "delete"} /\ ~environment'
         /\ rounds' \in 0..Reconciles
         /\ deletion' = "ok" => ~open
         /\ deletion' \in {"kill", "delete"} => open /\ ~doubtful
BY CountsAssumption DEF BeginDelete

\* The answers of the provider.
LEMMA SdkKeepsInv == ASSUME DxInv, SdkStep \/ LateCreation PROVE DxInv'
<1> USE DEF DxInv
<1>1. DxTypes /\ UNCHANGED tasks
  BY DEF SdkStep, KillAnswers, DeleteAnswers, Seek, Purge, Confirm, CreationAnswers, LateCreation
<1>2. DxTypes'
  <2>1. DxPlaces'
    BY <1>1 DEF DxTypes, DxPlaces, tasks
  <2>2. DxFlags'
    BY <1>1 DEF SdkStep, KillAnswers, DeleteAnswers, Seek, Purge, Confirm, CreationAnswers, LateCreation,
      DxTypes, DxFlags, dxobject
  <2>3. DxStages'
    <3>1. rounds' \in 0..Reconciles
      <4>1. rounds' = rounds \/ (rounds < Reconciles /\ rounds' = rounds + 1)
        BY DEF SdkStep, KillAnswers, DeleteAnswers, Seek, Purge, Confirm, CreationAnswers,
          LateCreation, NextRound, cleanup
      <4>2. rounds \in 0..Reconciles
        BY <1>1 DEF DxTypes, DxStages
      <4>3. Reconciles \in Nat
        BY CountsAssumption
      <4>4. QED BY <4>1, <4>2, <4>3
    <3>2. creation' \in {"none", "pending", "ok", "refused", "unknown", "unknown without id"}
      BY <1>1 DEF SdkStep, KillAnswers, DeleteAnswers, Seek, Purge, Confirm,
        CreationAnswers, LateCreation, DxTypes, DxStages, dxobject
    <3>3. deletion' \in {"idle", "kill", "delete", "seek", "purge", "confirm", "ok", "failed"}
      BY <1>1 DEF SdkStep, KillAnswers, DeleteAnswers, Seek, Purge, Confirm,
        CreationAnswers, LateCreation, NextRound, DxTypes, DxStages, cleanup
    <3>4. instance' \in {"none", "asked", "up", "gone"}
      BY <1>1 DEF SdkStep, KillAnswers, DeleteAnswers, Seek, Purge, Confirm,
        CreationAnswers, LateCreation, DeleteById, DxTypes, DxStages
    <3>5. QED BY <3>1, <3>2, <3>3, <3>4 DEF DxStages
  <2>4. QED BY <2>1, <2>2, <2>3 DEF DxTypes
<1>3. LockHeld' /\ BodyOver'
  <2>1. CASE KillAnswers
    BY <1>1, <2>1 DEF KillAnswers, Trouble, LockHeld, BodyOver, CreationFollows, tasks, cleanup
  <2>2. CASE DeleteAnswers
    BY <1>1, <2>2 DEF DeleteAnswers, DeleteById, Trouble, LockHeld, BodyOver, CreationFollows, tasks, cleanup
  <2>3. CASE Seek
    BY <1>1, <2>3 DEF Seek, Trouble, LockHeld, BodyOver, CreationFollows, tasks, cleanup
  <2>4. CASE Purge
    BY <1>1, <2>4 DEF Purge, DeleteById, NextRound, Trouble, LockHeld, BodyOver, CreationFollows, tasks, cleanup
  <2>5. CASE Confirm
    BY <1>1, <2>5 DEF Confirm, NextRound, Trouble, LockHeld, BodyOver, CreationFollows, tasks, cleanup
  <2>6. CASE CreationAnswers
    BY <1>1, <2>6 DEF CreationAnswers, Trouble, LockHeld, BodyOver, CreationFollows, tasks, cleanup
  <2>7. CASE LateCreation
    BY <1>1, <2>7 DEF LateCreation, Trouble, LockHeld, BodyOver, CreationFollows, tasks, cleanup
  <2>8. QED BY <2>1, <2>2, <2>3, <2>4, <2>5, <2>6, <2>7 DEF SdkStep
<1>4. CreationFollows' /\ DebtSettled' /\ DeletionOwed' /\ FailureSurfaces'
  <2>1. CASE KillAnswers
    BY <1>1, <2>1 DEF KillAnswers, Trouble, DxTypes, DxFlags, DxStages, LockHeld, CreationFollows, DebtSettled, DeletionOwed,
      FailureSurfaces, tasks, dxobject, cleanup
  <2>2. CASE DeleteAnswers
    BY <1>1, <2>2 DEF DeleteAnswers, DeleteById, Trouble, DxTypes, DxFlags, DxStages, LockHeld, CreationFollows, DebtSettled, DeletionOwed,
      FailureSurfaces, tasks, dxobject, cleanup
  <2>3. CASE Seek
    <3>1. deletion' = "purge" /\ UNCHANGED <<creation, attempted, pending, unconfirmed, fatal, instance>>
      BY <2>3 DEF Seek
    <3>2. seen' => seen \/ instance = "up"
      <4>1. (seen' = (seen \/ instance = "up")) \/ seen' = seen
        BY <2>3 DEF Seek
      <4>2. QED BY <4>1
    <3>3. QED BY <1>1, <3>1, <3>2
      DEF CreationFollows, DebtSettled, DeletionOwed, FailureSurfaces, tasks
  <2>4. CASE Purge
    BY <1>1, <2>4 DEF Purge, DeleteById, NextRound, Trouble, DxTypes, DxFlags, DxStages, LockHeld, CreationFollows, DebtSettled, DeletionOwed,
      FailureSurfaces, tasks, dxobject, cleanup
  <2>5. CASE Confirm
    BY <1>1, <2>5 DEF Confirm, NextRound, Trouble, DxTypes, DxFlags, DxStages, LockHeld, CreationFollows, DebtSettled, DeletionOwed,
      FailureSurfaces, tasks, dxobject, cleanup
  <2>6. CASE CreationAnswers
    BY <1>1, <2>6 DEF CreationAnswers, Trouble, DxTypes, DxFlags, DxStages, LockHeld, CreationFollows, DebtSettled, DeletionOwed,
      FailureSurfaces, tasks, dxobject, cleanup
  <2>7. CASE LateCreation
    BY <1>1, <2>7 DEF LateCreation, Trouble, DxTypes, DxFlags, DxStages, LockHeld, CreationFollows, DebtSettled, DeletionOwed,
      FailureSurfaces, tasks, dxobject, cleanup
  <2>8. QED BY <2>1, <2>2, <2>3, <2>4, <2>5, <2>6, <2>7 DEF SdkStep
<1>5. QED BY <1>2, <1>3, <1>4

\* start(), until its creation has settled.
LEMMA StartKeepsDx ==
  ASSUME DxInv, Start \/ EnvironmentCreated \/ CreateFails \/ InterruptCreate \/ CreateSettles
           \/ EnvironmentReady
  PROVE  DxInv'
<1> USE DEF DxInv, DxTypes, dxobject, cleanup, OwnerOver, CommandOver
<1>1. CASE Start
  <2>1. DxPlaces'
    BY <1>1, CountsAssumption DEF Start, Trouble, DxPlaces
  <2>2. DxFlags'
    BY <1>1 DEF Start, Trouble, DxFlags, BeginDelete
  <2>3. DxStages'
    BY <1>1, CountsAssumption DEF Start, Trouble, DxFlags, DxStages
  <2>4. LockHeld' /\ BodyOver'
    BY <1>1, CommandsAssumption DEF Start, Trouble, DxPlaces, DxFlags, LockHeld, BodyOver,
      CreationFollows
  <2>5. CreationFollows' /\ DebtSettled'
    BY <1>1, CommandsAssumption DEF Start, Trouble, DxFlags, LockHeld, CreationFollows,
      DebtSettled
  <2>6. DeletionOwed' /\ FailureSurfaces'
    BY <1>1 DEF Start, Trouble, DxFlags, DxStages, DeletionOwed, FailureSurfaces,
      CreationFollows, DebtSettled, BodyOver, LockHeld
  <2>7. QED BY <2>1, <2>2, <2>3, <2>4, <2>5, <2>6
<1>2. CASE EnvironmentCreated
  <2>1. DxPlaces'
    BY <1>2, CountsAssumption DEF EnvironmentCreated, DxPlaces
  <2>2. DxFlags'
    BY <1>2 DEF EnvironmentCreated, DxFlags, BeginDelete
  <2>3. DxStages'
    BY <1>2, CountsAssumption DEF EnvironmentCreated, DxFlags, DxStages
  <2>4. LockHeld' /\ BodyOver'
    BY <1>2, CommandsAssumption DEF EnvironmentCreated, DxPlaces, DxFlags, LockHeld, BodyOver,
      CreationFollows
  <2>5. CreationFollows' /\ DebtSettled'
    BY <1>2, CommandsAssumption DEF EnvironmentCreated, DxFlags, LockHeld, CreationFollows,
      DebtSettled
  <2>6. DeletionOwed' /\ FailureSurfaces'
    BY <1>2 DEF EnvironmentCreated, DxFlags, DxStages, DeletionOwed, FailureSurfaces,
      CreationFollows, DebtSettled, BodyOver, LockHeld
  <2>7. QED BY <2>1, <2>2, <2>3, <2>4, <2>5, <2>6
<1>3. CASE CreateFails
  <2>1. DxPlaces'
    BY <1>3, CountsAssumption DEF CreateFails, RecordCreateError, DxPlaces
  <2>2. DxFlags'
    BY <1>3 DEF CreateFails, RecordCreateError, DxFlags, BeginDelete
  <2>3. DxStages'
    BY <1>3, CountsAssumption DEF CreateFails, RecordCreateError, DxFlags, DxStages
  <2>4. LockHeld' /\ BodyOver'
    BY <1>3, CommandsAssumption DEF CreateFails, RecordCreateError, DxPlaces, DxFlags,
      LockHeld, BodyOver, CreationFollows
  <2>5. CreationFollows' /\ DebtSettled'
    BY <1>3, CommandsAssumption DEF CreateFails, RecordCreateError, DxFlags, LockHeld,
      CreationFollows, DebtSettled
  <2>6. DeletionOwed' /\ FailureSurfaces'
    BY <1>3 DEF CreateFails, RecordCreateError, DxFlags, DxStages, DeletionOwed,
      FailureSurfaces, CreationFollows, DebtSettled, BodyOver, LockHeld
  <2>7. QED BY <2>1, <2>2, <2>3, <2>4, <2>5, <2>6
<1>4. CASE InterruptCreate
  <2>1. DxPlaces'
    BY <1>4, CountsAssumption DEF InterruptCreate, Trouble, DxPlaces
  <2>2. DxFlags'
    BY <1>4 DEF InterruptCreate, Trouble, DxFlags, BeginDelete
  <2>3. DxStages'
    BY <1>4, CountsAssumption DEF InterruptCreate, Trouble, DxFlags, DxStages
  <2>4. LockHeld' /\ BodyOver'
    BY <1>4, CommandsAssumption DEF InterruptCreate, Trouble, DxPlaces, DxFlags, LockHeld,
      BodyOver, CreationFollows
  <2>5. CreationFollows' /\ DebtSettled'
    BY <1>4, CommandsAssumption DEF InterruptCreate, Trouble, DxFlags, LockHeld,
      CreationFollows, DebtSettled
  <2>6. DeletionOwed' /\ FailureSurfaces'
    BY <1>4 DEF InterruptCreate, Trouble, DxFlags, DxStages, DeletionOwed, FailureSurfaces,
      CreationFollows, DebtSettled, BodyOver, LockHeld
  <2>7. QED BY <2>1, <2>2, <2>3, <2>4, <2>5, <2>6
<1>5. CASE CreateSettles
  <2>1. DxPlaces'
    BY <1>5, CountsAssumption DEF CreateSettles, RecordCreateError, DxPlaces
  <2>2. DxFlags'
    BY <1>5 DEF CreateSettles, RecordCreateError, DxFlags, BeginDelete
  <2>3. /\ deletion' \in {"ok", "failed", "seek", "kill", "delete"} /\ rounds' \in 0..Reconciles
        /\ deletion' = "ok" => ~pending'
        /\ deletion' \in {"kill", "delete"} => pending' /\ ~unconfirmed'
    <3>1. BeginDelete(creation = "ok", pending', unconfirmed', identified')
      BY <1>5 DEF CreateSettles
    <3>2. /\ pending' \in BOOLEAN /\ unconfirmed' \in BOOLEAN /\ identified' \in BOOLEAN
          /\ (creation = "ok") \in BOOLEAN
      BY <2>2 DEF DxFlags
    <3>3. QED BY <3>1, <3>2, BeginDeleteFollows
  <2>4. DxStages'
    BY <1>5, <2>3 DEF CreateSettles, DxStages
  <2>5. LockHeld' /\ BodyOver'
    BY <1>5, <2>3, CommandsAssumption DEF CreateSettles, LockHeld, BodyOver
  <2>6. CreationFollows' /\ DebtSettled'
    BY <1>5, <2>3 DEF CreateSettles, RecordCreateError, DxFlags, CreationFollows, DebtSettled
  <2>7. DeletionOwed' /\ FailureSurfaces'
    BY <1>5 DEF CreateSettles, RecordCreateError, DxFlags, DxStages, DeletionOwed,
      FailureSurfaces, CreationFollows, DebtSettled, BodyOver, LockHeld
  <2>8. QED BY <2>1, <2>2, <2>4, <2>5, <2>6, <2>7
<1>6. CASE EnvironmentReady
  <2>1. DxPlaces'
    BY <1>6, CountsAssumption DEF EnvironmentReady, DxPlaces
  <2>2. DxFlags'
    BY <1>6 DEF EnvironmentReady, DxFlags, BeginDelete
  <2>3. DxStages'
    BY <1>6, CountsAssumption DEF EnvironmentReady, DxFlags, DxStages
  <2>4. LockHeld' /\ BodyOver'
    BY <1>6, CommandsAssumption DEF EnvironmentReady, DxPlaces, DxFlags, LockHeld, BodyOver,
      CreationFollows
  <2>5. CreationFollows' /\ DebtSettled'
    BY <1>6, CommandsAssumption DEF EnvironmentReady, DxFlags, LockHeld, CreationFollows,
      DebtSettled
  <2>6. DeletionOwed' /\ FailureSurfaces'
    BY <1>6 DEF EnvironmentReady, DxFlags, DxStages, DeletionOwed, FailureSurfaces,
      CreationFollows, DebtSettled, BodyOver, LockHeld
  <2>7. QED BY <2>1, <2>2, <2>3, <2>4, <2>5, <2>6
<1>7. QED BY <1>1, <1>2, <1>3, <1>4, <1>5, <1>6

\* The rollback of a start, and stop() by the owner.
LEMMA StopKeepsDx ==
  ASSUME DxInv, SetupFails \/ RolledBack \/ OwnerStops \/ OwnerCleaned \/ OwnerStopped \/ OwnerGivesUp
           \/ BodyEnds
  PROVE  DxInv'
<1> USE DEF DxInv, DxTypes, dxobject, cleanup, OwnerOver, CommandOver
<1>1. CASE SetupFails
  <2>1. DxPlaces'
    BY <1>1, CountsAssumption DEF SetupFails, RollBack, CancelTimer, Trouble, DxPlaces
  <2>2. DxFlags'
    BY <1>1 DEF SetupFails, RollBack, CancelTimer, Trouble, DxFlags, BeginDelete
  <2>3. DxStages'
    BY <1>1, BeginDeleteFollows, CountsAssumption DEF SetupFails, RollBack, CancelTimer,
      Trouble, DxFlags, DxStages
  <2>4. LockHeld' /\ BodyOver'
    <3>1. /\ owner = "setting" /\ owner' = "rollback" /\ UNCHANGED <<lock, cmd>>
          /\ timer' = IF timer = "armed" THEN "none" ELSE timer
      BY <1>1 DEF SetupFails, RollBack, CancelTimer
    <3>2. QED BY <3>1, CommandsAssumption DEF LockHeld, BodyOver
  <2>5. CreationFollows' /\ DebtSettled'
    <3>1. /\ owner = "setting" /\ owner' = "rollback"
          /\ UNCHANGED <<creation, instance, attempted, seen, pending, unconfirmed>>
          /\ BeginDelete(environment, pending, unconfirmed, identified)
      BY <1>1 DEF SetupFails, RollBack
    <3>2. /\ deletion' \in {"ok", "failed", "seek", "kill", "delete"}
          /\ deletion' = "ok" => ~pending
          /\ deletion' \in {"kill", "delete"} => pending /\ ~unconfirmed
      BY <3>1, BeginDeleteFollows DEF DxFlags
    <3>3. QED BY <3>1, <3>2 DEF CreationFollows, DebtSettled
  <2>6. DeletionOwed' /\ FailureSurfaces'
    BY <1>1 DEF SetupFails, RollBack, CancelTimer, Trouble, DxFlags, DxStages, DeletionOwed,
      FailureSurfaces, CreationFollows, DebtSettled, BodyOver, LockHeld
  <2>7. QED BY <2>1, <2>2, <2>3, <2>4, <2>5, <2>6
<1>2. CASE RolledBack
  <2>1. DxPlaces'
    BY <1>2, CountsAssumption DEF RolledBack, DxPlaces
  <2>2. DxFlags'
    BY <1>2 DEF RolledBack, DxFlags, BeginDelete
  <2>3. DxStages'
    BY <1>2, CountsAssumption DEF RolledBack, DxFlags, DxStages
  <2>4. LockHeld' /\ BodyOver'
    BY <1>2, CommandsAssumption DEF RolledBack, DxPlaces, DxFlags, LockHeld, BodyOver,
      CreationFollows
  <2>5. CreationFollows' /\ DebtSettled'
    BY <1>2, CommandsAssumption DEF RolledBack, DxFlags, LockHeld, CreationFollows, DebtSettled
  <2>6. DeletionOwed' /\ FailureSurfaces'
    BY <1>2 DEF RolledBack, DxFlags, DxStages, DeletionOwed, FailureSurfaces, CreationFollows,
      DebtSettled, BodyOver, LockHeld
  <2>7. QED BY <2>1, <2>2, <2>3, <2>4, <2>5, <2>6
<1>3. CASE OwnerStops
  <2>1. DxPlaces'
    BY <1>3, CountsAssumption DEF OwnerStops, BeginStop, CancelTimer, DxPlaces
  <2>2. DxFlags'
    BY <1>3 DEF OwnerStops, BeginStop, CancelTimer, DxFlags, BeginDelete
  <2>3. DxStages'
    BY <1>3, BeginDeleteFollows, CountsAssumption DEF OwnerStops, BeginStop, CancelTimer,
      DxFlags, DxStages
  <2>4. LockHeld' /\ BodyOver'
    BY <1>3, BeginDeleteFollows, CommandsAssumption DEF OwnerStops, BeginStop, CancelTimer,
      DxPlaces, DxFlags, LockHeld, BodyOver, CreationFollows
  <2>5. CreationFollows' /\ DebtSettled'
    BY <1>3, BeginDeleteFollows, CommandsAssumption DEF OwnerStops, BeginStop, CancelTimer,
      DxFlags, LockHeld, CreationFollows, DebtSettled
  <2>6. DeletionOwed' /\ FailureSurfaces'
    BY <1>3 DEF OwnerStops, BeginStop, CancelTimer, DxFlags, DxStages, DeletionOwed,
      FailureSurfaces, CreationFollows, DebtSettled, BodyOver, LockHeld
  <2>7. QED BY <2>1, <2>2, <2>3, <2>4, <2>5, <2>6
<1>4. CASE OwnerCleaned
  <2>1. DxPlaces'
    BY <1>4, CountsAssumption DEF OwnerCleaned, EndStop, AfterCleanup, DxPlaces
  <2>2. DxFlags'
    BY <1>4 DEF OwnerCleaned, EndStop, AfterCleanup, DxFlags, BeginDelete
  <2>3. DxStages'
    BY <1>4, CountsAssumption DEF OwnerCleaned, EndStop, AfterCleanup, DxFlags, DxStages
  <2>4. LockHeld' /\ BodyOver'
    BY <1>4, CommandsAssumption DEF OwnerCleaned, EndStop, AfterCleanup, DxPlaces, DxFlags,
      LockHeld, BodyOver, CreationFollows
  <2>5. CreationFollows' /\ DebtSettled'
    BY <1>4, CommandsAssumption DEF OwnerCleaned, EndStop, AfterCleanup, DxFlags, LockHeld,
      CreationFollows, DebtSettled
  <2>6. DeletionOwed' /\ FailureSurfaces'
    BY <1>4 DEF OwnerCleaned, EndStop, AfterCleanup, DxFlags, DxStages, DeletionOwed,
      FailureSurfaces, CreationFollows, DebtSettled, BodyOver, LockHeld
  <2>7. QED BY <2>1, <2>2, <2>3, <2>4, <2>5, <2>6
<1>5. CASE OwnerStopped
  <2>1. DxPlaces'
    BY <1>5, CountsAssumption DEF OwnerStopped, EndStop, DxPlaces
  <2>2. DxFlags'
    BY <1>5 DEF OwnerStopped, EndStop, DxFlags, BeginDelete
  <2>3. DxStages'
    BY <1>5, CountsAssumption DEF OwnerStopped, EndStop, DxFlags, DxStages
  <2>4. LockHeld' /\ BodyOver'
    BY <1>5, CommandsAssumption DEF OwnerStopped, EndStop, DxPlaces, DxFlags, LockHeld,
      BodyOver, CreationFollows
  <2>5. CreationFollows' /\ DebtSettled'
    BY <1>5, CommandsAssumption DEF OwnerStopped, EndStop, DxFlags, LockHeld, CreationFollows,
      DebtSettled
  <2>6. DeletionOwed' /\ FailureSurfaces'
    BY <1>5 DEF OwnerStopped, EndStop, DxFlags, DxStages, DeletionOwed, FailureSurfaces,
      CreationFollows, DebtSettled, BodyOver, LockHeld
  <2>7. QED BY <2>1, <2>2, <2>3, <2>4, <2>5, <2>6
<1>6. CASE OwnerGivesUp
  <2>1. DxPlaces'
    BY <1>6, CountsAssumption DEF OwnerGivesUp, AfterCleanup, Trouble, DxPlaces
  <2>2. DxFlags'
    BY <1>6 DEF OwnerGivesUp, AfterCleanup, Trouble, DxFlags, BeginDelete
  <2>3. DxStages'
    BY <1>6, CountsAssumption DEF OwnerGivesUp, AfterCleanup, Trouble, DxFlags, DxStages
  <2>4. LockHeld' /\ BodyOver'
    BY <1>6, CommandsAssumption DEF OwnerGivesUp, AfterCleanup, Trouble, DxPlaces, DxFlags,
      LockHeld, BodyOver, CreationFollows
  <2>5. CreationFollows' /\ DebtSettled'
    BY <1>6, CommandsAssumption DEF OwnerGivesUp, AfterCleanup, Trouble, DxFlags, LockHeld,
      CreationFollows, DebtSettled
  <2>6. DeletionOwed' /\ FailureSurfaces'
    BY <1>6 DEF OwnerGivesUp, AfterCleanup, Trouble, DxFlags, DxStages, DeletionOwed,
      FailureSurfaces, CreationFollows, DebtSettled, BodyOver, LockHeld
  <2>7. QED BY <2>1, <2>2, <2>3, <2>4, <2>5, <2>6
<1>7. CASE BodyEnds
  <2>1. DxPlaces'
    BY <1>7, CountsAssumption DEF BodyEnds, DxPlaces
  <2>2. DxFlags'
    BY <1>7 DEF BodyEnds, DxFlags, BeginDelete
  <2>3. DxStages'
    BY <1>7, CountsAssumption DEF BodyEnds, DxFlags, DxStages
  <2>4. LockHeld' /\ BodyOver'
    BY <1>7, CommandsAssumption DEF BodyEnds, DxPlaces, DxFlags, LockHeld, BodyOver,
      CreationFollows
  <2>5. CreationFollows' /\ DebtSettled'
    BY <1>7, CommandsAssumption DEF BodyEnds, DxFlags, LockHeld, CreationFollows, DebtSettled
  <2>6. DeletionOwed' /\ FailureSurfaces'
    BY <1>7 DEF BodyEnds, DxFlags, DxStages, DeletionOwed, FailureSurfaces, CreationFollows,
      DebtSettled, BodyOver, LockHeld
  <2>7. QED BY <2>1, <2>2, <2>3, <2>4, <2>5, <2>6
<1>8. QED BY <1>1, <1>2, <1>3, <1>4, <1>5, <1>6, <1>7

\* The end of the lifetime.
LEMMA TimerKeepsDx ==
  ASSUME DxInv, TimerFires \/ TimerStops \/ TimerStopped
  PROVE  DxInv'
<1> USE DEF DxInv, DxTypes, dxobject, cleanup, OwnerOver, CommandOver
<1>1. CASE TimerFires
  <2>1. DxPlaces'
    BY <1>1, CountsAssumption DEF TimerFires, DxPlaces
  <2>2. DxFlags'
    BY <1>1 DEF TimerFires, DxFlags, BeginDelete
  <2>3. DxStages'
    BY <1>1, CountsAssumption DEF TimerFires, DxFlags, DxStages
  <2>4. LockHeld' /\ BodyOver'
    BY <1>1, CommandsAssumption DEF TimerFires, DxPlaces, DxFlags, LockHeld, BodyOver,
      CreationFollows
  <2>5. CreationFollows' /\ DebtSettled'
    BY <1>1, CommandsAssumption DEF TimerFires, DxFlags, LockHeld, CreationFollows, DebtSettled
  <2>6. DeletionOwed' /\ FailureSurfaces'
    BY <1>1 DEF TimerFires, DxFlags, DxStages, DeletionOwed, FailureSurfaces, CreationFollows,
      DebtSettled, BodyOver, LockHeld
  <2>7. QED BY <2>1, <2>2, <2>3, <2>4, <2>5, <2>6
<1>2. CASE TimerStops
  <2>1. DxPlaces'
    BY <1>2, CountsAssumption DEF TimerStops, DxPlaces
  <2>2. DxFlags'
    BY <1>2 DEF TimerStops, DxFlags, BeginDelete
  <2>3. DxStages'
    BY <1>2, BeginDeleteFollows, CountsAssumption DEF TimerStops, DxFlags, DxStages
  <2>4. LockHeld' /\ BodyOver'
    BY <1>2, BeginDeleteFollows, CommandsAssumption DEF TimerStops, DxPlaces, DxFlags,
      LockHeld, BodyOver, CreationFollows
  <2>5. CreationFollows' /\ DebtSettled'
    BY <1>2, BeginDeleteFollows, CommandsAssumption DEF TimerStops, DxFlags, LockHeld,
      CreationFollows, DebtSettled
  <2>6. DeletionOwed' /\ FailureSurfaces'
    BY <1>2 DEF TimerStops, DxFlags, DxStages, DeletionOwed, FailureSurfaces, CreationFollows,
      DebtSettled, BodyOver, LockHeld
  <2>7. QED BY <2>1, <2>2, <2>3, <2>4, <2>5, <2>6
<1>3. CASE TimerStopped
  <2>1. DxPlaces'
    BY <1>3, CountsAssumption DEF TimerStopped, EndStop, DxPlaces
  <2>2. DxFlags'
    BY <1>3 DEF TimerStopped, EndStop, DxFlags, BeginDelete
  <2>3. DxStages'
    BY <1>3, CountsAssumption DEF TimerStopped, EndStop, DxFlags, DxStages
  <2>4. LockHeld' /\ BodyOver'
    BY <1>3, CommandsAssumption DEF TimerStopped, EndStop, DxPlaces, DxFlags, LockHeld,
      BodyOver, CreationFollows
  <2>5. CreationFollows' /\ DebtSettled'
    BY <1>3, CommandsAssumption DEF TimerStopped, EndStop, DxFlags, LockHeld, CreationFollows,
      DebtSettled
  <2>6. DeletionOwed' /\ FailureSurfaces'
    BY <1>3 DEF TimerStopped, EndStop, DxFlags, DxStages, DeletionOwed, FailureSurfaces,
      CreationFollows, DebtSettled, BodyOver, LockHeld
  <2>7. QED BY <2>1, <2>2, <2>3, <2>4, <2>5, <2>6
<1>4. QED BY <1>1, <1>2, <1>3

\* The commands, and the stop() of one that poisoned the sandbox.
LEMMA CommandKeepsDx ==
  ASSUME DxInv, NEW c \in Commands, CommandStep(c) \/ CommandInterrupted(c)
  PROVE  DxInv'
<1> USE DEF DxInv, DxTypes, dxobject, cleanup, OwnerOver, CommandOver
<1>1. CASE Submit(c)
  <2>1. DxPlaces'
    BY <1>1, CountsAssumption DEF Submit, Command, DxPlaces
  <2>2. DxFlags'
    BY <1>1 DEF Submit, Command, DxFlags, BeginDelete
  <2>3. DxStages'
    BY <1>1, CountsAssumption DEF Submit, Command, DxFlags, DxStages
  <2>4. LockHeld' /\ BodyOver'
    BY <1>1, CommandsAssumption DEF Submit, Command, DxPlaces, DxFlags, LockHeld, BodyOver,
      CreationFollows
  <2>5. CreationFollows' /\ DebtSettled'
    BY <1>1, CommandsAssumption DEF Submit, Command, DxFlags, LockHeld, CreationFollows,
      DebtSettled
  <2>6. DeletionOwed' /\ FailureSurfaces'
    BY <1>1 DEF Submit, Command, DxFlags, DxStages, DeletionOwed, FailureSurfaces,
      CreationFollows, DebtSettled, BodyOver, LockHeld
  <2>7. QED BY <2>1, <2>2, <2>3, <2>4, <2>5, <2>6
<1>2. CASE CommandReturns(c)
  <2>1. DxPlaces'
    BY <1>2, CountsAssumption DEF CommandReturns, Command, DxPlaces
  <2>2. DxFlags'
    BY <1>2 DEF CommandReturns, Command, DxFlags, BeginDelete
  <2>3. DxStages'
    BY <1>2, CountsAssumption DEF CommandReturns, Command, DxFlags, DxStages
  <2>4. LockHeld' /\ BodyOver'
    BY <1>2, CommandsAssumption DEF CommandReturns, Command, DxPlaces, DxFlags, LockHeld,
      BodyOver, CreationFollows
  <2>5. CreationFollows' /\ DebtSettled'
    BY <1>2, CommandsAssumption DEF CommandReturns, Command, DxFlags, LockHeld,
      CreationFollows, DebtSettled
  <2>6. DeletionOwed' /\ FailureSurfaces'
    BY <1>2 DEF CommandReturns, Command, DxFlags, DxStages, DeletionOwed, FailureSurfaces,
      CreationFollows, DebtSettled, BodyOver, LockHeld
  <2>7. QED BY <2>1, <2>2, <2>3, <2>4, <2>5, <2>6
<1>3. CASE CommandFails(c)
  <2>1. DxPlaces'
    BY <1>3, CountsAssumption DEF CommandFails, Command, Trouble, DxPlaces
  <2>2. DxFlags'
    BY <1>3 DEF CommandFails, Command, Trouble, DxFlags, BeginDelete
  <2>3. DxStages'
    BY <1>3, CountsAssumption DEF CommandFails, Command, Trouble, DxFlags, DxStages
  <2>4. LockHeld' /\ BodyOver'
    BY <1>3, CommandsAssumption DEF CommandFails, Command, Trouble, DxPlaces, DxFlags,
      LockHeld, BodyOver, CreationFollows
  <2>5. CreationFollows' /\ DebtSettled'
    BY <1>3, CommandsAssumption DEF CommandFails, Command, Trouble, DxFlags, LockHeld,
      CreationFollows, DebtSettled
  <2>6. DeletionOwed' /\ FailureSurfaces'
    BY <1>3 DEF CommandFails, Command, Trouble, DxFlags, DxStages, DeletionOwed,
      FailureSurfaces, CreationFollows, DebtSettled, BodyOver, LockHeld
  <2>7. QED BY <2>1, <2>2, <2>3, <2>4, <2>5, <2>6
<1>4. CASE CommandInterrupted(c)
  <2>1. DxPlaces'
    BY <1>4, CountsAssumption DEF CommandInterrupted, Command, Trouble, DxPlaces
  <2>2. DxFlags'
    BY <1>4 DEF CommandInterrupted, Command, Trouble, DxFlags, BeginDelete
  <2>3. DxStages'
    BY <1>4, CountsAssumption DEF CommandInterrupted, Command, Trouble, DxFlags, DxStages
  <2>4. LockHeld' /\ BodyOver'
    BY <1>4, CommandsAssumption DEF CommandInterrupted, Command, Trouble, DxPlaces, DxFlags,
      LockHeld, BodyOver, CreationFollows
  <2>5. CreationFollows' /\ DebtSettled'
    BY <1>4, CommandsAssumption DEF CommandInterrupted, Command, Trouble, DxFlags, LockHeld,
      CreationFollows, DebtSettled
  <2>6. DeletionOwed' /\ FailureSurfaces'
    BY <1>4 DEF CommandInterrupted, Command, Trouble, DxFlags, DxStages, DeletionOwed,
      FailureSurfaces, CreationFollows, DebtSettled, BodyOver, LockHeld
  <2>7. QED BY <2>1, <2>2, <2>3, <2>4, <2>5, <2>6
<1>5. CASE PoisonedStops(c)
  <2>1. DxPlaces'
    BY <1>5, CountsAssumption DEF PoisonedStops, BeginStop, CancelTimer, Command, DxPlaces
  <2>2. DxFlags'
    BY <1>5 DEF PoisonedStops, BeginStop, CancelTimer, Command, DxFlags, BeginDelete
  <2>3. DxStages'
    BY <1>5, BeginDeleteFollows, CountsAssumption DEF PoisonedStops, BeginStop, CancelTimer,
      Command, DxFlags, DxStages
  <2>4. LockHeld' /\ BodyOver'
    BY <1>5, BeginDeleteFollows, CommandsAssumption DEF PoisonedStops, BeginStop, CancelTimer,
      Command, DxPlaces, DxFlags, LockHeld, BodyOver, CreationFollows
  <2>5. CreationFollows' /\ DebtSettled'
    BY <1>5, BeginDeleteFollows, CommandsAssumption DEF PoisonedStops, BeginStop, CancelTimer,
      Command, DxFlags, LockHeld, CreationFollows, DebtSettled
  <2>6. DeletionOwed' /\ FailureSurfaces'
    BY <1>5 DEF PoisonedStops, BeginStop, CancelTimer, Command, DxFlags, DxStages,
      DeletionOwed, FailureSurfaces, CreationFollows, DebtSettled, BodyOver, LockHeld
  <2>7. QED BY <2>1, <2>2, <2>3, <2>4, <2>5, <2>6
<1>6. CASE PoisonedStopped(c)
  <2>1. DxPlaces'
    BY <1>6, CountsAssumption DEF PoisonedStopped, EndStop, Command, DxPlaces
  <2>2. DxFlags'
    BY <1>6 DEF PoisonedStopped, EndStop, Command, DxFlags, BeginDelete
  <2>3. DxStages'
    BY <1>6, CountsAssumption DEF PoisonedStopped, EndStop, Command, DxFlags, DxStages
  <2>4. LockHeld' /\ BodyOver'
    BY <1>6, CommandsAssumption DEF PoisonedStopped, EndStop, Command, DxPlaces, DxFlags,
      LockHeld, BodyOver, CreationFollows
  <2>5. CreationFollows' /\ DebtSettled'
    BY <1>6, CommandsAssumption DEF PoisonedStopped, EndStop, Command, DxFlags, LockHeld,
      CreationFollows, DebtSettled
  <2>6. DeletionOwed' /\ FailureSurfaces'
    BY <1>6 DEF PoisonedStopped, EndStop, Command, DxFlags, DxStages, DeletionOwed,
      FailureSurfaces, CreationFollows, DebtSettled, BodyOver, LockHeld
  <2>7. QED BY <2>1, <2>2, <2>3, <2>4, <2>5, <2>6
<1>7. QED BY <1>1, <1>2, <1>3, <1>4, <1>5, <1>6 DEF CommandStep

LEMMA DxInvStep == DxInv /\ [DxNext]_dxvars => DxInv'
<1> SUFFICES ASSUME DxInv, [DxNext]_dxvars PROVE DxInv'
  OBVIOUS
<1>1. CASE UNCHANGED dxvars
  <2>1. UNCHANGED <<tasks, dxobject, cleanup, instance>>
    BY <1>1 DEF dxvars
  <2>2. DxPlaces' /\ DxFlags' /\ DxStages'
    <3>1. DxPlaces'
      BY <2>1 DEF DxInv, DxTypes, DxPlaces, tasks
    <3>2. DxFlags'
      BY <2>1 DEF DxInv, DxTypes, DxFlags, dxobject
    <3>3. DxStages'
      BY <2>1 DEF DxInv, DxTypes, DxStages, dxobject, cleanup
    <3>4. QED BY <3>1, <3>2, <3>3
  <2>3. LockHeld' /\ CreationFollows' /\ DebtSettled' /\ BodyOver'
    BY <2>1 DEF DxInv, LockHeld, CreationFollows, DebtSettled, BodyOver, tasks, dxobject, cleanup
  <2>4. DeletionOwed' /\ FailureSurfaces'
    BY <2>1 DEF DxInv, DeletionOwed, FailureSurfaces, tasks, dxobject
  <2>5. QED BY <2>2, <2>3, <2>4 DEF DxInv, DxTypes
<1>2. QED BY <1>1, SdkKeepsInv, StartKeepsDx, StopKeepsDx, TimerKeepsDx, CommandKeepsDx
  DEF DxNext, OwnerStep, TimerStep, DxTerminated

\* For any commands, attempts and rounds of reconciliation: an Environment that
\* exists or may still come to exist is owed a deletion, and a body that ends
\* without an error has left none.
THEOREM EnvironmentsDeleted == SandboxSpec => []AgentDxSound
<1>1. SandboxInit => DxInv
  BY DxInvInit DEF SandboxInit
<1>2. DxInv /\ [SandboxNext]_<<parts, part>> => DxInv'
  BY PartSteps, DxInvStep
<1>3. DxInv => AgentDxSound
  <2> SUFFICES ASSUME DxInv PROVE DxTypeOK
    BY DEF DxInv, AgentDxSound
  <2>1. {environment, identified, attempted, pending, unconfirmed, seen, initializing, fatal,
         startupError} \subseteq BOOLEAN
    BY DEF DxInv, DxTypes, DxFlags
  <2>2. QED BY <2>1 DEF DxInv, DxTypes, DxPlaces, DxStages, DxTypeOK
<1>4. QED BY <1>1, <1>2, <1>3, PTL DEF SandboxSpec

=============================================================================
