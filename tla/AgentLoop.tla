------------------------------ MODULE AgentLoop ------------------------------
(* The agents that are a loop of this repository's own: ReActAgent.run and step
   (uni_agent/agents/react), DeepEyesAgent.run (agents/deepeyes), MemAgent.run
   with its context session (agents/mem_agent), and the model client they share
   (OpenAICompatibleChatModel: query, retries, aclose).
   Abstracted: a message is who says it and the tool calls it makes or answers;
   a call is its turn and its place in the turn.                            *)
EXTENDS Naturals, Sequences, SequencesExt

CONSTANTS MaxTurns,       \* react: max_steps, deepeyes: max_turns, mem_agent: max_steps
          MaxCalls,       \* bound: tool calls in one answer
          TimeoutBudget,  \* react: timeout_budget
          TokenBudget,    \* deepeyes: max_total_tokens
          MaxRetries,     \* of the model client
          MaxChunks       \* mem_agent: max_chunks

ASSUME LoopAssumption ==
  /\ {MaxTurns, MaxCalls, TokenBudget, MaxChunks} \subseteq Nat \ {0}
  /\ {TimeoutBudget, MaxRetries} \subseteq Nat

VARIABLES
  loop,        \* which agent
  chunks,      \* mem_agent: chunks of the document
  at,          \* where run() is
  turn,        \* steps begun (get_global_step_idx)
  attempt,     \* retries of this request
  transcript,  \* the messages (mem_agent: of the current context)
  queue,       \* tool calls of this turn not dispatched yet
  timeouts,    \* react: info["timeouts"]
  sawFinish,   \* react: a finish tool of this turn succeeded
  spent,       \* deepeyes: completion tokens
  trajectory,  \* mem_agent: segments collected
  segment,     \* mem_agent: turns of the current segment, or NoSegment
  http,        \* the client's HTTP session
  reason       \* termination_reason ("raised": run() raises)

loopVars == <<loop, chunks, at, turn, attempt, transcript, queue, timeouts, sawFinish, spent,
              trajectory, segment, http, reason>>

NoSegment == <<0>>   \* no segment; turns are numbered from 1
Says(who, calls, cut) == [who |-> who, calls |-> calls, cut |-> cut]
Prompt == <<Says("user", <<>>, FALSE)>>
Asked(t)    == FlattenSeq([i \in 1..Len(t) |-> IF t[i].who = "assistant" THEN t[i].calls ELSE <<>>])
Answered(t) == FlattenSeq([i \in 1..Len(t) |-> IF t[i].who = "tool" THEN t[i].calls ELSE <<>>])

LoopInit ==
  /\ loop \in {"react", "deepeyes", "mem_agent"}
  /\ chunks \in IF loop = "mem_agent" THEN 0..MaxChunks + 1 ELSE {0}
  /\ at = "begin" /\ turn = 0 /\ attempt = 0 /\ transcript = Prompt /\ queue = <<>>
  /\ timeouts = 0 /\ sawFinish = FALSE /\ spent = 0 /\ trajectory = <<>> /\ segment = NoSegment
  /\ http = "none" /\ reason = "unknown"

-----------------------------------------------------------------------------
\* The agent stops for a reason; what is open is closed first.
Stop(why) == at' = "close" /\ reason' = why

\* An exception: react keeps the partial transcript, the others let it go.
Failing == IF loop = "react" THEN "unknown_error" ELSE "raised"

\* Top of the loop: the budgets, and a new turn.
NextTurn ==
  CASE turn = MaxTurns /\ loop = "react" -> Stop("max_steps") /\ UNCHANGED turn
    [] turn = MaxTurns /\ loop = "deepeyes" -> Stop("max_turns") /\ UNCHANGED turn
    [] turn < MaxTurns /\ loop = "deepeyes" /\ spent >= TokenBudget ->
         Stop("token_limit") /\ turn' = turn + 1
    [] OTHER -> at' = "query" /\ turn' = turn + 1 /\ UNCHANGED reason

\* The toolbox is entered (react, deepeyes), or the context session is.
BeginLoop ==
  /\ at = "begin"
  /\ IF loop = "mem_agent" THEN at' = "context" /\ UNCHANGED <<turn, reason>>
     ELSE NextTurn \/ (Stop(Failing) /\ UNCHANGED turn)
  /\ UNCHANGED <<loop, chunks, attempt, transcript, queue, timeouts, sawFinish, spent,
                 trajectory, segment, http>>

\* _collect_context_step: only a segment with at least one turn.
Collected == IF segment \in {NoSegment, <<>>} THEN trajectory ELSE Append(trajectory, segment)

\* mem_agent: update_context for the next chunk, or for the final answer once
\* the chunks, or max_chunks of them, are read; then step(), which refuses to
\* go over max_steps.
Context ==
  /\ at = "context"
  /\ trajectory' = Collected /\ segment' = <<>> /\ transcript' = Prompt
  /\ IF turn = MaxTurns THEN Stop("raised") /\ UNCHANGED turn
     ELSE at' = "query" /\ turn' = turn + 1 /\ UNCHANGED reason
  /\ UNCHANGED <<loop, chunks, attempt, queue, timeouts, sawFinish, spent, http>>

-----------------------------------------------------------------------------
(* OpenAICompatibleChatModel.query.                                        *)

\* A transient failure (connection, timeout, 429, 5xx) is retried.
QueryRetried ==
  /\ at = "query" /\ attempt < MaxRetries
  /\ attempt' = attempt + 1 /\ http' = "open"
  /\ UNCHANGED <<loop, chunks, at, turn, transcript, queue, timeouts, sawFinish, spent,
                 trajectory, segment, reason>>

\* The last attempt fails, or the endpoint refuses the request (other 4xx).
QueryFails ==
  /\ at = "query" /\ Stop(Failing) /\ http' = "open" /\ attempt' = 0
  /\ UNCHANGED <<loop, chunks, turn, transcript, queue, timeouts, sawFinish, spent,
                 trajectory, segment>>

\* A turn without a tool call ends the loop, as finished unless it was cut.
PlainReason(cut) == IF cut THEN "token_limit" ELSE "finished"

\* The policy's answer.  react stops at any cut turn; deepeyes runs the calls
\* of a cut turn, but none in its last turn.
QueryReturns ==
  /\ at = "query" /\ http' = "open" /\ attempt' = 0
  /\ \E n \in 0..(IF loop = "mem_agent" THEN 0 ELSE MaxCalls), cut \in BOOLEAN, tokens \in 1..2 :
       LET calls == [k \in 1..n |-> <<turn, k>>]
       IN  /\ tokens = 1 \/ loop = "deepeyes"
           /\ transcript' = Append(transcript, Says("assistant", calls, cut))
           /\ spent' = IF loop = "deepeyes" THEN spent + tokens ELSE spent
           /\ CASE loop = "mem_agent" ->
                     IF turn > chunks \/ turn > MaxChunks
                     THEN Stop("finished") /\ UNCHANGED queue
                     ELSE at' = "context" /\ UNCHANGED <<reason, queue>>
                [] loop # "mem_agent" /\ (n = 0 \/ (loop = "react" /\ cut)) ->
                     Stop(PlainReason(cut)) /\ UNCHANGED queue
                [] loop = "deepeyes" /\ n > 0 /\ turn = MaxTurns ->
                     Stop("max_turns") /\ UNCHANGED queue
                [] OTHER -> at' = "dispatch" /\ queue' = calls /\ UNCHANGED reason
  /\ segment' = IF loop = "mem_agent" THEN Append(segment, turn) ELSE segment
  /\ sawFinish' = FALSE
  /\ UNCHANGED <<loop, chunks, turn, timeouts, trajectory>>

-----------------------------------------------------------------------------
(* Tool calls, in order.                                                   *)

\* Mutant: the calls after the one that used up the budget go unanswered.
SkippedNot(rest) == <<>>

\* "Skipped: timeout budget exhausted." for each call that is not made.
Skipped(rest) == [k \in 1..Len(rest) |-> Says("tool", <<rest[k]>>, FALSE)]

Dispatch ==
  /\ at = "dispatch"
  /\ \E status \in {"ok", "error", "timeout"}, finish \in BOOLEAN :
       LET answer == Says("tool", <<Head(queue)>>, FALSE)
           rest   == Tail(queue)
           late   == IF status = "timeout" /\ loop = "react" THEN timeouts + 1 ELSE timeouts
           saw    == sawFinish \/ finish
       IN  /\ finish => loop = "react" /\ status = "ok"
           /\ timeouts' = late
           /\ IF late > TimeoutBudget
              THEN /\ transcript' = Append(transcript, answer) \o Skipped(rest)
                   /\ queue' = <<>> /\ Stop("timeout_limit") /\ UNCHANGED <<turn, sawFinish>>
              ELSE /\ transcript' = Append(transcript, answer)
                   /\ queue' = rest /\ sawFinish' = saw
                   /\ CASE rest # <<>> -> UNCHANGED <<at, turn, reason>>
                        [] rest = <<>> /\ saw -> Stop("finished") /\ UNCHANGED turn
                        [] OTHER -> NextTurn
  /\ UNCHANGED <<loop, chunks, attempt, spent, trajectory, segment, http>>

\* toolbox.call or an encoding raises instead of returning a result.
DispatchFails ==
  /\ at = "dispatch" /\ Stop(Failing)
  /\ UNCHANGED <<loop, chunks, turn, attempt, transcript, queue, timeouts, sawFinish, spent,
                 trajectory, segment, http>>

\* The episode is cancelled while it waits.
LoopCancel ==
  /\ at \in {"query", "dispatch"} /\ Stop("raised")
  /\ UNCHANGED <<loop, chunks, turn, attempt, transcript, queue, timeouts, sawFinish, spent,
                 trajectory, segment, http>>

\* Leaving the toolbox, whose stop may fail (react counts that as its error),
\* the client's session and the context session.
CloseLoop ==
  /\ at = "close"
  /\ reason' \in IF loop = "mem_agent" \/ reason = "raised" THEN {reason} ELSE {reason, Failing}
  /\ trajectory' = Collected /\ segment' = NoSegment
  /\ http' = IF http = "open" THEN "closed" ELSE http
  /\ at' = "over"
  /\ UNCHANGED <<loop, chunks, turn, attempt, transcript, queue, timeouts, sawFinish, spent>>

LoopOver == at = "over" /\ UNCHANGED loopVars

LoopNext == BeginLoop \/ Context \/ QueryRetried \/ QueryFails \/ QueryReturns \/ Dispatch
            \/ DispatchFails \/ LoopCancel \/ CloseLoop

-----------------------------------------------------------------------------
LoopTypeOK ==
  /\ loop \in {"react", "deepeyes", "mem_agent"} /\ chunks \in 0..MaxChunks + 1
  /\ at \in {"begin", "context", "query", "dispatch", "close", "over"}
  /\ turn \in 0..MaxTurns /\ attempt \in 0..MaxRetries
  /\ at = "query" => queue = <<>>
  /\ timeouts \in 0..TimeoutBudget + 1 /\ sawFinish \in BOOLEAN
  /\ spent \in 0..TokenBudget + 1
  /\ http \in {"none", "open", "closed"} /\ (at = "over" => http # "open")
  /\ reason \in {"unknown", "finished", "token_limit", "timeout_limit", "max_steps",
                 "max_turns", "unknown_error", "raised"}

(* A conversation that goes back to the policy, or ends at the timeout budget,
   answers every tool call it made, once and in the order of the calls,
   whatever became of the calls.                                            *)
CallsAnswered ==
  at = "query" \/ reason = "timeout_limit" => Answered(transcript) = Asked(transcript)

(* An episode of react or deepeyes that counts as finished ended by the
   policy's own decision: its last turn was not cut, and either made no call or
   had all of its calls answered within the timeout budget.                 *)
FinishedByPolicy ==
  reason = "finished" /\ loop # "mem_agent" =>
    /\ \A i \in 1..Len(transcript) :
         transcript[i].who = "assistant" /\ transcript[i].cut
           => loop = "deepeyes" /\ transcript[i].calls # <<>>
    /\ Answered(transcript) = Asked(transcript) /\ timeouts <= TimeoutBudget

(* mem_agent: when the context session is over, however it ended, its segments
   hold every answered turn once, in order, one turn per context.           *)
SegmentsOnce ==
  at = "over" /\ loop = "mem_agent" =>
    /\ \A i \in 1..Len(trajectory) : trajectory[i] = <<i>>
    /\ Len(trajectory) \in {turn, IF turn = 0 THEN 0 ELSE turn - 1}
    /\ reason = "finished" => Len(trajectory) = turn

=============================================================================
