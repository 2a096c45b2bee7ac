--------------------------- MODULE SessionPromise ---------------------------
(***************************************************************************)
(* What a Gateway session promises its callers: the abstract specification *)
(* of GatewaySession.                                                      *)
(*                                                                         *)
(* A session keeps lines of conversation.  A line is the sequence of the   *)
(* generations it was built from, each written as the conversation that    *)
(* ends with the sampled answer.  Every call takes effect at one instant,  *)
(* as if the calls were made one after the other: there is no lock,        *)
(* reservation or pending generation here.                                 *)
(***************************************************************************)
EXTENDS Integers, Sequences

CONSTANTS
  Requests,  \* the calls made to the session
  Asked,     \* what a call may ask: a conversation and a scope
  Replies,   \* the answers a backend can give
  Rollback   \* may a client rewrite the last answer of a line?

VARIABLES
  status,    \* ACTIVE, FINALIZED or ABORTED
  open,      \* the lines that can be continued, by number
  closed,    \* the lines that were handed over for training
  fresh,     \* the number of the next line
  clock,     \* counts the changes of lines
  request,   \* what each call asks
  outcome    \* how each call returned: none before it did

lines == <<status, open, closed, fresh, clock>>
vars  == <<lines, request, outcome>>

Init ==
  /\ status = "ACTIVE"
  /\ open = [i \in {} |-> i]
  /\ closed = {}
  /\ fresh = 1
  /\ clock = 0
  /\ request \in [Requests -> Asked]
  /\ outcome = [r \in Requests |-> "none"]

Return(r, how) ==
  /\ outcome[r] = "none"
  /\ outcome' = [outcome EXCEPT ![r] = how]
  /\ UNCHANGED request

\* The conversation of a line, and what came before its last answer.
Conversation(l) == l.turns[Len(l.turns)]
Before(m) == SubSeq(m, 1, Len(m) - 1)

\* The call goes on where the line ends.
Continues(l, q) ==
  LET m == Conversation(l)
  IN  /\ Len(m) <= Len(q.msgs)
      /\ SubSeq(q.msgs, 1, Len(m)) = m

\* The call has another message in the place of the last answer.
Rewrites(l, q) ==
  LET m == Conversation(l)
  IN  /\ Rollback
      /\ Len(m) <= Len(q.msgs)
      /\ SubSeq(q.msgs, 1, Len(m) - 1) = Before(m)
      /\ q.msgs[Len(m)] # m[Len(m)]

\* What a call that builds on the line keeps of it: nothing but the answer it
\* rewrites is ever lost.
Kept(l, q) ==
  IF l.scope # q.scope THEN {}
  ELSE {k \in {[hist |-> Conversation(l), turns |-> l.turns]} : Continues(l, q)}
         \cup {k \in {[hist |-> Before(Conversation(l)), turns |-> Before(l.turns)]} :
                 Rewrites(l, q)}

Line(scope, turns) == [scope |-> scope, turns |-> turns, last |-> clock + 1]

Closed(i, kept, place) == [line |-> i, hist |-> kept.hist, turns |-> kept.turns,
                           place |-> place]

Without(i) == [j \in DOMAIN open \ {i} |-> open[j]]

\* A generation starts a line, or is added to one.
Serve(r) ==
  LET q == request[r] IN
  \E reply \in Replies :
    LET turn == Append(q.msgs, reply) IN
    /\ status = "ACTIVE"
    /\ \/ /\ open' = [i \in DOMAIN open \cup {fresh} |->
                        IF i = fresh THEN Line(q.scope, <<turn>>) ELSE open[i]]
          /\ fresh' = fresh + 1
       \/ /\ \E i \in DOMAIN open : \E kept \in Kept(open[i], q) :
               open' = [open EXCEPT ![i] = Line(q.scope, Append(kept.turns, turn))]
          /\ UNCHANGED fresh
    /\ clock' = clock + 1
    /\ Return(r, "ok")
    /\ UNCHANGED <<status, closed>>

\* No generation fits the line the call builds on: the line is closed, unless
\* nothing that was sampled is left of it.
Exhaust(r) ==
  /\ status = "ACTIVE"
  /\ Return(r, "length")
  /\ \/ UNCHANGED <<open, closed, clock>>
     \/ \E i \in DOMAIN open : \E kept \in Kept(open[i], request[r]) :
          /\ open' = Without(i)
          /\ \/ /\ closed' = closed \cup {Closed(i, kept, clock + 1)}
                /\ clock' = clock + 1
             \/ /\ kept.turns = << >>
                /\ UNCHANGED <<closed, clock>>
  /\ UNCHANGED <<status, fresh>>

\* The call returns the result of an identical one, even after the session.
Share(r) ==
  /\ \E s \in Requests : outcome[s] = "ok" /\ request[s] = request[r]
  /\ Return(r, "ok")
  /\ UNCHANGED lines

\* A call that fails leaves no trace.
Fail(r) == Return(r, "failed") /\ UNCHANGED lines

\* Every open line is handed over, in the order of the last changes.
Finalize ==
  /\ status = "ACTIVE"
  /\ status' = "FINALIZED"
  /\ closed' = closed \cup
       {[line |-> i, hist |-> Conversation(open[i]), turns |-> open[i].turns,
         place |-> open[i].last] : i \in DOMAIN open}
  /\ open' = [i \in {} |-> i]
  /\ UNCHANGED <<fresh, clock, request, outcome>>

\* Nothing is handed over.
Abort ==
  /\ status = "ACTIVE"
  /\ status' = "ABORTED"
  /\ closed' = {}
  /\ open' = [i \in {} |-> i]
  /\ UNCHANGED <<fresh, clock, request, outcome>>

Next ==
  \/ \E r \in Requests : Serve(r) \/ Exhaust(r) \/ Share(r) \/ Fail(r)
  \/ Finalize
  \/ Abort

Spec == Init /\ [][Next]_vars

=============================================================================
