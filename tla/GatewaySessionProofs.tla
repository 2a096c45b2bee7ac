------------------------ MODULE GatewaySessionProofs ------------------------
(***************************************************************************)
(* Theorems about GatewaySession, for every set of requests, prompts and   *)
(* replies, every capacity and both settings of its two options: types,    *)
(* why reservations and coalescing are safe; what a generation gives to    *)
(* others, and what the trainer may receive; and why the session           *)
(* implements SessionPromise.                                              *)
(*                                                                         *)
(* The inductive invariants: the types and the reservations; the places of *)
(* chains and trajectories (OrderInv), the wake-up of waiters (WakeInv),    *)
(* their count (WaiterInv) and the tokens that are recorded (RecordsInv),  *)
(* whether or not a cleanup is cancelled; and, for the promise, the marks  *)
(* of the chains.                                                          *)
(***************************************************************************)
EXTENDS GatewaySession, SequenceTheorems, FiniteSetTheorems, TLAPS

-----------------------------------------------------------------------------
(* Types.                                                                  *)

\* What _prepare_generation_inputs asserts of a chain: the snapshot taken
\* before the latest assistant lies within the chain.
ChainsOK ==
  \A i \in DOMAIN chains :
    /\ chains[i].start.resp <= Len(chains[i].buf.resp)
    /\ chains[i].start.hist + 1 = Len(chains[i].hist)

TypeInv == TypeOK /\ ChainsOK

\* A prefix of a sequence is a sequence over the same elements.
LEMMA PrefixType ==
  ASSUME NEW S, NEW s \in Seq(S), NEW n \in Int, n <= Len(s)
  PROVE  Prefix(s, n) \in Seq(S)
<1>1. \A k \in 1..n : s[k] \in S
  BY ElementOfSeq
<1>2. QED BY <1>1, SubSeqProperties DEF Prefix

\* The client's message lists are nonempty lists of messages.
LEMMA RequestType ==
  ASSUME NEW q \in Request
  PROVE  q.msgs \in Conversations /\ Len(q.msgs) \in Nat \ {0} /\ q.scope \in Scopes
BY MessagesAssumption DEF Request, Conversations

\* Selection returns no chain, or an unreserved one that agrees with the
\* request up to its latest assistant.
LEMMA SelectFacts ==
  ASSUME NEW q \in Request, NEW i \in SelectChain(q)
  PROVE  \/ i = NoChain
         \/ /\ i \in DOMAIN chains \ reserved
            /\ chains[i].scope = q.scope
            /\ chains[i].start.hist < Len(q.msgs)
            /\ i \in ExactMatches(q) => Len(chains[i].hist) <= Len(q.msgs)
BY DEF SelectChain, Ranked, DeepestRewrites, Rewrites, ExactMatches, Candidates, Agrees

\* What is kept of a chain, whole or rolled back, is a buffer.
LEMMA KeptBufferType ==
  ASSUME TypeInv, NEW q \in Request, NEW i \in DOMAIN chains
  PROVE  KeptBuffer(i, q) \in Buffer
<1> DEFINE c == chains[i]
<1>1. c \in Chain /\ c.start.resp <= Len(c.buf.resp)
  BY DEF TypeInv, TypeOK, ChainsOK
<1>2. /\ c.buf \in Buffer /\ c.start.resp \in Nat
      /\ c.buf.prompt \in Int
      /\ c.buf.resp \in Seq(Conversations) /\ c.buf.marks \in Seq(Conversations)
  BY <1>1 DEF Chain, Buffer, LastAssistantStart
<1>3. Prefix(c.buf.resp, c.start.resp - 1) \in Seq(Conversations)
  <2>1. Len(c.buf.resp) \in Nat
    BY <1>2, LenProperties
  <2>2. c.start.resp - 1 \in Int /\ c.start.resp - 1 <= Len(c.buf.resp)
    BY <1>1, <1>2, <2>1
  <2>3. QED BY <1>2, <2>2, PrefixType
<1>4. Prefix(c.buf.marks, Len(c.buf.marks) - 1) \in Seq(Conversations)
  <2>1. Len(c.buf.marks) \in Nat
    BY <1>2, LenProperties
  <2>2. QED BY <1>2, <2>1, PrefixType
<1>5. << >> \in Seq(Conversations)
  BY EmptySeq
<1>6. DropLastAssistant(c) \in Buffer
  BY <1>2, <1>3, <1>4, <1>5 DEF DropLastAssistant, Buffer
<1>7. QED BY <1>2, <1>6 DEF KeptBuffer

\* Encoding context messages after a buffer gives a buffer.
LEMMA AppendContextType ==
  ASSUME NEW buf \in Buffer, NEW n \in Nat
  PROVE  AppendContext(buf, n) \in Buffer
<1>1. Context \in Conversations
  BY EmptySeq DEF Context, Conversations
<1>2. [i \in 1..(n + 1) |-> Context] \in Seq(Conversations)
  BY <1>1, IsASeq
<1>3. buf.resp \in Seq(Conversations)
  BY DEF Buffer
<1>4. buf.resp \o [i \in 1..(n + 1) |-> Context] \in Seq(Conversations)
  BY <1>2, <1>3, ConcatProperties
<1>5. QED BY <1>4 DEF AppendContext, Buffer

\* _prepare_generation_inputs hands a well-formed EncodedData to the backend.
LEMMA EncodeType ==
  ASSUME TypeInv, NEW q \in Request, NEW i \in SelectChain(q)
  PROVE  Encode(i, q) \in Encoded
<1>1. CASE i = NoChain
  <2>1. << >> \in Seq(Conversations)
    BY EmptySeq
  <2>2. MergedBuffer(i, q) \in Buffer
    BY <1>1, <2>1, RequestType DEF MergedBuffer, InitialBuffer, Buffer
  <2>3. QED BY <1>1, <2>2 DEF Encode, Encoded, NoChain
<1>2. CASE i # NoChain
  <2>1. /\ i \in DOMAIN chains
        /\ chains[i].start.hist < Len(q.msgs)
        /\ i \in ExactMatches(q) => Len(chains[i].hist) <= Len(q.msgs)
    BY <1>2, SelectFacts
  <2>2. chains[i] \in Chain /\ i \in Nat
    BY <2>1 DEF TypeInv, TypeOK
  <2>3. chains[i].start.hist \in Nat /\ Len(chains[i].hist) \in Nat /\ chains[i].updated \in Nat
    BY <2>2, LenProperties DEF Chain, LastAssistantStart, Conversations
  <2>4. NewMessages(i, q) \in Nat
    BY <2>1, <2>3, RequestType DEF NewMessages
  <2>5. KeptBuffer(i, q) \in Buffer
    BY <2>1, KeptBufferType
  <2>6. MergedBuffer(i, q) \in Buffer
    BY <1>2, <2>4, <2>5, AppendContextType DEF MergedBuffer
  <2>7. QED BY <1>2, <2>2, <2>3, <2>5, <2>6 DEF Encode, Encoded
<1>3. QED BY <1>1, <1>2

\* Appending a generation and its mark to a buffer gives a buffer.
LEMMA AppendGenerationType ==
  ASSUME NEW buf \in Buffer, NEW conversation \in Conversations, NEW n \in Nat
  PROVE  /\ AppendGeneration(buf, conversation, n) \in Buffer
         /\ Len(buf.resp) <= Len(AppendGeneration(buf, conversation, n).resp)
<1> DEFINE new == [i \in 1..n |-> conversation]
<1>1. new \in Seq(Conversations) /\ Len(new) \in Nat
  BY IsASeq, LenProperties
<1>2. buf.resp \in Seq(Conversations) /\ buf.marks \in Seq(Conversations) /\ buf.prompt \in Int
  BY DEF Buffer
<1>3. /\ buf.resp \o new \in Seq(Conversations)
      /\ Len(buf.resp) <= Len(buf.resp \o new)
  BY <1>1, <1>2, ConcatProperties, LenProperties
<1>4. Append(buf.marks, conversation) \in Seq(Conversations)
  BY <1>2
<1>5. QED BY <1>2, <1>3, <1>4 DEF AppendGeneration, Buffer

\* What a commit stores is a chain, and its snapshot lies within it.
LEMMA CommittedChainType ==
  ASSUME TypeInv, NEW r \in Requests, NEW reply \in Replies, NEW n \in GenLens,
         enc[r].chain \in DOMAIN chains \cup {NoChain}
  PROVE  LET c == CommittedChain(r, reply, n) IN
         /\ c \in Chain
         /\ c.start.resp <= Len(c.buf.resp)
         /\ c.start.hist + 1 = Len(c.hist)
<1> DEFINE m == req[r].msgs
           t == Append(m, reply)
           buf == AppendGeneration(enc[r].buf, t, n)
           waited == waiters[r] + (IF enc[r].chain = NoChain THEN 0
                                   ELSE chains[enc[r].chain].coalesced)
<1>1. req[r] \in Request /\ enc[r] \in Encoded /\ waiters[r] \in Nat /\ order_seq \in Nat
  BY DEF TypeInv, TypeOK
<1>2. m \in Conversations /\ Len(m) \in Nat /\ req[r].scope \in Scopes
  BY <1>1, RequestType
<1>3. t \in Conversations /\ Len(t) = Len(m) + 1
  BY <1>2, MessagesAssumption DEF Conversations
<1>4. enc[r].buf \in Buffer
  BY <1>1 DEF Encoded
<1>5. enc[r].buf.resp \in Seq(Conversations) /\ Len(enc[r].buf.resp) \in Nat
  BY <1>4, LenProperties DEF Buffer
<1>6. n \in Nat
  BY ParametersAssumption
<1>7. buf \in Buffer /\ Len(enc[r].buf.resp) <= Len(buf.resp)
  BY <1>3, <1>4, <1>6, AppendGenerationType
<1>8. waited \in Nat
  <2>1. CASE enc[r].chain = NoChain
    BY <1>1, <2>1
  <2>2. CASE enc[r].chain # NoChain
    <3>1. chains[enc[r].chain] \in Chain
      BY <2>2 DEF TypeInv, TypeOK
    <3>2. QED BY <1>1, <2>2, <3>1 DEF Chain
  <2>3. QED BY <2>1, <2>2
<1>9. CommittedChain(r, reply, n) =
        [hist |-> t, scope |-> req[r].scope, buf |-> buf,
         start |-> [resp |-> Len(enc[r].buf.resp), hist |-> Len(m)],
         updated |-> order_seq + 1, coalesced |-> waited]
  BY DEF CommittedChain
<1> HIDE DEF buf, waited, t, m
<1>10. CommittedChain(r, reply, n) \in Chain
  BY <1>1, <1>2, <1>3, <1>5, <1>7, <1>8, <1>9 DEF Chain, LastAssistantStart
<1>11. QED BY <1>2, <1>3, <1>7, <1>9, <1>10

\* Materializing a chain gives a trajectory.
LEMMA MaterializeType ==
  ASSUME NEW c \in Chain, NEW i \in Nat, NEW order \in Nat
  PROVE  Materialize(i, c, order) \in Trajectory
BY DEF Materialize, Trajectory, Chain

\* Closing a chain leaves the others alone and appends a trajectory at most.
LEMMA CloseExhaustedType ==
  ASSUME TypeInv, NEW q \in Request, NEW i \in SelectChain(q), i # NoChain,
         CloseExhausted(i, q)
  PROVE  /\ chains' = Without(chains, i)
         /\ materialized' \subseteq Trajectory
         /\ order_seq' \in Nat
<1> DEFINE e == Encode(i, q)
           c == chains[i]
           kept == IF e.rolled
                   THEN [c EXCEPT !.hist = Prefix(q.msgs, c.start.hist), !.buf = e.buf]
                   ELSE c
<1>1. i \in DOMAIN chains /\ c.start.hist < Len(q.msgs)
  BY SelectFacts
<1>2. c \in Chain /\ i \in Nat /\ order_seq \in Nat /\ materialized \subseteq Trajectory
  BY <1>1 DEF TypeInv, TypeOK
<1>3. e \in Encoded
  BY EncodeType
<1>4. Prefix(q.msgs, c.start.hist) \in Conversations
  <2>1. c.start.hist \in Nat
    BY <1>2 DEF Chain, LastAssistantStart
  <2>2. q.msgs \in Seq(Messages) /\ Len(q.msgs) \in Nat
    BY RequestType DEF Conversations
  <2>3. QED BY <1>1, <2>1, <2>2, PrefixType DEF Conversations
<1>5. kept \in Chain
  BY <1>2, <1>3, <1>4 DEF Chain, Encoded
<1>6. Materialize(i, kept, order_seq + 1) \in Trajectory
  BY <1>2, <1>5, MaterializeType
<1>7. QED BY <1>2, <1>6 DEF CloseExhausted

\* What a future is given to hold is an outcome.
LEMMA OutcomeType ==
  ASSUME NEW state \in {"none", "pending", "ok", "failed"}, NEW i \in Nat
  PROVE  [state |-> state, chain |-> i] \in Outcome
BY DEF Outcome

\* Resolving a failed owner keeps the types of the registry and the futures.
LEMMA ResolveFailedType ==
  ASSUME TypeInv, NEW r \in Requests, ResolveFailed(r)
  PROVE  /\ inflight' \in [Request -> Requests \cup {NoOwner}]
         /\ future' \in [Requests -> Outcome]
<1>1. [state |-> "failed", chain |-> NoChain] \in Outcome
  BY OutcomeType DEF NoChain
<1>2. /\ inflight \in [Request -> Requests \cup {NoOwner}]
      /\ future \in [Requests -> Outcome]
  BY DEF TypeInv, TypeOK
<1>3. QED BY <1>1, <1>2 DEF ResolveFailed

\* The except clause of run_generation keeps the types of what it changes.
LEMMA UnwindType ==
  ASSUME TypeInv, NEW r \in Requests, Unwind(r)
  PROVE  /\ inflight' \in [Request -> Requests \cup {NoOwner}]
         /\ future' \in [Requests -> Outcome]
         /\ releases' \in [Requests -> Nat]
         /\ pc' \in [Requests -> Labels]
<1>1. /\ inflight \in [Request -> Requests \cup {NoOwner}]
      /\ future \in [Requests -> Outcome]
      /\ releases \in [Requests -> Nat]
      /\ pc \in [Requests -> Labels]
  BY DEF TypeInv, TypeOK
<1>2. CASE enc[r].chain = NoChain
  BY <1>1, <1>2, ResolveFailedType DEF Unwind, GoTo, Labels
<1>3. CASE enc[r].chain # NoChain
  BY <1>1, <1>3 DEF Unwind, GoTo, Labels
<1>4. QED BY <1>2, <1>3

\* A new session is well typed.
LEMMA TypeInit == Init => TypeInv
<1> SUFFICES ASSUME Init PROVE TypeInv
  OBVIOUS
<1>1. NoEncoding \in Encoded
  BY EmptySeq DEF NoEncoding, Encoded, Buffer, NoChain
<1>2. DOMAIN chains = {}
  BY DEF Init
<1>3. [state |-> "none", chain |-> NoChain] \in Outcome
  BY OutcomeType DEF NoChain
<1>4. future \in [Requests -> Outcome] /\ enc \in [Requests -> Encoded]
  BY <1>1, <1>3 DEF Init
<1>5. QED BY <1>2, <1>4, ParametersAssumption
        DEF Init, TypeInv, TypeOK, ChainsOK, Labels, Owning, NoChain

\* Every step of a request, and finalize and abort, keep the types.
LEMMA TypeStep == TypeInv /\ [Next]_vars => TypeInv'
<1> SUFFICES ASSUME TypeInv, [Next]_vars PROVE TypeInv'
  OBVIOUS
<1> USE DEF TypeInv, TypeOK, ChainsOK, GoTo, session, tasks, Labels, Owning
<1>1. ASSUME NEW r \in Requests, Reject(r) PROVE TypeInv'
  BY <1>1 DEF Reject
<1>2. ASSUME NEW r \in Requests, Join(r) PROVE TypeInv'
  <2> DEFINE owner == inflight[req[r]]
  <2>1. owner \in Requests
    <3>1. req[r] \in Request /\ inflight \in [Request -> Requests \cup {NoOwner}]
      OBVIOUS
    <3>2. QED BY <1>2, <3>1 DEF Join
  <2>2. waiters' \in [Requests -> Nat] /\ joined' \in [Requests -> Requests \cup {NoOwner}]
    BY <1>2, <2>1 DEF Join
  <2>3. coalesced' \in Nat /\ pc' \in [Requests -> Labels]
    BY <1>2 DEF Join
  <2>4. QED BY <1>2, <2>2, <2>3 DEF Join
<1>3. ASSUME NEW r \in Requests, StartPrepare(r) PROVE TypeInv'
  BY <1>3 DEF StartPrepare
<1>4. ASSUME NEW r \in Requests, Reserve(r) PROVE TypeInv'
  <2>1. PICK i \in SelectChain(req[r]) :
          /\ enc' = [enc EXCEPT ![r] = Encode(i, req[r])]
          /\ reserved' = reserved \cup ({i} \ {NoChain})
          /\ \/ /\ inflight' = [inflight EXCEPT ![req[r]] = r]
                /\ future' = [future EXCEPT ![r] = [state |-> "pending", chain |-> NoChain]]
             \/ UNCHANGED <<inflight, future>>
          /\ lock' = NoOwner
          /\ GoTo(r, "generating")
          /\ UNCHANGED <<phase, chains, materialized, next_chain_id, order_seq,
                         coalesced, req, waiters, joined, releases, faults>>
    BY <1>4 DEF Reserve
  <2>2. req[r] \in Request
    OBVIOUS
  <2>3. Encode(i, req[r]) \in Encoded
    BY <2>2, EncodeType
  <2>4. i \in DOMAIN chains \/ i = NoChain
    BY <2>2, SelectFacts
  <2>5. reserved' \subseteq Nat
    BY <2>1, <2>4
  <2>6. future' \in [Requests -> Outcome]
    <3>1. [state |-> "pending", chain |-> NoChain] \in Outcome
      BY OutcomeType DEF NoChain
    <3>2. QED BY <2>1, <3>1
  <2>7. enc' \in [Requests -> Encoded]
    BY <2>1, <2>3
  <2>8. inflight' \in [Request -> Requests \cup {NoOwner}]
    BY <2>1
  <2>9. pc' \in [Requests -> Labels] /\ lock' \in Requests \cup {NoOwner}
    BY <2>1
  <2>10. QED BY <2>1, <2>5, <2>6, <2>7, <2>8, <2>9
<1>5. ASSUME NEW r \in Requests, ExhaustCapacity(r) PROVE TypeInv'
  <2>1. PICK i \in SelectChain(req[r]) :
          /\ IF i = NoChain
             THEN UNCHANGED <<chains, materialized, order_seq>>
             ELSE CloseExhausted(i, req[r])
          /\ lock' = NoOwner
          /\ GoTo(r, "length")
          /\ UNCHANGED <<phase, reserved, inflight, next_chain_id, coalesced,
                         req, enc, future, waiters, joined, releases, faults>>
    BY <1>5 DEF ExhaustCapacity
  <2>2. req[r] \in Request
    OBVIOUS
  <2>3. CASE i = NoChain
    BY <2>1, <2>3
  <2>4. CASE i # NoChain
    <3>1. /\ chains' = Without(chains, i)
          /\ materialized' \subseteq Trajectory
          /\ order_seq' \in Nat
      BY <2>1, <2>2, <2>4, CloseExhaustedType
    <3>2. QED BY <2>1, <3>1 DEF Without
  <2>5. QED BY <2>3, <2>4
<1>6. ASSUME NEW r \in Requests, Generated(r) PROVE TypeInv'
  BY <1>6 DEF Generated
<1>7. ASSUME NEW r \in Requests, StartCommit(r) PROVE TypeInv'
  BY <1>7 DEF StartCommit
<1>8. ASSUME NEW r \in Requests, Commit(r) PROVE TypeInv'
  <2>1. PICK reply \in Replies, n \in GenLens :
          LET i == IF enc[r].chain = NoChain THEN next_chain_id ELSE enc[r].chain IN
          /\ enc[r].chain \in DOMAIN chains \cup {NoChain}
          /\ chains' = With(chains, i, CommittedChain(r, reply, n))
          /\ order_seq' = order_seq + 1
          /\ next_chain_id' = IF enc[r].chain = NoChain THEN i + 1 ELSE next_chain_id
          /\ reserved' = reserved \ {enc[r].chain}
          /\ \/ /\ inflight' = [inflight EXCEPT ![req[r]] = NoOwner]
                /\ future' = [future EXCEPT ![r] = [state |-> "ok", chain |-> i]]
             \/ UNCHANGED <<inflight, future>>
          /\ lock' = NoOwner
          /\ GoTo(r, "ok")
          /\ UNCHANGED <<phase, materialized, coalesced, req, enc, waiters, joined,
                         releases, faults>>
    BY <1>8 DEF Commit
  <2> DEFINE i == IF enc[r].chain = NoChain THEN next_chain_id ELSE enc[r].chain
             c == CommittedChain(r, reply, n)
  <2>2. i \in Nat \ {NoChain}
    BY <2>1 DEF NoChain, Encoded
  <2>3. /\ c \in Chain
        /\ c.start.resp <= Len(c.buf.resp)
        /\ c.start.hist + 1 = Len(c.hist)
    BY <2>1, CommittedChainType
  <2> HIDE DEF c, i
  <2>4. chains' = With(chains, i, c)
    BY <2>1 DEF i, c
  <2>5. /\ DOMAIN chains' \subseteq Nat \ {NoChain}
        /\ chains' \in [DOMAIN chains' -> Chain]
        /\ ChainsOK'
    BY <2>2, <2>3, <2>4 DEF With
  <2>6. future' \in [Requests -> Outcome]
    <3>1. [state |-> "ok", chain |-> i] \in Outcome
      BY <2>2, OutcomeType
    <3>2. QED BY <2>1, <3>1 DEF i
  <2>7. inflight' \in [Request -> Requests \cup {NoOwner}]
    BY <2>1
  <2>8. next_chain_id' \in Nat \ {NoChain} /\ order_seq' \in Nat /\ reserved' \subseteq Nat
    BY <2>1, <2>2 DEF NoChain
  <2>9. QED BY <2>1, <2>5, <2>6, <2>7, <2>8
<1>9. ASSUME NEW r \in Requests, CommitTooLate(r) PROVE TypeInv'
  BY <1>9, UnwindType DEF CommitTooLate
<1>10. ASSUME NEW r \in Requests, ReleaseReservation(r) PROVE TypeInv'
  BY <1>10 DEF ReleaseReservation
<1>11. ASSUME NEW r \in Requests, FinishUnwind(r) PROVE TypeInv'
  BY <1>11, ResolveFailedType DEF FinishUnwind
<1>12. ASSUME NEW r \in Requests, Wake(r) PROVE TypeInv'
  BY <1>12 DEF Wake
<1>13. ASSUME NEW r \in Requests, FailUnowned(r) PROVE TypeInv'
  <2>1. faults' \in 0..MaxFaults
    BY <1>13, ParametersAssumption DEF FailUnowned
  <2>2. lock' \in Requests \cup {NoOwner}
    BY <1>13 DEF FailUnowned
  <2>3. QED BY <1>13, <2>1, <2>2 DEF FailUnowned
<1>14. ASSUME NEW r \in Requests, FailOwned(r) PROVE TypeInv'
  <2>1. faults' \in 0..MaxFaults
    BY <1>14, ParametersAssumption DEF FailOwned
  <2>2. lock' \in Requests \cup {NoOwner}
    BY <1>14 DEF FailOwned
  <2>3. Unwind(r)
    BY <1>14 DEF FailOwned
  <2>4. QED BY <1>14, <2>1, <2>2, <2>3, UnwindType DEF FailOwned
<1>15. ASSUME NEW r \in Requests, CancelUnwind(r) PROVE TypeInv'
  <2>1. faults' \in 0..MaxFaults
    BY <1>15, ParametersAssumption DEF CancelUnwind
  <2>2. releases' \in [Requests -> Nat] /\ pc' \in [Requests -> Labels]
    <3>1. releases \in [Requests -> Nat] /\ pc \in [Requests -> Labels]
      OBVIOUS
    <3>2. CASE pc[r] = "releasing"
      BY ONLY <1>15, <3>1, <3>2 DEF CancelUnwind, GoTo, Labels
    <3>3. CASE pc[r] # "releasing"
      BY ONLY <1>15, <3>1, <3>3 DEF CancelUnwind, GoTo, Labels
    <3>4. QED BY <3>2, <3>3
  <2>3. QED BY <1>15, <2>1, <2>2 DEF CancelUnwind
<1>16. ASSUME Finalize PROVE TypeInv'
  <2>1. {Materialize(i, chains[i], chains[i].updated) : i \in DOMAIN chains} \subseteq Trajectory
    BY MaterializeType DEF Chain
  <2>2. QED BY <1>16, <2>1 DEF Finalize
<1>17. ASSUME Abort PROVE TypeInv'
  BY <1>17 DEF Abort
<1>18. CASE UNCHANGED vars
  BY <1>18 DEF vars
<1>19. QED
  BY <1>1, <1>2, <1>3, <1>4, <1>5, <1>6, <1>7, <1>8, <1>9, <1>10, <1>11, <1>12,
     <1>13, <1>14, <1>15, <1>16, <1>17, <1>18
     DEF Next, Step, Fault, Terminated

\* The inductive invariant behind the types: the snapshot that
\* _prepare_generation_inputs asserts on ("last_assistant_start.response_ids_len
\* <= len(response_ids)") always lies within its chain.
THEOREM SnapshotsWithinChain == Spec => []TypeInv
<1>1. QED BY TypeInit, TypeStep, PTL DEF Spec

\* Every variable keeps its type, through prepare, commit, rollback and closing.
THEOREM TypeCorrect == Spec => []TypeOK
<1>1. TypeInv => TypeOK
  BY DEF TypeInv
<1>2. QED BY <1>1, SnapshotsWithinChain, PTL

-----------------------------------------------------------------------------
(* The lock, the owners of the fingerprints and the reservations.          *)

Locking == {"preparing", "decoding"}

\* request_lock is held across awaits by the request that prepares or decodes,
\* and never past the end of the session.
LockInv ==
  /\ \A r \in Requests : lock = r <=> pc[r] \in Locking
  /\ lock # NoOwner => phase = "ACTIVE"

\* The owner of a fingerprint sent it, and while it is prepared no other owns it.
OwnerInv ==
  /\ \A q \in Request : inflight[q] # NoOwner => req[inflight[q]] = q
  /\ ~Coalesce => \A q \in Request : inflight[q] = NoOwner
  /\ Coalesce => \A r \in Requests :
       /\ pc[r] \in Owning => inflight[req[r]] = r
       /\ pc[r] = "preparing" => inflight[req[r]] = NoOwner

\* One release at most is pending, and its task is still there to see it run.
ReleaseInv ==
  \A r \in Requests :
    /\ releases[r] \in {0, 1}
    /\ releases[r] = 1 => pc[r] \in {"releasing", "finally"}

\* r reserved a chain and neither committed nor gave it back.
Claims(r) ==
  /\ phase = "ACTIVE"
  /\ enc[r].chain # NoChain
  /\ pc[r] \in Owning \/ releases[r] > 0

\* The reservations are exactly the chains claimed, one request for each.
ClaimInv ==
  /\ \A i \in DOMAIN chains : i < next_chain_id
  /\ reserved \subseteq DOMAIN chains
  /\ phase # "ACTIVE" => reserved = {}
  /\ \A i \in reserved : \E r \in Requests : Claims(r) /\ enc[r].chain = i
  /\ \A r \in Requests : Claims(r) => enc[r].chain \in reserved
  /\ \A r, s \in Requests :
       Claims(r) /\ Claims(s) /\ enc[r].chain = enc[s].chain => r = s

ReservationInv == ReleaseInv /\ ClaimInv /\ SnapshotCurrent

-----------------------------------------------------------------------------
\* Every step that takes request_lock finds it free; the holder frees it.
LEMMA LockStep == TypeInv /\ LockInv /\ [Next]_vars => LockInv'
<1> SUFFICES ASSUME TypeInv, LockInv, [Next]_vars PROVE LockInv'
  OBVIOUS
<1>a. pc \in [Requests -> Labels] /\ lock \in Requests \cup {NoOwner} /\ NoOwner \notin Requests
  BY ParametersAssumption DEF TypeInv, TypeOK
<1> USE <1>a DEF LockInv, Locking, GoTo, session, tasks
<1>1. ASSUME NEW r \in Requests, Step(r) \/ Fault(r) PROVE LockInv'
  <2>1. CASE Reject(r) \/ Join(r) \/ Generated(r) \/ ReleaseReservation(r)
             \/ FinishUnwind(r) \/ Wake(r)
    BY <2>1 DEF Reject, Join, Generated, ReleaseReservation, FinishUnwind, Wake
  <2>2. CASE StartPrepare(r) \/ StartCommit(r)
    BY <2>2 DEF StartPrepare, StartCommit
  <2>3. CASE Reserve(r)
    BY <2>3 DEF Reserve
  <2>4. CASE ExhaustCapacity(r)
    BY <2>4 DEF ExhaustCapacity
  <2>5. CASE Commit(r)
    BY <2>5 DEF Commit
  <2>6. CASE CommitTooLate(r) \/ FailOwned(r)
    <3>1. \E label \in {"failed", "releasing", "finally"} : GoTo(r, label)
      BY <2>6 DEF CommitTooLate, FailOwned, Unwind
    <3>2. QED BY <2>6, <3>1 DEF CommitTooLate, FailOwned
  <2>7. CASE FailUnowned(r)
    BY <2>7 DEF FailUnowned
  <2>8. CASE CancelUnwind(r)
    BY <2>8 DEF CancelUnwind
  <2>9. QED BY <1>1, <2>1, <2>2, <2>3, <2>4, <2>5, <2>6, <2>7, <2>8 DEF Step, Fault
<1>2. CASE Finalize \/ Abort
  BY <1>2 DEF Finalize, Abort
<1>3. CASE UNCHANGED vars
  BY <1>3 DEF vars
<1>4. QED BY <1>1, <1>2, <1>3 DEF Next, Terminated

\* request_lock is held by exactly the request that prepares or decodes.
LEMMA LockCorrect == Spec => []LockInv
<1>1. Init => LockInv
  BY ParametersAssumption DEF Init, LockInv, Locking
<1>2. QED BY <1>1, LockStep, SnapshotsWithinChain, PTL DEF Spec

-----------------------------------------------------------------------------
\* A failing request gives up its own fingerprint and no other.
LEMMA ResolveFailedOwner ==
  ASSUME TypeInv, NEW r \in Requests, ResolveFailed(r)
  PROVE  \A q \in Request : \/ inflight'[q] = inflight[q]
                            \/ inflight[q] = r /\ inflight'[q] = NoOwner
<1>1. inflight \in [Request -> Requests \cup {NoOwner}] /\ req[r] \in Request
  BY DEF TypeInv, TypeOK
<1>2. QED BY <1>1 DEF ResolveFailed

\* A step registers, keeps or clears the fingerprint of its own request only.
LEMMA OwnerStep == TypeInv /\ LockInv /\ OwnerInv /\ [Next]_vars => OwnerInv'
<1> SUFFICES ASSUME TypeInv, LockInv, OwnerInv, [Next]_vars PROVE OwnerInv'
  OBVIOUS
<1>a. /\ pc \in [Requests -> Labels] /\ req \in [Requests -> Request]
      /\ inflight \in [Request -> Requests \cup {NoOwner}]
      /\ lock \in Requests \cup {NoOwner} /\ NoOwner \notin Requests
  BY ParametersAssumption DEF TypeInv, TypeOK
<1>b. \A r \in Requests : lock = r <=> pc[r] \in Locking
  BY DEF LockInv
<1> USE <1>a DEF OwnerInv, Owning, GoTo, session, tasks
<1>1. ASSUME NEW r \in Requests, Step(r) \/ Fault(r) PROVE OwnerInv'
  <2>1. CASE \/ Reject(r) \/ Join(r) \/ Generated(r) \/ ReleaseReservation(r)
             \/ Wake(r) \/ ExhaustCapacity(r) \/ FailUnowned(r) \/ CancelUnwind(r)
    BY <2>1 DEF Reject, Join, Generated, ReleaseReservation, Wake, ExhaustCapacity,
                FailUnowned, CancelUnwind
  <2>2. CASE StartPrepare(r)
    BY <2>2 DEF StartPrepare
  <2>3. CASE StartCommit(r)
    BY <2>3 DEF StartCommit
  <2>4. CASE Reserve(r)
    <3>1. \A s \in Requests : pc[s] = "preparing" => s = r
      BY <1>b, <2>4 DEF Reserve, Locking
    <3>2. /\ pc[r] = "preparing"
          /\ IF Coalesce THEN inflight' = [inflight EXCEPT ![req[r]] = r]
                         ELSE UNCHANGED inflight
          /\ pc' = [pc EXCEPT ![r] = "generating"] /\ req' = req
      BY <2>4 DEF Reserve
    <3>3. QED BY <3>1, <3>2
  <2>5. CASE Commit(r)
    <3>1. /\ pc[r] = "decoding"
          /\ IF Coalesce /\ inflight[req[r]] = r
             THEN inflight' = [inflight EXCEPT ![req[r]] = NoOwner]
             ELSE UNCHANGED inflight
          /\ pc' = [pc EXCEPT ![r] = "ok"] /\ req' = req
      BY <2>5 DEF Commit
    <3>2. QED BY <3>1
  <2>6. CASE CommitTooLate(r) \/ FailOwned(r)
    <3>1. /\ pc[r] \in Owning /\ Unwind(r) /\ req' = req
      BY <2>6 DEF CommitTooLate, FailOwned
    <3>2. CASE enc[r].chain = NoChain
      <4>1. ResolveFailed(r) /\ pc' = [pc EXCEPT ![r] = "failed"]
        BY <3>1, <3>2 DEF Unwind
      <4>2. QED BY <3>1, <4>1, ResolveFailedOwner
    <3>3. CASE enc[r].chain # NoChain
      <4>1. /\ UNCHANGED inflight
            /\ \/ pc' = [pc EXCEPT ![r] = "releasing"]
               \/ pc' = [pc EXCEPT ![r] = "finally"]
        BY <3>1, <3>3 DEF Unwind
      <4>2. QED BY <3>1, <4>1
    <3>4. QED BY <3>2, <3>3
  <2>7. CASE FinishUnwind(r)
    <3>1. /\ pc[r] \in {"releasing", "finally"}
          /\ ResolveFailed(r) \/ UNCHANGED inflight
          /\ pc' = [pc EXCEPT ![r] = "failed"] /\ req' = req
      BY <2>7 DEF FinishUnwind
    <3>2. \A q \in Request : \/ inflight'[q] = inflight[q]
                             \/ inflight[q] = r /\ inflight'[q] = NoOwner
      BY <3>1, ResolveFailedOwner
    <3>3. QED BY <3>1, <3>2
  <2>8. QED BY <1>1, <2>1, <2>2, <2>3, <2>4, <2>5, <2>6, <2>7 DEF Step, Fault
<1>2. CASE Finalize \/ Abort
  BY <1>2 DEF Finalize, Abort
<1>3. CASE UNCHANGED vars
  BY <1>3 DEF vars
<1>4. QED BY <1>1, <1>2, <1>3 DEF Next, Terminated

\* A coalescing request at the backend or committing owns its fingerprint.
LEMMA OwnerCorrect == Spec => []OwnerInv
<1>1. Init => OwnerInv
  BY DEF Init, OwnerInv, Owning
<1>2. QED BY <1>1, OwnerStep, SnapshotsWithinChain, LockCorrect, PTL DEF Spec

\* "the backend generation and trajectory commit happen once": of two identical
\* requests that coalesce, at most one is at the backend or committing.
THEOREM GenerationIsUnique == Spec => []OneGeneration
<1>1. TypeInv /\ OwnerInv => OneGeneration
  BY DEF TypeInv, TypeOK, OwnerInv, OneGeneration
<1>2. QED BY <1>1, OwnerCorrect, SnapshotsWithinChain, PTL

-----------------------------------------------------------------------------
\* "the coordination state is cleared so a later retry can try again": as long
\* as no cleanup is itself cancelled, a registered owner is still running.
LEMMA CoordinationStep ==
  ASSUME ~CleanupCancel, TypeInv, OwnerInv, CoordinationCleared, [Next]_vars
  PROVE  CoordinationCleared'
<1>a. /\ pc \in [Requests -> Labels] /\ req \in [Requests -> Request]
      /\ inflight \in [Request -> Requests \cup {NoOwner}]
      /\ NoOwner \notin Requests
  BY ParametersAssumption DEF TypeInv, TypeOK
<1> USE <1>a DEF CoordinationCleared, Owning, GoTo, session, tasks
<1>1. ASSUME NEW r \in Requests, Step(r) \/ Fault(r) PROVE CoordinationCleared'
  <2>1. CASE \/ Reject(r) \/ Join(r) \/ StartPrepare(r) \/ ExhaustCapacity(r)
             \/ Generated(r) \/ StartCommit(r) \/ ReleaseReservation(r) \/ Wake(r)
    BY <2>1 DEF Reject, Join, StartPrepare, ExhaustCapacity, Generated, StartCommit,
                ReleaseReservation, Wake
  <2>2. CASE FailUnowned(r) \/ CancelUnwind(r)
    BY <2>2 DEF FailUnowned, CancelUnwind
  <2>3. CASE Reserve(r)
    <3>1. /\ \/ inflight' = [inflight EXCEPT ![req[r]] = r]
             \/ UNCHANGED inflight
          /\ pc[r] = "preparing" /\ pc' = [pc EXCEPT ![r] = "generating"]
      BY <2>3 DEF Reserve
    <3>2. QED BY <3>1
  <2>4. CASE Commit(r)
    <3>1. /\ IF Coalesce /\ inflight[req[r]] = r
             THEN inflight' = [inflight EXCEPT ![req[r]] = NoOwner]
             ELSE UNCHANGED inflight
          /\ pc' = [pc EXCEPT ![r] = "ok"]
      BY <2>4 DEF Commit
    <3>2. \A q \in Request : inflight[q] = r => req[r] = q /\ Coalesce
      BY DEF OwnerInv
    <3>3. QED BY <3>1, <3>2
  <2>5. CASE CommitTooLate(r) \/ FailOwned(r)
    <3>1. pc[r] \in Owning /\ Unwind(r)
      BY <2>5 DEF CommitTooLate, FailOwned
    <3>2. \A q \in Request : inflight[q] = r => req[r] = q /\ Coalesce
      BY DEF OwnerInv
    <3>3. CASE enc[r].chain = NoChain
      <4>1. ResolveFailed(r) /\ pc' = [pc EXCEPT ![r] = "failed"]
        BY <3>1, <3>3 DEF Unwind
      <4>2. QED BY <3>2, <4>1 DEF ResolveFailed
    <3>4. CASE enc[r].chain # NoChain
      <4>1. /\ UNCHANGED inflight
            /\ IF Coalesce THEN pc' = [pc EXCEPT ![r] = "releasing"]
                           ELSE pc' = [pc EXCEPT ![r] = "finally"]
        BY <3>1, <3>4 DEF Unwind
      <4>2. QED BY <3>1, <3>2, <4>1
    <3>5. QED BY <3>3, <3>4
  <2>6. CASE FinishUnwind(r)
    <3>1. /\ pc[r] \in {"releasing", "finally"}
          /\ IF pc[r] = "releasing" THEN ResolveFailed(r) ELSE UNCHANGED inflight
          /\ pc' = [pc EXCEPT ![r] = "failed"]
      BY <2>6 DEF FinishUnwind
    <3>2. \A q \in Request : inflight[q] = r => req[r] = q /\ Coalesce
      BY DEF OwnerInv
    <3>3. CASE pc[r] = "releasing"
      BY <3>1, <3>2, <3>3 DEF ResolveFailed
    <3>4. CASE pc[r] = "finally"
      BY <3>1, <3>4
    <3>5. QED BY <3>1, <3>3, <3>4
  <2>7. QED BY <1>1, <2>1, <2>2, <2>3, <2>4, <2>5, <2>6 DEF Step, Fault
<1>2. CASE Finalize \/ Abort
  BY <1>2 DEF Finalize, Abort
<1>3. CASE UNCHANGED vars
  BY <1>3 DEF vars
<1>4. QED BY <1>1, <1>2, <1>3 DEF Next, Terminated

-----------------------------------------------------------------------------
\* Without cancelled cleanups a release is started once and awaited.
LEMMA ReleaseStep ==
  ASSUME ~CleanupCancel, TypeInv, ReleaseInv, [Next]_vars
  PROVE  ReleaseInv'
<1>a. pc \in [Requests -> Labels] /\ releases \in [Requests -> Nat]
  BY DEF TypeInv, TypeOK
<1> USE <1>a DEF ReleaseInv, Owning, GoTo, session, tasks
<1>1. ASSUME NEW r \in Requests, Step(r) \/ Fault(r) PROVE ReleaseInv'
  <2>1. CASE \/ Reject(r) \/ Join(r) \/ StartPrepare(r) \/ ExhaustCapacity(r)
             \/ Generated(r) \/ StartCommit(r) \/ Wake(r) \/ FailUnowned(r)
    BY <2>1 DEF Reject, Join, StartPrepare, ExhaustCapacity, Generated, StartCommit,
                Wake, FailUnowned
  <2>2. CASE Reserve(r)
    BY <2>2 DEF Reserve
  <2>3. CASE Commit(r)
    BY <2>3 DEF Commit
  <2>4. CASE CommitTooLate(r) \/ FailOwned(r)
    <3>1. pc[r] \in Owning /\ Unwind(r)
      BY <2>4 DEF CommitTooLate, FailOwned
    <3>2. \/ pc' = [pc EXCEPT ![r] = "failed"] /\ UNCHANGED releases
          \/ /\ releases' = [releases EXCEPT ![r] = @ + 1]
             /\ \/ pc' = [pc EXCEPT ![r] = "releasing"]
                \/ pc' = [pc EXCEPT ![r] = "finally"]
      BY <3>1 DEF Unwind
    <3>3. QED BY <3>1, <3>2
  <2>5. CASE ReleaseReservation(r)
    BY <2>5 DEF ReleaseReservation
  <2>6. CASE FinishUnwind(r)
    BY <2>6 DEF FinishUnwind
  <2>7. CASE CancelUnwind(r)
    BY <2>7 DEF CancelUnwind
  <2>8. QED BY <1>1, <2>1, <2>2, <2>3, <2>4, <2>5, <2>6, <2>7 DEF Step, Fault
<1>2. CASE Finalize \/ Abort
  BY <1>2 DEF Finalize, Abort
<1>3. CASE UNCHANGED vars
  BY <1>3 DEF vars
<1>4. QED BY <1>1, <1>2, <1>3 DEF Next, Terminated

\* A step that touches neither chains nor reservations, and lets no request
\* start or stop claiming one, or read one.
Unconcerned(r) ==
  /\ UNCHANGED <<phase, chains, next_chain_id, reserved, enc>>
  /\ Claims(r)' <=> Claims(r)
  /\ Holds(r)' => Holds(r)
  /\ \A s \in Requests \ {r} : pc'[s] = pc[s] /\ releases'[s] = releases[s]

\* A step that changes no chain and claims nothing keeps ReservationInv.
LEMMA UnconcernedStep ==
  ASSUME ClaimInv, SnapshotCurrent, NEW r \in Requests, Unconcerned(r)
  PROVE  ClaimInv' /\ SnapshotCurrent'
<1>1. \A s \in Requests : (Claims(s)' <=> Claims(s)) /\ (Holds(s)' => Holds(s))
  BY DEF Unconcerned, Claims, Holds
<1>2. UNCHANGED <<phase, chains, next_chain_id, reserved, enc>>
  BY DEF Unconcerned
<1>3. ClaimInv'
  BY <1>1, <1>2 DEF ClaimInv
<1>4. SnapshotCurrent'
  BY <1>1, <1>2 DEF SnapshotCurrent
<1>5. QED BY <1>3, <1>4

\* Reserving, committing, unwinding and releasing keep one claimant per
\* reserved chain, and nobody else touches the chain meanwhile.
LEMMA ClaimStep ==
  ASSUME ~CleanupCancel, TypeInv, LockInv, ReservationInv, [Next]_vars
  PROVE  ClaimInv' /\ SnapshotCurrent'
<1>a. /\ pc \in [Requests -> Labels] /\ req \in [Requests -> Request]
      /\ enc \in [Requests -> Encoded] /\ releases \in [Requests -> Nat]
      /\ next_chain_id \in Nat \ {NoChain} /\ DOMAIN chains \subseteq Nat \ {NoChain}
  BY DEF TypeInv, TypeOK
<1>b. \A r \in Requests : pc[r] \in Locking => phase = "ACTIVE"
  BY ParametersAssumption DEF LockInv
<1>c. ReleaseInv /\ ClaimInv /\ SnapshotCurrent
  BY DEF ReservationInv
<1>1. ASSUME NEW r \in Requests, Step(r) \/ Fault(r) PROVE ClaimInv' /\ SnapshotCurrent'
  <2>1. CASE \/ Reject(r) \/ Join(r) \/ StartPrepare(r) \/ Generated(r)
             \/ StartCommit(r) \/ Wake(r) \/ FinishUnwind(r)
             \/ FailUnowned(r) \/ FailOwned(r) \/ CommitTooLate(r)
    <3>1. Unconcerned(r)
      <4>1. CASE \/ Reject(r) \/ Join(r) \/ StartPrepare(r) \/ Generated(r)
                 \/ StartCommit(r) \/ Wake(r)
        BY <1>a, <4>1 DEF Reject, Join, StartPrepare, Generated, StartCommit, Wake,
             Unconcerned, Claims, Holds, Owning, GoTo, session, tasks
      <4>2. CASE FinishUnwind(r) \/ FailUnowned(r)
        BY <1>a, <4>2 DEF FinishUnwind, FailUnowned,
             Unconcerned, Claims, Holds, Owning, GoTo, session, tasks
      <4>3. CASE FailOwned(r) \/ CommitTooLate(r)
        <5>1. /\ UNCHANGED <<phase, chains, next_chain_id, reserved, enc>>
              /\ pc[r] \in Owning
              /\ Unwind(r)
          BY <4>3 DEF FailOwned, CommitTooLate, Owning
        <5>2. releases[r] = 0
          BY <1>a, <1>c, <5>1 DEF ReleaseInv, Owning
        <5>3. \/ /\ enc[r].chain = NoChain
                 /\ pc' = [pc EXCEPT ![r] = "failed"]
                 /\ UNCHANGED releases
              \/ /\ enc[r].chain # NoChain
                 /\ \/ pc' = [pc EXCEPT ![r] = "releasing"]
                    \/ pc' = [pc EXCEPT ![r] = "finally"]
                 /\ releases' = [releases EXCEPT ![r] = @ + 1]
          BY <5>1 DEF Unwind, GoTo
        <5>4. QED BY <1>a, <5>1, <5>2, <5>3 DEF Unconcerned, Claims, Holds, Owning
      <4>4. QED BY <2>1, <4>1, <4>2, <4>3
    <3>2. QED BY <1>c, <3>1, UnconcernedStep
  <2>2. CASE Reserve(r)
    <3>1. PICK i \in SelectChain(req[r]) :
            /\ pc[r] = "preparing"
            /\ enc' = [enc EXCEPT ![r] = Encode(i, req[r])]
            /\ reserved' = reserved \cup ({i} \ {NoChain})
            /\ pc' = [pc EXCEPT ![r] = "generating"]
            /\ UNCHANGED <<phase, chains, next_chain_id, releases>>
      BY <2>2 DEF Reserve, GoTo
    <3>2. i = NoChain \/ i \in DOMAIN chains \ reserved
      BY <1>a, SelectFacts
    <3>3. releases[r] = 0
      BY <1>c, <3>1 DEF ReleaseInv
    <3>4. /\ enc'[r].chain = i
          /\ i # NoChain => enc'[r].seen = chains[i].updated
      BY <1>a, <3>1 DEF Encode
    <3>5. phase = "ACTIVE"
      BY <1>b, <3>1 DEF Locking
    <3>6. /\ ~Claims(r)
          /\ Claims(r)' <=> i # NoChain
          /\ Holds(r)' <=> i # NoChain
      BY <1>a, <3>1, <3>3, <3>4, <3>5 DEF Claims, Holds, Owning
    <3>7. \A s \in Requests \ {r} :
            /\ enc'[s] = enc[s]
            /\ Claims(s)' <=> Claims(s)
            /\ Holds(s)' <=> Holds(s)
      BY <1>a, <3>1 DEF Claims, Holds
    <3>8. ClaimInv'
      BY <1>a, <1>c, <3>1, <3>2, <3>4, <3>5, <3>6, <3>7 DEF ClaimInv
    <3>9. SnapshotCurrent'
      BY <1>c, <3>1, <3>2, <3>4, <3>6, <3>7 DEF SnapshotCurrent
    <3>10. QED BY <3>8, <3>9
  <2>3. CASE ExhaustCapacity(r)
    <3>1. PICK i \in SelectChain(req[r]) :
            /\ pc[r] = "preparing"
            /\ IF i = NoChain THEN chains' = chains ELSE CloseExhausted(i, req[r])
            /\ pc' = [pc EXCEPT ![r] = "length"]
            /\ UNCHANGED <<phase, next_chain_id, reserved, releases, enc>>
      BY <2>3 DEF ExhaustCapacity, GoTo
    <3>2. i = NoChain \/ i \in DOMAIN chains \ reserved
      BY <1>a, SelectFacts
    <3>3. chains' = chains \/ (i \in DOMAIN chains \ reserved /\ chains' = Without(chains, i))
      BY <3>1, <3>2 DEF CloseExhausted
    <3>4. /\ DOMAIN chains' \subseteq DOMAIN chains /\ reserved \subseteq DOMAIN chains'
          /\ \A j \in DOMAIN chains' : chains'[j] = chains[j]
      BY <1>c, <3>3 DEF ClaimInv, Without
    <3>5. \A s \in Requests : (Claims(s)' <=> Claims(s)) /\ (Holds(s)' <=> Holds(s))
      BY <1>a, <3>1 DEF Claims, Holds, Owning
    <3>6. \A s \in Requests : Holds(s) => enc[s].chain \in reserved
      BY <1>c DEF ClaimInv, Claims, Holds
    <3>7. ClaimInv'
      BY <1>c, <3>1, <3>4, <3>5 DEF ClaimInv
    <3>8. SnapshotCurrent'
      BY <1>c, <3>1, <3>4, <3>5, <3>6 DEF SnapshotCurrent
    <3>9. QED BY <3>7, <3>8
  <2>4. CASE Commit(r)
    <3> DEFINE new == enc[r].chain = NoChain
               i == IF new THEN next_chain_id ELSE enc[r].chain
    <3>1. /\ pc[r] = "decoding"
          /\ enc[r].chain \in DOMAIN chains \cup {NoChain}
          /\ \E c : chains' = With(chains, i, c)
          /\ next_chain_id' = IF new THEN i + 1 ELSE next_chain_id
          /\ reserved' = reserved \ {enc[r].chain}
          /\ pc' = [pc EXCEPT ![r] = "ok"]
          /\ UNCHANGED <<phase, releases, enc>>
      BY <2>4 DEF Commit, GoTo
    <3>2. /\ DOMAIN chains' = DOMAIN chains \cup {i}
          /\ \A j \in DOMAIN chains \ {i} : chains'[j] = chains[j]
      BY <3>1 DEF With
    <3>3. phase = "ACTIVE" /\ releases[r] = 0
      BY <1>b, <1>c, <3>1 DEF Locking, ReleaseInv
    <3>4. /\ Claims(r) <=> ~new
          /\ ~Claims(r)' /\ ~Holds(r)'
      BY <1>a, <3>1, <3>3 DEF Claims, Holds, Owning
    <3>5. \A s \in Requests \ {r} : (Claims(s)' <=> Claims(s)) /\ (Holds(s)' <=> Holds(s))
      BY <1>a, <3>1 DEF Claims, Holds
    <3>6. \A s \in Requests \ {r} : Claims(s) => enc[s].chain # i
      BY <1>a, <1>c, <3>4 DEF ClaimInv
    <3>7. \A s \in Requests : Holds(s) => Claims(s)
      BY DEF Holds, Claims
    <3>8. ClaimInv'
      <4>1. \A j \in DOMAIN chains' : j < next_chain_id'
        BY <1>a, <1>c, <3>1, <3>2 DEF ClaimInv
      <4>2. reserved' \subseteq DOMAIN chains'
        BY <1>c, <3>1, <3>2 DEF ClaimInv
      <4>3. \A j \in reserved' : \E s \in Requests : Claims(s)' /\ enc'[s].chain = j
        BY <1>c, <3>1, <3>5 DEF ClaimInv
      <4>4. \A s \in Requests : Claims(s)' => enc'[s].chain \in reserved'
        BY <1>a, <1>c, <3>1, <3>4, <3>5, <3>6 DEF ClaimInv, Claims
      <4>5. \A s, t \in Requests :
              Claims(s)' /\ Claims(t)' /\ enc'[s].chain = enc'[t].chain => s = t
        BY <1>c, <3>1, <3>4, <3>5 DEF ClaimInv
      <4>6. QED BY <3>1, <3>3, <4>1, <4>2, <4>3, <4>4, <4>5 DEF ClaimInv
    <3>9. SnapshotCurrent'
      BY <1>c, <3>1, <3>2, <3>4, <3>5, <3>6, <3>7 DEF SnapshotCurrent
    <3>10. QED BY <3>8, <3>9
  <2>5. CASE ReleaseReservation(r)
    <3>1. /\ releases[r] > 0
          /\ reserved' = reserved \ {enc[r].chain}
          /\ releases' = [releases EXCEPT ![r] = @ - 1]
          /\ UNCHANGED <<phase, chains, next_chain_id, pc, enc>>
      BY <2>5 DEF ReleaseReservation
    <3>2. releases[r] = 1 /\ pc[r] \in {"releasing", "finally"} /\ releases'[r] = 0
      BY <1>a, <1>c, <3>1 DEF ReleaseInv
    <3>3. ~Claims(r)' /\ ~Holds(r)'
      BY <3>1, <3>2 DEF Claims, Holds, Owning
    <3>4. \A s \in Requests \ {r} : (Claims(s)' <=> Claims(s)) /\ (Holds(s)' <=> Holds(s))
      BY <1>a, <3>1 DEF Claims, Holds
    <3>5. \A s \in Requests \ {r} : Claims(s) => enc[s].chain # enc[r].chain
      BY <1>c, <3>1 DEF ClaimInv, Claims
    <3>6. ClaimInv'
      <4>1. /\ \A j \in DOMAIN chains' : j < next_chain_id'
            /\ reserved' \subseteq DOMAIN chains'
            /\ phase' # "ACTIVE" => reserved' = {}
        BY <1>c, <3>1 DEF ClaimInv
      <4>2. \A j \in reserved' : \E s \in Requests : Claims(s)' /\ enc'[s].chain = j
        BY <1>c, <3>1, <3>4 DEF ClaimInv
      <4>3. \A s \in Requests : Claims(s)' => enc'[s].chain \in reserved'
        BY <1>c, <3>1, <3>3, <3>4, <3>5 DEF ClaimInv
      <4>4. \A s, t \in Requests :
              Claims(s)' /\ Claims(t)' /\ enc'[s].chain = enc'[t].chain => s = t
        BY <1>c, <3>1, <3>3, <3>4 DEF ClaimInv
      <4>5. QED BY <4>1, <4>2, <4>3, <4>4 DEF ClaimInv
    <3>7. SnapshotCurrent'
      BY <1>c, <3>1, <3>3, <3>4 DEF SnapshotCurrent
    <3>8. QED BY <3>6, <3>7
  <2>6. CASE CancelUnwind(r)
    BY <2>6 DEF CancelUnwind
  <2>7. QED BY <1>1, <2>1, <2>2, <2>3, <2>4, <2>5, <2>6 DEF Step, Fault
<1>2. CASE Finalize \/ Abort
  <2>1. phase' # "ACTIVE" /\ reserved' = {} /\ DOMAIN chains' = {}
    BY <1>2 DEF Finalize, Abort
  <2>2. QED BY <2>1 DEF ClaimInv, SnapshotCurrent, Claims, Holds
<1>3. CASE UNCHANGED vars
  <2>1. UNCHANGED <<phase, chains, next_chain_id, reserved, enc, pc, releases>>
    BY <1>3 DEF vars, session, tasks
  <2>2. QED BY <1>c, <2>1 DEF ClaimInv, SnapshotCurrent, Claims, Holds
<1>4. QED BY <1>1, <1>2, <1>3 DEF Next, Terminated

\* While no cleanup is itself cancelled, reservations and claims correspond.
LEMMA ReservationCorrect ==
  ASSUME ~CleanupCancel
  PROVE  Spec => []ReservationInv
<1>1. Init => ReservationInv
  BY DEF Init, ReservationInv, ReleaseInv, ClaimInv, SnapshotCurrent, Claims, Holds, Owning
<1>2. TypeInv /\ LockInv /\ ReservationInv /\ [Next]_vars => ReservationInv'
  BY ReleaseStep, ClaimStep DEF ReservationInv
<1>3. QED BY <1>1, <1>2, SnapshotsWithinChain, LockCorrect, PTL DEF Spec

-----------------------------------------------------------------------------
\* A chain that a generation continues is active, and reserved for it alone.
\* The hypothesis is needed: a release that is cancelled is run a second time,
\* and can free the reservation of another request.
THEOREM ReservationsHold ==
  ASSUME ~CleanupCancel
  PROVE  Spec => []ReservationExclusive
<1>1. ReservationInv => ReservationExclusive
  BY DEF ReservationInv, ClaimInv, ReservationExclusive, Claims, Holds
<1>2. QED BY <1>1, ReservationCorrect, PTL

\* No update is lost: a commit overwrites the version of the chain it has read.
THEOREM NoLostUpdate ==
  ASSUME ~CleanupCancel
  PROVE  Spec => []SnapshotCurrent
<1>1. ReservationInv => SnapshotCurrent
  BY DEF ReservationInv
<1>2. QED BY <1>1, ReservationCorrect, PTL

\* Requests that overlap never share a chain, nor overwrite each other's turn.
THEOREM OverlapIsSafe ==
  ASSUME ~CleanupCancel
  PROVE  Spec => []ReservationsSound
<1>1. ReservationExclusive /\ SnapshotCurrent => ReservationsSound
  BY DEF ReservationsSound
<1>2. QED BY <1>1, ReservationsHold, NoLostUpdate, PTL

\* Every reservation is held by a generation or about to be released.
THEOREM ReservationsReturn ==
  ASSUME ~CleanupCancel
  PROVE  Spec => []NoLeakedReservation
<1>1. ReservationInv => NoLeakedReservation
  BY DEF ReservationInv, ClaimInv, NoLeakedReservation, Claims, Holds
<1>2. QED BY <1>1, ReservationCorrect, PTL

\* A failing or cancelled owner clears its registration; the hypothesis is
\* needed, see run session_cancel.
THEOREM CoordinationIsCleared ==
  ASSUME ~CleanupCancel
  PROVE  Spec => []CoordinationCleared
<1>1. Init => CoordinationCleared
  BY DEF Init, CoordinationCleared
<1>2. TypeInv /\ OwnerInv /\ CoordinationCleared /\ [Next]_vars => CoordinationCleared'
  BY CoordinationStep
<1>3. QED BY <1>1, <1>2, SnapshotsWithinChain, OwnerCorrect, PTL DEF Spec

-----------------------------------------------------------------------------
(* What becomes of the chains.                                             *)

\* The step leaves every chain and trajectory alone.
ChainsRest == UNCHANGED <<chains, materialized, next_chain_id, order_seq>>

LEMMA ChainCases ==
  ASSUME [Next]_vars
  PROVE  \/ \E r \in Requests : Commit(r) \/ ExhaustCapacity(r)
         \/ Finalize \/ Abort
         \/ ChainsRest
<1> USE DEF ChainsRest, session
<1>1. ASSUME NEW r \in Requests, Step(r)
      PROVE  Commit(r) \/ ExhaustCapacity(r) \/ ChainsRest
  BY <1>1 DEF Step, Reject, Join, StartPrepare, Reserve, Generated, StartCommit, CommitTooLate,
     ReleaseReservation, FinishUnwind, Wake
<1>2. ASSUME NEW r \in Requests, Fault(r) PROVE ChainsRest
  BY <1>2 DEF Fault, FailUnowned, FailOwned, CancelUnwind
<1>3. QED BY <1>1, <1>2 DEF Next, Terminated, vars

\* The chain a commit stores to.
Target(r) == IF enc[r].chain = NoChain THEN next_chain_id ELSE enc[r].chain

LEMMA CommitStores ==
  ASSUME TypeInv, NEW r \in Requests, Commit(r)
  PROVE  \E reply \in Replies, n \in GenLens :
           /\ n <= MaxTokens(enc[r])
           /\ pc[r] = "decoding"
           /\ enc[r].chain \in DOMAIN chains \cup {NoChain}
           /\ DOMAIN chains' = DOMAIN chains \cup {Target(r)}
           /\ chains'[Target(r)] = CommittedChain(r, reply, n)
           /\ \A i \in DOMAIN chains : i # Target(r) => chains'[i] = chains[i]
           /\ order_seq' = order_seq + 1 /\ materialized' = materialized
           /\ next_chain_id' = IF enc[r].chain = NoChain THEN next_chain_id + 1
                               ELSE next_chain_id
<1>1. PICK reply \in Replies, n \in GenLens :
        /\ pc[r] = "decoding"
        /\ enc[r].chain \in DOMAIN chains \cup {NoChain}
        /\ n <= MaxTokens(enc[r])
        /\ chains' = With(chains, Target(r), CommittedChain(r, reply, n))
        /\ order_seq' = order_seq + 1
        /\ next_chain_id' = IF enc[r].chain = NoChain THEN Target(r) + 1 ELSE next_chain_id
        /\ materialized' = materialized
  BY Zenon DEF Commit, Target
<1> DEFINE c == CommittedChain(r, reply, n)
<1>2. chains' = [i \in DOMAIN chains \cup {Target(r)} |-> IF i = Target(r) THEN c ELSE chains[i]]
  BY <1>1 DEF With
<1> HIDE DEF c
<1>3. /\ DOMAIN chains' = DOMAIN chains \cup {Target(r)}
      /\ chains'[Target(r)] = c
      /\ \A i \in DOMAIN chains : i # Target(r) => chains'[i] = chains[i]
  BY <1>2
<1>4. QED BY <1>1, <1>3 DEF c, Target

\* What an exhausted chain i leaves for the trainer, when it leaves anything.
Left(i, q) ==
  IF Encode(i, q).rolled
  THEN [chains[i] EXCEPT !.hist = Prefix(q.msgs, chains[i].start.hist), !.buf = Encode(i, q).buf]
  ELSE chains[i]

LEMMA ExhaustCloses ==
  ASSUME TypeInv, NEW r \in Requests, ExhaustCapacity(r)
  PROVE  \/ ChainsRest
         \/ \E i \in DOMAIN chains \cap SelectChain(req[r]) :
              /\ CapacityExhausted(i, req[r])
              /\ DOMAIN chains' = DOMAIN chains \ {i}
              /\ \A j \in DOMAIN chains' : chains'[j] = chains[j]
              /\ next_chain_id' = next_chain_id
              /\ \/ /\ order_seq' = order_seq
                    /\ materialized' = materialized
                 \/ /\ order_seq' = order_seq + 1
                    /\ materialized' = materialized \cup
                         {Materialize(i, Left(i, req[r]), order_seq + 1)}
<1>1. PICK i \in SelectChain(req[r]) :
        /\ CapacityExhausted(i, req[r])
        /\ IF i = NoChain THEN UNCHANGED <<chains, materialized, order_seq>>
                          ELSE CloseExhausted(i, req[r])
        /\ next_chain_id' = next_chain_id
  BY Zenon DEF ExhaustCapacity
<1>2. CASE i = NoChain
  BY <1>1, <1>2 DEF ChainsRest
<1>3. CASE i # NoChain
  <2>1. req[r] \in Request
    BY DEF TypeInv, TypeOK
  <2>2. i \in DOMAIN chains
    BY <1>3, <2>1, SelectFacts
  <2>3. /\ chains' = Without(chains, i)
        /\ \/ UNCHANGED <<materialized, order_seq>>
           \/ /\ order_seq' = order_seq + 1
              /\ materialized' = materialized \cup
                   {Materialize(i, Left(i, req[r]), order_seq + 1)}
    BY <1>1, <1>3, Zenon DEF CloseExhausted, Left
  <2>4. /\ DOMAIN chains' = DOMAIN chains \ {i}
        /\ \A j \in DOMAIN chains' : chains'[j] = chains[j]
    BY <2>3 DEF Without
  <2>5. QED BY <1>1, <2>2, <2>3, <2>4
<1>4. QED BY <1>2, <1>3

LEMMA FinalizeCloses ==
  ASSUME Finalize
  PROVE  /\ DOMAIN chains' = {}
         /\ materialized' = materialized \cup
              {Materialize(i, chains[i], chains[i].updated) : i \in DOMAIN chains}
         /\ order_seq' = order_seq /\ next_chain_id' = next_chain_id
BY DEF Finalize

LEMMA AbortCloses ==
  ASSUME Abort
  PROVE  /\ DOMAIN chains' = {} /\ materialized' = {}
         /\ order_seq' = order_seq /\ next_chain_id' = next_chain_id
BY DEF Abort

-----------------------------------------------------------------------------
(* The order of the trajectories.                                          *)

\* Places and chain ids come from counters that only grow.
OrderInv ==
  /\ TrajectoryOrder
  /\ \A i \in DOMAIN chains : i < next_chain_id /\ chains[i].updated <= order_seq
  /\ \A t \in materialized : t.chain < next_chain_id /\ t.order <= order_seq

LEMMA OrderStep == TypeInv /\ OrderInv /\ [Next]_vars => OrderInv'
<1> SUFFICES ASSUME TypeInv, OrderInv, [Next]_vars PROVE OrderInv'
  OBVIOUS
<1>1. /\ \A i, j \in DOMAIN chains : chains[i].updated = chains[j].updated => i = j
      /\ \A s, t \in materialized : s.order = t.order \/ s.chain = t.chain => s = t
      /\ \A i \in DOMAIN chains, t \in materialized :
           i # t.chain /\ chains[i].updated # t.order
      /\ \A i \in DOMAIN chains : i < next_chain_id /\ chains[i].updated <= order_seq
      /\ \A t \in materialized : t.chain < next_chain_id /\ t.order <= order_seq
  BY DEF OrderInv, TrajectoryOrder
<1>2. /\ order_seq \in Nat /\ next_chain_id \in Nat
      /\ \A i \in DOMAIN chains : i \in Nat /\ i # NoChain /\ chains[i].updated \in Nat
      /\ \A t \in materialized : t.chain \in Nat /\ t.order \in Nat
  BY DEF TypeInv, TypeOK, Chain, Trajectory
<1>3. ASSUME NEW r \in Requests, Commit(r) PROVE OrderInv'
  <2>1. PICK reply \in Replies, n \in GenLens :
           /\ enc[r].chain \in DOMAIN chains \cup {NoChain}
           /\ DOMAIN chains' = DOMAIN chains \cup {Target(r)}
           /\ chains'[Target(r)] = CommittedChain(r, reply, n)
           /\ \A i \in DOMAIN chains : i # Target(r) => chains'[i] = chains[i]
           /\ order_seq' = order_seq + 1 /\ materialized' = materialized
           /\ next_chain_id' = IF enc[r].chain = NoChain THEN next_chain_id + 1
                               ELSE next_chain_id
    BY <1>3, CommitStores
  <2>2. chains'[Target(r)].updated = order_seq + 1
    BY <2>1 DEF CommittedChain
  <2>3. /\ Target(r) < next_chain_id' /\ next_chain_id <= next_chain_id'
        /\ \A t \in materialized : Target(r) # t.chain
    BY <1>1, <1>2, <2>1 DEF Target
  <2>4. \A i \in DOMAIN chains' :
          \/ i = Target(r) /\ chains'[i].updated = order_seq + 1
          \/ i \in DOMAIN chains /\ i # Target(r) /\ chains'[i] = chains[i]
    BY <2>1, <2>2
  <2>5. \A i, j \in DOMAIN chains' : chains'[i].updated = chains'[j].updated => i = j
    BY <1>1, <1>2, <2>4
  <2>6. \A i \in DOMAIN chains', t \in materialized :
           i # t.chain /\ chains'[i].updated # t.order
    BY <1>1, <1>2, <2>3, <2>4
  <2>7. \A i \in DOMAIN chains' : i < next_chain_id' /\ chains'[i].updated <= order_seq'
    BY <1>1, <1>2, <2>1, <2>3, <2>4
  <2>8. \A t \in materialized : t.chain < next_chain_id' /\ t.order <= order_seq'
    BY <1>1, <1>2, <2>1, <2>3
  <2>9. QED BY <1>1, <2>1, <2>5, <2>6, <2>7, <2>8 DEF OrderInv, TrajectoryOrder
<1>4. ASSUME NEW r \in Requests, ExhaustCapacity(r) PROVE OrderInv'
  <2>1. CASE ChainsRest
    BY <1>1, <2>1 DEF OrderInv, TrajectoryOrder, ChainsRest
  <2>2. ASSUME NEW i \in DOMAIN chains, NEW kept,
               DOMAIN chains' = DOMAIN chains \ {i},
               \A j \in DOMAIN chains' : chains'[j] = chains[j],
               next_chain_id' = next_chain_id,
               \/ /\ order_seq' = order_seq
                  /\ materialized' = materialized
               \/ /\ order_seq' = order_seq + 1
                  /\ materialized' = materialized \cup {Materialize(i, kept, order_seq + 1)}
        PROVE  OrderInv'
    <3> DEFINE new == Materialize(i, kept, order_seq + 1)
    <3>1. new.chain = i /\ new.order = order_seq + 1
      BY DEF Materialize
    <3> HIDE DEF new
    <3>2. \A t \in materialized' : t \in materialized \/ (t = new /\ order_seq' = order_seq + 1)
      BY <2>2 DEF new
    <3>3. order_seq <= order_seq'
      BY <1>2, <2>2
    <3>4. \A s, t \in materialized' : s.order = t.order \/ s.chain = t.chain => s = t
      BY <1>1, <1>2, <3>1, <3>2
    <3>5. \A j \in DOMAIN chains', t \in materialized' :
            j # t.chain /\ chains'[j].updated # t.order
      BY <1>1, <1>2, <2>2, <3>1, <3>2
    <3>6. /\ \A j \in DOMAIN chains' : j < next_chain_id' /\ chains'[j].updated <= order_seq'
          /\ \A t \in materialized' : t.chain < next_chain_id' /\ t.order <= order_seq'
      BY <1>1, <1>2, <2>2, <3>1, <3>2, <3>3
    <3>7. \A j, k \in DOMAIN chains' : chains'[j].updated = chains'[k].updated => j = k
      BY <1>1, <2>2
    <3>8. QED BY <3>4, <3>5, <3>6, <3>7 DEF OrderInv, TrajectoryOrder
  <2>3. QED BY <1>4, <2>1, <2>2, ExhaustCloses
<1>5. ASSUME Finalize PROVE OrderInv'
  <2>1. /\ DOMAIN chains' = {}
        /\ materialized' = materialized \cup
              {Materialize(i, chains[i], chains[i].updated) : i \in DOMAIN chains}
        /\ order_seq' = order_seq /\ next_chain_id' = next_chain_id
    BY <1>5, FinalizeCloses
  <2>2. \A t \in materialized' :
          \/ t \in materialized
          \/ \E i \in DOMAIN chains : /\ t = Materialize(i, chains[i], chains[i].updated)
                                      /\ t.chain = i /\ t.order = chains[i].updated
    BY <2>1 DEF Materialize
  <2>3. \A s, t \in materialized' : s.order = t.order \/ s.chain = t.chain => s = t
    BY <1>1, <2>2
  <2>4. \A t \in materialized' : t.chain < next_chain_id' /\ t.order <= order_seq'
    BY <1>1, <2>1, <2>2
  <2>5. QED BY <2>1, <2>3, <2>4 DEF OrderInv, TrajectoryOrder
<1>6. ASSUME Abort PROVE OrderInv'
  BY <1>6, AbortCloses DEF OrderInv, TrajectoryOrder
<1>7. ASSUME ChainsRest PROVE OrderInv'
  BY <1>1, <1>7 DEF OrderInv, TrajectoryOrder, ChainsRest
<1>8. QED BY <1>3, <1>4, <1>5, <1>6, <1>7, ChainCases

-----------------------------------------------------------------------------
(* Waking the waiters of a failure.                                        *)

\* A release is of a request that unwinds or has failed; a failed future is that
\* of a request that has failed and has no release to run.
WakeInv ==
  \A r \in Requests :
    /\ releases[r] > 0 => pc[r] \in {"releasing", "finally", "failed"}
    /\ future[r].state = "failed" => pc[r] = "failed" /\ releases[r] = 0

LEMMA WakeStep == TypeInv /\ WakeInv /\ [Next]_vars => WakeInv'
<1> SUFFICES ASSUME TypeInv, WakeInv, [Next]_vars PROVE WakeInv'
  OBVIOUS
<1>a. /\ pc \in [Requests -> Labels] /\ releases \in [Requests -> Nat]
      /\ future \in [Requests -> Outcome] /\ \A r \in Requests : releases[r] \in Nat
  BY DEF TypeInv, TypeOK
<1>b. \A r \in Requests :
        /\ releases[r] > 0 => pc[r] \in {"releasing", "finally", "failed"}
        /\ future[r].state = "failed" => pc[r] = "failed" /\ releases[r] = 0
  BY DEF WakeInv
<1> USE <1>a DEF GoTo, session, tasks, Owning
<1>1. ASSUME NEW r \in Requests, ResolveFailed(r), releases[r] = 0, GoTo(r, "failed"),
             releases' = releases
      PROVE  WakeInv'
  <2>1. \A s \in Requests : s # r => future'[s] = future[s]
    BY <1>1 DEF ResolveFailed
  <2>2. \A s \in Requests : s # r => pc'[s] = pc[s]
    BY <1>1
  <2>3. pc'[r] = "failed"
    BY <1>1
  <2>4. QED BY <1>1, <1>b, <2>1, <2>2, <2>3 DEF WakeInv
<1>2. ASSUME NEW r \in Requests, Unwind(r), pc[r] \in Owning PROVE WakeInv'
  <2>1. releases[r] = 0 /\ future[r].state # "failed"
    BY <1>2, <1>b
  <2>2. CASE enc[r].chain = NoChain
    BY <1>1, <1>2, <2>1, <2>2 DEF Unwind
  <2>3. CASE enc[r].chain # NoChain
    <3>1. /\ \A s \in Requests : s # r => pc'[s] = pc[s] /\ releases'[s] = releases[s]
          /\ pc'[r] \in {"releasing", "finally"} /\ future' = future
      BY <1>2, <2>3 DEF Unwind
    <3>2. QED BY <1>b, <2>1, <3>1 DEF WakeInv
  <2>4. QED BY <2>2, <2>3
<1>3. ASSUME NEW r \in Requests, Step(r) \/ Fault(r) PROVE WakeInv'
  <2>1. CASE Reject(r) \/ Join(r) \/ StartPrepare(r) \/ Generated(r) \/ StartCommit(r)
             \/ ExhaustCapacity(r) \/ FailUnowned(r)
    <3>1. releases' = releases /\ future' = future
      BY <2>1 DEF Reject, Join, StartPrepare, Generated, StartCommit, ExhaustCapacity, FailUnowned
    <3>2. pc[r] \notin {"releasing", "finally", "failed"}
      BY <2>1 DEF Reject, Join, StartPrepare, Generated, StartCommit, ExhaustCapacity, FailUnowned
    <3>3. \A s \in Requests : s # r => pc'[s] = pc[s]
      BY <2>1 DEF Reject, Join, StartPrepare, Generated, StartCommit, ExhaustCapacity, FailUnowned
    <3>4. QED BY <1>b, <3>1, <3>2, <3>3 DEF WakeInv
  <2>2. CASE Reserve(r)
    <3>1. /\ releases' = releases /\ pc[r] = "preparing"
          /\ \A s \in Requests : s # r => pc'[s] = pc[s]
          /\ future' = future \/ future' = [future EXCEPT ![r] = [state |-> "pending", chain |-> NoChain]]
      BY <2>2 DEF Reserve
    <3>2. \A s \in Requests : future'[s] = future[s] \/ future'[s].state = "pending"
      BY <3>1
    <3>3. QED BY <1>b, <3>1, <3>2 DEF WakeInv
  <2>3. CASE Commit(r)
    <3>1. /\ releases' = releases /\ pc[r] = "decoding"
          /\ \A s \in Requests : s # r => pc'[s] = pc[s]
          /\ \E i : future' = future \/ future' = [future EXCEPT ![r] = [state |-> "ok", chain |-> i]]
      BY <2>3 DEF Commit
    <3>2. \A s \in Requests : future'[s] = future[s] \/ future'[s].state = "ok"
      BY <3>1
    <3>3. QED BY <1>b, <3>1, <3>2 DEF WakeInv
  <2>4. CASE CommitTooLate(r) \/ FailOwned(r)
    BY <1>2, <2>4 DEF CommitTooLate, FailOwned
  <2>5. CASE ReleaseReservation(r)
    <3>1. /\ pc' = pc /\ future' = future
          /\ \A s \in Requests : releases'[s] = releases[s] \/ (s = r /\ releases[s] > 0)
      BY <2>5 DEF ReleaseReservation
    <3>2. QED BY <1>b, <3>1 DEF WakeInv
  <2>6. CASE FinishUnwind(r)
    <3>1. CASE pc[r] = "releasing"
      BY <1>1, <2>6, <3>1 DEF FinishUnwind
    <3>2. CASE pc[r] = "finally"
      <4>1. /\ releases' = releases /\ future' = future /\ pc'[r] = "failed"
            /\ \A s \in Requests : s # r => pc'[s] = pc[s]
        BY <2>6, <3>2 DEF FinishUnwind
      <4>2. QED BY <1>b, <3>2, <4>1 DEF WakeInv
    <3>3. QED BY <2>6, <3>1, <3>2 DEF FinishUnwind
  <2>7. CASE CancelUnwind(r)
    <3>1. /\ future' = future /\ pc[r] \in {"releasing", "finally"} /\ pc'[r] \in {"finally", "failed"}
          /\ \A s \in Requests : s # r => pc'[s] = pc[s] /\ releases'[s] = releases[s]
      BY <2>7 DEF CancelUnwind
    <3>2. QED BY <1>b, <3>1 DEF WakeInv
  <2>8. CASE Wake(r)
    <3>1. /\ releases' = releases /\ future' = future /\ pc[r] = "waiting"
          /\ \A s \in Requests : s # r => pc'[s] = pc[s]
      BY <2>8 DEF Wake
    <3>2. QED BY <1>b, <3>1 DEF WakeInv
  <2>9. QED BY <1>3, <2>1, <2>2, <2>3, <2>4, <2>5, <2>6, <2>7, <2>8 DEF Step, Fault
<1>4. CASE Finalize \/ Abort \/ UNCHANGED vars
  BY <1>4, <1>b DEF Finalize, Abort, vars, WakeInv
<1>5. QED BY <1>3, <1>4 DEF Next, Terminated

-----------------------------------------------------------------------------
(* The waiters of the generations.                                         *)

Waiters(r) == {w \in Requests : joined[w] = r}
Served(i) == {w \in Requests : /\ joined[w] # NoOwner
                               /\ future[joined[w]] = [state |-> "ok", chain |-> i]}

\* A request waits for the owner it joined, an owner answers once it has
\* committed, and what is counted is what was served.
WaiterInv ==
  /\ \A w \in Requests : joined[w] # NoOwner => Coalesce /\ pc[w] # "queued"
  /\ \A r \in Requests : waiters[r] = Cardinality(Waiters(r))
  /\ \A r \in Requests : future[r].state = "ok" => pc[r] = "ok" /\ future[r].chain < next_chain_id
  /\ \A q \in Request : inflight[q] # NoOwner =>
       pc[inflight[q]] \in Owning \cup {"releasing", "finally", "failed"}
  /\ WaitersAttributed

LEMMA AttributedParts ==
  WaitersAttributed <=>
    /\ \A i \in DOMAIN chains : chains[i].coalesced = Cardinality(Served(i))
    /\ \A t \in materialized : t.coalesced = Cardinality(Served(t.chain))
BY DEF WaitersAttributed, Served

LEMMA WaitersFinite ==
  ASSUME NEW r
  PROVE  /\ IsFiniteSet(Waiters(r)) /\ Cardinality(Waiters(r)) \in Nat
         /\ IsFiniteSet(Served(r)) /\ Cardinality(Served(r)) \in Nat
BY RequestsAssumption, FS_Subset, FS_CardinalityType DEF Waiters, Served

\* Only a commit answers a future, and only for its own request.
LEMMA FuturesMove ==
  ASSUME TypeInv, WaiterInv, [Next]_vars
  PROVE  \/ \E r \in Requests : Commit(r)
         \/ \A s \in Requests :
              future[s].state = "ok" \/ future'[s].state = "ok" => future'[s] = future[s]
<1> USE DEF session, tasks
<1>1. \A s \in Requests : future[s].state = "ok" => pc[s] = "ok"
  BY DEF WaiterInv
<1>a. future \in [Requests -> Outcome]
  BY DEF TypeInv, TypeOK
<1>2. ASSUME NEW r \in Requests, NEW state \in {"pending", "failed"}, pc[r] # "ok",
             future' = future \/ future' = [future EXCEPT ![r] = [state |-> state, chain |-> NoChain]]
      PROVE  \A s \in Requests :
              future[s].state = "ok" \/ future'[s].state = "ok" => future'[s] = future[s]
  <2>1. [state |-> state, chain |-> NoChain].state = state
    OBVIOUS
  <2> DEFINE f == [state |-> state, chain |-> NoChain]
  <2>2. \A s \in Requests : future'[s] = future[s] \/ (s = r /\ future'[s] = f)
    BY <1>2, <1>a
  <2>3. future[r].state # "ok" /\ f.state # "ok"
    BY <1>1, <1>2, <2>1
  <2> HIDE DEF f
  <2>4. QED BY <2>2, <2>3
<1>3. ASSUME NEW r \in Requests, ResolveFailed(r)
      PROVE  \/ future' = future
             \/ future' = [future EXCEPT ![r] = [state |-> "failed", chain |-> NoChain]]
  BY <1>3 DEF ResolveFailed
<1>4. ASSUME NEW r \in Requests, Unwind(r)
      PROVE  \/ future' = future
             \/ future' = [future EXCEPT ![r] = [state |-> "failed", chain |-> NoChain]]
  BY <1>3, <1>4 DEF Unwind
<1>5. ASSUME NEW r \in Requests,
             \/ Reserve(r) \/ CommitTooLate(r) \/ FinishUnwind(r) \/ FailOwned(r)
      PROVE  \A s \in Requests :
              future[s].state = "ok" \/ future'[s].state = "ok" => future'[s] = future[s]
  <2>1. pc[r] # "ok"
    BY <1>5 DEF Reserve, CommitTooLate, FinishUnwind, FailOwned, Owning
  <2>2. CASE Reserve(r)
    <3>1. \/ future' = future
          \/ future' = [future EXCEPT ![r] = [state |-> "pending", chain |-> NoChain]]
      BY <2>2 DEF Reserve
    <3>2. QED BY <1>2, <2>1, <3>1
  <2>3. CASE CommitTooLate(r) \/ FinishUnwind(r) \/ FailOwned(r)
    <3>1. \/ future' = future
          \/ future' = [future EXCEPT ![r] = [state |-> "failed", chain |-> NoChain]]
      BY <1>3, <1>4, <2>3 DEF CommitTooLate, FinishUnwind, FailOwned
    <3>2. QED BY <1>2, <2>1, <3>1
  <2>4. QED BY <1>5, <2>2, <2>3
<1>6. ASSUME NEW r \in Requests,
             \/ Reject(r) \/ Join(r) \/ StartPrepare(r) \/ ExhaustCapacity(r) \/ Generated(r)
             \/ StartCommit(r) \/ ReleaseReservation(r) \/ Wake(r) \/ FailUnowned(r) \/ CancelUnwind(r)
      PROVE  future' = future
  BY <1>6 DEF Reject, Join, StartPrepare, ExhaustCapacity, Generated, StartCommit,
     ReleaseReservation, Wake, FailUnowned, CancelUnwind
<1>7. ASSUME Finalize \/ Abort \/ Terminated \/ UNCHANGED vars PROVE future' = future
  BY <1>7 DEF Finalize, Abort, Terminated, vars
<1>8. QED BY <1>5, <1>6, <1>7 DEF Next, Step, Fault

\* Where the owner of a fingerprint, an answered future and a waiter are.
LEMMA PlacesStep ==
  ASSUME TypeInv, OwnerInv, OrderInv, WaiterInv, [Next]_vars
  PROVE  /\ \A w \in Requests : joined'[w] # NoOwner => Coalesce /\ pc'[w] # "queued"
         /\ \A r \in Requests :
              future'[r].state = "ok" => pc'[r] = "ok" /\ future'[r].chain < next_chain_id'
         /\ \A q \in Request : inflight'[q] # NoOwner =>
              pc'[inflight'[q]] \in Owning \cup {"releasing", "finally", "failed"}
<1> DEFINE A == \A w \in Requests : joined'[w] # NoOwner => Coalesce /\ pc'[w] # "queued"
           B == \A r \in Requests :
                  future'[r].state = "ok" => pc'[r] = "ok" /\ future'[r].chain < next_chain_id'
           C == \A q \in Request : inflight'[q] # NoOwner =>
                  pc'[inflight'[q]] \in Owning \cup {"releasing", "finally", "failed"}
           Live == Owning \cup {"releasing", "finally", "failed"}
<1>a. /\ pc \in [Requests -> Labels] /\ req \in [Requests -> Request]
      /\ inflight \in [Request -> Requests \cup {NoOwner}] /\ NoOwner \notin Requests
      /\ joined \in [Requests -> Requests \cup {NoOwner}]
      /\ next_chain_id \in Nat /\ future \in [Requests -> Outcome]
      /\ \A r \in Requests : enc[r].chain \in Nat
      /\ \A r \in Requests : future[r].chain \in Nat
  BY ParametersAssumption DEF TypeInv, TypeOK, Encoded, Outcome
<1>b. /\ \A w \in Requests : joined[w] # NoOwner => Coalesce /\ pc[w] # "queued"
      /\ \A r \in Requests : future[r].state = "ok" => pc[r] = "ok" /\ future[r].chain < next_chain_id
      /\ \A q \in Request : inflight[q] # NoOwner => pc[inflight[q]] \in Live
  BY DEF WaiterInv
<1>c. /\ \A q \in Request : inflight[q] # NoOwner => req[inflight[q]] = q
      /\ ~Coalesce => \A q \in Request : inflight[q] = NoOwner
  BY DEF OwnerInv
<1> USE <1>a DEF GoTo, session, tasks, Owning
<1>1. A
  <2>1. ASSUME NEW r \in Requests, Step(r) \/ Fault(r) PROVE A
    <3>1. CASE Join(r)
      <4>1. /\ joined' = [joined EXCEPT ![r] = inflight[req[r]]] /\ Coalesce
            /\ pc' = [pc EXCEPT ![r] = "waiting"]
        BY <3>1 DEF Join
      <4>2. QED BY <1>b, <4>1
    <3>2. CASE ~Join(r)
      <4>1. joined' = joined
        BY <2>1, <3>2 DEF Step, Fault, Reject, StartPrepare, Reserve, ExhaustCapacity, Generated,
           StartCommit, Commit, CommitTooLate, ReleaseReservation, FinishUnwind, Wake,
           FailUnowned, FailOwned, CancelUnwind
      <4>2. \E label \in Labels : (label # "queued" /\ GoTo(r, label)) \/ pc' = pc
        <5>1. CASE CommitTooLate(r) \/ FailOwned(r)
          BY <5>1 DEF CommitTooLate, FailOwned, Unwind, Labels
        <5>2. CASE Wake(r)
          BY <5>2 DEF Wake, Labels
        <5>3. CASE \/ Reject(r) \/ StartPrepare(r) \/ Reserve(r) \/ ExhaustCapacity(r) \/ Generated(r)
                   \/ StartCommit(r) \/ Commit(r)
          BY <5>3 DEF Reject, StartPrepare, Reserve, ExhaustCapacity, Generated,
             StartCommit, Commit, Labels
        <5>4. CASE \/ ReleaseReservation(r) \/ FinishUnwind(r) \/ FailUnowned(r) \/ CancelUnwind(r)
          BY <5>4 DEF ReleaseReservation, FinishUnwind, FailUnowned, CancelUnwind, Labels
        <5>5. QED BY <2>1, <3>2, <5>1, <5>2, <5>3, <5>4 DEF Step, Fault
      <4>3. \A w \in Requests : pc'[w] = pc[w] \/ pc'[w] # "queued"
        BY <4>2
      <4>4. QED BY <1>b, <4>1, <4>3
    <3>3. QED BY <3>1, <3>2
  <2>2. CASE Finalize \/ Abort \/ UNCHANGED vars
    BY <1>b, <2>2 DEF Finalize, Abort, vars
  <2>3. QED BY <2>1, <2>2 DEF Next, Terminated
<1>2. B
  <2>1. ASSUME NEW r \in Requests, Commit(r) PROVE B
    <3>1. /\ pc'[r] = "ok" /\ \A s \in Requests : s # r => pc'[s] = pc[s]
          /\ \/ future' = future
             \/ future' = [future EXCEPT ![r] = [state |-> "ok", chain |-> Target(r)]]
          /\ pc[r] = "decoding"
      BY <2>1 DEF Commit, Target
    <3>2. next_chain_id <= next_chain_id' /\ Target(r) < next_chain_id' /\ next_chain_id' \in Nat
      <4>1. /\ enc[r].chain \in DOMAIN chains \cup {NoChain}
            /\ next_chain_id' = IF enc[r].chain = NoChain THEN next_chain_id + 1
                                ELSE next_chain_id
        BY <2>1, CommitStores
      <4>2. \A i \in DOMAIN chains : i < next_chain_id
        BY DEF OrderInv
      <4>3. QED BY <4>1, <4>2 DEF Target
    <3>3. \A s \in Requests : s # r => future'[s] = future[s]
      BY <3>1
    <3>4. future'[r].state = "ok" => future'[r].chain < next_chain_id'
      <4>1. [state |-> "ok", chain |-> Target(r)].chain = Target(r)
        OBVIOUS
      <4>2. QED BY <1>b, <3>1, <3>2, <4>1
    <3>5. QED BY <1>b, <3>1, <3>2, <3>3, <3>4
  <2>2. CASE ~\E r \in Requests : Commit(r)
    <3>1. \A s \in Requests :
            future[s].state = "ok" \/ future'[s].state = "ok" => future'[s] = future[s]
      BY <2>2, FuturesMove
    <3>2. next_chain_id' = next_chain_id
      BY <2>2, ChainCases, ExhaustCloses, FinalizeCloses, AbortCloses DEF ChainsRest
    <3>3. \A s \in Requests : pc[s] = "ok" => pc'[s] = "ok"
      BY <2>2 DEF Next, Step, Fault, Reject, Join, StartPrepare, Reserve, ExhaustCapacity, Generated,
           StartCommit, CommitTooLate, ReleaseReservation, FinishUnwind, Wake, Unwind,
           FailUnowned, FailOwned, CancelUnwind, Finalize, Abort, Terminated, vars
    <3>4. QED BY <1>b, <3>1, <3>2, <3>3
  <2>3. QED BY <2>1, <2>2
<1>3. C
  <2>1. ASSUME NEW r \in Requests, Step(r) \/ Fault(r) PROVE C
    <3>1. CASE \/ Reject(r) \/ Join(r) \/ StartPrepare(r) \/ ExhaustCapacity(r)
               \/ Wake(r) \/ FailUnowned(r)
      <4>1. /\ inflight' = inflight /\ pc[r] \in {"queued", "preparing", "waiting"}
            /\ \A s \in Requests : s # r => pc'[s] = pc[s]
        BY <3>1 DEF Reject, Join, StartPrepare, ExhaustCapacity, Wake, FailUnowned
      <4>2. \A q \in Request : inflight[q] # r
        BY <1>b, <4>1
      <4>3. QED BY <1>b, <4>1, <4>2
    <3>2. CASE Generated(r) \/ StartCommit(r) \/ ReleaseReservation(r) \/ CancelUnwind(r)
      <4>1. /\ inflight' = inflight /\ (pc'[r] = pc[r] \/ pc'[r] \in Live)
            /\ \A s \in Requests : s # r => pc'[s] = pc[s]
        BY <3>2 DEF Generated, StartCommit, ReleaseReservation, CancelUnwind
      <4>2. QED BY <1>b, <4>1
    <3>3. CASE Reserve(r)
      <4>1. /\ \/ inflight' = [inflight EXCEPT ![req[r]] = r]
               \/ inflight' = inflight
            /\ pc' = [pc EXCEPT ![r] = "generating"]
        BY <3>3 DEF Reserve
      <4>2. QED BY <1>b, <4>1
    <3>4. CASE Commit(r)
      <4>1. /\ IF Coalesce /\ inflight[req[r]] = r
               THEN inflight' = [inflight EXCEPT ![req[r]] = NoOwner]
               ELSE inflight' = inflight
            /\ pc' = [pc EXCEPT ![r] = "ok"]
        BY <3>4 DEF Commit
      <4>2. \A q \in Request : inflight'[q] # r
        BY <1>c, <4>1
      <4>3. \A q \in Request : inflight'[q] # NoOwner => inflight'[q] = inflight[q]
        BY <4>1
      <4>4. QED BY <1>b, <4>1, <4>2, <4>3
    <3>5. CASE CommitTooLate(r) \/ FailOwned(r) \/ FinishUnwind(r)
      <4>1. /\ Unwind(r) \/ ((ResolveFailed(r) \/ inflight' = inflight) /\ GoTo(r, "failed"))
        BY <3>5 DEF CommitTooLate, FailOwned, FinishUnwind
      <4>2. /\ ResolveFailed(r) \/ inflight' = inflight
            /\ \E label \in Live : GoTo(r, label)
        BY <4>1 DEF Unwind
      <4>3. \A q \in Request : inflight'[q] # NoOwner => inflight'[q] = inflight[q]
        BY <4>2, ResolveFailedOwner
      <4>4. pc'[r] \in Live /\ \A s \in Requests : s # r => pc'[s] = pc[s]
        BY <4>2
      <4>5. QED BY <1>b, <4>3, <4>4
    <3>6. QED BY <2>1, <3>1, <3>2, <3>3, <3>4, <3>5 DEF Step, Fault
  <2>2. CASE Finalize \/ Abort \/ UNCHANGED vars
    BY <1>b, <2>2 DEF Finalize, Abort, vars
  <2>3. QED BY <2>1, <2>2 DEF Next, Terminated
<1>4. QED BY <1>1, <1>2, <1>3


\* A request is counted by the owner it joins, once.
LEMMA CountedStep ==
  ASSUME TypeInv, WaiterInv, [Next]_vars
  PROVE  \A r \in Requests : waiters'[r] = Cardinality(Waiters(r)')
<1>a. /\ joined \in [Requests -> Requests \cup {NoOwner}] /\ NoOwner \notin Requests
      /\ waiters \in [Requests -> Nat] /\ req \in [Requests -> Request]
      /\ inflight \in [Request -> Requests \cup {NoOwner}]
  BY ParametersAssumption DEF TypeInv, TypeOK
<1>b. /\ \A w \in Requests : joined[w] # NoOwner => Coalesce /\ pc[w] # "queued"
      /\ \A r \in Requests : waiters[r] = Cardinality(Waiters(r))
  BY DEF WaiterInv
<1>1. ASSUME joined' = joined, waiters' = waiters
      PROVE  \A r \in Requests : waiters'[r] = Cardinality(Waiters(r)')
  BY <1>1, <1>b DEF Waiters
<1>2. ASSUME NEW r \in Requests, Join(r)
      PROVE  \A s \in Requests : waiters'[s] = Cardinality(Waiters(s)')
  <2>1. PICK owner \in Requests :
        /\ pc[r] = "queued"
        /\ waiters' = [waiters EXCEPT ![owner] = @ + 1]
        /\ joined' = [joined EXCEPT ![r] = owner]
    BY <1>2, <1>a DEF Join
  <2>2. joined[r] = NoOwner
    BY <1>b, <2>1
  <2>3. Waiters(owner)' = Waiters(owner) \cup {r} /\ r \notin Waiters(owner)
    BY <1>a, <2>1, <2>2 DEF Waiters
  <2>4. Cardinality(Waiters(owner)') = Cardinality(Waiters(owner)) + 1
    BY <2>3, WaitersFinite, FS_AddElement
  <2>5. ASSUME NEW s \in Requests, s # owner PROVE Waiters(s)' = Waiters(s)
    BY <1>a, <2>1, <2>2, <2>5 DEF Waiters
  <2>6. ASSUME NEW s \in Requests PROVE waiters'[s] = Cardinality(Waiters(s)')
    <3>1. CASE s = owner
      BY <1>a, <1>b, <2>1, <2>4, <3>1
    <3>2. CASE s # owner
      BY <1>a, <1>b, <2>1, <2>5, <3>2
    <3>3. QED BY <3>1, <3>2
  <2>7. QED BY <2>6
<1>3. ASSUME NEW r \in Requests, Step(r) \/ Fault(r), ~Join(r)
      PROVE  joined' = joined /\ waiters' = waiters
  BY <1>3 DEF Step, Fault, Reject, StartPrepare, Reserve, ExhaustCapacity, Generated,
     StartCommit, Commit, CommitTooLate, ReleaseReservation, FinishUnwind, Wake,
     FailUnowned, FailOwned, CancelUnwind
<1>4. ASSUME Finalize \/ Abort \/ Terminated \/ UNCHANGED vars
      PROVE  joined' = joined /\ waiters' = waiters
  BY <1>4 DEF Finalize, Abort, Terminated, vars, tasks
<1>5. QED BY <1>1, <1>2, <1>3, <1>4 DEF Next

\* Until a commit answers, nobody else is served.
LEMMA ServedStep ==
  ASSUME TypeInv, WaiterInv, [Next]_vars, ~\E r \in Requests : Commit(r), NEW i
  PROVE  Served(i)' = Served(i)
<1>a. /\ joined \in [Requests -> Requests \cup {NoOwner}] /\ NoOwner \notin Requests
      /\ req \in [Requests -> Request]
      /\ inflight \in [Request -> Requests \cup {NoOwner}]
  BY ParametersAssumption DEF TypeInv, TypeOK
<1>b. /\ \A w \in Requests : joined[w] # NoOwner => Coalesce /\ pc[w] # "queued"
      /\ \A r \in Requests : future[r].state = "ok" => pc[r] = "ok"
      /\ \A q \in Request : inflight[q] # NoOwner =>
           pc[inflight[q]] \in Owning \cup {"releasing", "finally", "failed"}
  BY DEF WaiterInv
<1> DEFINE ok == [state |-> "ok", chain |-> i]
<1>c. ok.state = "ok"
  OBVIOUS
<1> HIDE DEF ok
<1>d. \A s \in Requests : future'[s] = ok <=> future[s] = ok
  <2>1. \A s \in Requests :
          future[s].state = "ok" \/ future'[s].state = "ok" => future'[s] = future[s]
    BY FuturesMove
  <2>2. QED BY <1>c, <2>1
<1>1. ASSUME joined' = joined PROVE Served(i)' = Served(i)
  BY <1>a, <1>d, <1>1 DEF Served, ok
<1>2. ASSUME NEW r \in Requests, Join(r) PROVE Served(i)' = Served(i)
  <2> DEFINE owner == inflight[req[r]]
  <2>1. /\ pc[r] = "queued" /\ owner \in Requests
        /\ joined' = [joined EXCEPT ![r] = owner]
    BY <1>2, <1>a DEF Join
  <2>2. joined[r] = NoOwner
    BY <1>b, <2>1
  <2>3. future[owner] # ok
    BY <1>a, <1>b, <1>c, <2>1 DEF Owning
  <2> HIDE DEF owner
  <2>4. \A w \in Requests :
          joined'[w] # NoOwner /\ future'[joined'[w]] = ok
            <=> joined[w] # NoOwner /\ future[joined[w]] = ok
    BY <1>a, <1>d, <2>1, <2>2, <2>3
  <2>5. QED BY <2>4 DEF Served, ok
<1>3. ASSUME NEW r \in Requests, Step(r) \/ Fault(r), ~Join(r), ~Commit(r)
      PROVE  joined' = joined
  BY <1>3 DEF Step, Fault, Reject, StartPrepare, Reserve, ExhaustCapacity, Generated,
     StartCommit, CommitTooLate, ReleaseReservation, FinishUnwind, Wake,
     FailUnowned, FailOwned, CancelUnwind
<1>4. ASSUME Finalize \/ Abort \/ Terminated \/ UNCHANGED vars PROVE joined' = joined
  BY <1>4 DEF Finalize, Abort, Terminated, vars, tasks
<1>5. QED BY <1>1, <1>2, <1>3, <1>4 DEF Next

\* A commit serves the requests that joined it, and no other.
LEMMA ServedCommit ==
  ASSUME TypeInv, OwnerInv, OrderInv, WaiterInv, NEW r \in Requests, Commit(r),
         NEW k, k = Target(r)
  PROVE  /\ \A i : i # k => Served(i)' = Served(i)
         /\ Cardinality(Served(k)') = Cardinality(Served(k)) + waiters[r]
         /\ enc[r].chain = NoChain => Served(k) = {}
<1>a. /\ joined \in [Requests -> Requests \cup {NoOwner}] /\ NoOwner \notin Requests
      /\ req \in [Requests -> Request] /\ future \in [Requests -> Outcome]
      /\ \A s \in Requests : future[s].chain \in Nat
      /\ next_chain_id \in Nat
  BY ParametersAssumption DEF TypeInv, TypeOK, Outcome
<1>b. /\ \A w \in Requests : joined[w] # NoOwner => Coalesce
      /\ \A s \in Requests : future[s].state = "ok" => pc[s] = "ok" /\ future[s].chain < next_chain_id
      /\ waiters[r] = Cardinality(Waiters(r))
  BY DEF WaiterInv
<1> DEFINE Ok(i) == [state |-> "ok", chain |-> i]
<1>c. \A i : Ok(i).state = "ok" /\ Ok(i).chain = i
  OBVIOUS
<1>d. \A i, j : Ok(i) = Ok(j) => i = j
  BY <1>c
<1>1. /\ pc[r] = "decoding" /\ joined' = joined
      /\ IF Coalesce /\ inflight[req[r]] = r
         THEN future' = [future EXCEPT ![r] = Ok(k)]
         ELSE future' = future
  BY <1>a DEF Commit, Target
<1>e. \A i : Served(i) = {w \in Requests : joined[w] # NoOwner /\ future[joined[w]] = Ok(i)}
  BY DEF Served
<1>f. \A i : Served(i)' = {w \in Requests : joined'[w] # NoOwner /\ future'[joined'[w]] = Ok(i)}
  BY DEF Served
<1> HIDE DEF Ok
<1>2. \A i : future[r] # Ok(i)
  BY <1>b, <1>c, <1>1
<1>3. ASSUME enc[r].chain = NoChain PROVE Served(k) = {}
  <2>1. \A s \in Requests : future[s] # Ok(next_chain_id)
    BY <1>a, <1>b, <1>c
  <2>2. QED BY <1>a, <1>e, <1>3, <2>1 DEF Target
<1>4. CASE Coalesce
  <2>1. future' = [future EXCEPT ![r] = Ok(k)]
    BY <1>1, <1>4 DEF OwnerInv, Owning
  <2>2. \A i : i # k => Served(i)' = Served(i)
    <3>1. \A i : i # k => \A s \in Requests : future'[s] = Ok(i) <=> future[s] = Ok(i)
      BY <1>a, <1>d, <1>2, <2>1
    <3>2. ASSUME NEW i, i # k PROVE Served(i)' = Served(i)
      <4>1. \A w \in Requests : joined[w] # NoOwner =>
              (future'[joined[w]] = Ok(i) <=> future[joined[w]] = Ok(i))
        BY <1>a, <3>1, <3>2
      <4>2. QED BY <1>1, <1>e, <1>f, <4>1
    <3>3. QED BY <3>2
  <2>3. /\ Served(k)' = Served(k) \cup Waiters(r)
        /\ Served(k) \cap Waiters(r) = {}
    <3>1. \A s \in Requests :
            future'[s] = Ok(k) <=> future[s] = Ok(k) \/ s = r
      BY <1>a, <2>1
    <3>2. QED BY <1>a, <1>1, <1>2, <1>e, <1>f, <3>1 DEF Waiters
  <2>4. Cardinality(Served(k)') = Cardinality(Served(k)) + Cardinality(Waiters(r))
    <3>1. /\ IsFiniteSet(Waiters(r)) /\ IsFiniteSet(Served(k))
      BY WaitersFinite
    <3>2. Cardinality(Waiters(r)) \in Nat /\ Cardinality(Served(k)) \in Nat
      BY WaitersFinite
    <3>3. Cardinality(Served(k) \cap Waiters(r)) = 0
      BY <2>3, FS_EmptySet
    <3>4. Cardinality(Served(k) \cup Waiters(r)) =
            Cardinality(Served(k)) + Cardinality(Waiters(r)) - Cardinality(Served(k) \cap Waiters(r))
      BY <3>1, FS_Union
    <3>5. Cardinality(Served(k)') = Cardinality(Served(k) \cup Waiters(r))
      BY <2>3
    <3>6. QED BY <3>2, <3>3, <3>4, <3>5
  <2>5. QED BY <1>3, <1>b, <2>2, <2>4
<1>5. CASE ~Coalesce
  <2>1. future' = future /\ Waiters(r) = {}
    BY <1>1, <1>a, <1>b, <1>5 DEF Waiters
  <2>2. \A i : Served(i)' = Served(i)
    BY <1>1, <1>e, <1>f, <2>1
  <2>3. waiters[r] = 0
    BY <1>b, <2>1, FS_EmptySet
  <2>4. Cardinality(Served(k)) \in Nat
    BY WaitersFinite
  <2>5. QED BY <1>3, <2>2, <2>3, <2>4
<1>6. QED BY <1>4, <1>5

\* A chain and its trajectory count the requests their generations served.
LEMMA AttributedStep ==
  ASSUME TypeInv, OwnerInv, OrderInv, WaiterInv, [Next]_vars
  PROVE  WaitersAttributed'
<1>a. /\ \A i \in DOMAIN chains : chains[i].coalesced = Cardinality(Served(i))
      /\ \A t \in materialized : t.coalesced = Cardinality(Served(t.chain))
  BY AttributedParts DEF WaiterInv
<1>b. SUFFICES /\ \A i \in DOMAIN chains' : chains'[i].coalesced = Cardinality(Served(i)')
               /\ \A t \in materialized' : t.coalesced = Cardinality(Served(t.chain)')
  BY DEF WaitersAttributed, Served
<1> DEFINE Goal == /\ \A i \in DOMAIN chains' : chains'[i].coalesced = Cardinality(Served(i)')
                   /\ \A t \in materialized' : t.coalesced = Cardinality(Served(t.chain)')
<1>1. ASSUME NEW r \in Requests, Commit(r) PROVE Goal
  <2>1. PICK reply \in Replies, n \in GenLens :
           /\ enc[r].chain \in DOMAIN chains \cup {NoChain}
           /\ DOMAIN chains' = DOMAIN chains \cup {Target(r)}
           /\ chains'[Target(r)] = CommittedChain(r, reply, n)
           /\ \A i \in DOMAIN chains : i # Target(r) => chains'[i] = chains[i]
           /\ materialized' = materialized
    BY <1>1, CommitStores
  <2>2. PICK k : k = Target(r)
    OBVIOUS
  <2>3. /\ \A i : i # k => Served(i)' = Served(i)
        /\ Cardinality(Served(k)') = Cardinality(Served(k)) + waiters[r]
        /\ enc[r].chain = NoChain => Served(k) = {}
    BY <1>1, <2>2, ServedCommit
  <2>4. \A t \in materialized : t.chain # k
    <3>1. next_chain_id \in Nat /\ \A t \in materialized : t.chain \in Nat
      BY DEF TypeInv, TypeOK, Trajectory
    <3>2. /\ \A t \in materialized : t.chain < next_chain_id
          /\ \A i \in DOMAIN chains, t \in materialized : i # t.chain
      BY DEF OrderInv, TrajectoryOrder
    <3>3. QED BY <2>1, <2>2, <3>1, <3>2 DEF Target
  <2>5. chains'[k].coalesced = Cardinality(Served(k)')
    <3>1. waiters[r] \in Nat /\ Cardinality(Served(k)) \in Nat
      BY WaitersFinite DEF TypeInv, TypeOK
    <3>2. chains'[k].coalesced = waiters[r] + (IF enc[r].chain = NoChain THEN 0
                                               ELSE chains[enc[r].chain].coalesced)
      BY <2>1, <2>2 DEF CommittedChain
    <3>3. CASE enc[r].chain = NoChain
      <4>1. Cardinality(Served(k)) = 0
        BY <2>3, <3>3, FS_EmptySet
      <4>2. QED BY <2>3, <3>1, <3>2, <3>3, <4>1
    <3>4. CASE enc[r].chain # NoChain
      <4>1. enc[r].chain = k /\ k \in DOMAIN chains
        BY <2>1, <2>2, <3>4 DEF Target
      <4>2. QED BY <1>a, <2>3, <3>1, <3>2, <3>4, <4>1
    <3>5. QED BY <3>3, <3>4
  <2>6. QED BY <1>a, <2>1, <2>2, <2>3, <2>4, <2>5
<1>2. CASE ~\E r \in Requests : Commit(r)
  <2>1. \A i : Served(i)' = Served(i)
    BY <1>2, ServedStep
  <2>2. ASSUME NEW r \in Requests, ExhaustCapacity(r) PROVE Goal
    <3>1. CASE ChainsRest
      BY <1>a, <2>1, <3>1 DEF ChainsRest
    <3>2. CASE ~ChainsRest
      <4>1. PICK i \in DOMAIN chains :
              /\ DOMAIN chains' = DOMAIN chains \ {i}
              /\ \A j \in DOMAIN chains' : chains'[j] = chains[j]
              /\ \/ materialized' = materialized
                 \/ materialized' = materialized \cup
                      {Materialize(i, Left(i, req[r]), order_seq + 1)}
        BY <2>2, <3>2, ExhaustCloses
      <4>2. Left(i, req[r]).coalesced = chains[i].coalesced
        <5>1. chains[i] \in Chain
          BY DEF TypeInv, TypeOK
        <5>2. QED BY <5>1 DEF Left, Chain
      <4> DEFINE t == Materialize(i, Left(i, req[r]), order_seq + 1)
      <4>3. t.chain = i /\ t.coalesced = chains[i].coalesced
        BY <4>2 DEF Materialize
      <4> HIDE DEF t
      <4>4. materialized' \subseteq materialized \cup {t}
        BY <4>1 DEF t
      <4>5. QED BY <1>a, <2>1, <4>1, <4>3, <4>4
    <3>3. QED BY <3>1, <3>2
  <2>3. ASSUME Finalize PROVE Goal
    <3>1. \A i : Materialize(i, chains[i], chains[i].updated).chain = i
                 /\ Materialize(i, chains[i], chains[i].updated).coalesced = chains[i].coalesced
      BY DEF Materialize
    <3>2. /\ DOMAIN chains' = {}
          /\ \A t \in materialized' :
               \/ t \in materialized
               \/ \E i \in DOMAIN chains : t.chain = i /\ t.coalesced = chains[i].coalesced
      BY <2>3, <3>1, FinalizeCloses
    <3>3. QED BY <1>a, <2>1, <3>2
  <2>4. ASSUME Abort PROVE Goal
    BY <2>4, AbortCloses
  <2>5. ASSUME ChainsRest PROVE Goal
    BY <1>a, <2>1, <2>5 DEF ChainsRest
  <2>6. QED BY <1>2, <2>2, <2>3, <2>4, <2>5, ChainCases
<1>3. QED BY <1>1, <1>2

LEMMA WaiterStep ==
  TypeInv /\ OwnerInv /\ OrderInv /\ WaiterInv /\ [Next]_vars => WaiterInv'
<1> SUFFICES ASSUME TypeInv, OwnerInv, OrderInv, WaiterInv, [Next]_vars PROVE WaiterInv'
  OBVIOUS
<1>1. \A r \in Requests : waiters'[r] = Cardinality(Waiters(r)')
  BY CountedStep
<1>2. WaitersAttributed'
  BY AttributedStep
<1>3. QED BY <1>1, <1>2, PlacesStep DEF WaiterInv

-----------------------------------------------------------------------------
(* What the trainer may receive.                                           *)

StartsWith(m, t) == Len(t) <= Len(m) /\ Prefix(m, Len(t)) = t

\* Every token of buf was sampled for a prefix of hist, and the marks are those
\* of the sampled tokens.
Whole(hist, buf) ==
  /\ \A k \in 1..Len(buf.resp) : StartsWith(hist, buf.resp[k])
  /\ \A k \in 1..Len(buf.marks) :
       buf.marks[k] # Context /\ \E j \in 1..Len(buf.resp) : buf.resp[j] = buf.marks[k]
  /\ \A j \in 1..Len(buf.resp) :
       buf.resp[j] # Context => \E k \in 1..Len(buf.marks) : buf.marks[k] = buf.resp[j]

EndsInContext(buf) == Len(buf.resp) > 0 => buf.resp[Len(buf.resp)] = Context

\* The buffer the latest assistant of c was sampled after.
BeforeLast(c) ==
  [prompt |-> c.buf.prompt, resp |-> Prefix(c.buf.resp, c.start.resp),
   marks |-> Prefix(c.buf.marks, Len(c.buf.marks) - 1)]

\* The tokens of a chain are whole before its latest assistant, whose tokens
\* and mark follow.
ChainWhole(c) ==
  /\ Whole(Prefix(c.hist, c.start.hist), BeforeLast(c))
  /\ EndsInContext(BeforeLast(c))
  /\ c.start.resp < Len(c.buf.resp)
  /\ \A k \in (c.start.resp + 1)..Len(c.buf.resp) : c.buf.resp[k] = c.hist
  /\ Len(c.buf.marks) > 0 /\ c.buf.marks[Len(c.buf.marks)] = c.hist

LEMMA PrefixFacts ==
  ASSUME NEW S, NEW s \in Seq(S), NEW n \in 0..Len(s)
  PROVE  /\ Prefix(s, n) \in Seq(S) /\ Len(Prefix(s, n)) = n
         /\ \A k \in 1..n : Prefix(s, n)[k] = s[k]
<1>1. Len(s) \in Nat /\ n \in Int /\ 1 \in Int /\ \A k \in 1..n : s[k] \in S
  BY ElementOfSeq, LenProperties
<1>2. /\ Prefix(s, n) \in Seq(S)
      /\ Len(Prefix(s, n)) = IF 1 <= n THEN n - 1 + 1 ELSE 0
      /\ \A k \in 1..n - 1 + 1 : Prefix(s, n)[k] = s[1 + k - 1]
  BY <1>1, SubSeqProperties DEF Prefix
<1>3. n - 1 + 1 = n /\ \A k \in 1..n : 1 + k - 1 = k
  BY <1>1
<1>4. QED BY <1>1, <1>2, <1>3

LEMMA PrefixOfPrefix ==
  ASSUME NEW S, NEW s \in Seq(S), NEW n \in 0..Len(s), NEW k \in 0..n
  PROVE  Prefix(Prefix(s, n), k) = Prefix(s, k)
<1> DEFINE p == Prefix(s, n)
<1>0. Len(s) \in Nat
  BY LenProperties
<1>1. p \in Seq(S) /\ Len(p) = n /\ \A j \in 1..n : p[j] = s[j]
  BY PrefixFacts
<1> HIDE DEF p
<1>2. /\ Prefix(p, k) \in Seq(S) /\ Len(Prefix(p, k)) = k
      /\ \A j \in 1..k : Prefix(p, k)[j] = p[j]
  BY <1>1, PrefixFacts
<1>3. k \in 0..Len(s)
  BY <1>0
<1>4. /\ Prefix(s, k) \in Seq(S) /\ Len(Prefix(s, k)) = k
      /\ \A j \in 1..k : Prefix(s, k)[j] = s[j]
  BY <1>3, PrefixFacts
<1>5. \A j \in 1..Len(Prefix(p, k)) : Prefix(p, k)[j] = Prefix(s, k)[j]
  BY <1>0, <1>1, <1>2, <1>4
<1>6. Prefix(p, k) = Prefix(s, k)
  BY <1>2, <1>4, <1>5, SeqEqual
<1>7. QED BY <1>6 DEF p

LEMMA StartsFacts ==
  ASSUME NEW m \in Conversations
  PROVE  StartsWith(m, m) /\ StartsWith(m, Context)
<1>1. m \in Seq(Messages) /\ Len(m) \in Nat /\ 0 \in 0..Len(m)
  BY LenProperties DEF Conversations
<1>2. Prefix(m, Len(m)) = m
  BY <1>1, SubSeqFull DEF Prefix
<1>3. Prefix(m, 0) = << >>
  BY <1>1, SubSeqEmpty DEF Prefix
<1>4. Len(Context) = 0
  BY DEF Context
<1>5. QED BY <1>1, <1>2, <1>3, <1>4 DEF StartsWith, Context

\* A longer conversation keeps a buffer whole.
LEMMA WholeOfPrefix ==
  ASSUME NEW m \in Conversations, NEW n \in 0..Len(m), NEW buf \in Buffer,
         Whole(Prefix(m, n), buf)
  PROVE  Whole(m, buf)
<1>1. m \in Seq(Messages) /\ Len(m) \in Nat
  BY LenProperties DEF Conversations
<1>2. Len(Prefix(m, n)) = n
  BY <1>1, PrefixFacts
<1>3. ASSUME NEW t \in Conversations, StartsWith(Prefix(m, n), t)
      PROVE  StartsWith(m, t)
  <2>1. Len(t) \in 0..n
    BY <1>1, <1>2, <1>3, LenProperties DEF StartsWith, Conversations
  <2>2. Prefix(Prefix(m, n), Len(t)) = Prefix(m, Len(t))
    BY <1>1, <2>1, PrefixOfPrefix
  <2>3. Len(t) <= Len(m)
    BY <1>1, <2>1
  <2>4. Prefix(Prefix(m, n), Len(t)) = t
    BY <1>3 DEF StartsWith
  <2>5. QED BY <2>2, <2>3, <2>4 DEF StartsWith
<1>4. \A k \in 1..Len(buf.resp) : buf.resp[k] \in Conversations
  BY ElementOfSeq DEF Buffer
<1>5. \A k \in 1..Len(buf.resp) : StartsWith(m, buf.resp[k])
  BY <1>3, <1>4 DEF Whole
<1>6. QED BY <1>5 DEF Whole

\* A buffer that only differs by Context tokens is as whole.
LEMMA WholeBut ==
  ASSUME NEW m \in Conversations, NEW old, NEW new,
         Whole(m, old), new.marks = old.marks,
         \A k \in 1..Len(new.resp) :
           new.resp[k] = Context \/ \E j \in 1..Len(old.resp) : old.resp[j] = new.resp[k],
         \A j \in 1..Len(old.resp) :
           old.resp[j] = Context \/ \E k \in 1..Len(new.resp) : new.resp[k] = old.resp[j]
  PROVE  Whole(m, new)
<1>1. \A k \in 1..Len(new.resp) : StartsWith(m, new.resp[k])
  BY StartsFacts DEF Whole
<1>2. \A k \in 1..Len(new.marks) :
       new.marks[k] # Context /\ \E j \in 1..Len(new.resp) : new.resp[j] = new.marks[k]
  BY DEF Whole
<1>3. \A j \in 1..Len(new.resp) :
       new.resp[j] # Context => \E k \in 1..Len(new.marks) : new.marks[k] = new.resp[j]
  BY DEF Whole
<1>4. QED BY <1>1, <1>2, <1>3 DEF Whole

\* Contexts of the next request keep a buffer whole and end it in Context.
LEMMA AppendContextWhole ==
  ASSUME NEW m \in Conversations, NEW buf \in Buffer, NEW n \in Nat, Whole(m, buf)
  PROVE  /\ Whole(m, AppendContext(buf, n))
         /\ EndsInContext(AppendContext(buf, n))
<1> DEFINE more == [i \in 1..(n + 1) |-> Context]
           new == AppendContext(buf, n)
<1>1. Context \in Conversations
  BY EmptySeq DEF Context, Conversations
<1>2. more \in Seq(Conversations) /\ Len(more) = n + 1 /\ \A k \in 1..(n + 1) : more[k] = Context
  BY <1>1, IsASeq
<1>3. buf.resp \in Seq(Conversations) /\ Len(buf.resp) \in Nat
  BY LenProperties DEF Buffer
<1>4. new.resp = buf.resp \o more /\ new.marks = buf.marks
  BY DEF AppendContext, Buffer
<1> HIDE DEF more, new
<1>5. /\ Len(new.resp) = Len(buf.resp) + n + 1
      /\ \A k \in 1..Len(new.resp) :
           new.resp[k] = IF k <= Len(buf.resp) THEN buf.resp[k] ELSE more[k - Len(buf.resp)]
  BY <1>2, <1>3, <1>4, ConcatProperties
<1>6. \A k \in 1..Len(new.resp) : k > Len(buf.resp) => new.resp[k] = Context
  <2> SUFFICES ASSUME NEW k \in 1..Len(new.resp), k > Len(buf.resp)
               PROVE  new.resp[k] = Context
    OBVIOUS
  <2>1. k \in Int /\ k - Len(buf.resp) \in 1..(n + 1)
    BY <1>3, <1>5
  <2>2. new.resp[k] = more[k - Len(buf.resp)]
    BY <1>3, <1>5, <2>1
  <2>3. QED BY <1>2, <2>1, <2>2
<1>7. \A k \in 1..Len(buf.resp) : k \in 1..Len(new.resp) /\ new.resp[k] = buf.resp[k]
  BY <1>3, <1>5
<1>8. \A k \in 1..Len(new.resp) :
        new.resp[k] = Context \/ \E j \in 1..Len(buf.resp) : buf.resp[j] = new.resp[k]
  BY <1>3, <1>5, <1>6
<1>9. Whole(m, new)
  BY <1>4, <1>7, <1>8, WholeBut
<1>10. EndsInContext(new)
  BY <1>3, <1>5, <1>6 DEF EndsInContext
<1>11. QED BY <1>9, <1>10 DEF new

LEMMA ChainFields ==
  ASSUME TypeInv, NEW i \in DOMAIN chains
  PROVE  /\ chains[i].hist \in Conversations /\ Len(chains[i].hist) \in Nat
         /\ chains[i].buf \in Buffer /\ chains[i].buf.prompt \in Int
         /\ chains[i].buf.resp \in Seq(Conversations) /\ Len(chains[i].buf.resp) \in Nat
         /\ chains[i].buf.marks \in Seq(Conversations) /\ Len(chains[i].buf.marks) \in Nat
         /\ chains[i].start.resp \in 0..Len(chains[i].buf.resp)
         /\ chains[i].start.hist \in Nat
         /\ chains[i].start.hist + 1 = Len(chains[i].hist)
<1>1. /\ chains[i] \in Chain
      /\ chains[i].start.resp <= Len(chains[i].buf.resp)
      /\ chains[i].start.hist + 1 = Len(chains[i].hist)
  BY DEF TypeInv, TypeOK, ChainsOK
<1>2. /\ chains[i].hist \in Conversations /\ chains[i].buf \in Buffer
      /\ chains[i].start.resp \in Nat /\ chains[i].start.hist \in Nat
  BY <1>1 DEF Chain, LastAssistantStart
<1>3. /\ chains[i].buf.prompt \in Int
      /\ chains[i].buf.resp \in Seq(Conversations) /\ chains[i].buf.marks \in Seq(Conversations)
  BY <1>2 DEF Buffer
<1>4. /\ Len(chains[i].hist) \in Nat /\ Len(chains[i].buf.resp) \in Nat
      /\ Len(chains[i].buf.marks) \in Nat
  BY <1>2, <1>3, LenProperties DEF Conversations
<1>5. QED BY <1>1, <1>2, <1>3, <1>4

\* A chain with its latest assistant is whole.
LEMMA ChainIsWhole ==
  ASSUME TypeInv, NEW i \in DOMAIN chains, ChainWhole(chains[i])
  PROVE  Whole(chains[i].hist, chains[i].buf)
<1> DEFINE c == chains[i]
           old == BeforeLast(c)
           n == c.start.resp
           l == Len(c.buf.marks)
<1>1. /\ c.hist \in Conversations /\ Len(c.hist) \in Nat
      /\ c.buf \in Buffer
      /\ c.buf.resp \in Seq(Conversations) /\ Len(c.buf.resp) \in Nat
      /\ c.buf.marks \in Seq(Conversations) /\ l \in Nat
      /\ n \in 0..Len(c.buf.resp)
      /\ c.start.hist \in 0..Len(c.hist) /\ Len(c.hist) > 0
  <2>1. c.start.hist \in Nat /\ c.start.hist + 1 = Len(c.hist)
    BY ChainFields
  <2>2. QED BY <2>1, ChainFields
<1>2. /\ Whole(Prefix(c.hist, c.start.hist), old)
      /\ n < Len(c.buf.resp)
      /\ \A k \in (n + 1)..Len(c.buf.resp) : c.buf.resp[k] = c.hist
      /\ l > 0 /\ c.buf.marks[l] = c.hist
  BY DEF ChainWhole
<1>3. l - 1 \in 0..l
  BY <1>1, <1>2
<1>4. /\ old.resp = Prefix(c.buf.resp, n) /\ old.marks = Prefix(c.buf.marks, l - 1)
      /\ old.prompt = c.buf.prompt
  BY DEF BeforeLast
<1>5. /\ old.resp \in Seq(Conversations) /\ Len(old.resp) = n
      /\ \A k \in 1..n : old.resp[k] = c.buf.resp[k]
  BY <1>1, <1>4, PrefixFacts
<1>6. /\ old.marks \in Seq(Conversations) /\ Len(old.marks) = l - 1
      /\ \A k \in 1..(l - 1) : old.marks[k] = c.buf.marks[k]
  <2>1. c.buf.marks \in Seq(Conversations) /\ l - 1 \in 0..Len(c.buf.marks)
    BY <1>1, <1>3
  <2> DEFINE p == l - 1
  <2> HIDE DEF p
  <2>2. p \in 0..Len(c.buf.marks) /\ p = l - 1
    BY <2>1 DEF p
  <2>3. /\ Prefix(c.buf.marks, p) \in Seq(Conversations) /\ Len(Prefix(c.buf.marks, p)) = p
        /\ \A k \in 1..p : Prefix(c.buf.marks, p)[k] = c.buf.marks[k]
    BY <2>1, <2>2, PrefixFacts
  <2>4. old.marks = Prefix(c.buf.marks, p)
    BY <1>4, <2>2
  <2>5. QED BY <2>2, <2>3, <2>4
<1>7. old \in Buffer
  BY <1>1, <1>5, <1>6 DEF BeforeLast, Buffer
<1> HIDE DEF c, old, n, l
<1>8. Whole(c.hist, old)
  BY <1>1, <1>2, <1>7, WholeOfPrefix
<1>9. c.hist # Context
  <2>1. Len(Context) = 0
    BY DEF Context
  <2>2. QED BY <1>1, <2>1
<1>10. \A k \in 1..Len(c.buf.resp) : k \in 1..n \/ k \in (n + 1)..Len(c.buf.resp)
  BY <1>1
<1>11. \A k \in 1..l : k \in 1..(l - 1) \/ k = l
  BY <1>1
<1>12. \A k \in 1..n : k \in 1..Len(c.buf.resp)
  BY <1>1
<1>13. \A k \in 1..(l - 1) : k \in 1..l
  BY <1>1
<1>14. l \in 1..l /\ n + 1 \in 1..Len(c.buf.resp) /\ n + 1 \in (n + 1)..Len(c.buf.resp)
  BY <1>1, <1>2
<1>15. \A k \in 1..Len(c.buf.resp) : StartsWith(c.hist, c.buf.resp[k])
  BY <1>1, <1>2, <1>5, <1>8, <1>10, StartsFacts DEF Whole
<1>16. \A k \in 1..l : /\ c.buf.marks[k] # Context
                       /\ \E j \in 1..Len(c.buf.resp) : c.buf.resp[j] = c.buf.marks[k]
  <2>1. ASSUME NEW k \in 1..(l - 1)
        PROVE  /\ c.buf.marks[k] # Context
               /\ \E j \in 1..Len(c.buf.resp) : c.buf.resp[j] = c.buf.marks[k]
    <3>1. old.marks[k] # Context /\ \E j \in 1..n : old.resp[j] = old.marks[k]
      BY <1>5, <1>6, <1>8 DEF Whole
    <3>2. QED BY <1>5, <1>6, <1>12, <3>1
  <2>2. /\ c.buf.marks[l] # Context
        /\ \E j \in 1..Len(c.buf.resp) : c.buf.resp[j] = c.buf.marks[l]
    BY <1>2, <1>9, <1>14
  <2>3. QED BY <1>11, <2>1, <2>2
<1>17. \A j \in 1..Len(c.buf.resp) :
         c.buf.resp[j] # Context => \E k \in 1..l : c.buf.marks[k] = c.buf.resp[j]
  <2>1. ASSUME NEW j \in 1..n, c.buf.resp[j] # Context
        PROVE  \E k \in 1..l : c.buf.marks[k] = c.buf.resp[j]
    <3>1. \E k \in 1..(l - 1) : old.marks[k] = old.resp[j]
      BY <1>5, <1>6, <1>8, <2>1 DEF Whole
    <3>2. QED BY <1>5, <1>6, <1>13, <3>1
  <2>2. ASSUME NEW j \in (n + 1)..Len(c.buf.resp)
        PROVE  \E k \in 1..l : c.buf.marks[k] = c.buf.resp[j]
    BY <1>2, <1>14
  <2>3. QED BY <1>10, <2>1, <2>2
<1>18. Whole(c.hist, c.buf)
  BY <1>15, <1>16, <1>17 DEF Whole, l
<1>19. QED BY <1>18 DEF c

\* A rollback leaves a whole buffer, of what the request kept.
LEMMA DropIsWhole ==
  ASSUME TypeInv, NEW i \in DOMAIN chains, ChainWhole(chains[i])
  PROVE  Whole(Prefix(chains[i].hist, chains[i].start.hist), DropLastAssistant(chains[i]))
<1> DEFINE c == chains[i]
           old == BeforeLast(c)
           new == DropLastAssistant(c)
           n == c.start.resp
<1>1. /\ c.hist \in Seq(Messages) /\ Len(c.hist) \in Nat
      /\ c.buf.resp \in Seq(Conversations) /\ Len(c.buf.resp) \in Nat
      /\ n \in 0..Len(c.buf.resp)
      /\ c.start.hist \in 0..Len(c.hist)
  <2>1. c.start.hist \in Nat /\ c.start.hist + 1 = Len(c.hist) /\ Len(c.hist) \in Nat
    BY ChainFields
  <2>2. c.start.hist \in 0..Len(c.hist)
    BY <2>1
  <2>3. QED BY <2>2, ChainFields DEF Conversations
<1>2. Whole(Prefix(c.hist, c.start.hist), old) /\ EndsInContext(old)
  BY DEF ChainWhole
<1>3. Prefix(c.hist, c.start.hist) \in Conversations
  BY <1>1, PrefixFacts DEF Conversations
<1>4. /\ old.resp = Prefix(c.buf.resp, n) /\ new.marks = old.marks
      /\ new.resp = IF n = 0 THEN << >> ELSE Prefix(c.buf.resp, n - 1)
  BY DEF BeforeLast, DropLastAssistant
<1>5. /\ Len(old.resp) = n
      /\ \A k \in 1..n : old.resp[k] = c.buf.resp[k]
  BY <1>1, <1>4, PrefixFacts
<1>6. CASE n = 0
  <2>1. Len(new.resp) = 0
    BY <1>4, <1>6
  <2> HIDE DEF old, new
  <2>2. Whole(Prefix(c.hist, c.start.hist), new)
    BY <1>2, <1>3, <1>4, <1>5, <1>6, <2>1, WholeBut
  <2>3. QED BY <2>2 DEF new
<1>7. CASE n # 0
  <2>1. n - 1 \in 0..Len(c.buf.resp) /\ n \in 1..n
    BY <1>1, <1>7
  <2>2. /\ Len(new.resp) = n - 1
        /\ \A k \in 1..(n - 1) : new.resp[k] = c.buf.resp[k]
    BY <1>1, <1>4, <1>7, <2>1, PrefixFacts
  <2>3. old.resp[n] = Context
    BY <1>1, <1>2, <1>5, <1>7 DEF EndsInContext
  <2> HIDE DEF old, new, c, n
  <2>4. \A k \in 1..(n - 1) : k \in 1..n
    BY <1>1
  <2>5. \A k \in 1..n : k \in 1..(n - 1) \/ k = n
    BY <1>1
  <2>6. \A k \in 1..Len(new.resp) :
          new.resp[k] = Context \/ \E j \in 1..Len(old.resp) : old.resp[j] = new.resp[k]
    BY <1>5, <2>2, <2>4
  <2>7. \A j \in 1..Len(old.resp) :
          old.resp[j] = Context \/ \E k \in 1..Len(new.resp) : new.resp[k] = old.resp[j]
    BY <1>5, <2>2, <2>3, <2>4, <2>5
  <2>8. Whole(Prefix(c.hist, c.start.hist), new)
    BY <1>2, <1>3, <1>4, <2>6, <2>7, WholeBut
  <2>9. QED BY <2>8 DEF new, c
<1>8. QED BY <1>6, <1>7

\* What a commit stores is whole around its new assistant.
LEMMA CommitIsWhole ==
  ASSUME TypeInv, NEW r \in Requests, NEW reply \in Replies, NEW n \in GenLens,
         Whole(req[r].msgs, enc[r].buf), EndsInContext(enc[r].buf)
  PROVE  ChainWhole(CommittedChain(r, reply, n))
<1> DEFINE m == req[r].msgs
           t == Append(m, reply)
           old == enc[r].buf
           c == CommittedChain(r, reply, n)
           more == [i \in 1..n |-> t]
<1>1. m \in Seq(Messages) /\ Len(m) \in Nat
  BY RequestType DEF TypeInv, TypeOK, Conversations
<1>2. old \in Buffer
  BY DEF TypeInv, TypeOK, Encoded
<1>3. /\ old.resp \in Seq(Conversations) /\ Len(old.resp) \in Nat
      /\ old.marks \in Seq(Conversations) /\ Len(old.marks) \in Nat
  BY <1>2, LenProperties DEF Buffer
<1>4. reply \in Messages /\ n \in Nat /\ n > 0
  BY MessagesAssumption, ParametersAssumption
<1>5. /\ t \in Seq(Messages) /\ Len(t) = Len(m) + 1
      /\ \A k \in 1..Len(m) : t[k] = m[k]
  BY <1>1, <1>4, AppendProperties
<1>6. Prefix(t, Len(m)) = m
  <2>1. Len(m) \in 0..Len(t)
    BY <1>1, <1>5
  <2>2. /\ Prefix(t, Len(m)) \in Seq(Messages) /\ Len(Prefix(t, Len(m))) = Len(m)
        /\ \A k \in 1..Len(m) : Prefix(t, Len(m))[k] = t[k]
    BY <1>5, <2>1, PrefixFacts
  <2> HIDE DEF t
  <2>3. QED BY <1>1, <1>5, <2>2, SeqEqual
<1>7. more \in Seq(Conversations) /\ Len(more) = n /\ \A k \in 1..n : more[k] = t
  BY <1>4, <1>5, IsASeq DEF Conversations
<1>8. /\ c.hist = t /\ c.start.hist = Len(m) /\ c.start.resp = Len(old.resp)
      /\ c.buf.resp = old.resp \o more /\ c.buf.marks = Append(old.marks, t)
      /\ c.buf.prompt = old.prompt
  BY DEF CommittedChain, AppendGeneration
<1>9. t \in Conversations
  BY <1>5 DEF Conversations
<1> HIDE DEF t, more, c, m
<1>10. /\ c.buf.resp \in Seq(Conversations) /\ Len(c.buf.resp) = Len(old.resp) + n
       /\ \A k \in 1..Len(old.resp) + n : c.buf.resp[k] =
            IF k <= Len(old.resp) THEN old.resp[k] ELSE more[k - Len(old.resp)]
  <2> DEFINE s == old.resp
  <2> HIDE DEF s
  <2>1. s \in Seq(Conversations) /\ s = old.resp
    BY <1>3 DEF s
  <2>2. /\ s \o more \in Seq(Conversations) /\ Len(s \o more) = Len(s) + Len(more)
        /\ \A k \in 1..Len(s) + Len(more) :
             (s \o more)[k] = IF k <= Len(s) THEN s[k] ELSE more[k - Len(s)]
    BY <2>1, <1>7, ConcatProperties
  <2>3. QED BY <1>7, <1>8, <2>1, <2>2
<1>11. /\ c.buf.marks \in Seq(Conversations) /\ Len(c.buf.marks) = Len(old.marks) + 1
       /\ c.buf.marks[Len(old.marks) + 1] = t
       /\ \A k \in 1..Len(old.marks) : c.buf.marks[k] = old.marks[k]
  BY <1>3, <1>8, <1>9, AppendProperties
<1>12. Prefix(c.buf.resp, Len(old.resp)) = old.resp
  <2>1. Len(old.resp) \in 0..Len(c.buf.resp)
    BY <1>3, <1>4, <1>10
  <2>2. /\ Prefix(c.buf.resp, Len(old.resp)) \in Seq(Conversations)
        /\ Len(Prefix(c.buf.resp, Len(old.resp))) = Len(old.resp)
        /\ \A k \in 1..Len(old.resp) : Prefix(c.buf.resp, Len(old.resp))[k] = c.buf.resp[k]
    BY <1>10, <2>1, PrefixFacts
  <2>3. \A k \in 1..Len(old.resp) : c.buf.resp[k] = old.resp[k]
    <3>1. Len(old.resp) \in Nat /\ n \in Nat
      BY <1>3, <1>4
    <3>2. \A k \in 1..Len(old.resp) : k \in 1..Len(old.resp) + n /\ k <= Len(old.resp)
      BY <3>1
    <3>3. QED BY <1>10, <3>2
  <2> DEFINE p == Prefix(c.buf.resp, Len(old.resp))
  <2>4. /\ p \in Seq(Conversations) /\ Len(p) = Len(old.resp)
        /\ \A k \in 1..Len(p) : p[k] = old.resp[k]
    BY <2>2, <2>3
  <2> HIDE DEF p
  <2>5. p = old.resp
    BY <1>3, <2>4, SeqEqual
  <2>6. QED BY <2>5 DEF p
<1>13. Prefix(c.buf.marks, Len(c.buf.marks) - 1) = old.marks
  <2>1. Len(old.marks) \in 0..Len(c.buf.marks) /\ Len(c.buf.marks) - 1 = Len(old.marks)
    BY <1>3, <1>11
  <2> DEFINE p == Prefix(c.buf.marks, Len(old.marks))
  <2>2. /\ p \in Seq(Conversations) /\ Len(p) = Len(old.marks)
        /\ \A k \in 1..Len(old.marks) : p[k] = c.buf.marks[k]
    BY <1>11, <2>1, PrefixFacts
  <2> HIDE DEF p
  <2>3. p = old.marks
    BY <1>3, <1>11, <2>2, SeqEqual
  <2>4. QED BY <2>1, <2>3 DEF p
<1>14. BeforeLast(c) = old
  <2>1. BeforeLast(c) = [prompt |-> old.prompt, resp |-> old.resp, marks |-> old.marks]
    BY <1>8, <1>12, <1>13 DEF BeforeLast
  <2>2. QED BY <1>2, <2>1 DEF Buffer
<1>15. \A k \in (c.start.resp + 1)..Len(c.buf.resp) : c.buf.resp[k] = c.hist
  <2> SUFFICES ASSUME NEW k \in (Len(old.resp) + 1)..(Len(old.resp) + n)
               PROVE  c.buf.resp[k] = t
    BY <1>8, <1>10
  <2>1. k \in Int /\ k - Len(old.resp) \in 1..n /\ ~(k <= Len(old.resp))
    BY <1>3, <1>4
  <2>2. k \in 1..Len(old.resp) + n
    BY <1>3, <1>4
  <2>3. c.buf.resp[k] = more[k - Len(old.resp)]
    BY <1>10, <2>1, <2>2
  <2>4. QED BY <1>7, <2>1, <2>3
<1>16. c.start.resp < Len(c.buf.resp) /\ Len(c.buf.marks) > 0
       /\ c.buf.marks[Len(c.buf.marks)] = c.hist
  <2>1. c.start.resp < Len(c.buf.resp)
    BY <1>3, <1>4, <1>8, <1>10
  <2>2. c.buf.marks[Len(c.buf.marks)] = t /\ c.hist = t
    BY <1>8, <1>11
  <2>3. Len(c.buf.marks) > 0
    BY <1>3, <1>11
  <2>4. QED BY <2>1, <2>2, <2>3
<1>17. Whole(Prefix(c.hist, c.start.hist), BeforeLast(c)) /\ EndsInContext(BeforeLast(c))
  BY <1>6, <1>8, <1>14 DEF m
<1>18. ChainWhole(c)
  BY <1>15, <1>16, <1>17 DEF ChainWhole
<1>19. QED BY <1>18 DEF c

\* A chain a request continues is a prefix of it, up to the rewritten assistant.
LEMMA SelectedPrefix ==
  ASSUME NEW q \in Request, NEW i \in SelectChain(q), i # NoChain
  PROVE  /\ i \in DOMAIN chains
         /\ chains[i].start.hist < Len(q.msgs)
         /\ i \in ExactMatches(q) =>
              Len(chains[i].hist) <= Len(q.msgs) /\ Prefix(q.msgs, Len(chains[i].hist)) = chains[i].hist
         /\ Prefix(q.msgs, chains[i].start.hist) = Prefix(chains[i].hist, chains[i].start.hist)
BY DEF SelectChain, Ranked, DeepestRewrites, Rewrites, ExactMatches, Candidates, Agrees

\* What is kept of a chain is whole in the request that keeps it.
LEMMA KeptIsWhole ==
  ASSUME TypeInv, NEW q \in Request, NEW i \in SelectChain(q), i # NoChain,
         ChainWhole(chains[i])
  PROVE  Whole(q.msgs, KeptBuffer(i, q))
<1>1. /\ i \in DOMAIN chains
      /\ chains[i].start.hist < Len(q.msgs)
      /\ i \in ExactMatches(q) =>
           Len(chains[i].hist) <= Len(q.msgs) /\ Prefix(q.msgs, Len(chains[i].hist)) = chains[i].hist
      /\ Prefix(q.msgs, chains[i].start.hist) = Prefix(chains[i].hist, chains[i].start.hist)
  BY SelectedPrefix
<1>2. q.msgs \in Conversations /\ Len(q.msgs) \in Nat
  BY RequestType
<1>3. KeptBuffer(i, q) \in Buffer
  BY <1>1, KeptBufferType
<1>4. Len(chains[i].hist) \in Nat /\ chains[i].start.hist \in Nat
  BY <1>1, ChainFields
<1>5. CASE i \in ExactMatches(q)
  <2>1. Len(chains[i].hist) \in 0..Len(q.msgs)
    BY <1>1, <1>2, <1>4, <1>5
  <2>2. Whole(Prefix(q.msgs, Len(chains[i].hist)), KeptBuffer(i, q))
    BY <1>1, <1>5, ChainIsWhole DEF KeptBuffer
  <2>3. QED BY <1>2, <1>3, <2>1, <2>2, WholeOfPrefix
<1>6. CASE i \notin ExactMatches(q)
  <2>1. chains[i].start.hist \in 0..Len(q.msgs)
    BY <1>1, <1>2, <1>4
  <2>2. Whole(Prefix(q.msgs, chains[i].start.hist), KeptBuffer(i, q))
    BY <1>1, <1>6, DropIsWhole DEF KeptBuffer
  <2>3. QED BY <1>2, <1>3, <2>1, <2>2, WholeOfPrefix
<1>7. QED BY <1>5, <1>6

\* What a request hands to the backend is whole, and ends in Context.
LEMMA EncodeIsWhole ==
  ASSUME TypeInv, NEW q \in Request, NEW i \in SelectChain(q), ~CapacityExhausted(i, q),
         i # NoChain => ChainWhole(chains[i])
  PROVE  Whole(q.msgs, Encode(i, q).buf) /\ EndsInContext(Encode(i, q).buf)
<1>1. Encode(i, q).buf = MergedBuffer(i, q)
  BY DEF Encode
<1>2. q.msgs \in Conversations /\ Len(q.msgs) \in Nat
  BY RequestType
<1>3. CASE i = NoChain
  <2>1. MergedBuffer(i, q).resp = << >> /\ MergedBuffer(i, q).marks = << >>
    BY <1>3 DEF MergedBuffer, InitialBuffer
  <2>2. Len(<< >>) = 0 /\ 1..0 = {}
    OBVIOUS
  <2>3. QED BY <1>1, <2>1, <2>2 DEF Whole, EndsInContext
<1>4. CASE i # NoChain
  <2>1. Whole(q.msgs, KeptBuffer(i, q))
    BY <1>4, KeptIsWhole
  <2>2. KeptBuffer(i, q) \in Buffer
    BY <1>4, SelectedPrefix, KeptBufferType
  <2>3. NewMessages(i, q) \in Nat
    <3>1. /\ i \in DOMAIN chains
          /\ chains[i].start.hist < Len(q.msgs)
          /\ i \in ExactMatches(q) => Len(chains[i].hist) <= Len(q.msgs)
      BY <1>4, SelectedPrefix
    <3>2. Len(chains[i].hist) \in Nat /\ chains[i].start.hist \in Nat
      BY <3>1, ChainFields
    <3>3. QED BY <1>2, <3>1, <3>2 DEF NewMessages
  <2>4. MergedBuffer(i, q) = AppendContext(KeptBuffer(i, q), NewMessages(i, q))
    BY <1>4 DEF MergedBuffer
  <2>5. QED BY <1>1, <1>2, <2>1, <2>2, <2>3, <2>4, AppendContextWhole
<1>5. QED BY <1>3, <1>4

\* What an exhausted chain leaves is whole, and no longer than the chain was.
LEMMA LeftIsWhole ==
  ASSUME TypeInv, NEW q \in Request, NEW i \in SelectChain(q), i # NoChain,
         CapacityExhausted(i, q), ChainWhole(chains[i])
  PROVE  /\ Whole(Left(i, q).hist, Left(i, q).buf)
         /\ Size(Left(i, q).buf) <= Size(chains[i].buf)
<1> DEFINE c == chains[i]
<1>1. /\ i \in DOMAIN chains
      /\ Prefix(q.msgs, c.start.hist) = Prefix(c.hist, c.start.hist)
  BY SelectedPrefix
<1>2. c \in Chain
  BY <1>1 DEF TypeInv, TypeOK
<1>3. Encode(i, q).rolled <=> i \notin ExactMatches(q)
  BY DEF Encode
<1>4. /\ c.buf.prompt \in Int /\ c.buf.resp \in Seq(Conversations)
      /\ Len(c.buf.resp) \in Nat /\ c.start.resp \in 0..Len(c.buf.resp)
  BY <1>1, ChainFields
<1>5. CASE i \in ExactMatches(q)
  <2>1. Left(i, q) = c
    BY <1>3, <1>5 DEF Left
  <2>2. Size(c.buf) \in Int
    BY <1>4 DEF Size
  <2>3. QED BY <1>1, <2>1, <2>2, ChainIsWhole
<1>6. CASE i \notin ExactMatches(q)
  <2> DEFINE buf == DropLastAssistant(c)
  <2>1. Encode(i, q).buf = buf
    BY <1>6 DEF Encode, KeptBuffer
  <2>2. Left(i, q) = [c EXCEPT !.hist = Prefix(q.msgs, c.start.hist), !.buf = buf]
    BY <1>3, <1>6, <2>1 DEF Left
  <2> HIDE DEF buf
  <2>3. Left(i, q).hist = Prefix(q.msgs, c.start.hist) /\ Left(i, q).buf = buf
    BY <1>2, <2>2 DEF Chain
  <2>4. Whole(Prefix(q.msgs, c.start.hist), buf)
    BY <1>1, DropIsWhole DEF buf
  <2>5. Size(buf) <= Size(c.buf)
    <3>1. /\ buf.prompt = IF c.start.resp = 0 THEN c.buf.prompt - 1 ELSE c.buf.prompt
          /\ buf.resp = IF c.start.resp = 0 THEN << >> ELSE Prefix(c.buf.resp, c.start.resp - 1)
      BY DEF buf, DropLastAssistant
    <3>2. CASE c.start.resp = 0
      <4>1. Len(buf.resp) = 0
        BY <3>1, <3>2
      <4>2. QED BY <1>4, <3>1, <3>2, <4>1 DEF Size
    <3>3. CASE c.start.resp # 0
      <4>1. c.start.resp - 1 \in 0..Len(c.buf.resp)
        BY <1>4, <3>3
      <4>2. Len(buf.resp) = c.start.resp - 1
        BY <1>4, <3>1, <3>3, <4>1, PrefixFacts
      <4>3. Len(buf.resp) <= Len(c.buf.resp) /\ Len(buf.resp) \in Int
        BY <1>4, <4>1, <4>2
      <4>4. buf.prompt = c.buf.prompt
        BY <3>1, <3>3
      <4> HIDE DEF c
      <4>5. QED BY <1>4, <4>3, <4>4 DEF Size
    <3>4. QED BY <3>2, <3>3
  <2>6. QED BY <2>3, <2>4, <2>5
<1>7. QED BY <1>5, <1>6

\* A generation fits in what was left of the capacity.
LEMMA CommitFits ==
  ASSUME TypeInv, NEW r \in Requests, NEW reply \in Replies, NEW n \in GenLens,
         n <= MaxTokens(enc[r])
  PROVE  Size(CommittedChain(r, reply, n).buf) <= Capacity
<1> DEFINE t == Append(req[r].msgs, reply)
           more == [i \in 1..n |-> t]
           old == enc[r].buf
<1>1. old \in Buffer /\ req[r] \in Request
  BY DEF TypeInv, TypeOK, Encoded
<1>2. old.prompt \in Int /\ old.resp \in Seq(Conversations) /\ Len(old.resp) \in Nat
  BY <1>1, LenProperties DEF Buffer
<1>3. t \in Conversations /\ n \in Nat
  BY <1>1, RequestType, MessagesAssumption, ParametersAssumption DEF Conversations
<1>4. more \in Seq(Conversations) /\ Len(more) = n
  BY <1>3, IsASeq
<1>5. /\ CommittedChain(r, reply, n).buf.prompt = old.prompt
      /\ CommittedChain(r, reply, n).buf.resp = old.resp \o more
  BY DEF CommittedChain, AppendGeneration
<1> HIDE DEF more, t, old
<1>6. Len(old.resp \o more) = Len(old.resp) + n
  BY <1>2, <1>4, ConcatProperties
<1>7. n <= Capacity - (old.prompt + Len(old.resp))
  BY DEF MaxTokens, Size, old
<1>8. QED BY <1>2, <1>3, <1>5, <1>6, <1>7, ParametersAssumption DEF Size

\* Chains and trajectories are whole and within the capacity, and so is what is
\* at the backend.
RecordsInv ==
  /\ \A i \in DOMAIN chains : ChainWhole(chains[i]) /\ Size(chains[i].buf) <= Capacity
  /\ \A r \in Requests :
       pc[r] \in Owning => Whole(req[r].msgs, enc[r].buf) /\ EndsInContext(enc[r].buf)
  /\ \A t \in materialized : Whole(t.hist, t.buf) /\ Size(t.buf) <= Capacity

\* Reserving encodes a request that fits.
LEMMA ReserveEncodes ==
  ASSUME TypeInv, NEW r \in Requests, Reserve(r)
  PROVE  /\ \A s \in Requests : s # r => enc'[s] = enc[s] /\ pc'[s] = pc[s]
         /\ \E i \in SelectChain(req[r]) :
              ~CapacityExhausted(i, req[r]) /\ enc'[r] = Encode(i, req[r])
<1>1. PICK i \in SelectChain(req[r]) :
        /\ ~CapacityExhausted(i, req[r])
        /\ enc' = [enc EXCEPT ![r] = Encode(i, req[r])]
        /\ pc' = [pc EXCEPT ![r] = "generating"]
  BY Zenon DEF Reserve, GoTo
<1>2. enc \in [Requests -> Encoded] /\ pc \in [Requests -> Labels]
  BY DEF TypeInv, TypeOK
<1>3. QED BY <1>1, <1>2

\* Outside of that the backend keeps what it was given.
LEMMA BackendKeeps ==
  ASSUME TypeInv, [Next]_vars, ~\E r \in Requests : Reserve(r)
  PROVE  enc' = enc /\ \A r \in Requests : pc'[r] \in Owning => pc[r] \in Owning
<1>a. pc \in [Requests -> Labels]
  BY DEF TypeInv, TypeOK
<1> USE <1>a DEF GoTo, session, tasks, Owning
<1>1. ASSUME NEW r \in Requests, Step(r) \/ Fault(r)
      PROVE  enc' = enc /\ \A s \in Requests : pc'[s] \in Owning => pc[s] \in Owning
  <2>1. CASE Wake(r)
    <3>1. future[joined[r]].state \notin Owning
      BY <2>1 DEF Wake
    <3>2. QED BY <2>1, <3>1 DEF Wake
  <2>2. CASE CommitTooLate(r) \/ FailOwned(r)
    <3>1. enc' = enc /\ Unwind(r)
      BY <2>2 DEF CommitTooLate, FailOwned
    <3>2. \E label \in {"failed", "releasing", "finally"} : GoTo(r, label)
      BY <3>1 DEF Unwind
    <3>3. QED BY <3>1, <3>2
  <2>3. CASE \/ Reject(r) \/ Join(r) \/ StartPrepare(r) \/ ExhaustCapacity(r) \/ Generated(r)
             \/ StartCommit(r)
    BY <2>3 DEF Reject, Join, StartPrepare, ExhaustCapacity, Generated, StartCommit
  <2>4. CASE \/ Commit(r) \/ ReleaseReservation(r) \/ FinishUnwind(r) \/ FailUnowned(r)
             \/ CancelUnwind(r)
    BY <2>4 DEF Commit, ReleaseReservation, FinishUnwind, FailUnowned, CancelUnwind
  <2>5. QED BY <1>1, <2>1, <2>2, <2>3, <2>4 DEF Step, Fault
<1>2. CASE Finalize \/ Abort \/ UNCHANGED vars
  BY <1>2 DEF Finalize, Abort, vars
<1>3. QED BY <1>1, <1>2 DEF Next, Terminated

LEMMA RecordsStep == TypeInv /\ RecordsInv /\ [Next]_vars => RecordsInv'
<1> SUFFICES ASSUME TypeInv, RecordsInv, [Next]_vars PROVE RecordsInv'
  OBVIOUS
<1>a. /\ \A i \in DOMAIN chains : ChainWhole(chains[i]) /\ Size(chains[i].buf) <= Capacity
      /\ \A r \in Requests :
           pc[r] \in Owning => Whole(req[r].msgs, enc[r].buf) /\ EndsInContext(enc[r].buf)
      /\ \A t \in materialized : Whole(t.hist, t.buf) /\ Size(t.buf) <= Capacity
  BY DEF RecordsInv
<1>b. req' = req
  BY DEF Next, Step, Reject, Join, StartPrepare, Reserve, ExhaustCapacity, Generated,
     StartCommit, Commit, CommitTooLate, ReleaseReservation, FinishUnwind, Wake,
     Fault, FailUnowned, FailOwned, CancelUnwind, Finalize, Abort, Terminated, vars, tasks
<1> DEFINE Goal == \A i \in DOMAIN chains' : ChainWhole(chains'[i]) /\ Size(chains'[i].buf) <= Capacity
           Closed == \A t \in materialized' : Whole(t.hist, t.buf) /\ Size(t.buf) <= Capacity
<1>1. \A r \in Requests :
        pc'[r] \in Owning => Whole(req'[r].msgs, enc'[r].buf) /\ EndsInContext(enc'[r].buf)
  <2>1. CASE \E r \in Requests : Reserve(r)
    <3>1. PICK r \in Requests : Reserve(r)
      BY <2>1
    <3>2. PICK i \in SelectChain(req[r]) :
            ~CapacityExhausted(i, req[r]) /\ enc'[r] = Encode(i, req[r])
      BY <3>1, ReserveEncodes
    <3>3. req[r] \in Request
      BY DEF TypeInv, TypeOK
    <3>4. i # NoChain => ChainWhole(chains[i])
      BY <1>a, <3>3, SelectedPrefix
    <3>5. Whole(req[r].msgs, enc'[r].buf) /\ EndsInContext(enc'[r].buf)
      BY <3>2, <3>3, <3>4, EncodeIsWhole
    <3>6. \A s \in Requests : s # r => enc'[s] = enc[s] /\ pc'[s] = pc[s]
      BY <3>1, ReserveEncodes
    <3>7. QED BY <1>a, <1>b, <3>5, <3>6
  <2>2. CASE ~\E r \in Requests : Reserve(r)
    BY <1>a, <1>b, <2>2, BackendKeeps
  <2>3. QED BY <2>1, <2>2
<1>2. ASSUME NEW r \in Requests, Commit(r) PROVE Goal /\ Closed
  <2>1. PICK reply \in Replies, n \in GenLens :
           /\ n <= MaxTokens(enc[r])
           /\ pc[r] = "decoding"
           /\ DOMAIN chains' = DOMAIN chains \cup {Target(r)}
           /\ chains'[Target(r)] = CommittedChain(r, reply, n)
           /\ \A i \in DOMAIN chains : i # Target(r) => chains'[i] = chains[i]
           /\ materialized' = materialized
    BY <1>2, CommitStores
  <2>2. Whole(req[r].msgs, enc[r].buf) /\ EndsInContext(enc[r].buf)
    BY <1>a, <2>1 DEF Owning
  <2>3. ChainWhole(CommittedChain(r, reply, n))
    BY <2>2, CommitIsWhole
  <2>4. Size(CommittedChain(r, reply, n).buf) <= Capacity
    BY <2>1, CommitFits
  <2>5. QED BY <1>a, <2>1, <2>3, <2>4
<1>3. ASSUME NEW r \in Requests, ExhaustCapacity(r) PROVE Goal /\ Closed
  <2>1. CASE ChainsRest
    BY <1>a, <2>1 DEF ChainsRest
  <2>2. CASE ~ChainsRest
    <3>1. PICK i \in DOMAIN chains \cap SelectChain(req[r]) :
            /\ CapacityExhausted(i, req[r])
            /\ DOMAIN chains' = DOMAIN chains \ {i}
            /\ \A j \in DOMAIN chains' : chains'[j] = chains[j]
            /\ \/ materialized' = materialized
               \/ materialized' = materialized \cup
                    {Materialize(i, Left(i, req[r]), order_seq + 1)}
      BY <1>3, <2>2, ExhaustCloses
    <3>2. req[r] \in Request /\ i # NoChain
      BY DEF TypeInv, TypeOK
    <3>3. /\ Whole(Left(i, req[r]).hist, Left(i, req[r]).buf)
          /\ Size(Left(i, req[r]).buf) <= Size(chains[i].buf)
      BY <1>a, <3>1, <3>2, LeftIsWhole
    <3>4. Size(Left(i, req[r]).buf) <= Capacity
      <4>1. Size(chains[i].buf) \in Int
        BY ChainFields DEF Size
      <4>2. Left(i, req[r]).buf \in Buffer
        <5>1. chains[i] \in Chain /\ chains[i].buf \in Buffer
          BY DEF TypeInv, TypeOK, Chain
        <5>2. Encode(i, req[r]) \in Encoded
          BY <3>2, EncodeType
        <5>3. Left(i, req[r]).buf = chains[i].buf \/ Left(i, req[r]).buf = Encode(i, req[r]).buf
          BY <5>1 DEF Left, Chain
        <5>4. QED BY <5>1, <5>2, <5>3 DEF Encoded
      <4>3. Size(Left(i, req[r]).buf) \in Int
        <5> DEFINE buf == Left(i, req[r]).buf
        <5>1. buf.prompt \in Int /\ Len(buf.resp) \in Nat
          BY <4>2, LenProperties DEF Buffer
        <5>2. QED BY <5>1 DEF Size
      <4>4. Size(chains[i].buf) <= Capacity /\ Capacity \in Int
        BY <1>a, ParametersAssumption
      <4>5. QED BY <3>3, <4>1, <4>3, <4>4
    <3> DEFINE t == Materialize(i, Left(i, req[r]), order_seq + 1)
    <3>5. t.hist = Left(i, req[r]).hist /\ t.buf = Left(i, req[r]).buf
      BY DEF Materialize
    <3> HIDE DEF t
    <3>6. Whole(t.hist, t.buf) /\ Size(t.buf) <= Capacity
      BY <3>3, <3>4, <3>5
    <3>7. materialized' \subseteq materialized \cup {t}
      BY <3>1 DEF t
    <3>8. QED BY <1>a, <3>1, <3>6, <3>7
  <2>3. QED BY <2>1, <2>2
<1>4. ASSUME Finalize PROVE Goal /\ Closed
  <2>1. \A i : /\ Materialize(i, chains[i], chains[i].updated).hist = chains[i].hist
               /\ Materialize(i, chains[i], chains[i].updated).buf = chains[i].buf
    BY DEF Materialize
  <2>2. /\ DOMAIN chains' = {}
        /\ \A t \in materialized' :
             \/ t \in materialized
             \/ \E i \in DOMAIN chains : t.hist = chains[i].hist /\ t.buf = chains[i].buf
    BY <1>4, <2>1, FinalizeCloses
  <2>3. \A i \in DOMAIN chains :
          Whole(chains[i].hist, chains[i].buf) /\ Size(chains[i].buf) <= Capacity
    BY <1>a, ChainIsWhole
  <2>4. QED BY <1>a, <2>2, <2>3
<1>5. ASSUME Abort PROVE Goal /\ Closed
  BY <1>5, AbortCloses
<1>6. ASSUME ChainsRest PROVE Goal /\ Closed
  BY <1>a, <1>6 DEF ChainsRest
<1>7. Goal /\ Closed
  BY <1>2, <1>3, <1>4, <1>5, <1>6, ChainCases
<1>8. QED BY <1>1, <1>7 DEF RecordsInv

-----------------------------------------------------------------------------
\* A failed owner is dead and has no release to run; an unwinding one alone has.
LEMMA WakeCorrect == Spec => []WakeInv
<1>1. Init => WakeInv
  BY DEF Init, WakeInv
<1>2. QED BY <1>1, WakeStep, SnapshotsWithinChain, PTL DEF Spec

\* Counters give every chain and every trajectory a place of its own.
LEMMA OrderCorrect == Spec => []OrderInv
<1>1. Init => OrderInv
  BY DEF Init, OrderInv, TrajectoryOrder
<1>2. QED BY <1>1, OrderStep, SnapshotsWithinChain, PTL DEF Spec

\* Waiters are counted where they wait and attributed where they were served.
LEMMA WaiterCorrect == Spec => []WaiterInv
<1>1. Init => WaiterInv
  <2> SUFFICES ASSUME Init PROVE WaiterInv
    OBVIOUS
  <2>1. /\ DOMAIN chains = {} /\ materialized = {}
        /\ joined = [r \in Requests |-> NoOwner] /\ waiters = [r \in Requests |-> 0]
        /\ future = [r \in Requests |-> [state |-> "none", chain |-> NoChain]]
        /\ inflight = [q \in Request |-> NoOwner]
    BY DEF Init
  <2>2. \A r \in Requests : waiters[r] = Cardinality(Waiters(r))
    <3>1. \A r \in Requests : Waiters(r) = {}
      BY <2>1, ParametersAssumption DEF Waiters
    <3>2. QED BY <2>1, <3>1, FS_EmptySet
  <2>3. QED BY <2>1, <2>2 DEF WaiterInv, WaitersAttributed
<1>2. QED BY <1>1, WaiterStep, SnapshotsWithinChain, OwnerCorrect, OrderCorrect, PTL DEF Spec

\* Everything the trainer may receive is whole and within the capacity.
LEMMA RecordsCorrect == Spec => []RecordsInv
<1>1. Init => RecordsInv
  BY DEF Init, RecordsInv, Owning
<1>2. QED BY <1>1, RecordsStep, SnapshotsWithinChain, PTL DEF Spec

\* What is recorded is a chain's or a trajectory's, and both are whole.
LEMMA RecordsAreWhole ==
  ASSUME TypeInv, RecordsInv, NEW x \in Records
  PROVE  Whole(x.hist, x.buf) /\ Size(x.buf) <= Capacity
<1>1. CASE \E i \in DOMAIN chains : x = [hist |-> chains[i].hist, buf |-> chains[i].buf]
  <2>1. PICK i \in DOMAIN chains : x.hist = chains[i].hist /\ x.buf = chains[i].buf
    BY <1>1
  <2>2. ChainWhole(chains[i]) /\ Size(chains[i].buf) <= Capacity
    BY DEF RecordsInv
  <2>3. QED BY <2>1, <2>2, ChainIsWhole
<1>2. CASE \E t \in materialized : x = [hist |-> t.hist, buf |-> t.buf]
  <2>1. PICK t \in materialized : x.hist = t.hist /\ x.buf = t.buf
    BY <1>2
  <2>2. QED BY <2>1 DEF RecordsInv
<1>3. QED BY <1>1, <1>2 DEF Records

\* What a generation gives to others is right, however the requests end: a chain
\* and its trajectory count exactly the waiters its generations served, none is
\* longer than the capacity, and a failure wakes its waiters after its release.
THEOREM OutcomesAreSound == Spec => []OutcomesSound
<1>1. WaiterInv => WaitersAttributed
  BY DEF WaiterInv
<1>2. TypeInv /\ RecordsInv => CapacityRespected
  BY RecordsAreWhole DEF CapacityRespected
<1>3. WakeInv => WokenAfterRelease
  BY DEF WakeInv, WokenAfterRelease
<1>4. TypeInv /\ WaiterInv /\ RecordsInv /\ WakeInv => OutcomesSound
  BY <1>1, <1>2, <1>3 DEF OutcomesSound
<1>5. QED BY <1>4, SnapshotsWithinChain, WaiterCorrect, RecordsCorrect, WakeCorrect, PTL

\* What the trainer may receive is in order, each token with mask 1 was sampled
\* for a prefix of the conversation recorded with it, and the version marks are
\* those of the sampled tokens, through rollbacks, forks and closed chains.
THEOREM TrajectoriesAreSound == Spec => []TrajectoriesSound
<1>1. OrderInv => TrajectoryOrder
  BY DEF OrderInv
<1>2. ASSUME TypeInv, RecordsInv PROVE TrainedOnPolicy /\ MarksDescribeTokens
  <2>1. \A x \in Records : Whole(x.hist, x.buf)
    BY <1>2, RecordsAreWhole
  <2>2. TrainedOnPolicy
    BY <2>1 DEF TrainedOnPolicy, Trained, Whole, StartsWith
  <2>3. ASSUME NEW x \in Records
        PROVE  {x.buf.marks[k] : k \in 1..Len(x.buf.marks)} = Trained(x.buf)
    <3>1. Whole(x.hist, x.buf)
      BY <2>1
    <3>2. ASSUME NEW k \in 1..Len(x.buf.marks) PROVE x.buf.marks[k] \in Trained(x.buf)
      <4>1. PICK j \in 1..Len(x.buf.resp) : x.buf.resp[j] = x.buf.marks[k]
        BY <3>1 DEF Whole
      <4>2. x.buf.marks[k] # Context
        BY <3>1 DEF Whole
      <4>3. QED BY <4>1, <4>2 DEF Trained
    <3>3. ASSUME NEW t \in Trained(x.buf) PROVE \E k \in 1..Len(x.buf.marks) : x.buf.marks[k] = t
      <4>1. PICK j \in 1..Len(x.buf.resp) : x.buf.resp[j] = t
        BY DEF Trained
      <4>2. t # Context
        BY DEF Trained
      <4>3. QED BY <3>1, <4>1, <4>2 DEF Whole
    <3>4. QED BY <3>2, <3>3
  <2>4. QED BY <2>2, <2>3 DEF MarksDescribeTokens
<1>3. TypeInv /\ OrderInv /\ RecordsInv => TrajectoriesSound
  BY <1>1, <1>2 DEF TrajectoriesSound
<1>4. QED BY <1>3, SnapshotsWithinChain, OrderCorrect, RecordsCorrect, PTL

-----------------------------------------------------------------------------
(* The promise: each step of the session is, to its callers, a step that    *)
(* takes effect at one instant, or none at all.                            *)

Over == {"ok", "length", "failed"}

\* The marks of a chain end with its own history, and a chain whose latest
\* assistant is its first one has no other mark.
MarksInv ==
  \A i \in DOMAIN chains :
    LET c == chains[i] IN
    /\ Len(c.buf.marks) > 0
    /\ c.buf.marks[Len(c.buf.marks)] = c.hist
    /\ c.start.resp = 0 => Len(c.buf.marks) = 1

\* The request goes on where the chain ends, or rewrites its last answer; the
\* rest is what it keeps of the chain.
Builds(c, q, rest) ==
  LET n == Len(c.hist) IN
  /\ c.scope = q.scope
  /\ n <= Len(q.msgs)
  /\ \/ /\ Prefix(q.msgs, n) = c.hist
        /\ rest = [hist |-> c.hist, turns |-> c.buf.marks]
     \/ /\ Rollback
        /\ Prefix(q.msgs, n - 1) = Prefix(c.hist, n - 1)
        /\ q.msgs[n] # c.hist[n]
        /\ rest = [hist |-> Prefix(c.hist, n - 1),
                   turns |-> Prefix(c.buf.marks, Len(c.buf.marks) - 1)]

\* What a generation was prepared from is still what its chain says.
BuildsInv ==
  \A r \in Requests : pc[r] \in Owning =>
    /\ enc[r].buf.resp = <<>> => enc[r].buf.marks = <<>>
    /\ enc[r].chain = NoChain => enc[r].buf.marks = <<>>
    /\ Holds(r) => \E rest : /\ Builds(chains[enc[r].chain], req[r], rest)
                             /\ rest.turns = enc[r].buf.marks

\* Who waits, waits for an identical request, and an answer is that of a request
\* that has returned.
SharingInv ==
  \A r \in Requests :
    /\ pc[r] = "waiting" => joined[r] \in Requests /\ req[joined[r]] = req[r]
    /\ future[r].state = "ok" => pc[r] = "ok"

LEMMA InitPromise == Init => Promise!Init
<1> SUFFICES ASSUME Init PROVE Promise!Init
  OBVIOUS
<1>1. DOMAIN chains = {}
  BY DEF Init
<1>2. QED BY <1>1 DEF Init, Promise!Init

LEMMA FailStep ==
  ASSUME TypeInv, NEW r \in Requests, pc[r] \notin Over, GoTo(r, "failed"),
         UNCHANGED <<phase, chains, materialized, next_chain_id, order_seq, req>>
  PROVE  Promise!Fail(r)
<1>1. pc \in [Requests -> Labels]
  BY DEF TypeInv, TypeOK
<1>2. QED BY <1>1 DEF Promise!Fail, Promise!Return, Promise!lines, GoTo, Over

-----------------------------------------------------------------------------
(* What a request keeps of a chain. *)

\* A request that differs from the history, and not before its last message,
\* differs there.
LEMMA DiffersLast ==
  ASSUME NEW m \in Conversations, NEW h \in Conversations, Len(h) > 0, Len(h) <= Len(m),
         Prefix(m, Len(h) - 1) = Prefix(h, Len(h) - 1), m[Len(h)] = h[Len(h)]
  PROVE  Prefix(m, Len(h)) = h
<1> DEFINE n == Len(h)
<1>1. n \in Nat \ {0} /\ Len(m) \in Nat /\ n <= Len(m)
  BY LenProperties DEF Conversations
<1>2. \A k \in 1..(n - 1) : m[k] = h[k]
  <2>1. TAKE k \in 1..(n - 1)
  <2>2. Prefix(m, n - 1)[k] = m[k] /\ Prefix(h, n - 1)[k] = h[k]
    BY <1>1, SubSeqProperties DEF Prefix, Conversations
  <2>3. QED BY <2>2
<1>3. \A k \in 1..n : m[k] = h[k]
  BY <1>1, <1>2
<1>4. /\ Prefix(m, n) \in Seq(Messages) /\ Len(Prefix(m, n)) = n
      /\ \A k \in 1..n : Prefix(m, n)[k] = m[k]
  <2>1. \A k \in 1..n : m[k] \in Messages
    BY <1>1, ElementOfSeq DEF Conversations
  <2>2. QED BY <1>1, <2>1, SubSeqProperties DEF Prefix, Conversations
<1>5. QED BY <1>3, <1>4, SeqEqual DEF Conversations

\* A request builds on the chain that is selected for it.
LEMMA SelectBuilds ==
  ASSUME TypeInv, NEW q \in Request, NEW i \in SelectChain(q), i # NoChain
  PROVE  Builds(chains[i], q,
                [hist |-> IF i \in ExactMatches(q) THEN chains[i].hist
                          ELSE Prefix(q.msgs, chains[i].start.hist),
                 turns |-> KeptBuffer(i, q).marks])
<1> DEFINE c == chains[i]
<1>1. i \in DOMAIN chains \ reserved /\ c.scope = q.scope /\ c.start.hist < Len(q.msgs)
  BY SelectFacts
<1>2. c \in Chain /\ c.start.hist + 1 = Len(c.hist)
  BY <1>1 DEF TypeInv, TypeOK, ChainsOK
<1>3. c.hist \in Conversations /\ c.start.hist \in Nat /\ Len(c.hist) \in Nat
      /\ q.msgs \in Conversations /\ Len(q.msgs) \in Nat
  BY <1>2, RequestType, LenProperties DEF Chain, LastAssistantStart, Conversations
<1>4. Len(c.hist) > 0 /\ Len(c.hist) <= Len(q.msgs) /\ c.start.hist = Len(c.hist) - 1
  BY <1>1, <1>2, <1>3
<1>5. CASE i \in ExactMatches(q)
  BY <1>1, <1>4, <1>5 DEF Builds, ExactMatches, KeptBuffer
<1>6. CASE i \notin ExactMatches(q)
  <2>1. Rollback /\ i \in Candidates(q)
    BY <1>6 DEF SelectChain, Ranked, DeepestRewrites, Rewrites
  <2>2. Prefix(q.msgs, Len(c.hist) - 1) = Prefix(c.hist, Len(c.hist) - 1)
    BY <1>4, <2>1 DEF Candidates, Agrees
  <2>3. q.msgs[Len(c.hist)] # c.hist[Len(c.hist)]
    BY <1>3, <1>4, <1>6, <2>1, <2>2, DiffersLast DEF ExactMatches
  <2>4. KeptBuffer(i, q).marks = Prefix(c.buf.marks, Len(c.buf.marks) - 1)
    BY <1>6 DEF KeptBuffer, DropLastAssistant
  <2>5. QED BY <1>1, <1>4, <1>6, <2>1, <2>2, <2>3, <2>4 DEF Builds
<1>7. QED BY <1>5, <1>6

\* What is kept of a chain is what the promise lets a call keep of its line.
LEMMA BuildsKept ==
  ASSUME NEW c \in Chain, Len(c.buf.marks) > 0, c.buf.marks[Len(c.buf.marks)] = c.hist,
         NEW q \in Request, NEW rest, Builds(c, q, rest), NEW l,
         l.scope = c.scope, l.turns = c.buf.marks
  PROVE  rest \in Promise!Kept(l, q)
<1>1. Promise!Conversation(l) = c.hist
  BY DEF Promise!Conversation
<1>2. Promise!Before(l.turns) = Prefix(c.buf.marks, Len(c.buf.marks) - 1)
      /\ Promise!Before(c.hist) = Prefix(c.hist, Len(c.hist) - 1)
  BY DEF Promise!Before, Prefix
<1>3. CASE /\ Prefix(q.msgs, Len(c.hist)) = c.hist
           /\ rest = [hist |-> c.hist, turns |-> c.buf.marks]
  <2>1. Promise!Continues(l, q)
    BY <1>1, <1>3 DEF Builds, Promise!Continues, Prefix
  <2>2. QED BY <1>1, <1>3, <2>1 DEF Builds, Promise!Kept
<1>4. CASE /\ Rollback
           /\ Prefix(q.msgs, Len(c.hist) - 1) = Prefix(c.hist, Len(c.hist) - 1)
           /\ q.msgs[Len(c.hist)] # c.hist[Len(c.hist)]
           /\ rest = [hist |-> Prefix(c.hist, Len(c.hist) - 1),
                      turns |-> Prefix(c.buf.marks, Len(c.buf.marks) - 1)]
  <2>1. Promise!Rewrites(l, q)
    BY <1>1, <1>2, <1>4 DEF Builds, Promise!Rewrites, Prefix
  <2>2. QED BY <1>1, <1>2, <1>4, <2>1 DEF Builds, Promise!Kept
<1>5. QED BY <1>3, <1>4 DEF Builds

-----------------------------------------------------------------------------
(* What each step is to the callers. *)

\* The line that a chain is.
LineOf(c) == [scope |-> c.scope, turns |-> c.buf.marks, last |-> c.updated]

\* The trajectory as it was handed over.
HandedOver(t) == [line |-> t.chain, hist |-> t.hist, turns |-> t.buf.marks, place |-> t.order]

\* A request that returns tells its caller how.
LEMMA ReturnStep ==
  ASSUME TypeInv, NEW r \in Requests, NEW how \in Over, pc[r] \notin Over, GoTo(r, how),
         UNCHANGED req
  PROVE  Promise!Return(r, how)
<1>1. pc \in [Requests -> Labels]
  BY DEF TypeInv, TypeOK
<1>2. QED BY <1>1 DEF Promise!Return, GoTo, Over

\* A step of a request that does not return shows nothing.
LEMMA SilentStep ==
  ASSUME TypeInv, NEW r \in Requests, NEW label, pc[r] \notin Over, label \notin Over,
         GoTo(r, label), UNCHANGED <<phase, chains, materialized, next_chain_id, order_seq, req>>
  PROVE  UNCHANGED Promise!vars
<1>1. pc \in [Requests -> Labels]
  BY DEF TypeInv, TypeOK
<1>2. [s \in Requests |-> IF pc'[s] \in Over THEN pc'[s] ELSE "none"]
        = [s \in Requests |-> IF pc[s] \in Over THEN pc[s] ELSE "none"]
  BY <1>1 DEF GoTo
<1>3. QED BY <1>2 DEF Promise!vars, Promise!lines, Over

\* A commit starts a line, or adds its answer to what it keeps of one.
LEMMA ServeStep ==
  ASSUME TypeInv, LockInv, MarksInv, BuildsInv, NEW r \in Requests, Commit(r)
  PROVE  Promise!Serve(r)
<1>1. PICK reply \in Replies, n \in GenLens :
        LET i == IF enc[r].chain = NoChain THEN next_chain_id ELSE enc[r].chain IN
        /\ pc[r] = "decoding"
        /\ enc[r].chain \in DOMAIN chains \cup {NoChain}
        /\ chains' = With(chains, i, CommittedChain(r, reply, n))
        /\ order_seq' = order_seq + 1
        /\ next_chain_id' = IF enc[r].chain = NoChain THEN i + 1 ELSE next_chain_id
        /\ GoTo(r, "ok")
        /\ UNCHANGED <<phase, materialized, req>>
  BY DEF Commit
<1> DEFINE i == IF enc[r].chain = NoChain THEN next_chain_id ELSE enc[r].chain
           turn == Append(req[r].msgs, reply)
           line == [scope |-> req[r].scope, turns |-> Append(enc[r].buf.marks, turn),
                    last |-> order_seq + 1]
           open == [j \in DOMAIN chains |-> LineOf(chains[j])]
<1>2. phase = "ACTIVE"
  BY <1>1, ParametersAssumption DEF LockInv, Locking
<1>3. LineOf(CommittedChain(r, reply, n)) = line
  BY DEF LineOf, CommittedChain, AppendGeneration
<1>4. open' = [j \in DOMAIN chains \cup {i} |-> IF j = i THEN line ELSE open[j]]
  <2>1. DOMAIN chains' = DOMAIN chains \cup {i}
        /\ \A j \in DOMAIN chains' :
             chains'[j] = IF j = i THEN CommittedChain(r, reply, n) ELSE chains[j]
    BY <1>1 DEF With
  <2>2. QED BY <1>3, <2>1
<1>5. Promise!Return(r, "ok")
  BY <1>1, ReturnStep DEF Over
<1>6. CASE enc[r].chain = NoChain
  <2>1. enc[r].buf.marks = <<>>
    BY <1>1, <1>6 DEF BuildsInv, Owning
  <2>2. line = Promise!Line(req[r].scope, <<turn>>)
    BY <2>1 DEF Promise!Line
  <2>3. /\ open' = [j \in DOMAIN open \cup {next_chain_id} |->
                      IF j = next_chain_id THEN Promise!Line(req[r].scope, <<turn>>) ELSE open[j]]
        /\ next_chain_id' = next_chain_id + 1
    BY <1>1, <1>4, <1>6, <2>2
  <2> HIDE DEF line, turn
  <2>4. QED BY <1>1, <1>2, <1>5, <2>3 DEF Promise!Serve, LineOf, turn
<1>7. CASE enc[r].chain # NoChain
  <2> DEFINE c == chains[i]
  <2>1. i \in DOMAIN chains /\ c \in Chain /\ req[r] \in Request
    BY <1>1, <1>7 DEF TypeInv, TypeOK
  <2>2. PICK rest : Builds(c, req[r], rest) /\ rest.turns = enc[r].buf.marks
    BY <1>1, <1>2, <1>7 DEF BuildsInv, Holds, Owning
  <2>3. Len(c.buf.marks) > 0 /\ c.buf.marks[Len(c.buf.marks)] = c.hist
    BY <2>1 DEF MarksInv
  <2>4. rest \in Promise!Kept(open[i], req[r])
    <3>1. open[i].scope = c.scope /\ open[i].turns = c.buf.marks
      BY <2>1 DEF LineOf
    <3> HIDE DEF open, i
    <3>2. QED BY <2>1, <2>2, <2>3, <3>1, BuildsKept
  <2>5. line = Promise!Line(req[r].scope, Append(rest.turns, turn))
    BY <2>2 DEF Promise!Line
  <2>6. open' = [open EXCEPT ![i] = Promise!Line(req[r].scope, Append(rest.turns, turn))]
    <3>1. DOMAIN open = DOMAIN chains /\ DOMAIN chains \cup {i} = DOMAIN open
      BY <2>1
    <3> HIDE DEF open, line, i
    <3>2. open' = [j \in DOMAIN open |-> IF j = i THEN line ELSE open[j]]
      BY <1>4, <3>1
    <3>3. QED BY <2>5, <3>2
  <2>8. next_chain_id' = next_chain_id
    BY <1>1, <1>7
  <2> HIDE DEF line, turn, i
  <2>9. QED BY <1>1, <1>2, <1>5, <2>1, <2>4, <2>6, <2>8 DEF Promise!Serve, LineOf, turn
<1>8. QED BY <1>6, <1>7

\* A chain that has no room left is closed, with what the request keeps of it.
LEMMA ExhaustStep ==
  ASSUME TypeInv, LockInv, MarksInv, NEW r \in Requests, ExhaustCapacity(r)
  PROVE  Promise!Exhaust(r)
<1> DEFINE q == req[r]
           open == [j \in DOMAIN chains |-> LineOf(chains[j])]
           closed == {HandedOver(t) : t \in materialized}
<1>1. PICK i \in SelectChain(q) :
        /\ pc[r] = "preparing"
        /\ CapacityExhausted(i, q)
        /\ IF i = NoChain THEN UNCHANGED <<chains, materialized, order_seq>>
                          ELSE CloseExhausted(i, q)
        /\ GoTo(r, "length")
        /\ UNCHANGED <<phase, next_chain_id, req>>
  BY DEF ExhaustCapacity
<1>2. phase = "ACTIVE" /\ q \in Request
  BY <1>1, ParametersAssumption DEF LockInv, Locking, TypeInv, TypeOK
<1>3. Promise!Return(r, "length")
  BY <1>1, ReturnStep DEF Over
<1>4. CASE i = NoChain
  BY <1>1, <1>2, <1>3, <1>4 DEF Promise!Exhaust
<1>5. CASE i # NoChain
  <2> DEFINE c == chains[i]
             rest == [hist |-> IF i \in ExactMatches(q) THEN c.hist
                               ELSE Prefix(q.msgs, c.start.hist),
                      turns |-> KeptBuffer(i, q).marks]
  <2>1. i \in DOMAIN chains /\ c \in Chain
    BY <1>2, <1>5, SelectFacts DEF TypeInv, TypeOK
  <2>2. Builds(c, q, rest)
    BY <1>2, <1>5, SelectBuilds
  <2>3. rest \in Promise!Kept(open[i], q)
    <3>1. open[i].scope = c.scope /\ open[i].turns = c.buf.marks
      BY <2>1 DEF LineOf
    <3>2. Len(c.buf.marks) > 0 /\ c.buf.marks[Len(c.buf.marks)] = c.hist
      BY <2>1 DEF MarksInv
    <3> HIDE DEF open, rest, c, q
    <3>3. QED BY <1>2, <2>1, <2>2, <3>1, <3>2, BuildsKept
  <2>4. open' = [j \in DOMAIN open \ {i} |-> open[j]]
    BY <1>1, <1>5 DEF CloseExhausted, Without
  <2>5. \/ closed' = closed \cup {Promise!Closed(i, rest, order_seq + 1)} /\ order_seq' = order_seq + 1
        \/ rest.turns = <<>> /\ UNCHANGED <<materialized, order_seq>>
    <3> DEFINE e == Encode(i, q)
               kept == IF e.rolled
                       THEN [c EXCEPT !.hist = Prefix(q.msgs, c.start.hist), !.buf = e.buf]
                       ELSE c
    <3>1. (e.rolled <=> i \notin ExactMatches(q)) /\ e.buf = KeptBuffer(i, q)
      BY <1>1, <1>5 DEF Encode
    <3>2. kept.hist = rest.hist /\ kept.buf.marks = rest.turns
      BY <2>1, <3>1 DEF Chain, KeptBuffer
    <3>3. CASE e.rolled /\ c.start.resp = 0
      <4>1. UNCHANGED <<materialized, order_seq>>
        BY <1>1, <1>5, <3>3 DEF CloseExhausted
      <4>2. rest.turns = Prefix(c.buf.marks, 0)
        BY <2>1, <3>1, <3>3 DEF MarksInv, KeptBuffer, DropLastAssistant
      <4>3. rest.turns = <<>>
        <5>1. SubSeq(c.buf.marks, 1, 0) = <<>>
          BY SubSeqEmpty
        <5> HIDE DEF rest, c
        <5>2. QED BY <4>2, <5>1 DEF Prefix
      <4>4. QED BY <4>1, <4>3
    <3>4. CASE ~(e.rolled /\ c.start.resp = 0)
      <4>1. /\ order_seq' = order_seq + 1
            /\ materialized' = materialized \cup {Materialize(i, kept, order_seq + 1)}
        BY <1>1, <1>5, <3>4 DEF CloseExhausted
      <4>2. HandedOver(Materialize(i, kept, order_seq + 1))
              = Promise!Closed(i, rest, order_seq + 1)
        BY <3>2 DEF HandedOver, Materialize, Promise!Closed
      <4> HIDE DEF kept, rest
      <4>3. QED BY <4>1, <4>2
    <3>5. QED BY <3>3, <3>4
  <2> HIDE DEF rest, c
  <2>6. QED BY <1>1, <1>2, <1>3, <2>1, <2>3, <2>4, <2>5
            DEF Promise!Exhaust, Promise!Without, LineOf, HandedOver
<1>6. QED BY <1>4, <1>5

\* A waiter returns what the request it joined has returned.
LEMMA ShareStep ==
  ASSUME TypeInv, SharingInv, NEW r \in Requests, Wake(r)
  PROVE  Promise!Share(r) \/ Promise!Fail(r)
<1>1. /\ pc[r] = "waiting" /\ GoTo(r, future[joined[r]].state)
      /\ future[joined[r]].state \in {"ok", "failed"}
      /\ UNCHANGED <<phase, chains, materialized, next_chain_id, order_seq, req>>
  BY DEF Wake, session
<1>2. CASE future[joined[r]].state = "failed"
  BY <1>1, <1>2, FailStep DEF Over
<1>3. CASE future[joined[r]].state = "ok"
  <2>1. joined[r] \in Requests /\ req[joined[r]] = req[r] /\ pc[joined[r]] = "ok"
    BY <1>1, <1>3 DEF SharingInv
  <2>2. Promise!Return(r, "ok")
    BY <1>1, <1>3, ReturnStep DEF Over
  <2>3. QED BY <1>1, <2>1, <2>2 DEF Promise!Share, Promise!lines
<1>4. QED BY <1>1, <1>2, <1>3

\* finalize hands every chain over as it is, abort none of them.
LEMMA CloseStep ==
  ASSUME TypeInv, MarksInv, Finalize \/ Abort
  PROVE  Promise!Finalize \/ Promise!Abort
<1> DEFINE open == [j \in DOMAIN chains |-> LineOf(chains[j])]
           closed == {HandedOver(t) : t \in materialized}
<1>1. /\ phase = "ACTIVE" /\ chains' = [j \in {} |-> NoChain]
      /\ UNCHANGED <<next_chain_id, order_seq, req, pc>>
  BY DEF Finalize, Abort, tasks
<1>2. open' = [j \in {} |-> j]
  BY <1>1
<1>3. CASE Finalize
  <2> DEFINE Given(j) == [line |-> j, hist |-> Promise!Conversation(open[j]),
                          turns |-> open[j].turns, place |-> open[j].last]
  <2>1. materialized' = materialized \cup
          {Materialize(j, chains[j], chains[j].updated) : j \in DOMAIN chains}
        /\ phase' = "FINALIZED"
    BY <1>3 DEF Finalize
  <2>2. ASSUME NEW j \in DOMAIN chains
        PROVE  HandedOver(Materialize(j, chains[j], chains[j].updated)) = Given(j)
    <3>1. chains[j].buf.marks[Len(chains[j].buf.marks)] = chains[j].hist
      BY DEF MarksInv
    <3>2. open[j] = LineOf(chains[j])
      OBVIOUS
    <3>3. QED BY <3>1, <3>2 DEF HandedOver, Materialize, LineOf, Promise!Conversation
  <2> HIDE DEF Given
  <2>3. closed' = closed \cup {Given(j) : j \in DOMAIN open}
    BY <2>1, <2>2
  <2>4. QED BY <1>1, <1>2, <2>1, <2>3 DEF Promise!Finalize, Given, LineOf, HandedOver
<1>4. CASE Abort
  <2>1. materialized' = {} /\ phase' = "ABORTED"
    BY <1>4 DEF Abort
  <2>2. QED BY <1>1, <1>2, <2>1 DEF Promise!Abort, LineOf
<1>5. QED BY <1>3, <1>4

\* Every step is, to the callers, one that takes effect at once, or none.
LEMMA RefinementStep ==
  ASSUME ~CleanupCancel, TypeInv, LockInv, MarksInv, BuildsInv, SharingInv, [Next]_vars
  PROVE  [Promise!Next]_(Promise!vars)
<1>1. ASSUME NEW r \in Requests, Step(r) \/ Fault(r)
      PROVE  Promise!Next \/ UNCHANGED Promise!vars
  <2>1. CASE \/ Join(r) \/ StartPrepare(r) \/ Reserve(r) \/ Generated(r) \/ StartCommit(r)
    <3>1. /\ pc[r] \notin Over
          /\ UNCHANGED <<phase, chains, materialized, next_chain_id, order_seq, req>>
          /\ \E label \in Labels \ Over : GoTo(r, label)
      BY <2>1 DEF Join, StartPrepare, Reserve, Generated, StartCommit, session,
                  Labels, Owning, Over
    <3>2. QED BY <3>1, SilentStep
  <2>2. CASE ReleaseReservation(r)
    BY <2>2 DEF ReleaseReservation, Promise!vars, Promise!lines
  <2>3. CASE Reject(r) \/ FinishUnwind(r) \/ FailUnowned(r)
    <3>1. /\ pc[r] \notin Over /\ GoTo(r, "failed")
          /\ UNCHANGED <<phase, chains, materialized, next_chain_id, order_seq, req>>
      BY <2>3 DEF Reject, FinishUnwind, FailUnowned, session, Over
    <3>2. QED BY <3>1, FailStep DEF Promise!Next
  <2>4. CASE CommitTooLate(r) \/ FailOwned(r)
    <3>1. /\ pc[r] \notin Over
          /\ UNCHANGED <<phase, chains, materialized, next_chain_id, order_seq, req>>
          /\ Unwind(r)
      BY <2>4 DEF CommitTooLate, FailOwned, Over
    <3>2. GoTo(r, "failed") \/ \E label \in {"releasing", "finally"} : GoTo(r, label)
      BY <3>1 DEF Unwind
    <3>3. CASE GoTo(r, "failed")
      BY <3>1, <3>3, FailStep DEF Promise!Next
    <3>4. CASE \E label \in {"releasing", "finally"} : GoTo(r, label)
      BY <3>1, <3>4, SilentStep DEF Over
    <3>5. QED BY <3>2, <3>3, <3>4
  <2>5. CASE ExhaustCapacity(r)
    BY <2>5, ExhaustStep DEF Promise!Next
  <2>6. CASE Commit(r)
    BY <2>6, ServeStep DEF Promise!Next
  <2>7. CASE Wake(r)
    BY <2>7, ShareStep DEF Promise!Next
  <2>8. CASE CancelUnwind(r)
    BY <2>8 DEF CancelUnwind
  <2>9. QED BY <1>1, <2>1, <2>2, <2>3, <2>4, <2>5, <2>6, <2>7, <2>8 DEF Step, Fault
<1>2. CASE Finalize \/ Abort
  BY <1>2, CloseStep DEF Promise!Next
<1>3. CASE UNCHANGED vars
  BY <1>3 DEF vars, session, tasks, Promise!vars, Promise!lines
<1>4. QED BY <1>1, <1>2, <1>3 DEF Next, Terminated

-----------------------------------------------------------------------------
(* The invariants the steps rely on.                                       *)

\* Only a commit writes a chain, and marks it with its own history.
LEMMA MarksStep ==
  ASSUME TypeInv, LockInv, MarksInv, BuildsInv, [Next]_vars
  PROVE  MarksInv'
<1>1. CASE UNCHANGED chains
  BY <1>1 DEF MarksInv
<1>2. ASSUME NEW r \in Requests, ExhaustCapacity(r) PROVE MarksInv'
  <2>1. UNCHANGED chains \/ \E i : chains' = Without(chains, i)
    BY <1>2 DEF ExhaustCapacity, CloseExhausted
  <2>2. QED BY <2>1 DEF MarksInv, Without
<1>3. ASSUME NEW r \in Requests, Commit(r) PROVE MarksInv'
  <2>0. PICK reply \in Replies, n \in GenLens : \E i :
          /\ pc[r] = "decoding"
          /\ chains' = With(chains, i, CommittedChain(r, reply, n))
    BY <1>3 DEF Commit
  <2>1. PICK i : /\ pc[r] = "decoding"
                 /\ chains' = With(chains, i, CommittedChain(r, reply, n))
    BY <2>0
  <2> DEFINE buf == enc[r].buf
             turn == Append(req[r].msgs, reply)
             c == CommittedChain(r, reply, n)
  <2>2. buf.resp \in Seq(Conversations) /\ buf.marks \in Seq(Conversations)
    BY DEF TypeInv, TypeOK, Encoded, Buffer
  <2>3. c.buf.marks = Append(buf.marks, turn) /\ c.hist = turn /\ c.start.resp = Len(buf.resp)
    BY DEF CommittedChain, AppendGeneration
  <2>4. Len(buf.resp) = 0 => buf.marks = <<>>
    <3>1. pc[r] \in Owning
      BY <2>1 DEF Owning
    <3>2. QED BY <2>2, <3>1, EmptySeq DEF BuildsInv
  <2>5. turn \in Conversations
    BY MessagesAssumption, AppendProperties, RequestType DEF TypeInv, TypeOK, Conversations
  <2>6. /\ Len(c.buf.marks) = Len(buf.marks) + 1 /\ Len(buf.marks) \in Nat
        /\ c.buf.marks[Len(c.buf.marks)] = turn
    <3> HIDE DEF turn, buf, c
    <3>1. QED BY <2>2, <2>3, <2>5, AppendProperties, LenProperties
  <2>7. c.start.resp = 0 => Len(c.buf.marks) = 1
    BY <2>3, <2>4, <2>6, EmptySeq
  <2> HIDE DEF c
  <2>a. c.hist = turn
    BY <2>3
  <2>b. /\ Len(c.buf.marks) > 0 /\ c.buf.marks[Len(c.buf.marks)] = c.hist
        /\ c.start.resp = 0 => Len(c.buf.marks) = 1
    <3> HIDE DEF turn, buf
    <3>1. QED BY <2>6, <2>7, <2>a
  <2>8. ASSUME NEW j \in DOMAIN chains'
        PROVE  /\ Len(chains'[j].buf.marks) > 0
               /\ chains'[j].buf.marks[Len(chains'[j].buf.marks)] = chains'[j].hist
               /\ chains'[j].start.resp = 0 => Len(chains'[j].buf.marks) = 1
    <3>1. CASE j = i
      <4>1. chains'[j] = c
        BY <2>1, <3>1 DEF With, c
      <4>2. QED BY <2>b, <4>1
    <3>2. CASE j # i
      BY <2>1, <2>8, <3>2 DEF MarksInv, With
    <3>3. QED BY <3>1, <3>2
  <2>9. QED BY <2>8 DEF MarksInv
<1>4. CASE Finalize \/ Abort
  <2>1. DOMAIN chains' = {}
    BY <1>4 DEF Finalize, Abort
  <2>2. QED BY <2>1 DEF MarksInv
<1>5. UNCHANGED chains \/ Finalize \/ Abort
        \/ \E r \in Requests : ExhaustCapacity(r) \/ Commit(r)
  <2>1. CASE UNCHANGED vars
    BY <2>1 DEF vars, session
  <2>2. ASSUME NEW r \in Requests, Step(r) \/ Fault(r)
        PROVE  UNCHANGED chains \/ ExhaustCapacity(r) \/ Commit(r)
    BY <2>2 DEF Step, Fault, Reject, Join, StartPrepare, Reserve, Generated, StartCommit,
       CommitTooLate, ReleaseReservation, FinishUnwind, Wake, FailUnowned, FailOwned,
       CancelUnwind, session
  <2>3. QED BY <2>1, <2>2 DEF Next, Terminated
<1>6. QED BY <1>1, <1>2, <1>3, <1>4, <1>5

\* While a generation runs, its request, its encoding and its chain stay.
LEMMA GeneratingStep ==
  ASSUME TypeInv, ReservationInv, [Next]_vars,
         NEW s \in Requests, pc'[s] \in Owning, ~Reserve(s)
  PROVE  /\ pc[s] \in Owning /\ enc'[s] = enc[s] /\ req' = req
         /\ Holds(s)' => Holds(s) /\ chains'[enc[s].chain] = chains[enc[s].chain]
<1>a. pc \in [Requests -> Labels] /\ enc \in [Requests -> Encoded]
  BY DEF TypeInv, TypeOK
<1>b. Holds(s) => enc[s].chain \in reserved /\ enc[s].chain \in DOMAIN chains
  BY DEF ReservationInv, ClaimInv, Claims, Holds
<1>1. ASSUME NEW r \in Requests, Step(r) \/ Fault(r)
      PROVE  /\ pc[s] \in Owning /\ enc'[s] = enc[s] /\ req' = req /\ phase' = phase
             /\ Holds(s) => chains'[enc[s].chain] = chains[enc[s].chain]
  <2>1. CASE \/ Reject(r) \/ Join(r) \/ StartPrepare(r) \/ Generated(r) \/ StartCommit(r)
             \/ ReleaseReservation(r) \/ FinishUnwind(r) \/ Wake(r)
             \/ FailUnowned(r) \/ CancelUnwind(r)
    BY <1>a, <2>1 DEF Reject, Join, StartPrepare, Generated, StartCommit,
       ReleaseReservation, FinishUnwind, Wake, FailUnowned, CancelUnwind,
       GoTo, Owning, session
  <2>2. CASE CommitTooLate(r) \/ FailOwned(r)
    <3>1. /\ pc[r] \in Owning /\ UNCHANGED <<phase, chains, enc, req>>
          /\ \E label \in {"failed", "releasing", "finally"} : GoTo(r, label)
      BY <2>2 DEF CommitTooLate, FailOwned, Unwind, Owning
    <3>2. QED BY <1>a, <3>1 DEF GoTo
  <2>3. CASE Reserve(r)
    <3>1. r # s
      BY <2>3
    <3>2. QED BY <1>a, <2>3, <3>1 DEF Reserve, GoTo
  <2>4. CASE ExhaustCapacity(r)
    <3>1. PICK i \in SelectChain(req[r]) :
            /\ i = NoChain => UNCHANGED chains
            /\ i # NoChain => chains' = Without(chains, i)
            /\ UNCHANGED <<phase, enc, req>> /\ pc' = [pc EXCEPT ![r] = "length"]
      BY <2>4 DEF ExhaustCapacity, CloseExhausted, GoTo
    <3>2. i # NoChain => i \notin reserved
      BY <3>1, SelectFacts DEF TypeInv, TypeOK
    <3>3. QED BY <1>a, <1>b, <3>1, <3>2 DEF Without, Owning
  <2>5. CASE Commit(r)
    <3>1. PICK i, c :
            /\ i = (IF enc[r].chain = NoChain THEN next_chain_id ELSE enc[r].chain)
            /\ pc[r] = "decoding" /\ chains' = With(chains, i, c)
            /\ UNCHANGED <<phase, enc, req>> /\ pc' = [pc EXCEPT ![r] = "ok"]
      BY <2>5 DEF Commit, GoTo
    <3>2. r # s /\ pc[s] \in Owning
      BY <1>a, <3>1 DEF Owning
    <3>3. ASSUME Holds(s) PROVE enc[s].chain # i
      <4>1. CASE enc[r].chain = NoChain
        <5>1. enc[s].chain < next_chain_id /\ enc[s].chain \in Nat /\ next_chain_id \in Nat
          BY <1>b, <3>3 DEF ReservationInv, ClaimInv, TypeInv, TypeOK
        <5>2. QED BY <3>1, <4>1, <5>1
      <4>2. CASE enc[r].chain # NoChain
        BY <3>1, <3>2, <3>3, <4>2 DEF ReservationInv, ClaimInv, Claims, Holds, Owning
      <4>3. QED BY <4>1, <4>2
    <3>4. QED BY <1>b, <3>1, <3>2, <3>3 DEF With
  <2>6. QED BY <1>1, <2>1, <2>2, <2>3, <2>4, <2>5 DEF Step, Fault
<1>2. CASE Finalize \/ Abort
  BY <1>2 DEF Finalize, Abort, tasks, Holds
<1>3. CASE UNCHANGED vars
  BY <1>3 DEF vars, session, tasks, Holds
<1>4. ASSUME NEW r \in Requests, Step(r) \/ Fault(r)
      PROVE  Holds(s)' => Holds(s) /\ chains'[enc[s].chain] = chains[enc[s].chain]
  BY <1>1, <1>4 DEF Holds
<1>5. QED BY <1>1, <1>2, <1>3, <1>4 DEF Next, Terminated

\* A reserved chain is what the request builds on until it commits or fails.
LEMMA BuildsStep ==
  ASSUME TypeInv, ReservationInv, BuildsInv, [Next]_vars
  PROVE  BuildsInv'
<1> SUFFICES ASSUME NEW s \in Requests, pc'[s] \in Owning
             PROVE  /\ enc'[s].buf.resp = <<>> => enc'[s].buf.marks = <<>>
                    /\ enc'[s].chain = NoChain => enc'[s].buf.marks = <<>>
                    /\ Holds(s)' => \E rest : /\ Builds(chains'[enc'[s].chain], req'[s], rest)
                                              /\ rest.turns = enc'[s].buf.marks
  BY DEF BuildsInv
<1>1. CASE ~Reserve(s)
  BY <1>1, GeneratingStep DEF BuildsInv
<1>2. CASE Reserve(s)
  <2> DEFINE q == req[s]
  <2>1. q \in Request /\ enc \in [Requests -> Encoded]
    BY DEF TypeInv, TypeOK
  <2>2. PICK i \in SelectChain(q) :
          /\ ~CapacityExhausted(i, q) /\ UNCHANGED <<chains, req>>
          /\ enc' = [enc EXCEPT ![s] = Encode(i, q)]
    BY <1>2 DEF Reserve
  <2>3. enc'[s].chain = i /\ enc'[s].buf = MergedBuffer(i, q)
    BY <2>1, <2>2 DEF Encode
  <2>4. CASE i = NoChain
    BY <2>3, <2>4 DEF MergedBuffer, InitialBuffer, Holds
  <2>5. CASE i # NoChain
    <3> DEFINE rest == [hist |-> IF i \in ExactMatches(q) THEN chains[i].hist
                                 ELSE Prefix(q.msgs, chains[i].start.hist),
                        turns |-> KeptBuffer(i, q).marks]
    <3>1. Builds(chains[i], q, rest)
      BY <2>1, <2>5, SelectBuilds
    <3>2. KeptBuffer(i, q) \in Buffer /\ NewMessages(i, q) \in Nat
      <4>1. /\ i \in DOMAIN chains /\ chains[i].start.hist < Len(q.msgs)
            /\ i \in ExactMatches(q) => Len(chains[i].hist) <= Len(q.msgs)
        BY <2>1, <2>5, SelectFacts
      <4>2. chains[i] \in Chain
        BY <4>1 DEF TypeInv, TypeOK
      <4>3. chains[i].start.hist \in Nat /\ Len(chains[i].hist) \in Nat
        BY <4>2, LenProperties DEF Chain, LastAssistantStart, Conversations
      <4>4. QED BY <2>1, <4>1, <4>3, RequestType, KeptBufferType DEF NewMessages
    <3>3. enc'[s].buf = AppendContext(KeptBuffer(i, q), NewMessages(i, q))
      BY <2>3, <2>5 DEF MergedBuffer
    <3>4. enc'[s].buf.marks = rest.turns /\ enc'[s].buf.resp # <<>>
      <4> DEFINE n == NewMessages(i, q)
                 resp == KeptBuffer(i, q).resp
                 new == [k \in 1..(n + 1) |-> Context]
      <4>1. enc'[s].buf.marks = rest.turns /\ enc'[s].buf.resp = resp \o new
        BY <3>2, <3>3 DEF AppendContext, Buffer
      <4>2. resp \in Seq(Conversations)
        BY <3>2 DEF Buffer
      <4>3. new \in Seq(Conversations) /\ Len(new) = n + 1
        <5>1. Context \in Conversations
          BY EmptySeq DEF Context, Conversations
        <5> HIDE DEF n
        <5>2. n + 1 \in Nat
          BY <3>2 DEF n
        <5>3. QED BY <5>1, <5>2, IsASeq
      <4> HIDE DEF resp, new, n
      <4>4. Len(resp \o new) = Len(resp) + Len(new) /\ Len(resp) \in Nat
        BY <4>2, <4>3, ConcatProperties, LenProperties
      <4>5. Len(resp \o new) # 0
        BY <3>2, <4>3, <4>4 DEF n
      <4>6. QED BY <4>1, <4>5, EmptySeq
    <3> HIDE DEF rest
    <3>5. QED BY <2>2, <2>3, <2>5, <3>1, <3>4
  <2>6. QED BY <2>4, <2>5
<1>3. QED BY <1>1, <1>2

\* Waiters wait for a request that sent the same; who answers has returned.
LEMMA SharingStep ==
  ASSUME TypeInv, OwnerInv, SharingInv, [Next]_vars
  PROVE  SharingInv'
<1>a. /\ pc \in [Requests -> Labels] /\ req \in [Requests -> Request]
      /\ inflight \in [Request -> Requests \cup {NoOwner}]
      /\ future \in [Requests -> Outcome] /\ joined \in [Requests -> Requests \cup {NoOwner}]
  BY DEF TypeInv, TypeOK
<1> USE <1>a DEF SharingInv, GoTo, session, tasks
<1>1. ASSUME NEW r \in Requests, Step(r) \/ Fault(r) PROVE SharingInv'
  <2>1. CASE \/ Reject(r) \/ StartPrepare(r) \/ Generated(r) \/ StartCommit(r)
             \/ ReleaseReservation(r) \/ ExhaustCapacity(r) \/ FailUnowned(r)
             \/ CancelUnwind(r)
    BY <2>1 DEF Reject, StartPrepare, Generated, StartCommit, ReleaseReservation,
                ExhaustCapacity, FailUnowned, CancelUnwind
  <2>2. CASE Join(r)
    <3>1. inflight[req[r]] \in Requests /\ req[inflight[req[r]]] = req[r]
      BY <2>2 DEF Join, OwnerInv
    <3>2. /\ pc[r] = "queued" /\ joined' = [joined EXCEPT ![r] = inflight[req[r]]]
          /\ pc' = [pc EXCEPT ![r] = "waiting"] /\ UNCHANGED <<req, future>>
      BY <2>2 DEF Join
    <3>3. QED BY <3>1, <3>2
  <2>3. CASE Wake(r)
    BY <2>3 DEF Wake
  <2>4. CASE Reserve(r)
    <3>1. /\ pc[r] = "preparing" /\ pc' = [pc EXCEPT ![r] = "generating"]
          /\ UNCHANGED <<req, joined>>
          /\ \/ future' = [future EXCEPT ![r] = [state |-> "pending", chain |-> NoChain]]
             \/ UNCHANGED future
      BY <2>4 DEF Reserve
    <3>2. QED BY <3>1
  <2>5. CASE Commit(r)
    <3>1. PICK i :
            /\ pc[r] = "decoding" /\ pc' = [pc EXCEPT ![r] = "ok"] /\ UNCHANGED <<req, joined>>
            /\ \/ future' = [future EXCEPT ![r] = [state |-> "ok", chain |-> i]]
               \/ UNCHANGED future
      BY <2>5 DEF Commit
    <3>2. QED BY <3>1
  <2>6. CASE CommitTooLate(r) \/ FailOwned(r) \/ FinishUnwind(r)
    <3>1. /\ pc[r] \in {"generating", "committing", "decoding", "releasing", "finally"}
          /\ \E label \in {"failed", "releasing", "finally"} :
               pc' = [pc EXCEPT ![r] = label]
          /\ UNCHANGED <<req, joined>>
          /\ \/ future' = [future EXCEPT ![r] = [state |-> "failed", chain |-> NoChain]]
             \/ UNCHANGED future
      BY <2>6 DEF CommitTooLate, FailOwned, FinishUnwind, Unwind, ResolveFailed
    <3>2. QED BY <3>1
  <2>7. QED BY <1>1, <2>1, <2>2, <2>3, <2>4, <2>5, <2>6 DEF Step, Fault
<1>2. CASE Finalize \/ Abort
  BY <1>2 DEF Finalize, Abort
<1>3. CASE UNCHANGED vars
  BY <1>3 DEF vars
<1>4. QED BY <1>1, <1>2, <1>3 DEF Next, Terminated

-----------------------------------------------------------------------------
\* A session is one whose calls take effect one at a time: while no cleanup is
\* itself cancelled, every behaviour of the code's session, with its lock,
\* reservations, rollbacks and coalesced requests, is one of SessionPromise.
THEOREM SessionImplementsPromise ==
  ASSUME ~CleanupCancel
  PROVE  Spec => ImplementsPromise
<1> DEFINE RInv == MarksInv /\ BuildsInv /\ SharingInv
<1>1. Init => RInv
  <2> SUFFICES ASSUME Init PROVE RInv
    OBVIOUS
  <2>1. DOMAIN chains = {} /\ \A r \in Requests : pc[r] = "queued" /\ future[r].state = "none"
    BY DEF Init
  <2>2. QED BY <2>1 DEF MarksInv, BuildsInv, SharingInv, Owning
<1>2. TypeInv /\ LockInv /\ OwnerInv /\ ReservationInv /\ RInv /\ [Next]_vars => RInv'
  BY MarksStep, BuildsStep, SharingStep
<1>3. TypeInv /\ LockInv /\ RInv /\ [Next]_vars => [Promise!Next]_(Promise!vars)
  BY RefinementStep
<1> HIDE DEF RInv
<1>4. Spec => []RInv
  BY <1>1, <1>2, SnapshotsWithinChain, LockCorrect, OwnerCorrect, ReservationCorrect, PTL DEF Spec
<1>5. Spec => Promise!Init /\ [][Promise!Next]_(Promise!vars)
  BY <1>3, <1>4, InitPromise, SnapshotsWithinChain, LockCorrect, PTL DEF Spec
<1>6. QED BY <1>5 DEF ImplementsPromise, Promise!Spec

=============================================================================
