------------------------- MODULE TreeSessionProofs -------------------------
(***************************************************************************)
(* Proofs about TreeSession: the tree is intact (TreeIntact), and its       *)
(* chains train every sampled token once (TrainedOnce).                    *)
(***************************************************************************)
EXTENDS TreeSession, SequenceTheorems, FiniteSetTheorems, WellFoundedInduction, TLAPS

-----------------------------------------------------------------------------
(* Recursive functions, by what they compute step by step.                 *)

\* What holds of 0 and of each number after one of which it holds, holds of all.
LEMMA Counted ==
  ASSUME NEW n \in Nat, NEW B, 0 \in B, \A i \in 0..(n - 1) : i \in B => i + 1 \in B
  PROVE  \A i \in 0..n : i \in B
<1> DEFINE A == {i \in 0..n : i \notin B}
<1> SUFFICES ASSUME A # {} PROVE FALSE
  OBVIOUS
<1>1. A \in SUBSET Nat
  <2>1. A \subseteq 0..n /\ 0..n \subseteq Nat
    OBVIOUS
  <2> HIDE DEF A
  <2>2. QED BY <2>1
<1>2. IsWellFoundedOn(OpToRel(<, Nat), Nat)
  BY NatLessThanWellFounded
<1>3. PICK k \in A : \A m \in A : ~(<<m, k>> \in OpToRel(<, Nat))
  <2>1. PICK b \in A : TRUE
    OBVIOUS
  <2> HIDE DEF A
  <2>2. QED BY <1>1, <1>2, <2>1, WFMin
<1>4. k \in 0..n /\ k \notin B /\ k # 0
  OBVIOUS
<1>5. k - 1 \in 0..(n - 1) /\ k - 1 \in 0..n /\ (k - 1) + 1 = k /\ k - 1 < k
  BY <1>4
<1>6. <<k - 1, k>> \in OpToRel(<, Nat)
  BY <1>5 DEF OpToRel
<1>7. k - 1 \in B
  BY <1>3, <1>5, <1>6
<1>8. QED BY <1>4, <1>5, <1>7

\* Repeating a step that keeps a type.
StepOf(step, T, n) == step \in [T \X (1..n) -> T]

\* A function on 0..n that starts at base and goes on by step.
Runs(n, T, base, step) ==
  \E h \in [0..n -> T] : h[0] = base /\ \A i \in 1..n : h[i] = step[<<h[i - 1], i>>]

\* A step that can be taken from every value can be repeated n times.
LEMMA Repeated ==
  ASSUME NEW n \in Nat, NEW T, NEW base \in T, NEW step, StepOf(step, T, n)
  PROVE  Runs(n, T, base, step)
<1>0. step \in [T \X (1..n) -> T]
  BY DEF StepOf
<1> DEFINE Partial(k) == {h \in [0..k -> T] : h[0] = base /\ \A i \in 1..k : h[i] = step[<<h[i - 1], i>>]}
           B == {k \in 0..n : Partial(k) # {}}
<1>1. 0 \in B
  <2> DEFINE h == [i \in 0..0 |-> base]
  <2>1. h \in [0..0 -> T] /\ h[0] = base
    OBVIOUS
  <2>2. h \in Partial(0)
    BY <2>1
  <2>3. QED BY <2>2
<1>2. ASSUME NEW k \in 0..(n - 1), k \in B PROVE k + 1 \in B
  <2>1. PICK h \in [0..k -> T] : h[0] = base /\ \A i \in 1..k : h[i] = step[<<h[i - 1], i>>]
    BY <1>2
  <2> DEFINE g == [i \in 0..(k + 1) |-> IF i <= k THEN h[i] ELSE step[<<h[k], k + 1>>]]
  <2>2. k \in Nat /\ k \in 0..k /\ k + 1 \in 1..n /\ k + 1 \in 0..n
    OBVIOUS
  <2>3. <<h[k], k + 1>> \in T \X (1..n)
    BY <2>1, <2>2
  <2>4. step[<<h[k], k + 1>>] \in T
    BY <1>0, <2>3
  <2>5. \A i \in 0..(k + 1) : g[i] \in T
    BY <2>1, <2>2, <2>4
  <2>6. g \in [0..(k + 1) -> T]
    BY <2>5
  <2>7. g[0] = base
    BY <2>1, <2>2
  <2>8. \A i \in 1..(k + 1) : g[i] = step[<<g[i - 1], i>>]
    <3> SUFFICES ASSUME NEW i \in 1..(k + 1) PROVE g[i] = step[<<g[i - 1], i>>]
      OBVIOUS
    <3>1. i \in 0..(k + 1) /\ i - 1 \in 0..(k + 1) /\ i - 1 <= k /\ g[i - 1] = h[i - 1]
      BY <2>2
    <3>2. CASE i <= k
      <4>1. i \in 1..k
        BY <2>2, <3>2
      <4>2. QED BY <2>1, <3>1, <3>2, <4>1
    <3>3. CASE ~(i <= k)
      <4>1. i = k + 1 /\ i - 1 = k
        BY <2>2, <3>3
      <4>2. QED BY <3>1, <3>3, <4>1
    <3>4. QED BY <3>2, <3>3
  <2>9. g \in Partial(k + 1)
    <3> HIDE DEF g
    <3>1. QED BY <2>6, <2>7, <2>8
  <2>10. Partial(k + 1) # {}
    BY <2>9
  <2>11. QED BY <2>2, <2>10
<1>3. n \in B
  <2>1. \A i \in 0..n : i \in B
    <3> HIDE DEF B
    <3>1. QED BY <1>1, <1>2, Counted
  <2>2. n \in 0..n
    OBVIOUS
  <2>3. QED BY <2>1, <2>2
<1>4. QED BY <1>3 DEF Runs

\* Two runs that start alike and go on alike are alike.
Same(f, g, n) == \A i \in 0..n : f[i] = g[i]

\* Two functions with the same start and the same steps are equal.
LEMMA RunsAgree ==
  ASSUME NEW n \in Nat, NEW f, NEW g, f[0] = g[0],
         \A i \in 1..n : f[i - 1] = g[i - 1] => f[i] = g[i]
  PROVE  Same(f, g, n)
<1> DEFINE B == {i \in 0..n : f[i] = g[i]}
<1>1. 0 \in B
  OBVIOUS
<1>2. ASSUME NEW i \in 0..(n - 1), i \in B PROVE i + 1 \in B
  <2>1. i + 1 \in 1..n /\ (i + 1) - 1 = i /\ i + 1 \in 0..n
    OBVIOUS
  <2>2. QED BY <1>2, <2>1
<1>3. \A i \in 0..n : i \in B
  <2> HIDE DEF B
  <2>1. QED BY <1>1, <1>2, Counted
<1>4. QED BY <1>3 DEF Same

\* The record of a node, and an entry of the registry.
Nodes == [status : {"ABSENT", "PENDING", "COMPLETED"}, path : Seq(Requests),
          hist : Seq(Messages), scope : Scopes \cup {None}, prompt : Nat, trim : Nat,
          resp : Nat, chain : Nat, coalesced : Nat, dropped : Nat]

\* What the registry and the result of finalize are made of.
Entries == [chain : Nat \ {NoChain}, tip : Requests \cup {None}, traj : Trajectory,
            coalesced : Nat]

\* The operators of the model in a given state of the nodes.
PromptIn(nd, n) == [i \in 1..nd[n].prompt |-> <<n, 0>>]
SampledIn(nd, n) == [i \in 1..nd[n].resp |-> <<n, i>>]
ExtendedIn(nd, ctx, n) ==
  Prefix(ctx, Monus(Len(ctx), nd[n].trim)) \o PromptIn(nd, n) \o SampledIn(nd, n)
ContextIn(nd, path) ==
  LET ctx[i \in 0..Len(path)] == IF i = 0 THEN << >> ELSE ExtendedIn(nd, ctx[i - 1], path[i])
  IN  ctx[Len(path)]
AddedIn(nd, t, m, starts, generation) ==
  LET s == Trimmed(t, nd[m].trim)
      own == IF starts THEN << >> ELSE s.resp \o PromptIn(nd, m)
  IN  [prompt |-> IF starts THEN s.prompt \o s.resp \o PromptIn(nd, m) ELSE s.prompt,
       resp   |-> IF generation THEN own \o SampledIn(nd, m) ELSE own]
LinearIn(nd, path, start, generation) ==
  LET t[i \in 0..Len(path)] ==
        IF i = 0 THEN NoTrajectory
                 ELSE AddedIn(nd, t[i - 1], path[i], i = start, i < Len(path) \/ generation)
  IN  t[Len(path)]
StartIn(nd, path, chain) ==
  CHOOSE i \in 1..Len(path) :
    /\ nd[path[i]].chain = chain
    /\ \A j \in 1..(i - 1) : nd[path[j]].chain # chain

\* The operators of the model read the nodes of this state.
LEMMA InThisState ==
  ASSUME NEW n
  PROVE  /\ PromptTokens(n) = PromptIn(node, n) /\ SampledTokens(n) = SampledIn(node, n)
         /\ ContextOf(n) = ContextIn(node, Path(n))
         /\ \A g : Linearize(n, g) = LinearIn(node, Path(n), StartIn(node, Path(n), node[n].chain), g)
<1>1. PromptTokens(n) = PromptIn(node, n) /\ SampledTokens(n) = SampledIn(node, n)
  BY DEF PromptTokens, PromptIn, SampledTokens, SampledIn
<1>2. ContextOf(n) = ContextIn(node, Path(n))
  BY DEF ContextOf, ContextIn, Extended, ExtendedIn, PromptTokens, PromptIn, SampledTokens, SampledIn
<1>3. ASSUME NEW g
      PROVE Linearize(n, g) = LinearIn(node, Path(n), StartIn(node, Path(n), node[n].chain), g)
  BY DEF Linearize, LinearIn, Added, AddedIn, ChainStart, StartIn, PromptTokens, PromptIn, SampledTokens, SampledIn
<1>4. QED BY <1>1, <1>2, <1>3

\* And those of the next state after a step.
LEMMA InNextState ==
  ASSUME NEW n
  PROVE  /\ PromptTokens(n)' = PromptIn(node', n) /\ SampledTokens(n)' = SampledIn(node', n)
         /\ ContextOf(n)' = ContextIn(node', Path(n)')
         /\ \A g : Linearize(n, g)' = LinearIn(node', Path(n)', StartIn(node', Path(n)', node'[n].chain), g)
<1>1. PromptTokens(n)' = PromptIn(node', n) /\ SampledTokens(n)' = SampledIn(node', n)
  BY DEF PromptTokens, PromptIn, SampledTokens, SampledIn
<1>2. ContextOf(n)' = ContextIn(node', Path(n)')
  BY DEF ContextOf, ContextIn, Extended, ExtendedIn, PromptTokens, PromptIn, SampledTokens, SampledIn
<1>3. ASSUME NEW g
      PROVE Linearize(n, g)' = LinearIn(node', Path(n)', StartIn(node', Path(n)', node'[n].chain), g)
  BY DEF Linearize, LinearIn, Added, AddedIn, ChainStart, StartIn, PromptTokens, PromptIn, SampledTokens, SampledIn
<1>4. QED BY <1>1, <1>2, <1>3

\* The tokens of a node.
LEMMA NodeTokens ==
  ASSUME NEW nd \in [Requests -> Nodes], NEW n \in Requests
  PROVE  /\ PromptIn(nd, n) \in Seq(Tokens) /\ Len(PromptIn(nd, n)) = nd[n].prompt
         /\ \A i \in 1..nd[n].prompt : PromptIn(nd, n)[i] = <<n, 0>>
         /\ SampledIn(nd, n) \in Seq(Tokens) /\ Len(SampledIn(nd, n)) = nd[n].resp
         /\ \A i \in 1..nd[n].resp : SampledIn(nd, n)[i] = <<n, i>>
         /\ nd[n].prompt \in Nat /\ nd[n].resp \in Nat /\ nd[n].trim \in Nat
<1>1. nd[n].prompt \in Nat /\ nd[n].resp \in Nat /\ nd[n].trim \in Nat
  BY DEF Nodes
<1>2. <<n, 0>> \in Tokens /\ \A i \in 1..nd[n].resp : <<n, i>> \in Tokens
  BY <1>1 DEF Tokens
<1>3. PromptIn(nd, n) \in Seq(Tokens) /\ SampledIn(nd, n) \in Seq(Tokens)
  <2>1. PromptIn(nd, n) \in [1..nd[n].prompt -> Tokens]
    BY <1>2 DEF PromptIn
  <2>2. SampledIn(nd, n) \in [1..nd[n].resp -> Tokens]
    BY <1>2 DEF SampledIn
  <2>3. \A k \in Nat : \A h \in [1..k -> Tokens] : h \in Seq(Tokens)
    BY SeqDef
  <2>4. QED BY <1>1, <2>1, <2>2, <2>3
<1>4. QED BY <1>1, <1>3 DEF PromptIn, SampledIn

\* The beginning of a sequence, cut by k elements at its end.
LEMMA PrefixTyped ==
  ASSUME NEW S, NEW s \in Seq(S), NEW k \in Nat
  PROVE  /\ Monus(Len(s), k) \in 0..Len(s)
         /\ Prefix(s, Monus(Len(s), k)) \in Seq(S)
         /\ Len(Prefix(s, Monus(Len(s), k))) = Monus(Len(s), k)
         /\ \A i \in 1..Monus(Len(s), k) : Prefix(s, Monus(Len(s), k))[i] = s[i]
         /\ k = 0 => Prefix(s, Monus(Len(s), k)) = s
<1>1. Len(s) \in Nat
  OBVIOUS
<1>2. Monus(Len(s), k) \in 0..Len(s)
  BY <1>1 DEF Monus
<1>3. PICK m \in 0..Len(s) : m = Monus(Len(s), k)
  BY <1>2
<1>4. \A i \in 1..m : s[i] \in S
  BY <1>1, <1>3
<1>5. /\ SubSeq(s, 1, m) \in Seq(S) /\ Len(SubSeq(s, 1, m)) = m
      /\ \A i \in 1..m : SubSeq(s, 1, m)[i] = s[i]
  <2>1. m \in Int /\ 1 \in Int /\ m - 1 + 1 = m /\ (IF 1 <= m THEN m - 1 + 1 ELSE 0) = m
    BY <1>1, <1>3
  <2>2. \A i \in 1..m : 1 + i - 1 = i
    BY <2>1
  <2>3. QED BY <1>4, <2>1, <2>2, SubSeqProperties
<1>6. k = 0 => Monus(Len(s), k) = Len(s)
  BY <1>1 DEF Monus
<1>7. SubSeq(s, 1, Len(s)) = s
  BY SubSeqFull
<1>8. QED BY <1>2, <1>3, <1>5, <1>6, <1>7 DEF Prefix

\* A context that a node extended is a sequence of tokens.
LEMMA ExtendedTyped ==
  ASSUME NEW nd \in [Requests -> Nodes], NEW n \in Requests, NEW ctx \in Seq(Tokens)
  PROVE  ExtendedIn(nd, ctx, n) \in Seq(Tokens)
BY NodeTokens, PrefixTyped, ConcatProperties DEF ExtendedIn

\* The context of a path, node by node.
LEMMA ContextRuns ==
  ASSUME NEW nd \in [Requests -> Nodes], NEW path \in Seq(Requests)
  PROVE  \E f \in [0..Len(path) -> Seq(Tokens)] :
           /\ f[0] = << >> /\ \A i \in 1..Len(path) : f[i] = ExtendedIn(nd, f[i - 1], path[i])
           /\ ContextIn(nd, path) = f[Len(path)]
<1> DEFINE n == Len(path)
           T == Seq(Tokens)
           step == [x \in T \X (1..n) |-> ExtendedIn(nd, x[1], path[x[2]])]
           f == CHOOSE f : f = [i \in 0..n |-> IF i = 0 THEN << >> ELSE ExtendedIn(nd, f[i - 1], path[i])]
<1>1. n \in Nat /\ << >> \in T /\ \A i \in 1..n : path[i] \in Requests
  OBVIOUS
<1>2. step \in [T \X (1..n) -> T]
  BY <1>1, ExtendedTyped
<1>3. PICK h \in [0..n -> T] : h[0] = << >> /\ \A i \in 1..n : h[i] = step[<<h[i - 1], i>>]
  <2> DEFINE base == << >>
  <2>1. base \in T
    BY <1>1
  <2>n. n \in Nat
    BY <1>1
  <2> HIDE DEF n, T, step, base, f
  <2>2. StepOf(step, T, n)
    BY <1>2 DEF StepOf
  <2>3. Runs(n, T, base, step)
    BY <2>n, <2>1, <2>2, Repeated
  <2>4. QED BY <2>3 DEF base, Runs
<1>4. \A i \in 1..n : i - 1 \in 0..n /\ h[i - 1] \in T /\ h[i] = ExtendedIn(nd, h[i - 1], path[i])
  <2> SUFFICES ASSUME NEW i \in 1..n
               PROVE i - 1 \in 0..n /\ h[i - 1] \in T /\ h[i] = ExtendedIn(nd, h[i - 1], path[i])
    OBVIOUS
  <2>1. i - 1 \in 0..n
    BY <1>1
  <2>2. h[i - 1] \in T
    BY <1>3, <2>1
  <2>3. <<h[i - 1], i>> \in T \X (1..n)
    BY <2>2
  <2>4. step[<<h[i - 1], i>>] = ExtendedIn(nd, h[i - 1], path[i])
    BY <2>3
  <2>5. QED BY <1>3, <2>1, <2>2, <2>4
<1>5. h = [i \in 0..n |-> IF i = 0 THEN << >> ELSE ExtendedIn(nd, h[i - 1], path[i])]
  <2>1. \A i \in 0..n : i # 0 => i \in 1..n
    BY <1>1
  <2>2. \A i \in 0..n : h[i] = IF i = 0 THEN << >> ELSE ExtendedIn(nd, h[i - 1], path[i])
    BY <1>3, <1>4, <2>1
  <2>3. h = [i \in 0..n |-> h[i]]
    BY <1>3
  <2> HIDE DEF n, T, step, f
  <2>4. QED BY <2>2, <2>3
<1>6. f = [i \in 0..n |-> IF i = 0 THEN << >> ELSE ExtendedIn(nd, f[i - 1], path[i])]
  BY <1>5
<1>7. ContextIn(nd, path) = f[n]
  BY DEF ContextIn
<1> HIDE DEF f, step
<1>8. f[0] = << >> /\ \A i \in 1..n : f[i] = ExtendedIn(nd, f[i - 1], path[i])
  <2>1. 0 \in 0..n /\ \A i \in 1..n : i \in 0..n /\ i # 0
    BY <1>1
  <2> HIDE DEF n, T
  <2>2. QED BY <1>6, <2>1
<1>9. \A i \in 0..n : f[i] = h[i]
  <2>1. f[0] = h[0]
    BY <1>3, <1>8
  <2>2. \A i \in 1..n : f[i - 1] = h[i - 1] => f[i] = h[i]
    BY <1>4, <1>8
  <2>3. n \in Nat
    BY <1>1
  <2> HIDE DEF n, T
  <2>4. Same(f, h, n)
    BY <2>1, <2>2, <2>3, RunsAgree
  <2>5. QED BY <2>4 DEF Same
<1>10. f \in [0..n -> T]
  <2>1. f = [i \in 0..n |-> f[i]]
    BY <1>6
  <2> HIDE DEF n, T
  <2>2. QED BY <1>3, <1>9, <2>1
<1>11. QED BY <1>7, <1>8, <1>10

\* A trajectory that a node extended is a trajectory.
LEMMA AddedTyped ==
  ASSUME NEW nd \in [Requests -> Nodes], NEW n \in Requests, NEW t \in Trajectory,
         NEW s \in BOOLEAN, NEW g \in BOOLEAN
  PROVE  AddedIn(nd, t, n, s, g) \in Trajectory
<1>1. t.prompt \in Seq(Tokens) /\ t.resp \in Seq(Tokens) /\ nd[n].trim \in Nat
  BY DEF Trajectory, Nodes
<1>2. Monus(nd[n].trim, Len(t.resp)) \in Nat
  BY <1>1 DEF Monus
<1> DEFINE u == Trimmed(t, nd[n].trim)
<1>3. u.prompt \in Seq(Tokens) /\ u.resp \in Seq(Tokens)
  BY <1>1, <1>2, PrefixTyped DEF Trimmed
<1>4. /\ PromptIn(nd, n) \in Seq(Tokens) /\ SampledIn(nd, n) \in Seq(Tokens)
      /\ << >> \in Seq(Tokens)
  BY NodeTokens
<1> DEFINE own == IF s THEN << >> ELSE u.resp \o PromptIn(nd, n)
<1>5. own \in Seq(Tokens) /\ u.prompt \o u.resp \o PromptIn(nd, n) \in Seq(Tokens)
  BY <1>3, <1>4, ConcatProperties
<1>6. own \o SampledIn(nd, n) \in Seq(Tokens)
  BY <1>4, <1>5, ConcatProperties
<1> HIDE DEF u, own
<1>7. AddedIn(nd, t, n, s, g) =
        [prompt |-> IF s THEN u.prompt \o u.resp \o PromptIn(nd, n) ELSE u.prompt,
         resp   |-> IF g THEN own \o SampledIn(nd, n) ELSE own]
  BY DEF AddedIn, u, own
<1>8. QED BY <1>3, <1>5, <1>6, <1>7 DEF Trajectory

\* The trajectory of a path, node by node.
LinearRun(nd, path, start, g, f) ==
  /\ f \in [0..Len(path) -> Trajectory]
  /\ f[0] = NoTrajectory
  /\ \A i \in 1..Len(path) :
       f[i] = AddedIn(nd, f[i - 1], path[i], i = start, i < Len(path) \/ g)

\* _linearize_path goes through a path node by node.
LEMMA LinearRuns ==
  ASSUME NEW nd \in [Requests -> Nodes], NEW path \in Seq(Requests), NEW start, NEW g \in BOOLEAN
  PROVE  \E f : LinearRun(nd, path, start, g, f) /\ LinearIn(nd, path, start, g) = f[Len(path)]
<1> DEFINE n == Len(path)
           T == Trajectory
           step == [x \in T \X (1..n) |->
                      AddedIn(nd, x[1], path[x[2]], x[2] = start, x[2] < Len(path) \/ g)]
           f == CHOOSE f : f = [i \in 0..n |->
                      IF i = 0 THEN NoTrajectory
                      ELSE AddedIn(nd, f[i - 1], path[i], i = start, i < Len(path) \/ g)]
           base == NoTrajectory
<1>1. n \in Nat /\ base \in T /\ \A i \in 1..n : path[i] \in Requests
  <2>1. << >> \in Seq(Tokens)
    OBVIOUS
  <2>2. base \in T
    BY <2>1 DEF NoTrajectory, Trajectory
  <2>3. QED BY <2>2
<1>2. StepOf(step, T, n)
  <2>1. ASSUME NEW x \in T \X (1..n)
        PROVE AddedIn(nd, x[1], path[x[2]], x[2] = start, x[2] < Len(path) \/ g) \in T
    <3>1. x[1] \in Trajectory /\ path[x[2]] \in Requests
      BY <1>1
    <3>2. (x[2] = start) \in BOOLEAN /\ (x[2] < Len(path) \/ g) \in BOOLEAN
      OBVIOUS
    <3>3. QED BY <3>1, <3>2, AddedTyped
  <2>2. QED BY <2>1 DEF StepOf
<1>3. PICK h \in [0..n -> T] : h[0] = base /\ \A i \in 1..n : h[i] = step[<<h[i - 1], i>>]
  <2>n. n \in Nat /\ base \in T
    BY <1>1
  <2> HIDE DEF n, T, step, base, f
  <2>1. Runs(n, T, base, step)
    BY <2>n, <1>2, Repeated
  <2>2. QED BY <2>1 DEF Runs
<1>4. \A i \in 1..n : /\ i - 1 \in 0..n /\ h[i - 1] \in T
                      /\ h[i] = AddedIn(nd, h[i - 1], path[i], i = start, i < Len(path) \/ g)
  <2> SUFFICES ASSUME NEW i \in 1..n
               PROVE /\ i - 1 \in 0..n /\ h[i - 1] \in T
                     /\ h[i] = AddedIn(nd, h[i - 1], path[i], i = start, i < Len(path) \/ g)
    OBVIOUS
  <2>1. i - 1 \in 0..n
    BY <1>1
  <2>2. h[i - 1] \in T
    BY <1>3, <2>1
  <2>3. <<h[i - 1], i>> \in T \X (1..n)
    BY <2>2
  <2>4. step[<<h[i - 1], i>>] = AddedIn(nd, h[i - 1], path[i], i = start, i < Len(path) \/ g)
    BY <2>3
  <2>5. QED BY <1>3, <2>1, <2>2, <2>4
<1>5. h = [i \in 0..n |-> IF i = 0 THEN NoTrajectory
                          ELSE AddedIn(nd, h[i - 1], path[i], i = start, i < Len(path) \/ g)]
  <2>1. \A i \in 0..n : i # 0 => i \in 1..n
    BY <1>1
  <2>2. \A i \in 0..n : h[i] = IF i = 0 THEN NoTrajectory
                ELSE AddedIn(nd, h[i - 1], path[i], i = start, i < Len(path) \/ g)
    BY <1>3, <1>4, <2>1
  <2>3. h = [i \in 0..n |-> h[i]]
    BY <1>3
  <2> HIDE DEF n, T, step, f
  <2>4. QED BY <2>2, <2>3
<1>6. f = [i \in 0..n |-> IF i = 0 THEN NoTrajectory
                          ELSE AddedIn(nd, f[i - 1], path[i], i = start, i < Len(path) \/ g)]
  BY <1>5
<1>7. LinearIn(nd, path, start, g) = f[n]
  BY DEF LinearIn
<1> HIDE DEF f, step
<1>8. /\ f[0] = NoTrajectory
      /\ \A i \in 1..n : f[i] = AddedIn(nd, f[i - 1], path[i], i = start, i < Len(path) \/ g)
  <2>1. 0 \in 0..n /\ \A i \in 1..n : i \in 0..n /\ i # 0
    BY <1>1
  <2> HIDE DEF n, T
  <2>2. QED BY <1>6, <2>1
<1>9. \A i \in 0..n : f[i] = h[i]
  <2>1. f[0] = h[0]
    BY <1>3, <1>8
  <2>2. \A i \in 1..n : f[i - 1] = h[i - 1] => f[i] = h[i]
    BY <1>4, <1>8
  <2>3. n \in Nat
    BY <1>1
  <2> HIDE DEF n, T
  <2>4. Same(f, h, n)
    BY <2>1, <2>2, <2>3, RunsAgree
  <2>5. QED BY <2>4 DEF Same
<1>10. f \in [0..n -> T]
  <2>1. f = [i \in 0..n |-> f[i]]
    BY <1>6
  <2> HIDE DEF n, T
  <2>2. QED BY <1>3, <1>9, <2>1
<1>11. LinearRun(nd, path, start, g, f)
  BY <1>8, <1>10 DEF LinearRun
<1>12. QED BY <1>7, <1>11

\* What _linearize_path returns is a trajectory.
LEMMA LinearTyped ==
  ASSUME NEW nd \in [Requests -> Nodes], NEW path \in Seq(Requests), NEW start, NEW g \in BOOLEAN
  PROVE  LinearIn(nd, path, start, g) \in Trajectory
<1>1. PICK f : LinearRun(nd, path, start, g, f) /\ LinearIn(nd, path, start, g) = f[Len(path)]
  BY LinearRuns
<1>2. Len(path) \in 0..Len(path)
  OBVIOUS
<1>3. QED BY <1>1, <1>2 DEF LinearRun

\* Two runs over paths that agree on the nodes and the flags are the same.
LEMMA ContextTyped ==
  ASSUME NEW nd \in [Requests -> Nodes], NEW path \in Seq(Requests)
  PROVE  ContextIn(nd, path) \in Seq(Tokens)
<1>1. Len(path) \in 0..Len(path)
  OBVIOUS
<1>2. QED BY <1>1, ContextRuns

-----------------------------------------------------------------------------
(* The registry of chains.                                                 *)

\* Taking one element out of a sequence.
LEMMA Removed ==
  ASSUME NEW S, NEW s \in Seq(S), NEW i \in 1..Len(s)
  PROVE  /\ RemoveAt(s, i) \in Seq(S) /\ Len(RemoveAt(s, i)) = Len(s) - 1
         /\ \A j \in 1..(Len(s) - 1) : RemoveAt(s, i)[j] = s[IF j < i THEN j ELSE j + 1]
<1> DEFINE a == SubSeq(s, 1, i - 1)
           b == SubSeq(s, i + 1, Len(s))
<1>1. Len(s) \in Nat /\ i \in Nat /\ \A j \in 1..Len(s) : s[j] \in S
  OBVIOUS
<1>2. a \in Seq(S) /\ Len(a) = i - 1 /\ \A j \in 1..(i - 1) : a[j] = s[j]
  <2>1. i - 1 \in Int /\ 1 \in Int /\ (IF 1 <= i - 1 THEN (i - 1) - 1 + 1 ELSE 0) = i - 1
    BY <1>1
  <2>2. \A j \in 1..(i - 1) : s[j] \in S /\ 1 + j - 1 = j
    BY <1>1
  <2>3. QED BY <2>1, <2>2, SubSeqProperties
<1>3. b \in Seq(S) /\ Len(b) = Len(s) - i /\ \A j \in 1..(Len(s) - i) : b[j] = s[i + j]
  <2>1. i + 1 \in Int /\ Len(s) \in Int /\ (IF i + 1 <= Len(s) THEN Len(s) - (i + 1) + 1 ELSE 0) = Len(s) - i
    BY <1>1
  <2>2. \A j \in (i + 1)..Len(s) : s[j] \in S
    BY <1>1
  <2>3. \A j \in 1..(Len(s) - i) : i + 1 + j - 1 = i + j
    BY <1>1
  <2>4. QED BY <2>1, <2>2, <2>3, SubSeqProperties
<1>4. RemoveAt(s, i) = a \o b
  BY DEF RemoveAt
<1> HIDE DEF a, b
<1>5. RemoveAt(s, i) \in Seq(S) /\ Len(RemoveAt(s, i)) = (i - 1) + (Len(s) - i)
  <2>1. a \o b \in Seq(S) /\ Len(a \o b) = Len(a) + Len(b)
    BY <1>2, <1>3, ConcatProperties
  <2>2. QED BY <1>2, <1>3, <1>4, <2>1
<1>6. \A j \in 1..(Len(s) - 1) : RemoveAt(s, i)[j] = IF j <= i - 1 THEN a[j] ELSE b[j - (i - 1)]
  <2>1. \A j \in 1..Len(a) + Len(b) : (a \o b)[j] = IF j <= Len(a) THEN a[j] ELSE b[j - Len(a)]
    BY <1>2, <1>3, ConcatProperties
  <2>2. Len(a) + Len(b) = Len(s) - 1
    BY <1>1, <1>2, <1>3
  <2>3. QED BY <1>2, <1>4, <2>1, <2>2
<1>7. \A j \in 1..(Len(s) - 1) : RemoveAt(s, i)[j] = s[IF j < i THEN j ELSE j + 1]
  <2> SUFFICES ASSUME NEW j \in 1..(Len(s) - 1) PROVE RemoveAt(s, i)[j] = s[IF j < i THEN j ELSE j + 1]
    OBVIOUS
  <2>1. CASE j < i
    BY <1>1, <1>2, <1>6, <2>1
  <2>2. CASE ~(j < i)
    <3>1. j - (i - 1) \in 1..(Len(s) - i) /\ i + (j - (i - 1)) = j + 1 /\ ~(j <= i - 1)
      BY <1>1, <2>2
    <3>2. QED BY <1>3, <1>6, <2>2, <3>1
  <2>3. QED BY <2>1, <2>2
<1>8. QED BY <1>1, <1>5, <1>7

\* What the registry holds without a chain, and with an entry at its end.
Chained(s) == \A i, j \in 1..Len(s) : s[i].chain = s[j].chain => i = j

\* u is s without the entry of chain c.
KeptWithout(s, c, u) ==
  /\ u \in Seq(Entries)
  /\ \A i \in 1..Len(u) : \E j \in 1..Len(s) : u[i] = s[j] /\ s[j].chain # c
  /\ \A j \in 1..Len(s) : s[j].chain # c => \E i \in 1..Len(u) : u[i] = s[j]
  /\ Chained(u)

\* leaves.pop takes out the entry of one chain, and no other.
LEMMA Unregistered ==
  ASSUME leaves \in Seq(Entries), Chained(leaves), NEW c
  PROVE  KeptWithout(leaves, c, Unregister(c))
<1>1. CASE ~ \E i \in 1..Len(leaves) : leaves[i].chain = c
  <2>1. Unregister(c) = leaves
    BY <1>1 DEF Unregister
  <2>2. QED BY <1>1, <2>1 DEF KeptWithout
<1>2. CASE \E i \in 1..Len(leaves) : leaves[i].chain = c
  <2> DEFINE k == CHOOSE i \in 1..Len(leaves) : leaves[i].chain = c
  <2>1. k \in 1..Len(leaves) /\ leaves[k].chain = c
    BY <1>2
  <2>2. Unregister(c) = RemoveAt(leaves, k)
    BY <1>2 DEF Unregister
  <2> HIDE DEF k
  <2> DEFINE u == Unregister(c)
  <2> HIDE DEF u
  <2>r. u = RemoveAt(leaves, k)
    BY <2>2 DEF u
  <2>3. /\ u \in Seq(Entries) /\ Len(u) = Len(leaves) - 1 /\ Len(leaves) \in Nat
        /\ \A j \in 1..(Len(leaves) - 1) : u[j] = leaves[IF j < k THEN j ELSE j + 1]
    <3>1. leaves \in Seq(Entries) /\ k \in 1..Len(leaves) /\ Len(leaves) \in Nat
      BY <2>1
    <3>2. /\ RemoveAt(leaves, k) \in Seq(Entries) /\ Len(RemoveAt(leaves, k)) = Len(leaves) - 1
          /\ \A j \in 1..(Len(leaves) - 1) : RemoveAt(leaves, k)[j] = leaves[IF j < k THEN j ELSE j + 1]
      BY <3>1, Removed
    <3>3. QED BY <2>r, <3>1, <3>2
  <2>4. ASSUME NEW i \in 1..Len(u)
        PROVE \E j \in 1..Len(leaves) : u[i] = leaves[j] /\ j # k /\ j = IF i < k THEN i ELSE i + 1
    <3>1. (IF i < k THEN i ELSE i + 1) \in 1..Len(leaves) /\ (IF i < k THEN i ELSE i + 1) # k
      BY <2>1, <2>3
    <3>2. QED BY <2>3, <3>1
  <2>5. \A j \in 1..Len(leaves) : j # k => leaves[j].chain # c
    BY <2>1 DEF Chained
  <2>6. ASSUME NEW j \in 1..Len(leaves), j # k PROVE \E i \in 1..Len(u) : u[i] = leaves[j]
    <3>1. CASE j < k
      <4>1. j \in 1..Len(u)
        BY <2>1, <2>3, <3>1
      <4>2. QED BY <2>3, <3>1, <4>1
    <3>2. CASE ~(j < k)
      <4>1. j - 1 \in 1..Len(u) /\ ~(j - 1 < k) /\ (j - 1) + 1 = j
        BY <2>1, <2>3, <2>6, <3>2
      <4>2. QED BY <2>3, <4>1
    <3>3. QED BY <3>1, <3>2
  <2>7. Chained(u)
    <3> SUFFICES ASSUME NEW i \in 1..Len(u), NEW j \in 1..Len(u), u[i].chain = u[j].chain PROVE i = j
      BY DEF Chained
    <3>1. PICK a \in 1..Len(leaves) : u[i] = leaves[a] /\ a = IF i < k THEN i ELSE i + 1
      BY <2>4
    <3>2. PICK b \in 1..Len(leaves) : u[j] = leaves[b] /\ b = IF j < k THEN j ELSE j + 1
      BY <2>4
    <3>3. a = b
      BY <3>1, <3>2 DEF Chained
    <3>4. QED BY <2>1, <2>3, <3>1, <3>2, <3>3
  <2>8. KeptWithout(leaves, c, u)
    BY <2>1, <2>3, <2>4, <2>5, <2>6, <2>7 DEF KeptWithout
  <2>9. QED BY <2>8 DEF u
<1>3. QED BY <1>1, <1>2

\* u is s with the entry e in place of the one its chain had.
KeptWith(s, e, u) ==
  /\ u \in Seq(Entries)
  /\ \A i \in 1..Len(u) : u[i] = e \/ \E j \in 1..Len(s) : u[i] = s[j] /\ s[j].chain # e.chain
  /\ \A j \in 1..Len(s) : s[j].chain # e.chain => \E i \in 1..Len(u) : u[i] = s[j]
  /\ \E i \in 1..Len(u) : u[i] = e
  /\ Chained(u)

\* Registering an entry replaces that of its chain, and no other.
LEMMA Registered ==
  ASSUME leaves \in Seq(Entries), Chained(leaves), NEW e \in Entries
  PROVE  KeptWith(leaves, e, Register(e))
<1> DEFINE u == Unregister(e.chain)
           v == Register(e)
<1>1. KeptWithout(leaves, e.chain, u)
  BY Unregistered
<1>2. v = Append(u, e)
  BY DEF Register
<1> HIDE DEF u, v
<1>3. u \in Seq(Entries) /\ Len(u) \in Nat
  BY <1>1 DEF KeptWithout
<1>4. /\ v \in Seq(Entries) /\ Len(v) = Len(u) + 1 /\ v[Len(u) + 1] = e
      /\ \A i \in 1..Len(u) : v[i] = u[i]
  BY <1>2, <1>3
<1>5. \A i \in 1..Len(v) : i \in 1..Len(u) \/ i = Len(u) + 1
  BY <1>3, <1>4
<1>6. \A i \in 1..Len(v) : v[i] = e \/ \E j \in 1..Len(leaves) : v[i] = leaves[j] /\ leaves[j].chain # e.chain
  <2> SUFFICES ASSUME NEW i \in 1..Len(v)
               PROVE v[i] = e \/ \E j \in 1..Len(leaves) : v[i] = leaves[j] /\ leaves[j].chain # e.chain
    OBVIOUS
  <2>1. CASE i \in 1..Len(u)
    <3>1. PICK j \in 1..Len(leaves) : u[i] = leaves[j] /\ leaves[j].chain # e.chain
      BY <1>1, <2>1 DEF KeptWithout
    <3>2. QED BY <1>4, <2>1, <3>1
  <2>2. QED BY <1>4, <1>5, <2>1
<1>7. \A j \in 1..Len(leaves) : leaves[j].chain # e.chain => \E i \in 1..Len(v) : v[i] = leaves[j]
  <2>1. \A i \in 1..Len(u) : i \in 1..Len(v)
    BY <1>3, <1>4
  <2>2. QED BY <1>1, <1>4, <2>1 DEF KeptWithout
<1>8. \E i \in 1..Len(v) : v[i] = e
  BY <1>3, <1>4
<1>9. Chained(v)
  <2> SUFFICES ASSUME NEW i \in 1..Len(v), NEW j \in 1..Len(v), v[i].chain = v[j].chain PROVE i = j
    BY DEF Chained
  <2>1. CASE i \in 1..Len(u) /\ j \in 1..Len(u)
    BY <1>1, <1>4, <2>1 DEF KeptWithout, Chained
  <2>2. \A k \in 1..Len(u) : v[k].chain # e.chain
    BY <1>1, <1>4 DEF KeptWithout
  <2>3. QED BY <1>4, <1>5, <2>1, <2>2
<1>10. KeptWith(leaves, e, v)
  BY <1>4, <1>6, <1>7, <1>8, <1>9 DEF KeptWith
<1>11. QED BY <1>10 DEF v

-----------------------------------------------------------------------------
(* Types.                                                                  *)

\* TypeOK, by the part of the state.
TypedTree == tree \subseteq Requests /\ node \in [Requests -> Nodes]
TypedChains ==
  leaves \in Seq(Entries) /\ result \in Seq(Entries) /\ next_chain_id \in Nat \ {NoChain} /\ dropped \in Nat
TypedShared ==
  /\ inflight \in [Request -> Requests \cup {None}]
  /\ future \in [Requests -> [state : {"none", "pending", "ok", "failed"}, chain : Nat]]
  /\ waiters \in [Requests -> Nat]
  /\ joined \in [Requests -> Requests \cup {None}]
TypedTasks ==
  /\ phase \in {"ACTIVE", "FINALIZED", "ABORTED"}
  /\ lock \in Requests \cup {None}
  /\ closer \in {"idle", "FINALIZED", "ABORTED"}
  /\ pc \in [Requests -> {"queued", "mounting", "waiting", "generating",
                          "decoding", "unwinding", "ok", "length", "failed"}]
  /\ req \in [Requests -> Request]
  /\ mounted \in [Requests -> [ctx : Seq(Tokens), backup : Requests \cup {None}]]
  /\ faults \in 0..MaxFaults

\* The type invariant is its parts.
LEMMA Typed ==
  /\ TypeOK <=> TypedTree /\ TypedChains /\ TypedShared /\ TypedTasks
  /\ TypeOK' <=> TypedTree' /\ TypedChains' /\ TypedShared' /\ TypedTasks'
<1>1. TypeOK <=> TypedTree /\ TypedChains /\ TypedShared /\ TypedTasks
  <2>1. (\A s \in {leaves, result} : s \in Seq(Entries)) <=> leaves \in Seq(Entries) /\ result \in Seq(Entries)
    OBVIOUS
  <2>2. QED BY <2>1, Zenon DEF TypeOK, TypedTree, TypedChains, TypedShared, TypedTasks, Nodes, Entries
<1>2. TypeOK' <=> TypedTree' /\ TypedChains' /\ TypedShared' /\ TypedTasks'
  <2>1. (\A s \in {leaves', result'} : s \in Seq(Entries)) <=> leaves' \in Seq(Entries) /\ result' \in Seq(Entries)
    OBVIOUS
  <2>2. QED BY <2>1, Zenon DEF TypeOK, TypedTree, TypedChains, TypedShared, TypedTasks, Nodes, Entries
<1>3. QED BY <1>1, <1>2

\* What a request is made of.
LEMMA Asked ==
  ASSUME NEW q \in Request
  PROVE  q.msgs \in Seq(Messages) /\ Len(q.msgs) \in Nat \ {0} /\ q.scope \in Scopes
BY MessagesAssumption DEF Request

\* Where a request is mounted.
LEMMA Located ==
  ASSUME TypedTree, NEW q \in Request, NEW p \in Selected(q)
  PROVE  /\ p # None => /\ p \in tree /\ p \in Requests /\ node[p].status = "COMPLETED"
                        /\ node[p].path \in Seq(Requests) /\ node[p].chain \in Nat
         /\ Path(p) \in Seq(Requests) /\ Hist(p) \in Seq(Messages)
         /\ Len(Hist(p)) <= Len(q.msgs) /\ ContextOf(p) \in Seq(Tokens)
<1>1. p \in Matching(q)
  BY DEF Selected, Endpoints
<1>2. p # None => /\ p \in tree /\ p \in Requests /\ node[p].status = "COMPLETED"
                  /\ IsPrefix(Hist(p), q.msgs) /\ node[p] \in Nodes
  BY <1>1 DEF Matching, Visible, TypedTree
<1>3. p # None => /\ node[p].path \in Seq(Requests) /\ node[p].hist \in Seq(Messages) /\ node[p].chain \in Nat
  BY <1>2 DEF Nodes
<1>4. Path(p) \in Seq(Requests)
  BY <1>3 DEF Path
<1>5. Hist(p) \in Seq(Messages)
  BY <1>3 DEF Hist
<1>6. Len(Hist(p)) <= Len(q.msgs)
  <2>1. CASE p = None
    <3>1. Hist(p) = << >>
      BY <2>1 DEF Hist
    <3>2. QED BY <3>1, Asked
  <2>2. CASE p # None
    BY <1>2, <2>2 DEF IsPrefix
  <2>3. QED BY <2>1, <2>2
<1>7. ContextOf(p) \in Seq(Tokens)
  BY <1>4, ContextTyped, InThisState DEF TypedTree
<1>8. QED BY <1>2, <1>3, <1>4, <1>5, <1>6, <1>7

\* What a request replaces.
LEMMA Backed ==
  ASSUME TypedTree, NEW p, NEW q, Backup(p, q) # None
  PROVE  /\ Backup(p, q) \in Children(p) /\ IsTip(Backup(p, q)) /\ Children(Backup(p, q)) = {}
         /\ node[Backup(p, q)].status = "COMPLETED" /\ Backup(p, q) \in tree
         /\ Backup(p, q) \in Requests /\ node[Backup(p, q)].chain \in Nat
<1> DEFINE tips == {c \in Candidates(p, q) : IsTip(c)}
           b == CHOOSE c \in tips : TRUE
<1>1. Cardinality(tips) = 1 /\ (\A c \in tips : Children(c) = {}) /\ Backup(p, q) = b
  BY DEF Backup
<1>2. tips # {}
  BY <1>1, FS_EmptySet
<1>3. b \in tips
  BY <1>2
<1> HIDE DEF b
<1>4. b \in Candidates(p, q) /\ IsTip(b) /\ Children(b) = {}
  BY <1>1, <1>3
<1>5. b \in Children(p) /\ node[b].status = "COMPLETED"
  BY <1>4 DEF Candidates, Rewritten, Visible
<1>6. b \in tree /\ b \in Requests /\ node[b] \in Nodes
  BY <1>5 DEF Children, TypedTree
<1>7. node[b].chain \in Nat
  BY <1>6 DEF Nodes
<1>8. QED BY <1>1, <1>4, <1>5, <1>6, <1>7

\* The chain that a mount continues is a number.
LEMMA Continuing ==
  ASSUME TypedTree, NEW q \in Request, NEW p \in Selected(q)
  PROVE  ContinuedChain(p, Backup(p, q)) \in Nat
<1>1. CASE Backup(p, q) # None
  BY <1>1, Backed DEF ContinuedChain
<1>2. CASE Backup(p, q) = None /\ IsTip(p)
  BY <1>2, Located DEF ContinuedChain, IsTip, NoChain
<1>3. CASE Backup(p, q) = None /\ ~IsTip(p)
  BY <1>3 DEF ContinuedChain, NoChain
<1>4. QED BY <1>1, <1>2, <1>3

\* Resolving a future keeps the types.
LEMMA Resolved ==
  ASSUME TypedShared, NEW r \in Requests, req[r] \in Request,
         NEW st \in {"ok", "failed"}, NEW c \in Nat, Resolve(r, st, c)
  PROVE  /\ inflight' \in [Request -> Requests \cup {None}]
         /\ future' \in [Requests -> [state : {"none", "pending", "ok", "failed"}, chain : Nat]]
BY DEF Resolve, TypedShared

\* The tip of a chain is a node.
LEMMA Tips ==
  ASSUME TypedChains, NEW c, TipOf(c) # None
  PROVE  /\ TipOf(c) \in Requests /\ c \in Nat \ {NoChain}
         /\ \E i \in 1..Len(leaves) : leaves[i].chain = c /\ leaves[i].tip = TipOf(c)
<1> DEFINE i == CHOOSE i \in Open : leaves[i].chain = c
<1>1. (\E j \in Open : leaves[j].chain = c) /\ TipOf(c) = leaves[i].tip
  BY DEF TipOf
<1>2. i \in Open /\ leaves[i].chain = c
  BY <1>1
<1> HIDE DEF i
<1>3. i \in 1..Len(leaves) /\ leaves[i].tip # None
  BY <1>2 DEF Open
<1>4. leaves[i] \in Entries
  BY <1>3 DEF TypedChains
<1>5. QED BY <1>1, <1>2, <1>3, <1>4 DEF Entries

\* _linearize_path of a node is a trajectory.
LEMMA LinearizeTyped ==
  ASSUME TypedTree, NEW n \in Requests, NEW g \in BOOLEAN
  PROVE  Linearize(n, g) \in Trajectory
<1>1. Path(n) \in Seq(Requests)
  <2>1. node[n] \in Nodes
    BY DEF TypedTree
  <2>2. node[n].path \in Seq(Requests)
    BY <2>1 DEF Nodes
  <2>3. QED BY <2>2 DEF Path
<1>2. QED BY <1>1, InThisState, LinearTyped DEF TypedTree

\* An entry that is materialized is an entry.
LEMMA MaterializedTyped ==
  ASSUME TypedTree, NEW l \in Entries
  PROVE  Materialized(l) \in Entries
<1>1. CASE l.tip = None
  BY <1>1 DEF Materialized
<1>2. CASE l.tip # None
  <2>1. l.tip \in Requests
    BY <1>2 DEF Entries
  <2>2. Linearize(l.tip, TRUE) \in Trajectory
    BY <2>1, LinearizeTyped
  <2>3. node[l.tip].coalesced \in Nat
    BY <2>1 DEF TypedTree, Nodes
  <2> DEFINE m == [l EXCEPT !.traj = Linearize(l.tip, TRUE), !.coalesced = node[l.tip].coalesced, !.tip = None]
  <2>4. m \in Entries
    BY <2>2, <2>3 DEF Entries
  <2>5. Materialized(l) = m
    BY <1>2 DEF Materialized
  <2>6. QED BY <2>4, <2>5
<1>3. QED BY <1>1, <1>2

\* A trajectory whose last generation was left out is a trajectory.
LEMMA WithoutTyped ==
  ASSUME TypedTree, NEW n \in Requests, Linearize(n, FALSE).resp # << >>
  PROVE  WithoutGeneration(n) \in Trajectory
<1> DEFINE t == Linearize(n, FALSE)
<1>1. t \in Trajectory
  BY LinearizeTyped
<1> HIDE DEF t
<1>2. t.resp \in Seq(Tokens)
  BY <1>1 DEF Trajectory
<1>3. t.resp # << >>
  BY DEF t
<1>4. Len(t.resp) \in Nat /\ Len(t.resp) - 1 \in 0..Len(t.resp)
  BY <1>2, <1>3
<1>5. Prefix(t.resp, Len(t.resp) - 1) \in Seq(Tokens)
  <2>1. \A i \in 1..(Len(t.resp) - 1) : t.resp[i] \in Tokens
    BY <1>2, <1>4
  <2>2. QED BY <1>4, <2>1, SubSeqProperties DEF Prefix
<1>6. [t EXCEPT !.resp = Prefix(@, Len(@) - 1)] \in Trajectory
  BY <1>1, <1>5 DEF Trajectory
<1>7. WithoutGeneration(n) = [t EXCEPT !.resp = Prefix(@, Len(@) - 1)]
  BY DEF WithoutGeneration, t
<1>8. QED BY <1>6, <1>7

\* Closing a chain leaves the others as they were.
ClosedIn(s, c, u) ==
  /\ u \in Seq(Entries)
  /\ \A i \in 1..Len(u) : \/ u[i].chain = c /\ u[i].tip = None
                          \/ \E j \in 1..Len(s) : u[i] = s[j] /\ s[j].chain # c
  /\ \A j \in 1..Len(s) : s[j].chain # c => \E i \in 1..Len(u) : u[i] = s[j]
  /\ Chained(u)

\* _close_length_exhausted_chain closes its chain, and leaves the others.
LEMMA ClosedTyped ==
  ASSUME TypedTree, TypedChains, Chained(leaves), NEW c, TipOf(c) # None,
         NEW b \in Requests \cup {None}, CloseExhausted(c, TipOf(c), b)
  PROVE  ClosedIn(leaves, c, leaves') /\ dropped' \in Nat
<1>0. leaves \in Seq(Entries) /\ c \in Nat \ {NoChain} /\ TipOf(c) \in Requests
  BY Tips DEF TypedChains
<1>1. dropped' \in Nat
  <2>1. DroppedBy(b) \in Nat
    BY DEF DroppedBy, TypedTree, Nodes
  <2>2. QED BY <2>1 DEF CloseExhausted, TypedChains
<1>2. ASSUME NEW e \in Entries, e.chain = c, e.tip = None
      PROVE ClosedIn(leaves, c, Register(e))
  <2>1. KeptWith(leaves, e, Register(e))
    BY <1>0, Registered
  <2>2. QED BY <1>2, <2>1 DEF KeptWith, ClosedIn
<1>3. ClosedIn(leaves, c, Unregister(c))
  BY <1>0, Unregistered DEF KeptWithout, ClosedIn
<1>4. \A n \in Requests : node[n].coalesced \in Nat
  BY DEF TypedTree, Nodes
<1>5. ASSUME NEW t \in Trajectory, NEW k \in Nat
      PROVE /\ Entry(c, None, t, k) \in Entries /\ Entry(c, None, t, k).chain = c
            /\ Entry(c, None, t, k).tip = None
  BY <1>0, <1>5 DEF Entry, Entries
<1>6. CASE b = None
  <2>1. leaves' = Register(Entry(c, None, Linearize(TipOf(c), TRUE), node[TipOf(c)].coalesced))
    BY <1>6 DEF CloseExhausted
  <2>2. Linearize(TipOf(c), TRUE) \in Trajectory
    BY <1>0, LinearizeTyped
  <2>3. QED BY <1>0, <1>1, <1>2, <1>4, <1>5, <2>1, <2>2
<1>7. CASE b # None /\ Linearize(b, FALSE).resp = << >>
  BY <1>1, <1>3, <1>7 DEF CloseExhausted
<1>8. CASE b # None /\ Linearize(b, FALSE).resp # << >>
  <2>1. leaves' = Register(Entry(c, None, WithoutGeneration(b), node[b].coalesced))
    BY <1>8 DEF CloseExhausted
  <2>2. b \in Requests /\ WithoutGeneration(b) \in Trajectory
    BY <1>8, WithoutTyped
  <2>3. QED BY <1>0, <1>1, <1>2, <1>4, <1>5, <2>1, <2>2
<1>9. QED BY <1>6, <1>7, <1>8

\* What _mount_generation makes is a node and a context.
LEMMA MountTyped ==
  ASSUME TypedTree, TypedTasks, NEW r \in Requests, NEW p \in Selected(req[r]),
         NEW trim \in IF p = None THEN {0} ELSE Trims
  PROVE  MountedNode(r, p, trim) \in Nodes /\ MountedContext(r, p, trim) \in Seq(Tokens)
<1> DEFINE q == req[r]
           k == Len(q.msgs) - Len(Hist(p)) + 1
           added == [i \in 1..k |-> <<r, 0>>]
<1>0. q \in Request
  BY DEF TypedTasks
<1>1. /\ Path(p) \in Seq(Requests) /\ Hist(p) \in Seq(Messages) /\ Len(Hist(p)) <= Len(q.msgs)
      /\ ContextOf(p) \in Seq(Tokens)
  BY <1>0, Located
<1>2. k \in Nat /\ trim \in Nat
  BY <1>0, <1>1, Asked, ParametersAssumption
<1>3. ContinuedChain(p, Backup(p, q)) \in Nat
  BY <1>0, Continuing
<1>4. Append(Path(p), r) \in Seq(Requests) /\ q.msgs \in Seq(Messages) /\ q.scope \in Scopes
  BY <1>0, <1>1, Asked
<1>5. MountedNode(r, p, trim) =
        [status |-> "PENDING", path |-> Append(Path(p), r), hist |-> q.msgs,
         scope |-> q.scope, prompt |-> k, trim |-> trim,
         resp |-> 0, chain |-> ContinuedChain(p, Backup(p, q)), coalesced |-> 0, dropped |-> 0]
  BY DEF MountedNode
<1>6. MountedNode(r, p, trim) \in Nodes
  <2> HIDE DEF k, q
  <2>1. QED BY <1>2, <1>3, <1>4, <1>5 DEF Nodes
<1>7. added \in Seq(Tokens)
  <2>1. <<r, 0>> \in Tokens
    BY DEF Tokens
  <2> HIDE DEF k
  <2>2. added \in [1..k -> Tokens]
    BY <2>1
  <2>3. QED BY <1>2, <2>2, SeqDef
<1>8. Prefix(ContextOf(p), Monus(Len(ContextOf(p)), trim)) \in Seq(Tokens)
  BY <1>1, <1>2, PrefixTyped
<1>9. MountedContext(r, p, trim) = Prefix(ContextOf(p), Monus(Len(ContextOf(p)), trim)) \o added
  BY DEF MountedContext
<1> HIDE DEF added
<1>10. MountedContext(r, p, trim) \in Seq(Tokens)
  BY <1>7, <1>8, <1>9, ConcatProperties
<1>11. QED BY <1>6, <1>10

\* What a commit makes of a node is a node.
LEMMA CompletedTyped ==
  ASSUME TypedTree, TypedChains, TypedShared, TypedTasks, NEW r \in Requests,
         NEW reply \in Replies, NEW n \in GenLens
  PROVE  CompletedNode(r, reply, n) \in Nodes /\ ChainOf(r) \in Nat \ {NoChain}
         /\ DroppedBy(mounted[r].backup) \in Nat
<1>1. node[r] \in Nodes
  BY DEF TypedTree
<1>2. ChainOf(r) \in Nat \ {NoChain}
  BY <1>1 DEF ChainOf, TypedChains, Nodes
<1>3. DroppedBy(mounted[r].backup) \in Nat
  <2>1. mounted[r].backup \in Requests \cup {None}
    BY DEF TypedTasks
  <2>2. QED BY <2>1 DEF DroppedBy, TypedTree, Nodes
<1> DEFINE tip == TipOf(node[r].chain)
           more == IF tip = None THEN 0 ELSE node[tip].coalesced
           lost == IF tip = None THEN 0 ELSE node[tip].dropped
<1>4. more \in Nat /\ lost \in Nat
  <2>1. tip # None => tip \in Requests
    BY Tips
  <2>2. \A m \in Requests : node[m].coalesced \in Nat /\ node[m].dropped \in Nat
    BY DEF TypedTree, Nodes
  <2> HIDE DEF tip
  <2>3. QED BY <2>1, <2>2
<1>5. waiters[r] + more \in Nat /\ DroppedBy(mounted[r].backup) + lost \in Nat
  BY <1>3, <1>4 DEF TypedShared
<1>6. reply \in Messages /\ n \in Nat /\ Append(node[r].hist, reply) \in Seq(Messages)
  BY <1>1, MessagesAssumption, ParametersAssumption DEF Nodes
<1>7. CompletedNode(r, reply, n) =
        [node[r] EXCEPT !.status = "COMPLETED", !.hist = Append(@, reply), !.resp = n,
           !.chain = ChainOf(r), !.coalesced = waiters[r] + more,
           !.dropped = DroppedBy(mounted[r].backup) + lost]
  BY DEF CompletedNode
<1> HIDE DEF more, lost
<1>8. CompletedNode(r, reply, n) \in Nodes
  BY <1>1, <1>2, <1>5, <1>6, <1>7 DEF Nodes
<1>9. QED BY <1>2, <1>3, <1>8

\* The mount of r at p.
MountedAt(r, p, trim) ==
  /\ pc[r] = "mounting"
  /\ Remaining(MountedContext(r, p, trim)) > 0
  /\ node' = [node EXCEPT ![r] = MountedNode(r, p, trim)]
  /\ tree' = (tree \cup {r}) \ {Backup(p, req[r])}
  /\ mounted' = [mounted EXCEPT ![r] = [ctx |-> MountedContext(r, p, trim), backup |-> Backup(p, req[r])]]
  /\ lock' = None /\ GoTo(r, "generating")
  /\ UNCHANGED <<phase, leaves, next_chain_id, dropped, result, sharing, closer, req, faults>>

\* Every step keeps the types.
LEMMA TypesStep ==
  ASSUME TypeOK, Chained(leaves), Next
  PROVE  TypeOK'
<1>1. TypedTree /\ TypedChains /\ TypedShared /\ TypedTasks
  BY Typed
<1>2. SUFFICES TypedTree' /\ TypedChains' /\ TypedShared' /\ TypedTasks'
  BY Typed
<1>3. None \notin Requests /\ MaxFaults \in Nat
  BY ParametersAssumption
<1>4. \A r \in Requests : req[r] \in Request /\ mounted[r].backup \in Requests \cup {None}
  BY <1>1 DEF TypedTasks
<1> DEFINE NoTypeTree == UNCHANGED <<tree, node>>
<1>5. UNCHANGED <<tree, node>> => TypedTree'
  BY <1>1 DEF TypedTree
<1>6. UNCHANGED <<leaves, result, next_chain_id, dropped>> => TypedChains'
  BY <1>1 DEF TypedChains
<1>7. UNCHANGED sharing => TypedShared'
  BY <1>1 DEF TypedShared, sharing
<1>8. ASSUME NEW r \in Requests, NEW label \in {"mounting", "waiting", "generating", "decoding",
                                               "unwinding", "ok", "length", "failed"},
             GoTo(r, label), UNCHANGED <<phase, closer, req, mounted, faults>>,
             lock' \in Requests \cup {None}
      PROVE TypedTasks'
  BY <1>1, <1>8 DEF TypedTasks, GoTo
<1>9. lock \in Requests \cup {None}
  BY <1>1 DEF TypedTasks
<1>10. ASSUME NEW r \in Requests, Reject(r)
       PROVE TypedTree' /\ TypedChains' /\ TypedShared' /\ TypedTasks'
  BY <1>5, <1>6, <1>7, <1>8, <1>9, <1>10 DEF Reject, session
<1>11. ASSUME NEW r \in Requests, Join(r)
       PROVE TypedTree' /\ TypedChains' /\ TypedShared' /\ TypedTasks'
  <2>1. TypedTree' /\ TypedChains' /\ TypedTasks'
    BY <1>5, <1>6, <1>8, <1>9, <1>11 DEF Join, session
  <2>2. TypedShared'
    <3>1. inflight[req[r]] \in Requests
      BY <1>1, <1>4, <1>11 DEF Join, TypedShared
    <3>2. QED BY <1>1, <1>11, <3>1 DEF Join, TypedShared
  <2>3. QED BY <2>1, <2>2
<1>12. ASSUME NEW r \in Requests, StartMount(r)
       PROVE TypedTree' /\ TypedChains' /\ TypedShared' /\ TypedTasks'
  <2>1. TypedTree' /\ TypedChains' /\ TypedTasks'
    BY <1>5, <1>6, <1>8, <1>12 DEF StartMount, session
  <2>2. TypedShared'
    BY <1>1, <1>4, <1>12 DEF StartMount, TypedShared
  <2>3. QED BY <2>1, <2>2
<1>13. ASSUME NEW r \in Requests, Mount(r)
       PROVE TypedTree' /\ TypedChains' /\ TypedShared' /\ TypedTasks'
  <2> USE <1>13
  <2>p. PICK p \in Selected(req[r]) : \E trim \in IF p = None THEN {0} ELSE Trims :
          MountedAt(r, p, trim)
    BY DEF Mount, MountedAt
  <2>1. PICK trim \in IF p = None THEN {0} ELSE Trims :
          /\ node' = [node EXCEPT ![r] = MountedNode(r, p, trim)]
          /\ tree' = (tree \cup {r}) \ {Backup(p, req[r])}
          /\ mounted' = [mounted EXCEPT ![r] = [ctx |-> MountedContext(r, p, trim), backup |-> Backup(p, req[r])]]
          /\ lock' = None /\ GoTo(r, "generating")
          /\ UNCHANGED <<phase, leaves, next_chain_id, dropped, result, sharing, closer, req, faults>>
    BY <2>p DEF MountedAt
  <2>2. MountedNode(r, p, trim) \in Nodes /\ MountedContext(r, p, trim) \in Seq(Tokens)
    BY <1>1, MountTyped
  <2>3. Backup(p, req[r]) \in Requests \cup {None}
    BY <1>1, Backed
  <2>4. TypedTree'
    BY <1>1, <2>1, <2>2 DEF TypedTree
  <2>5. TypedTasks'
    BY <1>1, <2>1, <2>2, <2>3 DEF TypedTasks, GoTo
  <2>6. QED BY <1>6, <1>7, <2>1, <2>4, <2>5
<1>14. ASSUME NEW r \in Requests, ExhaustCapacity(r)
       PROVE TypedTree' /\ TypedChains' /\ TypedShared' /\ TypedTasks'
  <2> USE <1>14
  <2>1. PICK p \in Selected(req[r]) :
          /\ IF TipOf(ContinuedChain(p, Backup(p, req[r]))) = None
             THEN UNCHANGED <<leaves, dropped>>
             ELSE CloseExhausted(ContinuedChain(p, Backup(p, req[r])),
                    TipOf(ContinuedChain(p, Backup(p, req[r]))), Backup(p, req[r]))
          /\ Resolve(r, "ok", ContinuedChain(p, Backup(p, req[r])))
          /\ lock' = None /\ GoTo(r, "length")
          /\ UNCHANGED <<phase, tree, node, next_chain_id, result, waiters, joined, closer, req, mounted, faults>>
    BY DEF ExhaustCapacity
  <2>2. ContinuedChain(p, Backup(p, req[r])) \in Nat
    BY <1>1, <1>4, Continuing
  <2>3. Backup(p, req[r]) \in Requests \cup {None}
    BY <1>1, Backed
  <2>4. TypedChains'
    <3>1. CASE TipOf(ContinuedChain(p, Backup(p, req[r]))) = None
      BY <1>6, <2>1, <3>1
    <3>2. CASE TipOf(ContinuedChain(p, Backup(p, req[r]))) # None
      <4>1. CloseExhausted(ContinuedChain(p, Backup(p, req[r])),
                    TipOf(ContinuedChain(p, Backup(p, req[r]))), Backup(p, req[r]))
        BY <2>1, <3>2
      <4>2. leaves' \in Seq(Entries) /\ dropped' \in Nat
        BY <1>1, <2>3, <3>2, <4>1, ClosedTyped DEF ClosedIn
      <4>3. QED BY <1>1, <2>1, <4>2 DEF TypedChains
    <3>3. QED BY <3>1, <3>2
  <2>5. TypedShared'
    <3>1. /\ inflight' \in [Request -> Requests \cup {None}]
          /\ future' \in [Requests -> [state : {"none", "pending", "ok", "failed"}, chain : Nat]]
      BY <1>1, <1>4, <2>1, <2>2, Resolved
    <3>2. QED BY <1>1, <2>1, <3>1 DEF TypedShared
  <2>6. QED BY <1>5, <1>8, <2>1, <2>4, <2>5
<1>15. ASSUME NEW r \in Requests, StartCommit(r)
       PROVE TypedTree' /\ TypedChains' /\ TypedShared' /\ TypedTasks'
  BY <1>5, <1>6, <1>7, <1>8, <1>15 DEF StartCommit, session
<1>16. ASSUME NEW r \in Requests, Commit(r)
       PROVE TypedTree' /\ TypedChains' /\ TypedShared' /\ TypedTasks'
  <2> USE <1>16
  <2>1. PICK reply \in Replies, n \in GenLens :
          /\ node' = [node EXCEPT ![r] = CompletedNode(r, reply, n)]
          /\ next_chain_id' = IF node[r].chain = NoChain THEN next_chain_id + 1 ELSE next_chain_id
          /\ leaves' = Register(Entry(ChainOf(r), r, NoTrajectory, 0))
          /\ dropped' = dropped + DroppedBy(mounted[r].backup)
          /\ Resolve(r, "ok", ChainOf(r))
          /\ lock' = None /\ GoTo(r, "ok")
          /\ UNCHANGED <<phase, tree, result, waiters, joined, closer, req, mounted, faults>>
    BY DEF Commit
  <2>2. /\ CompletedNode(r, reply, n) \in Nodes /\ ChainOf(r) \in Nat \ {NoChain}
        /\ DroppedBy(mounted[r].backup) \in Nat
    BY <1>1, CompletedTyped
  <2>3. TypedTree'
    BY <1>1, <2>1, <2>2 DEF TypedTree
  <2>4. TypedChains'
    <3>1. NoTrajectory \in Trajectory
      BY DEF NoTrajectory, Trajectory
    <3>2. Entry(ChainOf(r), r, NoTrajectory, 0) \in Entries
      BY <2>2, <3>1 DEF Entry, Entries
    <3>3. leaves' \in Seq(Entries)
      BY <1>1, <2>1, <3>2, Registered DEF KeptWith, TypedChains
    <3>4. dropped' \in Nat
      BY <1>1, <2>1, <2>2 DEF TypedChains
    <3>5. next_chain_id' \in Nat \ {NoChain}
      BY <1>1, <2>1 DEF TypedChains, NoChain
    <3>6. QED BY <1>1, <2>1, <3>3, <3>4, <3>5 DEF TypedChains
  <2>5. TypedShared'
    <3>1. /\ inflight' \in [Request -> Requests \cup {None}]
          /\ future' \in [Requests -> [state : {"none", "pending", "ok", "failed"}, chain : Nat]]
      BY <1>1, <1>4, <2>1, <2>2, Resolved
    <3>2. QED BY <1>1, <2>1, <3>1 DEF TypedShared
  <2>6. QED BY <1>8, <2>1, <2>3, <2>4, <2>5
<1>17. ASSUME NEW r \in Requests, CommitTooLate(r)
       PROVE TypedTree' /\ TypedChains' /\ TypedShared' /\ TypedTasks'
  BY <1>5, <1>6, <1>7, <1>8, <1>9, <1>17 DEF CommitTooLate, session
<1>f. ASSUME NEW r \in Requests, Resolve(r, "failed", NoChain), UNCHANGED <<waiters, joined>>
      PROVE TypedShared'
  <2>1. /\ inflight' \in [Request -> Requests \cup {None}]
        /\ future' \in [Requests -> [state : {"none", "pending", "ok", "failed"}, chain : Nat]]
    BY <1>1, <1>4, <1>f, Resolved DEF NoChain
  <2>2. QED BY <1>1, <1>f, <2>1 DEF TypedShared
<1>18. ASSUME NEW r \in Requests, Unwind(r)
       PROVE TypedTree' /\ TypedChains' /\ TypedShared' /\ TypedTasks'
  <2>1. TypedTree'
    BY <1>1, <1>4, <1>18 DEF Unwind, RolledBack, TypedTree
  <2>2. TypedTasks' /\ TypedChains'
    BY <1>6, <1>8, <1>9, <1>18 DEF Unwind
  <2>3. TypedShared'
    BY <1>f, <1>18 DEF Unwind
  <2>4. QED BY <2>1, <2>2, <2>3
<1>19. ASSUME NEW r \in Requests, Wake(r)
       PROVE TypedTree' /\ TypedChains' /\ TypedShared' /\ TypedTasks'
  BY <1>5, <1>6, <1>7, <1>8, <1>9, <1>19 DEF Wake, session
<1>20. ASSUME NEW r \in Requests, FailUnmounted(r)
       PROVE TypedTree' /\ TypedChains' /\ TypedShared' /\ TypedTasks'
  <2>1. TypedTree' /\ TypedChains'
    BY <1>5, <1>6, <1>20 DEF FailUnmounted, session
  <2>2. TypedShared'
    BY <1>f, <1>20 DEF FailUnmounted
  <2>3. TypedTasks'
    <3>1. faults' \in 0..MaxFaults
      BY <1>1, <1>3, <1>20 DEF FailUnmounted, TypedTasks
    <3>2. lock' \in Requests \cup {None}
      BY <1>1, <1>20 DEF FailUnmounted, TypedTasks
    <3>3. UNCHANGED <<phase, closer, req, mounted>> /\ (GoTo(r, "failed") \/ GoTo(r, "unwinding"))
      BY <1>20 DEF FailUnmounted, session
    <3>4. QED BY <1>1, <3>1, <3>2, <3>3 DEF TypedTasks, GoTo
  <2>4. QED BY <2>1, <2>2, <2>3
<1>21. ASSUME NEW r \in Requests, FailMounted(r)
       PROVE TypedTree' /\ TypedChains' /\ TypedShared' /\ TypedTasks'
  <2>1. TypedTree' /\ TypedChains' /\ TypedShared'
    BY <1>5, <1>6, <1>7, <1>21 DEF FailMounted, session
  <2>2. TypedTasks'
    <3>1. faults' \in 0..MaxFaults
      BY <1>1, <1>3, <1>21 DEF FailMounted, TypedTasks
    <3>2. lock' \in Requests \cup {None}
      BY <1>1, <1>21 DEF FailMounted, TypedTasks
    <3>3. UNCHANGED <<phase, closer, req, mounted>> /\ (GoTo(r, "failed") \/ GoTo(r, "unwinding"))
      BY <1>21 DEF FailMounted, session
    <3>4. QED BY <1>1, <3>1, <3>2, <3>3 DEF TypedTasks, GoTo
  <2>3. QED BY <2>1, <2>2
<1>22. ASSUME StartFinalize PROVE TypedTree' /\ TypedChains' /\ TypedShared' /\ TypedTasks'
  <2>1. TypedTree' /\ TypedShared'
    BY <1>5, <1>7, <1>22 DEF StartFinalize
  <2>2. \A i \in 1..Len(leaves) : Materialized(leaves[i]) \in Entries
    BY <1>1, MaterializedTyped DEF TypedChains
  <2>3. result' \in [1..Len(leaves) -> Entries]
    BY <1>22, <2>2 DEF StartFinalize
  <2>4. Len(leaves) \in Nat
    BY <1>1 DEF TypedChains
  <2>5. result' \in Seq(Entries)
    BY <2>3, <2>4, SeqDef
  <2>6. TypedChains'
    BY <1>1, <1>22, <2>5 DEF StartFinalize, TypedChains
  <2>7. TypedTasks'
    BY <1>1, <1>22 DEF StartFinalize, TypedTasks
  <2>8. QED BY <2>1, <2>6, <2>7
<1>23. ASSUME StartAbort PROVE TypedTree' /\ TypedChains' /\ TypedShared' /\ TypedTasks'
  <2>1. TypedTree' /\ TypedChains' /\ TypedShared'
    BY <1>5, <1>6, <1>7, <1>23 DEF StartAbort, session
  <2>2. TypedTasks'
    BY <1>1, <1>23 DEF StartAbort, TypedTasks, session
  <2>3. QED BY <2>1, <2>2
<1>24. ASSUME FinishClose PROVE TypedTree' /\ TypedChains' /\ TypedShared' /\ TypedTasks'
  <2>1. TypedTree' /\ TypedChains'
    BY <1>1, <1>24 DEF FinishClose, TypedTree, TypedChains
  <2>2. TypedTasks' /\ TypedShared'
    BY <1>1, <1>7, <1>24 DEF FinishClose, TypedTasks
  <2>3. QED BY <2>1, <2>2
<1>25. ASSUME CancelClose PROVE TypedTree' /\ TypedChains' /\ TypedShared' /\ TypedTasks'
  <2>1. TypedTree' /\ TypedChains' /\ TypedShared'
    BY <1>1, <1>5, <1>7, <1>25 DEF CancelClose, TypedChains
  <2>2. TypedTasks'
    BY <1>1, <1>3, <1>25 DEF CancelClose, TypedTasks
  <2>3. QED BY <2>1, <2>2
<1>26. ASSUME Terminated PROVE TypedTree' /\ TypedChains' /\ TypedShared' /\ TypedTasks'
  BY <1>1, <1>5, <1>6, <1>7, <1>26 DEF Terminated, vars, session, TypedTasks
<1>27. QED
  BY <1>10, <1>11, <1>12, <1>13, <1>14, <1>15, <1>16, <1>17, <1>18, <1>19, <1>20, <1>21,
     <1>22, <1>23, <1>24, <1>25, <1>26 DEF Next, Step

-----------------------------------------------------------------------------
(* The shape of the tree, and TreeIntact.                                  *)

Running(r) == pc[r] \in {"generating", "decoding", "unwinding"}
Mounted(n) == node[n].status # "ABSENT"
Done(n) == node[n].status = "COMPLETED"

\* A node is absent, pending or completed as its task has come; the lock is held
\* by the task that mounts or decodes, in an active session.
Stages ==
  /\ \A r \in Requests :
       /\ pc[r] \in {"queued", "mounting", "waiting"} => ~Mounted(r) /\ mounted[r] = NoMount
       /\ Running(r) => node[r].status = "PENDING"
       /\ Done(r) => pc[r] = "ok"
       /\ ~Mounted(r) => node[r] = NoNode
       /\ pc[r] \in {"mounting", "decoding"} <=> lock = r
  /\ lock # None => closer = "idle" /\ phase = "ACTIVE"
  /\ closer # "idle" => phase = "ACTIVE"

\* A path ends with its node, goes through completed nodes, each once, and is the
\* path of the parent with the node at its end.
PathOf(n) ==
  /\ Len(node[n].path) > 0 /\ node[n].path[Len(node[n].path)] = n
  /\ \A i \in 1..(Len(node[n].path) - 1) : Done(node[n].path[i])
  /\ \A i, j \in 1..Len(node[n].path) : node[n].path[i] = node[n].path[j] => i = j
  /\ node[n].path = Append(Path(Parent(n)), n)
Paths == \A n \in Requests : Mounted(n) => PathOf(n)

\* The tree is closed under parents.
Linked ==
  phase = "ACTIVE" =>
    /\ \A r \in Requests : Running(r) => r \in tree
    /\ \A n \in tree : (Done(n) \/ Running(n)) /\ (Parent(n) # None => Parent(n) \in tree)

\* What is replaced is a completed sibling in the same chain, is replaced once, and
\* is what is missing from the tree.
Replaces(r, n) == mounted[r].backup = n /\ (Running(r) \/ Done(r))

\* What a generation replaces.
ReplacedBy(r) ==
  mounted[r].backup # None =>
    /\ Mounted(r) /\ Done(mounted[r].backup) /\ Parent(mounted[r].backup) = Parent(r)
    /\ node[mounted[r].backup].chain = node[r].chain
Replaced ==
  /\ \A r \in Requests : ReplacedBy(r)
  /\ phase = "ACTIVE" =>
       \A n \in Requests : Done(n) =>
         /\ \A r, s \in Requests : Replaces(r, n) /\ Replaces(s, n) => r = s
         /\ n \in tree <=> \A r \in Requests : ~Replaces(r, n)

\* A chain has one entry in the registry, and its tip is a completed node of it.
Chains ==
  /\ Chained(leaves)
  /\ \A i \in 1..Len(leaves) :
       /\ leaves[i].chain < next_chain_id
       /\ leaves[i].tip # None => Done(leaves[i].tip) /\ node[leaves[i].tip].chain = leaves[i].chain
  /\ \A n \in Requests : node[n].chain < next_chain_id /\ (Done(n) => node[n].chain # NoChain)

\* A running generation continues, or replaces, the tip of its chain, alone.
Continued(r) == IF mounted[r].backup = None THEN Parent(r) ELSE mounted[r].backup

\* The tip of its chain that a running generation holds.
HeldBy(r) ==
  \E i \in 1..Len(leaves) : leaves[i].chain = node[r].chain /\ leaves[i].tip # None /\ leaves[i].tip = Continued(r)
Held ==
  phase = "ACTIVE" =>
    \A r \in Requests : Running(r) /\ node[r].chain # NoChain =>
      HeldBy(r) /\ \A s \in Requests : Running(s) /\ node[s].chain = node[r].chain => r = s

\* The inductive invariant of TreeIntact.
TreeInv == TypeOK /\ Stages /\ Paths /\ Linked /\ Replaced /\ Chains /\ Held

\* The invariant holds in the initial states.
LEMMA StructInit == Init => TreeInv
<1> SUFFICES ASSUME Init PROVE TreeInv
  OBVIOUS
<1> USE DEF Init
<1>0. None \notin Requests /\ MaxFaults \in Nat
  BY ParametersAssumption
<1>1. TypeOK
  <2>1. NoNode \in Nodes
    BY DEF NoNode, Nodes, NoChain
  <2>2. TypedTree
    BY <2>1 DEF TypedTree
  <2>3. << >> \in Seq(Entries)
    OBVIOUS
  <2>4. TypedChains
    BY <2>3 DEF TypedChains, NoChain
  <2>5. TypedShared
    BY DEF TypedShared, NoChain
  <2>6. NoMount \in [ctx : Seq(Tokens), backup : Requests \cup {None}]
    BY DEF NoMount
  <2>7. TypedTasks
    BY <1>0, <2>6 DEF TypedTasks
  <2>8. QED BY <2>2, <2>4, <2>5, <2>7, Typed
<1>2. \A r \in Requests : node[r] = NoNode /\ mounted[r] = NoMount /\ pc[r] = "queued"
  OBVIOUS
<1>3. Stages
  BY <1>0, <1>2 DEF Stages, Mounted, Running, Done, NoNode
<1>4. Paths
  BY <1>2 DEF Paths, Mounted, NoNode
<1>5. Linked
  BY <1>2 DEF Linked, Running
<1>6. Replaced
  BY <1>2 DEF Replaced, ReplacedBy, Done, NoNode, NoMount
<1>7. Chains
  BY <1>2 DEF Chains, Chained, NoNode, NoChain, Done
<1>8. Held
  BY <1>2 DEF Held, Running
<1>9. QED BY <1>1, <1>3, <1>4, <1>5, <1>6, <1>7, <1>8 DEF TreeInv

\* A node is mounted below a completed node, or the root.
LEMMA Parents ==
  ASSUME TypedTree, Paths, NEW n \in Requests, Mounted(n)
  PROVE  Parent(n) = None \/ (Parent(n) \in Requests /\ Done(Parent(n)) /\ Parent(n) # n)
<1>1. node[n].path \in Seq(Requests)
  BY DEF TypedTree, Nodes
<1>2. PathOf(n) /\ n # None
  BY ParametersAssumption DEF Paths
<1>3. Path(n) = node[n].path
  BY <1>2 DEF Path
<1>4. CASE Len(node[n].path) = 1
  BY <1>3, <1>4 DEF Parent
<1>5. CASE Len(node[n].path) # 1
  <2> DEFINE k == Len(node[n].path)
  <2>1. k - 1 \in 1..(k - 1) /\ k - 1 \in 1..k /\ k \in 1..k /\ k - 1 # k
    BY <1>1, <1>2, <1>5 DEF PathOf
  <2>2. Parent(n) = node[n].path[k - 1]
    BY <1>3, <1>5 DEF Parent
  <2>3. Done(node[n].path[k - 1]) /\ node[n].path[k - 1] # n
    BY <1>2, <2>1 DEF PathOf
  <2>4. node[n].path[k - 1] \in Requests
    BY <1>1, <2>1
  <2>5. QED BY <2>2, <2>3, <2>4
<1>6. QED BY <1>4, <1>5

\* Steps that leave the tree and the chains alone.
LEMMA StructQuiet ==
  ASSUME TreeInv, UNCHANGED <<phase, tree, node, leaves, next_chain_id, mounted>>,
         \A r \in Requests : Running(r)' <=> Running(r)
  PROVE  Paths' /\ Linked' /\ Replaced' /\ Chains' /\ Held'
<1>1. Paths'
  <2>1. node' = node
    OBVIOUS
  <2>2. ASSUME NEW n PROVE PathOf(n)' <=> PathOf(n)
    BY <2>1, Zenon DEF PathOf, Done, Path, Parent
  <2>3. QED BY <2>1, <2>2 DEF TreeInv, Paths, Mounted
<1>0. tree \subseteq Requests
  BY DEF TreeInv, TypeOK
<1>2. Linked'
  BY <1>0 DEF TreeInv, Linked, Running, Done, Path, Parent
<1>3. Replaced'
  BY DEF TreeInv, Replaced, ReplacedBy, Replaces, Running, Done, Mounted, Path, Parent
<1>4. Chains'
  BY DEF TreeInv, Chains, Chained, Done
<1>5. Held'
  <2>1. \A r \in Requests : HeldBy(r)' <=> HeldBy(r)
    BY DEF HeldBy, Continued, Path, Parent
  <2>2. QED BY <2>1 DEF TreeInv, Held, Running
<1>6. QED BY <1>1, <1>2, <1>3, <1>4, <1>5

\* The tip of a chain in the registry.
LEMMA TipEntry ==
  ASSUME NEW n, IsTip(n)
  PROVE  \E i \in 1..Len(leaves) : leaves[i].tip = n /\ leaves[i].tip # None
<1>1. n # None /\ OrderOf(n) > 0
  BY DEF IsTip
<1>2. CASE \E i \in 1..Len(leaves) : leaves[i].tip = n
  BY <1>1, <1>2
<1>3. CASE ~ \E i \in 1..Len(leaves) : leaves[i].tip = n
  <2>1. OrderOf(n) = 0
    BY <1>3 DEF OrderOf
  <2>2. QED BY <1>1, <2>1
<1>4. QED BY <1>2, <1>3

\* The chain that a request would go to has its tip where the request is mounted,
\* and nobody else generates for it.
LEMMA NoRival ==
  ASSUME TreeInv, phase = "ACTIVE", NEW q \in Request, NEW p \in Selected(q),
         ContinuedChain(p, Backup(p, q)) # NoChain
  PROVE  LET c == ContinuedChain(p, Backup(p, q))
             t == IF Backup(p, q) = None THEN p ELSE Backup(p, q)
         IN  /\ \E i \in 1..Len(leaves) : leaves[i].chain = c /\ leaves[i].tip # None /\ leaves[i].tip = t
             /\ \A s \in Requests : Running(s) => node[s].chain # c
<1> DEFINE b == Backup(p, q)
           c == ContinuedChain(p, b)
           t == IF b = None THEN p ELSE b
<1>0. TypedTree /\ None \notin Requests
  BY Typed, ParametersAssumption DEF TreeInv
<1>1. IsTip(t) /\ t \in tree /\ t \in Requests /\ Children(t) = {} /\ c = node[t].chain /\ t # None
  <2>1. CASE b # None
    BY <1>0, <2>1, Backed DEF ContinuedChain
  <2>2. CASE b = None
    <3>1. IsTip(p) /\ Children(p) = {} /\ c = node[p].chain
      BY <2>2 DEF ContinuedChain
    <3>2. p # None
      BY <3>1 DEF IsTip
    <3>3. p \in tree /\ p \in Requests
      BY <1>0, <3>2, Located
    <3>4. QED BY <2>2, <3>1, <3>2, <3>3
  <2>3. QED BY <2>1, <2>2
<1> HIDE DEF t, c, b
<1>2. PICK i \in 1..Len(leaves) : leaves[i].tip = t /\ leaves[i].tip # None
  BY <1>1, TipEntry
<1>3. leaves[i].chain = c
  BY <1>1, <1>2 DEF TreeInv, Chains
<1>4. ASSUME NEW s \in Requests, Running(s), node[s].chain = c PROVE FALSE
  <2>0. c # NoChain
    BY DEF c, b
  <2>1. HeldBy(s)
    BY <1>4, <2>0 DEF TreeInv, Held
  <2>2. PICK j \in 1..Len(leaves) : leaves[j].chain = node[s].chain /\ leaves[j].tip # None /\ leaves[j].tip = Continued(s)
    BY <2>1 DEF HeldBy
  <2>3. i = j
    BY <1>3, <1>4, <2>2 DEF TreeInv, Chains, Chained
  <2>4. Continued(s) = t
    BY <1>2, <2>2, <2>3
  <2>5. CASE mounted[s].backup = None
    <3>1. Parent(s) = t /\ s \in tree
      BY <1>4, <2>4, <2>5 DEF Continued, TreeInv, Linked
    <3>2. s \in Children(t)
      BY <3>1 DEF Children
    <3>3. QED BY <1>1, <3>2
  <2>6. CASE mounted[s].backup # None
    <3>1. mounted[s].backup = t
      BY <2>4, <2>6 DEF Continued
    <3>2. Replaces(s, t) /\ Done(t)
      BY <1>4, <2>6, <3>1 DEF Replaces, TreeInv, Replaced, ReplacedBy
    <3>3. t \notin tree
      BY <1>1, <3>2 DEF TreeInv, Replaced
    <3>4. QED BY <1>1, <3>3
  <2>7. QED BY <2>5, <2>6
<1>5. (\E k \in 1..Len(leaves) : leaves[k].chain = c /\ leaves[k].tip # None /\ leaves[k].tip = t)
      /\ \A s \in Requests : Running(s) => node[s].chain # c
  BY <1>2, <1>3, <1>4
<1>6. QED BY <1>5 DEF t, c, b

\* What a mount does, and what it leaves.
MountEffect(r, p, b) ==
  /\ r \in Requests /\ (p = None \/ (p \in tree /\ p \in Requests /\ Done(p))) /\ p # r
  /\ node[r] = NoNode /\ mounted[r] = NoMount /\ pc[r] = "mounting" /\ phase = "ACTIVE"
  /\ node'[r].status = "PENDING" /\ node'[r].path = Append(Path(p), r)
  /\ node'[r].chain = ContinuedChain(p, b)
  /\ \A s \in Requests : s # r => node'[s] = node[s] /\ mounted'[s] = mounted[s] /\ pc'[s] = pc[s]
  /\ tree' = (tree \cup {r}) \ {b}
  /\ mounted'[r].backup = b /\ pc'[r] = "generating"
  /\ b # None => /\ b \in Requests /\ b \in tree /\ Done(b) /\ Children(b) = {} /\ b \in Children(p) /\ b # r
  /\ UNCHANGED <<phase, leaves, next_chain_id>>

\* A mount changes the nodes as MountEffect says.
LEMMA MountEffects ==
  ASSUME TreeInv, NEW r \in Requests, Mount(r)
  PROVE  \E p \in Selected(req[r]) : MountEffect(r, p, Backup(p, req[r]))
<1>0. TypedTree /\ TypedTasks /\ TypedChains /\ None \notin Requests
  BY Typed, ParametersAssumption DEF TreeInv
<1>1. req[r] \in Request
  BY <1>0 DEF TypedTasks
<1>2. pc[r] = "mounting" /\ lock = r
  BY DEF Mount, TreeInv, Stages
<1>3. phase = "ACTIVE" /\ node[r] = NoNode /\ mounted[r] = NoMount
  BY <1>0, <1>2 DEF TreeInv, Stages
<1>p. PICK p \in Selected(req[r]) : \E trim \in IF p = None THEN {0} ELSE Trims : MountedAt(r, p, trim)
  BY DEF Mount, MountedAt
<1>4. PICK trim \in IF p = None THEN {0} ELSE Trims : MountedAt(r, p, trim)
  BY <1>p
<1> DEFINE b == Backup(p, req[r])
<1>5. p = None \/ (p \in tree /\ p \in Requests /\ Done(p))
  BY <1>0, <1>1, Located DEF Done
<1>6. p # r
  BY <1>0, <1>3, <1>5 DEF Done, NoNode
<1>7. b # None => /\ b \in Requests /\ b \in tree /\ Done(b) /\ Children(b) = {} /\ b \in Children(p)
  BY <1>0, Backed DEF Done
<1>8. b # None => b # r
  BY <1>3, <1>7 DEF Done, NoNode
<1>9. node'[r] = MountedNode(r, p, trim) /\ \A s \in Requests : s # r => node'[s] = node[s]
  BY <1>0, <1>4 DEF MountedAt, TypedTree
<1>10. node'[r].status = "PENDING" /\ node'[r].path = Append(Path(p), r) /\ node'[r].chain = ContinuedChain(p, b)
  BY <1>9 DEF MountedNode
<1>11. mounted'[r].backup = b /\ \A s \in Requests : s # r => mounted'[s] = mounted[s]
  BY <1>0, <1>4 DEF MountedAt, TypedTasks
<1>12. pc'[r] = "generating" /\ \A s \in Requests : s # r => pc'[s] = pc[s]
  BY <1>0, <1>4 DEF MountedAt, GoTo, TypedTasks
<1>13. tree' = (tree \cup {r}) \ {b} /\ UNCHANGED <<phase, leaves, next_chain_id>>
  BY <1>4 DEF MountedAt
<1>14. MountEffect(r, p, b)
  BY <1>2, <1>3, <1>5, <1>6, <1>7, <1>8, <1>9, <1>10, <1>11, <1>12, <1>13 DEF MountEffect
<1>15. QED BY <1>14

\* Parents are untouched, except that of the mounted node.
LEMMA MountParents ==
  ASSUME TypedTree, Paths, NEW r, NEW p, NEW b, MountEffect(r, p, b)
  PROVE  /\ \A n \in Requests : n # r => Path(n)' = Path(n) /\ Parent(n)' = Parent(n)
         /\ Path(r)' = Append(Path(p), r) /\ Parent(r)' = p
         /\ Path(p)' = Path(p) /\ Path(None)' = Path(None)
         /\ Path(p) \in Seq(Requests) /\ (p # None => Len(Path(p)) > 0 /\ Path(p)[Len(Path(p))] = p)
<1>0. None \notin Requests /\ r \in Requests
  BY ParametersAssumption DEF MountEffect
<1>1. \A n \in Requests : n # r => Path(n)' = Path(n)
  BY <1>0 DEF MountEffect, Path
<1>2. Path(None)' = Path(None)
  BY DEF Path
<1>3. \A n \in Requests : n # r => Parent(n)' = Parent(n)
  BY <1>1 DEF Parent
<1>4. Path(r)' = Append(Path(p), r)
  BY <1>0 DEF MountEffect, Path
<1>5. Path(p) \in Seq(Requests) /\ (p # None => Len(Path(p)) > 0 /\ Path(p)[Len(Path(p))] = p)
  <2>1. CASE p = None
    BY <2>1 DEF Path
  <2>2. CASE p # None
    <3>1. p \in Requests /\ Done(p) /\ p # None
      BY <2>2 DEF MountEffect
    <3>2. Path(p) = node[p].path /\ node[p].path \in Seq(Requests)
      BY <3>1 DEF Path, TypedTree, Nodes
    <3>3. PathOf(p)
      BY <3>1 DEF Paths, Mounted, Done
    <3>4. QED BY <3>1, <3>2, <3>3 DEF PathOf
  <2>3. QED BY <2>1, <2>2
<1>6. Parent(r)' = p
  <2>1. Parent(r)' = IF Len(Path(r)') = 1 THEN None ELSE Path(r)'[Len(Path(r)') - 1]
    BY DEF Parent
  <2>2. Len(Path(r)') = Len(Path(p)) + 1 /\ Len(Path(p)) \in Nat
        /\ \A i \in 1..Len(Path(p)) : Path(r)'[i] = Path(p)[i]
    BY <1>0, <1>4, <1>5
  <2>3. CASE p = None
    <3>1. Len(Path(p)) = 0
      BY <2>3 DEF Path
    <3>2. QED BY <2>1, <2>2, <2>3, <3>1
  <2>4. CASE p # None
    <3>1. Len(Path(p)) \in 1..Len(Path(p)) /\ Len(Path(p)) + 1 # 1
      BY <1>5, <2>2, <2>4
    <3>2. (Len(Path(p)) + 1) - 1 = Len(Path(p))
      BY <2>2
    <3>3. QED BY <1>5, <2>1, <2>2, <2>4, <3>1, <3>2
  <2>5. QED BY <2>3, <2>4
<1>7. Path(p)' = Path(p)
  BY <1>1, <1>2 DEF MountEffect
<1>8. QED BY <1>1, <1>2, <1>3, <1>4, <1>5, <1>6, <1>7

\* A mount keeps the shape of the tree.
LEMMA StructMount ==
  ASSUME TreeInv, NEW r \in Requests, Mount(r)
  PROVE  Paths' /\ Linked' /\ Replaced' /\ Chains' /\ Held'
<1>0. TypedTree /\ TypedTasks /\ TypedChains /\ None \notin Requests /\ Paths
  BY Typed, ParametersAssumption DEF TreeInv
<1>q. req[r] \in Request
  BY <1>0 DEF TypedTasks
<1>1. PICK p \in Selected(req[r]) : MountEffect(r, p, Backup(p, req[r]))
  BY MountEffects
<1> DEFINE b == Backup(p, req[r])
           c == ContinuedChain(p, b)
<1>2. c \in Nat
  BY <1>0, <1>q, Continuing
<1>e. MountEffect(r, p, b)
  BY <1>1
<1>3. c # NoChain =>
         /\ \E i \in 1..Len(leaves) : /\ leaves[i].chain = c /\ leaves[i].tip # None
                                      /\ leaves[i].tip = IF b = None THEN p ELSE b
         /\ \A s \in Requests : Running(s) => node[s].chain # c
  <2>1. phase = "ACTIVE"
    BY <1>e DEF MountEffect
  <2>2. QED BY <1>q, <2>1, NoRival
<1>d. b # None => node[b].chain = c
  BY DEF ContinuedChain
<1> HIDE DEF b
<1> HIDE DEF c
<1>c. c = ContinuedChain(p, b)
  BY DEF c
<1>4. /\ \A n \in Requests : n # r => Path(n)' = Path(n) /\ Parent(n)' = Parent(n)
      /\ Path(r)' = Append(Path(p), r) /\ Parent(r)' = p
      /\ Path(p)' = Path(p) /\ Path(None)' = Path(None)
      /\ Path(p) \in Seq(Requests) /\ (p # None => Len(Path(p)) > 0 /\ Path(p)[Len(Path(p))] = p)
  BY <1>0, <1>e, MountParents
<1>5. /\ node[r] = NoNode /\ mounted[r] = NoMount /\ pc[r] = "mounting" /\ phase = "ACTIVE" /\ phase' = phase
      /\ node'[r].status = "PENDING" /\ node'[r].path = Append(Path(p), r) /\ node'[r].chain = c
      /\ \A s \in Requests : s # r => node'[s] = node[s] /\ mounted'[s] = mounted[s] /\ pc'[s] = pc[s]
      /\ tree' = (tree \cup {r}) \ {b}
      /\ mounted'[r].backup = b /\ pc'[r] = "generating"
      /\ leaves' = leaves /\ next_chain_id' = next_chain_id
      /\ b # None => b \in Requests /\ b \in tree /\ Done(b) /\ Children(b) = {} /\ b \in Children(p) /\ b # r
      /\ (p = None \/ (p \in tree /\ p \in Requests /\ Done(p))) /\ p # r
  BY <1>e, <1>c DEF MountEffect
<1>6. /\ \A s \in Requests : s # r => (Running(s)' <=> Running(s)) /\ (Done(s)' <=> Done(s)) /\ (Mounted(s)' <=> Mounted(s))
      /\ ~Running(r) /\ Running(r)' /\ ~Done(r) /\ ~Done(r)' /\ ~Mounted(r) /\ Mounted(r)'
  BY <1>5 DEF Running, Done, Mounted, NoNode
<1>7. \A s \in Requests : /\ Mounted(s) => Parent(s) = None \/ (Parent(s) \in Requests /\ Done(Parent(s)) /\ Parent(s) # s /\ Parent(s) # r)
  BY <1>0, <1>6, Parents
<1>8. Paths'
  <2>1. ASSUME NEW n \in Requests, n # r, Mounted(n)' PROVE PathOf(n)'
    <3>1. Mounted(n) /\ PathOf(n)
      BY <1>6, <2>1, <1>0 DEF Paths
    <3>2. node'[n] = node[n] /\ node[n].path \in Seq(Requests)
      BY <1>0, <1>5, <2>1 DEF TypedTree, Nodes
    <3>3. \A i \in 1..(Len(node[n].path) - 1) : node'[node[n].path[i]].status = "COMPLETED"
      <4>1. \A i \in 1..(Len(node[n].path) - 1) : node[n].path[i] \in Requests /\ Done(node[n].path[i])
        BY <3>1, <3>2 DEF PathOf
      <4>2. \A m \in Requests : Done(m) => node'[m].status = "COMPLETED"
        BY <1>5, <1>6 DEF Done
      <4>3. QED BY <4>1, <4>2
    <3>4. Path(Parent(n))' = Path(Parent(n))
      <4>1. Parent(n)' = Parent(n)
        BY <1>4, <2>1
      <4>2. CASE Parent(n) = None
        BY <1>4, <4>1, <4>2
      <4>3. CASE Parent(n) \in Requests /\ Parent(n) # r
        BY <1>4, <4>1, <4>3
      <4>4. QED BY <1>7, <3>1, <4>2, <4>3
    <3>5. QED BY <3>1, <3>2, <3>3, <3>4 DEF PathOf, Done
  <2>2. PathOf(r)'
    <3> DEFINE s == Path(p)
               w == Append(s, r)
    <3>1. s \in Seq(Requests) /\ w \in Seq(Requests) /\ Len(w) = Len(s) + 1 /\ w[Len(s) + 1] = r
          /\ Len(s) \in Nat /\ \A i \in 1..Len(s) : w[i] = s[i] /\ s[i] \in Requests
      BY <1>4
    <3>2. \A i \in 1..Len(s) : Done(s[i])
      <4>1. CASE p = None
        <5>1. s = << >>
          BY <4>1 DEF Path
        <5>2. QED BY <5>1
      <4>2. CASE p # None
        <5>1. p \in Requests /\ Done(p) /\ Mounted(p) /\ s = node[p].path
          BY <1>5, <4>2 DEF Done, Mounted, Path
        <5>2. PathOf(p)
          BY <1>0, <5>1 DEF Paths
        <5>3. \A i \in 1..Len(s) : i \in 1..(Len(s) - 1) \/ i = Len(s)
          BY <3>1
        <5>4. QED BY <5>1, <5>2, <5>3 DEF PathOf
      <4>3. QED BY <4>1, <4>2
    <3>3. \A i \in 1..Len(s) : s[i] # r /\ node'[s[i]].status = "COMPLETED"
      <4>1. \A m \in Requests : Done(m) => m # r /\ node'[m].status = "COMPLETED"
        BY <1>5, <1>6 DEF Done
      <4>2. QED BY <3>1, <3>2, <4>1
    <3>4. \A i, j \in 1..Len(s) : s[i] = s[j] => i = j
      <4>1. CASE p = None
        <5>1. s = << >>
          BY <4>1 DEF Path
        <5>2. QED BY <5>1
      <4>2. CASE p # None
        <5>1. p \in Requests /\ Done(p) /\ Mounted(p) /\ s = node[p].path
          BY <1>5, <4>2 DEF Done, Mounted, Path
        <5>2. QED BY <1>0, <5>1 DEF Paths, PathOf
      <4>3. QED BY <4>1, <4>2
    <3>5. \A i, j \in 1..Len(w) : w[i] = w[j] => i = j
      <4>1. \A i \in 1..Len(w) : i \in 1..Len(s) \/ i = Len(s) + 1
        BY <3>1
      <4>2. QED BY <3>1, <3>3, <3>4, <4>1
    <3>6. \A i \in 1..(Len(w) - 1) : node'[w[i]].status = "COMPLETED"
      <4>1. \A i \in 1..(Len(w) - 1) : i \in 1..Len(s)
        BY <3>1
      <4>2. QED BY <3>1, <3>3, <4>1
    <3>7. node'[r].path = w
      BY <1>5
    <3>8. w = Append(Path(Parent(r))', r)
      BY <1>4
    <3>9. Len(w) > 0 /\ w[Len(w)] = r
      BY <3>1
    <3> HIDE DEF w, s
    <3>10. QED BY <3>5, <3>6, <3>7, <3>8, <3>9 DEF PathOf, Done
  <2>3. QED BY <2>1, <2>2 DEF Paths
<1>9. Linked'
  <2>0. Linked /\ Stages
    BY DEF TreeInv
  <2>1. ASSUME NEW s \in Requests, Running(s)' PROVE s \in tree'
    <3>1. CASE s = r
      BY <1>0, <1>5, <1>6, <3>1
    <3>2. CASE s # r
      <4>1. Running(s) /\ s \in tree /\ ~Done(s)
        BY <1>5, <1>6, <2>0, <2>1, <3>2 DEF Linked, Stages, Done
      <4>2. QED BY <1>0, <1>5, <4>1
    <3>3. QED BY <3>1, <3>2
  <2>2. ASSUME NEW n \in tree' PROVE (Done(n)' \/ Running(n)') /\ (Parent(n)' # None => Parent(n)' \in tree')
    <3>0. tree \subseteq Requests
      BY <1>0 DEF TypedTree
    <3>1. CASE n = r
      <4>1. p # None => p \in tree /\ p # b
        <5>1. ASSUME p # None, p = b PROVE FALSE
          <6>1. Parent(b) = b /\ Mounted(b) /\ b \in Requests
            BY <1>5, <5>1 DEF Children, Done, Mounted
          <6>2. QED BY <1>7, <6>1, <1>0, Parents
        <5>2. QED BY <1>5, <5>1
      <4>2. QED BY <1>4, <1>5, <1>6, <3>1, <4>1
    <3>2. CASE n # r
      <4>1. n \in tree /\ n \in Requests
        BY <1>5, <3>0, <3>2
      <4>2. (Done(n) \/ Running(n)) /\ (Parent(n) # None => Parent(n) \in tree)
        BY <1>5, <2>0, <4>1 DEF Linked
      <4>3. Parent(n) # None => Parent(n) # b
        <5>1. ASSUME Parent(n) # None, Parent(n) = b PROVE FALSE
          <6>1. n \in Children(b)
            BY <4>1, <5>1 DEF Children
          <6>2. QED BY <1>5, <5>1, <6>1
        <5>2. QED BY <5>1
      <4>4. QED BY <1>4, <1>5, <1>6, <3>2, <4>1, <4>2, <4>3
    <3>3. QED BY <3>1, <3>2
  <2>3. QED BY <2>1, <2>2 DEF Linked
<1>10. Replaced'
  <2>0. Replaced
    BY DEF TreeInv
  <2>1. ASSUME NEW s \in Requests PROVE ReplacedBy(s)'
    <3>1. CASE s = r
      <4>1. b # None => Parent(b) = p
        BY <1>5 DEF Children
      <4>2. QED BY <1>4, <1>5, <1>6, <1>d, <3>1, <4>1 DEF ReplacedBy
    <3>2. CASE s # r
      <4>1. ReplacedBy(s) /\ mounted'[s] = mounted[s] /\ node'[s] = node[s]
        BY <1>5, <2>0, <3>2 DEF Replaced
      <4>2. mounted[s].backup \in Requests \cup {None}
        BY <1>0 DEF TypedTasks
      <4>3. mounted[s].backup # None => mounted[s].backup # r /\ node'[mounted[s].backup] = node[mounted[s].backup]
        BY <1>5, <1>6, <4>1, <4>2 DEF ReplacedBy
      <4>4. QED BY <1>4, <1>6, <3>2, <4>1, <4>2, <4>3 DEF ReplacedBy
    <3>3. QED BY <3>1, <3>2
  <2>2. \A s, n \in Requests : s # r => (Replaces(s, n)' <=> Replaces(s, n))
    BY <1>5, <1>6 DEF Replaces
  <2>3. \A n \in Requests : (Replaces(r, n)' <=> n = b) /\ ~Replaces(r, n)
    BY <1>5, <1>6 DEF Replaces
  <2>4. \A n \in Requests : Done(n)' => Done(n) /\ n # r
    BY <1>6
  <2>5. ASSUME NEW n \in Requests, Done(n)'
        PROVE /\ \A u, s \in Requests : Replaces(u, n)' /\ Replaces(s, n)' => u = s
              /\ n \in tree' <=> \A u \in Requests : ~Replaces(u, n)'
    <3>1. /\ \A u, s \in Requests : Replaces(u, n) /\ Replaces(s, n) => u = s
          /\ n \in tree <=> \A u \in Requests : ~Replaces(u, n)
      BY <1>5, <2>0, <2>4, <2>5 DEF Replaced
    <3>2. CASE n = b
      <4>1. b # None /\ n \in tree
        BY <1>0, <1>5, <3>2
      <4>2. \A u \in Requests : ~Replaces(u, n)
        BY <3>1, <4>1
      <4>3. QED BY <1>5, <2>2, <2>3, <3>2, <4>2
    <3>3. CASE n # b
      <4>1. \A u \in Requests : Replaces(u, n)' <=> Replaces(u, n)
        BY <2>2, <2>3, <3>3
      <4>2. n \in tree' <=> n \in tree
        BY <1>5, <2>4, <2>5, <3>3
      <4>3. QED BY <3>1, <4>1, <4>2
    <3>4. QED BY <3>2, <3>3
  <2>6. QED BY <2>1, <2>5 DEF Replaced
<1>11. Chains'
  <2>0. Chains
    BY DEF TreeInv
  <2>1. Chained(leaves')
    BY <1>5, <2>0 DEF Chains
  <2>2. ASSUME NEW i \in 1..Len(leaves')
        PROVE /\ leaves'[i].chain < next_chain_id'
              /\ leaves'[i].tip # None => /\ node'[leaves'[i].tip].status = "COMPLETED"
                                          /\ node'[leaves'[i].tip].chain = leaves'[i].chain
    <3>1. /\ leaves[i].chain < next_chain_id
          /\ leaves[i].tip # None => Done(leaves[i].tip) /\ node[leaves[i].tip].chain = leaves[i].chain
      BY <1>5, <2>0, <2>2 DEF Chains
    <3>2. leaves[i] \in Entries
      BY <1>0, <1>5, <2>2 DEF TypedChains
    <3>3. leaves[i].tip \in Requests \cup {None}
      BY <3>2 DEF Entries
    <3>4. QED BY <1>5, <1>6, <3>1, <3>3 DEF Done
  <2>3. ASSUME NEW n \in Requests
        PROVE node'[n].chain < next_chain_id' /\ (Done(n)' => node'[n].chain # NoChain)
    <3>1. \A m \in Requests : node[m].chain < next_chain_id /\ (Done(m) => node[m].chain # NoChain)
      BY <2>0 DEF Chains
    <3>2. c < next_chain_id
      <4>1. CASE c = NoChain
        BY <1>0, <4>1 DEF TypedChains, NoChain
      <4>2. CASE c # NoChain
        BY <1>3, <2>0, <4>2 DEF Chains
      <4>3. QED BY <4>1, <4>2
    <3>3. QED BY <1>5, <1>6, <3>1, <3>2
  <2>4. QED BY <2>1, <2>2, <2>3 DEF Chains, Done
<1>12. Held'
  <2>0. Held
    BY DEF TreeInv
  <2>1. HeldBy(r)' \/ node'[r].chain = NoChain
    <3>1. Continued(r)' = IF b = None THEN p ELSE b
      BY <1>4, <1>5 DEF Continued
    <3>2. QED BY <1>3, <1>5, <3>1 DEF HeldBy
  <2>2. ASSUME NEW s \in Requests, s # r PROVE HeldBy(s)' <=> HeldBy(s)
    <3>1. Continued(s)' = Continued(s) /\ node'[s] = node[s]
      BY <1>4, <1>5, <2>2 DEF Continued
    <3>2. QED BY <1>5, <3>1 DEF HeldBy
  <2>3. ASSUME NEW s \in Requests, NEW u \in Requests, Running(s)', Running(u)', node'[s].chain # NoChain,
               node'[u].chain = node'[s].chain
        PROVE s = u
    <3>1. CASE s # r /\ u # r
      BY <1>5, <1>6, <2>0, <2>3, <3>1 DEF Held
    <3>2. CASE s = r /\ u # r
      BY <1>3, <1>5, <1>6, <2>3, <3>2
    <3>3. CASE s # r /\ u = r
      BY <1>3, <1>5, <1>6, <2>3, <3>3
    <3>4. QED BY <3>1, <3>2, <3>3
  <2>4. ASSUME NEW s \in Requests, Running(s)', node'[s].chain # NoChain PROVE HeldBy(s)'
    <3>1. CASE s = r
      BY <2>1, <2>4, <3>1
    <3>2. CASE s # r
      BY <1>5, <1>6, <2>0, <2>2, <2>4, <3>2 DEF Held
    <3>3. QED BY <3>1, <3>2
  <2>5. QED BY <2>3, <2>4 DEF Held
<1>13. QED BY <1>8, <1>9, <1>10, <1>11, <1>12

\* A step that leaves the tree alone, but for the tasks that no longer run, and
\* closes a chain that no running task belongs to.
LEMMA StructClosed ==
  ASSUME TreeInv, UNCHANGED <<phase, tree, node, next_chain_id, mounted>>,
         \A r \in Requests : Running(r)' <=> Running(r),
         NEW c \in Nat, c < next_chain_id, ClosedIn(leaves, c, leaves'),
         \A s \in Requests : Running(s) => node[s].chain # c
  PROVE  Paths' /\ Linked' /\ Replaced' /\ Chains' /\ Held'
<1>1. Paths'
  <2>1. node' = node
    OBVIOUS
  <2>2. ASSUME NEW n PROVE PathOf(n)' <=> PathOf(n)
    BY <2>1, Zenon DEF PathOf, Done, Path, Parent
  <2>3. QED BY <2>1, <2>2 DEF TreeInv, Paths, Mounted
<1>0. tree \subseteq Requests
  BY DEF TreeInv, TypeOK
<1>2. Linked'
  BY <1>0 DEF TreeInv, Linked, Running, Done, Path, Parent
<1>3. Replaced'
  BY DEF TreeInv, Replaced, ReplacedBy, Replaces, Running, Done, Mounted, Path, Parent
<1>4. Chains'
  <2>1. Chained(leaves')
    BY DEF ClosedIn
  <2>2. ASSUME NEW i \in 1..Len(leaves')
        PROVE /\ leaves'[i].chain < next_chain_id
              /\ leaves'[i].tip # None => /\ node[leaves'[i].tip].status = "COMPLETED"
                                          /\ node[leaves'[i].tip].chain = leaves'[i].chain
    <3>1. CASE leaves'[i].chain = c /\ leaves'[i].tip = None
      BY <3>1
    <3>2. CASE \E j \in 1..Len(leaves) : leaves'[i] = leaves[j]
      BY <3>2 DEF TreeInv, Chains, Done
    <3>3. QED BY <2>2, <3>1, <3>2 DEF ClosedIn
  <2>3. QED BY <2>1, <2>2 DEF TreeInv, Chains, Done
<1>5. Held'
  <2>1. ASSUME NEW r \in Requests, Running(r), HeldBy(r) PROVE HeldBy(r)'
    <3>1. PICK i \in 1..Len(leaves) : leaves[i].chain = node[r].chain /\ leaves[i].tip # None /\ leaves[i].tip = Continued(r)
      BY <2>1 DEF HeldBy
    <3>2. leaves[i].chain # c
      BY <2>1, <3>1
    <3>3. \E j \in 1..Len(leaves') : leaves'[j] = leaves[i]
      BY <3>2 DEF ClosedIn
    <3>4. Continued(r)' = Continued(r)
      BY DEF Continued, Path, Parent
    <3>5. QED BY <3>1, <3>3, <3>4 DEF HeldBy
  <2>2. QED BY <2>1 DEF TreeInv, Held, Running
<1>6. QED BY <1>1, <1>2, <1>3, <1>4, <1>5

\* Closing an exhausted chain keeps it.
LEMMA StructExhaust ==
  ASSUME TreeInv, NEW r \in Requests, ExhaustCapacity(r)
  PROVE  Paths' /\ Linked' /\ Replaced' /\ Chains' /\ Held'
<1>0. TypedTree /\ TypedTasks /\ TypedChains /\ None \notin Requests
  BY Typed, ParametersAssumption DEF TreeInv
<1>q. req[r] \in Request
  BY <1>0 DEF TypedTasks
<1>1. PICK p \in Selected(req[r]) :
        /\ IF TipOf(ContinuedChain(p, Backup(p, req[r]))) = None
           THEN UNCHANGED <<leaves, dropped>>
           ELSE CloseExhausted(ContinuedChain(p, Backup(p, req[r])),
                  TipOf(ContinuedChain(p, Backup(p, req[r]))), Backup(p, req[r]))
        /\ lock' = None /\ GoTo(r, "length")
        /\ UNCHANGED <<phase, tree, node, next_chain_id, mounted>>
  BY DEF ExhaustCapacity
<1> DEFINE b == Backup(p, req[r])
           c == ContinuedChain(p, b)
<1>2. pc[r] = "mounting" /\ phase = "ACTIVE"
  BY <1>0 DEF ExhaustCapacity, TreeInv, Stages
<1>3. \A s \in Requests : Running(s)' <=> Running(s)
  BY <1>0, <1>1, <1>2 DEF Running, GoTo, TypedTasks
<1>4. CASE TipOf(c) = None
  BY <1>1, <1>3, <1>4, StructQuiet
<1>5. CASE TipOf(c) # None
  <2>1. c \in Nat \ {NoChain} /\ \E i \in 1..Len(leaves) : leaves[i].chain = c
    BY <1>0, <1>5, Tips
  <2>2. \A s \in Requests : Running(s) => node[s].chain # c
    BY <1>q, <1>2, <2>1, NoRival
  <2>3. c < next_chain_id
    BY <2>1 DEF TreeInv, Chains
  <2>4. CloseExhausted(c, TipOf(c), b) /\ b \in Requests \cup {None}
    BY <1>0, <1>1, <1>5, Backed
  <2>5. Chained(leaves)
    BY DEF TreeInv, Chains
  <2> HIDE DEF c, b
  <2>6. ClosedIn(leaves, c, leaves')
    BY <1>0, <1>5, <2>4, <2>5, ClosedTyped
  <2>7. QED BY <1>1, <1>3, <2>1, <2>2, <2>3, <2>6, StructClosed
<1>6. QED BY <1>4, <1>5

\* A commit keeps it.
LEMMA StructCommit ==
  ASSUME TreeInv, NEW r \in Requests, Commit(r)
  PROVE  Paths' /\ Linked' /\ Replaced' /\ Chains' /\ Held'
<1>0. TypedTree /\ TypedTasks /\ TypedChains /\ TypedShared /\ None \notin Requests
  BY Typed, ParametersAssumption DEF TreeInv
<1>1. PICK reply \in Replies, k \in GenLens :
        /\ node' = [node EXCEPT ![r] = CompletedNode(r, reply, k)]
        /\ next_chain_id' = IF node[r].chain = NoChain THEN next_chain_id + 1 ELSE next_chain_id
        /\ leaves' = Register(Entry(ChainOf(r), r, NoTrajectory, 0))
        /\ GoTo(r, "ok")
        /\ UNCHANGED <<phase, tree, mounted>>
  BY DEF Commit
<1> DEFINE c == ChainOf(r)
           e == Entry(c, r, NoTrajectory, 0)
<1>2. pc[r] = "decoding" /\ lock = r /\ phase = "ACTIVE"
  BY <1>0 DEF Commit, TreeInv, Stages
<1>3. Running(r) /\ node[r].status = "PENDING" /\ ~Done(r) /\ Mounted(r)
  BY <1>2 DEF Running, TreeInv, Stages, Done, Mounted
<1>4. /\ node'[r].status = "COMPLETED" /\ node'[r].path = node[r].path /\ node'[r].chain = c
      /\ \A s \in Requests : s # r => node'[s] = node[s]
  <2>1. node[r] \in Nodes
    BY <1>0 DEF TypedTree
  <2>2. node'[r] = CompletedNode(r, reply, k) /\ \A s \in Requests : s # r => node'[s] = node[s]
    BY <1>0, <1>1 DEF TypedTree
  <2>3. /\ CompletedNode(r, reply, k).status = "COMPLETED" /\ CompletedNode(r, reply, k).path = node[r].path
        /\ CompletedNode(r, reply, k).chain = c
    BY <2>1 DEF CompletedNode, Nodes
  <2>4. QED BY <2>2, <2>3
<1>5. pc'[r] = "ok" /\ \A s \in Requests : s # r => pc'[s] = pc[s]
  BY <1>0, <1>1 DEF GoTo, TypedTasks
<1>6. /\ \A s \in Requests : s # r => (Running(s)' <=> Running(s)) /\ (Done(s)' <=> Done(s)) /\ (Mounted(s)' <=> Mounted(s))
      /\ Done(r)' /\ Mounted(r)' /\ ~Running(r)'
  BY <1>4, <1>5 DEF Running, Done, Mounted
<1>7. c \in Nat \ {NoChain}
  <2>1. node[r].chain \in Nat
    BY <1>0 DEF TypedTree, Nodes
  <2>2. QED BY <1>0, <2>1 DEF ChainOf, TypedChains
<1>8. KeptWith(leaves, e, leaves') /\ e.chain = c /\ e.tip = r
  <2>1. NoTrajectory \in Trajectory
    BY DEF NoTrajectory, Trajectory
  <2>2. e \in Entries
    BY <1>7, <2>1 DEF Entry, Entries
  <2>3. leaves \in Seq(Entries) /\ Chained(leaves)
    BY <1>0 DEF TypedChains, TreeInv, Chains
  <2>4. KeptWith(leaves, e, Register(e))
    BY <2>2, <2>3, Registered
  <2>5. QED BY <1>1, <2>4 DEF Entry
<1>c. c = IF node[r].chain = NoChain THEN next_chain_id ELSE node[r].chain
  BY DEF ChainOf
<1>n. \A s \in Requests : node[s].chain \in Nat /\ node[s].chain < next_chain_id /\ next_chain_id \in Nat
  BY <1>0 DEF TypedTree, Nodes, TypedChains, TreeInv, Chains
<1> HIDE DEF e, c
<1>9. \A n : Path(n)' = Path(n) /\ Parent(n)' = Parent(n)
  <2>1. \A n : n # None => node'[n].path = node[n].path
    BY <1>1, <1>4
  <2>2. \A n : Path(n)' = Path(n)
    BY <2>1 DEF Path
  <2>3. QED BY <2>2 DEF Parent
<1>10. Paths'
  <2>1. ASSUME NEW n \in Requests, Mounted(n)' PROVE PathOf(n)'
    <3>1. Mounted(n) /\ PathOf(n)
      BY <1>3, <1>6, <2>1 DEF TreeInv, Paths
    <3>2. node'[n].path = node[n].path /\ node[n].path \in Seq(Requests)
      BY <1>0, <1>4 DEF TypedTree, Nodes
    <3>3. \A i \in 1..(Len(node[n].path) - 1) : node'[node[n].path[i]].status = "COMPLETED"
      <4>1. \A i \in 1..(Len(node[n].path) - 1) : node[n].path[i] \in Requests /\ Done(node[n].path[i])
        BY <3>1, <3>2 DEF PathOf
      <4>2. \A m \in Requests : Done(m) => node'[m].status = "COMPLETED"
        BY <1>4 DEF Done
      <4>3. QED BY <4>1, <4>2
    <3>4. Path(Parent(n))' = Path(Parent(n))
      BY <1>9
    <3>5. QED BY <3>1, <3>2, <3>3, <3>4 DEF PathOf, Done
  <2>2. QED BY <2>1 DEF Paths
<1>11. Linked'
  <2>0. Linked /\ tree \subseteq Requests /\ tree' = tree
    BY <1>0, <1>1 DEF TreeInv, TypedTree
  <2>1. ASSUME NEW s \in Requests, Running(s)' PROVE s \in tree'
    BY <1>2, <1>6, <2>0, <2>1 DEF Linked
  <2>2. ASSUME NEW n \in tree' PROVE (Done(n)' \/ Running(n)') /\ (Parent(n)' # None => Parent(n)' \in tree')
    BY <1>2, <1>6, <1>9, <2>0, <2>2 DEF Linked
  <2>3. QED BY <2>1, <2>2 DEF Linked
<1>12. Replaced'
  <2>0. Replaced /\ mounted' = mounted /\ tree' = tree
    BY <1>1 DEF TreeInv
  <2>1. ASSUME NEW s \in Requests PROVE ReplacedBy(s)'
    <3>1. ReplacedBy(s) /\ mounted[s].backup \in Requests \cup {None}
      BY <1>0, <2>0 DEF Replaced, TypedTasks
    <3>2. CASE mounted[s].backup = None
      BY <2>0, <3>2 DEF ReplacedBy
    <3>3. CASE mounted[s].backup # None
      <4> DEFINE b == mounted[s].backup
      <4>1. b \in Requests /\ b # r /\ Done(b) /\ node[b].chain = node[s].chain /\ Parent(b) = Parent(s) /\ Mounted(s)
        BY <1>3, <3>1, <3>3 DEF ReplacedBy
      <4>2. node[b].chain # NoChain
        BY <4>1 DEF TreeInv, Chains
      <4>3. node'[s].chain = node[s].chain
        BY <1>4, <1>c, <4>1, <4>2
      <4>4. node'[b] = node[b]
        BY <1>4, <4>1
      <4>5. QED BY <1>6, <1>9, <2>0, <4>1, <4>3, <4>4 DEF ReplacedBy, Done
    <3>4. QED BY <3>2, <3>3
  <2>2. \A s, n \in Requests : Replaces(s, n)' <=> Replaces(s, n)
    BY <1>3, <1>6, <2>0 DEF Replaces
  <2>3. ASSUME NEW n \in Requests, Done(n)'
        PROVE /\ \A u, s \in Requests : Replaces(u, n)' /\ Replaces(s, n)' => u = s
              /\ n \in tree' <=> \A u \in Requests : ~Replaces(u, n)'
    <3>1. CASE n = r
      <4>1. \A u \in Requests : ~Replaces(u, r)
        BY <1>0, <1>3, <2>0 DEF Replaces, Replaced, ReplacedBy
      <4>2. r \in tree
        BY <1>2, <1>3 DEF TreeInv, Linked
      <4>3. QED BY <2>0, <2>2, <3>1, <4>1, <4>2
    <3>2. CASE n # r
      <4>1. Done(n)
        BY <1>6, <2>3, <3>2
      <4>2. /\ \A u, s \in Requests : Replaces(u, n) /\ Replaces(s, n) => u = s
            /\ n \in tree <=> \A u \in Requests : ~Replaces(u, n)
        BY <1>2, <2>0, <4>1 DEF Replaced
      <4>3. QED BY <2>0, <2>2, <4>2
    <3>3. QED BY <3>1, <3>2
  <2>4. QED BY <2>1, <2>3 DEF Replaced
<1>13. Chains'
  <2>1. Chained(leaves')
    BY <1>8 DEF KeptWith
  <2>d. c < next_chain_id' /\ next_chain_id' \in Nat /\ next_chain_id <= next_chain_id'
    BY <1>1, <1>c, <1>n, <1>7
  <2>2. ASSUME NEW i \in 1..Len(leaves')
        PROVE /\ leaves'[i].chain < next_chain_id'
              /\ leaves'[i].tip # None => /\ node'[leaves'[i].tip].status = "COMPLETED"
                                          /\ node'[leaves'[i].tip].chain = leaves'[i].chain
    <3>1. CASE leaves'[i] = e
      BY <1>4, <1>8, <2>d, <3>1
    <3>2. CASE \E j \in 1..Len(leaves) : leaves'[i] = leaves[j]
      <4>1. PICK j \in 1..Len(leaves) : leaves'[i] = leaves[j]
        BY <3>2
      <4>2. /\ leaves[j].chain < next_chain_id
            /\ leaves[j].tip # None => Done(leaves[j].tip) /\ node[leaves[j].tip].chain = leaves[j].chain
        BY DEF TreeInv, Chains
      <4>3. leaves[j].tip \in Requests \cup {None} /\ leaves[j].chain \in Nat
        <5>1. leaves[j] \in Entries
          BY <1>0 DEF TypedChains
        <5>2. QED BY <5>1 DEF Entries
      <4>4. leaves[j].chain < next_chain_id'
        BY <1>n, <2>d, <4>2, <4>3
      <4>5. leaves[j].tip # None => leaves[j].tip # r
        BY <1>3, <4>2
      <4>6. QED BY <1>4, <4>1, <4>2, <4>3, <4>4, <4>5 DEF Done
    <3>3. QED BY <1>8, <2>2, <3>1, <3>2 DEF KeptWith
  <2>3. ASSUME NEW n \in Requests
        PROVE node'[n].chain < next_chain_id' /\ (Done(n)' => node'[n].chain # NoChain)
    <3>1. CASE n = r
      BY <1>4, <1>7, <2>d, <3>1
    <3>2. CASE n # r
      <4>1. Done(n)' => node[n].chain # NoChain
        BY <1>6, <3>2 DEF TreeInv, Chains
      <4>2. node'[n] = node[n]
        BY <1>4, <3>2
      <4>3. QED BY <1>n, <2>d, <4>1, <4>2
    <3>3. QED BY <3>1, <3>2
  <2>4. QED BY <2>1, <2>2, <2>3 DEF Chains, Done
<1>14. Held'
  <2>1. ASSUME NEW s \in Requests, s # r, Running(s), node[s].chain # NoChain
        PROVE node[s].chain # c /\ HeldBy(s)'
    <3>1. node[s].chain # c
      <4>1. CASE node[r].chain = NoChain
        BY <1>c, <1>n, <4>1
      <4>2. CASE node[r].chain # NoChain
        BY <1>2, <1>3, <1>c, <2>1, <4>2 DEF TreeInv, Held
      <4>3. QED BY <4>1, <4>2
    <3>2. PICK i \in 1..Len(leaves) : leaves[i].chain = node[s].chain /\ leaves[i].tip # None /\ leaves[i].tip = Continued(s)
      BY <1>2, <2>1 DEF TreeInv, Held, HeldBy
    <3>3. \E j \in 1..Len(leaves') : leaves'[j] = leaves[i]
      BY <1>8, <3>1, <3>2 DEF KeptWith
    <3>4. Continued(s)' = Continued(s) /\ node'[s] = node[s]
      BY <1>1, <1>4, <1>9, <2>1 DEF Continued
    <3>5. QED BY <3>1, <3>2, <3>3, <3>4 DEF HeldBy
  <2>2. ASSUME NEW s \in Requests, Running(s)', node'[s].chain # NoChain
        PROVE HeldBy(s)' /\ \A u \in Requests : Running(u)' /\ node'[u].chain = node'[s].chain => s = u
    <3>1. s # r /\ Running(s) /\ node'[s] = node[s] /\ node[s].chain # NoChain
      BY <1>4, <1>6, <2>2
    <3>2. HeldBy(s)'
      BY <2>1, <3>1
    <3>3. ASSUME NEW u \in Requests, Running(u)', node'[u].chain = node'[s].chain PROVE s = u
      <4>1. u # r /\ Running(u) /\ node'[u] = node[u]
        BY <1>4, <1>6, <3>3
      <4>2. QED BY <1>2, <3>1, <3>3, <4>1 DEF TreeInv, Held
    <3>4. QED BY <3>2, <3>3
  <2>3. QED BY <2>2 DEF Held
<1>15. QED BY <1>10, <1>11, <1>12, <1>13, <1>14

\* Taking a node out again, and putting back what it replaced, keeps it.
LEMMA StructUnwind ==
  ASSUME TreeInv, NEW r \in Requests, Unwind(r)
  PROVE  Paths' /\ Linked' /\ Replaced' /\ Chains' /\ Held'
<1>0. TypedTree /\ TypedTasks /\ TypedChains /\ None \notin Requests /\ Paths
  BY Typed, ParametersAssumption DEF TreeInv
<1>1. /\ pc[r] = "unwinding" /\ tree' = RolledBack(r)
      /\ UNCHANGED <<phase, node, leaves, next_chain_id, mounted>>
  BY DEF Unwind
<1>2. pc'[r] = "failed" /\ \A s \in Requests : s # r => pc'[s] = pc[s]
  BY <1>0 DEF Unwind, GoTo, TypedTasks
<1>3. Running(r) /\ node[r].status = "PENDING" /\ ~Done(r) /\ Mounted(r)
  BY <1>1 DEF Running, TreeInv, Stages, Done, Mounted
<1>4. ~Running(r)' /\ \A s \in Requests : s # r => (Running(s)' <=> Running(s))
  BY <1>2 DEF Running
<1>5. \A n : Path(n)' = Path(n) /\ Parent(n)' = Parent(n) /\ (Done(n)' <=> Done(n)) /\ (Mounted(n)' <=> Mounted(n))
  BY <1>1 DEF Path, Parent, Done, Mounted
<1>6. Paths'
  <2>1. ASSUME NEW n PROVE PathOf(n)' <=> PathOf(n)
    BY <1>1, Zenon DEF PathOf, Done, Path, Parent
  <2>2. QED BY <1>5, <2>1 DEF TreeInv, Paths
<1> DEFINE b == mounted[r].backup
<1>7. b # None => b \in Requests /\ Done(b) /\ Parent(b) = Parent(r) /\ Mounted(b) /\ b # r
  <2>1. b \in Requests \cup {None}
    BY <1>0 DEF TypedTasks
  <2>2. QED BY <1>3, <2>1 DEF TreeInv, Replaced, ReplacedBy, Done, Mounted
<1>8. Parent(r) = None \/ (Parent(r) \in Requests /\ Done(Parent(r)) /\ Parent(r) # r)
  BY <1>0, <1>3, Parents
<1>9. phase = "ACTIVE" => tree' = (tree \ {r}) \cup ({b} \ {None})
  BY <1>1 DEF RolledBack
<1> HIDE DEF b
<1>10. Linked'
  <2> SUFFICES ASSUME phase = "ACTIVE"
               PROVE /\ \A s \in Requests : Running(s)' => s \in tree'
                     /\ \A n \in tree' : (Done(n)' \/ Running(n)') /\ (Parent(n)' # None => Parent(n)' \in tree')
    BY <1>1 DEF Linked
  <2>0. /\ \A s \in Requests : Running(s) => s \in tree
        /\ \A n \in tree : (Done(n) \/ Running(n)) /\ (Parent(n) # None => Parent(n) \in tree)
        /\ tree \subseteq Requests
    BY <1>0 DEF TreeInv, Linked, TypedTree
  <2>1. ASSUME NEW s \in Requests, Running(s)' PROVE s \in tree'
    BY <1>4, <1>9, <2>0, <2>1
  <2>2. ASSUME NEW n \in tree' PROVE (Done(n)' \/ Running(n)') /\ (Parent(n)' # None => Parent(n)' \in tree')
    <3>1. CASE n = b /\ b # None
      <4>1. Parent(n) # None => Parent(n) \in tree /\ Parent(n) # r
        BY <1>3, <1>7, <1>8, <2>0, <3>1
      <4>2. QED BY <1>5, <1>7, <1>9, <3>1, <4>1
    <3>2. CASE n \in tree /\ n # r
      <4>1. Mounted(n) /\ n \in Requests /\ (Done(n) \/ Running(n))
        BY <2>0, <3>2 DEF Mounted, Done, TreeInv, Stages
      <4>2. Parent(n) = None \/ Parent(n) # r
        BY <1>0, <1>3, <4>1, Parents
      <4>3. QED BY <1>4, <1>5, <1>9, <2>0, <3>2, <4>1, <4>2
    <3>3. QED BY <1>9, <2>2, <3>1, <3>2
  <2>3. QED BY <2>1, <2>2
<1>11. Replaced'
  <2>1. \A s \in Requests : ReplacedBy(s)'
    BY <1>1, <1>5 DEF TreeInv, Replaced, ReplacedBy
  <2>2. \A s, n \in Requests : Replaces(s, n)' <=> Replaces(s, n) /\ s # r
    BY <1>1, <1>3, <1>4, <1>5 DEF Replaces
  <2>3. \A n \in Requests : Replaces(r, n) <=> b = n
    BY <1>3 DEF Replaces, b
  <2>4. ASSUME phase = "ACTIVE", NEW n \in Requests, Done(n)
        PROVE /\ \A u, s \in Requests : Replaces(u, n)' /\ Replaces(s, n)' => u = s
              /\ n \in tree' <=> \A u \in Requests : ~Replaces(u, n)'
    <3>1. /\ \A u, s \in Requests : Replaces(u, n) /\ Replaces(s, n) => u = s
          /\ n \in tree <=> \A u \in Requests : ~Replaces(u, n)
      BY <2>4 DEF TreeInv, Replaced
    <3>2. n # r
      BY <1>3, <2>4
    <3>3. CASE n = b
      BY <1>0, <1>9, <2>2, <2>3, <2>4, <3>1, <3>3
    <3>4. CASE n # b
      BY <1>9, <2>2, <2>3, <2>4, <3>1, <3>2, <3>4
    <3>5. QED BY <3>3, <3>4
  <2>5. QED BY <1>1, <1>5, <2>1, <2>4 DEF Replaced
<1>12. Chains'
  BY <1>1 DEF TreeInv, Chains, Chained, Done
<1>13. Held'
  <2>1. \A s \in Requests : HeldBy(s)' <=> HeldBy(s)
    BY <1>1, <1>5 DEF HeldBy, Continued
  <2>2. QED BY <1>1, <1>4, <2>1 DEF TreeInv, Held
<1>14. QED BY <1>6, <1>10, <1>11, <1>12, <1>13

\* The end of the session keeps it.
LEMMA StructClose ==
  ASSUME TreeInv, FinishClose
  PROVE  Paths' /\ Linked' /\ Replaced' /\ Chains' /\ Held'
<1>1. /\ phase' # "ACTIVE" /\ tree' = {} /\ leaves' = << >>
      /\ UNCHANGED <<node, next_chain_id, mounted, pc>>
  <2>1. closer \in {"FINALIZED", "ABORTED"}
    BY DEF FinishClose, TreeInv, TypeOK
  <2>2. QED BY <2>1 DEF FinishClose
<1>2. Paths'
  <2>1. ASSUME NEW n PROVE PathOf(n)' <=> PathOf(n)
    BY <1>1, Zenon DEF PathOf, Done, Path, Parent
  <2>2. QED BY <1>1, <2>1 DEF TreeInv, Paths, Mounted
<1>3. Linked' /\ Held'
  BY <1>1 DEF Linked, Held
<1>4. Replaced'
  BY <1>1 DEF TreeInv, Replaced, ReplacedBy, Mounted, Done, Path, Parent
<1>5. Chains'
  BY <1>1 DEF TreeInv, Chains, Chained, Done
<1>6. QED BY <1>2, <1>3, <1>4, <1>5

\* Every step keeps the nodes where their tasks are.
LEMMA StagesStep ==
  ASSUME TreeInv, Next
  PROVE  Stages'
<1>0. TypedTree /\ TypedTasks /\ TypedShared /\ None \notin Requests /\ Stages
  BY Typed, ParametersAssumption DEF TreeInv
<1> DEFINE Stage(s) == /\ pc[s] \in {"queued", "mounting", "waiting"} => ~Mounted(s) /\ mounted[s] = NoMount
                       /\ Running(s) => node[s].status = "PENDING"
                       /\ Done(s) => pc[s] = "ok"
                       /\ ~Mounted(s) => node[s] = NoNode
                       /\ pc[s] \in {"mounting", "decoding"} <=> lock = s
           Locking == (lock # None => closer = "idle" /\ phase = "ACTIVE") /\ (closer # "idle" => phase = "ACTIVE")
<1>1. Locking /\ \A s \in Requests : Stage(s)
  BY <1>0, Zenon DEF Stages
<1>2. ASSUME \A s \in Requests : Stage(s)', Locking' PROVE Stages'
  BY <1>2, Zenon DEF Stages
<1>3. \A r \in Requests : \A label : GoTo(r, label) => pc'[r] = label /\ \A s \in Requests : s # r => pc'[s] = pc[s]
  BY <1>0 DEF GoTo, TypedTasks
\* A task moves; the nodes and what is mounted do not.
<1>4. ASSUME NEW r \in Requests, NEW label, UNCHANGED <<node, mounted, phase, closer>>, GoTo(r, label), Locking',
             \/ lock' = lock /\ ((label \in {"mounting", "decoding"}) <=> lock = r)
             \/ lock' = None /\ (lock = r \/ lock = None) /\ label \notin {"mounting", "decoding"}
             \/ lock' = r /\ lock = None /\ label \in {"mounting", "decoding"},
             label \in {"queued", "mounting", "waiting"} => ~Mounted(r) /\ mounted[r] = NoMount,
             label \in {"generating", "decoding", "unwinding"} => node[r].status = "PENDING",
             Done(r) => label = "ok"
      PROVE Stages'
  <2>1. pc'[r] = label /\ \A s \in Requests : s # r => pc'[s] = pc[s]
    BY <1>3, <1>4
  <2>2. ASSUME NEW s \in Requests PROVE Stage(s)'
    <3>1. Stage(s)
      BY <1>1
    <3>2. CASE s = r
      BY <1>0, <1>4, <2>1, <3>1, <3>2 DEF Running, Mounted, Done
    <3>3. CASE s # r
      BY <1>0, <1>4, <2>1, <3>1, <3>3 DEF Running, Mounted, Done
    <3>4. QED BY <3>2, <3>3
  <2>3. QED BY <1>2, <1>4, <2>2
<1>5. ASSUME NEW r \in Requests, ~Done(r), pc[r] # "decoding", pc[r] # "mounting" PROVE lock # r
  BY <1>1, <1>5
<1>6. \A r \in Requests : /\ pc[r] # "ok" => ~Done(r)
                          /\ pc[r] \in {"mounting", "decoding"} <=> lock = r
                          /\ pc[r] \in {"queued", "mounting", "waiting"} => ~Mounted(r) /\ mounted[r] = NoMount
                          /\ Running(r) => node[r].status = "PENDING"
  BY <1>1
<1>10. ASSUME NEW r \in Requests, Reject(r) PROVE Stages'
  <2>1. /\ GoTo(r, "failed") /\ UNCHANGED <<node, mounted, phase, closer, lock>> /\ pc[r] = "queued"
        /\ lock # r /\ Locking'
    BY <1>1, <1>6, <1>10 DEF Reject, session
  <2>2. QED BY <1>4, <1>6, <2>1
<1>11. ASSUME NEW r \in Requests, Join(r) PROVE Stages'
  <2>1. /\ GoTo(r, "waiting") /\ UNCHANGED <<node, mounted, phase, closer, lock>> /\ pc[r] = "queued"
        /\ lock # r /\ Locking'
    BY <1>1, <1>6, <1>11 DEF Join, session
  <2>2. QED BY <1>4, <1>6, <2>1
<1>12. ASSUME NEW r \in Requests, StartMount(r) PROVE Stages'
  <2>1. /\ GoTo(r, "mounting") /\ UNCHANGED <<node, mounted, phase, closer>> /\ pc[r] = "queued"
        /\ lock = None /\ lock' = r /\ Locking'
    BY <1>1, <1>6, <1>12 DEF StartMount, session, Free
  <2>2. QED BY <1>4, <1>6, <2>1
<1>13. ASSUME NEW r \in Requests, Mount(r) PROVE Stages'
  <2>1. PICK p \in Selected(req[r]) : MountEffect(r, p, Backup(p, req[r]))
    BY <1>13, MountEffects
  <2>2. /\ node'[r].status = "PENDING" /\ pc'[r] = "generating" /\ pc[r] = "mounting"
        /\ \A s \in Requests : s # r => node'[s] = node[s] /\ mounted'[s] = mounted[s] /\ pc'[s] = pc[s]
    BY <2>1 DEF MountEffect
  <2>3. lock' = None /\ closer' = closer /\ phase' = phase
    BY <1>13 DEF Mount
  <2>4. lock = r
    BY <1>6, <2>2
  <2>5. ASSUME NEW s \in Requests PROVE Stage(s)'
    <3>1. CASE s = r
      BY <1>0, <2>2, <2>3, <3>1 DEF Running, Mounted, Done
    <3>2. CASE s # r
      <4>1. Stage(s)
        BY <1>1
      <4>2. QED BY <1>0, <2>2, <2>3, <2>4, <3>2, <4>1 DEF Running, Mounted, Done
    <3>3. QED BY <3>1, <3>2
  <2>6. Locking'
    BY <1>1, <2>3
  <2>7. QED BY <1>2, <2>5, <2>6
<1>14. ASSUME NEW r \in Requests, ExhaustCapacity(r) PROVE Stages'
  <2>1. /\ GoTo(r, "length") /\ UNCHANGED <<node, mounted, phase, closer>> /\ pc[r] = "mounting"
        /\ lock' = None /\ lock = r /\ Locking'
    BY <1>1, <1>6, <1>14 DEF ExhaustCapacity
  <2>2. QED BY <1>4, <1>6, <2>1
<1>15. ASSUME NEW r \in Requests, StartCommit(r) PROVE Stages'
  <2>1. /\ GoTo(r, "decoding") /\ UNCHANGED <<node, mounted, phase, closer>> /\ pc[r] = "generating"
        /\ lock = None /\ lock' = r /\ Locking' /\ Running(r)
    BY <1>1, <1>6, <1>15 DEF StartCommit, session, Free, Running
  <2>2. QED BY <1>4, <1>6, <2>1
<1>16. ASSUME NEW r \in Requests, Commit(r) PROVE Stages'
  <2>1. /\ GoTo(r, "ok") /\ UNCHANGED <<mounted, phase, closer>> /\ pc[r] = "decoding"
        /\ lock' = None /\ lock = r /\ Locking'
    BY <1>1, <1>6, <1>16 DEF Commit
  <2>2. PICK reply \in Replies, k \in GenLens : node' = [node EXCEPT ![r] = CompletedNode(r, reply, k)]
    BY <1>16 DEF Commit
  <2>3. node'[r].status = "COMPLETED" /\ \A s \in Requests : s # r => node'[s] = node[s]
    <3>1. node[r] \in Nodes
      BY <1>0 DEF TypedTree
    <3>2. CompletedNode(r, reply, k).status = "COMPLETED"
      BY <3>1 DEF CompletedNode, Nodes
    <3>3. QED BY <1>0, <2>2, <3>2 DEF TypedTree
  <2>4. pc'[r] = "ok" /\ \A s \in Requests : s # r => pc'[s] = pc[s]
    BY <1>3, <2>1
  <2>5. ASSUME NEW s \in Requests PROVE Stage(s)'
    <3>1. CASE s = r
      BY <1>0, <2>1, <2>3, <2>4, <3>1 DEF Running, Mounted, Done
    <3>2. CASE s # r
      <4>1. Stage(s)
        BY <1>1
      <4>2. QED BY <1>0, <2>1, <2>3, <2>4, <3>2, <4>1 DEF Running, Mounted, Done
    <3>3. QED BY <3>1, <3>2
  <2>6. QED BY <1>2, <2>1, <2>5
<1>17. ASSUME NEW r \in Requests, CommitTooLate(r) PROVE Stages'
  <2>1. /\ GoTo(r, "unwinding") /\ UNCHANGED <<node, mounted, phase, closer, lock>> /\ pc[r] = "generating"
        /\ lock # r /\ Locking' /\ Running(r)
    BY <1>1, <1>6, <1>17 DEF CommitTooLate, session, Running
  <2>2. QED BY <1>4, <1>6, <2>1
<1>18. ASSUME NEW r \in Requests, Unwind(r) PROVE Stages'
  <2>1. /\ GoTo(r, "failed") /\ UNCHANGED <<node, mounted, phase, closer, lock>> /\ pc[r] = "unwinding"
        /\ lock # r /\ Locking'
    BY <1>1, <1>6, <1>18 DEF Unwind
  <2>2. QED BY <1>4, <1>6, <2>1
<1>19. ASSUME NEW r \in Requests, Wake(r) PROVE Stages'
  <2>1. /\ UNCHANGED <<node, mounted, phase, closer, lock>> /\ pc[r] = "waiting"
        /\ lock # r /\ Locking' /\ (GoTo(r, "ok") \/ GoTo(r, "failed"))
    BY <1>1, <1>6, <1>19 DEF Wake, session
  <2>2. QED BY <1>4, <1>6, <2>1
<1>20. ASSUME NEW r \in Requests, FailUnmounted(r) PROVE Stages'
  <2>1. /\ UNCHANGED <<node, mounted, phase, closer>> /\ pc[r] \in {"queued", "mounting", "waiting"}
        /\ lock' = (IF lock = r THEN None ELSE lock) /\ Locking' /\ GoTo(r, "failed")
    BY <1>1, <1>20 DEF FailUnmounted, session
  <2>2. QED BY <1>4, <1>6, <2>1
<1>21. ASSUME NEW r \in Requests, FailMounted(r) PROVE Stages'
  <2>1. /\ UNCHANGED <<node, mounted, phase, closer>> /\ pc[r] \in {"generating", "decoding"} /\ Running(r)
        /\ lock' = (IF lock = r THEN None ELSE lock) /\ Locking' /\ GoTo(r, "unwinding")
    BY <1>1, <1>21 DEF FailMounted, session, Running
  <2>2. QED BY <1>4, <1>6, <2>1
<1>f. ASSUME UNCHANGED <<node, mounted, lock, pc>>, Locking' PROVE Stages'
  <2>1. ASSUME NEW s \in Requests PROVE Stage(s)'
    <3>1. Stage(s)
      BY <1>1
    <3>2. QED BY <1>f, <3>1 DEF Running, Mounted, Done
  <2>2. QED BY <1>2, <1>f, <2>1
<1>22. ASSUME StartFinalize PROVE Stages'
  <2>1. UNCHANGED <<node, mounted, lock, pc>> /\ Locking'
    BY <1>22 DEF StartFinalize, Free
  <2>2. QED BY <1>f, <2>1
<1>23. ASSUME StartAbort PROVE Stages'
  <2>1. UNCHANGED <<node, mounted, lock, pc>> /\ Locking'
    BY <1>23 DEF StartAbort, Free, session
  <2>2. QED BY <1>f, <2>1
<1>24. ASSUME FinishClose PROVE Stages'
  <2>1. UNCHANGED <<node, mounted, lock, pc>> /\ Locking'
    BY <1>1, <1>24 DEF FinishClose
  <2>2. QED BY <1>f, <2>1
<1>25. ASSUME CancelClose PROVE Stages'
  <2>1. UNCHANGED <<node, mounted, lock, pc>> /\ Locking'
    BY <1>1, <1>25 DEF CancelClose
  <2>2. QED BY <1>f, <2>1
<1>26. ASSUME Terminated PROVE Stages'
  <2>1. UNCHANGED <<node, mounted, lock, pc>> /\ Locking'
    BY <1>1, <1>26 DEF Terminated, vars, session
  <2>2. QED BY <1>f, <2>1
<1>27. QED
  BY <1>10, <1>11, <1>12, <1>13, <1>14, <1>15, <1>16, <1>17, <1>18, <1>19, <1>20, <1>21,
     <1>22, <1>23, <1>24, <1>25, <1>26 DEF Next, Step

\* Every step keeps the shape of the tree.
LEMMA StructStep ==
  ASSUME TreeInv, Next
  PROVE  Paths' /\ Linked' /\ Replaced' /\ Chains' /\ Held'
<1>0. TypedTasks /\ Stages
  BY Typed DEF TreeInv
<1>1. ASSUME NEW r \in Requests, NEW label, GoTo(r, label),
             UNCHANGED <<phase, tree, node, leaves, next_chain_id, mounted>>,
             Running(r) <=> label \in {"generating", "decoding", "unwinding"}
      PROVE Paths' /\ Linked' /\ Replaced' /\ Chains' /\ Held'
  <2>1. \A s \in Requests : Running(s)' <=> Running(s)
    BY <1>0, <1>1 DEF Running, GoTo, TypedTasks
  <2>2. QED BY <1>1, <2>1, StructQuiet
<1>2. ASSUME UNCHANGED <<phase, tree, node, leaves, next_chain_id, mounted, pc>>
      PROVE Paths' /\ Linked' /\ Replaced' /\ Chains' /\ Held'
  <2>1. \A s \in Requests : Running(s)' <=> Running(s)
    BY <1>2 DEF Running
  <2>2. QED BY <1>2, <2>1, StructQuiet
<1>10. ASSUME NEW r \in Requests, Reject(r) PROVE Paths' /\ Linked' /\ Replaced' /\ Chains' /\ Held'
  BY <1>1, <1>10 DEF Reject, session, Running
<1>11. ASSUME NEW r \in Requests, Join(r) PROVE Paths' /\ Linked' /\ Replaced' /\ Chains' /\ Held'
  BY <1>1, <1>11 DEF Join, session, Running
<1>12. ASSUME NEW r \in Requests, StartMount(r) PROVE Paths' /\ Linked' /\ Replaced' /\ Chains' /\ Held'
  BY <1>1, <1>12 DEF StartMount, session, Running
<1>15. ASSUME NEW r \in Requests, StartCommit(r) PROVE Paths' /\ Linked' /\ Replaced' /\ Chains' /\ Held'
  BY <1>1, <1>15 DEF StartCommit, session, Running
<1>17. ASSUME NEW r \in Requests, CommitTooLate(r) PROVE Paths' /\ Linked' /\ Replaced' /\ Chains' /\ Held'
  BY <1>1, <1>17 DEF CommitTooLate, session, Running
<1>19. ASSUME NEW r \in Requests, Wake(r) PROVE Paths' /\ Linked' /\ Replaced' /\ Chains' /\ Held'
  BY <1>1, <1>19 DEF Wake, session, Running
<1>20. ASSUME NEW r \in Requests, FailUnmounted(r) PROVE Paths' /\ Linked' /\ Replaced' /\ Chains' /\ Held'
  BY <1>1, <1>20 DEF FailUnmounted, session, Running
<1>21. ASSUME NEW r \in Requests, FailMounted(r) PROVE Paths' /\ Linked' /\ Replaced' /\ Chains' /\ Held'
  BY <1>1, <1>21 DEF FailMounted, session, Running
<1>22. ASSUME StartFinalize \/ StartAbort \/ CancelClose \/ Terminated
       PROVE Paths' /\ Linked' /\ Replaced' /\ Chains' /\ Held'
  BY <1>2, <1>22 DEF StartFinalize, StartAbort, CancelClose, Terminated, session, vars
<1>27. QED
  BY <1>10, <1>11, <1>12, <1>15, <1>17, <1>19, <1>20, <1>21, <1>22,
     StructMount, StructExhaust, StructCommit, StructUnwind, StructClose DEF Next, Step

\* The invariant is inductive.
LEMMA TreeStep == TreeInv /\ [Next]_vars => TreeInv'
<1> SUFFICES ASSUME TreeInv, [Next]_vars PROVE TreeInv'
  OBVIOUS
<1>1. CASE Next
  <2>1. TypeOK'
    BY <1>1, TypesStep DEF TreeInv, Chains
  <2>2. Stages'
    BY <1>1, StagesStep
  <2>3. Paths' /\ Linked' /\ Replaced' /\ Chains' /\ Held'
    BY <1>1, StructStep
  <2>4. QED BY <2>1, <2>2, <2>3 DEF TreeInv
<1>2. CASE UNCHANGED vars
  <2>1. UNCHANGED <<phase, tree, node, leaves, next_chain_id, mounted, pc, lock, closer>>
    BY <1>2 DEF vars, session
  <2>2. TypeOK'
    BY <1>2 DEF TreeInv, TypeOK, vars, session, sharing
  <2>3. Stages'
    BY <2>1 DEF TreeInv, Stages, Running, Mounted, Done
  <2>4. \A s \in Requests : Running(s)' <=> Running(s)
    BY <2>1 DEF Running
  <2>5. Paths' /\ Linked' /\ Replaced' /\ Chains' /\ Held'
    BY <2>1, <2>4, StructQuiet
  <2>6. QED BY <2>2, <2>3, <2>5 DEF TreeInv
<1>3. QED BY <1>1, <1>2

\* The tip that the registry has for a chain.
LEMMA TheTip ==
  ASSUME Chained(leaves), NEW i \in 1..Len(leaves), leaves[i].tip # None
  PROVE  TipOf(leaves[i].chain) = leaves[i].tip
<1>1. i \in Open
  BY DEF Open
<1>2. \A j \in Open : leaves[j].chain = leaves[i].chain => j = i
  BY DEF Open, Chained
<1>3. (CHOOSE j \in Open : leaves[j].chain = leaves[i].chain) = i
  BY <1>1, <1>2
<1>4. QED BY <1>1, <1>3 DEF TipOf

\* The invariant implies the property.
LEMMA TreeSafe == TreeInv => TreeIntact
<1> SUFFICES ASSUME TreeInv PROVE TreeIntact
  OBVIOUS
<1>0. TypeOK /\ TypedTasks /\ tree \subseteq Requests /\ None \notin Requests
  BY Typed, ParametersAssumption DEF TreeInv, TypedTree
<1>1. TipHeld
  <2> SUFFICES ASSUME NEW r \in Requests, Pending(r), node[r].chain # NoChain
               PROVE /\ TipOf(node[r].chain) = (IF mounted[r].backup = None THEN Parent(r) ELSE mounted[r].backup)
                     /\ \A s \in Requests \ {r} : Pending(s) => node[s].chain # node[r].chain
    BY DEF TipHeld
  <2>1. phase = "ACTIVE" /\ Running(r)
    BY DEF Pending, Running
  <2>2. HeldBy(r) /\ \A s \in Requests : Running(s) /\ node[s].chain = node[r].chain => r = s
    BY <2>1 DEF TreeInv, Held
  <2>3. PICK i \in 1..Len(leaves) : leaves[i].chain = node[r].chain /\ leaves[i].tip # None /\ leaves[i].tip = Continued(r)
    BY <2>2 DEF HeldBy
  <2>4. TipOf(node[r].chain) = Continued(r)
    BY <2>3, TheTip DEF TreeInv, Chains
  <2>5. QED BY <2>2, <2>4 DEF Continued, Pending, Running
<1>2. CommittedTreeIntact
  <2> SUFFICES ASSUME phase = "ACTIVE"
               PROVE /\ \A n \in tree : node[n].status = "PENDING" => Pending(n)
                     /\ \A n \in Requests : node[n].status = "COMPLETED" =>
                          Cardinality({r \in Requests : mounted[r].backup = n
                                         /\ (Pending(r) \/ node[r].status = "COMPLETED")})
                            = (IF n \in tree THEN 0 ELSE 1)
    BY DEF CommittedTreeIntact
  <2>1. \A n \in Requests : Pending(n) <=> Running(n)
    BY DEF Pending, Running
  <2>2. ASSUME NEW n \in tree, node[n].status = "PENDING" PROVE Pending(n)
    BY <1>0, <2>1, <2>2 DEF TreeInv, Linked, Done
  <2>3. ASSUME NEW n \in Requests, node[n].status = "COMPLETED"
        PROVE Cardinality({r \in Requests : mounted[r].backup = n
                             /\ (Pending(r) \/ node[r].status = "COMPLETED")})
                = (IF n \in tree THEN 0 ELSE 1)
    <3> DEFINE R == {r \in Requests : mounted[r].backup = n /\ (Pending(r) \/ node[r].status = "COMPLETED")}
    <3>1. \A r \in Requests : r \in R <=> Replaces(r, n)
      BY <2>1 DEF Replaces, Done
    <3>2. /\ \A r, s \in Requests : Replaces(r, n) /\ Replaces(s, n) => r = s
          /\ n \in tree <=> \A r \in Requests : ~Replaces(r, n)
      BY <2>3 DEF TreeInv, Replaced, Done
    <3>r. R \subseteq Requests
      OBVIOUS
    <3> HIDE DEF R
    <3>3. CASE n \in tree
      <4>1. R = {}
        BY <3>1, <3>2, <3>3, <3>r
      <4>2. QED BY <3>3, <4>1, FS_EmptySet DEF R
    <3>4. CASE n \notin tree
      <4>1. PICK r \in Requests : Replaces(r, n)
        BY <3>2, <3>4
      <4>2. R = {r}
        BY <3>1, <3>2, <3>r, <4>1
      <4>3. Cardinality(R) = 1
        BY <4>2, FS_Singleton
      <4>4. QED BY <3>4, <4>3 DEF R
    <3>5. QED BY <3>3, <3>4
  <2>4. QED BY <2>2, <2>3
<1>3. QED BY <1>0, <1>1, <1>2 DEF TreeIntact

\* "failed or cancelled generations remove their pending branch and restore any
\* temporarily replaced node": every committed generation that was not rewritten is
\* in the tree or put back into it, and every running one holds the tip of its chain.
THEOREM TreeIsIntact == Spec => []TreeIntact
<1>1. Init => TreeInv
  BY StructInit
<1>2. TreeInv /\ [Next]_vars => TreeInv'
  BY TreeStep
<1>3. TreeInv => TreeIntact
  BY TreeSafe
<1>4. QED BY <1>1, <1>2, <1>3, PTL DEF Spec

-----------------------------------------------------------------------------
(* What a path makes of its trajectory.                                    *)

\* What is cut from a sum is cut from its second part first.
LEMMA MonusSum ==
  ASSUME NEW x \in Nat, NEW y \in Nat, NEW k \in Nat
  PROVE  /\ Monus(x, Monus(k, y)) + Monus(y, k) = Monus(x + y, k)
         /\ Monus(x, Monus(k, y)) = x \/ Monus(y, k) = 0
BY DEF Monus

\* What a trim leaves of a trajectory.
LEMMA TrimmedAs ==
  ASSUME NEW t \in Trajectory, NEW k \in Nat
  PROVE  LET u == Trimmed(t, k) IN
         /\ u.prompt \in Seq(Tokens) /\ u.resp \in Seq(Tokens)
         /\ u.prompt \o u.resp = Prefix(t.prompt \o t.resp, Monus(Len(t.prompt \o t.resp), k))
         /\ Len(u.resp) <= Len(t.resp) /\ \A i \in 1..Len(u.resp) : u.resp[i] = t.resp[i]
         /\ Len(u.prompt) <= Len(t.prompt)
         /\ k = 0 => u.resp = t.resp
<1> DEFINE p == t.prompt
           r == t.resp
           s == p \o r
           a == Monus(Len(p), Monus(k, Len(r)))
           b == Monus(Len(r), k)
           u == Trimmed(t, k)
<1>1. p \in Seq(Tokens) /\ r \in Seq(Tokens)
  BY DEF Trajectory
<1> HIDE DEF p, r, s
<1>2. Len(p) \in Nat /\ Len(r) \in Nat
  BY <1>1
<1>3. Monus(k, Len(r)) \in Nat
  BY <1>2 DEF Monus
<1>4. u.prompt = Prefix(p, a) /\ u.resp = Prefix(r, b)
  BY DEF Trimmed, p, r
<1>5. /\ a \in 0..Len(p) /\ Prefix(p, a) \in Seq(Tokens) /\ Len(Prefix(p, a)) = a
      /\ \A i \in 1..a : Prefix(p, a)[i] = p[i]
  BY <1>1, <1>3, PrefixTyped
<1>6. /\ b \in 0..Len(r) /\ Prefix(r, b) \in Seq(Tokens) /\ Len(Prefix(r, b)) = b
      /\ \A i \in 1..b : Prefix(r, b)[i] = r[i] /\ (k = 0 => Prefix(r, b) = r)
  BY <1>1, PrefixTyped
<1>z. k = 0 => Prefix(r, b) = r
  BY <1>1, PrefixTyped
<1>7. /\ s \in Seq(Tokens) /\ Len(s) = Len(p) + Len(r)
      /\ \A i \in 1..Len(p) + Len(r) : s[i] = IF i <= Len(p) THEN p[i] ELSE r[i - Len(p)]
  BY <1>1, ConcatProperties DEF s
<1>8. /\ Prefix(s, Monus(Len(s), k)) \in Seq(Tokens) /\ Len(Prefix(s, Monus(Len(s), k))) = Monus(Len(s), k)
      /\ \A i \in 1..Monus(Len(s), k) : Prefix(s, Monus(Len(s), k))[i] = s[i]
      /\ Monus(Len(s), k) \in 0..Len(s)
  BY <1>7, PrefixTyped
<1>9. a + b = Monus(Len(s), k) /\ (a = Len(p) \/ b = 0)
  <2>1. /\ Monus(Len(p), Monus(k, Len(r))) + Monus(Len(r), k) = Monus(Len(p) + Len(r), k)
        /\ Monus(Len(p), Monus(k, Len(r))) = Len(p) \/ Monus(Len(r), k) = 0
    BY <1>2, MonusSum
  <2>2. QED BY <1>7, <2>1
<1>10. /\ Prefix(p, a) \o Prefix(r, b) \in Seq(Tokens) /\ Len(Prefix(p, a) \o Prefix(r, b)) = a + b
       /\ \A i \in 1..a + b : (Prefix(p, a) \o Prefix(r, b))[i]
                                = IF i <= a THEN Prefix(p, a)[i] ELSE Prefix(r, b)[i - a]
  <2> DEFINE pa == Prefix(p, a)
             rb == Prefix(r, b)
  <2>1. pa \in Seq(Tokens) /\ rb \in Seq(Tokens) /\ Len(pa) = a /\ Len(rb) = b
    BY <1>5, <1>6
  <2> HIDE DEF pa, rb, a, b
  <2>2. /\ pa \o rb \in Seq(Tokens) /\ Len(pa \o rb) = Len(pa) + Len(rb)
        /\ \A i \in 1..Len(pa) + Len(rb) : (pa \o rb)[i] = IF i <= Len(pa) THEN pa[i] ELSE rb[i - Len(pa)]
    BY <2>1, ConcatProperties
  <2>3. QED BY <2>1, <2>2 DEF pa, rb
<1> DEFINE v == Prefix(p, a) \o Prefix(r, b)
           w == Prefix(s, Monus(Len(s), k))
<1>11. \A i \in 1..(a + b) : v[i] = w[i]
  <2> SUFFICES ASSUME NEW i \in 1..(a + b) PROVE v[i] = w[i]
    OBVIOUS
  <2>1. w[i] = s[i] /\ v[i] = IF i <= a THEN Prefix(p, a)[i] ELSE Prefix(r, b)[i - a]
    BY <1>8, <1>9, <1>10
  <2>2. s[i] = IF i <= Len(p) THEN p[i] ELSE r[i - Len(p)]
    BY <1>2, <1>7, <1>8, <1>9
  <2>3. CASE i <= a
    BY <1>2, <1>5, <2>1, <2>2, <2>3
  <2>4. CASE ~(i <= a)
    <3>1. a = Len(p) /\ i - a \in 1..b
      BY <1>5, <1>6, <1>9, <2>4
    <3>2. QED BY <1>6, <2>1, <2>2, <2>4, <3>1
  <2>5. QED BY <2>3, <2>4
<1> HIDE DEF a, b
<1>12. v = w
  <2>1. v \in Seq(Tokens) /\ w \in Seq(Tokens) /\ Len(v) = Len(w) /\ Len(v) = a + b
    BY <1>8, <1>9, <1>10
  <2> HIDE DEF v, w
  <2>2. QED BY <1>11, <2>1, SeqEqual
<1> HIDE DEF u
<1>13. u.prompt \in Seq(Tokens) /\ u.resp \in Seq(Tokens) /\ u.prompt \o u.resp = v
  BY <1>4, <1>5, <1>6
<1>14. Len(u.resp) <= Len(r) /\ (\A i \in 1..Len(u.resp) : u.resp[i] = r[i]) /\ Len(u.prompt) <= Len(p)
  BY <1>2, <1>4, <1>5, <1>6
<1>15. QED BY <1>4, <1>z, <1>12, <1>13, <1>14 DEF u, p, r, s

\* Concatenation is associative.
LEMMA Regrouped ==
  ASSUME NEW a \in Seq(Tokens), NEW b \in Seq(Tokens), NEW c \in Seq(Tokens)
  PROVE  (a \o b) \o c = a \o (b \o c) /\ a \o b \in Seq(Tokens)
BY ConcatAssociative, ConcatProperties

\* A node extends prompt and response, put together, as it extends the context.
LEMMA AddedConcat ==
  ASSUME NEW nd \in [Requests -> Nodes], NEW n \in Requests, NEW t \in Trajectory, NEW s \in BOOLEAN
  PROVE  AddedIn(nd, t, n, s, TRUE).prompt \o AddedIn(nd, t, n, s, TRUE).resp
           = ExtendedIn(nd, t.prompt \o t.resp, n)
<1> DEFINE u == Trimmed(t, nd[n].trim)
           added == PromptIn(nd, n)
           sampled == SampledIn(nd, n)
<1>1. added \in Seq(Tokens) /\ sampled \in Seq(Tokens) /\ nd[n].trim \in Nat
  BY NodeTokens
<1>2. /\ u.prompt \in Seq(Tokens) /\ u.resp \in Seq(Tokens)
      /\ u.prompt \o u.resp = Prefix(t.prompt \o t.resp, Monus(Len(t.prompt \o t.resp), nd[n].trim))
  BY <1>1, TrimmedAs
<1>3. ExtendedIn(nd, t.prompt \o t.resp, n) = ((u.prompt \o u.resp) \o added) \o sampled
  BY <1>2 DEF ExtendedIn
<1> DEFINE A == AddedIn(nd, t, n, s, TRUE)
           pre == u.prompt
           own == u.resp
<1>4. /\ A.prompt = IF s THEN (pre \o own) \o added ELSE pre
      /\ A.resp = (IF s THEN << >> ELSE own \o added) \o sampled
  BY DEF AddedIn
<1>t. pre \in Seq(Tokens) /\ own \in Seq(Tokens)
  BY <1>2
<1>e. ExtendedIn(nd, t.prompt \o t.resp, n) = ((pre \o own) \o added) \o sampled
  BY <1>3
<1> HIDE DEF pre, own, u, added, sampled, A
<1>a. \A a, b, c \in Seq(Tokens) : (a \o b) \o c = a \o (b \o c)
  BY Regrouped
<1>5. CASE s
  <2>1. << >> \o sampled = sampled
    BY <1>1, ConcatEmptySeq
  <2>2. A.prompt = (pre \o own) \o added /\ A.resp = sampled
    BY <1>4, <1>5, <2>1
  <2>3. QED BY <1>e, <2>2 DEF A
<1>6. CASE ~s
  <2>1. own \o added \in Seq(Tokens) /\ pre \o own \in Seq(Tokens)
    BY <1>1, <1>t, ConcatProperties
  <2>2. (pre \o (own \o added)) \o sampled = pre \o ((own \o added) \o sampled)
    BY <1>1, <1>t, <1>a, <2>1
  <2>3. (pre \o own) \o added = pre \o (own \o added)
    BY <1>1, <1>t, <1>a
  <2>4. A.prompt = pre /\ A.resp = (own \o added) \o sampled
    BY <1>4, <1>6
  <2>5. A.prompt \o A.resp = ((pre \o own) \o added) \o sampled
    BY <2>2, <2>3, <2>4
  <2>6. QED BY <1>e, <2>5 DEF A
<1>7. QED BY <1>5, <1>6

\* A trajectory with all its generations is the context, wherever it starts.
LEMMA LinearContext ==
  ASSUME NEW nd \in [Requests -> Nodes], NEW path \in Seq(Requests), NEW start
  PROVE  LinearIn(nd, path, start, TRUE).prompt \o LinearIn(nd, path, start, TRUE).resp
           = ContextIn(nd, path)
<1> DEFINE n == Len(path)
<1>1. PICK f : LinearRun(nd, path, start, TRUE, f) /\ LinearIn(nd, path, start, TRUE) = f[n]
  BY LinearRuns
<1>2. PICK h \in [0..n -> Seq(Tokens)] :
        /\ h[0] = << >> /\ \A i \in 1..n : h[i] = ExtendedIn(nd, h[i - 1], path[i])
        /\ ContextIn(nd, path) = h[n]
  BY ContextRuns
<1> DEFINE g == [i \in 0..n |-> f[i].prompt \o f[i].resp]
<1>3. n \in Nat /\ 0 \in 0..n /\ n \in 0..n
  OBVIOUS
<1>4. g[0] = h[0]
  BY <1>1, <1>2, <1>3 DEF LinearRun, NoTrajectory
<1>5. \A i \in 1..n : g[i - 1] = h[i - 1] => g[i] = h[i]
  <2> SUFFICES ASSUME NEW i \in 1..n, g[i - 1] = h[i - 1] PROVE g[i] = h[i]
    OBVIOUS
  <2>1. i - 1 \in 0..n /\ i \in 0..n /\ path[i] \in Requests
    BY <1>3
  <2>2. f[i - 1] \in Trajectory /\ f[i] = AddedIn(nd, f[i - 1], path[i], i = start, TRUE)
    BY <1>1, <2>1 DEF LinearRun
  <2>3. ASSUME NEW b \in BOOLEAN, f[i] = AddedIn(nd, f[i - 1], path[i], b, TRUE)
        PROVE f[i].prompt \o f[i].resp = ExtendedIn(nd, f[i - 1].prompt \o f[i - 1].resp, path[i])
    <3>1. AddedIn(nd, f[i - 1], path[i], b, TRUE).prompt \o AddedIn(nd, f[i - 1], path[i], b, TRUE).resp
            = ExtendedIn(nd, f[i - 1].prompt \o f[i - 1].resp, path[i])
      BY <2>1, <2>2, AddedConcat, Zenon
    <3>2. QED BY <2>3, <3>1
  <2>4. f[i].prompt \o f[i].resp = ExtendedIn(nd, f[i - 1].prompt \o f[i - 1].resp, path[i])
    <3>1. CASE i = start
      <4>1. f[i] = AddedIn(nd, f[i - 1], path[i], TRUE, TRUE)
        BY <2>2, <3>1
      <4>2. QED BY <2>3, <4>1
    <3>2. CASE i # start
      <4>1. f[i] = AddedIn(nd, f[i - 1], path[i], FALSE, TRUE)
        BY <2>2, <3>2
      <4>2. QED BY <2>3, <4>1
    <3>3. QED BY <3>1, <3>2
  <2>5. QED BY <1>2, <2>1, <2>4
<1>6. Same(g, h, n)
  <2> HIDE DEF g, n
  <2>1. QED BY <1>3, <1>4, <1>5, RunsAgree
<1>7. g[n] = h[n] /\ g[n] = f[n].prompt \o f[n].resp
  BY <1>3, <1>6 DEF Same
<1>8. QED BY <1>1, <1>2, <1>7

\* Nodes that agree on a path give it the same context and the same trajectory.
Agree(nd, md, path) == \A i \in 1..Len(path) : nd[path[i]] = md[path[i]]

\* What a node adds depends on that node only.
LEMMA AgreeOnNode ==
  ASSUME NEW nd, NEW md, NEW m, nd[m] = md[m]
  PROVE  /\ \A ctx : ExtendedIn(nd, ctx, m) = ExtendedIn(md, ctx, m)
         /\ \A t, s, g : AddedIn(nd, t, m, s, g) = AddedIn(md, t, m, s, g)
BY DEF ExtendedIn, AddedIn, PromptIn, SampledIn

\* Nodes that agree on a path give it the same trajectory.
LEMMA LinearAgrees ==
  ASSUME NEW nd \in [Requests -> Nodes], NEW md \in [Requests -> Nodes],
         NEW path \in Seq(Requests), Agree(nd, md, path), NEW start, NEW g \in BOOLEAN
  PROVE  LinearIn(nd, path, start, g) = LinearIn(md, path, start, g)
<1> DEFINE n == Len(path)
<1>1. PICK f : LinearRun(nd, path, start, g, f) /\ LinearIn(nd, path, start, g) = f[n]
  BY LinearRuns
<1>2. PICK h : LinearRun(md, path, start, g, h) /\ LinearIn(md, path, start, g) = h[n]
  BY LinearRuns
<1>3. n \in Nat /\ n \in 0..n
  OBVIOUS
<1>4. f[0] = h[0]
  BY <1>1, <1>2 DEF LinearRun
<1>5. \A i \in 1..n : f[i - 1] = h[i - 1] => f[i] = h[i]
  <2> SUFFICES ASSUME NEW i \in 1..n, f[i - 1] = h[i - 1] PROVE f[i] = h[i]
    OBVIOUS
  <2>1. nd[path[i]] = md[path[i]]
    BY DEF Agree
  <2>2. /\ f[i] = AddedIn(nd, f[i - 1], path[i], i = start, i < n \/ g)
        /\ h[i] = AddedIn(md, h[i - 1], path[i], i = start, i < n \/ g)
    BY <1>1, <1>2 DEF LinearRun
  <2>3. \A t, s, q : AddedIn(nd, t, path[i], s, q) = AddedIn(md, t, path[i], s, q)
    BY <2>1, AgreeOnNode
  <2>4. QED BY <2>2, <2>3
<1>6. Same(f, h, n)
  <2> HIDE DEF n
  <2>1. QED BY <1>3, <1>4, <1>5, RunsAgree
<1>7. QED BY <1>1, <1>2, <1>3, <1>6 DEF Same

\* And the same context.
LEMMA ContextAgrees ==
  ASSUME NEW nd \in [Requests -> Nodes], NEW md \in [Requests -> Nodes],
         NEW path \in Seq(Requests), Agree(nd, md, path)
  PROVE  ContextIn(nd, path) = ContextIn(md, path)
<1>1. LinearIn(nd, path, 1, TRUE) = LinearIn(md, path, 1, TRUE)
  BY LinearAgrees
<1>2. QED BY <1>1, LinearContext

\* A node at the end of a path.
LEMMA LinearAppend ==
  ASSUME NEW nd \in [Requests -> Nodes], NEW path \in Seq(Requests), NEW m \in Requests,
         NEW start, NEW g \in BOOLEAN
  PROVE  LinearIn(nd, Append(path, m), start, g)
           = IF Len(path) + 1 = start
             THEN AddedIn(nd, LinearIn(nd, path, start, TRUE), m, TRUE, g)
             ELSE AddedIn(nd, LinearIn(nd, path, start, TRUE), m, FALSE, g)
<1> DEFINE n == Len(path)
           w == Append(path, m)
<1>1. w \in Seq(Requests) /\ Len(w) = n + 1 /\ w[n + 1] = m /\ \A i \in 1..n : w[i] = path[i]
  OBVIOUS
<1>2. PICK f : LinearRun(nd, w, start, g, f) /\ LinearIn(nd, w, start, g) = f[Len(w)]
  BY <1>1, LinearRuns
<1>3. PICK h : LinearRun(nd, path, start, TRUE, h) /\ LinearIn(nd, path, start, TRUE) = h[n]
  BY LinearRuns
<1>4. n \in Nat /\ n \in 0..n
  OBVIOUS
<1> HIDE DEF w
<1>5. f[0] = h[0]
  BY <1>2, <1>3 DEF LinearRun
<1>6. \A i \in 1..(n + 1) : f[i] = AddedIn(nd, f[i - 1], w[i], i = start, i < n + 1 \/ g)
  BY <1>1, <1>2 DEF LinearRun
<1>7. \A i \in 1..n : h[i] = AddedIn(nd, h[i - 1], path[i], i = start, i < n \/ TRUE)
  BY <1>3 DEF LinearRun
<1>8. \A i \in 1..n : f[i - 1] = h[i - 1] => f[i] = h[i]
  <2> SUFFICES ASSUME NEW i \in 1..n, f[i - 1] = h[i - 1] PROVE f[i] = h[i]
    OBVIOUS
  <2>1. i \in 1..(n + 1) /\ i < n + 1 /\ w[i] = path[i]
    BY <1>1, <1>4
  <2>2. (i < n + 1 \/ g) = TRUE /\ (i < n \/ TRUE) = TRUE
    BY <2>1
  <2>3. f[i] = AddedIn(nd, f[i - 1], w[i], i = start, TRUE)
    BY <1>6, <2>1, <2>2
  <2>4. h[i] = AddedIn(nd, h[i - 1], path[i], i = start, TRUE)
    BY <1>7, <2>2
  <2>5. QED BY <2>1, <2>3, <2>4
<1>9. Same(f, h, n)
  <2> HIDE DEF n
  <2>1. QED BY <1>4, <1>5, <1>8, RunsAgree
<1>10. f[n] = h[n]
  BY <1>4, <1>9 DEF Same
<1>11. n + 1 \in 1..(n + 1) /\ (n + 1) - 1 = n /\ (n + 1 < n + 1 \/ g) = g
  BY <1>4
<1>12. f[n + 1] = AddedIn(nd, f[n], m, n + 1 = start, g)
  BY <1>1, <1>6, <1>11
<1>13. f[n + 1] = IF n + 1 = start THEN AddedIn(nd, f[n], m, TRUE, g) ELSE AddedIn(nd, f[n], m, FALSE, g)
  <2>1. CASE n + 1 = start
    BY <1>12, <2>1
  <2>2. CASE n + 1 # start
    <3>1. (n + 1 = start) = FALSE
      BY <2>2
    <3>2. QED BY <1>12, <2>2, <3>1
  <2>3. QED BY <2>1, <2>2
<1>14. QED BY <1>1, <1>2, <1>3, <1>10, <1>13 DEF w

\* The context of a path with one node more.
LEMMA ContextAppend ==
  ASSUME NEW nd \in [Requests -> Nodes], NEW path \in Seq(Requests), NEW m \in Requests
  PROVE  ContextIn(nd, Append(path, m)) = ExtendedIn(nd, ContextIn(nd, path), m)
<1> DEFINE t == LinearIn(nd, path, 1, TRUE)
           w == Append(path, m)
<1>1. w \in Seq(Requests) /\ t \in Trajectory
  <2>1. TRUE \in BOOLEAN
    OBVIOUS
  <2>2. LinearIn(nd, path, 1, TRUE) \in Trajectory
    BY <2>1, LinearTyped, Zenon
  <2>3. w \in Seq(Requests)
    OBVIOUS
  <2>4. QED BY <2>2, <2>3
<1>2. LinearIn(nd, w, 1, TRUE) = AddedIn(nd, t, m, TRUE, TRUE) \/ LinearIn(nd, w, 1, TRUE) = AddedIn(nd, t, m, FALSE, TRUE)
  BY LinearAppend
<1>3. ContextIn(nd, w) = LinearIn(nd, w, 1, TRUE).prompt \o LinearIn(nd, w, 1, TRUE).resp
  BY <1>1, LinearContext
<1>4. t.prompt \o t.resp = ContextIn(nd, path)
  BY LinearContext
<1> HIDE DEF t, w
<1>5. ASSUME NEW s \in BOOLEAN
      PROVE AddedIn(nd, t, m, s, TRUE).prompt \o AddedIn(nd, t, m, s, TRUE).resp = ExtendedIn(nd, t.prompt \o t.resp, m)
  BY <1>1, AddedConcat
<1>6. QED BY <1>2, <1>3, <1>4, <1>5 DEF w

\* Where a chain starts on a path.
FirstAt(nd, path, c, k) ==
  k \in 1..Len(path) /\ nd[path[k]].chain = c /\ \A j \in 1..(k - 1) : nd[path[j]].chain # c

\* The first node of a chain on a path is where the chain starts.
LEMMA StartUnique ==
  ASSUME NEW nd, NEW path \in Seq(Requests), NEW c, NEW k, FirstAt(nd, path, c, k)
  PROVE  StartIn(nd, path, c) = k
<1>1. k \in 1..Len(path) /\ nd[path[k]].chain = c /\ \A j \in 1..(k - 1) : nd[path[j]].chain # c
  BY DEF FirstAt
<1>2. \A i \in 1..Len(path) : nd[path[i]].chain = c /\ (\A j \in 1..(i - 1) : nd[path[j]].chain # c) => i = k
  <2> SUFFICES ASSUME NEW i \in 1..Len(path), nd[path[i]].chain = c, \A j \in 1..(i - 1) : nd[path[j]].chain # c
               PROVE i = k
    OBVIOUS
  <2>1. i \in Nat /\ k \in Nat
    BY <1>1
  <2>2. ~(i < k)
    BY <1>1, <2>1
  <2>3. ~(k < i)
    BY <1>1, <2>1
  <2>4. QED BY <2>1, <2>2, <2>3
<1>3. QED BY <1>1, <1>2 DEF StartIn

\* The response that a node makes of the one before it: kept tokens, then context,
\* then the generation.
MadeOf(nd, t, n, s, g, a, kept, from) ==
  /\ a \in Trajectory /\ kept \in 0..Len(t.resp) /\ from \in Nat /\ kept <= from
  /\ Len(a.resp) = from + (IF g THEN nd[n].resp ELSE 0)
  /\ \A i \in 1..kept : a.resp[i] = t.resp[i]
  /\ \A i \in (kept + 1)..from : a.resp[i] = <<n, 0>>
  /\ \A i \in (from + 1)..Len(a.resp) : a.resp[i] = <<n, i - from>>
  /\ s => from = 0
  /\ ~s => from = kept + nd[n].prompt
  /\ ~s /\ nd[n].trim = 0 => kept = Len(t.resp)

\* Every node makes a response of that form.
LEMMA RespMade ==
  ASSUME NEW nd \in [Requests -> Nodes], NEW n \in Requests, NEW t \in Trajectory,
         NEW s \in BOOLEAN, NEW g \in BOOLEAN
  PROVE  \E kept, from \in Nat : MadeOf(nd, t, n, s, g, AddedIn(nd, t, n, s, g), kept, from)
<1> DEFINE u == Trimmed(t, nd[n].trim)
           a == AddedIn(nd, t, n, s, g)
           added == PromptIn(nd, n)
           sampled == SampledIn(nd, n)
           own == u.resp
<1>1. /\ added \in Seq(Tokens) /\ Len(added) = nd[n].prompt /\ \A i \in 1..nd[n].prompt : added[i] = <<n, 0>>
      /\ sampled \in Seq(Tokens) /\ Len(sampled) = nd[n].resp /\ \A i \in 1..nd[n].resp : sampled[i] = <<n, i>>
      /\ nd[n].prompt \in Nat /\ nd[n].resp \in Nat /\ nd[n].trim \in Nat
  BY NodeTokens
<1>2. /\ own \in Seq(Tokens) /\ Len(own) <= Len(t.resp) /\ \A i \in 1..Len(own) : own[i] = t.resp[i]
      /\ nd[n].trim = 0 => own = t.resp
  BY <1>1, TrimmedAs
<1>t. t.resp \in Seq(Tokens)
  BY DEF Trajectory
<1>3. a \in Trajectory
  BY AddedTyped
<1>4. a.resp = IF g THEN (IF s THEN << >> ELSE own \o added) \o sampled ELSE (IF s THEN << >> ELSE own \o added)
  BY DEF AddedIn
<1> HIDE DEF u, a, added, sampled, own
<1>a. \A x, y \in Seq(Tokens) :
        /\ x \o y \in Seq(Tokens) /\ Len(x \o y) = Len(x) + Len(y)
        /\ \A i \in 1..(Len(x) + Len(y)) : (x \o y)[i] = IF i <= Len(x) THEN x[i] ELSE y[i - Len(x)]
        /\ << >> \o x = x
  BY ConcatProperties, ConcatEmptySeq
<1>5. CASE s
  <2>1. a.resp = IF g THEN sampled ELSE << >>
    BY <1>1, <1>4, <1>5, <1>a
  <2>2. Len(a.resp) = 0 + (IF g THEN nd[n].resp ELSE 0)
    BY <1>1, <2>1
  <2>3. \A i \in 1..Len(a.resp) : a.resp[i] = <<n, i - 0>>
    BY <1>1, <2>1, <2>2
  <2>4. MadeOf(nd, t, n, s, g, a, 0, 0)
    <3>1. 0 \in 0..Len(t.resp) /\ 0 \in Nat /\ 0 <= 0
      BY <1>t
    <3>2. (\A i \in 1..0 : a.resp[i] = t.resp[i]) /\ (\A i \in (0 + 1)..0 : a.resp[i] = <<n, 0>>)
      OBVIOUS
    <3>3. \A i \in (0 + 1)..Len(a.resp) : a.resp[i] = <<n, i - 0>>
      BY <2>3
    <3>4. QED BY <1>3, <1>5, <2>2, <3>1, <3>2, <3>3 DEF MadeOf
  <2>5. QED BY <2>4 DEF a
<1>6. CASE ~s
  <2> DEFINE v == own \o added
             k == Len(own)
             f == k + nd[n].prompt
  <2>0. k \in Nat /\ f \in Nat
    BY <1>1, <1>2
  <2>1. /\ v \in Seq(Tokens) /\ Len(v) = f
        /\ \A i \in 1..f : v[i] = IF i <= k THEN own[i] ELSE added[i - k]
    <3>1. own \in Seq(Tokens) /\ added \in Seq(Tokens) /\ Len(added) = nd[n].prompt
      BY <1>1, <1>2
    <3>2. /\ v \in Seq(Tokens) /\ Len(v) = Len(own) + Len(added)
          /\ \A i \in 1..(Len(own) + Len(added)) : v[i] = IF i <= Len(own) THEN own[i] ELSE added[i - Len(own)]
      BY <1>a, <3>1
    <3>3. QED BY <3>1, <3>2
  <2>2. \A i \in 1..k : v[i] = t.resp[i]
    BY <1>1, <1>2, <2>0, <2>1
  <2>3. \A i \in (k + 1)..f : v[i] = <<n, 0>>
    <3> SUFFICES ASSUME NEW i \in (k + 1)..f PROVE v[i] = <<n, 0>>
      OBVIOUS
    <3>1. i \in 1..f /\ ~(i <= k) /\ i - k \in 1..nd[n].prompt
      BY <1>1, <2>0
    <3>2. QED BY <1>1, <2>1, <3>1
  <2>4. a.resp = IF g THEN v \o sampled ELSE v
    BY <1>4, <1>6
  <2> HIDE DEF v
  <2>5. Len(a.resp) = f + (IF g THEN nd[n].resp ELSE 0)
    <3>1. Len(v \o sampled) = f + nd[n].resp
      <4>1. v \in Seq(Tokens) /\ sampled \in Seq(Tokens) /\ Len(v) = f /\ Len(sampled) = nd[n].resp
        BY <1>1, <2>1
      <4>2. Len(v \o sampled) = Len(v) + Len(sampled)
        BY <1>a, <4>1
      <4>3. QED BY <4>1, <4>2
    <3>2. QED BY <2>0, <2>1, <2>4, <3>1
  <2>6. \A i \in 1..f : a.resp[i] = v[i]
    <3>1. CASE g
      <4>1. /\ a.resp = v \o sampled
            /\ \A i \in 1..(Len(v) + Len(sampled)) : (v \o sampled)[i] = IF i <= Len(v) THEN v[i] ELSE sampled[i - Len(v)]
        BY <1>1, <1>a, <2>1, <2>4, <3>1
      <4>2. \A i \in 1..f : i \in 1..(Len(v) + Len(sampled)) /\ i <= Len(v)
        BY <1>1, <2>0, <2>1
      <4>3. QED BY <4>1, <4>2
    <3>2. CASE ~g
      BY <2>4, <3>2
    <3>3. QED BY <3>1, <3>2
  <2>7. \A i \in (f + 1)..Len(a.resp) : a.resp[i] = <<n, i - f>>
    <3>1. CASE g
      <4>1. /\ a.resp = v \o sampled
            /\ \A i \in 1..(Len(v) + Len(sampled)) : (v \o sampled)[i] = IF i <= Len(v) THEN v[i] ELSE sampled[i - Len(v)]
        BY <1>1, <1>a, <2>1, <2>4, <3>1
      <4>2. \A i \in (f + 1)..Len(a.resp) : /\ i \in 1..(Len(v) + Len(sampled)) /\ ~(i <= Len(v))
                                            /\ i - Len(v) \in 1..nd[n].resp /\ i - Len(v) = i - f
        BY <1>1, <2>0, <2>1, <2>5, <3>1
      <4>3. QED BY <1>1, <4>1, <4>2
    <3>2. CASE ~g
      BY <2>0, <2>5, <3>2
    <3>3. QED BY <3>1, <3>2
  <2>8. MadeOf(nd, t, n, s, g, a, k, f)
    <3>1. k \in 0..Len(t.resp) /\ f \in Nat /\ k <= f /\ (nd[n].trim = 0 => k = Len(t.resp))
      BY <1>1, <1>2, <1>t, <2>0
    <3>2. \A i \in 1..k : a.resp[i] = t.resp[i]
      BY <1>1, <2>0, <2>2, <2>6
    <3>3. \A i \in (k + 1)..f : a.resp[i] = <<n, 0>>
      BY <2>0, <2>3, <2>6
    <3>4. f = k + nd[n].prompt
      OBVIOUS
    <3> HIDE DEF k, f
    <3>5. QED BY <1>3, <1>6, <2>5, <2>7, <3>1, <3>2, <3>3, <3>4 DEF MadeOf
  <2>9. QED BY <2>0, <2>8 DEF a
<1>7. QED BY <1>5, <1>6

\* The trajectory of a node that continues the chain of the one before it, and of
\* one that starts its chain.
LinOf(nd, n, g) == LinearIn(nd, nd[n].path, StartIn(nd, nd[n].path, nd[n].chain), g)

\* A node that continues the chain of its parent adds to the parent's trajectory.
LEMMA LinearContinues ==
  ASSUME NEW nd \in [Requests -> Nodes], NEW p \in Requests, NEW n \in Requests, NEW g \in BOOLEAN,
         nd[n].path = Append(nd[p].path, n), nd[p].chain = nd[n].chain,
         NEW k, FirstAt(nd, nd[p].path, nd[p].chain, k)
  PROVE  /\ LinOf(nd, n, g) = AddedIn(nd, LinOf(nd, p, TRUE), n, FALSE, g)
         /\ FirstAt(nd, nd[n].path, nd[n].chain, k)
<1> DEFINE path == nd[p].path
           w == nd[n].path
           c == nd[n].chain
<1>1. path \in Seq(Requests) /\ w \in Seq(Requests)
  BY DEF Nodes
<1>2. Len(w) = Len(path) + 1 /\ Len(path) \in Nat /\ \A i \in 1..Len(path) : w[i] = path[i]
  BY <1>1
<1>3. k \in 1..Len(path) /\ FirstAt(nd, path, c, k)
  BY DEF FirstAt
<1>4. FirstAt(nd, w, c, k)
  BY <1>2, <1>3 DEF FirstAt
<1>5. StartIn(nd, path, c) = k /\ StartIn(nd, w, c) = k
  BY <1>1, <1>3, <1>4, StartUnique
<1>6. Len(path) + 1 # k
  BY <1>2, <1>3
<1>7. LinearIn(nd, w, k, g) = AddedIn(nd, LinearIn(nd, path, k, TRUE), n, FALSE, g)
  <2>1. \A x \in Seq(Requests) : \A y : LinearIn(nd, Append(x, n), y, g)
           = IF Len(x) + 1 = y THEN AddedIn(nd, LinearIn(nd, x, y, TRUE), n, TRUE, g)
                               ELSE AddedIn(nd, LinearIn(nd, x, y, TRUE), n, FALSE, g)
    BY LinearAppend
  <2>2. w = Append(path, n)
    OBVIOUS
  <2> HIDE DEF w, path
  <2>3. QED BY <1>1, <1>6, <2>1, <2>2
<1>8. QED BY <1>4, <1>5, <1>7 DEF LinOf

\* The first node of a chain makes all that is above it the prompt.
LEMMA LinearStarts ==
  ASSUME NEW nd \in [Requests -> Nodes], NEW path \in Seq(Requests), NEW n \in Requests, NEW g \in BOOLEAN,
         nd[n].path = Append(path, n), \A i \in 1..Len(path) : nd[path[i]].chain # nd[n].chain
  PROVE  /\ \E t \in Trajectory : LinOf(nd, n, g) = AddedIn(nd, t, n, TRUE, g)
         /\ FirstAt(nd, nd[n].path, nd[n].chain, Len(path) + 1)
<1> DEFINE w == nd[n].path
           c == nd[n].chain
           k == Len(path) + 1
<1>1. w \in Seq(Requests)
  BY DEF Nodes
<1>2. Len(w) = k /\ Len(path) \in Nat /\ w[k] = n /\ \A i \in 1..Len(path) : w[i] = path[i]
  OBVIOUS
<1>3. FirstAt(nd, w, c, k)
  <2>1. k \in 1..Len(w) /\ \A j \in 1..(k - 1) : j \in 1..Len(path)
    BY <1>2
  <2>2. QED BY <1>2, <2>1 DEF FirstAt
<1>4. StartIn(nd, w, c) = k
  BY <1>1, <1>3, StartUnique
<1>5. LinearIn(nd, w, k, g) = AddedIn(nd, LinearIn(nd, path, k, TRUE), n, TRUE, g)
  BY LinearAppend
<1>6. LinearIn(nd, path, k, TRUE) \in Trajectory
  BY LinearTyped
<1>7. QED BY <1>3, <1>4, <1>5, <1>6 DEF LinOf

\* No sampled token is twice in a response.
Distinct(t) == \A i, j \in 1..Len(t.resp) : t.resp[i] = t.resp[j] /\ t.resp[i][2] > 0 => i = j

\* A trained token is at a place of the response.
LEMMA TrainedAt ==
  ASSUME NEW t \in Trajectory
  PROVE  /\ \A x : x \in Trained(t) <=> \E i \in 1..Len(t.resp) : t.resp[i] = x /\ x[2] > 0
         /\ \A x \in Trained(t) : x \in Tokens /\ x[1] \in Requests /\ x[2] \in Nat
         /\ Len(t.resp) \in Nat
<1>1. t.resp \in Seq(Tokens)
  BY DEF Trajectory
<1>2. DOMAIN t.resp = 1..Len(t.resp) /\ Len(t.resp) \in Nat
  BY <1>1
<1>3. \A x : x \in Trained(t) <=> \E i \in 1..Len(t.resp) : t.resp[i] = x /\ x[2] > 0
  BY <1>2 DEF Trained, ToSet
<1>4. \A i \in 1..Len(t.resp) : t.resp[i] \in Tokens
  BY <1>1
<1>5. \A x \in Tokens : x[1] \in Requests /\ x[2] \in Nat
  BY DEF Tokens
<1>6. QED BY <1>2, <1>3, <1>4, <1>5

\* The tokens sampled for a node.
Own(nd, n) == {<<n, k>> : k \in 1..nd[n].resp}

\* The tokens of a node are as many as it sampled.
LEMMA OwnTokens ==
  ASSUME NEW nd \in [Requests -> Nodes], NEW n \in Requests
  PROVE  /\ Own(nd, n) = ToSet(SampledIn(nd, n))
         /\ IsFiniteSet(Own(nd, n)) /\ Cardinality(Own(nd, n)) = nd[n].resp
         /\ \A x \in Own(nd, n) : x[1] = n /\ x[2] \in Nat /\ x[2] > 0
         /\ nd[n].resp \in Nat
<1>1. nd[n].resp \in Nat
  BY DEF Nodes
<1>2. Own(nd, n) = ToSet(SampledIn(nd, n))
  BY <1>1 DEF Own, SampledIn, ToSet
<1>3. IsFiniteSet(1..nd[n].resp) /\ Cardinality(1..nd[n].resp) = nd[n].resp
  <2>1. 1 \in Int /\ nd[n].resp \in Int
    BY <1>1
  <2>2. IsFiniteSet(1..nd[n].resp) /\ Cardinality(1..nd[n].resp) = IF 1 > nd[n].resp THEN 0 ELSE nd[n].resp - 1 + 1
    BY <2>1, FS_Interval
  <2>3. QED BY <1>1, <2>2
<1> DEFINE f == [k \in 1..nd[n].resp |-> <<n, k>>]
<1>4. f \in Bijection(1..nd[n].resp, Own(nd, n))
  <2>1. f \in [1..nd[n].resp -> Own(nd, n)]
    BY DEF Own
  <2>2. \A i, j \in 1..nd[n].resp : f[i] = f[j] => i = j
    OBVIOUS
  <2>3. \A x \in Own(nd, n) : \E i \in 1..nd[n].resp : f[i] = x
    BY DEF Own
  <2> HIDE DEF f
  <2>4. QED BY <2>1, <2>2, <2>3 DEF Bijection, Injection, Surjection, IsInjective
<1>5. ExistsBijection(1..nd[n].resp, Own(nd, n))
  BY <1>4 DEF ExistsBijection
<1>6. IsFiniteSet(Own(nd, n)) /\ Cardinality(Own(nd, n)) = nd[n].resp
  BY <1>3, <1>5, FS_Bijection
<1>7. QED BY <1>1, <1>2, <1>6 DEF Own

\* What is trained after a node is what was before, and what was sampled for it.
LEMMA MadeTrained ==
  ASSUME NEW nd \in [Requests -> Nodes], NEW n \in Requests, NEW t \in Trajectory,
         NEW s \in BOOLEAN, NEW g \in BOOLEAN
  PROVE  LET a == AddedIn(nd, t, n, s, g) IN
         /\ a \in Trajectory
         /\ s => Trained(a) = (IF g THEN Own(nd, n) ELSE {})
         /\ Trained(a) \subseteq Trained(t) \cup Own(nd, n)
         /\ ~s /\ nd[n].trim = 0 => Trained(a) = Trained(t) \cup (IF g THEN Own(nd, n) ELSE {})
         /\ ~g => Trained(a) \subseteq Trained(t)
         /\ Distinct(t) /\ (\A x \in Trained(t) : x[1] # n) => Distinct(a)
<1> DEFINE a == AddedIn(nd, t, n, s, g)
<1>1. PICK kept \in Nat, from \in Nat : MadeOf(nd, t, n, s, g, a, kept, from)
  BY RespMade
<1>2. /\ a \in Trajectory /\ kept <= Len(t.resp) /\ kept <= from
      /\ Len(a.resp) = from + (IF g THEN nd[n].resp ELSE 0)
      /\ \A i \in 1..kept : a.resp[i] = t.resp[i]
      /\ \A i \in (kept + 1)..from : a.resp[i] = <<n, 0>>
      /\ \A i \in (from + 1)..Len(a.resp) : a.resp[i] = <<n, i - from>>
      /\ s => from = 0
      /\ ~s /\ nd[n].trim = 0 => kept = Len(t.resp)
  BY <1>1 DEF MadeOf
<1> HIDE DEF a
<1>3. /\ \A x : x \in Trained(a) <=> \E i \in 1..Len(a.resp) : a.resp[i] = x /\ x[2] > 0
      /\ Len(a.resp) \in Nat
  BY <1>2, TrainedAt
<1>4. /\ \A x : x \in Trained(t) <=> \E i \in 1..Len(t.resp) : t.resp[i] = x /\ x[2] > 0
      /\ Len(t.resp) \in Nat
  BY TrainedAt
<1>5. nd[n].resp \in Nat
  BY DEF Nodes
<1>6. \A i \in 1..Len(a.resp) : i \in 1..kept \/ i \in (kept + 1)..from \/ (i \in (from + 1)..Len(a.resp) /\ g /\ i - from \in 1..nd[n].resp)
  BY <1>2, <1>3, <1>5
\* A token that is trained comes from the trajectory before, or is sampled for the node.
<1>7. ASSUME NEW i \in 1..Len(a.resp), a.resp[i][2] > 0
      PROVE \/ i \in 1..kept /\ a.resp[i] = t.resp[i] /\ i \in 1..Len(t.resp)
            \/ i \in (from + 1)..Len(a.resp) /\ a.resp[i] = <<n, i - from>> /\ g /\ i - from \in 1..nd[n].resp
  <2>1. i \notin (kept + 1)..from
    <3>1. <<n, 0>>[2] = 0
      OBVIOUS
    <3>2. QED BY <1>2, <1>7, <3>1
  <2>2. QED BY <1>2, <1>4, <1>6, <2>1
<1>8. ASSUME NEW x \in Trained(a)
      PROVE (x \in Trained(t) /\ ~s) \/ (x \in Own(nd, n) /\ g)
  <2>1. PICK i \in 1..Len(a.resp) : a.resp[i] = x /\ x[2] > 0
    BY <1>3
  <2>2. CASE i \in 1..kept /\ a.resp[i] = t.resp[i] /\ i \in 1..Len(t.resp)
    <3>1. x \in Trained(t)
      BY <1>4, <2>1, <2>2
    <3>2. ~s
      BY <1>2, <2>2
    <3>3. QED BY <3>1, <3>2
  <2>3. CASE a.resp[i] = <<n, i - from>> /\ g /\ i - from \in 1..nd[n].resp
    BY <2>1, <2>3 DEF Own
  <2>4. QED BY <1>7, <2>1, <2>2, <2>3
<1>9. ASSUME g PROVE Own(nd, n) \subseteq Trained(a)
  <2> SUFFICES ASSUME NEW k \in 1..nd[n].resp PROVE <<n, k>> \in Trained(a)
    BY DEF Own
  <2>1. from + k \in (from + 1)..Len(a.resp) /\ from + k \in 1..Len(a.resp) /\ (from + k) - from = k
    BY <1>2, <1>5, <1>9
  <2>2. a.resp[from + k] = <<n, k>> /\ <<n, k>>[2] > 0
    BY <1>2, <2>1
  <2>3. QED BY <1>3, <2>1, <2>2
<1>10. ASSUME ~s, nd[n].trim = 0 PROVE Trained(t) \subseteq Trained(a)
  <2> SUFFICES ASSUME NEW x \in Trained(t) PROVE x \in Trained(a)
    OBVIOUS
  <2>1. PICK i \in 1..Len(t.resp) : t.resp[i] = x /\ x[2] > 0
    BY <1>4
  <2>2. i \in 1..kept /\ i \in 1..Len(a.resp)
    BY <1>2, <1>4, <1>5, <1>10
  <2>3. QED BY <1>2, <1>3, <2>1, <2>2
<1>11. ASSUME Distinct(t), \A x \in Trained(t) : x[1] # n PROVE Distinct(a)
  <2> SUFFICES ASSUME NEW i \in 1..Len(a.resp), NEW j \in 1..Len(a.resp), a.resp[i] = a.resp[j], a.resp[i][2] > 0
               PROVE i = j
    BY DEF Distinct
  <2>1. \/ i \in 1..kept /\ a.resp[i] = t.resp[i] /\ i \in 1..Len(t.resp)
        \/ a.resp[i] = <<n, i - from>>
    BY <1>7
  <2>2. \/ j \in 1..kept /\ a.resp[j] = t.resp[j] /\ j \in 1..Len(t.resp)
        \/ a.resp[j] = <<n, j - from>>
    BY <1>7
  <2>3. ASSUME NEW k \in 1..Len(t.resp), t.resp[k] = a.resp[i] PROVE a.resp[i][1] # n
    BY <1>4, <1>11, <2>3
  <2>4. CASE a.resp[i] = t.resp[i] /\ i \in 1..Len(t.resp) /\ a.resp[j] = t.resp[j] /\ j \in 1..Len(t.resp)
    BY <1>11, <2>4 DEF Distinct
  <2>5. CASE a.resp[i] = <<n, i - from>> /\ a.resp[j] = <<n, j - from>>
    <3>1. <<n, i - from>>[2] = <<n, j - from>>[2]
      BY <2>5
    <3>2. i - from = j - from
      BY <3>1
    <3>3. i \in Int /\ j \in Int /\ from \in Int
      OBVIOUS
    <3>4. QED BY <3>2, <3>3
  <2>9. \A k : <<n, k>>[1] = n
    OBVIOUS
  <2>6. CASE a.resp[i] = t.resp[i] /\ i \in 1..Len(t.resp) /\ a.resp[j] = <<n, j - from>>
    <3>1. a.resp[i][1] # n
      BY <2>3, <2>6
    <3>2. a.resp[i] = <<n, j - from>>
      BY <2>6
    <3>3. QED BY <2>9, <3>1, <3>2
  <2>7. CASE a.resp[j] = t.resp[j] /\ j \in 1..Len(t.resp) /\ a.resp[i] = <<n, i - from>>
    <3>1. a.resp[i][1] # n
      BY <2>3, <2>7
    <3>2. QED BY <2>7, <2>9, <3>1
  <2>8. QED BY <2>1, <2>2, <2>4, <2>5, <2>6, <2>7
<1>12. /\ s => Trained(a) = (IF g THEN Own(nd, n) ELSE {})
       /\ Trained(a) \subseteq Trained(t) \cup Own(nd, n)
       /\ ~s /\ nd[n].trim = 0 => Trained(a) = Trained(t) \cup (IF g THEN Own(nd, n) ELSE {})
       /\ ~g => Trained(a) \subseteq Trained(t)
  <2>1. s => Trained(a) = (IF g THEN Own(nd, n) ELSE {})
    BY <1>8, <1>9
  <2>2. Trained(a) \subseteq Trained(t) \cup Own(nd, n)
    BY <1>8
  <2>3. ~s /\ nd[n].trim = 0 => Trained(a) = Trained(t) \cup (IF g THEN Own(nd, n) ELSE {})
    BY <1>8, <1>9, <1>10
  <2>4. ~g => Trained(a) \subseteq Trained(t)
    BY <1>8
  <2>5. QED BY <2>1, <2>2, <2>3, <2>4
<1>13. QED BY <1>2, <1>11, <1>12 DEF a

-----------------------------------------------------------------------------
(* Every chain trains its own generations.                                 *)

\* A trajectory of a chain: completed generations of the chain, each token once,
\* within the capacity.
Good(nd, t, c) ==
  /\ t \in Trajectory /\ Distinct(t) /\ Len(t.prompt) + Len(t.resp) <= Capacity
  /\ \A x \in Trained(t) : nd[x[1]].status = "COMPLETED" /\ nd[x[1]].chain = c /\ x \in Own(nd, x[1])

\* The context of a node is what its generation was given, and the generation.
Fed(n) ==
  /\ Mounted(n) => /\ ContextIn(node, node[n].path) = mounted[n].ctx \o SampledIn(node, n)
                   /\ Len(mounted[n].ctx) + node[n].resp <= Capacity
                   /\ node[n].prompt > 0
  /\ ~Done(n) => node[n].resp = 0

\* A chain is one stretch of a path.
Convex(n) ==
  Mounted(n) =>
    \/ Parent(n) # None /\ node[Parent(n)].chain = node[n].chain
    \/ \A i \in 1..(Len(node[n].path) - 1) : node[node[n].path[i]].chain # node[n].chain

\* What the chain of a node trains comes from its path.
Linear(n) ==
  Done(n) => /\ \E k : FirstAt(node, node[n].path, node[n].chain, k)
             /\ Good(node, LinOf(node, n, TRUE), node[n].chain)
             /\ \A x \in Trained(LinOf(node, n, TRUE)) : x[1] \in ToSet(node[n].path)

\* Every node grew by its own generation, in one chain.
Grown == \A n \in Requests : Fed(n) /\ Convex(n) /\ Linear(n)

\* A completed node does not change.
Frozen == \A m \in Requests : Done(m) => node'[m] = node[m]

\* A trajectory of a chain stays one while completed nodes do not change.
LEMMA GoodFrozen ==
  ASSUME Frozen, NEW t, NEW c, Good(node, t, c)
  PROVE  Good(node', t, c)
<1>1. t \in Trajectory
  BY DEF Good
<1>2. ASSUME NEW x \in Trained(t) PROVE node'[x[1]].status = "COMPLETED" /\ node'[x[1]].chain = c /\ x \in Own(node', x[1])
  <2>1. x[1] \in Requests
    BY <1>1, TrainedAt
  <2>2. node[x[1]].status = "COMPLETED" /\ node[x[1]].chain = c /\ x \in Own(node, x[1])
    BY DEF Good
  <2>3. node'[x[1]] = node[x[1]]
    BY <2>1, <2>2 DEF Frozen, Done
  <2>4. QED BY <2>2, <2>3 DEF Own
<1>3. QED BY <1>2 DEF Good

\* Nothing on the path of a mounted node changes.
LEMMA PathFrozen ==
  ASSUME TypedTree, Paths, Frozen, NEW n \in Requests, Mounted(n), node'[n] = node[n]
  PROVE  /\ Agree(node, node', node[n].path) /\ node[n].path \in Seq(Requests)
         /\ \A i \in 1..Len(node[n].path) : node'[node[n].path[i]] = node[node[n].path[i]]
<1>1. node[n].path \in Seq(Requests) /\ PathOf(n)
  BY DEF TypedTree, Nodes, Paths
<1>2. ASSUME NEW i \in 1..Len(node[n].path) PROVE node'[node[n].path[i]] = node[node[n].path[i]]
  <2>1. CASE i = Len(node[n].path)
    BY <1>1, <2>1 DEF PathOf
  <2>2. CASE i # Len(node[n].path)
    <3>1. i \in 1..(Len(node[n].path) - 1) /\ node[n].path[i] \in Requests
      BY <1>1, <2>2
    <3>2. QED BY <1>1, <3>1 DEF PathOf, Frozen
  <2>3. QED BY <2>1, <2>2
<1>3. QED BY <1>1, <1>2 DEF Agree

\* So its trajectory does not change.
LEMMA LinFrozen ==
  ASSUME TypedTree, TypedTree', Paths, Frozen, NEW n \in Requests, Mounted(n), node'[n] = node[n],
         NEW g \in BOOLEAN
  PROVE  LinOf(node', n, g) = LinOf(node, n, g)
<1> DEFINE w == node[n].path
           c == node[n].chain
<1>1. Agree(node, node', w) /\ w \in Seq(Requests) /\ \A i \in 1..Len(w) : node'[w[i]] = node[w[i]]
  BY PathFrozen
<1>2. StartIn(node', w, c) = StartIn(node, w, c)
  <2>1. \A i \in 1..Len(w) : /\ (node'[w[i]].chain = c <=> node[w[i]].chain = c)
                             /\ ((\A j \in 1..(i - 1) : node'[w[j]].chain # c) <=> (\A j \in 1..(i - 1) : node[w[j]].chain # c))
    BY <1>1
  <2>2. QED BY <2>1 DEF StartIn
<1>3. node \in [Requests -> Nodes] /\ node' \in [Requests -> Nodes]
  BY DEF TypedTree
<1>4. \A st : LinearIn(node, w, st, g) = LinearIn(node', w, st, g)
  BY <1>1, <1>3, LinearAgrees
<1>5. QED BY <1>2, <1>4 DEF LinOf

\* And what the invariant says of it still holds.
LEMMA NodeFrozen ==
  ASSUME TypedTree, TypedTree', Paths, Frozen, NEW n \in Requests, Mounted(n), node'[n] = node[n],
         mounted'[n] = mounted[n], None \notin Requests, Fed(n) /\ Convex(n) /\ Linear(n)
  PROVE  Fed(n)' /\ Convex(n)' /\ Linear(n)'
<1> DEFINE w == node[n].path
           c == node[n].chain
<1>1. Agree(node, node', w) /\ w \in Seq(Requests) /\ \A i \in 1..Len(w) : node'[w[i]] = node[w[i]]
  BY PathFrozen
<1>2. node \in [Requests -> Nodes] /\ node' \in [Requests -> Nodes]
  BY DEF TypedTree
<1>3. Fed(n)'
  <2>1. ContextIn(node', w) = ContextIn(node, w)
    BY <1>1, <1>2, ContextAgrees
  <2>2. SampledIn(node', n) = SampledIn(node, n)
    BY DEF SampledIn
  <2>3. QED BY <2>1, <2>2 DEF Fed, Mounted, Done
<1>4. Convex(n)'
  <2>1. Path(n) = w /\ Path(n)' = w /\ Parent(n)' = Parent(n)
    BY DEF Path, Parent
  <2>2. Parent(n) # None => node'[Parent(n)] = node[Parent(n)]
    <3>1. Parent(n) = None \/ (Parent(n) \in Requests /\ Done(Parent(n)))
      BY Parents
    <3>2. QED BY <3>1 DEF Frozen
  <2>3. \A i \in 1..(Len(w) - 1) : i \in 1..Len(w)
    BY <1>1
  <2>4. QED BY <1>1, <2>1, <2>2, <2>3 DEF Convex, Mounted
<1>5. Linear(n)'
  <2>1. LinOf(node', n, TRUE) = LinOf(node, n, TRUE)
    BY LinFrozen
  <2>2. ASSUME Done(n) PROVE /\ \E k : FirstAt(node', w, c, k)
                             /\ Good(node', LinOf(node, n, TRUE), c)
    <3>1. PICK k : FirstAt(node, w, c, k)
      BY <2>2 DEF Linear
    <3>2. \A j \in 1..(k - 1) : j \in 1..Len(w)
      BY <1>1, <3>1 DEF FirstAt
    <3>3. FirstAt(node', w, c, k)
      BY <1>1, <3>1, <3>2 DEF FirstAt
    <3>4. QED BY <2>2, <3>3, GoodFrozen DEF Linear
  <2>3. QED BY <2>1, <2>2 DEF Linear, Done
<1>6. QED BY <1>3, <1>4, <1>5

\* What the generation adds to the trajectory of a node, and how it ends without it.
LEMMA WithAndWithout ==
  ASSUME NEW nd \in [Requests -> Nodes], NEW n \in Requests, NEW t \in Trajectory, NEW s \in BOOLEAN
  PROVE  LET a == AddedIn(nd, t, n, s, TRUE)
             z == AddedIn(nd, t, n, s, FALSE)
         IN  /\ a.prompt = z.prompt /\ Len(z.resp) <= Len(a.resp)
             /\ s => z.resp = << >>
             /\ ~s /\ nd[n].prompt > 0 => Len(z.resp) > 0 /\ z.resp[Len(z.resp)] = <<n, 0>>
<1> DEFINE a == AddedIn(nd, t, n, s, TRUE)
           z == AddedIn(nd, t, n, s, FALSE)
           sampled == SampledIn(nd, n)
<1>1. a.prompt = z.prompt /\ a.resp = z.resp \o sampled /\ (s => z.resp = << >>)
  BY DEF AddedIn
<1>2. z \in Trajectory /\ sampled \in Seq(Tokens) /\ nd[n].prompt \in Nat
  BY AddedTyped, NodeTokens
<1>3. z.resp \in Seq(Tokens)
  BY <1>2 DEF Trajectory
<1> HIDE DEF a, sampled
<1>4. Len(z.resp) <= Len(a.resp)
  <2> HIDE DEF z
  <2>1. Len(z.resp \o sampled) = Len(z.resp) + Len(sampled) /\ Len(sampled) \in Nat /\ Len(z.resp) \in Nat
    BY <1>2, <1>3
  <2>2. QED BY <1>1, <2>1
<1>5. ASSUME ~s, nd[n].prompt > 0 PROVE Len(z.resp) > 0 /\ z.resp[Len(z.resp)] = <<n, 0>>
  <2>1. PICK kept \in Nat, from \in Nat : MadeOf(nd, t, n, s, FALSE, z, kept, from)
    BY RespMade
  <2> HIDE DEF z
  <2>2. Len(z.resp) = from + 0 /\ from = kept + nd[n].prompt /\ \A i \in (kept + 1)..from : z.resp[i] = <<n, 0>>
    BY <1>5, <2>1 DEF MadeOf
  <2>3. from \in (kept + 1)..from /\ from > 0 /\ Len(z.resp) = from
    BY <1>2, <1>5, <2>2
  <2>4. QED BY <2>2, <2>3
<1>6. QED BY <1>1, <1>4, <1>5 DEF a

\* A trajectory without its last token, when that is context.
LEMMA LastDropped ==
  ASSUME NEW t \in Trajectory, NEW n, Len(t.resp) > 0, t.resp[Len(t.resp)] = <<n, 0>>
  PROVE  LET u == [t EXCEPT !.resp = Prefix(@, Len(@) - 1)] IN
         /\ u \in Trajectory /\ Trained(u) = Trained(t) /\ (Distinct(t) => Distinct(u))
         /\ Len(u.prompt) = Len(t.prompt) /\ Len(u.resp) <= Len(t.resp)
<1> DEFINE r == t.resp
           v == SubSeq(r, 1, Len(r) - 1)
           u == [t EXCEPT !.resp = Prefix(@, Len(@) - 1)]
<1>1. r \in Seq(Tokens) /\ t.prompt \in Seq(Tokens) /\ t = [prompt |-> t.prompt, resp |-> r]
  BY DEF Trajectory
<1>2. u = [prompt |-> t.prompt, resp |-> v]
  <2>1. u = [t EXCEPT !.resp = v]
    BY DEF Prefix
  <2>2. \A w : [t EXCEPT !.resp = w] = [prompt |-> t.prompt, resp |-> w]
    BY <1>1
  <2>3. QED BY <2>1, <2>2
<1> HIDE DEF u, r
<1>3. v \in Seq(Tokens) /\ Len(v) = Len(r) - 1 /\ (\A i \in 1..(Len(r) - 1) : v[i] = r[i]) /\ Len(r) \in Nat
  <2>1. Len(r) \in Nat /\ Len(r) > 0
    BY <1>1 DEF r
  <2>2. Monus(Len(r), 1) = Len(r) - 1 /\ v = Prefix(r, Monus(Len(r), 1))
    BY <2>1 DEF Monus, Prefix
  <2>3. /\ Prefix(r, Monus(Len(r), 1)) \in Seq(Tokens)
        /\ Len(Prefix(r, Monus(Len(r), 1))) = Monus(Len(r), 1)
        /\ \A i \in 1..Monus(Len(r), 1) : Prefix(r, Monus(Len(r), 1))[i] = r[i]
    <3>1. 1 \in Nat
      OBVIOUS
    <3>2. QED BY <1>1, <3>1, PrefixTyped
  <2> HIDE DEF v
  <2>4. QED BY <2>1, <2>2, <2>3
<1> HIDE DEF v
<1>4. u \in Trajectory /\ u.prompt = t.prompt /\ u.resp = v
  BY <1>1, <1>2, <1>3 DEF Trajectory
<1>5. /\ \A x : x \in Trained(u) <=> \E i \in 1..Len(u.resp) : u.resp[i] = x /\ x[2] > 0
      /\ \A x : x \in Trained(t) <=> \E i \in 1..Len(r) : r[i] = x /\ x[2] > 0
  BY <1>4, TrainedAt DEF r
<1>6. Trained(u) \subseteq Trained(t)
  BY <1>3, <1>4, <1>5
<1>7. Trained(t) \subseteq Trained(u)
  <2> SUFFICES ASSUME NEW x \in Trained(t) PROVE x \in Trained(u)
    OBVIOUS
  <2>1. PICK i \in 1..Len(r) : r[i] = x /\ x[2] > 0
    BY <1>5
  <2>2. i # Len(r)
    <3>1. r[Len(r)] = <<n, 0>>
      BY DEF r
    <3>2. <<n, 0>>[2] = 0
      OBVIOUS
    <3>3. QED BY <2>1, <3>1, <3>2
  <2>3. i \in 1..(Len(r) - 1)
    BY <1>3, <2>2
  <2>4. i \in 1..Len(u.resp) /\ u.resp[i] = x
    BY <1>3, <1>4, <2>1, <2>3
  <2>5. QED BY <1>5, <2>1, <2>4
<1>8. Distinct(t) => Distinct(u)
  BY <1>3, <1>4 DEF Distinct, r
<1>9. Len(u.prompt) = Len(t.prompt) /\ Len(u.resp) <= Len(r)
  BY <1>3, <1>4
<1>10. QED BY <1>4, <1>6, <1>7, <1>8, <1>9 DEF u, r

\* What the chain of a node trains, with the generation and without it.
Trains(nd, n, before) ==
  LET a == LinOf(nd, n, TRUE)
      z == LinOf(nd, n, FALSE)
  IN  /\ a \in Trajectory /\ z \in Trajectory /\ Distinct(a) /\ Distinct(z)
      /\ Trained(a) \subseteq before \cup Own(nd, n) /\ Trained(z) \subseteq before
      /\ nd[n].trim = 0 => Trained(a) = before \cup Own(nd, n) /\ Trained(z) = before
      /\ Len(z.prompt) = Len(a.prompt) /\ Len(z.resp) <= Len(a.resp)
      /\ nd[n].prompt > 0 /\ z.resp # << >> => Len(z.resp) > 0 /\ z.resp[Len(z.resp)] = <<n, 0>>
      /\ nd[n].prompt > 0 /\ z.resp = << >> => before = {}

\* A node that continues a chain trains what the chain trained, and its own tokens.
LEMMA TrainsMore ==
  ASSUME NEW nd \in [Requests -> Nodes], NEW p \in Requests, NEW n \in Requests,
         nd[n].path = Append(nd[p].path, n), nd[p].chain = nd[n].chain,
         NEW k, FirstAt(nd, nd[p].path, nd[p].chain, k),
         LinOf(nd, p, TRUE) \in Trajectory, Distinct(LinOf(nd, p, TRUE)),
         \A x \in Trained(LinOf(nd, p, TRUE)) : x[1] # n
  PROVE  Trains(nd, n, Trained(LinOf(nd, p, TRUE))) /\ FirstAt(nd, nd[n].path, nd[n].chain, k)
<1> DEFINE t == LinOf(nd, p, TRUE)
           a == LinOf(nd, n, TRUE)
           z == LinOf(nd, n, FALSE)
<1>1. /\ a = AddedIn(nd, t, n, FALSE, TRUE) /\ z = AddedIn(nd, t, n, FALSE, FALSE)
      /\ FirstAt(nd, nd[n].path, nd[n].chain, k)
  BY LinearContinues
<1> HIDE DEF t, a, z
<1>t. t \in Trajectory /\ Distinct(t) /\ \A x \in Trained(t) : x[1] # n
  BY DEF t
<1>2. \A g \in BOOLEAN :
        /\ AddedIn(nd, t, n, FALSE, g) \in Trajectory
        /\ Trained(AddedIn(nd, t, n, FALSE, g)) \subseteq Trained(t) \cup Own(nd, n)
        /\ nd[n].trim = 0 => Trained(AddedIn(nd, t, n, FALSE, g)) = Trained(t) \cup (IF g THEN Own(nd, n) ELSE {})
        /\ ~g => Trained(AddedIn(nd, t, n, FALSE, g)) \subseteq Trained(t)
        /\ Distinct(AddedIn(nd, t, n, FALSE, g))
  <2> SUFFICES ASSUME NEW g \in BOOLEAN
               PROVE /\ AddedIn(nd, t, n, FALSE, g) \in Trajectory
                     /\ Trained(AddedIn(nd, t, n, FALSE, g)) \subseteq Trained(t) \cup Own(nd, n)
                     /\ nd[n].trim = 0 => Trained(AddedIn(nd, t, n, FALSE, g)) = Trained(t) \cup (IF g THEN Own(nd, n) ELSE {})
                     /\ ~g => Trained(AddedIn(nd, t, n, FALSE, g)) \subseteq Trained(t)
                     /\ Distinct(AddedIn(nd, t, n, FALSE, g))
    OBVIOUS
  <2>1. \A s \in BOOLEAN :
          /\ AddedIn(nd, t, n, s, g) \in Trajectory
          /\ Trained(AddedIn(nd, t, n, s, g)) \subseteq Trained(t) \cup Own(nd, n)
          /\ ~s /\ nd[n].trim = 0 => Trained(AddedIn(nd, t, n, s, g)) = Trained(t) \cup (IF g THEN Own(nd, n) ELSE {})
          /\ ~g => Trained(AddedIn(nd, t, n, s, g)) \subseteq Trained(t)
          /\ Distinct(t) /\ (\A x \in Trained(t) : x[1] # n) => Distinct(AddedIn(nd, t, n, s, g))
    BY <1>t, MadeTrained
  <2>2. FALSE \in BOOLEAN /\ ~FALSE
    OBVIOUS
  <2>3. QED BY <1>t, <2>1, <2>2
<1>3. /\ a.prompt = z.prompt /\ Len(z.resp) <= Len(a.resp)
      /\ nd[n].prompt > 0 => Len(z.resp) > 0 /\ z.resp[Len(z.resp)] = <<n, 0>>
  <2>0. FALSE \in BOOLEAN
    OBVIOUS
  <2>1. QED BY <1>1, <1>t, <2>0, WithAndWithout
<1>4. a \in Trajectory /\ Distinct(a) /\ Trained(a) \subseteq Trained(t) \cup Own(nd, n)
      /\ (nd[n].trim = 0 => Trained(a) = Trained(t) \cup Own(nd, n))
  BY <1>1, <1>2
<1>5. z \in Trajectory /\ Distinct(z) /\ Trained(z) \subseteq Trained(t) /\ (nd[n].trim = 0 => Trained(z) = Trained(t))
  BY <1>1, <1>2
<1>6. z.resp = << >> => Len(z.resp) = 0
  OBVIOUS
<1>7. Trains(nd, n, Trained(t))
  <2>1. Len(z.prompt) = Len(a.prompt) /\ (nd[n].prompt > 0 => z.resp # << >>)
    BY <1>3, <1>6
  <2>2. QED BY <1>3, <1>4, <1>5, <2>1 DEF Trains, a, z
<1>8. QED BY <1>1, <1>7 DEF t

\* The first node of a chain trains its own tokens.
LEMMA TrainsFirst ==
  ASSUME NEW nd \in [Requests -> Nodes], NEW path \in Seq(Requests), NEW n \in Requests,
         nd[n].path = Append(path, n), \A i \in 1..Len(path) : nd[path[i]].chain # nd[n].chain
  PROVE  Trains(nd, n, {}) /\ FirstAt(nd, nd[n].path, nd[n].chain, Len(path) + 1)
<1> DEFINE a == LinOf(nd, n, TRUE)
           z == LinOf(nd, n, FALSE)
<1>1. FirstAt(nd, nd[n].path, nd[n].chain, Len(path) + 1)
  <2>0. TRUE \in BOOLEAN
    OBVIOUS
  <2>1. QED BY <2>0, LinearStarts
<1>w. nd[n].path \in Seq(Requests)
  BY DEF Nodes
<1>2. StartIn(nd, nd[n].path, nd[n].chain) = Len(path) + 1
  BY <1>1, <1>w, StartUnique
<1> DEFINE t == LinearIn(nd, path, Len(path) + 1, TRUE)
<1>3. \A g \in BOOLEAN : LinOf(nd, n, g) = AddedIn(nd, t, n, TRUE, g)
  BY <1>2, LinearAppend DEF LinOf
<1>t. t \in Trajectory
  BY LinearTyped
<1> HIDE DEF t, a, z
<1>4. a = AddedIn(nd, t, n, TRUE, TRUE) /\ z = AddedIn(nd, t, n, TRUE, FALSE)
  BY <1>3 DEF a, z
<1>5. \A g \in BOOLEAN :
        /\ AddedIn(nd, t, n, TRUE, g) \in Trajectory
        /\ Trained(AddedIn(nd, t, n, TRUE, g)) = (IF g THEN Own(nd, n) ELSE {})
  <2>1. \A s, g \in BOOLEAN :
          /\ AddedIn(nd, t, n, s, g) \in Trajectory
          /\ s => Trained(AddedIn(nd, t, n, s, g)) = (IF g THEN Own(nd, n) ELSE {})
    BY <1>t, MadeTrained
  <2>2. TRUE \in BOOLEAN
    OBVIOUS
  <2>3. QED BY <2>1, <2>2
<1>6. a.prompt = z.prompt /\ Len(z.resp) <= Len(a.resp) /\ z.resp = << >>
  <2>0. TRUE \in BOOLEAN
    OBVIOUS
  <2>1. QED BY <1>4, <1>t, <2>0, WithAndWithout
<1>7. a \in Trajectory /\ z \in Trajectory /\ Trained(a) = Own(nd, n) /\ Trained(z) = {}
  BY <1>4, <1>5
<1>8. Distinct(z)
  BY <1>6 DEF Distinct
<1>9. Distinct(a)
  <2>1. PICK kept \in Nat, from \in Nat : MadeOf(nd, t, n, TRUE, TRUE, a, kept, from)
    BY <1>4, <1>t, RespMade
  <2>2. from = 0 /\ \A i \in (from + 1)..Len(a.resp) : a.resp[i] = <<n, i - from>>
    BY <2>1 DEF MadeOf
  <2>3. \A i \in 1..Len(a.resp) : a.resp[i] = <<n, i - 0>>
    BY <2>2
  <2>4. ASSUME NEW i \in 1..Len(a.resp), NEW j \in 1..Len(a.resp), a.resp[i] = a.resp[j] PROVE i = j
    <3>1. <<n, i - 0>>[2] = <<n, j - 0>>[2]
      BY <2>3, <2>4
    <3>2. i - 0 = j - 0
      BY <3>1
    <3>3. QED BY <3>2
  <2>5. QED BY <2>4 DEF Distinct
<1>10. Trains(nd, n, {})
  <2>1. Len(z.prompt) = Len(a.prompt)
    BY <1>6
  <2>2. QED BY <1>6, <1>7, <1>8, <1>9, <2>1 DEF Trains, a, z
<1>11. QED BY <1>1, <1>10

\* What a mount makes of the node.
LEMMA MountGrows ==
  ASSUME TreeInv, TypedTree', Grown, NEW r \in Requests, Mount(r)
  PROVE  Frozen /\ Fed(r)' /\ Convex(r)' /\ ~Done(r)'
<1>0. TypedTree /\ TypedTasks /\ TypedChains /\ None \notin Requests
  BY Typed, ParametersAssumption DEF TreeInv
<1>q. req[r] \in Request
  BY <1>0 DEF TypedTasks
<1>p. PICK p \in Selected(req[r]) : \E trim \in IF p = None THEN {0} ELSE Trims : MountedAt(r, p, trim)
  BY DEF Mount, MountedAt
<1>a. PICK trim \in IF p = None THEN {0} ELSE Trims : MountedAt(r, p, trim)
  BY <1>p
<1> DEFINE b == Backup(p, req[r])
           ctx == MountedContext(r, p, trim)
           kept == Prefix(ContextOf(p), Monus(Len(ContextOf(p)), trim))
           k == Len(req[r].msgs) - Len(Hist(p)) + 1
<1>1. pc[r] = "mounting" /\ phase = "ACTIVE" /\ node[r] = NoNode
  <2>1. pc[r] = "mounting"
    BY DEF Mount
  <2>2. QED BY <1>0, <2>1 DEF TreeInv, Stages
<1>2. node'[r] = MountedNode(r, p, trim) /\ \A s \in Requests : s # r => node'[s] = node[s]
  BY <1>0, <1>a DEF MountedAt, TypedTree
<1>3. /\ node'[r].path = Append(Path(p), r) /\ node'[r].prompt = k /\ node'[r].trim = trim
      /\ node'[r].resp = 0 /\ node'[r].status = "PENDING" /\ node'[r].chain = ContinuedChain(p, b)
  BY <1>2 DEF MountedNode
<1>4. mounted'[r].ctx = ctx /\ Remaining(ctx) > 0
  BY <1>0, <1>a DEF MountedAt, TypedTasks
<1>5. p = None \/ (p \in tree /\ p \in Requests /\ Done(p) /\ p # r)
  BY <1>0, <1>1, <1>q, Located DEF Done, NoNode
<1>6. ~Done(r)
  BY <1>1 DEF Done, NoNode
<1>7. Frozen
  BY <1>2, <1>6 DEF Frozen
<1>8. node \in [Requests -> Nodes] /\ node' \in [Requests -> Nodes]
  BY <1>0 DEF TypedTree
<1>9. Path(p) \in Seq(Requests) /\ ContextOf(p) \in Seq(Tokens) /\ Len(Hist(p)) <= Len(req[r].msgs)
      /\ Len(Hist(p)) \in Nat /\ Len(req[r].msgs) \in Nat
  <2>1. Path(p) \in Seq(Requests) /\ Hist(p) \in Seq(Messages)
         /\ Len(Hist(p)) <= Len(req[r].msgs) /\ ContextOf(p) \in Seq(Tokens)
    BY <1>0, <1>q, Located
  <2>2. req[r].msgs \in Seq(Messages)
    BY <1>q, Asked
  <2>3. QED BY <2>1, <2>2
<1>10. \A i \in 1..Len(Path(p)) : Path(p)[i] \in Requests /\ Done(Path(p)[i])
  <2>1. CASE p = None
    BY <2>1 DEF Path
  <2>2. CASE p # None
    <3>1. Path(p) = node[p].path /\ PathOf(p) /\ Done(p)
      BY <1>5, <2>2 DEF Path, TreeInv, Paths, Done, Mounted
    <3>2. ASSUME NEW i \in 1..Len(Path(p)) PROVE Path(p)[i] \in Requests /\ Done(Path(p)[i])
      <4>1. CASE i = Len(Path(p))
        BY <1>9, <3>1, <4>1 DEF PathOf
      <4>2. CASE i # Len(Path(p))
        <5>1. i \in 1..(Len(Path(p)) - 1)
          BY <1>9, <4>2
        <5>2. QED BY <1>9, <3>1, <5>1 DEF PathOf
      <4>3. QED BY <4>1, <4>2
    <3>3. QED BY <3>2
  <2>3. QED BY <2>1, <2>2
<1>11. Agree(node, node', Path(p)) /\ \A i \in 1..Len(Path(p)) : node'[Path(p)[i]] = node[Path(p)[i]]
  BY <1>7, <1>10 DEF Agree, Frozen
<1>12. ContextIn(node', Path(p)) = ContextOf(p)
  <2>1. ContextIn(node, Path(p)) = ContextIn(node', Path(p))
    BY <1>8, <1>9, <1>11, ContextAgrees
  <2>2. QED BY <2>1, InThisState
<1> HIDE DEF b, kept, k
<1>13. ctx = kept \o PromptIn(node', r)
  BY <1>3 DEF MountedContext, PromptIn, kept, k
<1>14. ContextIn(node', node'[r].path) = ctx \o SampledIn(node', r)
  <2>1. ContextIn(node', Append(Path(p), r)) = ExtendedIn(node', ContextIn(node', Path(p)), r)
    BY <1>8, <1>9, ContextAppend
  <2>2. ExtendedIn(node', ContextOf(p), r) = (kept \o PromptIn(node', r)) \o SampledIn(node', r)
    BY <1>3 DEF ExtendedIn, kept
  <2>3. QED BY <1>3, <1>12, <1>13, <2>1, <2>2
<1>15. ctx \in Seq(Tokens)
  BY <1>0, MountTyped
<1>16. Fed(r)'
  <2>1. Len(ctx) + 0 <= Capacity
    <3>1. Len(ctx) \in Nat /\ Capacity \in Nat
      BY <1>15, ParametersAssumption
    <3>2. QED BY <1>4, <3>1 DEF Remaining
  <2>2. node'[r].prompt > 0
    BY <1>3, <1>9 DEF k
  <2>3. QED BY <1>3, <1>4, <1>14, <2>1, <2>2 DEF Fed, Mounted
<1>17. Convex(r)'
  <2> DEFINE c == ContinuedChain(p, b)
  <2>1. Parent(r)' = p
    <3>1. Path(r)' = Append(Path(p), r)
      BY <1>0, <1>3 DEF Path
    <3>2. CASE p = None
      <4>1. Path(p) = << >>
        BY <3>2 DEF Path
      <4>2. Len(Path(r)') = 1
        BY <3>1, <4>1
      <4>3. QED BY <3>2, <4>2 DEF Parent
    <3>3. CASE p # None
      <4>1. Len(Path(p)) > 0 /\ Path(p)[Len(Path(p))] = p
        BY <1>5, <3>3 DEF Path, TreeInv, Paths, PathOf, Done, Mounted
      <4>2. Len(Append(Path(p), r)) = Len(Path(p)) + 1 /\ Append(Path(p), r)[Len(Path(p))] = Path(p)[Len(Path(p))]
        BY <1>9, <4>1
      <4>3. QED BY <1>9, <3>1, <4>1, <4>2 DEF Parent
    <3>4. QED BY <3>2, <3>3
  <2>2. p # None => node'[p] = node[p]
    BY <1>5, <1>7 DEF Frozen
  <2>3. Len(node'[r].path) - 1 = Len(Path(p)) /\ \A i \in 1..Len(Path(p)) : node'[r].path[i] = Path(p)[i]
    BY <1>3, <1>9
  <2>4. \/ p # None /\ node[p].chain = c
        \/ \A i \in 1..Len(Path(p)) : node[Path(p)[i]].chain # c
    <3>1. CASE b # None
      <4>1. b \in Requests /\ b \in Children(p) /\ Done(b) /\ c = node[b].chain
        BY <1>0, <3>1, Backed DEF b, Done, ContinuedChain
      <4>2. Parent(b) = p /\ Mounted(b) /\ Convex(b) /\ node[b].path = Append(Path(p), b)
        BY <4>1 DEF Children, Mounted, Done, Grown, TreeInv, Paths, PathOf
      <4>3. Len(node[b].path) - 1 = Len(Path(p)) /\ \A i \in 1..Len(Path(p)) : node[b].path[i] = Path(p)[i]
        BY <1>9, <4>2
      <4>4. QED BY <4>1, <4>2, <4>3 DEF Convex
    <3>2. CASE b = None /\ c # NoChain
      <4>1. IsTip(p) /\ c = node[p].chain
        BY <3>2 DEF ContinuedChain
      <4>2. QED BY <4>1 DEF IsTip
    <3>3. CASE c = NoChain
      BY <1>10, <3>3 DEF TreeInv, Chains
    <3>4. QED BY <3>1, <3>2, <3>3
  <2> HIDE DEF c
  <2>5. node'[r].chain = c
    BY <1>3 DEF c
  <2>6. QED BY <1>11, <2>1, <2>2, <2>3, <2>4, <2>5 DEF Convex
<1>18. ~Done(r)'
  BY <1>3 DEF Done
<1>19. QED BY <1>7, <1>16, <1>17, <1>18

\* The members of a sequence.
LEMMA AsSet ==
  ASSUME NEW S, NEW s \in Seq(S)
  PROVE  \A x : x \in ToSet(s) <=> \E j \in 1..Len(s) : s[j] = x
BY DEF ToSet

\* What a commit does to the nodes.
CommitEffect(r, k) ==
  /\ Running(r) /\ node[r].status = "PENDING" /\ pc[r] = "decoding" /\ phase = "ACTIVE"
  /\ k \in Nat /\ Len(mounted[r].ctx) + k <= Capacity /\ mounted[r].ctx \in Seq(Tokens)
  /\ node'[r].status = "COMPLETED" /\ node'[r].path = node[r].path /\ node'[r].prompt = node[r].prompt
  /\ node'[r].trim = node[r].trim /\ node'[r].resp = k /\ node'[r].chain = ChainOf(r)
  /\ node'[r].coalesced = waiters[r] + (IF TipOf(node[r].chain) = None THEN 0 ELSE node[TipOf(node[r].chain)].coalesced)
  /\ \A s \in Requests : s # r => node'[s] = node[s]
  /\ UNCHANGED <<phase, tree, mounted, result, waiters, joined, req, closer>>
  /\ next_chain_id' = IF node[r].chain = NoChain THEN next_chain_id + 1 ELSE next_chain_id
  /\ KeptWith(leaves, Entry(ChainOf(r), r, NoTrajectory, 0), leaves')
  /\ dropped' = dropped + DroppedBy(mounted[r].backup)
  /\ Resolve(r, "ok", ChainOf(r))
  /\ pc'[r] = "ok" /\ \A s \in Requests : s # r => pc'[s] = pc[s]

\* A commit changes the state as CommitEffect says.
LEMMA CommitEffects ==
  ASSUME TreeInv, NEW r \in Requests, Commit(r)
  PROVE  \E k \in Nat : CommitEffect(r, k)
<1>0. TypedTree /\ TypedTasks /\ TypedChains /\ TypedShared /\ None \notin Requests
  BY Typed, ParametersAssumption DEF TreeInv
<1>1. PICK reply \in Replies, k \in GenLens :
        /\ k <= Remaining(mounted[r].ctx)
        /\ node' = [node EXCEPT ![r] = CompletedNode(r, reply, k)]
        /\ next_chain_id' = IF node[r].chain = NoChain THEN next_chain_id + 1 ELSE next_chain_id
        /\ leaves' = Register(Entry(ChainOf(r), r, NoTrajectory, 0))
        /\ dropped' = dropped + DroppedBy(mounted[r].backup)
        /\ Resolve(r, "ok", ChainOf(r))
        /\ GoTo(r, "ok")
        /\ UNCHANGED <<phase, tree, mounted, result, waiters, joined, req, closer>>
  BY DEF Commit
<1> DEFINE e == Entry(ChainOf(r), r, NoTrajectory, 0)
<1>2. pc[r] = "decoding" /\ phase = "ACTIVE" /\ Running(r) /\ node[r].status = "PENDING"
  <2>1. pc[r] = "decoding"
    BY DEF Commit
  <2>2. QED BY <1>0, <2>1 DEF TreeInv, Stages, Running
<1>3. node'[r] = CompletedNode(r, reply, k) /\ \A s \in Requests : s # r => node'[s] = node[s]
  BY <1>0, <1>1 DEF TypedTree
<1>4. node[r] \in Nodes
  BY <1>0 DEF TypedTree
<1>5. LET m == CompletedNode(r, reply, k) IN
      /\ m.status = "COMPLETED" /\ m.path = node[r].path /\ m.prompt = node[r].prompt
      /\ m.trim = node[r].trim /\ m.resp = k /\ m.chain = ChainOf(r)
      /\ m.coalesced = waiters[r] + (IF TipOf(node[r].chain) = None THEN 0 ELSE node[TipOf(node[r].chain)].coalesced)
  BY <1>4 DEF CompletedNode, Nodes
<1>6. pc'[r] = "ok" /\ \A s \in Requests : s # r => pc'[s] = pc[s]
  BY <1>0, <1>1 DEF GoTo, TypedTasks
<1>7. k \in Nat /\ mounted[r].ctx \in Seq(Tokens) /\ Len(mounted[r].ctx) + k <= Capacity
  <2>1. k \in Nat /\ Capacity \in Nat
    BY ParametersAssumption
  <2>2. mounted[r].ctx \in Seq(Tokens)
    BY <1>0 DEF TypedTasks
  <2>3. Len(mounted[r].ctx) \in Nat
    BY <2>2
  <2>4. QED BY <1>1, <2>1, <2>2, <2>3 DEF Remaining
<1>8. KeptWith(leaves, e, leaves')
  <2>1. NoTrajectory \in Trajectory
    BY DEF NoTrajectory, Trajectory
  <2>0. ChainOf(r) \in Nat \ {NoChain}
    BY <1>0, CompletedTyped
  <2>2. e \in Entries
    BY <2>0, <2>1 DEF Entry, Entries
  <2>3. leaves \in Seq(Entries) /\ Chained(leaves)
    BY <1>0 DEF TypedChains, TreeInv, Chains
  <2>4. KeptWith(leaves, e, Register(e))
    BY <2>2, <2>3, Registered
  <2>5. QED BY <1>1, <2>4
<1>9. CommitEffect(r, k)
  BY <1>1, <1>2, <1>3, <1>5, <1>6, <1>7, <1>8 DEF CommitEffect
<1>10. QED BY <1>7, <1>9

\* What the chain of a node trains before its generation.
Before(n) ==
  IF Parent(n) # None /\ node[Parent(n)].chain = node[n].chain
  THEN Trained(LinOf(node, Parent(n), TRUE)) ELSE {}

\* The chain of a commit trains what it trained, and the new generation.
LEMMA CommitGrows ==
  ASSUME TreeInv, TypedTree', Grown, NEW r \in Requests, NEW k, CommitEffect(r, k)
  PROVE  /\ Frozen /\ Fed(r)' /\ Convex(r)' /\ Linear(r)'
         /\ Trains(node', r, IF node[r].chain = NoChain THEN {} ELSE Before(r))
<1>0. TypedTree /\ TypedTasks /\ TypedChains /\ TypedShared /\ None \notin Requests
  BY Typed, ParametersAssumption DEF TreeInv
<1>1. /\ node'[r].status = "COMPLETED" /\ node'[r].path = node[r].path /\ node'[r].prompt = node[r].prompt
      /\ node'[r].trim = node[r].trim /\ node'[r].resp = k /\ node'[r].chain = ChainOf(r)
      /\ \A s \in Requests : s # r => node'[s] = node[s]
      /\ mounted' = mounted /\ ~Done(r) /\ Mounted(r) /\ node[r].status = "PENDING"
      /\ k \in Nat /\ Len(mounted[r].ctx) + k <= Capacity /\ mounted[r].ctx \in Seq(Tokens)
  BY DEF CommitEffect, Done, Mounted
<1> DEFINE P == Parent(r)
           path == Path(P)
           c == ChainOf(r)
<1>2. Frozen
  BY <1>1 DEF Frozen
<1>3. node \in [Requests -> Nodes] /\ node' \in [Requests -> Nodes]
  BY <1>0 DEF TypedTree
<1>4. /\ PathOf(r) /\ node[r].path = Append(path, r) /\ Path(r) = node[r].path
      /\ (P = None \/ (P \in Requests /\ Done(P) /\ P # r))
  BY <1>0, <1>1, Parents DEF TreeInv, Paths, PathOf, Path
<1>5. path \in Seq(Requests)
  BY <1>0, <1>4 DEF Path, TypedTree, Nodes
<1>6. \A i \in 1..Len(path) : path[i] \in Requests /\ Done(path[i]) /\ path[i] = node[r].path[i]
  <2>1. Len(node[r].path) - 1 = Len(path) /\ \A i \in 1..Len(path) : path[i] = node[r].path[i]
    BY <1>4, <1>5
  <2>2. QED BY <1>4, <1>5, <2>1 DEF PathOf
<1>7. Agree(node, node', path) /\ \A i \in 1..Len(path) : node'[path[i]] = node[path[i]]
  BY <1>2, <1>6 DEF Agree, Frozen
<1>n. \A n : Path(n)' = Path(n) /\ Parent(n)' = Parent(n)
  <2>1. \A n : n # None => node'[n].path = node[n].path
    <3>1. \A n : n # r => node'[n] = node[n]
      <4>1. PICK m : node' = [node EXCEPT ![r] = m]
        <5>1. node' = [node EXCEPT ![r] = node'[r]]
          BY <1>1, <1>3
        <5>2. QED BY <5>1
      <4>2. QED BY <4>1
    <3>2. QED BY <1>1, <3>1
  <2>2. \A n : Path(n)' = Path(n)
    BY <2>1 DEF Path
  <2>3. QED BY <2>2 DEF Parent
<1> HIDE DEF path, P
<1>8. ContextIn(node', node'[r].path) = mounted'[r].ctx \o SampledIn(node', r)
  <2> DEFINE kept == Prefix(ContextIn(node, path), Monus(Len(ContextIn(node, path)), node[r].trim))
             ctx == mounted[r].ctx
             added == PromptIn(node, r)
  <2>0. Fed(r) /\ Mounted(r) /\ ~Done(r)
    BY <1>1 DEF Grown
  <2>1. ContextIn(node, node[r].path) = ctx \o SampledIn(node, r) /\ node[r].resp = 0
    BY <2>0 DEF Fed
  <2>2. SampledIn(node, r) = << >>
    BY <2>1 DEF SampledIn
  <2>3. ContextIn(node, node[r].path) = (kept \o added) \o SampledIn(node, r)
    <3>1. ContextIn(node, Append(path, r)) = ExtendedIn(node, ContextIn(node, path), r)
      BY <1>3, <1>5, ContextAppend
    <3>2. QED BY <1>4, <3>1 DEF ExtendedIn
  <2>4. kept \o added \in Seq(Tokens)
    <3>1. ContextIn(node, path) \in Seq(Tokens) /\ node[r].trim \in Nat /\ added \in Seq(Tokens)
      BY <1>3, <1>5, ContextTyped, NodeTokens
    <3>2. kept \in Seq(Tokens)
      BY <3>1, PrefixTyped
    <3> HIDE DEF kept, added
    <3>3. QED BY <3>1, <3>2, ConcatProperties
  <2> HIDE DEF kept, added
  <2>5. ctx = kept \o added
    <3>1. \A x \in Seq(Tokens) : x \o << >> = x
      BY ConcatEmptySeq
    <3>2. ctx \o << >> = (kept \o added) \o << >>
      BY <2>1, <2>2, <2>3
    <3>3. ctx \in Seq(Tokens)
      BY <1>1
    <3> HIDE DEF ctx
    <3>4. QED BY <2>4, <3>1, <3>2, <3>3
  <2>6. ContextIn(node', Append(path, r)) = ExtendedIn(node', ContextIn(node', path), r)
    BY <1>3, <1>5, ContextAppend
  <2>7. ContextIn(node', path) = ContextIn(node, path)
    BY <1>3, <1>5, <1>7, ContextAgrees
  <2>8. PromptIn(node', r) = added
    BY <1>1 DEF PromptIn, added
  <2>9. ExtendedIn(node', ContextIn(node, path), r) = (kept \o added) \o SampledIn(node', r)
    BY <1>1, <2>8 DEF ExtendedIn, kept
  <2>10. QED BY <1>1, <1>4, <2>5, <2>6, <2>7, <2>9
<1>9. Fed(r)'
  BY <1>1, <1>8 DEF Fed, Mounted, Done, Grown
<1>d. \A m \in Requests : Done(m) => node[m].chain # NoChain /\ node[m].chain < next_chain_id /\ node[m].chain \in Nat
  BY <1>3 DEF TreeInv, Chains, Nodes
<1>c. c = IF node[r].chain = NoChain THEN next_chain_id ELSE node[r].chain
  BY DEF ChainOf
<1> HIDE DEF c
\* The chain of the node goes on, or starts with it.
<1>10. \/ P # None /\ node[P].chain = c /\ node[r].chain = c /\ node[r].chain # NoChain
       \/ /\ \A i \in 1..Len(path) : node[path[i]].chain # c
          /\ node[r].chain = NoChain \/ ~(P # None /\ node[P].chain = node[r].chain)
          /\ ~(P # None /\ node[P].chain = c)
  <2>1. CASE node[r].chain = NoChain
    <3>1. \A m \in Requests : Done(m) => node[m].chain # c
      BY <1>c, <1>d, <2>1
    <3>2. QED BY <1>4, <1>6, <2>1, <3>1
  <2>2. CASE node[r].chain # NoChain
    <3>1. c = node[r].chain
      BY <1>c, <2>2
    <3>2. CASE P # None /\ node[P].chain = node[r].chain
      BY <2>2, <3>1, <3>2
    <3>3. CASE ~(P # None /\ node[P].chain = node[r].chain)
      <4>1. \A i \in 1..(Len(node[r].path) - 1) : node[node[r].path[i]].chain # node[r].chain
        BY <1>1, <3>3 DEF Grown, Convex, P
      <4>2. Len(node[r].path) - 1 = Len(path)
        BY <1>4, <1>5
      <4>3. QED BY <1>6, <3>1, <3>3, <4>1, <4>2
    <3>4. QED BY <3>2, <3>3
  <2>3. QED BY <2>1, <2>2
<1>11. Convex(r)'
  <2>1. Parent(r)' = P
    BY <1>n DEF P
  <2>2. P # None => node'[P] = node[P]
    BY <1>2, <1>4 DEF Frozen
  <2>3. Len(node'[r].path) - 1 = Len(path) /\ \A i \in 1..Len(path) : node'[r].path[i] = path[i]
    BY <1>1, <1>4, <1>5
  <2>4. \/ P # None /\ node'[P].chain = node'[r].chain
        \/ \A i \in 1..(Len(node'[r].path) - 1) : node'[node'[r].path[i]].chain # node'[r].chain
    BY <1>1, <1>7, <1>10, <2>2, <2>3 DEF c
  <2>5. QED BY <2>1, <2>4 DEF Convex
<1> DEFINE before == IF node[r].chain = NoChain THEN {} ELSE Before(r)
           a == LinOf(node', r, TRUE)
<1>12. /\ Trains(node', r, before) /\ \E i : FirstAt(node', node'[r].path, node'[r].chain, i)
       /\ \A x \in before : /\ x[1] \in ToSet(node[r].path) /\ node'[x[1]].status = "COMPLETED"
                            /\ node'[x[1]].chain = c /\ x \in Own(node', x[1])
  <2>1. CASE P # None /\ node[P].chain = c /\ node[r].chain = c /\ node[r].chain # NoChain
    <3> DEFINE t == LinOf(node, P, TRUE)
    <3>1. P \in Requests /\ Done(P) /\ Mounted(P) /\ node'[P] = node[P]
      BY <1>2, <1>4, <2>1 DEF Frozen, Mounted, Done
    <3>2. /\ \E i : FirstAt(node, node[P].path, node[P].chain, i)
          /\ Good(node, t, c) /\ \A x \in Trained(t) : x[1] \in ToSet(node[P].path)
      BY <2>1, <3>1 DEF Grown, Linear
    <3>3. PICK i : FirstAt(node, node[P].path, node[P].chain, i)
      BY <3>2
    <3>4. path = node[P].path
      BY <2>1 DEF path, Path
    <3>5. FirstAt(node', node'[P].path, node'[P].chain, i)
      <4>1. \A j \in 1..(i - 1) : j \in 1..Len(path)
        BY <1>5, <3>3, <3>4 DEF FirstAt
      <4>2. QED BY <1>7, <3>1, <3>3, <3>4, <4>1 DEF FirstAt
    <3>6. LinOf(node', P, TRUE) = t
      <4>1. TypedTree' /\ Paths /\ TRUE \in BOOLEAN
        BY DEF TreeInv
      <4>2. QED BY <1>0, <1>2, <3>1, <4>1, LinFrozen
    <3> HIDE DEF t
    <3>7. Good(node', t, c)
      BY <1>2, <3>2, GoodFrozen
    <3>8. t \in Trajectory /\ Distinct(t)
      BY <3>7 DEF Good
    <3>9. \A x \in Trained(t) : x[1] # r
      BY <1>1, <3>2 DEF Good, Done
    <3>10. node'[r].path = Append(node'[P].path, r) /\ node'[P].chain = node'[r].chain
      BY <1>1, <1>4, <2>1, <3>1, <3>4 DEF c
    <3>11. Trains(node', r, Trained(LinOf(node', P, TRUE))) /\ FirstAt(node', node'[r].path, node'[r].chain, i)
      BY <1>3, <3>1, <3>5, <3>6, <3>8, <3>9, <3>10, TrainsMore
    <3>12. before = Trained(t)
      BY <2>1 DEF Before, P, t
    <3>13. \A x \in ToSet(path) : x \in ToSet(node[r].path)
      <4>1. \A j \in 1..Len(path) : j \in 1..Len(node[r].path)
        BY <1>4, <1>5
      <4>2. node[r].path \in Seq(Requests)
        BY <1>3 DEF Nodes
      <4>3. /\ \A x : x \in ToSet(path) <=> \E j \in 1..Len(path) : path[j] = x
            /\ \A x : x \in ToSet(node[r].path) <=> \E j \in 1..Len(node[r].path) : node[r].path[j] = x
        BY <1>5, <4>2, AsSet
      <4>4. QED BY <1>6, <4>1, <4>3
    <3> HIDE DEF before
    <3>14. QED BY <3>2, <3>4, <3>6, <3>7, <3>11, <3>12, <3>13 DEF Good
  <2>2. CASE /\ \A i \in 1..Len(path) : node[path[i]].chain # c
             /\ node[r].chain = NoChain \/ ~(P # None /\ node[P].chain = node[r].chain)
    <3>1. \A i \in 1..Len(path) : node'[path[i]].chain # node'[r].chain
      BY <1>1, <1>7, <2>2 DEF c
    <3>2. node'[r].path = Append(path, r)
      BY <1>1, <1>4
    <3>3. Trains(node', r, {}) /\ FirstAt(node', node'[r].path, node'[r].chain, Len(path) + 1)
      BY <1>3, <1>5, <3>1, <3>2, TrainsFirst
    <3>4. before = {}
      BY <2>2 DEF Before, P
    <3> HIDE DEF before
    <3>5. QED BY <3>3, <3>4
  <2>3. QED BY <1>10, <2>1, <2>2
<1> HIDE DEF before
<1>13. Linear(r)'
  <2>1. a \in Trajectory /\ Distinct(a) /\ Trained(a) \subseteq before \cup Own(node', r)
    BY <1>12 DEF Trains
  <2>2. \A x \in Own(node', r) : x[1] = r
    BY <1>3, OwnTokens
  <2>3. r \in ToSet(node[r].path)
    <3>1. node[r].path[Len(node[r].path)] = r /\ Len(node[r].path) \in 1..Len(node[r].path)
      BY <1>3, <1>4 DEF PathOf, Nodes
    <3>2. node[r].path \in Seq(Requests)
      BY <1>3 DEF Nodes
    <3>3. \A x : x \in ToSet(node[r].path) <=> \E j \in 1..Len(node[r].path) : node[r].path[j] = x
      BY <3>2, AsSet
    <3>4. QED BY <3>1, <3>3
  <2>4. Len(a.prompt) + Len(a.resp) <= Capacity
    <3> DEFINE w == node'[r].path
               st == StartIn(node', w, node'[r].chain)
    <3>1. w \in Seq(Requests)
      BY <1>3 DEF Nodes
    <3>2. a.prompt \o a.resp = ContextIn(node', w)
      <4>1. LinearIn(node', w, st, TRUE).prompt \o LinearIn(node', w, st, TRUE).resp = ContextIn(node', w)
        BY <1>3, <3>1, LinearContext
      <4>2. QED BY <4>1 DEF LinOf
    <3>3. SampledIn(node', r) \in Seq(Tokens) /\ Len(SampledIn(node', r)) = k
      BY <1>1, <1>3, NodeTokens
    <3>4. a.prompt \in Seq(Tokens) /\ a.resp \in Seq(Tokens)
      BY <2>1 DEF Trajectory
    <3> HIDE DEF a, w, st
    <3>5. Len(a.prompt \o a.resp) = Len(a.prompt) + Len(a.resp)
      BY <3>4
    <3>6. Len(mounted[r].ctx \o SampledIn(node', r)) = Len(mounted[r].ctx) + k
      <4>1. \A x, y \in Seq(Tokens) : Len(x \o y) = Len(x) + Len(y)
        OBVIOUS
      <4>2. QED BY <1>1, <3>3, <4>1
    <3>7. QED BY <1>1, <1>8, <3>2, <3>5, <3>6 DEF w
  <2> HIDE DEF a
  <2>5. ASSUME NEW x \in Trained(a)
        PROVE /\ node'[x[1]].status = "COMPLETED" /\ node'[x[1]].chain = c /\ x \in Own(node', x[1])
              /\ x[1] \in ToSet(node'[r].path)
    <3>1. CASE x \in before
      BY <1>1, <1>12, <3>1
    <3>2. CASE x \in Own(node', r)
      <4>1. x[1] = r
        BY <2>2, <3>2
      <4>2. QED BY <1>1, <2>3, <3>2, <4>1 DEF c
    <3>3. QED BY <2>1, <3>1, <3>2
  <2>6. Good(node', a, c)
    BY <2>1, <2>4, <2>5 DEF Good
  <2>7. QED BY <1>1, <1>12, <2>5, <2>6 DEF Linear, a, c
<1>14. QED BY <1>2, <1>9, <1>11, <1>12, <1>13 DEF before

-----------------------------------------------------------------------------
(* The requests that share a generation.                                   *)

\* A step keeps what the invariant says of a node it leaves alone.
LEMMA GrownOther ==
  ASSUME TreeInv, TypedTree', Frozen, Grown, NEW n \in Requests, node'[n] = node[n],
         mounted'[n] = mounted[n]
  PROVE  Fed(n)' /\ Convex(n)' /\ Linear(n)'
<1>0. TypedTree /\ Paths /\ None \notin Requests
  BY Typed, ParametersAssumption DEF TreeInv
<1>1. Fed(n) /\ Convex(n) /\ Linear(n)
  BY DEF Grown
<1>2. CASE Mounted(n)
  BY <1>0, <1>1, <1>2, NodeFrozen
<1>3. CASE ~Mounted(n)
  <2>1. ~Mounted(n)' /\ ~Done(n)' /\ ~Done(n)
    BY <1>3 DEF Mounted, Done
  <2>2. QED BY <1>1, <2>1 DEF Fed, Convex, Linear
<1>4. QED BY <1>2, <1>3

\* Nothing has grown in the initial states.
LEMMA GrownInit == Init => Grown
<1> SUFFICES ASSUME Init PROVE Grown
  OBVIOUS
<1>1. \A n \in Requests : node[n] = NoNode
  BY DEF Init
<1>2. \A n \in Requests : ~Mounted(n) /\ ~Done(n) /\ node[n].resp = 0
  BY <1>1 DEF NoNode, Mounted, Done
<1>3. QED BY <1>2 DEF Grown, Fed, Convex, Linear

\* No step changes a completed node, and every step keeps Grown.
LEMMA GrownStep ==
  ASSUME TreeInv, TypedTree', Grown, [Next]_vars
  PROVE  Frozen /\ Grown'
<1>1. ASSUME UNCHANGED <<node, mounted>> PROVE Frozen /\ Grown'
  <2>1. Frozen
    BY <1>1 DEF Frozen
  <2>2. \A n \in Requests : Fed(n)' /\ Convex(n)' /\ Linear(n)'
    BY <1>1, <2>1, GrownOther
  <2>3. QED BY <2>1, <2>2 DEF Grown
<1>2. ASSUME NEW r \in Requests, Mount(r) PROVE Frozen /\ Grown'
  <2>1. Frozen /\ Fed(r)' /\ Convex(r)' /\ ~Done(r)'
    BY <1>2, MountGrows
  <2>2. \A n \in Requests : n # r => node'[n] = node[n] /\ mounted'[n] = mounted[n]
    BY <1>2, MountEffects DEF MountEffect
  <2>3. \A n \in Requests : n # r => Fed(n)' /\ Convex(n)' /\ Linear(n)'
    BY <2>1, <2>2, GrownOther
  <2>4. Linear(r)'
    BY <2>1 DEF Linear
  <2>5. QED BY <2>1, <2>3, <2>4 DEF Grown
<1>3. ASSUME NEW r \in Requests, Commit(r) PROVE Frozen /\ Grown'
  <2>0. PICK k \in Nat : CommitEffect(r, k)
    BY <1>3, CommitEffects
  <2>1. Frozen /\ Fed(r)' /\ Convex(r)' /\ Linear(r)'
    BY <2>0, CommitGrows
  <2>2. \A n \in Requests : n # r => node'[n] = node[n] /\ mounted'[n] = mounted[n]
    BY <2>0 DEF CommitEffect
  <2>3. \A n \in Requests : n # r => Fed(n)' /\ Convex(n)' /\ Linear(n)'
    BY <2>1, <2>2, GrownOther
  <2>4. QED BY <2>1, <2>3 DEF Grown
<1>4. (\E r \in Requests : Mount(r) \/ Commit(r)) \/ UNCHANGED <<node, mounted>>
  <2>1. CASE UNCHANGED vars
    BY <2>1 DEF vars, session
  <2>2. CASE Next
    BY <2>2 DEF Next, Step, Reject, Join, StartMount, ExhaustCapacity, StartCommit, CommitTooLate,
      Unwind, Wake, FailUnmounted, FailMounted, StartFinalize, StartAbort, FinishClose, CancelClose,
      Terminated, vars, session
  <2>3. QED BY <2>1, <2>2
<1>5. QED BY <1>1, <1>2, <1>3, <1>4

\* Who owns a fingerprint runs and has not answered; who has joined an owner is
\* counted by it.
Busy(r) == pc[r] \in {"mounting", "generating", "decoding", "unwinding"}

\* The requests that share the result of r.
Joiners(r) == {w \in Requests : joined[w] = r}

\* The owner of a fingerprint is running, and its future is pending.
OwnedBy(q) ==
  inflight[q] # None => Coalesce /\ req[inflight[q]] = q /\ future[inflight[q]].state = "pending" /\ Busy(inflight[q])

\* What is known of the future of r, and of the requests that joined it.
OwnerOf(r) ==
  /\ Coalesce /\ Busy(r) => inflight[req[r]] = r
  /\ future[r].state = "pending" => Busy(r) /\ Coalesce
  /\ future[r].chain < next_chain_id
  /\ pc[r] = "mounting" => Joiners(r) = {}
  /\ pc[r] = "queued" => joined[r] = None /\ future[r].state = "none"
  /\ joined[r] # None => Coalesce
  /\ future[r].state = "none" => Joiners(r) = {}
  /\ waiters[r] = Cardinality(Joiners(r))
Owners == (\A q \in Request : OwnedBy(q)) /\ \A r \in Requests : OwnerOf(r)

\* Nothing is in flight in the initial states.
LEMMA OwnersInit == Init => Owners
<1> SUFFICES ASSUME Init PROVE Owners
  OBVIOUS
<1>0. None \notin Requests
  BY ParametersAssumption
<1>1. \A r \in Requests : /\ joined[r] = None /\ waiters[r] = 0 /\ pc[r] = "queued"
                          /\ future[r] = [state |-> "none", chain |-> NoChain]
  BY DEF Init
<1>2. \A r \in Requests : Joiners(r) = {}
  BY <1>0, <1>1 DEF Joiners
<1>3. (\A q \in Request : inflight[q] = None) /\ next_chain_id = 1
  BY DEF Init
<1>4. Cardinality({}) = 0
  BY FS_EmptySet
<1>5. \A q \in Request : OwnedBy(q)
  BY <1>3 DEF OwnedBy
<1>6. \A r \in Requests : OwnerOf(r)
  <2> SUFFICES ASSUME NEW r \in Requests PROVE OwnerOf(r)
    OBVIOUS
  <2>1. future[r].state = "none" /\ future[r].chain = 0
    BY <1>1 DEF NoChain
  <2>2. ~Busy(r)
    BY <1>1 DEF Busy
  <2>3. QED BY <1>1, <1>2, <1>3, <1>4, <2>1, <2>2 DEF OwnerOf
<1>7. QED BY <1>5, <1>6 DEF Owners

\* Steps of a task that is not the owner of anything new.
LEMMA OwnersQuiet ==
  ASSUME Owners, UNCHANGED <<inflight, future, joined, waiters, req>>,
         next_chain_id \in Nat, next_chain_id' \in Nat, next_chain_id <= next_chain_id',
         inflight \in [Request -> Requests \cup {None}], \A r \in Requests : future[r].chain \in Nat,
         \A r \in Requests : pc'[r] = pc[r] \/ ((Busy(r)' <=> Busy(r)) /\ pc'[r] \notin {"mounting", "queued"})
  PROVE  Owners'
<1>1. \A r : Joiners(r)' = Joiners(r)
  BY DEF Joiners
<1>2. \A r \in Requests : Busy(r)' <=> Busy(r)
  BY DEF Busy
<1>3. ASSUME NEW q \in Request PROVE OwnedBy(q)'
  BY <1>2, <1>3 DEF Owners, OwnedBy
<1>4. ASSUME NEW r \in Requests PROVE OwnerOf(r)'
  <2>1. OwnerOf(r)
    BY DEF Owners
  <2>2. /\ (Coalesce /\ Busy(r) => inflight[req[r]] = r) /\ (future[r].state = "pending" => Busy(r) /\ Coalesce)
        /\ (joined[r] # None => Coalesce)
    BY <2>1 DEF OwnerOf
  <2>3. future[r].chain < next_chain_id'
    BY <2>1 DEF OwnerOf
  <2>4. (pc'[r] = "mounting" => Joiners(r) = {}) /\ (pc'[r] = "queued" => joined[r] = None /\ future[r].state = "none")
    BY <2>1 DEF OwnerOf
  <2>5. (future[r].state = "none" => Joiners(r) = {}) /\ waiters[r] = Cardinality(Joiners(r))
    BY <2>1 DEF OwnerOf
  <2>6. QED BY <1>1, <1>2, <2>2, <2>3, <2>4, <2>5 DEF OwnerOf
<1>6. QED BY <1>3, <1>4 DEF Owners

\* A task ends, and resolves its future if it owns one.
LEMMA OwnersResolve ==
  ASSUME Owners, TypedShared, TypedTasks, NEW r \in Requests, NEW st \in {"ok", "failed"}, NEW c \in Nat,
         Resolve(r, st, c), UNCHANGED <<joined, waiters, req>>,
         next_chain_id \in Nat, next_chain_id' \in Nat, next_chain_id <= next_chain_id', c < next_chain_id',
         pc'[r] \in {"ok", "length", "failed"}, \A s \in Requests : s # r => pc'[s] = pc[s],
         None \notin Requests
  PROVE  Owners'
<1>1. \A s : Joiners(s)' = Joiners(s)
  BY DEF Joiners
<1>2. ~Busy(r)' /\ \A s \in Requests : s # r => (Busy(s)' <=> Busy(s))
  BY DEF Busy
<1>3. /\ inflight \in [Request -> Requests \cup {None}] /\ req \in [Requests -> Request]
      /\ future \in [Requests -> [state : {"none", "pending", "ok", "failed"}, chain : Nat]]
  BY DEF TypedShared, TypedTasks
<1>4. CASE Coalesce /\ inflight[req[r]] = r
  <2>1. /\ inflight' = [inflight EXCEPT ![req[r]] = None]
        /\ future' = [future EXCEPT ![r] = [state |-> st, chain |-> c]]
    BY <1>4 DEF Resolve
  <2>2. ASSUME NEW q \in Request PROVE OwnedBy(q)'
    <3>1. CASE q = req[r]
      BY <1>3, <2>1, <3>1 DEF OwnedBy
    <3>2. CASE q # req[r]
      <4>1. inflight'[q] = inflight[q] /\ OwnedBy(q)
        BY <1>3, <2>1, <3>2 DEF Owners
      <4>2. CASE inflight[q] = None
        BY <4>1, <4>2 DEF OwnedBy
      <4>3. CASE inflight[q] # None
        <5>1. inflight[q] \in Requests /\ inflight[q] # r
          BY <1>3, <3>2, <4>1, <4>3 DEF OwnedBy
        <5>2. future'[inflight[q]] = future[inflight[q]]
          BY <1>3, <2>1, <5>1
        <5>3. QED BY <1>2, <4>1, <4>3, <5>1, <5>2 DEF OwnedBy
      <4>4. QED BY <4>2, <4>3
    <3>3. QED BY <3>1, <3>2
  <2>3. ASSUME NEW s \in Requests, s # r PROVE OwnerOf(s)'
    <3>1. OwnerOf(s) /\ future'[s] = future[s] /\ pc'[s] = pc[s]
      BY <1>3, <2>1, <2>3 DEF Owners
    <3>2. Coalesce /\ Busy(s) => inflight'[req[s]] = s
      <4>1. Coalesce /\ Busy(s) => inflight[req[s]] = s
        BY <3>1 DEF OwnerOf
      <4>2. req[s] \in Request
        BY <1>3
      <4>3. QED BY <1>3, <1>4, <2>1, <2>3, <4>1, <4>2
    <3>3. future[s].chain < next_chain_id'
      <4>1. future[s].chain < next_chain_id /\ future[s].chain \in Nat
        BY <1>3, <3>1 DEF OwnerOf
      <4>2. QED BY <4>1
    <3>4. QED BY <1>1, <1>2, <2>3, <3>1, <3>2, <3>3 DEF OwnerOf
  <2>4. OwnerOf(r)'
    <3>1. OwnerOf(r) /\ future'[r] = [state |-> st, chain |-> c]
      BY <1>3, <2>1 DEF Owners
    <3>2. future'[r].chain = c /\ future'[r].state = st /\ st # "none" /\ st # "pending"
      BY <3>1
    <3>3. QED BY <1>1, <1>2, <3>1, <3>2 DEF OwnerOf
  <2>5. QED BY <2>2, <2>3, <2>4 DEF Owners
<1>5. CASE ~(Coalesce /\ inflight[req[r]] = r)
  <2>1. inflight' = inflight /\ future' = future
    BY <1>5 DEF Resolve
  <2>2. \A s \in Requests : future[s].chain < next_chain_id'
    <3>1. \A s \in Requests : future[s].chain < next_chain_id /\ future[s].chain \in Nat
      BY <1>3 DEF Owners, OwnerOf
    <3>2. QED BY <3>1
  <2>3. future[r].state # "pending"
    BY <1>5 DEF Owners, OwnerOf
  <2>4. ASSUME NEW q \in Request PROVE OwnedBy(q)'
    <3>1. OwnedBy(q)
      BY DEF Owners
    <3>2. inflight[q] # None => inflight[q] # r /\ inflight[q] \in Requests
      BY <1>3, <2>3, <3>1 DEF OwnedBy
    <3>3. QED BY <1>2, <2>1, <3>1, <3>2 DEF OwnedBy
  <2>5. ASSUME NEW s \in Requests, s # r PROVE OwnerOf(s)'
    <3>1. OwnerOf(s) /\ pc'[s] = pc[s]
      BY <2>5 DEF Owners
    <3>2. QED BY <1>1, <1>2, <2>1, <2>2, <2>5, <3>1 DEF OwnerOf
  <2>6. OwnerOf(r)'
    <3>1. OwnerOf(r)
      BY DEF Owners
    <3>2. QED BY <1>1, <1>2, <2>1, <2>2, <2>3, <3>1 DEF OwnerOf
  <2>7. QED BY <2>4, <2>5, <2>6 DEF Owners
<1>6. QED BY <1>4, <1>5

\* A request that joins an owner keeps Owners.
LEMMA OwnersJoin ==
  ASSUME TreeInv, Owners, NEW r \in Requests, Join(r)
  PROVE  /\ Owners' /\ \E o \in Requests : /\ o # r /\ future[o].state = "pending" /\ joined[r] = None
                                           /\ joined' = [joined EXCEPT ![r] = o]
<1>0. TypedShared /\ TypedTasks /\ None \notin Requests /\ IsFiniteSet(Requests)
  BY Typed, ParametersAssumption DEF TreeInv
<1>j. inflight[req[r]] # None /\ inflight[req[r]] \in Requests
  BY <1>0 DEF Join, TypedShared, TypedTasks
<1>o. PICK o \in Requests : o = inflight[req[r]]
  BY <1>j
<1>1. /\ pc[r] = "queued" /\ lock = None /\ Coalesce /\ o # None
      /\ waiters' = [waiters EXCEPT ![o] = @ + 1] /\ joined' = [joined EXCEPT ![r] = o]
      /\ GoTo(r, "waiting") /\ UNCHANGED <<inflight, future, req, next_chain_id>>
  BY <1>j, <1>o DEF Join, Free, session
<1>2. /\ inflight \in [Request -> Requests \cup {None}] /\ req \in [Requests -> Request]
      /\ waiters \in [Requests -> Nat] /\ joined \in [Requests -> Requests \cup {None}]
      /\ pc' = [pc EXCEPT ![r] = "waiting"] /\ pc'[r] = "waiting"
      /\ \A s \in Requests : s # r => pc'[s] = pc[s]
  BY <1>0, <1>1 DEF TypedShared, TypedTasks, GoTo
<1>3. o \in Requests /\ OwnedBy(req[r]) /\ OwnerOf(r) /\ OwnerOf(o)
  BY <1>1, <1>2 DEF Owners
<1>4. /\ future[o].state = "pending" /\ Busy(o) /\ o # r /\ joined[r] = None /\ future[r].state = "none"
  BY <1>1, <1>3, <1>o DEF OwnedBy, OwnerOf, Busy
<1>5. pc[o] # "mounting"
  BY <1>0, <1>1, <1>3 DEF TreeInv, Stages
<1>6. Joiners(o)' = Joiners(o) \cup {r} /\ r \notin Joiners(o)
      /\ \A s \in Requests : s # o => Joiners(s)' = Joiners(s)
  <2>1. joined'[r] = o /\ \A w \in Requests : w # r => joined'[w] = joined[w]
    BY <1>1, <1>2
  <2>2. QED BY <1>0, <1>3, <1>4, <2>1 DEF Joiners
<1>7. waiters'[o] = waiters[o] + 1 /\ \A s \in Requests : s # o => waiters'[s] = waiters[s]
  BY <1>1, <1>2, <1>3
<1>8. waiters'[o] = Cardinality(Joiners(o)')
  <2>1. Joiners(o) \in SUBSET Requests
    BY DEF Joiners
  <2>2. IsFiniteSet(Joiners(o))
    BY <1>0, <2>1, FS_Subset
  <2>3. Cardinality(Joiners(o) \cup {r}) = Cardinality(Joiners(o)) + 1
    BY <1>6, <2>2, FS_AddElement
  <2>4. QED BY <1>3, <1>6, <1>7, <2>3 DEF OwnerOf
<1>9. \A s \in Requests : Busy(s)' <=> Busy(s)
  <2>1. ~Busy(r) /\ ~Busy(r)'
    BY <1>1, <1>2 DEF Busy
  <2>2. \A s \in Requests : s # r => (Busy(s)' <=> Busy(s))
    BY <1>2 DEF Busy
  <2>3. QED BY <2>1, <2>2
<1>10. ASSUME NEW q \in Request PROVE OwnedBy(q)'
  BY <1>1, <1>2, <1>9 DEF Owners, OwnedBy
<1>11. ASSUME NEW s \in Requests PROVE OwnerOf(s)'
  <2>1. OwnerOf(s)
    BY DEF Owners
  <2>2. CASE s = o
    <3>1. joined'[o] = joined[o] /\ pc'[o] = pc[o] /\ pc[o] # "queued"
      BY <1>1, <1>2, <1>4 DEF Busy
    <3>2. QED BY <1>1, <1>3, <1>4, <1>5, <1>8, <1>9, <2>2, <3>1 DEF OwnerOf
  <2>3. CASE s = r
    <3>1. Joiners(r)' = Joiners(r) /\ waiters'[r] = waiters[r]
      BY <1>4, <1>6, <1>7
    <3>2. QED BY <1>1, <1>2, <1>4, <1>9, <2>1, <2>3, <3>1 DEF OwnerOf
  <2>4. CASE s # o /\ s # r
    <3>1. Joiners(s)' = Joiners(s) /\ waiters'[s] = waiters[s] /\ joined'[s] = joined[s] /\ pc'[s] = pc[s]
      BY <1>1, <1>2, <1>6, <1>7, <2>4
    <3>2. QED BY <1>1, <1>9, <2>1, <3>1 DEF OwnerOf
  <2>5. QED BY <2>2, <2>3, <2>4
<1>12. QED BY <1>1, <1>3, <1>4, <1>10, <1>11 DEF Owners

\* So does a request that becomes an owner.
LEMMA OwnersStart ==
  ASSUME TreeInv, Owners, NEW r \in Requests, StartMount(r)
  PROVE  /\ Owners' /\ joined' = joined /\ Joiners(r) = {}
         /\ \A s \in Requests : s # r => future'[s] = future[s]
<1>0. TypedShared /\ TypedTasks /\ None \notin Requests
  BY Typed, ParametersAssumption DEF TreeInv
<1>1. /\ pc[r] = "queued" /\ ~(Coalesce /\ inflight[req[r]] # None)
      /\ IF Coalesce
         THEN /\ inflight' = [inflight EXCEPT ![req[r]] = r]
              /\ future' = [future EXCEPT ![r].state = "pending"]
         ELSE UNCHANGED <<inflight, future>>
      /\ GoTo(r, "mounting") /\ UNCHANGED <<waiters, joined, req, next_chain_id>>
  BY DEF StartMount, session
<1>2. /\ inflight \in [Request -> Requests \cup {None}] /\ req \in [Requests -> Request]
      /\ future \in [Requests -> [state : {"none", "pending", "ok", "failed"}, chain : Nat]]
      /\ pc'[r] = "mounting" /\ \A s \in Requests : s # r => pc'[s] = pc[s]
  BY <1>0, <1>1 DEF TypedShared, TypedTasks, GoTo
<1>3. \A s : Joiners(s)' = Joiners(s)
  BY <1>1 DEF Joiners
<1>4. OwnerOf(r) /\ Joiners(r) = {} /\ joined[r] = None /\ future[r].state = "none"
  BY <1>1 DEF Owners, OwnerOf
<1>5. ~Busy(r) /\ Busy(r)' /\ \A s \in Requests : s # r => (Busy(s)' <=> Busy(s))
  BY <1>1, <1>2 DEF Busy
<1>6. /\ \A s \in Requests : s # r => future'[s] = future[s]
      /\ Coalesce => future'[r].state = "pending" /\ future'[r].chain = future[r].chain
      /\ ~Coalesce => future' = future /\ inflight' = inflight
  BY <1>1, <1>2
<1>7. ASSUME NEW q \in Request PROVE OwnedBy(q)'
  <2>1. OwnedBy(q)
    BY DEF Owners
  <2>2. CASE ~Coalesce
    BY <1>6, <2>1, <2>2 DEF OwnedBy
  <2>3. CASE Coalesce /\ q = req[r]
    BY <1>1, <1>2, <1>5, <1>6, <2>3 DEF OwnedBy
  <2>4. CASE Coalesce /\ q # req[r]
    <3>1. inflight'[q] = inflight[q]
      BY <1>1, <1>2, <2>4
    <3>2. inflight[q] # None => inflight[q] \in Requests /\ inflight[q] # r
      BY <1>2, <1>5, <2>1 DEF OwnedBy
    <3>3. QED BY <1>1, <1>5, <1>6, <2>1, <3>1, <3>2 DEF OwnedBy
  <2>5. QED BY <2>2, <2>3, <2>4
<1>8. ASSUME NEW s \in Requests PROVE OwnerOf(s)'
  <2>1. OwnerOf(s)
    BY DEF Owners
  <2>2. CASE s = r
    <3>1. Coalesce => inflight'[req[r]] = r
      BY <1>1, <1>2
    <3>2. future'[r].chain < next_chain_id /\ (future'[r].state = "pending" => Coalesce)
      BY <1>4, <1>6 DEF OwnerOf
    <3>3. QED BY <1>1, <1>2, <1>3, <1>4, <1>5, <2>1, <2>2, <3>1, <3>2 DEF OwnerOf
  <2>3. CASE s # r
    <3>1. Coalesce /\ Busy(s) => inflight'[req[s]] = s
      <4>1. Coalesce /\ Busy(s) => inflight[req[s]] = s
        BY <2>1 DEF OwnerOf
      <4>2. Coalesce /\ Busy(s) => req[s] # req[r]
        BY <1>0, <1>1, <4>1
      <4>3. QED BY <1>1, <1>2, <4>1, <4>2
    <3>2. QED BY <1>1, <1>2, <1>3, <1>5, <1>6, <2>1, <2>3, <3>1 DEF OwnerOf
  <2>4. QED BY <2>2, <2>3
<1>9. QED BY <1>1, <1>4, <1>6, <1>7, <1>8 DEF Owners

\* Every step keeps Owners.
LEMMA OwnersStep ==
  ASSUME TreeInv, TypeOK', Owners, Next
  PROVE  Owners'
<1>0. /\ TypedShared /\ TypedTasks /\ TypedTree /\ None \notin Requests
      /\ next_chain_id \in Nat /\ next_chain_id' \in Nat /\ 0 < next_chain_id
  <2>1. TypedChains /\ TypedChains'
    BY Typed DEF TreeInv
  <2>2. QED BY <2>1, Typed, ParametersAssumption DEF TreeInv, TypedChains, NoChain
<1>1. /\ inflight \in [Request -> Requests \cup {None}] /\ \A r \in Requests : future[r].chain \in Nat
      /\ pc \in [Requests -> {"queued", "mounting", "waiting", "generating", "decoding", "unwinding", "ok", "length", "failed"}]
  BY <1>0 DEF TypedShared, TypedTasks
<1>2. ASSUME NEW r \in Requests, NEW label, GoTo(r, label),
             UNCHANGED <<inflight, future, joined, waiters, req, next_chain_id>>,
             Busy(r) <=> label \in {"mounting", "generating", "decoding", "unwinding"}, label \notin {"mounting", "queued"}
      PROVE Owners'
  <2>1. pc'[r] = label /\ \A s \in Requests : s # r => pc'[s] = pc[s]
    BY <1>1, <1>2 DEF GoTo
  <2>2. Busy(r)' <=> Busy(r)
    BY <1>2, <2>1 DEF Busy
  <2>3. \A s \in Requests : pc'[s] = pc[s] \/ ((Busy(s)' <=> Busy(s)) /\ pc'[s] \notin {"mounting", "queued"})
    BY <1>2, <2>1, <2>2
  <2>4. next_chain_id <= next_chain_id'
    BY <1>0, <1>2
  <2>5. QED BY <1>0, <1>1, <1>2, <2>3, <2>4, OwnersQuiet
<1>3. ASSUME UNCHANGED <<inflight, future, joined, waiters, req, next_chain_id, pc>> PROVE Owners'
  <2>1. next_chain_id <= next_chain_id' /\ \A r \in Requests : pc'[r] = pc[r]
    BY <1>0, <1>3
  <2>2. QED BY <1>0, <1>1, <1>3, <2>1, OwnersQuiet
<1>4. ASSUME NEW r \in Requests, NEW st \in {"ok", "failed"}, NEW c \in Nat, Resolve(r, st, c),
             NEW label \in {"ok", "length", "failed"}, GoTo(r, label), UNCHANGED <<joined, waiters, req>>,
             next_chain_id <= next_chain_id', c < next_chain_id'
      PROVE Owners'
  <2>1. pc'[r] = label /\ \A s \in Requests : s # r => pc'[s] = pc[s]
    BY <1>1, <1>4 DEF GoTo
  <2>2. QED BY <1>0, <1>4, <2>1, OwnersResolve
<1>10. ASSUME NEW r \in Requests, Reject(r) PROVE Owners'
  BY <1>2, <1>10 DEF Reject, session, sharing, Busy
<1>11. ASSUME NEW r \in Requests, Mount(r) PROVE Owners'
  BY <1>2, <1>11 DEF Mount, sharing, Busy
<1>12. ASSUME NEW r \in Requests, ExhaustCapacity(r) PROVE Owners'
  <2>1. PICK p \in Selected(req[r]) :
          /\ Resolve(r, "ok", ContinuedChain(p, Backup(p, req[r])))
          /\ GoTo(r, "length") /\ UNCHANGED <<joined, waiters, req, next_chain_id, node>>
    BY <1>12 DEF ExhaustCapacity
  <2>2. ContinuedChain(p, Backup(p, req[r])) \in Nat
    BY <1>0, Continuing DEF TypedTasks
  <2>3. ContinuedChain(p, Backup(p, req[r])) < next_chain_id
    <3>1. CASE ContinuedChain(p, Backup(p, req[r])) = NoChain
      BY <1>0, <3>1 DEF NoChain
    <3>2. CASE ContinuedChain(p, Backup(p, req[r])) # NoChain
      <4>1. req[r] \in Request /\ phase = "ACTIVE"
        BY <1>0, <1>12 DEF TypedTasks, TreeInv, Stages, ExhaustCapacity
      <4>2. \E i \in 1..Len(leaves) : leaves[i].chain = ContinuedChain(p, Backup(p, req[r]))
        BY <3>2, <4>1, NoRival
      <4>3. QED BY <4>2 DEF TreeInv, Chains
    <3>3. QED BY <3>1, <3>2
  <2>4. next_chain_id <= next_chain_id'
    BY <1>0, <2>1
  <2>5. QED BY <1>4, <2>1, <2>2, <2>3, <2>4
<1>13. ASSUME NEW r \in Requests, StartCommit(r) PROVE Owners'
  BY <1>2, <1>13 DEF StartCommit, session, sharing, Busy
<1>14. ASSUME NEW r \in Requests, Commit(r) PROVE Owners'
  <2>1. /\ Resolve(r, "ok", ChainOf(r)) /\ GoTo(r, "ok") /\ UNCHANGED <<joined, waiters, req>>
        /\ next_chain_id' = IF node[r].chain = NoChain THEN next_chain_id + 1 ELSE next_chain_id
    BY <1>14 DEF Commit
  <2>2. node[r].chain \in Nat /\ node[r].chain < next_chain_id
    BY <1>0 DEF TreeInv, Chains, TypedTree, Nodes
  <2>3. ChainOf(r) \in Nat /\ ChainOf(r) < next_chain_id' /\ next_chain_id <= next_chain_id'
    BY <1>0, <2>1, <2>2 DEF ChainOf
  <2>4. QED BY <1>4, <2>1, <2>3
<1>15. ASSUME NEW r \in Requests, CommitTooLate(r) PROVE Owners'
  BY <1>2, <1>15 DEF CommitTooLate, session, sharing, Busy
<1>16. ASSUME NEW r \in Requests, Unwind(r) \/ FailUnmounted(r) PROVE Owners'
  <2>1. /\ Resolve(r, "failed", NoChain) /\ GoTo(r, "failed")
        /\ UNCHANGED <<joined, waiters, req, next_chain_id>>
    BY <1>16 DEF Unwind, FailUnmounted, session
  <2>2. NoChain \in Nat /\ NoChain < next_chain_id' /\ next_chain_id <= next_chain_id'
    BY <1>0, <2>1 DEF NoChain
  <2>3. QED BY <1>4, <2>1, <2>2
<1>17. ASSUME NEW r \in Requests, Wake(r) PROVE Owners'
  <2>1. pc[r] = "waiting" /\ future[joined[r]].state \in {"ok", "failed"} /\ GoTo(r, future[joined[r]].state)
        /\ UNCHANGED <<inflight, future, joined, waiters, req, next_chain_id>>
    BY <1>17 DEF Wake, session, sharing
  <2>2. ~Busy(r)
    BY <2>1 DEF Busy
  <2>3. QED BY <1>2, <2>1, <2>2
<1>18. ASSUME NEW r \in Requests, FailMounted(r) PROVE Owners'
  BY <1>2, <1>18 DEF FailMounted, session, sharing, Busy
<1>19. ASSUME StartFinalize \/ StartAbort \/ FinishClose \/ CancelClose \/ Terminated PROVE Owners'
  BY <1>3, <1>19 DEF StartFinalize, StartAbort, FinishClose, CancelClose, Terminated, vars, session, sharing
<1>20. QED
  BY <1>10, <1>11, <1>12, <1>13, <1>14, <1>15, <1>16, <1>17, <1>18, <1>19, OwnersJoin, OwnersStart DEF Next, Step

-----------------------------------------------------------------------------
(* The trajectories of the session.                                        *)

\* Sums that shrink stay within the capacity.
LEMMA Fits ==
  ASSUME NEW p \in Nat, NEW q \in Nat, NEW r \in Nat, NEW s \in Nat, NEW c \in Nat,
         p = r, q <= s, r + s <= c
  PROVE  p + q <= c
OBVIOUS

\* The chain that a completed node trains, in its own state.
LEMMA TrainsNow ==
  ASSUME TreeInv, Grown, NEW n \in Requests, Done(n)
  PROVE  Trains(node, n, Before(n)) /\ \A x \in Before(n) : x[1] # n
<1>0. TypedTree /\ None \notin Requests
  BY Typed, ParametersAssumption DEF TreeInv
<1>1. node \in [Requests -> Nodes] /\ Mounted(n)
  BY <1>0 DEF TypedTree, Done, Mounted
<1> DEFINE P == Parent(n)
           path == Path(P)
<1>2. /\ PathOf(n) /\ node[n].path = Append(path, n)
      /\ P = None \/ (P \in Requests /\ Done(P) /\ P # n)
  BY <1>0, <1>1, Parents DEF TreeInv, Paths, PathOf
<1>3. path \in Seq(Requests)
  BY <1>1, <1>2 DEF Path, Nodes
<1>4. Len(node[n].path) - 1 = Len(path) /\ \A i \in 1..Len(path) : path[i] = node[n].path[i]
  BY <1>2, <1>3
<1>5. n \notin ToSet(path)
  <2>1. \A x : x \in ToSet(path) <=> \E j \in 1..Len(path) : path[j] = x
    BY <1>3, AsSet
  <2>2. ASSUME NEW j \in 1..Len(path), path[j] = n PROVE FALSE
    <3>1. j \in 1..Len(node[n].path) /\ Len(node[n].path) \in 1..Len(node[n].path) /\ j # Len(node[n].path)
      BY <1>3, <1>4
    <3>2. node[n].path[j] = n /\ node[n].path[Len(node[n].path)] = n
      BY <1>2, <1>4, <2>2 DEF PathOf
    <3>3. QED BY <1>2, <3>1, <3>2 DEF PathOf
  <2>3. QED BY <2>1, <2>2
<1> HIDE DEF path, P
<1>6. CASE P # None /\ node[P].chain = node[n].chain
  <2> DEFINE t == LinOf(node, P, TRUE)
  <2>1. P \in Requests /\ path = node[P].path
    BY <1>2, <1>6 DEF path, Path
  <2>2. /\ \E k : FirstAt(node, node[P].path, node[P].chain, k)
        /\ Good(node, t, node[P].chain) /\ \A x \in Trained(t) : x[1] \in ToSet(path)
    BY <1>2, <1>6, <2>1 DEF Grown, Linear
  <2>3. PICK k : FirstAt(node, node[P].path, node[P].chain, k)
    BY <2>2
  <2> HIDE DEF t
  <2>4. \A x \in Trained(t) : x[1] # n
    BY <1>5, <2>2
  <2>5. t \in Trajectory /\ Distinct(t)
    BY <2>2 DEF Good
  <2>6. Trains(node, n, Trained(t))
    BY <1>1, <1>2, <1>6, <2>1, <2>3, <2>4, <2>5, TrainsMore DEF t
  <2>7. Before(n) = Trained(t)
    BY <1>6 DEF Before, P, t
  <2>8. QED BY <2>4, <2>6, <2>7
<1>7. CASE ~(P # None /\ node[P].chain = node[n].chain)
  <2>1. \A i \in 1..Len(path) : node[path[i]].chain # node[n].chain
    BY <1>1, <1>4, <1>7 DEF Grown, Convex, P
  <2>2. Trains(node, n, {})
    BY <1>1, <1>2, <1>3, <2>1, TrainsFirst
  <2>3. Before(n) = {}
    BY <1>7 DEF Before, P
  <2>4. QED BY <2>2, <2>3
<1>8. QED BY <1>6, <1>7

\* What a node trains without its generation is a trajectory of its chain.
LEMMA GoodWithout ==
  ASSUME TreeInv, Grown, NEW n \in Requests, Done(n)
  PROVE  LET z == LinOf(node, n, FALSE) IN
         /\ Good(node, z, node[n].chain)
         /\ z.resp = << >> => Before(n) = {}
         /\ z.resp # << >> => /\ Good(node, [z EXCEPT !.resp = Prefix(@, Len(@) - 1)], node[n].chain)
                              /\ Trained([z EXCEPT !.resp = Prefix(@, Len(@) - 1)]) = Trained(z)
<1> DEFINE z == LinOf(node, n, FALSE)
           a == LinOf(node, n, TRUE)
           u == [z EXCEPT !.resp = Prefix(@, Len(@) - 1)]
<1>1. Trains(node, n, Before(n))
  BY TrainsNow
<1>2. Good(node, a, node[n].chain) /\ node[n].prompt > 0
  BY DEF Grown, Linear, Fed, Done, Mounted
<1> HIDE DEF z, a
<1>3. /\ z \in Trajectory /\ a \in Trajectory /\ Distinct(z) /\ Trained(z) \subseteq Before(n)
      /\ Len(z.prompt) = Len(a.prompt) /\ Len(z.resp) <= Len(a.resp)
      /\ z.resp # << >> => Len(z.resp) > 0 /\ z.resp[Len(z.resp)] = <<n, 0>>
      /\ z.resp = << >> => Before(n) = {}
  BY <1>1, <1>2 DEF Trains, z, a
<1>b. Before(n) = {} \/ \A x \in Before(n) : node[x[1]].status = "COMPLETED" /\ node[x[1]].chain = node[n].chain /\ x \in Own(node, x[1])
  <2>1. CASE Parent(n) # None /\ node[Parent(n)].chain = node[n].chain
    <3>1. Parent(n) \in Requests /\ Done(Parent(n))
      BY <2>1, Typed, Parents DEF TreeInv, Done, Mounted
    <3>2. Good(node, LinOf(node, Parent(n), TRUE), node[Parent(n)].chain)
      BY <3>1 DEF Grown, Linear
    <3>3. QED BY <2>1, <3>2 DEF Before, Good
  <2>2. CASE ~(Parent(n) # None /\ node[Parent(n)].chain = node[n].chain)
    BY <2>2 DEF Before
  <2>3. QED BY <2>1, <2>2
<1>4. \A t \in Trajectory : Len(t.prompt) \in Nat /\ Len(t.resp) \in Nat
  BY DEF Trajectory
<1>5. Len(a.prompt) + Len(a.resp) <= Capacity /\ Capacity \in Nat
  BY <1>2, ParametersAssumption DEF Good
<1>l. /\ Len(z.prompt) \in Nat /\ Len(z.resp) \in Nat /\ Len(a.prompt) \in Nat /\ Len(a.resp) \in Nat
      /\ Len(z.prompt) = Len(a.prompt) /\ Len(z.resp) <= Len(a.resp)
  BY <1>3, <1>4
<1>6. Good(node, z, node[n].chain)
  <2>1. Len(z.prompt) + Len(z.resp) <= Capacity
    BY <1>l, <1>5, Fits
  <2>2. QED BY <1>3, <1>b, <2>1 DEF Good
<1>7. ASSUME z.resp # << >> PROVE Good(node, u, node[n].chain) /\ Trained(u) = Trained(z)
  <2>1. /\ u \in Trajectory /\ Trained(u) = Trained(z) /\ Distinct(u)
        /\ Len(u.prompt) = Len(z.prompt) /\ Len(u.resp) <= Len(z.resp)
    BY <1>3, <1>7, LastDropped
  <2> HIDE DEF u
  <2>2. Len(u.prompt) + Len(u.resp) <= Capacity
    <3>1. Len(u.prompt) \in Nat /\ Len(u.resp) \in Nat
      BY <1>4, <2>1
    <3>2. Len(z.prompt) + Len(z.resp) <= Capacity
      BY <1>l, <1>5, Fits
    <3>3. QED BY <1>l, <1>5, <2>1, <3>1, <3>2, Fits
  <2>3. QED BY <1>6, <2>1, <2>2 DEF Good
<1>8. QED BY <1>3, <1>6, <1>7 DEF z

\* An entry of the registry with its trajectory.
Shown(nd, l) ==
  IF l.tip = None THEN l ELSE Entry(l.chain, None, LinOf(nd, l.tip, TRUE), nd[l.tip].coalesced)

\* The entry of a closed chain, field by field.
LEMMA ShownRecord ==
  ASSUME NEW l \in Entries, NEW t \in Trajectory, NEW k \in Nat
  PROVE  [l EXCEPT !.traj = t, !.coalesced = k, !.tip = None] = Entry(l.chain, None, t, k)
<1> DEFINE m == [l EXCEPT !.traj = t, !.coalesced = k, !.tip = None]
           e == Entry(l.chain, None, t, k)
<1>1. m \in Entries /\ m.chain = l.chain /\ m.tip = None /\ m.traj = t /\ m.coalesced = k
  BY DEF Entries
<1>2. e \in Entries /\ e.chain = l.chain /\ e.tip = None /\ e.traj = t /\ e.coalesced = k
  BY DEF Entries, Entry
<1> HIDE DEF m, e
<1>3. m = e
  BY <1>1, <1>2 DEF Entries
<1>4. QED BY <1>3 DEF m, e

\* The trajectory of a node, and its counter, have their types.
LEMMA LinOfTyped ==
  ASSUME NEW nd \in [Requests -> Nodes], NEW n \in Requests, NEW g \in BOOLEAN
  PROVE  LinOf(nd, n, g) \in Trajectory /\ nd[n].coalesced \in Nat
<1>1. nd[n].path \in Seq(Requests) /\ nd[n].coalesced \in Nat
  BY DEF Nodes
<1>2. QED BY <1>1, LinearTyped DEF LinOf

\* _materialize_chain, in this state.
LEMMA ShownNow ==
  ASSUME TypedTree, NEW l \in Entries
  PROVE  Materialized(l) = Shown(node, l) /\ Shown(node, l) \in Entries
<1>0. None \notin Requests
  BY ParametersAssumption
<1>1. CASE l.tip = None
  BY <1>1 DEF Materialized, Shown
<1>2. CASE l.tip # None
  <2>1. l.tip \in Requests /\ l.chain \in Nat \ {NoChain}
    BY <1>2 DEF Entries
  <2>2. LinOf(node, l.tip, TRUE) \in Trajectory /\ node[l.tip].coalesced \in Nat
    BY <2>1, LinOfTyped DEF TypedTree
  <2>3. Linearize(l.tip, TRUE) = LinOf(node, l.tip, TRUE)
    BY <1>2, InThisState DEF LinOf, Path
  <2>4. [l EXCEPT !.traj = LinOf(node, l.tip, TRUE), !.coalesced = node[l.tip].coalesced, !.tip = None]
          = Entry(l.chain, None, LinOf(node, l.tip, TRUE), node[l.tip].coalesced)
    BY <2>2, ShownRecord
  <2>5. Materialized(l) = Shown(node, l)
    BY <1>2, <2>3, <2>4 DEF Materialized, Shown
  <2>6. Shown(node, l) \in Entries
    BY <1>2, <2>1, <2>2 DEF Shown, Entry, Entries
  <2>7. QED BY <2>5, <2>6
<1>3. QED BY <1>1, <1>2

\* _materialize_chain, in the next state.
LEMMA ShownNext ==
  ASSUME TypedTree', NEW l \in Entries
  PROVE  Materialized(l)' = Shown(node', l) /\ Shown(node', l) \in Entries
<1>0. None \notin Requests
  BY ParametersAssumption
<1>1. CASE l.tip = None
  BY <1>1 DEF Materialized, Shown
<1>2. CASE l.tip # None
  <2>1. l.tip \in Requests /\ l.chain \in Nat \ {NoChain}
    BY <1>2 DEF Entries
  <2>2. LinOf(node', l.tip, TRUE) \in Trajectory /\ node'[l.tip].coalesced \in Nat
    BY <2>1, LinOfTyped DEF TypedTree
  <2>3. Linearize(l.tip, TRUE)' = LinOf(node', l.tip, TRUE)
    BY <1>2, InNextState DEF LinOf, Path
  <2>4. [l EXCEPT !.traj = LinOf(node', l.tip, TRUE), !.coalesced = node'[l.tip].coalesced, !.tip = None]
          = Entry(l.chain, None, LinOf(node', l.tip, TRUE), node'[l.tip].coalesced)
    BY <2>2, ShownRecord
  <2>5. Materialized(l)' = Shown(node', l)
    BY <1>2, <2>3, <2>4 DEF Materialized, Shown
  <2>6. Shown(node', l) \in Entries
    BY <1>2, <2>1, <2>2 DEF Shown, Entry, Entries
  <2>7. QED BY <2>5, <2>6
<1>3. QED BY <1>1, <1>2

\* The trajectories of the session.
All == IF phase = "FINALIZED" THEN ToSet(result) ELSE {Shown(node, leaves[i]) : i \in 1..Len(leaves)}

\* They are the trajectories that the properties speak of.
LEMMA AllIs ==
  ASSUME TypedTree, TypedChains
  PROVE  Trajectories = All
<1>1. \A i \in 1..Len(leaves) : Materialized(leaves[i]) = Shown(node, leaves[i])
  BY ShownNow DEF TypedChains
<1>2. QED BY <1>1 DEF Trajectories, All

\* The requests that a chain served: they joined the owner of a committed generation.
ServedBy(c) == {w \in Requests : joined[w] # None /\ future[joined[w]] = [state |-> "ok", chain |-> c]}

\* Only a commit changes which chain served a request.
LEMMA ServedQuiet ==
  ASSUME TreeInv, Owners, Next, \A r \in Requests : ~Commit(r)
  PROVE  \A c : ServedBy(c)' = ServedBy(c)
<1>0. TypedShared /\ TypedTasks /\ TypedTree /\ None \notin Requests
  BY Typed, ParametersAssumption DEF TreeInv
<1>1. /\ inflight \in [Request -> Requests \cup {None}] /\ req \in [Requests -> Request]
      /\ future \in [Requests -> [state : {"none", "pending", "ok", "failed"}, chain : Nat]]
      /\ joined \in [Requests -> Requests \cup {None}]
  BY <1>0 DEF TypedShared, TypedTasks
<1>2. ASSUME UNCHANGED <<joined, future>> PROVE \A c : ServedBy(c)' = ServedBy(c)
  BY <1>2 DEF ServedBy
<1>3. ASSUME NEW r \in Requests, joined' = joined, Joiners(r) = {}, \A s \in Requests : s # r => future'[s] = future[s]
      PROVE \A c : ServedBy(c)' = ServedBy(c)
  <2>1. \A w \in Requests : joined[w] # None => future'[joined[w]] = future[joined[w]]
    BY <1>1, <1>3 DEF Joiners
  <2>2. QED BY <1>3, <2>1 DEF ServedBy
<1>4. ASSUME NEW r \in Requests, NEW st, NEW k, Resolve(r, st, k)
      PROVE /\ \A s \in Requests : s # r => future'[s] = future[s]
            /\ future' = future \/ (future[r].state = "pending" /\ future'[r] = [state |-> st, chain |-> k])
  <2>1. CASE Coalesce /\ inflight[req[r]] = r
    <3>1. future' = [future EXCEPT ![r] = [state |-> st, chain |-> k]]
      BY <1>4, <2>1 DEF Resolve
    <3>2. OwnedBy(req[r]) /\ inflight[req[r]] # None
      BY <1>0, <1>1, <2>1 DEF Owners
    <3>3. future[r].state = "pending"
      BY <2>1, <3>2 DEF OwnedBy
    <3>4. QED BY <1>1, <3>1, <3>3
  <2>2. CASE ~(Coalesce /\ inflight[req[r]] = r)
    BY <1>4, <2>2 DEF Resolve
  <2>3. QED BY <2>1, <2>2
<1>5. ASSUME NEW r \in Requests, NEW k, Resolve(r, "failed", k), joined' = joined
      PROVE \A c : ServedBy(c)' = ServedBy(c)
  <2>1. /\ \A s \in Requests : s # r => future'[s] = future[s]
        /\ future' = future \/ (future[r].state = "pending" /\ future'[r].state = "failed")
    <3>1. /\ \A s \in Requests : s # r => future'[s] = future[s]
          /\ future' = future \/ (future[r].state = "pending" /\ future'[r] = [state |-> "failed", chain |-> k])
      BY <1>4, <1>5
    <3>2. [state |-> "failed", chain |-> k].state = "failed"
      OBVIOUS
    <3>3. QED BY <3>1, <3>2
  <2>2. ASSUME NEW c, NEW s \in Requests PROVE future'[s] = [state |-> "ok", chain |-> c] <=> future[s] = [state |-> "ok", chain |-> c]
    <3>1. CASE future'[s] = future[s]
      BY <3>1
    <3>2. CASE future'[s] # future[s]
      <4>1. future[s].state = "pending" /\ future'[s].state = "failed"
        BY <2>1, <3>2
      <4>2. [state |-> "ok", chain |-> c].state = "ok"
        OBVIOUS
      <4>3. QED BY <4>1, <4>2
    <3>3. QED BY <3>1, <3>2
  <2>3. QED BY <1>1, <1>5, <2>2 DEF ServedBy
<1>6. ASSUME NEW r \in Requests, Join(r) PROVE \A c : ServedBy(c)' = ServedBy(c)
  <2>1. PICK o \in Requests : o # r /\ future[o].state = "pending" /\ joined[r] = None /\ joined' = [joined EXCEPT ![r] = o]
    BY <1>6, OwnersJoin
  <2>2. future' = future
    BY <1>6 DEF Join
  <2>3. \A w \in Requests : w # r => joined'[w] = joined[w]
    BY <1>1, <2>1
  <2>4. joined'[r] = o
    BY <1>1, <2>1
  <2>5. \A c : future[o] # [state |-> "ok", chain |-> c]
    <3>1. \A c : [state |-> "ok", chain |-> c].state = "ok"
      OBVIOUS
    <3>2. QED BY <2>1, <3>1
  <2>6. ASSUME NEW c, NEW w \in Requests
        PROVE (joined'[w] # None /\ future'[joined'[w]] = [state |-> "ok", chain |-> c])
                <=> (joined[w] # None /\ future[joined[w]] = [state |-> "ok", chain |-> c])
    <3>1. CASE w = r
      BY <2>1, <2>2, <2>4, <2>5, <3>1
    <3>2. CASE w # r
      BY <2>2, <2>3, <3>2
    <3>3. QED BY <3>1, <3>2
  <2>7. QED BY <2>6 DEF ServedBy
<1>7. ASSUME NEW r \in Requests, StartMount(r) PROVE \A c : ServedBy(c)' = ServedBy(c)
  BY <1>3, <1>7, OwnersStart
<1>8. ASSUME NEW r \in Requests, ExhaustCapacity(r) PROVE \A c : ServedBy(c)' = ServedBy(c)
  <2>1. PICK p \in Selected(req[r]) : Resolve(r, "ok", ContinuedChain(p, Backup(p, req[r]))) /\ joined' = joined
    BY <1>8 DEF ExhaustCapacity
  <2>2. Joiners(r) = {}
    BY <1>8 DEF ExhaustCapacity, Owners, OwnerOf
  <2>3. QED BY <1>3, <1>4, <2>1, <2>2
<1>9. ASSUME NEW r \in Requests, Unwind(r) \/ FailUnmounted(r) PROVE \A c : ServedBy(c)' = ServedBy(c)
  <2>1. Resolve(r, "failed", NoChain) /\ joined' = joined
    BY <1>9 DEF Unwind, FailUnmounted
  <2>2. QED BY <1>5, <2>1
<1>10. CASE UNCHANGED <<joined, future>>
  BY <1>2, <1>10
<1>11. UNCHANGED <<joined, future>> \/ \E r \in Requests : Join(r) \/ StartMount(r) \/ ExhaustCapacity(r) \/ Unwind(r) \/ FailUnmounted(r)
  BY DEF Next, Step, Reject, Mount, StartCommit, CommitTooLate, Wake, FailMounted, StartFinalize, StartAbort,
    FinishClose, CancelClose, Terminated, vars, sharing
<1>12. QED BY <1>6, <1>7, <1>8, <1>9, <1>10, <1>11

\* What finalize returns is what was there when it started, and nothing is left of
\* the registry afterwards.
Kept ==
  /\ closer = "FINALIZED" => ToSet(result) = {Shown(node, leaves[i]) : i \in 1..Len(leaves)}
  /\ phase # "ACTIVE" => leaves = << >>

\* Every step keeps Kept.
LEMMA KeptStep ==
  ASSUME TreeInv, TypedTree', Kept, Next
  PROVE  Kept'
<1>0. TypedTree /\ TypedChains /\ TypedTasks /\ None \notin Requests
  BY Typed, ParametersAssumption DEF TreeInv
<1>1. ASSUME UNCHANGED <<node, leaves, closer, result, phase>> PROVE Kept'
  BY <1>1 DEF Kept
<1>2. ASSUME NEW r \in Requests, Mount(r) \/ ExhaustCapacity(r) \/ Commit(r) PROVE Kept'
  <2>1. pc[r] \in {"mounting", "decoding"}
    BY <1>2 DEF Mount, ExhaustCapacity, Commit
  <2>2. closer = "idle" /\ phase = "ACTIVE"
    BY <1>0, <2>1 DEF TreeInv, Stages
  <2>3. closer' = closer /\ phase' = phase
    BY <1>2 DEF Mount, ExhaustCapacity, Commit
  <2>4. QED BY <2>2, <2>3 DEF Kept
<1>3. ASSUME StartFinalize PROVE Kept'
  <2>1. /\ result' = [i \in 1..Len(leaves) |-> Materialized(leaves[i])] /\ UNCHANGED <<node, leaves, phase>>
    BY <1>3 DEF StartFinalize
  <2>2. \A i \in 1..Len(leaves) : Materialized(leaves[i]) = Shown(node, leaves[i])
    BY <1>0, ShownNow DEF TypedChains
  <2>3. ToSet(result') = {Shown(node, leaves[i]) : i \in 1..Len(leaves)}
    BY <2>1, <2>2 DEF ToSet
  <2>4. QED BY <1>3, <2>1, <2>3 DEF Kept, StartFinalize
<1>4. ASSUME FinishClose PROVE Kept'
  BY <1>4 DEF FinishClose, Kept
<1>5. ASSUME StartAbort \/ CancelClose PROVE Kept'
  BY <1>5 DEF StartAbort, CancelClose, Kept, session
<1>6. QED BY <1>1, <1>2, <1>3, <1>4, <1>5 DEF Next, Step, Reject, Join, StartMount, StartCommit, CommitTooLate,
    Unwind, Wake, FailUnmounted, FailMounted, Terminated, vars, session

\* The trajectories that stay as they are.
LEMMA ShownFrozen ==
  ASSUME TreeInv, TypedTree', Frozen, NEW i \in 1..Len(leaves)
  PROVE  Shown(node', leaves[i]) = Shown(node, leaves[i])
<1>0. TypedTree /\ TypedChains /\ None \notin Requests
  BY Typed, ParametersAssumption DEF TreeInv
<1>1. CASE leaves[i].tip = None
  BY <1>1 DEF Shown
<1>2. CASE leaves[i].tip # None
  <2> DEFINE n == leaves[i].tip
  <2>1. n \in Requests /\ Done(n)
    <3>1. leaves[i] \in Entries
      BY <1>0 DEF TypedChains
    <3>2. QED BY <1>2, <3>1 DEF Entries, TreeInv, Chains
  <2>2. node'[n] = node[n] /\ Mounted(n)
    BY <2>1 DEF Frozen, Mounted, Done
  <2>3. LinOf(node', n, TRUE) = LinOf(node, n, TRUE)
    <3>1. Paths /\ TRUE \in BOOLEAN
      BY DEF TreeInv
    <3> HIDE DEF n
    <3>2. QED BY <1>0, <2>1, <2>2, <3>1, LinFrozen
  <2>4. QED BY <2>2, <2>3 DEF Shown
<1>3. QED BY <1>1, <1>2

\* A step that leaves registry and result alone leaves the trajectories alone.
LEMMA AllFrozen ==
  ASSUME TreeInv, TypedTree', Frozen, phase' = phase, leaves' = leaves,
         result' = result \/ phase = "ACTIVE"
  PROVE  All' = All
<1>1. \A i \in 1..Len(leaves) : Shown(node', leaves[i]) = Shown(node, leaves[i])
  BY ShownFrozen
<1>2. CASE phase = "FINALIZED"
  BY <1>2 DEF All
<1>3. CASE phase # "FINALIZED"
  <2>1. All' = {Shown(node', leaves[i]) : i \in 1..Len(leaves)}
    BY <1>3 DEF All
  <2>2. QED BY <1>1, <1>3, <2>1 DEF All
<1>4. QED BY <1>2, <1>3

\* Every trajectory is one of its chain, and counts whom the chain served.
Sound ==
  phase # "ABORTED" =>
    \A l \in All : Good(node, l.traj, l.chain) /\ l.coalesced = Cardinality(ServedBy(l.chain))

\* What was sampled is trained, or was dropped.
Completed(nd) == {n \in Requests : nd[n].status = "COMPLETED"}
AllTrained(s) == UNION {Trained(l.traj) : l \in s}
AllOwn(nd) == UNION {Own(nd, n) : n \in Completed(nd)}

\* As many tokens are trained or dropped as were sampled.
Count ==
  phase # "ABORTED" /\ (\A n \in Requests : node[n].trim = 0) =>
    Cardinality(AllTrained(All)) + dropped = Cardinality(AllOwn(node))

\* A step that changes no trajectory keeps Sound and Count.
LEMMA CountQuiet ==
  ASSUME Frozen, All' = All, \A c : ServedBy(c)' = ServedBy(c), dropped' = dropped,
         phase' # "ABORTED" => phase # "ABORTED", Completed(node') = Completed(node),
         (\A n \in Requests : node'[n].trim = 0) => (\A n \in Requests : node[n].trim = 0),
         Sound, Count
  PROVE  Sound' /\ Count'
<1>1. Sound'
  <2>1. ASSUME phase' # "ABORTED", NEW l \in All
        PROVE Good(node', l.traj, l.chain) /\ l.coalesced = Cardinality(ServedBy(l.chain)')
    <3>1. Good(node, l.traj, l.chain) /\ l.coalesced = Cardinality(ServedBy(l.chain))
      BY <2>1 DEF Sound
    <3>2. Good(node', l.traj, l.chain)
      BY <3>1, GoodFrozen
    <3>3. QED BY <3>1, <3>2
  <2>2. QED BY <2>1 DEF Sound
<1>2. Count'
  <2>1. AllOwn(node') = AllOwn(node)
    <3>1. \A n \in Completed(node) : node'[n] = node[n]
      BY DEF Frozen, Completed, Done
    <3>2. \A n \in Completed(node) : Own(node', n) = Own(node, n)
      BY <3>1 DEF Own
    <3>3. QED BY <3>2 DEF AllOwn
  <2>2. AllTrained(All)' = AllTrained(All)
    BY DEF AllTrained
  <2>3. QED BY <2>1, <2>2 DEF Count
<1>3. QED BY <1>1, <1>2

-----------------------------------------------------------------------------
(* Counting what is trained.                                               *)

\* A part of a set takes the place of another.
LEMMA Swapped ==
  ASSUME NEW R, NEW K, NEW A, NEW B, IsFiniteSet(R), IsFiniteSet(K), IsFiniteSet(A), IsFiniteSet(B),
         R \cap (K \cup A) = {}, R \cap (K \cup B) = {}, K \cap A = {}, K \cap B = {}
  PROVE  /\ Cardinality(R \cup (K \cup B)) + Cardinality(A) = Cardinality(R \cup (K \cup A)) + Cardinality(B)
         /\ {Cardinality(R \cup (K \cup A)), Cardinality(R \cup (K \cup B)), Cardinality(A), Cardinality(B)} \subseteq Nat
<1>e. Cardinality({}) = 0
  BY FS_EmptySet
<1>n. Cardinality(R) \in Nat /\ Cardinality(K) \in Nat /\ Cardinality(A) \in Nat /\ Cardinality(B) \in Nat
  BY FS_CardinalityType
<1>1. IsFiniteSet(K \cup A) /\ Cardinality(K \cup A) = Cardinality(K) + Cardinality(A) - 0
  BY <1>e, FS_Union
<1>2. IsFiniteSet(K \cup B) /\ Cardinality(K \cup B) = Cardinality(K) + Cardinality(B) - 0
  BY <1>e, FS_Union
<1>3. Cardinality(R \cup (K \cup A)) = Cardinality(R) + Cardinality(K \cup A) - 0
  BY <1>e, <1>1, FS_Union
<1>4. Cardinality(R \cup (K \cup B)) = Cardinality(R) + Cardinality(K \cup B) - 0
  BY <1>e, <1>2, FS_Union
<1>5. QED BY <1>n, <1>1, <1>2, <1>3, <1>4

\* The same, with the tokens that were dropped.
LEMMA Recounted ==
  ASSUME NEW R, NEW K, NEW A, NEW B, IsFiniteSet(R), IsFiniteSet(K), IsFiniteSet(A), IsFiniteSet(B),
         R \cap (K \cup A) = {}, R \cap (K \cup B) = {}, K \cap A = {}, K \cap B = {},
         NEW d \in Nat, NEW own, Cardinality(R \cup (K \cup A)) + d = own
  PROVE  Cardinality(R \cup (K \cup B)) + (d + Cardinality(A)) = own + Cardinality(B)
<1> DEFINE x == Cardinality(R \cup (K \cup A))
           y == Cardinality(R \cup (K \cup B))
           a == Cardinality(A)
           b == Cardinality(B)
<1>1. y + a = x + b /\ x \in Nat /\ y \in Nat /\ a \in Nat /\ b \in Nat
  BY Swapped
<1>2. x + d = own
  OBVIOUS
<1> HIDE DEF x, y, a, b
<1>3. y + (d + a) = own + b
  BY <1>1, <1>2
<1>4. QED BY <1>3 DEF x, y, a, b

\* Finitely many tokens were sampled.
LEMMA OwnFinite ==
  ASSUME NEW nd \in [Requests -> Nodes]
  PROVE  IsFiniteSet(AllOwn(nd)) /\ IsFiniteSet(Completed(nd))
<1>1. IsFiniteSet(Requests)
  BY ParametersAssumption
<1>2. Completed(nd) \in SUBSET Requests
  BY DEF Completed
<1>3. IsFiniteSet(Completed(nd))
  BY <1>1, <1>2, FS_Subset
<1> DEFINE S == {Own(nd, n) : n \in Completed(nd)}
           f == [n \in Completed(nd) |-> Own(nd, n)]
<1>4. IsFiniteSet(S)
  <2>1. f \in Surjection(Completed(nd), S)
    BY DEF Surjection
  <2> HIDE DEF f, S
  <2>2. QED BY <1>3, <2>1, FS_Surjection
<1>5. \A T \in S : IsFiniteSet(T)
  BY <1>2, OwnTokens
<1>6. IsFiniteSet(UNION S)
  <2> HIDE DEF S
  <2>1. QED BY <1>4, <1>5, FS_UNION
<1>7. QED BY <1>3, <1>6 DEF AllOwn

\* The trajectories of the other chains, and that of one.
Others(c) == {Shown(node, leaves[i]) : i \in {j \in 1..Len(leaves) : leaves[j].chain # c}}

\* The trajectories are that of a chain, and the others.
LEMMA OthersAre ==
  ASSUME TreeInv, phase = "ACTIVE", NEW c
  PROVE  /\ \A i \in 1..Len(leaves) : leaves[i].chain = c => All = Others(c) \cup {Shown(node, leaves[i])}
         /\ (\A i \in 1..Len(leaves) : leaves[i].chain # c) => All = Others(c)
         /\ Others(c) \subseteq All
         /\ \A l \in Others(c) : l.chain # c
<1>1. All = {Shown(node, leaves[i]) : i \in 1..Len(leaves)}
  BY DEF All
<1>2. Others(c) \subseteq All
  BY <1>1 DEF Others
<1>3. \A l : Shown(node, l).chain = l.chain
  BY DEF Shown, Entry
<1>4. \A l \in Others(c) : l.chain # c
  BY <1>3 DEF Others
<1>5. ASSUME NEW i \in 1..Len(leaves), leaves[i].chain = c PROVE All = Others(c) \cup {Shown(node, leaves[i])}
  <2>1. \A j \in 1..Len(leaves) : leaves[j].chain = c => j = i
    BY <1>5 DEF TreeInv, Chains, Chained
  <2>2. QED BY <1>1, <2>1 DEF Others
<1>6. ASSUME \A i \in 1..Len(leaves) : leaves[i].chain # c PROVE All = Others(c)
  BY <1>1, <1>6 DEF Others
<1>7. QED BY <1>2, <1>4, <1>5, <1>6

\* The trained tokens of the other chains are sampled, and of other nodes.
LEMMA OthersTrain ==
  ASSUME TreeInv, Grown, Sound, phase = "ACTIVE", NEW c
  PROVE  /\ IsFiniteSet(AllTrained(Others(c)))
         /\ \A x \in AllTrained(Others(c)) : /\ x[1] \in Requests /\ Done(x[1]) /\ node[x[1]].chain # c
<1>0. node \in [Requests -> Nodes]
  BY Typed DEF TreeInv, TypedTree
<1>1. ASSUME NEW x \in AllTrained(Others(c))
      PROVE /\ x[1] \in Requests /\ Done(x[1]) /\ node[x[1]].chain # c /\ x \in AllOwn(node)
  <2>1. PICK l \in Others(c) : x \in Trained(l.traj)
    BY DEF AllTrained
  <2>2. l \in All /\ l.chain # c
    BY <2>1, OthersAre
  <2>3. Good(node, l.traj, l.chain)
    BY <2>2 DEF Sound
  <2>4. node[x[1]].status = "COMPLETED" /\ node[x[1]].chain = l.chain /\ x \in Own(node, x[1]) /\ l.traj \in Trajectory
    BY <2>1, <2>3 DEF Good
  <2>5. x[1] \in Requests
    BY <2>1, <2>4, TrainedAt
  <2>6. QED BY <2>2, <2>4, <2>5 DEF AllOwn, Completed, Done
<1>2. AllTrained(Others(c)) \in SUBSET AllOwn(node)
  BY <1>1
<1>3. IsFiniteSet(AllTrained(Others(c)))
  BY <1>0, <1>2, OwnFinite, FS_Subset
<1>4. QED BY <1>1, <1>3

\* What is trained with one trajectory more.
LEMMA TrainedUnion ==
  ASSUME NEW S, NEW l
  PROVE  AllTrained(S \cup {l}) = AllTrained(S) \cup Trained(l.traj)
BY DEF AllTrained

\* What a chain trains before a node and at it, apart.
LEMMA BeforeApart ==
  ASSUME TreeInv, Grown, NEW n \in Requests, Mounted(n), Done(n) \/ node[n].chain # NoChain
  PROVE  /\ IsFiniteSet(Before(n))
         /\ \A x \in Before(n) : x[1] \in Requests /\ Done(x[1]) /\ x[1] # n /\ node[x[1]].chain = node[n].chain
<1>0. TypedTree /\ Paths /\ None \notin Requests /\ node \in [Requests -> Nodes]
  BY Typed, ParametersAssumption DEF TreeInv, TypedTree
<1>1. CASE Parent(n) # None /\ node[Parent(n)].chain = node[n].chain
  <2> DEFINE P == Parent(n)
             t == LinOf(node, P, TRUE)
  <2>1. P \in Requests /\ Done(P)
    BY <1>0, <1>1, Parents
  <2>2. Before(n) = Trained(t)
    BY <1>1 DEF Before
  <2>3. Good(node, t, node[n].chain)
    BY <1>1, <2>1 DEF Grown, Linear
  <2>4. ASSUME NEW x \in Trained(t)
        PROVE x[1] \in Requests /\ Done(x[1]) /\ node[x[1]].chain = node[n].chain /\ x \in AllOwn(node)
    <3>1. t \in Trajectory /\ node[x[1]].status = "COMPLETED" /\ node[x[1]].chain = node[n].chain /\ x \in Own(node, x[1])
      BY <2>3 DEF Good
    <3> HIDE DEF t
    <3>2. x[1] \in Requests
      BY <3>1, TrainedAt
    <3>3. QED BY <3>1, <3>2 DEF Done, AllOwn, Completed
  <2>5. Before(n) \in SUBSET AllOwn(node)
    BY <2>2, <2>4
  <2>6. IsFiniteSet(Before(n))
    BY <1>0, <2>5, OwnFinite, FS_Subset
  <2>7. ASSUME NEW x \in Before(n) PROVE x[1] # n
    <3>1. CASE Done(n)
      BY <3>1, TrainsNow
    <3>2. CASE ~Done(n)
      BY <2>2, <2>4, <3>2
    <3>3. QED BY <3>1, <3>2
  <2>8. QED BY <2>2, <2>4, <2>6, <2>7
<1>2. CASE ~(Parent(n) # None /\ node[Parent(n)].chain = node[n].chain)
  <2>1. Before(n) = {}
    BY <1>2 DEF Before
  <2>2. QED BY <2>1, FS_EmptySet
<1>3. QED BY <1>1, <1>2

\* The registry without a chain, and with an entry for it.
LEMMA AllWithout ==
  ASSUME TreeInv, TypedTree', Frozen, phase = "ACTIVE", phase' = "ACTIVE",
         NEW c, KeptWithout(leaves, c, leaves')
  PROVE  All' = Others(c)
<1>1. \A i \in 1..Len(leaves) : Shown(node', leaves[i]) = Shown(node, leaves[i])
  BY ShownFrozen
<1>2. All' = {Shown(node', leaves'[i]) : i \in 1..Len(leaves')}
  BY DEF All
<1>3. ASSUME NEW i \in 1..Len(leaves') PROVE Shown(node', leaves'[i]) \in Others(c)
  <2>1. PICK j \in 1..Len(leaves) : leaves'[i] = leaves[j] /\ leaves[j].chain # c
    BY DEF KeptWithout
  <2>2. QED BY <1>1, <2>1 DEF Others
<1>4. ASSUME NEW j \in 1..Len(leaves), leaves[j].chain # c PROVE Shown(node, leaves[j]) \in All'
  <2>1. PICK i \in 1..Len(leaves') : leaves'[i] = leaves[j]
    BY <1>4 DEF KeptWithout
  <2>2. QED BY <1>1, <1>2, <2>1
<1>5. QED BY <1>2, <1>3, <1>4 DEF Others

\* The trajectories after a chain was registered.
LEMMA AllWith ==
  ASSUME TreeInv, TypedTree', Frozen, phase = "ACTIVE", phase' = "ACTIVE",
         NEW e, KeptWith(leaves, e, leaves')
  PROVE  All' = Others(e.chain) \cup {Shown(node', e)}
<1>1. \A i \in 1..Len(leaves) : Shown(node', leaves[i]) = Shown(node, leaves[i])
  BY ShownFrozen
<1>2. All' = {Shown(node', leaves'[i]) : i \in 1..Len(leaves')}
  BY DEF All
<1>3. ASSUME NEW i \in 1..Len(leaves') PROVE Shown(node', leaves'[i]) \in Others(e.chain) \cup {Shown(node', e)}
  <2>1. CASE leaves'[i] = e
    BY <2>1
  <2>2. CASE leaves'[i] # e
    <3>1. PICK j \in 1..Len(leaves) : leaves'[i] = leaves[j] /\ leaves[j].chain # e.chain
      BY <2>2 DEF KeptWith
    <3>2. QED BY <1>1, <3>1 DEF Others
  <2>3. QED BY <2>1, <2>2
<1>4. ASSUME NEW j \in 1..Len(leaves), leaves[j].chain # e.chain PROVE Shown(node, leaves[j]) \in All'
  <2>1. PICK i \in 1..Len(leaves') : leaves'[i] = leaves[j]
    BY <1>4 DEF KeptWith
  <2>2. QED BY <1>1, <1>2, <2>1
<1>5. Shown(node', e) \in All'
  BY <1>2 DEF KeptWith
<1>6. QED BY <1>2, <1>3, <1>4, <1>5 DEF Others

\* The count when one chain takes tokens for others.
LEMMA Balanced ==
  ASSUME TreeInv, Grown, Sound, phase = "ACTIVE", NEW c, NEW K, NEW A, NEW B,
         IsFiniteSet(K), IsFiniteSet(A), IsFiniteSet(B), K \cap A = {}, K \cap B = {},
         \A x \in K \cup A \cup B : ~Done(x[1]) \/ node[x[1]].chain = c,
         AllTrained(All) = AllTrained(Others(c)) \cup (K \cup A),
         AllTrained(All') = AllTrained(Others(c)) \cup (K \cup B),
         dropped' = dropped + Cardinality(A),
         Cardinality(AllOwn(node')) = Cardinality(AllOwn(node)) + Cardinality(B),
         Cardinality(AllTrained(All)) + dropped = Cardinality(AllOwn(node))
  PROVE  Cardinality(AllTrained(All')) + dropped' = Cardinality(AllOwn(node'))
<1> DEFINE R == AllTrained(Others(c))
<1>1. IsFiniteSet(R) /\ \A x \in R : Done(x[1]) /\ node[x[1]].chain # c
  BY OthersTrain
<1>2. R \cap (K \cup A) = {} /\ R \cap (K \cup B) = {}
  BY <1>1
<1>3. dropped \in Nat
  BY Typed DEF TreeInv, TypedChains
<1>4. PICK own : own = Cardinality(AllOwn(node))
  OBVIOUS
<1>5. AllTrained(All) = R \cup (K \cup A) /\ AllTrained(All') = R \cup (K \cup B)
  OBVIOUS
<1> HIDE DEF R
<1>6. PICK d \in Nat : d = dropped
  BY <1>3
<1>7. Cardinality(R \cup (K \cup A)) + d = own
  BY <1>4, <1>5, <1>6
<1>8. Cardinality(R \cup (K \cup B)) + (d + Cardinality(A)) = own + Cardinality(B)
  <2>1. IsFiniteSet(R) /\ IsFiniteSet(K) /\ IsFiniteSet(A) /\ IsFiniteSet(B) /\ K \cap A = {} /\ K \cap B = {}
    BY <1>1
  <2>2. QED BY ONLY <1>2, <1>7, <2>1, Recounted
<1>9. QED BY <1>4, <1>5, <1>6, <1>8

\* What closing an exhausted chain does to the registry.
Shorter(z) == [z EXCEPT !.resp = Prefix(@, Len(@) - 1)]

\* How the chain of n is closed, with or without its last generation.
ClosedAs(n) ==
  LET c == node[n].chain
      z == LinOf(node, n, FALSE)
      closed(t) == Entry(c, None, t, node[n].coalesced)
  IN  \/ KeptWith(leaves, closed(LinOf(node, n, TRUE)), leaves') /\ dropped' = dropped
      \/ z.resp = << >> /\ KeptWithout(leaves, c, leaves') /\ dropped' = dropped + node[n].resp
      \/ z.resp # << >> /\ KeptWith(leaves, closed(Shorter(z)), leaves') /\ dropped' = dropped + node[n].resp

\* _close_length_exhausted_chain changes the registry as ClosedAs says.
LEMMA ExhaustEffects ==
  ASSUME TreeInv, NEW r \in Requests, ExhaustCapacity(r)
  PROVE  /\ phase = "ACTIVE" /\ UNCHANGED <<phase, node, result>>
         /\ \/ leaves' = leaves /\ dropped' = dropped
            \/ \E n \in Requests :
                 /\ Done(n) /\ ClosedAs(n)
                 /\ \E i \in 1..Len(leaves) : leaves[i].chain = node[n].chain /\ leaves[i].tip = n
<1>0. TypedTree /\ TypedTasks /\ TypedChains /\ None \notin Requests
  BY Typed, ParametersAssumption DEF TreeInv
<1>q. req[r] \in Request
  BY <1>0 DEF TypedTasks
<1>1. PICK p \in Selected(req[r]) :
        /\ IF TipOf(ContinuedChain(p, Backup(p, req[r]))) = None
           THEN UNCHANGED <<leaves, dropped>>
           ELSE CloseExhausted(ContinuedChain(p, Backup(p, req[r])),
                  TipOf(ContinuedChain(p, Backup(p, req[r]))), Backup(p, req[r]))
        /\ UNCHANGED <<phase, node, result>>
  BY DEF ExhaustCapacity
<1>2. pc[r] = "mounting" /\ phase = "ACTIVE"
  BY <1>0 DEF ExhaustCapacity, TreeInv, Stages
<1>b. PICK b : b = Backup(p, req[r])
  OBVIOUS
<1>c. PICK c : c = ContinuedChain(p, b)
  OBVIOUS
<1>4. CASE TipOf(c) = None
  BY <1>1, <1>2, <1>4, <1>b, <1>c
<1>5. CASE TipOf(c) # None
  <2>1. c \in Nat \ {NoChain}
    BY <1>0, <1>5, Tips
  <2>2. PICK n : n = IF b = None THEN p ELSE b
    OBVIOUS
  <2>3. PICK i \in 1..Len(leaves) : leaves[i].chain = c /\ leaves[i].tip # None /\ leaves[i].tip = n
    BY <1>q, <1>2, <1>b, <1>c, <2>1, <2>2, NoRival
  <2>4. Chained(leaves) /\ leaves \in Seq(Entries)
    BY <1>0 DEF TreeInv, Chains, TypedChains
  <2>5. TipOf(c) = n
    BY <2>3, <2>4, TheTip
  <2>6. n \in Requests /\ Done(n) /\ node[n].chain = c
    <3>1. leaves[i] \in Entries
      BY <2>4
    <3>2. QED BY <2>3, <3>1 DEF Entries, TreeInv, Chains
  <2>7. CloseExhausted(c, n, b)
    BY <1>1, <1>5, <1>b, <1>c, <2>5
  <2>8. \A g \in BOOLEAN : Linearize(n, g) = LinOf(node, n, g) /\ LinOf(node, n, g) \in Trajectory
    <3>1. \A g : Linearize(n, g) = LinOf(node, n, g)
      BY <1>0, <2>6, InThisState DEF LinOf, Path
    <3>2. \A g \in BOOLEAN : LinOf(node, n, g) \in Trajectory
      BY <1>0, <2>6, LinOfTyped DEF TypedTree
    <3>3. QED BY <3>1, <3>2
  <2>9. node[n].coalesced \in Nat
    BY <1>0, <2>6 DEF TypedTree, Nodes
  <2>10. ASSUME NEW t \in Trajectory
         PROVE KeptWith(leaves, Entry(c, None, t, node[n].coalesced), Register(Entry(c, None, t, node[n].coalesced)))
    <3>1. Entry(c, None, t, node[n].coalesced) \in Entries
      BY <2>1, <2>9 DEF Entry, Entries
    <3>2. QED BY <2>4, <3>1, Registered
  <2>11. KeptWithout(leaves, c, Unregister(c))
    BY <2>4, Unregistered
  <2>12. ClosedAs(n)
    <3>1. CASE b = None
      <4>1. leaves' = Register(Entry(c, None, LinOf(node, n, TRUE), node[n].coalesced))
        BY <2>7, <2>8, <3>1 DEF CloseExhausted
      <4>2. dropped' = dropped
        <5>1. dropped' = dropped + 0 /\ dropped \in Nat
          BY <1>0, <2>7, <3>1 DEF CloseExhausted, DroppedBy, TypedChains
        <5>2. QED BY <5>1
      <4>3. QED BY <2>6, <2>8, <2>10, <4>1, <4>2 DEF ClosedAs
    <3>2. CASE b # None /\ LinOf(node, n, FALSE).resp = << >>
      <4>1. b = n /\ dropped' = dropped + node[n].resp
        BY <2>2, <2>7, <3>2 DEF CloseExhausted, DroppedBy
      <4>2. leaves' = Unregister(c)
        BY <2>7, <2>8, <3>2, <4>1 DEF CloseExhausted
      <4>3. QED BY <2>6, <2>11, <3>2, <4>1, <4>2 DEF ClosedAs
    <3>3. CASE b # None /\ LinOf(node, n, FALSE).resp # << >>
      <4>1. b = n /\ dropped' = dropped + node[n].resp
        BY <2>2, <2>7, <3>3 DEF CloseExhausted, DroppedBy
      <4>2. WithoutGeneration(n) = Shorter(LinOf(node, n, FALSE))
        BY <2>8 DEF WithoutGeneration, Shorter
      <4>3. leaves' = Register(Entry(c, None, Shorter(LinOf(node, n, FALSE)), node[n].coalesced))
        BY <2>7, <2>8, <3>3, <4>1, <4>2 DEF CloseExhausted
      <4>4. Shorter(LinOf(node, n, FALSE)) \in Trajectory
        BY <2>6, <2>8, <3>3, <4>2, <1>0, WithoutTyped
      <4>5. QED BY <2>6, <2>10, <3>3, <4>1, <4>3, <4>4 DEF ClosedAs
    <3>4. QED BY <3>1, <3>2, <3>3
  <2>13. QED BY <1>1, <1>2, <2>3, <2>6, <2>12
<1>6. QED BY <1>4, <1>5

\* Some of the trajectories stay, others are of their chain again.
LEMMA SoundKept ==
  ASSUME Frozen, Sound, phase = "ACTIVE", NEW l \in All, ServedBy(l.chain)' = ServedBy(l.chain)
  PROVE  Good(node', l.traj, l.chain) /\ l.coalesced = Cardinality(ServedBy(l.chain)')
<1>1. Good(node, l.traj, l.chain) /\ l.coalesced = Cardinality(ServedBy(l.chain))
  BY DEF Sound
<1>2. Good(node', l.traj, l.chain)
  BY <1>1, GoodFrozen
<1>3. QED BY <1>1, <1>2

\* The tokens that a completed node and its chain before it train.
LEMMA TrainedApart ==
  ASSUME TreeInv, Grown, NEW n \in Requests, Done(n)
  PROVE  /\ IsFiniteSet(Before(n)) /\ IsFiniteSet(Own(node, n)) /\ Before(n) \cap Own(node, n) = {}
         /\ Cardinality(Own(node, n)) = node[n].resp
         /\ \A x \in Before(n) \cup Own(node, n) : Done(x[1]) /\ node[x[1]].chain = node[n].chain
         /\ node[n].trim = 0 => /\ Trained(LinOf(node, n, TRUE)) = Before(n) \cup Own(node, n)
                                /\ Trained(LinOf(node, n, FALSE)) = Before(n)
<1>0. node \in [Requests -> Nodes] /\ Mounted(n)
  BY Typed DEF TreeInv, TypedTree, Done, Mounted
<1>1. /\ IsFiniteSet(Own(node, n)) /\ Cardinality(Own(node, n)) = node[n].resp
      /\ \A x \in Own(node, n) : x[1] = n
  BY <1>0, OwnTokens
<1>2. /\ IsFiniteSet(Before(n))
      /\ \A x \in Before(n) : Done(x[1]) /\ x[1] # n /\ node[x[1]].chain = node[n].chain
  BY <1>0, BeforeApart
<1>3. Trains(node, n, Before(n))
  BY TrainsNow
<1>4. QED BY <1>1, <1>2, <1>3 DEF Trains

\* Closing an exhausted chain keeps Sound and Count.
LEMMA ExhaustCounts ==
  ASSUME TreeInv, TypeOK', Grown, Sound, Count, Frozen, \A c : ServedBy(c)' = ServedBy(c),
         NEW r \in Requests, ExhaustCapacity(r)
  PROVE  Sound' /\ Count'
<1>0. TypedTree /\ TypedTree' /\ TypedChains /\ None \notin Requests
  BY Typed, ParametersAssumption DEF TreeInv
<1>1. /\ phase = "ACTIVE" /\ phase' = "ACTIVE" /\ node' = node /\ result' = result
      /\ \/ leaves' = leaves /\ dropped' = dropped
         \/ \E n \in Requests :
              /\ Done(n) /\ ClosedAs(n)
              /\ \E i \in 1..Len(leaves) : leaves[i].chain = node[n].chain /\ leaves[i].tip = n
  BY ExhaustEffects
<1>2. ASSUME All' = All, dropped' = dropped PROVE Sound' /\ Count'
  BY <1>1, <1>2, CountQuiet
<1>3. CASE leaves' = leaves /\ dropped' = dropped
  <2>1. All' = All
    BY <1>0, <1>1, <1>3, AllFrozen
  <2>2. QED BY <1>2, <1>3, <2>1
<1>4. ASSUME NEW n \in Requests, Done(n), ClosedAs(n),
             NEW i \in 1..Len(leaves), leaves[i].chain = node[n].chain, leaves[i].tip = n
      PROVE Sound' /\ Count'
  <2>c. PICK c : c = node[n].chain
    OBVIOUS
  <2>z. PICK z : z = LinOf(node, n, FALSE)
    OBVIOUS
  <2>a. PICK a : a = LinOf(node, n, TRUE)
    OBVIOUS
  <2>e. PICK e : e = Entry(c, None, a, node[n].coalesced)
    OBVIOUS
  <2>1. Shown(node, leaves[i]) = e
    BY <1>0, <1>4, <2>c, <2>a, <2>e DEF Shown
  <2>2. /\ All = Others(c) \cup {e} /\ Others(c) \subseteq All
        /\ e.traj = a /\ e.chain = c /\ e.coalesced = node[n].coalesced
    <3>1. All = Others(c) \cup {e} /\ Others(c) \subseteq All
      BY <1>1, <1>4, <2>1, <2>c, OthersAre
    <3>2. QED BY <2>e, <3>1 DEF Entry
  <2>3. \A t : Shown(node', Entry(c, None, t, node[n].coalesced)) = Entry(c, None, t, node[n].coalesced)
    BY DEF Shown, Entry
  <2>4. \A t : LET f == Entry(c, None, t, node[n].coalesced) IN
               /\ f.chain = c /\ f.traj = t /\ f.coalesced = node[n].coalesced
               /\ KeptWith(leaves, f, leaves') => All' = Others(c) \cup {f}
    <3>1. ASSUME NEW f, KeptWith(leaves, f, leaves') PROVE All' = Others(f.chain) \cup {Shown(node', f)}
      BY <1>0, <1>1, <3>1, AllWith
    <3>2. \A t : LET f == Entry(c, None, t, node[n].coalesced) IN f.chain = c /\ f.traj = t /\ f.coalesced = node[n].coalesced
      BY DEF Entry
    <3>3. QED BY <2>3, <3>1, <3>2
  <2>5. node[n].coalesced = Cardinality(ServedBy(c)')
    <3>1. e \in All
      BY <2>2
    <3>2. QED BY <1>1, <2>2, <3>1 DEF Sound
  <2>6. /\ IsFiniteSet(Before(n)) /\ IsFiniteSet(Own(node, n)) /\ Before(n) \cap Own(node, n) = {}
        /\ Cardinality(Own(node, n)) = node[n].resp
        /\ \A x \in Before(n) \cup Own(node, n) : Done(x[1]) /\ node[x[1]].chain = c
        /\ node[n].trim = 0 => Trained(a) = Before(n) \cup Own(node, n) /\ Trained(z) = Before(n)
    BY <1>4, <2>a, <2>c, <2>z, TrainedApart
  <2>7. /\ z.resp = << >> => Before(n) = {}
        /\ z.resp # << >> => Good(node, Shorter(z), c) /\ Trained(Shorter(z)) = Trained(z)
    BY <1>4, <2>z, <2>c, GoodWithout DEF Shorter
  <2>d. dropped \in Nat
    BY <1>0 DEF TypedChains
  <2>n. IsFiniteSet({}) /\ Cardinality({}) = 0 /\ \A k : Cardinality(AllOwn(node)) = k => Cardinality(AllOwn(node)) + 0 = k
    <3>1. Cardinality(AllOwn(node)) \in Nat
      BY <1>0, OwnFinite, FS_CardinalityType DEF TypedTree
    <3>2. QED BY <3>1, FS_EmptySet
\* The tip was rewritten: its tokens are dropped, those before it may be kept.
  <2>8. ASSUME dropped' = dropped + node[n].resp, NEW new \in SUBSET {Entry(c, None, Shorter(z), node[n].coalesced)},
               All' = Others(c) \cup new,
               new # {} => Good(node, Shorter(z), c) /\ Trained(Shorter(z)) = Trained(z),
               new = {} => Before(n) = {}
        PROVE Sound' /\ Count'
    <3> DEFINE f == Entry(c, None, Shorter(z), node[n].coalesced)
    <3>1. \A l \in Others(c) : Good(node', l.traj, l.chain) /\ l.coalesced = Cardinality(ServedBy(l.chain)')
      BY <1>1, <2>2, SoundKept
    <3>2. \A l \in new : Good(node', l.traj, l.chain) /\ l.coalesced = Cardinality(ServedBy(l.chain)')
      <4>1. f.traj = Shorter(z) /\ f.chain = c /\ f.coalesced = node[n].coalesced
        BY DEF Entry
      <4>2. QED BY <1>1, <2>5, <2>8, <4>1
    <3>3. Sound'
      BY <2>8, <3>1, <3>2 DEF Sound
    <3>4. ASSUME \A m \in Requests : node[m].trim = 0 PROVE Count'
      <4>0. node[n].trim = 0
        BY <3>4
      <4>1. AllTrained(All) = AllTrained(Others(c)) \cup (Before(n) \cup Own(node, n))
        BY <2>2, <2>6, <4>0, TrainedUnion
      <4>2. AllTrained(All') = AllTrained(Others(c)) \cup (Before(n) \cup {})
        <5>1. CASE new = {}
          BY <2>8, <5>1
        <5>2. CASE new # {}
          <6>1. All' = Others(c) \cup {f} /\ f.traj = Shorter(z)
            BY <2>8, <5>2 DEF Entry
          <6>2. Trained(f.traj) = Before(n)
            BY <2>6, <2>8, <4>0, <5>2, <6>1
          <6> HIDE DEF f
          <6>3. QED BY <6>1, <6>2, TrainedUnion
        <5>3. QED BY <5>1, <5>2
      <4>3. Cardinality(AllTrained(All)) + dropped = Cardinality(AllOwn(node))
        BY <1>1, <3>4 DEF Count
      <4>4. Cardinality(AllOwn(node')) = Cardinality(AllOwn(node)) + Cardinality({})
        BY <1>1, <2>n
      <4>5. dropped' = dropped + Cardinality(Own(node, n)) /\ Before(n) \cap {} = {}
        BY <2>6, <2>8
      <4>6. \A x \in Before(n) \cup Own(node, n) \cup {} : ~Done(x[1]) \/ node[x[1]].chain = c
        BY <2>6
      <4>7. Cardinality(AllTrained(All')) + dropped' = Cardinality(AllOwn(node'))
        BY <1>1, <2>6, <2>n, <4>1, <4>2, <4>3, <4>4, <4>5, <4>6, Balanced
      <4>8. QED BY <4>7 DEF Count
    <3>5. ASSUME ~\A m \in Requests : node[m].trim = 0 PROVE Count'
      BY <1>1, <3>5 DEF Count
    <3>6. QED BY <3>3, <3>4, <3>5
  <2>9. CASE KeptWith(leaves, e, leaves') /\ dropped' = dropped
    BY <1>2, <2>2, <2>4, <2>9, <2>e
  <2>10. CASE z.resp = << >> /\ KeptWithout(leaves, c, leaves') /\ dropped' = dropped + node[n].resp
    <3>1. All' = Others(c) \cup {}
      BY <1>0, <1>1, <2>10, AllWithout
    <3>2. QED BY <2>7, <2>8, <2>10, <3>1
  <2>11. CASE z.resp # << >> /\ KeptWith(leaves, Entry(c, None, Shorter(z), node[n].coalesced), leaves') /\ dropped' = dropped + node[n].resp
    <3>1. All' = Others(c) \cup {Entry(c, None, Shorter(z), node[n].coalesced)}
      BY <2>4, <2>11
    <3>2. QED BY <2>7, <2>8, <2>11, <3>1
  <2>12. QED BY <1>4, <2>9, <2>10, <2>11, <2>a, <2>c, <2>e, <2>z DEF ClosedAs
<1>5. QED BY <1>1, <1>3, <1>4

\* A commit gives its chain the requests that joined it.
LEMMA CommitServed ==
  ASSUME TreeInv, Owners, NEW r \in Requests, NEW k, CommitEffect(r, k),
         NEW C, C = ChainOf(r)
  PROVE  /\ ServedBy(C)' = ServedBy(C) \cup Joiners(r)
         /\ ServedBy(C) \cap Joiners(r) = {}
         /\ \A c : c # C => ServedBy(c)' = ServedBy(c)
         /\ waiters[r] = Cardinality(Joiners(r)) /\ IsFiniteSet(Joiners(r))
         /\ IsFiniteSet(ServedBy(C))
         /\ node[r].chain = NoChain => ServedBy(C) = {}
<1>0. TypedShared /\ TypedTasks /\ TypedTree /\ TypedChains /\ None \notin Requests
  BY Typed, ParametersAssumption DEF TreeInv
<1>1. /\ inflight \in [Request -> Requests \cup {None}] /\ req \in [Requests -> Request]
      /\ future \in [Requests -> [state : {"none", "pending", "ok", "failed"}, chain : Nat]]
      /\ joined \in [Requests -> Requests \cup {None}] /\ next_chain_id \in Nat
  BY <1>0 DEF TypedShared, TypedTasks, TypedChains
<1>2. Busy(r) /\ joined' = joined /\ Resolve(r, "ok", ChainOf(r)) /\ OwnerOf(r)
  BY DEF CommitEffect, Busy, Owners
<1>c. C = ChainOf(r)
  OBVIOUS
<1>3. IsFiniteSet(Joiners(r)) /\ IsFiniteSet(ServedBy(C)) /\ waiters[r] = Cardinality(Joiners(r))
  <2>1. Joiners(r) \in SUBSET Requests /\ ServedBy(C) \in SUBSET Requests
    BY DEF Joiners, ServedBy
  <2>2. QED BY <1>2, <2>1, ParametersAssumption, FS_Subset DEF OwnerOf
<1>4. \A c : [state |-> "ok", chain |-> c].state = "ok" /\ [state |-> "ok", chain |-> c].chain = c
  OBVIOUS
<1>5. node[r].chain = NoChain => ServedBy(C) = {}
  <2>1. SUFFICES ASSUME node[r].chain = NoChain, NEW w \in ServedBy(C) PROVE FALSE
    OBVIOUS
  <2>2. joined[w] \in Requests /\ future[joined[w]] = [state |-> "ok", chain |-> C]
    BY <1>1, <2>1 DEF ServedBy
  <2>3. future[joined[w]].chain = C
    BY <1>4, <2>2
  <2>4. future[joined[w]].chain < next_chain_id
    BY <2>2 DEF Owners, OwnerOf
  <2>5. C = next_chain_id
    BY <1>c, <2>1 DEF ChainOf
  <2>6. QED BY <1>1, <2>3, <2>4, <2>5
<1>6. CASE Coalesce
  <2>1. inflight[req[r]] = r /\ req[r] \in Request
    BY <1>1, <1>2, <1>6 DEF OwnerOf
  <2>2. future[r].state = "pending"
    BY <1>0, <2>1 DEF Owners, OwnedBy
  <2>3. future' = [future EXCEPT ![r] = [state |-> "ok", chain |-> C]]
    BY <1>2, <1>6, <1>c, <2>1 DEF Resolve
  <2>4. future'[r] = [state |-> "ok", chain |-> C] /\ \A s \in Requests : s # r => future'[s] = future[s]
    BY <1>1, <2>3
  <2>5. \A c : future[r] # [state |-> "ok", chain |-> c]
    BY <1>4, <2>2
  <2>6. \A c : c # C => future'[r] # [state |-> "ok", chain |-> c]
    BY <1>4, <2>4
  <2>7. ASSUME NEW c, c # C PROVE ServedBy(c)' = ServedBy(c)
    <3>1. \A s \in Requests : future'[s] = [state |-> "ok", chain |-> c] <=> future[s] = [state |-> "ok", chain |-> c]
      BY <2>4, <2>5, <2>6, <2>7
    <3>2. QED BY <1>1, <1>2, <3>1 DEF ServedBy
  <2>8. ServedBy(C) \cap Joiners(r) = {}
    BY <2>5 DEF ServedBy, Joiners
  <2>9. ASSUME NEW w \in Requests
        PROVE (joined[w] # None /\ future'[joined[w]] = [state |-> "ok", chain |-> C])
                <=> (joined[w] # None /\ future[joined[w]] = [state |-> "ok", chain |-> C]) \/ joined[w] = r
    <3>1. CASE joined[w] = r
      BY <1>0, <2>4, <3>1
    <3>2. CASE joined[w] # r
      BY <1>1, <2>4, <3>2
    <3>3. QED BY <3>1, <3>2
  <2>10. ServedBy(C)' = {w \in Requests : joined[w] # None /\ future'[joined[w]] = [state |-> "ok", chain |-> C]}
    BY <1>2 DEF ServedBy
  <2>11. ServedBy(C)' = ServedBy(C) \cup Joiners(r)
    BY <2>9, <2>10 DEF ServedBy, Joiners
  <2>12. QED BY <1>3, <1>5, <2>7, <2>8, <2>11
<1>7. CASE ~Coalesce
  <2>1. future' = future
    BY <1>2, <1>7 DEF Resolve
  <2>2. \A c : ServedBy(c)' = ServedBy(c)
    BY <1>2, <2>1 DEF ServedBy
  <2>3. Joiners(r) = {}
    <3>1. \A w \in Requests : OwnerOf(w)
      BY DEF Owners
    <3>2. \A w \in Requests : joined[w] = None
      BY <1>7, <3>1 DEF OwnerOf
    <3>3. QED BY <1>0, <3>2 DEF Joiners
  <2>4. QED BY <1>3, <1>5, <2>2, <2>3
<1>8. QED BY <1>6, <1>7

\* What the chain of a commit trained until then: what it keeps, and the
\* generation that is rewritten.
CommitFrom(r, C, K, A) ==
  /\ K = (IF node[r].chain = NoChain THEN {} ELSE Before(r))
  /\ IsFiniteSet(K) /\ IsFiniteSet(A) /\ K \cap A = {}
  /\ \A x \in K \cup A : x[1] # r /\ Done(x[1]) /\ node[x[1]].chain = C
  /\ (\A n \in Requests : node[n].trim = 0) =>
       AllTrained(All) = AllTrained(Others(C)) \cup (K \cup A)
  /\ dropped' = dropped + Cardinality(A)
  /\ node'[r].coalesced = waiters[r] + Cardinality(ServedBy(C))

\* Every commit starts from such sets.
LEMMA CommitFroms ==
  ASSUME TreeInv, Grown, Owners, Sound, NEW r \in Requests, NEW k, CommitEffect(r, k),
         NEW C, C = ChainOf(r)
  PROVE  \E K, A : CommitFrom(r, C, K, A)
<1>0. TypedShared /\ TypedTasks /\ TypedTree /\ TypedChains /\ None \notin Requests
  BY Typed, ParametersAssumption DEF TreeInv
<1>1. /\ Running(r) /\ Mounted(r) /\ ~Done(r) /\ phase = "ACTIVE"
      /\ dropped' = dropped + DroppedBy(mounted[r].backup)
      /\ node'[r].coalesced = waiters[r] + (IF TipOf(node[r].chain) = None THEN 0 ELSE node[TipOf(node[r].chain)].coalesced)
  BY DEF CommitEffect, Mounted, Done
<1>2. /\ node \in [Requests -> Nodes] /\ leaves \in Seq(Entries) /\ dropped \in Nat
      /\ next_chain_id \in Nat /\ waiters[r] \in Nat
  BY <1>0 DEF TypedTree, TypedChains, TypedShared
<1>n. \A i \in 1..Len(leaves) : leaves[i].chain \in Nat /\ leaves[i].chain # NoChain
  <2>1. \A i \in 1..Len(leaves) : leaves[i] \in Entries
    BY <1>2
  <2>2. \A l \in Entries : l.chain \in Nat /\ l.chain # NoChain
    BY DEF Entries
  <2>3. QED BY <2>1, <2>2
<1>e. IsFiniteSet({}) /\ Cardinality({}) = 0
  BY FS_EmptySet
<1>3. CASE node[r].chain = NoChain
  <2>1. C = next_chain_id
    BY <1>3 DEF ChainOf
  <2>2. \A i \in 1..Len(leaves) : leaves[i].chain # C
    <3>1. \A i \in 1..Len(leaves) : leaves[i].chain < next_chain_id
      BY DEF TreeInv, Chains
    <3>2. \A i \in 1..Len(leaves) : leaves[i].chain \in Nat
      BY <1>n
    <3>3. QED BY <1>2, <2>1, <3>1, <3>2
  <2>3. All = Others(C)
    BY <1>1, <2>2, OthersAre
  <2>4. TipOf(node[r].chain) = None
    <3>1. \A i \in Open : leaves[i].chain # NoChain
      BY <1>n DEF Open
    <3>2. QED BY <1>3, <3>1 DEF TipOf
  <2>5. mounted[r].backup = None
    <3>1. ReplacedBy(r)
      BY DEF TreeInv, Replaced
    <3>2. mounted[r].backup \in Requests \cup {None}
      BY <1>0 DEF TypedTasks
    <3>3. QED BY <1>3, <3>1, <3>2 DEF ReplacedBy, TreeInv, Chains
  <2>6. ServedBy(C) = {}
    BY <1>3, CommitServed
  <2>7. dropped' = dropped + Cardinality({}) /\ node'[r].coalesced = waiters[r] + Cardinality(ServedBy(C))
    BY <1>1, <1>e, <2>4, <2>5, <2>6 DEF DroppedBy
  <2>8. CommitFrom(r, C, {}, {})
    BY <1>3, <1>e, <2>3, <2>7 DEF CommitFrom
  <2>9. QED BY <2>8
<1>4. CASE node[r].chain # NoChain
  <2>1. C = node[r].chain
    BY <1>4 DEF ChainOf
  <2>t. PICK t : t = Continued(r)
    OBVIOUS
  <2>2. PICK i \in 1..Len(leaves) : leaves[i].chain = C /\ leaves[i].tip # None /\ leaves[i].tip = t
    BY <1>1, <1>4, <2>1, <2>t DEF TreeInv, Held, HeldBy
  <2>3. TipOf(C) = t
    BY <2>2, TheTip DEF TreeInv, Chains
  <2>4. t \in Requests /\ t # None /\ Done(t) /\ node[t].chain = C
    <3>1. leaves[i] \in Entries
      BY <1>2
    <3>2. QED BY <2>2, <3>1 DEF Entries, TreeInv, Chains
  <2>a. PICK a : a = LinOf(node, t, TRUE)
    OBVIOUS
  <2>5. /\ All = Others(C) \cup {Entry(C, None, a, node[t].coalesced)}
        /\ Entry(C, None, a, node[t].coalesced).traj = a
        /\ Entry(C, None, a, node[t].coalesced).chain = C
        /\ Entry(C, None, a, node[t].coalesced).coalesced = node[t].coalesced
    <3>1. Shown(node, leaves[i]) = Entry(C, None, a, node[t].coalesced)
      BY <2>2, <2>a DEF Shown
    <3>2. All = Others(C) \cup {Entry(C, None, a, node[t].coalesced)}
      BY <1>1, <2>2, <3>1, OthersAre
    <3>3. QED BY <3>2 DEF Entry
  <2>6. node[t].coalesced = Cardinality(ServedBy(C))
    <3>1. Entry(C, None, a, node[t].coalesced) \in All
      BY <2>5
    <3>2. QED BY <1>1, <2>5, <3>1 DEF Sound
  <2>7. node'[r].coalesced = waiters[r] + Cardinality(ServedBy(C))
    BY <1>1, <2>1, <2>3, <2>4, <2>6
  <2>8. /\ IsFiniteSet(Before(r))
        /\ \A x \in Before(r) : Done(x[1]) /\ x[1] # r /\ node[x[1]].chain = C
    BY <1>1, <1>4, <2>1, BeforeApart
  <2>9. /\ IsFiniteSet(Before(t)) /\ IsFiniteSet(Own(node, t)) /\ Before(t) \cap Own(node, t) = {}
        /\ Cardinality(Own(node, t)) = node[t].resp
        /\ \A x \in Before(t) \cup Own(node, t) : Done(x[1]) /\ node[x[1]].chain = C
        /\ node[t].trim = 0 => Trained(a) = Before(t) \cup Own(node, t)
    BY <2>4, <2>a, TrainedApart
  <2>10. AllTrained(All) = AllTrained(Others(C)) \cup Trained(a)
    BY <2>5, TrainedUnion
  <2>11. CASE mounted[r].backup = None
    <3>1. t = Parent(r)
      BY <2>11, <2>t DEF Continued
    <3>2. Before(r) = Trained(a)
      BY <2>1, <2>4, <2>a, <3>1 DEF Before
    <3>3. dropped' = dropped + Cardinality({})
      BY <1>1, <1>e, <2>11 DEF DroppedBy
    <3>4. CommitFrom(r, C, Before(r), {})
      BY <1>4, <1>e, <2>7, <2>8, <2>10, <3>2, <3>3 DEF CommitFrom
    <3>5. QED BY <3>4
  <2>12. CASE mounted[r].backup # None
    <3>1. t = mounted[r].backup /\ Parent(t) = Parent(r)
      BY <2>12, <2>t DEF Continued, TreeInv, Replaced, ReplacedBy
    <3>2. Before(t) = Before(r)
      BY <2>1, <2>4, <3>1 DEF Before
    <3>3. dropped' = dropped + Cardinality(Own(node, t))
      BY <1>1, <2>9, <2>12, <3>1 DEF DroppedBy
    <3>4. \A x \in Own(node, t) : x[1] # r
      <4>1. \A x \in Own(node, t) : x[1] = t
        BY <1>2, <2>4, OwnTokens
      <4>2. QED BY <1>1, <2>4, <4>1
    <3>5. CommitFrom(r, C, Before(r), Own(node, t))
      BY <1>4, <2>4, <2>7, <2>8, <2>9, <2>10, <3>2, <3>3, <3>4 DEF CommitFrom
    <3>6. QED BY <3>5
  <2>13. QED BY <2>11, <2>12
<1>5. QED BY <1>3, <1>4

\* A commit keeps Sound and Count.
LEMMA CommitCounts ==
  ASSUME TreeInv, TypeOK', Grown, Owners, Sound, Count, NEW r \in Requests, Commit(r)
  PROVE  Sound' /\ Count'
<1>0. TypedShared /\ TypedTree /\ TypedTree' /\ TypedChains /\ None \notin Requests
  BY Typed, ParametersAssumption DEF TreeInv
<1>1. PICK k \in Nat : CommitEffect(r, k)
  BY CommitEffects
<1>c. PICK C : C = ChainOf(r)
  OBVIOUS
<1>2. PICK K, A : CommitFrom(r, C, K, A)
  BY <1>1, <1>c, CommitFroms
<1>3. /\ node'[r].status = "COMPLETED" /\ node'[r].chain = C /\ node'[r].trim = node[r].trim
      /\ \A s \in Requests : s # r => node'[s] = node[s]
      /\ phase = "ACTIVE" /\ phase' = "ACTIVE" /\ ~Done(r)
      /\ KeptWith(leaves, Entry(C, r, NoTrajectory, 0), leaves')
  BY <1>1, <1>c DEF CommitEffect, Done
<1>4. /\ Frozen /\ Linear(r)'
      /\ Trains(node', r, K)
  BY <1>0, <1>1, <1>2, CommitGrows DEF CommitFrom
<1>5. /\ ServedBy(C)' = ServedBy(C) \cup Joiners(r) /\ ServedBy(C) \cap Joiners(r) = {}
      /\ \A c : c # C => ServedBy(c)' = ServedBy(c)
      /\ waiters[r] = Cardinality(Joiners(r)) /\ IsFiniteSet(Joiners(r)) /\ IsFiniteSet(ServedBy(C))
  BY <1>1, <1>c, CommitServed
<1>a. PICK a : a = LinOf(node', r, TRUE)
  OBVIOUS
<1>g. PICK g : g = Entry(C, None, a, node'[r].coalesced)
  OBVIOUS
<1>6. All' = Others(C) \cup {g} /\ g.traj = a /\ g.chain = C /\ g.coalesced = node'[r].coalesced
  <2> DEFINE e == Entry(C, r, NoTrajectory, 0)
  <2>1. Shown(node', e) = g /\ e.chain = C
    BY <1>0, <1>a, <1>g DEF Shown, Entry
  <2> HIDE DEF e
  <2>2. All' = Others(e.chain) \cup {Shown(node', e)}
    BY <1>0, <1>3, <1>4, AllWith DEF e
  <2>3. QED BY <1>g, <2>1, <2>2 DEF Entry
<1>7. Sound'
  <2>1. /\ Others(C) \subseteq All /\ \A l \in Others(C) : l.chain # C
    BY <1>3, OthersAre
  <2>2. ASSUME NEW l \in Others(C) PROVE Good(node', l.traj, l.chain) /\ l.coalesced = Cardinality(ServedBy(l.chain)')
    BY <1>3, <1>4, <1>5, <2>1, SoundKept
  <2>3. Good(node', a, C)
    <3>1. Done(r)' => Good(node', LinOf(node', r, TRUE), node'[r].chain)
      BY <1>4 DEF Linear
    <3>2. QED BY <1>3, <1>a, <3>1 DEF Done
  <2>4. node'[r].coalesced = Cardinality(ServedBy(C)')
    <3>1. node'[r].coalesced = Cardinality(Joiners(r)) + Cardinality(ServedBy(C))
      BY <1>2, <1>5 DEF CommitFrom
    <3>2. Cardinality(ServedBy(C) \cup Joiners(r)) = Cardinality(ServedBy(C)) + Cardinality(Joiners(r)) - 0
      <4>1. Cardinality({}) = 0
        BY FS_EmptySet
      <4>2. QED BY <1>5, <4>1, FS_Union
    <3>3. Cardinality(ServedBy(C)) \in Nat /\ Cardinality(Joiners(r)) \in Nat
      BY <1>5, FS_CardinalityType
    <3>4. QED BY <1>5, <3>1, <3>2, <3>3
  <2>5. QED BY <1>6, <2>2, <2>3, <2>4 DEF Sound
<1>n. node \in [Requests -> Nodes] /\ node' \in [Requests -> Nodes]
  BY <1>0 DEF TypedTree
<1>8. /\ AllOwn(node') = AllOwn(node) \cup Own(node', r)
      /\ Cardinality(AllOwn(node')) = Cardinality(AllOwn(node)) + Cardinality(Own(node', r))
  <2>1. Completed(node') = Completed(node) \cup {r} /\ r \notin Completed(node)
    BY <1>3 DEF Completed, Done
  <2>2. \A n \in Completed(node) : Own(node', n) = Own(node, n)
    BY <1>3, <2>1 DEF Own, Completed
  <2>3. AllOwn(node') = AllOwn(node) \cup Own(node', r)
    BY <2>1, <2>2 DEF AllOwn
  <2>4. AllOwn(node) \cap Own(node', r) = {}
    <3>1. \A x \in Own(node', r) : x[1] = r
      BY <1>n, OwnTokens
    <3>2. \A x \in AllOwn(node) : x[1] \in Completed(node)
      <4>1. \A n \in Completed(node) : \A x \in Own(node, n) : x[1] = n
        BY <1>n, OwnTokens DEF Completed
      <4>2. QED BY <4>1 DEF AllOwn
    <3>3. QED BY <2>1, <3>1, <3>2
  <2>5. IsFiniteSet(AllOwn(node)) /\ IsFiniteSet(Own(node', r)) /\ Cardinality({}) = 0
    BY <1>n, OwnFinite, OwnTokens, FS_EmptySet
  <2>6. Cardinality(AllOwn(node) \cup Own(node', r)) = Cardinality(AllOwn(node)) + Cardinality(Own(node', r)) - 0
    BY <2>4, <2>5, FS_Union
  <2>7. Cardinality(AllOwn(node)) \in Nat /\ Cardinality(Own(node', r)) \in Nat
    BY <2>5, FS_CardinalityType
  <2>8. QED BY <2>3, <2>6, <2>7
<1>9. ASSUME \A n \in Requests : node'[n].trim = 0 PROVE Count'
  <2>1. \A n \in Requests : node[n].trim = 0
    BY <1>3, <1>9
  <2>2. /\ IsFiniteSet(K) /\ IsFiniteSet(A) /\ K \cap A = {} /\ dropped' = dropped + Cardinality(A)
        /\ \A x \in K \cup A : x[1] # r /\ Done(x[1]) /\ node[x[1]].chain = C
        /\ AllTrained(All) = AllTrained(Others(C)) \cup (K \cup A)
    BY <1>2, <2>1 DEF CommitFrom
  <2>b. PICK B : B = Own(node', r)
    OBVIOUS
  <2>3. IsFiniteSet(B) /\ \A x \in B : x[1] = r
    BY <1>n, <2>b, OwnTokens
  <2>4. K \cap B = {}
    BY <2>2, <2>3
  <2>5. \A x \in K \cup A \cup B : ~Done(x[1]) \/ node[x[1]].chain = C
    BY <1>3, <2>2, <2>3
  <2>6. Trained(g.traj) = K \cup B
    BY <1>4, <1>6, <1>9, <1>a, <2>b DEF Trains
  <2>7. AllTrained(All') = AllTrained(Others(C)) \cup (K \cup B)
    BY <1>6, <2>6, TrainedUnion
  <2>8. Cardinality(AllTrained(All)) + dropped = Cardinality(AllOwn(node))
    BY <1>3, <2>1 DEF Count
  <2>9. Cardinality(AllOwn(node')) = Cardinality(AllOwn(node)) + Cardinality(B)
    BY <1>8, <2>b
  <2>10. Cardinality(AllTrained(All')) + dropped' = Cardinality(AllOwn(node'))
    BY <1>3, <2>2, <2>3, <2>4, <2>5, <2>7, <2>8, <2>9, Balanced
  <2>11. QED BY <2>10 DEF Count
<1>10. ASSUME ~\A n \in Requests : node'[n].trim = 0 PROVE Count'
  BY <1>10 DEF Count
<1>11. QED BY <1>7, <1>9, <1>10

\* Steps that neither commit nor close a chain change no trajectory.
LEMMA SameCounts ==
  ASSUME Frozen, Sound, Count, \A c : ServedBy(c)' = ServedBy(c), All' = All, UNCHANGED <<node, dropped>>,
         phase' # "ABORTED" => phase # "ABORTED"
  PROVE  Sound' /\ Count'
BY CountQuiet

\* A mount keeps Sound and Count.
LEMMA MountCounts ==
  ASSUME TreeInv, TypedTree', Frozen, Sound, Count, \A c : ServedBy(c)' = ServedBy(c),
         NEW r \in Requests, Mount(r)
  PROVE  Sound' /\ Count'
<1>1. PICK p \in Selected(req[r]) : MountEffect(r, p, Backup(p, req[r]))
  BY MountEffects
<1>2. /\ node[r] = NoNode /\ node'[r].status = "PENDING" /\ phase' = phase /\ leaves' = leaves
      /\ \A s \in Requests : s # r => node'[s] = node[s]
  BY <1>1 DEF MountEffect
<1>3. result' = result /\ dropped' = dropped
  BY DEF Mount
<1>4. All' = All
  BY <1>2, <1>3, AllFrozen
<1>5. Completed(node') = Completed(node) /\ node[r].trim = 0
  BY <1>2 DEF Completed, NoNode
<1>6. (\A n \in Requests : node'[n].trim = 0) => (\A n \in Requests : node[n].trim = 0)
  BY <1>2, <1>5
<1>7. QED BY <1>2, <1>3, <1>4, <1>5, <1>6, CountQuiet

\* So does the end of finalize or abort.
LEMMA FinishCounts ==
  ASSUME TreeInv, Frozen, Kept, Sound, Count, \A c : ServedBy(c)' = ServedBy(c), FinishClose
  PROVE  Sound' /\ Count'
<1>1. closer \in {"FINALIZED", "ABORTED"} /\ phase = "ACTIVE"
  BY Typed DEF TreeInv, TypedTasks, Stages, FinishClose
<1>2. CASE closer = "FINALIZED"
  <2>1. phase' = "FINALIZED" /\ UNCHANGED <<node, dropped, result>>
    BY <1>2 DEF FinishClose
  <2>2. All' = ToSet(result)
    BY <2>1 DEF All
  <2>3. All = ToSet(result)
    BY <1>1, <1>2 DEF All, Kept
  <2>4. QED BY <1>1, <2>1, <2>2, <2>3, SameCounts
<1>3. CASE closer = "ABORTED"
  <2>1. phase' = "ABORTED"
    BY <1>3 DEF FinishClose
  <2>2. QED BY <2>1 DEF Sound, Count
<1>4. QED BY <1>1, <1>2, <1>3

\* Every step keeps Sound and Count.
LEMMA CountsStep ==
  ASSUME TreeInv, TypeOK', Grown, Owners, Kept, Sound, Count, Frozen, Next
  PROVE  Sound' /\ Count'
<1>0. TypedTree'
  BY Typed
<1>1. CASE \E r \in Requests : Commit(r)
  BY <1>1, CommitCounts
<1>2. CASE \A r \in Requests : ~Commit(r)
  <2>1. \A c : ServedBy(c)' = ServedBy(c)
    BY <1>2, ServedQuiet
  <2>2. ASSUME UNCHANGED <<phase, leaves, node, dropped>>, result' = result \/ phase = "ACTIVE" PROVE Sound' /\ Count'
    <3>1. All' = All
      BY <1>0, <2>2, AllFrozen
    <3>2. QED BY <2>1, <2>2, <3>1, SameCounts
  <2>3. ASSUME NEW r \in Requests, Mount(r) PROVE Sound' /\ Count'
    BY <1>0, <2>1, <2>3, MountCounts
  <2>4. ASSUME NEW r \in Requests, ExhaustCapacity(r) PROVE Sound' /\ Count'
    BY <2>1, <2>4, ExhaustCounts
  <2>5. CASE FinishClose
    BY <2>1, <2>5, FinishCounts
  <2>6. CASE StartFinalize
    BY <2>2, <2>6 DEF StartFinalize
  <2>7. CASE CancelClose
    BY <2>2, <2>7 DEF CancelClose, TreeInv, Stages
  <2>8. \/ UNCHANGED <<phase, leaves, node, dropped, result>>
        \/ FinishClose \/ StartFinalize \/ CancelClose
        \/ \E r \in Requests : Mount(r) \/ ExhaustCapacity(r)
    BY <1>2 DEF Next, Step, Reject, Join, StartMount, StartCommit, CommitTooLate, Unwind, Wake,
      FailUnmounted, FailMounted, StartAbort, Terminated, vars, session
  <2>9. QED BY <2>2, <2>3, <2>4, <2>5, <2>6, <2>7, <2>8
<1>3. QED BY <1>1, <1>2

\* The inductive invariant of TrainedOnce.
TrainInv == TreeInv /\ Grown /\ Owners /\ Kept /\ Sound /\ Count

\* The invariant holds in the initial states.
LEMMA TrainInit == Init => TrainInv
<1> SUFFICES ASSUME Init PROVE TrainInv
  OBVIOUS
<1>1. TreeInv /\ Grown /\ Owners
  BY StructInit, GrownInit, OwnersInit
<1>2. leaves = << >> /\ phase = "ACTIVE" /\ closer = "idle" /\ dropped = 0
      /\ \A n \in Requests : node[n] = NoNode
  BY DEF Init
<1>3. Kept
  BY <1>2 DEF Kept
<1>4. All = {}
  BY <1>2 DEF All
<1>5. Completed(node) = {}
  BY <1>2 DEF Completed, NoNode
<1>6. AllTrained(All) = {} /\ AllOwn(node) = {}
  BY <1>4, <1>5 DEF AllTrained, AllOwn
<1>7. Cardinality(AllTrained(All)) + dropped = Cardinality(AllOwn(node))
  BY <1>2, <1>6, FS_EmptySet
<1>8. Sound /\ Count
  BY <1>4, <1>7 DEF Sound, Count
<1>9. QED BY <1>1, <1>3, <1>8 DEF TrainInv

\* The invariant is inductive.
LEMMA TrainStep == TrainInv /\ [Next]_vars => TrainInv'
<1> SUFFICES ASSUME TrainInv, [Next]_vars PROVE TrainInv'
  OBVIOUS
<1>1. TreeInv /\ Grown /\ Owners /\ Kept /\ Sound /\ Count
  BY DEF TrainInv
<1>2. TreeInv' /\ TypeOK' /\ TypedTree'
  BY <1>1, TreeStep, Typed DEF TreeInv
<1>3. Frozen /\ Grown'
  BY <1>1, <1>2, GrownStep
<1>4. CASE Next
  BY <1>1, <1>2, <1>3, <1>4, OwnersStep, KeptStep, CountsStep DEF TrainInv
<1>5. CASE UNCHANGED vars
  <2>1. UNCHANGED <<joined, future, inflight, waiters, pc, req, next_chain_id, closer, result, leaves, phase, node, dropped>>
    BY <1>5 DEF vars, session, sharing
  <2>2. Owners'
    BY <1>1, <2>1 DEF Owners, OwnedBy, OwnerOf, Busy, Joiners
  <2>3. Kept'
    BY <1>1, <2>1 DEF Kept
  <2>4. \A c : ServedBy(c)' = ServedBy(c)
    BY <2>1 DEF ServedBy
  <2>5. All' = All
    BY <2>1 DEF All
  <2>6. Sound' /\ Count'
    BY <1>1, <1>3, <2>1, <2>4, <2>5, SameCounts
  <2>7. QED BY <1>2, <1>3, <2>2, <2>3, <2>6 DEF TrainInv
<1>6. QED BY <1>4, <1>5

\* How many times a response trains, when no token is in it twice.
LEMMA CountedOnce ==
  ASSUME NEW t \in Trajectory, Distinct(t)
  PROVE  Cardinality(Trained(t)) = Cardinality({i \in DOMAIN t.resp : t.resp[i][2] > 0})
<1> DEFINE S == {i \in DOMAIN t.resp : t.resp[i][2] > 0}
           f == [i \in S |-> t.resp[i]]
<1>1. t.resp \in Seq(Tokens)
  BY DEF Trajectory
<1>2. DOMAIN t.resp = 1..Len(t.resp) /\ Len(t.resp) \in Nat
  BY <1>1
<1>3. \A x : x \in Trained(t) <=> \E i \in S : t.resp[i] = x
  <2>1. \A x : x \in Trained(t) <=> \E i \in 1..Len(t.resp) : t.resp[i] = x /\ x[2] > 0
    BY TrainedAt
  <2>2. QED BY <1>2, <2>1
<1>4. \A i, j \in S : t.resp[i] = t.resp[j] => i = j
  BY <1>2 DEF Distinct
<1>5. IsFiniteSet(S)
  <2>1. S \in SUBSET (1..Len(t.resp))
    BY <1>2
  <2>2. IsFiniteSet(1..Len(t.resp))
    BY <1>2, FS_Interval
  <2> HIDE DEF S
  <2>3. QED BY <2>1, <2>2, FS_Subset
<1>6. f \in Bijection(S, Trained(t))
  <2>1. f \in [S -> Trained(t)] /\ \A i \in S : f[i] = t.resp[i]
    BY <1>3
  <2>2. QED BY <1>3, <1>4, <2>1 DEF Bijection, Injection, Surjection, IsInjective
<1>7. ExistsBijection(S, Trained(t))
  BY <1>6 DEF ExistsBijection
<1> HIDE DEF S, f
<1>8. Cardinality(Trained(t)) = Cardinality(S)
  BY <1>5, <1>7, FS_Bijection
<1>9. QED BY <1>8 DEF S

\* The invariant implies that every sampled token is trained once, or dropped.
LEMMA TrainTokens ==
  ASSUME TrainInv
  PROVE  TokensTrainedOnce
<1>0. TypedTree /\ TypedChains /\ node \in [Requests -> Nodes]
  BY Typed DEF TrainInv, TreeInv, TypedTree
<1>1. Trajectories = All
  BY <1>0, AllIs
<1>2. ASSUME phase # "ABORTED", NEW l \in All
      PROVE /\ \A x \in Trained(l.traj) : node[x[1]].chain = l.chain
            /\ Cardinality(Trained(l.traj)) = Cardinality({i \in DOMAIN l.traj.resp : l.traj.resp[i][2] > 0})
  <2>1. Good(node, l.traj, l.chain)
    BY <1>2 DEF TrainInv, Sound
  <2>2. PICK t : t = l.traj
    OBVIOUS
  <2>3. t \in Trajectory /\ Distinct(t)
    BY <2>1, <2>2 DEF Good
  <2>4. Cardinality(Trained(t)) = Cardinality({i \in DOMAIN t.resp : t.resp[i][2] > 0})
    BY <2>3, CountedOnce
  <2>5. QED BY <2>1, <2>2, <2>4 DEF Good
<1>3. ASSUME phase # "ABORTED", \A n \in Requests : node[n].trim = 0
      PROVE Cardinality(UNION {Trained(l.traj) : l \in Trajectories}) + dropped
              = Cardinality(UNION {ToSet(SampledTokens(n)) : n \in CompletedNodes})
  <2>1. UNION {Trained(l.traj) : l \in Trajectories} = AllTrained(All)
    BY <1>1 DEF AllTrained
  <2>2. CompletedNodes = Completed(node)
    BY DEF CompletedNodes, Completed
  <2>3. \A n \in Completed(node) : ToSet(SampledTokens(n)) = Own(node, n)
    <3>1. \A n \in Completed(node) : SampledTokens(n) = SampledIn(node, n)
      BY InThisState
    <3>2. \A n \in Requests : Own(node, n) = ToSet(SampledIn(node, n))
      BY <1>0, OwnTokens
    <3>3. QED BY <3>1, <3>2 DEF Completed
  <2>4. UNION {ToSet(SampledTokens(n)) : n \in CompletedNodes} = AllOwn(node)
    BY <2>2, <2>3 DEF AllOwn
  <2>5. Cardinality(AllTrained(All)) + dropped = Cardinality(AllOwn(node))
    BY <1>3 DEF TrainInv, Count
  <2>6. QED BY <2>1, <2>4, <2>5
<1>4. QED BY <1>1, <1>2, <1>3 DEF TokensTrainedOnce

\* And that it is trained as it was sampled.
LEMMA TrainSampled ==
  ASSUME TrainInv
  PROVE  TrainedAsSampled
<1>0. TypedTree /\ TypedChains /\ node \in [Requests -> Nodes] /\ None \notin Requests
  BY Typed, ParametersAssumption DEF TrainInv, TreeInv, TypedTree
<1>1. SUFFICES ASSUME NEW i \in Open, NEW n, n = leaves[i].tip
               PROVE Linearize(n, TRUE).prompt \o Linearize(n, TRUE).resp = mounted[n].ctx \o SampledTokens(n)
  BY DEF TrainedAsSampled
<1>2. i \in 1..Len(leaves) /\ n # None
  BY <1>1 DEF Open
<1>3. n \in Requests /\ Done(n)
  <2>1. leaves[i] \in Entries
    BY <1>0, <1>2 DEF TypedChains
  <2>2. QED BY <1>1, <1>2, <2>1 DEF Entries, TrainInv, TreeInv, Chains
<1>4. node[n].path \in Seq(Requests) /\ Path(n) = node[n].path
  BY <1>0, <1>2, <1>3 DEF Nodes, Path
<1>5. \A st : LinearIn(node, node[n].path, st, TRUE).prompt \o LinearIn(node, node[n].path, st, TRUE).resp
                = ContextIn(node, node[n].path)
  BY <1>0, <1>4, LinearContext
<1>6. PICK st : Linearize(n, TRUE) = LinearIn(node, node[n].path, st, TRUE)
  BY <1>4, InThisState
<1>7. ContextIn(node, node[n].path) = mounted[n].ctx \o SampledIn(node, n)
  BY <1>3 DEF TrainInv, Grown, Fed, Done, Mounted
<1>8. SampledTokens(n) = SampledIn(node, n)
  BY InThisState
<1>9. QED BY <1>5, <1>6, <1>7, <1>8

\* And that chains count whom they served, and fit.
LEMMA TrainServes ==
  ASSUME TrainInv
  PROVE  WaitersAttributed /\ CapacityRespected
<1>0. TypedTree /\ TypedChains /\ TypedTasks
  BY Typed DEF TrainInv, TreeInv
<1>1. Trajectories = All
  BY <1>0, AllIs
<1>2. phase # "ABORTED" => \A l \in All : Good(node, l.traj, l.chain) /\ l.coalesced = Cardinality(ServedBy(l.chain))
  BY DEF TrainInv, Sound
<1>3. WaitersAttributed
  BY <1>1, <1>2 DEF WaitersAttributed, ServedBy
<1>4. phase = "ABORTED" => All = {}
  BY DEF TrainInv, Kept, All
<1>5. CapacityRespected
  BY <1>1, <1>2, <1>4 DEF CapacityRespected, Good
<1>6. QED BY <1>3, <1>5

\* "Each chain trains only its own generated tokens", and the rest of TrainedOnce:
\* every sampled token is trained once, as it was sampled, in a chain that counts
\* the requests it served and fits, through forks, rollbacks and closed chains.
THEOREM TreeTrainsOnce == Spec => []TrainedOnce
<1>1. TrainInv => TrainedOnce
  BY TrainTokens, TrainSampled, TrainServes DEF TrainedOnce
<1>2. QED BY <1>1, TrainInit, TrainStep, PTL DEF Spec

=============================================================================
