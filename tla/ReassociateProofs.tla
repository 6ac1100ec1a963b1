-------------------------- MODULE ReassociateProofs --------------------------
(* What holds of reuse-driven reassociation for every circuit, whatever it   *)
(* rewrites and in whichever order gates are killed: the bookkeeping of the  *)
(* rounds is in order as far as it is exact, a gate found by its contents    *)
(* has them, no rewrite makes a cycle, and a rewrite keeps the value of the  *)
(* root.                                                                     *)
EXTENDS ReassociatePass, NewCircuitProofs

\* Gates keep having gates as operands, and the tombstones are the dead gates.
OperandsKept == \A g \in Indices : Operands(gates[g]) \subseteq Indices
DeadAreTombstones == \A g \in Indices : gates[g] = Tombstone <=> g \in dead

\* Until a round rewrites something there is nothing to kill, and it goes round what
\* would survive it: so the place where the last round ends is still one when the
\* survivors are collected again.
Unrewritten ==
  ~ reassociated => /\ to_kill = {}
                    /\ Range(operation_gates) \subseteq Indices \ (dead \cup constant_gates)

ReassociateInv ==
  /\ circuit \in Circuits
  /\ ReassociateTypeOK
  /\ OperandsKept /\ DeadAreTombstones /\ Unrewritten
  /\ SeenSound

-----------------------------------------------------------------------------
\* What the operators of the rounds come to.

\* The elements of s in S are a sequence of them, and s itself if it has no others.
LEMMA SelectedIs ==
  ASSUME NEW T, NEW s \in Seq(T), NEW S
  PROVE  /\ Selected(s, S) \in Seq(T \cap S)
         /\ Range(s) \subseteq S => Selected(s, S) = s
<1>1. CASE s = << >>
  BY <1>1, EmptySeq DEF Selected
<1>2. CASE s # << >>
  <2> DEFINE n == Len(s)
             V == Seq(T \cap S)
             one(i) == IF s[i] \in S THEN <<s[i]>> ELSE << >>
             Upto(i, f) == (IF i = 1 THEN << >> ELSE f[i - 1]) \o one(i)
             P(f) == f = [i \in DOMAIN s |-> Upto(i, f)]
             causes == [p \in (1 .. n) \X [1 .. n -> V] |-> Upto(p[1], p[2])]
             d == CHOOSE f : P(f)
  <2>1. Selected(s, S) = d[n]
    BY <1>2 DEF Selected
  <2>2. n \in Nat \ {0} /\ DOMAIN s = 1 .. n /\ \A i \in 1 .. n : s[i] \in T
    BY <1>2, LenProperties, ElementOfSeq, EmptySeq
  <2>3. V # {} /\ << >> \in V
    BY EmptySeq
  <2>4. ASSUME NEW i \in 1 .. n
        PROVE  one(i) \in V
    <3>1. CASE s[i] \in S
      <4>1. s[i] \in T \cap S /\ one(i) = <<s[i]>>
        BY <2>2, <3>1
      <4> HIDE DEF one
      <4> QED
        BY <4>1
    <3>2. CASE s[i] \notin S
      BY <2>3, <3>2
    <3> QED
      BY <3>1, <3>2
  <2>5. ASSUME NEW i \in 1 .. n, NEW f, i # 1 => f[i - 1] \in V
        PROVE  Upto(i, f) \in V
    <3> DEFINE before == IF i = 1 THEN << >> ELSE f[i - 1]
    <3>1. before \in V
      BY <2>3, <2>5
    <3>2. Upto(i, f) = before \o one(i) /\ one(i) \in V
      BY <2>4
    <3> HIDE DEF before, Upto, one
    <3> QED
      BY <3>1, <3>2, ConcatProperties
  <2>6. ASSUME NEW i \in 1 .. n, NEW f \in [1 .. n -> V]
        PROVE  Upto(i, f) \in V /\ causes[<<i, f>>] = Upto(i, f)
    <3>1. i # 1 => f[i - 1] \in V
      <4>1. i # 1 => i - 1 \in 1 .. n
        BY <2>2
      <4> HIDE DEF n, V
      <4> QED
        BY <4>1
    <3>2. Upto(i, f) \in V
      <4> HIDE DEF Upto, V
      <4> QED
        BY <3>1, <2>5
    <3> HIDE DEF Upto, V
    <3> QED
      BY <3>2
  <2>7. Causal(n, V, causes)
    <3>1. causes \in [(1 .. n) \X [1 .. n -> V] -> V]
      <4> HIDE DEF Upto, V, n
      <4> QED
        BY <2>6
    <3>2. ASSUME NEW i \in 1 .. n, NEW f \in [1 .. n -> V], NEW h \in [1 .. n -> V],
                 \A j \in 1 .. i - 1 : f[j] = h[j]
          PROVE  causes[<<i, f>>] = causes[<<i, h>>]
      <4>1. i = 1 \/ f[i - 1] = h[i - 1]
        BY <2>2, <3>2
      <4>2. Upto(i, f) = Upto(i, h)
        BY <4>1
      <4> HIDE DEF Upto, V, causes
      <4> QED
        BY <4>2, <2>6
    <3> HIDE DEF causes
    <3> QED
      BY <3>1, <3>2 DEF Causal
  <2>8. PICK f : Solves(f, n, V, causes)
    <3> HIDE DEF n, V, causes
    <3> QED
      BY <2>2, <2>3, <2>7, RecursionSolvable
  <2>9. P(f)
    <3>1. f \in [1 .. n -> V] /\ \A i \in 1 .. n : f[i] = causes[<<i, f>>]
      BY <2>8 DEF Solves
    <3>2. \A i \in 1 .. n : f[i] = Upto(i, f)
      <4> HIDE DEF Upto, V, causes, n
      <4> QED
        BY <3>1, <2>6
    <3> HIDE DEF Upto, V, causes
    <3> QED
      BY <3>1, <3>2, <2>2
  <2>10. P(d)
    <3> HIDE DEF P
    <3> QED
      BY <2>9
  <2>11. \A i \in 1 .. n : d[i] = Upto(i, d)
    <3> HIDE DEF Upto, d
    <3> QED
      BY <2>10, <2>2
  <2> HIDE DEF d
  <2>12. d[n] \in V
    <3> DEFINE Typed == {i \in 1 .. n : d[i] \in V}
    <3>1. ASSUME NEW i \in 1 .. n, (1 .. i - 1) \subseteq Typed
          PROVE  i \in Typed
      <4>1. i # 1 => i - 1 \in 1 .. i - 1
        BY <2>2
      <4>2. i # 1 => d[i - 1] \in V
        BY <3>1, <4>1
      <4> HIDE DEF Upto, V
      <4> QED
        BY <2>5, <2>11, <4>2
    <3>2. 1 .. n \subseteq Typed
      <4> HIDE DEF Typed, n
      <4> QED
        BY <2>2, <3>1, PositionInduction
    <3> QED
      BY <2>2, <3>2
  <2>13. ASSUME Range(s) \subseteq S
         PROVE  d[n] = s
    <3> DEFINE Whole == {i \in 1 .. n : d[i] = SubSeq(s, 1, i)}
    <3>1. ASSUME NEW i \in 1 .. n, (1 .. i - 1) \subseteq Whole
          PROVE  i \in Whole
      <4>1. s[i] \in S /\ one(i) = <<s[i]>>
        BY <2>2, <2>13 DEF Range
      <4>2. SubSeq(s, 1, i) = SubSeq(s, 1, i - 1) \o <<s[i]>>
        <5>1. 1 \in 1 .. Len(s) /\ i \in 1 .. Len(s)
          BY <2>2
        <5> QED
          BY <5>1, SubSeqRecursiveSecond
      <4>3. CASE i = 1
        <5>1. SubSeq(s, 1, i - 1) = << >>
          BY <4>3, SubSeqEmpty
        <5>2. d[i] = << >> \o one(i)
          BY <2>11, <4>3
        <5> QED
          BY <4>1, <4>2, <5>1, <5>2
      <4>4. CASE i # 1
        <5>1. i - 1 \in 1 .. i - 1
          BY <4>4, <2>2
        <5>2. d[i - 1] = SubSeq(s, 1, i - 1)
          BY <5>1, <3>1
        <5>3. d[i] = d[i - 1] \o one(i)
          BY <2>11, <4>4
        <5> QED
          BY <4>1, <4>2, <5>2, <5>3
      <4> QED
        BY <4>3, <4>4
    <3>2. 1 .. n \subseteq Whole
      <4> HIDE DEF Whole, n
      <4> QED
        BY <2>2, <3>1, PositionInduction
    <3>3. d[n] = SubSeq(s, 1, n)
      BY <2>2, <3>2
    <3> QED
      BY <3>3, SubSeqFull
  <2> HIDE DEF n, V
  <2> QED
    BY <2>1, <2>12, <2>13 DEF V
<1> QED
  BY <1>1, <1>2

\* A rewritten root is an operation whose inner operation has the same operator; one
\* operand of that, a, makes the pair with the leaf that moves, and one is left.
LEMMA RewriteIs ==
  ASSUME ReassociateTypeOK, OperandsKept, NEW root \in Indices, NEW t \in Rewrites(root)
  PROVE  /\ root \in Indices /\ gates[root] \in Node /\ IsOp(gates[root])
         /\ gates[root].op \in Ops \cap AssociativeOps
         /\ {t.inner, t.moved, t.other, t.pair[1], t.pair[2]} \subseteq Indices
         /\ gates[t.inner] \in Node /\ IsOp(gates[t.inner])
         /\ gates[t.inner].op = gates[root].op
         /\ IsLeaf(gates[t.moved])
         /\ Operands(gates[root]) = {t.inner, t.moved}
         /\ \E a \in Indices : /\ Operands(gates[t.inner]) = {a, t.other}
                               /\ {t.pair[1], t.pair[2]} = {a, t.moved}
<1> DEFINE tries == IF IsOp(gates[root]) /\ gates[root].op # "Sub" THEN Tries(root) ELSE << >>
           n == gates[root]
           l == gates[n.lhs]
           r == gates[n.rhs]
<1>1. PICK i \in DOMAIN tries : t = tries[i]
  BY DEF Rewrites
<1>2. IsOp(n) /\ n.op # "Sub" /\ tries = Tries(root)
  BY <1>1
<1> HIDE DEF tries
<1>3. \A g \in Indices : gates[g] \in Node \cup {Tombstone}
  BY ElementOfSeq, LenProperties DEF ReassociateTypeOK, Indices
<1>4. \A g \in Indices : IsOp(gates[g]) =>
        /\ gates[g] \in Node /\ gates[g].op \in Ops
        /\ Operands(gates[g]) = {gates[g].lhs, gates[g].rhs}
        /\ gates[g].lhs \in Indices /\ gates[g].rhs \in Indices
  <2>1. ~ IsOp(Tombstone)
    BY DEF Tombstone, IsOp
  <2>2. \A g \in Indices : IsOp(gates[g]) => gates[g] \in Node
    BY <1>3, <2>1
  <2> QED
    BY <2>2, NodeKinds DEF OperandsKept
<1>5. n \in Node /\ n.op \in Ops \cap AssociativeOps /\ n.lhs \in Indices /\ n.rhs \in Indices
      /\ Operands(n) = {n.lhs, n.rhs}
  BY <1>2, <1>4, DagAssumption DEF AssociativeOps, BinOp
<1>6. CASE IsOp(l) /\ l.op = n.op /\ IsLeaf(r)
  <2>1. Tries(root) = << Try(<<l.lhs, n.rhs>>, l.rhs, n.rhs, n.lhs),
                         Try(<<l.rhs, n.rhs>>, l.lhs, n.rhs, n.lhs) >>
    BY <1>6 DEF Tries, IsLeaf, IsOp, IsInput, IsConst
  <2>2. \/ t = Try(<<l.lhs, n.rhs>>, l.rhs, n.rhs, n.lhs)
        \/ t = Try(<<l.rhs, n.rhs>>, l.lhs, n.rhs, n.lhs)
    BY <1>1, <1>2, <2>1
  <2>3. /\ l \in Node /\ l.lhs \in Indices /\ l.rhs \in Indices
        /\ Operands(l) = {l.lhs, l.rhs}
    BY <1>4, <1>5, <1>6
  <2>4. /\ t.inner = n.lhs /\ t.moved = n.rhs /\ t.pair[2] = n.rhs
        /\ \/ t.pair[1] = l.lhs /\ t.other = l.rhs
           \/ t.pair[1] = l.rhs /\ t.other = l.lhs
    BY <2>2 DEF Try
  <2> QED
    BY <1>2, <1>5, <1>6, <2>3, <2>4
<1>7. CASE ~ (IsOp(l) /\ l.op = n.op /\ IsLeaf(r))
  <2>1. CASE IsLeaf(l) /\ IsOp(r) /\ r.op = n.op
    <3>1. Tries(root) = << Try(<<n.lhs, r.rhs>>, r.lhs, n.lhs, n.rhs),
                           Try(<<n.lhs, r.lhs>>, r.rhs, n.lhs, n.rhs) >>
      BY <1>7, <2>1 DEF Tries, IsLeaf, IsOp, IsInput, IsConst
    <3>2. \/ t = Try(<<n.lhs, r.rhs>>, r.lhs, n.lhs, n.rhs)
          \/ t = Try(<<n.lhs, r.lhs>>, r.rhs, n.lhs, n.rhs)
      BY <1>1, <1>2, <3>1
    <3>3. /\ r \in Node /\ r.lhs \in Indices /\ r.rhs \in Indices
          /\ Operands(r) = {r.lhs, r.rhs}
      BY <1>4, <1>5, <2>1
    <3>4. /\ t.inner = n.rhs /\ t.moved = n.lhs /\ t.pair[1] = n.lhs
          /\ \/ t.pair[2] = r.lhs /\ t.other = r.rhs
             \/ t.pair[2] = r.rhs /\ t.other = r.lhs
      BY <3>2 DEF Try
    <3> QED
      BY <1>2, <1>5, <2>1, <3>3, <3>4
  <2>2. CASE ~ (IsLeaf(l) /\ IsOp(r) /\ r.op = n.op)
    <3>1. Tries(root) = << >>
      BY <1>7, <2>2 DEF Tries
    <3> QED
      BY <1>1, <1>2, <3>1
  <2> QED
    BY <2>1, <2>2
<1> QED
  BY <1>6, <1>7

-----------------------------------------------------------------------------
\* The invariant is kept by every step.

LEMMA GatesAre ==
  ASSUME ReassociateTypeOK
  PROVE  /\ Len(gates) \in Nat /\ Indices = 1 .. Len(gates)
         /\ \A g \in Indices : gates[g] \in Node \cup {Tombstone}
         /\ \A g \in Indices : gates[g] # Tombstone => gates[g] \in Node
         /\ AtRoot => Root \in Indices /\ at + 1 \in 1 .. Len(operation_gates) + 1
         /\ Len(operation_gates) \in Nat
<1>1. /\ Len(gates) \in Nat /\ Indices = 1 .. Len(gates)
      /\ \A g \in Indices : gates[g] \in Node \cup {Tombstone}
  BY ElementOfSeq, LenProperties DEF ReassociateTypeOK, Indices
<1>2. Len(operation_gates) \in Nat
  BY LenProperties DEF ReassociateTypeOK
<1>3. ASSUME AtRoot
      PROVE  Root \in Indices /\ at + 1 \in 1 .. Len(operation_gates) + 1
  <2>1. at \in 1 .. Len(operation_gates)
    BY <1>2, <1>3 DEF AtRoot, ReassociateTypeOK
  <2> QED
    BY <1>2, <2>1, ElementOfSeq DEF ReassociateTypeOK, Root
<1> QED
  BY <1>1, <1>2, <1>3

LEMMA NoOperands == Operands(Tombstone) = {} /\ Tombstone \notin Node
BY DEF Operands, IsOp, Tombstone, Node

LEMMA InitHolds == Init => ReassociateInv
<1> SUFFICES ASSUME Init
             PROVE  ReassociateInv
  OBVIOUS
<1> USE DEF Init
<1>1. circuit \in Circuits /\ gates = circuit.gates /\ Compiled(circuit)
  BY CircuitAssumption
<1>2. gates \in Seq(Node) /\ Topological(gates)
  BY <1>1 DEF Compiled
<1>3. /\ Len(gates) \in Nat /\ DOMAIN gates = 1 .. Len(gates)
      /\ \A g \in Indices : gates[g] \in Node
  BY <1>2, LenProperties, ElementOfSeq DEF Indices
<1>4. gates \in Seq(Node \cup {Tombstone}) /\ Indices = DOMAIN circuit.gates
  BY <1>1, <1>2, SeqInLarger DEF Indices
<1>5. usages \in [Indices -> SUBSET Indices]
  BY DEF Uses, Users, Indices
<1>6. ASSUME NEW k \in DOMAIN seen
      PROVE  k \in Node /\ seen[k] \in Indices /\ Canonical(gates[seen[k]]) = k
  <2>1. PICK g \in Indices : k = Canonical(gates[g])
    BY DEF LearnSeen, Indices
  <2>2. k \in Node
    BY <1>3, <2>1, CanonicalNode
  <2>3. seen[k] = CHOOSE h \in DOMAIN gates : Canonical(gates[h]) = k
    BY DEF LearnSeen
  <2>4. seen[k] \in DOMAIN gates /\ Canonical(gates[seen[k]]) = k
    BY <2>1, <2>3 DEF Indices
  <2> QED
    BY <2>2, <2>4 DEF Indices
<1>7. operation_gates \in Seq(Indices \cap {g \in Indices : IsOp(gates[g])})
  <2> DEFINE all == [g \in DOMAIN gates |-> g]
             ops == {g \in Indices : IsOp(gates[g])}
  <2>1. all \in Seq(Indices)
    BY <1>3 DEF Indices
  <2>2. operation_gates = Selected(all, ops)
    BY DEF Indices
  <2> HIDE DEF all
  <2> QED
    BY <2>1, <2>2, SelectedIs
<1>8. constant_gates = {g \in Indices : IsConst(gates[g])}
  BY DEF Indices
<1>9. operation_gates \in Seq(Indices) /\ Range(operation_gates) \subseteq Indices \ constant_gates
  <2>1. Range(operation_gates) \subseteq Indices \cap {g \in Indices : IsOp(gates[g])}
    BY <1>7, RangeInSet
  <2>2. operation_gates \in Seq(Indices)
    BY <1>7, SeqInLarger
  <2> QED
    BY <1>3, <1>8, <2>1, <2>2, NodeKinds
<1> DEFINE n == Len(operation_gates)
<1>10. n \in Nat
  <2> HIDE DEF Init
  <2> QED
    BY <1>9, LenProperties
<1>11. ReassociateTypeOK
  <2> HIDE DEF n
  <2>1. at \in 1 .. n + 1
    BY <1>10
  <2>2. /\ dead \subseteq Indices /\ to_kill \subseteq Indices /\ constant_gates \subseteq Indices
        /\ reassociated \in BOOLEAN /\ phase \in {"running", "done", "panic"}
    BY <1>8
  <2> HIDE DEF Init
  <2> QED
    BY <1>4, <1>5, <1>6, <1>9, <2>1, <2>2 DEF ReassociateTypeOK, n
<1>12. OperandsKept
  <2>1. \A g \in 1 .. Len(gates) : 1 .. g - 1 \subseteq 1 .. Len(gates)
    BY <1>3
  <2> HIDE DEF Init
  <2> QED
    BY <1>2, <1>3, <2>1 DEF OperandsKept, Topological, Indices
<1>13. DeadAreTombstones
  BY <1>3, NoOperands DEF DeadAreTombstones
<1>14. Unrewritten
  BY <1>9 DEF Unrewritten
<1>15. SeenSound
  BY <1>6 DEF SeenSound
<1> QED
  BY <1>1, <1>11, <1>12, <1>13, <1>14, <1>15 DEF ReassociateInv

\* Accepting a rewrite, whatever the gates are once the pair is there, keeps what the
\* invariant says of all but seen and the constants.
LEMMA AcceptKeeps ==
  ASSUME ReassociateInv, AtRoot, NEW t \in Rewrites(Root), NEW child \in Indices,
         NEW all \in Seq(Node \cup {Tombstone}), Len(all) = Len(gates),
         \A g \in Indices : /\ Operands(all[g]) \subseteq Indices
                            /\ all[g] = Tombstone <=> g \in dead,
         Accept(t, child, all)
  PROVE  /\ gates' \in Seq(Node \cup {Tombstone}) /\ Indices' = Indices
         /\ gates'[Root] = OpNode(gates[Root].op, child, t.other) /\ gates'[Root] \in Node
         /\ Operands(gates'[Root]) = {child, t.other}
         /\ \A g \in Indices \ {Root} : gates'[g] = all[g]
         /\ OperandsKept' /\ DeadAreTombstones' /\ Unrewritten'
         /\ usages' \in [Indices -> SUBSET Indices] /\ to_kill' \subseteq Indices
         /\ at' \in 1 .. Len(operation_gates) + 1 /\ reassociated' = TRUE
         /\ UNCHANGED <<circuit, dead, operation_gates, phase>>
<1> DEFINE n == OpNode(gates[Root].op, child, t.other)
           X == Node \cup {Tombstone}
<1>1. ReassociateTypeOK /\ OperandsKept /\ DeadAreTombstones
  BY DEF ReassociateInv
<1>2. Root \in Indices /\ Indices = 1 .. Len(gates) /\ at + 1 \in 1 .. Len(operation_gates) + 1
  BY <1>1, GatesAre
<1>3. t.other \in Indices /\ gates[Root].op \in Ops /\ gates[Root] # Tombstone
  BY <1>1, <1>2, RewriteIs, NoOperands
<1>4. n \in Node /\ Operands(n) = {child, t.other}
  BY <1>2, <1>3 DEF OpNode, Node, Operands, IsOp, Index
<1>5. gates' = [all EXCEPT ![Root] = n]
  BY DEF Accept
<1> HIDE DEF n, X
<1>6. gates' \in Seq(X) /\ Len(gates') = Len(all)
      /\ \A g \in 1 .. Len(all) : gates'[g] = IF g = Root THEN n ELSE all[g]
  <2>1. n \in X /\ all \in Seq(X) /\ Root \in 1 .. Len(all)
    BY <1>2, <1>4 DEF X
  <2> QED
    BY <1>5, <2>1, ExceptSeq
<1>7. DOMAIN gates' = Indices
  BY <1>2, <1>6, LenProperties
<1>8. Indices' = Indices
  BY <1>7 DEF Indices
<1>9. gates'[Root] = n /\ \A g \in Indices \ {Root} : gates'[g] = all[g]
  BY <1>2, <1>6
<1>10. OperandsKept'
  <2>1. \A g \in Indices : Operands(gates'[g]) \subseteq Indices
    BY <1>3, <1>4, <1>9
  <2> QED
    BY <2>1, <1>8 DEF OperandsKept
<1>11. dead' = dead /\ UNCHANGED <<circuit, operation_gates, phase>> /\ reassociated' = TRUE
       /\ at' = at + 1
  BY DEF Accept
<1>12. DeadAreTombstones'
  <2>1. Root \notin dead /\ n # Tombstone
    BY <1>1, <1>2, <1>3, <1>4, NoOperands DEF DeadAreTombstones
  <2>2. \A g \in Indices : gates'[g] = Tombstone <=> g \in dead
    BY <1>9, <2>1
  <2> QED
    BY <2>2, <1>8, <1>11 DEF DeadAreTombstones
<1>13. Unrewritten'
  BY <1>11 DEF Unrewritten
<1>14. usages' \in [Indices -> SUBSET Indices]
  <2>1. usages \in [Indices -> SUBSET Indices]
    BY <1>1 DEF ReassociateTypeOK
  <2>2. PICK links, connected :
          usages' = [g \in DOMAIN usages |->
                       {u \in usages[g] : <<g, u>> \notin links}
                         \cup (IF g \in connected THEN {Root} ELSE {})]
    BY DEF Accept
  <2> QED
    BY <1>2, <2>1, <2>2
<1>15. to_kill' \subseteq Indices
  <2>1. PICK uses, links, connected :
          to_kill' = (to_kill \cup Emptied(uses, links)) \ Rescued(uses, connected)
    BY DEF Accept
  <2>2. to_kill \subseteq Indices /\ Emptied(uses, links) \subseteq Indices
    BY <1>1 DEF ReassociateTypeOK, Emptied
  <2> QED
    BY <2>1, <2>2
<1> QED
  BY <1>2, <1>4, <1>6, <1>8, <1>9, <1>10, <1>11, <1>12, <1>13, <1>14, <1>15 DEF n, X

LEMMA PlacesKeep ==
  ASSUME ReassociateInv,
         UNCHANGED <<circuit, gates, dead, usages, to_kill, seen, operation_gates,
                     constant_gates, reassociated>>,
         at' \in 1 .. Len(operation_gates) + 1, phase' \in {"running", "done", "panic"}
  PROVE  ReassociateInv'
BY DEF ReassociateInv, ReassociateTypeOK, OperandsKept, DeadAreTombstones, Unrewritten,
       SeenSound, Indices

LEMMA ReuseKeeps ==
  ASSUME ReassociateInv, Reuse
  PROVE  ReassociateInv'
<1>1. ReassociateTypeOK /\ OperandsKept /\ DeadAreTombstones /\ SeenSound /\ circuit \in Circuits
      /\ AtRoot
  BY DEF ReassociateInv, Reuse
<1>2. PICK t \in Rewrites(Root) :
        /\ Reusable(Root, t)
        /\ Accept(t, seen[Canonical(Pair(Root, t))], gates)
        /\ seen' = Put(Remove(seen, Canonical(gates[Root])), Canonical(gates'[Root]), Root)
  BY DEF Reuse
<1> DEFINE found == seen[Canonical(Pair(Root, t))]
           old == Canonical(gates[Root])
           new == Canonical(gates'[Root])
<1>3. found \in Indices
  BY <1>1, <1>2 DEF Reusable, ReassociateTypeOK
<1>4. Root \in Indices /\ \A k \in DOMAIN seen : k \in Node /\ seen[k] \in Indices
  BY <1>1, GatesAre DEF ReassociateTypeOK
<1>5. /\ gates \in Seq(Node \cup {Tombstone})
      /\ \A g \in Indices : /\ Operands(gates[g]) \subseteq Indices
                            /\ gates[g] = Tombstone <=> g \in dead
  BY <1>1 DEF ReassociateTypeOK, OperandsKept, DeadAreTombstones
<1>6. Accept(t, found, gates)
  BY <1>2
<1> HIDE DEF found
<1>7. /\ gates' \in Seq(Node \cup {Tombstone}) /\ Indices' = Indices /\ gates'[Root] \in Node
      /\ \A g \in Indices \ {Root} : gates'[g] = gates[g]
      /\ OperandsKept' /\ DeadAreTombstones' /\ Unrewritten'
      /\ usages' \in [Indices -> SUBSET Indices] /\ to_kill' \subseteq Indices
      /\ at' \in 1 .. Len(operation_gates) + 1 /\ reassociated' = TRUE
      /\ UNCHANGED <<circuit, dead, operation_gates, phase>>
  BY <1>1, <1>3, <1>5, <1>6, AcceptKeeps
<1>8. new \in Node
  BY <1>7, CanonicalNode
<1>9. ASSUME NEW k \in DOMAIN seen'
      PROVE  \/ k = new /\ seen'[k] = Root
             \/ k \in DOMAIN seen \ {old} /\ seen'[k] = seen[k]
  <2> HIDE DEF new, old
  <2>1. seen' = Put(Remove(seen, old), new, Root)
    BY <1>2 DEF new, old
  <2> QED
    BY <2>1 DEF Put, Remove, Restrict
<1>10. \A k \in DOMAIN seen' : k \in Node /\ seen'[k] \in Indices
  <2> HIDE DEF new, old
  <2> QED
    BY <1>4, <1>8, <1>9
<1>11. constant_gates' = constant_gates
  BY DEF Reuse
<1>12. ReassociateTypeOK'
  BY <1>1, <1>7, <1>10, <1>11 DEF ReassociateTypeOK
<1>13. SeenSound'
  <2>1. ASSUME NEW k \in DOMAIN seen', seen'[k] \notin dead
        PROVE  Canonical(gates'[seen'[k]]) = k
    <3>1. CASE k = new /\ seen'[k] = Root
      BY <3>1
    <3>2. CASE k \in DOMAIN seen \ {old} /\ seen'[k] = seen[k]
      <4>1. Canonical(gates[seen[k]]) = k
        BY <1>1, <2>1, <3>2 DEF SeenSound
      <4>2. seen[k] \in Indices \ {Root}
        BY <1>4, <3>2, <4>1
      <4> QED
        BY <1>7, <3>2, <4>1, <4>2
    <3> QED
      BY <1>9, <3>1, <3>2
  <2> QED
    BY <1>7, <2>1 DEF SeenSound
<1> QED
  BY <1>1, <1>7, <1>12, <1>13 DEF ReassociateInv

\* The pair folded is a node of the circuit.
LEMMA FoldedTyped ==
  ASSUME ReassociateTypeOK, OperandsKept, NEW root \in Indices, NEW t \in Rewrites(root)
  PROVE  /\ Folded(root, t) \in Node
         /\ Operands(Folded(root, t)) \subseteq {t.pair[1], t.pair[2]}
<1> DEFINE a == t.pair[1]
           b == t.pair[2]
           op == gates[root].op
<1>1. a \in Indices /\ b \in Indices /\ op \in Ops /\ Indices \subseteq Index
  BY RewriteIs, GatesAre DEF Index
<1>2. CASE BothConst(t)
  <2>1. gates[a] \in Node /\ gates[b] \in Node
    BY <1>1, <1>2, GatesAre DEF BothConst, Tombstone, IsConst
  <2>2. gates[a].value \in Word /\ gates[b].value \in Word
    BY <1>2, <2>1 DEF BothConst, IsConst, Node
  <2> DEFINE v == MachineOp(op, gates[a].value, gates[b].value) % Modulus
  <2>3. v \in Word
    BY <1>1, <2>2, MachineOpType, DagAssumption
  <2>4. Folded(root, t) = ConstNode(v)
    BY <1>2 DEF Folded
  <2> HIDE DEF v
  <2> QED
    BY <2>3, <2>4 DEF ConstNode, Node, Operands, IsOp
<1>3. CASE ~ BothConst(t)
  <2>1. Folded(root, t) = OpNode(op, a, b)
    BY <1>3 DEF Folded, Pair
  <2> HIDE DEF a, b, op
  <2>2. OpNode(op, a, b) \in Node /\ Operands(OpNode(op, a, b)) = {a, b}
    BY <1>1 DEF OpNode, Node, Operands, IsOp, Index
  <2> QED
    BY <2>1, <2>2 DEF a, b
<1> QED
  BY <1>2, <1>3

LEMMA FoldPairKeeps ==
  ASSUME ReassociateInv, FoldPair
  PROVE  ReassociateInv'
<1>1. ReassociateTypeOK /\ OperandsKept /\ DeadAreTombstones /\ SeenSound /\ circuit \in Circuits
      /\ AtRoot
  BY DEF ReassociateInv, FoldPair
<1>2. PICK t \in Rewrites(Root) :
        /\ Accept(t, t.inner, [gates EXCEPT ![t.inner] = Folded(Root, t)])
        /\ LET forgotten == Remove(Remove(seen, Canonical(gates[Root])), Canonical(gates[t.inner]))
           IN  seen' = Put(Put(forgotten, Canonical(gates'[t.inner]), t.inner),
                           Canonical(gates'[Root]), Root)
        /\ constant_gates' = constant_gates \cup {t.inner}
  BY DEF FoldPair
<1> DEFINE folded == Folded(Root, t)
           all == [gates EXCEPT ![t.inner] = folded]
           old == Canonical(gates[Root])
           older == Canonical(gates[t.inner])
           new == Canonical(gates'[Root])
           newer == Canonical(gates'[t.inner])
<1>3. Root \in Indices /\ \A k \in DOMAIN seen : k \in Node /\ seen[k] \in Indices
  BY <1>1, GatesAre DEF ReassociateTypeOK
<1>4. /\ t.inner \in Indices /\ t.pair[1] \in Indices /\ t.pair[2] \in Indices
      /\ gates[t.inner] \in Node
  BY <1>1, <1>3, RewriteIs
<1>5. folded \in Node /\ Operands(folded) \subseteq Indices
  BY <1>1, <1>3, <1>4, FoldedTyped
<1> HIDE DEF folded
<1>6. /\ gates \in Seq(Node \cup {Tombstone})
      /\ \A g \in Indices : /\ Operands(gates[g]) \subseteq Indices
                            /\ gates[g] = Tombstone <=> g \in dead
  BY <1>1 DEF ReassociateTypeOK, OperandsKept, DeadAreTombstones
<1>7. Indices = 1 .. Len(gates)
  BY <1>1, GatesAre
<1>8. /\ all \in Seq(Node \cup {Tombstone}) /\ Len(all) = Len(gates)
      /\ \A g \in Indices : all[g] = IF g = t.inner THEN folded ELSE gates[g]
  <2> DEFINE X == Node \cup {Tombstone}
  <2>1. gates \in Seq(X) /\ folded \in X /\ t.inner \in 1 .. Len(gates)
    BY <1>4, <1>5, <1>6, <1>7
  <2> HIDE DEF X
  <2>2. /\ all \in Seq(X) /\ Len(all) = Len(gates)
        /\ \A g \in 1 .. Len(gates) : all[g] = IF g = t.inner THEN folded ELSE gates[g]
    BY <2>1, ExceptSeq
  <2> QED
    BY <2>2, <1>7 DEF X
<1>9. Accept(t, t.inner, all)
  BY <1>2 DEF folded
<1> HIDE DEF all
<1>10. \A g \in Indices : /\ Operands(all[g]) \subseteq Indices
                          /\ all[g] = Tombstone <=> g \in dead
  <2>1. t.inner \notin dead /\ folded # Tombstone
    BY <1>4, <1>5, <1>6, NoOperands
  <2> QED
    BY <1>5, <1>6, <1>8, <2>1
<1>11. /\ gates' \in Seq(Node \cup {Tombstone}) /\ Indices' = Indices /\ gates'[Root] \in Node
       /\ \A g \in Indices \ {Root} : gates'[g] = all[g]
       /\ OperandsKept' /\ DeadAreTombstones' /\ Unrewritten'
       /\ usages' \in [Indices -> SUBSET Indices] /\ to_kill' \subseteq Indices
       /\ at' \in 1 .. Len(operation_gates) + 1 /\ reassociated' = TRUE
       /\ UNCHANGED <<circuit, dead, operation_gates, phase>>
  <2>1. AtRoot /\ t.inner \in Indices /\ all \in Seq(Node \cup {Tombstone}) /\ Len(all) = Len(gates)
    BY <1>1, <1>4, <1>8
  <2> QED
    BY <2>1, <1>9, <1>10, AcceptKeeps
<1>12. gates'[t.inner] \in Node
  BY <1>4, <1>5, <1>8, <1>11
<1>13. new \in Node /\ newer \in Node
  BY <1>11, <1>12, CanonicalNode
<1>14. ASSUME NEW k \in DOMAIN seen'
       PROVE  \/ k = new /\ seen'[k] = Root
              \/ k = newer /\ seen'[k] = t.inner
              \/ k \in DOMAIN seen \ {old, older} /\ seen'[k] = seen[k]
  <2> HIDE DEF new, newer, old, older
  <2> DEFINE less == Remove(Remove(seen, old), older)
             more == Put(less, newer, t.inner)
  <2>1. seen' = Put(more, new, Root)
    BY <1>2 DEF new, newer, old, older
  <2>2. DOMAIN less = DOMAIN seen \ {old, older} /\ \A x \in DOMAIN less : less[x] = seen[x]
    BY DEF Remove, Restrict
  <2> HIDE DEF less
  <2>3. /\ DOMAIN more = DOMAIN less \cup {newer} /\ more[newer] = t.inner
        /\ \A x \in DOMAIN less \ {newer} : more[x] = less[x]
    BY DEF Put
  <2> HIDE DEF more
  <2>4. /\ DOMAIN seen' = DOMAIN more \cup {new} /\ seen'[new] = Root
        /\ \A x \in DOMAIN more \ {new} : seen'[x] = more[x]
    BY <2>1 DEF Put
  <2> QED
    BY <2>2, <2>3, <2>4
<1>15. \A k \in DOMAIN seen' : k \in Node /\ seen'[k] \in Indices
  <2> HIDE DEF new, newer, old, older
  <2> QED
    BY <1>3, <1>4, <1>13, <1>14
<1>16. constant_gates' \subseteq Indices
  BY <1>1, <1>2, <1>4 DEF ReassociateTypeOK
<1>17. ReassociateTypeOK'
  BY <1>1, <1>11, <1>15, <1>16 DEF ReassociateTypeOK
<1>18. SeenSound'
  <2>1. ASSUME NEW k \in DOMAIN seen', seen'[k] \notin dead
        PROVE  Canonical(gates'[seen'[k]]) = k
    <3>1. CASE \/ k = new /\ seen'[k] = Root
               \/ k = newer /\ seen'[k] = t.inner
      BY <3>1
    <3>2. CASE k \in DOMAIN seen \ {old, older} /\ seen'[k] = seen[k]
      <4>1. Canonical(gates[seen[k]]) = k
        BY <1>1, <2>1, <3>2 DEF SeenSound
      <4>2. seen[k] \in Indices \ {Root, t.inner}
        BY <1>3, <3>2, <4>1
      <4> QED
        BY <1>8, <1>11, <3>2, <4>1, <4>2
    <3> QED
      BY <1>14, <3>1, <3>2
  <2> QED
    BY <1>11, <2>1 DEF SeenSound
<1> QED
  BY <1>1, <1>11, <1>17, <1>18 DEF ReassociateInv

LEMMA KillKeeps ==
  ASSUME ReassociateInv, NEW g \in to_kill, Kill(g)
  PROVE  ReassociateInv'
<1> DEFINE gone == KilledWith(g)
<1>1. ReassociateTypeOK /\ OperandsKept /\ DeadAreTombstones /\ Unrewritten /\ SeenSound
      /\ circuit \in Circuits
  BY DEF ReassociateInv
<1>2. /\ gates' = [h \in Indices |-> IF h \in gone THEN Tombstone ELSE gates[h]]
      /\ dead' = dead \cup gone
      /\ constant_gates' \subseteq constant_gates
      /\ seen' = Remove(seen, Canonical(gates[g]))
      /\ to_kill' = to_kill \ {g}
      /\ UNCHANGED <<circuit, usages, operation_gates, at, reassociated, phase>>
  BY DEF Kill, KilledWith, Indices
<1>3. gone \subseteq Indices /\ g \in Indices
  BY <1>1 DEF KilledWith, OperandsKept, ReassociateTypeOK
<1>4. /\ DOMAIN seen' \subseteq DOMAIN seen /\ \A k \in DOMAIN seen' : seen'[k] = seen[k]
      /\ \A k \in DOMAIN seen : k \in Node /\ seen[k] \in Indices
  BY <1>1, <1>2 DEF Remove, Restrict, ReassociateTypeOK
<1> HIDE DEF gone
<1>5. /\ Indices' = Indices
      /\ \A h \in Indices : gates'[h] = IF h \in gone THEN Tombstone ELSE gates[h]
  BY <1>2 DEF Indices
<1>6. gates' \in Seq(Node \cup {Tombstone})
  <2>1. /\ Indices = 1 .. Len(gates) /\ Len(gates) \in Nat
        /\ \A h \in Indices : gates[h] \in Node \cup {Tombstone}
    BY <1>1, GatesAre
  <2>2. gates' \in [1 .. Len(gates) -> Node \cup {Tombstone}]
    BY <1>2, <2>1
  <2> QED
    BY <2>1, <2>2, SeqDef
<1>7. ReassociateTypeOK'
  <2>1. to_kill' \subseteq Indices /\ dead' \subseteq Indices /\ constant_gates' \subseteq Indices
    BY <1>1, <1>2, <1>3 DEF ReassociateTypeOK
  <2> QED
    BY <1>1, <1>2, <1>4, <1>5, <1>6, <2>1 DEF ReassociateTypeOK
<1>8. OperandsKept'
  BY <1>1, <1>5, NoOperands DEF OperandsKept
<1>9. DeadAreTombstones'
  BY <1>1, <1>2, <1>5 DEF DeadAreTombstones
<1>10. reassociated
  <2>1. reassociated \in BOOLEAN /\ to_kill # {}
    BY <1>1 DEF ReassociateTypeOK
  <2> QED
    BY <1>1, <2>1 DEF Unrewritten
<1>11. Unrewritten'
  BY <1>2, <1>10 DEF Unrewritten
<1>12. SeenSound'
  <2>1. ASSUME NEW k \in DOMAIN seen', seen'[k] \notin dead'
        PROVE  Canonical(gates'[seen'[k]]) = k
    BY <1>1, <1>2, <1>4, <1>5, <2>1 DEF SeenSound
  <2> QED
    BY <2>1 DEF SeenSound
<1> QED
  BY <1>1, <1>2, <1>7, <1>8, <1>9, <1>11, <1>12 DEF ReassociateInv

LEMMA KillAnotherKeeps ==
  ASSUME ReassociateInv, NEW g \in to_kill, KillAnother(g)
  PROVE  ReassociateInv'
<1>1. /\ to_kill' = to_kill \ {g}
      /\ UNCHANGED <<circuit, gates, dead, usages, seen, operation_gates, constant_gates,
                     at, reassociated, phase>>
  BY DEF KillAnother
<1> QED
  BY <1>1 DEF ReassociateInv, ReassociateTypeOK, OperandsKept, DeadAreTombstones, Unrewritten,
              SeenSound, Indices

\* The survivors are operations that are neither dead nor constants.
LEMMA SurvivorsAre ==
  ASSUME ReassociateTypeOK
  PROVE  /\ Survivors \in Seq(Indices)
         /\ Range(Survivors) \subseteq Indices \ (dead \cup constant_gates)
         /\ Len(Survivors) \in Nat
<1> DEFINE S == Indices \ (dead \cup constant_gates)
<1>1. Survivors = Selected(operation_gates, S)
  BY DEF Survivors, Indices
<1>2. operation_gates \in Seq(Indices)
  BY DEF ReassociateTypeOK
<1> HIDE DEF S
<1>3. Survivors \in Seq(Indices \cap S)
  BY <1>1, <1>2, SelectedIs
<1>4. Survivors \in Seq(Indices)
  BY <1>3, SeqInLarger
<1>5. Range(Survivors) \subseteq Indices \cap S
  BY <1>3, RangeInSet
<1> QED
  BY <1>4, <1>5, LenProperties DEF S

LEMMA NextRoundKeeps ==
  ASSUME ReassociateInv, NextRound
  PROVE  ReassociateInv'
<1>1. /\ operation_gates' = Survivors /\ at' = 1 /\ reassociated' = FALSE /\ to_kill = {}
      /\ UNCHANGED <<circuit, gates, dead, usages, to_kill, seen, constant_gates, phase>>
  BY DEF NextRound
<1>2. ReassociateTypeOK
  BY DEF ReassociateInv
<1>3. /\ operation_gates' \in Seq(Indices) /\ Len(operation_gates') \in Nat
      /\ Range(operation_gates') \subseteq Indices \ (dead \cup constant_gates)
  BY <1>1, <1>2, SurvivorsAre
<1>4. at' \in 1 .. Len(operation_gates') + 1
  BY <1>1, <1>3
<1> QED
  BY <1>1, <1>3, <1>4 DEF ReassociateInv, ReassociateTypeOK, OperandsKept, DeadAreTombstones,
                          Unrewritten, SeenSound, Indices

LEMMA FinishKeeps ==
  ASSUME ReassociateInv, Finish
  PROVE  ReassociateInv'
<1>1. /\ operation_gates' = Survivors /\ phase' = "done" /\ to_kill = {} /\ ~ reassociated
      /\ UNCHANGED <<circuit, gates, dead, usages, to_kill, seen, constant_gates, at,
                     reassociated>>
  BY DEF Finish
<1>2. ReassociateTypeOK /\ Unrewritten
  BY DEF ReassociateInv
<1>3. operation_gates' = operation_gates
  <2> DEFINE S == Indices \ (dead \cup constant_gates)
  <2>1. Survivors = Selected(operation_gates, S)
    BY DEF Survivors, Indices
  <2>2. operation_gates \in Seq(Indices) /\ Range(operation_gates) \subseteq S
    BY <1>1, <1>2 DEF ReassociateTypeOK, Unrewritten
  <2> HIDE DEF S
  <2> QED
    BY <1>1, <2>1, <2>2, SelectedIs
<1>4. at' \in 1 .. Len(operation_gates) + 1
  BY <1>1, <1>2 DEF ReassociateTypeOK
<1> QED
  BY <1>1, <1>3, <1>4 DEF ReassociateInv, ReassociateTypeOK, OperandsKept, DeadAreTombstones,
                          Unrewritten, SeenSound, Indices

LEMMA StepHolds ==
  ASSUME ReassociateInv, [PassStep]_passVars
  PROVE  ReassociateInv'
<1>1. ReassociateTypeOK
  BY DEF ReassociateInv
<1>2. CASE UNCHANGED vars
  <2>1. /\ at' \in 1 .. Len(operation_gates) + 1 /\ phase' \in {"running", "done", "panic"}
        /\ UNCHANGED <<circuit, gates, dead, usages, to_kill, seen, operation_gates,
                       constant_gates, reassociated>>
    BY <1>1, <1>2 DEF vars, ReassociateTypeOK
  <2> QED
    BY <2>1, PlacesKeep
<1>3. CASE Skip
  <2>1. at' \in 1 .. Len(operation_gates) + 1 /\ phase' = phase
    BY <1>1, <1>3, GatesAre DEF Skip
  <2> QED
    BY <1>1, <1>3, <2>1, PlacesKeep DEF Skip, ReassociateTypeOK
<1>4. CASE FoldPanics
  BY <1>1, <1>4, PlacesKeep DEF FoldPanics, ReassociateTypeOK
<1>5. \/ UNCHANGED vars \/ Skip \/ Reuse \/ FoldPair \/ FoldPanics
      \/ \E g \in to_kill : Kill(g) \/ KillAnother(g)
      \/ NextRound \/ Finish
  BY DEF PassStep, Reassociating, Rebuilding, passVars, roundVars, Step
<1> QED
  BY <1>2, <1>3, <1>4, <1>5, ReuseKeeps, FoldPairKeeps, KillKeeps, KillAnotherKeeps,
     NextRoundKeeps, FinishKeeps

LEMMA ReassociateInvariant == PassSpec => []ReassociateInv
<1>1. PassInit => ReassociateInv
  BY InitHolds DEF PassInit
<1>2. ReassociateInv /\ [PassStep]_passVars => ReassociateInv'
  BY StepHolds
<1> QED
  BY <1>1, <1>2, PTL DEF PassSpec

\* The variables of the rounds have their types, whatever the circuit.
THEOREM ReassociateTypeCorrect == PassSpec => []ReassociateTypeOK
<1>1. ReassociateInv => ReassociateTypeOK
  BY DEF ReassociateInv
<1> QED
  BY <1>1, ReassociateInvariant, PTL

\* What is still to be killed is there: a gate that is a tombstone already is dead.
THEOREM TombstonesAreDead == PassSpec => []NoTombstoneToKill
<1>1. ReassociateInv => NoTombstoneToKill
  BY DEF ReassociateInv, ReassociateTypeOK, DeadAreTombstones, NoTombstoneToKill
<1> QED
  BY <1>1, ReassociateInvariant, PTL

\* A gate that form_a_gate reuses computes what was looked for: what seen finds, if it
\* is not dead, has the contents it is found by, whatever has been rewritten.
THEOREM FoundByContents == PassSpec => []SeenSound
<1>1. ReassociateInv => SeenSound
  BY DEF ReassociateInv
<1> QED
  BY <1>1, ReassociateInvariant, PTL

-----------------------------------------------------------------------------
\* There are no cycles.

\* A height for every gate, above those of its operands.
Heights(all, height) ==
  /\ height \in [DOMAIN all -> Nat]
  /\ \A g \in DOMAIN all : \A o \in Operands(all[g]) : height[o] < height[g]

Acyclic(all) == \E height : Heights(all, height)

\* The gate that is reused: the pair, up to the order of its operands.
LEMMA FoundIs ==
  ASSUME ReassociateInv, NEW root \in Indices, NEW t \in Rewrites(root), Reusable(root, t)
  PROVE  LET found == seen[Canonical(Pair(root, t))]
         IN  /\ found \in Indices /\ gates[found] \in Node
             /\ Canonical(gates[found]) = Canonical(Pair(root, t)) /\ Pair(root, t) \in Node
             /\ Operands(gates[found]) = {t.pair[1], t.pair[2]}
<1> DEFINE n == Pair(root, t)
           found == seen[Canonical(n)]
<1>1. ReassociateTypeOK /\ OperandsKept /\ DeadAreTombstones /\ SeenSound
  BY DEF ReassociateInv
<1>2. /\ gates[root].op \in Ops /\ Indices \subseteq Index
      /\ t.pair[1] \in Indices /\ t.pair[2] \in Indices
  BY <1>1, RewriteIs, GatesAre DEF Index
<1>3. n \in Node /\ Operands(n) = {t.pair[1], t.pair[2]}
  BY <1>2 DEF Pair, OpNode, Node, Operands, IsOp
<1>4. Canonical(n) \in DOMAIN seen /\ found \notin dead
  BY DEF Reusable
<1> HIDE DEF n
<1>5. found \in Indices /\ Canonical(gates[found]) = Canonical(n)
  BY <1>1, <1>4 DEF ReassociateTypeOK, SeenSound
<1> HIDE DEF found
<1>6. gates[found] \in Node
  BY <1>1, <1>4, <1>5, GatesAre DEF DeadAreTombstones
<1>7. Operands(gates[found]) = Operands(n)
  BY <1>3, <1>5, <1>6, CanonicalNode
<1> QED
  BY <1>3, <1>5, <1>6, <1>7 DEF n, found

\* Reusing a gate makes no cycle, even one that comes after the root: it is made of what
\* was below the root.  The root, and all from its height upwards, is lifted above it.
LEMMA ReuseAcyclic ==
  ASSUME ReassociateInv, Reuse, Acyclic(gates)
  PROVE  Acyclic(gates')
<1>1. ReassociateTypeOK /\ OperandsKept /\ DeadAreTombstones /\ AtRoot
  BY DEF ReassociateInv, Reuse
<1>2. PICK t \in Rewrites(Root) :
        Reusable(Root, t) /\ Accept(t, seen[Canonical(Pair(Root, t))], gates)
  BY DEF Reuse
<1> DEFINE found == seen[Canonical(Pair(Root, t))]
<1>3. Root \in Indices
  BY <1>1, GatesAre
<1>4. found \in Indices /\ Operands(gates[found]) = {t.pair[1], t.pair[2]}
  BY <1>2, <1>3, FoundIs
<1>5. Accept(t, found, gates)
  BY <1>2
<1> HIDE DEF found
<1>6. /\ Indices' = Indices /\ Operands(gates'[Root]) = {found, t.other}
      /\ \A g \in Indices \ {Root} : gates'[g] = gates[g]
  <2>1. gates \in Seq(Node \cup {Tombstone})
        /\ \A g \in Indices : /\ Operands(gates[g]) \subseteq Indices
                              /\ gates[g] = Tombstone <=> g \in dead
    BY <1>1 DEF ReassociateTypeOK, OperandsKept, DeadAreTombstones
  <2>2. /\ Indices' = Indices
        /\ gates'[Root] = OpNode(gates[Root].op, found, t.other) /\ gates'[Root] \in Node
        /\ Operands(gates'[Root]) = {found, t.other}
        /\ \A g \in Indices \ {Root} : gates'[g] = gates[g]
    <3>1. found \in Indices /\ Len(gates) = Len(gates)
      BY <1>4
    <3> QED
      BY <1>1, <3>1, <1>5, <2>1, AcceptKeeps
  <2> QED
    BY <2>2
<1>7. PICK h : Heights(gates, h)
  BY DEF Acyclic
<1>8. h \in [Indices -> Nat] /\ \A g \in Indices : \A o \in Operands(gates[g]) :
                                  o \in Indices /\ h[o] < h[g]
  BY <1>1, <1>7 DEF Heights, Indices, OperandsKept
<1>9. PICK a \in Indices : /\ Operands(gates[t.inner]) = {a, t.other}
                           /\ {t.pair[1], t.pair[2]} = {a, t.moved}
  BY <1>1, <1>3, RewriteIs
<1>10. /\ t.inner \in Indices /\ t.moved \in Indices /\ t.other \in Indices
       /\ Operands(gates[Root]) = {t.inner, t.moved}
  BY <1>1, <1>3, RewriteIs
<1>11. /\ h[t.inner] < h[Root] /\ h[t.moved] < h[Root]
       /\ h[a] < h[Root] /\ h[t.other] < h[Root]
       /\ h[a] < h[found] /\ h[t.moved] < h[found]
  <2>1. /\ h[t.inner] < h[Root] /\ h[t.moved] < h[Root]
        /\ h[a] < h[t.inner] /\ h[t.other] < h[t.inner]
        /\ h[a] < h[found] /\ h[t.moved] < h[found]
    BY <1>3, <1>4, <1>8, <1>9, <1>10
  <2>2. /\ h[t.inner] \in Nat /\ h[Root] \in Nat /\ h[a] \in Nat /\ h[t.other] \in Nat
    BY <1>3, <1>8, <1>9, <1>10
  <2> QED
    BY <2>1, <2>2
<1>12. found # Root
  <2>1. SUFFICES ASSUME found = Root
                 PROVE  FALSE
    OBVIOUS
  <2>2. {t.inner, t.moved} = {a, t.moved} /\ t.inner \in {a, t.moved}
    BY <1>4, <1>9, <1>10, <2>1
  <2>3. h[a] < h[t.inner] /\ h[a] \in Nat /\ h[t.inner] \in Nat
    BY <1>8, <1>9, <1>10
  <2>4. t.inner # a
    BY <2>3
  <2>5. a = t.inner \/ a = t.moved
    BY <2>2
  <2> QED
    BY <2>2, <2>3, <2>4, <2>5
<1> DEFINE low == IF h[found] < h[Root] THEN h[found] ELSE h[Root]
           lifted == [g \in Indices |-> IF g = found THEN low
                                        ELSE IF h[g] < h[Root] THEN h[g] ELSE h[g] + 1]
<1>13. low \in Nat /\ low <= h[found] /\ low <= h[Root]
       /\ h[a] < low /\ h[t.moved] < low
  BY <1>3, <1>4, <1>8, <1>9, <1>10, <1>11
<1>14. /\ lifted \in [Indices -> Nat] /\ lifted[found] = low
       /\ \A g \in Indices \ {found} : lifted[g] = IF h[g] < h[Root] THEN h[g] ELSE h[g] + 1
  BY <1>4, <1>8, <1>13
<1> HIDE DEF lifted
<1>15. ASSUME NEW g \in Indices, NEW o \in Indices, h[o] < h[g], g # found
       PROVE  lifted[o] < lifted[g]
  <2>1. h[o] \in Nat /\ h[g] \in Nat /\ h[Root] \in Nat
    BY <1>3, <1>8
  <2>2. lifted[g] = IF h[g] < h[Root] THEN h[g] ELSE h[g] + 1
    BY <1>14, <1>15
  <2>3. CASE o = found
    BY <1>13, <1>14, <1>15, <2>1, <2>2, <2>3
  <2>4. CASE o # found
    <3>1. lifted[o] = IF h[o] < h[Root] THEN h[o] ELSE h[o] + 1
      BY <1>14, <2>4
    <3> QED
      BY <1>15, <2>1, <2>2, <3>1
  <2> QED
    BY <2>3, <2>4
<1>16. lifted[found] < lifted[Root] /\ lifted[t.other] < lifted[Root]
  <2>1. lifted[Root] = h[Root] + 1 /\ h[Root] \in Nat
    BY <1>3, <1>8, <1>12, <1>14
  <2>2. lifted[t.other] < lifted[Root]
    BY <1>3, <1>10, <1>11, <1>12, <1>15
  <2> QED
    BY <1>13, <1>14, <2>1, <2>2
<1>17. lifted[a] < lifted[found] /\ lifted[t.moved] < lifted[found]
  <2>1. a # found /\ t.moved # found /\ h[a] \in Nat /\ h[found] \in Nat /\ h[t.moved] \in Nat
    BY <1>4, <1>8, <1>9, <1>10, <1>11
  <2>2. lifted[a] = h[a] /\ lifted[t.moved] = h[t.moved]
    BY <1>9, <1>10, <1>11, <1>14, <2>1
  <2> QED
    BY <1>13, <1>14, <2>2
<1>18. ASSUME NEW g \in Indices, NEW o \in Operands(gates'[g])
       PROVE  lifted[o] < lifted[g]
  <2>1. CASE g = Root
    BY <1>6, <1>16, <1>18, <2>1
  <2>2. CASE g = found
    <3>1. o \in {a, t.moved}
      BY <1>4, <1>6, <1>9, <1>12, <1>18, <2>2
    <3> QED
      BY <1>17, <2>2, <3>1
  <2>3. CASE g # Root /\ g # found
    <3>1. o \in Indices /\ h[o] < h[g]
      BY <1>6, <1>8, <1>18, <2>3
    <3> QED
      BY <1>15, <2>3, <3>1
  <2> QED
    BY <2>1, <2>2, <2>3
<1>19. Heights(gates', lifted)
  BY <1>6, <1>14, <1>18 DEF Heights, Indices
<1> QED
  BY <1>19 DEF Acyclic

\* Neither does folding a pair in the place of the inner operation: a leaf may come after
\* that, but has no operands itself.
LEMMA FoldPairAcyclic ==
  ASSUME ReassociateInv, FoldPair, Acyclic(gates)
  PROVE  Acyclic(gates')
<1>1. ReassociateTypeOK /\ OperandsKept /\ DeadAreTombstones /\ AtRoot
  BY DEF ReassociateInv, FoldPair
<1>2. PICK t \in Rewrites(Root) :
        Accept(t, t.inner, [gates EXCEPT ![t.inner] = Folded(Root, t)])
  BY DEF FoldPair
<1> DEFINE folded == Folded(Root, t)
<1>3. Root \in Indices
  BY <1>1, GatesAre
<1>4. Operands(folded) \subseteq {t.pair[1], t.pair[2]}
  BY <1>1, <1>3, FoldedTyped
<1>5. /\ t.inner \in Indices /\ t.moved \in Indices /\ t.other \in Indices
      /\ IsLeaf(gates[t.moved]) /\ IsOp(gates[t.inner])
      /\ Operands(gates[Root]) = {t.inner, t.moved}
  BY <1>1, <1>3, RewriteIs
<1>6. PICK a \in Indices : /\ Operands(gates[t.inner]) = {a, t.other}
                           /\ {t.pair[1], t.pair[2]} = {a, t.moved}
  BY <1>1, <1>3, RewriteIs
<1>7. PICK h : Heights(gates, h)
  BY DEF Acyclic
<1>8. h \in [Indices -> Nat] /\ \A g \in Indices : \A o \in Operands(gates[g]) :
                                  o \in Indices /\ h[o] < h[g]
  BY <1>1, <1>7 DEF Heights, Indices, OperandsKept
<1>9. t.inner # Root
  <2>1. h[t.inner] < h[Root] /\ h[Root] \in Nat
    BY <1>3, <1>5, <1>8
  <2> QED
    BY <2>1
<1>10. gates' = [[gates EXCEPT ![t.inner] = folded]
                   EXCEPT ![Root] = OpNode(gates[Root].op, t.inner, t.other)]
  BY <1>2 DEF Accept
<1> HIDE DEF folded
<1>11. /\ Indices' = Indices /\ DOMAIN gates' = Indices
       /\ gates'[Root] = OpNode(gates[Root].op, t.inner, t.other) /\ gates'[t.inner] = folded
       /\ \A g \in Indices \ {Root, t.inner} : gates'[g] = gates[g]
  BY <1>3, <1>5, <1>9, <1>10 DEF Indices
<1>12. Operands(gates'[Root]) = {t.inner, t.other}
  BY <1>11 DEF OpNode, Operands, IsOp
<1> DEFINE w == [g \in Indices |-> IF Operands(gates[g]) = {} THEN 0 ELSE h[g] + 1]
<1>13. /\ w \in [Indices -> Nat]
       /\ \A g \in Indices : w[g] = IF Operands(gates[g]) = {} THEN 0 ELSE h[g] + 1
  BY <1>8
<1> HIDE DEF w
<1>14. ASSUME NEW g \in Indices, NEW o \in Operands(gates[g])
       PROVE  w[o] < w[g]
  <2>1. o \in Indices /\ h[o] < h[g] /\ h[o] \in Nat /\ h[g] \in Nat
    BY <1>8
  <2>2. w[g] = h[g] + 1 /\ w[o] <= h[o] + 1
    BY <1>13, <2>1
  <2>3. w[o] \in Nat
    BY <1>13, <2>1
  <2> QED
    BY <2>1, <2>2, <2>3
<1>15. w[a] < w[t.inner] /\ w[t.other] < w[t.inner] /\ w[t.inner] < w[Root]
  BY <1>3, <1>5, <1>6, <1>14
<1>16. w[t.moved] < w[t.inner]
  <2>1. Operands(gates[t.moved]) = {}
    BY <1>5 DEF IsLeaf, IsInput, IsConst, Operands, IsOp
  <2>2. w[t.moved] = 0 /\ w[t.inner] = h[t.inner] + 1 /\ h[t.inner] \in Nat
    BY <1>5, <1>6, <1>8, <1>13, <2>1
  <2> QED
    BY <2>2
<1>17. w[t.other] < w[Root]
  <2>1. w[t.other] \in Nat /\ w[t.inner] \in Nat /\ w[Root] \in Nat
    BY <1>3, <1>5, <1>13
  <2> QED
    BY <1>15, <2>1
<1>18. ASSUME NEW g \in Indices, NEW o \in Operands(gates'[g])
       PROVE  w[o] < w[g]
  <2>1. CASE g = Root
    BY <1>12, <1>15, <1>17, <1>18, <2>1
  <2>2. CASE g = t.inner
    <3>1. o \in {a, t.moved}
      BY <1>4, <1>6, <1>11, <1>18, <2>2
    <3> QED
      BY <1>15, <1>16, <2>2, <3>1
  <2>3. CASE g # Root /\ g # t.inner
    BY <1>11, <1>14, <1>18, <2>3
  <2> QED
    BY <2>1, <2>2, <2>3
<1>19. Heights(gates', w)
  BY <1>11, <1>13, <1>18 DEF Heights
<1> QED
  BY <1>19 DEF Acyclic

LEMMA KillAcyclic ==
  ASSUME ReassociateInv, NEW g \in to_kill, Kill(g), Acyclic(gates)
  PROVE  Acyclic(gates')
<1>1. PICK h : Heights(gates, h)
  BY DEF Acyclic
<1>2. PICK gone : gates' = [u \in DOMAIN gates |-> IF u \in gone THEN Tombstone ELSE gates[u]]
  BY DEF Kill
<1>3. Heights(gates', h)
  BY <1>1, <1>2, NoOperands DEF Heights
<1> QED
  BY <1>3 DEF Acyclic

\* "This is a topologically ordered DAG" (ir/src/circuit.rs:13), as far as it is true: a
\* rewrite may reuse a gate that comes after its root, and so the indices are an order no
\* more (see StaysOrdered), but there is one still: no rewrite ever makes a gate depend on
\* itself, whatever the circuit.
THEOREM NeverCyclic == PassSpec => []Acyclic(gates)
<1>1. ReassociateInv /\ PassInit => Acyclic(gates)
  <2> SUFFICES ASSUME ReassociateInv, Init
               PROVE  Acyclic(gates)
    BY DEF PassInit
  <2>1. Compiled(circuit) /\ gates = circuit.gates
    BY CircuitAssumption DEF Init
  <2>2. gates \in Seq(Node) /\ Topological(gates)
    BY <2>1 DEF Compiled
  <2>3. DOMAIN gates = 1 .. Len(gates) /\ Len(gates) \in Nat
    BY <2>2, LenProperties
  <2> DEFINE h == [g \in DOMAIN gates |-> g]
  <2>4. h \in [DOMAIN gates -> Nat]
    BY <2>3
  <2>5. ASSUME NEW g \in DOMAIN gates, NEW o \in Operands(gates[g])
        PROVE  h[o] < h[g]
    <3>1. o \in 1 .. g - 1
      BY <2>2 DEF Topological
    <3> QED
      BY <2>3, <3>1
  <2> HIDE DEF h
  <2>6. Heights(gates, h)
    BY <2>4, <2>5 DEF Heights
  <2> QED
    BY <2>6 DEF Acyclic
<1>2. ReassociateInv /\ Acyclic(gates) /\ [PassStep]_passVars => Acyclic(gates)'
  <2> SUFFICES ASSUME ReassociateInv, Acyclic(gates), [PassStep]_passVars
               PROVE  Acyclic(gates')
    BY DEF Acyclic, Heights
  <2>1. \/ gates' = gates \/ Reuse \/ FoldPair \/ \E g \in to_kill : Kill(g)
    BY DEF PassStep, Reassociating, Rebuilding, passVars, roundVars, vars, Step, Skip,
           FoldPanics, KillAnother, NextRound, Finish
  <2>2. CASE gates' = gates
    BY <2>2
  <2> QED
    BY <2>1, <2>2, ReuseAcyclic, FoldPairAcyclic, KillAcyclic
<1> QED
  BY <1>1, <1>2, ReassociateInvariant, PTL DEF PassSpec

-----------------------------------------------------------------------------
\* Rewrites keep values.

\* What the gates can stand for: every gate what its node says, a tombstone anything.
Valuations(all, env) ==
  {val \in [DOMAIN all -> Residue] :
     \A g \in DOMAIN all : all[g] # Tombstone => val[g] = NodeValue(all[g], env, val)}

\* There is at most one rewrite of a root.
LEMMA OneRewrite ==
  ASSUME NEW root, NEW t \in Rewrites(root), NEW u \in Rewrites(root)
  PROVE  t = u
<1> DEFINE tries == IF IsOp(gates[root]) /\ gates[root].op # "Sub" THEN Tries(root) ELSE << >>
           ok == {i \in DOMAIN tries : /\ UsedOnce(tries[i].inner)
                                       /\ Reusable(root, tries[i]) \/ Foldable(tries[i])}
<1>1. DOMAIN tries \subseteq 1 .. 2
  BY DEF Tries
<1>2. Rewrites(root) = {tries[i] : i \in {j \in ok : \A k \in ok : j <= k}}
  BY DEF Rewrites
<1>3. ok \subseteq 1 .. 2
  BY <1>1
<1> HIDE DEF tries, ok
<1>4. PICK i \in ok : t = tries[i] /\ \A k \in ok : i <= k
  BY <1>2
<1>5. PICK j \in ok : u = tries[j] /\ \A k \in ok : j <= k
  BY <1>2
<1>6. i <= j /\ j <= i /\ i \in 1 .. 2 /\ j \in 1 .. 2
  BY <1>3, <1>4, <1>5
<1>7. i = j
  BY <1>6
<1> QED
  BY <1>4, <1>5, <1>7

LEMMA OpValue ==
  ASSUME NEW n \in Node, IsOp(n), n.op \in AssociativeOps, NEW x, NEW y,
         Operands(n) = {x, y}, NEW env, NEW val, val[x] \in Residue, val[y] \in Residue
  PROVE  NodeValue(n, env, val) = RingOp(n.op, val[x], val[y])
<1>1. NodeValue(n, env, val) = RingOp(n.op, val[n.lhs], val[n.rhs])
  BY NodeKinds DEF NodeValue
<1>2. {n.lhs, n.rhs} = {x, y} /\ n.lhs \in {x, y} /\ n.rhs \in {x, y}
      /\ x \in {n.lhs, n.rhs} /\ y \in {n.lhs, n.rhs}
  BY NodeKinds
<1>3. (n.lhs = x /\ n.rhs = y) \/ (n.lhs = y /\ n.rhs = x)
  BY <1>2
<1> QED
  BY <1>1, <1>3, RingCommutes

\* A root that can be rewritten stands for what it is to be: the pair and what is left.
LEMMA RootValue ==
  ASSUME ReassociateInv, NEW root \in Indices, NEW t \in Rewrites(root),
         NEW env, NEW val \in Valuations(gates, env)
  PROVE  LET op == gates[root].op
         IN  /\ val[t.pair[1]] \in Residue /\ val[t.pair[2]] \in Residue
             /\ val[t.other] \in Residue /\ op \in AssociativeOps
             /\ val[root] = RingOp(op, RingOp(op, val[t.pair[1]], val[t.pair[2]]), val[t.other])
<1> DEFINE op == gates[root].op
           p == t.pair[1]
           q == t.pair[2]
<1>1. ReassociateTypeOK /\ OperandsKept
  BY DEF ReassociateInv
<1>2. PICK a \in Indices : Operands(gates[t.inner]) = {a, t.other} /\ {p, q} = {a, t.moved}
  BY <1>1, RewriteIs
<1>3. /\ gates[root] \in Node /\ IsOp(gates[root]) /\ op \in AssociativeOps
      /\ t.inner \in Indices /\ t.moved \in Indices /\ t.other \in Indices
      /\ p \in Indices /\ q \in Indices
      /\ gates[t.inner] \in Node /\ IsOp(gates[t.inner]) /\ gates[t.inner].op = op
      /\ Operands(gates[root]) = {t.inner, t.moved}
  BY <1>1, RewriteIs
<1>4. \A g \in Indices : val[g] \in Residue
  BY DEF Valuations, Indices
<1>5. /\ val[root] = NodeValue(gates[root], env, val)
      /\ val[t.inner] = NodeValue(gates[t.inner], env, val)
  BY <1>3, NoOperands DEF Valuations, Indices
<1> HIDE DEF op, p, q
<1>6. val[root] = RingOp(op, val[t.inner], val[t.moved])
  <2>1. gates[root].op = op
    BY DEF op
  <2> QED
    BY <1>3, <1>4, <1>5, <2>1, OpValue
<1>7. val[t.inner] = RingOp(op, val[a], val[t.other])
  BY <1>2, <1>3, <1>4, <1>5, OpValue
<1>8. val[root] = RingOp(op, RingOp(op, val[a], val[t.moved]), val[t.other])
  BY <1>2, <1>3, <1>4, <1>6, <1>7, RingSwaps
<1>9. RingOp(op, val[p], val[q]) = RingOp(op, val[a], val[t.moved])
  <2>1. p \in {a, t.moved} /\ q \in {a, t.moved} /\ a \in {p, q} /\ t.moved \in {p, q}
    BY <1>2
  <2>2. (p = a /\ q = t.moved) \/ (p = t.moved /\ q = a)
    BY <2>1
  <2> QED
    BY <1>2, <1>3, <1>4, <2>2, RingCommutes
<1> QED
  BY <1>3, <1>4, <1>8, <1>9 DEF op, p, q

\* The gate that is reused stands for the pair.
LEMMA FoundValue ==
  ASSUME ReassociateInv, NEW root \in Indices, NEW t \in Rewrites(root), Reusable(root, t),
         NEW env, NEW val \in Valuations(gates, env)
  PROVE  val[seen[Canonical(Pair(root, t))]]
           = RingOp(gates[root].op, val[t.pair[1]], val[t.pair[2]])
<1> DEFINE n == Pair(root, t)
           found == seen[Canonical(n)]
           op == gates[root].op
<1>1. ReassociateTypeOK /\ OperandsKept
  BY DEF ReassociateInv
<1>2. /\ found \in Indices /\ gates[found] \in Node /\ n \in Node
      /\ Canonical(gates[found]) = Canonical(n)
  BY FoundIs
<1>3. val[t.pair[1]] \in Residue /\ val[t.pair[2]] \in Residue
  BY RootValue
<1>4. /\ val \in [DOMAIN gates -> Residue]
      /\ \A g \in DOMAIN gates : gates[g] # Tombstone => val[g] = NodeValue(gates[g], env, val)
  BY DEF Valuations
<1>5. Residue \subseteq Int
  BY ResidueFacts
<1>6. \A g \in Indices : val[g] \in Int
  BY <1>4, <1>5 DEF Indices
<1>7. \A g \in Indices : (gates[g] \in Node /\ IsOp(gates[g])) =>
        val[gates[g].lhs] \in Int /\ val[gates[g].rhs] \in Int
  BY <1>1, <1>6, NodeKinds DEF OperandsKept
<1>8. /\ IsOp(n) /\ n.op = op /\ n.lhs = t.pair[1] /\ n.rhs = t.pair[2]
      /\ ~ IsInput(n) /\ ~ IsConst(n)
  BY DEF Pair, OpNode, IsOp, IsInput, IsConst
<1>9. val[n.lhs] \in Int /\ val[n.rhs] \in Int
  <2> HIDE DEF n
  <2> QED
    BY <1>3, <1>5, <1>8
<1>10. NodeValue(n, env, val) = RingOp(op, val[t.pair[1]], val[t.pair[2]])
  BY <1>8 DEF NodeValue
<1> HIDE DEF n, found, op
<1>11. val[found] = NodeValue(gates[found], env, val)
  BY <1>2, <1>4, NoOperands DEF Indices
<1>12. NodeValue(Canonical(n), env, val) = NodeValue(n, env, val)
  BY <1>2, <1>9, CanonicalValue
<1>13. NodeValue(Canonical(gates[found]), env, val) = NodeValue(gates[found], env, val)
  BY <1>2, <1>7, CanonicalValue
<1> QED
  BY <1>2, <1>10, <1>11, <1>12, <1>13 DEF n, found, op

LEMMA ReuseKeepsValues ==
  ASSUME ReassociateInv, Reuse, NEW env, NEW val \in Valuations(gates, env)
  PROVE  val \in Valuations(gates', env)
<1>1. ReassociateTypeOK /\ OperandsKept /\ DeadAreTombstones /\ AtRoot
  BY DEF ReassociateInv, Reuse
<1>2. PICK t \in Rewrites(Root) :
        Reusable(Root, t) /\ Accept(t, seen[Canonical(Pair(Root, t))], gates)
  BY DEF Reuse
<1> DEFINE n == Pair(Root, t)
           found == seen[Canonical(n)]
           op == gates[Root].op
<1>3. Root \in Indices
  BY <1>1, GatesAre
<1>4. /\ found \in Indices /\ gates[found] \in Node /\ n \in Node
      /\ Canonical(gates[found]) = Canonical(n)
  BY <1>2, <1>3, FoundIs
<1>5. /\ val[t.pair[1]] \in Residue /\ val[t.pair[2]] \in Residue
      /\ val[t.other] \in Residue /\ op \in AssociativeOps
      /\ val[Root] = RingOp(op, RingOp(op, val[t.pair[1]], val[t.pair[2]]), val[t.other])
  BY <1>3, RootValue
<1>6. gates' = [gates EXCEPT ![Root] = OpNode(op, found, t.other)]
  BY <1>2 DEF Accept
<1>7. /\ val \in [DOMAIN gates -> Residue]
      /\ \A g \in DOMAIN gates : gates[g] # Tombstone => val[g] = NodeValue(gates[g], env, val)
  BY DEF Valuations
<1>9. val[found] = RingOp(op, val[t.pair[1]], val[t.pair[2]])
  BY <1>2, <1>3, FoundValue
<1> HIDE DEF n, found, op
<1>10. NodeValue(OpNode(op, found, t.other), env, val) = val[Root]
  <2>1. NodeValue(OpNode(op, found, t.other), env, val) = RingOp(op, val[found], val[t.other])
    BY DEF NodeValue, OpNode, IsOp, IsInput, IsConst
  <2> QED
    BY <1>5, <1>9, <2>1
<1>11. /\ DOMAIN gates' = DOMAIN gates
       /\ \A g \in DOMAIN gates : gates'[g] = IF g = Root THEN OpNode(op, found, t.other)
                                                           ELSE gates[g]
  BY <1>6
<1>12. \A g \in DOMAIN gates' : gates'[g] # Tombstone => val[g] = NodeValue(gates'[g], env, val)
  BY <1>7, <1>10, <1>11
<1> QED
  BY <1>7, <1>11, <1>12 DEF Valuations

LEMMA KillKeepsValues ==
  ASSUME NEW g \in to_kill, Kill(g), NEW env, NEW val \in Valuations(gates, env)
  PROVE  val \in Valuations(gates', env)
<1>1. PICK gone : gates' = [u \in DOMAIN gates |-> IF u \in gone THEN Tombstone ELSE gates[u]]
  BY DEF Kill
<1> QED
  BY <1>1 DEF Valuations

\* The folded pair stands for the pair, where folding does not go wrong.
LEMMA FoldedValue ==
  ASSUME FoldsSafe, ReassociateInv, NEW root \in Indices, NEW t \in Rewrites(root),
         ~ PairOverflows(root, t), NEW env, NEW val \in Valuations(gates, env), NEW now,
         now[t.pair[1]] = val[t.pair[1]], now[t.pair[2]] = val[t.pair[2]]
  PROVE  NodeValue(Folded(root, t), env, now)
           = RingOp(gates[root].op, val[t.pair[1]], val[t.pair[2]])
<1> DEFINE p == t.pair[1]
           q == t.pair[2]
           op == gates[root].op
<1>1. p \in Indices /\ q \in Indices /\ op \in BinOp /\ ReassociateTypeOK
  BY RewriteIs, DagAssumption DEF ReassociateInv
<1>2. CASE BothConst(t)
  <2> DEFINE x == gates[p].value
             y == gates[q].value
  <2>1. IsConst(gates[p]) /\ IsConst(gates[q])
    BY <1>2 DEF BothConst
  <2>2. /\ gates[p] # Tombstone /\ gates[q] # Tombstone
        /\ gates[p] \in Node /\ gates[q] \in Node
    BY <1>1, <2>1, GatesAre DEF IsConst, Tombstone
  <2>3. x \in Word /\ y \in Word
    BY <2>1, <2>2 DEF IsConst, Node
  <2>4. val[p] = NodeValue(gates[p], env, val) /\ val[q] = NodeValue(gates[q], env, val)
    BY <1>1, <2>2 DEF Valuations, Indices
  <2>5. val[p] = x % Modulus /\ val[q] = y % Modulus
    BY <2>1, <2>2, <2>4, NodeKinds DEF NodeValue
  <2>6. ~ Overflows(op, x, y) \/ DividesWordSize(Modulus)
    BY <1>2 DEF PairOverflows, FoldsSafe
  <2>7. Folded(root, t) = ConstNode(MachineOp(op, x, y) % Modulus)
    BY <1>2 DEF Folded
  <2> HIDE DEF x, y, op, p, q
  <2>8. NodeValue(ConstNode(MachineOp(op, x, y) % Modulus), env, now)
          = RingOp(op, x % Modulus, y % Modulus)
    BY <1>1, <2>3, <2>6, ConstFoldValue
  <2> QED
    BY <2>5, <2>7, <2>8 DEF op, p, q
<1>3. CASE ~ BothConst(t)
  <2>1. Folded(root, t) = OpNode(op, p, q)
    BY <1>3 DEF Folded, Pair
  <2>2. NodeValue(OpNode(op, p, q), env, now) = RingOp(op, now[p], now[q])
    BY DEF NodeValue, OpNode, IsOp, IsInput, IsConst
  <2> QED
    BY <2>1, <2>2
<1> QED
  BY <1>2, <1>3

LEMMA FoldPairKeepsValues ==
  ASSUME FoldsSafe, ReassociateInv, Acyclic(gates), FoldPair, NEW t \in Rewrites(Root),
         Users(gates, t.inner) = {Root}, NEW env, NEW val \in Valuations(gates, env)
  PROVE  \E v \in Residue : [val EXCEPT ![t.inner] = v] \in Valuations(gates', env)
<1>1. ReassociateTypeOK /\ OperandsKept /\ DeadAreTombstones /\ AtRoot
  BY DEF ReassociateInv, FoldPair
<1>2. /\ ~ PairOverflows(Root, t)
      /\ Accept(t, t.inner, [gates EXCEPT ![t.inner] = Folded(Root, t)])
  <2>1. PICK u \in Rewrites(Root) :
          /\ ~ PairOverflows(Root, u)
          /\ Accept(u, u.inner, [gates EXCEPT ![u.inner] = Folded(Root, u)])
    BY DEF FoldPair
  <2>2. u = t
    BY OneRewrite
  <2> QED
    BY <2>1, <2>2
<1> DEFINE op == gates[Root].op
           folded == Folded(Root, t)
           p == t.pair[1]
           q == t.pair[2]
           v == RingOp(op, val[p], val[q])
           now == [val EXCEPT ![t.inner] = v]
<1>3. Root \in Indices
  BY <1>1, GatesAre
<1>4. PICK a \in Indices : Operands(gates[t.inner]) = {a, t.other} /\ {p, q} = {a, t.moved}
  BY <1>1, <1>3, RewriteIs
<1>5. /\ gates[Root] \in Node /\ IsOp(gates[Root])
      /\ t.inner \in Indices /\ t.moved \in Indices /\ t.other \in Indices
      /\ p \in Indices /\ q \in Indices
      /\ IsOp(gates[t.inner]) /\ IsLeaf(gates[t.moved])
      /\ Operands(gates[Root]) = {t.inner, t.moved}
  BY <1>1, <1>3, RewriteIs
<1>6. a # t.inner /\ t.other # t.inner /\ t.inner # Root
  <2>1. PICK h : Heights(gates, h)
    BY DEF Acyclic
  <2>2. h[a] < h[t.inner] /\ h[t.other] < h[t.inner] /\ h[t.inner] < h[Root]
    BY <1>3, <1>4, <1>5, <2>1 DEF Heights, Indices
  <2>3. h[t.inner] \in Nat /\ h[Root] \in Nat
    BY <1>3, <1>5, <2>1 DEF Heights, Indices
  <2> QED
    BY <2>2, <2>3
<1>7. t.moved # t.inner
  BY <1>5 DEF IsLeaf, IsInput, IsConst, IsOp
<1>8. p # t.inner /\ q # t.inner
  BY <1>4, <1>6, <1>7
<1>9. /\ val[p] \in Residue /\ val[q] \in Residue /\ val[t.other] \in Residue
      /\ op \in AssociativeOps /\ val[Root] = RingOp(op, v, val[t.other])
  BY <1>3, RootValue
<1>10. v \in Residue
  BY <1>9, RingTyped
<1>11. /\ val \in [Indices -> Residue]
       /\ \A g \in Indices : gates[g] # Tombstone => val[g] = NodeValue(gates[g], env, val)
  BY DEF Valuations, Indices
<1> HIDE DEF v, op
<1>12. /\ now \in [Indices -> Residue] /\ now[t.inner] = v
       /\ \A g \in Indices \ {t.inner} : now[g] = val[g]
  BY <1>5, <1>10, <1>11
<1> HIDE DEF now
<1>13. NodeValue(folded, env, now) = v
  <2>1. now[p] = val[p] /\ now[q] = val[q]
    BY <1>5, <1>8, <1>12
  <2> QED
    BY <1>2, <1>3, <2>1, FoldedValue DEF v, op
<1> HIDE DEF folded, p, q
<1>14. gates' = [[gates EXCEPT ![t.inner] = folded] EXCEPT ![Root] = OpNode(op, t.inner, t.other)]
  BY <1>2 DEF Accept, op, folded
<1>15. /\ DOMAIN gates' = Indices
       /\ gates'[Root] = OpNode(op, t.inner, t.other) /\ gates'[t.inner] = folded
       /\ \A g \in Indices \ {Root, t.inner} : gates'[g] = gates[g]
  BY <1>3, <1>5, <1>6, <1>14 DEF Indices
<1>16. ASSUME NEW g \in Indices, gates'[g] # Tombstone
       PROVE  now[g] = NodeValue(gates'[g], env, now)
  <2>1. CASE g = t.inner
    BY <1>12, <1>13, <1>15, <2>1
  <2>2. CASE g = Root
    <3>1. NodeValue(OpNode(op, t.inner, t.other), env, now)
            = RingOp(op, now[t.inner], now[t.other])
      BY DEF NodeValue, OpNode, IsOp, IsInput, IsConst
    <3>2. now[t.inner] = v /\ now[t.other] = val[t.other] /\ now[Root] = val[Root]
      BY <1>3, <1>5, <1>6, <1>12
    <3> QED
      BY <1>9, <1>15, <2>2, <3>1, <3>2
  <2>3. CASE g # t.inner /\ g # Root
    <3>1. gates'[g] = gates[g] /\ gates[g] \in Node
      BY <1>1, <1>15, <1>16, <2>3, GatesAre
    <3>2. t.inner \notin Operands(gates[g])
      BY <2>3 DEF Users, Indices
    <3>3. IsOp(gates[g]) => /\ gates[g].lhs \in Indices \ {t.inner}
                            /\ gates[g].rhs \in Indices \ {t.inner}
      BY <1>1, <3>1, <3>2, NodeKinds DEF OperandsKept
    <3>4. NodeValue(gates[g], env, now) = NodeValue(gates[g], env, val)
      BY <1>12, <3>1, <3>3, NodeValueLocal
    <3>5. now[g] = val[g] /\ val[g] = NodeValue(gates[g], env, val)
      BY <1>11, <1>12, <1>16, <2>3, <3>1
    <3> QED
      BY <3>1, <3>4, <3>5
  <2> QED
    BY <2>1, <2>2, <2>3
<1>17. now \in Valuations(gates', env)
  BY <1>12, <1>15, <1>16 DEF Valuations
<1> QED
  BY <1>10, <1>17 DEF now

\* Numbers for gates have a bound.
LEMMA Bounded ==
  ASSUME NEW n \in Nat, NEW h \in [1 .. n -> Nat]
  PROVE  \E m \in Nat : \A g \in 1 .. n : h[g] < m
<1> DEFINE S == {k \in 1 .. n : \E m \in Nat : \A g \in 1 .. k : h[g] < m}
<1>1. ASSUME NEW k \in 1 .. n, (1 .. k - 1) \subseteq S
      PROVE  k \in S
  <2>1. PICK m \in Nat : \A g \in 1 .. k - 1 : h[g] < m
    <3>1. CASE k = 1
      BY <3>1
    <3>2. CASE k # 1
      <4>1. k - 1 \in 1 .. k - 1
        BY <3>2
      <4>2. k - 1 \in S
        BY <1>1, <4>1
      <4> QED
        BY <4>2
    <3> QED
      BY <3>1, <3>2
  <2> DEFINE more == m + h[k] + 1
  <2>2. h[k] \in Nat /\ more \in Nat /\ h[k] < more /\ \A x \in Nat : x < m => x < more
    OBVIOUS
  <2>3. \A g \in 1 .. k : h[g] < more
    <3>1. \A g \in 1 .. k : g \in 1 .. k - 1 \/ g = k
      OBVIOUS
    <3> HIDE DEF more
    <3> QED
      BY <2>1, <2>2, <3>1
  <2> HIDE DEF more
  <2> QED
    BY <2>2, <2>3
<1>2. 1 .. n \subseteq S
  <2> HIDE DEF S
  <2> QED
    BY <1>1, PositionInduction
<1>3. CASE n = 0
  BY <1>3
<1>4. CASE n # 0
  <2>1. n \in 1 .. n
    BY <1>4
  <2>2. n \in S
    BY <1>2, <2>1
  <2> QED
    BY <2>2
<1> QED
  BY <1>3, <1>4

\* Gates without a cycle stand for something: they are valued height by height.
LEMMA Valued ==
  ASSUME ReassociateTypeOK, OperandsKept, Acyclic(gates), NEW env \in Environments
  PROVE  Valuations(gates, env) # {}
<1>1. PICK h : Heights(gates, h)
  BY DEF Acyclic
<1>2. h \in [Indices -> Nat] /\ \A g \in Indices : \A o \in Operands(gates[g]) : h[o] < h[g]
  BY <1>1 DEF Heights, Indices
<1>3. Indices = 1 .. Len(gates) /\ Len(gates) \in Nat
  BY GatesAre
<1>4. PICK m \in Nat : \A g \in Indices : h[g] < m
  BY <1>2, <1>3, Bounded
<1>5. \A g \in Indices : gates[g] # Tombstone => gates[g] \in Node
  BY GatesAre
<1> DEFINE Upto(k) == \E val \in [Indices -> Residue] :
             \A g \in Indices : (h[g] < k /\ gates[g] # Tombstone) =>
                                  val[g] = NodeValue(gates[g], env, val)
           S == {k \in 1 .. m : Upto(k)}
<1>6. Upto(0)
  <2>1. PICK v \in Residue : TRUE
    BY ResidueFacts
  <2> DEFINE val == [g \in Indices |-> v]
  <2>2. val \in [Indices -> Residue] /\ \A g \in Indices : ~ (h[g] < 0)
    BY <1>2
  <2> HIDE DEF val
  <2> QED
    BY <2>2
<1>7. ASSUME NEW k \in 1 .. m, (1 .. k - 1) \subseteq S
      PROVE  k \in S
  <2>1. Upto(k - 1)
    <3>1. CASE k = 1
      BY <1>6, <3>1
    <3>2. CASE k # 1
      <4>1. k - 1 \in 1 .. k - 1
        BY <3>2
      <4> QED
        BY <1>7, <4>1
    <3> QED
      BY <3>1, <3>2
  <2>2. PICK f \in [Indices -> Residue] :
          \A g \in Indices : (h[g] < k - 1 /\ gates[g] # Tombstone) =>
                               f[g] = NodeValue(gates[g], env, f)
    BY <2>1
  <2> DEFINE val == [g \in Indices |-> IF h[g] = k - 1 /\ gates[g] # Tombstone
                                       THEN NodeValue(gates[g], env, f) ELSE f[g]]
  <2>3. ASSUME NEW g \in Indices, gates[g] # Tombstone
        PROVE  /\ gates[g] \in Node /\ NodeValue(gates[g], env, f) \in Residue
               /\ IsOp(gates[g]) => /\ gates[g].lhs \in Indices /\ h[gates[g].lhs] < h[g]
                                    /\ gates[g].rhs \in Indices /\ h[gates[g].rhs] < h[g]
    <3>1. gates[g] \in Node
      BY <1>5, <2>3
    <3>2. IsOp(gates[g]) => /\ gates[g].lhs \in Indices /\ h[gates[g].lhs] < h[g]
                            /\ gates[g].rhs \in Indices /\ h[gates[g].rhs] < h[g]
      BY <1>2, <3>1, NodeKinds DEF OperandsKept
    <3>3. env \in Assignments
      BY ResiduesAreArguments
    <3>4. IsOp(gates[g]) => f[gates[g].lhs] \in Residue /\ f[gates[g].rhs] \in Residue
      BY <3>2
    <3>5. NodeValue(gates[g], env, f) \in Residue
      BY <3>1, <3>3, <3>4, NodeValueTyped
    <3> QED
      BY <3>1, <3>2, <3>5
  <2>4. /\ val \in [Indices -> Residue]
        /\ \A g \in Indices : val[g] = IF h[g] = k - 1 /\ gates[g] # Tombstone
                                       THEN NodeValue(gates[g], env, f) ELSE f[g]
    BY <2>3
  <2> HIDE DEF val
  <2>5. ASSUME NEW g \in Indices, h[g] < k, gates[g] # Tombstone
        PROVE  val[g] = NodeValue(gates[g], env, val)
    <3>1. \A o \in Indices : h[o] < h[g] => f[o] = val[o]
      <4>1. \A o \in Indices : h[o] < h[g] => h[o] # k - 1
        BY <1>2, <2>5
      <4> QED
        BY <2>4, <4>1
    <3>2. IsOp(gates[g]) => /\ f[gates[g].lhs] = val[gates[g].lhs]
                            /\ f[gates[g].rhs] = val[gates[g].rhs]
      BY <2>3, <2>5, <3>1
    <3>3. NodeValue(gates[g], env, f) = NodeValue(gates[g], env, val)
      BY <2>3, <2>5, <3>2, NodeValueLocal
    <3>4. h[g] = k - 1 \/ h[g] < k - 1
      BY <1>2, <2>5
    <3>5. val[g] = NodeValue(gates[g], env, f)
      BY <2>2, <2>4, <2>5, <3>4
    <3> QED
      BY <3>3, <3>5
  <2> QED
    BY <2>4, <2>5
<1>8. 1 .. m \subseteq S
  <2> HIDE DEF S
  <2> QED
    BY <1>7, PositionInduction
<1>9. Upto(m)
  <2>1. CASE m = 0
    BY <1>6, <2>1
  <2>2. CASE m # 0
    <3>1. m \in 1 .. m
      BY <2>2
    <3> QED
      BY <1>8, <3>1
  <2> QED
    BY <2>1, <2>2
<1>10. PICK val \in [Indices -> Residue] :
         \A g \in Indices : gates[g] # Tombstone => val[g] = NodeValue(gates[g], env, val)
  BY <1>4, <1>9
<1>11. val \in Valuations(gates, env)
  BY <1>10 DEF Valuations, Indices
<1> QED
  BY <1>11

\* Whatever was rewritten, the gates that are left still stand for something, for all
\* arguments: there is a valuation, so that the theorem after this one is about one.
THEOREM AlwaysValued == PassSpec => [](\A env \in Environments : Valuations(gates, env) # {})
<1>1. ReassociateInv /\ Acyclic(gates) => \A env \in Environments : Valuations(gates, env) # {}
  BY Valued DEF ReassociateInv
<1> QED
  BY <1>1, ReassociateInvariant, NeverCyclic, PTL

\* Reassociation does not change what is computed, step by step, for every circuit and all
\* arguments: what the gates could stand for before a reuse or a kill they can stand for
\* after it, every gate for what it did.  So they can after a fold, with another value for
\* the inner operation in whose place the pair is folded, if the root was its only user:
\* of that UsedOnce makes sure while the usages are right (see UsagesExact).
THEOREM RewritesKeepValues ==
  ASSUME FoldsSafe
  PROVE  PassSpec =>
           [][ \A env \in Environments : \A val \in Valuations(gates, env) :
                 /\ Reuse \/ (\E g \in to_kill : Kill(g)) => val \in Valuations(gates', env)
                 /\ FoldPair => \A t \in Rewrites(Root) :
                      Users(gates, t.inner) = {Root} =>
                        \E v \in Residue :
                          [val EXCEPT ![t.inner] = v] \in Valuations(gates', env) ]_vars
<1> DEFINE Keeps ==
             \A env \in Environments : \A val \in Valuations(gates, env) :
               /\ Reuse \/ (\E g \in to_kill : Kill(g)) => val \in Valuations(gates', env)
               /\ FoldPair => \A t \in Rewrites(Root) :
                    Users(gates, t.inner) = {Root} =>
                      \E v \in Residue :
                        [val EXCEPT ![t.inner] = v] \in Valuations(gates', env)
<1>1. ASSUME ReassociateInv, Acyclic(gates)
      PROVE  Keeps
  BY <1>1, ReuseKeepsValues, KillKeepsValues, FoldPairKeepsValues
<1>2. ASSUME ReassociateInv, Acyclic(gates), [PassStep]_passVars
      PROVE  [Keeps]_vars
  BY <1>1, <1>2
<1> QED
  BY <1>2, ReassociateInvariant, NeverCyclic, PTL DEF PassSpec

-----------------------------------------------------------------------------
\* Usages stay exact.

\* The links that are cut when the operations in S let go of their operands, and whether
\* that leaves g, which has lost a user, without one.
Cut(links, S) == links \cup UNION {Operands(gates[g]) \X {g} : g \in S}
LeftUnused(g, cut) ==
  /\ \E u \in Indices : <<g, u>> \in cut
  /\ \A u \in usages[g] : <<g, u>> \in cut
Operations == {g \in Indices : IsOp(gates[g])}
LetGo(links) ==
  {g \in Operations : \A S \in SUBSET Operations :
     (\A h \in Operations : LeftUnused(h, Cut(links, S)) => h \in S) => g \in S}

\* The propagation is complete: exactly the operations that it leaves unused let go.
LEMMA SeveredIs ==
  ASSUME NEW links
  PROVE  /\ Severed(links) = Cut(links, LetGo(links)) /\ LetGo(links) \subseteq Operations
         /\ \A g \in Operations : g \in LetGo(links) <=> LeftUnused(g, Severed(links))
<1> DEFINE L == LetGo(links)
           M == {g \in Operations : LeftUnused(g, Cut(links, L))}
           Closing(S) == \A h \in Operations : LeftUnused(h, Cut(links, S)) => h \in S
<1>1. Severed(links) = Cut(links, L)
  BY DEF Severed, Cut, LetGo, LeftUnused, Operations, Indices
<1>2. L = {g \in Operations : \A S \in SUBSET Operations : Closing(S) => g \in S}
  BY DEF LetGo
<1>3. ASSUME NEW S, NEW T, S \subseteq T, NEW g, LeftUnused(g, Cut(links, S))
      PROVE  LeftUnused(g, Cut(links, T))
  <2>1. Cut(links, S) \subseteq Cut(links, T)
    BY <1>3 DEF Cut
  <2> QED
    BY <1>3, <2>1 DEF LeftUnused
<1> HIDE DEF L
<1>4. M \subseteq L
  <2> SUFFICES ASSUME NEW g \in M, NEW S \in SUBSET Operations, Closing(S)
               PROVE  g \in S
    BY <1>2
  <2>1. L \subseteq S
    BY <1>2
  <2>2. LeftUnused(g, Cut(links, S))
    BY <1>3, <2>1
  <2> QED
    BY <2>2
<1>5. L \subseteq M
  <2>1. Closing(M)
    BY <1>3, <1>4
  <2>2. M \in SUBSET Operations
    OBVIOUS
  <2> HIDE DEF M, Closing
  <2> QED
    BY <1>2, <2>1, <2>2
<1> QED
  BY <1>1, <1>2, <1>4, <1>5 DEF L

\* Letting go stays below where it starts: a gate at whose height no link starts does not
\* let go.
LEMMA LetGoBelow ==
  ASSUME NEW links, NEW h, Heights(gates, h), OperandsKept, NEW root \in Indices,
         \A g, u \in Indices : <<g, u>> \in links => h[g] < h[root]
  PROVE  \A g \in LetGo(links) : h[g] < h[root]
<1> DEFINE S == {g \in Operations : h[g] < h[root]}
<1>1. \A g \in Indices : h[g] \in Nat
  BY DEF Heights, Indices
<1>2. ASSUME NEW g \in Operations, LeftUnused(g, Cut(links, S))
      PROVE  g \in S
  <2>1. PICK u \in Indices : <<g, u>> \in Cut(links, S)
    BY <1>2 DEF LeftUnused
  <2>2. CASE <<g, u>> \in links
    BY <2>2 DEF Operations
  <2>3. CASE u \in S /\ g \in Operands(gates[u])
    <3>1. h[g] < h[u] /\ h[u] < h[root] /\ g \in Indices
      BY <2>3 DEF Heights, Indices, Operations
    <3>2. h[g] < h[root]
      BY <1>1, <3>1
    <3> QED
      BY <3>2
  <2> QED
    BY <2>1, <2>2, <2>3 DEF Cut
<1> QED
  BY <1>2 DEF LetGo

LEMMA NotItsOperand ==
  ASSUME NEW all, Acyclic(all), NEW g \in DOMAIN all
  PROVE  g \notin Operands(all[g])
<1>1. PICK h : Heights(all, h)
  BY DEF Acyclic
<1>2. h[g] \in Nat /\ (g \in Operands(all[g]) => h[g] < h[g])
  BY <1>1 DEF Heights
<1> QED
  BY <1>2

LEMMA OnlyOne ==
  ASSUME NEW S, IsFiniteSet(S), NEW x \in S, Cardinality(S) <= 1
  PROVE  S = {x}
<1>1. IsFiniteSet({x}) /\ Cardinality({x}) = 1
  BY FS_Singleton
<1>2. {x} \in SUBSET S
  OBVIOUS
<1>3. Cardinality({x}) <= Cardinality(S) /\ (Cardinality(S) = Cardinality({x}) => S = {x})
  BY <1>2, FS_Subset
<1>4. Cardinality(S) \in Nat
  BY FS_CardinalityType
<1> QED
  BY <1>1, <1>3, <1>4

\* While usages are right, a used root is all that uses the operation it takes apart.
LEMMA InnerIs ==
  ASSUME ReassociateInv, Acyclic(gates), UsagesExact, NEW root \in Used, NEW t \in Rewrites(root)
  PROVE  /\ usages[t.inner] = {root} /\ t.inner \in Used /\ t.moved \in Used /\ t.other \in Used
         /\ t.inner \notin Range(circuit.outputs)
<1>1. ReassociateTypeOK /\ OperandsKept /\ root \in Indices
  BY DEF ReassociateInv, Used
<1>2. /\ t.inner \in Indices /\ t.moved \in Indices /\ t.other \in Indices
      /\ Operands(gates[root]) = {t.inner, t.moved}
      /\ t.other \in Operands(gates[t.inner])
  BY <1>1, RewriteIs
<1>3. root \in usages[t.inner] /\ root \in usages[t.moved]
  BY <1>1, <1>2 DEF UsagesExact, Uses, Users, Indices
<1>4. IsFiniteSet(usages[t.inner])
  <2>1. IsFiniteSet(Indices)
    BY <1>1, GatesAre, FS_Interval
  <2>2. usages[t.inner] \subseteq Indices
    BY <1>1, <1>2 DEF ReassociateTypeOK
  <2> QED
    BY <2>1, <2>2, FS_Subset
<1>5. Cardinality(usages[t.inner]) <= 1
  BY DEF Rewrites, UsedOnce
<1>6. usages[t.inner] = {root}
  BY <1>3, <1>4, <1>5, OnlyOne
<1>7. t.inner \in Used /\ t.moved \in Used
  BY <1>2, <1>3 DEF Used
<1>8. t.inner \in usages[t.other]
  BY <1>2, <1>7 DEF UsagesExact, Uses, Users, Indices
<1>9. ASSUME t.inner \in Range(circuit.outputs)
      PROVE  t.inner = root
  BY <1>2, <1>6, <1>9 DEF UsagesExact, Uses
<1>10. t.inner # root
  BY <1>1, <1>2, NotItsOperand DEF Indices
<1> QED
  BY <1>2, <1>6, <1>7, <1>8, <1>9, <1>10 DEF Used

\* What a rewrite does, whatever the child that the root is connected to.
LinksOf(t) == Severed({<<t.inner, Root>>, <<t.moved, Root>>})

RewriteOf(t, child) ==
  /\ t \in Rewrites(Root) /\ Root \in Indices /\ child \in Indices /\ child \notin dead
  /\ Indices' = Indices /\ circuit' = circuit /\ dead' = dead
  /\ gates'[Root] = OpNode(gates[Root].op, child, t.other)
  /\ Operands(gates'[Root]) = {child, t.other} /\ IsOp(gates'[Root])
  /\ \A g \in Indices \ {Root, t.inner} : gates'[g] = gates[g]
  /\ usages' \in [Indices -> SUBSET Indices]
  /\ \A g \in Indices :
       usages'[g] = {u \in usages[g] : <<g, u>> \notin LinksOf(t)}
                      \cup (IF g \in {child, t.other} THEN {Root} ELSE {})
  /\ to_kill' = (to_kill \cup Emptied(usages', LinksOf(t))) \ Rescued(usages', {child, t.other})

LEMMA AcceptIs ==
  ASSUME ReassociateInv, AtRoot, NEW t \in Rewrites(Root), NEW child \in Indices, child \notin dead,
         NEW all \in Seq(Node \cup {Tombstone}), Len(all) = Len(gates),
         \A g \in Indices : /\ Operands(all[g]) \subseteq Indices
                            /\ all[g] = Tombstone <=> g \in dead,
         \A g \in Indices \ {t.inner} : all[g] = gates[g],
         Accept(t, child, all)
  PROVE  RewriteOf(t, child) /\ gates'[t.inner] = IF t.inner = Root THEN gates'[Root] ELSE all[t.inner]
<1>1. ReassociateTypeOK /\ Root \in Indices
  BY GatesAre DEF ReassociateInv
<1>2. /\ Indices' = Indices
      /\ gates'[Root] = OpNode(gates[Root].op, child, t.other) /\ gates'[Root] \in Node
      /\ Operands(gates'[Root]) = {child, t.other}
      /\ \A g \in Indices \ {Root} : gates'[g] = all[g]
      /\ usages' \in [Indices -> SUBSET Indices]
      /\ UNCHANGED <<circuit, dead, operation_gates, phase>>
  BY AcceptKeeps, ZenonT(60)
<1>3. t.inner \in Indices
  BY <1>1, RewriteIs DEF ReassociateInv
<1>4. /\ \A g \in Indices :
           usages'[g] = {u \in usages[g] : <<g, u>> \notin LinksOf(t)}
                          \cup (IF g \in {child, t.other} THEN {Root} ELSE {})
      /\ to_kill' = (to_kill \cup Emptied(usages', LinksOf(t))) \ Rescued(usages', {child, t.other})
  <2>1. DOMAIN usages = Indices
    BY <1>1 DEF ReassociateTypeOK
  <2> QED
    BY <2>1 DEF Accept, LinksOf, Connected
<1>5. IsOp(gates'[Root])
  BY <1>2 DEF OpNode, IsOp
<1> QED
  BY <1>1, <1>2, <1>3, <1>4, <1>5 DEF RewriteOf

LEMMA ReuseIs ==
  ASSUME ReassociateInv, Reuse
  PROVE  \E t \in Rewrites(Root) : \E child \in Indices :
           /\ RewriteOf(t, child) /\ (t.inner # Root => gates'[t.inner] = gates[t.inner])
           /\ Reusable(Root, t) /\ child = seen[Canonical(Pair(Root, t))]
<1>1. ReassociateTypeOK /\ AtRoot
  BY DEF ReassociateInv, Reuse
<1>2. PICK t \in Rewrites(Root) :
        Reusable(Root, t) /\ Accept(t, seen[Canonical(Pair(Root, t))], gates)
  BY DEF Reuse
<1> DEFINE found == seen[Canonical(Pair(Root, t))]
<1>3. Root \in Indices
  BY <1>1, GatesAre
<1>4. found \in Indices /\ found \notin dead
  BY <1>2, <1>3, FoundIs DEF Reusable
<1>5. Accept(t, found, gates)
  BY <1>2
<1> HIDE DEF found
<1>6. gates \in Seq(Node \cup {Tombstone})
      /\ \A g \in Indices : /\ Operands(gates[g]) \subseteq Indices
                            /\ gates[g] = Tombstone <=> g \in dead
  BY <1>1 DEF ReassociateInv, ReassociateTypeOK, OperandsKept, DeadAreTombstones
<1>7. Len(gates) = Len(gates) /\ \A g \in Indices \ {t.inner} : gates[g] = gates[g]
  OBVIOUS
<1>8. RewriteOf(t, found) /\ gates'[t.inner] = IF t.inner = Root THEN gates'[Root] ELSE gates[t.inner]
  BY <1>1, <1>4, <1>5, <1>6, <1>7, AcceptIs
<1> QED
  BY <1>2, <1>4, <1>8 DEF found

LEMMA FoldPairIs ==
  ASSUME ReassociateInv, FoldPair
  PROVE  \E t \in Rewrites(Root) :
           /\ RewriteOf(t, t.inner) /\ (t.inner # Root => gates'[t.inner] = Folded(Root, t))
           /\ ~ PairOverflows(Root, t)
<1>1. ReassociateTypeOK /\ OperandsKept /\ AtRoot
  BY DEF ReassociateInv, FoldPair
<1>2. PICK t \in Rewrites(Root) :
        /\ ~ PairOverflows(Root, t)
        /\ Accept(t, t.inner, [gates EXCEPT ![t.inner] = Folded(Root, t)])
  BY DEF FoldPair
<1> DEFINE folded == Folded(Root, t)
           all == [gates EXCEPT ![t.inner] = folded]
<1>3. Root \in Indices
  BY <1>1, GatesAre
<1>4. /\ t.inner \in Indices /\ t.pair[1] \in Indices /\ t.pair[2] \in Indices
      /\ gates[t.inner] \in Node
  BY <1>1, <1>3, RewriteIs
<1>5. folded \in Node /\ Operands(folded) \subseteq Indices
  BY <1>1, <1>3, <1>4, FoldedTyped
<1> HIDE DEF folded
<1>6. /\ gates \in Seq(Node \cup {Tombstone})
      /\ \A g \in Indices : /\ Operands(gates[g]) \subseteq Indices
                            /\ gates[g] = Tombstone <=> g \in dead
  BY <1>1 DEF ReassociateInv, ReassociateTypeOK, OperandsKept, DeadAreTombstones
<1>7. Indices = 1 .. Len(gates)
  BY <1>1, GatesAre
<1>8. /\ all \in Seq(Node \cup {Tombstone}) /\ Len(all) = Len(gates)
      /\ \A g \in Indices : all[g] = IF g = t.inner THEN folded ELSE gates[g]
  <2> DEFINE X == Node \cup {Tombstone}
  <2>1. gates \in Seq(X) /\ folded \in X /\ t.inner \in 1 .. Len(gates)
    BY <1>4, <1>5, <1>6, <1>7
  <2> HIDE DEF X
  <2>2. /\ all \in Seq(X) /\ Len(all) = Len(gates)
        /\ \A g \in 1 .. Len(gates) : all[g] = IF g = t.inner THEN folded ELSE gates[g]
    BY <2>1, ExceptSeq
  <2> QED
    BY <2>2, <1>7 DEF X
<1>9. Accept(t, t.inner, all)
  BY <1>2 DEF folded
<1> HIDE DEF all
<1>10. t.inner \notin dead
  BY <1>4, <1>6, NoOperands
<1>11. \A g \in Indices : /\ Operands(all[g]) \subseteq Indices
                          /\ all[g] = Tombstone <=> g \in dead
  BY <1>5, <1>6, <1>8, <1>10, NoOperands
<1>12. \A g \in Indices \ {t.inner} : all[g] = gates[g]
  BY <1>8
<1>13. /\ RewriteOf(t, t.inner)
       /\ gates'[t.inner] = IF t.inner = Root THEN gates'[Root] ELSE all[t.inner]
  BY <1>1, <1>4, <1>8, <1>9, <1>10, <1>11, <1>12, AcceptIs
<1> QED
  BY <1>2, <1>4, <1>8, <1>13 DEF folded

\* The second half of Careful, of the root's new operands.
KeepUsers ==
  \A g \in Operands(gates'[Root]) :
    IsOp(gates'[g]) => (usages[g] \cap usages'[g]) \ {Root} # {}

\* In a careful rewrite the operations that are used afterwards are those that were used
\* and have not let go; the inner operation, which has, is none of them.
LEMMA CarefulRewrite ==
  ASSUME ReassociateInv, Acyclic(gates), UsagesExact, Root \in Used, KeepUsers,
         NEW t, NEW child, RewriteOf(t, child), child = t.inner \/ gates'[t.inner] = gates[t.inner]
  PROVE  LET L == LetGo({<<t.inner, Root>>, <<t.moved, Root>>})
         IN  /\ \A g, u \in Indices :
                  <<g, u>> \in LinksOf(t) <=> \/ u = Root /\ g \in {t.inner, t.moved}
                                              \/ u \in L /\ g \in Operands(gates[u])
             /\ t.inner \in L /\ Root \notin L /\ t.inner # Root
             /\ \A u \in Indices : IsOp(gates'[u]) => /\ IsOp(gates[u])
                                                      /\ u \in Used' <=> u \in Used /\ u \notin L
             /\ child = t.inner => ~ IsOp(gates'[t.inner])
<1> DEFINE links == {<<t.inner, Root>>, <<t.moved, Root>>}
           L == LetGo(links)
<1>1. ReassociateTypeOK /\ OperandsKept /\ Root \in Indices /\ t \in Rewrites(Root)
  BY DEF ReassociateInv, RewriteOf
<1>2. /\ t.inner \in Indices /\ t.moved \in Indices /\ t.other \in Indices
      /\ Operands(gates[Root]) = {t.inner, t.moved}
      /\ IsOp(gates[Root]) /\ IsOp(gates[t.inner]) /\ t.other \in Operands(gates[t.inner])
  BY <1>1, RewriteIs, ZenonT(60)
<1>3. usages[t.inner] = {Root} /\ t.inner \in Used
  BY <1>1, InnerIs
<1>4. /\ \A g \in Indices : g \notin Operands(gates[g])
      /\ t.inner # Root /\ t.moved # Root /\ t.other # t.inner
  BY <1>2, NotItsOperand DEF Indices
<1>5. /\ LinksOf(t) = Cut(links, L) /\ L \subseteq Operations
      /\ \A g \in Operations : g \in L <=> LeftUnused(g, LinksOf(t))
  BY SeveredIs DEF LinksOf
<1>6. Root \notin L
  <2>1. PICK h : Heights(gates, h)
    BY DEF Acyclic
  <2>2. \A g, u \in Indices : <<g, u>> \in links => h[g] < h[Root]
    BY <1>1, <1>2, <2>1 DEF Heights, Indices
  <2>3. \A g \in L : h[g] < h[Root]
    BY <1>1, <2>1, <2>2, LetGoBelow
  <2>4. h[Root] \in Nat
    BY <1>1, <2>1 DEF Heights, Indices
  <2> QED
    BY <2>3, <2>4
<1> HIDE DEF L
<1>7. \A g, u \in Indices :
        <<g, u>> \in LinksOf(t) <=> \/ u = Root /\ g \in {t.inner, t.moved}
                                    \/ u \in L /\ g \in Operands(gates[u])
  BY <1>5 DEF Cut
<1>8. t.inner \in L
  <2>1. <<t.inner, Root>> \in LinksOf(t)
    BY <1>1, <1>2, <1>7
  <2> QED
    BY <1>1, <1>2, <1>3, <1>5, <2>1 DEF LeftUnused, Operations
<1>9. \A g \in Indices :
        usages'[g] = {u \in usages[g] : <<g, u>> \notin LinksOf(t)}
                       \cup (IF g \in {child, t.other} THEN {Root} ELSE {})
  BY DEF RewriteOf
<1>10. /\ Operands(gates'[Root]) = {child, t.other} /\ Indices' = Indices
       /\ \A g \in Indices \ {Root, t.inner} : gates'[g] = gates[g]
  BY DEF RewriteOf
<1>11. child = t.inner => ~ IsOp(gates'[t.inner])
  BY <1>3, <1>10 DEF KeepUsers
<1>12. ASSUME NEW u \in Indices, IsOp(gates'[u])
       PROVE  /\ IsOp(gates[u])
              /\ u \in Used' <=> u \in Used /\ u \notin L
  <2>1. IsOp(gates[u])
    BY <1>2, <1>10, <1>12
  <2>2. u \in {child, t.other} => (usages[u] \cap usages'[u]) \ {Root} # {}
    BY <1>10, <1>12 DEF KeepUsers
  <2>3. u \in L <=> LeftUnused(u, LinksOf(t))
    BY <1>5, <2>1 DEF Operations
  <2>4. ASSUME u \in Used, u \notin L
        PROVE  usages'[u] # {}
    <3>1. PICK v \in usages[u] : TRUE
      BY <2>4 DEF Used
    <3>2. \/ \A w \in Indices : <<u, w>> \notin LinksOf(t)
          \/ \E w \in usages[u] : <<u, w>> \notin LinksOf(t)
      BY <2>3, <2>4 DEF LeftUnused
    <3>3. usages[u] \subseteq Indices
      BY <1>1 DEF ReassociateTypeOK
    <3>4. PICK w \in usages[u] : <<u, w>> \notin LinksOf(t)
      BY <3>1, <3>2, <3>3
    <3>5. w \in usages'[u]
      BY <1>9, <3>4
    <3> QED
      BY <3>5
  <2>5. ASSUME usages'[u] # {}
        PROVE  u \in Used /\ u \notin L
    <3>1. PICK w \in usages'[u] : u \in {child, t.other} => w \in usages[u] /\ w # Root
      BY <2>2, <2>5
    <3>2. w \in usages[u] /\ <<u, w>> \notin LinksOf(t)
      BY <1>9, <3>1
    <3> QED
      BY <2>3, <3>2 DEF Used, LeftUnused
  <2>6. u \in Used' <=> usages'[u] # {}
    BY <1>10 DEF Used
  <2> QED
    BY <2>1, <2>4, <2>5, <2>6
<1> QED
  BY <1>4, <1>6, <1>7, <1>8, <1>11, <1>12 DEF L

\* Uses, a user at a time.
LEMMA UsesAre ==
  ASSUME NEW all, NEW outs, NEW g, NEW u
  PROVE  u \in Uses(all, outs, g) <=> \/ u \in DOMAIN all /\ g \in Operands(all[u])
                                      \/ u = g /\ g \in Range(outs)
BY DEF Uses, Users

LEMMA RewriteExact ==
  ASSUME ReassociateInv, Acyclic(gates), Acyclic(gates'), UsagesExact, Root \in Used, KeepUsers,
         NEW t, NEW child, RewriteOf(t, child), child = t.inner \/ gates'[t.inner] = gates[t.inner]
  PROVE  UsagesExact'
<1> DEFINE L == LetGo({<<t.inner, Root>>, <<t.moved, Root>>})
           outs == Range(circuit.outputs)
<1>1. ReassociateTypeOK /\ OperandsKept /\ Root \in Indices /\ t \in Rewrites(Root)
      /\ child \in Indices /\ child \notin dead
  BY DEF ReassociateInv, RewriteOf
<1>2. /\ t.inner \in Indices /\ t.moved \in Indices /\ t.other \in Indices
      /\ Operands(gates[Root]) = {t.inner, t.moved}
  BY <1>1, RewriteIs
<1>3. usages[t.inner] = {Root} /\ t.inner \notin outs /\ t.other \in Used
  BY <1>1, InnerIs
<1>4. /\ \A g, u \in Indices : <<g, u>> \in LinksOf(t) <=> \/ u = Root /\ g \in {t.inner, t.moved}
                                                           \/ u \in L /\ g \in Operands(gates[u])
      /\ t.inner \in L /\ Root \notin L /\ t.inner # Root
      /\ \A u \in Indices : IsOp(gates'[u]) => /\ IsOp(gates[u])
                                               /\ u \in Used' <=> u \in Used /\ u \notin L
  BY CarefulRewrite
<1> HIDE DEF L
<1>5. /\ Indices' = Indices /\ DOMAIN gates = Indices /\ DOMAIN gates' = Indices
      /\ circuit' = circuit /\ dead' = dead
      /\ \A g \in Indices \ {Root, t.inner} : gates'[g] = gates[g]
      /\ Operands(gates'[Root]) = {child, t.other} /\ IsOp(gates'[Root])
  BY DEF RewriteOf, Indices
<1>6. \A g \in Indices :
        usages'[g] = {u \in usages[g] : <<g, u>> \notin LinksOf(t)}
                       \cup (IF g \in {child, t.other} THEN {Root} ELSE {})
  BY DEF RewriteOf
<1>7. /\ \A g \in Indices : g \notin Operands(gates[g])
      /\ \A g \in Indices : g \notin Operands(gates'[g])
  BY <1>5, NotItsOperand
<1>8. \A g, u \in Indices :
        u \in usages[g] <=> \/ u = g /\ g \in outs
                            \/ u \in Used /\ g \in Operands(gates[u])
  BY <1>5, <1>7, UsesAre DEF UsagesExact
<1>9. \A g \in Indices : usages[g] \subseteq Indices /\ usages'[g] \subseteq Indices
  <2>1. usages \in [Indices -> SUBSET Indices] /\ usages' \in [Indices -> SUBSET Indices]
    BY <1>1 DEF ReassociateTypeOK, RewriteOf
  <2> QED
    BY <2>1
<1>10. \A u \in Indices : Operands(gates[u]) # {} => IsOp(gates[u])
  BY DEF Operands
<1>11. \A u \in Indices : Operands(gates'[u]) # {} => IsOp(gates'[u])
  BY DEF Operands
<1>12. ASSUME NEW g \in Indices, NEW u \in Indices
       PROVE  u \in usages'[g] <=> \/ u = g /\ g \in outs
                                   \/ u \in Used' /\ g \in Operands(gates'[u])
  <2>1. CASE u = Root
    <3>1. Root \in Used'
      BY <1>1, <1>4, <1>5
    <3>2. Root \in usages[g] <=> \/ g = Root /\ g \in outs
                                 \/ g \in {t.inner, t.moved}
      BY <1>1, <1>2, <1>8
    <3>3. <<g, Root>> \in LinksOf(t) <=> g \in {t.inner, t.moved}
      BY <1>1, <1>4
    <3>4. Root \in usages'[g] <=> \/ Root \in usages[g] /\ <<g, Root>> \notin LinksOf(t)
                                  \/ g \in {child, t.other}
      BY <1>6
    <3>5. t.inner # Root /\ t.moved # Root
      BY <1>1, <1>2, <1>7
    <3> QED
      BY <2>1, <3>1, <3>2, <3>3, <3>4, <3>5, <1>5
  <2>2. CASE u = t.inner
    <3>1. u \in usages[g] => g \in Operands(gates[u])
      BY <2>2, <1>3, <1>8
    <3>2. g \in Operands(gates[u]) => <<g, u>> \in LinksOf(t)
      BY <2>2, <1>4
    <3>3. u \notin usages'[g]
      BY <2>2, <3>1, <3>2, <1>4, <1>6
    <3>4. ~ (u \in Used' /\ g \in Operands(gates'[u]))
      BY <2>2, <1>4, <1>11
    <3>5. ~ (u = g /\ g \in outs)
      BY <2>2, <1>3
    <3> QED
      BY <3>3, <3>4, <3>5
  <2>3. CASE u \in Indices \ {Root, t.inner}
    <3>1. gates'[u] = gates[u]
      BY <2>3, <1>5
    <3>2. u \in usages'[g] <=> u \in usages[g] /\ <<g, u>> \notin LinksOf(t)
      BY <2>3, <1>6
    <3>3. <<g, u>> \in LinksOf(t) <=> u \in L /\ g \in Operands(gates[u])
      BY <2>3, <1>4
    <3>4. g \in Operands(gates[u]) => (u \in Used' <=> u \in Used /\ u \notin L)
      BY <3>1, <1>4, <1>10
    <3>5. u = g => g \notin Operands(gates[u])
      BY <1>7
    <3> QED
      BY <3>1, <3>2, <3>3, <3>4, <3>5, <1>8
  <2> QED
    BY <2>1, <2>2, <2>3
<1>13. Used' = {g \in Indices : usages'[g] # {}}
  BY <1>5 DEF Used
<1>14. ASSUME NEW g \in Indices
       PROVE  usages'[g] = Uses(gates', circuit.outputs, g) \cap (Used' \cup {g})
  <2>1. ASSUME NEW u \in Indices
        PROVE  u \in usages'[g] <=> u \in Uses(gates', circuit.outputs, g) \cap (Used' \cup {g})
    BY <1>5, <1>7, <1>12, UsesAre
  <2>2. Used' \subseteq Indices
    BY <1>13
  <2> QED
    BY <1>9, <2>1, <2>2
<1>15. to_kill' \cup dead = Indices \ Used'
  <2>1. to_kill \cup dead = Indices \ Used
    BY DEF UsagesExact
  <2>2. /\ to_kill' = (to_kill \cup Emptied(usages', LinksOf(t)))
                        \ Rescued(usages', {child, t.other})
    BY DEF RewriteOf
  <2>3. Emptied(usages', LinksOf(t)) =
          {g \in Indices : usages'[g] = {} /\ \E u \in Indices : <<g, u>> \in LinksOf(t)}
    BY <1>1 DEF Emptied, ReassociateTypeOK, Indices
  <2>4. \A g : g \in Rescued(usages', {child, t.other}) <=>
                 g \in {child, t.other} /\ Cardinality(usages'[g]) = 1
    BY DEF Rescued
  <2>5. Cardinality({}) = 0 /\ Cardinality({Root}) = 1
    BY FS_EmptySet, FS_Singleton
  <2>6. ASSUME NEW g \in Indices, g \in Used'
        PROVE  g \notin to_kill' /\ g \notin dead
    <3>1. usages'[g] # {}
      BY <1>13, <2>6
    <3>2. g \notin Emptied(usages', LinksOf(t))
      BY <2>3, <3>1
    <3>3. CASE g \in Used
      BY <2>1, <2>2, <3>2, <3>3
    <3>4. CASE g \notin Used
      <4>1. usages[g] = {}
        BY <3>4 DEF Used
      <4>2. g \in {child, t.other} /\ usages'[g] = {Root}
        BY <1>6, <3>1, <4>1
      <4>3. g = child
        BY <1>3, <3>4, <4>2
      <4>4. g \in Rescued(usages', {child, t.other})
        BY <2>4, <2>5, <4>2
      <4> QED
        BY <1>1, <2>2, <4>3, <4>4
    <3> QED
      BY <3>3, <3>4
  <2>7. ASSUME NEW g \in Indices, g \notin Used'
        PROVE  g \in to_kill' \/ g \in dead
    <3>1. usages'[g] = {}
      BY <1>13, <2>7
    <3>2. g \notin Rescued(usages', {child, t.other})
      BY <2>4, <2>5, <3>1
    <3>3. CASE g \in Used
      <4>1. PICK u \in usages[g] : TRUE
        BY <3>3 DEF Used
      <4>2. <<g, u>> \in LinksOf(t) /\ u \in Indices
        BY <1>6, <1>9, <3>1, <4>1
      <4>3. g \in Emptied(usages', LinksOf(t))
        BY <2>3, <3>1, <4>2
      <4> QED
        BY <2>2, <3>2, <4>3
    <3>4. CASE g \notin Used
      BY <2>1, <2>2, <3>2, <3>4
    <3> QED
      BY <3>3, <3>4
  <2>8. to_kill' \subseteq Indices /\ dead \subseteq Indices
    <3>1. to_kill \subseteq Indices /\ dead \subseteq Indices
      BY <1>1 DEF ReassociateTypeOK
    <3> QED
      BY <2>2, <2>3, <3>1
  <2>9. Used' \subseteq Indices
    BY <1>13
  <2> QED
    BY <2>6, <2>7, <2>8, <2>9
<1> QED
  BY <1>5, <1>14, <1>15 DEF UsagesExact

LEMMA KillExact ==
  ASSUME ReassociateInv, Acyclic(gates), UsagesExact, NEW g \in to_kill, Kill(g)
  PROVE  UsagesExact'
<1> DEFINE gone == KilledWith(g)
<1>1. ReassociateTypeOK /\ OperandsKept
  BY DEF ReassociateInv
<1>2. /\ gates' = [h \in Indices |-> IF h \in gone THEN Tombstone ELSE gates[h]]
      /\ dead' = dead \cup gone /\ to_kill' = to_kill \ {g}
      /\ circuit' = circuit /\ usages' = usages
  BY DEF Kill, KilledWith, Indices
<1>3. gone \subseteq Indices \ Used /\ g \in gone
  BY <1>1 DEF UsagesExact, KilledWith, Used, OperandsKept, ReassociateTypeOK
<1> HIDE DEF gone
<1>4. /\ Indices' = Indices /\ DOMAIN gates = Indices /\ DOMAIN gates' = Indices
      /\ \A h \in Indices : gates'[h] = IF h \in gone THEN Tombstone ELSE gates[h]
  BY <1>2 DEF Indices
<1>5. Used' = Used
  BY <1>2, <1>4 DEF Used
<1>6. ASSUME NEW h \in Indices
      PROVE  usages[h] = Uses(gates', circuit.outputs, h) \cap (Used \cup {h})
  <2>1. h \notin Operands(gates[h])
    BY <1>1, NotItsOperand DEF Indices
  <2>2. usages[h] = Uses(gates, circuit.outputs, h) \cap (Used \cup {h})
    BY DEF UsagesExact
  <2>3. ASSUME NEW u \in Used \cup {h}
        PROVE  u \in Uses(gates', circuit.outputs, h) <=> u \in Uses(gates, circuit.outputs, h)
    <3>1. CASE u \in Used
      <4>1. u \in Indices /\ gates'[u] = gates[u]
        BY <1>3, <1>4, <3>1 DEF Used
      <4> QED
        BY <1>4, <4>1, UsesAre
    <3>2. CASE u = h
      <4>1. h \notin Operands(gates'[h])
        BY <1>4, <2>1, NoOperands
      <4> QED
        BY <2>1, <3>2, <4>1, UsesAre
    <3> QED
      BY <3>1, <3>2
  <2> QED
    BY <2>2, <2>3
<1>7. to_kill' \cup dead' = Indices \ Used
  BY <1>2, <1>3 DEF UsagesExact
<1> QED
  BY <1>2, <1>4, <1>5, <1>6, <1>7 DEF UsagesExact

\* A careful rewrite with its child.
LEMMA CarefulIs ==
  ASSUME ReassociateInv, Careful, Reuse \/ FoldPair
  PROVE  /\ Root \in Used /\ KeepUsers
         /\ \E t \in Rewrites(Root) : \E child \in Indices :
              /\ RewriteOf(t, child)
              /\ t.inner # Root => child = t.inner \/ gates'[t.inner] = gates[t.inner]
<1>1. Root \in Used /\ KeepUsers
  BY DEF Careful, KeepUsers
<1>2. CASE Reuse
  BY <1>1, <1>2, ReuseIs
<1>3. CASE FoldPair
  <2>1. PICK t \in Rewrites(Root) : RewriteOf(t, t.inner)
    BY <1>3, FoldPairIs
  <2>2. t.inner \in Indices
    BY <2>1 DEF RewriteOf
  <2> QED
    BY <1>1, <2>1, <2>2
<1> QED
  BY <1>2, <1>3

LEMMA ExactKept ==
  ASSUME ReassociateInv, Acyclic(gates), Acyclic(gates'), UsagesExact, Careful,
         [PassStep]_passVars
  PROVE  UsagesExact'
<1>1. CASE Reuse \/ FoldPair
  <2>1. PICK t \in Rewrites(Root), child \in Indices :
          /\ RewriteOf(t, child)
          /\ t.inner # Root => child = t.inner \/ gates'[t.inner] = gates[t.inner]
    BY <1>1, CarefulIs
  <2>2. Root \in Used /\ KeepUsers
    BY <1>1, CarefulIs
  <2>3. t.inner # Root
    <3>1. Root \in Indices /\ ReassociateTypeOK /\ OperandsKept
      BY <2>1 DEF RewriteOf, ReassociateInv
    <3>2. Operands(gates[Root]) = {t.inner, t.moved}
      BY <2>1, <3>1, RewriteIs
    <3> QED
      BY <3>1, <3>2, NotItsOperand DEF Indices
  <2> QED
    BY <2>1, <2>2, <2>3, RewriteExact
<1>2. CASE \E g \in to_kill : KillAnother(g)
  <2>1. PICK g \in to_kill : KillAnother(g)
    BY <1>2
  <2> QED
    BY <2>1 DEF KillAnother, UsagesExact, Used, Indices
<1>3. CASE UNCHANGED <<circuit, gates, dead, usages, to_kill>>
  BY <1>3 DEF UsagesExact, Used, Indices
<1>4. \/ UNCHANGED <<circuit, gates, dead, usages, to_kill>> \/ Reuse \/ FoldPair
      \/ \E g \in to_kill : Kill(g) \/ KillAnother(g)
  BY DEF PassStep, Reassociating, Rebuilding, passVars, roundVars, vars, Step, Skip,
         FoldPanics, NextRound, Finish
<1> QED
  BY <1>1, <1>2, <1>3, <1>4, KillExact

\* For every circuit: usages that say what the gates say do so after each step, severing
\* with all that it leaves unused, connecting and killing in any order, unless a rewrite is
\* of an unused root, or connects the root to an operation that has no other user meanwhile.
THEOREM UsagesStayRight == PassSpec => UsagesStayExact
<1>1. ASSUME ReassociateInv, Acyclic(gates), Acyclic(gates)', [PassStep]_passVars
      PROVE  [UsagesExact /\ Careful => UsagesExact']_vars
  <2>1. Acyclic(gates')
    BY <1>1 DEF Acyclic, Heights
  <2> QED
    BY <1>1, <2>1, ExactKept
<1> QED
  BY <1>1, ReassociateInvariant, NeverCyclic, PTL DEF PassSpec, UsagesStayExact

-----------------------------------------------------------------------------
\* What follows as long as all rewrites are careful.

CarefulRewrites == [][Careful]_vars

LEMMA ExactAtFirst == PassInit => UsagesExact
<1> SUFFICES ASSUME Init
             PROVE  UsagesExact
  BY DEF PassInit
<1>1. Compiled(circuit) /\ gates = circuit.gates /\ to_kill = {} /\ dead = {}
      /\ usages = [g \in Indices |-> Uses(gates, circuit.outputs, g)]
  BY CircuitAssumption DEF Init, Indices
<1>2. \A g \in Indices : usages[g] # {}
  BY <1>1, UsesAre DEF Compiled, Users, Uses, Indices
<1>3. Used = Indices
  BY <1>2 DEF Used
<1>4. \A g \in Indices : Uses(gates, circuit.outputs, g) \subseteq Indices
  BY DEF Uses, Users, Indices
<1> QED
  BY <1>1, <1>3, <1>4 DEF UsagesExact

LEMMA StaysExact == PassSpec /\ CarefulRewrites => []UsagesExact
<1>1. ASSUME ReassociateInv, Acyclic(gates), Acyclic(gates)', UsagesExact, [PassStep]_passVars,
             [Careful]_vars
      PROVE  UsagesExact'
  <2>1. Acyclic(gates')
    BY <1>1 DEF Acyclic, Heights
  <2>2. CASE UNCHANGED vars
    BY <1>1, <2>2 DEF UsagesExact, Used, Indices, vars
  <2> QED
    BY <1>1, <2>1, <2>2, ExactKept
<1> QED
  BY <1>1, ExactAtFirst, ReassociateInvariant, NeverCyclic, PTL DEF PassSpec, CarefulRewrites

\* What exact usages say of what is used.
LEMMA ExactIsClosed ==
  ASSUME ReassociateInv, Acyclic(gates), UsagesExact
  PROVE  /\ UsedClosed
         /\ \A g \in Used : gates[g] \in Node /\ \A o \in Operands(gates[g]) : g \in usages[o]
<1>1. ReassociateTypeOK /\ OperandsKept /\ DeadAreTombstones /\ circuit \in Circuits
  BY DEF ReassociateInv
<1>2. Range(circuit.outputs) \subseteq Indices
  <2>1. circuit.outputs \in Seq(Indices)
    BY <1>1, CircuitAssumption DEF Compiled, ReassociateTypeOK
  <2> QED
    BY <2>1, RangeInSet
<1>3. Range(circuit.outputs) \subseteq Used
  BY <1>2, UsesAre DEF UsagesExact, Used
<1>4. ASSUME NEW g \in Used, NEW o \in Operands(gates[g])
      PROVE  g \in usages[o] /\ o \in Used
  <2>1. g \in Indices /\ o \in Indices
    BY <1>1, <1>4 DEF Used, OperandsKept
  <2>2. g \in Uses(gates, circuit.outputs, o)
    BY <1>4, <2>1, UsesAre DEF Indices
  <2> QED
    BY <1>4, <2>1, <2>2 DEF UsagesExact, Used
<1>5. \A g \in Used : gates[g] \in Node
  <2>1. Used \subseteq Indices \ dead
    BY DEF UsagesExact, Used
  <2> QED
    BY <1>1, <2>1, GatesAre DEF DeadAreTombstones
<1> QED
  BY <1>3, <1>4, <1>5 DEF UsedClosed, Closed

\* As long as all rewrites are careful, usages are what the gates say, and from the
\* outputs nothing that is killed can be reached.
THEOREM NothingUsedIsKilled == PassSpec /\ CarefulRewrites => [](UsagesExact /\ UsedClosed)
<1>1. ReassociateInv /\ Acyclic(gates) /\ UsagesExact => UsedClosed
  BY ExactIsClosed
<1> QED
  BY <1>1, StaysExact, ReassociateInvariant, NeverCyclic, PTL

LEMMA RewriteEliminates ==
  ASSUME ReassociateInv, Acyclic(gates), UsagesExact, Root \in Used, KeepUsers,
         NEW t, NEW child, RewriteOf(t, child), child = t.inner \/ gates'[t.inner] = gates[t.inner]
  PROVE  Cardinality(UsedOps') < Cardinality(UsedOps)
<1> DEFINE L == LetGo({<<t.inner, Root>>, <<t.moved, Root>>})
<1>1. ReassociateTypeOK /\ Root \in Indices /\ t \in Rewrites(Root)
  BY DEF ReassociateInv, RewriteOf
<1>2. t.inner \in Used /\ IsOp(gates[t.inner])
  BY <1>1, InnerIs, RewriteIs DEF ReassociateInv
<1>3. /\ t.inner \in L
      /\ \A u \in Indices : IsOp(gates'[u]) => /\ IsOp(gates[u])
                                               /\ u \in Used' <=> u \in Used /\ u \notin L
  BY CarefulRewrite
<1> HIDE DEF L
<1>4. Used' \subseteq Indices
  BY DEF RewriteOf, Used
<1>5. UsedOps' \subseteq UsedOps /\ t.inner \in UsedOps /\ t.inner \notin UsedOps'
  BY <1>2, <1>3, <1>4 DEF UsedOps
<1>6. IsFiniteSet(UsedOps)
  <2>1. IsFiniteSet(Indices)
    BY <1>1, GatesAre, FS_Interval
  <2>2. UsedOps \in SUBSET Indices
    BY DEF UsedOps, Used
  <2> QED
    BY <2>1, <2>2, FS_Subset
<1> DEFINE now == UsedOps'
           before == UsedOps
<1>7. now \in SUBSET before /\ now # before /\ IsFiniteSet(before)
  BY <1>5, <1>6
<1>8. Cardinality(now) <= Cardinality(before) /\ (Cardinality(before) = Cardinality(now) => before = now)
      /\ IsFiniteSet(now)
  <2> HIDE DEF now, before
  <2> QED
    BY <1>7, FS_Subset
<1>9. Cardinality(now) \in Nat /\ Cardinality(before) \in Nat
  <2> HIDE DEF now, before
  <2> QED
    BY <1>7, <1>8, FS_CardinalityType
<1> HIDE DEF now, before
<1>10. Cardinality(now) < Cardinality(before)
  BY <1>7, <1>8, <1>9
<1> QED
  BY <1>10 DEF now, before

\* As long as all rewrites are careful, each leaves one operation less that is used: so
\* there are at most as many rewrites as there were operations.
THEOREM RewritesEliminate == PassSpec /\ CarefulRewrites => EveryRewriteEliminates
<1>1. ASSUME ReassociateInv, Acyclic(gates), UsagesExact, [PassStep]_passVars, [Careful]_vars
      PROVE  [Reuse \/ FoldPair => Cardinality(UsedOps') < Cardinality(UsedOps)]_vars
  <2> SUFFICES ASSUME Careful, Reuse \/ FoldPair
               PROVE  Cardinality(UsedOps') < Cardinality(UsedOps)
    BY <1>1
  <2>1. PICK t \in Rewrites(Root), child \in Indices :
          /\ RewriteOf(t, child)
          /\ t.inner # Root => child = t.inner \/ gates'[t.inner] = gates[t.inner]
    BY <1>1, CarefulIs
  <2>2. Root \in Used /\ KeepUsers
    BY <1>1, CarefulIs
  <2>3. t.inner # Root
    <3>1. ReassociateTypeOK /\ OperandsKept /\ Acyclic(gates)
      BY <1>1 DEF ReassociateInv
    <3>2. Root \in Indices
      BY <2>1 DEF RewriteOf
    <3>3. Operands(gates[Root]) = {t.inner, t.moved}
      BY <3>1, <3>2, RewriteIs
    <3> QED
      BY <3>1, <3>2, <3>3, NotItsOperand DEF Indices
  <2> QED
    BY <1>1, <2>1, <2>2, <2>3, RewriteEliminates
<1> QED
  BY <1>1, StaysExact, ReassociateInvariant, NeverCyclic, PTL
     DEF PassSpec, CarefulRewrites, EveryRewriteEliminates

\* Right usages, gates still in order and squares whose operand stays in place are what
\* new_circuit_from is to be handed.
LEMMA ExactIsProper ==
  ASSUME ReassociateInv, Acyclic(gates), UsagesExact, SquaresStay(Leaves), StaysOrdered
  PROVE  Proper(Leaves)
<1>1. ReassociateTypeOK /\ Indices = DOMAIN gates /\ Indices = 1 .. Len(gates) /\ Len(gates) \in Nat
  BY GatesAre DEF ReassociateInv, Indices
<1>2. /\ UsedClosed
      /\ \A g \in Used : gates[g] \in Node /\ \A o \in Operands(gates[g]) : g \in usages[o]
  BY ExactIsClosed
<1>3. usages \in [Indices -> SUBSET Indices]
  BY <1>1 DEF ReassociateTypeOK
<1>4. KeptOf(Leaves) = Used
  BY <1>3 DEF KeptOf, Leaves, Used
<1>5. usages \in Seq(SUBSET Used)
  <2>1. \A g \in Indices : usages[g] \in SUBSET Used
    BY <1>3 DEF UsagesExact, Used
  <2>2. usages \in [1 .. Len(gates) -> SUBSET Used]
    BY <1>1, <1>3, <2>1
  <2> QED
    BY <1>1, <2>2, SeqDef
<1>6. circuit.outputs \in Seq(Used)
  <2>1. circuit.outputs \in Seq(Indices)
    BY CircuitAssumption DEF Compiled, ReassociateTypeOK, ReassociateInv
  <2>2. Len(circuit.outputs) \in Nat /\ DOMAIN circuit.outputs = 1 .. Len(circuit.outputs)
        /\ circuit.outputs \in [1 .. Len(circuit.outputs) -> Indices]
    BY <2>1, LenProperties
  <2>3. \A i \in 1 .. Len(circuit.outputs) : circuit.outputs[i] \in Used
    BY <1>2, <2>2 DEF UsedClosed, Range
  <2>4. circuit.outputs \in [1 .. Len(circuit.outputs) -> Used]
    BY <2>2, <2>3
  <2> QED
    BY <2>2, <2>4, SeqDef
<1>7. ASSUME NEW g \in Used
      PROVE  /\ gates[g] \in Node /\ Operands(gates[g]) \subseteq Used \cap 1 .. g - 1
             /\ \A o \in Operands(gates[g]) : g \in usages[o]
  BY <1>2 DEF UsedClosed, Closed, StaysOrdered
<1>8. gates \in Seq(Node \cup {Tombstone}) /\ Used \subseteq Indices
  BY <1>1 DEF ReassociateTypeOK, Used
<1>9. Leaves.circuit = circuit /\ Leaves.gates = gates /\ Leaves.usages = usages
  BY DEF Leaves
<1> HIDE DEF Leaves
<1>10. Leaves.gates \in Seq(Node \cup {Tombstone})
  BY <1>8, <1>9
<1>11. Leaves.usages \in Seq(SUBSET KeptOf(Leaves))
       /\ KeptOf(Leaves) \subseteq DOMAIN Leaves.gates
  BY <1>1, <1>4, <1>5, <1>8, <1>9
<1>12. Leaves.circuit.outputs \in Seq(KeptOf(Leaves))
  BY <1>4, <1>6, <1>9
<1>13. ASSUME NEW g \in KeptOf(Leaves), NEW n, n = Leaves.gates[g]
       PROVE  /\ n \in Node
              /\ Operands(n) \subseteq KeptOf(Leaves) \cap 1 .. g - 1
              /\ \A o \in Operands(n) : g \in Leaves.usages[o]
  BY <1>4, <1>7, <1>9, <1>13
<1> QED
  BY <1>10, <1>11, <1>12, <1>13 DEF Proper

\* As long as all rewrites are careful, none reuses a gate after its root, and no operand of
\* a square has to move, what the rounds leave is what new_circuit_from relies on (see
\* NewCircuitProofs).
THEOREM CarefulLeavesProper == PassSpec /\ CarefulRewrites => [](SquaresStay(Leaves) => LeavesProper)
<1>1. ReassociateInv /\ Acyclic(gates) /\ UsagesExact => (SquaresStay(Leaves) => LeavesProper)
  BY ExactIsProper DEF LeavesProper
<1> QED
  BY <1>1, StaysExact, ReassociateInvariant, NeverCyclic, PTL

-----------------------------------------------------------------------------
\* What the outputs compute.

\* What holds of a gate when it holds of its operands, holds of every gate.
LEMMA HeightInduction ==
  ASSUME NEW all, Acyclic(all), \A g \in DOMAIN all : Operands(all[g]) \subseteq DOMAIN all,
         NEW S, \A g \in DOMAIN all : Operands(all[g]) \subseteq S => g \in S
  PROVE  DOMAIN all \subseteq S
<1>1. PICK h : Heights(all, h)
  BY DEF Acyclic
<1> DEFINE T == {h[g] : g \in DOMAIN all \ S}
<1> SUFFICES ASSUME T # {}
             PROVE  FALSE
  OBVIOUS
<1>2. T \in SUBSET Nat
  BY <1>1 DEF Heights
<1> HIDE DEF T
<1>3. PICK m \in T : \A n \in T : m <= n
  BY <1>2, Least
<1>4. PICK g \in DOMAIN all \ S : h[g] = m
  BY <1>3 DEF T
<1>5. PICK o \in Operands(all[g]) : o \notin S
  BY <1>4
<1>6. o \in DOMAIN all /\ h[o] < h[g] /\ h[o] \in Nat /\ h[g] \in Nat
  BY <1>1, <1>4, <1>5 DEF Heights
<1>7. h[o] \in T
  BY <1>5, <1>6 DEF T
<1> QED
  BY <1>3, <1>4, <1>6, <1>7

\* Gates that are all there stand for one thing only.
LEMMA OneValuation ==
  ASSUME NEW all, Acyclic(all), \A g \in DOMAIN all : Operands(all[g]) \subseteq DOMAIN all,
         \A g \in DOMAIN all : all[g] \in Node,
         NEW env, NEW f \in Valuations(all, env), NEW h \in Valuations(all, env)
  PROVE  \A g \in DOMAIN all : f[g] = h[g]
<1> DEFINE S == {g \in DOMAIN all : f[g] = h[g]}
<1>1. ASSUME NEW g \in DOMAIN all, Operands(all[g]) \subseteq S
      PROVE  g \in S
  <2>1. f[g] = NodeValue(all[g], env, f) /\ h[g] = NodeValue(all[g], env, h)
    BY NoOperands DEF Valuations
  <2>2. \A o \in Operands(all[g]) : f[o] = h[o]
    BY <1>1
  <2>3. all[g] \in Node /\ IsOp(all[g]) =>
          f[all[g].lhs] = h[all[g].lhs] /\ f[all[g].rhs] = h[all[g].rhs]
    BY <2>2, NodeKinds
  <2>4. NodeValue(all[g], env, f) = NodeValue(all[g], env, h)
    BY <2>3, NodeValueLocal
  <2> QED
    BY <2>1, <2>4
<1> HIDE DEF S
<1>2. DOMAIN all \subseteq S
  BY <1>1, HeightInduction
<1> QED
  BY <1>2 DEF S

\* A careful rewrite keeps, in every valuation, the value of every gate that is used after it,
\* but for the operation taken apart, in whose place the pair may be.
LEMMA UsedKeepValues ==
  ASSUME ReassociateInv, ReassociateInv', Acyclic(gates), Acyclic(gates'), UsagesExact, UsagesExact',
         Root \in Used, KeepUsers,
         NEW t, NEW child, RewriteOf(t, child), child = t.inner \/ gates'[t.inner] = gates[t.inner],
         NEW env, NEW val \in Valuations(gates, env), NEW now \in Valuations(gates', env),
         child = t.inner =>
           NodeValue(gates'[t.inner], env, now)
             = RingOp(gates[Root].op, val[t.pair[1]], val[t.pair[2]]),
         child # t.inner =>
           val[child] = RingOp(gates[Root].op, val[t.pair[1]], val[t.pair[2]])
  PROVE  \A g \in Used' : g # t.inner => now[g] = val[g]
<1>1. ReassociateTypeOK /\ OperandsKept /\ DeadAreTombstones
  BY DEF ReassociateInv
<1>2. /\ t \in Rewrites(Root) /\ Root \in Indices /\ child \in Indices
      /\ Indices' = Indices /\ dead' = dead
      /\ gates'[Root] = OpNode(gates[Root].op, child, t.other)
      /\ Operands(gates'[Root]) = {child, t.other} /\ IsOp(gates'[Root])
      /\ \A g \in Indices \ {Root, t.inner} : gates'[g] = gates[g]
  BY DEF RewriteOf
<1>3. usages[t.inner] = {Root} /\ t.inner \in Used /\ t.other \in Used
  BY <1>2, InnerIs
<1>4. /\ t.inner \notin Used' \/ child = t.inner
      /\ t.inner # Root
      /\ \A u \in Indices : IsOp(gates'[u]) => IsOp(gates[u]) /\ (u \in Used' => u \in Used)
      /\ child = t.inner => ~ IsOp(gates'[t.inner])
  <2> DEFINE L == LetGo({<<t.inner, Root>>, <<t.moved, Root>>})
  <2>1. /\ t.inner \in L /\ t.inner # Root
        /\ \A u \in Indices : IsOp(gates'[u]) => /\ IsOp(gates[u])
                                                 /\ u \in Used' <=> u \in Used /\ u \notin L
        /\ child = t.inner => ~ IsOp(gates'[t.inner])
    BY CarefulRewrite
  <2>2. t.inner \in Indices /\ IsOp(gates[t.inner])
    BY <1>1, <1>2, RewriteIs
  <2> HIDE DEF L
  <2> QED
    BY <2>1, <2>2
<1>5. t.other # t.inner /\ t.other \in Indices /\ t.inner \in Indices
  <2>1. t.other \in Operands(gates[t.inner]) /\ t.inner \in Indices /\ t.other \in Indices
    BY <1>1, <1>2, RewriteIs, SMTT(30)
  <2> QED
    BY <2>1, NotItsOperand DEF Indices
<1>6. ASSUME NEW g \in Used', NEW o \in Operands(gates'[g])
      PROVE  g \in usages'[o] /\ o \in Used'
  <2>1. g \in DOMAIN gates' /\ o \in DOMAIN gates'
    BY <1>6 DEF Used, OperandsKept, Indices, ReassociateInv
  <2>2. g \in Uses(gates', circuit'.outputs, o)
    BY <1>6, <2>1, UsesAre
  <2> QED
    BY <1>6, <2>1, <2>2 DEF UsagesExact, Used, Indices
<1>7. ASSUME NEW g \in Used'
      PROVE  g \in Indices /\ gates'[g] \in Node
  <2>1. g \in Indices /\ g \notin dead
    BY <1>2 DEF Used, UsagesExact
  <2>2. gates'[g] # Tombstone /\ gates'[g] \in Node \cup {Tombstone}
    <3>1. /\ gates' \in Seq(Node \cup {Tombstone}) /\ DOMAIN gates' = Indices
          /\ (gates'[g] = Tombstone <=> g \in dead)
      BY <1>2, <2>1 DEF ReassociateInv, ReassociateTypeOK, DeadAreTombstones, Indices
    <3> QED
      BY <2>1, <3>1
  <2> QED
    BY <2>1, <2>2
<1>8. /\ \A g \in Indices : gates'[g] # Tombstone => now[g] = NodeValue(gates'[g], env, now)
      /\ \A g \in Indices : gates[g] # Tombstone => val[g] = NodeValue(gates[g], env, val)
      /\ \A g \in Indices : now[g] \in Residue /\ val[g] \in Residue
  BY <1>2 DEF Valuations, Indices
<1> DEFINE S == {g \in Indices : g \in Used' /\ g # t.inner => now[g] = val[g]}
<1>9. ASSUME NEW g \in Indices, Operands(gates'[g]) \subseteq S
      PROVE  g \in S
  <2> SUFFICES ASSUME g \in Used', g # t.inner
               PROVE  now[g] = val[g]
    OBVIOUS
  <2>1. gates'[g] \in Node /\ gates'[g] # Tombstone
    BY <1>7, NoOperands
  <2>2. CASE g = Root
    <3> DEFINE op == gates[Root].op
    <3>1. now[t.other] = val[t.other]
      BY <1>2, <1>5, <1>6, <1>9, <2>2
    <3>2. now[child] = RingOp(op, val[t.pair[1]], val[t.pair[2]])
      <4>1. CASE child = t.inner
        <5>1. child \in Used'
          BY <1>2, <1>6, <2>2
        <5>2. now[t.inner] = NodeValue(gates'[t.inner], env, now)
          BY <1>5, <1>7, <1>8, <4>1, <5>1, NoOperands
        <5> QED
          BY <4>1, <5>2
      <4>2. CASE child # t.inner
        BY <1>2, <1>6, <1>9, <2>2, <4>2
      <4> QED
        BY <4>1, <4>2
    <3>3. now[Root] = RingOp(op, now[child], now[t.other])
      <4>1. now[Root] = NodeValue(OpNode(op, child, t.other), env, now)
        BY <1>2, <1>8, <2>1, <2>2
      <4> HIDE DEF op
      <4> QED
        BY <4>1 DEF NodeValue, OpNode, IsOp, IsInput, IsConst
    <3>4. val[Root] = RingOp(op, RingOp(op, val[t.pair[1]], val[t.pair[2]]), val[t.other])
      BY <1>2, RootValue
    <3> QED
      BY <2>2, <3>1, <3>2, <3>3, <3>4
  <2>3. CASE g # Root
    <3>1. gates'[g] = gates[g]
      BY <1>2, <2>3
    <3>2. ASSUME NEW o \in Operands(gates'[g])
          PROVE  now[o] = val[o]
      <4>1. g \in Used
        <5>1. IsOp(gates'[g])
          BY <3>2 DEF Operands
        <5> QED
          BY <1>4, <5>1
      <4>2. g \in usages[o]
        BY <3>1, <3>2, <4>1, ExactIsClosed
      <4>3. o # t.inner
        BY <1>3, <2>3, <4>2
      <4> QED
        BY <1>6, <1>9, <3>2, <4>3
    <3>3. IsOp(gates'[g]) => now[gates'[g].lhs] = val[gates'[g].lhs]
                             /\ now[gates'[g].rhs] = val[gates'[g].rhs]
      BY <2>1, <3>2, NodeKinds
    <3>4. NodeValue(gates'[g], env, now) = NodeValue(gates'[g], env, val)
      BY <2>1, <3>3, NodeValueLocal
    <3> QED
      BY <1>8, <2>1, <3>1, <3>4
  <2> QED
    BY <2>2, <2>3
<1> HIDE DEF S
<1>10. DOMAIN gates' \subseteq S
  <2>1. \A g \in DOMAIN gates' : Operands(gates'[g]) \subseteq DOMAIN gates'
    BY DEF ReassociateInv, OperandsKept, Indices
  <2>2. \A g \in DOMAIN gates' : Operands(gates'[g]) \subseteq S => g \in S
    BY <1>2, <1>9 DEF Indices
  <2> QED
    BY <2>1, <2>2, HeightInduction
<1> QED
  BY <1>2, <1>7, <1>10 DEF S, Indices

\* The outputs stand, for all arguments, for what they stood for in the circuit that was given.
OutputsStand ==
  \A env \in Environments :
    \A before \in Valuations(circuit.gates, env), now \in Valuations(gates, env) :
      \A o \in Range(circuit.outputs) : now[o] = before[o]

LEMMA RewriteKeepsOutputs ==
  ASSUME FoldsSafe, ReassociateInv, ReassociateInv', Acyclic(gates), Acyclic(gates'),
         UsagesExact, UsagesExact', Careful, Reuse \/ FoldPair,
         NEW env, NEW val \in Valuations(gates, env), NEW now \in Valuations(gates', env)
  PROVE  \A o \in Range(circuit.outputs) : now[o] = val[o]
<1>1. Root \in Used /\ KeepUsers
  BY CarefulIs
<1>2. ReassociateTypeOK /\ OperandsKept
  BY DEF ReassociateInv
<1>3. \E t \in Rewrites(Root) : \E child \in Indices :
        /\ RewriteOf(t, child)
        /\ child = t.inner \/ gates'[t.inner] = gates[t.inner]
        /\ child = t.inner =>
             NodeValue(gates'[t.inner], env, now)
               = RingOp(gates[Root].op, val[t.pair[1]], val[t.pair[2]])
        /\ child # t.inner =>
             val[child] = RingOp(gates[Root].op, val[t.pair[1]], val[t.pair[2]])
  <2>1. ASSUME NEW t \in Rewrites(Root), Root \in Indices
        PROVE  t.inner # Root /\ IsOp(gates[t.inner])
    <3>1. t.inner \in Operands(gates[Root]) /\ IsOp(gates[t.inner])
      BY <1>2, <2>1, RewriteIs
    <3> QED
      BY <2>1, <3>1, NotItsOperand DEF Indices
  <2>2. CASE Reuse
    <3>1. PICK t \in Rewrites(Root), child \in Indices :
            /\ RewriteOf(t, child) /\ (t.inner # Root => gates'[t.inner] = gates[t.inner])
            /\ Reusable(Root, t) /\ child = seen[Canonical(Pair(Root, t))]
      BY <2>2, ReuseIs
    <3>2. Root \in Indices
      BY <3>1 DEF RewriteOf
    <3>3. gates'[t.inner] = gates[t.inner] /\ IsOp(gates[t.inner])
      BY <2>1, <3>1, <3>2
    <3>4. child # t.inner
      <4>1. child = t.inner => ~ IsOp(gates'[t.inner])
        BY <1>1, <3>1, <3>3, CarefulRewrite
      <4> QED
        BY <3>3, <4>1
    <3>5. val[child] = RingOp(gates[Root].op, val[t.pair[1]], val[t.pair[2]])
      BY <3>1, <3>2, FoundValue
    <3> QED
      BY <3>1, <3>3, <3>4, <3>5
  <2>3. CASE FoldPair
    <3>1. PICK t \in Rewrites(Root) :
            /\ RewriteOf(t, t.inner) /\ (t.inner # Root => gates'[t.inner] = Folded(Root, t))
            /\ ~ PairOverflows(Root, t)
      BY <2>3, FoldPairIs
    <3>2. Root \in Indices /\ t.inner \in Indices
      BY <3>1 DEF RewriteOf
    <3>3. gates'[t.inner] = Folded(Root, t)
      BY <2>1, <3>1, <3>2
    <3>4. ~ IsOp(gates'[t.inner])
      BY <1>1, <3>1, CarefulRewrite
    <3>5. Folded(Root, t) \in Node
      BY <1>2, <3>2, FoldedTyped
    <3>6. NodeValue(Folded(Root, t), env, now) = NodeValue(Folded(Root, t), env, val)
      BY <3>3, <3>4, <3>5, NodeValueLocal
    <3>7. NodeValue(Folded(Root, t), env, val)
            = RingOp(gates[Root].op, val[t.pair[1]], val[t.pair[2]])
      BY <3>1, <3>2, FoldedValue
    <3> QED
      BY <3>1, <3>2, <3>3, <3>6, <3>7
  <2> QED
    BY <2>2, <2>3
<1>4. PICK t \in Rewrites(Root), child \in Indices :
        /\ RewriteOf(t, child)
        /\ child = t.inner \/ gates'[t.inner] = gates[t.inner]
        /\ child = t.inner =>
             NodeValue(gates'[t.inner], env, now)
               = RingOp(gates[Root].op, val[t.pair[1]], val[t.pair[2]])
        /\ child # t.inner =>
             val[child] = RingOp(gates[Root].op, val[t.pair[1]], val[t.pair[2]])
  BY <1>3
<1>5. \A g \in Used' : g # t.inner => now[g] = val[g]
  BY <1>1, <1>4, UsedKeepValues
<1>6. t.inner \notin Range(circuit.outputs)
  BY <1>1, <1>4, InnerIs
<1>7. Range(circuit.outputs) \subseteq Used'
  <2>1. circuit' = circuit /\ Indices' = Indices
    BY <1>4 DEF RewriteOf
  <2>2. Range(circuit.outputs) \subseteq Used
    BY ExactIsClosed DEF UsedClosed
  <2>3. \A o \in Range(circuit.outputs) : o \in Uses(gates', circuit'.outputs, o) /\ o \in Indices
    BY <2>1, <2>2, UsesAre DEF Used
  <2> QED
    BY <2>1, <2>3 DEF UsagesExact, Used
<1> QED
  BY <1>5, <1>6, <1>7

\* Killing keeps the values of what is used.
LEMMA KillKeepsOutputs ==
  ASSUME ReassociateInv, Acyclic(gates), UsagesExact, UsagesExact', ReassociateInv',
         NEW g \in to_kill, Kill(g),
         NEW env, NEW val \in Valuations(gates, env), NEW now \in Valuations(gates', env)
  PROVE  \A o \in Range(circuit.outputs) : now[o] = val[o]
<1>1. PICK gone : gates' = [u \in DOMAIN gates |-> IF u \in gone THEN Tombstone ELSE gates[u]]
  BY DEF Kill
<1>2. usages' = usages /\ Used' = Used /\ Indices' = Indices
  BY <1>1 DEF Kill, Used, Indices
<1>3. OperandsKept /\ ReassociateTypeOK
  BY DEF ReassociateInv
<1>4. ASSUME NEW u \in Used
      PROVE  u \in Indices /\ gates'[u] = gates[u] /\ gates[u] \in Node
  <2>1. u \in Indices /\ gates[u] \in Node
    BY <1>4, ExactIsClosed DEF Used
  <2>2. u \notin dead'
    BY <1>2, <1>4 DEF UsagesExact
  <2>3. gates'[u] # Tombstone
    BY <1>2, <2>1, <2>2 DEF ReassociateInv, DeadAreTombstones
  <2> QED
    BY <1>1, <2>1, <2>3 DEF Indices
<1>5. /\ \A u \in Indices : gates'[u] # Tombstone => now[u] = NodeValue(gates'[u], env, now)
      /\ \A u \in Indices : gates[u] # Tombstone => val[u] = NodeValue(gates[u], env, val)
  BY <1>2 DEF Valuations, Indices
<1> DEFINE S == {u \in Indices : u \in Used => now[u] = val[u]}
<1>6. ASSUME NEW u \in Indices, Operands(gates[u]) \subseteq S
      PROVE  u \in S
  <2> SUFFICES ASSUME u \in Used
               PROVE  now[u] = val[u]
    OBVIOUS
  <2>1. gates[u] \in Node /\ gates'[u] = gates[u] /\ gates[u] # Tombstone
    BY <1>4, NoOperands
  <2>2. Operands(gates[u]) \subseteq Used
    BY ExactIsClosed DEF UsedClosed, Closed
  <2>3. \A o \in Operands(gates[u]) : now[o] = val[o]
    BY <1>6, <2>2
  <2>4. IsOp(gates[u]) => now[gates[u].lhs] = val[gates[u].lhs] /\ now[gates[u].rhs] = val[gates[u].rhs]
    BY <2>1, <2>3, NodeKinds
  <2>5. NodeValue(gates[u], env, now) = NodeValue(gates[u], env, val)
    BY <2>1, <2>4, NodeValueLocal
  <2> QED
    BY <1>5, <2>1, <2>5
<1> HIDE DEF S
<1>7. DOMAIN gates \subseteq S
  <2>1. \A u \in DOMAIN gates : Operands(gates[u]) \subseteq DOMAIN gates
    BY <1>3 DEF OperandsKept, Indices
  <2>2. \A u \in DOMAIN gates : Operands(gates[u]) \subseteq S => u \in S
    BY <1>6 DEF Indices
  <2> QED
    BY <2>1, <2>2, HeightInduction
<1>8. Range(circuit.outputs) \subseteq Used
  BY ExactIsClosed DEF UsedClosed
<1> QED
  BY <1>4, <1>7, <1>8 DEF S, Indices

\* As long as all rewrites are careful, reassociation does not change what is computed, for
\* every circuit and all arguments: whatever has been reused, folded and killed, the outputs
\* stand for what they did in the circuit that was given.
THEOREM OutputsStandStill ==
  ASSUME FoldsSafe
  PROVE  PassSpec /\ CarefulRewrites => []OutputsStand
<1>1. PassInit /\ ReassociateInv /\ Acyclic(gates) => OutputsStand
  <2> SUFFICES ASSUME Init, ReassociateInv, Acyclic(gates),
                      NEW env \in Environments, NEW before \in Valuations(circuit.gates, env),
                      NEW now \in Valuations(gates, env), NEW o \in Range(circuit.outputs)
               PROVE  now[o] = before[o]
    BY DEF PassInit, OutputsStand
  <2>1. gates = circuit.gates /\ Compiled(circuit)
    BY CircuitAssumption DEF Init
  <2>2. gates \in Seq(Node) /\ circuit.outputs \in Seq(DOMAIN gates)
    BY <2>1 DEF Compiled
  <2>3. \A g \in DOMAIN gates : gates[g] \in Node /\ Operands(gates[g]) \subseteq DOMAIN gates
    BY <2>2 DEF ReassociateInv, OperandsKept, Indices
  <2>4. \A g \in DOMAIN gates : now[g] = before[g]
    BY <2>1, <2>3, OneValuation
  <2> QED
    BY <2>2, <2>4, RangeInSet
<1>2. ASSUME ReassociateInv, ReassociateInv', Acyclic(gates), Acyclic(gates)', UsagesExact,
             UsagesExact', OutputsStand, [PassStep]_passVars, [Careful]_vars
      PROVE  OutputsStand'
  <2>1. Acyclic(gates')
    BY <1>2 DEF Acyclic, Heights
  <2>2. CASE UNCHANGED <<circuit, gates>>
    BY <1>2, <2>2 DEF OutputsStand, Valuations
  <2>3. ASSUME NEW env \in Environments, NEW val \in Valuations(gates, env),
               NEW now \in Valuations(gates', env),
               \/ (Reuse \/ FoldPair) /\ Careful
               \/ \E g \in to_kill : Kill(g)
        PROVE  \A o \in Range(circuit.outputs) : now[o] = val[o]
    BY <1>2, <2>1, <2>3, RewriteKeepsOutputs, KillKeepsOutputs
  <2>4. CASE \/ (Reuse \/ FoldPair) /\ Careful
             \/ \E g \in to_kill : Kill(g)
    <3>1. circuit' = circuit
      BY <2>4 DEF Reuse, FoldPair, Kill, Accept
    <3> SUFFICES ASSUME NEW env \in Environments, NEW before \in Valuations(circuit.gates, env),
                        NEW now \in Valuations(gates', env), NEW o \in Range(circuit.outputs)
                 PROVE  now[o] = before[o]
      BY <3>1 DEF OutputsStand, Valuations
    <3>2. PICK val \in Valuations(gates, env) : TRUE
      BY <1>2, Valued DEF ReassociateInv
    <3>3. now[o] = val[o]
      BY <2>3, <2>4
    <3>4. val[o] = before[o]
      BY <1>2 DEF OutputsStand
    <3> QED
      BY <3>3, <3>4
  <2>5. \/ UNCHANGED vars \/ UNCHANGED <<circuit, gates>> \/ Reuse \/ FoldPair
        \/ \E g \in to_kill : Kill(g)
    BY <1>2 DEF PassStep, Reassociating, Rebuilding, passVars, roundVars, vars, Step, Skip,
         FoldPanics, KillAnother, NextRound, Finish
  <2>6. CASE UNCHANGED vars
    BY <2>2, <2>6 DEF vars
  <2> QED
    BY <1>2, <2>2, <2>4, <2>5, <2>6
<1> QED
  BY <1>1, <1>2, StaysExact, ReassociateInvariant, NeverCyclic, PTL DEF PassSpec, CarefulRewrites

-----------------------------------------------------------------------------
\* The pass from end to end.

\* Once the rounds have ended and their gates are handed over, nothing of the rounds moves,
\* and where what they leave is in order the compaction keeps its invariant.
AfterRounds ==
  verdict # "none" =>
    /\ phase = "done" /\ handed = Leaves
    /\ SquaresStay(Leaves) /\ StaysOrdered => RebuildInv

LEMMA AfterRoundsHolds ==
  ASSUME ReassociateInv, Acyclic(gates), UsagesExact, AfterRounds, [PassStep]_passVars
  PROVE  AfterRounds'
<1>1. CASE UNCHANGED passVars
  <2>1. UNCHANGED roundVars /\ UNCHANGED rebuildVars
    BY <1>1 DEF passVars
  <2>2. /\ Leaves' = Leaves /\ (SquaresStay(Leaves)' <=> SquaresStay(Leaves))
        /\ (StaysOrdered' <=> StaysOrdered) /\ phase' = phase
    BY <2>1 DEF roundVars, vars, Leaves, SquaresStay, KeptOf, StaysOrdered, Used, Indices
  <2>3. RebuildInv => RebuildInv'
    BY <2>1, RebuildStepHolds
  <2> QED
    BY <2>1, <2>2, <2>3 DEF AfterRounds, rebuildVars
<1>2. CASE Reassociating
  <2>1. phase = "running" /\ verdict' = verdict
    BY <1>2 DEF Reassociating, Step, Skip, Reuse, FoldPair, FoldPanics, Kill, KillAnother,
                NextRound, Finish, AtRoot, AtEnd, Running, rebuildVars
  <2> QED
    BY <2>1 DEF AfterRounds
<1>3. CASE Rebuilding
  <2>1. /\ phase' = "done" /\ Leaves' = Leaves /\ (SquaresStay(Leaves)' <=> SquaresStay(Leaves))
        /\ (StaysOrdered' <=> StaysOrdered)
    BY <1>3 DEF Rebuilding, roundVars, vars, Leaves, SquaresStay, KeptOf, StaysOrdered, Used, Indices
  <2>2. CASE HandOver(Leaves)
    <3>1. handed' = Leaves
      BY <2>2 DEF HandOver
    <3>2. SquaresStay(Leaves) /\ StaysOrdered => RebuildInv'
      BY <2>2, ExactIsProper, HandOverHolds
    <3> QED
      BY <2>1, <3>1, <3>2 DEF AfterRounds
  <2>3. CASE RebuildStep
    <3>1. verdict # "none" /\ handed' = handed
      BY <2>3 DEF RebuildStep, SkipUnused, Keep, Move, MoveFails, Answer, AtGate
    <3>2. RebuildInv => RebuildInv'
      BY <2>3, RebuildStepHolds
    <3> QED
      BY <2>1, <3>1, <3>2 DEF AfterRounds
  <2> QED
    BY <1>3, <2>2, <2>3 DEF Rebuilding
<1> QED
  BY <1>1, <1>2, <1>3 DEF PassStep

LEMMA AlwaysAfterRounds == PassSpec /\ CarefulRewrites => []AfterRounds
<1>1. PassInit => AfterRounds
  BY DEF PassInit, NewCircuitInit, AfterRounds
<1>2. /\ ReassociateInv /\ Acyclic(gates) /\ UsagesExact /\ AfterRounds /\ [PassStep]_passVars
      => AfterRounds'
  BY AfterRoundsHolds
<1> QED
  BY <1>1, <1>2, StaysExact, ReassociateInvariant, NeverCyclic, PTL DEF PassSpec, CarefulRewrites

\* Right usages never end in an error, so that there is a circuit.
LEMMA AnsweredWell ==
  ASSUME UsagesExact, AfterRounds, Answered, SquaresStay(Leaves), StaysOrdered
  PROVE  /\ RebuildInv /\ verdict = "ok" /\ handed = Leaves /\ Kept = {g \in DOMAIN usages : usages[g] # {}}
         /\ handed.gates = gates /\ handed.usages = usages /\ handed.circuit = circuit
<1>1. RebuildInv /\ handed = Leaves
  BY DEF AfterRounds, Answered
<1>2. handed.gates = gates /\ handed.usages = usages /\ handed.circuit = circuit
  BY <1>1 DEF Leaves
<1>3. Kept = {g \in DOMAIN usages : usages[g] # {}}
  BY <1>2 DEF Kept, KeptOf
<1>4. Proper(handed) /\ Kept \subseteq DOMAIN gates
  BY <1>1, <1>2 DEF RebuildInv, Proper, Kept
<1>5. RightUsages
  <2> SUFFICES ASSUME NEW g \in Kept, NEW u \in handed.usages[g]
               PROVE  \/ g \in Operands(handed.gates[u])
                      \/ u = g /\ g \in Range(handed.circuit.outputs)
    BY DEF RightUsages
  <2>1. u \in Uses(gates, circuit.outputs, g)
    BY <1>2, <1>4 DEF UsagesExact, Indices
  <2> QED
    BY <2>1, <1>2, UsesAre
<1>6. verdict = "ok"
  BY <1>1, <1>5 DEF RebuildInv, FailsOnlyOnWrongUsages, Answered
<1> QED
  BY <1>1, <1>2, <1>3, <1>6

\* Dead code elimination is complete, for every circuit: of what the pass answers with every
\* gate is an output or has a user, as long as all rewrites are careful and where no operand
\* of a square has to move.
THEOREM NothingUnusedIsLeft ==
  PassSpec /\ CarefulRewrites => [](SquaresStay(Leaves) => NothingUnused)
<1>1. ASSUME ReassociateInv, UsagesExact, AfterRounds, SquaresStay(Leaves)
      PROVE  NothingUnused
  <2> SUFFICES ASSUME Answered, StaysOrdered, NEW p \in DOMAIN alive
               PROVE  \E v : v \in Uses(alive, outputs, p)
    BY DEF NothingUnused
  <2>1. /\ RebuildInv /\ verdict = "ok" /\ Kept = {g \in DOMAIN usages : usages[g] # {}}
        /\ handed.gates = gates /\ handed.usages = usages /\ handed.circuit = circuit
    BY <1>1, AnsweredWell
  <2>2. PICK g \in Kept : Place(g) = p
    BY <2>1, AnsweredIs
  <2>3. PICK u : u \in usages[g]
    BY <2>1, <2>2
  <2>4. DOMAIN usages = DOMAIN gates
    BY <1>1 DEF ReassociateInv, ReassociateTypeOK, Indices
  <2>5. u \in Uses(gates, circuit.outputs, g) /\ u \in Kept
    BY <1>1, <2>1, <2>2, <2>3, <2>4 DEF UsagesExact, Indices, Used
  <2>6. CASE g \in Operands(gates[u])
    <3>1. IsOp(gates[u]) /\ (g = gates[u].lhs \/ g = gates[u].rhs)
      BY <2>6 DEF Operands
    <3>2. /\ Place(u) \in DOMAIN alive
          /\ alive[Place(u)] = OpNode(gates[u].op, Place(gates[u].lhs), Place(gates[u].rhs))
      BY <2>1, <2>5, <3>1, AnsweredIs
    <3>3. p \in Operands(alive[Place(u)])
      BY <2>2, <3>1, <3>2 DEF Operands, OpNode, IsOp
    <3> QED
      BY <3>2, <3>3, UsesAre
  <2>7. CASE u = g /\ g \in Range(circuit.outputs)
    <3>1. Range(outputs) = {Place(o) : o \in {q \in Range(circuit.outputs) : q < next}} /\ g < next
      BY <2>1, <2>2 DEF RebuildInv
    <3>2. p \in Range(outputs)
      BY <2>2, <2>7, <3>1
    <3> QED
      BY <3>2, UsesAre
  <2> QED
    BY <2>5, <2>6, <2>7, UsesAre
<1>2. ReassociateInv /\ UsagesExact /\ AfterRounds => (SquaresStay(Leaves) => NothingUnused)
  BY <1>1
<1> QED
  BY <1>2, AlwaysAfterRounds, StaysExact, ReassociateInvariant, PTL

\* The compiler is given outputs in any order, and new_circuit_from lists them in the order of
\* the gates: a caller that pairs them with positions relies on these being one.
OrderedOutputs == \A c \in Circuits : Ascending(c.outputs)

\* reuse_driven_reassociation does not change what is computed, for every circuit and all
\* arguments: the pass answers with a circuit in topological order, and each of its outputs
\* computes what the output in its position did before folding, reuse, killing, renaming and
\* reordering.
THEOREM PassKeepsOutputs ==
  ASSUME FoldsSafe, OrderedOutputs
  PROVE  PassSpec /\ CarefulRewrites => [](SquaresStay(Leaves) => OutputsKeepValue)
<1>1. ASSUME ReassociateInv, Acyclic(gates), UsagesExact, OutputsStand, AfterRounds, SquaresStay(Leaves)
      PROVE  OutputsKeepValue
  <2> SUFFICES ASSUME Answered, StaysOrdered
               PROVE  /\ verdict = "ok" /\ Len(outputs) = Len(circuit.outputs) /\ Topological(alive)
                      /\ \A env \in Environments : \A i \in DOMAIN outputs :
                           Denote(alive, env)[outputs[i]]
                             = Denote(circuit.gates, env)[circuit.outputs[i]]
    BY DEF OutputsKeepValue
  <2>1. /\ RebuildInv /\ verdict = "ok" /\ Kept = {g \in DOMAIN usages : usages[g] # {}}
        /\ handed.gates = gates /\ handed.usages = usages /\ handed.circuit = circuit
    BY <1>1, AnsweredWell
  <2>2. Compiled(circuit) /\ Ascending(circuit.outputs) /\ ReassociateTypeOK /\ OperandsKept
    BY <1>1, CircuitAssumption DEF ReassociateInv, OrderedOutputs
  <2>3. /\ Len(outputs) = Len(circuit.outputs) /\ DOMAIN outputs = DOMAIN circuit.outputs
        /\ \A i \in DOMAIN outputs : /\ circuit.outputs[i] \in Kept
                                     /\ outputs[i] = Place(circuit.outputs[i])
    BY <2>1, <2>2, RebuiltOutputs
  <2>4. ASSUME NEW env \in Environments, NEW i \in DOMAIN outputs
        PROVE  Denote(alive, env)[outputs[i]] = Denote(circuit.gates, env)[circuit.outputs[i]]
    <3>1. env \in Assignments
      BY ResiduesAreArguments
    <3>2. PICK now \in Valuations(gates, env) : TRUE
      BY <1>1, <2>2, Valued
    <3>3. Denote(circuit.gates, env) \in Valuations(circuit.gates, env)
      <4>1. circuit.gates \in Seq(Node) /\ Topological(circuit.gates)
        BY <2>2 DEF Compiled
      <4> QED
        BY <4>1, <3>1, DenoteEquation DEF Valuations
    <3>4. \A g \in Kept : now[g] = NodeValue(handed.gates[g], env, now)
      <4>1. ASSUME NEW g \in Kept PROVE g \in DOMAIN gates /\ gates[g] # Tombstone
        <5>1. g \in Used
          BY <2>1, <2>2 DEF Used, ReassociateTypeOK
        <5>2. gates[g] \in Node
          BY <1>1, <5>1, ExactIsClosed
        <5> QED
          BY <5>1, <5>2, NoOperands DEF Used, Indices
      <4> QED
        BY <2>1, <3>2, <4>1 DEF Valuations
    <3>5. Denote(alive, env)[Place(circuit.outputs[i])] = now[circuit.outputs[i]]
      BY <2>1, <2>3, <3>1, <3>4, RebuiltValues
    <3>6. now[circuit.outputs[i]] = Denote(circuit.gates, env)[circuit.outputs[i]]
      BY <1>1, <2>3, <3>2, <3>3 DEF OutputsStand, Range
    <3> QED
      BY <2>3, <3>5, <3>6
  <2> QED
    BY <2>1, <2>3, <2>4, AnsweredIs
<1>2. ReassociateInv /\ Acyclic(gates) /\ UsagesExact /\ OutputsStand /\ AfterRounds
      => (SquaresStay(Leaves) => OutputsKeepValue)
  BY <1>1
<1> QED
  BY <1>2, AlwaysAfterRounds, StaysExact, ReassociateInvariant, NeverCyclic, OutputsStandStill, PTL

=============================================================================
