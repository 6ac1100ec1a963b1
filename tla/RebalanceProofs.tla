--------------------------- MODULE RebalanceProofs ---------------------------
(* What holds of tree balancing for every circuit, whatever the queue gives   *)
(* first among equals: a gate is mapped once, no two gates to the same one;   *)
(* the trees of + and * keep their values, and so does the output of the      *)
(* circuit that is made of them; there is room for all of them; and one tree  *)
(* of inputs gets balanced.                                                   *)
EXTENDS Rebalance, NewCircuitProofs

InTree(g, root) ==
  IsOp(circuit.gates[g]) /\ (g = root \/ ~ IsRoot(circuit, g))

\* The circuit and what balance does in it: the roots on the stack go downwards.
StackHeld ==
  /\ circuit \in Circuits
  /\ index \in Nat /\ index > Len(circuit.gates)
  /\ \A i \in DOMAIN balancing : IsOp(circuit.gates[balancing[i]])
  /\ \A i, j \in DOMAIN balancing : i < j => balancing[j] < balancing[i]
  /\ queue # << >> => balancing # << >>

\* The operations that have a rank are those that are mapped, and the innermost once it
\* is flattened; those on the stack are not mapped yet.
RanksHeld ==
  /\ DOMAIN ranks = Balanced \cup {g \in Old : queue # << >> /\ g = Innermost}
  /\ Range(balancing) \cap Balanced = {}

\* An old gate in the queue is a leaf that can be placed, a new one no old gate is
\* mapped to; the last one is new.
QueueHeld ==
  /\ queue \in Seq([gate : Nat, rank : Nat])
  /\ \A i \in DOMAIN queue :
       LET g == queue[i].gate IN
       IF g \in Old THEN IsOp(circuit.gates[g]) => g \in Balanced
       ELSE g \in DOMAIN map /\ \A h \in Old \cap DOMAIN map : map[h] # map[g]
  /\ Len(queue) = 1 => queue[1].gate \notin Old

MappedApart == \A g, h \in Old \cap DOMAIN map : map[g] = map[h] => g = h

RebalanceInv ==
  /\ RebalanceTypeOK /\ StackHeld /\ RanksHeld /\ QueueHeld /\ MappedApart
  /\ Topological(rebalanced)

-----------------------------------------------------------------------------
\* The circuit is one of the compiler's.
LEMMA GivenCircuit ==
  ASSUME circuit \in Circuits
  PROVE  /\ circuit.gates \in Seq(Node) /\ Topological(circuit.gates)
         /\ Len(circuit.gates) \in Nat /\ Old = 1 .. Len(circuit.gates)
         /\ \A g \in Old :
              /\ circuit.gates[g] \in Node
              /\ IsOp(circuit.gates[g]) => /\ circuit.gates[g].op \in Ops
                                           /\ circuit.gates[g].lhs \in 1 .. g - 1
                                           /\ circuit.gates[g].rhs \in 1 .. g - 1
<1>1. circuit.gates \in Seq(Node) /\ Topological(circuit.gates)
  BY CircuitAssumption DEF Compiled
<1>2. \A n \in Node : IsOp(n) => n.op \in Ops
  BY NodeKinds
<1> QED
  BY <1>1, <1>2, OperandsBefore DEF Old

-----------------------------------------------------------------------------
\* The leaves of a tree.

Below(g, root, f) ==
  IF InTree(g, root) THEN f[circuit.gates[g].lhs] \o f[circuit.gates[g].rhs] ELSE <<g>>

LEMMA BelowLocal ==
  ASSUME NEW g, NEW root, NEW f, NEW h,
         IsOp(circuit.gates[g]) => /\ f[circuit.gates[g].lhs] = h[circuit.gates[g].lhs]
                                   /\ f[circuit.gates[g].rhs] = h[circuit.gates[g].rhs]
  PROVE  Below(g, root, f) = Below(g, root, h)
BY DEF Below, InTree

\* There is one way to take the gates apart below a root.
LEMMA LeavesEquation ==
  ASSUME circuit \in Circuits, NEW root \in Old
  PROVE  \E below \in [Old -> Seq(Old)] :
           /\ Leaves(root) = below[root]
           /\ \A g \in Old : below[g] = Below(g, root, below)
<1> DEFINE N == Len(circuit.gates)
           P(f) == f = [g \in Old |-> Below(g, root, f)]
           step == [p \in (1 .. N) \X [1 .. N -> Seq(1 .. N)] |-> Below(p[1], root, p[2])]
           d == CHOOSE f : P(f)
<1>1. Leaves(root) = d[root]
  BY DEF Leaves, Below, InTree, Old
<1>2. /\ N \in Nat /\ Old = 1 .. N
      /\ \A g \in 1 .. N : IsOp(circuit.gates[g]) => /\ circuit.gates[g].lhs \in 1 .. g - 1
                                                   /\ circuit.gates[g].rhs \in 1 .. g - 1
  BY GivenCircuit
<1>3. Causal(N, Seq(1 .. N), step)
  <2>1. ASSUME NEW g \in 1 .. N, NEW f \in [1 .. N -> Seq(1 .. N)]
        PROVE  Below(g, root, f) \in Seq(1 .. N)
    <3>1. CASE InTree(g, root)
      <4>1. circuit.gates[g].lhs \in 1 .. N /\ circuit.gates[g].rhs \in 1 .. N
        BY <3>1, <1>2 DEF InTree
      <4>2. f[circuit.gates[g].lhs] \in Seq(1 .. N) /\ f[circuit.gates[g].rhs] \in Seq(1 .. N)
        BY <4>1
      <4> HIDE DEF N
      <4> QED
        BY <3>1, <4>2, ConcatProperties DEF Below
    <3>2. CASE ~ InTree(g, root)
      BY <3>2 DEF Below
    <3> QED
      BY <3>1, <3>2
  <2>2. step \in [(1 .. N) \X [1 .. N -> Seq(1 .. N)] -> Seq(1 .. N)]
    BY <2>1
  <2>3. ASSUME NEW g \in 1 .. N, NEW f, NEW h, \A k \in 1 .. g - 1 : f[k] = h[k]
        PROVE  Below(g, root, f) = Below(g, root, h)
    <3>1. IsOp(circuit.gates[g]) => /\ f[circuit.gates[g].lhs] = h[circuit.gates[g].lhs]
                                    /\ f[circuit.gates[g].rhs] = h[circuit.gates[g].rhs]
      BY <2>3, <1>2
    <3> QED
      BY <3>1, BelowLocal
  <2>4. ASSUME NEW g \in 1 .. N, NEW f \in [1 .. N -> Seq(1 .. N)],
               NEW h \in [1 .. N -> Seq(1 .. N)], \A k \in 1 .. g - 1 : f[k] = h[k]
        PROVE  step[<<g, f>>] = step[<<g, h>>]
    <3>1. Below(g, root, f) = Below(g, root, h)
      BY <2>3, <2>4
    <3>2. step[<<g, f>>] = Below(g, root, f) /\ step[<<g, h>>] = Below(g, root, h)
      OBVIOUS
    <3> HIDE DEF step
    <3> QED
      BY <3>1, <3>2
  <2> QED
    BY <2>2, <2>4 DEF Causal
<1>4. PICK f : Solves(f, N, Seq(1 .. N), step)
  <2>1. Seq(1 .. N) # {}
    <3>1. << >> \in Seq(1 .. N)
      OBVIOUS
    <3> QED
      BY <3>1
  <2> HIDE DEF step, N
  <2> QED
    BY <1>2, <1>3, <2>1, RecursionSolvable
<1>5. f \in [1 .. N -> Seq(1 .. N)] /\ \A g \in 1 .. N : f[g] = Below(g, root, f)
  <2>1. \A g \in 1 .. N : \A h \in [1 .. N -> Seq(1 .. N)] : step[<<g, h>>] = Below(g, root, h)
    OBVIOUS
  <2> HIDE DEF N, step
  <2> QED
    BY <1>4, <2>1 DEF Solves
<1> HIDE DEF N, step
<1>6. P(f)
  BY <1>2, <1>5
<1>7. P(d)
  <2> HIDE DEF P
  <2> QED
    BY <1>6
<1> HIDE DEF d
<1>8. \A g \in 1 .. N : d[g] = Below(g, root, d)
  BY <1>2, <1>7
<1>9. \A g \in 1 .. N : d[g] = f[g]
  <2> DEFINE S == {g \in 1 .. N : d[g] = f[g]}
  <2>1. ASSUME NEW g \in 1 .. N, (1 .. g - 1) \subseteq S
        PROVE  g \in S
    <3>1. \A k \in 1 .. g - 1 : d[k] = f[k]
      BY <2>1
    <3>2. Below(g, root, d) = Below(g, root, f)
      BY <3>1, <1>2, BelowLocal
    <3> QED
      BY <3>2, <1>5, <1>8
  <2>2. 1 .. N \subseteq S
    <3> HIDE DEF S
    <3> QED
      BY <1>2, <2>1, PositionInduction
  <2> QED
    BY <2>2
<1>10. d \in [Old -> Seq(Old)]
  BY <1>2, <1>5, <1>7, <1>9
<1> QED
  BY <1>1, <1>2, <1>8, <1>10

\* They lie before the root, are not operations but for other roots, and there are two
\* at least.
LEMMA LeavesAre ==
  ASSUME circuit \in Circuits, NEW root \in Old, IsOp(circuit.gates[root])
  PROVE  /\ Leaves(root) \in Seq(Old) /\ Len(Leaves(root)) > 1
         /\ \A i \in DOMAIN Leaves(root) :
              /\ Leaves(root)[i] < root
              /\ IsOp(circuit.gates[Leaves(root)[i]]) => IsRoot(circuit, Leaves(root)[i])
<1> DEFINE N == Len(circuit.gates)
<1>1. /\ N \in Nat /\ Old = 1 .. N
      /\ \A g \in 1 .. N : IsOp(circuit.gates[g]) => /\ circuit.gates[g].lhs \in 1 .. g - 1
                                                   /\ circuit.gates[g].rhs \in 1 .. g - 1
  BY GivenCircuit
<1>2. PICK below \in [Old -> Seq(Old)] :
        /\ Leaves(root) = below[root]
        /\ \A g \in Old : below[g] = Below(g, root, below)
  BY LeavesEquation
<1> DEFINE Right(g) ==
             Len(below[g]) > 0 /\ \A x \in Range(below[g]) : x <= g /\ ~ InTree(x, root)
           S == {g \in 1 .. N : Right(g)}
<1>3. /\ \A g \in 1 .. N : below[g] \in Seq(1 .. N)
      /\ \A g \in 1 .. N : Len(below[g]) \in Nat /\ Range(below[g]) \subseteq 1 .. N
  BY <1>1, <1>2, RangeInSet, LenProperties
<1>4. ASSUME NEW g \in 1 .. N, InTree(g, root),
             Right(circuit.gates[g].lhs), Right(circuit.gates[g].rhs)
      PROVE  /\ Len(below[g]) > 1
             /\ \A x \in Range(below[g]) : x < g /\ ~ InTree(x, root)
  <2> DEFINE l == circuit.gates[g].lhs
             r == circuit.gates[g].rhs
  <2>1. l \in 1 .. g - 1 /\ r \in 1 .. g - 1
    <3> HIDE DEF Right
    <3> QED
      BY <1>1, <1>4 DEF InTree
  <2>2. below[g] = below[l] \o below[r]
    <3> HIDE DEF Right
    <3> QED
      BY <1>1, <1>2, <1>4 DEF Below
  <2>3. Right(l) /\ Right(r)
    BY <1>4
  <2> HIDE DEF l, r, N
  <2>4. /\ below[l] \in Seq(1 .. N) /\ below[r] \in Seq(1 .. N)
        /\ Len(below[l]) \in Nat /\ Len(below[r]) \in Nat
        /\ Range(below[l]) \subseteq 1 .. N /\ Range(below[r]) \subseteq 1 .. N
    BY <1>1, <1>3, <2>1
  <2>5. /\ Len(below[g]) = Len(below[l]) + Len(below[r])
        /\ Range(below[g]) = Range(below[l]) \cup Range(below[r])
    <3> HIDE DEF Right
    <3> QED
      BY <2>2, <2>4, ConcatProperties, RangeConcatenation
  <2>6. ASSUME NEW x \in Range(below[g])
        PROVE  x < g /\ ~ InTree(x, root)
    <3>1. x \in 1 .. N /\ (x \in Range(below[l]) \/ x \in Range(below[r]))
      BY <2>4, <2>5
    <3>2. (x <= l \/ x <= r) /\ ~ InTree(x, root)
      BY <2>3, <3>1
    <3> QED
      BY <1>1, <2>1, <3>1, <3>2
  <2>7. Len(below[g]) > 1
    <3>1. Len(below[l]) > 0 /\ Len(below[r]) > 0
      BY <2>3
    <3>2. Len(below[l]) \in Nat /\ Len(below[r]) \in Nat
      BY <2>4
    <3>3. Len(below[g]) = Len(below[l]) + Len(below[r])
      BY <2>5
    <3>4. \A i, j \in Nat : i > 0 /\ j > 0 => i + j > 1
      OBVIOUS
    <3> QED
      BY <3>1, <3>2, <3>3, <3>4, Zenon
  <2> QED
    BY <2>6, <2>7
<1>5. ASSUME NEW g \in 1 .. N, (1 .. g - 1) \subseteq S
      PROVE  g \in S
  <2>1. CASE InTree(g, root)
    <3>1. Right(circuit.gates[g].lhs) /\ Right(circuit.gates[g].rhs)
      <4>1. circuit.gates[g].lhs \in 1 .. g - 1 /\ circuit.gates[g].rhs \in 1 .. g - 1
        BY <1>1, <2>1 DEF InTree
      <4> QED
        BY <4>1, <1>5
    <3>2. /\ Len(below[g]) > 1
          /\ \A x \in Range(below[g]) : x < g /\ ~ InTree(x, root)
      <4> HIDE DEF Right
      <4> QED
        BY <2>1, <3>1, <1>4
    <3>3. Len(below[g]) > 0 /\ \A x \in Range(below[g]) : x <= g
      <4>1. Range(below[g]) \subseteq 1 .. N /\ Len(below[g]) \in Nat /\ N \in Nat /\ g \in 1 .. N
        BY <1>1, <1>3
      <4>2. \A x \in Range(below[g]) : x \in 1 .. N /\ x < g
        BY <3>2, <4>1
      <4>3. Len(below[g]) > 1
        BY <3>2
      <4> HIDE DEF Right, N
      <4> QED
        BY <4>1, <4>2, <4>3
    <3>4. Right(g)
      BY <3>2, <3>3
    <3> QED
      BY <3>4
  <2>2. CASE ~ InTree(g, root)
    <3>1. below[g] = <<g>>
      BY <1>1, <1>2, <2>2 DEF Below
    <3>2. Len(below[g]) = 1 /\ Range(below[g]) = {g} /\ g <= g
      BY <1>1, <3>1 DEF Range
    <3>3. Right(g)
      BY <3>2, <2>2
    <3> QED
      BY <3>3
  <2> QED
    BY <2>1, <2>2
<1>6. 1 .. N \subseteq S
  <2> HIDE DEF S, N
  <2> QED
    BY <1>1, <1>5, PositionInduction
<1>7. InTree(root, root) /\ root \in 1 .. N
  BY <1>1 DEF InTree
<1>8. Right(circuit.gates[root].lhs) /\ Right(circuit.gates[root].rhs)
  <2>1. circuit.gates[root].lhs \in 1 .. N /\ circuit.gates[root].rhs \in 1 .. N
    BY <1>1, <1>7
  <2> QED
    BY <2>1, <1>6
<1>9. /\ Len(Leaves(root)) > 1
      /\ \A x \in Range(Leaves(root)) : x < root /\ ~ InTree(x, root)
  <2> HIDE DEF Right, N
  <2> QED
    BY <1>2, <1>4, <1>7, <1>8
<1>10. Leaves(root) \in Seq(Old)
  BY <1>2
<1> QED
  BY <1>9, <1>10 DEF InTree, Range

-----------------------------------------------------------------------------
\* Sums and products of many residues.

Unit(op) == IF op = "Add" THEN 0 ELSE 1 % Modulus

LEMMA RingUnit ==
  ASSUME NEW op \in AssociativeOps, NEW x \in Residue
  PROVE  /\ Unit(op) \in Residue
         /\ RingOp(op, Unit(op), x) = x /\ RingOp(op, x, Unit(op)) = x
<1>1. Unit(op) \in Residue
  BY WordsAssumption DEF Unit, Residue
<1>2. RingOp(op, Unit(op), x) = x
  <2>1. x \in Int /\ x % Modulus = x /\ Modulus \in Nat \ {0}
    BY ResidueFacts, WordsAssumption
  <2>2. CASE op = "Add"
    <3>1. Exact("Add", 0, x) = x
      BY <2>1 DEF Exact
    <3>2. Unit(op) = 0
      BY <2>2 DEF Unit
    <3>3. RingOp(op, 0, x) = Exact("Add", 0, x) % Modulus
      BY <2>2 DEF RingOp
    <3> QED
      BY <2>1, <3>1, <3>2, <3>3, Zenon
  <2>3. CASE op = "Mul"
    <3> DEFINE one == 1
    <3>1. one \in Int /\ op \in BinOp
      BY <2>3 DEF BinOp
    <3>2. Exact(op, one, x) = x
      BY <2>1, <2>3 DEF Exact
    <3>3. Unit(op) = one % Modulus
      BY <2>3 DEF Unit
    <3> HIDE DEF one
    <3>4. Exact(op, one % Modulus, x % Modulus) % Modulus = Exact(op, one, x) % Modulus
      BY <2>1, <3>1, ExactMod
    <3> QED
      BY <2>1, <3>2, <3>3, <3>4 DEF RingOp
  <2> QED
    BY <2>2, <2>3 DEF AssociativeOps
<1>3. RingOp(op, x, Unit(op)) = RingOp(op, Unit(op), x)
  BY <1>1, RingCommutes
<1> QED
  BY <1>1, <1>2, <1>3

\* f[k + 1] is the total of the first k of the n numbers of v.
IsRun(f, op, n, v) ==
  /\ f \in [1 .. n + 1 -> Residue]
  /\ f[1] = Unit(op)
  /\ \A k \in 2 .. n + 1 : f[k] = RingOp(op, f[k - 1], v[k - 1])

Run(op, n, v) == CHOOSE f : IsRun(f, op, n, v)

Total(op, n, v) == Run(op, n, v)[n + 1]

LEMMA RunIs ==
  ASSUME NEW op \in AssociativeOps, NEW n \in Nat, NEW v \in [1 .. n -> Residue]
  PROVE  IsRun(Run(op, n, v), op, n, v) /\ Total(op, n, v) \in Residue
<1> DEFINE N == n + 1
           Next1(k, f) == IF k = 1 THEN Unit(op) ELSE RingOp(op, f[k - 1], v[k - 1])
           step == [p \in (1 .. N) \X [1 .. N -> Residue] |-> Next1(p[1], p[2])]
<1>1. N \in Nat
  OBVIOUS
<1>2. ASSUME NEW k \in 1 .. N, NEW f \in [1 .. N -> Residue]
      PROVE  Next1(k, f) \in Residue /\ step[<<k, f>>] = Next1(k, f)
  <2>1. CASE k = 1
    BY <2>1, RingUnit, ResidueFacts
  <2>2. CASE k # 1
    <3>1. f[k - 1] \in Residue /\ v[k - 1] \in Residue
      BY <2>2
    <3> QED
      BY <2>2, <3>1, RingTyped
  <2> QED
    BY <2>1, <2>2
<1>3. Causal(N, Residue, step)
  <2>1. step \in [(1 .. N) \X [1 .. N -> Residue] -> Residue]
    BY <1>2
  <2>2. ASSUME NEW k \in 1 .. N, NEW f \in [1 .. N -> Residue],
               NEW h \in [1 .. N -> Residue], \A j \in 1 .. k - 1 : f[j] = h[j]
        PROVE  step[<<k, f>>] = step[<<k, h>>]
    <3>1. Next1(k, f) = Next1(k, h)
      BY <2>2
    <3> HIDE DEF step, Next1
    <3> QED
      BY <3>1, <1>2
  <2> HIDE DEF step
  <2> QED
    BY <2>1, <2>2 DEF Causal
<1>4. PICK f : Solves(f, N, Residue, step)
  <2> HIDE DEF step, N
  <2> QED
    BY <1>1, <1>3, ResidueFacts, RecursionSolvable
<1>5. f \in [1 .. N -> Residue] /\ \A k \in 1 .. N : f[k] = Next1(k, f)
  <2> HIDE DEF step, N, Next1
  <2> QED
    BY <1>2, <1>4 DEF Solves
<1>6. IsRun(f, op, n, v)
  BY <1>5 DEF IsRun
<1>7. IsRun(Run(op, n, v), op, n, v)
  BY <1>6 DEF Run
<1> QED
  BY <1>7 DEF IsRun, Total

\* u is v without its i-th number.
Dropped(u, n, v, i) == \A k \in 1 .. n - 1 : u[k] = v[IF k < i THEN k ELSE k + 1]

\* The total does not depend on where a number stands.
LEMMA TotalOfDropped ==
  ASSUME NEW op \in AssociativeOps, NEW n \in Nat \ {0}, NEW i \in 1 .. n,
         NEW v \in [1 .. n -> Residue], NEW u \in [1 .. n - 1 -> Residue],
         Dropped(u, n, v, i)
  PROVE  Total(op, n, v) = RingOp(op, Total(op, n - 1, u), v[i])
<1> DEFINE f == Run(op, n, v)
           g == Run(op, n - 1, u)
           Op(x, y) == RingOp(op, x, y)
           S == {k \in 1 .. n + 1 : f[k] = IF k <= i THEN g[k] ELSE Op(g[k - 1], v[i])}
<1>1. n - 1 \in Nat /\ n - 1 + 1 = n
  OBVIOUS
<1>2. IsRun(f, op, n, v) /\ IsRun(g, op, n - 1, u)
  BY <1>1, RunIs
<1> HIDE DEF f, g
<1>3. /\ f[1] = Unit(op) /\ \A k \in 2 .. n + 1 : f[k] = Op(f[k - 1], v[k - 1])
      /\ g[1] = Unit(op) /\ \A k \in 2 .. n : g[k] = Op(g[k - 1], u[k - 1])
      /\ \A k \in 1 .. n : g[k] \in Residue
  BY <1>1, <1>2 DEF IsRun
<1>4. /\ \A k \in 1 .. n : v[k] \in Residue
      /\ \A k \in 1 .. n - 1 : k < i => u[k] = v[k]
      /\ \A k \in 1 .. n - 1 : ~ (k < i) => u[k] = v[k + 1]
  BY DEF Dropped
<1> HIDE DEF Op
<1>5. ASSUME NEW k \in 1 .. n + 1, (1 .. k - 1) \subseteq S
      PROVE  k \in S
  <2>1. CASE k = 1
    BY <2>1, <1>3
  <2>2. CASE k # 1 /\ k <= i
    <3>1. f[k - 1] = g[k - 1]
      BY <2>2, <1>5
    <3>2. f[k] = Op(f[k - 1], v[k - 1]) /\ g[k] = Op(g[k - 1], u[k - 1])
      BY <2>2, <1>3
    <3>3. u[k - 1] = v[k - 1]
      BY <2>2, <1>4
    <3> QED
      BY <2>2, <3>1, <3>2, <3>3
  <2>3. CASE k = i + 1
    <3>1. f[i] = g[i]
      BY <2>3, <1>5
    <3>2. f[k] = Op(f[i], v[i])
      BY <2>3, <1>3
    <3> QED
      BY <2>3, <3>1, <3>2
  <2>4. CASE k > i + 1
    <3> DEFINE m == k - 1
    <3>1. m \in 1 .. k - 1 /\ m \in 2 .. n /\ ~ (m <= i)
          /\ m - 1 \in 1 .. n - 1 /\ ~ (m - 1 < i) /\ m - 1 + 1 = m
      BY <2>4
    <3>2. f[k] = Op(f[m], v[m])
      BY <2>4, <1>3
    <3> HIDE DEF m
    <3>3. f[m] = Op(g[m - 1], v[i])
      <4>1. m \in S
        BY <3>1, <1>5
      <4> QED
        BY <3>1, <4>1
    <3>4. g[m] = Op(g[m - 1], v[m])
      <4>1. u[m - 1] = v[m]
        BY <3>1, <1>4
      <4> QED
        BY <4>1, <3>1, <1>3
    <3>5. g[m - 1] \in Residue /\ v[i] \in Residue /\ v[m] \in Residue
      BY <3>1, <1>3, <1>4
    <3>6. Op(Op(g[m - 1], v[i]), v[m]) = Op(Op(g[m - 1], v[m]), v[i])
      BY <3>5, RingSwaps DEF Op
    <3>7. f[k] = Op(g[k - 1], v[i])
      BY <3>2, <3>3, <3>4, <3>6 DEF m
    <3> QED
      BY <2>4, <3>7
  <2> QED
    BY <2>1, <2>2, <2>3, <2>4
<1>6. 1 .. n + 1 \subseteq S
  <2>1. n + 1 \in Nat
    OBVIOUS
  <2> HIDE DEF S
  <2> QED
    BY <2>1, <1>5, PositionInduction
<1>7. f[n + 1] = Op(g[n], v[i])
  BY <1>6
<1> QED
  BY <1>1, <1>7 DEF f, g, Op, Total

\* w is s followed by t.
Joined(w, p, s, q, t) ==
  (\A k \in 1 .. p : w[k] = s[k]) /\ (\A k \in 1 .. q : w[p + k] = t[k])

LEMMA TotalOfJoined ==
  ASSUME NEW op \in AssociativeOps, NEW p \in Nat, NEW q \in Nat,
         NEW s \in [1 .. p -> Residue], NEW t \in [1 .. q -> Residue],
         NEW w \in [1 .. p + q -> Residue], Joined(w, p, s, q, t)
  PROVE  Total(op, p + q, w) = RingOp(op, Total(op, p, s), Total(op, q, t))
<1> DEFINE f == Run(op, p + q, w)
           g == Run(op, p, s)
           h == Run(op, q, t)
           Op(x, y) == RingOp(op, x, y)
           S == {k \in 1 .. p + 1 : f[k] = g[k]}
           T == {k \in 1 .. q + 1 : f[p + k] = Op(g[p + 1], h[k])}
<1>1. p + q \in Nat
  OBVIOUS
<1>2. IsRun(f, op, p + q, w) /\ IsRun(g, op, p, s) /\ IsRun(h, op, q, t)
  BY <1>1, RunIs
<1> HIDE DEF f, g, h
<1>3. /\ f[1] = Unit(op) /\ \A k \in 2 .. p + q + 1 : f[k] = Op(f[k - 1], w[k - 1])
      /\ g[1] = Unit(op) /\ \A k \in 2 .. p + 1 : g[k] = Op(g[k - 1], s[k - 1])
      /\ h[1] = Unit(op) /\ \A k \in 2 .. q + 1 : h[k] = Op(h[k - 1], t[k - 1])
      /\ g[p + 1] \in Residue /\ \A k \in 1 .. q + 1 : h[k] \in Residue
  BY <1>2 DEF IsRun
<1> HIDE DEF Op
<1>4. ASSUME NEW k \in 1 .. p + 1, (1 .. k - 1) \subseteq S
      PROVE  k \in S
  <2>1. CASE k = 1
    BY <2>1, <1>3
  <2>2. CASE k # 1
    <3>1. f[k - 1] = g[k - 1]
      BY <2>2, <1>4
    <3>2. f[k] = Op(f[k - 1], w[k - 1]) /\ g[k] = Op(g[k - 1], s[k - 1])
      BY <2>2, <1>3
    <3>3. w[k - 1] = s[k - 1]
      BY <2>2 DEF Joined
    <3> QED
      BY <3>1, <3>2, <3>3
  <2> QED
    BY <2>1, <2>2
<1>5. f[p + 1] = g[p + 1]
  <2>1. 1 .. p + 1 \subseteq S
    <3>1. p + 1 \in Nat
      OBVIOUS
    <3> HIDE DEF S
    <3> QED
      BY <3>1, <1>4, PositionInduction
  <2> QED
    BY <2>1
<1>6. ASSUME NEW k \in 1 .. q + 1, (1 .. k - 1) \subseteq T
      PROVE  k \in T
  <2>1. CASE k = 1
    BY <2>1, <1>3, <1>5, RingUnit DEF Op
  <2>2. CASE k # 1
    <3> DEFINE j == k - 1
    <3>1. j \in 1 .. q /\ j + 1 = k /\ j + 1 \in 2 .. q + 1 /\ j + 1 - 1 = j
      BY <2>2
    <3>2. f[p + j] = Op(g[p + 1], h[j])
      BY <3>1, <1>6
    <3> HIDE DEF j
    <3>3. f[p + k] = Op(f[p + j], t[j])
      <4>1. p + k \in 2 .. p + q + 1 /\ p + k - 1 = p + j
        BY <3>1
      <4>2. w[p + j] = t[j]
        BY <3>1 DEF Joined
      <4> QED
        BY <4>1, <4>2, <1>3
    <3>4. h[k] = Op(h[j], t[j])
      BY <3>1, <1>3
    <3>5. h[j] \in Residue /\ t[j] \in Residue
      BY <3>1, <1>3
    <3>6. Op(Op(g[p + 1], h[j]), t[j]) = Op(g[p + 1], Op(h[j], t[j]))
      BY <3>5, <1>3, RingAssociates DEF Op
    <3> QED
      BY <3>2, <3>3, <3>4, <3>6
  <2> QED
    BY <2>1, <2>2
<1>7. f[p + (q + 1)] = Op(g[p + 1], h[q + 1])
  <2>1. 1 .. q + 1 \subseteq T
    <3>1. q + 1 \in Nat
      OBVIOUS
    <3> HIDE DEF T
    <3> QED
      BY <3>1, <1>6, PositionInduction
  <2> QED
    BY <2>1
<1> QED
  BY <1>7 DEF f, g, h, Op, Total

LEMMA TotalOfOne ==
  ASSUME NEW op \in AssociativeOps, NEW v \in [1 .. 1 -> Residue]
  PROVE  Total(op, 1, v) = v[1]
<1> DEFINE f == Run(op, 1, v)
<1>1. IsRun(f, op, 1, v)
  BY RunIs
<1> HIDE DEF f
<1>2. f[1] = Unit(op) /\ f[2] = RingOp(op, f[1], v[1])
  BY <1>1 DEF IsRun
<1>3. f[2] = v[1]
  BY <1>2, RingUnit
<1> QED
  BY <1>3 DEF f, Total

-----------------------------------------------------------------------------
\* What the leaves of a tree make together is what its root stands for.

ValuesOf(s, val) == [i \in DOMAIN s |-> val[s[i]]]

LEMMA TotalOfConcat ==
  ASSUME NEW op \in AssociativeOps, NEW D, NEW val \in [D -> Residue],
         NEW s \in Seq(D), NEW t \in Seq(D)
  PROVE  Total(op, Len(s \o t), ValuesOf(s \o t, val))
           = RingOp(op, Total(op, Len(s), ValuesOf(s, val)), Total(op, Len(t), ValuesOf(t, val)))
<1> DEFINE p == Len(s)
           q == Len(t)
           w == s \o t
<1>1. /\ p \in Nat /\ q \in Nat /\ Len(w) = p + q
      /\ DOMAIN s = 1 .. p /\ DOMAIN t = 1 .. q /\ DOMAIN w = 1 .. p + q
      /\ \A k \in 1 .. p : s[k] \in D /\ w[k] = s[k]
      /\ \A k \in 1 .. q : t[k] \in D /\ w[p + k] = t[k]
  <2>1. /\ w \in Seq(D) /\ Len(w) = p + q /\ p \in Nat /\ q \in Nat
        /\ \A k \in 1 .. p + q : w[k] = IF k <= p THEN s[k] ELSE t[k - p]
    BY ConcatProperties, LenProperties
  <2>2. DOMAIN s = 1 .. p /\ DOMAIN t = 1 .. q /\ DOMAIN w = 1 .. p + q
    BY <2>1, LenProperties
  <2>3. (\A k \in 1 .. p : s[k] \in D) /\ (\A k \in 1 .. q : t[k] \in D)
    BY ElementOfSeq
  <2> HIDE DEF p, q, w
  <2>4. ASSUME NEW k \in 1 .. p
        PROVE  w[k] = s[k]
    BY <2>1
  <2>5. ASSUME NEW k \in 1 .. q
        PROVE  w[p + k] = t[k]
    <3>1. p + k \in 1 .. p + q /\ ~ (p + k <= p) /\ p + k - p = k
      BY <2>1
    <3> QED
      BY <3>1, <2>1
  <2> QED
    BY <2>1, <2>2, <2>3, <2>4, <2>5
<1> HIDE DEF p, q, w
<1>2. \A k \in 1 .. p + q : w[k] \in D
  <2>1. ASSUME NEW k \in 1 .. p + q
        PROVE  w[k] \in D
    <3>1. CASE k \in 1 .. p
      BY <3>1, <1>1
    <3>2. CASE k \notin 1 .. p
      <4>1. k - p \in 1 .. q /\ p + (k - p) = k
        BY <3>2, <1>1
      <4> QED
        BY <4>1, <1>1
    <3> QED
      BY <3>1, <3>2
  <2> QED
    BY <2>1
<1>3. /\ ValuesOf(s, val) \in [1 .. p -> Residue]
      /\ ValuesOf(t, val) \in [1 .. q -> Residue]
      /\ ValuesOf(w, val) \in [1 .. p + q -> Residue]
  BY <1>1, <1>2 DEF ValuesOf
<1>4. Joined(ValuesOf(w, val), p, ValuesOf(s, val), q, ValuesOf(t, val))
  <2>1. ASSUME NEW k \in 1 .. p
        PROVE  ValuesOf(w, val)[k] = ValuesOf(s, val)[k]
    BY <1>1 DEF ValuesOf
  <2>2. ASSUME NEW k \in 1 .. q
        PROVE  ValuesOf(w, val)[p + k] = ValuesOf(t, val)[k]
    <3>1. p + k \in 1 .. p + q
      BY <1>1
    <3> QED
      BY <3>1, <1>1 DEF ValuesOf
  <2> QED
    BY <2>1, <2>2 DEF Joined
<1>5. Total(op, p + q, ValuesOf(w, val))
        = RingOp(op, Total(op, p, ValuesOf(s, val)), Total(op, q, ValuesOf(t, val)))
  BY <1>1, <1>3, <1>4, TotalOfJoined
<1> QED
  BY <1>1, <1>5 DEF p, q, w

\* An operation in a tree that is not its root has the operator of its only user, and so
\* that of the root.
LEMMA OneOperator ==
  ASSUME circuit \in Circuits, NEW g \in Old, NEW root, IsOp(circuit.gates[g]), g <= root,
         root \in Old, NEW h \in {circuit.gates[g].lhs, circuit.gates[g].rhs},
         InTree(h, root)
  PROVE  circuit.gates[h].op = circuit.gates[g].op
<1>1. h \in 1 .. g - 1 /\ g \in Nat /\ root \in Nat
  BY GivenCircuit
<1>2. ~ IsRoot(circuit, h) /\ IsOp(circuit.gates[h])
  BY <1>1 DEF InTree
<1>3. g \in Users(circuit.gates, h)
  BY DEF Users, Operands, Old
<1> QED
  BY <1>2, <1>3 DEF IsRoot

LEMMA LeavesMakeRoot ==
  ASSUME circuit \in Circuits, NEW root \in Old, IsOp(circuit.gates[root]),
         circuit.gates[root].op \in AssociativeOps, NEW env \in Assignments
  PROVE  Total(circuit.gates[root].op, Len(Leaves(root)),
               ValuesOf(Leaves(root), Denote(circuit.gates, env)))
           = Denote(circuit.gates, env)[root]
<1> DEFINE N == Len(circuit.gates)
           op == circuit.gates[root].op
           val == Denote(circuit.gates, env)
<1>1. /\ N \in Nat /\ Old = 1 .. N
      /\ \A g \in 1 .. N : /\ circuit.gates[g] \in Node
                           /\ IsOp(circuit.gates[g]) => /\ circuit.gates[g].lhs \in 1 .. g - 1
                                                       /\ circuit.gates[g].rhs \in 1 .. g - 1
  BY GivenCircuit
<1>2. /\ val \in [Old -> Residue]
      /\ \A g \in Old : val[g] = NodeValue(circuit.gates[g], env, val)
  BY GivenCircuit, DenoteEquation DEF Old
<1>3. PICK below \in [Old -> Seq(Old)] :
        /\ Leaves(root) = below[root]
        /\ \A g \in Old : below[g] = Below(g, root, below)
  BY LeavesEquation
<1> HIDE DEF val, op, N
<1> DEFINE Made(g) == Total(op, Len(below[g]), ValuesOf(below[g], val)) = val[g]
           S == {g \in 1 .. N : g <= root /\ (InTree(g, root) => circuit.gates[g].op = op)
                                  => Made(g)}
<1>4. op \in AssociativeOps
  BY DEF op
<1>5. ASSUME NEW g \in 1 .. N, (1 .. g - 1) \subseteq S
      PROVE  g \in S
  <2> SUFFICES ASSUME g <= root, InTree(g, root) => circuit.gates[g].op = op
               PROVE  Made(g)
    OBVIOUS
  <2>1. CASE InTree(g, root)
    <3> DEFINE l == circuit.gates[g].lhs
               r == circuit.gates[g].rhs
    <3>1. /\ IsOp(circuit.gates[g]) /\ circuit.gates[g].op = op
          /\ l \in 1 .. g - 1 /\ r \in 1 .. g - 1 /\ l \in 1 .. N /\ r \in 1 .. N
          /\ l <= root /\ r <= root
      BY <1>1, <2>1, SMTT(30) DEF InTree
    <3>2. /\ InTree(l, root) => circuit.gates[l].op = op
          /\ InTree(r, root) => circuit.gates[r].op = op
      BY <3>1, <1>1, OneOperator
    <3>3. below[g] = below[l] \o below[r]
      BY <1>1, <1>3, <2>1 DEF Below
    <3>4. val[g] = RingOp(op, val[l], val[r])
      BY <1>1, <1>2, <3>1, NodeKinds DEF NodeValue
    <3> HIDE DEF l, r
    <3>5. Made(l) /\ Made(r)
      BY <3>1, <3>2, <1>5
    <3>6. below[l] \in Seq(Old) /\ below[r] \in Seq(Old)
      BY <1>1, <1>3, <3>1
    <3>7. Total(op, Len(below[l] \o below[r]), ValuesOf(below[l] \o below[r], val))
            = RingOp(op, Total(op, Len(below[l]), ValuesOf(below[l], val)),
                         Total(op, Len(below[r]), ValuesOf(below[r], val)))
      <4> DEFINE s == below[l]
                 t == below[r]
      <4>1. s \in Seq(Old) /\ t \in Seq(Old) /\ val \in [Old -> Residue] /\ op \in AssociativeOps
        BY <1>2, <1>4, <3>6
      <4> HIDE DEF s, t
      <4>2. Total(op, Len(s \o t), ValuesOf(s \o t, val))
              = RingOp(op, Total(op, Len(s), ValuesOf(s, val)), Total(op, Len(t), ValuesOf(t, val)))
        BY <4>1, TotalOfConcat, ZenonT(60)
      <4> QED
        BY <4>2 DEF s, t
    <3> QED
      BY <3>3, <3>4, <3>5, <3>7
  <2>2. CASE ~ InTree(g, root)
    <3>1. below[g] = <<g>>
      BY <1>1, <1>3, <2>2 DEF Below
    <3>2. Len(<<g>>) = 1 /\ ValuesOf(<<g>>, val) \in [1 .. 1 -> Residue]
          /\ ValuesOf(<<g>>, val)[1] = val[g]
      BY <1>1, <1>2 DEF ValuesOf
    <3>3. Total(op, 1, ValuesOf(<<g>>, val)) = val[g]
      BY <1>4, <3>2, TotalOfOne
    <3> QED
      BY <3>1, <3>2, <3>3
  <2> QED
    BY <2>1, <2>2
<1>6. 1 .. N \subseteq S
  <2> HIDE DEF S
  <2> QED
    BY <1>1, <1>5, PositionInduction
<1>7. root \in 1 .. N /\ root <= root /\ circuit.gates[root].op = op
  BY <1>1 DEF op
<1>8. Made(root)
  <2> HIDE DEF Made
  <2> QED
    BY <1>6, <1>7
<1> QED
  BY <1>3, <1>8 DEF op, val

-----------------------------------------------------------------------------
\* The invariant is kept by every step.

Item == [gate : Nat, rank : Nat]

\* The sums of the first ranks.
LEMMA SumEquation ==
  ASSUME NEW items \in Seq(Item), Len(items) > 0
  PROVE  \E sum \in [1 .. Len(items) -> Nat] :
           /\ SumOf(items) = sum[Len(items)]
           /\ \A i \in 1 .. Len(items) :
                sum[i] = items[i].rank + (IF i = 1 THEN 0 ELSE sum[i - 1])
<1> DEFINE n == Len(items)
           Step1(i, f) == items[i].rank + (IF i = 1 THEN 0 ELSE f[i - 1])
           P(f) == f = [i \in DOMAIN items |-> Step1(i, f)]
           step == [p \in (1 .. n) \X [1 .. n -> Nat] |-> Step1(p[1], p[2])]
           d == CHOOSE f : P(f)
<1>1. SumOf(items) = d[n]
  BY DEF SumOf
<1>2. /\ n \in Nat \ {0} /\ DOMAIN items = 1 .. n
      /\ \A i \in 1 .. n : items[i].rank \in Nat
  <2>1. n \in Nat \ {0} /\ DOMAIN items = 1 .. n
    BY LenProperties
  <2>2. \A i \in 1 .. n : items[i] \in Item
    BY ElementOfSeq
  <2> QED
    BY <2>1, <2>2 DEF Item
<1>3. ASSUME NEW i \in 1 .. n, NEW f, i # 1 => f[i - 1] \in Nat
      PROVE  Step1(i, f) \in Nat
  <2>1. CASE i = 1
    BY <2>1, <1>2
  <2>2. CASE i # 1
    BY <2>2, <1>2, <1>3
  <2> QED
    BY <2>1, <2>2
<1>4. ASSUME NEW i \in 1 .. n, NEW f \in [1 .. n -> Nat]
      PROVE  Step1(i, f) \in Nat /\ step[<<i, f>>] = Step1(i, f)
  <2>1. i # 1 => f[i - 1] \in Nat
    <3>1. i # 1 => i - 1 \in 1 .. n
      BY <1>2
    <3> HIDE DEF n
    <3> QED
      BY <3>1
  <2>2. Step1(i, f) \in Nat
    BY <2>1, <1>3
  <2> QED
    BY <2>2
<1>5. Causal(n, Nat, step)
  <2>1. step \in [(1 .. n) \X [1 .. n -> Nat] -> Nat]
    BY <1>4
  <2>2. ASSUME NEW i \in 1 .. n, NEW f \in [1 .. n -> Nat], NEW h \in [1 .. n -> Nat],
               \A j \in 1 .. i - 1 : f[j] = h[j]
        PROVE  step[<<i, f>>] = step[<<i, h>>]
    <3>1. i = 1 \/ f[i - 1] = h[i - 1]
      BY <1>2, <2>2
    <3>2. Step1(i, f) = Step1(i, h)
      BY <3>1
    <3> HIDE DEF step, Step1
    <3> QED
      BY <3>2, <1>4
  <2> HIDE DEF step
  <2> QED
    BY <2>1, <2>2 DEF Causal
<1>6. PICK f : Solves(f, n, Nat, step)
  <2>1. Nat # {} /\ n \in Nat
    BY <1>2
  <2> HIDE DEF step, n
  <2> QED
    BY <1>5, <2>1, RecursionSolvable
<1>7. f \in [1 .. n -> Nat] /\ \A i \in 1 .. n : f[i] = Step1(i, f)
  <2> HIDE DEF step, n, Step1
  <2> QED
    BY <1>4, <1>6 DEF Solves
<1>8. P(f)
  BY <1>2, <1>7
<1>9. P(d)
  <2> HIDE DEF P
  <2> QED
    BY <1>8
<1> HIDE DEF d
<1>10. \A i \in 1 .. n : d[i] = Step1(i, d)
  BY <1>2, <1>9
<1>11. 1 .. n \subseteq {i \in 1 .. n : d[i] \in Nat}
  <2> DEFINE S == {i \in 1 .. n : d[i] \in Nat}
  <2>1. ASSUME NEW i \in 1 .. n, (1 .. i - 1) \subseteq S
        PROVE  i \in S
    <3>1. i # 1 => d[i - 1] \in Nat
      BY <2>1, <1>2
    <3>2. Step1(i, d) \in Nat
      BY <3>1, <1>3
    <3> QED
      BY <3>2, <1>10
  <2> HIDE DEF S
  <2>2. 1 .. n \subseteq S
    BY <1>2, <2>1, PositionInduction
  <2> QED
    BY <2>2 DEF S
<1>12. d \in [1 .. n -> Nat]
  BY <1>2, <1>9, <1>11
<1> QED
  BY <1>1, <1>10, <1>12

LEMMA SumTyped ==
  ASSUME NEW items \in Seq(Item), Len(items) > 0
  PROVE  SumOf(items) \in Nat
BY SumEquation, LenProperties

\* What the invariant says of is left alone, but for the queue of roots and the phase.
Untouched ==
  /\ UNCHANGED <<circuit, balancing, queue, ranks, map, index, rebalanced, usages>>
  /\ roots' \subseteq Old /\ phase' \in {"running", "rebuilding", "panic"}

LEMMA UntouchedHolds ==
  ASSUME RebalanceInv, Untouched
  PROVE  RebalanceInv'
BY DEF RebalanceInv, Untouched, RebalanceTypeOK, StackHeld, RanksHeld, QueueHeld, MappedApart,
       Old, Balanced, Innermost

LEMMA InitHolds == RebalanceInit => RebalanceInv
<1> SUFFICES ASSUME RebalanceInit
             PROVE  RebalanceInv
  OBVIOUS
<1> USE DEF RebalanceInit
<1>1. circuit \in Circuits /\ Len(circuit.gates) \in Nat
  BY GivenCircuit
<1>2. RebalanceTypeOK
  <2>1. usages \in [Old -> SUBSET DOMAIN rebalanced]
    BY DEF Old
  <2>2. roots \subseteq Old
    BY DEF Old
  <2>3. balancing \in Seq(Old) /\ rebalanced \in Seq(Node)
    OBVIOUS
  <2>4. DOMAIN ranks = {} /\ DOMAIN map = {} /\ DOMAIN queue = {}
    OBVIOUS
  <2> QED
    BY <2>1, <2>2, <2>3, <2>4 DEF RebalanceTypeOK
<1>3. StackHeld /\ RanksHeld
  <2>1. DOMAIN balancing = {} /\ Range(balancing) = {} /\ DOMAIN map = {} /\ DOMAIN ranks = {}
    BY DEF Range
  <2> QED
    BY <1>1, <2>1 DEF StackHeld, RanksHeld, Balanced
<1>4. QueueHeld /\ MappedApart /\ Topological(rebalanced)
  <2>1. queue \in Seq([gate : Nat, rank : Nat]) /\ Len(queue) = 0 /\ DOMAIN queue = {}
    OBVIOUS
  <2> QED
    BY <2>1 DEF QueueHeld, MappedApart, Topological
<1> QED
  BY <1>2, <1>3, <1>4 DEF RebalanceInv

\* The innermost call is about an operation, the least on the stack.
LEMMA InnermostIs ==
  ASSUME RebalanceInv, balancing # << >>
  PROVE  /\ Len(balancing) \in Nat \ {0} /\ DOMAIN balancing = 1 .. Len(balancing)
         /\ Innermost \in Old /\ IsOp(circuit.gates[Innermost])
         /\ Innermost \notin Balanced /\ Innermost \notin DOMAIN map
         /\ \A i \in 1 .. Len(balancing) - 1 : Innermost < balancing[i]
<1>1. balancing \in Seq(Old)
  BY DEF RebalanceInv, RebalanceTypeOK
<1>2. Len(balancing) \in Nat \ {0} /\ DOMAIN balancing = 1 .. Len(balancing)
  BY <1>1, LenProperties, EmptySeq
<1>3. Len(balancing) \in DOMAIN balancing
  BY <1>2
<1>4. Innermost \in Old /\ Innermost \in Range(balancing)
  BY <1>1, <1>2, <1>3, ElementOfSeq DEF Innermost, Range
<1>5. IsOp(circuit.gates[Innermost])
  BY <1>3 DEF RebalanceInv, StackHeld, Innermost
<1>6. Innermost \notin Balanced
  BY <1>4 DEF RebalanceInv, RanksHeld
<1>7. \A i \in 1 .. Len(balancing) - 1 : Innermost < balancing[i]
  BY <1>2, <1>3 DEF RebalanceInv, StackHeld, Innermost
<1> QED
  BY <1>2, <1>4, <1>5, <1>6, <1>7 DEF Balanced

LEMMA NextRootKeeps ==
  ASSUME RebalanceInv, NEW r \in roots, NextRoot(r)
  PROVE  RebalanceInv'
<1> USE DEF NextRoot
<1>1. r \in Old /\ queue = << >> /\ Old' = Old /\ Balanced' = Balanced
  BY DEF RebalanceInv, RebalanceTypeOK, StackHeld, Old, Balanced
<1>2. balancing' \in Seq(Old)
      /\ \A i \in DOMAIN balancing' : balancing'[i] = r /\ Unbalanced(r) /\ i = 1
  BY <1>1
<1>3. r \in Balanced => r \in DOMAIN ranks
  BY DEF RebalanceInv, RanksHeld
<1>4. \A i \in DOMAIN balancing' : IsOp(circuit.gates[balancing'[i]]) /\ balancing'[i] \notin Balanced
  BY <1>2, <1>3 DEF Unbalanced
<1>5. StackHeld' /\ RanksHeld'
  <2>1. \A i, j \in DOMAIN balancing' : ~ (i < j)
    BY <1>2
  <2>2. StackHeld'
    BY <1>1, <1>4, <2>1 DEF StackHeld, RebalanceInv
  <2>3. Range(balancing') \cap Balanced = {}
    BY <1>4 DEF Range
  <2>4. {g \in Old : queue # << >> /\ g = Innermost}' = {}
        /\ {g \in Old : queue # << >> /\ g = Innermost} = {}
    BY <1>1
  <2> QED
    BY <1>1, <2>2, <2>3, <2>4 DEF RanksHeld, RebalanceInv
<1>6. RebalanceTypeOK' /\ QueueHeld' /\ MappedApart' /\ Topological(rebalanced)'
  BY <1>1, <1>2 DEF RebalanceInv, RebalanceTypeOK, QueueHeld, MappedApart
<1> QED
  BY <1>5, <1>6 DEF RebalanceInv

LEMMA BalanceLeafKeeps ==
  ASSUME RebalanceInv, BalanceLeaf
  PROVE  RebalanceInv'
<1> DEFINE leaves == Leaves(Innermost)
           open == {i \in DOMAIN leaves : Unbalanced(leaves[i])}
           at == CHOOSE i \in open : \A j \in open : i <= j
           leaf == leaves[at]
           n == Len(balancing)
<1>1. /\ queue = << >> /\ balancing # << >> /\ open # {}
      /\ balancing' = Append(balancing, leaf)
      /\ UNCHANGED <<circuit, roots, queue, ranks, map, index, rebalanced, usages, phase>>
  BY DEF BalanceLeaf, Balancing
<1>2. Old' = Old /\ Balanced' = Balanced
  BY <1>1 DEF Old, Balanced
<1>3. /\ n \in Nat \ {0} /\ DOMAIN balancing = 1 .. n
      /\ Innermost \in Old /\ IsOp(circuit.gates[Innermost])
      /\ \A i \in 1 .. n - 1 : Innermost < balancing[i]
  BY <1>1, InnermostIs
<1>4. /\ leaves \in Seq(Old) /\ \A i \in DOMAIN leaves : leaves[i] < Innermost
  BY <1>3, LeavesAre DEF RebalanceInv, StackHeld
<1>5. at \in open
  <2>1. open \in SUBSET Nat
    BY <1>4, LenProperties
  <2> HIDE DEF open
  <2>2. \E i \in open : \A j \in open : i <= j
    BY <1>1, <2>1, Least
  <2> QED
    BY <2>2
<1>6. leaf \in Old /\ leaf < Innermost /\ Unbalanced(leaf)
  <2>1. at \in DOMAIN leaves /\ Unbalanced(leaf)
    BY <1>5
  <2> HIDE DEF at, leaves
  <2> QED
    BY <1>4, <2>1, LenProperties, ElementOfSeq
<1> HIDE DEF leaf, at, open, leaves
<1>7. IsOp(circuit.gates[leaf]) /\ leaf \notin Balanced
  <2>1. leaf \notin DOMAIN ranks
    BY <1>6 DEF Unbalanced
  <2> QED
    BY <2>1, <1>6 DEF Unbalanced, RebalanceInv, RanksHeld
<1>8. /\ balancing' \in Seq(Old) /\ DOMAIN balancing' = 1 .. n + 1
      /\ balancing'[n + 1] = leaf /\ \A i \in 1 .. n : balancing'[i] = balancing[i]
  <2>1. balancing \in Seq(Old)
    BY DEF RebalanceInv, RebalanceTypeOK
  <2> QED
    BY <1>1, <1>3, <1>6, <2>1, AppendProperties, LenProperties
<1>9. \A i \in 1 .. n : balancing[i] \in Old /\ IsOp(circuit.gates[balancing[i]])
                        /\ balancing[i] \notin Balanced
  <2>1. balancing \in Seq(Old)
    BY DEF RebalanceInv, RebalanceTypeOK
  <2>2. \A i \in 1 .. n : balancing[i] \in Old
    BY <2>1, ElementOfSeq
  <2>3. \A i \in 1 .. n : balancing[i] \notin Balanced
    BY <1>3 DEF RebalanceInv, RanksHeld, Range
  <2> QED
    BY <1>3, <2>2, <2>3 DEF RebalanceInv, StackHeld
<1>10. \A i \in 1 .. n : leaf < balancing[i]
  <2>1. Innermost = balancing[n] /\ Old \subseteq Nat
    BY GivenCircuit DEF Innermost, RebalanceInv, StackHeld
  <2>2. ASSUME NEW i \in 1 .. n
        PROVE  leaf < balancing[i]
    <3>1. CASE i = n
      <4>1. balancing[i] = Innermost
        BY <3>1 DEF Innermost
      <4> QED
        BY <4>1, <1>6
    <3>2. CASE i # n
      <4>1. i \in 1 .. n - 1
        <5>1. n \in Nat
          BY <1>3
        <5> HIDE DEF n
        <5> QED
          BY <3>2, <5>1
      <4>2. Innermost < balancing[i]
        BY <4>1, <1>3, Zenon
      <4>3. leaf \in Nat /\ Innermost \in Nat
        BY <1>3, <1>6, <2>1
      <4>4. balancing[i] \in Nat
        BY <1>9, <2>1
      <4> QED
        BY <4>2, <4>3, <4>4, <1>6
    <3> QED
      BY <3>1, <3>2
  <2> QED
    BY <2>2
<1>11. StackHeld'
  <2>1. \A i \in DOMAIN balancing' : IsOp(circuit.gates[balancing'[i]])
    BY <1>3, <1>7, <1>8, <1>9
  <2>2. ASSUME NEW i \in DOMAIN balancing', NEW j \in DOMAIN balancing', i < j
        PROVE  balancing'[j] < balancing'[i]
    <3>1. i \in 1 .. n
      BY <1>3, <1>8, <2>2
    <3>2. CASE j = n + 1
      BY <3>1, <3>2, <1>8, <1>10
    <3>3. CASE j # n + 1
      <4>1. j \in 1 .. n
        BY <3>3, <1>3, <1>8
      <4>2. balancing[j] < balancing[i]
        BY <3>1, <4>1, <1>3, <2>2 DEF RebalanceInv, StackHeld
      <4> QED
        BY <3>1, <4>1, <4>2, <1>8
    <3> QED
      BY <3>2, <3>3
  <2> QED
    BY <1>1, <2>1, <2>2 DEF StackHeld, RebalanceInv
<1>12. RanksHeld'
  <2>1. \A i \in DOMAIN balancing' : balancing'[i] \notin Balanced
    BY <1>3, <1>7, <1>8, <1>9
  <2>2. Range(balancing') \cap Balanced = {}
    BY <2>1 DEF Range
  <2>3. {g \in Old : queue # << >> /\ g = Innermost}' = {}
        /\ {g \in Old : queue # << >> /\ g = Innermost} = {}
    BY <1>1
  <2> QED
    BY <1>1, <1>2, <2>2, <2>3 DEF RanksHeld, RebalanceInv
<1>13. RebalanceTypeOK' /\ QueueHeld' /\ MappedApart' /\ Topological(rebalanced)'
  BY <1>1, <1>2, <1>8 DEF RebalanceInv, RebalanceTypeOK, QueueHeld, MappedApart
<1> QED
  BY <1>11, <1>12, <1>13 DEF RebalanceInv

LEMMA FlattenKeeps ==
  ASSUME RebalanceInv, Flatten
  PROVE  RebalanceInv'
<1> DEFINE leaves == Leaves(Innermost)
           n == Len(leaves)
           items == [i \in DOMAIN leaves |-> [gate |-> leaves[i], rank |-> Rank(leaves[i])]]
<1>1. /\ queue = << >> /\ balancing # << >>
      /\ \A i \in DOMAIN leaves : ~ Unbalanced(leaves[i])
      /\ queue' = items
      /\ ranks' = Put(ranks, Innermost, SumOf(items))
      /\ UNCHANGED <<circuit, roots, balancing, map, index, rebalanced, usages, phase>>
  BY DEF Flatten, Balancing
<1>2. Old' = Old /\ Balanced' = Balanced /\ Innermost' = Innermost
  BY <1>1 DEF Old, Balanced, Innermost
<1>3. Innermost \in Old /\ IsOp(circuit.gates[Innermost])
  BY <1>1, InnermostIs
<1>4. circuit \in Circuits /\ index \in Nat /\ index > Len(circuit.gates)
  BY DEF RebalanceInv, StackHeld
<1>5. leaves \in Seq(Old) /\ n > 1
  BY <1>3, <1>4, LeavesAre
<1>6. n \in Nat /\ DOMAIN leaves = 1 .. n /\ \A i \in 1 .. n : leaves[i] \in Old
  BY <1>5, LenProperties, ElementOfSeq
<1>7. /\ Len(circuit.gates) \in Nat /\ Old = 1 .. Len(circuit.gates)
      /\ \A g \in Old : circuit.gates[g] \in Node
  BY <1>4, GivenCircuit
<1>8. DOMAIN ranks = Balanced
  <2>1. {g \in Old : queue # << >> /\ g = Innermost} = {}
    BY <1>1
  <2> QED
    BY <2>1 DEF RebalanceInv, RanksHeld
<1> HIDE DEF leaves, n
<1>9. ASSUME NEW i \in 1 .. n
      PROVE  Rank(leaves[i]) \in Nat /\ (IsOp(circuit.gates[leaves[i]]) => leaves[i] \in Balanced)
  <2>1. IsOp(circuit.gates[leaves[i]]) => leaves[i] \in DOMAIN ranks
    BY <1>1, <1>6 DEF Unbalanced
  <2>2. IsOp(circuit.gates[leaves[i]]) => ranks[leaves[i]] \in Nat
    BY <2>1 DEF RebalanceInv, RebalanceTypeOK
  <2>3. circuit.gates[leaves[i]] \in Node
    BY <1>6, <1>7
  <2>4. Rank(leaves[i]) \in Nat
    BY <2>2, <2>3, NodeKinds DEF Rank
  <2> QED
    BY <1>8, <2>1, <2>4
<1>10. /\ items \in Seq(Item) /\ Len(items) = n
       /\ \A i \in 1 .. n : items[i].gate = leaves[i] /\ items[i].rank = Rank(leaves[i])
  <2>1. items \in [1 .. n -> Item]
    BY <1>6, <1>7, <1>9 DEF Item
  <2>2. items \in Seq(Item)
    BY <1>6, <2>1, SeqDef
  <2>3. Len(items) = n
    BY <1>6, <2>1, <2>2, LenProperties
  <2> QED
    BY <1>6, <2>2, <2>3
<1> HIDE DEF items
<1>11. SumOf(items) \in Nat
  BY <1>5, <1>6, <1>10, SumTyped
<1>12. DOMAIN items = 1 .. n /\ items # << >>
  BY <1>5, <1>6, <1>10, LenProperties
<1>13. RebalanceTypeOK'
  <2>1. \A i \in DOMAIN items : items[i].gate \in 1 .. index - 1 /\ items[i].rank \in Nat
    BY <1>4, <1>6, <1>7, <1>9, <1>10, <1>12
  <2>2. \A r \in DOMAIN ranks' : r \in Old /\ ranks'[r] \in Nat
    BY <1>1, <1>3, <1>11 DEF Put, RebalanceInv, RebalanceTypeOK
  <2> QED
    BY <1>1, <1>2, <2>1, <2>2 DEF RebalanceInv, RebalanceTypeOK
<1>14. StackHeld'
  BY <1>1 DEF RebalanceInv, StackHeld
<1>15. RanksHeld'
  <2>1. DOMAIN ranks' = Balanced \cup {Innermost}
    BY <1>1, <1>8 DEF Put
  <2>2. {g \in Old : queue # << >> /\ g = Innermost}' = {Innermost}
    BY <1>1, <1>2, <1>3, <1>12
  <2> QED
    BY <1>1, <1>2, <2>1, <2>2 DEF RebalanceInv, RanksHeld
<1>16. QueueHeld'
  <2>1. \A i \in 1 .. n : items[i].gate \in Old
                          /\ (IsOp(circuit.gates[items[i].gate]) => items[i].gate \in Balanced)
    BY <1>6, <1>9, <1>10
  <2>2. queue' \in Seq([gate : Nat, rank : Nat]) /\ Len(queue') # 1
    BY <1>1, <1>5, <1>10 DEF Item
  <2> QED
    BY <1>1, <1>2, <1>12, <2>1, <2>2 DEF QueueHeld
<1>17. MappedApart' /\ Topological(rebalanced)'
  BY <1>1, <1>2 DEF RebalanceInv, MappedApart
<1> QED
  BY <1>13, <1>14, <1>15, <1>16, <1>17 DEF RebalanceInv

\* A map into a new arena, as the trees are built from it.
Sound(to) ==
  /\ to.arena \in Seq(Node) /\ Topological(to.arena)
  /\ \A g \in DOMAIN to.map : g \in 1 .. index - 1 /\ to.map[g] \in DOMAIN to.arena
  /\ \A g, h \in Old \cap DOMAIN to.map : to.map[g] = to.map[h] => g = h

\* What is there stays; what is added are leaves, copied to places of their own.
Grown(after, to) ==
  /\ Continues(after.arena, to.arena)
  /\ DOMAIN to.map \subseteq DOMAIN after.map
  /\ \A g \in DOMAIN to.map : after.map[g] = to.map[g]
  /\ \A g \in DOMAIN after.map \ DOMAIN to.map :
       /\ g \in Old /\ ~ IsOp(circuit.gates[g])
       /\ after.map[g] \notin DOMAIN to.arena
       /\ after.arena[after.map[g]] = circuit.gates[g]

Placeable(to, g) == g \in DOMAIN to.map \/ (g \in Old /\ ~ IsOp(circuit.gates[g]))

LEMMA PlacedHolds ==
  ASSUME RebalanceInv, NEW to, Sound(to), NEW g, Placeable(to, g)
  PROVE  /\ Sound(Placed(to, g)) /\ Grown(Placed(to, g), to)
         /\ g \in DOMAIN Placed(to, g).map
<1>1. CASE g \in DOMAIN to.map
  <2>1. Placed(to, g) = to
    BY <1>1 DEF Placed
  <2> QED
    BY <1>1, <2>1 DEF Grown, Continues
<1>2. CASE g \notin DOMAIN to.map
  <2> DEFINE n == circuit.gates[g]
             at == Len(to.arena) + 1
             arena == Append(to.arena, n)
             new == [x \in DOMAIN to.map \cup {g} |-> IF x = g THEN at ELSE to.map[x]]
  <2>1. Placed(to, g).map = new /\ Placed(to, g).arena = arena
    BY <1>2 DEF Placed, Put
  <2>2. g \in Old /\ ~ IsOp(n) /\ n \in Node /\ Operands(n) = {} /\ g \in 1 .. index - 1
    <3>1. g \in Old /\ ~ IsOp(n)
      BY <1>2 DEF Placeable
    <3>2. /\ Len(circuit.gates) \in Nat /\ Old = 1 .. Len(circuit.gates) /\ n \in Node
          /\ index \in Nat /\ index > Len(circuit.gates)
      BY <3>1, GivenCircuit DEF RebalanceInv, StackHeld
    <3> HIDE DEF n
    <3> QED
      BY <3>1, <3>2 DEF Operands
  <2>3. /\ arena \in Seq(Node) /\ Topological(arena) /\ Continues(arena, to.arena)
        /\ DOMAIN arena = DOMAIN to.arena \cup {at} /\ at \notin DOMAIN to.arena
        /\ arena[at] = n
    BY <2>2, AppendContinues DEF Sound
  <2>4. /\ DOMAIN new = DOMAIN to.map \cup {g} /\ new[g] = at
        /\ \A x \in DOMAIN to.map : new[x] = to.map[x]
    BY <1>2
  <2> HIDE DEF n, at, arena, new
  <2>5. \A x \in DOMAIN to.map : new[x] \in DOMAIN to.arena
    BY <2>4 DEF Sound
  <2>6. Sound(Placed(to, g))
    <3>1. \A x \in DOMAIN new : x \in 1 .. index - 1 /\ new[x] \in DOMAIN arena
      BY <2>2, <2>3, <2>4, <2>5 DEF Sound
    <3>2. ASSUME NEW x \in Old \cap DOMAIN new, NEW y \in Old \cap DOMAIN new, new[x] = new[y]
          PROVE  x = y
      BY <3>2, <2>3, <2>4, <2>5 DEF Sound
    <3> QED
      BY <2>1, <2>3, <3>1, <3>2 DEF Sound
  <2>7. Grown(Placed(to, g), to)
    BY <2>1, <2>2, <2>3, <2>4 DEF Grown, n
  <2> QED
    BY <2>1, <2>4, <2>6, <2>7
<1> QED
  BY <1>1, <1>2

LEMMA GrownTwice ==
  ASSUME NEW a, NEW b, NEW c, Grown(b, a), Grown(c, b), Sound(b)
  PROVE  Grown(c, a)
<1>1. Continues(c.arena, a.arena)
  BY DEF Grown, Continues
<1>2. DOMAIN a.map \subseteq DOMAIN c.map /\ \A g \in DOMAIN a.map : c.map[g] = a.map[g]
  BY DEF Grown
<1>3. ASSUME NEW g \in DOMAIN c.map \ DOMAIN a.map
      PROVE  /\ g \in Old /\ ~ IsOp(circuit.gates[g])
             /\ c.map[g] \notin DOMAIN a.arena
             /\ c.arena[c.map[g]] = circuit.gates[g]
  <2>1. CASE g \in DOMAIN b.map
    <3>1. c.map[g] = b.map[g] /\ b.map[g] \in DOMAIN b.arena
      BY <2>1 DEF Grown, Sound
    <3>2. /\ g \in Old /\ ~ IsOp(circuit.gates[g]) /\ b.map[g] \notin DOMAIN a.arena
          /\ b.arena[b.map[g]] = circuit.gates[g]
      BY <1>3, <2>1 DEF Grown
    <3>3. c.arena[b.map[g]] = b.arena[b.map[g]]
      BY <3>1 DEF Grown, Continues
    <3> QED
      BY <3>1, <3>2, <3>3
  <2>2. CASE g \notin DOMAIN b.map
    <3>1. /\ g \in Old /\ ~ IsOp(circuit.gates[g]) /\ c.map[g] \notin DOMAIN b.arena
          /\ c.arena[c.map[g]] = circuit.gates[g]
      BY <1>3, <2>2 DEF Grown
    <3> QED
      BY <3>1 DEF Grown, Continues
  <2> QED
    BY <2>1, <2>2
<1> QED
  BY <1>1, <1>2, <1>3 DEF Grown

Here == [map |-> map, arena |-> rebalanced]

LEMMA HereSound == ASSUME RebalanceInv PROVE Sound(Here)
BY DEF RebalanceInv, RebalanceTypeOK, MappedApart, Sound, Here

LEMMA QueuePlaceable ==
  ASSUME RebalanceInv, NEW i \in DOMAIN queue
  PROVE  /\ Placeable(Here, queue[i].gate)
         /\ queue[i].gate \in Old => (IsOp(circuit.gates[queue[i].gate]) => queue[i].gate \in DOMAIN map)
BY DEF RebalanceInv, QueueHeld, Placeable, Here, Balanced

LEMMA CombinationHolds ==
  ASSUME RebalanceInv, balancing # << >>,
         NEW i \in DOMAIN queue, NEW j \in DOMAIN queue
  PROVE  LET c == Combination(i, j)
             to == c.to
         IN  /\ Sound(to) /\ Grown(to, Here)
             /\ queue[i].gate \in DOMAIN to.map /\ queue[j].gate \in DOMAIN to.map
             /\ c.gate = OpNode(circuit.gates[Innermost].op,
                                to.map[queue[i].gate], to.map[queue[j].gate])
             /\ c.gate \in Node /\ Operands(c.gate) \subseteq DOMAIN to.arena
             /\ c.rank = queue[i].rank + queue[j].rank /\ c.rank \in Nat
<1> DEFINE c == Combination(i, j)
           x == queue[i].gate
           y == queue[j].gate
           one == Placed(Here, x)
           to == Placed(one, y)
           op == circuit.gates[Innermost].op
<1>1. /\ c.to = to /\ c.rank = queue[i].rank + queue[j].rank
      /\ c.gate = OpNode(op, to.map[x], to.map[y])
  BY DEF Combination, Here
<1>2. Sound(one) /\ Grown(one, Here) /\ x \in DOMAIN one.map
  BY HereSound, QueuePlaceable, PlacedHolds
<1>3. Placeable(one, y)
  <2> HIDE DEF one, y
  <2>1. Placeable(Here, y)
    BY QueuePlaceable DEF y
  <2> QED
    BY <1>2, <2>1 DEF Placeable, Grown
<1>4. Sound(to) /\ Grown(to, one) /\ y \in DOMAIN to.map
  <2> HIDE DEF one
  <2> QED
    BY <1>2, <1>3, PlacedHolds
<1>5. Grown(to, Here)
  <2> HIDE DEF one, to
  <2> QED
    BY <1>2, <1>4, GrownTwice
<1>6. x \in DOMAIN to.map
  <2> HIDE DEF one, to, x
  <2> QED
    BY <1>2, <1>4 DEF Grown
<1> HIDE DEF c, to, one, x, y
<1>7. /\ to.map[x] \in DOMAIN to.arena /\ to.map[y] \in DOMAIN to.arena
      /\ DOMAIN to.arena = 1 .. Len(to.arena) /\ Len(to.arena) \in Nat
  BY <1>4, <1>6, LenProperties DEF Sound
<1>8. op \in Ops
  BY InnermostIs, GivenCircuit DEF RebalanceInv, StackHeld
<1>9. c.gate \in Node /\ Operands(c.gate) \subseteq DOMAIN to.arena
  <2>1. to.map[x] \in Index /\ to.map[y] \in Index
    BY <1>7 DEF Index
  <2>2. c.gate \in Node
    BY <1>1, <1>8, <2>1 DEF OpNode, Node
  <2>3. Operands(c.gate) = {to.map[x], to.map[y]}
    BY <1>1 DEF OpNode, Operands, IsOp
  <2> QED
    BY <1>7, <2>2, <2>3
<1>10. c.rank \in Nat
  BY <1>1 DEF RebalanceInv, RebalanceTypeOK
<1> QED
  BY <1>1, <1>4, <1>5, <1>6, <1>9, <1>10 DEF c, to, x, y

LEMMA FoldedTyped ==
  ASSUME NEW arena \in Seq(Node), NEW n \in Node, Operands(n) \subseteq DOMAIN arena, IsOp(n)
  PROVE  Folded(arena, n) \in Node /\ Operands(Folded(arena, n)) \subseteq DOMAIN arena
<1>1. CASE BothConst(arena, n)
  <2> DEFINE x == arena[n.lhs].value
             y == arena[n.rhs].value
  <2>1. n.lhs \in DOMAIN arena /\ n.rhs \in DOMAIN arena /\ n.op \in BinOp
    BY NodeKinds, DagAssumption
  <2>2. arena[n.lhs] \in Node /\ arena[n.rhs] \in Node
    BY <2>1, LenProperties, ElementOfSeq
  <2>3. x \in Int /\ y \in Int
    BY <1>1, <2>2 DEF BothConst, IsConst, Node, Word
  <2> HIDE DEF x, y
  <2>4. Exact(n.op, x, y) \in Int
    BY <2>1, <2>3, ExactType
  <2>5. MachineOp(n.op, x, y) \in Int
    BY <2>4, WordsAssumption DEF MachineOp
  <2>6. MachineOp(n.op, x, y) % Modulus \in Word
    <3>1. MachineOp(n.op, x, y) % Modulus \in Residue
      BY <2>5, ResidueFacts
    <3> QED
      BY <3>1, WordsAssumption DEF Residue, Word
  <2>7. Folded(arena, n) = ConstNode(MachineOp(n.op, x, y) % Modulus)
    BY <1>1 DEF Folded, x, y
  <2> QED
    BY <2>6, <2>7 DEF ConstNode, Node, Operands, IsOp
<1>2. CASE ~ BothConst(arena, n)
  BY <1>2 DEF Folded
<1> QED
  BY <1>1, <1>2

\* Without leaves the other elements, in order.
First(i, j) == IF i < j THEN i ELSE j
Second(i, j) == IF i < j THEN j ELSE i

LEMMA WithoutIs ==
  ASSUME queue \in Seq(Item), NEW i \in DOMAIN queue, NEW j \in DOMAIN queue, i # j
  PROVE  /\ Without(i, j) \in Seq(Item) /\ Len(Without(i, j)) = Len(queue) - 2
         /\ Len(queue) > 1 /\ Len(queue) \in Nat
         /\ DOMAIN Without(i, j) = 1 .. Len(queue) - 2
         /\ First(i, j) < Second(i, j)
         /\ First(i, j) \in DOMAIN queue /\ Second(i, j) \in DOMAIN queue
         /\ {First(i, j), Second(i, j)} = {i, j}
         /\ \A k \in 1 .. Len(queue) - 2 :
              LET l == IF k < First(i, j) THEN k ELSE IF k + 1 < Second(i, j) THEN k + 1 ELSE k + 2
              IN  l \in DOMAIN queue /\ Without(i, j)[k] = queue[l]
<1> DEFINE n == Len(queue)
           a == First(i, j)
           b == Second(i, j)
           At(k) == IF k < a THEN k ELSE IF k + 1 < b THEN k + 1 ELSE k + 2
           w == Without(i, j)
<1>1. n \in Nat /\ DOMAIN queue = 1 .. n /\ \A k \in 1 .. n : queue[k] \in Item
  BY LenProperties, ElementOfSeq
<1>2. w = [k \in 1 .. n - 2 |-> queue[At(k)]]
  BY DEF Without, First, Second
<1> HIDE DEF n
<1>3. a \in 1 .. n /\ b \in 1 .. n /\ a < b /\ {a, b} = {i, j} /\ n > 1
  BY <1>1 DEF First, Second
<1> HIDE DEF a, b
<1>4. \A k \in 1 .. n - 2 : At(k) \in 1 .. n
  BY <1>1, <1>3
<1>5. w \in [1 .. n - 2 -> Item]
  BY <1>1, <1>2, <1>4
<1>6. w \in Seq(Item) /\ Len(w) = n - 2
  <2>1. n - 2 \in Nat
    BY <1>1, <1>3
  <2>2. w \in Seq(Item)
    BY <1>5, <2>1, SeqDef
  <2> HIDE DEF w
  <2> QED
    BY <1>5, <2>1, <2>2, LenProperties
<1> QED
  BY <1>1, <1>2, <1>3, <1>4, <1>5, <1>6 DEF n, a, b

LEMMA WithoutAt ==
  ASSUME queue \in Seq(Item), NEW i \in DOMAIN queue, NEW j \in DOMAIN queue, i # j,
         NEW k \in 1 .. Len(queue) - 2
  PROVE  LET l == IF k < First(i, j) THEN k ELSE IF k + 1 < Second(i, j) THEN k + 1 ELSE k + 2
         IN  l \in DOMAIN queue /\ Without(i, j)[k] = queue[l]
<1> HIDE DEF First, Second, Without
<1> QED
  BY WithoutIs

\* What a turn of rebuild makes, of the i-th and the j-th element.
GateMade(i, j) ==
  LET c == Combination(i, j)
  IN  IF c.rank = 0 THEN Folded(c.to.arena, c.gate) ELSE c.gate

CombineOf(i, j) ==
  LET c == Combination(i, j)
      at == Len(c.to.arena) + 1
  IN  /\ ~ NoUsagesFor(c)
      /\ c.rank = 0 => ~ FoldOverflows(c.to.arena, c.gate)
      /\ rebalanced' = Append(c.to.arena, GateMade(i, j))
      /\ map' = Put(c.to.map, index, at)
      /\ usages' = [g \in DOMAIN usages |->
                      IF g \in UsedBy(c) THEN usages[g] \cup {at} ELSE usages[g]]
      /\ queue' = Append(Without(i, j), [gate |-> index, rank |-> c.rank])

LEMMA CombineIs ==
  ASSUME Combine
  PROVE  /\ balancing # << >> /\ index' = index + 1
         /\ UNCHANGED <<circuit, roots, balancing, ranks, phase>>
         /\ \E i, j \in DOMAIN queue : i # j /\ CombineOf(i, j)
<1>1. PICK p \in LowestPair : CombineOf(p[1], p[2])
  BY DEF Combine, CombineOf, GateMade
<1>2. p[1] \in DOMAIN queue /\ p[2] \in DOMAIN queue /\ p[1] # p[2]
  BY DEF LowestPair
<1> QED
  BY <1>1, <1>2 DEF Combine, Balancing, DistinctIndex

\* The arena grows by the leaves that were missing, then by the gate that is made.
LEMMA CombineGrows ==
  ASSUME RebalanceInv, balancing # << >>, NEW i \in DOMAIN queue, NEW j \in DOMAIN queue,
         CombineOf(i, j)
  PROVE  LET to == Combination(i, j).to
             at == Len(to.arena) + 1
         IN  /\ GateMade(i, j) \in Node
             /\ rebalanced' \in Seq(Node) /\ Topological(rebalanced')
             /\ Continues(rebalanced', to.arena) /\ Continues(rebalanced', rebalanced)
             /\ DOMAIN rebalanced' = DOMAIN to.arena \cup {at} /\ at \notin DOMAIN to.arena
             /\ rebalanced'[at] = GateMade(i, j)
             /\ DOMAIN map' = DOMAIN to.map \cup {index} /\ index \notin DOMAIN to.map
             /\ index \notin Old
             /\ map'[index] = at /\ \A g \in DOMAIN to.map : map'[g] = to.map[g]
<1> DEFINE c == Combination(i, j)
           to == c.to
           at == Len(to.arena) + 1
           n == GateMade(i, j)
<1>1. /\ Sound(to) /\ Grown(to, Here)
      /\ c.gate \in Node /\ Operands(c.gate) \subseteq DOMAIN to.arena
      /\ c.gate = OpNode(circuit.gates[Innermost].op,
                         to.map[queue[i].gate], to.map[queue[j].gate])
  BY CombinationHolds
<1>2. rebalanced' = Append(to.arena, n) /\ map' = Put(to.map, index, at)
  BY DEF CombineOf
<1>3. n = IF c.rank = 0 THEN Folded(to.arena, c.gate) ELSE c.gate
  BY DEF GateMade
<1> HIDE DEF c, to, n
<1>4. IsOp(c.gate)
  BY <1>1 DEF OpNode, IsOp
<1>5. n \in Node /\ Operands(n) \subseteq DOMAIN to.arena
  BY <1>1, <1>3, <1>4, FoldedTyped DEF Sound
<1>6. /\ rebalanced' \in Seq(Node) /\ Topological(rebalanced')
      /\ Continues(rebalanced', to.arena)
      /\ DOMAIN rebalanced' = DOMAIN to.arena \cup {at} /\ at \notin DOMAIN to.arena
      /\ rebalanced'[at] = n
  BY <1>1, <1>2, <1>5, AppendContinues DEF Sound
<1>7. index \notin DOMAIN to.map /\ index \notin Old
  <2>1. index \in Nat /\ index > Len(circuit.gates) /\ Len(circuit.gates) \in Nat
        /\ Old = 1 .. Len(circuit.gates)
    BY GivenCircuit DEF RebalanceInv, StackHeld
  <2>2. \A g \in DOMAIN to.map : g \in 1 .. index - 1
    BY <1>1 DEF Sound
  <2> QED
    BY <2>1, <2>2
<1> HIDE DEF at
<1>8. /\ DOMAIN map' = DOMAIN to.map \cup {index}
      /\ map'[index] = at /\ \A g \in DOMAIN to.map : map'[g] = to.map[g]
  BY <1>2, <1>7 DEF Put
<1>9. Continues(rebalanced', rebalanced)
  <2>1. Continues(to.arena, rebalanced)
    BY <1>1 DEF Grown, Here
  <2> QED
    BY <1>6, <2>1 DEF Continues
<1> QED
  BY <1>5, <1>6, <1>7, <1>8, <1>9 DEF c, to, n, at

\* The elements that are left, and one more.
LEMMA QueueCombined ==
  ASSUME RebalanceInv, balancing # << >>, NEW i \in DOMAIN queue, NEW j \in DOMAIN queue,
         i # j, CombineOf(i, j)
  PROVE  LET n == Len(queue) IN
         /\ queue' \in Seq(Item) /\ DOMAIN queue' = 1 .. n - 1 /\ Len(queue') = n - 1
         /\ queue'[n - 1] = [gate |-> index, rank |-> Combination(i, j).rank]
         /\ \A k \in 1 .. n - 2 : queue'[k] = Without(i, j)[k]
<1> DEFINE n == Len(queue)
           w == Without(i, j)
           item == [gate |-> index, rank |-> Combination(i, j).rank]
<1>1. queue \in Seq(Item)
  BY DEF RebalanceInv, QueueHeld, Item
<1>2. w \in Seq(Item) /\ Len(w) = n - 2 /\ n \in Nat /\ n > 1
  BY <1>1, WithoutIs
<1>3. item \in Item
  BY CombinationHolds DEF Item, RebalanceInv, StackHeld
<1>4. queue' = Append(w, item)
  BY DEF CombineOf
<1> HIDE DEF w, n, item
<1>5. /\ queue' \in Seq(Item) /\ Len(queue') = n - 2 + 1
      /\ queue'[n - 2 + 1] = item /\ \A k \in 1 .. n - 2 : queue'[k] = w[k]
  BY <1>2, <1>3, <1>4, AppendProperties
<1>6. n - 2 + 1 = n - 1
  BY <1>2
<1> QED
  BY <1>5, <1>6, LenProperties DEF n, w, item

LEMMA CombineKeeps ==
  ASSUME RebalanceInv, Combine
  PROVE  RebalanceInv'
<1>1. /\ balancing # << >> /\ index' = index + 1
      /\ UNCHANGED <<circuit, roots, balancing, ranks, phase>>
  BY CombineIs
<1>2. PICK i \in DOMAIN queue, j \in DOMAIN queue : i # j /\ CombineOf(i, j)
  BY CombineIs
<1> DEFINE c == Combination(i, j)
           to == c.to
           at == Len(to.arena) + 1
           w == Without(i, j)
           n == Len(queue)
           item == [gate |-> index, rank |-> c.rank]
<1>3. /\ Sound(to) /\ Grown(to, Here) /\ c.rank \in Nat
      /\ Operands(c.gate) \subseteq DOMAIN to.arena
  BY <1>1, CombinationHolds
<1>4. /\ rebalanced' \in Seq(Node) /\ Topological(rebalanced')
      /\ DOMAIN rebalanced' = DOMAIN to.arena \cup {at} /\ at \notin DOMAIN to.arena
      /\ DOMAIN map' = DOMAIN to.map \cup {index} /\ index \notin DOMAIN to.map
      /\ index \notin Old
      /\ map'[index] = at /\ \A g \in DOMAIN to.map : map'[g] = to.map[g]
  BY <1>1, <1>2, CombineGrows
<1>5. /\ usages' = [g \in DOMAIN usages |->
                      IF g \in UsedBy(c) THEN usages[g] \cup {at} ELSE usages[g]]
      /\ queue' = Append(w, item)
  BY <1>2 DEF CombineOf
<1>6. /\ queue \in Seq(Item) /\ n \in Nat /\ DOMAIN queue = 1 .. n
      /\ w \in Seq(Item) /\ Len(w) = n - 2 /\ n > 1 /\ DOMAIN w = 1 .. n - 2
      /\ \A k \in 1 .. n - 2 : \E l \in DOMAIN queue : w[k] = queue[l]
  <2>1. queue \in Seq(Item)
    BY DEF RebalanceInv, QueueHeld, Item
  <2> HIDE DEF w, n
  <2> QED
    BY <1>2, <2>1, WithoutIs, LenProperties DEF w, n
<1>7. index \in Nat /\ index > Len(circuit.gates) /\ index' = index + 1
      /\ Len(circuit.gates) \in Nat /\ Old = 1 .. Len(circuit.gates)
  BY <1>1, GivenCircuit DEF RebalanceInv, StackHeld
<1>8. /\ queue' \in Seq(Item) /\ DOMAIN queue' = 1 .. n - 1 /\ Len(queue') = n - 1
      /\ queue'[n - 1] = item /\ \A k \in 1 .. n - 2 : queue'[k] = w[k]
  BY <1>1, <1>2, QueueCombined
<1> HIDE DEF c, to, at, w, n
<1>9. /\ Old' = Old /\ Innermost' = Innermost
      /\ DOMAIN map \subseteq DOMAIN to.map
      /\ \A g \in DOMAIN map : map'[g] = map[g]
      /\ \A g \in DOMAIN to.map \ DOMAIN map :
           g \in Old /\ ~ IsOp(circuit.gates[g]) /\ to.map[g] \notin DOMAIN rebalanced
      /\ DOMAIN rebalanced \subseteq DOMAIN to.arena
  BY <1>1, <1>3, <1>4 DEF Grown, Here, Continues, Old, Innermost
<1>10. Balanced' = Balanced
  BY <1>1, <1>4, <1>9 DEF Balanced
<1>11. RebalanceTypeOK'
  <2>1. \A k \in 1 .. n - 2 : queue'[k].gate \in 1 .. index - 1 /\ queue'[k].rank \in Nat
    <3>1. \A l \in DOMAIN queue : queue[l].gate \in 1 .. index - 1 /\ queue[l].rank \in Nat
      BY DEF RebalanceInv, RebalanceTypeOK
    <3> QED
      BY <1>6, <1>8, <3>1
  <2>2. \A k \in DOMAIN queue' : queue'[k].gate \in 1 .. index' - 1 /\ queue'[k].rank \in Nat
    <3>1. item.gate \in 1 .. index' - 1 /\ item.rank \in Nat
      BY <1>3, <1>7
    <3>2. \A k \in DOMAIN queue' : k = n - 1 \/ k \in 1 .. n - 2
      BY <1>6, <1>8
    <3>3. 1 .. index - 1 \subseteq 1 .. index' - 1
      BY <1>7
    <3> HIDE DEF item
    <3> QED
      BY <1>8, <2>1, <3>1, <3>2, <3>3
  <2>3. \A g \in DOMAIN map' : g \in 1 .. index' - 1 /\ map'[g] \in DOMAIN rebalanced'
    <3>1. \A g \in DOMAIN to.map : g \in 1 .. index - 1 /\ to.map[g] \in DOMAIN to.arena
      BY <1>3 DEF Sound
    <3>2. 1 .. index - 1 \subseteq 1 .. index' - 1 /\ index \in 1 .. index' - 1
      BY <1>7
    <3> QED
      BY <1>4, <3>1, <3>2
  <2>4. usages' \in [Old -> SUBSET DOMAIN rebalanced']
    <3>1. usages \in [Old -> SUBSET DOMAIN rebalanced]
      BY DEF RebalanceInv, RebalanceTypeOK
    <3>2. at \in DOMAIN rebalanced' /\ DOMAIN rebalanced \subseteq DOMAIN rebalanced'
      BY <1>4, <1>9
    <3> QED
      BY <1>5, <3>1, <3>2
  <2> QED
    BY <1>1, <1>4, <1>9, <2>2, <2>3, <2>4 DEF RebalanceInv, RebalanceTypeOK
<1>12. StackHeld'
  BY <1>1, <1>7 DEF RebalanceInv, StackHeld
<1>13. RanksHeld'
  <2>1. queue # << >> /\ queue' # << >>
    <3>1. 1 \in DOMAIN queue /\ 1 \in DOMAIN queue'
      BY <1>6, <1>8
    <3> QED
      BY <3>1
  <2>2. {g \in Old : queue # << >> /\ g = Innermost}'
          = {g \in Old : queue # << >> /\ g = Innermost}
    BY <1>9, <2>1
  <2> QED
    BY <1>1, <1>9, <1>10, <2>2 DEF RebalanceInv, RanksHeld
<1>14. QueueHeld'
  <2> DEFINE Held(g) == IF g \in Old THEN IsOp(circuit.gates[g]) => g \in Balanced
                        ELSE g \in DOMAIN map' /\ \A h \in Old \cap DOMAIN map' : map'[h] # map'[g]
  <2>1. \A h \in DOMAIN to.map : to.map[h] \in DOMAIN to.arena
    BY <1>3 DEF Sound
  <2>2. Held(index)
    BY <1>4, <2>1
  <2>3. ASSUME NEW l \in DOMAIN queue
        PROVE  Held(queue[l].gate)
    <3> DEFINE g == queue[l].gate
    <3>1. CASE g \in Old
      BY <3>1 DEF RebalanceInv, QueueHeld
    <3>2. CASE g \notin Old
      <4>1. g \in DOMAIN map /\ \A h \in Old \cap DOMAIN map : map[h] # map[g]
        BY <3>2 DEF RebalanceInv, QueueHeld
      <4>2. map'[g] = map[g] /\ map[g] \in DOMAIN rebalanced /\ g \in DOMAIN map'
        BY <1>4, <1>9, <4>1 DEF RebalanceInv, RebalanceTypeOK
      <4> HIDE DEF g
      <4>3. ASSUME NEW h \in Old \cap DOMAIN map'
            PROVE  map'[h] # map'[g]
        <5>1. CASE h \in DOMAIN map
          BY <5>1, <1>9, <4>1, <4>2
        <5>2. CASE h \notin DOMAIN map
          <6>1. h \in DOMAIN to.map \ DOMAIN map
            BY <5>2, <4>3, <1>4
          <6> QED
            BY <6>1, <1>4, <1>9, <4>2
        <5> QED
          BY <5>1, <5>2
      <4> QED
        BY <3>2, <4>2, <4>3 DEF g
    <3> QED
      BY <3>1, <3>2
  <2>4. \A k \in DOMAIN queue' : Held(queue'[k].gate)
    <3>1. item.gate = index
      OBVIOUS
    <3>2. \A k \in DOMAIN queue' : k = n - 1 \/ k \in 1 .. n - 2
      BY <1>6, <1>8
    <3> HIDE DEF Held, item
    <3> QED
      BY <1>6, <1>8, <2>2, <2>3, <3>1, <3>2
  <2>5. Len(queue') = 1 => queue'[1].gate \notin Old
    <3>1. item.gate = index
      OBVIOUS
    <3> HIDE DEF item
    <3> QED
      BY <1>4, <1>6, <1>8, <3>1
  <2> QED
    BY <1>1, <1>8, <1>9, <1>10, <2>4, <2>5 DEF QueueHeld, Item
<1>15. MappedApart'
  <2>1. \A g \in Old \cap DOMAIN map' : g \in DOMAIN to.map /\ map'[g] = to.map[g]
    BY <1>4
  <2> QED
    BY <1>3, <1>9, <2>1 DEF MappedApart, Sound
<1> QED
  BY <1>4, <1>11, <1>12, <1>13, <1>14, <1>15 DEF RebalanceInv

LEMMA FinishRootKeeps ==
  ASSUME RebalanceInv, FinishRoot
  PROVE  RebalanceInv'
<1> DEFINE n == Len(balancing)
           root == Innermost
           last == queue[1].gate
<1>1. /\ balancing # << >> /\ Len(queue) = 1
      /\ root \in Range(circuit.outputs) => RebuiltAs \in DOMAIN usages
      /\ map' = Put(map, root, RebuiltAs)
      /\ usages' = [g \in DOMAIN usages |->
                      IF root \in Range(circuit.outputs) /\ g = RebuiltAs
                      THEN usages[g] \cup {g} ELSE usages[g]]
      /\ balancing' = SubSeq(balancing, 1, n - 1) /\ queue' = << >>
      /\ UNCHANGED <<circuit, roots, ranks, index, rebalanced, phase>>
  BY DEF FinishRoot, Built, Balancing
<1>2. /\ n \in Nat \ {0} /\ DOMAIN balancing = 1 .. n
      /\ root \in Old /\ IsOp(circuit.gates[root])
      /\ root \notin Balanced /\ root \notin DOMAIN map
      /\ \A i \in 1 .. n - 1 : root < balancing[i]
  BY <1>1, InnermostIs
<1>3. RebuiltAs = map[last] /\ last \in DOMAIN map
      /\ \A h \in Old \cap DOMAIN map : map[h] # map[last]
  <2>1. queue \in Seq(Item)
    BY DEF RebalanceInv, QueueHeld, Item
  <2>2. 1 \in DOMAIN queue
    BY <1>1, <2>1, LenProperties
  <2> QED
    BY <1>1, <2>2 DEF RebalanceInv, QueueHeld, RebuiltAs
<1>4. Old' = Old /\ Balanced' = Balanced \cup {root}
  <2>1. Old' = Old
    BY <1>1 DEF Old
  <2>2. DOMAIN map' = DOMAIN map \cup {root}
    BY <1>1 DEF Put
  <2> HIDE DEF root
  <2> QED
    BY <1>1, <1>2, <2>1, <2>2 DEF Balanced
<1>5. /\ DOMAIN map' = DOMAIN map \cup {root}
      /\ map'[root] = map[last] /\ \A g \in DOMAIN map : map'[g] = map[g]
  <2> HIDE DEF root, last
  <2> QED
    BY <1>1, <1>2, <1>3 DEF Put
<1>6. /\ balancing' \in Seq(Old) /\ DOMAIN balancing' = 1 .. n - 1
      /\ \A i \in 1 .. n - 1 : balancing'[i] = balancing[i]
  <2>1. balancing \in Seq(Old) /\ n - 1 \in Int
    BY <1>2 DEF RebalanceInv, RebalanceTypeOK
  <2>2. \A i \in 1 .. n - 1 : balancing[i] \in Old
    BY <2>1, <1>2, ElementOfSeq
  <2>3. /\ SubSeq(balancing, 1, n - 1) \in Seq(Old)
        /\ Len(SubSeq(balancing, 1, n - 1)) = IF 1 <= n - 1 THEN n - 1 - 1 + 1 ELSE 0
        /\ \A i \in 1 .. n - 1 - 1 + 1 : SubSeq(balancing, 1, n - 1)[i] = balancing[1 + i - 1]
    <3> HIDE DEF n
    <3> QED
      BY <2>1, <2>2, SubSeqProperties
  <2> HIDE DEF n
  <2>4. Len(SubSeq(balancing, 1, n - 1)) = n - 1
    BY <1>2, <2>3
  <2>5. \A i \in 1 .. n - 1 : SubSeq(balancing, 1, n - 1)[i] = balancing[i]
    BY <1>2, <2>3
  <2> QED
    BY <1>1, <2>3, <2>4, <2>5, LenProperties
<1> HIDE DEF n, root, last
<1>7. RebalanceTypeOK'
  <2>1. map[last] \in DOMAIN rebalanced
    BY <1>3 DEF RebalanceInv, RebalanceTypeOK
  <2>2. \A g \in DOMAIN map' : g \in 1 .. index - 1 /\ map'[g] \in DOMAIN rebalanced
    <3>1. root \in 1 .. index - 1
      BY <1>2, GivenCircuit DEF RebalanceInv, StackHeld
    <3> QED
      BY <1>5, <2>1, <3>1 DEF RebalanceInv, RebalanceTypeOK
  <2>3. usages' \in [Old -> SUBSET DOMAIN rebalanced]
    <3>1. usages \in [Old -> SUBSET DOMAIN rebalanced]
      BY DEF RebalanceInv, RebalanceTypeOK
    <3> QED
      BY <1>1, <1>3, <2>1, <3>1
  <2>4. DOMAIN queue' = {}
    BY <1>1
  <2> QED
    BY <1>1, <1>4, <1>6, <2>2, <2>3, <2>4 DEF RebalanceInv, RebalanceTypeOK
<1>8. StackHeld'
  <2>1. \A i \in DOMAIN balancing' : i \in DOMAIN balancing /\ balancing'[i] = balancing[i]
    BY <1>2, <1>6
  <2> QED
    BY <1>1, <2>1 DEF RebalanceInv, StackHeld
<1>9. RanksHeld'
  <2>1. DOMAIN ranks = Balanced \cup {root}
    <3>1. queue # << >>
      BY <1>1
    <3>2. {g \in Old : queue # << >> /\ g = Innermost} = {root}
      BY <1>2, <3>1 DEF root
    <3> QED
      BY <3>2 DEF RebalanceInv, RanksHeld
  <2>2. {g \in Old : queue # << >> /\ g = Innermost}' = {}
    BY <1>1
  <2>3. \A i \in DOMAIN balancing' : balancing'[i] \notin Balanced'
    <3>1. ASSUME NEW i \in 1 .. n - 1
          PROVE  balancing[i] \notin Balanced \cup {root}
      <4>1. balancing[i] \notin Balanced
        BY <1>2 DEF RebalanceInv, RanksHeld, Range
      <4>2. balancing[i] # root
        <5>1. root < balancing[i] /\ root \in Nat
          BY <1>2, GivenCircuit DEF RebalanceInv, StackHeld
        <5> QED
          BY <5>1
      <4> QED
        BY <4>1, <4>2
    <3> QED
      BY <3>1, <1>4, <1>6
  <2>4. Range(balancing') \cap Balanced' = {}
    BY <2>3 DEF Range
  <2> QED
    BY <1>1, <1>4, <2>1, <2>2, <2>4 DEF RanksHeld
<1>10. QueueHeld'
  <2>1. queue' \in Seq([gate : Nat, rank : Nat]) /\ Len(queue') = 0 /\ DOMAIN queue' = {}
    BY <1>1
  <2> QED
    BY <2>1 DEF QueueHeld
<1>11. MappedApart'
  BY <1>3, <1>4, <1>5 DEF RebalanceInv, MappedApart
<1>12. Topological(rebalanced)'
  BY <1>1 DEF RebalanceInv
<1> QED
  BY <1>7, <1>8, <1>9, <1>10, <1>11, <1>12 DEF RebalanceInv

\* Every other step leaves the trees alone.
LEMMA OthersKeep ==
  ASSUME RebalanceInv, \/ CombinePanics \/ FinishPanics \/ CallNewCircuit \/ Rebuilding
                       \/ UNCHANGED rebalanceVars
  PROVE  Untouched
<1>1. roots \subseteq Old /\ phase \in {"running", "rebuilding", "panic"}
  BY DEF RebalanceInv, RebalanceTypeOK
<1> QED
  BY <1>1 DEF Untouched, CombinePanics, FinishPanics, CallNewCircuit, Rebuilding, rebalanceVars,
     balanceVars

LEMMA StepCases ==
  ASSUME RebalanceInv, [BalanceStep]_rebalanceVars
  PROVE  \/ Untouched \/ \E r \in roots : NextRoot(r)
         \/ BalanceLeaf \/ Flatten \/ Combine \/ FinishRoot
BY OthersKeep DEF BalanceStep

LEMMA StepHolds ==
  ASSUME RebalanceInv, [BalanceStep]_rebalanceVars
  PROVE  RebalanceInv'
BY StepCases, UntouchedHolds, NextRootKeeps, BalanceLeafKeeps, FlattenKeeps, CombineKeeps,
   FinishRootKeeps

LEMMA RebalanceInvariant == RebalanceSpec => []RebalanceInv
BY InitHolds, StepHolds, PTL DEF RebalanceSpec

\* Whatever the trees, the queue and the ranks, every index is one of a gate there is:
\* of the circuit, of the new arena, or one that was handed out (rebalance.rs:32-41).
THEOREM RebalanceTypeCorrect == RebalanceSpec => []RebalanceTypeOK
<1>1. RebalanceInv => RebalanceTypeOK
  BY DEF RebalanceInv
<1> QED
  BY <1>1, RebalanceInvariant, PTL

\* A gate that has been mapped stays where it is, and no two gates of the circuit are
\* mapped to the same: no tree is built twice, and none is taken for another
\* (old_to_new_gate_idx_map, rebalance.rs:72-107, 147-165).
THEOREM GatesMappedOnce == RebalanceSpec => MappedOnce
<1> DEFINE Step1 == /\ \A g \in DOMAIN map : map'[g] = map[g]
                    /\ \A g, h \in Old \cap DOMAIN map' : map'[g] = map'[h] => g = h
<1>1. ASSUME RebalanceInv, RebalanceInv', [BalanceStep]_rebalanceVars
      PROVE  Step1
  <2>1. Old' = Old
    BY <1>1, StepCases
       DEF Untouched, NextRoot, BalanceLeaf, Flatten, Combine, FinishRoot, Old
  <2>2. \A g, h \in Old \cap DOMAIN map' : map'[g] = map'[h] => g = h
    BY <1>1, <2>1 DEF RebalanceInv, MappedApart
  <2>3. CASE Untouched \/ (\E r \in roots : NextRoot(r)) \/ BalanceLeaf \/ Flatten
    BY <2>2, <2>3 DEF Untouched, NextRoot, BalanceLeaf, Flatten
  <2>4. CASE Combine
    <3>1. PICK i \in DOMAIN queue, j \in DOMAIN queue : CombineOf(i, j)
      BY <2>4, CombineIs
    <3> DEFINE to == Combination(i, j).to
    <3>2. balancing # << >>
      BY <2>4, CombineIs
    <3>3. Grown(to, Here)
      BY <1>1, <3>2, CombinationHolds
    <3>4. \A g \in DOMAIN to.map : map'[g] = to.map[g]
      BY <1>1, <3>1, <3>2, CombineGrows
    <3> HIDE DEF to
    <3> QED
      BY <2>2, <3>3, <3>4 DEF Grown, Here
  <2>5. CASE FinishRoot
    <3>1. Innermost \notin DOMAIN map
      BY <1>1, <2>5, InnermostIs DEF FinishRoot, Built, Balancing
    <3>2. map' = Put(map, Innermost, RebuiltAs)
      BY <2>5 DEF FinishRoot
    <3> QED
      BY <2>2, <3>1, <3>2 DEF Put
  <2> QED
    BY <1>1, <2>3, <2>4, <2>5, StepCases
<1>2. RebalanceInv /\ RebalanceInv' /\ [BalanceStep]_rebalanceVars => [Step1]_rebalanceVars
  BY <1>1
<1> QED
  BY <1>2, RebalanceInvariant, PTL DEF RebalanceSpec, MappedOnce

-----------------------------------------------------------------------------
\* The trees keep their values.

\* One element of a list of numbers is the sum of two of another, which has the rest of
\* that one's numbers, in order.
LEMMA TotalOfMerged ==
  ASSUME NEW op \in AssociativeOps, NEW n \in Nat, n > 1,
         NEW a \in 1 .. n, NEW b \in 1 .. n, a < b,
         NEW v \in [1 .. n -> Residue], NEW u \in [1 .. n - 1 -> Residue],
         \A k \in 1 .. n - 2 :
           u[k] = v[IF k < a THEN k ELSE IF k + 1 < b THEN k + 1 ELSE k + 2],
         u[n - 1] = RingOp(op, v[a], v[b])
  PROVE  Total(op, n - 1, u) = Total(op, n, v)
<1> DEFINE m == n - 1
           s == [k \in 1 .. m |-> v[IF k < b THEN k ELSE k + 1]]
           t == [k \in 1 .. m - 1 |-> s[IF k < a THEN k ELSE k + 1]]
<1>1. /\ n \in Nat \ {0} /\ m \in Nat \ {0} /\ m - 1 \in Nat /\ a \in 1 .. m /\ m \in 1 .. m
      /\ m = n - 1 /\ m - 1 = n - 2
  OBVIOUS
<1>2. s \in [1 .. n - 1 -> Residue] /\ s \in [1 .. m -> Residue] /\ s[a] = v[a]
      /\ \A k \in 1 .. m : s[k] = v[IF k < b THEN k ELSE k + 1]
  OBVIOUS
<1>3. Dropped(s, n, v, b)
  BY <1>1, <1>2 DEF Dropped
<1> HIDE DEF s
<1>4. t \in [1 .. m - 1 -> Residue]
      /\ \A k \in 1 .. m - 1 : t[k] = s[IF k < a THEN k ELSE k + 1]
  BY <1>1, <1>2
<1> HIDE DEF t, m
<1>5. Dropped(t, m, s, a)
  BY <1>4 DEF Dropped
<1>6. ASSUME NEW k \in 1 .. m - 1
      PROVE  t[k] = u[IF k < m THEN k ELSE k + 1]
  <2>1. u[k] = v[IF k < a THEN k ELSE IF k + 1 < b THEN k + 1 ELSE k + 2] /\ k < m
    BY <1>1
  <2>2. CASE k < a
    <3>1. k \in 1 .. m /\ k < b
      BY <2>2, <1>1
    <3> QED
      BY <2>1, <2>2, <3>1, <1>2, <1>4
  <2>3. CASE ~ (k < a)
    <3>1. k + 1 \in 1 .. m /\ k + 1 + 1 = k + 2
      BY <1>1
    <3>2. t[k] = v[IF k + 1 < b THEN k + 1 ELSE k + 2]
      BY <2>3, <3>1, <1>2, <1>4
    <3> QED
      BY <2>1, <2>3, <3>2
  <2> QED
    BY <2>2, <2>3
<1>7. Dropped(t, m, u, m)
  BY <1>6 DEF Dropped
<1>8. Total(op, n, v) = RingOp(op, Total(op, n - 1, s), v[b])
  BY <1>1, <1>2, <1>3, TotalOfDropped
<1>9. Total(op, m, s) = RingOp(op, Total(op, m - 1, t), s[a])
  BY <1>1, <1>2, <1>4, <1>5, TotalOfDropped
<1>10. u \in [1 .. m -> Residue] /\ u[m] = RingOp(op, v[a], v[b])
  BY <1>1
<1>11. Total(op, m, u) = RingOp(op, Total(op, m - 1, t), u[m])
  BY <1>1, <1>4, <1>7, <1>10, TotalOfDropped
<1>12. /\ Total(op, m - 1, t) \in Residue /\ v[a] \in Residue /\ v[b] \in Residue
  BY <1>1, <1>4, RunIs
<1>13. RingOp(op, RingOp(op, Total(op, m - 1, t), v[a]), v[b])
         = RingOp(op, Total(op, m - 1, t), RingOp(op, v[a], v[b]))
  BY <1>12, RingAssociates
<1> QED
  BY <1>1, <1>2, <1>8, <1>9, <1>10, <1>11, <1>13

\* A fold keeps the value of an operation on two constants that does not overflow.
LEMMA FoldedValue ==
  ASSUME NEW arena \in Seq(Node), NEW n \in Node, IsOp(n), Operands(n) \subseteq DOMAIN arena,
         NEW env, NEW val,
         val[n.lhs] = NodeValue(arena[n.lhs], env, val),
         val[n.rhs] = NodeValue(arena[n.rhs], env, val),
         ~ FoldOverflows(arena, n), OverflowChecks \/ DividesWordSize(Modulus)
  PROVE  NodeValue(Folded(arena, n), env, val) = RingOp(n.op, val[n.lhs], val[n.rhs])
<1>1. CASE BothConst(arena, n)
  <2> DEFINE x == arena[n.lhs].value
             y == arena[n.rhs].value
             e == MachineOp(n.op, x, y)
  <2>1. n.lhs \in DOMAIN arena /\ n.rhs \in DOMAIN arena /\ n.op \in BinOp
    BY NodeKinds, DagAssumption
  <2>2. arena[n.lhs] \in Node /\ arena[n.rhs] \in Node
    BY <2>1, LenProperties, ElementOfSeq
  <2>3. IsConst(arena[n.lhs]) /\ IsConst(arena[n.rhs]) /\ x \in Word /\ y \in Word
    BY <1>1, <2>2 DEF BothConst, IsConst, Node
  <2>4. ~ Overflows(n.op, x, y) \/ DividesWordSize(Modulus)
    BY <1>1 DEF FoldOverflows
  <2>5. val[n.lhs] = x % Modulus /\ val[n.rhs] = y % Modulus
    BY <2>2, <2>3, NodeKinds DEF NodeValue
  <2>6. Folded(arena, n) = ConstNode(e % Modulus)
    BY <1>1 DEF Folded
  <2> HIDE DEF x, y, e
  <2>7. NodeValue(ConstNode(e % Modulus), env, val) = RingOp(n.op, x % Modulus, y % Modulus)
    BY <2>1, <2>3, <2>4, ConstFoldValue DEF e
  <2> QED
    BY <2>5, <2>6, <2>7
<1>2. CASE ~ BothConst(arena, n)
  BY <1>2, NodeKinds DEF Folded, NodeValue
<1> QED
  BY <1>1, <1>2

ItemValue(g, before, now) == IF g \in Old THEN before[g] ELSE now[map[g]]
ItemValues(before, now) == [k \in DOMAIN queue |-> ItemValue(queue[k].gate, before, now)]

\* A gate that is mapped stands for what it did, and the elements of the queue make
\* together what the innermost root stands for.
TreesHeld(env) ==
  LET before == Denote(circuit.gates, env)
      now == Denote(rebalanced, env)
  IN  /\ \A g \in Old \cap DOMAIN map : now[map[g]] = before[g]
      /\ queue # << >> =>
           Total(circuit.gates[Innermost].op, Len(queue), ItemValues(before, now))
             = before[Innermost]

LEMMA ValuesTyped ==
  ASSUME RebalanceInv, NEW env \in Assignments
  PROVE  LET before == Denote(circuit.gates, env)
             now == Denote(rebalanced, env)
         IN  /\ \A g \in Old : /\ before[g] \in Residue
                               /\ before[g] = NodeValue(circuit.gates[g], env, before)
             /\ \A x \in DOMAIN rebalanced : /\ now[x] \in Residue
                                             /\ now[x] = NodeValue(rebalanced[x], env, now)
             /\ ItemValues(before, now) \in [1 .. Len(queue) -> Residue]
<1> DEFINE before == Denote(circuit.gates, env)
           now == Denote(rebalanced, env)
<1>1. \A g \in Old : before[g] \in Residue /\ before[g] = NodeValue(circuit.gates[g], env, before)
  <2>1. circuit.gates \in Seq(Node) /\ Topological(circuit.gates)
    BY GivenCircuit DEF RebalanceInv, StackHeld
  <2> QED
    BY <2>1, DenoteEquation DEF Old
<1>2. \A x \in DOMAIN rebalanced :
        now[x] \in Residue /\ now[x] = NodeValue(rebalanced[x], env, now)
  BY DenoteEquation DEF RebalanceInv, RebalanceTypeOK
<1> HIDE DEF before, now
<1>3. DOMAIN queue = 1 .. Len(queue)
  BY LenProperties DEF RebalanceInv, QueueHeld
<1>4. ASSUME NEW k \in DOMAIN queue
      PROVE  ItemValue(queue[k].gate, before, now) \in Residue
  <2>1. CASE queue[k].gate \in Old
    BY <2>1, <1>1 DEF ItemValue
  <2>2. CASE queue[k].gate \notin Old
    <3>1. queue[k].gate \in DOMAIN map
      BY <2>2 DEF RebalanceInv, QueueHeld
    <3>2. map[queue[k].gate] \in DOMAIN rebalanced
      BY <3>1 DEF RebalanceInv, RebalanceTypeOK
    <3> QED
      BY <2>2, <3>2, <1>2 DEF ItemValue
  <2> QED
    BY <2>1, <2>2
<1>5. ItemValues(before, now) \in [1 .. Len(queue) -> Residue]
  BY <1>3, <1>4 DEF ItemValues
<1> QED
  BY <1>1, <1>2, <1>5 DEF before, now

\* What a turn of rebuild adds has the value that it has in the circuit.
LEMMA PlacedValues ==
  ASSUME RebalanceInv, balancing # << >>, NEW i \in DOMAIN queue, NEW j \in DOMAIN queue,
         CombineOf(i, j), NEW env \in Assignments, TreesHeld(env)
  PROVE  LET to == Combination(i, j).to
             before == Denote(circuit.gates, env)
             now == Denote(rebalanced, env)
             later == Denote(rebalanced', env)
         IN  /\ \A g \in DOMAIN map : later[map[g]] = now[map[g]]
             /\ \A g \in Old \cap DOMAIN to.map : later[to.map[g]] = before[g]
             /\ \A k \in {i, j} :
                  later[to.map[queue[k].gate]] = ItemValue(queue[k].gate, before, now)
<1> DEFINE to == Combination(i, j).to
           before == Denote(circuit.gates, env)
           now == Denote(rebalanced, env)
           later == Denote(rebalanced', env)
<1>1. /\ Sound(to) /\ Grown(to, Here)
      /\ queue[i].gate \in DOMAIN to.map /\ queue[j].gate \in DOMAIN to.map
  BY CombinationHolds
<1>2. /\ rebalanced' \in Seq(Node) /\ Topological(rebalanced')
      /\ Continues(rebalanced', to.arena) /\ Continues(rebalanced', rebalanced)
  BY CombineGrows
<1>3. \A x \in DOMAIN rebalanced : later[x] = now[x]
  BY <1>2, DenoteContinues DEF RebalanceInv, RebalanceTypeOK
<1>4. \A x \in DOMAIN rebalanced' : later[x] = NodeValue(rebalanced'[x], env, later)
  BY <1>2, DenoteEquation
<1>5. \A g \in Old : before[g] = NodeValue(circuit.gates[g], env, before)
  BY ValuesTyped
<1>6. \A g \in Old \cap DOMAIN map : now[map[g]] = before[g]
  BY DEF TreesHeld
<1> HIDE DEF to, before, now, later
<1>7. \A g \in DOMAIN map : later[map[g]] = now[map[g]]
  BY <1>3 DEF RebalanceInv, RebalanceTypeOK
<1>8. \A g \in DOMAIN map : to.map[g] = map[g]
  BY <1>1 DEF Grown, Here
<1>9. ASSUME NEW g \in Old \cap DOMAIN to.map
      PROVE  later[to.map[g]] = before[g]
  <2>1. CASE g \in DOMAIN map
    BY <2>1, <1>6, <1>7, <1>8
  <2>2. CASE g \notin DOMAIN map
    <3>1. ~ IsOp(circuit.gates[g]) /\ to.arena[to.map[g]] = circuit.gates[g]
      BY <2>2, <1>1 DEF Grown, Here
    <3>2. to.map[g] \in DOMAIN to.arena
      BY <1>1 DEF Sound
    <3>3. to.map[g] \in DOMAIN rebalanced' /\ rebalanced'[to.map[g]] = circuit.gates[g]
      BY <3>1, <3>2, <1>2 DEF Continues
    <3>4. later[to.map[g]] = NodeValue(circuit.gates[g], env, later)
      BY <3>3, <1>4
    <3>5. circuit.gates[g] \in Node
      BY GivenCircuit DEF RebalanceInv, StackHeld
    <3>6. NodeValue(circuit.gates[g], env, later) = NodeValue(circuit.gates[g], env, before)
      BY <3>1, <3>5, NodeValueLocal
    <3> QED
      BY <3>4, <3>6, <1>5
  <2> QED
    BY <2>1, <2>2
<1>10. ASSUME NEW k \in {i, j}
       PROVE  later[to.map[queue[k].gate]] = ItemValue(queue[k].gate, before, now)
  <2>1. queue[k].gate \in DOMAIN to.map /\ k \in DOMAIN queue
    BY <1>1
  <2>2. CASE queue[k].gate \in Old
    BY <2>1, <2>2, <1>9 DEF ItemValue
  <2>3. CASE queue[k].gate \notin Old
    <3>1. queue[k].gate \in DOMAIN map
      BY <2>1, <2>3 DEF RebalanceInv, QueueHeld
    <3> QED
      BY <2>3, <3>1, <1>7, <1>8 DEF ItemValue
  <2> QED
    BY <2>2, <2>3
<1> QED
  BY <1>7, <1>9, <1>10 DEF to, before, now, later

\* And the gate that it makes has the value of the operation on them.
LEMMA GateMadeValue ==
  ASSUME RebalanceInv, balancing # << >>, NEW i \in DOMAIN queue, NEW j \in DOMAIN queue,
         CombineOf(i, j), NEW env \in Assignments,
         OverflowChecks \/ DividesWordSize(Modulus)
  PROVE  LET to == Combination(i, j).to
             later == Denote(rebalanced', env)
         IN  later[Len(to.arena) + 1]
               = RingOp(circuit.gates[Innermost].op,
                        later[to.map[queue[i].gate]], later[to.map[queue[j].gate]])
<1> DEFINE c == Combination(i, j)
           to == c.to
           n == c.gate
           later == Denote(rebalanced', env)
           op == circuit.gates[Innermost].op
           l == to.map[queue[i].gate]
           r == to.map[queue[j].gate]
           at == Len(to.arena) + 1
<1>1. /\ Sound(to) /\ n = OpNode(op, l, r)
      /\ n \in Node /\ Operands(n) \subseteq DOMAIN to.arena
  BY CombinationHolds
<1>2. /\ rebalanced' \in Seq(Node) /\ Topological(rebalanced')
      /\ Continues(rebalanced', to.arena)
      /\ at \in DOMAIN rebalanced' /\ rebalanced'[at] = GateMade(i, j)
  BY CombineGrows, ZenonT(60)
<1>3. \A x \in DOMAIN rebalanced' : later[x] = NodeValue(rebalanced'[x], env, later)
  BY <1>2, DenoteEquation
<1>4. /\ GateMade(i, j) = IF c.rank = 0 THEN Folded(to.arena, n) ELSE n
      /\ c.rank = 0 => ~ FoldOverflows(to.arena, n)
  BY DEF GateMade, CombineOf
<1> HIDE DEF c, to, n, later, op, l, r, at
<1>5. /\ IsOp(n) /\ n.op = op /\ n.lhs = l /\ n.rhs = r
      /\ l \in DOMAIN to.arena /\ r \in DOMAIN to.arena
  BY <1>1 DEF OpNode, IsOp, Operands
<1>6. /\ later[l] = NodeValue(to.arena[l], env, later)
      /\ later[r] = NodeValue(to.arena[r], env, later)
  BY <1>2, <1>3, <1>5 DEF Continues
<1>7. NodeValue(GateMade(i, j), env, later) = RingOp(op, later[l], later[r])
  <2>1. CASE c.rank = 0
    <3>1. GateMade(i, j) = Folded(to.arena, n) /\ ~ FoldOverflows(to.arena, n)
      BY <2>1, <1>4
    <3>2. to.arena \in Seq(Node)
      BY <1>1 DEF Sound
    <3>3. NodeValue(Folded(to.arena, n), env, later) = RingOp(n.op, later[n.lhs], later[n.rhs])
      BY <1>1, <1>5, <1>6, <3>1, <3>2, FoldedValue
    <3> QED
      BY <1>5, <3>1, <3>3
  <2>2. CASE c.rank # 0
    <3>1. GateMade(i, j) = n
      BY <2>2, <1>4
    <3>2. NodeValue(n, env, later) = RingOp(n.op, later[n.lhs], later[n.rhs])
      BY <1>1, <1>5, NodeKinds DEF NodeValue
    <3> QED
      BY <1>5, <3>1, <3>2
  <2> QED
    BY <2>1, <2>2
<1> QED
  BY <1>2, <1>3, <1>7 DEF c, to, later, op, l, r, at

LEMMA CombineKeepsValues ==
  ASSUME RebalanceInv, Combine, NEW env \in Assignments, TreesHeld(env),
         circuit.gates[Innermost].op \in AssociativeOps,
         OverflowChecks \/ DividesWordSize(Modulus)
  PROVE  TreesHeld(env)'
<1>1. /\ balancing # << >> /\ index' = index + 1
      /\ UNCHANGED <<circuit, roots, balancing, ranks, phase>>
  BY CombineIs
<1>2. PICK i \in DOMAIN queue, j \in DOMAIN queue : i # j /\ CombineOf(i, j)
  BY CombineIs
<1> DEFINE to == Combination(i, j).to
           n == Len(queue)
           at == Len(to.arena) + 1
           a == First(i, j)
           b == Second(i, j)
           op == circuit.gates[Innermost].op
           before == Denote(circuit.gates, env)
           now == Denote(rebalanced, env)
           later == Denote(rebalanced', env)
           v == ItemValues(before, now)
           value(g) == IF g \in Old THEN before[g] ELSE later[map'[g]]
           u == [k \in DOMAIN queue' |-> value(queue'[k].gate)]
<1>3. /\ DOMAIN map' = DOMAIN to.map \cup {index} /\ index \notin Old
      /\ map'[index] = at /\ \A g \in DOMAIN to.map : map'[g] = to.map[g]
  BY <1>1, <1>2, CombineGrows
<1>4. /\ \A g \in DOMAIN map : later[map[g]] = now[map[g]]
      /\ \A g \in Old \cap DOMAIN to.map : later[to.map[g]] = before[g]
      /\ \A k \in {i, j} : later[to.map[queue[k].gate]] = ItemValue(queue[k].gate, before, now)
  BY <1>1, <1>2, PlacedValues
<1>5. later[at] = RingOp(op, later[to.map[queue[i].gate]], later[to.map[queue[j].gate]])
  BY <1>1, <1>2, GateMadeValue
<1>6. /\ queue' \in Seq(Item) /\ DOMAIN queue' = 1 .. n - 1 /\ Len(queue') = n - 1
      /\ queue'[n - 1] = [gate |-> index, rank |-> Combination(i, j).rank]
      /\ \A k \in 1 .. n - 2 : queue'[k] = Without(i, j)[k]
  BY <1>1, <1>2, QueueCombined
<1>7. /\ n \in Nat /\ n > 1 /\ DOMAIN queue = 1 .. n /\ a \in 1 .. n /\ b \in 1 .. n /\ a < b
      /\ {a, b} = {i, j}
      /\ \A k \in 1 .. n - 2 :
           LET l == IF k < a THEN k ELSE IF k + 1 < b THEN k + 1 ELSE k + 2
           IN  l \in DOMAIN queue /\ Without(i, j)[k] = queue[l]
  <2>1. queue \in Seq(Item)
    BY DEF RebalanceInv, QueueHeld, Item
  <2> QED
    BY <1>2, <2>1, WithoutIs, LenProperties
<1>8. \A g \in DOMAIN map : to.map[g] = map[g] /\ g \in DOMAIN to.map
  BY <1>1, <1>2, CombinationHolds DEF Grown, Here
<1>9. /\ v \in [1 .. n -> Residue]
      /\ \A k \in DOMAIN queue : v[k] = ItemValue(queue[k].gate, before, now)
      /\ \A g \in Old : before[g] \in Residue
  BY ValuesTyped DEF ItemValues
<1>10. queue # << >>
  BY <1>7
<1>11. Total(op, n, v) = before[Innermost]
  BY <1>10 DEF TreesHeld
<1> HIDE DEF to, at, a, b, op, before, now, later, v
<1>12. Old' = Old /\ Innermost' = Innermost
  BY <1>1 DEF Old, Innermost
<1>13. \A g \in Old \cap DOMAIN map' : later[map'[g]] = before[g]
  BY <1>3, <1>4
<1>14. \A k \in 1 .. n - 2 :
         u[k] = v[IF k < a THEN k ELSE IF k + 1 < b THEN k + 1 ELSE k + 2]
  <2>1. ASSUME NEW l \in DOMAIN queue
        PROVE  value(queue[l].gate) = v[l]
    <3>1. CASE queue[l].gate \in Old
      BY <3>1, <1>9 DEF ItemValue
    <3>2. CASE queue[l].gate \notin Old
      <4>1. queue[l].gate \in DOMAIN map
        BY <3>2 DEF RebalanceInv, QueueHeld
      <4> QED
        BY <3>2, <4>1, <1>3, <1>4, <1>8, <1>9 DEF ItemValue
    <3> QED
      BY <3>1, <3>2
  <2>2. ASSUME NEW k \in 1 .. n - 2
        PROVE  u[k] = v[IF k < a THEN k ELSE IF k + 1 < b THEN k + 1 ELSE k + 2]
    <3> DEFINE l == IF k < a THEN k ELSE IF k + 1 < b THEN k + 1 ELSE k + 2
    <3>1. l \in DOMAIN queue /\ queue'[k] = queue[l]
      BY <1>6, <1>7
    <3>2. k \in DOMAIN queue'
      BY <1>6, <1>7
    <3> HIDE DEF l, value, n
    <3>3. u[k] = v[l]
      BY <2>1, <3>1, <3>2
    <3> QED
      BY <3>3 DEF l
  <2> QED
    BY <2>2
<1>15. u[n - 1] = RingOp(op, v[a], v[b])
  <2>1. u[n - 1] = RingOp(op, v[i], v[j])
    <3>1. n - 1 \in DOMAIN queue'
      BY <1>6, <1>7
    <3>2. u[n - 1] = value(index)
      BY <1>6, <3>1
    <3>3. value(index) = later[at]
      BY <1>3
    <3>4. /\ later[to.map[queue[i].gate]] = v[i]
          /\ later[to.map[queue[j].gate]] = v[j]
      BY <1>4, <1>9
    <3> QED
      BY <1>5, <3>2, <3>3, <3>4
  <2>2. v[i] \in Residue /\ v[j] \in Residue /\ op \in AssociativeOps
    BY <1>7, <1>9 DEF op
  <2>3. RingOp(op, v[i], v[j]) = RingOp(op, v[j], v[i])
    BY <2>2, RingCommutes
  <2>4. (a = i /\ b = j) \/ (a = j /\ b = i)
    BY DEF a, b, First, Second
  <2> QED
    BY <2>1, <2>3, <2>4
<1>16. u \in [1 .. n - 1 -> Residue]
  <2>1. ASSUME NEW k \in 1 .. n - 1
        PROVE  u[k] \in Residue
    <3>1. CASE k = n - 1
      <4>1. v[a] \in Residue /\ v[b] \in Residue /\ op \in AssociativeOps
        BY <1>7, <1>9 DEF op
      <4>2. RingOp(op, v[a], v[b]) \in Residue
        BY <4>1, RingTyped
      <4> QED
        BY <3>1, <4>2, <1>15
    <3>2. CASE k # n - 1
      <4>1. k \in 1 .. n - 2
        <5>1. n \in Nat /\ n > 1
          BY <1>7
        <5> HIDE DEF n, u
        <5> QED
          BY <3>2, <5>1
      <4> DEFINE l == IF k < a THEN k ELSE IF k + 1 < b THEN k + 1 ELSE k + 2
      <4>2. l \in 1 .. n
        BY <4>1, <1>7
      <4>3. u[k] = v[l]
        BY <4>1, <1>14
      <4> HIDE DEF l, u
      <4> QED
        BY <4>2, <4>3, <1>9
    <3> QED
      BY <3>1, <3>2
  <2> QED
    BY <2>1, <1>6
<1> HIDE DEF u, n
<1>17. Total(op, n - 1, u) = Total(op, n, v)
  <2>1. op \in AssociativeOps
    BY DEF op
  <2> QED
    BY <2>1, <1>7, <1>9, <1>14, <1>15, <1>16, TotalOfMerged
<1>18. ItemValues(before, now)' = u /\ before' = before /\ now' = later /\ op' = op
  BY <1>1, <1>12 DEF ItemValues, ItemValue, u, before, now, later, op
<1> QED
  BY <1>6, <1>11, <1>12, <1>13, <1>17, <1>18 DEF TreesHeld, before, now, later, op

LEMMA FlattenKeepsValues ==
  ASSUME RebalanceInv, Flatten, NEW env \in Assignments, TreesHeld(env),
         circuit.gates[Innermost].op \in AssociativeOps
  PROVE  TreesHeld(env)'
<1> DEFINE leaves == Leaves(Innermost)
           op == circuit.gates[Innermost].op
           before == Denote(circuit.gates, env)
           now == Denote(rebalanced, env)
<1>1. /\ balancing # << >>
      /\ queue' = [i \in DOMAIN leaves |-> [gate |-> leaves[i], rank |-> Rank(leaves[i])]]
      /\ UNCHANGED <<circuit, roots, balancing, map, index, rebalanced, usages, phase>>
  BY DEF Flatten, Balancing
<1>2. circuit \in Circuits /\ Innermost \in Old /\ IsOp(circuit.gates[Innermost])
  BY <1>1, InnermostIs DEF RebalanceInv, StackHeld
<1>3. leaves \in Seq(Old) /\ Total(op, Len(leaves), ValuesOf(leaves, before)) = before[Innermost]
  BY <1>2, LeavesAre, LeavesMakeRoot
<1>4. Len(leaves) \in Nat /\ DOMAIN leaves = 1 .. Len(leaves)
      /\ \A i \in DOMAIN leaves : leaves[i] \in Old
  BY <1>3, LenProperties, ElementOfSeq
<1>5. \A g \in Old \cap DOMAIN map : now[map[g]] = before[g]
  BY DEF TreesHeld
<1>6. Old' = Old /\ Innermost' = Innermost /\ op' = op /\ before' = before /\ now' = now
  BY <1>1 DEF Old, Innermost
<1> HIDE DEF leaves, op, before, now
<1>7. DOMAIN queue' = DOMAIN leaves /\ \A i \in DOMAIN leaves : queue'[i].gate = leaves[i]
  BY <1>1
<1>8. Len(queue') = Len(leaves)
  <2>1. queue' \in Seq(Item)
    BY FlattenKeeps DEF RebalanceInv, QueueHeld, Item
  <2>2. Len(queue') \in Nat /\ 1 .. Len(queue') = 1 .. Len(leaves)
    BY <1>4, <1>7, <2>1, LenProperties
  <2> QED
    BY <1>4, <2>2
<1>9. ItemValues(before, now)' = ValuesOf(leaves, before)
  BY <1>4, <1>6, <1>7 DEF ItemValues, ItemValue, ValuesOf
<1> QED
  BY <1>1, <1>3, <1>5, <1>6, <1>8, <1>9 DEF TreesHeld, op, before, now

LEMMA FinishRootKeepsValues ==
  ASSUME RebalanceInv, FinishRoot, NEW env \in Assignments, TreesHeld(env),
         circuit.gates[Innermost].op \in AssociativeOps
  PROVE  TreesHeld(env)'
<1> DEFINE root == Innermost
           last == queue[1].gate
           op == circuit.gates[Innermost].op
           before == Denote(circuit.gates, env)
           now == Denote(rebalanced, env)
           v == ItemValues(before, now)
<1>1. /\ balancing # << >> /\ Len(queue) = 1
      /\ map' = Put(map, root, map[last]) /\ queue' = << >>
      /\ UNCHANGED <<circuit, roots, ranks, index, rebalanced, phase>>
  BY DEF FinishRoot, Built, Balancing, RebuiltAs
<1>2. root \in Old /\ root \notin DOMAIN map
  BY <1>1, InnermostIs
<1>3. queue # << >> /\ 1 \in DOMAIN queue /\ last \notin Old
  <2>1. queue \in Seq(Item)
    BY DEF RebalanceInv, QueueHeld, Item
  <2>2. 1 \in DOMAIN queue
    BY <1>1, <2>1, LenProperties
  <2>3. last \notin Old
    BY <1>1 DEF RebalanceInv, QueueHeld
  <2> QED
    BY <2>2, <2>3
<1>4. v \in [1 .. 1 -> Residue]
  BY <1>1, ValuesTyped
<1>5. Total(op, 1, v) = before[root]
  BY <1>1, <1>3 DEF TreesHeld
<1>6. v[1] = now[map[last]]
  BY <1>3 DEF ItemValues, ItemValue
<1>7. \A g \in Old \cap DOMAIN map : now[map[g]] = before[g]
  BY DEF TreesHeld
<1>8. Old' = Old /\ before' = before /\ now' = now
  BY <1>1 DEF Old
<1>9. op \in AssociativeOps
  OBVIOUS
<1> HIDE DEF root, last, op, before, now, v
<1>10. now[map[last]] = before[root]
  BY <1>4, <1>5, <1>6, <1>9, TotalOfOne
<1>11. \A g \in Old \cap DOMAIN map' : now[map'[g]] = before[g]
  BY <1>1, <1>2, <1>7, <1>10 DEF Put
<1> QED
  BY <1>1, <1>8, <1>11 DEF TreesHeld, before, now

\* The inputs of the new arena are inputs of the circuit.
GivenInputs(arena) ==
  \A x \in DOMAIN arena : IsInput(arena[x]) => \E g \in Old : circuit.gates[g] = arena[x]

LEMMA PlacedInputs ==
  ASSUME NEW to, to.arena \in Seq(Node), NEW g, Placeable(to, g), GivenInputs(to.arena)
  PROVE  GivenInputs(Placed(to, g).arena)
<1>1. CASE g \in DOMAIN to.map
  BY <1>1 DEF Placed
<1>2. CASE g \notin DOMAIN to.map
  <2> DEFINE arena == to.arena
             b == Append(arena, circuit.gates[g])
  <2>1. Placed(to, g).arena = b /\ g \in Old
    BY <1>2 DEF Placed, Placeable
  <2>2. /\ Len(b) = Len(arena) + 1 /\ b[Len(arena) + 1] = circuit.gates[g]
        /\ \A x \in 1 .. Len(arena) : b[x] = arena[x]
        /\ DOMAIN arena = 1 .. Len(arena) /\ Len(arena) \in Nat /\ DOMAIN b = 1 .. Len(b)
    OBVIOUS
  <2>3. GivenInputs(arena)
    OBVIOUS
  <2> HIDE DEF arena, b
  <2>4. ASSUME NEW x \in DOMAIN b, IsInput(b[x])
        PROVE  \E h \in Old : circuit.gates[h] = b[x]
    <3>1. CASE x = Len(arena) + 1
      BY <3>1, <2>1, <2>2
    <3>2. CASE x # Len(arena) + 1
      <4>1. x \in DOMAIN arena
        BY <3>2, <2>2
      <4> QED
        BY <4>1, <2>2, <2>3, <2>4 DEF GivenInputs
    <3> QED
      BY <3>1, <3>2
  <2> QED
    BY <2>1, <2>4 DEF GivenInputs
<1> QED
  BY <1>1, <1>2

LEMMA CombineKeepsInputs ==
  ASSUME RebalanceInv, Combine, GivenInputs(rebalanced)
  PROVE  GivenInputs(rebalanced)'
<1>1. balancing # << >> /\ circuit' = circuit
  BY CombineIs
<1>2. PICK i \in DOMAIN queue, j \in DOMAIN queue : CombineOf(i, j)
  BY CombineIs
<1> DEFINE x == queue[i].gate
           y == queue[j].gate
           one == Placed(Here, x)
           to == Placed(one, y)
           n == GateMade(i, j)
<1>3. Combination(i, j).to = to
  BY DEF Combination, Here
<1>4. Sound(Here) /\ Placeable(Here, x) /\ Placeable(Here, y) /\ GivenInputs(Here.arena)
  BY HereSound, QueuePlaceable DEF Here
<1>5. Sound(one) /\ Grown(one, Here) /\ GivenInputs(one.arena)
  <2> HIDE DEF x
  <2> QED
    BY <1>4, PlacedHolds, PlacedInputs DEF Sound
<1> HIDE DEF one, y
<1>6. Placeable(one, y)
  BY <1>4, <1>5 DEF Placeable, Grown
<1>7. GivenInputs(to.arena)
  BY <1>5, <1>6, PlacedInputs DEF Sound
<1> HIDE DEF to
<1>8. /\ DOMAIN rebalanced' = DOMAIN to.arena \cup {Len(to.arena) + 1}
      /\ rebalanced'[Len(to.arena) + 1] = n
      /\ \A e \in DOMAIN to.arena : rebalanced'[e] = to.arena[e]
  <2> DEFINE made == Combination(i, j).to
  <2>1. /\ Continues(rebalanced', made.arena)
        /\ DOMAIN rebalanced' = DOMAIN made.arena \cup {Len(made.arena) + 1}
        /\ rebalanced'[Len(made.arena) + 1] = n
    BY <1>1, <1>2, CombineGrows
  <2> HIDE DEF n
  <2>2. made = to
    BY <1>3
  <2> HIDE DEF made
  <2> QED
    BY <2>1, <2>2 DEF Continues
<1>9. ~ IsInput(n)
  BY DEF GateMade, Folded, Combination, ConstNode, OpNode, IsInput
<1> HIDE DEF n
<1>10. \A e \in DOMAIN rebalanced' : IsInput(rebalanced'[e]) =>
         \E g \in Old : circuit.gates[g] = rebalanced'[e]
  BY <1>7, <1>8, <1>9 DEF GivenInputs
<1> QED
  BY <1>1, <1>10 DEF GivenInputs, Old

\* The operations of the circuits are those of is_associative: the pass takes any for one
\* (see the run rebalance_difference).
AssociativeCircuits ==
  \A c \in Circuits : \A g \in DOMAIN c.gates :
    IsOp(c.gates[g]) => c.gates[g].op \in AssociativeOps

ValuesInv ==
  RebalanceInv /\ GivenInputs(rebalanced) /\ \A env \in Assignments : TreesHeld(env)

LEMMA ValuesInit == RebalanceInit => ValuesInv
<1> SUFFICES ASSUME RebalanceInit
             PROVE  GivenInputs(rebalanced) /\ \A env \in Assignments : TreesHeld(env)
  BY InitHolds DEF ValuesInv
<1> QED
  BY DEF RebalanceInit, GivenInputs, TreesHeld

\* Trees that are left alone keep their values.
LEMMA StillHeld ==
  ASSUME NEW env, TreesHeld(env),
         UNCHANGED <<circuit, queue, map, rebalanced>>,
         queue # << >> => UNCHANGED balancing
  PROVE  TreesHeld(env)'
BY DEF TreesHeld, ItemValues, ItemValue, Old, Innermost

LEMMA ValuesStep ==
  ASSUME AssociativeCircuits, FoldsSafe, ValuesInv, [BalanceStep]_rebalanceVars
  PROVE  ValuesInv'
<1> USE DEF ValuesInv
<1>1. RebalanceInv'
  BY StepHolds
<1>2. balancing # << >> => circuit.gates[Innermost].op \in AssociativeOps
  BY InnermostIs DEF AssociativeCircuits, RebalanceInv, StackHeld, Old
<1>3. GivenInputs(rebalanced)'
  <2>1. CASE Combine
    BY <2>1, CombineKeepsInputs
  <2>2. CASE UNCHANGED <<circuit, rebalanced>>
    BY <2>2 DEF GivenInputs, Old
  <2> QED
    BY <2>1, <2>2, StepCases DEF Untouched, NextRoot, BalanceLeaf, Flatten, FinishRoot
<1>4. ASSUME NEW env \in Assignments
      PROVE  TreesHeld(env)'
  <2>1. TreesHeld(env)
    OBVIOUS
  <2>2. CASE Untouched
    BY <2>1, <2>2, StillHeld DEF Untouched
  <2>3. CASE (\E r \in roots : NextRoot(r)) \/ BalanceLeaf
    <3>1. queue = << >> /\ UNCHANGED <<circuit, queue, map, rebalanced>>
      BY <2>3 DEF NextRoot, BalanceLeaf, RebalanceInv, StackHeld
    <3> QED
      BY <2>1, <3>1, StillHeld
  <2>4. CASE Flatten
    BY <1>2, <2>1, <2>4, FlattenKeepsValues DEF Flatten, Balancing
  <2>5. CASE Combine
    BY <1>2, <2>1, <2>5, CombineKeepsValues DEF Combine, Balancing, FoldsSafe
  <2>6. CASE FinishRoot
    BY <1>2, <2>1, <2>6, FinishRootKeepsValues DEF FinishRoot, Built, Balancing
  <2> QED
    BY <2>2, <2>3, <2>4, <2>5, <2>6, StepCases
<1> QED
  BY <1>1, <1>3, <1>4

\* The arguments of a circuit are of its inputs only; those of the others make no difference.
OwnArenas == {nodes \in Seq(Node) : Topological(nodes) /\ GivenInputs(nodes)}

LEMMA ArgumentsComplete ==
  ASSUME ValuesInv, NEW env \in ArgumentsOf(circuit)
  PROVE  \E all \in Assignments :
           \A nodes \in {circuit.gates, rebalanced} \cup OwnArenas :
             \A x \in DOMAIN nodes : Denote(nodes, env)[x] = Denote(nodes, all)[x]
<1> DEFINE own == {circuit.gates[g].index : g \in {h \in DOMAIN circuit.gates : IsInput(circuit.gates[h])}}
           all == [i \in InputIndices |-> IF i \in own THEN env[i] ELSE 0]
<1>1. env \in [own -> Residue]
  BY DEF ArgumentsOf
<1>2. all \in Assignments
  <2> HIDE DEF own
  <2>1. \A i \in own : env[i] \in Residue
    BY <1>1
  <2>2. Residue \subseteq Int /\ 0 \in Int
    BY ResidueFacts
  <2> QED
    BY <2>1, <2>2 DEF Assignments
<1>3. circuit.gates \in Seq(Node) /\ Topological(circuit.gates)
      /\ \A g \in Old : circuit.gates[g] \in Node
  BY GivenCircuit DEF ValuesInv, RebalanceInv, StackHeld
<1>4. \A g \in DOMAIN circuit.gates : IsInput(circuit.gates[g]) =>
        env[circuit.gates[g].index] = all[circuit.gates[g].index]
  <2>1. \A g \in Old : IsInput(circuit.gates[g]) =>
          circuit.gates[g].index \in own /\ circuit.gates[g].index \in InputIndices
    BY <1>3 DEF Old, Node, IsInput
  <2> HIDE DEF own
  <2> QED
    BY <2>1 DEF Old
<1> HIDE DEF all, own
<1>5. ASSUME NEW nodes \in Seq(Node), Topological(nodes), GivenInputs(nodes)
      PROVE  \A x \in DOMAIN nodes : Denote(nodes, env)[x] = Denote(nodes, all)[x]
  <2>1. \A x \in DOMAIN nodes : IsInput(nodes[x]) => env[nodes[x].index] = all[nodes[x].index]
    BY <1>4, <1>5 DEF GivenInputs, Old
  <2> QED
    BY <1>2, <1>5, <2>1, DenoteOfPart
<1>6. GivenInputs(circuit.gates)
  BY DEF GivenInputs, Old
<1>7. rebalanced \in Seq(Node) /\ Topological(rebalanced) /\ GivenInputs(rebalanced)
  BY DEF ValuesInv, RebalanceInv, RebalanceTypeOK
<1>8. ASSUME NEW nodes \in {circuit.gates, rebalanced} \cup OwnArenas
      PROVE  \A x \in DOMAIN nodes : Denote(nodes, env)[x] = Denote(nodes, all)[x]
  BY <1>3, <1>5, <1>6, <1>7, <1>8 DEF OwnArenas
<1> QED
  BY <1>2, <1>8

\* Whatever the circuit and whatever the queue gives first, a tree of sums or of products
\* that is taken apart and built anew has the value it had, for any arguments
\* (balance, flatten and rebuild, rebalance.rs:77-222).
THEOREM TreesKeepValue ==
  ASSUME AssociativeCircuits, FoldsSafe
  PROVE  RebalanceSpec => []RootsKeepValue
<1>1. ASSUME ValuesInv, queue = << >>
      PROVE  RootsKeepValue
  <2>1. ASSUME NEW env \in ArgumentsOf(circuit), NEW r \in Balanced
        PROVE  Denote(rebalanced, env)[map[r]] = Denote(circuit.gates, env)[r]
    <3>1. PICK all \in Assignments : \A nodes \in {circuit.gates, rebalanced} :
            \A x \in DOMAIN nodes : Denote(nodes, env)[x] = Denote(nodes, all)[x]
      BY <1>1, ArgumentsComplete
    <3>2. r \in Old /\ r \in DOMAIN map
      BY DEF Balanced
    <3>3. map[r] \in DOMAIN rebalanced
      BY <1>1, <3>2 DEF ValuesInv, RebalanceInv, RebalanceTypeOK
    <3>4. Denote(rebalanced, all)[map[r]] = Denote(circuit.gates, all)[r]
      BY <1>1, <3>2 DEF ValuesInv, TreesHeld
    <3> QED
      BY <3>1, <3>2, <3>3, <3>4 DEF Old
  <2> QED
    BY <1>1, <2>1 DEF RootsKeepValue, ValuesInv, RebalanceInv
<1>2. ValuesInv => RootsKeepValue
  BY <1>1 DEF RootsKeepValue
<1>3. ValuesInv /\ [BalanceStep]_rebalanceVars => ValuesInv'
  BY ValuesStep
<1> QED
  BY <1>2, <1>3, ValuesInit, PTL DEF RebalanceSpec


-----------------------------------------------------------------------------
\* Trees have room for their gates.

\* The operations of the tree below a root, and itself.
WithInner(g, root, f) ==
  IF InTree(g, root) THEN {g} \cup f[circuit.gates[g].lhs] \cup f[circuit.gates[g].rhs] ELSE {}

TreeOps(root) ==
  LET inner[g \in Old] == WithInner(g, root, inner)
  IN  inner[root]

LEMMA WithInnerLocal ==
  ASSUME NEW g, NEW root, NEW f, NEW h,
         IsOp(circuit.gates[g]) => /\ f[circuit.gates[g].lhs] = h[circuit.gates[g].lhs]
                                   /\ f[circuit.gates[g].rhs] = h[circuit.gates[g].rhs]
  PROVE  WithInner(g, root, f) = WithInner(g, root, h)
BY DEF WithInner, InTree

LEMMA InnerEquation ==
  ASSUME circuit \in Circuits, NEW root \in Old
  PROVE  \E inner \in [Old -> SUBSET Old] :
           /\ TreeOps(root) = inner[root]
           /\ \A g \in Old : inner[g] = WithInner(g, root, inner)
<1> DEFINE N == Len(circuit.gates)
           V == SUBSET (1 .. N)
           P(f) == f = [g \in Old |-> WithInner(g, root, f)]
           step == [p \in (1 .. N) \X [1 .. N -> V] |-> WithInner(p[1], root, p[2])]
           d == CHOOSE f : P(f)
<1>1. TreeOps(root) = d[root]
  BY DEF TreeOps
<1>2. /\ N \in Nat /\ Old = 1 .. N
      /\ \A g \in 1 .. N : IsOp(circuit.gates[g]) => /\ circuit.gates[g].lhs \in 1 .. g - 1
                                                   /\ circuit.gates[g].rhs \in 1 .. g - 1
  BY GivenCircuit
<1>3. Causal(N, V, step)
  <2>1. ASSUME NEW g \in 1 .. N, NEW f \in [1 .. N -> V]
        PROVE  WithInner(g, root, f) \in V
    <3>1. InTree(g, root) => /\ circuit.gates[g].lhs \in 1 .. N
                             /\ circuit.gates[g].rhs \in 1 .. N
      BY <1>2 DEF InTree
    <3> HIDE DEF N
    <3> QED
      BY <3>1 DEF WithInner
  <2>2. step \in [(1 .. N) \X [1 .. N -> V] -> V]
    BY <2>1
  <2>3. ASSUME NEW g \in 1 .. N, NEW f, NEW h, \A k \in 1 .. g - 1 : f[k] = h[k]
        PROVE  WithInner(g, root, f) = WithInner(g, root, h)
    <3>1. IsOp(circuit.gates[g]) => /\ f[circuit.gates[g].lhs] = h[circuit.gates[g].lhs]
                                    /\ f[circuit.gates[g].rhs] = h[circuit.gates[g].rhs]
      BY <2>3, <1>2
    <3> QED
      BY <3>1, WithInnerLocal
  <2>4. ASSUME NEW g \in 1 .. N, NEW f \in [1 .. N -> V],
               NEW h \in [1 .. N -> V], \A k \in 1 .. g - 1 : f[k] = h[k]
        PROVE  step[<<g, f>>] = step[<<g, h>>]
    <3>1. WithInner(g, root, f) = WithInner(g, root, h)
      BY <2>3, <2>4
    <3>2. step[<<g, f>>] = WithInner(g, root, f) /\ step[<<g, h>>] = WithInner(g, root, h)
      OBVIOUS
    <3> HIDE DEF step
    <3> QED
      BY <3>1, <3>2
  <2> QED
    BY <2>2, <2>4 DEF Causal
<1>4. PICK f : Solves(f, N, V, step)
  <2>1. V # {}
    OBVIOUS
  <2> HIDE DEF step, N, V
  <2> QED
    BY <1>2, <1>3, <2>1, RecursionSolvable
<1>5. f \in [1 .. N -> V] /\ \A g \in 1 .. N : f[g] = WithInner(g, root, f)
  <2>1. \A g \in 1 .. N : \A h \in [1 .. N -> V] : step[<<g, h>>] = WithInner(g, root, h)
    OBVIOUS
  <2> HIDE DEF N, step, V
  <2> QED
    BY <1>4, <2>1 DEF Solves
<1> HIDE DEF N, step
<1>6. P(f)
  BY <1>2, <1>5
<1>7. P(d)
  <2> HIDE DEF P
  <2> QED
    BY <1>6
<1> HIDE DEF d
<1>8. \A g \in 1 .. N : d[g] = WithInner(g, root, d)
  BY <1>2, <1>7
<1>9. \A g \in 1 .. N : d[g] = f[g]
  <2> DEFINE S == {g \in 1 .. N : d[g] = f[g]}
  <2>1. ASSUME NEW g \in 1 .. N, (1 .. g - 1) \subseteq S
        PROVE  g \in S
    <3>1. \A k \in 1 .. g - 1 : d[k] = f[k]
      BY <2>1
    <3>2. WithInner(g, root, d) = WithInner(g, root, f)
      BY <3>1, <1>2, WithInnerLocal
    <3> QED
      BY <3>2, <1>5, <1>8
  <2>2. 1 .. N \subseteq S
    <3> HIDE DEF S
    <3> QED
      BY <1>2, <2>1, PositionInduction
  <2> QED
    BY <2>2
<1>10. d \in [Old -> SUBSET Old]
  BY <1>2, <1>5, <1>7, <1>9
<1> QED
  BY <1>1, <1>2, <1>8, <1>10

\* An operation that is no root has one user.
LEMMA OneUser ==
  ASSUME circuit \in Circuits, NEW x \in Old, IsOp(circuit.gates[x]), ~ IsRoot(circuit, x),
         NEW u \in Users(circuit.gates, x), NEW v \in Users(circuit.gates, x)
  PROVE  u = v
<1> DEFINE all == Users(circuit.gates, x)
<1>1. IsFiniteSet(all)
  <2> DEFINE n == Len(circuit.gates)
  <2>1. all \in SUBSET (1 .. n) /\ n \in Int /\ 1 \in Int
    BY GivenCircuit DEF Users, Old
  <2> HIDE DEF all, n
  <2>2. IsFiniteSet(1 .. n)
    BY <2>1, FS_Interval
  <2> QED
    BY <2>1, <2>2, FS_Subset
<1>2. ~ (Cardinality(all) > 1)
  BY DEF IsRoot
<1> HIDE DEF all
<1>3. Cardinality({u, v}) <= Cardinality(all)
  <2>1. {u, v} \in SUBSET all
    BY DEF all
  <2> QED
    BY <1>1, <2>1, FS_Subset
<1>4. ASSUME u # v
      PROVE  FALSE
  <2>1. IsFiniteSet({u}) /\ Cardinality({u}) = 1 /\ {u} \cup {v} = {u, v}
    BY FS_Singleton
  <2>2. Cardinality({u} \cup {v}) = Cardinality({u}) + 1
    <3>1. v \notin {u}
      BY <1>4
    <3> QED
      BY <2>1, <3>1, FS_AddElement
  <2>3. Cardinality(all) \in Nat
    BY <1>1, FS_CardinalityType
  <2> QED
    BY <1>2, <1>3, <2>1, <2>2, <2>3
<1> QED
  BY <1>4

\* A set of operations that are no roots, but for the top, each used by one of the set.
Hangs(S, top) ==
  /\ S \in SUBSET Old
  /\ \A x \in S : IsOp(circuit.gates[x])
  /\ \A x \in S : x # top => ~ IsRoot(circuit, x) /\ \E u \in S : u \in Users(circuit.gates, x)

\* Two such sets are apart if neither top is in the other, as an operation in both has
\* its user in both, and there is a last one.
LEMMA HangApart ==
  ASSUME circuit \in Circuits, NEW S, NEW s, NEW T, NEW t, Hangs(S, s), Hangs(T, t),
         s \notin T, t \notin S
  PROVE  S \cap T = {}
<1> DEFINE N == Len(circuit.gates)
           C == {N - x : x \in S \cap T}
<1>1. N \in Nat /\ Old = 1 .. N /\ S \in SUBSET (1 .. N)
  BY GivenCircuit DEF Hangs
<1> HIDE DEF N
<1> SUFFICES ASSUME S \cap T # {}
             PROVE  FALSE
  OBVIOUS
<1>2. C \in SUBSET Nat /\ C # {}
  <2>1. PICK z \in S \cap T : TRUE
    OBVIOUS
  <2>2. N - z \in C
    BY <2>1
  <2>3. \A x \in S : N - x \in Nat
    BY <1>1
  <2> QED
    BY <2>2, <2>3
<1>3. PICK c \in C : \A d \in C : c <= d
  <2> HIDE DEF C
  <2> QED
    BY <1>2, Least
<1>4. PICK x \in S \cap T : c = N - x
  OBVIOUS
<1>5. /\ x \in Old /\ IsOp(circuit.gates[x]) /\ ~ IsRoot(circuit, x)
      /\ \E u \in S : u \in Users(circuit.gates, x)
      /\ \E v \in T : v \in Users(circuit.gates, x)
  BY <1>4 DEF Hangs
<1>6. PICK u \in S : u \in Users(circuit.gates, x) /\ u \in T
  BY <1>5, OneUser
<1>7. x < u /\ u \in 1 .. N /\ x \in 1 .. N
  <2>1. u \in Old /\ x \in Operands(circuit.gates[u])
    BY <1>6 DEF Users, Old
  <2>2. Operands(circuit.gates[u]) \subseteq 1 .. u - 1
    BY <2>1, GivenCircuit DEF Topological, Old
  <2> QED
    BY <1>1, <1>5, <2>1, <2>2
<1>8. N - u \in C
  BY <1>6
<1>9. c <= N - u
  BY <1>3, <1>8
<1> QED
  BY <1>1, <1>4, <1>7, <1>9

\* x is y, or more where flatten goes into an operation twice.
AtLeast(x, y) == x >= y /\ (NoTreeTwice => x = y)

LEMMA NoTreeTwiceKept ==
  ASSUME circuit' = circuit
  PROVE  NoTreeTwice' <=> NoTreeTwice
BY DEF NoTreeTwice, IsRoot, Old

\* A tree has a leaf more than it has operations; a subtree that is squared has its leaves
\* twice.
LEMMA TreeOpsAre ==
  ASSUME circuit \in Circuits, NEW root \in Old, IsOp(circuit.gates[root])
  PROVE  /\ Hangs(TreeOps(root), root) /\ root \in TreeOps(root)
         /\ \A x \in TreeOps(root) : x <= root
         /\ IsFiniteSet(TreeOps(root))
         /\ AtLeast(Len(Leaves(root)), Cardinality(TreeOps(root)) + 1)
<1> DEFINE N == Len(circuit.gates)
<1>1. /\ N \in Nat /\ Old = 1 .. N
      /\ \A g \in 1 .. N : IsOp(circuit.gates[g]) => /\ circuit.gates[g].lhs \in 1 .. g - 1
                                                   /\ circuit.gates[g].rhs \in 1 .. g - 1
  BY GivenCircuit
<1>2. PICK below \in [Old -> Seq(Old)] :
        /\ Leaves(root) = below[root]
        /\ \A g \in Old : below[g] = Below(g, root, below)
  BY LeavesEquation
<1>3. PICK inner \in [Old -> SUBSET Old] :
        /\ TreeOps(root) = inner[root]
        /\ \A g \in Old : inner[g] = WithInner(g, root, inner)
  BY InnerEquation
<1> DEFINE Made(g) == /\ Hangs(inner[g], g)
                      /\ \A x \in inner[g] : x <= g
                      /\ InTree(g, root) <=> g \in inner[g]
                      /\ inner[g] # {} => InTree(g, root)
                      /\ IsFiniteSet(inner[g])
                      /\ AtLeast(Len(below[g]), Cardinality(inner[g]) + 1)
           S == {g \in 1 .. N : g <= root => Made(g)}
<1>4. ASSUME NEW g \in 1 .. N, g <= root, InTree(g, root),
             Made(circuit.gates[g].lhs), Made(circuit.gates[g].rhs)
      PROVE  Made(g)
  <2> DEFINE l == circuit.gates[g].lhs
             r == circuit.gates[g].rhs
             A == inner[l]
             B == inner[r]
             T == inner[g]
  <2> HIDE DEF Made
  <2>1. l \in 1 .. g - 1 /\ r \in 1 .. g - 1 /\ IsOp(circuit.gates[g])
    BY <1>1, <1>4 DEF InTree
  <2>2. T = {g} \cup A \cup B /\ below[g] = below[l] \o below[r]
    BY <1>1, <1>2, <1>3, <1>4 DEF Below, WithInner
  <2>3. g \in Users(circuit.gates, l) /\ g \in Users(circuit.gates, r)
    BY <1>1, <2>1 DEF Users, Operands, Old
  <2>4. g \in Old /\ l \in Old /\ r \in Old /\ Old \subseteq Nat /\ root \in Nat
        /\ l < g /\ r < g /\ l < root /\ r < root
    <3> HIDE DEF l, r, N
    <3>1. N \in Nat /\ Old = 1 .. N /\ root \in 1 .. N /\ g \in 1 .. N /\ g <= root
      BY <1>1, <1>4
    <3>2. l \in 1 .. N /\ r \in 1 .. N /\ l < g /\ r < g
      BY <2>1, <3>1
    <3>3. l < root /\ r < root /\ root \in Nat /\ 1 .. N \subseteq Nat
      BY <3>1, <3>2
    <3> QED
      BY <3>1, <3>2, <3>3
  <2>5. Made(l) /\ Made(r)
    BY <1>4
  <2> HIDE DEF l, r, N
  <2>6. /\ Hangs(A, l) /\ (\A x \in A : x <= l) /\ IsFiniteSet(A)
        /\ A # {} => InTree(l, root)
        /\ Hangs(B, r) /\ (\A x \in B : x <= r) /\ IsFiniteSet(B)
        /\ B # {} => InTree(r, root)
    BY <2>5 DEF Made
  <2>7. AtLeast(Len(below[l]), Cardinality(A) + 1) /\ AtLeast(Len(below[r]), Cardinality(B) + 1)
    BY <2>5 DEF Made
  <2>8. A \in SUBSET Old /\ B \in SUBSET Old /\ T \in SUBSET Old
    BY <1>3, <2>4
  <2> HIDE DEF A, B, T
  <2>9. g \notin A /\ g \notin B
    BY <2>4, <2>6, <2>8
  <2>10. l # r => l \notin B
    <3> SUFFICES ASSUME l # r, l \in B
                 PROVE  FALSE
      OBVIOUS
    <3>1. ~ IsRoot(circuit, l) /\ IsOp(circuit.gates[l]) /\ \E u \in B : u \in Users(circuit.gates, l)
      BY <2>1, <2>6 DEF Hangs
    <3>2. PICK u \in B : u \in Users(circuit.gates, l)
      BY <3>1
    <3>3. u = g
      BY <2>3, <2>4, <3>1, <3>2, OneUser
    <3> QED
      BY <2>9, <3>3
  <2>11. l # r => r \notin A
    <3> SUFFICES ASSUME l # r, r \in A
                 PROVE  FALSE
      OBVIOUS
    <3>1. ~ IsRoot(circuit, r) /\ IsOp(circuit.gates[r]) /\ \E u \in A : u \in Users(circuit.gates, r)
      BY <2>1, <2>6 DEF Hangs
    <3>2. PICK u \in A : u \in Users(circuit.gates, r)
      BY <3>1
    <3>3. u = g
      BY <2>3, <2>4, <3>1, <3>2, OneUser
    <3> QED
      BY <2>9, <3>3
  <2>12. NoTreeTwice => A \cap B = {}
    <3>1. ASSUME NoTreeTwice, l = r
          PROVE  A = {}
      <4>1. ~ IsOp(circuit.gates[l]) \/ IsRoot(circuit, l)
        BY <2>1, <2>4, <3>1 DEF NoTreeTwice, l, r
      <4>2. ~ InTree(l, root)
        BY <2>4, <4>1 DEF InTree
      <4> QED
        BY <2>6, <4>2
    <3>2. l # r => A \cap B = {}
      BY <2>6, <2>10, <2>11, HangApart
    <3> QED
      BY <3>1, <3>2
  <2>13. IsFiniteSet(T) /\ AtLeast(Cardinality(A) + Cardinality(B) + 1, Cardinality(T))
    <3>1. IsFiniteSet(A \cup B) /\ Cardinality(A \cup B) = Cardinality(A) + Cardinality(B) - Cardinality(A \cap B)
      BY <2>6, FS_Union
    <3>2. Cardinality(A \cap B) \in Nat /\ (NoTreeTwice => Cardinality(A \cap B) = 0)
      <4>1. IsFiniteSet(A \cap B)
        BY <2>6, FS_Subset
      <4> QED
        BY <2>12, <4>1, FS_EmptySet, FS_CardinalityType
    <3>3. g \notin A \cup B
      BY <2>9
    <3>4. IsFiniteSet((A \cup B) \cup {g}) /\ Cardinality((A \cup B) \cup {g}) = Cardinality(A \cup B) + 1
      BY <3>1, <3>3, FS_AddElement
    <3>5. T = (A \cup B) \cup {g}
      BY <2>2
    <3>6. Cardinality(A) \in Nat /\ Cardinality(B) \in Nat
      BY <2>6, FS_CardinalityType
    <3>7. Cardinality(T) = Cardinality(A \cup B) + 1
      BY <3>4, <3>5
    <3>8. IsFiniteSet(T)
      BY <3>4, <3>5
    <3> DEFINE a == Cardinality(A)
               b == Cardinality(B)
               c == Cardinality(A \cap B)
               t == Cardinality(T)
    <3>9. t = a + b - c + 1 /\ a \in Nat /\ b \in Nat /\ c \in Nat
      BY <3>1, <3>2, <3>6, <3>7
    <3>10. NoTreeTwice => c = 0
      BY <3>2
    <3> HIDE DEF a, b, c, t
    <3>11. AtLeast(a + b + 1, t)
      BY <3>9, <3>10 DEF AtLeast
    <3> QED
      BY <3>8, <3>11 DEF a, b, t
  <2>14. Len(below[g]) = Len(below[l]) + Len(below[r])
    <3>1. below[l] \in Seq(Old) /\ below[r] \in Seq(Old)
      BY <1>2, <2>4
    <3> QED
      BY <2>2, <3>1, ConcatProperties
  <2>15. AtLeast(Len(below[g]), Cardinality(T) + 1)
    <3> DEFINE a == Cardinality(A)
               b == Cardinality(B)
               t == Cardinality(T)
               p == Len(below[l])
               q == Len(below[r])
    <3>1. a \in Nat /\ b \in Nat /\ t \in Nat
      BY <2>6, <2>13, FS_CardinalityType
    <3>2. p \in Nat /\ q \in Nat
      BY <1>2, <2>4, LenProperties
    <3>3. AtLeast(p, a + 1) /\ AtLeast(q, b + 1) /\ AtLeast(a + b + 1, t)
      BY <2>7, <2>13
    <3> HIDE DEF a, b, t, p, q
    <3>4. AtLeast(p + q, t + 1)
      BY <3>1, <3>2, <3>3 DEF AtLeast
    <3> QED
      BY <2>14, <3>4 DEF p, q, t
  <2>16. Hangs(T, g)
    <3>1. ASSUME NEW x \in T
          PROVE  IsOp(circuit.gates[x])
      BY <2>1, <2>2, <2>6 DEF Hangs
    <3>2. ASSUME NEW x \in T, x # g
          PROVE  ~ IsRoot(circuit, x) /\ \E u \in T : u \in Users(circuit.gates, x)
      <4>1. g \in T
        BY <2>2
      <4>2. CASE x = l /\ x \in A
        <5>1. ~ IsRoot(circuit, l)
          BY <2>4, <2>6, <4>2 DEF InTree
        <5> QED
          BY <2>3, <4>1, <4>2, <5>1
      <4>3. CASE x = r /\ x \in B
        <5>1. ~ IsRoot(circuit, r)
          BY <2>4, <2>6, <4>3 DEF InTree
        <5> QED
          BY <2>3, <4>1, <4>3, <5>1
      <4>4. CASE x # l /\ x \in A
        BY <2>2, <2>6, <4>4 DEF Hangs
      <4>5. CASE x # r /\ x \in B
        BY <2>2, <2>6, <4>5 DEF Hangs
      <4> QED
        BY <2>2, <3>2, <4>2, <4>3, <4>4, <4>5
    <3> QED
      BY <2>8, <3>1, <3>2 DEF Hangs
  <2>17. \A x \in T : x <= g
    <3>1. \A x \in A : x \in Nat /\ x <= l
      BY <2>4, <2>6, <2>8
    <3>2. \A x \in B : x \in Nat /\ x <= r
      BY <2>4, <2>6, <2>8
    <3>3. l \in Nat /\ r \in Nat /\ g \in Nat
      BY <2>4
    <3> QED
      BY <2>2, <2>4, <3>1, <3>2, <3>3
  <2>18. g \in T
    BY <2>2
  <2> QED
    BY <1>4, <2>13, <2>15, <2>16, <2>17, <2>18 DEF Made, T
<1>5. ASSUME NEW g \in 1 .. N, (1 .. g - 1) \subseteq S
      PROVE  g \in S
  <2> SUFFICES ASSUME g <= root
               PROVE  Made(g)
    OBVIOUS
  <2>1. CASE InTree(g, root)
    <3> DEFINE l == circuit.gates[g].lhs
               r == circuit.gates[g].rhs
    <3> HIDE DEF Made
    <3>1. l \in 1 .. g - 1 /\ r \in 1 .. g - 1
      BY <1>1, <2>1 DEF InTree
    <3> HIDE DEF l, r, N
    <3>2. l <= root /\ r <= root
      BY <1>1, <3>1
    <3>3. Made(l) /\ Made(r)
      BY <3>1, <3>2, <1>5
    <3> QED
      BY <2>1, <3>3, <1>4 DEF l, r, N
  <2>2. CASE ~ InTree(g, root)
    <3>1. inner[g] = {} /\ below[g] = <<g>>
      BY <1>1, <1>2, <1>3, <2>2 DEF Below, WithInner
    <3>2. IsFiniteSet(inner[g]) /\ AtLeast(Len(below[g]), Cardinality(inner[g]) + 1)
      <4>1. IsFiniteSet(inner[g]) /\ Cardinality(inner[g]) = 0 /\ Len(below[g]) = 1
        BY <3>1, FS_EmptySet
      <4> QED
        BY <4>1 DEF AtLeast
    <3>3. Hangs(inner[g], g)
      BY <3>1 DEF Hangs
    <3> QED
      BY <2>2, <3>1, <3>2, <3>3
  <2> QED
    BY <2>1, <2>2
<1>6. 1 .. N \subseteq S
  <2> HIDE DEF S, N
  <2> QED
    BY <1>1, <1>5, PositionInduction
<1>7. InTree(root, root) /\ root \in 1 .. N /\ root <= root
  BY <1>1 DEF InTree
<1>8. Made(root)
  <2> HIDE DEF Made
  <2> QED
    BY <1>6, <1>7
<1> QED
  BY <1>2, <1>3, <1>7, <1>8

AllRoots == {g \in Old : IsRoot(circuit, g)}
RootsHeld == roots \subseteq AllRoots /\ Range(balancing) \subseteq AllRoots /\ Balanced \subseteq AllRoots

\* The gates that are in the new arena, of the leaves and of the trees that are done.
LeavesIn(to) == {g \in Old \cap DOMAIN to.map : ~ IsOp(circuit.gates[g])}
TreesBuilt == UNION {TreeOps(r) : r \in Balanced}

\* The new arena has a gate for each of them.  For each operation of the tree in hand it
\* has one, or there is an element still in the queue; the queue has one more.
InHand == IF queue = << >> THEN 0 ELSE Cardinality(TreeOps(Innermost)) + 1
CountedIn(to) ==
  AtLeast(Len(to.arena) + Len(queue), Cardinality(LeavesIn(to) \cup TreesBuilt) + InHand)

LEMMA TreesApart ==
  ASSUME circuit \in Circuits, NEW r \in AllRoots, NEW s \in AllRoots, r # s
  PROVE  TreeOps(r) \cap TreeOps(s) = {}
<1>1. /\ r \in Old /\ s \in Old /\ IsOp(circuit.gates[r]) /\ IsOp(circuit.gates[s])
      /\ IsRoot(circuit, r) /\ IsRoot(circuit, s)
  BY DEF AllRoots, IsRoot
<1>2. Hangs(TreeOps(r), r) /\ Hangs(TreeOps(s), s)
  BY <1>1, TreeOpsAre
<1>3. r \notin TreeOps(s) /\ s \notin TreeOps(r)
  BY <1>1, <1>2 DEF Hangs
<1> QED
  BY <1>2, <1>3, HangApart

\* The trees that are done, and the one in hand, lie apart among the gates.
LEMMA BuiltAre ==
  ASSUME RebalanceInv, RootsHeld, NEW to
  PROVE  /\ IsFiniteSet(LeavesIn(to) \cup TreesBuilt)
         /\ Cardinality(LeavesIn(to) \cup TreesBuilt) \in Nat
         /\ \A g \in Old : ~ IsOp(circuit.gates[g]) => g \notin TreesBuilt
         /\ balancing # << >> =>
              LET here == LeavesIn(to) \cup TreesBuilt
                  tree == TreeOps(Innermost)
              IN  /\ Cardinality(tree) \in Nat
                  /\ Cardinality(here \cup tree) = Cardinality(here) + Cardinality(tree)
                  /\ Cardinality(here \cup tree) <= Len(circuit.gates)
<1> DEFINE N == Len(circuit.gates)
           here == LeavesIn(to) \cup TreesBuilt
           tree == TreeOps(Innermost)
<1>1. circuit \in Circuits /\ N \in Nat /\ Old = 1 .. N
  BY GivenCircuit DEF RebalanceInv, StackHeld
<1>2. IsFiniteSet(Old) /\ Cardinality(Old) = N
  <2> HIDE DEF N
  <2>1. 1 \in Int /\ N \in Int
    BY <1>1
  <2>2. IsFiniteSet(1 .. N) /\ Cardinality(1 .. N) = IF 1 > N THEN 0 ELSE N - 1 + 1
    BY <2>1, FS_Interval
  <2>3. Cardinality(1 .. N) = N
    BY <1>1, <2>2
  <2> QED
    BY <1>1, <2>2, <2>3
<1>3. ASSUME NEW r \in Balanced
      PROVE  TreeOps(r) \in SUBSET Old /\ \A x \in TreeOps(r) : IsOp(circuit.gates[x])
  <2>1. r \in Old /\ IsOp(circuit.gates[r])
    BY DEF Balanced
  <2> QED
    BY <1>1, <2>1, TreeOpsAre DEF Hangs
<1>4. TreesBuilt \in SUBSET Old /\ \A x \in TreesBuilt : IsOp(circuit.gates[x])
  BY <1>3 DEF TreesBuilt
<1>5. here \in SUBSET Old
  BY <1>4 DEF LeavesIn
<1>6. IsFiniteSet(here) /\ Cardinality(here) \in Nat
  <2> HIDE DEF here
  <2>1. IsFiniteSet(here)
    BY <1>2, <1>5, FS_Subset
  <2> QED
    BY <2>1, FS_CardinalityType
<1>7. ASSUME balancing # << >>
      PROVE  /\ Cardinality(tree) \in Nat
             /\ Cardinality(here \cup tree) = Cardinality(here) + Cardinality(tree)
             /\ Cardinality(here \cup tree) <= N
  <2>1. /\ Innermost \in Old /\ IsOp(circuit.gates[Innermost]) /\ Innermost \notin Balanced
        /\ Innermost \in AllRoots
    <3>1. Len(balancing) \in DOMAIN balancing /\ Innermost = balancing[Len(balancing)]
      BY <1>7, InnermostIs DEF Innermost
    <3>2. Innermost \in AllRoots
      BY <3>1 DEF RootsHeld, Range
    <3> QED
      BY <1>7, <3>2, InnermostIs
  <2>2. Hangs(tree, Innermost) /\ IsFiniteSet(tree)
    BY <1>1, <2>1, TreeOpsAre
  <2>3. here \cap tree = {}
    <3>1. ASSUME NEW r \in Balanced
          PROVE  TreeOps(r) \cap tree = {}
      <4>1. r \in AllRoots /\ r # Innermost
        BY <2>1 DEF RootsHeld
      <4> QED
        BY <1>1, <2>1, <4>1, TreesApart
    <3>2. LeavesIn(to) \cap tree = {}
      BY <2>2 DEF Hangs, LeavesIn
    <3> HIDE DEF tree
    <3>3. TreesBuilt \cap tree = {}
      BY <3>1 DEF TreesBuilt
    <3> QED
      BY <3>2, <3>3
  <2>4. tree \in SUBSET Old
    BY <2>2 DEF Hangs
  <2> HIDE DEF here, tree, N
  <2>5. Cardinality(tree) \in Nat
    BY <2>2, FS_CardinalityType
  <2>6. Cardinality(here \cup tree) = Cardinality(here) + Cardinality(tree) - Cardinality(here \cap tree)
    BY <1>6, <2>2, FS_Union
  <2>7. Cardinality(here \cap tree) = 0
    BY <2>3, FS_EmptySet
  <2>8. here \cup tree \in SUBSET Old
    BY <1>5, <2>4
  <2>9. Cardinality(here \cup tree) <= Cardinality(Old)
    BY <1>2, <2>8, FS_Subset
  <2> QED
    BY <1>2, <1>6, <2>5, <2>6, <2>7, <2>9
<1> QED
  BY <1>4, <1>6, <1>7

\* A leaf that is placed is a gate more, here and there.
LEMMA PlacedCounts ==
  ASSUME RebalanceInv, RootsHeld, NEW to, Sound(to), NEW g, Placeable(to, g), CountedIn(to)
  PROVE  CountedIn(Placed(to, g))
<1>1. CASE g \in DOMAIN to.map
  BY <1>1 DEF Placed
<1>2. CASE g \notin DOMAIN to.map
  <2> DEFINE b == Placed(to, g)
             here == LeavesIn(to) \cup TreesBuilt
             there == LeavesIn(b) \cup TreesBuilt
  <2>1. g \in Old /\ ~ IsOp(circuit.gates[g])
    BY <1>2 DEF Placeable
  <2>2. DOMAIN b.map = DOMAIN to.map \cup {g} /\ b.arena = Append(to.arena, circuit.gates[g])
    BY <1>2 DEF Placed, Put
  <2>3. IsFiniteSet(here) /\ Cardinality(here) \in Nat /\ g \notin TreesBuilt
    BY <2>1, BuiltAre
  <2>4. LeavesIn(b) = LeavesIn(to) \cup {g} /\ g \notin LeavesIn(to)
    <3> HIDE DEF b
    <3> QED
      BY <1>2, <2>1, <2>2 DEF LeavesIn
  <2>5. there = here \cup {g} /\ g \notin here
    BY <2>3, <2>4
  <2>6. Len(b.arena) = Len(to.arena) + 1 /\ Len(to.arena) \in Nat
    <3>1. to.arena \in Seq(Node)
      BY DEF Sound
    <3>2. circuit.gates[g] \in Node
      BY <2>1, GivenCircuit DEF RebalanceInv, StackHeld
    <3> HIDE DEF b
    <3> QED
      BY <2>2, <3>1, <3>2, AppendProperties, LenProperties
  <2> HIDE DEF b, here, there
  <2>7. Cardinality(there) = Cardinality(here) + 1
    BY <2>3, <2>5, FS_AddElement
  <2>8. AtLeast(Len(to.arena) + Len(queue), Cardinality(here) + InHand)
    BY DEF CountedIn, here
  <2>9. Len(queue) \in Nat
    BY LenProperties DEF RebalanceInv, QueueHeld
  <2>10. InHand \in Int
    <3>1. queue # << >> => Cardinality(TreeOps(Innermost)) \in Nat
      BY BuiltAre DEF RebalanceInv, StackHeld
    <3> QED
      BY <3>1 DEF InHand
  <2>11. AtLeast(Len(b.arena) + Len(queue), Cardinality(there) + InHand)
    BY <2>3, <2>6, <2>7, <2>8, <2>9, <2>10 DEF AtLeast
  <2> QED
    BY <2>11 DEF CountedIn, b, there
<1> QED
  BY <1>1, <1>2

\* Both operands of the gate that a turn of rebuild makes are in the usages, if flatten
\* goes into nothing twice.
LEMMA CombinationFits ==
  ASSUME RebalanceInv, RootsHeld, CountedIn(Here),
         balancing # << >>, NEW i \in DOMAIN queue, NEW j \in DOMAIN queue, i # j
  PROVE  /\ CountedIn(Combination(i, j).to)
         /\ NoTreeTwice => DOMAIN Combination(i, j).to.arena \subseteq Old
<1> DEFINE x == queue[i].gate
           y == queue[j].gate
           one == Placed(Here, x)
           to == Placed(one, y)
           N == Len(circuit.gates)
           n == Len(queue)
<1>1. Combination(i, j).to = to
  BY DEF Combination, Here
<1>2. Sound(Here) /\ Placeable(Here, x) /\ Placeable(Here, y)
  BY HereSound, QueuePlaceable
<1>3. Sound(one) /\ Grown(one, Here) /\ CountedIn(one)
  <2> HIDE DEF x
  <2> QED
    BY <1>2, PlacedHolds, PlacedCounts
<1> HIDE DEF one, y
<1>4. Placeable(one, y)
  BY <1>2, <1>3 DEF Placeable, Grown
<1>5. Sound(to) /\ CountedIn(to)
  BY <1>3, <1>4, PlacedHolds, PlacedCounts
<1>6. n \in Nat /\ n > 1 /\ queue # << >> /\ N \in Nat /\ Old = 1 .. N
  <2>1. queue \in Seq(Item)
    BY DEF RebalanceInv, QueueHeld, Item
  <2> QED
    BY <2>1, WithoutIs, GivenCircuit DEF RebalanceInv, StackHeld
<1> DEFINE here == LeavesIn(to) \cup TreesBuilt
           tree == TreeOps(Innermost)
<1> HIDE DEF to, n, N
<1>7. /\ Cardinality(here) \in Nat /\ Cardinality(tree) \in Nat
      /\ Cardinality(here) + Cardinality(tree) <= N
  BY BuiltAre DEF N
<1>8. NoTreeTwice =>
        Len(to.arena) + n = Cardinality(here) + (Cardinality(tree) + 1)
  BY <1>5, <1>6 DEF CountedIn, AtLeast, InHand, n
<1>9. Len(to.arena) \in Nat /\ DOMAIN to.arena = 1 .. Len(to.arena)
  BY <1>5, LenProperties DEF Sound
<1> HIDE DEF here, tree
<1>10. NoTreeTwice => Len(to.arena) <= N
  BY <1>6, <1>7, <1>8, <1>9
<1>11. NoTreeTwice => DOMAIN to.arena \subseteq Old
  BY <1>6, <1>9, <1>10
<1> QED
  BY <1>1, <1>5, <1>11

\* The constants of the new arena are those of the circuit, or folded; there are none
\* where the circuit has none.
ConstsHeld(arena) ==
  \A x \in DOMAIN arena : IsConst(arena[x]) =>
    /\ arena[x].value \in FoldOperands
    /\ \E g \in Old : IsConst(circuit.gates[g])

LEMMA PlacedConsts ==
  ASSUME NEW to, to.arena \in Seq(Node), NEW g, Placeable(to, g), ConstsHeld(to.arena)
  PROVE  ConstsHeld(Placed(to, g).arena)
<1>1. CASE g \in DOMAIN to.map
  BY <1>1 DEF Placed
<1>2. CASE g \notin DOMAIN to.map
  <2> DEFINE arena == to.arena
             b == Append(arena, circuit.gates[g])
  <2>1. Placed(to, g).arena = b /\ g \in Old
    BY <1>2 DEF Placed, Placeable
  <2>2. /\ Len(b) = Len(arena) + 1 /\ b[Len(arena) + 1] = circuit.gates[g]
        /\ \A x \in 1 .. Len(arena) : b[x] = arena[x]
        /\ DOMAIN arena = 1 .. Len(arena) /\ Len(arena) \in Nat /\ DOMAIN b = 1 .. Len(b)
    OBVIOUS
  <2>3. ConstsHeld(arena)
    OBVIOUS
  <2>4. IsConst(circuit.gates[g]) => circuit.gates[g].value \in FoldOperands
    BY <2>1 DEF FoldOperands
  <2> HIDE DEF arena, b
  <2>5. ASSUME NEW x \in DOMAIN b, IsConst(b[x])
        PROVE  b[x].value \in FoldOperands /\ \E h \in Old : IsConst(circuit.gates[h])
    <3>1. CASE x = Len(arena) + 1
      BY <3>1, <2>1, <2>2, <2>4, <2>5
    <3>2. CASE x # Len(arena) + 1
      <4>1. x \in DOMAIN arena
        BY <3>2, <2>2
      <4> QED
        BY <4>1, <2>2, <2>3, <2>5 DEF ConstsHeld
    <3> QED
      BY <3>1, <3>2
  <2> QED
    BY <2>1, <2>5 DEF ConstsHeld
<1> QED
  BY <1>1, <1>2

LEMMA CombinationConsts ==
  ASSUME RebalanceInv, NEW i \in DOMAIN queue, NEW j \in DOMAIN queue, ConstsHeld(rebalanced)
  PROVE  ConstsHeld(Combination(i, j).to.arena)
<1> DEFINE x == queue[i].gate
           y == queue[j].gate
           one == Placed(Here, x)
           to == Placed(one, y)
<1>1. Combination(i, j).to = to
  BY DEF Combination, Here
<1>2. Sound(Here) /\ Placeable(Here, x) /\ Placeable(Here, y) /\ ConstsHeld(Here.arena)
  BY HereSound, QueuePlaceable DEF Here
<1>3. Sound(one) /\ Grown(one, Here) /\ ConstsHeld(one.arena)
  <2> HIDE DEF x
  <2> QED
    BY <1>2, PlacedHolds, PlacedConsts DEF Sound
<1> HIDE DEF one, y
<1>4. Placeable(one, y)
  BY <1>2, <1>3 DEF Placeable, Grown
<1>5. ConstsHeld(to.arena)
  BY <1>3, <1>4, PlacedConsts DEF Sound
<1> QED
  BY <1>1, <1>5

\* What constants are folded to is a residue.
LEMMA FoldedConst ==
  ASSUME NEW arena, arena \in Seq(Node), ConstsHeld(arena), NEW n \in Node, IsOp(n),
         Operands(n) \subseteq DOMAIN arena, IsConst(Folded(arena, n))
  PROVE  /\ Folded(arena, n).value \in FoldOperands
         /\ \E g \in Old : IsConst(circuit.gates[g])
<1>1. BothConst(arena, n)
  BY NodeKinds DEF Folded
<1> DEFINE x == arena[n.lhs].value
           y == arena[n.rhs].value
<1>2. n.lhs \in DOMAIN arena /\ n.rhs \in DOMAIN arena /\ n.op \in BinOp
  BY NodeKinds, DagAssumption
<1>3. arena[n.lhs] \in Node /\ arena[n.rhs] \in Node
  BY <1>2, LenProperties, ElementOfSeq
<1>4. x \in Int /\ y \in Int
  BY <1>1, <1>3 DEF BothConst, IsConst, Node, Word
<1>5. Folded(arena, n).value = MachineOp(n.op, x, y) % Modulus
  BY <1>1 DEF Folded, ConstNode
<1>6. \E g \in Old : IsConst(circuit.gates[g])
  BY <1>1, <1>2 DEF BothConst, ConstsHeld
<1> HIDE DEF x, y
<1>7. Exact(n.op, x, y) \in Int
  BY <1>2, <1>4, ExactType
<1>8. MachineOp(n.op, x, y) \in Int
  BY <1>7, WordsAssumption DEF MachineOp
<1>9. MachineOp(n.op, x, y) % Modulus \in Residue
  BY <1>8, ResidueFacts
<1> QED
  BY <1>5, <1>6, <1>9 DEF FoldOperands

LEMMA CombineKeepsConsts ==
  ASSUME RebalanceInv, Combine, ConstsHeld(rebalanced)
  PROVE  ConstsHeld(rebalanced)'
<1>1. balancing # << >> /\ circuit' = circuit
  BY CombineIs
<1>2. PICK i \in DOMAIN queue, j \in DOMAIN queue : CombineOf(i, j)
  BY CombineIs
<1> DEFINE c == Combination(i, j)
           arena == c.to.arena
           n == GateMade(i, j)
<1>3. /\ Sound(c.to) /\ c.gate \in Node /\ Operands(c.gate) \subseteq DOMAIN arena
      /\ c.gate = OpNode(circuit.gates[Innermost].op,
                         c.to.map[queue[i].gate], c.to.map[queue[j].gate])
  BY <1>1, CombinationHolds
<1>4. ConstsHeld(arena)
  BY CombinationConsts
<1>5. /\ Continues(rebalanced', arena)
      /\ DOMAIN rebalanced' = DOMAIN arena \cup {Len(arena) + 1}
      /\ rebalanced'[Len(arena) + 1] = n
  BY <1>1, <1>2, CombineGrows
<1>6. n = IF c.rank = 0 THEN Folded(arena, c.gate) ELSE c.gate
  BY DEF GateMade
<1> HIDE DEF c, arena, n
<1>7. IsOp(c.gate) /\ ~ IsConst(c.gate)
  BY <1>3 DEF OpNode, IsOp, IsConst
<1>8. arena \in Seq(Node)
  BY <1>3 DEF Sound, arena
<1>9. IsConst(n) => n.value \in FoldOperands /\ \E g \in Old : IsConst(circuit.gates[g])
  BY <1>3, <1>4, <1>6, <1>7, <1>8, FoldedConst
<1>10. \A e \in DOMAIN rebalanced' : IsConst(rebalanced'[e]) =>
         rebalanced'[e].value \in FoldOperands /\ \E g \in Old : IsConst(circuit.gates[g])
  BY <1>4, <1>5, <1>9 DEF ConstsHeld, Continues
<1>11. Old' = Old /\ FoldOperands' = FoldOperands
  BY <1>1 DEF Old, FoldOperands
<1> QED
  BY <1>1, <1>10, <1>11 DEF ConstsHeld

\* What is on the stack, or has been, are roots.
LEMMA RootsStep ==
  ASSUME RebalanceInv, RootsHeld, [BalanceStep]_rebalanceVars
  PROVE  RootsHeld'
<1>1. circuit' = circuit /\ Old' = Old /\ AllRoots' = AllRoots
  BY StepCases DEF Untouched, NextRoot, BalanceLeaf, Flatten, Combine, FinishRoot, Old, AllRoots,
     IsRoot
<1>2. CASE UNCHANGED <<roots, balancing, map>>
  BY <1>1, <1>2 DEF RootsHeld, Balanced, Range
<1>3. CASE \/ CombinePanics \/ FinishPanics \/ CallNewCircuit \/ Rebuilding \/ Flatten
           \/ UNCHANGED rebalanceVars
  BY <1>2, <1>3 DEF CombinePanics, FinishPanics, CallNewCircuit, Rebuilding, Flatten, rebalanceVars,
     balanceVars
<1>4. ASSUME NEW r \in roots, NextRoot(r)
      PROVE  RootsHeld'
  <2>1. roots' \subseteq roots /\ map' = map /\ r \in AllRoots
    BY <1>4 DEF NextRoot, RootsHeld
  <2>2. Range(balancing') \subseteq {r}
    BY <1>4 DEF NextRoot, Range
  <2> QED
    BY <1>1, <2>1, <2>2 DEF RootsHeld, Balanced
<1>5. CASE BalanceLeaf
  <2> DEFINE leaves == Leaves(Innermost)
             open == {i \in DOMAIN leaves : Unbalanced(leaves[i])}
             at == CHOOSE i \in open : \A j \in open : i <= j
             leaf == leaves[at]
  <2>1. /\ balancing # << >> /\ open # {} /\ balancing' = Append(balancing, leaf)
        /\ roots' = roots /\ map' = map
    BY <1>5 DEF BalanceLeaf, Balancing
  <2>2. /\ leaves \in Seq(Old)
        /\ \A i \in DOMAIN leaves :
             IsOp(circuit.gates[leaves[i]]) => IsRoot(circuit, leaves[i])
    <3>1. Innermost \in Old /\ IsOp(circuit.gates[Innermost])
      BY <2>1, InnermostIs
    <3> QED
      BY <3>1, LeavesAre DEF RebalanceInv, StackHeld
  <2>3. at \in open
    <3>1. open \in SUBSET Nat
      BY <2>2, LenProperties
    <3> HIDE DEF open
    <3>2. \E i \in open : \A j \in open : i <= j
      BY <2>1, <3>1, Least
    <3> QED
      BY <3>2
  <2>4. at \in DOMAIN leaves /\ Unbalanced(leaf)
    BY <2>3
  <2> HIDE DEF at, leaves
  <2>5. leaf \in AllRoots
    <3>1. leaf \in Old
      BY <2>2, <2>4, LenProperties, ElementOfSeq
    <3> QED
      BY <2>2, <2>4, <3>1 DEF AllRoots, Unbalanced
  <2>6. Range(balancing') = Range(balancing) \cup {leaf}
    <3>1. balancing \in Seq(Old)
      BY DEF RebalanceInv, RebalanceTypeOK
    <3>2. leaf \in Old
      BY <2>5 DEF AllRoots
    <3> HIDE DEF leaf
    <3>3. /\ Len(balancing) \in Nat /\ DOMAIN balancing = 1 .. Len(balancing)
          /\ DOMAIN balancing' = 1 .. Len(balancing) + 1
          /\ balancing'[Len(balancing) + 1] = leaf
          /\ \A k \in 1 .. Len(balancing) : balancing'[k] = balancing[k]
      BY <2>1, <3>1, <3>2, AppendProperties, LenProperties
    <3> QED
      BY <3>3 DEF Range
  <2> HIDE DEF leaf
  <2> QED
    BY <1>1, <2>1, <2>5, <2>6 DEF RootsHeld, Balanced
<1>6. CASE Combine
  <2>1. balancing # << >> /\ roots' = roots /\ balancing' = balancing
    BY <1>6, CombineIs
  <2>2. PICK i \in DOMAIN queue, j \in DOMAIN queue : CombineOf(i, j)
    BY <1>6, CombineIs
  <2> DEFINE to == Combination(i, j).to
  <2>3. Grown(to, Here)
    BY <2>1, CombinationHolds
  <2>4. DOMAIN map' = DOMAIN to.map \cup {index} /\ index \notin Old
    BY <2>1, <2>2, CombineGrows
  <2> HIDE DEF to
  <2>5. Balanced' = Balanced
    BY <1>1, <2>3, <2>4 DEF Balanced, Grown, Here
  <2> QED
    BY <1>1, <2>1, <2>5 DEF RootsHeld, Range
<1>7. CASE FinishRoot
  <2> DEFINE n == Len(balancing)
  <2>1. /\ balancing # << >> /\ roots' = roots /\ map' = Put(map, Innermost, RebuiltAs)
        /\ balancing' = SubSeq(balancing, 1, n - 1)
    BY <1>7 DEF FinishRoot, Built, Balancing
  <2>2. n \in Nat \ {0} /\ DOMAIN balancing = 1 .. n /\ Innermost = balancing[n]
    BY <2>1, InnermostIs DEF Innermost
  <2>3. Innermost \in AllRoots
    BY <2>2 DEF RootsHeld, Range
  <2>4. Balanced' \subseteq Balanced \cup {Innermost}
    BY <1>1, <2>1 DEF Balanced, Put
  <2>5. Range(balancing') \subseteq Range(balancing)
    <3>1. balancing \in Seq(Old)
      BY DEF RebalanceInv, RebalanceTypeOK
    <3> HIDE DEF n
    <3>2. DOMAIN balancing' = 1 .. n - 1 /\ \A k \in 1 .. n - 1 : balancing'[k] = balancing[k]
      BY <2>1, <2>2, <3>1, SubSeqProperties
    <3>3. 1 .. n - 1 \subseteq DOMAIN balancing
      BY <2>2
    <3> QED
      BY <3>2, <3>3 DEF Range
  <2> QED
    BY <1>1, <2>1, <2>3, <2>4, <2>5 DEF RootsHeld
<1> QED
  BY <1>3, <1>4, <1>5, <1>6, <1>7 DEF BalanceStep

\* The trees are those of the circuit, which stays.
LEMMA TreeOpsStay ==
  ASSUME circuit' = circuit
  PROVE  /\ \A r : TreeOps(r)' = TreeOps(r)
         /\ balancing' = balancing => TreeOps(Innermost)' = TreeOps(Innermost)
         /\ Balanced' = Balanced => TreesBuilt' = TreesBuilt
         /\ \A r : Balanced' = Balanced \cup {r} => TreesBuilt' = TreesBuilt \cup TreeOps(r)
<1>1. \A r : TreeOps(r)' = TreeOps(r)
  BY DEF TreeOps, WithInner, InTree, Old, IsRoot
<1>2. balancing' = balancing => TreeOps(Innermost)' = TreeOps(Innermost)
  BY DEF TreeOps, WithInner, InTree, Old, IsRoot, Innermost
<1>3. TreesBuilt' = UNION {TreeOps(r)' : r \in Balanced'}
  BY DEF TreesBuilt
<1>4. TreesBuilt' = UNION {TreeOps(r) : r \in Balanced'}
  BY <1>1, <1>3
<1>5. Balanced' = Balanced => TreesBuilt' = TreesBuilt
  BY <1>4 DEF TreesBuilt
<1>6. ASSUME NEW r, Balanced' = Balanced \cup {r}
      PROVE  TreesBuilt' = TreesBuilt \cup TreeOps(r)
  BY <1>4, <1>6 DEF TreesBuilt
<1> QED
  BY <1>1, <1>2, <1>5, <1>6

\* Where the trees and the arena are left alone, so are their numbers.
LEMMA CountsStay ==
  ASSUME CountedIn(Here), UNCHANGED <<circuit, queue, map, rebalanced>>,
         queue # << >> => UNCHANGED balancing
  PROVE  CountedIn(Here)'
<1>1. Balanced' = Balanced /\ LeavesIn(Here)' = LeavesIn(Here)
  BY DEF Balanced, LeavesIn, Here, Old
<1>2. /\ TreesBuilt' = TreesBuilt
      /\ queue # << >> => TreeOps(Innermost)' = TreeOps(Innermost)
  BY <1>1, TreeOpsStay
<1>3. Len(Here.arena)' = Len(Here.arena)
  BY DEF Here
<1>4. (LeavesIn(Here) \cup TreesBuilt)' = LeavesIn(Here) \cup TreesBuilt
  BY <1>1, <1>2
<1>5. queue' = queue
  OBVIOUS
<1>6. InHand' = InHand
  BY <1>2, <1>5 DEF InHand
<1> QED
  BY <1>3, <1>4, <1>5, <1>6, NoTreeTwiceKept DEF CountedIn, AtLeast

LEMMA FlattenCounts ==
  ASSUME RebalanceInv, RootsHeld, CountedIn(Here), Flatten
  PROVE  CountedIn(Here)'
<1> DEFINE leaves == Leaves(Innermost)
           items == [i \in DOMAIN leaves |-> [gate |-> leaves[i], rank |-> Rank(leaves[i])]]
<1>1. /\ queue = << >> /\ balancing # << >> /\ queue' = items
      /\ UNCHANGED <<circuit, roots, balancing, map, index, rebalanced, usages, phase>>
  BY DEF Flatten, Balancing
<1>2. Innermost \in Old /\ IsOp(circuit.gates[Innermost]) /\ circuit \in Circuits
  BY <1>1, InnermostIs DEF RebalanceInv, StackHeld
<1>3. leaves \in Seq(Old) /\ Len(leaves) > 1
  BY <1>2, LeavesAre
<1>4. AtLeast(Len(leaves), Cardinality(TreeOps(Innermost)) + 1)
  BY <1>2, TreeOpsAre
<1>5. queue' \in Seq(Item)
  BY FlattenKeeps DEF RebalanceInv, QueueHeld, Item
<1> HIDE DEF leaves
<1>6. Len(queue') = Len(leaves) /\ queue' # << >>
  <2>1. Len(leaves) \in Nat /\ DOMAIN leaves = 1 .. Len(leaves)
    BY <1>3, LenProperties
  <2>2. DOMAIN queue' = 1 .. Len(leaves)
    BY <1>1, <2>1
  <2>3. DOMAIN queue' = 1 .. Len(queue') /\ Len(queue') \in Nat
    BY <1>5, LenProperties
  <2> HIDE DEF items
  <2>4. Len(queue') = Len(leaves)
    BY <2>1, <2>2, <2>3
  <2> QED
    BY <1>3, <2>1, <2>4, EmptySeq
<1>7. Balanced' = Balanced /\ LeavesIn(Here)' = LeavesIn(Here)
  BY <1>1 DEF Balanced, LeavesIn, Here, Old
<1>8. TreesBuilt' = TreesBuilt /\ TreeOps(Innermost)' = TreeOps(Innermost)
  BY <1>1, <1>7, TreeOpsStay
<1>9. Len(Here.arena)' = Len(Here.arena)
  BY <1>1 DEF Here
<1>10. AtLeast(Len(Here.arena), Cardinality(LeavesIn(Here) \cup TreesBuilt))
  <2>1. Len(queue) = 0 /\ InHand = 0
    BY <1>1 DEF InHand
  <2>2. Len(Here.arena) \in Nat
    BY LenProperties DEF Here, RebalanceInv, RebalanceTypeOK
  <2>3. Cardinality(LeavesIn(Here) \cup TreesBuilt) \in Nat
    BY BuiltAre
  <2>4. AtLeast(Len(Here.arena) + 0, Cardinality(LeavesIn(Here) \cup TreesBuilt) + 0)
    BY <2>1 DEF CountedIn
  <2> DEFINE a == Len(Here.arena)
             b == Cardinality(LeavesIn(Here) \cup TreesBuilt)
  <2> HIDE DEF a, b
  <2>5. AtLeast(a + 0, b + 0) /\ a \in Nat /\ b \in Nat
    BY <2>2, <2>3, <2>4 DEF a, b
  <2>6. a >= b /\ (NoTreeTwice => a = b)
    BY <2>5 DEF AtLeast
  <2> QED
    BY <2>6 DEF a, b, AtLeast
<1>11. Cardinality(TreeOps(Innermost)) \in Nat /\ Len(leaves) \in Nat
       /\ Len(Here.arena) \in Nat /\ Cardinality(LeavesIn(Here) \cup TreesBuilt) \in Nat
  <2>1. Len(Here.arena) \in Nat
    BY LenProperties DEF Here, RebalanceInv, RebalanceTypeOK
  <2> QED
    BY <1>1, <1>3, <2>1, BuiltAre, LenProperties
<1>12. InHand' = Cardinality(TreeOps(Innermost)) + 1
  BY <1>6, <1>8 DEF InHand
<1>13. (LeavesIn(Here) \cup TreesBuilt)' = LeavesIn(Here) \cup TreesBuilt
  BY <1>7, <1>8
<1>14. AtLeast(Len(Here.arena) + Len(leaves),
               Cardinality(LeavesIn(Here) \cup TreesBuilt) + (Cardinality(TreeOps(Innermost)) + 1))
  <2> DEFINE a == Len(Here.arena)
             b == Cardinality(LeavesIn(Here) \cup TreesBuilt)
             c == Cardinality(TreeOps(Innermost))
             l == Len(leaves)
  <2>1. a \in Nat /\ b \in Nat /\ c \in Nat /\ l \in Nat /\ AtLeast(a, b) /\ AtLeast(l, c + 1)
    BY <1>4, <1>10, <1>11
  <2> HIDE DEF a, b, c, l
  <2>2. AtLeast(a + l, b + (c + 1))
    BY <2>1 DEF AtLeast
  <2> QED
    BY <2>2 DEF a, b, c, l
<1> QED
  BY <1>1, <1>6, <1>9, <1>12, <1>13, <1>14, NoTreeTwiceKept DEF CountedIn, AtLeast

LEMMA CombineCounts ==
  ASSUME RebalanceInv, RootsHeld, CountedIn(Here), Combine
  PROVE  CountedIn(Here)'
<1>1. balancing # << >> /\ UNCHANGED <<circuit, balancing>>
  BY CombineIs
<1>2. PICK i \in DOMAIN queue, j \in DOMAIN queue : i # j /\ CombineOf(i, j)
  BY CombineIs
<1> DEFINE to == Combination(i, j).to
           n == Len(queue)
<1>3. CountedIn(to) /\ Sound(to) /\ Grown(to, Here)
  BY <1>1, <1>2, CombinationFits, CombinationHolds
<1>4. /\ DOMAIN map' = DOMAIN to.map \cup {index} /\ index \notin Old
      /\ rebalanced' = Append(to.arena, GateMade(i, j)) /\ GateMade(i, j) \in Node
  BY <1>1, <1>2, CombineGrows DEF CombineOf
<1>5. /\ queue' \in Seq(Item) /\ Len(queue') = n - 1 /\ n \in Nat /\ n > 1
  <2>1. queue \in Seq(Item)
    BY DEF RebalanceInv, QueueHeld, Item
  <2> QED
    BY <1>1, <1>2, <2>1, QueueCombined, WithoutIs
<1> HIDE DEF to, n
<1>6. Balanced' = Balanced
  BY <1>1, <1>3, <1>4 DEF Balanced, Grown, Here, Old
<1>7. LeavesIn(Here)' = LeavesIn(to)
  BY <1>1, <1>4 DEF LeavesIn, Here, Old
<1>8. TreesBuilt' = TreesBuilt /\ TreeOps(Innermost)' = TreeOps(Innermost)
  BY <1>1, <1>6, TreeOpsStay
<1>9. Len(rebalanced') = Len(to.arena) + 1 /\ Len(to.arena) \in Nat
  BY <1>3, <1>4, AppendProperties, LenProperties DEF Sound
<1>10. queue # << >> /\ queue' # << >>
  <2>1. queue \in Seq(Item)
    BY DEF RebalanceInv, QueueHeld, Item
  <2>2. Len(queue') # 0 /\ Len(queue) # 0
    BY <1>5 DEF n
  <2> QED
    BY <1>5, <2>1, <2>2, EmptySeq
<1>11. Len(rebalanced') + Len(queue') = Len(to.arena) + n
  BY <1>5, <1>9
<1>12. Here.arena' = rebalanced'
  BY DEF Here
<1>13. AtLeast(Len(to.arena) + n, Cardinality(LeavesIn(to) \cup TreesBuilt) + InHand)
  BY <1>3 DEF CountedIn, n
<1>14. InHand' = InHand
  BY <1>8, <1>10 DEF InHand
<1>15. (LeavesIn(Here) \cup TreesBuilt)' = LeavesIn(to) \cup TreesBuilt
  BY <1>7, <1>8
<1> QED
  BY <1>1, <1>11, <1>12, <1>13, <1>14, <1>15, NoTreeTwiceKept DEF CountedIn, AtLeast

LEMMA FinishRootCounts ==
  ASSUME RebalanceInv, RootsHeld, CountedIn(Here), FinishRoot
  PROVE  CountedIn(Here)'
<1> DEFINE here == LeavesIn(Here) \cup TreesBuilt
           tree == TreeOps(Innermost)
<1>1. /\ balancing # << >> /\ Len(queue) = 1 /\ map' = Put(map, Innermost, RebuiltAs)
      /\ queue' = << >> /\ UNCHANGED <<circuit, rebalanced>>
  BY DEF FinishRoot, Built, Balancing
<1>2. Innermost \in Old /\ IsOp(circuit.gates[Innermost])
  BY <1>1, InnermostIs
<1>3. Balanced' = Balanced \cup {Innermost}
  BY <1>1, <1>2 DEF Balanced, Put, Old
<1>4. LeavesIn(Here)' = LeavesIn(Here)
  BY <1>1, <1>2 DEF LeavesIn, Here, Put, Old
<1>5. TreesBuilt' = TreesBuilt \cup tree
  BY <1>1, <1>3, TreeOpsStay
<1>6. /\ Cardinality(here) \in Nat /\ Cardinality(tree) \in Nat
      /\ Cardinality(here \cup tree) = Cardinality(here) + Cardinality(tree)
  BY <1>1, BuiltAre
<1>7. (LeavesIn(Here) \cup TreesBuilt)' = here \cup tree
  BY <1>4, <1>5
<1>8. AtLeast(Len(rebalanced) + 1, Cardinality(here) + (Cardinality(tree) + 1))
  <2>1. queue # << >>
    BY <1>1
  <2>2. Here.arena = rebalanced
    BY DEF Here
  <2> QED
    BY <1>1, <2>1, <2>2 DEF CountedIn, InHand
<1>9. Len(rebalanced) \in Nat
  BY LenProperties DEF RebalanceInv, RebalanceTypeOK
<1> HIDE DEF here, tree
<1>10. AtLeast(Len(rebalanced) + 0, Cardinality(here \cup tree) + 0)
  <2> DEFINE a == Cardinality(here)
             b == Cardinality(tree)
             l == Len(rebalanced)
  <2>1. a \in Nat /\ b \in Nat /\ l \in Nat /\ AtLeast(l + 1, a + (b + 1))
    BY <1>6, <1>8, <1>9
  <2> HIDE DEF a, b, l
  <2>2. AtLeast(l + 0, (a + b) + 0)
    BY <2>1 DEF AtLeast
  <2> QED
    BY <1>6, <2>2 DEF a, b, l
<1>11. Len(queue') = 0 /\ InHand' = 0 /\ Here.arena' = rebalanced
  BY <1>1 DEF InHand, Here
<1> QED
  BY <1>1, <1>7, <1>10, <1>11, NoTreeTwiceKept DEF CountedIn, AtLeast

\* A turn of rebuild panics only on a fold: of two constants of those there may be, with
\* an operator there is.
LEMMA CombinePanicsFor ==
  ASSUME RebalanceInv, RootsHeld, ConstsHeld(rebalanced), NoTreeTwice,
         CountedIn(Here), CombinePanics
  PROVE  OverflowChecks /\ ConstantsOverflow
<1>1. balancing # << >>
  BY DEF CombinePanics, Balancing
<1>2. PICK p \in LowestPair :
        \/ NoUsagesFor(Combination(p[1], p[2]))
        \/ FoldOverflows(Combination(p[1], p[2]).to.arena, Combination(p[1], p[2]).gate)
  BY DEF CombinePanics
<1> DEFINE i == p[1]
           j == p[2]
           c == Combination(i, j)
           arena == c.to.arena
           op == circuit.gates[Innermost].op
<1>3. i \in DOMAIN queue /\ j \in DOMAIN queue /\ i # j
  BY <1>2 DEF LowestPair
<1>4. NoUsagesFor(c) \/ FoldOverflows(arena, c.gate)
  BY <1>2
<1> HIDE DEF i, j
<1>5. arena \in Seq(Node) /\ Operands(c.gate) \subseteq DOMAIN arena /\ c.gate.op = op
      /\ c.gate \in Node /\ IsOp(c.gate)
  <2>1. /\ Sound(c.to) /\ Operands(c.gate) \subseteq DOMAIN arena /\ c.gate \in Node
        /\ c.gate = OpNode(op, c.to.map[queue[i].gate], c.to.map[queue[j].gate])
    BY <1>1, <1>3, CombinationHolds
  <2> HIDE DEF c, op
  <2> QED
    BY <2>1 DEF Sound, OpNode, IsOp
<1>6. ConstsHeld(arena) /\ DOMAIN arena \subseteq Old
  BY <1>1, <1>3, CombinationConsts, CombinationFits
<1>7. Innermost \in Old /\ IsOp(circuit.gates[Innermost])
  BY <1>1, InnermostIs
<1>8. ~ NoUsagesFor(c)
  <2>1. DOMAIN usages = Old
    BY DEF RebalanceInv, RebalanceTypeOK
  <2> HIDE DEF c
  <2> QED
    BY <1>5, <1>6, <2>1 DEF NoUsagesFor, UsedBy
<1> DEFINE n == c.gate
           x == arena[n.lhs].value
           y == arena[n.rhs].value
<1>9. OverflowChecks /\ BothConst(arena, n) /\ Overflows(n.op, x, y)
  BY <1>4, <1>8 DEF FoldOverflows
<1> HIDE DEF c, op
<1>10. n.lhs \in DOMAIN arena /\ n.rhs \in DOMAIN arena
  BY <1>5, NodeKinds
<1>11. x \in FoldOperands /\ y \in FoldOperands /\ \E g \in Old : IsConst(circuit.gates[g])
  BY <1>6, <1>9, <1>10 DEF BothConst, ConstsHeld
<1> HIDE DEF arena, n, x, y
<1>12. Overflows(circuit.gates[Innermost].op, x, y)
  BY <1>5, <1>9 DEF n, op
<1>13. PICK g \in Old : IsConst(circuit.gates[g])
  BY <1>11
<1> QED
  BY <1>7, <1>9, <1>11, <1>12, <1>13 DEF ConstantsOverflow

\* The root of a tree that is done is in the usages.
LEMMA RootFits ==
  ASSUME RebalanceInv, RootsHeld, NoTreeTwice, CountedIn(Here), Built
  PROVE  RebuiltAs \in DOMAIN usages
<1> DEFINE N == Len(circuit.gates)
           here == LeavesIn(Here) \cup TreesBuilt
           tree == TreeOps(Innermost)
<1>1. balancing # << >> /\ Len(queue) = 1
  BY DEF Built, Balancing
<1>2. 1 \in DOMAIN queue
  BY <1>1, LenProperties DEF RebalanceInv, QueueHeld
<1>3. queue[1].gate \in DOMAIN map
  BY <1>1, <1>2 DEF RebalanceInv, QueueHeld
<1>4. RebuiltAs \in DOMAIN rebalanced
  BY <1>3 DEF RebuiltAs, RebalanceInv, RebalanceTypeOK
<1>5. Len(rebalanced) \in Nat /\ DOMAIN rebalanced = 1 .. Len(rebalanced)
  BY LenProperties DEF RebalanceInv, RebalanceTypeOK
<1>6. /\ Cardinality(here) \in Nat /\ Cardinality(tree) \in Nat
      /\ Cardinality(here) + Cardinality(tree) <= N
  BY <1>1, BuiltAre
<1>7. Len(rebalanced) + 1 = Cardinality(here) + (Cardinality(tree) + 1)
  <2>1. queue # << >>
    BY <1>1
  <2>2. Here.arena = rebalanced
    BY DEF Here
  <2> QED
    BY <1>1, <2>1, <2>2 DEF CountedIn, AtLeast, InHand
<1>8. N \in Nat /\ Old = 1 .. N /\ DOMAIN usages = Old
  BY GivenCircuit DEF RebalanceInv, StackHeld, RebalanceTypeOK
<1> HIDE DEF here, tree, N
<1>9. Len(rebalanced) <= N
  BY <1>5, <1>6, <1>7, <1>8
<1> QED
  BY <1>4, <1>5, <1>8, <1>9

RoomInv ==
  /\ RebalanceInv /\ RootsHeld /\ ConstsHeld(rebalanced)
  /\ CountedIn(Here) /\ PanicsExplained

LEMMA RoomInit == RebalanceInit => RoomInv
<1> SUFFICES ASSUME RebalanceInit
             PROVE  RoomInv
  OBVIOUS
<1> USE DEF RebalanceInit
<1>1. RebalanceInv
  BY InitHolds
<1>2. Range(balancing) = {} /\ DOMAIN map = {} /\ roots = AllRoots
  BY DEF Range, AllRoots, Old
<1>3. Balanced = {} /\ LeavesIn(Here) = {} /\ TreesBuilt = {}
  BY <1>2 DEF Balanced, LeavesIn, Here, TreesBuilt
<1>4. RootsHeld /\ ConstsHeld(rebalanced) /\ PanicsExplained
  BY <1>2, <1>3 DEF RootsHeld, ConstsHeld, PanicsExplained
<1>5. CountedIn(Here)
  <2>1. Cardinality(LeavesIn(Here) \cup TreesBuilt) = 0
    BY <1>3, FS_EmptySet
  <2>2. Len(Here.arena) = 0 /\ Len(queue) = 0 /\ queue = << >>
    BY DEF Here
  <2>3. AtLeast(0 + 0, 0 + 0)
    BY DEF AtLeast
  <2> QED
    BY <2>1, <2>2, <2>3, Zenon DEF CountedIn, InHand
<1> QED
  BY <1>1, <1>4, <1>5 DEF RoomInv

LEMMA RoomStep ==
  ASSUME RoomInv, [BalanceStep]_rebalanceVars
  PROVE  RoomInv'
<1>1. RebalanceInv /\ RootsHeld /\ ConstsHeld(rebalanced)
      /\ CountedIn(Here) /\ PanicsExplained
  BY DEF RoomInv
<1>2. RebalanceInv' /\ RootsHeld'
  BY <1>1, StepHolds, RootsStep
<1>3. circuit' = circuit
  BY <1>1, StepCases DEF Untouched, NextRoot, BalanceLeaf, Flatten, Combine, FinishRoot
<1>4. ConstsHeld(rebalanced)'
  <2>1. CASE Combine
    BY <1>1, <2>1, CombineKeepsConsts
  <2>2. CASE rebalanced' = rebalanced
    BY <1>1, <1>3, <2>2 DEF ConstsHeld, FoldOperands, Old
  <2> QED
    BY <1>1, <2>1, <2>2, StepCases DEF Untouched, NextRoot, BalanceLeaf, Flatten, FinishRoot
<1>5. CountedIn(Here)'
  <2>1. CountedIn(Here)
    BY <1>1
  <2>2. CASE Untouched
    BY <2>1, <2>2, CountsStay DEF Untouched
  <2>3. CASE (\E r \in roots : NextRoot(r)) \/ BalanceLeaf
    <3>1. queue = << >> /\ UNCHANGED <<circuit, queue, map, rebalanced>>
      BY <1>1, <2>3 DEF NextRoot, BalanceLeaf, RebalanceInv, StackHeld
    <3> QED
      BY <2>1, <3>1, CountsStay
  <2>4. CASE Flatten
    BY <1>1, <2>1, <2>4, FlattenCounts
  <2>5. CASE Combine
    BY <1>1, <2>1, <2>5, CombineCounts
  <2>6. CASE FinishRoot
    BY <1>1, <2>1, <2>6, FinishRootCounts
  <2> QED
    BY <1>1, <2>2, <2>3, <2>4, <2>5, <2>6, StepCases
<1>6. PanicsExplained'
  <2>1. (NoTreeTwice = NoTreeTwice')
        /\ (ConstantsOverflow = ConstantsOverflow')
    BY <1>3 DEF ConstantsOverflow, FoldOperands, NoTreeTwice, IsRoot, Old
  <2>2. CASE CombinePanics
    BY <1>1, <2>1, <2>2, CombinePanicsFor DEF PanicsExplained
  <2>3. CASE FinishPanics
    BY <1>1, <2>1, <2>3, RootFits DEF PanicsExplained, FinishPanics
  <2>4. CASE phase' = phase \/ phase' = "rebuilding"
    BY <1>1, <2>1, <2>4 DEF PanicsExplained
  <2> QED
    BY <2>2, <2>3, <2>4 DEF BalanceStep, NextRoot, BalanceLeaf, Flatten, Combine, FinishRoot,
       CallNewCircuit, Rebuilding, rebalanceVars, balanceVars
<1> QED
  BY <1>2, <1>3, <1>4, <1>5, <1>6 DEF RoomInv

\* Whatever the circuit and the queue, every gate that a tree is given has its place among
\* the usages, of which there are as many as the circuit has gates, unless an operation inside
\* a tree is squared; without such a square only a fold that overflows makes the pass panic
\* (usages, rebalance.rs:52, 101-105, 206-212).
THEOREM RoomForTrees == RebalanceSpec => []PanicsExplained
<1>1. RoomInv => PanicsExplained
  BY DEF RoomInv
<1>2. RoomInv /\ [BalanceStep]_rebalanceVars => RoomInv'
  BY RoomStep
<1> QED
  BY <1>1, <1>2, RoomInit, PTL DEF RebalanceSpec

\* No rank is left out of the sum.
LEMMA SumAtLeast ==
  ASSUME NEW items \in Seq(Item), NEW i \in DOMAIN items
  PROVE  items[i].rank <= SumOf(items)
<1> DEFINE n == Len(items)
<1>1. n \in Nat /\ DOMAIN items = 1 .. n /\ i \in 1 .. n /\ n > 0
      /\ \A k \in 1 .. n : items[k].rank \in Nat
  <2>1. n \in Nat /\ DOMAIN items = 1 .. n /\ \A k \in 1 .. n : items[k] \in Item
    BY LenProperties, ElementOfSeq
  <2> QED
    BY <2>1 DEF Item
<1>2. PICK sum \in [1 .. n -> Nat] :
        /\ SumOf(items) = sum[n]
        /\ \A k \in 1 .. n : sum[k] = items[k].rank + (IF k = 1 THEN 0 ELSE sum[k - 1])
  BY <1>1, SumEquation
<1> DEFINE S == {k \in 1 .. n : i <= k => items[i].rank <= sum[k]}
<1> HIDE DEF n
<1>3. ASSUME NEW k \in 1 .. n, (1 .. k - 1) \subseteq S, i <= k
      PROVE  items[i].rank <= sum[k]
  <2>1. CASE k = 1
    BY <1>1, <1>2, <1>3, <2>1
  <2>2. CASE k # 1
    <3>1. k - 1 \in 1 .. k - 1 /\ k - 1 \in 1 .. n /\ sum[k] = items[k].rank + sum[k - 1]
      BY <1>1, <1>2, <2>2
    <3>2. sum[k - 1] \in Nat /\ items[k].rank \in Nat /\ items[i].rank \in Nat
      BY <1>1, <3>1
    <3>3. CASE i = k
      BY <3>1, <3>2, <3>3
    <3>4. CASE i # k
      <4>1. items[i].rank <= sum[k - 1]
        BY <1>1, <1>3, <3>1, <3>4
      <4> QED
        BY <3>1, <3>2, <4>1
    <3> QED
      BY <3>3, <3>4
  <2> QED
    BY <2>1, <2>2
<1>4. 1 .. n \subseteq S
  <2>1. \A k \in 1 .. n : (1 .. k - 1) \subseteq S => k \in S
    BY <1>3
  <2> HIDE DEF S
  <2> QED
    BY <1>1, <2>1, PositionInduction
<1> QED
  BY <1>1, <1>2, <1>4

LEMMA RangeOfConcat ==
  ASSUME NEW S, NEW s \in Seq(S), NEW t \in Seq(S)
  PROVE  Range(s) \cup Range(t) \subseteq Range(s \o t)
<1> DEFINE m == Len(s)
           n == Len(t)
           w == s \o t
<1>1. /\ m \in Nat /\ n \in Nat /\ DOMAIN s = 1 .. m /\ DOMAIN t = 1 .. n
      /\ DOMAIN w = 1 .. m + n
      /\ \A k \in 1 .. m : w[k] = s[k]
      /\ \A k \in 1 .. n : w[m + k] = t[k]
  OBVIOUS
<1> HIDE DEF m, n, w
<1>2. \A k \in 1 .. m : s[k] \in Range(w)
  BY <1>1 DEF Range
<1>3. ASSUME NEW k \in 1 .. n
      PROVE  t[k] \in Range(w)
  <2>1. m + k \in DOMAIN w
    BY <1>1
  <2> QED
    BY <1>1, <2>1 DEF Range
<1> QED
  BY <1>1, <1>2, <1>3 DEF Range, w

\* What an operation of a tree is made from is in the tree, or one of its leaves.
LEMMA TreeEdges ==
  ASSUME circuit \in Circuits, NEW root \in Old, IsOp(circuit.gates[root])
  PROVE  \A x \in TreeOps(root) : \A h \in Operands(circuit.gates[x]) :
           h \in TreeOps(root) \/ h \in Range(Leaves(root))
<1> DEFINE N == Len(circuit.gates)
<1>1. /\ N \in Nat /\ Old = 1 .. N
      /\ \A g \in 1 .. N : IsOp(circuit.gates[g]) => /\ circuit.gates[g].lhs \in 1 .. g - 1
                                                   /\ circuit.gates[g].rhs \in 1 .. g - 1
  BY GivenCircuit
<1>2. PICK below \in [Old -> Seq(Old)] :
        /\ Leaves(root) = below[root]
        /\ \A g \in Old : below[g] = Below(g, root, below)
  BY LeavesEquation
<1>3. PICK inner \in [Old -> SUBSET Old] :
        /\ TreeOps(root) = inner[root]
        /\ \A g \in Old : inner[g] = WithInner(g, root, inner)
  BY InnerEquation
<1> DEFINE Part(g, h) == h \in inner[g] \/ h \in Range(below[g])
           Made(g) == /\ Part(g, g)
                      /\ \A x \in inner[g] : \A h \in Operands(circuit.gates[x]) : Part(g, h)
           S == {g \in 1 .. N : Made(g)}
<1>4. ASSUME NEW g \in 1 .. N, (1 .. g - 1) \subseteq S
      PROVE  Made(g)
  <2>1. CASE InTree(g, root)
    <3> DEFINE l == circuit.gates[g].lhs
               r == circuit.gates[g].rhs
    <3>1. /\ l \in 1 .. g - 1 /\ r \in 1 .. g - 1 /\ l \in Old /\ r \in Old
          /\ Operands(circuit.gates[g]) = {l, r}
      BY <1>1, <2>1 DEF InTree, Operands
    <3>2. inner[g] = {g} \cup inner[l] \cup inner[r] /\ below[g] = below[l] \o below[r]
      BY <1>1, <1>2, <1>3, <2>1 DEF Below, WithInner
    <3> HIDE DEF Made
    <3>3. Made(l) /\ Made(r)
      BY <1>4, <3>1
    <3> HIDE DEF l, r, N
    <3>4. Range(below[l]) \cup Range(below[r]) \subseteq Range(below[g])
      BY <3>1, <3>2, RangeOfConcat
    <3>5. \A h : Part(l, h) \/ Part(r, h) => Part(g, h)
      BY <3>2, <3>4
    <3> HIDE DEF Part
    <3>6. ASSUME NEW x \in inner[g], NEW h \in Operands(circuit.gates[x])
          PROVE  Part(g, h)
      <4>1. CASE x = g
        BY <3>1, <3>3, <3>5, <4>1 DEF Made
      <4>2. CASE x # g
        BY <3>2, <3>3, <3>5, <4>2 DEF Made
      <4> QED
        BY <4>1, <4>2
    <3>7. Part(g, g)
      BY <3>2 DEF Part
    <3> QED
      BY <3>6, <3>7 DEF Made
  <2>2. CASE ~ InTree(g, root)
    <3>1. inner[g] = {} /\ below[g] = <<g>>
      BY <1>1, <1>2, <1>3, <2>2 DEF Below, WithInner
    <3>2. g \in Range(below[g])
      BY <3>1 DEF Range
    <3> QED
      BY <3>1, <3>2
  <2> QED
    BY <2>1, <2>2
<1>5. 1 .. N \subseteq S
  <2>1. \A g \in 1 .. N : (1 .. g - 1) \subseteq S => g \in S
    BY <1>4
  <2> HIDE DEF S, N
  <2> QED
    BY <1>1, <2>1, PositionInduction
<1> QED
  BY <1>1, <1>2, <1>3, <1>5

\* Not all leaves of a tree are constants: its first operation would be one on two.
LEMMA SomeLeafNotConst ==
  ASSUME circuit \in Circuits, NEW root \in Old, IsOp(circuit.gates[root])
  PROVE  \E i \in DOMAIN Leaves(root) : ~ IsConst(circuit.gates[Leaves(root)[i]])
<1> DEFINE tree == TreeOps(root)
<1>1. tree \in SUBSET Old /\ root \in tree /\ \A x \in tree : IsOp(circuit.gates[x])
  BY TreeOpsAre DEF Hangs
<1>2. \A x \in tree : \A h \in Operands(circuit.gates[x]) : h \in tree \/ h \in Range(Leaves(root))
  BY TreeEdges
<1> HIDE DEF tree
<1>3. PICK m \in tree : \A n \in tree : m <= n
  <2>1. Old \subseteq Nat
    BY GivenCircuit
  <2> QED
    BY <1>1, <2>1, Least
<1> DEFINE l == circuit.gates[m].lhs
           r == circuit.gates[m].rhs
<1>4. m \in Old /\ IsOp(circuit.gates[m]) /\ l \in 1 .. m - 1 /\ r \in 1 .. m - 1
      /\ Operands(circuit.gates[m]) = {l, r} /\ m \in Nat
  BY <1>1, GivenCircuit DEF Operands
<1>5. ~ (IsConst(circuit.gates[l]) /\ IsConst(circuit.gates[r]))
  BY <1>4, CircuitAssumption DEF Compiled, Old
<1> HIDE DEF l, r
<1>6. l \notin tree /\ r \notin tree
  <2>1. ~ (m <= l) /\ ~ (m <= r)
    BY <1>4
  <2> QED
    BY <1>3, <2>1
<1>7. l \in Range(Leaves(root)) /\ r \in Range(Leaves(root))
  BY <1>2, <1>4, <1>6
<1> QED
  BY <1>5, <1>7 DEF Range

-----------------------------------------------------------------------------
\* Who uses what in the new arena.

InUse(x) == x \in DOMAIN usages /\ usages[x] # {}

\* An input or a constant that is mapped has been copied.
LeavesCopied ==
  \A g \in Old \cap DOMAIN map : ~ IsOp(circuit.gates[g]) => rebalanced[map[g]] = circuit.gates[g]

\* Only constants have no rank.
ConstRanks ==
  /\ \A r \in DOMAIN ranks : ranks[r] > 0
  /\ \A k \in DOMAIN queue :
       LET g == queue[k].gate
       IN  queue[k].rank = 0 =>
             IF g \in Old THEN IsConst(circuit.gates[g]) ELSE IsConst(rebalanced[map[g]])

\* The leaves of a tree that is built are in the arena, and are used there if they are
\* operations; those of the one in hand are, or are still queued.
LeafBuilt(l) == l \in DOMAIN map /\ (IsOp(circuit.gates[l]) => InUse(map[l]))
Queued(l) == \E k \in DOMAIN queue : queue[k].gate = l
LeavesBuilt ==
  /\ \A r \in Balanced : \A l \in Range(Leaves(r)) : LeafBuilt(l)
  /\ queue # << >> => \A l \in Range(Leaves(Innermost)) : LeafBuilt(l) \/ Queued(l)

\* The operands of a gate know it as a user.
UsersTold ==
  \A x \in DOMAIN rebalanced : \A o \in Operands(rebalanced[x]) :
    o \in DOMAIN usages /\ x \in usages[o]

\* A user of a gate has it as an operand, or is that gate itself, an output.
IsOutput(x) == \E r \in Balanced \cap Range(circuit.outputs) : map[r] = x
UsersReal ==
  \A g \in DOMAIN usages : \A u \in usages[g] :
    g \in Operands(rebalanced[u]) \/ (u = g /\ IsOutput(g))

\* An operation is used, or still queued, or what a root has become.
Pending(x) == \E k \in DOMAIN queue : queue[k].gate \notin Old /\ map[queue[k].gate] = x
IsRebuilt(x) == \E r \in Balanced : map[r] = x
OpsUsed ==
  \A x \in DOMAIN rebalanced : IsOp(rebalanced[x]) => InUse(x) \/ Pending(x) \/ IsRebuilt(x)

\* What is left of the queue was made last.
LastBuilt == Len(queue) = 1 => RebuiltAs = Len(rebalanced)

UsesHeld ==
  /\ LeavesCopied /\ ConstRanks /\ LeavesBuilt /\ UsersTold /\ UsersReal /\ OpsUsed /\ LastBuilt

LEMMA LeavesStay ==
  ASSUME circuit' = circuit
  PROVE  /\ \A r : Leaves(r)' = Leaves(r)
         /\ balancing' = balancing => Leaves(Innermost)' = Leaves(Innermost)
<1>1. ASSUME NEW r
      PROVE  Leaves(r)' = Leaves(r)
  <2>1. \A g : IsRoot(circuit, g)' <=> IsRoot(circuit, g)
    OBVIOUS
  <2> QED
    BY DEF Leaves
<1>2. ASSUME balancing' = balancing
      PROVE  Leaves(Innermost)' = Leaves(Innermost)
  BY <1>2 DEF Leaves, Innermost
<1> QED
  BY <1>1, <1>2

LEMMA UsesStay ==
  ASSUME UsesHeld, UNCHANGED <<circuit, queue, ranks, map, rebalanced, usages>>,
         queue # << >> => UNCHANGED balancing
  PROVE  UsesHeld'
<1>1. Balanced' = Balanced /\ Old' = Old
  BY DEF Balanced, Old
<1>2. /\ \A x : InUse(x)' <=> InUse(x)
      /\ \A x : IsOutput(x)' <=> IsOutput(x)
      /\ \A x : Pending(x)' <=> Pending(x)
      /\ \A x : IsRebuilt(x)' <=> IsRebuilt(x)
      /\ \A l : Queued(l)' <=> Queued(l)
  BY <1>1 DEF InUse, IsOutput, Pending, IsRebuilt, Queued
<1>3. \A l : LeafBuilt(l)' <=> LeafBuilt(l)
  BY <1>2 DEF LeafBuilt
<1>4. LeavesCopied' /\ ConstRanks' /\ LastBuilt'
  BY <1>1 DEF UsesHeld, LeavesCopied, ConstRanks, LastBuilt, RebuiltAs
<1>5. UsersTold' /\ UsersReal' /\ OpsUsed'
  BY <1>1, <1>2 DEF UsesHeld, UsersTold, UsersReal, OpsUsed
<1>6. LeavesBuilt'
  BY <1>1, <1>2, <1>3, LeavesStay DEF UsesHeld, LeavesBuilt
<1> QED
  BY <1>4, <1>5, <1>6 DEF UsesHeld

LEMMA FlattenUses ==
  ASSUME RebalanceInv, UsesHeld, Flatten
  PROVE  UsesHeld'
<1> DEFINE leaves == Leaves(Innermost)
           items == [i \in DOMAIN leaves |-> [gate |-> leaves[i], rank |-> Rank(leaves[i])]]
<1>1. /\ queue = << >> /\ balancing # << >> /\ queue' = items
      /\ \A i \in DOMAIN leaves : ~ Unbalanced(leaves[i])
      /\ ranks' = Put(ranks, Innermost, SumOf(items))
      /\ UNCHANGED <<circuit, roots, balancing, map, index, rebalanced, usages, phase>>
  BY DEF Flatten, Balancing
<1>2. Innermost \in Old /\ IsOp(circuit.gates[Innermost]) /\ circuit \in Circuits
  BY <1>1, InnermostIs DEF RebalanceInv, StackHeld
<1>3. /\ leaves \in Seq(Old) /\ Len(leaves) > 1 /\ Len(leaves) \in Nat
      /\ DOMAIN leaves = 1 .. Len(leaves) /\ \A i \in DOMAIN leaves : leaves[i] \in Old
  BY <1>2, LeavesAre, LenProperties, ElementOfSeq
<1>4. queue' \in Seq(Item)
  BY FlattenKeeps DEF RebalanceInv, QueueHeld, Item
<1>5. Len(queue') = Len(leaves) /\ DOMAIN queue' = DOMAIN leaves
  <2>1. DOMAIN queue' = 1 .. Len(queue') /\ Len(queue') \in Nat
    BY <1>4, LenProperties
  <2>2. DOMAIN queue' = DOMAIN leaves
    BY <1>1
  <2> DEFINE m == Len(leaves)
             n == Len(queue')
  <2>3. m \in Nat /\ n \in Nat /\ 1 .. m = 1 .. n
    BY <1>3, <2>1, <2>2
  <2> HIDE DEF m, n
  <2>4. m = n
    BY <2>3
  <2> QED
    BY <2>2, <2>4 DEF m, n
<1>6. PICK i \in DOMAIN leaves : ~ IsConst(circuit.gates[leaves[i]])
  BY <1>2, SomeLeafNotConst
<1> HIDE DEF leaves
<1>7. ASSUME NEW k \in DOMAIN leaves, ~ IsConst(circuit.gates[leaves[k]])
      PROVE  Rank(leaves[k]) > 0
  <2>1. circuit.gates[leaves[k]] \in Node
    <3>1. leaves[k] \in Old
      BY <1>3
    <3>2. \A g \in Old : circuit.gates[g] \in Node
      BY <1>2, GivenCircuit
    <3> QED
      BY <3>1, <3>2
  <2>2. CASE IsInput(circuit.gates[leaves[k]])
    <3>1. Rank(leaves[k]) = 1
      BY <2>1, <2>2, NodeKinds DEF Rank
    <3> QED
      BY <3>1
  <2>3. CASE IsOp(circuit.gates[leaves[k]])
    <3>1. leaves[k] \in DOMAIN ranks
      BY <1>1, <2>3 DEF Unbalanced
    <3> QED
      BY <2>1, <2>3, <3>1, NodeKinds DEF Rank, UsesHeld, ConstRanks
  <2> QED
    BY <1>7, <2>1, <2>2, <2>3, NodeKinds
<1>8. \A k \in DOMAIN leaves : queue'[k].gate = leaves[k] /\ queue'[k].rank = Rank(leaves[k])
  BY <1>1
<1>9. SumOf(items) > 0
  <2>1. items[i].rank > 0
    BY <1>1, <1>6, <1>7, <1>8
  <2>2. items \in Seq(Item) /\ i \in DOMAIN items /\ Len(items) > 0
    BY <1>1, <1>3, <1>4, <1>5, <1>6
  <2>3. items[i].rank \in Nat
    BY <2>2, LenProperties, ElementOfSeq DEF Item
  <2> HIDE DEF items
  <2>4. SumOf(items) \in Nat /\ items[i].rank <= SumOf(items)
    BY <2>2, SumAtLeast, SumTyped
  <2> QED
    BY <2>1, <2>3, <2>4
<1> HIDE DEF items
<1>10. Old' = Old /\ Balanced' = Balanced
  BY <1>1 DEF Old, Balanced
<1>11. ConstRanks'
  <2>1. \A r \in DOMAIN ranks' : ranks'[r] > 0
    BY <1>1, <1>9 DEF Put, UsesHeld, ConstRanks
  <2>2. \A k \in DOMAIN queue' : queue'[k].gate \in Old /\
          (queue'[k].rank = 0 => IsConst(circuit.gates[queue'[k].gate]))
    <3> SUFFICES ASSUME NEW k \in DOMAIN queue'
                 PROVE  /\ queue'[k].gate \in Old
                        /\ queue'[k].rank = 0 => IsConst(circuit.gates[queue'[k].gate])
      OBVIOUS
    <3>1. ~ IsConst(circuit.gates[leaves[k]]) => Rank(leaves[k]) > 0
      BY <1>5, <1>7
    <3>2. 0 > 0 <=> FALSE
      OBVIOUS
    <3> QED
      BY <1>3, <1>5, <1>8, <3>1, <3>2
  <2> QED
    BY <1>1, <1>10, <2>1, <2>2 DEF ConstRanks
<1>12. LeavesBuilt'
  <2>1. \A l : LeafBuilt(l)' <=> LeafBuilt(l)
    BY <1>1 DEF LeafBuilt, InUse
  <2>2. Leaves(Innermost)' = leaves /\ \A r : Leaves(r)' = Leaves(r)
    BY <1>1, LeavesStay DEF leaves
  <2>3. \A l \in Range(leaves) : Queued(l)'
    BY <1>5, <1>8 DEF Range, Queued
  <2> QED
    BY <1>10, <2>1, <2>2, <2>3 DEF UsesHeld, LeavesBuilt
<1>13. OpsUsed'
  <2>1. \A x : ~ Pending(x)
    BY <1>1 DEF Pending
  <2>2. \A x : InUse(x)' <=> InUse(x)
    BY <1>1 DEF InUse
  <2>3. \A x : IsRebuilt(x)' <=> IsRebuilt(x)
    BY <1>1, <1>10 DEF IsRebuilt
  <2> QED
    BY <1>1, <2>1, <2>2, <2>3 DEF UsesHeld, OpsUsed
<1>14. LastBuilt'
  BY <1>3, <1>5 DEF LastBuilt
<1>15. LeavesCopied' /\ UsersTold' /\ UsersReal'
  BY <1>1, <1>10 DEF UsesHeld, LeavesCopied, UsersTold, UsersReal, IsOutput
<1> QED
  BY <1>11, <1>12, <1>13, <1>14, <1>15 DEF UsesHeld

LEMMA FinishRootUses ==
  ASSUME RebalanceInv, UsesHeld, FinishRoot
  PROVE  UsesHeld'
<1>1. /\ balancing # << >> /\ Len(queue) = 1
      /\ map' = Put(map, Innermost, RebuiltAs) /\ queue' = << >>
      /\ usages' = [g \in DOMAIN usages |->
                      IF Innermost \in Range(circuit.outputs) /\ g = RebuiltAs
                      THEN usages[g] \cup {g} ELSE usages[g]]
      /\ UNCHANGED <<circuit, roots, ranks, index, rebalanced, phase>>
  BY DEF FinishRoot, Built, Balancing
<1>2. Innermost \in Old /\ Innermost \notin DOMAIN map /\ IsOp(circuit.gates[Innermost])
  BY <1>1, InnermostIs
<1>3. queue # << >> /\ DOMAIN queue = {1} /\ queue[1].gate \notin Old
  <2>1. queue \in Seq(Item)
    BY DEF RebalanceInv, QueueHeld, Item
  <2>2. DOMAIN queue = 1 .. 1
    BY <1>1, <2>1, LenProperties
  <2>3. queue[1].gate \notin Old
    BY <1>1 DEF RebalanceInv, QueueHeld
  <2> QED
    BY <2>2, <2>3
<1>4. /\ Old' = Old /\ Balanced' = Balanced \cup {Innermost}
      /\ map'[Innermost] = RebuiltAs
      /\ \A g \in DOMAIN map : g \in DOMAIN map' /\ map'[g] = map[g] /\ g # Innermost
      /\ DOMAIN map' = DOMAIN map \cup {Innermost}
  BY <1>1, <1>2 DEF Put, Old, Balanced
<1>5. \A x : InUse(x) => InUse(x)'
  BY <1>1 DEF InUse
<1>6. \A l : LeafBuilt(l) => LeafBuilt(l)'
  BY <1>1, <1>4, <1>5 DEF LeafBuilt
<1>7. \A x : IsOutput(x) => IsOutput(x)'
  BY <1>1, <1>4 DEF IsOutput, Balanced
<1>8. LeavesCopied'
  BY <1>1, <1>2, <1>4 DEF UsesHeld, LeavesCopied
<1>9. ConstRanks' /\ LastBuilt'
  BY <1>1 DEF UsesHeld, ConstRanks, LastBuilt
<1>10. LeavesBuilt'
  <2>1. \A l \in Range(Leaves(Innermost)) : LeafBuilt(l)
    <3>1. Leaves(Innermost) \in Seq(Old)
      BY <1>2, LeavesAre DEF RebalanceInv, StackHeld
    <3>2. Range(Leaves(Innermost)) \subseteq Old
      BY <3>1, RangeInSet
    <3>3. \A l \in Old : ~ Queued(l)
      BY <1>3 DEF Queued
    <3> QED
      BY <1>3, <3>2, <3>3 DEF UsesHeld, LeavesBuilt
  <2>2. \A r : Leaves(r)' = Leaves(r)
    BY <1>1, LeavesStay
  <2> QED
    BY <1>1, <1>4, <1>6, <2>1, <2>2 DEF UsesHeld, LeavesBuilt
<1>11. UsersTold'
  BY <1>1 DEF UsesHeld, UsersTold
<1>12. UsersReal'
  <2> SUFFICES ASSUME NEW g \in DOMAIN usages', NEW u \in usages'[g]
               PROVE  g \in Operands(rebalanced'[u]) \/ (u = g /\ IsOutput(g)')
    BY DEF UsersReal
  <2>1. CASE u \in usages[g]
    BY <1>1, <1>7, <2>1 DEF UsesHeld, UsersReal
  <2>2. CASE u \notin usages[g]
    <3>1. Innermost \in Range(circuit.outputs) /\ g = RebuiltAs /\ u = g
      BY <1>1, <2>2
    <3> QED
      BY <1>1, <1>4, <3>1 DEF IsOutput
  <2> QED
    BY <2>1, <2>2
<1>13. OpsUsed'
  <2> SUFFICES ASSUME NEW x \in DOMAIN rebalanced', IsOp(rebalanced'[x])
               PROVE  InUse(x)' \/ IsRebuilt(x)'
    BY DEF OpsUsed
  <2>1. InUse(x) \/ Pending(x) \/ IsRebuilt(x)
    BY <1>1 DEF UsesHeld, OpsUsed
  <2>2. CASE Pending(x)
    <3>1. x = RebuiltAs
      BY <1>3, <2>2 DEF Pending, RebuiltAs
    <3> QED
      BY <1>4, <3>1 DEF IsRebuilt
  <2>3. CASE IsRebuilt(x)
    BY <1>4, <2>3 DEF IsRebuilt, Balanced
  <2> QED
    BY <1>5, <2>1, <2>2, <2>3
<1> QED
  BY <1>8, <1>9, <1>10, <1>11, <1>12, <1>13 DEF UsesHeld

\* Only leaves are added before the gate that a turn of rebuild makes, its operands.
LEMMA PlacedAdds ==
  ASSUME NEW to, to.arena \in Seq(Node), NEW g, Placeable(to, g)
  PROVE  \A x \in DOMAIN Placed(to, g).arena :
           \/ x \in DOMAIN to.arena
           \/ ~ IsOp(Placed(to, g).arena[x]) /\ x = Placed(to, g).map[g]
<1>1. CASE g \in DOMAIN to.map
  BY <1>1 DEF Placed
<1>2. CASE g \notin DOMAIN to.map
  <2> DEFINE b == Append(to.arena, circuit.gates[g])
  <2>1. Placed(to, g).arena = b /\ ~ IsOp(circuit.gates[g])
        /\ Placed(to, g).map[g] = Len(to.arena) + 1
    BY <1>2 DEF Placed, Placeable, Put
  <2>2. /\ DOMAIN to.arena = 1 .. Len(to.arena) /\ Len(to.arena) \in Nat
        /\ DOMAIN b = 1 .. Len(to.arena) + 1 /\ b[Len(to.arena) + 1] = circuit.gates[g]
    OBVIOUS
  <2> HIDE DEF b
  <2>3. \A x \in DOMAIN b : x \in DOMAIN to.arena \/ x = Len(to.arena) + 1
    BY <2>2
  <2> QED
    BY <2>1, <2>2, <2>3
<1> QED
  BY <1>1, <1>2

LEMMA CombinationAdds ==
  ASSUME RebalanceInv, NEW i \in DOMAIN queue, NEW j \in DOMAIN queue
  PROVE  LET to == Combination(i, j).to
         IN  \A x \in DOMAIN to.arena :
               \/ x \in DOMAIN rebalanced
               \/ ~ IsOp(to.arena[x]) /\ \E k \in {i, j} : x = to.map[queue[k].gate]
<1> DEFINE x == queue[i].gate
           y == queue[j].gate
           one == Placed(Here, x)
           to == Placed(one, y)
<1>1. Combination(i, j).to = to
  BY DEF Combination, Here
<1>2. Sound(Here) /\ Placeable(Here, x) /\ Placeable(Here, y)
  BY HereSound, QueuePlaceable
<1>3. /\ Sound(one) /\ Grown(one, Here) /\ x \in DOMAIN one.map
      /\ \A e \in DOMAIN one.arena :
           e \in DOMAIN Here.arena \/ (~ IsOp(one.arena[e]) /\ e = one.map[x])
  <2> HIDE DEF x
  <2> QED
    BY <1>2, PlacedHolds, PlacedAdds DEF Sound
<1> HIDE DEF one, y
<1>4. Placeable(one, y)
  BY <1>2, <1>3 DEF Placeable, Grown
<1>5. /\ Grown(to, one)
      /\ \A e \in DOMAIN to.arena :
           e \in DOMAIN one.arena \/ (~ IsOp(to.arena[e]) /\ e = to.map[y])
  BY <1>3, <1>4, PlacedHolds, PlacedAdds DEF Sound
<1>6. Here.arena = rebalanced
  BY DEF Here
<1> HIDE DEF to
<1>7. \A e \in DOMAIN to.arena :
        e \in DOMAIN rebalanced \/ (~ IsOp(to.arena[e]) /\ (e = to.map[x] \/ e = to.map[y]))
  BY <1>3, <1>5, <1>6 DEF Grown, Continues
<1> QED
  BY <1>1, <1>7 DEF y

\* The elements that are not taken are still there.
LEMMA WithoutKeeps ==
  ASSUME queue \in Seq(Item), NEW i \in DOMAIN queue, NEW j \in DOMAIN queue, i # j,
         NEW k \in DOMAIN queue, k # i, k # j
  PROVE  \E l \in 1 .. Len(queue) - 2 : Without(i, j)[l] = queue[k]
<1> DEFINE n == Len(queue)
           a == First(i, j)
           b == Second(i, j)
           l == IF k < a THEN k ELSE IF k < b THEN k - 1 ELSE k - 2
<1>1. /\ n \in Nat /\ n > 1 /\ DOMAIN queue = 1 .. n /\ a \in 1 .. n /\ b \in 1 .. n /\ a < b
      /\ {a, b} = {i, j}
      /\ \A m \in 1 .. n - 2 :
           Without(i, j)[m] = queue[IF m < a THEN m ELSE IF m + 1 < b THEN m + 1 ELSE m + 2]
  <2>1. n > 1 /\ n \in Nat /\ a < b /\ a \in DOMAIN queue /\ b \in DOMAIN queue /\ {a, b} = {i, j}
    BY WithoutIs
  <2>2. \A m \in 1 .. n - 2 :
           Without(i, j)[m] = queue[IF m < a THEN m ELSE IF m + 1 < b THEN m + 1 ELSE m + 2]
    BY WithoutIs
  <2>3. DOMAIN queue = 1 .. n
    BY LenProperties
  <2> HIDE DEF n, a, b
  <2> QED
    BY <2>1, <2>2, <2>3
<1>2. k \in 1 .. n /\ k # a /\ k # b
  BY <1>1
<1> HIDE DEF n, a, b
<1>3. l \in 1 .. n - 2
  BY <1>1, <1>2
<1>4. (IF l < a THEN l ELSE IF l + 1 < b THEN l + 1 ELSE l + 2) = k
  <2>1. CASE k < a
    BY <1>1, <1>2, <2>1
  <2>2. CASE ~ (k < a) /\ k < b
    BY <1>1, <1>2, <2>2
  <2>3. CASE ~ (k < a) /\ ~ (k < b)
    BY <1>1, <1>2, <2>3
  <2> QED
    BY <2>1, <2>2, <2>3
<1> HIDE DEF l
<1> QED
  BY <1>1, <1>3, <1>4 DEF n

\* The gate that a turn of rebuild makes is a constant, of two constants, or its operands
\* are told; no other gate is.
LEMMA GateTold ==
  ASSUME RebalanceInv, LeavesCopied, ConstRanks, balancing # << >>,
         NEW i \in DOMAIN queue, NEW j \in DOMAIN queue, CombineOf(i, j)
  PROVE  LET c == Combination(i, j)
             to == c.to
             made == GateMade(i, j)
             at == Len(to.arena) + 1
         IN  /\ \A g \in Old \cap DOMAIN to.map :
                  ~ IsOp(circuit.gates[g]) => to.arena[to.map[g]] = circuit.gates[g]
             /\ c.rank = 0 => /\ IsConst(made)
                              /\ \A k \in {i, j} : IsConst(to.arena[to.map[queue[k].gate]])
             /\ \/ Operands(made) = {} /\ c.rank = 0
                \/ /\ Operands(made) = {to.map[queue[i].gate], to.map[queue[j].gate]}
                   /\ Operands(made) \subseteq DOMAIN usages
             /\ usages' = [g \in DOMAIN usages |->
                             IF g \in Operands(made) THEN usages[g] \cup {at} ELSE usages[g]]
<1> DEFINE c == Combination(i, j)
           to == c.to
           made == GateMade(i, j)
           at == Len(to.arena) + 1
           l == to.map[queue[i].gate]
           r == to.map[queue[j].gate]
<1>1. /\ Sound(to) /\ Grown(to, Here)
      /\ queue[i].gate \in DOMAIN to.map /\ queue[j].gate \in DOMAIN to.map
      /\ c.gate = OpNode(circuit.gates[Innermost].op, l, r)
      /\ c.rank = queue[i].rank + queue[j].rank
  BY CombinationHolds
<1>2. /\ ~ NoUsagesFor(c)
      /\ usages' = [g \in DOMAIN usages |->
                      IF g \in UsedBy(c) THEN usages[g] \cup {at} ELSE usages[g]]
  BY DEF CombineOf
<1>3. made = IF c.rank = 0 THEN Folded(to.arena, c.gate) ELSE c.gate
  BY DEF GateMade
<1>4. UsedBy(c) = IF c.rank = 0 THEN {} ELSE Operands(c.gate)
  BY DEF UsedBy
<1> HIDE DEF c, to, made, at
<1>5. IsOp(c.gate) /\ c.gate.lhs = l /\ c.gate.rhs = r /\ Operands(c.gate) = {l, r}
  BY <1>1 DEF OpNode, IsOp, Operands
<1>6. ASSUME NEW g \in Old \cap DOMAIN to.map, ~ IsOp(circuit.gates[g])
      PROVE  to.arena[to.map[g]] = circuit.gates[g]
  <2>1. CASE g \in DOMAIN map
    <3>1. to.map[g] = map[g] /\ map[g] \in DOMAIN rebalanced
      BY <1>1, <2>1 DEF Grown, Here, RebalanceInv, RebalanceTypeOK
    <3>2. to.arena[map[g]] = rebalanced[map[g]]
      BY <1>1, <3>1 DEF Grown, Here, Continues
    <3> QED
      BY <1>6, <2>1, <3>1, <3>2 DEF LeavesCopied
  <2>2. CASE g \notin DOMAIN map
    BY <1>1, <1>6, <2>2 DEF Grown, Here
  <2> QED
    BY <2>1, <2>2
<1>7. ASSUME NEW k \in {i, j}, queue[k].rank = 0
      PROVE  IsConst(to.arena[to.map[queue[k].gate]])
  <2>1. k \in DOMAIN queue /\ queue[k].gate \in DOMAIN to.map
    BY <1>1
  <2>2. CASE queue[k].gate \in Old
    <3>1. IsConst(circuit.gates[queue[k].gate])
      BY <1>7, <2>1, <2>2 DEF ConstRanks
    <3>2. ~ IsOp(circuit.gates[queue[k].gate])
      BY <3>1 DEF IsConst, IsOp
    <3> QED
      BY <1>6, <2>1, <2>2, <3>1, <3>2
  <2>3. CASE queue[k].gate \notin Old
    <3>1. queue[k].gate \in DOMAIN map /\ IsConst(rebalanced[map[queue[k].gate]])
      BY <1>7, <2>1, <2>3 DEF ConstRanks, RebalanceInv, QueueHeld
    <3>2. map[queue[k].gate] \in DOMAIN rebalanced
      BY <3>1 DEF RebalanceInv, RebalanceTypeOK
    <3> QED
      BY <1>1, <3>1, <3>2 DEF Grown, Here, Continues
  <2> QED
    BY <2>2, <2>3
<1>8. queue[i].rank \in Nat /\ queue[j].rank \in Nat
  BY DEF RebalanceInv, RebalanceTypeOK
<1>9. ASSUME c.rank = 0
      PROVE  /\ IsConst(made) /\ \A k \in {i, j} : IsConst(to.arena[to.map[queue[k].gate]])
             /\ Operands(made) = {}
  <2>1. queue[i].rank = 0 /\ queue[j].rank = 0
    BY <1>1, <1>8, <1>9
  <2>2. \A k \in {i, j} : IsConst(to.arena[to.map[queue[k].gate]])
    BY <1>7, <2>1
  <2>3. BothConst(to.arena, c.gate)
    BY <1>5, <2>2 DEF BothConst
  <2>4. IsConst(made) /\ Operands(made) = {}
    BY <1>3, <1>9, <2>3 DEF Folded, ConstNode, IsConst, Operands, IsOp
  <2> QED
    BY <2>2, <2>4
<1>10. Operands(made) = UsedBy(c)
  BY <1>3, <1>4, <1>9
<1>11. \/ Operands(made) = {} /\ c.rank = 0
       \/ Operands(made) = {l, r} /\ Operands(made) \subseteq DOMAIN usages
  BY <1>2, <1>3, <1>5, <1>9, <1>10 DEF NoUsagesFor
<1> QED
  BY <1>2, <1>6, <1>9, <1>10, <1>11 DEF c, to, made, at

LEMMA CombineUses ==
  ASSUME RebalanceInv, UsesHeld, Combine
  PROVE  UsesHeld'
<1>1. /\ balancing # << >> /\ index' = index + 1
      /\ UNCHANGED <<circuit, roots, balancing, ranks, phase>>
  BY CombineIs
<1>2. PICK i \in DOMAIN queue, j \in DOMAIN queue : i # j /\ CombineOf(i, j)
  BY CombineIs
<1> DEFINE c == Combination(i, j)
           to == c.to
           made == GateMade(i, j)
           at == Len(to.arena) + 1
           l == to.map[queue[i].gate]
           r == to.map[queue[j].gate]
           n == Len(queue)
<1>3. LeavesCopied /\ ConstRanks /\ LeavesBuilt /\ UsersTold /\ UsersReal /\ OpsUsed /\ LastBuilt
  BY DEF UsesHeld
<1>4. /\ \A g \in Old \cap DOMAIN to.map :
           ~ IsOp(circuit.gates[g]) => to.arena[to.map[g]] = circuit.gates[g]
      /\ c.rank = 0 => /\ IsConst(made)
                       /\ \A k \in {i, j} : IsConst(to.arena[to.map[queue[k].gate]])
      /\ \/ Operands(made) = {} /\ c.rank = 0
         \/ Operands(made) = {l, r} /\ Operands(made) \subseteq DOMAIN usages
      /\ usages' = [g \in DOMAIN usages |->
                      IF g \in Operands(made) THEN usages[g] \cup {at} ELSE usages[g]]
  BY <1>1, <1>2, <1>3, GateTold
<1>5. /\ Continues(rebalanced', to.arena) /\ Continues(rebalanced', rebalanced)
      /\ DOMAIN rebalanced' = DOMAIN to.arena \cup {at} /\ rebalanced' \in Seq(Node)
      /\ rebalanced'[at] = made
      /\ DOMAIN map' = DOMAIN to.map \cup {index} /\ index \notin DOMAIN to.map /\ index \notin Old
      /\ map'[index] = at /\ \A g \in DOMAIN to.map : map'[g] = to.map[g]
  BY <1>1, <1>2, CombineGrows
<1>6. /\ Sound(to) /\ Grown(to, Here)
      /\ queue[i].gate \in DOMAIN to.map /\ queue[j].gate \in DOMAIN to.map
  BY <1>1, CombinationHolds
<1>7. \A x \in DOMAIN to.arena : x \in DOMAIN rebalanced \/ ~ IsOp(to.arena[x])
  BY CombinationAdds
<1>8. queue \in Seq(Item)
  BY DEF RebalanceInv, QueueHeld, Item
<1>9. /\ n \in Nat /\ n > 1 /\ DOMAIN queue' = 1 .. n - 1 /\ Len(queue') = n - 1
      /\ queue'[n - 1] = [gate |-> index, rank |-> c.rank]
      /\ \A k \in 1 .. n - 2 : queue'[k] = Without(i, j)[k] /\ k \in DOMAIN queue'
      /\ n - 1 \in DOMAIN queue'
  <2>1. n \in Nat /\ n > 1
    BY <1>2, <1>8, WithoutIs
  <2>2. /\ DOMAIN queue' = 1 .. n - 1 /\ Len(queue') = n - 1
        /\ queue'[n - 1] = [gate |-> index, rank |-> c.rank]
        /\ \A k \in 1 .. n - 2 : queue'[k] = Without(i, j)[k]
    BY <1>1, <1>2, QueueCombined
  <2> HIDE DEF n, c
  <2> QED
    BY <2>1, <2>2
<1>10. ASSUME NEW k \in 1 .. n - 2
       PROVE  \E m \in DOMAIN queue : queue'[k] = queue[m]
  <2> DEFINE m == IF k < First(i, j) THEN k ELSE IF k + 1 < Second(i, j) THEN k + 1 ELSE k + 2
  <2>1. m \in DOMAIN queue /\ Without(i, j)[k] = queue[m]
    BY <1>2, <1>8, WithoutIs
  <2>2. queue'[k] = Without(i, j)[k]
    BY <1>9
  <2> HIDE DEF m
  <2> QED
    BY <2>1, <2>2
<1>11. \A k \in DOMAIN queue \ {i, j} : \E m \in DOMAIN queue' : queue'[m] = queue[k]
  <2> SUFFICES ASSUME NEW k \in DOMAIN queue \ {i, j}
               PROVE  \E m \in DOMAIN queue' : queue'[m] = queue[k]
    OBVIOUS
  <2>1. PICK m \in 1 .. n - 2 : Without(i, j)[m] = queue[k]
    BY <1>2, <1>8, WithoutKeeps
  <2> QED
    BY <1>9, <2>1
<1> HIDE DEF c, to, made, at, l, r, n
<1>12. \A g \in DOMAIN map : g \in DOMAIN to.map /\ g \in DOMAIN map' /\ map'[g] = map[g]
                             /\ map[g] \in DOMAIN rebalanced
                             /\ rebalanced'[map[g]] = rebalanced[map[g]]
  BY <1>5, <1>6 DEF Grown, Here, Continues, RebalanceInv, RebalanceTypeOK
<1>13. Old' = Old /\ Balanced' = Balanced
  BY <1>1, <1>5, <1>6 DEF Old, Balanced, Grown, Here
<1>14. /\ DOMAIN usages' = DOMAIN usages
       /\ \A g \in DOMAIN usages : usages[g] \subseteq usages'[g]
       /\ \A g \in DOMAIN usages : \A u \in usages'[g] :
            u \in usages[g] \/ (u = at /\ g \in Operands(made))
       /\ \A o \in Operands(made) : o \in DOMAIN usages /\ at \in usages'[o]
  BY <1>4
<1>15. \A x : InUse(x) => InUse(x)'
  BY <1>14 DEF InUse
<1>16. \A x \in Operands(made) : InUse(x)'
  BY <1>14 DEF InUse
<1>17. LeavesCopied'
  BY <1>1, <1>4, <1>5, <1>6, <1>13 DEF LeavesCopied, Sound, Continues
<1>18. ConstRanks'
  <2> SUFFICES ASSUME NEW k \in DOMAIN queue', queue'[k].rank = 0
               PROVE  LET g == queue'[k].gate IN
                      IF g \in Old THEN IsConst(circuit.gates[g]) ELSE IsConst(rebalanced'[map'[g]])
    BY <1>1, <1>3, <1>13 DEF ConstRanks
  <2>1. CASE k = n - 1
    BY <1>4, <1>5, <1>9, <2>1
  <2>2. CASE k # n - 1
    <3>1. k \in 1 .. n - 2
      BY <1>9, <2>2
    <3>2. PICK m \in DOMAIN queue : queue'[k] = queue[m]
      BY <1>10, <3>1
    <3>3. queue[m].gate \notin Old => queue[m].gate \in DOMAIN map
      BY DEF RebalanceInv, QueueHeld
    <3> QED
      BY <1>3, <1>12, <3>2, <3>3 DEF ConstRanks
  <2> QED
    BY <2>1, <2>2
<1>19. LeavesBuilt'
  <2>1. ASSUME NEW e, LeafBuilt(e)
        PROVE  LeafBuilt(e)'
    BY <1>1, <1>12, <1>15, <2>1 DEF LeafBuilt
  <2>2. ASSUME NEW e \in Old, Queued(e)
        PROVE  LeafBuilt(e)' \/ Queued(e)'
    <3>1. PICK k \in DOMAIN queue : queue[k].gate = e
      BY <2>2 DEF Queued
    <3>2. CASE k \notin {i, j}
      <4>1. PICK m \in DOMAIN queue' : queue'[m] = queue[k]
        BY <1>11, <3>2
      <4> QED
        BY <3>1, <4>1 DEF Queued
    <3>3. CASE k \in {i, j}
      <4>1. e \in DOMAIN to.map /\ e \in DOMAIN map' /\ map'[e] = to.map[e]
        BY <1>5, <1>6, <3>1, <3>3
      <4>2. ASSUME IsOp(circuit.gates[e])
            PROVE  InUse(map[e])'
        <5>1. queue[k].gate \in DOMAIN map
          BY <2>2, <3>1, <4>2, QueuePlaceable
        <5>2. c.rank # 0
          <6>1. e \in Balanced
            BY <3>1, <4>2 DEF RebalanceInv, QueueHeld
          <6>2. ~ IsConst(circuit.gates[e])
            BY <4>2 DEF IsOp, IsConst
          <6>3. queue[k].rank # 0
            BY <1>3, <2>2, <3>1, <6>2 DEF ConstRanks
          <6>4. c.rank = queue[i].rank + queue[j].rank
            BY <1>1, CombinationHolds DEF c
          <6>5. queue[i].rank \in Nat /\ queue[j].rank \in Nat
            BY DEF RebalanceInv, RebalanceTypeOK
          <6> QED
            BY <3>3, <6>3, <6>4, <6>5
        <5>3. to.map[e] \in Operands(made)
          BY <1>4, <3>1, <3>3, <5>2 DEF l, r
        <5> QED
          BY <1>16, <4>1, <5>3
      <4> QED
        BY <1>1, <4>1, <4>2 DEF LeafBuilt
    <3> QED
      BY <3>2, <3>3
  <2>3. Leaves(Innermost)' = Leaves(Innermost) /\ \A s : Leaves(s)' = Leaves(s)
    BY <1>1, LeavesStay
  <2>4. Range(Leaves(Innermost)) \subseteq Old
    <3>1. Leaves(Innermost) \in Seq(Old)
      BY <1>1, InnermostIs, LeavesAre DEF RebalanceInv, StackHeld
    <3> QED
      BY <3>1, RangeInSet
  <2>5. queue # << >>
    BY <1>9 DEF n
  <2>6. \A e \in Range(Leaves(Innermost)) : LeafBuilt(e)' \/ Queued(e)'
    BY <1>3, <2>1, <2>2, <2>4, <2>5 DEF LeavesBuilt
  <2> QED
    BY <1>3, <1>13, <2>1, <2>3, <2>6 DEF LeavesBuilt
<1>20. UsersTold'
  <2> SUFFICES ASSUME NEW x \in DOMAIN rebalanced', NEW o \in Operands(rebalanced'[x])
               PROVE  o \in DOMAIN usages' /\ x \in usages'[o]
    BY DEF UsersTold
  <2>1. CASE x = at
    BY <1>5, <1>14, <2>1
  <2>2. CASE x # at
    <3>1. x \in DOMAIN to.arena /\ rebalanced'[x] = to.arena[x]
      BY <1>5, <2>2 DEF Continues
    <3>2. x \in DOMAIN rebalanced
      BY <1>7, <3>1 DEF Operands
    <3>3. rebalanced'[x] = rebalanced[x]
      BY <1>5, <3>2 DEF Continues
    <3> QED
      BY <1>3, <1>14, <3>2, <3>3 DEF UsersTold
  <2> QED
    BY <2>1, <2>2
<1>21. UsersReal'
  <2> SUFFICES ASSUME NEW g \in DOMAIN usages', NEW u \in usages'[g]
               PROVE  g \in Operands(rebalanced'[u]) \/ (u = g /\ IsOutput(g)')
    BY DEF UsersReal
  <2>1. CASE u \in usages[g]
    <3>1. g \in Operands(rebalanced[u]) \/ (u = g /\ IsOutput(g))
      BY <1>3, <1>14, <2>1 DEF UsersReal
    <3>2. u \in DOMAIN rebalanced
      BY <1>14, <2>1 DEF RebalanceInv, RebalanceTypeOK
    <3>3. rebalanced'[u] = rebalanced[u]
      BY <1>5, <3>2 DEF Continues
    <3>4. IsOutput(g) => IsOutput(g)'
      BY <1>1, <1>12, <1>13 DEF IsOutput, Balanced
    <3> QED
      BY <3>1, <3>3, <3>4
  <2>2. CASE u \notin usages[g]
    BY <1>5, <1>14, <2>2
  <2> QED
    BY <2>1, <2>2
<1>22. OpsUsed'
  <2> SUFFICES ASSUME NEW x \in DOMAIN rebalanced', IsOp(rebalanced'[x])
               PROVE  InUse(x)' \/ Pending(x)' \/ IsRebuilt(x)'
    BY DEF OpsUsed
  <2>1. CASE x = at
    BY <1>5, <1>9, <1>13, <2>1 DEF Pending
  <2>2. CASE x # at
    <3>1. x \in DOMAIN to.arena /\ rebalanced'[x] = to.arena[x]
      BY <1>5, <2>2 DEF Continues
    <3>2. x \in DOMAIN rebalanced
      BY <1>7, <3>1
    <3>3. IsOp(rebalanced[x])
      BY <1>5, <3>2 DEF Continues
    <3>4. InUse(x) \/ Pending(x) \/ IsRebuilt(x)
      BY <1>3, <3>2, <3>3 DEF OpsUsed
    <3>5. CASE IsRebuilt(x)
      BY <1>12, <1>13, <3>5 DEF IsRebuilt, Balanced
    <3>6. CASE Pending(x)
      <4>1. PICK k \in DOMAIN queue : queue[k].gate \notin Old /\ map[queue[k].gate] = x
        BY <3>6 DEF Pending
      <4>2. queue[k].gate \in DOMAIN map
        BY <4>1 DEF RebalanceInv, QueueHeld
      <4>3. CASE k \notin {i, j}
        <5>1. PICK m \in DOMAIN queue' : queue'[m] = queue[k]
          BY <1>11, <4>3
        <5> QED
          BY <1>12, <1>13, <4>1, <4>2, <5>1 DEF Pending
      <4>4. CASE k \in {i, j}
        <5>1. to.map[queue[k].gate] = x
          BY <1>6, <4>1, <4>2 DEF Grown, Here
        <5>2. c.rank # 0
          BY <1>4, <3>1, <4>4, <5>1 DEF IsConst, IsOp
        <5>3. x \in Operands(made)
          BY <1>4, <4>4, <5>1, <5>2 DEF l, r
        <5> QED
          BY <1>16, <5>3
      <4> QED
        BY <4>3, <4>4
    <3> QED
      BY <1>15, <3>4, <3>5, <3>6
  <2> QED
    BY <2>1, <2>2
<1>23. LastBuilt'
  <2> SUFFICES ASSUME Len(queue') = 1
               PROVE  RebuiltAs' = Len(rebalanced')
    BY DEF LastBuilt
  <2>1. n - 1 = 1 /\ queue'[1] = [gate |-> index, rank |-> c.rank]
    BY <1>9
  <2>2. Len(rebalanced') = at
    <3>1. Len(to.arena) \in Nat /\ DOMAIN to.arena = 1 .. Len(to.arena)
      BY <1>6, LenProperties DEF Sound
    <3>2. Len(rebalanced') \in Nat /\ DOMAIN rebalanced' = 1 .. Len(rebalanced')
      BY <1>5, LenProperties
    <3> DEFINE p == Len(to.arena)
               q == Len(rebalanced')
    <3>3. p \in Nat /\ q \in Nat /\ 1 .. q = (1 .. p) \cup {p + 1}
      BY <1>5, <3>1, <3>2 DEF at
    <3> HIDE DEF p, q
    <3>4. q = p + 1
      <4>1. q \in 1 .. q \/ q = 0
        BY <3>3
      <4>2. p + 1 \in 1 .. q
        BY <3>3
      <4> QED
        BY <3>3, <4>1, <4>2
    <3> QED
      BY <3>4 DEF p, q, at
  <2> QED
    BY <1>5, <2>1, <2>2 DEF RebuiltAs
<1> QED
  BY <1>17, <1>18, <1>19, <1>20, <1>21, <1>22, <1>23 DEF UsesHeld

LEMMA UsesStep ==
  ASSUME RebalanceInv, UsesHeld, [BalanceStep]_rebalanceVars
  PROVE  UsesHeld'
<1>1. CASE Untouched
  BY <1>1, UsesStay DEF Untouched
<1>2. CASE (\E r \in roots : NextRoot(r)) \/ BalanceLeaf
  <2>1. queue = << >> /\ UNCHANGED <<circuit, queue, ranks, map, rebalanced, usages>>
    BY <1>2 DEF NextRoot, BalanceLeaf, RebalanceInv, StackHeld
  <2> QED
    BY <2>1, UsesStay
<1> QED
  BY <1>1, <1>2, FlattenUses, CombineUses, FinishRootUses, StepCases

LEMMA UsesInit == RebalanceInit => UsesHeld
<1> SUFFICES ASSUME RebalanceInit
             PROVE  UsesHeld
  OBVIOUS
<1>1. /\ queue = << >> /\ ranks = << >> /\ map = << >> /\ rebalanced = << >>
      /\ \A g \in DOMAIN usages : usages[g] = {}
  BY DEF RebalanceInit
<1>2. DOMAIN map = {} /\ DOMAIN ranks = {} /\ DOMAIN rebalanced = {} /\ Balanced = {} /\ DOMAIN queue = {}
  BY <1>1 DEF Balanced
<1>3. LeavesCopied /\ ConstRanks /\ UsersTold /\ UsersReal /\ OpsUsed
  BY <1>1, <1>2 DEF LeavesCopied, ConstRanks, UsersTold, UsersReal, OpsUsed
<1>4. LeavesBuilt /\ LastBuilt
  BY <1>1, <1>2 DEF LeavesBuilt, LastBuilt
<1> QED
  BY <1>3, <1>4 DEF UsesHeld

-----------------------------------------------------------------------------
\* The one output is the last gate of the circuit, and the last of the new arena.

OneOperation == Len(circuit.outputs) = 1 /\ IsOp(circuit.gates[circuit.outputs[1]])
Output == circuit.outputs[1]

LEMMA OutputIs ==
  ASSUME circuit \in Circuits, OneOperation
  PROVE  /\ Output \in Old /\ IsOp(circuit.gates[Output]) /\ Output = Len(circuit.gates)
         /\ circuit.outputs \in Seq(Old) /\ DOMAIN circuit.outputs = {1}
         /\ Range(circuit.outputs) = {Output} /\ Output \in AllRoots
         /\ \A g \in Old : g # Output => \E u \in Old : g < u /\ g \in Operands(circuit.gates[u])
<1> DEFINE N == Len(circuit.gates)
<1>1. /\ N \in Nat /\ Old = 1 .. N /\ Compiled(circuit)
      /\ \A g \in Old : Operands(circuit.gates[g]) \subseteq 1 .. g - 1
  BY GivenCircuit, CircuitAssumption DEF Topological, Old
<1>2. circuit.outputs \in Seq(Old) /\ DOMAIN circuit.outputs = {1}
  <2>1. circuit.outputs \in Seq(Old)
    BY <1>1 DEF Compiled, Old
  <2>2. DOMAIN circuit.outputs = 1 .. 1
    BY <2>1, LenProperties DEF OneOperation
  <2> QED
    BY <2>1, <2>2
<1>3. Range(circuit.outputs) = {Output}
  BY <1>2 DEF Range, Output
<1>4. Output \in Old /\ IsOp(circuit.gates[Output])
  BY <1>2, RangeInSet, <1>3 DEF OneOperation, Output
<1>5. Output \in AllRoots
  BY <1>3, <1>4 DEF AllRoots, IsRoot
<1>6. ASSUME NEW g \in Old, g # Output
      PROVE  \E u \in Old : g < u /\ g \in Operands(circuit.gates[u])
  <2>1. Users(circuit.gates, g) # {}
    BY <1>1, <1>3, <1>6 DEF Compiled, Old
  <2>2. PICK u \in Old : g \in Operands(circuit.gates[u])
    BY <2>1 DEF Users, Old
  <2>3. g \in 1 .. u - 1
    BY <1>1, <2>2
  <2> HIDE DEF N
  <2>4. g < u
    BY <1>1, <2>2, <2>3
  <2> QED
    BY <2>2, <2>4
<1> HIDE DEF N
<1>7. Output = N
  <2> SUFFICES ASSUME N # Output
               PROVE  FALSE
    OBVIOUS
  <2>1. N \in Old
    BY <1>1, <1>4
  <2>2. PICK u \in Old : N < u
    BY <1>6, <2>1
  <2> QED
    BY <1>1, <2>2
<1> QED
  BY <1>2, <1>3, <1>4, <1>5, <1>6, <1>7 DEF N

Whole == LeavesIn(Here) \cup TreesBuilt

OutputDone ==
  /\ Output \in DOMAIN usages /\ Output \in usages[Output] /\ map[Output] = Output
  /\ Old \subseteq Whole

\* It stays queued, or on the stack, until it is built; then the whole circuit is, and the
\* output is where it was.
OutputHeld ==
  OneOperation =>
    /\ Output \in roots \cup Range(balancing) \cup Balanced
    /\ Output \in Balanced => OutputDone

\* A set of gates that has the last one and, with each, its operands, is all of them.
LEMMA AllBelow ==
  ASSUME circuit \in Circuits, OneOperation, NEW S, Output \in S,
         \A x \in S \cap Old : Operands(circuit.gates[x]) \subseteq S
  PROVE  Old \subseteq S
<1> DEFINE N == Len(circuit.gates)
           C == {N - g : g \in Old \ S}
<1> SUFFICES ASSUME Old \ S # {}
             PROVE  FALSE
  OBVIOUS
<1>1. N \in Nat /\ Old = 1 .. N
  BY GivenCircuit
<1> HIDE DEF N
<1>2. C \in SUBSET Nat /\ C # {}
  <2>1. \A g \in Old : N - g \in Nat
    BY <1>1
  <2> QED
    BY <2>1
<1>3. PICK c \in C : \A d \in C : c <= d
  <2> HIDE DEF C
  <2> QED
    BY <1>2, Least
<1>4. PICK g \in Old \ S : c = N - g
  OBVIOUS
<1>5. PICK u \in Old : g < u /\ g \in Operands(circuit.gates[u])
  BY <1>4, OutputIs
<1>6. u \notin S
  BY <1>4, <1>5
<1>7. N - u \in C
  BY <1>5, <1>6
<1>8. c <= N - u
  BY <1>3, <1>7
<1> QED
  BY <1>1, <1>4, <1>5, <1>8

\* Once the output's tree is done, so is the whole circuit.
LEMMA WholeBuilt ==
  ASSUME RebalanceInv, RootsHeld, UsesHeld, OneOperation, Built, Innermost = Output
  PROVE  Old \subseteq Whole \cup TreeOps(Output)
<1> DEFINE S == Whole \cup TreeOps(Output)
<1>1. circuit \in Circuits /\ balancing # << >> /\ Len(queue) = 1
  BY DEF RebalanceInv, StackHeld, Built, Balancing
<1>2. Output \in Old /\ IsOp(circuit.gates[Output])
  BY <1>1, OutputIs
<1>3. queue # << >> /\ \A l \in Old : ~ Queued(l)
  <2>1. queue \in Seq(Item)
    BY DEF RebalanceInv, QueueHeld, Item
  <2>2. DOMAIN queue = 1 .. 1
    BY <1>1, <2>1, LenProperties
  <2>3. queue[1].gate \notin Old
    BY <1>1 DEF RebalanceInv, QueueHeld
  <2> QED
    BY <2>2, <2>3 DEF Queued
<1>4. ASSUME NEW r \in Balanced \cup {Output}
      PROVE  /\ r \in Old /\ IsOp(circuit.gates[r]) /\ TreeOps(r) \subseteq S
             /\ \A l \in Range(Leaves(r)) : l \in Old /\ LeafBuilt(l)
  <2>1. r \in Old /\ IsOp(circuit.gates[r])
    BY <1>2 DEF Balanced
  <2>2. TreeOps(r) \subseteq S
    BY DEF Whole, TreesBuilt
  <2>3. Range(Leaves(r)) \subseteq Old
    BY <1>1, <2>1, LeavesAre, RangeInSet
  <2>4. \A l \in Range(Leaves(r)) : LeafBuilt(l)
    BY <1>3, <2>3 DEF UsesHeld, LeavesBuilt
  <2> QED
    BY <2>1, <2>2, <2>3, <2>4
<1>5. ASSUME NEW l \in Old, LeafBuilt(l)
      PROVE  l \in S
  <2>1. CASE IsOp(circuit.gates[l])
    <3>1. l \in Balanced
      BY <1>5, <2>1 DEF LeafBuilt, Balanced
    <3>2. l \in TreeOps(l)
      BY <1>1, <2>1, TreeOpsAre
    <3> QED
      BY <1>4, <3>1, <3>2
  <2>2. CASE ~ IsOp(circuit.gates[l])
    BY <1>5, <2>2 DEF LeafBuilt, Whole, LeavesIn, Here
  <2> QED
    BY <2>1, <2>2
<1>6. ASSUME NEW x \in S \cap Old
      PROVE  Operands(circuit.gates[x]) \subseteq S
  <2>1. CASE x \in LeavesIn(Here)
    BY <2>1 DEF LeavesIn, Operands
  <2>2. CASE x \notin LeavesIn(Here)
    <3>1. PICK r \in Balanced \cup {Output} : x \in TreeOps(r)
      BY <2>2 DEF Whole, TreesBuilt
    <3>2. \A h \in Operands(circuit.gates[x]) : h \in TreeOps(r) \/ h \in Range(Leaves(r))
      BY <1>1, <1>4, <3>1, TreeEdges
    <3> QED
      BY <1>4, <1>5, <3>2
  <2> QED
    BY <2>1, <2>2
<1>7. Output \in S
  BY <1>1, <1>2, TreeOpsAre
<1> HIDE DEF S
<1>8. Old \subseteq S
  BY <1>1, <1>6, <1>7, AllBelow
<1> QED
  BY <1>8 DEF S

\* The new arena has room for no more, so that the output's gate is at its index.
LEMMA OutputLast ==
  ASSUME RebalanceInv, RootsHeld, UsesHeld, CountedIn(Here), OneOperation, Built,
         Innermost = Output, RebuiltAs \in DOMAIN usages
  PROVE  RebuiltAs = Output /\ Old \subseteq Whole \cup TreeOps(Output)
<1> DEFINE N == Len(circuit.gates)
           tree == TreeOps(Innermost)
<1>1. circuit \in Circuits /\ balancing # << >> /\ Len(queue) = 1 /\ queue # << >>
  BY DEF RebalanceInv, StackHeld, Built, Balancing
<1>2. Old \subseteq Whole \cup tree
  BY WholeBuilt
<1>3. N \in Nat /\ Old = 1 .. N /\ DOMAIN usages = 1 .. N /\ Output = N
  BY <1>1, GivenCircuit, OutputIs DEF RebalanceInv, RebalanceTypeOK
<1>4. RebuiltAs = Len(rebalanced) /\ Len(rebalanced) \in Nat
  BY <1>1, LenProperties DEF UsesHeld, LastBuilt, RebalanceInv, RebalanceTypeOK
<1>5. /\ Cardinality(Whole) \in Nat /\ Cardinality(tree) \in Nat
      /\ Cardinality(Whole \cup tree) = Cardinality(Whole) + Cardinality(tree)
      /\ Cardinality(Whole \cup tree) <= N
  BY <1>1, BuiltAre DEF Whole
<1>6. AtLeast(Len(rebalanced) + 1, Cardinality(Whole) + (Cardinality(tree) + 1))
  <2>1. Here.arena = rebalanced
    BY DEF Here
  <2> QED
    BY <1>1, <2>1 DEF CountedIn, InHand, Whole
<1>7. N <= Cardinality(Whole \cup tree)
  <2> DEFINE all == Whole \cup tree
  <2>1. IsFiniteSet(all)
    <3>1. IsFiniteSet(Whole)
      BY BuiltAre DEF Whole
    <3>2. IsFiniteSet(tree)
      BY <1>1, InnermostIs, TreeOpsAre
    <3> QED
      BY <3>1, <3>2, FS_Union
  <2> HIDE DEF all
  <2>2. Cardinality(Old) <= Cardinality(all)
    BY <1>2, <2>1, FS_Subset DEF all
  <2>3. Cardinality(1 .. N) = N
    <3>1. 1 \in Int /\ N \in Int
      BY <1>3
    <3> HIDE DEF N
    <3>2. Cardinality(1 .. N) = IF 1 > N THEN 0 ELSE N - 1 + 1
      BY <3>1, FS_Interval
    <3> QED
      BY <1>3, <3>2
  <2> QED
    BY <1>3, <2>2, <2>3 DEF all
<1>8. Len(rebalanced) = N
  <2> DEFINE a == Cardinality(Whole)
             b == Cardinality(tree)
             m == Len(rebalanced)
  <2>1. a \in Nat /\ b \in Nat /\ m \in Nat /\ N \in Nat /\ N <= a + b /\ m \in 1 .. N
        /\ AtLeast(m + 1, a + (b + 1))
    BY <1>3, <1>4, <1>5, <1>6, <1>7
  <2> HIDE DEF a, b, m, N
  <2>2. m = N
    BY <2>1 DEF AtLeast
  <2> QED
    BY <2>2 DEF m
<1> QED
  BY <1>2, <1>3, <1>4, <1>8

LEMMA DoneStays ==
  ASSUME OutputDone, Output \in DOMAIN map, circuit' = circuit,
         \A g \in DOMAIN map : g \in DOMAIN map' /\ map'[g] = map[g],
         \A g \in DOMAIN usages : g \in DOMAIN usages' /\ usages[g] \subseteq usages'[g]
  PROVE  OutputDone'
<1>1. Output' = Output /\ Old' = Old
  BY DEF Output, Old
<1>2. LeavesIn(Here) \subseteq LeavesIn(Here)'
  BY DEF LeavesIn, Here, Old
<1>3. Balanced \subseteq Balanced'
  BY DEF Balanced, Old
<1>4. TreesBuilt \subseteq TreesBuilt'
  <2>1. \A r : TreeOps(r)' = TreeOps(r)
    BY TreeOpsStay
  <2> QED
    BY <1>3, <2>1 DEF TreesBuilt
<1>5. Whole \subseteq Whole'
  BY <1>2, <1>4 DEF Whole
<1> QED
  BY <1>1, <1>5 DEF OutputDone

LEMMA FinishRootOutput ==
  ASSUME RebalanceInv, RootsHeld, UsesHeld, CountedIn(Here), OutputHeld, OneOperation, FinishRoot
  PROVE  (Output \in roots \cup Range(balancing) \cup Balanced)'
         /\ (Output \in Balanced => OutputDone)'
<1> DEFINE n == Len(balancing)
<1>1. /\ Built /\ balancing # << >> /\ roots' = roots /\ circuit' = circuit
      /\ rebalanced' = rebalanced
      /\ Innermost \in Range(circuit.outputs) => RebuiltAs \in DOMAIN usages
      /\ map' = Put(map, Innermost, RebuiltAs)
      /\ balancing' = SubSeq(balancing, 1, n - 1)
      /\ usages' = [g \in DOMAIN usages |->
                      IF Innermost \in Range(circuit.outputs) /\ g = RebuiltAs
                      THEN usages[g] \cup {g} ELSE usages[g]]
  BY DEF FinishRoot, Built, Balancing
<1>2. /\ n \in Nat \ {0} /\ DOMAIN balancing = 1 .. n /\ Innermost = balancing[n]
      /\ Innermost \in Old /\ Innermost \notin DOMAIN map /\ IsOp(circuit.gates[Innermost])
  BY <1>1, InnermostIs DEF Innermost
<1>3. /\ Output \in Old /\ IsOp(circuit.gates[Output]) /\ Range(circuit.outputs) = {Output}
  BY OutputIs DEF RebalanceInv, StackHeld
<1>4. /\ Output' = Output /\ Old' = Old /\ Balanced' = Balanced \cup {Innermost}
      /\ map'[Innermost] = RebuiltAs
      /\ \A g \in DOMAIN map : g \in DOMAIN map' /\ map'[g] = map[g]
      /\ \A g \in DOMAIN usages : g \in DOMAIN usages' /\ usages[g] \subseteq usages'[g]
  BY <1>1, <1>2 DEF Put, Old, Balanced, Output
<1>5. CASE Innermost = Output
  <2>1. RebuiltAs = Output /\ Old \subseteq Whole \cup TreeOps(Output) /\ Output \in DOMAIN usages
    BY <1>1, <1>3, <1>5, OutputLast
  <2>2. map'[Output] = Output /\ Output \in usages'[Output] /\ Output \in DOMAIN usages'
    BY <1>1, <1>3, <1>4, <1>5, <2>1
  <2>3. LeavesIn(Here)' = LeavesIn(Here)
    BY <1>1, <1>2 DEF LeavesIn, Here, Put, Old
  <2>4. TreesBuilt' = TreesBuilt \cup TreeOps(Output)
    BY <1>1, <1>4, <1>5, TreeOpsStay
  <2>5. Whole' = Whole \cup TreeOps(Output)
    BY <2>3, <2>4 DEF Whole
  <2>6. OutputDone'
    BY <1>4, <2>1, <2>2, <2>5 DEF OutputDone
  <2> QED
    BY <1>4, <1>5, <2>6
<1>6. CASE Innermost # Output
  <2>1. Range(balancing) \subseteq Range(balancing') \cup {Innermost}
    <3>1. balancing \in Seq(Old)
      BY DEF RebalanceInv, RebalanceTypeOK
    <3> HIDE DEF n
    <3>2. DOMAIN balancing' = 1 .. n - 1 /\ \A k \in 1 .. n - 1 : balancing'[k] = balancing[k]
      BY <1>1, <1>2, <3>1, SubSeqProperties
    <3>3. \A k \in DOMAIN balancing : k = n \/ k \in DOMAIN balancing'
      BY <1>2, <3>2
    <3> QED
      BY <1>2, <3>2, <3>3 DEF Range
  <2>2. (Output \in roots \cup Range(balancing) \cup Balanced)'
    BY <1>1, <1>4, <1>6, <2>1 DEF OutputHeld
  <2>3. ASSUME Output \in Balanced
        PROVE  OutputDone'
    BY <1>1, <1>4, <2>3, DoneStays DEF OutputHeld, Balanced
  <2> QED
    BY <1>4, <1>6, <2>2, <2>3
<1> QED
  BY <1>5, <1>6

LEMMA OutputStep ==
  ASSUME RebalanceInv, RootsHeld, UsesHeld, CountedIn(Here), OutputHeld,
         [BalanceStep]_rebalanceVars
  PROVE  OutputHeld'
<1>1. circuit' = circuit
  BY StepCases DEF Untouched, NextRoot, BalanceLeaf, Flatten, Combine, FinishRoot
<1> SUFFICES ASSUME OneOperation
             PROVE  (Output \in roots \cup Range(balancing) \cup Balanced)'
                    /\ (Output \in Balanced => OutputDone)'
  BY <1>1 DEF OutputHeld, OneOperation
<1> DEFINE Held == Output \in roots' \cup Range(balancing') \cup Balanced
<1>2. Output' = Output /\ Old' = Old /\ Held = Held
      /\ Output \in Old /\ IsOp(circuit.gates[Output])
  BY <1>1, OutputIs DEF Output, Old, RebalanceInv, StackHeld
<1>3. ASSUME UNCHANGED <<map, usages>>, Held
      PROVE  /\ (Output \in roots \cup Range(balancing) \cup Balanced)'
             /\ (Output \in Balanced => OutputDone)'
  <2>1. Balanced' = Balanced
    BY <1>1, <1>3 DEF Balanced, Old
  <2>2. ASSUME Output \in Balanced
        PROVE  OutputDone'
    BY <1>1, <1>3, <2>2, DoneStays DEF OutputHeld, Balanced
  <2> QED
    BY <1>2, <1>3, <2>1, <2>2
<1>4. Output \in roots \cup Range(balancing) \cup Balanced
  BY DEF OutputHeld
<1>5. CASE UNCHANGED <<roots, balancing, map, usages>>
  BY <1>3, <1>4, <1>5
<1>6. CASE \/ CombinePanics \/ FinishPanics \/ CallNewCircuit \/ Rebuilding \/ Flatten
           \/ UNCHANGED rebalanceVars
  BY <1>5, <1>6 DEF CombinePanics, FinishPanics, CallNewCircuit, Rebuilding, Flatten, rebalanceVars,
     balanceVars
<1>7. ASSUME NEW r \in roots, NextRoot(r)
      PROVE  /\ (Output \in roots \cup Range(balancing) \cup Balanced)'
             /\ (Output \in Balanced => OutputDone)'
  <2>1. /\ roots' = roots \ {r} /\ balancing = << >> /\ map' = map /\ usages' = usages
        /\ balancing' = IF Unbalanced(r) THEN <<r>> ELSE << >>
    BY <1>7 DEF NextRoot
  <2>2. Range(balancing) = {}
    BY <2>1 DEF Range
  <2>3. CASE r # Output
    BY <1>3, <1>4, <2>1, <2>2, <2>3
  <2>4. CASE r = Output /\ Unbalanced(Output)
    <3>1. Output \in Range(balancing')
      BY <2>1, <2>4 DEF Range
    <3> QED
      BY <1>3, <2>1, <3>1
  <2>5. CASE r = Output /\ ~ Unbalanced(Output)
    <3>1. queue = << >>
      BY <2>1 DEF RebalanceInv, StackHeld
    <3>2. Output \in Balanced
      BY <1>2, <2>5, <3>1 DEF Unbalanced, RebalanceInv, RanksHeld
    <3> QED
      BY <1>3, <2>1, <3>2
  <2> QED
    BY <2>3, <2>4, <2>5
<1>8. CASE BalanceLeaf
  <2>1. PICK leaf : balancing' = Append(balancing, leaf)
    BY <1>8 DEF BalanceLeaf
  <2>2. Range(balancing) \subseteq Range(balancing')
    <3>1. balancing \in Seq(Old \cup {leaf})
      BY DEF RebalanceInv, RebalanceTypeOK
    <3>2. /\ DOMAIN balancing = 1 .. Len(balancing) /\ Len(balancing) \in Nat
          /\ DOMAIN balancing' = 1 .. Len(balancing) + 1
          /\ \A k \in 1 .. Len(balancing) : balancing'[k] = balancing[k]
      BY <2>1, <3>1, AppendProperties, LenProperties
    <3> QED
      BY <3>2 DEF Range
  <2>3. UNCHANGED <<roots, map, usages>>
    BY <1>8 DEF BalanceLeaf
  <2> QED
    BY <1>3, <1>4, <2>2, <2>3
<1>9. CASE Combine
  <2>1. balancing # << >> /\ roots' = roots /\ balancing' = balancing
    BY <1>9, CombineIs
  <2>2. PICK i \in DOMAIN queue, j \in DOMAIN queue : CombineOf(i, j)
    BY <1>9, CombineIs
  <2> DEFINE to == Combination(i, j).to
  <2>3. Grown(to, Here)
    BY <2>1, CombinationHolds
  <2>4. /\ DOMAIN map' = DOMAIN to.map \cup {index} /\ index \notin Old
        /\ \A g \in DOMAIN to.map : map'[g] = to.map[g]
    BY <2>1, <2>2, CombineGrows
  <2> HIDE DEF to
  <2>5. Balanced' = Balanced /\ \A g \in DOMAIN map : g \in DOMAIN map' /\ map'[g] = map[g]
    BY <1>1, <2>3, <2>4 DEF Balanced, Grown, Here, Old
  <2>6. \A g \in DOMAIN usages : g \in DOMAIN usages' /\ usages[g] \subseteq usages'[g]
    BY <2>2 DEF CombineOf
  <2>7. ASSUME Output \in Balanced
        PROVE  OutputDone'
    BY <1>1, <2>5, <2>6, <2>7, DoneStays DEF OutputHeld, Balanced
  <2> QED
    BY <1>2, <1>4, <2>1, <2>5, <2>7
<1>10. CASE FinishRoot
  BY <1>10, FinishRootOutput
<1> QED
  BY <1>6, <1>7, <1>8, <1>9, <1>10 DEF BalanceStep

LEMMA OutputInit == RebalanceInit => OutputHeld
<1> SUFFICES ASSUME RebalanceInit, OneOperation
             PROVE  Output \in roots /\ Output \notin Balanced
  BY DEF OutputHeld
<1>1. circuit \in Circuits /\ roots = AllRoots /\ Balanced = {}
  BY DEF RebalanceInit, AllRoots, Old, Balanced
<1> QED
  BY <1>1, OutputIs

-----------------------------------------------------------------------------
\* What is handed over to new_circuit_from.
Left == [circuit |-> circuit, gates |-> rebalanced, usages |-> usages]

\* An operation that is built is used.
LEMMA UserKept ==
  ASSUME RebalanceInv, RootsHeld, UsesHeld, OutputDone, OneOperation, Output \in Balanced,
         queue = << >>, NEW u \in DOMAIN rebalanced, IsOp(rebalanced[u])
  PROVE  InUse(u)
<1> SUFFICES ASSUME ~ InUse(u)
             PROVE  FALSE
  OBVIOUS
<1>1. ~ Pending(u)
  BY DEF Pending
<1>2. PICK r \in Balanced : map[r] = u
  BY <1>1 DEF UsesHeld, OpsUsed, IsRebuilt
<1>3. r # Output
  BY <1>2 DEF OutputDone, InUse
<1>4. circuit \in Circuits /\ r \in Old /\ IsOp(circuit.gates[r]) /\ r \in AllRoots
  BY DEF RebalanceInv, StackHeld, Balanced, RootsHeld
<1>5. PICK w \in Old : r < w /\ r \in Operands(circuit.gates[w])
  BY <1>3, <1>4, OutputIs
<1>6. PICK s \in Balanced : w \in TreeOps(s)
  <2>1. IsOp(circuit.gates[w])
    BY <1>5 DEF Operands
  <2>2. w \in Whole
    BY <1>5 DEF OutputDone
  <2> QED
    BY <2>1, <2>2 DEF Whole, LeavesIn, TreesBuilt
<1>7. s \in Old /\ IsOp(circuit.gates[s]) /\ Hangs(TreeOps(s), s) /\ \A x \in TreeOps(s) : x <= s
  BY <1>4, TreeOpsAre DEF Balanced
<1>8. r \notin TreeOps(s)
  <2>1. r # s
    <3>1. w <= s /\ r \in Nat /\ w \in Nat /\ s \in Nat
      BY <1>4, <1>5, <1>6, <1>7, GivenCircuit
    <3> QED
      BY <1>5, <3>1
  <2> QED
    BY <1>4, <1>7, <2>1 DEF Hangs, AllRoots
<1>9. r \in Range(Leaves(s))
  BY <1>4, <1>5, <1>6, <1>7, <1>8, TreeEdges
<1> QED
  BY <1>2, <1>4, <1>9 DEF UsesHeld, LeavesBuilt, LeafBuilt

\* Users are gates that are kept, and right.
LEMMA UsersKept ==
  ASSUME RebalanceInv, RootsHeld, UsesHeld, OutputDone, OneOperation, Output \in Balanced,
         queue = << >>, NEW g \in DOMAIN usages, NEW u \in usages[g]
  PROVE  InUse(u) /\ (g \in Operands(rebalanced[u]) \/ (u = g /\ g \in Range(circuit.outputs)))
<1>1. g \in Operands(rebalanced[u]) \/ (u = g /\ IsOutput(g))
  BY DEF UsesHeld, UsersReal
<1>2. u \in DOMAIN rebalanced
  BY DEF RebalanceInv, RebalanceTypeOK
<1>3. CASE g \in Operands(rebalanced[u])
  <2>1. IsOp(rebalanced[u])
    BY <1>3 DEF Operands
  <2> QED
    BY <1>2, <1>3, <2>1, UserKept
<1>4. CASE u = g /\ IsOutput(g)
  <2>1. Range(circuit.outputs) = {Output}
    BY OutputIs DEF RebalanceInv, StackHeld
  <2>2. g = Output
    BY <1>4, <2>1 DEF IsOutput, OutputDone
  <2> QED
    BY <1>4, <2>1, <2>2 DEF InUse
<1> QED
  BY <1>1, <1>3, <1>4

LEMMA HandedProper ==
  ASSUME RebalanceInv, RootsHeld, UsesHeld, OutputDone, OneOperation, Output \in Balanced,
         queue = << >>, SquaresStay(Left)
  PROVE  Proper(Left)
<1> DEFINE N == Len(circuit.gates)
           K == {g \in DOMAIN usages : usages[g] # {}}
<1>1. /\ N \in Nat /\ Old = 1 .. N /\ usages \in [1 .. N -> SUBSET DOMAIN rebalanced]
      /\ rebalanced \in Seq(Node) /\ DOMAIN rebalanced = 1 .. Len(rebalanced)
      /\ Len(rebalanced) \in Nat
  BY GivenCircuit, LenProperties DEF RebalanceInv, RebalanceTypeOK, StackHeld
<1>2. /\ Output = N /\ circuit.outputs \in Seq(Old) /\ DOMAIN circuit.outputs = {1}
  BY OutputIs DEF RebalanceInv, StackHeld
<1>3. \A g : g \in K <=> InUse(g)
  BY DEF InUse
<1>4. K \subseteq DOMAIN rebalanced
  <2>1. N \in DOMAIN rebalanced
    <3>1. Output \in DOMAIN map /\ map[Output] = Output
      BY DEF OutputDone, Balanced
    <3> QED
      BY <1>2, <3>1 DEF RebalanceInv, RebalanceTypeOK
  <2>2. K \subseteq 1 .. N
    BY <1>1
  <2> HIDE DEF K, N
  <2> QED
    BY <1>1, <2>1, <2>2
<1>5. usages \in Seq(SUBSET K)
  <2>1. \A g \in 1 .. N : usages[g] \in SUBSET K
    BY <1>1, <1>3, UsersKept
  <2> HIDE DEF K, N
  <2>2. usages \in [1 .. N -> SUBSET K]
    BY <1>1, <2>1
  <2> QED
    BY <1>1, <2>2, SeqDef
<1>6. circuit.outputs \in Seq(K)
  <2>1. Output \in K
    BY <1>3 DEF OutputDone, InUse
  <2> HIDE DEF K
  <2>2. circuit.outputs \in [1 .. 1 -> K]
    <3>1. circuit.outputs \in [1 .. Len(circuit.outputs) -> Old]
      BY <1>2, LenProperties
    <3> QED
      BY <1>2, <2>1, <3>1 DEF Output, OneOperation
  <2> QED
    BY <2>2, SeqDef
<1>7. ASSUME NEW g \in K
      PROVE  /\ rebalanced[g] \in Node
             /\ Operands(rebalanced[g]) \subseteq K \cap 1 .. g - 1
             /\ \A o \in Operands(rebalanced[g]) : g \in usages[o]
  <2>1. g \in DOMAIN rebalanced /\ rebalanced[g] \in Node
    BY <1>1, <1>4, <1>7, ElementOfSeq
  <2>2. Operands(rebalanced[g]) \subseteq 1 .. g - 1
    BY <2>1 DEF RebalanceInv, Topological
  <2>3. \A o \in Operands(rebalanced[g]) : o \in DOMAIN usages /\ g \in usages[o]
    BY <2>1 DEF UsesHeld, UsersTold
  <2> QED
    BY <2>1, <2>2, <2>3
<1>8. Left.circuit = circuit /\ Left.gates = rebalanced /\ Left.usages = usages
  BY DEF Left
<1> HIDE DEF Left
<1>9. KeptOf(Left) = K
  BY <1>8 DEF KeptOf
<1> HIDE DEF K
<1>10. ASSUME NEW g \in KeptOf(Left), NEW n, n = Left.gates[g]
       PROVE  /\ n \in Node /\ Operands(n) \subseteq KeptOf(Left) \cap 1 .. g - 1
              /\ \A o \in Operands(n) : g \in Left.usages[o]
  BY <1>7, <1>8, <1>9, <1>10
<1>11. Left.gates \in Seq(Node \cup {Tombstone})
  BY <1>1, <1>8
<1>12. Left.usages \in Seq(SUBSET KeptOf(Left)) /\ KeptOf(Left) \subseteq DOMAIN Left.gates
  BY <1>4, <1>5, <1>8, <1>9
<1>13. Left.circuit.outputs \in Seq(KeptOf(Left))
  BY <1>6, <1>8, <1>9
<1> QED
  BY <1>10, <1>11, <1>12, <1>13 DEF Proper

\* Once the trees are handed over they stay, and new_circuit_from keeps its invariant.
AfterTrees ==
  verdict # "none" =>
    /\ phase = "rebuilding" /\ handed = Left /\ balancing = << >> /\ queue = << >>
    /\ OneOperation => Output \in Balanced
    /\ OneOperation /\ SquaresStay(Left) => RebuildInv

LEMMA AfterTreesStep ==
  ASSUME RebalanceInv, RootsHeld, UsesHeld, OutputHeld, AfterTrees, [BalanceStep]_rebalanceVars
  PROVE  AfterTrees'
<1>1. CASE UNCHANGED balanceVars /\ (UNCHANGED rebuildVars \/ Rebuilding)
  <2>1. /\ Left' = Left /\ (SquaresStay(Left)' <=> SquaresStay(Left)) /\ phase' = phase
        /\ balancing' = balancing /\ queue' = queue /\ (OneOperation' <=> OneOperation)
        /\ Output' = Output /\ Balanced' = Balanced
    BY <1>1 DEF balanceVars, Left, SquaresStay, KeptOf, OneOperation, Output, Balanced, Old
  <2>2. handed' = handed /\ (verdict' # "none" => verdict # "none")
    BY <1>1 DEF rebuildVars, Rebuilding, RebuildStep, SkipUnused, Keep, Move, MoveFails, Answer,
       AtGate
  <2>3. RebuildInv => RebuildInv'
    BY <1>1, RebuildStepHolds DEF Rebuilding
  <2> QED
    BY <2>1, <2>2, <2>3 DEF AfterTrees
<1>2. CASE CallNewCircuit
  <2>1. /\ HandOver(Left) /\ phase' = "rebuilding" /\ balancing = << >> /\ roots = {}
        /\ UNCHANGED <<circuit, roots, balancing, queue, ranks, map, index, rebalanced, usages>>
    BY <1>2 DEF CallNewCircuit, Left
  <2>2. /\ Left' = Left /\ (SquaresStay(Left)' <=> SquaresStay(Left))
        /\ (OneOperation' <=> OneOperation) /\ Output' = Output /\ Balanced' = Balanced
    BY <2>1 DEF Left, SquaresStay, KeptOf, OneOperation, Output, Balanced, Old
  <2>3. queue = << >>
    BY <2>1 DEF RebalanceInv, StackHeld
  <2>4. OneOperation => Output \in Balanced /\ OutputDone
    <3>1. Range(balancing) = {}
      BY <2>1 DEF Range
    <3> QED
      BY <2>1, <3>1 DEF OutputHeld
  <2>5. OneOperation /\ SquaresStay(Left) => RebuildInv'
    BY <2>1, <2>3, <2>4, HandedProper, HandOverHolds
  <2>6. handed' = Left
    BY <2>1 DEF HandOver
  <2> QED
    BY <2>1, <2>2, <2>3, <2>4, <2>5, <2>6 DEF AfterTrees
<1>3. CASE UNCHANGED rebuildVars /\ phase # "rebuilding"
  BY <1>3 DEF AfterTrees, rebuildVars
<1> QED
  BY <1>1, <1>2, <1>3 DEF BalanceStep, NextRoot, BalanceLeaf, Flatten, Combine, CombinePanics,
     FinishRoot, FinishPanics, Built, Balancing, Running, Rebuilding, rebalanceVars

\* Right usages never end in an error, so that there is a circuit, with the one output in
\* the place that its gate has gone to.
LEMMA AnsweredWell ==
  ASSUME RebalanceInv, RootsHeld, UsesHeld, OutputHeld, AfterTrees,
         Answered, SquaresStay(handed), OneOperation
  PROVE  /\ RebuildInv /\ verdict = "ok" /\ handed = Left
         /\ Kept \subseteq DOMAIN rebalanced /\ Output \in Kept
         /\ Output \in Balanced /\ map[Output] = Output
         /\ Len(outputs) = 1 /\ outputs[1] = Place(Output)
<1>1. /\ RebuildInv /\ handed = Left /\ queue = << >> /\ Output \in Balanced /\ OutputDone
  BY DEF AfterTrees, Answered, OutputHeld
<1>2. handed.gates = rebalanced /\ handed.usages = usages /\ handed.circuit = circuit
  BY <1>1 DEF Left
<1>3. /\ Kept = {g \in DOMAIN usages : usages[g] # {}} /\ Kept \subseteq DOMAIN rebalanced
      /\ Output \in Kept
  <2>1. Kept = {g \in DOMAIN usages : usages[g] # {}}
    BY <1>2 DEF Kept, KeptOf
  <2>2. Kept \subseteq DOMAIN rebalanced
    BY <1>1, <1>2 DEF RebuildInv, Proper, Kept
  <2> QED
    BY <1>1, <2>1, <2>2 DEF OutputDone
<1>4. RightUsages
  BY <1>1, <1>2, <1>3, UsersKept DEF RightUsages
<1>5. verdict = "ok"
  BY <1>1, <1>4 DEF RebuildInv, FailsOnlyOnWrongUsages, Answered
<1>6. Len(outputs) = 1 /\ outputs[1] = Place(Output)
  <2>1. DOMAIN circuit.outputs = {1}
    BY <1>1, OutputIs DEF RebalanceInv, StackHeld
  <2>2. Ascending(circuit.outputs)
    BY <2>1 DEF Ascending
  <2>3. /\ Len(outputs) = Len(circuit.outputs) /\ DOMAIN outputs = DOMAIN circuit.outputs
        /\ \A i \in DOMAIN outputs : outputs[i] = Place(circuit.outputs[i])
    BY <1>1, <1>2, <1>5, <2>2, RebuiltOutputs
  <2> QED
    BY <2>1, <2>3 DEF OneOperation, Output
<1> QED
  BY <1>1, <1>3, <1>5, <1>6 DEF OutputDone

\* rebalance does not change what is computed, for every circuit of sums and products with
\* one output, an operation, and for all arguments: whatever the queue gives first, the
\* pass answers with a circuit in topological order whose one output is found and computes
\* what it did, as long as no operand of a square has to move (rebalance.rs:43-222).
THEOREM RebalanceKeepsOutput ==
  ASSUME AssociativeCircuits, FoldsSafe
  PROVE  RebalanceSpec => []OutputsKeepValue
<1>1. ASSUME ValuesInv, RoomInv, UsesHeld, OutputHeld, AfterTrees
      PROVE  OutputsKeepValue
  <2> SUFFICES ASSUME Answered, SquaresStay(handed), OneOperation
               PROVE  /\ verdict = "ok" /\ Len(outputs) = 1 /\ Topological(alive)
                      /\ \A env \in ArgumentsOf(circuit) :
                           Denote(alive, env)[outputs[1]] = Denote(circuit.gates, env)[Output]
    BY DEF OutputsKeepValue, OneOperation, Output
  <2>1. RebalanceInv /\ RootsHeld
    BY <1>1 DEF RoomInv
  <2>2. /\ RebuildInv /\ verdict = "ok" /\ handed = Left
        /\ Kept \subseteq DOMAIN rebalanced /\ Output \in Kept
        /\ Output \in Balanced /\ map[Output] = Output
        /\ Len(outputs) = 1 /\ outputs[1] = Place(Output)
    BY <1>1, <2>1, AnsweredWell
  <2>3. /\ alive \in Seq(Node) /\ Topological(alive)
        /\ \A g \in Kept : /\ Place(g) \in DOMAIN alive
                           /\ LET n == rebalanced[g] IN
                              alive[Place(g)] = IF IsOp(n)
                                THEN OpNode(n.op, Place(n.lhs), Place(n.rhs)) ELSE n
        /\ \A p \in DOMAIN alive : \E g \in Kept : Place(g) = p
    BY <2>2, AnsweredIs DEF Left
  <2>4. alive \in OwnArenas
    <3>1. ASSUME NEW x \in DOMAIN alive, IsInput(alive[x])
          PROVE  \E g \in Old : circuit.gates[g] = alive[x]
      <4>1. PICK g \in Kept : Place(g) = x
        BY <2>3
      <4>2. alive[x] = rebalanced[g]
        <5>1. ~ IsOp(rebalanced[g])
          <6>1. \A op, l, r : ~ IsInput(OpNode(op, l, r))
            BY DEF OpNode, IsInput
          <6> QED
            BY <2>3, <3>1, <4>1, <6>1
        <5> QED
          BY <2>3, <4>1, <5>1
      <4> QED
        BY <1>1, <2>2, <3>1, <4>2 DEF ValuesInv, GivenInputs
    <3> QED
      BY <2>3, <3>1 DEF OwnArenas, GivenInputs
  <2>5. ASSUME NEW env \in ArgumentsOf(circuit)
        PROVE  Denote(alive, env)[outputs[1]] = Denote(circuit.gates, env)[Output]
    <3>1. PICK all \in Assignments : \A nodes \in {circuit.gates, rebalanced} \cup OwnArenas :
            \A x \in DOMAIN nodes : Denote(nodes, env)[x] = Denote(nodes, all)[x]
      BY <1>1, ArgumentsComplete
    <3>2. \A g \in Kept : Denote(rebalanced, all)[g]
                            = NodeValue(handed.gates[g], all, Denote(rebalanced, all))
      <4>1. rebalanced \in Seq(Node) /\ Topological(rebalanced)
        BY <2>1 DEF RebalanceInv, RebalanceTypeOK
      <4> QED
        BY <2>2, <4>1, DenoteEquation DEF Left
    <3>3. Denote(alive, all)[Place(Output)] = Denote(rebalanced, all)[Output]
      BY <2>2, <3>2, RebuiltValues
    <3>4. Denote(rebalanced, all)[Output] = Denote(circuit.gates, all)[Output]
      BY <1>1, <2>2 DEF ValuesInv, TreesHeld, Balanced
    <3>5. Place(Output) \in DOMAIN alive /\ Output \in DOMAIN circuit.gates
      BY <2>2, <2>3 DEF Balanced, Old
    <3> QED
      BY <2>2, <2>4, <3>1, <3>3, <3>4, <3>5
  <2> QED
    BY <2>2, <2>3, <2>5
<1>2. RebalanceInit => ValuesInv /\ RoomInv /\ UsesHeld /\ OutputHeld /\ AfterTrees
  BY ValuesInit, RoomInit, UsesInit, OutputInit DEF RebalanceInit, NewCircuitInit, AfterTrees
<1>3. /\ ValuesInv /\ RoomInv /\ UsesHeld /\ OutputHeld /\ AfterTrees
      /\ [BalanceStep]_rebalanceVars
      => (ValuesInv /\ RoomInv /\ UsesHeld /\ OutputHeld /\ AfterTrees)'
  BY ValuesStep, RoomStep, UsesStep, OutputStep, AfterTreesStep DEF RoomInv
<1>4. ValuesInv /\ RoomInv /\ UsesHeld /\ OutputHeld /\ AfterTrees => OutputsKeepValue
  BY <1>1
<1> QED
  BY <1>2, <1>3, <1>4, PTL DEF RebalanceSpec

-----------------------------------------------------------------------------
\* Powers of two, and depths.

LEMMA PowersAre ==
  ASSUME NEW n \in Nat
  PROVE  LET power == PowersOfTwo(n)
         IN  /\ power \in [1 .. n -> Nat]
             /\ \A k \in 1 .. n : /\ power[k] = IF k = 1 THEN 1 ELSE 2 * power[k - 1]
                                  /\ power[k] >= k
                                  /\ \A j \in 1 .. k : power[j] <= power[k]
<1> DEFINE Step1(k, f) == IF k = 1 THEN 1 ELSE 2 * f[k - 1]
           P(f) == f = [k \in 1 .. n |-> Step1(k, f)]
           step == [p \in (1 .. n) \X [1 .. n -> Nat] |-> Step1(p[1], p[2])]
           d == CHOOSE f : P(f)
<1>1. PowersOfTwo(n) = d
  BY DEF PowersOfTwo
<1>2. ASSUME NEW k \in 1 .. n, NEW f \in [1 .. n -> Nat]
      PROVE  Step1(k, f) \in Nat /\ step[<<k, f>>] = Step1(k, f)
  <2>1. k # 1 => f[k - 1] \in Nat
    BY <1>2
  <2> QED
    BY <2>1
<1>3. Causal(n, Nat, step)
  <2>1. step \in [(1 .. n) \X [1 .. n -> Nat] -> Nat]
    BY <1>2
  <2>2. ASSUME NEW k \in 1 .. n, NEW f \in [1 .. n -> Nat], NEW h \in [1 .. n -> Nat],
               \A j \in 1 .. k - 1 : f[j] = h[j]
        PROVE  step[<<k, f>>] = step[<<k, h>>]
    <3>1. k = 1 \/ f[k - 1] = h[k - 1]
      BY <2>2
    <3>2. Step1(k, f) = Step1(k, h)
      BY <3>1
    <3> HIDE DEF step, Step1
    <3> QED
      BY <3>2, <1>2
  <2> HIDE DEF step
  <2> QED
    BY <2>1, <2>2 DEF Causal
<1>4. PICK f : Solves(f, n, Nat, step)
  <2>1. Nat # {}
    OBVIOUS
  <2> HIDE DEF step
  <2> QED
    BY <1>3, <2>1, RecursionSolvable
<1>5. f \in [1 .. n -> Nat] /\ \A k \in 1 .. n : f[k] = Step1(k, f)
  <2> HIDE DEF step, Step1
  <2> QED
    BY <1>2, <1>4 DEF Solves
<1>6. P(f)
  BY <1>5
<1>7. P(d)
  <2> HIDE DEF P
  <2> QED
    BY <1>6
<1> HIDE DEF d
<1> DEFINE Grows(k) == /\ d[k] \in Nat /\ d[k] >= k
                       /\ \A j \in 1 .. k : d[j] <= d[k]
           S == {k \in 1 .. n : Grows(k)}
<1>8. \A k \in 1 .. n : d[k] = Step1(k, d)
  BY <1>7
<1>9. ASSUME NEW k \in 1 .. n, (1 .. k - 1) \subseteq S
      PROVE  k \in S
  <2>1. CASE k = 1
    BY <1>8, <2>1
  <2>2. CASE k # 1
    <3>1. k - 1 \in S /\ k - 1 \in Nat \ {0}
      BY <1>9, <2>2
    <3>2. d[k] = 2 * d[k - 1] /\ d[k - 1] \in Nat /\ d[k - 1] >= k - 1
          /\ \A j \in 1 .. k - 1 : d[j] <= d[k - 1] /\ d[j] \in Nat
      <4>1. \A j \in 1 .. k - 1 : d[j] \in Nat
        BY <1>9
      <4> QED
        BY <1>8, <2>2, <3>1, <4>1
    <3>3. d[k] \in Nat /\ d[k] >= k
      BY <3>1, <3>2
    <3>4. \A j \in 1 .. k : d[j] <= d[k]
      <4>1. ASSUME NEW j \in 1 .. k PROVE d[j] <= d[k]
        <5>1. j = k \/ j \in 1 .. k - 1
          OBVIOUS
        <5> QED
          BY <3>2, <3>3, <5>1
      <4> QED
        BY <4>1
    <3> QED
      BY <3>3, <3>4
  <2> QED
    BY <2>1, <2>2
<1>10. 1 .. n \subseteq S
  <2> HIDE DEF S
  <2> QED
    BY <1>9, PositionInduction
<1>11. \A k \in 1 .. n : Grows(k)
  BY <1>10
<1>12. d \in [1 .. n -> Nat]
  BY <1>7, <1>11
<1> QED
  BY <1>1, <1>8, <1>11, <1>12

\* Numbers for gates that rise from the operands of an operation to it.
Levels(arena, d) ==
  /\ d \in [DOMAIN arena -> Nat]
  /\ \A x \in DOMAIN arena :
       LET n == arena[x]
       IN  IF IsOp(n) THEN d[n.lhs] < d[x] /\ d[n.rhs] < d[x] ELSE d[x] = 0

NodeDepth(n, own, depth) ==
  own + IF IsOp(n) THEN Larger(depth[n.lhs], depth[n.rhs]) ELSE 0

\* They bound the depths.
LEMMA DepthWithin ==
  ASSUME NEW arena \in Seq(Node), Topological(arena), NEW d, Levels(arena, d),
         NEW count, \A g \in DOMAIN arena : count[g] = IF IsOp(arena[g]) THEN 1 ELSE 0
  PROVE  \A g \in DOMAIN arena : /\ GetDepth(arena, count)[g] \in 0 .. d[g]
                                 /\ IsOp(arena[g]) => GetDepth(arena, count)[g] > 0
<1> DEFINE N == Len(arena)
           P(f) == f = [g \in DOMAIN arena |-> NodeDepth(arena[g], count[g], f)]
           step == [p \in (1 .. N) \X [1 .. N -> Nat] |->
                      NodeDepth(arena[p[1]], count[p[1]], p[2])]
           h == GetDepth(arena, count)
<1>1. h = CHOOSE f : P(f)
  BY DEF GetDepth, NodeDepth
<1>2. /\ N \in Nat /\ DOMAIN arena = 1 .. N
      /\ \A g \in 1 .. N : /\ count[g] = IF IsOp(arena[g]) THEN 1 ELSE 0
                           /\ IsOp(arena[g]) => arena[g].lhs \in 1 .. g - 1
                                                /\ arena[g].rhs \in 1 .. g - 1
  BY OperandsBefore
<1>3. ASSUME NEW g \in 1 .. N, NEW f \in [1 .. N -> Nat]
      PROVE  NodeDepth(arena[g], count[g], f) \in Nat
  <2>1. IsOp(arena[g]) => f[arena[g].lhs] \in Nat /\ f[arena[g].rhs] \in Nat
    BY <1>2
  <2> QED
    BY <1>2, <2>1 DEF NodeDepth, Larger
<1>4. Causal(N, Nat, step)
  <2>1. step \in [(1 .. N) \X [1 .. N -> Nat] -> Nat]
    BY <1>3
  <2>2. \A g \in 1 .. N : \A f, e \in [1 .. N -> Nat] :
          (\A k \in 1 .. g - 1 : f[k] = e[k]) => step[<<g, f>>] = step[<<g, e>>]
    BY <1>2 DEF NodeDepth
  <2> QED
    BY <2>1, <2>2 DEF Causal
<1>5. PICK f : Solves(f, N, Nat, step)
  <2>1. Nat # {}
    OBVIOUS
  <2> HIDE DEF step, N
  <2> QED
    BY <1>2, <1>4, <2>1, RecursionSolvable
<1>6. f \in [1 .. N -> Nat] /\ \A g \in 1 .. N : f[g] = NodeDepth(arena[g], count[g], f)
  <2>1. \A g \in 1 .. N : \A e \in [1 .. N -> Nat] :
          step[<<g, e>>] = NodeDepth(arena[g], count[g], e)
    OBVIOUS
  <2> HIDE DEF N, step
  <2> QED
    BY <1>5, <2>1 DEF Solves
<1> HIDE DEF N, step
<1>7. P(f)
  BY <1>2, <1>6
<1>8. P(h)
  <2> HIDE DEF P, h
  <2> QED
    BY <1>1, <1>7
<1> HIDE DEF h
<1>9. \A g \in 1 .. N : h[g] = NodeDepth(arena[g], count[g], h)
  BY <1>2, <1>8
<1> DEFINE Within(g) == h[g] \in 0 .. d[g] /\ (IsOp(arena[g]) => h[g] > 0)
           S == {g \in 1 .. N : Within(g)}
<1>10. ASSUME NEW g \in 1 .. N, (1 .. g - 1) \subseteq S
       PROVE  g \in S
  <2> DEFINE x == arena[g].lhs
             y == arena[g].rhs
  <2>1. d[g] \in Nat
    BY <1>2 DEF Levels
  <2>2. CASE IsOp(arena[g])
    <3>1. x \in S /\ y \in S /\ d[x] < d[g] /\ d[y] < d[g] /\ d[x] \in Nat /\ d[y] \in Nat
      <4>1. x \in S /\ y \in S
        BY <1>2, <1>10, <2>2
      <4> QED
        BY <1>2, <2>2, <4>1 DEF Levels
    <3>2. h[g] = 1 + Larger(h[x], h[y])
      BY <1>2, <1>9, <2>2 DEF NodeDepth
    <3> HIDE DEF x, y
    <3>3. h[x] \in 0 .. d[x] /\ h[y] \in 0 .. d[y]
      BY <3>1
    <3>4. h[g] \in 1 .. d[g]
      <4> DEFINE a == h[x]
                 b == h[y]
                 p == d[x]
                 q == d[y]
                 e == d[g]
                 r == h[g]
      <4>1. /\ a \in 0 .. p /\ b \in 0 .. q /\ p \in Nat /\ q \in Nat /\ e \in Nat
            /\ p < e /\ q < e /\ r = 1 + Larger(a, b)
        BY <2>1, <3>1, <3>2, <3>3
      <4> HIDE DEF a, b, p, q, e, r
      <4>2. r \in 1 .. e
        BY <4>1 DEF Larger
      <4> QED
        BY <4>2 DEF r, e
    <3> QED
      BY <2>1, <3>4
  <2>3. CASE ~ IsOp(arena[g])
    <3>1. h[g] = 0 + 0
      BY <1>2, <1>9, <2>3 DEF NodeDepth
    <3> QED
      BY <2>1, <2>3, <3>1
  <2> QED
    BY <2>2, <2>3
<1>11. 1 .. N \subseteq S
  <2> HIDE DEF S
  <2> QED
    BY <1>2, <1>10, PositionInduction
<1> QED
  BY <1>2, <1>11 DEF h

-----------------------------------------------------------------------------
\* Without constants nothing is folded, and all that is built is used.

NoConstant == \A g \in Old : ~ IsConst(circuit.gates[g])

AllUsed ==
  NoConstant =>
    /\ \A x \in DOMAIN rebalanced : IsOp(rebalanced[x]) \/ InUse(x)
    /\ \A k \in DOMAIN queue : queue[k].gate \notin Old => IsOp(rebalanced[map[queue[k].gate]])

LEMMA NothingFolded ==
  ASSUME RebalanceInv, UsesHeld, ConstsHeld(rebalanced), NoConstant, balancing # << >>,
         NEW i \in DOMAIN queue, NEW j \in DOMAIN queue, CombineOf(i, j)
  PROVE  LET c == Combination(i, j)
         IN  GateMade(i, j) = c.gate /\ c.rank # 0
<1> DEFINE c == Combination(i, j)
           to == c.to
           x == to.map[queue[i].gate]
<1>1. c.rank = 0 => IsConst(to.arena[x])
  BY GateTold DEF UsesHeld
<1>2. x \in DOMAIN to.arena
  BY CombinationHolds DEF Sound
<1>3. ConstsHeld(to.arena)
  BY CombinationConsts
<1> HIDE DEF to, x
<1>4. c.rank # 0
  BY <1>1, <1>2, <1>3 DEF ConstsHeld, NoConstant
<1> QED
  BY <1>4 DEF GateMade

LEMMA CombineUsesAll ==
  ASSUME RebalanceInv, UsesHeld, ConstsHeld(rebalanced), AllUsed, NoConstant, Combine
  PROVE  /\ \A x \in DOMAIN rebalanced' : IsOp(rebalanced'[x]) \/ InUse(x)'
         /\ \A k \in DOMAIN queue' :
              queue'[k].gate \notin Old => IsOp(rebalanced'[map'[queue'[k].gate]])
<1>1. balancing # << >> /\ circuit' = circuit
  BY CombineIs
<1>2. PICK i \in DOMAIN queue, j \in DOMAIN queue : i # j /\ CombineOf(i, j)
  BY CombineIs
<1> DEFINE c == Combination(i, j)
           to == c.to
           made == GateMade(i, j)
           at == Len(to.arena) + 1
           l == to.map[queue[i].gate]
           r == to.map[queue[j].gate]
           n == Len(queue)
<1>3. c.rank # 0 /\ made = c.gate
  BY <1>1, <1>2, NothingFolded
<1>4. /\ Operands(made) = {l, r} /\ Operands(made) \subseteq DOMAIN usages
      /\ usages' = [g \in DOMAIN usages |->
                      IF g \in Operands(made) THEN usages[g] \cup {at} ELSE usages[g]]
  BY <1>1, <1>2, <1>3, GateTold DEF UsesHeld
<1>5. /\ Continues(rebalanced', to.arena) /\ Continues(rebalanced', rebalanced)
      /\ DOMAIN rebalanced' = DOMAIN to.arena \cup {at} /\ rebalanced'[at] = made
      /\ map'[index] = at /\ \A g \in DOMAIN to.map : map'[g] = to.map[g]
  BY <1>1, <1>2, CombineGrows
<1>6. \A x \in DOMAIN to.arena : x \in DOMAIN rebalanced \/ x \in {l, r}
  BY CombinationAdds
<1>7. Grown(to, Here)
  BY <1>1, CombinationHolds
<1>8. /\ DOMAIN queue' = 1 .. n - 1 /\ n \in Nat
      /\ queue'[n - 1].gate = index
      /\ \A k \in 1 .. n - 2 : \E h \in DOMAIN queue : queue'[k] = queue[h]
  <2>1. queue \in Seq(Item)
    BY DEF RebalanceInv, QueueHeld, Item
  <2>2. /\ DOMAIN queue' = 1 .. n - 1 /\ queue'[n - 1] = [gate |-> index, rank |-> c.rank]
        /\ \A k \in 1 .. n - 2 : queue'[k] = Without(i, j)[k]
    BY <1>1, <1>2, QueueCombined
  <2>3. n \in Nat
    BY <1>2, <2>1, WithoutIs
  <2>4. ASSUME NEW k \in 1 .. n - 2
        PROVE  \E h \in DOMAIN queue : Without(i, j)[k] = queue[h]
    <3> DEFINE m == IF k < First(i, j) THEN k ELSE IF k + 1 < Second(i, j) THEN k + 1 ELSE k + 2
    <3>1. m \in DOMAIN queue /\ Without(i, j)[k] = queue[m]
      BY <1>2, <2>1, WithoutAt
    <3> HIDE DEF m
    <3> QED
      BY <3>1
  <2> HIDE DEF c, n
  <2> QED
    BY <2>2, <2>3, <2>4
<1>9. IsOp(made)
  BY <1>4 DEF Operands
<1> HIDE DEF c, to, made, at, l, r, n
<1>10. ASSUME NEW x \in DOMAIN rebalanced'
       PROVE  IsOp(rebalanced'[x]) \/ InUse(x)'
  <2>1. CASE x = at
    BY <1>5, <1>9, <2>1
  <2>2. CASE x \in {l, r}
    BY <1>4, <2>2 DEF InUse
  <2>3. CASE x \in DOMAIN rebalanced
    <3>1. IsOp(rebalanced[x]) \/ InUse(x)
      BY <2>3 DEF AllUsed
    <3>2. rebalanced'[x] = rebalanced[x]
      BY <1>5, <2>3 DEF Continues
    <3>3. InUse(x) => InUse(x)'
      BY <1>4 DEF InUse
    <3> QED
      BY <3>1, <3>2, <3>3
  <2> QED
    BY <1>5, <1>6, <2>1, <2>2, <2>3
<1>11. ASSUME NEW k \in DOMAIN queue', queue'[k].gate \notin Old
       PROVE  IsOp(rebalanced'[map'[queue'[k].gate]])
  <2>1. CASE k = n - 1
    BY <1>5, <1>8, <1>9, <2>1
  <2>2. CASE k # n - 1
    <3>1. k \in 1 .. n - 2
      BY <1>8, <2>2
    <3>2. PICK h \in DOMAIN queue : queue'[k] = queue[h]
      BY <1>8, <3>1
    <3>3. queue[h].gate \in DOMAIN map /\ IsOp(rebalanced[map[queue[h].gate]])
      BY <1>11, <3>2 DEF AllUsed, RebalanceInv, QueueHeld
    <3>4. map[queue[h].gate] \in DOMAIN rebalanced
      BY <3>3 DEF RebalanceInv, RebalanceTypeOK
    <3>5. map'[queue[h].gate] = map[queue[h].gate]
      BY <1>5, <1>7, <3>3 DEF Grown, Here
    <3>6. rebalanced'[map[queue[h].gate]] = rebalanced[map[queue[h].gate]]
      BY <1>5, <3>4 DEF Continues
    <3> QED
      BY <3>2, <3>3, <3>5, <3>6
  <2> QED
    BY <2>1, <2>2
<1> QED
  BY <1>10, <1>11

LEMMA AllUsedStep ==
  ASSUME RebalanceInv, UsesHeld, ConstsHeld(rebalanced), AllUsed, [BalanceStep]_rebalanceVars
  PROVE  AllUsed'
<1>1. circuit' = circuit /\ (NoConstant' <=> NoConstant) /\ Old' = Old
  <2>1. circuit' = circuit
    BY StepCases DEF Untouched, NextRoot, BalanceLeaf, Flatten, Combine, FinishRoot
  <2> QED
    BY <2>1 DEF NoConstant, Old
<1> SUFFICES ASSUME NoConstant
             PROVE  /\ \A x \in DOMAIN rebalanced' : IsOp(rebalanced'[x]) \/ InUse(x)'
                    /\ \A k \in DOMAIN queue' :
                         queue'[k].gate \notin Old => IsOp(rebalanced'[map'[queue'[k].gate]])
  BY <1>1 DEF AllUsed
<1>2. CASE UNCHANGED <<queue, map, rebalanced, usages>>
  BY <1>2 DEF AllUsed, InUse
<1>3. CASE Flatten
  <2>1. UNCHANGED <<map, rebalanced, usages>>
    BY <1>3 DEF Flatten
  <2>2. \A k \in DOMAIN queue' : queue'[k].gate \in Old
    <3>1. DOMAIN queue' = DOMAIN Leaves(Innermost)
          /\ \A k \in DOMAIN queue' : queue'[k].gate = Leaves(Innermost)[k]
      BY <1>3 DEF Flatten
    <3>2. balancing # << >>
      BY <1>3 DEF Flatten, Balancing
    <3>3. Leaves(Innermost) \in Seq(Old)
      BY <3>2, InnermostIs, LeavesAre DEF RebalanceInv, StackHeld
    <3> QED
      BY <3>1, <3>3, LenProperties, ElementOfSeq
  <2> QED
    BY <2>1, <2>2 DEF AllUsed, InUse
<1>4. CASE FinishRoot
  <2>1. /\ queue' = << >> /\ rebalanced' = rebalanced
        /\ usages' = [g \in DOMAIN usages |->
                        IF Innermost \in Range(circuit.outputs) /\ g = RebuiltAs
                        THEN usages[g] \cup {g} ELSE usages[g]]
    BY <1>4 DEF FinishRoot
  <2>2. \A x : InUse(x) => InUse(x)'
    BY <2>1 DEF InUse
  <2> QED
    BY <2>1, <2>2 DEF AllUsed
<1> QED
  BY <1>2, <1>3, <1>4, CombineUsesAll, StepCases DEF Untouched, NextRoot, BalanceLeaf

LEMMA AllUsedInit == RebalanceInit => AllUsed
<1> SUFFICES ASSUME RebalanceInit
             PROVE  AllUsed
  OBVIOUS
<1>1. queue = << >> /\ rebalanced = << >>
  BY DEF RebalanceInit
<1>2. DOMAIN rebalanced = {} /\ DOMAIN queue = {}
  BY <1>1
<1> QED
  BY <1>2 DEF AllUsed

-----------------------------------------------------------------------------
\* What is queued is of almost the same rank.

\* Of q elements, each made of the leaves S[k], n in all, r[k] in number: the ranks lie
\* between a power of two and the next, all but one at either end, and the levels are the
\* logarithms of the ranks, rounded up, at most.
Even(q, r, l, S, n, m) ==
  LET b == PowersOfTwo(n)[m]
  IN  /\ m \in 1 .. n
      /\ r \in [1 .. q -> Nat] /\ l \in [1 .. q -> Nat] /\ S \in [1 .. q -> SUBSET (1 .. n)]
      /\ \A k \in 1 .. q : /\ b <= r[k] /\ r[k] <= 2 * b
                           /\ l[k] <= m /\ (r[k] = b => l[k] < m)
                           /\ Cardinality(S[k]) = r[k]
      /\ \A k, h \in 1 .. q : k # h => /\ S[k] \cap S[h] = {}
                                       /\ r[k] \in {b, 2 * b} \/ r[h] \in {b, 2 * b}

\* Two sets of leaves that lie apart.
LEMMA LeavesTogether ==
  ASSUME NEW n \in Nat, NEW A \in SUBSET (1 .. n), NEW B \in SUBSET (1 .. n), A \cap B = {}
  PROVE  /\ Cardinality(A \cup B) = Cardinality(A) + Cardinality(B)
         /\ Cardinality(A \cup B) <= n
<1>1. IsFiniteSet(1 .. n) /\ Cardinality(1 .. n) = n
  BY FS_Interval
<1>2. IsFiniteSet(A) /\ IsFiniteSet(B)
  BY <1>1, FS_Subset
<1>3. Cardinality(A \cup B) = Cardinality(A) + Cardinality(B) - Cardinality(A \cap B)
  BY <1>2, FS_Union
<1>4. Cardinality(A \cap B) = 0
  BY FS_EmptySet
<1>5. Cardinality(A) \in Nat /\ Cardinality(B) \in Nat
  BY <1>2, FS_CardinalityType
<1>6. Cardinality(A \cup B) <= Cardinality(1 .. n)
  BY <1>1, FS_Subset
<1> QED
  BY <1>1, <1>3, <1>4, <1>5, <1>6

\* The i-th and the j-th element, two of the lowest rank, are put together, and the others
\* stay, in any order.
PutTogether(q, r, l, i, j, from, r2, l2) ==
  /\ i \in 1 .. q /\ j \in 1 .. q /\ i # j
  /\ \A k \in 1 .. q : r[i] <= r[k]
  /\ \A k \in (1 .. q) \ {i} : r[j] <= r[k]
  /\ from \in [1 .. q - 2 -> (1 .. q) \ {i, j}]
  /\ \A k, h \in 1 .. q - 2 : k # h => from[k] # from[h]
  /\ r2 \in [1 .. q - 1 -> Nat] /\ l2 \in [1 .. q - 1 -> Nat]
  /\ \A k \in 1 .. q - 2 : r2[k] = r[from[k]] /\ l2[k] = l[from[k]]
  /\ r2[q - 1] = r[i] + r[j] /\ l2[q - 1] = 1 + Larger(l[i], l[j])

\* They remain even.
LEMMA EvenStep ==
  ASSUME NEW n \in Nat, NEW q \in Nat, q > 1, NEW r, NEW l, NEW S, NEW m, Even(q, r, l, S, n, m),
         NEW i, NEW j, NEW from, NEW r2, NEW l2, PutTogether(q, r, l, i, j, from, r2, l2)
  PROVE  \E m2, S2 : Even(q - 1, r2, l2, S2, n, m2)
<1> DEFINE power == PowersOfTwo(n)
           b == power[m]
           S2 == [k \in 1 .. q - 1 |-> IF k = q - 1 THEN S[i] \cup S[j] ELSE S[from[k]]]
<1>0. /\ i \in 1 .. q /\ j \in 1 .. q /\ i # j
      /\ \A k \in 1 .. q : r[i] <= r[k]
      /\ \A k \in (1 .. q) \ {i} : r[j] <= r[k]
      /\ from \in [1 .. q - 2 -> (1 .. q) \ {i, j}]
      /\ \A k, h \in 1 .. q - 2 : k # h => from[k] # from[h]
      /\ r2 \in [1 .. q - 1 -> Nat] /\ l2 \in [1 .. q - 1 -> Nat]
      /\ \A k \in 1 .. q - 2 : r2[k] = r[from[k]] /\ l2[k] = l[from[k]]
      /\ r2[q - 1] = r[i] + r[j] /\ l2[q - 1] = 1 + Larger(l[i], l[j])
  BY DEF PutTogether
<1> USE <1>0
<1>1. /\ m \in 1 .. n
      /\ r \in [1 .. q -> Nat] /\ l \in [1 .. q -> Nat] /\ S \in [1 .. q -> SUBSET (1 .. n)]
      /\ \A k \in 1 .. q : /\ b <= r[k] /\ r[k] <= 2 * b
                           /\ l[k] <= m /\ (r[k] = b => l[k] < m)
                           /\ Cardinality(S[k]) = r[k]
      /\ \A k, h \in 1 .. q : k # h => /\ S[k] \cap S[h] = {}
                                       /\ r[k] \in {b, 2 * b} \/ r[h] \in {b, 2 * b}
  BY DEF Even
<1>2. /\ b \in Nat /\ b >= m
      /\ \A k \in 1 .. n : power[k] = IF k = 1 THEN 1 ELSE 2 * power[k - 1]
  BY <1>1, PowersAre
<1> HIDE DEF power, b
<1>3. Cardinality(S[i] \cup S[j]) = r[i] + r[j] /\ r[i] + r[j] <= n
  <2>1. /\ Cardinality(S[i] \cup S[j]) = Cardinality(S[i]) + Cardinality(S[j])
        /\ Cardinality(S[i] \cup S[j]) <= n
    <3>1. S[i] \in SUBSET (1 .. n) /\ S[j] \in SUBSET (1 .. n) /\ S[i] \cap S[j] = {}
      BY <1>1
    <3> QED
      BY <3>1, LeavesTogether
  <2> QED
    BY <1>1, <2>1
<1>4. /\ \A k \in 1 .. q - 1 : k = q - 1 \/ k \in 1 .. q - 2
      /\ q - 1 \in 1 .. q - 1
      /\ \A k \in 1 .. q - 2 : /\ from[k] \in 1 .. q /\ from[k] # i /\ from[k] # j
                               /\ k \in 1 .. q - 1 /\ k # q - 1
  OBVIOUS
<1>5. /\ S2 \in [1 .. q - 1 -> SUBSET (1 .. n)]
      /\ S2[q - 1] = S[i] \cup S[j]
      /\ \A k \in 1 .. q - 2 : S2[k] = S[from[k]]
  BY <1>1, <1>4
<1> HIDE DEF S2
<1>6. \A k, h \in 1 .. q - 1 : k # h => S2[k] \cap S2[h] = {}
  <2>1. ASSUME NEW k \in 1 .. q - 2, NEW h \in 1 .. q - 2, k # h
        PROVE  S2[k] \cap S2[h] = {}
    <3>1. from[k] # from[h] /\ from[k] \in 1 .. q /\ from[h] \in 1 .. q
      BY <1>4, <2>1
    <3>2. S[from[k]] \cap S[from[h]] = {}
      BY <1>1, <3>1
    <3> QED
      BY <1>5, <3>2
  <2>2. \A k \in 1 .. q - 2 : S2[k] \cap S2[q - 1] = {}
    <3>1. \A k \in 1 .. q - 2 : S[from[k]] \cap S[i] = {} /\ S[from[k]] \cap S[j] = {}
      BY <1>1, <1>4
    <3> QED
      BY <1>5, <3>1
  <2> QED
    BY <1>4, <2>1, <2>2
<1>7. \A k \in 1 .. q - 1 : Cardinality(S2[k]) = r2[k]
  <2>1. ASSUME NEW k \in 1 .. q - 2
        PROVE  Cardinality(S2[k]) = r2[k]
    <3>1. from[k] \in 1 .. q /\ S2[k] = S[from[k]] /\ r2[k] = r[from[k]]
      BY <1>4, <1>5
    <3> QED
      BY <1>1, <3>1
  <2> QED
    BY <1>3, <1>4, <1>5, <2>1
<1>8. /\ r[i] \in Nat /\ r[j] \in Nat /\ b <= r[i] /\ r[i] <= r[j] /\ r[j] <= 2 * b
      /\ l[i] \in Nat /\ l[j] \in Nat /\ l[i] <= m /\ l[j] <= m
      /\ r[i] = b => l[i] < m
      /\ r[j] = b => l[j] < m
  BY <1>1
<1>9. m \in Nat \ {0} /\ b # 0
  <2>1. m \in 1 .. n
    BY <1>1
  <2> QED
    BY <1>2, <2>1
<1>10. CASE r[j] = b
  <2>1. r[i] = b
    BY <1>2, <1>8, <1>10
  <2>2. r2[q - 1] = 2 * b /\ l2[q - 1] <= m /\ 2 * b # b
    <3> DEFINE s == r2[q - 1]
               t == l2[q - 1]
               x == l[i]
               y == l[j]
    <3>1. /\ s = b + b /\ t = 1 + Larger(x, y) /\ x \in Nat /\ y \in Nat /\ x < m /\ y < m
          /\ b \in Nat
      BY <1>2, <1>8, <1>10, <2>1
    <3> HIDE DEF s, t, x, y
    <3>2. s = 2 * b /\ t <= m /\ 2 * b # b
      BY <1>9, <3>1 DEF Larger
    <3> QED
      BY <3>2 DEF s, t
  <2>3. ASSUME NEW k \in 1 .. q - 2
        PROVE  /\ b <= r2[k] /\ r2[k] <= 2 * b
               /\ l2[k] <= m /\ (r2[k] = b => l2[k] < m)
    <3>1. from[k] \in 1 .. q /\ r2[k] = r[from[k]] /\ l2[k] = l[from[k]]
      BY <1>4
    <3> QED
      BY <1>1, <3>1
  <2>4. \A k \in 1 .. q - 1 : /\ b <= r2[k] /\ r2[k] <= 2 * b
                              /\ l2[k] <= m /\ (r2[k] = b => l2[k] < m)
    <3>1. b <= r2[q - 1] /\ r2[q - 1] <= 2 * b
      BY <1>2, <2>2
    <3> QED
      BY <1>4, <2>2, <2>3, <3>1
  <2>5. \A k, h \in 1 .. q - 1 : k # h => r2[k] \in {b, 2 * b} \/ r2[h] \in {b, 2 * b}
    <3>1. \A k, h \in 1 .. q - 2 : k # h => r2[k] \in {b, 2 * b} \/ r2[h] \in {b, 2 * b}
      <4>1. ASSUME NEW k \in 1 .. q - 2, NEW h \in 1 .. q - 2, k # h
            PROVE  r2[k] \in {b, 2 * b} \/ r2[h] \in {b, 2 * b}
        <5>1. /\ from[k] # from[h] /\ r2[k] = r[from[k]] /\ r2[h] = r[from[h]]
              /\ from[k] \in 1 .. q /\ from[h] \in 1 .. q
          BY <1>4, <4>1
        <5> QED
          BY <1>1, <1>4, <5>1
      <4> QED
        BY <4>1
    <3> QED
      BY <1>4, <2>2, <3>1
  <2>6. Even(q - 1, r2, l2, S2, n, m)
    BY <1>1, <1>5, <1>6, <1>7, <2>4, <2>5 DEF Even, b, power
  <2> QED
    BY <2>6
<1>11. CASE r[j] # b
  <2> DEFINE b2 == 2 * b
  <2>1. r[j] > b
    <3> DEFINE v == r[j]
    <3>1. v \in Nat /\ b \in Nat /\ b <= r[i] /\ r[i] <= v /\ r[i] \in Nat /\ v # b
      BY <1>2, <1>8, <1>11
    <3> HIDE DEF v
    <3>2. v > b
      BY <3>1
    <3> QED
      BY <3>2 DEF v
  <2>2. \A k \in 1 .. q - 2 : r2[k] = b2 /\ l2[k] <= m
    <3>1. ASSUME NEW k \in 1 .. q - 2 PROVE r2[k] = b2 /\ l2[k] <= m
      <4> DEFINE h == from[k]
      <4>1. h \in 1 .. q /\ h # i /\ h # j /\ r2[k] = r[h] /\ l2[k] = l[h]
        BY <1>4
      <4> HIDE DEF h
      <4>2. /\ r[j] <= r[h] /\ r[h] \in Nat /\ r[h] <= 2 * b /\ l[h] <= m
            /\ r[h] \in {b, 2 * b} \/ r[j] \in {b, 2 * b}
        BY <1>1, <4>1
      <4>3. r[h] = 2 * b
        <5> DEFINE u == r[h]
                   v == r[j]
        <5>1. /\ v <= u /\ u \in Nat /\ v \in Nat /\ b \in Nat /\ b < v /\ u <= 2 * b
              /\ u = b \/ u = 2 * b \/ v = b \/ v = 2 * b
          BY <1>2, <1>8, <2>1, <4>2
        <5> HIDE DEF u, v
        <5>2. u = 2 * b
          BY <5>1
        <5> QED
          BY <5>2 DEF u
      <4> QED
        BY <4>1, <4>2, <4>3
    <3> QED
      BY <3>1
  <2>3. /\ b2 < r2[q - 1] /\ r2[q - 1] <= 2 * b2 /\ l2[q - 1] <= m + 1
        /\ b2 <= n /\ b2 \in Nat
    <3> DEFINE s == r2[q - 1]
               t == l2[q - 1]
               x == l[i]
               y == l[j]
               u == r[i]
               v == r[j]
    <3>1. /\ s = u + v /\ u \in Nat /\ v \in Nat /\ b <= u /\ u <= v /\ b < v /\ v <= 2 * b
          /\ t = 1 + Larger(x, y) /\ x \in Nat /\ y \in Nat /\ x <= m /\ y <= m
          /\ b \in Nat /\ u + v <= n
      BY <1>2, <1>3, <1>8, <2>1
    <3> HIDE DEF s, t, x, y, u, v
    <3>2. t <= m + 1
      BY <1>9, <3>1 DEF Larger
    <3>3. 2 * b < s /\ s <= 2 * (2 * b) /\ 2 * b <= n
      BY <3>1
    <3> QED
      BY <1>2, <3>2, <3>3 DEF s, t
  <2>4. m + 1 \in 1 .. n /\ power[m + 1] = b2
    <3>1. m + 1 \in 1 .. n
      BY <1>2, <1>9, <2>3
    <3> QED
      BY <1>2, <1>9, <3>1 DEF b
  <2> HIDE DEF b2
  <2>5. \A k \in 1 .. q - 1 : /\ b2 <= r2[k] /\ r2[k] <= 2 * b2
                              /\ l2[k] <= m + 1 /\ (r2[k] = b2 => l2[k] < m + 1)
    <3>1. \A k \in 1 .. q - 2 : /\ b2 <= r2[k] /\ r2[k] <= 2 * b2
                                /\ l2[k] <= m + 1 /\ (r2[k] = b2 => l2[k] < m + 1)
      <4>1. ASSUME NEW k \in 1 .. q - 2
            PROVE  /\ b2 <= r2[k] /\ r2[k] <= 2 * b2
                   /\ l2[k] <= m + 1 /\ (r2[k] = b2 => l2[k] < m + 1)
        <5> DEFINE s == r2[k]
                   t == l2[k]
        <5>1. s = b2 /\ t <= m /\ t \in Nat /\ b2 \in Nat
          BY <1>4, <2>2, <2>3
        <5> HIDE DEF s, t
        <5>2. /\ b2 <= s /\ s <= 2 * b2
              /\ t <= m + 1 /\ (s = b2 => t < m + 1)
          BY <1>9, <5>1
        <5> QED
          BY <5>2 DEF s, t
      <4> QED
        BY <4>1
    <3>2. /\ b2 <= r2[q - 1] /\ r2[q - 1] # b2
      BY <1>4, <2>3
    <3> QED
      BY <1>4, <2>3, <3>1, <3>2
  <2>6. \A k, h \in 1 .. q - 1 : k # h => r2[k] \in {b2, 2 * b2} \/ r2[h] \in {b2, 2 * b2}
    BY <1>4, <2>2
  <2>7. Even(q - 1, r2, l2, S2, n, m + 1)
    BY <1>5, <1>6, <1>7, <2>4, <2>5, <2>6 DEF Even, power
  <2> QED
    BY <2>7
<1> QED
  BY <1>10, <1>11

\* At first each leaf is an element, of rank 1; what is left at last is the whole tree.
LEMMA EvenLeaves ==
  ASSUME NEW n \in Nat \ {0}
  PROVE  Even(n, [k \in 1 .. n |-> 1], [k \in 1 .. n |-> 0], [k \in 1 .. n |-> {k}], n, 1)
<1>1. PowersOfTwo(n)[1] = 1
  <2>1. 1 \in 1 .. n
    OBVIOUS
  <2> QED
    BY <2>1, PowersAre
<1>2. \A k : Cardinality({k}) = 1
  BY FS_Singleton
<1>3. [k \in 1 .. n |-> {k}] \in [1 .. n -> SUBSET (1 .. n)]
  OBVIOUS
<1> QED
  BY <1>1, <1>2, <1>3 DEF Even

LEMMA EvenLast ==
  ASSUME NEW n \in Nat, NEW r, NEW l, NEW S, NEW m, Even(1, r, l, S, n, m), l[1] > 0
  PROVE  \E k \in 1 .. n : l[1] <= k /\ PowersOfTwo(n)[k] < n
<1> DEFINE power == PowersOfTwo(n)
           b == power[m]
           x == r[1]
           y == l[1]
<1>1. /\ m \in 1 .. n /\ x \in Nat /\ y \in Nat /\ b <= x /\ y <= m /\ (x = b => y < m)
      /\ S[1] \in SUBSET (1 .. n) /\ Cardinality(S[1]) = x
  <2>1. 1 \in 1 .. 1
    OBVIOUS
  <2> QED
    BY <2>1 DEF Even
<1>2. x <= n
  <2>1. IsFiniteSet(1 .. n) /\ Cardinality(1 .. n) = n
    BY FS_Interval
  <2> QED
    BY <1>1, <2>1, FS_Subset
<1>3. \A k \in 1 .. n : power[k] \in Nat /\ power[k] >= k
                        /\ power[k] = IF k = 1 THEN 1 ELSE 2 * power[k - 1]
  BY PowersAre
<1> HIDE DEF x
<1>4. CASE x = b
  <2>1. y < m /\ m - 1 \in 1 .. n /\ y <= m - 1
    BY <1>1, <1>4
  <2>2. b = 2 * power[m - 1] /\ power[m - 1] \in Nat /\ power[m - 1] >= m - 1
    BY <1>1, <1>3, <2>1
  <2>3. power[m - 1] < n
    <3> DEFINE p == power[m - 1]
    <3>1. p \in Nat /\ p >= m - 1 /\ m - 1 >= 1 /\ 2 * p <= n /\ m \in Nat
      BY <1>1, <1>2, <1>4, <2>1, <2>2
    <3> HIDE DEF p
    <3>2. p < n
      BY <3>1
    <3> QED
      BY <3>2 DEF p
  <2> QED
    BY <2>1, <2>3
<1>5. CASE x # b
  <2>1. b \in Nat
    BY <1>1, <1>3
  <2>2. b < n
    BY <1>1, <1>2, <1>5, <2>1
  <2> QED
    BY <1>1, <2>2
<1> QED
  BY <1>4, <1>5

-----------------------------------------------------------------------------
\* The elements of the queue are even, in a circuit that is one tree.

LEMMA OneTreeIs ==
  ASSUME RebalanceInv, RootsHeld, OneTree
  PROVE  /\ OneOperation /\ NoConstant /\ Output \in Old
         /\ balancing # << >> => Innermost = Output /\ Output \notin Balanced
         /\ \A k \in DOMAIN queue : queue[k].gate \in Old => ~ IsOp(circuit.gates[queue[k].gate])
<1>1. AllRoots = {Output} /\ NoConstant /\ Len(circuit.outputs) = 1
  BY DEF OneTree, AllRoots, Output, NoConstant
<1>2. Output \in Old /\ IsOp(circuit.gates[Output])
  BY <1>1 DEF AllRoots, IsRoot
<1>3. ASSUME balancing # << >>
      PROVE  Innermost = Output /\ Output \notin Balanced
  <2>1. Innermost \in Range(balancing) /\ Innermost \notin Balanced
    BY <1>3, InnermostIs DEF Range, Innermost
  <2> QED
    BY <1>1, <2>1 DEF RootsHeld
<1>4. ASSUME NEW k \in DOMAIN queue, queue[k].gate \in Old, IsOp(circuit.gates[queue[k].gate])
      PROVE  FALSE
  <2>1. queue[k].gate \in Balanced
    BY <1>4 DEF RebalanceInv, QueueHeld
  <2>2. queue[k].gate = Output
    BY <1>1, <2>1 DEF RootsHeld
  <2>3. balancing # << >>
    BY <1>4 DEF RebalanceInv, StackHeld
  <2> QED
    BY <1>3, <2>1, <2>2, <2>3
<1> QED
  BY <1>1, <1>2, <1>3, <1>4 DEF OneOperation, Output

Size == Len(Leaves(Output))
RankOf == [k \in 1 .. Len(queue) |-> queue[k].rank]
LevelOf(d) == [k \in 1 .. Len(queue) |-> IF queue[k].gate \in Old THEN 0 ELSE d[map[queue[k].gate]]]
WellBuilt(d) ==
  /\ IsOp(rebalanced[map[Output]])
  /\ \E k \in 1 .. Size : d[map[Output]] <= k /\ PowersOfTwo(Size)[k] < Size

TreeEven ==
  OneTree => \E d : /\ Levels(rebalanced, d)
                    /\ queue # << >> => \E m, S : Even(Len(queue), RankOf, LevelOf(d), S, Size, m)
                    /\ Output \in Balanced => WellBuilt(d)

LEMMA TreeStays ==
  ASSUME circuit' = circuit
  PROVE  Size' = Size /\ Output' = Output /\ Old' = Old /\ (OneTree' <=> OneTree)
<1>1. Output' = Output /\ Old' = Old
  BY DEF Output, Old
<1>2. Leaves(Output)' = Leaves(Output)
  BY <1>1 DEF Leaves, IsRoot
<1>3. OneTree' <=> OneTree
  BY <1>1 DEF OneTree, IsRoot
<1> QED
  BY <1>1, <1>2, <1>3 DEF Size

LEMMA FlattenEven ==
  ASSUME RebalanceInv, RootsHeld, TreeEven, OneTree, Flatten
  PROVE  TreeEven'
<1> DEFINE leaves == Leaves(Output)
<1>1. /\ balancing # << >> /\ queue = << >>
      /\ UNCHANGED <<circuit, balancing, map, rebalanced>>
  BY DEF Flatten, Balancing
<1>2. /\ Innermost = Output /\ Output \notin Balanced /\ Output \in Old /\ NoConstant
      /\ AllRoots = {Output} /\ IsOp(circuit.gates[Output]) /\ circuit \in Circuits
  BY <1>1, OneTreeIs DEF OneTree, AllRoots, Output, OneOperation, RebalanceInv, StackHeld
<1>3. /\ queue' = [i \in DOMAIN leaves |-> [gate |-> leaves[i], rank |-> Rank(leaves[i])]]
      /\ leaves \in Seq(Old) /\ DOMAIN leaves = 1 .. Size /\ Size \in Nat \ {0}
      /\ \A i \in DOMAIN leaves :
           /\ leaves[i] < Output
           /\ IsOp(circuit.gates[leaves[i]]) => IsRoot(circuit, leaves[i])
  <2>1. /\ leaves \in Seq(Old) /\ Len(leaves) > 1
        /\ \A i \in DOMAIN leaves :
             /\ leaves[i] < Output
             /\ IsOp(circuit.gates[leaves[i]]) => IsRoot(circuit, leaves[i])
    BY <1>2, LeavesAre
  <2>2. DOMAIN leaves = 1 .. Size /\ Size \in Nat \ {0}
    BY <2>1, LenProperties DEF Size
  <2> QED
    BY <1>2, <2>1, <2>2 DEF Flatten
<1> HIDE DEF leaves
<1>4. Len(queue') = Size /\ queue' # << >>
  <2>1. queue' \in Seq([gate : Old, rank : {Rank(leaves[i]) : i \in DOMAIN leaves}])
    <3>1. \A i \in DOMAIN leaves : leaves[i] \in Old
      BY <1>3, ElementOfSeq
    <3>2. queue' \in [1 .. Size -> [gate : Old, rank : {Rank(leaves[i]) : i \in DOMAIN leaves}]]
      BY <1>3, <3>1
    <3> QED
      BY <1>3, <3>2, SeqDef
  <2>2. DOMAIN queue' = 1 .. Size
    BY <1>3
  <2>3. DOMAIN queue' = 1 .. Len(queue') /\ Len(queue') \in Nat
    BY <2>1, LenProperties
  <2>4. Len(queue') = Size
    BY <1>3, <2>2, <2>3
  <2>5. Len(<< >>) = 0
    OBVIOUS
  <2> QED
    BY <1>3, <2>4, <2>5
<1>5. ASSUME NEW i \in 1 .. Size
      PROVE  queue'[i].gate \in Old /\ queue'[i].rank = 1
  <2>1. leaves[i] \in Old /\ leaves[i] < Output
    BY <1>3, ElementOfSeq
  <2>2. circuit.gates[leaves[i]] \in Node /\ Output \in Nat
    BY <1>2, <2>1, GivenCircuit
  <2>3. ~ IsOp(circuit.gates[leaves[i]])
    <3>1. leaves[i] # Output
      BY <2>1, <2>2
    <3> QED
      BY <1>2, <1>3, <2>1, <3>1 DEF AllRoots
  <2>4. IsInput(circuit.gates[leaves[i]]) /\ ~ IsConst(circuit.gates[leaves[i]])
    <3>1. \A n \in Node : IsInput(n) \/ IsConst(n) \/ IsOp(n)
      BY DEF Node, IsInput, IsConst, IsOp
    <3>2. ~ IsConst(circuit.gates[leaves[i]])
      BY <1>2, <2>1 DEF NoConstant
    <3> QED
      BY <2>2, <2>3, <3>1, <3>2
  <2>5. Rank(leaves[i]) = 1
    BY <2>3, <2>4 DEF Rank
  <2> QED
    BY <1>3, <2>1, <2>5
<1>6. PICK d : Levels(rebalanced, d)
  BY DEF TreeEven
<1>7. Even(Len(queue'), RankOf', LevelOf(d)', [k \in 1 .. Size |-> {k}], Size, 1)
  <2>1. RankOf' = [k \in 1 .. Size |-> 1]
    BY <1>4, <1>5 DEF RankOf
  <2>2. LevelOf(d)' = [k \in 1 .. Size |-> 0]
    BY <1>1, <1>4, <1>5 DEF LevelOf, Old
  <2> QED
    BY <1>3, <1>4, <2>1, <2>2, EvenLeaves
<1>8. Size' = Size /\ Output' = Output /\ ~ (Output \in Balanced)'
  BY <1>1, <1>2, TreeStays DEF Balanced, Old
<1> QED
  BY <1>1, <1>6, <1>7, <1>8 DEF TreeEven, Levels

LEMMA FinishRootEven ==
  ASSUME RebalanceInv, RootsHeld, TreeEven, AllUsed, OneTree, FinishRoot
  PROVE  TreeEven'
<1>1. /\ balancing # << >> /\ Len(queue) = 1 /\ queue' = << >>
      /\ UNCHANGED <<circuit, rebalanced>> /\ map' = Put(map, Innermost, RebuiltAs)
  BY DEF FinishRoot, Built, Balancing
<1>2. Innermost = Output /\ NoConstant
  BY <1>1, OneTreeIs
<1>3. 1 \in DOMAIN queue /\ queue # << >> /\ queue[1].gate \notin Old
  <2>1. queue \in Seq([gate : Nat, rank : Nat]) /\ queue[1].gate \notin Old
    BY <1>1 DEF RebalanceInv, QueueHeld
  <2> QED
    BY <1>1, <2>1, LenProperties
<1>4. PICK d, m, S : /\ Levels(rebalanced, d)
                     /\ Even(1, RankOf, LevelOf(d), S, Size, m)
  BY <1>1, <1>3 DEF TreeEven
<1>5. /\ RebuiltAs \in DOMAIN rebalanced /\ IsOp(rebalanced[RebuiltAs])
      /\ LevelOf(d)[1] = d[RebuiltAs]
  <2>1. queue[1].gate \in DOMAIN map
    BY <1>3 DEF RebalanceInv, QueueHeld
  <2>2. RebuiltAs \in DOMAIN rebalanced
    BY <2>1 DEF RebuiltAs, RebalanceInv, RebalanceTypeOK
  <2>3. LevelOf(d)[1] = d[RebuiltAs]
    BY <1>1, <1>3 DEF LevelOf, RebuiltAs
  <2> QED
    BY <1>2, <1>3, <2>2, <2>3 DEF AllUsed, RebuiltAs
<1>6. d[RebuiltAs] > 0
  <2> DEFINE x == RebuiltAs
             y == rebalanced[x].lhs
  <2>1. x \in DOMAIN rebalanced /\ y \in DOMAIN rebalanced
    BY <1>5, OperandsBefore DEF RebalanceInv, RebalanceTypeOK
  <2>2. d[y] \in Nat /\ d[x] \in Nat /\ d[y] < d[x]
    BY <1>4, <1>5, <2>1 DEF Levels
  <2> HIDE DEF x, y
  <2>3. d[x] > 0
    BY <2>2
  <2> QED
    BY <2>3 DEF x
<1>7. \E k \in 1 .. Size : d[RebuiltAs] <= k /\ PowersOfTwo(Size)[k] < Size
  <2>1. Size \in Nat
    <3>1. Leaves(Output) \in Seq(Old)
      BY OneTreeIs, LeavesAre DEF OneOperation, Output, RebalanceInv, StackHeld
    <3> QED
      BY <3>1, LenProperties DEF Size
  <2> QED
    BY <1>4, <1>5, <1>6, <2>1, EvenLast
<1>8. Size' = Size /\ Output' = Output /\ map'[Output] = RebuiltAs
  BY <1>1, <1>2, TreeStays DEF Put
<1>9. WellBuilt(d)'
  BY <1>1, <1>5, <1>7, <1>8 DEF WellBuilt
<1>10. Levels(rebalanced, d)' /\ queue' = << >>
  BY <1>1, <1>4 DEF Levels
<1> QED
  BY <1>9, <1>10 DEF TreeEven

\* The levels of the new gates: a leaf has none, and the gate that is made comes after what
\* it is made from.
LEMMA CombineLevels ==
  ASSUME RebalanceInv, RootsHeld, UsesHeld, ConstsHeld(rebalanced), OneTree, balancing # << >>,
         NEW i \in DOMAIN queue, NEW j \in DOMAIN queue, i # j, CombineOf(i, j),
         NEW d, Levels(rebalanced, d)
  PROVE  \E e : /\ Levels(rebalanced', e)
                /\ \A x \in DOMAIN rebalanced : e[x] = d[x]
                /\ e[map'[index]] = 1 + Larger(LevelOf(d)[i], LevelOf(d)[j])
<1> DEFINE c == Combination(i, j)
           to == c.to
           at == Len(to.arena) + 1
           l == to.map[queue[i].gate]
           r == to.map[queue[j].gate]
           level(x) == IF x \in DOMAIN rebalanced THEN d[x] ELSE 0
           made == 1 + Larger(level(l), level(r))
           e == [x \in DOMAIN rebalanced' |-> IF x = at THEN made ELSE level(x)]
<1>1. NoConstant /\ \A k \in DOMAIN queue : queue[k].gate \in Old => ~ IsOp(circuit.gates[queue[k].gate])
  BY OneTreeIs
<1>2. GateMade(i, j) = c.gate
  BY <1>1, NothingFolded
<1>3. /\ Sound(to) /\ Grown(to, Here)
      /\ queue[i].gate \in DOMAIN to.map /\ queue[j].gate \in DOMAIN to.map
      /\ c.gate = OpNode(circuit.gates[Innermost].op, l, r)
  BY CombinationHolds
<1>4. /\ Continues(rebalanced', to.arena) /\ Continues(rebalanced', rebalanced)
      /\ DOMAIN rebalanced' = DOMAIN to.arena \cup {at} /\ at \notin DOMAIN to.arena
      /\ rebalanced'[at] = c.gate /\ map'[index] = at
  BY <1>2, CombineGrows
<1>5. \A x \in DOMAIN to.arena : x \in DOMAIN rebalanced \/ ~ IsOp(to.arena[x])
  BY CombinationAdds
<1>6. \A g \in Old \cap DOMAIN to.map :
        ~ IsOp(circuit.gates[g]) => to.arena[to.map[g]] = circuit.gates[g]
  BY GateTold DEF UsesHeld
<1>7. l \in DOMAIN to.arena /\ r \in DOMAIN to.arena
  BY <1>3 DEF Sound
<1>8. /\ DOMAIN rebalanced \subseteq DOMAIN to.arena
      /\ \A x \in DOMAIN rebalanced : to.arena[x] = rebalanced[x] /\ rebalanced'[x] = rebalanced[x]
      /\ \A x \in DOMAIN to.arena : rebalanced'[x] = to.arena[x]
  BY <1>3, <1>4 DEF Grown, Here, Continues
<1>9. \A x \in DOMAIN to.arena : level(x) \in Nat /\ x # at
  BY <1>4 DEF Levels
<1>10. rebalanced \in Seq(Node) /\ Topological(rebalanced)
  BY DEF RebalanceInv, RebalanceTypeOK
<1> HIDE DEF c, to, at, l, r
<1>11. level(l) \in Nat /\ level(r) \in Nat /\ made \in Nat
       /\ level(l) < made /\ level(r) < made
  <2>1. level(l) \in Nat /\ level(r) \in Nat
    BY <1>7, <1>9
  <2> HIDE DEF level
  <2> QED
    BY <2>1 DEF Larger
<1>12. /\ e \in [DOMAIN rebalanced' -> Nat] /\ e[at] = made
       /\ \A x \in DOMAIN to.arena : e[x] = level(x)
  <2> HIDE DEF level, made
  <2>1. \A x \in DOMAIN rebalanced' : x = at \/ x \in DOMAIN to.arena
    BY <1>4
  <2>2. \A x \in DOMAIN rebalanced' : (IF x = at THEN made ELSE level(x)) \in Nat
    BY <1>9, <1>11, <2>1
  <2>3. e \in [DOMAIN rebalanced' -> Nat]
    BY <2>2
  <2>4. e[at] = made
    BY <1>4
  <2>5. \A x \in DOMAIN to.arena : e[x] = level(x)
    BY <1>4, <1>9
  <2> HIDE DEF e
  <2> QED
    BY <2>3, <2>4, <2>5
<1>13. \A x \in DOMAIN rebalanced : e[x] = d[x]
  <2>1. \A x \in DOMAIN rebalanced : level(x) = d[x]
    OBVIOUS
  <2> HIDE DEF e, level
  <2> QED
    BY <1>8, <1>12, <2>1
<1> HIDE DEF e
<1>14. ASSUME NEW x \in DOMAIN rebalanced'
       PROVE  LET n == rebalanced'[x]
              IN  IF IsOp(n) THEN e[n.lhs] < e[x] /\ e[n.rhs] < e[x] ELSE e[x] = 0
  <2>1. CASE x = at
    <3>1. rebalanced'[x].lhs = l /\ rebalanced'[x].rhs = r /\ IsOp(rebalanced'[x])
      BY <1>3, <1>4, <2>1 DEF OpNode, IsOp
    <3>2. e[l] < e[x] /\ e[r] < e[x]
      <4> HIDE DEF level, made
      <4> QED
        BY <1>7, <1>11, <1>12, <2>1
    <3> QED
      BY <3>1, <3>2
  <2>2. CASE x \in DOMAIN rebalanced
    <3> DEFINE n == rebalanced[x]
    <3>1. IF IsOp(n) THEN d[n.lhs] < d[x] /\ d[n.rhs] < d[x] ELSE d[x] = 0
      BY <2>2 DEF Levels
    <3>2. IsOp(n) => n.lhs \in DOMAIN rebalanced /\ n.rhs \in DOMAIN rebalanced
      BY <1>10, <2>2, OperandsBefore
    <3>3. rebalanced'[x] = n
      BY <1>8, <2>2
    <3> HIDE DEF n
    <3> QED
      BY <1>13, <2>2, <3>1, <3>2, <3>3
  <2>3. CASE x \in DOMAIN to.arena /\ x \notin DOMAIN rebalanced
    <3>1. ~ IsOp(rebalanced'[x])
      BY <1>5, <1>8, <2>3
    <3>2. e[x] = 0
      BY <1>12, <2>3
    <3> QED
      BY <3>1, <3>2
  <2> QED
    BY <1>4, <2>1, <2>2, <2>3
<1>15. Levels(rebalanced', e)
  BY <1>12, <1>14 DEF Levels
<1>16. ASSUME NEW k \in {i, j}
       PROVE  level(to.map[queue[k].gate]) = LevelOf(d)[k]
  <2> DEFINE g == queue[k].gate
             x == to.map[g]
  <2>1. /\ k \in 1 .. Len(queue) /\ g \in DOMAIN to.map /\ x \in DOMAIN to.arena
    <3>1. queue \in Seq([gate : Nat, rank : Nat])
      BY DEF RebalanceInv, QueueHeld
    <3>2. DOMAIN queue = 1 .. Len(queue)
      BY <3>1, LenProperties
    <3> QED
      BY <1>3, <3>2 DEF Sound
  <2>2. CASE g \in Old
    <3>1. ~ IsOp(to.arena[x])
      BY <1>1, <1>6, <2>1, <2>2
    <3>2. level(x) = 0
      BY <1>8, <3>1 DEF Levels
    <3> QED
      BY <2>1, <2>2, <3>2 DEF LevelOf
  <2>3. CASE g \notin Old
    <3>1. g \in DOMAIN map
      BY <2>3 DEF RebalanceInv, QueueHeld
    <3>2. map[g] \in DOMAIN rebalanced /\ x = map[g]
      BY <1>3, <3>1 DEF Grown, Here, RebalanceInv, RebalanceTypeOK
    <3> QED
      BY <2>1, <2>3, <3>2 DEF LevelOf
  <2> QED
    BY <2>2, <2>3
<1>17. e[map'[index]] = 1 + Larger(LevelOf(d)[i], LevelOf(d)[j])
  BY <1>4, <1>12, <1>16 DEF l, r
<1> QED
  BY <1>13, <1>15, <1>17

\* What the queue gives are two elements of the lowest rank.
LEMMA CombineEven ==
  ASSUME RebalanceInv, RootsHeld, UsesHeld, ConstsHeld(rebalanced), TreeEven, OneTree, Combine
  PROVE  TreeEven'
<1> DEFINE q == Len(queue)
<1>1. balancing # << >> /\ circuit' = circuit /\ q > 1
  BY CombineIs DEF Combine
<1>2. PICK i \in DOMAIN queue, j \in DOMAIN queue :
        /\ i # j /\ CombineOf(i, j)
        /\ \A k \in DOMAIN queue : queue[i].rank <= queue[k].rank
        /\ \A k \in DOMAIN queue \ {i} : queue[j].rank <= queue[k].rank
  BY DEF Combine, LowestPair, CombineOf, GateMade
<1>3. Output \notin Balanced
  BY <1>1, OneTreeIs
<1>4. queue \in Seq(Item) /\ DOMAIN queue = 1 .. q /\ q \in Nat /\ queue # << >>
  <2>1. queue \in Seq(Item)
    BY DEF RebalanceInv, QueueHeld, Item
  <2> QED
    BY <1>1, <2>1, LenProperties
<1>5. PICK d, m, S : Levels(rebalanced, d) /\ Even(q, RankOf, LevelOf(d), S, Size, m)
  BY <1>4 DEF TreeEven
<1>6. PICK e : /\ Levels(rebalanced', e)
               /\ \A x \in DOMAIN rebalanced : e[x] = d[x]
               /\ e[map'[index]] = 1 + Larger(LevelOf(d)[i], LevelOf(d)[j])
  BY <1>1, <1>2, <1>5, CombineLevels
<1> DEFINE from == [k \in 1 .. q - 2 |->
                      IF k < First(i, j) THEN k ELSE IF k + 1 < Second(i, j) THEN k + 1 ELSE k + 2]
           ranks2 == [k \in 1 .. q - 1 |-> queue'[k].rank]
           levels2 == [k \in 1 .. q - 1 |->
                         IF queue'[k].gate \in Old THEN 0 ELSE e[map'[queue'[k].gate]]]
<1>7. /\ from \in [1 .. q - 2 -> (1 .. q) \ {i, j}]
      /\ \A k, h \in 1 .. q - 2 : k # h => from[k] # from[h]
  <2> DEFINE f == First(i, j)
             s == Second(i, j)
  <2>1. f < s /\ f \in 1 .. q /\ s \in 1 .. q /\ {f, s} = {i, j}
    BY <1>2, <1>4, WithoutIs
  <2> HIDE DEF f, s, q
  <2>2. ASSUME NEW k \in 1 .. q - 2
        PROVE  (IF k < f THEN k ELSE IF k + 1 < s THEN k + 1 ELSE k + 2) \in (1 .. q) \ {f, s}
    BY <1>4, <2>1
  <2>3. from \in [1 .. q - 2 -> (1 .. q) \ {i, j}]
    BY <2>1, <2>2 DEF f, s
  <2>4. ASSUME NEW k \in 1 .. q - 2, NEW h \in 1 .. q - 2, k # h
        PROVE  (IF k < f THEN k ELSE IF k + 1 < s THEN k + 1 ELSE k + 2)
               # (IF h < f THEN h ELSE IF h + 1 < s THEN h + 1 ELSE h + 2)
    BY <1>4, <2>1, <2>4
  <2>5. \A k, h \in 1 .. q - 2 : k # h => from[k] # from[h]
    BY <2>4 DEF f, s
  <2> QED
    BY <2>3, <2>5
<1>8. /\ Len(queue') = q - 1 /\ queue' # << >>
      /\ queue'[q - 1] = [gate |-> index, rank |-> queue[i].rank + queue[j].rank]
      /\ \A k \in 1 .. q - 2 : queue'[k] = queue[from[k]]
      /\ \A k \in 1 .. q - 1 : queue'[k] \in Item
  <2>1. /\ Len(queue') = q - 1 /\ DOMAIN queue' = 1 .. q - 1 /\ queue' \in Seq(Item)
        /\ queue'[q - 1] = [gate |-> index, rank |-> Combination(i, j).rank]
        /\ \A k \in 1 .. q - 2 : queue'[k] = Without(i, j)[k]
    BY <1>1, <1>2, QueueCombined
  <2>2. Combination(i, j).rank = queue[i].rank + queue[j].rank
    BY <1>1, CombinationHolds
  <2>3. ASSUME NEW k \in 1 .. q - 2
        PROVE  Without(i, j)[k] = queue[from[k]]
    <3> DEFINE h == IF k < First(i, j) THEN k ELSE IF k + 1 < Second(i, j) THEN k + 1 ELSE k + 2
    <3>1. Without(i, j)[k] = queue[h]
      <4>1. queue \in Seq(Item) /\ i # j
        BY <1>2, <1>4
      <4> HIDE DEF from, ranks2, levels2
      <4> QED
        BY <4>1, WithoutAt
    <3>2. from[k] = h
      OBVIOUS
    <3> HIDE DEF h, from
    <3> QED
      BY <3>1, <3>2
  <2>4. queue' # << >>
    <3>1. 1 \in DOMAIN queue'
      BY <1>1, <1>4, <2>1
    <3> QED
      BY <3>1
  <2>5. \A k \in 1 .. q - 1 : queue'[k] \in Item
    BY <2>1, ElementOfSeq
  <2> HIDE DEF q, from
  <2> QED
    BY <2>1, <2>2, <2>3, <2>4, <2>5
<1>9. /\ index \notin Old /\ map'[index] \in DOMAIN rebalanced'
      /\ \A g \in DOMAIN map : map'[g] = map[g] /\ map[g] \in DOMAIN rebalanced
  <2>1. /\ index \notin Old
        /\ map'[index] = Len(Combination(i, j).to.arena) + 1
        /\ DOMAIN rebalanced' = DOMAIN Combination(i, j).to.arena
                                  \cup {Len(Combination(i, j).to.arena) + 1}
        /\ \A g \in DOMAIN Combination(i, j).to.map : map'[g] = Combination(i, j).to.map[g]
    BY <1>1, <1>2, CombineGrows
  <2>2. Grown(Combination(i, j).to, Here)
    BY <1>1, CombinationHolds
  <2>3. \A g \in DOMAIN map : /\ g \in DOMAIN Combination(i, j).to.map
                              /\ Combination(i, j).to.map[g] = map[g]
    BY <2>2 DEF Grown, Here
  <2>4. \A g \in DOMAIN map : map[g] \in DOMAIN rebalanced
    BY DEF RebalanceInv, RebalanceTypeOK
  <2> QED
    BY <2>1, <2>3, <2>4
<1> HIDE DEF from
<1>10. /\ q - 1 \in 1 .. q - 1
       /\ \A k \in 1 .. q - 1 : k \in 1 .. q - 2 \/ k = q - 1
       /\ \A k \in 1 .. q - 2 : k \in 1 .. q - 1 /\ from[k] \in DOMAIN queue
  <2> HIDE DEF q
  <2> QED
    BY <1>1, <1>4, <1>7
<1>11. \A k \in 1 .. q - 2 : ranks2[k] = RankOf[from[k]] /\ levels2[k] = LevelOf(d)[from[k]]
  <2>1. ASSUME NEW k \in 1 .. q - 2
        PROVE  ranks2[k] = RankOf[from[k]] /\ levels2[k] = LevelOf(d)[from[k]]
    <3> DEFINE h == from[k]
               g == queue[h].gate
    <3>1. h \in DOMAIN queue /\ k \in 1 .. q - 1 /\ queue'[k] = queue[h]
      BY <1>8, <1>10
    <3>2. g \notin Old => g \in DOMAIN map
      BY <3>1 DEF RebalanceInv, QueueHeld
    <3>3. g \notin Old => map'[g] = map[g] /\ e[map[g]] = d[map[g]]
      BY <1>6, <1>9, <3>2
    <3>4. h \in 1 .. Len(queue)
      BY <1>4, <3>1
    <3>5. RankOf[h] = queue[h].rank /\ LevelOf(d)[h] = IF g \in Old THEN 0 ELSE d[map[g]]
      BY <3>4 DEF RankOf, LevelOf
    <3>6. ranks2[k] = queue'[k].rank
          /\ levels2[k] = IF queue'[k].gate \in Old THEN 0 ELSE e[map'[queue'[k].gate]]
      BY <3>1
    <3> HIDE DEF h, g, ranks2, levels2
    <3>7. queue'[k].gate = g /\ queue'[k].rank = queue[h].rank
      BY <3>1 DEF g
    <3>8. ranks2[k] = RankOf[h] /\ levels2[k] = LevelOf(d)[h]
      BY <3>3, <3>5, <3>6, <3>7
    <3> QED
      BY <3>8 DEF h
  <2> QED
    BY <2>1
<1>12. /\ ranks2[q - 1] = RankOf[i] + RankOf[j]
       /\ levels2[q - 1] = 1 + Larger(LevelOf(d)[i], LevelOf(d)[j])
  <2>1. queue'[q - 1].gate = index /\ queue'[q - 1].rank = queue[i].rank + queue[j].rank
    BY <1>8
  <2>2. RankOf[i] = queue[i].rank /\ RankOf[j] = queue[j].rank
    BY <1>4 DEF RankOf
  <2> HIDE DEF q
  <2> QED
    BY <1>6, <1>9, <1>10, <2>1, <2>2
<1>13. ranks2 \in [1 .. q - 1 -> Nat]
  BY <1>8 DEF Item
<1>14. levels2 \in [1 .. q - 1 -> Nat]
  <2>1. LevelOf(d) \in [1 .. q -> Nat]
    BY <1>5 DEF Even
  <2>2. \A k \in 1 .. q - 1 : levels2[k] \in Nat
    <3>1. \A k \in 1 .. q - 2 : levels2[k] \in Nat
      BY <1>4, <1>10, <1>11, <2>1
    <3>2. levels2[q - 1] \in Nat
      <4>1. LevelOf(d)[i] \in Nat /\ LevelOf(d)[j] \in Nat
        BY <1>4, <2>1
      <4> QED
        BY <1>12, <4>1 DEF Larger
    <3> HIDE DEF levels2, q
    <3> QED
      BY <1>10, <3>1, <3>2
  <2> QED
    BY <2>2
<1> HIDE DEF ranks2, levels2
<1>15. \E m2, S2 : Even(q - 1, ranks2, levels2, S2, Size, m2)
  <2>1. Size \in Nat
    <3>1. Leaves(Output) \in Seq(Old)
      BY OneTreeIs, LeavesAre DEF OneOperation, Output, RebalanceInv, StackHeld
    <3> QED
      BY <3>1, LenProperties DEF Size
  <2>2. /\ \A k \in 1 .. q : RankOf[i] <= RankOf[k]
        /\ \A k \in (1 .. q) \ {i} : RankOf[j] <= RankOf[k]
        /\ i \in 1 .. q /\ j \in 1 .. q
    BY <1>2, <1>4 DEF RankOf
  <2> DEFINE n == Size
             r == RankOf
             l == LevelOf(d)
  <2>3. PutTogether(q, r, l, i, j, from, ranks2, levels2)
    <3> HIDE DEF q
    <3> QED
      BY <1>2, <1>4, <1>7, <1>11, <1>12, <1>13, <1>14, <2>2 DEF PutTogether
  <2>4. q \in Nat /\ q > 1 /\ n \in Nat /\ Even(q, r, l, S, n, m)
    <3> HIDE DEF q
    <3> QED
      BY <1>1, <1>4, <1>5, <2>1
  <2> HIDE DEF q, n, r, l
  <2>5. \E m2, S2 : Even(q - 1, ranks2, levels2, S2, n, m2)
    BY <2>3, <2>4, EvenStep
  <2> QED
    BY <2>5 DEF n
<1>16. Size' = Size /\ Old' = Old /\ ~ (Output \in Balanced)'
  <2>1. Output' = Output /\ Size' = Size /\ Old' = Old
    BY <1>1, TreeStays
  <2>2. Output \notin DOMAIN map'
    <3>1. Output \in Old /\ IsOp(circuit.gates[Output]) /\ Output \notin DOMAIN map
      BY <1>3, OneTreeIs DEF OneOperation, Output, Balanced
    <3>2. DOMAIN map' = DOMAIN Combination(i, j).to.map \cup {index} /\ index \notin Old
      BY <1>1, <1>2, CombineGrows
    <3>3. Grown(Combination(i, j).to, Here)
      BY <1>1, CombinationHolds
    <3>4. Output \notin DOMAIN Combination(i, j).to.map
      BY <3>1, <3>3 DEF Grown, Here
    <3> QED
      BY <3>1, <3>2, <3>4
  <2> QED
    BY <2>1, <2>2 DEF Balanced
<1>17. /\ Len(queue') = q - 1 /\ RankOf' = ranks2 /\ LevelOf(e)' = levels2
  BY <1>8, <1>16 DEF RankOf, LevelOf, ranks2, levels2
<1>18. Levels(rebalanced, e)'
  BY <1>6 DEF Levels
<1> HIDE DEF q
<1>19. queue' # << >> => \E m2, S2 : Even(Len(queue'), RankOf', LevelOf(e)', S2, Size', m2)
  BY <1>15, <1>16, <1>17
<1> QED
  BY <1>16, <1>18, <1>19 DEF TreeEven

LEMMA EvenInvStep ==
  ASSUME RebalanceInv, RootsHeld, UsesHeld, ConstsHeld(rebalanced), AllUsed, TreeEven,
         [BalanceStep]_rebalanceVars
  PROVE  TreeEven'
<1>1. CASE UNCHANGED <<circuit, queue, map, rebalanced>>
  <2>1. /\ Size' = Size /\ Output' = Output /\ Old' = Old /\ (OneTree' <=> OneTree)
    BY <1>1, TreeStays
  <2>2. /\ RankOf' = RankOf /\ Balanced' = Balanced
        /\ \A d : LevelOf(d)' = LevelOf(d) /\ (WellBuilt(d)' <=> WellBuilt(d))
    BY <1>1, <2>1 DEF RankOf, LevelOf, WellBuilt, Balanced
  <2>3. \A d : Levels(rebalanced, d)' <=> Levels(rebalanced, d)
    BY <1>1 DEF Levels
  <2> QED
    BY <1>1, <2>1, <2>2, <2>3 DEF TreeEven
<1>2. circuit' = circuit
  BY StepCases DEF Untouched, NextRoot, BalanceLeaf, Flatten, Combine, FinishRoot
<1>3. CASE ~ OneTree
  BY <1>2, <1>3, TreeStays DEF TreeEven
<1>4. CASE OneTree
  BY <1>1, <1>4, FlattenEven, CombineEven, FinishRootEven, StepCases
     DEF Untouched, NextRoot, BalanceLeaf
<1> QED
  BY <1>3, <1>4

LEMMA EvenInit == RebalanceInit => TreeEven
<1> SUFFICES ASSUME RebalanceInit
             PROVE  TreeEven
  OBVIOUS
<1>1. queue = << >> /\ map = << >> /\ rebalanced = << >>
  BY DEF RebalanceInit
<1>2. DOMAIN map = {} /\ DOMAIN rebalanced = {} /\ Balanced = {}
  BY <1>1 DEF Balanced
<1>3. Levels(rebalanced, [x \in {} |-> 0])
  BY <1>2 DEF Levels
<1> QED
  BY <1>1, <1>2, <1>3 DEF TreeEven

-----------------------------------------------------------------------------
\* Nothing is left out of the tree that is handed over, so that no gate of it has to move.
LEMMA AllKept ==
  ASSUME RebalanceInv, RootsHeld, UsesHeld, OutputDone, OneOperation, Output \in Balanced,
         queue = << >>, AllUsed, NoConstant
  PROVE  SquaresStay(Left)
<1>1. \A x \in DOMAIN rebalanced : InUse(x)
  BY UserKept DEF AllUsed
<1>2. Left.gates = rebalanced /\ Left.usages = usages
  BY DEF Left
<1>3. KeptOf(Left) = {g \in DOMAIN usages : usages[g] # {}}
  BY <1>2 DEF KeptOf
<1>4. DOMAIN rebalanced \subseteq KeptOf(Left)
  BY <1>1, <1>3 DEF InUse
<1>5. KeptOf(Left) \subseteq DOMAIN rebalanced
  <2> DEFINE N == Len(circuit.gates)
  <2>1. DOMAIN usages = 1 .. N /\ N \in Nat /\ Output = N
    BY GivenCircuit, OutputIs DEF RebalanceInv, RebalanceTypeOK, StackHeld
  <2>2. N \in DOMAIN rebalanced
    BY <2>1 DEF OutputDone, Balanced, RebalanceInv, RebalanceTypeOK
  <2>3. DOMAIN rebalanced = 1 .. Len(rebalanced) /\ Len(rebalanced) \in Nat
    BY LenProperties DEF RebalanceInv, RebalanceTypeOK
  <2> HIDE DEF N
  <2>4. 1 .. N \subseteq DOMAIN rebalanced
    BY <2>1, <2>2, <2>3
  <2> QED
    BY <1>3, <2>1, <2>4
<1> HIDE DEF Left
<1>6. ASSUME NEW g \in KeptOf(Left), IsOp(rebalanced[g])
      PROVE  1 .. rebalanced[g].lhs \subseteq KeptOf(Left)
  <2>1. rebalanced \in Seq(Node) /\ Topological(rebalanced) /\ g \in DOMAIN rebalanced
    BY <1>5 DEF RebalanceInv, RebalanceTypeOK
  <2> DEFINE x == rebalanced[g].lhs
  <2>2. /\ Len(rebalanced) \in Nat /\ DOMAIN rebalanced = 1 .. Len(rebalanced)
        /\ x \in 1 .. g - 1
    BY <1>6, <2>1, OperandsBefore
  <2> HIDE DEF x
  <2>3. 1 .. x \subseteq DOMAIN rebalanced
    BY <2>1, <2>2
  <2> QED
    BY <1>4, <2>3 DEF x
<1> QED
  BY <1>2, <1>6 DEF SquaresStay

\* Whatever the size of the circuit and whatever the queue gives first among elements of
\* the same rank, a circuit that is one tree of n inputs is rebalanced into one that is no
\* deeper than the logarithm of n, rounded up (rebuild, rebalance.rs:168-222).
THEOREM TreesAreBalanced == RebalanceSpec => []TreesBalanced
<1>1. ASSUME RoomInv, UsesHeld, OutputHeld, AfterTrees, AllUsed, TreeEven
      PROVE  TreesBalanced
  <2> SUFFICES ASSUME Answered, OneTree
               PROVE  /\ DepthAnalysis(Rebalanced).gate[1] \in 1 .. Size
                      /\ PowersOfTwo(Size)[DepthAnalysis(Rebalanced).gate[1]] < Size
    BY DEF TreesBalanced, Size, Output
  <2>1. RebalanceInv /\ RootsHeld
    BY <1>1 DEF RoomInv
  <2>2. OneOperation /\ NoConstant /\ Output \in Old
    BY <2>1, OneTreeIs
  <2>3. handed = Left /\ queue = << >> /\ Output \in Balanced /\ OutputDone
    BY <1>1, <2>2 DEF AfterTrees, Answered, OutputHeld
  <2>4. SquaresStay(Left)
    BY <1>1, <2>1, <2>2, <2>3, AllKept
  <2>5. /\ RebuildInv /\ handed = Left
        /\ Kept \subseteq DOMAIN rebalanced /\ Output \in Kept
        /\ map[Output] = Output /\ Len(outputs) = 1 /\ outputs[1] = Place(Output)
    BY <1>1, <2>1, <2>2, <2>3, <2>4, AnsweredWell
  <2>6. verdict = "ok"
    BY <1>1, <2>1, <2>2, <2>3, <2>4, AnsweredWell
  <2>7. /\ alive \in Seq(Node) /\ Topological(alive)
        /\ \A g \in Kept : /\ Place(g) \in DOMAIN alive
                           /\ LET n == rebalanced[g] IN
                              alive[Place(g)] = IF IsOp(n)
                                THEN OpNode(n.op, Place(n.lhs), Place(n.rhs)) ELSE n
        /\ \A p \in DOMAIN alive : \E g \in Kept : Place(g) = p
    BY <2>5, <2>6, AnsweredIs DEF Left
  <2>8. PICK d : Levels(rebalanced, d) /\ WellBuilt(d)
    BY <1>1, <2>3 DEF TreeEven
  <2>9. /\ \A g, h \in Kept : Place(g) = Place(h) => g = h
        /\ \A g \in Kept : Operands(rebalanced[g]) \subseteq Kept
    <3>1. Proper(handed)
      BY <2>5 DEF RebuildInv
    <3>2. \A g, h \in Kept : g < h => Place(g) < Place(h)
      BY <3>1, PlacesTaken
    <3>3. \A g \in Kept : g \in Nat /\ Place(g) \in Nat
      BY <3>1, Places
    <3>4. \A g \in Kept : Operands(handed.gates[g]) \subseteq Kept
      BY <3>1, HandedFacts
    <3>5. ASSUME NEW g \in Kept, NEW h \in Kept, Place(g) = Place(h)
          PROVE  g = h
      <4>1. ~ (g < h) /\ ~ (h < g)
        BY <3>2, <3>3, <3>5
      <4> QED
        BY <3>3, <4>1
    <3> QED
      BY <2>5, <3>4, <3>5 DEF Left
  <2> DEFINE at(p) == CHOOSE g \in Kept : Place(g) = p
             e == [p \in DOMAIN alive |-> d[at(p)]]
             count == [g \in DOMAIN alive |-> TotalGateDepthCounter(alive[g])]
             depth == GetDepth(alive, count)
             last == Place(Output)
  <2>10. /\ \A g \in Kept : at(Place(g)) = g
         /\ \A p \in DOMAIN alive : at(p) \in Kept
    BY <2>7, <2>9
  <2> HIDE DEF at
  <2>11. \A g \in Kept : e[Place(g)] = d[g]
    BY <2>7, <2>10
  <2>12. e \in [DOMAIN alive -> Nat]
    BY <2>5, <2>8, <2>10 DEF Levels
  <2> HIDE DEF e
  <2>13. ASSUME NEW p \in DOMAIN alive
         PROVE  LET n == alive[p]
                IN  IF IsOp(n) THEN e[n.lhs] < e[p] /\ e[n.rhs] < e[p] ELSE e[p] = 0
    <3>1. PICK g \in Kept : Place(g) = p
      BY <2>7
    <3> DEFINE n == rebalanced[g]
    <3>2. g \in DOMAIN rebalanced /\ e[p] = d[g]
      BY <2>5, <2>11, <3>1
    <3>3. CASE IsOp(n)
      <4>1. n.lhs \in Kept /\ n.rhs \in Kept
        BY <2>9, <3>3 DEF Operands
      <4>2. d[n.lhs] < d[g] /\ d[n.rhs] < d[g]
        BY <2>8, <3>2, <3>3 DEF Levels
      <4>3. alive[p] = OpNode(n.op, Place(n.lhs), Place(n.rhs))
        BY <2>7, <3>1, <3>3
      <4> HIDE DEF n
      <4>4. /\ IsOp(alive[p])
            /\ alive[p].lhs = Place(n.lhs) /\ alive[p].rhs = Place(n.rhs)
        BY <4>3 DEF OpNode, IsOp
      <4>5. e[Place(n.lhs)] = d[n.lhs] /\ e[Place(n.rhs)] = d[n.rhs]
        BY <2>11, <4>1
      <4> QED
        BY <3>2, <4>2, <4>4, <4>5
    <3>4. CASE ~ IsOp(n)
      <4>1. alive[p] = n
        BY <2>7, <3>1, <3>4
      <4>2. d[g] = 0
        BY <2>8, <3>2, <3>4 DEF Levels
      <4> HIDE DEF n
      <4> QED
        BY <3>2, <3>4, <4>1, <4>2
    <3> QED
      BY <3>3, <3>4
  <2>14. Levels(alive, e)
    BY <2>12, <2>13 DEF Levels
  <2>15. \A g \in DOMAIN alive : count[g] = IF IsOp(alive[g]) THEN 1 ELSE 0
    <3>1. \A n \in Node : TotalGateDepthCounter(n) = IF IsOp(n) THEN 1 ELSE 0
      BY DEF TotalGateDepthCounter, Node, IsInput, IsConst, IsOp
    <3>2. \A g \in DOMAIN alive : alive[g] \in Node
      BY <2>7, ElementOfSeq
    <3> QED
      BY <3>1, <3>2
  <2> HIDE DEF count
  <2>16. depth[last] \in 0 .. e[last] /\ (IsOp(alive[last]) => depth[last] > 0)
    BY <2>5, <2>7, <2>14, <2>15, DepthWithin
  <2>17. IsOp(alive[last])
    <3>1. IsOp(rebalanced[Output])
      BY <2>5, <2>8 DEF WellBuilt
    <3> DEFINE n == rebalanced[Output]
    <3>2. alive[last] = OpNode(n.op, Place(n.lhs), Place(n.rhs))
      BY <2>5, <2>7, <3>1
    <3> HIDE DEF n, last
    <3> QED
      BY <3>2 DEF OpNode, IsOp
  <2>18. PICK k \in 1 .. Size : e[last] <= k /\ PowersOfTwo(Size)[k] < Size
    BY <2>5, <2>8, <2>11 DEF WellBuilt
  <2>19. e[last] \in Nat /\ Size \in Nat
    <3>1. Leaves(Output) \in Seq(Old)
      BY <2>1, <2>2, LeavesAre DEF OneOperation, Output, RebalanceInv, StackHeld
    <3>2. Size \in Nat
      BY <3>1, LenProperties DEF Size
    <3> QED
      BY <2>5, <2>7, <2>12, <3>2
  <2>20. DepthAnalysis(Rebalanced).gate[1] = depth[last]
    <3>1. DOMAIN outputs = {1}
      <4>1. outputs \in Seq(DOMAIN alive)
        BY <2>5 DEF RebuildInv
      <4>2. DOMAIN outputs = 1 .. 1
        BY <2>5, <4>1, LenProperties
      <4> QED
        BY <4>2
    <3> QED
      BY <2>5, <3>1 DEF DepthAnalysis, Rebalanced, count
  <2> DEFINE x == depth[last]
             y == e[last]
  <2>21. x \in 1 .. k
    <3>1. x \in 0 .. y /\ x > 0 /\ y \in Nat /\ y <= k /\ k \in Nat
      BY <2>16, <2>17, <2>18, <2>19
    <3> HIDE DEF x, y
    <3> QED
      BY <3>1
  <2> HIDE DEF x, y
  <2>22. x \in 1 .. Size /\ PowersOfTwo(Size)[x] < Size
    <3>1. x \in 1 .. Size
      BY <2>18, <2>19, <2>21
    <3>2. /\ PowersOfTwo(Size)[x] <= PowersOfTwo(Size)[k]
          /\ PowersOfTwo(Size)[x] \in Nat /\ PowersOfTwo(Size)[k] \in Nat
      BY <2>19, <2>21, <3>1, PowersAre
    <3> QED
      BY <2>18, <2>19, <3>1, <3>2
  <2> QED
    BY <2>20, <2>22 DEF x
<1>2. RebalanceInit => RoomInv /\ UsesHeld /\ OutputHeld /\ AfterTrees /\ AllUsed /\ TreeEven
  BY RoomInit, UsesInit, OutputInit, AllUsedInit, EvenInit
     DEF RebalanceInit, NewCircuitInit, AfterTrees
<1>3. /\ RoomInv /\ UsesHeld /\ OutputHeld /\ AfterTrees /\ AllUsed /\ TreeEven
      /\ [BalanceStep]_rebalanceVars
      => (RoomInv /\ UsesHeld /\ OutputHeld /\ AfterTrees /\ AllUsed /\ TreeEven)'
  BY RoomStep, UsesStep, OutputStep, AfterTreesStep, AllUsedStep, EvenInvStep DEF RoomInv
<1>4. RoomInv /\ UsesHeld /\ OutputHeld /\ AfterTrees /\ AllUsed /\ TreeEven => TreesBalanced
  BY <1>1
<1> QED
  BY <1>2, <1>3, <1>4, PTL DEF RebalanceSpec

=============================================================================
