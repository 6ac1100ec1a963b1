------------------------------ MODULE DagProofs ------------------------------
(* Lemmas about the operators of Dag, about sequences as the models use them *)
(* (as arenas, worklists and stacks), and about functions that are defined   *)
(* by recursion along an arena.                                              *)
EXTENDS Dag, TLAPS, SequenceTheorems, WellFoundedInduction

\* A node of each kind has the fields of its kind.
LEMMA NodeKinds ==
  ASSUME NEW n \in Node
  PROVE  /\ IsOp(n) => /\ n.op \in Ops /\ n.lhs \in Index /\ n.rhs \in Index
                       /\ Operands(n) = {n.lhs, n.rhs}
                       /\ ~ IsInput(n) /\ ~ IsConst(n)
         /\ ~ IsOp(n) => Operands(n) = {}
         /\ IsOp(n) \/ IsInput(n) \/ IsConst(n)
         /\ IsInput(n) => ~ IsOp(n) /\ ~ IsConst(n)
BY DEF Node, IsOp, IsInput, IsConst, Operands

-----------------------------------------------------------------------------
\* Live is the least closed set that holds the roots.

LEMMA LiveHoldsRoots ==
  ASSUME NEW nodes, NEW roots, roots \subseteq DOMAIN nodes
  PROVE  roots \subseteq Live(nodes, roots)
BY DEF Live

LEMMA LiveIsClosed ==
  ASSUME NEW nodes, NEW roots,
         \A e \in DOMAIN nodes : Operands(nodes[e]) \subseteq DOMAIN nodes
  PROVE  Closed(nodes, Live(nodes, roots))
<1> SUFFICES ASSUME NEW e \in Live(nodes, roots), NEW o \in Operands(nodes[e])
             PROVE  o \in Live(nodes, roots)
  BY DEF Closed
<1>1. e \in DOMAIN nodes /\ o \in DOMAIN nodes
  BY DEF Live
<1>2. ASSUME NEW S \in SUBSET DOMAIN nodes, roots \subseteq S, Closed(nodes, S)
      PROVE  o \in S
  <2>1. e \in S
    BY <1>2 DEF Live
  <2> QED
    BY <2>1, <1>2 DEF Closed
<1> QED
  BY <1>1, <1>2 DEF Live

LEMMA LiveIsLeast ==
  ASSUME NEW nodes, NEW roots, NEW S \in SUBSET DOMAIN nodes,
         roots \subseteq S, Closed(nodes, S)
  PROVE  Live(nodes, roots) \subseteq S
BY DEF Live

LEMMA LiveInDomain ==
  ASSUME NEW nodes, NEW roots
  PROVE  Live(nodes, roots) \subseteq DOMAIN nodes
BY DEF Live

-----------------------------------------------------------------------------
\* What a sequence holds, after each way a worklist or a stack changes.

LEMMA RangeInSet ==
  ASSUME NEW S, NEW s \in Seq(S)
  PROVE  Range(s) \subseteq S
BY LenProperties DEF Range

LEMMA RangeOfAppend ==
  ASSUME NEW S, NEW s \in Seq(S), NEW x \in S
  PROVE  /\ Append(s, x) \in Seq(S)
         /\ Range(Append(s, x)) = Range(s) \cup {x}
<1>1. <<x>> \in Seq(S) /\ Range(<<x>>) = {x}
  BY DEF Range
<1>2. Append(s, x) = s \o <<x>>
  BY AppendIsConcat
<1>3. Range(s \o <<x>>) = Range(s) \cup Range(<<x>>)
  BY <1>1, RangeConcatenation, ZenonT(60)
<1>4. Append(s, x) \in Seq(S)
  BY AppendProperties
<1> QED
  BY <1>1, <1>2, <1>3, <1>4

LEMMA RangeOfPair ==
  ASSUME NEW S, NEW x \in S, NEW y \in S
  PROVE  <<x, y>> \in Seq(S) /\ Range(<<x, y>>) = {x, y}
BY DEF Range

LEMMA HeadTailRange ==
  ASSUME NEW S, NEW s \in Seq(S), s # << >>
  PROVE  /\ Head(s) \in S
         /\ Tail(s) \in Seq(S)
         /\ Range(s) = {Head(s)} \cup Range(Tail(s))
<1>1. /\ Head(s) \in S /\ Tail(s) \in Seq(S)
      /\ Len(s) \in Nat /\ Len(Tail(s)) = Len(s) - 1
      /\ \A i \in 1 .. Len(Tail(s)) : Tail(s)[i] = s[i + 1]
  BY HeadTailProperties, LenProperties
<1>2. /\ DOMAIN s = 1 .. Len(s) /\ DOMAIN Tail(s) = 1 .. Len(s) - 1
      /\ Head(s) = s[1]
  BY <1>1, LenProperties
<1>3. 1 \in DOMAIN s
  BY <1>1, <1>2, EmptySeq
<1>4. ASSUME NEW i \in DOMAIN s
      PROVE  s[i] \in {Head(s)} \cup Range(Tail(s))
  <2>1. CASE i = 1
    BY <2>1, <1>2
  <2>2. CASE i # 1
    <3>1. i - 1 \in DOMAIN Tail(s) /\ Tail(s)[i - 1] = s[i]
      BY <2>2, <1>1, <1>2
    <3> QED
      BY <3>1 DEF Range
  <2> QED
    BY <2>1, <2>2
<1>5. ASSUME NEW i \in DOMAIN Tail(s)
      PROVE  Tail(s)[i] \in Range(s)
  <2>1. i + 1 \in DOMAIN s /\ Tail(s)[i] = s[i + 1]
    BY <1>1, <1>2
  <2> QED
    BY <2>1 DEF Range
<1>6. Range(s) \subseteq {Head(s)} \cup Range(Tail(s))
  BY <1>4 DEF Range
<1>7. {Head(s)} \cup Range(Tail(s)) \subseteq Range(s)
  BY <1>2, <1>3, <1>5 DEF Range
<1> QED
  BY <1>1, <1>6, <1>7

LEMMA TopAndRestRange ==
  ASSUME NEW S, NEW s \in Seq(S), s # << >>
  PROVE  /\ s[Len(s)] \in S
         /\ SubSeq(s, 1, Len(s) - 1) \in Seq(S)
         /\ Range(s) = {s[Len(s)]} \cup Range(SubSeq(s, 1, Len(s) - 1))
<1> DEFINE n == Len(s)
           rest == SubSeq(s, 1, n - 1)
<1>1. n \in Nat \ {0} /\ DOMAIN s = 1 .. n /\ \A i \in 1 .. n : s[i] \in S
  BY EmptySeq, LenProperties, ElementOfSeq
<1>2. rest \in Seq(S) /\ Len(rest) = n - 1 /\ \A i \in 1 .. n - 1 : rest[i] = s[i]
  <2>1. n - 1 \in Int /\ \A i \in 1 .. n - 1 : s[i] \in S
    BY <1>1
  <2>2. /\ SubSeq(s, 1, n - 1) \in Seq(S)
        /\ Len(SubSeq(s, 1, n - 1)) = IF 1 <= n - 1 THEN n - 1 - 1 + 1 ELSE 0
        /\ \A i \in 1 .. n - 1 - 1 + 1 : SubSeq(s, 1, n - 1)[i] = s[1 + i - 1]
    <3> HIDE DEF n
    <3> QED
      BY <2>1, SubSeqProperties
  <2> QED
    BY <2>2, <1>1
<1>3. DOMAIN rest = 1 .. n - 1
  BY <1>2, LenProperties
<1> HIDE DEF n, rest
<1>4. \A i \in DOMAIN s : i = n \/ (i \in DOMAIN rest /\ rest[i] = s[i])
  BY <1>1, <1>2, <1>3
<1>5. \A i \in DOMAIN rest : i \in DOMAIN s /\ rest[i] = s[i]
  BY <1>1, <1>2, <1>3
<1>6. n \in DOMAIN s
  BY <1>1
<1>7. Range(s) = {s[n]} \cup Range(rest)
  BY <1>4, <1>5, <1>6 DEF Range
<1> QED
  BY <1>1, <1>2, <1>7 DEF n, rest

LEMMA RangeOfPush ==
  ASSUME NEW S, NEW s \in Seq(S), NEW x \in S
  PROVE  s \o <<x>> \in Seq(S) /\ Range(s \o <<x>>) = Range(s) \cup {x}
<1>1. s \o <<x>> = Append(s, x)
  BY AppendIsConcat
<1>2. Append(s, x) \in Seq(S) /\ Range(Append(s, x)) = Range(s) \cup {x}
  BY RangeOfAppend
<1> QED
  BY <1>1, <1>2, Zenon

LEMMA SeqInLarger ==
  ASSUME NEW S, NEW T, S \subseteq T, NEW s \in Seq(S)
  PROVE  s \in Seq(T)
<1>1. Len(s) \in Nat /\ \A i \in 1 .. Len(s) : s[i] \in T
  BY LenProperties, ElementOfSeq
<1>2. s \in [1 .. Len(s) -> T]
  BY <1>1, LenProperties
<1> QED
  BY <1>1, <1>2, SeqDef

-----------------------------------------------------------------------------
\* Induction along an arena.  The library's induction theorems take the property as
\* an operator; with a set in its place, well-foundedness of < on Nat is enough.

LEMMA Least ==
  ASSUME NEW T \in SUBSET Nat, T # {}
  PROVE  \E m \in T : \A n \in T : m <= n
<1> DEFINE R == {p \in Nat \X Nat : p[1] < p[2]}
<1>1. IsWellFoundedOn(R, Nat)
  BY NatLessThanWellFounded DEF OpToRel
<1>2. \A x, y \in Nat : x < y => <<x, y>> \in R
  OBVIOUS
<1> HIDE DEF R
<1>3. PICK m \in T : \A y \in T : ~ (<<y, m>> \in R)
  BY <1>1, WFMin
<1>4. ASSUME NEW n \in T
      PROVE  m <= n
  <2>1. ~ (n < m)
    BY <1>2, <1>3
  <2> QED
    BY <2>1
<1> QED
  BY <1>4

\* What holds at a position when it holds before it, holds at every position.
LEMMA PositionInduction ==
  ASSUME NEW n \in Nat, NEW S,
         \A e \in 1 .. n : (1 .. e - 1) \subseteq S => e \in S
  PROVE  1 .. n \subseteq S
<1> DEFINE Bad == (1 .. n) \ S
<1>1. SUFFICES ASSUME Bad # {}
               PROVE  FALSE
  OBVIOUS
<1>2. Bad \in SUBSET Nat /\ Bad \subseteq 1 .. n
  OBVIOUS
<1>3. PICK m \in Bad : \A k \in Bad : m <= k
  <2> HIDE DEF Bad
  <2> QED
    BY <1>1, <1>2, Least
<1>4. m \in 1 .. n /\ m \notin S
  BY <1>3
<1>5. ASSUME NEW k \in 1 .. m - 1
      PROVE  k \in S
  <2>1. k \in 1 .. n /\ ~ (m <= k)
    BY <1>4
  <2>2. k \notin Bad
    <3> HIDE DEF Bad
    <3> QED
      BY <2>1, <1>3
  <2> QED
    BY <2>1, <2>2
<1> QED
  BY <1>4, <1>5

\* What a recursive definition says of the value at a position, as a function of the
\* position and of a valuation of all positions, of which it uses those before only.
Causal(n, V, step) ==
  /\ step \in [(1 .. n) \X [1 .. n -> V] -> V]
  /\ \A e \in 1 .. n : \A f, h \in [1 .. n -> V] :
       (\A k \in 1 .. e - 1 : f[k] = h[k]) => step[<<e, f>>] = step[<<e, h>>]

Solves(f, n, V, step) ==
  f \in [1 .. n -> V] /\ \A e \in 1 .. n : f[e] = step[<<e, f>>]

\* Such a definition has a solution.
LEMMA RecursionSolvable ==
  ASSUME NEW n \in Nat, NEW V, V # {}, NEW step, Causal(n, V, step)
  PROVE  \E f : Solves(f, n, V, step)
<1> DEFINE Upto(m) == \E f \in [1 .. n -> V] : \A g \in 1 .. m : f[g] = step[<<g, f>>]
           S == {m \in 1 .. n : Upto(m)}
<1>1. Upto(0)
  <2>1. PICK v \in V : TRUE
    OBVIOUS
  <2> DEFINE c == [g \in 1 .. n |-> v]
  <2>2. c \in [1 .. n -> V] /\ \A g \in 1 .. 0 : c[g] = step[<<g, c>>]
    OBVIOUS
  <2> HIDE DEF c
  <2> QED
    BY <2>2
<1>2. ASSUME NEW m \in 1 .. n, (1 .. m - 1) \subseteq S
      PROVE  m \in S
  <2>1. Upto(m - 1)
    <3>1. CASE m = 1
      BY <3>1, <1>1
    <3>2. CASE m # 1
      <4>1. m - 1 \in 1 .. m - 1
        BY <3>2
      <4> QED
        BY <4>1, <1>2
    <3> QED
      BY <3>1, <3>2
  <2>2. PICK f \in [1 .. n -> V] : \A g \in 1 .. m - 1 : f[g] = step[<<g, f>>]
    BY <2>1
  <2> DEFINE h == [f EXCEPT ![m] = step[<<m, f>>]]
  <2>3. step[<<m, f>>] \in V
    BY DEF Causal
  <2>4. h \in [1 .. n -> V] /\ h[m] = step[<<m, f>>] /\ \A k \in 1 .. m - 1 : h[k] = f[k]
    BY <2>3
  <2> HIDE DEF h
  <2>5. ASSUME NEW g \in 1 .. m
        PROVE  h[g] = step[<<g, h>>]
    <3>1. g \in 1 .. n /\ \A k \in 1 .. g - 1 : f[k] = h[k]
      BY <2>4
    <3>2. step[<<g, h>>] = step[<<g, f>>]
      BY <3>1, <2>4 DEF Causal
    <3>3. CASE g = m
      BY <3>2, <3>3, <2>4
    <3>4. CASE g # m
      <4>1. g \in 1 .. m - 1
        BY <3>4
      <4> QED
        BY <3>2, <4>1, <2>2, <2>4
    <3> QED
      BY <3>3, <3>4
  <2> QED
    BY <2>4, <2>5
<1>3. 1 .. n \subseteq S
  <2> HIDE DEF S
  <2> QED
    BY <1>2, PositionInduction
<1>4. Upto(n)
  <2>1. CASE n = 0
    BY <2>1, <1>1
  <2>2. CASE n # 0
    <3>1. n \in 1 .. n
      BY <2>2
    <3> QED
      BY <3>1, <1>3
  <2> QED
    BY <2>1, <2>2
<1> QED
  BY <1>4 DEF Solves

\* Every node of an ordered arena is a node after its operands.
LEMMA OperandsBefore ==
  ASSUME NEW nodes \in Seq(Node), Topological(nodes)
  PROVE  /\ Len(nodes) \in Nat /\ DOMAIN nodes = 1 .. Len(nodes)
         /\ \A e \in DOMAIN nodes :
              /\ nodes[e] \in Node
              /\ IsOp(nodes[e]) => /\ nodes[e].op \in BinOp
                                   /\ nodes[e].lhs \in 1 .. e - 1
                                   /\ nodes[e].rhs \in 1 .. e - 1
<1>1. Len(nodes) \in Nat /\ DOMAIN nodes = 1 .. Len(nodes)
      /\ \A e \in DOMAIN nodes : nodes[e] \in Node
  BY LenProperties, ElementOfSeq
<1>2. \A e \in DOMAIN nodes : IsOp(nodes[e]) =>
        nodes[e].op \in BinOp /\ Operands(nodes[e]) = {nodes[e].lhs, nodes[e].rhs}
  BY <1>1, NodeKinds, DagAssumption
<1> QED
  BY <1>1, <1>2 DEF Topological

-----------------------------------------------------------------------------
\* Arithmetic modulo q.

\* Operations on unbounded integers, of words, are integers.
LEMMA ExactType ==
  ASSUME NEW op \in BinOp, NEW x \in Int, NEW y \in Int
  PROVE  Exact(op, x, y) \in Int
BY DEF BinOp, Exact

LEMMA Divided ==
  ASSUME NEW a \in Int, NEW q \in Nat \ {0}
  PROVE  /\ a % q \in 0 .. q - 1 /\ a \div q \in Int
         /\ a = q * (a \div q) + (a % q)
OBVIOUS

LEMMA SmallRemainder ==
  ASSUME NEW q \in Nat \ {0}, NEW r \in 0 .. q - 1
  PROVE  r % q = r
OBVIOUS

LEMMA OneRemainder ==
  ASSUME NEW q \in Nat \ {0}, NEW r \in 0 .. q - 1, NEW k \in Int
  PROVE  (q * k + r) % q = r
OBVIOUS

\* Numbers that differ by a multiple of q leave the same remainder.
LEMMA SameRemainder ==
  ASSUME NEW q \in Nat \ {0}, NEW a \in Int, NEW b \in Int, NEW k \in Int,
         a = b + q * k
  PROVE  a % q = b % q
<1> DEFINE r == b % q
           d == b \div q
           m == d + k
<1>1. r \in 0 .. q - 1 /\ d \in Int /\ b = q * d + r
  BY Divided
<1> HIDE DEF r, d
<1>2. m \in Int /\ q * m = q * d + q * k
  BY <1>1
<1> HIDE DEF m
<1>3. a = q * m + r
  <2>1. q * d \in Int /\ q * k \in Int /\ q * m \in Int
    BY <1>1, <1>2
  <2> QED
    BY <1>1, <1>2, <2>1
<1>4. (q * m + r) % q = r
  BY <1>1, <1>2, OneRemainder
<1> QED
  BY <1>3, <1>4 DEF r

\* Remainders may be taken of the operands first.
LEMMA ExactMod ==
  ASSUME NEW op \in BinOp, NEW x \in Int, NEW y \in Int, NEW q \in Nat \ {0}
  PROVE  Exact(op, x % q, y % q) % q = Exact(op, x, y) % q
<1> DEFINE a == x % q
           i == x \div q
           b == y % q
           j == y \div q
<1>1. /\ a \in Int /\ i \in Int /\ x = q * i + a
      /\ b \in Int /\ j \in Int /\ y = q * j + b
  BY Divided
<1> HIDE DEF a, i, b, j
<1> DEFINE qi == q * i
           qj == q * j
           whole == Exact(op, x, y)
           rest == Exact(op, a, b)
<1>2. qi \in Int /\ qj \in Int /\ x = qi + a /\ y = qj + b
  BY <1>1
<1>3. whole \in Int /\ rest \in Int
  BY <1>1, ExactType
<1>4. PICK k \in Int : whole = rest + q * k
  <2>1. CASE op = "Add"
    <3>1. i + j \in Int /\ q * (i + j) = qi + qj
      BY <1>1
    <3>2. whole = rest + (qi + qj)
      <4> HIDE DEF qi, qj
      <4> QED
        BY <2>1, <1>1, <1>2 DEF Exact
    <3> QED
      BY <3>1, <3>2
  <2>2. CASE op = "Sub"
    <3>1. i - j \in Int /\ q * (i - j) = qi - qj
      BY <1>1
    <3>2. whole = rest + (qi - qj)
      <4> HIDE DEF qi, qj
      <4> QED
        BY <2>2, <1>1, <1>2 DEF Exact
    <3> QED
      BY <3>1, <3>2
  <2>3. CASE op = "Mul"
    <3> DEFINE iy == i * y
               aj == a * j
    <3>1. /\ iy \in Int /\ aj \in Int /\ iy + aj \in Int
          /\ q * (iy + aj) = q * iy + q * aj
          /\ q * iy \in Int /\ q * aj \in Int
      BY <1>1
    <3>2. x * y = (q * i) * y + a * y
      BY <1>1
    <3>3. (q * i) * y = q * iy
      BY <1>1
    <3>4. a * y = a * (q * j) + a * b
      BY <1>1
    <3>5. a * (q * j) = q * aj
      BY <1>1
    <3>6. x * y = a * b + q * (iy + aj)
      <4>1. a * b \in Int
        BY <1>1
      <4> HIDE DEF iy, aj
      <4> QED
        BY <4>1, <3>1, <3>2, <3>3, <3>4, <3>5
    <3>7. whole = rest + q * (iy + aj)
      BY <2>3, <3>6 DEF Exact
    <3> QED
      BY <3>1, <3>7
  <2> QED
    BY <2>1, <2>2, <2>3 DEF BinOp
<1>5. whole % q = rest % q
  <2> HIDE DEF whole, rest
  <2> QED
    BY <1>3, <1>4, SameRemainder
<1> QED
  BY <1>5 DEF a, b

\* Products of bounded numbers are bounded.
LEMMA Products ==
  ASSUME NEW x \in Nat, NEW y \in Nat, NEW b \in Nat, x <= b, y <= b
  PROVE  x * y <= b * b
<1>1. x * y <= x * b
  OBVIOUS
<1>2. x * b <= b * b
  OBVIOUS
<1>3. x * y \in Nat /\ x * b \in Nat /\ b * b \in Nat
  OBVIOUS
<1> QED
  BY <1>1, <1>2, <1>3

\* Of a divisor of the size of the word a wrapping machine is right.
DividesWordSize(q) == \E c \in Nat : WordSize = q * c

\* A number that wraps keeps its remainder, if the size of the word is a multiple of q.
LEMMA WrappedRemainder ==
  ASSUME NEW e \in Int, NEW q \in Nat \ {0}, DividesWordSize(q)
  PROVE  (e % WordSize) % q = e % q
<1> DEFINE size == WordSize
<1>1. PICK c \in Nat : size = q * c
  BY DEF DividesWordSize
<1>2. size \in Nat \ {0}
  BY WordsAssumption
<1> HIDE DEF size
<1> DEFINE w == e % size
           d == e \div size
           k == c * d
<1>3. w \in Int /\ d \in Int /\ e = size * d + w
  BY <1>2, Divided
<1> HIDE DEF w, d
<1>4. k \in Int /\ size * d = q * k
  <2>1. (q * c) * d = q * (c * d)
    BY <1>3
  <2> QED
    BY <1>1, <1>3, <2>1
<1> HIDE DEF k
<1>5. e = w + q * k
  <2>1. q * k \in Int
    BY <1>4
  <2> QED
    BY <1>3, <1>4, <2>1
<1>6. e % q = w % q
  BY <1>3, <1>4, <1>5, SameRemainder
<1> QED
  BY <1>6 DEF w, size

\* The machine's operation is the exact one modulo q, where it does not wrap, or wraps
\* at a multiple of q.
LEMMA MachineOpMeans ==
  ASSUME NEW op \in BinOp, NEW x \in Word, NEW y \in Word, NEW q \in Nat \ {0},
         ~ Overflows(op, x, y) \/ DividesWordSize(q)
  PROVE  MachineOp(op, x, y) % q = Exact(op, x, y) % q
<1> DEFINE e == Exact(op, x, y)
<1>1. e \in Int
  <2>1. x \in Int /\ y \in Int
    BY DEF Word
  <2> QED
    BY <2>1, ExactType
<1>2. CASE ~ Overflows(op, x, y)
  <2>1. e \in 0 .. WordSize - 1 /\ WordSize \in Nat \ {0}
    BY <1>2, WordsAssumption DEF Overflows, Word
  <2>2. e % WordSize = e
    <3> HIDE DEF e
    <3> QED
      BY <2>1, SmallRemainder
  <2> QED
    BY <2>2 DEF MachineOp
<1>3. CASE DividesWordSize(q)
  BY <1>1, <1>3, WrappedRemainder DEF MachineOp
<1> QED
  BY <1>2, <1>3

\* What folding computes is a word: q is one.
LEMMA MachineOpType ==
  ASSUME NEW op \in BinOp, NEW x \in Word, NEW y \in Word
  PROVE  MachineOp(op, x, y) % Modulus \in Word
<1>1. Exact(op, x, y) \in Int
  BY ExactType DEF Word
<1>2. MachineOp(op, x, y) \in Int
  BY <1>1, WordsAssumption DEF MachineOp
<1>3. MachineOp(op, x, y) % Modulus \in 0 .. Modulus - 1
  BY <1>2, WordsAssumption
<1> QED
  BY <1>3, WordsAssumption DEF Word

-----------------------------------------------------------------------------
\* + and * modulo q, of residues.

LEMMA ResidueFacts ==
  /\ Residue # {}
  /\ Residue \subseteq Nat
  /\ \A a \in Int : a % Modulus \in Residue
  /\ \A a \in Residue : a % Modulus = a
BY WordsAssumption DEF Residue

\* is_associative (op/src/lib.rs:9-11).
AssociativeOps == {"Add", "Mul"}

LEMMA RingTyped ==
  ASSUME NEW op \in AssociativeOps, NEW x \in Residue, NEW y \in Residue
  PROVE  RingOp(op, x, y) \in Residue
<1>1. x \in Int /\ y \in Int /\ op \in BinOp
  BY ResidueFacts DEF AssociativeOps, BinOp
<1>2. Exact(op, x, y) \in Int
  BY <1>1, ExactType
<1> QED
  BY <1>2, ResidueFacts DEF RingOp

LEMMA RingCommutes ==
  ASSUME NEW op \in AssociativeOps, NEW x \in Residue, NEW y \in Residue
  PROVE  RingOp(op, x, y) = RingOp(op, y, x)
<1>1. x \in Int /\ y \in Int
  BY ResidueFacts
<1>2. Exact(op, x, y) = Exact(op, y, x)
  BY <1>1 DEF Exact, AssociativeOps
<1> QED
  BY <1>2 DEF RingOp

LEMMA RingAssociates ==
  ASSUME NEW op \in AssociativeOps, NEW x \in Residue, NEW y \in Residue, NEW z \in Residue
  PROVE  RingOp(op, RingOp(op, x, y), z) = RingOp(op, x, RingOp(op, y, z))
<1>1. x \in Int /\ y \in Int /\ z \in Int /\ op \in BinOp /\ Modulus \in Nat \ {0}
  BY ResidueFacts, WordsAssumption DEF AssociativeOps, BinOp
<1>2. x % Modulus = x /\ z % Modulus = z
  BY ResidueFacts
<1> DEFINE xy == Exact(op, x, y)
           yz == Exact(op, y, z)
<1>3. xy \in Int /\ yz \in Int
  BY <1>1, ExactType
<1>4. Exact(op, xy, z) = Exact(op, x, yz)
  <2>1. CASE op = "Add"
    BY <2>1, <1>1 DEF Exact
  <2>2. CASE op = "Mul"
    BY <2>2, <1>1 DEF Exact
  <2> QED
    BY <2>1, <2>2 DEF AssociativeOps
<1> HIDE DEF xy, yz
<1>5. Exact(op, xy % Modulus, z % Modulus) % Modulus = Exact(op, xy, z) % Modulus
  BY <1>1, <1>3, ExactMod, ZenonT(60)
<1>6. Exact(op, x % Modulus, yz % Modulus) % Modulus = Exact(op, x, yz) % Modulus
  BY <1>1, <1>3, ExactMod, ZenonT(60)
<1> QED
  BY <1>2, <1>4, <1>5, <1>6 DEF xy, yz, RingOp

LEMMA RingSwaps ==
  ASSUME NEW op \in AssociativeOps, NEW x \in Residue, NEW y \in Residue, NEW z \in Residue
  PROVE  RingOp(op, RingOp(op, x, y), z) = RingOp(op, RingOp(op, x, z), y)
<1>1. RingOp(op, RingOp(op, x, y), z) = RingOp(op, x, RingOp(op, y, z))
  BY RingAssociates
<1>2. RingOp(op, RingOp(op, x, z), y) = RingOp(op, x, RingOp(op, z, y))
  BY RingAssociates
<1>3. RingOp(op, y, z) = RingOp(op, z, y)
  BY RingCommutes
<1> QED
  BY <1>1, <1>2, <1>3

-----------------------------------------------------------------------------
\* What expressions and gates stand for.

\* The arguments may be any numbers, residues among them.
Assignments == [InputIndices -> Int]

LEMMA ResiduesAreArguments == Environments \subseteq Assignments
<1>1. Residue \subseteq Int
  BY ResidueFacts
<1> SUFFICES ASSUME NEW env \in [InputIndices -> Residue]
             PROVE  env \in [InputIndices -> Int]
  BY DEF Environments, Assignments
<1> QED
  BY <1>1

LEMMA NodeValueTyped ==
  ASSUME NEW n \in Node, NEW env \in Assignments, NEW val,
         IsOp(n) => val[n.lhs] \in Residue /\ val[n.rhs] \in Residue
  PROVE  NodeValue(n, env, val) \in Residue
<1>1. CASE IsInput(n)
  <2>1. env[n.index] \in Int
    BY <1>1 DEF Node, IsInput, Assignments
  <2>2. NodeValue(n, env, val) = env[n.index] % Modulus
    BY <1>1, NodeKinds DEF NodeValue
  <2> QED
    BY <2>1, <2>2, ResidueFacts
<1>2. CASE IsConst(n)
  <2>1. n.value \in Int
    BY <1>2 DEF Node, IsConst, Word
  <2>2. NodeValue(n, env, val) = n.value % Modulus
    BY <1>2, NodeKinds DEF NodeValue
  <2> QED
    BY <2>1, <2>2, ResidueFacts
<1>3. CASE IsOp(n)
  <2>1. n.op \in BinOp
    BY <1>3, NodeKinds, DagAssumption
  <2>2. val[n.lhs] \in Int /\ val[n.rhs] \in Int
    BY <1>3 DEF Residue
  <2>3. NodeValue(n, env, val) = Exact(n.op, val[n.lhs], val[n.rhs]) % Modulus
    BY <1>3, NodeKinds DEF NodeValue, RingOp
  <2>4. Exact(n.op, val[n.lhs], val[n.rhs]) \in Int
    BY <2>1, <2>2, ExactType
  <2> QED
    BY <2>3, <2>4, ResidueFacts
<1> QED
  BY <1>1, <1>2, <1>3, NodeKinds

\* Two valuations that agree on the operands of a node agree on the node.
LEMMA NodeValueLocal ==
  ASSUME NEW n \in Node, NEW env, NEW f, NEW h,
         IsOp(n) => f[n.lhs] = h[n.lhs] /\ f[n.rhs] = h[n.rhs]
  PROVE  NodeValue(n, env, f) = NodeValue(n, env, h)
BY NodeKinds DEF NodeValue

\* The canonical form of a node is a node with the same operands.
LEMMA CanonicalNode ==
  ASSUME NEW n \in Node
  PROVE  Canonical(n) \in Node /\ Operands(Canonical(n)) = Operands(n)
BY DEF Node, Canonical, IsOp, OpNode, Operands, Index

LEMMA ConstValue ==
  ASSUME NEW z \in Int, NEW env, NEW val
  PROVE  NodeValue(ConstNode(z), env, val) = z % Modulus
BY DEF ConstNode, NodeValue, IsInput, IsConst, IsOp

\* Folds keep values: they do not overflow, or wrap at a multiple of the modulus.
FoldsSafe == OverflowChecks \/ DividesWordSize(Modulus)

\* Folding two constants keeps the value, where the machine's operation is the exact one
\* modulo q.
LEMMA ConstFoldValue ==
  ASSUME NEW op \in BinOp, NEW x \in Word, NEW y \in Word, NEW env, NEW val,
         ~ Overflows(op, x, y) \/ DividesWordSize(Modulus)
  PROVE  NodeValue(ConstNode(MachineOp(op, x, y) % Modulus), env, val)
           = RingOp(op, x % Modulus, y % Modulus)
<1> DEFINE e == MachineOp(op, x, y)
           z == e % Modulus
<1>1. Modulus \in Nat \ {0} /\ x \in Int /\ y \in Int
  BY WordsAssumption DEF Word
<1>2. z = Exact(op, x, y) % Modulus
  BY <1>1, MachineOpMeans
<1>3. Exact(op, x % Modulus, y % Modulus) % Modulus = Exact(op, x, y) % Modulus
  BY <1>1, ExactMod
<1>4. Exact(op, x, y) % Modulus \in Residue
  BY <1>1, ExactType, ResidueFacts
<1>5. RingOp(op, x % Modulus, y % Modulus) = Exact(op, x % Modulus, y % Modulus) % Modulus
  BY DEF RingOp
<1> HIDE DEF z
<1>6. z \in Residue
  BY <1>2, <1>4
<1>7. NodeValue(ConstNode(z), env, val) = z
  BY <1>6, ResidueFacts, ConstValue
<1> QED
  BY <1>2, <1>3, <1>5, <1>7 DEF z

\* Neither does the order of the operands of + and * matter, nor so the canonical form.
LEMMA CanonicalValue ==
  ASSUME NEW n \in Node, NEW env, NEW val,
         IsOp(n) => val[n.lhs] \in Int /\ val[n.rhs] \in Int
  PROVE  NodeValue(Canonical(n), env, val) = NodeValue(n, env, val)
<1> DEFINE swapped == IsOp(n) /\ n.op # "Sub" /\ n.lhs > n.rhs
<1>1. CASE swapped
  <2> DEFINE x == val[n.lhs]
             y == val[n.rhs]
  <2>1. Canonical(n) = OpNode(n.op, n.rhs, n.lhs)
    BY <1>1 DEF Canonical
  <2>2. NodeValue(Canonical(n), env, val) = RingOp(n.op, y, x)
    BY <2>1 DEF NodeValue, OpNode, IsInput, IsConst, IsOp
  <2>3. NodeValue(n, env, val) = RingOp(n.op, x, y)
    BY <1>1, NodeKinds DEF NodeValue
  <2>4. x \in Int /\ y \in Int /\ n.op \in {"Add", "Mul"}
    BY <1>1, NodeKinds, DagAssumption DEF BinOp
  <2> HIDE DEF x, y
  <2>5. Exact(n.op, y, x) = Exact(n.op, x, y)
    BY <2>4 DEF Exact
  <2> QED
    BY <2>2, <2>3, <2>5 DEF RingOp
<1>2. CASE ~ swapped
  BY <1>2 DEF Canonical
<1> HIDE DEF swapped
<1> QED
  BY <1>1, <1>2

\* There is one valuation of an ordered arena, and Denote is it: the equation
\* by which Denote is defined has a solution, and only one.
LEMMA DenoteEquation ==
  ASSUME NEW nodes \in Seq(Node), Topological(nodes), NEW env \in Assignments
  PROVE  /\ Denote(nodes, env) \in [DOMAIN nodes -> Residue]
         /\ \A e \in DOMAIN nodes :
              Denote(nodes, env)[e] = NodeValue(nodes[e], env, Denote(nodes, env))
<1>0. Denote(nodes, env) = CHOOSE f : f = [e \in DOMAIN nodes |-> NodeValue(nodes[e], env, f)]
  BY DEF Denote
<1> DEFINE N == Len(nodes)
           P(f) == f = [e \in DOMAIN nodes |-> NodeValue(nodes[e], env, f)]
           step == [p \in (1 .. N) \X [1 .. N -> Residue] |->
                      NodeValue(nodes[p[1]], env, p[2])]
           d == Denote(nodes, env)
<1>1. /\ N \in Nat /\ DOMAIN nodes = 1 .. N
      /\ \A e \in 1 .. N :
           /\ nodes[e] \in Node
           /\ IsOp(nodes[e]) => nodes[e].lhs \in 1 .. e - 1 /\ nodes[e].rhs \in 1 .. e - 1
  BY OperandsBefore
<1>2. ASSUME NEW e \in 1 .. N, NEW f, NEW h, \A k \in 1 .. e - 1 : f[k] = h[k]
      PROVE  NodeValue(nodes[e], env, f) = NodeValue(nodes[e], env, h)
  BY <1>1, <1>2, NodeValueLocal
<1>3. Causal(N, Residue, step)
  <2>1. ASSUME NEW e \in 1 .. N, NEW f \in [1 .. N -> Residue]
        PROVE  NodeValue(nodes[e], env, f) \in Residue
    <3>1. nodes[e] \in Node
          /\ (IsOp(nodes[e]) => f[nodes[e].lhs] \in Residue /\ f[nodes[e].rhs] \in Residue)
      BY <1>1
    <3> QED
      BY <3>1, NodeValueTyped
  <2>2. step \in [(1 .. N) \X [1 .. N -> Residue] -> Residue]
    BY <2>1
  <2>3. \A e \in 1 .. N : \A f, h \in [1 .. N -> Residue] :
          (\A k \in 1 .. e - 1 : f[k] = h[k]) => step[<<e, f>>] = step[<<e, h>>]
    BY <1>2
  <2> QED
    BY <2>2, <2>3 DEF Causal
<1>4. PICK f : Solves(f, N, Residue, step)
  <2> HIDE DEF step, N
  <2> QED
    BY <1>1, <1>3, ResidueFacts, RecursionSolvable
<1>5. \A e \in 1 .. N : f[e] = NodeValue(nodes[e], env, f)
  <2>1. \A e \in 1 .. N : \A h \in [1 .. N -> Residue] :
          step[<<e, h>>] = NodeValue(nodes[e], env, h)
    OBVIOUS
  <2> HIDE DEF N, step
  <2> QED
    BY <1>4, <2>1 DEF Solves
<1> HIDE DEF N, step
<1>6. f \in [1 .. N -> Residue]
  BY <1>4 DEF Solves
<1>7. P(f)
  BY <1>1, <1>5, <1>6
<1>8. P(d)
  <2>1. d = CHOOSE g : P(g)
    BY <1>0
  <2> HIDE DEF P, d
  <2> QED
    BY <1>7, <2>1
<1> HIDE DEF d
<1>9. \A e \in 1 .. N : d[e] = NodeValue(nodes[e], env, d)
  BY <1>1, <1>8
<1>10. \A e \in 1 .. N : d[e] = f[e]
  <2> DEFINE S == {e \in 1 .. N : d[e] = f[e]}
  <2>1. ASSUME NEW e \in 1 .. N, (1 .. e - 1) \subseteq S
        PROVE  e \in S
    <3>1. \A k \in 1 .. e - 1 : d[k] = f[k]
      BY <2>1
    <3> QED
      BY <3>1, <1>2, <1>5, <1>9
  <2>2. 1 .. N \subseteq S
    <3> HIDE DEF S
    <3> QED
      BY <1>1, <2>1, PositionInduction
  <2> QED
    BY <2>2
<1>11. d \in [1 .. N -> Residue]
  BY <1>1, <1>6, <1>8, <1>10
<1> QED
  BY <1>1, <1>9, <1>11 DEF d

\* Only the arguments of the inputs that an arena has matter.
LEMMA DenoteOfPart ==
  ASSUME NEW nodes \in Seq(Node), Topological(nodes), NEW env \in Assignments, NEW part,
         \A e \in DOMAIN nodes :
           IsInput(nodes[e]) => part[nodes[e].index] = env[nodes[e].index]
  PROVE  \A e \in DOMAIN nodes : Denote(nodes, part)[e] = Denote(nodes, env)[e]
<1> DEFINE N == Len(nodes)
           P(f) == f = [e \in DOMAIN nodes |-> NodeValue(nodes[e], part, f)]
           d == Denote(nodes, env)
           p == Denote(nodes, part)
           S == {e \in 1 .. N : p[e] = d[e]}
<1>1. /\ N \in Nat /\ DOMAIN nodes = 1 .. N
      /\ \A e \in 1 .. N :
           /\ nodes[e] \in Node
           /\ IsOp(nodes[e]) => nodes[e].lhs \in 1 .. e - 1 /\ nodes[e].rhs \in 1 .. e - 1
  BY OperandsBefore
<1>2. d \in [DOMAIN nodes -> Residue] /\ \A e \in DOMAIN nodes : d[e] = NodeValue(nodes[e], env, d)
  BY DenoteEquation
<1>3. p = CHOOSE f : P(f)
  BY DEF Denote
<1> HIDE DEF d, p, N
<1>4. \A e \in DOMAIN nodes : NodeValue(nodes[e], part, d) = NodeValue(nodes[e], env, d)
  BY <1>1, NodeKinds DEF NodeValue
<1>5. P(d)
  BY <1>2, <1>4
<1>6. P(p)
  <2> HIDE DEF P
  <2> QED
    BY <1>3, <1>5
<1>7. \A e \in DOMAIN nodes : p[e] = NodeValue(nodes[e], part, p)
  BY <1>6
<1> HIDE DEF P
<1>8. ASSUME NEW e \in 1 .. N, (1 .. e - 1) \subseteq S
      PROVE  e \in S
  <2>1. p[e] = NodeValue(nodes[e], part, p) /\ d[e] = NodeValue(nodes[e], part, d)
    BY <1>1, <1>2, <1>4, <1>7
  <2>2. IsOp(nodes[e]) => p[nodes[e].lhs] = d[nodes[e].lhs] /\ p[nodes[e].rhs] = d[nodes[e].rhs]
    BY <1>1, <1>8
  <2>3. NodeValue(nodes[e], part, p) = NodeValue(nodes[e], part, d)
    BY <1>1, <2>2, NodeValueLocal
  <2> QED
    BY <2>1, <2>3
<1>9. 1 .. N \subseteq S
  <2> HIDE DEF S
  <2> QED
    BY <1>1, <1>8, PositionInduction
<1> QED
  BY <1>1, <1>9 DEF p, d

\* An arena that continues another gives the nodes of that one the values they had.
Continues(b, a) ==
  \A e \in DOMAIN a : e \in DOMAIN b /\ b[e] = a[e]

LEMMA DenoteContinues ==
  ASSUME NEW a \in Seq(Node), Topological(a), NEW b \in Seq(Node), Topological(b),
         Continues(b, a), NEW env \in Assignments
  PROVE  \A e \in DOMAIN a : Denote(b, env)[e] = Denote(a, env)[e]
<1> DEFINE N == Len(a)
           f == Denote(a, env)
           h == Denote(b, env)
           S == {e \in 1 .. N : h[e] = f[e]}
<1>1. /\ N \in Nat /\ DOMAIN a = 1 .. N
      /\ \A e \in 1 .. N :
           /\ a[e] \in Node
           /\ IsOp(a[e]) => a[e].lhs \in 1 .. e - 1 /\ a[e].rhs \in 1 .. e - 1
  BY OperandsBefore
<1>2. /\ \A e \in DOMAIN a : f[e] = NodeValue(a[e], env, f)
      /\ \A e \in DOMAIN b : h[e] = NodeValue(b[e], env, h)
  BY DenoteEquation
<1> HIDE DEF f, h, N
<1>3. ASSUME NEW e \in 1 .. N, (1 .. e - 1) \subseteq S
      PROVE  e \in S
  <2>1. h[e] = NodeValue(a[e], env, h) /\ f[e] = NodeValue(a[e], env, f)
    BY <1>1, <1>2 DEF Continues
  <2>2. IsOp(a[e]) => h[a[e].lhs] = f[a[e].lhs] /\ h[a[e].rhs] = f[a[e].rhs]
    BY <1>1, <1>3
  <2>3. NodeValue(a[e], env, h) = NodeValue(a[e], env, f)
    BY <1>1, <2>2, NodeValueLocal
  <2> QED
    BY <2>1, <2>3
<1>4. 1 .. N \subseteq S
  <2> HIDE DEF S
  <2> QED
    BY <1>1, <1>3, PositionInduction
<1> QED
  BY <1>1, <1>4 DEF f, h

LEMMA AppendContinues ==
  ASSUME NEW a \in Seq(Node), Topological(a), NEW n \in Node,
         Operands(n) \subseteq DOMAIN a
  PROVE  /\ Append(a, n) \in Seq(Node) /\ Topological(Append(a, n))
         /\ Continues(Append(a, n), a)
         /\ DOMAIN Append(a, n) = DOMAIN a \cup {Len(a) + 1}
         /\ Len(a) + 1 \notin DOMAIN a
         /\ Append(a, n)[Len(a) + 1] = n
<1> DEFINE b == Append(a, n)
           N == Len(a)
<1>1. /\ b \in Seq(Node) /\ Len(b) = N + 1 /\ b[N + 1] = n
      /\ \A e \in 1 .. N : b[e] = a[e]
  BY AppendProperties
<1>2. N \in Nat /\ DOMAIN a = 1 .. N /\ DOMAIN b = 1 .. N + 1
  BY <1>1, LenProperties
<1> HIDE DEF b, N
<1>3. Topological(b)
  <2>1. ASSUME NEW e \in 1 .. N + 1
        PROVE  Operands(b[e]) \subseteq 1 .. e - 1
    <3>1. CASE e = N + 1
      BY <3>1, <1>1, <1>2
    <3>2. CASE e # N + 1
      <4>1. e \in 1 .. N
        BY <3>2, <1>2
      <4> QED
        BY <4>1, <1>1, <1>2 DEF Topological
    <3> QED
      BY <3>1, <3>2
  <2> QED
    BY <2>1, <1>2 DEF Topological
<1>4. Continues(b, a)
  BY <1>1, <1>2 DEF Continues
<1>5. DOMAIN b = DOMAIN a \cup {N + 1} /\ N + 1 \notin DOMAIN a
  BY <1>2
<1> QED
  BY <1>1, <1>3, <1>4, <1>5 DEF b, N
=============================================================================
