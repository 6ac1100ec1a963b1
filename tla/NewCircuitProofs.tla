-------------------------- MODULE NewCircuitProofs --------------------------
(* What new_circuit_from makes of any gates that a pass leaves in order:     *)
(* the kept gates, compacted, with every operand where it has gone to.       *)
EXTENDS NewCircuit, DagProofs, FiniteSetTheorems

\* The gates that are kept before gate k.
Before(k) == {h \in Kept : h < k}

\* An operand of a gate still to be copied, when it is gate k's turn.
Side(x, k) == IF x < k THEN Place(x) ELSE x
Turned(n, k) == IF IsOp(n) THEN OpNode(n.op, Side(n.lhs, k), Side(n.rhs, k)) ELSE n

RebuildInv ==
  /\ Proper(handed)
  /\ passed \in Seq(Node \cup {Tombstone}) /\ Len(passed) = Len(handed.gates)
  /\ next \in Nat \ {0} /\ next <= Len(passed) + 1
  /\ alive \in Seq(Node) /\ Len(alive) = Cardinality(Before(next))
  /\ RenamedCopy
  /\ NewTopological
  /\ \A u \in Kept : u >= next => passed[u] = Turned(handed.gates[u], next)
  /\ inputs \in Seq(DOMAIN alive) /\ outputs \in Seq(DOMAIN alive)
  /\ Ascending(inputs) /\ Ascending(outputs)
  /\ old_outputs = {o \in Range(handed.circuit.outputs) : o >= next}
  /\ Range(outputs) = {Place(o) : o \in {q \in Range(handed.circuit.outputs) : q < next}}
  /\ Range(inputs) = {Place(g) : g \in {h \in Before(next) : IsInput(handed.gates[h])}}
  /\ verdict \in {"none", "running", "ok", "error"}
  /\ verdict = "ok" => \A g \in Kept : g < next
  /\ FailsOnlyOnWrongUsages

-----------------------------------------------------------------------------
\* As many gates come before gate k as there are places for them.
LEMMA Places ==
  ASSUME Proper(handed)
  PROVE  /\ Kept \subseteq Nat \ {0}
         /\ Before(1) = {} /\ Cardinality(Before(1)) = 0
         /\ \A k \in Nat \ {0} : /\ Cardinality(Before(k)) \in Nat
                                 /\ Cardinality(Before(k)) < k
                                 /\ k \notin Kept => Before(k + 1) = Before(k)
         /\ \A k \in Kept : /\ Before(k + 1) = Before(k) \cup {k} /\ k \notin Before(k)
                            /\ Place(k) = Cardinality(Before(k)) + 1
                            /\ Cardinality(Before(k + 1)) = Place(k)
                            /\ Place(k) \in 1 .. k
         /\ \A j \in Kept, k \in Nat : j < k => Place(j) \in 1 .. Cardinality(Before(k))
<1>1. Kept \subseteq DOMAIN handed.gates /\ DOMAIN handed.gates = 1 .. Len(handed.gates)
      /\ Len(handed.gates) \in Nat
  BY LenProperties DEF Proper, Kept
<1>2. Kept \subseteq Nat \ {0} /\ IsFiniteSet(Kept)
  <2>1. IsFiniteSet(1 .. Len(handed.gates))
    BY <1>1, FS_Interval
  <2> QED
    BY <2>1, <1>1, FS_Subset
<1> DEFINE members(k) == \A h : h \in Before(k) <=> h \in Kept /\ h < k
<1>7. \A h \in Kept : h \in Int /\ h >= 1
  BY <1>2
<1>8. \A k : members(k)
  BY DEF Before
<1>3. Before(1) = {} /\ Cardinality(Before(1)) = 0
  <2>1. \A h : h \notin Before(1)
    BY <1>7, <1>8
  <2>2. Before(1) = {}
    BY <2>1
  <2> QED
    BY <2>2, FS_EmptySet
<1>4. \A k \in Nat : IsFiniteSet(Before(k)) /\ Cardinality(Before(k)) \in Nat
  BY <1>2, FS_Subset, FS_CardinalityType DEF Before
<1>5. ASSUME NEW k \in Nat \ {0}
      PROVE  Cardinality(Before(k)) < k /\ (k \notin Kept => Before(k + 1) = Before(k))
  <2>1. IsFiniteSet(1 .. k - 1) /\ Cardinality(1 .. k - 1) = k - 1
    BY FS_Interval
  <2>2. Before(k) \in SUBSET (1 .. k - 1)
    <3>1. \A h \in Before(k) : h \in 1 .. k - 1
      BY <1>7, <1>8
    <3> QED
      BY <3>1
  <2>3. Cardinality(Before(k)) <= k - 1
    BY <2>1, <2>2, FS_Subset
  <2>4. k \notin Kept => Before(k + 1) = Before(k)
    <3>1. ASSUME k \notin Kept, NEW h PROVE h \in Before(k + 1) <=> h \in Before(k)
      BY <3>1, <1>7, <1>8
    <3> QED
      BY <3>1
  <2> QED
    BY <2>3, <2>4, <1>4
<1>6. ASSUME NEW k \in Kept
      PROVE  /\ Before(k + 1) = Before(k) \cup {k} /\ k \notin Before(k)
             /\ Place(k) = Cardinality(Before(k)) + 1
             /\ Cardinality(Before(k + 1)) = Place(k)
             /\ Place(k) \in 1 .. k
  <2>1. k \in Nat \ {0}
    BY <1>2
  <2>2. Before(k + 1) = Before(k) \cup {k} /\ k \notin Before(k)
    <3>1. ASSUME NEW h PROVE h \in Before(k + 1) <=> h \in Before(k) \/ h = k
      BY <1>7, <1>8
    <3>2. k \notin Before(k)
      BY <1>7, <1>8
    <3> QED
      BY <3>1, <3>2
  <2>3. Before(k + 1) = {h \in Kept : h <= k}
    <3>1. ASSUME NEW h PROVE h \in Before(k + 1) <=> h \in Kept /\ h <= k
      BY <1>7, <1>8
    <3> QED
      BY <3>1
  <2>4. Cardinality(Before(k) \cup {k}) = Cardinality(Before(k)) + 1
    BY <2>1, <2>2, <1>4, FS_AddElement
  <2>5. Place(k) = Cardinality(Before(k + 1))
    BY <2>3 DEF Place
  <2> QED
    BY <2>1, <2>2, <2>4, <2>5, <1>4, <1>5
<1>9. ASSUME NEW j \in Kept, NEW k \in Nat, j < k
      PROVE  Place(j) \in 1 .. Cardinality(Before(k))
  <2>1. Before(j + 1) \in SUBSET Before(k)
    <3>1. ASSUME NEW h \in Before(j + 1) PROVE h \in Before(k)
      BY <1>7, <1>8, <1>9
    <3> QED
      BY <3>1
  <2>2. Cardinality(Before(j + 1)) <= Cardinality(Before(k))
    BY <2>1, <1>4, FS_Subset
  <2> QED
    BY <2>2, <1>2, <1>4, <1>6
<1> QED
  BY <1>2, <1>3, <1>4, <1>5, <1>6, <1>9

\* What is handed over, in the words of the loop.
LEMMA HandedFacts ==
  ASSUME Proper(handed)
  PROVE  /\ handed.gates \in Seq(Node \cup {Tombstone}) /\ Len(handed.gates) \in Nat
         /\ DOMAIN handed.gates = 1 .. Len(handed.gates)
         /\ Range(handed.circuit.outputs) \subseteq Kept
         /\ \A g \in Kept :
              /\ g \in DOMAIN handed.gates /\ handed.gates[g] \in Node
              /\ handed.usages[g] \subseteq Kept
              /\ Operands(handed.gates[g]) \subseteq Kept
              /\ Operands(handed.gates[g]) \subseteq 1 .. g - 1
              /\ LET n == handed.gates[g] IN IsOp(n) => n.lhs # n.rhs \/ 1 .. n.lhs \subseteq Kept
              /\ \A o \in Operands(handed.gates[g]) : g \in handed.usages[o]
<1>1. /\ handed.gates \in Seq(Node \cup {Tombstone}) /\ Len(handed.gates) \in Nat
      /\ DOMAIN handed.gates = 1 .. Len(handed.gates)
  BY LenProperties DEF Proper
<1>2. Range(handed.circuit.outputs) \subseteq Kept
  BY RangeInSet DEF Proper, Kept
<1>3. ASSUME NEW g \in Kept PROVE handed.usages[g] \subseteq Kept
  <2>1. g \in DOMAIN handed.usages /\ handed.usages \in Seq(SUBSET Kept)
    BY DEF Proper, Kept, KeptOf
  <2>2. g \in 1 .. Len(handed.usages)
    BY <2>1, LenProperties
  <2> QED
    BY <2>1, <2>2, ElementOfSeq
<1> QED
  BY <1>1, <1>2, <1>3 DEF Proper, SquaresStay, Kept

\* The operands that a kept gate is given, when its turn comes, are places taken.
LEMMA TurnedOperands ==
  ASSUME Proper(handed), NEW g \in Kept
  PROVE  LET n == handed.gates[g] IN
         /\ Turned(n, g) = IF IsOp(n) THEN OpNode(n.op, Place(n.lhs), Place(n.rhs)) ELSE n
         /\ Turned(n, g) \in Node
         /\ Operands(Turned(n, g)) \subseteq 1 .. Cardinality(Before(g))
         /\ IsInput(Turned(n, g)) <=> IsInput(n)
<1> DEFINE n == handed.gates[g]
<1>1. /\ g \in Nat \ {0} /\ n \in Node /\ Operands(n) \subseteq Kept
      /\ Operands(n) \subseteq 1 .. g - 1
  BY Places, HandedFacts
<1>2. CASE IsOp(n)
  <2>1. /\ n.op \in Ops /\ n.lhs \in Kept /\ n.rhs \in Kept
        /\ n.lhs < g /\ n.rhs < g
    <3>1. n.op \in Ops /\ Operands(n) = {n.lhs, n.rhs}
      BY <1>1, <1>2, NodeKinds
    <3> HIDE DEF n
    <3> QED
      BY <3>1, <1>1
  <2>2. /\ Place(n.lhs) \in 1 .. Cardinality(Before(g))
        /\ Place(n.rhs) \in 1 .. Cardinality(Before(g))
        /\ Cardinality(Before(g)) \in Nat
    BY <2>1, <1>1, Places
  <2>3. Turned(n, g) = OpNode(n.op, Place(n.lhs), Place(n.rhs))
    BY <2>1, <1>2 DEF Turned, Side
  <2>4. /\ OpNode(n.op, Place(n.lhs), Place(n.rhs)) \in Node
        /\ ~ IsInput(OpNode(n.op, Place(n.lhs), Place(n.rhs))) /\ ~ IsInput(n)
        /\ Operands(OpNode(n.op, Place(n.lhs), Place(n.rhs))) = {Place(n.lhs), Place(n.rhs)}
    BY <2>1, <2>2, <1>2 DEF OpNode, Node, Index, IsInput, IsOp, Operands
  <2> QED
    BY <2>2, <2>3, <2>4, <1>2
<1>3. CASE ~ IsOp(n)
  BY <1>1, <1>3, NodeKinds DEF Turned
<1> QED
  BY <1>2, <1>3

-----------------------------------------------------------------------------
LEMMA KeptPositive ==
  ASSUME NEW h, Proper(h)
  PROVE  KeptOf(h) \subseteq Nat \ {0}
<1>1. DOMAIN h.gates = 1 .. Len(h.gates) /\ Len(h.gates) \in Nat
  BY LenProperties DEF Proper
<1> QED
  BY <1>1 DEF Proper

LEMMA NodeOfParts ==
  ASSUME NEW n \in Node, IsOp(n)
  PROVE  OpNode(n.op, n.lhs, n.rhs) = n
BY DEF Node, IsOp, OpNode

\* Before the loop begins nothing has been copied or told.
Begun ==
  /\ Proper(handed) /\ passed = handed.gates /\ next = 1
  /\ alive = << >> /\ inputs = << >> /\ outputs = << >>
  /\ old_outputs = Range(handed.circuit.outputs) /\ verdict \in {"none", "running"}

LEMMA BeginHolds == Begun => RebuildInv
<1> SUFFICES ASSUME Begun PROVE RebuildInv
  OBVIOUS
<1> USE DEF Begun
<1>1. /\ Kept \subseteq Nat \ {0} /\ Kept = KeptOf(handed)
      /\ \A g \in Kept : /\ handed.gates[g] \in Node
                          /\ Operands(handed.gates[g]) \subseteq Kept
  BY KeptPositive DEF Kept, Proper
<1>2. /\ \A g \in Kept : g \in Nat /\ ~ (g < 1)
      /\ Range(handed.circuit.outputs) \subseteq Kept
  BY <1>1, RangeInSet DEF Proper
<1>3. Before(next) = {} /\ Cardinality(Before(next)) = 0
  <2>1. Before(next) = {}
    BY <1>2 DEF Before
  <2> QED
    BY <2>1, FS_EmptySet
<1>4. RenamedCopy /\ NewTopological
  BY <1>2 DEF RenamedCopy, NewTopological, Topological
<1>5. ASSUME NEW u \in Kept PROVE passed[u] = Turned(handed.gates[u], next)
  <2> DEFINE n == handed.gates[u]
  <2>1. n \in Node /\ Operands(n) \subseteq Kept
    BY <1>1
  <2>2. CASE IsOp(n)
    <3>1. n.lhs \in Kept /\ n.rhs \in Kept
      BY <2>1, <2>2, NodeKinds
    <3>2. Side(n.lhs, 1) = n.lhs /\ Side(n.rhs, 1) = n.rhs
      BY <3>1, <1>2 DEF Side
    <3>3. Turned(n, 1) = OpNode(n.op, n.lhs, n.rhs)
      BY <2>2, <3>2 DEF Turned
    <3> QED
      BY <2>1, <2>2, <3>3, NodeOfParts
  <2>3. CASE ~ IsOp(n)
    BY <2>3 DEF Turned
  <2> QED
    BY <2>2, <2>3
<1>6. /\ inputs \in Seq(DOMAIN alive) /\ outputs \in Seq(DOMAIN alive)
      /\ Range(inputs) = {} /\ Range(outputs) = {}
      /\ Ascending(inputs) /\ Ascending(outputs)
      /\ alive \in Seq(Node) /\ Len(alive) = 0
  BY DEF Range, Ascending
<1>7. old_outputs = {o \in Range(handed.circuit.outputs) : o >= next}
  <2>1. \A o \in Range(handed.circuit.outputs) : o >= 1
    BY <1>2
  <2> QED
    BY <2>1
<1>8. {q \in Range(handed.circuit.outputs) : q < next} = {}
  BY <1>2
<1>9. passed \in Seq(Node \cup {Tombstone}) /\ Len(passed) = Len(handed.gates)
      /\ next <= Len(passed) + 1
  BY LenProperties DEF Proper
<1>10. Range(outputs) = {Place(o) : o \in {q \in Range(handed.circuit.outputs) : q < next}}
       /\ Range(inputs) = {Place(g) : g \in {h \in Before(next) : IsInput(handed.gates[h])}}
  BY <1>3, <1>6, <1>8
<1>11. FailsOnlyOnWrongUsages
  BY DEF FailsOnlyOnWrongUsages
<1> QED
  BY <1>3, <1>4, <1>5, <1>6, <1>7, <1>9, <1>10, <1>11 DEF RebuildInv, Range

LEMMA NewCircuitInitHolds == NewCircuitInit => RebuildInv
<1>1. NewCircuitInit => Begun
  <2> SUFFICES ASSUME NewCircuitInit PROVE Begun
    OBVIOUS
  <2>1. /\ handed.gates = << >> /\ handed.usages = << >> /\ handed.circuit.outputs = << >>
        /\ KeptOf(handed) = {}
    BY DEF NewCircuitInit, KeptOf
  <2>2. Proper(handed)
    BY <2>1 DEF Proper, SquaresStay
  <2>3. Range(handed.circuit.outputs) = {}
    BY <2>1 DEF Range
  <2> QED
    BY <2>1, <2>2, <2>3 DEF NewCircuitInit, Begun
<1> QED
  BY <1>1, BeginHolds

LEMMA HandOverHolds ==
  ASSUME NEW h, Proper(h), HandOver(h)
  PROVE  RebuildInv'
<1>1. Begun'
  BY DEF HandOver, Begun, Proper, KeptOf, Range
<1> QED
  BY <1>1, BeginHolds, PTL

\* While nothing else is handed over, places stay.
LEMMA PlacesStay ==
  ASSUME UNCHANGED handed
  PROVE  /\ Kept' = Kept /\ (Proper(handed)' <=> Proper(handed))
         /\ \A k : Before(k)' = Before(k) /\ Place(k)' = Place(k)
         /\ \A x, k : Side(x, k)' = Side(x, k)
         /\ \A n, k : Turned(n, k)' = Turned(n, k)
         /\ RightUsages' <=> RightUsages
BY DEF Kept, Before, Place, Side, Turned, RightUsages, Proper, SquaresStay, KeptOf

\* The gate whose turn it is.
LEMMA TurnFacts ==
  ASSUME RebuildInv, AtGate
  PROVE  /\ verdict = "running" /\ next \in Nat \ {0} /\ next + 1 <= Len(passed) + 1
         /\ Len(passed) \in Nat
         /\ next \in Kept <=> handed.usages[next] # {}
<1>1. next \in DOMAIN passed /\ DOMAIN passed = 1 .. Len(passed) /\ Len(passed) \in Nat
  BY LenProperties DEF RebuildInv, AtGate
<1> QED
  BY <1>1 DEF RebuildInv, AtGate, Kept, KeptOf

LEMMA SkipUnusedHolds == RebuildInv /\ SkipUnused => RebuildInv'
<1> SUFFICES ASSUME RebuildInv, SkipUnused PROVE RebuildInv'
  OBVIOUS
<1>1. /\ AtGate /\ next \notin Kept /\ next' = next + 1 /\ verdict = "running"
      /\ next \in Nat \ {0} /\ next + 1 <= Len(passed) + 1
      /\ UNCHANGED <<handed, passed, alive, inputs, outputs, old_outputs, verdict>>
  BY TurnFacts DEF SkipUnused
<1>2. Proper(handed) /\ Kept \subseteq Nat \ {0} /\ Before(next + 1) = Before(next)
  BY <1>1, Places DEF RebuildInv
<1>3. \A g \in Kept : (g < next + 1 <=> g < next) /\ (g >= next + 1 <=> g >= next)
  BY <1>1, <1>2
<1>4. RenamedCopy'
  BY <1>1, <1>3, PlacesStay DEF RebuildInv, RenamedCopy
<1>5. ASSUME NEW u \in Kept, u >= next + 1
      PROVE  passed[u] = Turned(handed.gates[u], next + 1)
  <2> DEFINE n == handed.gates[u]
  <2>1. passed[u] = Turned(n, next)
    BY <1>3, <1>5 DEF RebuildInv
  <2>2. CASE IsOp(n)
    <3>1. n.lhs \in Kept /\ n.rhs \in Kept
      BY <1>2, <2>2, HandedFacts, NodeKinds
    <3>2. Side(n.lhs, next + 1) = Side(n.lhs, next) /\ Side(n.rhs, next + 1) = Side(n.rhs, next)
      BY <3>1, <1>3 DEF Side
    <3> QED
      BY <2>1, <2>2, <3>2 DEF Turned
  <2>3. CASE ~ IsOp(n)
    BY <2>1, <2>3 DEF Turned
  <2> QED
    BY <2>2, <2>3
<1>6. Range(handed.circuit.outputs) \subseteq Kept
  BY <1>2, HandedFacts
<1>7. /\ {o \in Range(handed.circuit.outputs) : o >= next + 1}
           = {o \in Range(handed.circuit.outputs) : o >= next}
      /\ {q \in Range(handed.circuit.outputs) : q < next + 1}
           = {q \in Range(handed.circuit.outputs) : q < next}
  BY <1>3, <1>6
<1>8. UNCHANGED <<Range(outputs), Range(inputs), Range(handed.circuit.outputs)>>
  BY <1>1
<1>9. NewTopological' /\ FailsOnlyOnWrongUsages'
  BY <1>1 DEF RebuildInv, NewTopological, FailsOnlyOnWrongUsages
<1> QED
  <2>1. Kept' = Kept /\ Proper(handed') /\ Before(next)' = Before(next)
    BY <1>1, <1>2, PlacesStay DEF RebuildInv, Before
  <2> QED
    BY <2>1, <1>1, <1>2, <1>4, <1>5, <1>7, <1>8, <1>9, PlacesStay DEF RebuildInv

-----------------------------------------------------------------------------
LEMMA AppendAscends ==
  ASSUME NEW n \in Nat, NEW s \in Seq(1 .. n), Ascending(s), NEW x \in Nat, x > n
  PROVE  Ascending(Append(s, x))
<1>1. /\ Len(s) \in Nat /\ DOMAIN s = 1 .. Len(s)
      /\ \A i \in DOMAIN s : s[i] \in 1 .. n /\ Append(s, x)[i] = s[i]
      /\ DOMAIN Append(s, x) = 1 .. Len(s) + 1 /\ Append(s, x)[Len(s) + 1] = x
  BY LenProperties, ElementOfSeq, AppendProperties
<1> QED
  BY <1>1 DEF Ascending

\* A gate that is kept is copied to its place, whoever is told of it then.
LEMMA AllocHolds ==
  ASSUME RebuildInv, AtGate, next \in Kept, Alloc(next), next' = next + 1,
         UNCHANGED <<handed, verdict>>,
         passed' \in Seq(Node \cup {Tombstone}), Len(passed') = Len(passed),
         \A u \in Kept : u > next => passed'[u] = Turned(handed.gates[u], next + 1)
  PROVE  RebuildInv'
<1> DEFINE n == passed[next]
           new == Len(alive) + 1
           outs == Range(handed.circuit.outputs)
<1>1. /\ Proper(handed) /\ alive \in Seq(Node) /\ Len(alive) = Cardinality(Before(next))
      /\ next \in Nat \ {0} /\ next + 1 <= Len(passed) + 1 /\ verdict = "running"
  BY TurnFacts DEF RebuildInv
<1>2. n = Turned(handed.gates[next], next)
  BY <1>1, SMTT(30) DEF RebuildInv
<1>3. /\ n = IF IsOp(handed.gates[next])
             THEN OpNode(handed.gates[next].op, Place(handed.gates[next].lhs),
                         Place(handed.gates[next].rhs))
             ELSE handed.gates[next]
      /\ n \in Node /\ Operands(n) \subseteq 1 .. Len(alive)
      /\ IsInput(n) <=> IsInput(handed.gates[next])
  BY <1>1, <1>2, TurnedOperands
<1>4. /\ Kept \subseteq Nat \ {0}
      /\ Before(next + 1) = Before(next) \cup {next}
      /\ Place(next) = new /\ Cardinality(Before(next + 1)) = new
      /\ Len(alive) \in Nat
      /\ \A g \in Kept : g < next => Place(g) \in 1 .. Len(alive)
  BY <1>1, Places
<1> HIDE DEF n, new
<1>4a. Ascending(inputs') /\ Ascending(outputs')
  <2>1. inputs \in Seq(1 .. Len(alive)) /\ outputs \in Seq(1 .. Len(alive))
    BY <1>1, LenProperties DEF RebuildInv
  <2>2. Ascending(inputs) /\ Ascending(outputs) /\ new \in Nat /\ new > Len(alive)
    BY <1>4 DEF RebuildInv, new
  <2>3. Ascending(Append(inputs, new)) /\ Ascending(Append(outputs, new))
    BY <2>1, <2>2, <1>4, AppendAscends
  <2> QED
    BY <2>2, <2>3 DEF Alloc, new
<1>5. /\ alive' \in Seq(Node) /\ Len(alive') = new /\ alive'[new] = n
      /\ \A e \in 1 .. Len(alive) : alive'[e] = alive[e]
      /\ DOMAIN alive' = 1 .. new /\ DOMAIN alive = 1 .. Len(alive)
  <2>1. alive' = Append(alive, n)
    BY DEF Alloc, n
  <2> QED
    BY <2>1, <1>1, <1>3, AppendProperties, LenProperties DEF new
<1>6. \A g \in Kept : (g < next + 1 <=> g < next \/ g = next) /\ (g >= next + 1 <=> g > next)
  <2>1. \A g \in Kept : g \in Int
    BY <1>4
  <2> QED
    BY <2>1, <1>1
<1>7. RenamedCopy'
  <2>1. ASSUME NEW g \in Kept, g < next
        PROVE  alive'[Place(g)] = IF IsOp(handed.gates[g])
                 THEN OpNode(handed.gates[g].op, Place(handed.gates[g].lhs), Place(handed.gates[g].rhs))
                 ELSE handed.gates[g]
    <3>1. alive'[Place(g)] = alive[Place(g)]
      BY <2>1, <1>4, <1>5
    <3> QED
      BY <3>1, <2>1 DEF RebuildInv, RenamedCopy
  <2>2. alive'[Place(next)] = n
    BY <1>4, <1>5
  <2> QED
    BY <2>1, <2>2, <1>3, <1>6, PlacesStay DEF RenamedCopy
<1>8. NewTopological'
  <2>1. ASSUME NEW e \in 1 .. Len(alive) PROVE Operands(alive'[e]) \subseteq 1 .. e - 1
    BY <1>5 DEF RebuildInv, NewTopological, Topological
  <2>2. Operands(alive'[new]) \subseteq 1 .. new - 1 /\ 1 .. new = (1 .. Len(alive)) \cup {new}
    BY <1>3, <1>4, <1>5 DEF new
  <2> QED
    BY <2>1, <2>2, <1>5 DEF NewTopological, Topological
<1>9. /\ inputs \in Seq(1 .. new) /\ outputs \in Seq(1 .. new) /\ new \in 1 .. new
  <2>1. DOMAIN alive \subseteq 1 .. new /\ new \in 1 .. new
    BY <1>4, <1>5 DEF new
  <2>2. inputs \in Seq(1 .. new)
    BY <2>1, SeqInLarger DEF RebuildInv
  <2>3. outputs \in Seq(1 .. new)
    BY <2>1, SeqInLarger DEF RebuildInv
  <2> QED
    BY <2>1, <2>2, <2>3
<1>10. /\ inputs' \in Seq(1 .. new)
       /\ Range(inputs') = Range(inputs) \cup (IF IsInput(n) THEN {new} ELSE {})
  <2>1. inputs' = IF IsInput(n) THEN Append(inputs, new) ELSE inputs
    BY DEF Alloc, n, new
  <2>2. Append(inputs, new) \in Seq(1 .. new) /\ Range(Append(inputs, new)) = Range(inputs) \cup {new}
    BY <1>9, RangeOfAppend
  <2> QED
    BY <2>1, <2>2, <1>9
<1>11. /\ outputs' \in Seq(1 .. new)
       /\ Range(outputs') = Range(outputs) \cup (IF next \in old_outputs THEN {new} ELSE {})
  <2>1. outputs' = IF next \in old_outputs THEN Append(outputs, new) ELSE outputs
    BY DEF Alloc, new
  <2>2. Append(outputs, new) \in Seq(1 .. new) /\ Range(Append(outputs, new)) = Range(outputs) \cup {new}
    BY <1>9, RangeOfAppend
  <2> QED
    BY <2>1, <2>2, <1>9
<1>12. outs \subseteq Kept /\ old_outputs = {o \in outs : o >= next}
  BY <1>1, HandedFacts DEF RebuildInv
<1>13. old_outputs' = {o \in outs : o >= next + 1}
  <2>1. old_outputs' = old_outputs \ {next}
    BY DEF Alloc
  <2>2. \A o \in outs : o >= next + 1 <=> o >= next /\ o # next
    <3>1. \A o \in outs : o \in Int
      <4>1. outs \subseteq Nat \ {0}
        BY <1>4, <1>12
      <4> HIDE DEF outs
      <4> QED
        BY <4>1
    <3> QED
      BY <3>1, <1>1
  <2> QED
    BY <2>1, <2>2, <1>12
<1>14. Range(outputs') = {Place(o) : o \in {q \in outs : q < next + 1}}
  <2>1. Range(outputs) = {Place(o) : o \in {q \in outs : q < next}}
    BY DEF RebuildInv
  <2>2. next \in old_outputs <=> next \in outs
    BY <1>1, <1>12
  <2>3. \A q \in outs : q < next + 1 <=> q < next \/ q = next
    BY <1>6, <1>12
  <2> QED
    BY <2>1, <2>2, <2>3, <1>4, <1>11
<1>15. Range(inputs') = {Place(g) : g \in {h \in Before(next + 1) : IsInput(handed.gates[h])}}
  <2>1. Range(inputs) = {Place(g) : g \in {h \in Before(next) : IsInput(handed.gates[h])}}
    BY DEF RebuildInv
  <2> QED
    BY <2>1, <1>3, <1>4, <1>10
<1>16. FailsOnlyOnWrongUsages'
  BY <1>1 DEF FailsOnlyOnWrongUsages
<1>17. Kept' = Kept /\ Proper(handed') /\ Before(next)' = Before(next + 1)
  BY <1>1, PlacesStay DEF Before
<1>18. /\ inputs' \in Seq(DOMAIN alive') /\ outputs' \in Seq(DOMAIN alive')
  BY <1>5, <1>10, <1>11
<1>19. /\ alive' \in Seq(Node) /\ Len(alive') = Cardinality(Before(next)')
  BY <1>4, <1>5, <1>17
<1>20. Range(outputs)' = Range(outputs') /\ Range(inputs)' = Range(inputs')
       /\ Range(handed.circuit.outputs)' = outs
  BY DEF Range
<1> HIDE DEF outs
<1>21. \A u \in Kept' : u >= next' => passed'[u] = Turned(handed.gates[u], next)'
  BY <1>6, <1>17, PlacesStay
<1>22. /\ next' \in Nat \ {0} /\ next' <= Len(passed') + 1
       /\ passed' \in Seq(Node \cup {Tombstone}) /\ Len(passed') = Len(handed'.gates)
       /\ verdict' = "running"
  BY <1>1 DEF RebuildInv
<1>23. /\ old_outputs' = {o \in Range(handed.circuit.outputs)' : o >= next'}
       /\ Range(outputs)' = {Place(o)' : o \in {q \in Range(handed.circuit.outputs)' : q < next'}}
       /\ Range(inputs)' = {Place(g)' : g \in {h \in Before(next)' : IsInput(handed'.gates[h])}}
  BY <1>13, <1>14, <1>15, <1>17, <1>20, PlacesStay
<1> QED
  BY <1>7, <1>8, <1>16, <1>17, <1>18, <1>19, <1>21, <1>22, <1>23, <1>4a DEF RebuildInv

\* A gate that stays in its place has nobody to tell.
LEMMA KeepHolds == RebuildInv /\ Keep => RebuildInv'
<1> SUFFICES ASSUME RebuildInv, Keep PROVE RebuildInv'
  OBVIOUS
<1>1. /\ AtGate /\ next \in Kept /\ Alloc(next) /\ next' = next + 1
      /\ UNCHANGED <<handed, passed, verdict>> /\ Len(alive) + 1 = next
  BY TurnFacts DEF Keep, Moves
<1>2. /\ Proper(handed) /\ next \in Nat \ {0} /\ Place(next) = next
      /\ \A g \in Kept : g \in Int
  BY <1>1, Places DEF RebuildInv
<1>3. ASSUME NEW u \in Kept, u > next
      PROVE  passed[u] = Turned(handed.gates[u], next + 1)
  <2> DEFINE n == handed.gates[u]
  <2>1. passed[u] = Turned(n, next)
    BY <1>2, <1>3 DEF RebuildInv
  <2>2. CASE IsOp(n)
    <3>1. n.lhs \in Kept /\ n.rhs \in Kept
      BY <1>2, <2>2, HandedFacts, NodeKinds
    <3>2. Side(n.lhs, next + 1) = Side(n.lhs, next) /\ Side(n.rhs, next + 1) = Side(n.rhs, next)
      BY <3>1, <1>2 DEF Side
    <3> QED
      BY <2>1, <2>2, <3>2 DEF Turned
  <2>3. CASE ~ IsOp(n)
    BY <2>1, <2>3 DEF Turned
  <2> QED
    BY <2>2, <2>3
<1>4. passed' \in Seq(Node \cup {Tombstone}) /\ Len(passed') = Len(passed)
  BY <1>1 DEF RebuildInv
<1> QED
  BY <1>1, <1>3, <1>4, AllocHolds

\* A gate that uses the one whose turn it is, as an operand of the gate that it was.
LEMMA UserOf ==
  ASSUME RebuildInv, AtGate, next \in Kept, NEW u \in Kept, u > next
  PROVE  LET n == handed.gates[u] IN
         /\ passed[u] \in Node /\ passed[u] = Turned(n, next)
         /\ IsOp(n) => /\ passed[u].op = n.op
                       /\ passed[u].lhs = Side(n.lhs, next) /\ passed[u].rhs = Side(n.rhs, next)
                       /\ passed[u].lhs = next <=> n.lhs = next
                       /\ passed[u].rhs = next <=> n.rhs = next
         /\ next \in Operands(passed[u]) <=> next \in Operands(n)
<1> DEFINE n == handed.gates[u]
<1>1. /\ Proper(handed) /\ next \in Nat \ {0} /\ u \in Nat /\ passed[u] = Turned(n, next)
      /\ n \in Node /\ Operands(n) \subseteq Kept
      /\ \A x \in Kept : x \in Nat \ {0} /\ Place(x) \in 1 .. x
  <2>1. Proper(handed)
    BY DEF RebuildInv
  <2>2. /\ \A x \in Kept : x \in Nat \ {0} /\ Place(x) \in 1 .. x
        /\ n \in Node /\ Operands(n) \subseteq Kept
    BY <2>1, Places, HandedFacts DEF RebuildInv
  <2>3. u \in Nat /\ u >= next /\ next \in Nat \ {0}
    BY <2>2 DEF RebuildInv
  <2>4. passed[u] = Turned(n, next)
    BY <2>3 DEF RebuildInv
  <2> QED
    BY <2>2, <2>3, <2>4 DEF RebuildInv
<1>2. CASE IsOp(n)
  <2>1. n.op \in Ops /\ Operands(n) = {n.lhs, n.rhs} /\ n.lhs \in Kept /\ n.rhs \in Kept
    BY <1>1, <1>2, NodeKinds
  <2>2. \A x \in Kept : Side(x, next) \in Nat \ {0} /\ (Side(x, next) = next <=> x = next)
    <3> SUFFICES ASSUME NEW x \in Kept
                 PROVE  Side(x, next) \in Nat \ {0} /\ (Side(x, next) = next <=> x = next)
      OBVIOUS
    <3>1. x \in Nat \ {0} /\ Place(x) \in Nat \ {0} /\ Place(x) <= x /\ next \in Nat
      BY <1>1
    <3> QED
      BY <3>1 DEF Side
  <2>3. passed[u] = OpNode(n.op, Side(n.lhs, next), Side(n.rhs, next))
    BY <1>1, <1>2 DEF Turned
  <2> DEFINE l == Side(n.lhs, next)
             r == Side(n.rhs, next)
  <2>4. l \in Index /\ r \in Index /\ (l = next <=> n.lhs = next) /\ (r = next <=> n.rhs = next)
    BY <2>1, <2>2 DEF Index
  <2> HIDE DEF l, r
  <2>5. /\ OpNode(n.op, l, r) \in Node /\ Operands(OpNode(n.op, l, r)) = {l, r}
        /\ OpNode(n.op, l, r).op = n.op /\ OpNode(n.op, l, r).lhs = l /\ OpNode(n.op, l, r).rhs = r
    BY <2>1, <2>4 DEF OpNode, Node, Operands, IsOp
  <2>6. passed[u] = OpNode(n.op, l, r)
    BY <2>3 DEF l, r
  <2> QED
    BY <2>1, <2>4, <2>5, <2>6, <1>1 DEF l, r
<1>3. CASE ~ IsOp(n)
  BY <1>1, <1>3 DEF Turned
<1> QED
  BY <1>2, <1>3

\* A gate that moves stands on one side only of its users.
LEMMA MovingOnce ==
  ASSUME RebuildInv, AtGate, next \in Kept, Moves(next), NEW u \in Kept,
         IsOp(handed.gates[u]), handed.gates[u].lhs = next
  PROVE  handed.gates[u].rhs # next
<1>1. Proper(handed) /\ next \in Nat \ {0} /\ Len(alive) = Cardinality(Before(next))
  BY DEF RebuildInv
<1> SUFFICES ASSUME 1 .. next \subseteq Kept
             PROVE  FALSE
  BY <1>1, HandedFacts
<1>2. Before(next) = 1 .. next - 1
  <2>1. \A x : x \in Before(next) => x \in 1 .. next - 1
    BY <1>1, Places DEF Before
  <2>2. \A x : x \in 1 .. next - 1 => x \in Before(next)
    BY <1>1 DEF Before
  <2> QED
    BY <2>1, <2>2
<1>3. Cardinality(1 .. next - 1) = next - 1
  BY <1>1, FS_Interval
<1> QED
  BY <1>1, <1>2, <1>3 DEF Moves

\* Every user of a gate that moves is told, and nobody else is.
LEMMA MoveHolds == RebuildInv /\ Move => RebuildInv'
<1> SUFFICES ASSUME RebuildInv, Move PROVE RebuildInv'
  OBVIOUS
<1> DEFINE new == Len(alive) + 1
<1>1. /\ AtGate /\ next \in Kept /\ Alloc(next) /\ next' = next + 1 /\ Moves(next)
      /\ UNCHANGED <<handed, verdict>> /\ \A u \in Told(next) : ~ NoUser(u, next)
      /\ passed' = [u \in DOMAIN passed |->
                      IF u \in Told(next) /\ passed[u] # Tombstone
                      THEN Renamed(passed[u], next, new) ELSE passed[u]]
  BY TurnFacts DEF Move
<1>2. /\ Proper(handed) /\ next \in Nat \ {0} /\ Place(next) = new /\ new \in Nat \ {0}
      /\ \A g \in Kept : g \in Int
  BY <1>1, Places DEF RebuildInv
<1>3. /\ DOMAIN passed = 1 .. Len(passed) /\ Len(passed) \in Nat
      /\ \A u \in DOMAIN passed : passed[u] \in Node \cup {Tombstone}
  BY LenProperties, ElementOfSeq DEF RebuildInv
<1> HIDE DEF new
<1>4. ASSUME NEW u \in DOMAIN passed PROVE passed'[u] \in Node \cup {Tombstone}
  <2>1. CASE u \in Told(next) /\ passed[u] # Tombstone
    <3>1. passed[u] \in Node /\ next \in Operands(passed[u])
      BY <1>1, <1>3, <2>1 DEF NoUser
    <3>2. IsOp(passed[u]) /\ passed[u].op \in Ops /\ passed[u].lhs \in Index /\ passed[u].rhs \in Index
      BY <3>1, NodeKinds
    <3>3. Renamed(passed[u], next, new) \in Node
      BY <3>2, <1>2 DEF Renamed, OpNode, Node, Index
    <3> QED
      BY <3>3, <2>1, <1>1
  <2>2. CASE ~ (u \in Told(next) /\ passed[u] # Tombstone)
    BY <2>2, <1>1, <1>3
  <2> QED
    BY <2>1, <2>2
<1>5. passed' \in Seq(Node \cup {Tombstone}) /\ Len(passed') = Len(passed)
  <2>1. passed' \in [1 .. Len(passed) -> Node \cup {Tombstone}]
    BY <1>1, <1>3, <1>4
  <2>2. passed' \in Seq(Node \cup {Tombstone})
    BY <2>1, <1>3, SeqDef
  <2>3. DOMAIN passed' = 1 .. Len(passed)
    BY <2>1
  <2> QED
    BY <2>2, <2>3, <1>3, LenProperties
<1>6. ASSUME NEW u \in Kept, u > next
      PROVE  passed'[u] = Turned(handed.gates[u], next + 1)
  <2> DEFINE n == handed.gates[u]
  <2>1. u \in DOMAIN passed
    BY <1>2, <1>3, HandedFacts DEF RebuildInv
  <2>2. /\ passed[u] \in Node /\ passed[u] = Turned(n, next)
        /\ IsOp(n) => /\ passed[u].op = n.op
                      /\ passed[u].lhs = Side(n.lhs, next) /\ passed[u].rhs = Side(n.rhs, next)
                      /\ passed[u].lhs = next <=> n.lhs = next
                      /\ passed[u].rhs = next <=> n.rhs = next
        /\ next \in Operands(passed[u]) <=> next \in Operands(n)
    BY <1>1, <1>6, UserOf
  <2>3. /\ n \in Node /\ Operands(n) \subseteq Kept
        /\ \A o \in Operands(n) : u \in handed.usages[o]
        /\ IsOp(n) /\ n.lhs = next => n.rhs # next
    BY <1>1, <1>2, HandedFacts, MovingOnce
  <2>4. passed[u] # Tombstone
    BY <2>2 DEF Node, Tombstone
  <2>5. u \in Told(next) <=> next \in Operands(n)
    <3>1. u # next
      BY <1>2, <1>6
    <3>2. ASSUME u \in Told(next) PROVE next \in Operands(n)
      BY <3>2, <1>1, <2>2, <2>4 DEF NoUser
    <3>3. ASSUME next \in Operands(n) PROVE u \in Told(next)
      BY <3>1, <3>3, <2>3 DEF Told
    <3> QED
      BY <3>2, <3>3
  <2>6. CASE next \in Operands(n)
    <3>1. /\ IsOp(n) /\ Operands(n) = {n.lhs, n.rhs} /\ n.lhs \in Kept /\ n.rhs \in Kept
      BY <2>3, <2>6, NodeKinds
    <3>2. passed'[u] = Renamed(passed[u], next, new)
      BY <2>1, <2>4, <2>5, <2>6, <1>1
    <3>3. /\ Side(next, next + 1) = new
          /\ \A x \in Kept : x # next => Side(x, next + 1) = Side(x, next)
      BY <1>2 DEF Side
    <3>4. CASE n.lhs = next
      <4>1. Side(n.lhs, next + 1) = new /\ Side(n.rhs, next + 1) = passed[u].rhs
        BY <3>1, <3>3, <3>4, <2>2, <2>3
      <4>2. Renamed(passed[u], next, new) = OpNode(n.op, new, passed[u].rhs)
        BY <3>1, <3>4, <2>2 DEF Renamed
      <4> QED
        BY <4>1, <4>2, <3>1, <3>2 DEF Turned
    <3>5. CASE n.lhs # next
      <4>1. Side(n.rhs, next + 1) = new /\ Side(n.lhs, next + 1) = passed[u].lhs
        BY <3>1, <3>3, <3>5, <2>2, <2>6
      <4>2. Renamed(passed[u], next, new) = OpNode(n.op, passed[u].lhs, new)
        BY <3>1, <3>5, <2>2 DEF Renamed
      <4> QED
        BY <4>1, <4>2, <3>1, <3>2 DEF Turned
    <3> QED
      BY <3>4, <3>5
  <2>7. CASE next \notin Operands(n)
    <3>1. passed'[u] = Turned(n, next)
      BY <2>1, <2>2, <2>5, <2>7, <1>1
    <3>2. CASE IsOp(n)
      <4>1. n.lhs \in Kept /\ n.rhs \in Kept /\ n.lhs # next /\ n.rhs # next
        BY <2>3, <2>7, <3>2, NodeKinds
      <4>2. Side(n.lhs, next + 1) = Side(n.lhs, next) /\ Side(n.rhs, next + 1) = Side(n.rhs, next)
        BY <4>1, <1>2 DEF Side
      <4> QED
        BY <3>1, <3>2, <4>2 DEF Turned
    <3>3. CASE ~ IsOp(n)
      BY <3>1, <3>3 DEF Turned
    <3> QED
      BY <3>2, <3>3
  <2> QED
    BY <2>6, <2>7
<1> QED
  BY <1>1, <1>5, <1>6, AllocHolds

\* A step that only ends the loop.
LEMMA EndHolds ==
  ASSUME RebuildInv, UNCHANGED <<handed, passed, next, alive, inputs, outputs, old_outputs>>,
         verdict' \in {"none", "running", "ok", "error"},
         verdict' = "ok" => \A g \in Kept : g < next,
         verdict' = "error" => ~ RightUsages
  PROVE  RebuildInv'
<1>1. /\ Kept' = Kept /\ Proper(handed)' /\ Before(next)' = Before(next)
      /\ Range(inputs)' = Range(inputs) /\ Range(outputs)' = Range(outputs)
      /\ Range(handed.circuit.outputs)' = Range(handed.circuit.outputs)
  BY PlacesStay DEF RebuildInv, Before, Range
<1>2. RenamedCopy' /\ NewTopological' /\ FailsOnlyOnWrongUsages'
  BY PlacesStay DEF RebuildInv, RenamedCopy, NewTopological, FailsOnlyOnWrongUsages
<1>3. \A u \in Kept : u >= next => passed[u] = Turned(handed.gates[u], next)'
  BY PlacesStay DEF RebuildInv
<1>4. {Place(g)' : g \in {h \in Before(next) : IsInput(handed.gates[h])}}
        = {Place(g) : g \in {h \in Before(next) : IsInput(handed.gates[h])}}
  BY PlacesStay
<1>5. {Place(o)' : o \in {q \in Range(handed.circuit.outputs) : q < next}}
        = {Place(o) : o \in {q \in Range(handed.circuit.outputs) : q < next}}
  BY PlacesStay
<1> QED
  BY <1>1, <1>2, <1>3, <1>4, <1>5 DEF RebuildInv

\* There is an error only if some user is none.
LEMMA MoveFailsHolds == RebuildInv /\ MoveFails => RebuildInv'
<1> SUFFICES ASSUME RebuildInv, MoveFails PROVE RebuildInv'
  OBVIOUS
<1>1. /\ AtGate /\ next \in Kept /\ verdict' = "error"
      /\ UNCHANGED <<handed, passed, next, alive, inputs, outputs, old_outputs>>
  BY TurnFacts DEF MoveFails
<1>2. PICK u \in Told(next) : NoUser(u, next)
  BY DEF MoveFails
<1>3. ~ RightUsages
  <2> SUFFICES ASSUME RightUsages PROVE FALSE
    OBVIOUS
  <2>1. u \in handed.usages[next] /\ (u = next => next \notin old_outputs)
    BY <1>2 DEF Told
  <2>2. \/ next \in Operands(handed.gates[u])
        \/ u = next /\ next \in Range(handed.circuit.outputs)
    BY <2>1, <1>1 DEF RightUsages
  <2>3. /\ next \in Nat \ {0} /\ u \in Kept /\ u \in Nat
        /\ Operands(handed.gates[u]) \subseteq 1 .. u - 1
    BY <2>1, <1>1, Places, HandedFacts DEF RebuildInv
  <2>4. CASE next \in Operands(handed.gates[u])
    <3>1. u > next
      BY <2>3, <2>4
    <3>2. next \in Operands(passed[u])
      BY <2>3, <2>4, <3>1, <1>1, UserOf
    <3> QED
      BY <3>2, <1>2 DEF NoUser
  <2>5. CASE u = next /\ next \in Range(handed.circuit.outputs)
    BY <2>1, <2>3, <2>5 DEF RebuildInv
  <2> QED
    BY <2>2, <2>4, <2>5
<1> QED
  BY <1>1, <1>3, EndHolds

LEMMA AnswerHolds == RebuildInv /\ Answer => RebuildInv'
<1> SUFFICES ASSUME RebuildInv, Answer PROVE RebuildInv'
  OBVIOUS
<1>1. /\ ~ AtGate /\ verdict = "running" /\ verdict' = "ok"
      /\ UNCHANGED <<handed, passed, next, alive, inputs, outputs, old_outputs>>
  BY DEF Answer
<1>2. ASSUME NEW g \in Kept PROVE g < next
  <2>1. /\ DOMAIN passed = 1 .. Len(passed) /\ Len(passed) \in Nat
        /\ DOMAIN handed.usages = 1 .. Len(handed.usages) /\ Len(handed.usages) \in Nat
        /\ DOMAIN handed.gates = 1 .. Len(passed)
        /\ next \in Nat \ {0}
    BY LenProperties DEF RebuildInv, Proper
  <2>2. g \in DOMAIN passed /\ g \in DOMAIN handed.usages
    BY <2>1 DEF RebuildInv, Proper, Kept, KeptOf
  <2>3. next \notin DOMAIN passed \cap DOMAIN handed.usages
    BY <1>1 DEF AtGate
  <2> QED
    BY <2>1, <2>2, <2>3
<1> QED
  BY <1>1, <1>2, EndHolds

LEMMA RebuildStepHolds == RebuildInv /\ [RebuildStep]_rebuildVars => RebuildInv'
<1> SUFFICES ASSUME RebuildInv, [RebuildStep]_rebuildVars PROVE RebuildInv'
  OBVIOUS
<1>1. CASE UNCHANGED rebuildVars
  BY <1>1, EndHolds DEF rebuildVars, RebuildInv, FailsOnlyOnWrongUsages
<1> QED
  BY <1>1, SkipUnusedHolds, KeepHolds, MoveHolds, MoveFailsHolds, AnswerHolds
     DEF RebuildStep

LEMMA RebuildInvHolds == NewCircuitSpec => []RebuildInv
<1>1. RebuildInv /\ [NewCircuitNext]_rebuildVars => RebuildInv'
  BY HandOverHolds, HandoverAssumption, RebuildStepHolds DEF NewCircuitNext
<1> QED
  BY <1>1, NewCircuitInitHolds, PTL DEF NewCircuitSpec

-----------------------------------------------------------------------------
\* What a circuit is that has been answered.

\* There is a kept gate for every place, and a later gate has a later place.
LEMMA PlacesTaken ==
  ASSUME Proper(handed)
  PROVE  /\ \A k \in Nat \ {0} : \A p \in 1 .. Cardinality(Before(k)) :
              \E g \in Before(k) : Place(g) = p
         /\ \A g, h \in Kept : g < h => Place(g) < Place(h)
<1> DEFINE S == {k \in Nat \ {0} : \A p \in 1 .. Cardinality(Before(k)) :
                                     \E g \in Before(k) : Place(g) = p}
<1>1. ASSUME NEW n \in Nat, NEW k \in 1 .. n, (1 .. k - 1) \subseteq S
      PROVE  k \in S
  <2>1. CASE k = 1
    BY <2>1, Places DEF S
  <2>2. CASE k # 1
    <3>1. k - 1 \in S /\ k - 1 \in Nat \ {0} /\ (k - 1) + 1 = k
      BY <1>1, <2>2
    <3>2. CASE k - 1 \notin Kept
      <4>1. Before(k) = Before(k - 1)
        BY <3>1, <3>2, Places
      <4> QED
        BY <3>1, <4>1
    <3>3. CASE k - 1 \in Kept
      <4>1. /\ Before(k) = Before(k - 1) \cup {k - 1}
            /\ Place(k - 1) = Cardinality(Before(k - 1)) + 1
            /\ Cardinality(Before(k)) = Place(k - 1)
            /\ Cardinality(Before(k - 1)) \in Nat
        BY <3>1, <3>3, Places
      <4>2. ASSUME NEW p \in 1 .. Cardinality(Before(k))
            PROVE  \E g \in Before(k) : Place(g) = p
        <5>1. p = Place(k - 1) \/ p \in 1 .. Cardinality(Before(k - 1))
          BY <4>1, <4>2
        <5>2. CASE p = Place(k - 1)
          BY <5>2, <4>1
        <5>3. CASE p \in 1 .. Cardinality(Before(k - 1))
          BY <5>3, <3>1, <4>1
        <5> QED
          BY <5>1, <5>2, <5>3
      <4> QED
        BY <4>2, <3>1
    <3> QED
      BY <3>2, <3>3
  <2> QED
    BY <2>1, <2>2
<1> HIDE DEF S
<1>2. ASSUME NEW k \in Nat \ {0} PROVE k \in S
  <2>1. \A e \in 1 .. k : (1 .. e - 1) \subseteq S => e \in S
    BY <1>1
  <2>2. 1 .. k \subseteq S
    BY <2>1, PositionInduction
  <2> QED
    BY <2>2
<1>3. ASSUME NEW g \in Kept, NEW h \in Kept, g < h PROVE Place(g) < Place(h)
  <2>1. h \in Nat /\ Place(g) \in 1 .. Cardinality(Before(h))
        /\ Place(h) = Cardinality(Before(h)) + 1 /\ Cardinality(Before(h)) \in Nat
    BY <1>3, Places
  <2> QED
    BY <2>1
<1> QED
  BY <1>2, <1>3 DEF S

\* The new arena, once all gates are copied: it has a gate at the place of every kept one,
\* and no others.
LEMMA AnsweredIs ==
  ASSUME RebuildInv, verdict = "ok"
  PROVE  /\ Proper(handed) /\ alive \in Seq(Node) /\ Topological(alive)
         /\ Len(alive) \in Nat /\ DOMAIN alive = 1 .. Len(alive)
         /\ \A g \in Kept : /\ Place(g) \in DOMAIN alive
                            /\ LET n == handed.gates[g] IN
                               alive[Place(g)] = IF IsOp(n)
                                 THEN OpNode(n.op, Place(n.lhs), Place(n.rhs)) ELSE n
         /\ \A p \in DOMAIN alive : \E g \in Kept : Place(g) = p
<1>1. /\ Proper(handed) /\ alive \in Seq(Node) /\ Topological(alive)
      /\ Len(alive) = Cardinality(Before(next)) /\ next \in Nat \ {0}
      /\ \A g \in Kept : g < next
  BY DEF RebuildInv, NewTopological
<1>2. Len(alive) \in Nat /\ DOMAIN alive = 1 .. Len(alive)
  BY <1>1, LenProperties
<1>3. \A g \in Kept : Place(g) \in DOMAIN alive
  BY <1>1, <1>2, Places
<1>4. \A p \in DOMAIN alive : \E g \in Kept : Place(g) = p
  BY <1>1, <1>2, PlacesTaken DEF Before
<1> QED
  BY <1>1, <1>2, <1>3, <1>4 DEF RebuildInv, RenamedCopy

\* The new gates stand for what the kept gates stood for.
LEMMA RebuiltValues ==
  ASSUME RebuildInv, verdict = "ok", NEW env \in Assignments, NEW val,
         \A g \in Kept : val[g] = NodeValue(handed.gates[g], env, val)
  PROVE  \A g \in Kept : Denote(alive, env)[Place(g)] = val[g]
<1> DEFINE now == Denote(alive, env)
           S == {g \in Nat : g \in Kept => now[Place(g)] = val[g]}
<1>1. /\ Proper(handed) /\ \A p \in DOMAIN alive : now[p] = NodeValue(alive[p], env, now)
      /\ \A g \in Kept : /\ Place(g) \in DOMAIN alive
                         /\ LET n == handed.gates[g] IN
                            alive[Place(g)] = IF IsOp(n)
                              THEN OpNode(n.op, Place(n.lhs), Place(n.rhs)) ELSE n
  BY AnsweredIs, DenoteEquation
<1> HIDE DEF now
<1>2. /\ Len(handed.gates) \in Nat /\ Kept \subseteq 1 .. Len(handed.gates)
      /\ \A g \in Kept : /\ handed.gates[g] \in Node
                         /\ Operands(handed.gates[g]) \subseteq Kept
                         /\ Operands(handed.gates[g]) \subseteq 1 .. g - 1
  BY <1>1, HandedFacts
<1>3. ASSUME NEW g \in 1 .. Len(handed.gates), (1 .. g - 1) \subseteq S
      PROVE  g \in S
  <2> SUFFICES ASSUME g \in Kept PROVE now[Place(g)] = val[g]
    BY <1>2 DEF S
  <2> DEFINE n == handed.gates[g]
  <2>1. /\ n \in Node /\ Operands(n) \subseteq Kept /\ Operands(n) \subseteq S
        /\ now[Place(g)] = NodeValue(alive[Place(g)], env, now)
        /\ val[g] = NodeValue(n, env, val)
    BY <1>1, <1>2, <1>3
  <2>2. CASE IsOp(n)
    <3>1. n.lhs \in Kept \cap S /\ n.rhs \in Kept \cap S
      BY <2>1, <2>2, NodeKinds
    <3>2. now[Place(n.lhs)] = val[n.lhs] /\ now[Place(n.rhs)] = val[n.rhs]
      BY <3>1 DEF S
    <3> DEFINE m == OpNode(n.op, Place(n.lhs), Place(n.rhs))
    <3>3. alive[Place(g)] = m
      BY <1>1, <2>2
    <3>4. m.kind = "Op" /\ m.op = n.op /\ m.lhs = Place(n.lhs) /\ m.rhs = Place(n.rhs)
      BY DEF OpNode
    <3> HIDE DEF m
    <3>5. NodeValue(m, env, now) = RingOp(n.op, now[Place(n.lhs)], now[Place(n.rhs)])
      BY <3>4 DEF NodeValue, IsInput, IsConst, IsOp
    <3>6. NodeValue(n, env, val) = RingOp(n.op, val[n.lhs], val[n.rhs])
      BY <2>2 DEF NodeValue, IsInput, IsConst, IsOp
    <3> QED
      BY <2>1, <3>2, <3>3, <3>5, <3>6
  <2>3. CASE ~ IsOp(n)
    <3>1. NodeValue(n, env, now) = NodeValue(n, env, val)
      BY <2>1, <2>3, NodeValueLocal
    <3> QED
      BY <3>1, <2>1, <2>3, <1>1
  <2> QED
    BY <2>2, <2>3
<1>4. 1 .. Len(handed.gates) \subseteq S
  <2> HIDE DEF S
  <2> QED
    BY <1>2, <1>3, PositionInduction
<1> QED
  BY <1>2, <1>4 DEF S, now

\* Of two ascending sequences of the same numbers the second goes on as the first does.
LEMMA AscendingAlong ==
  ASSUME NEW s \in Seq(Nat), NEW t \in Seq(Nat), Ascending(s), Ascending(t), Range(s) = Range(t)
  PROVE  Len(s) <= Len(t) /\ \A i \in 1 .. Len(s) : s[i] = t[i]
<1> DEFINE S == {e \in 1 .. Len(s) : e <= Len(t) /\ s[e] = t[e]}
<1>1. /\ Len(s) \in Nat /\ DOMAIN s = 1 .. Len(s) /\ \A i \in 1 .. Len(s) : s[i] \in Nat
      /\ Len(t) \in Nat /\ DOMAIN t = 1 .. Len(t) /\ \A i \in 1 .. Len(t) : t[i] \in Nat
  BY LenProperties, ElementOfSeq
<1>2. /\ \A i \in 1 .. Len(s) : \E j \in 1 .. Len(t) : s[i] = t[j]
      /\ \A j \in 1 .. Len(t) : \E i \in 1 .. Len(s) : s[i] = t[j]
  BY <1>1 DEF Range
<1>3. /\ \A i, j \in 1 .. Len(s) : i < j => s[i] < s[j]
      /\ \A i, j \in 1 .. Len(t) : i < j => t[i] < t[j]
  BY <1>1 DEF Ascending
<1>4. ASSUME NEW e \in 1 .. Len(s), (1 .. e - 1) \subseteq S PROVE e \in S
  <2>1. PICK j \in 1 .. Len(t) : s[e] = t[j]
    BY <1>2
  <2>2. ASSUME j < e PROVE FALSE
    <3>1. j \in S /\ j \in 1 .. Len(s)
      BY <2>2, <1>1, <1>4
    <3>2. s[j] = s[e]
      BY <2>1, <3>1
    <3> QED
      BY <3>1, <3>2, <2>2, <1>1, <1>3
  <2>3. e \in 1 .. Len(t)
    BY <2>2, <1>1
  <2>4. PICK i \in 1 .. Len(s) : s[i] = t[e]
    BY <2>3, <1>2
  <2>5. ASSUME i < e PROVE FALSE
    <3>1. i \in S /\ i \in 1 .. Len(t)
      BY <2>5, <1>1, <1>4
    <3>2. t[i] = t[e]
      BY <2>4, <3>1
    <3> QED
      BY <3>1, <3>2, <2>3, <2>5, <1>1, <1>3
  <2>6. t[e] <= t[j] /\ s[e] <= s[i]
    <3>1. e = j \/ e < j
      BY <2>2, <1>1
    <3>2. e = i \/ e < i
      BY <2>5, <1>1
    <3>3. t[e] <= t[j]
      BY <3>1, <2>3, <1>1, <1>3
    <3>4. s[e] <= s[i]
      BY <3>2, <1>1, <1>3
    <3> QED
      BY <3>3, <3>4
  <2>7. s[e] = t[e]
    BY <2>1, <2>3, <2>4, <2>6, <1>1
  <2> QED
    BY <2>3, <2>7, <1>1
<1>5. 1 .. Len(s) \subseteq S
  <2> HIDE DEF S
  <2> QED
    BY <1>1, <1>4, PositionInduction
<1> QED
  BY <1>1, <1>5

\* Outputs that are listed in the order of the gates keep their positions.
LEMMA RebuiltOutputs ==
  ASSUME RebuildInv, verdict = "ok", Ascending(handed.circuit.outputs)
  PROVE  /\ Len(outputs) = Len(handed.circuit.outputs)
         /\ DOMAIN outputs = DOMAIN handed.circuit.outputs
         /\ \A i \in DOMAIN outputs : /\ handed.circuit.outputs[i] \in Kept
                                      /\ outputs[i] = Place(handed.circuit.outputs[i])
<1> DEFINE old == handed.circuit.outputs
           s == [i \in 1 .. Len(old) |-> Place(old[i])]
<1>1. /\ old \in Seq(Kept) /\ Len(old) \in Nat /\ DOMAIN old = 1 .. Len(old)
      /\ \A i \in 1 .. Len(old) : old[i] \in Kept
  BY AnsweredIs, LenProperties, ElementOfSeq DEF Proper, Kept
<1>2. /\ outputs \in Seq(DOMAIN alive) /\ Ascending(outputs)
      /\ Range(outputs) = {Place(o) : o \in {q \in Range(old) : q < next}}
      /\ \A g \in Kept : g < next
  BY DEF RebuildInv
<1>3. Range(old) \subseteq Kept /\ \A g \in Kept : Place(g) \in DOMAIN alive
  BY <1>1, AnsweredIs DEF Range
<1>4. DOMAIN alive \subseteq Nat
  BY AnsweredIs
<1>5. outputs \in Seq(Nat)
  BY <1>2, <1>4, SeqInLarger
<1>6. /\ s \in Seq(Nat) /\ Len(s) = Len(old) /\ DOMAIN s = 1 .. Len(old)
  <2>1. s \in [1 .. Len(old) -> Nat]
    BY <1>1, <1>3, <1>4
  <2>2. s \in Seq(Nat)
    BY <2>1, <1>1, SeqDef
  <2>3. DOMAIN s = 1 .. Len(old)
    OBVIOUS
  <2> QED
    BY <2>2, <2>3, <1>1, LenProperties
<1>7. Ascending(s)
  <2>1. ASSUME NEW i \in DOMAIN old, NEW j \in DOMAIN old, i < j PROVE Place(old[i]) < Place(old[j])
    <3>1. old[i] < old[j]
      BY <2>1 DEF Ascending
    <3> QED
      BY <3>1, <1>1, AnsweredIs, PlacesTaken
  <2> QED
    BY <2>1, <1>1 DEF Ascending
<1>8. Range(s) = Range(outputs)
  <2>1. Range(outputs) = {Place(o) : o \in Range(old)}
    BY <1>2, <1>3
  <2> QED
    BY <2>1, <1>1 DEF Range
<1> HIDE DEF s
<1>9. /\ Len(s) <= Len(outputs) /\ \A i \in 1 .. Len(s) : s[i] = outputs[i]
      /\ Len(outputs) <= Len(s)
  BY <1>2, <1>5, <1>6, <1>7, <1>8, AscendingAlong
<1>10. Len(outputs) = Len(old) /\ DOMAIN outputs = 1 .. Len(old)
  BY <1>1, <1>5, <1>6, <1>9, LenProperties
<1> QED
  BY <1>1, <1>6, <1>9, <1>10 DEF s

-----------------------------------------------------------------------------
\* The loop stays within the arenas, whatever a pass leaves in order.
THEOREM NewCircuitTypeCorrect == NewCircuitSpec => []NewCircuitTypeOK
<1>1. RebuildInv => NewCircuitTypeOK
  <2> SUFFICES ASSUME RebuildInv PROVE NewCircuitTypeOK
    OBVIOUS
  <2>1. DOMAIN passed = DOMAIN handed.gates /\ next \in 1 .. Len(passed) + 1
    BY LenProperties DEF RebuildInv, Proper
  <2>2. Len(alive) < next
    BY Places DEF RebuildInv
  <2>3. alive \in Seq(Node \cup {Tombstone})
    BY SeqInLarger DEF RebuildInv
  <2> QED
    BY <2>1, <2>2, <2>3 DEF RebuildInv, NewCircuitTypeOK
<1> QED
  BY <1>1, RebuildInvHolds, PTL

\* The new arena is the kept gates, in order, with their operands where these went.
THEOREM KeptGatesCopied == NewCircuitSpec => []RenamedCopy
<1>1. RebuildInv => RenamedCopy
  BY DEF RebuildInv
<1> QED
  BY <1>1, RebuildInvHolds, PTL

\* At every moment the new arena is topologically ordered.
THEOREM RebuiltTopological == NewCircuitSpec => []NewTopological
<1>1. RebuildInv => NewTopological
  BY DEF RebuildInv
<1> QED
  BY <1>1, RebuildInvHolds, PTL

\* Right usages are enough for a circuit.
THEOREM RightUsagesSuffice == NewCircuitSpec => []FailsOnlyOnWrongUsages
<1>1. RebuildInv => FailsOnlyOnWrongUsages
  BY DEF RebuildInv
<1> QED
  BY <1>1, RebuildInvHolds, PTL

\* Inputs and outputs are found where they have gone, none is lost and none is added.
THEOREM OutputsAndInputsFollow == NewCircuitSpec => []OutputsAndInputsKept
<1>1. RebuildInv => OutputsAndInputsKept
  <2> SUFFICES ASSUME RebuildInv, verdict = "ok" PROVE OutputsAndInputsKept
    BY DEF OutputsAndInputsKept
  <2>1. \A g \in Kept : g < next
    BY DEF RebuildInv
  <2>2. Range(handed.circuit.outputs) \subseteq Kept
    BY HandedFacts DEF RebuildInv
  <2>3. {q \in Range(handed.circuit.outputs) : q < next} = Range(handed.circuit.outputs)
    BY <2>1, <2>2
  <2>4. {h \in Before(next) : IsInput(handed.gates[h])} = {h \in Kept : IsInput(handed.gates[h])}
    BY <2>1 DEF Before
  <2> QED
    BY <2>3, <2>4 DEF RebuildInv, OutputsAndInputsKept
<1> QED
  BY <1>1, RebuildInvHolds, PTL
=============================================================================
