------------------------------ MODULE Rebalance ------------------------------
(* passes::rebalance: the operations of a circuit are taken apart into trees  *)
(* of one operator, each below a root, and every tree is built anew from its  *)
(* leaves, those of the lowest rank first.  What comes out is made a circuit  *)
(* by NewCircuit.                                                             *)
(*                                                                            *)
(* prio_queue does not say which of several elements of the same priority it  *)
(* gives first, so that any of them may be.                                   *)
EXTENDS Depth, NewCircuit

VARIABLES
  circuit,
  roots,        \* roots_wrt_op_precedence: those that are still queued
  balancing,    \* the calls of balance that have not returned, outermost first
  queue,        \* priority_queue of the innermost, once it has flattened its tree
  ranks,        \* of the roots that are balanced, or about to be
  map,          \* old_to_new_gate_idx_map
  index,        \* the index that the next gate without an old one goes by
  rebalanced,   \* the new arena
  usages,
  phase         \* "running", "rebuilding", or "panic"

balanceVars == <<circuit, roots, balancing, queue, ranks, map, index, rebalanced, usages, phase>>
rebalanceVars == <<balanceVars, rebuildVars>>

IsRootShared(c, g) ==   \* a slip: the operators are not compared
  /\ IsOp(c.gates[g])
  /\ Cardinality(Users(c.gates, g)) > 1 \/ g \in Range(c.outputs)

\* is_root, or an output.
IsRoot(c, g) ==
  /\ IsOp(c.gates[g])
  /\ \/ Cardinality(Users(c.gates, g)) > 1
     \/ \E u \in Users(c.gates, g) : c.gates[u].op # c.gates[g].op
     \/ g \in Range(c.outputs)

RebalanceInit ==
  /\ circuit \in Circuits
  /\ roots = {g \in DOMAIN circuit.gates : IsRoot(circuit, g)}
  /\ balancing = << >> /\ queue = << >>
  /\ ranks = << >> /\ map = << >>
  /\ index = Len(circuit.gates) + 1
  /\ rebalanced = << >>
  /\ usages = [g \in DOMAIN circuit.gates |-> {}]
  /\ phase = "running"
  /\ NewCircuitInit

-----------------------------------------------------------------------------
\* The operations of the tree below a root end at its leaves: inputs, constants and
\* other roots.  From left to right.
Leaves(root) ==
  LET below[g \in DOMAIN circuit.gates] ==
        LET n == circuit.gates[g] IN
        IF IsOp(n) /\ (g = root \/ ~ IsRoot(circuit, g))
        THEN below[n.lhs] \o below[n.rhs]
        ELSE <<g>>
  IN  below[root]

Unbalanced(g) == IsOp(circuit.gates[g]) /\ g \notin DOMAIN ranks

Rank(g) ==
  LET n == circuit.gates[g] IN
  CASE IsInput(n) -> 1
    [] IsConst(n) -> 0
    [] IsOp(n)    -> ranks[g]

SumOf(items) ==
  LET sum[i \in DOMAIN items] == items[i].rank + (IF i = 1 THEN 0 ELSE sum[i - 1])
  IN  sum[Len(items)]

Put(f, k, v) == [x \in DOMAIN f \cup {k} |-> IF x = k THEN v ELSE f[x]]

Precedence(op) == IF op = "Mul" THEN 1 ELSE 0

Running == phase = "running"
Balancing == Running /\ balancing # << >>
Innermost == balancing[Len(balancing)]

-----------------------------------------------------------------------------
NextRootStays(r) ==   \* a slip: it is looked at, not taken
  /\ Running /\ balancing = << >> /\ r \in roots
  /\ balancing' = IF Unbalanced(r) THEN <<r>> ELSE << >>
  /\ UNCHANGED <<circuit, roots, queue, ranks, map, index, rebalanced, usages, phase, rebuildVars>>

\* The next root, those of the highest precedence first: balance returns at once if
\* it was balanced as the leaf of another.
NextRoot(r) ==
  /\ Running /\ balancing = << >> /\ r \in roots
  /\ \A s \in roots : Precedence(circuit.gates[s].op) <= Precedence(circuit.gates[r].op)
  /\ roots' = roots \ {r}
  /\ balancing' = IF Unbalanced(r) THEN <<r>> ELSE << >>
  /\ UNCHANGED <<circuit, queue, ranks, map, index, rebalanced, usages, phase, rebuildVars>>

\* flatten meets a root that is not balanced yet, and balances it first.
BalanceLeaf ==
  /\ Balancing /\ queue = << >>
  /\ LET leaves == Leaves(Innermost)
         open == {i \in DOMAIN leaves : Unbalanced(leaves[i])}
     IN  /\ open # {}
         /\ balancing' = Append(balancing, leaves[CHOOSE i \in open : \A j \in open : i <= j])
  /\ UNCHANGED <<circuit, roots, queue, ranks, map, index, rebalanced, usages, phase, rebuildVars>>

\* flatten, once all roots among the leaves are balanced.
Flatten ==
  /\ Balancing /\ queue = << >>
  /\ LET leaves == Leaves(Innermost)
         items == [i \in DOMAIN leaves |-> [gate |-> leaves[i], rank |-> Rank(leaves[i])]]
     IN  /\ \A i \in DOMAIN leaves : ~ Unbalanced(leaves[i])
         /\ queue' = items
         /\ ranks' = Put(ranks, Innermost, SumOf(items))
  /\ UNCHANGED <<circuit, roots, balancing, map, index, rebalanced, usages, phase, rebuildVars>>

\* get_mapped_index_allocating.
PlacedAgain(to, g) ==   \* a slip: the new index is not looked up
  [map |-> Put(to.map, g, Len(to.arena) + 1),
   arena |-> Append(to.arena, IF g \in DOMAIN circuit.gates THEN circuit.gates[g] ELSE to.arena[to.map[g]])]

Placed(to, g) ==
  IF g \in DOMAIN to.map THEN to
  ELSE [map |-> Put(to.map, g, Len(to.arena) + 1),
        arena |-> Append(to.arena, circuit.gates[g])]

\* passes::folding::fold, of two operands of rank 0.
BothConst(arena, n) == IsConst(arena[n.lhs]) /\ IsConst(arena[n.rhs])
Folded(arena, n) ==
  IF BothConst(arena, n)
  THEN ConstNode(MachineOp(n.op, arena[n.lhs].value, arena[n.rhs].value) % Modulus)
  ELSE n
FoldOverflows(arena, n) ==
  /\ OverflowChecks /\ BothConst(arena, n)
  /\ Overflows(n.op, arena[n.lhs].value, arena[n.rhs].value)

AnyPair ==   \* a slip: not those of the lowest rank
  {p \in (DOMAIN queue) \X (DOMAIN queue) : p[1] # p[2]}

\* The two elements that the queue gives next.
LowestPair ==
  {p \in (DOMAIN queue) \X (DOMAIN queue) :
     /\ p[1] # p[2]
     /\ \A k \in DOMAIN queue : queue[p[1]].rank <= queue[k].rank
     /\ \A k \in DOMAIN queue \ {p[1]} : queue[p[2]].rank <= queue[k].rank}

Without(i, j) ==
  LET first == IF i < j THEN i ELSE j
      second == IF i < j THEN j ELSE i
  IN  [k \in 1 .. Len(queue) - 2 |->
         queue[IF k < first THEN k ELSE IF k + 1 < second THEN k + 1 ELSE k + 2]]

\* rebuild, one turn of its loop: the gate that combines the two.
Combination(i, j) ==
  LET both == Placed(Placed([map |-> map, arena |-> rebalanced], queue[i].gate), queue[j].gate)
  IN  [ to   |-> both,
        rank |-> queue[i].rank + queue[j].rank,
        gate |-> OpNode(circuit.gates[Innermost].op,
                        both.map[queue[i].gate], both.map[queue[j].gate]) ]

\* Constants that are folded are not used by what they are folded into.  The usages
\* have as many entries as the circuit has gates.
UsedAnyhow(c) == Operands(c.gate)   \* a slip
UsedBy(c) == IF c.rank = 0 THEN {} ELSE Operands(c.gate)
NoUsagesFor(c) == ~ UsedBy(c) \subseteq DOMAIN usages

\* get_distinct_index; a slip: the same index again.
SameIndex == UNCHANGED index
DistinctIndex == index' = index + 1

Combine ==
  /\ Balancing /\ Len(queue) > 1
  /\ \E p \in LowestPair :
       LET c == Combination(p[1], p[2])
           at == Len(c.to.arena) + 1
       IN  /\ ~ NoUsagesFor(c)
           /\ c.rank = 0 => ~ FoldOverflows(c.to.arena, c.gate)
           /\ rebalanced' = Append(c.to.arena,
                              IF c.rank = 0 THEN Folded(c.to.arena, c.gate) ELSE c.gate)
           /\ map' = Put(c.to.map, index, at)
           /\ usages' = [g \in DOMAIN usages |->
                           IF g \in UsedBy(c) THEN usages[g] \cup {at} ELSE usages[g]]
           /\ queue' = Append(Without(p[1], p[2]), [gate |-> index, rank |-> c.rank])
  /\ DistinctIndex
  /\ UNCHANGED <<circuit, roots, balancing, ranks, phase, rebuildVars>>

CombinePanics ==
  /\ Balancing /\ Len(queue) > 1
  /\ \E p \in LowestPair :
       LET c == Combination(p[1], p[2])
       IN  NoUsagesFor(c) \/ (c.rank = 0 /\ FoldOverflows(c.to.arena, c.gate))
  /\ phase' = "panic"
  /\ UNCHANGED <<circuit, roots, balancing, queue, ranks, map, index, rebalanced, usages, rebuildVars>>

\* One element is left: balance maps the root to it, makes an output its own user,
\* and returns.
Built == Balancing /\ Len(queue) = 1
RebuiltAs == map[queue[1].gate]

FinishRoot ==
  /\ Built
  /\ Innermost \in Range(circuit.outputs) => RebuiltAs \in DOMAIN usages
  /\ map' = Put(map, Innermost, RebuiltAs)
  /\ usages' = [g \in DOMAIN usages |->
                  IF Innermost \in Range(circuit.outputs) /\ g = RebuiltAs
                  THEN usages[g] \cup {g} ELSE usages[g]]
  /\ balancing' = SubSeq(balancing, 1, Len(balancing) - 1) /\ queue' = << >>
  /\ UNCHANGED <<circuit, roots, ranks, index, rebalanced, phase, rebuildVars>>

FinishPanics ==
  /\ Built
  /\ Innermost \in Range(circuit.outputs) /\ RebuiltAs \notin DOMAIN usages
  /\ phase' = "panic"
  /\ UNCHANGED <<circuit, roots, balancing, queue, ranks, map, index, rebalanced, usages, rebuildVars>>

\* new_circuit_from(circuit, rebalanced, usages).
CallNewCircuit ==
  /\ Running /\ balancing = << >> /\ roots = {}
  /\ phase' = "rebuilding"
  /\ HandOver([circuit |-> circuit, gates |-> rebalanced, usages |-> usages])
  /\ UNCHANGED <<circuit, roots, balancing, queue, ranks, map, index, rebalanced, usages>>

Rebuilding ==
  /\ phase = "rebuilding" /\ RebuildStep
  /\ UNCHANGED balanceVars

BalanceStep ==
  \/ \E r \in roots : NextRoot(r)
  \/ BalanceLeaf \/ Flatten \/ Combine \/ CombinePanics \/ FinishRoot \/ FinishPanics
  \/ CallNewCircuit \/ Rebuilding

RebalanceSpec ==
  RebalanceInit /\ [][BalanceStep]_rebalanceVars /\ WF_rebalanceVars(BalanceStep)

-----------------------------------------------------------------------------
Old == DOMAIN circuit.gates
Balanced == {r \in Old \cap DOMAIN map : IsOp(circuit.gates[r])}

RebalanceTypeOK ==
  /\ roots \subseteq Old /\ balancing \in Seq(Old)
  /\ \A i \in DOMAIN queue : queue[i].gate \in 1 .. index - 1 /\ queue[i].rank \in Nat
  /\ \A r \in DOMAIN ranks : r \in Old /\ ranks[r] \in Nat
  /\ \A g \in DOMAIN map : g \in 1 .. index - 1 /\ map[g] \in DOMAIN rebalanced
  /\ rebalanced \in Seq(Node)
  /\ usages \in [Old -> SUBSET DOMAIN rebalanced]
  /\ phase \in {"running", "rebuilding", "panic"}

\* Arguments for the inputs of the circuit.
ArgumentsOf(c) == [{c.gates[g].index : g \in {h \in DOMAIN c.gates : IsInput(c.gates[h])}} -> Residue]

\* Whatever the queue gives first, a tree that has been built anew has the value of
\* the root it replaces, at once and from then on (looked at between two trees: inside
\* of one the arena only grows).
RootsKeepValue ==
  queue = << >> =>
    /\ Topological(rebalanced)
    /\ \A env \in ArgumentsOf(circuit) :
         LET before == Denote(circuit.gates, env)
             now == Denote(rebalanced, env)
         IN  \A r \in Balanced : now[map[r]] = before[r]

\* A leaf or a root that several trees share is built once: where a gate has gone, it
\* stays.
MappedOnce ==
  [][ /\ \A g \in DOMAIN map : map'[g] = map[g]
      /\ \A g, h \in Old \cap DOMAIN map' : map'[g] = map'[h] => g = h ]_rebalanceVars

\* The output of the rebalanced circuit is found and computes what it did, although the
\* pass looks for it at the index it had before (passes/src/rebalance.rs:53-54): for a
\* circuit compiled with one output, an operation, and where no gate moves that has been
\* combined with itself.  The queue may combine the two x of a tree, which move if folded
\* constants that are left out come before x.
OutputsKeepValue ==
  /\ Answered /\ SquaresStay(handed)
  /\ Len(circuit.outputs) = 1 /\ IsOp(circuit.gates[circuit.outputs[1]])
  =>
    /\ verdict = "ok" /\ Len(outputs) = 1
    /\ Topological(alive)
    /\ \A env \in ArgumentsOf(circuit) :
         Denote(alive, env)[outputs[1]] = Denote(circuit.gates, env)[circuit.outputs[1]]

\* "chains like a+b+c+d+e+f+g+h (depth 7) are rebalanced into a balanced binary tree
\* (depth 3)" (README.md:71): a circuit that is one tree of n inputs gets no
\* deeper than the logarithm of n, rounded up, whatever the queue does among equals.
Rebalanced == [gates |-> alive, outputs |-> outputs]
OneTree ==
  /\ Len(circuit.outputs) = 1
  /\ {r \in Old : IsRoot(circuit, r)} = {circuit.outputs[1]}
  /\ \A g \in Old : ~ IsConst(circuit.gates[g])
PowersOfTwo(n) ==   \* 2 ^ (k - 1), for each k up to n
  LET power[k \in 1 .. n] == IF k = 1 THEN 1 ELSE 2 * power[k - 1]
  IN  power
TreesBalanced ==
  Answered /\ OneTree =>
    LET size == Len(Leaves(circuit.outputs[1]))
        depth == DepthAnalysis(Rebalanced).gate[1]
    IN  depth \in 1 .. size /\ PowersOfTwo(size)[depth] < size

\* rebalance answers, with a circuit, an error or a panic.
RebalanceAnswers == <>(Answered \/ phase = "panic")

\* flatten goes into no operation twice: an operation that is combined with itself is a
\* root, or its two operands are leaves.
NoTreeTwice ==
  \A g \in Old :
    LET n == circuit.gates[g]
    IN  IsOp(n) /\ n.lhs = n.rhs => ~ IsOp(circuit.gates[n.lhs]) \/ IsRoot(circuit, n.lhs)

\* Constants of the circuit, or what they fold to, are out of an operator's range.
FoldOperands == Residue \cup {circuit.gates[h].value : h \in {k \in Old : IsConst(circuit.gates[k])}}
ConstantsOverflow ==
  \E g, o \in Old :
    /\ IsConst(circuit.gates[g]) /\ IsOp(circuit.gates[o])
    /\ \E x, y \in FoldOperands : Overflows(circuit.gates[o].op, x, y)

\* The usages have room for whatever the trees are rebuilt to (rebalance.rs:205-211):
\* rebalancing panics on nothing but a fold that overflows, or the square of an operation
\* inside a tree, which is flattened twice and may need more gates than there were.  (It
\* does not follow that every output is found: one that is lost is lost in silence.)
PanicsExplained ==
  phase = "panic" => ~ NoTreeTwice \/ (OverflowChecks /\ ConstantsOverflow)
=============================================================================
