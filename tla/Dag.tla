-------------------------------- MODULE Dag ---------------------------------
(* Expressions and gates: the nodes of the arithmetic DAG, which the DSL    *)
(* keeps in an Arena<Expr> and the IR in an Arena<Gate>.  The two types     *)
(* have the same shape and the same notion of equality (dsl/src/hash.rs,    *)
(* ir/src/hash.rs), so one set of nodes serves for both.                    *)
(*                                                                          *)
(* An arena is a sequence of nodes; la_arena's index k is position k + 1    *)
(* of the sequence, and 0 is no index at all.                               *)
EXTENDS Words, Sequences, Functions

CONSTANTS
  InputIndices,    \* the argument numbers a program may mention
  Constants,       \* the constants a program may write down
  Ops              \* the operators it may use

ASSUME DagAssumption ==
  /\ InputIndices \subseteq Nat
  /\ Constants \subseteq Word
  /\ Ops \subseteq BinOp

Index == Nat \ {0}

\* The kinds of node, which are also what a context can be strict on.
Kinds == {"Input", "Const", "Op"}

InputNode(i) == [kind |-> "Input", index |-> i]
ConstNode(v) == [kind |-> "Const", value |-> v]
OpNode(o, l, r) == [kind |-> "Op", op |-> o, lhs |-> l, rhs |-> r]

Node == [kind : {"Input"}, index : InputIndices]
        \cup [kind : {"Const"}, value : Word]
        \cup [kind : {"Op"}, op : Ops, lhs : Index, rhs : Index]

IsOp(n) == n.kind = "Op"
IsConst(n) == n.kind = "Const"
IsInput(n) == n.kind = "Input"

\* What a pass leaves in the place of a gate it has killed (Gate::Tombstone).
Tombstone == [kind |-> "Tombstone"]

Operands(n) == IF IsOp(n) THEN {n.lhs, n.rhs} ELSE {}

\* Slips a run must notice: operands never ordered; those of Sub ordered too.
CanonicalUnordered(n) == n
CanonicalOrdersSub(n) ==
  IF IsOp(n) /\ n.lhs > n.rhs THEN OpNode(n.op, n.rhs, n.lhs) ELSE n

\* ExprHash and GateHash: the operands of Add and Mul in ascending order,
\* those of Sub as they stand.  Two nodes are equal when these are.
Canonical(n) ==
  IF IsOp(n) /\ n.op # "Sub" /\ n.lhs > n.rhs
  THEN OpNode(n.op, n.rhs, n.lhs)
  ELSE n

\* The operands of every node come before it.
Topological(nodes) ==
  \A e \in DOMAIN nodes : Operands(nodes[e]) \subseteq 1 .. e - 1

\* S holds, with a node, its operands.
Closed(nodes, S) == \A e \in S : Operands(nodes[e]) \subseteq S

\* The nodes reachable from `roots': the least closed set that holds them.
Live(nodes, roots) ==
  { e \in DOMAIN nodes :
      \A S \in SUBSET DOMAIN nodes :
        roots \subseteq S /\ Closed(nodes, S) => e \in S }

\* What a node stands for, modulo q, when argument i is env[i] and its operands
\* stand for what val says.
NodeValue(n, env, val) ==
  CASE IsInput(n) -> env[n.index] % Modulus
    [] IsConst(n) -> n.value % Modulus
    [] IsOp(n) -> RingOp(n.op, val[n.lhs], val[n.rhs])

\* And what every node of a topologically ordered arena stands for.
Denote(nodes, env) ==
  LET val[e \in DOMAIN nodes] == NodeValue(nodes[e], env, val)
  IN  val

\* Every assignment of plaintexts to the arguments.
Environments == [InputIndices -> Residue]
=============================================================================
