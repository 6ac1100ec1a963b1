------------------------------ MODULE Context -------------------------------
(* dsl::ctx::Context: the arena of expressions that operator overloading    *)
(* builds, hash-consed by passes::interner::Interner, with constants folded *)
(* as they are appended (dsl/src/folding.rs).                               *)
EXTENDS Dag

CONSTANTS
  Modes,           \* the compilation modes a context may have
  MaxExprs         \* bound of the model: the arena grows no further

\* A mode is the set of node kinds that may not be left unused: {} is Loose,
\* Kinds is StrictAll, and anything else is Strict(s).
ASSUME ContextAssumption ==
  /\ Modes \subseteq SUBSET Kinds
  /\ MaxExprs \in Nat

VARIABLES
  mode,            \* the context's CompilationMode
  arena,           \* its expressions, in the order they were allocated
  interner,        \* from the canonical form of an expression to its index
  returned         \* the handle the last call returned; 0: none, it panicked

ctx_vars == <<mode, arena, interner, returned>>

ContextInit ==
  /\ mode \in Modes
  /\ arena = << >>
  /\ interner = [k \in {} |-> 0]
  /\ returned = 0

Handles == DOMAIN arena

-----------------------------------------------------------------------------
\* A slip: subtraction of constants is not folded.
FoldsNotSub(expr) ==
  IsOp(expr) /\ expr.op # "Sub" /\ IsConst(arena[expr.lhs]) /\ IsConst(arena[expr.rhs])

\* folding::fold: both operands are constants.
Folds(expr) ==
  IsOp(expr) /\ IsConst(arena[expr.lhs]) /\ IsConst(arena[expr.rhs])

\* It computes with the machine's + - *, and only then reduces modulo q; the
\* constants a user wrote are not reduced before.
FoldOverflows(expr) ==
  Folds(expr) /\ Overflows(expr.op, arena[expr.lhs].value, arena[expr.rhs].value)

FoldSaturates(expr) ==   \* a slip: saturating_sub and the like, against the panic
  LET exact == Exact(expr.op, arena[expr.lhs].value, arena[expr.rhs].value)
      value == IF exact < 0 THEN 0 ELSE IF exact \in Word THEN exact ELSE WordSize - 1
  IN  IF Folds(expr) THEN ConstNode(value % Modulus) ELSE expr

Fold(expr) ==
  IF Folds(expr)
  THEN ConstNode(MachineOp(expr.op, arena[expr.lhs].value,
                           arena[expr.rhs].value) % Modulus)
  ELSE expr

\* Interner::intern, which either finds the expression or allocates it.
InternKnown(expr) ==
  /\ Canonical(expr) \in DOMAIN interner
  /\ returned' = interner[Canonical(expr)]
  /\ UNCHANGED <<mode, arena, interner>>

AllocAndFile(expr, key, index) ==
  /\ Canonical(expr) \notin DOMAIN interner
  /\ Len(arena) < MaxExprs
  /\ arena' = Append(arena, expr)
  /\ interner' = [k \in DOMAIN interner \cup {key} |->
                    IF k = key THEN index ELSE interner[k]]
  /\ returned' = Len(arena) + 1
  /\ UNCHANGED mode

InternNew(expr) == AllocAndFile(expr, Canonical(expr), Len(arena) + 1)

\* Context::append: fold, then intern.
AppendExpr(expr) == InternKnown(Fold(expr)) \/ InternNew(Fold(expr))

\* Arithmetic overflow, in a build that checks for it.
AppendPanics(expr) ==
  /\ OverflowChecks
  /\ FoldOverflows(expr)
  /\ returned' = 0
  /\ UNCHANGED <<mode, arena, interner>>

-----------------------------------------------------------------------------
\* ContextHandle::input and ContextHandle::constant.
Input(i) == AppendExpr(InputNode(i))
Constant(v) == AppendExpr(ConstNode(v))

\* The + - * of two handles of this context.
Combine(op, l, r) ==
  /\ ~ (OverflowChecks /\ FoldOverflows(OpNode(op, l, r)))
  /\ AppendExpr(OpNode(op, l, r))

CombinePanics(op, l, r) == AppendPanics(OpNode(op, l, r))

ContextNext ==
  \/ \E i \in InputIndices : Input(i)
  \/ \E v \in Constants : Constant(v)
  \/ \E op \in Ops, l, r \in Handles : Combine(op, l, r) \/ CombinePanics(op, l, r)

ContextSpec == ContextInit /\ [][ContextNext]_ctx_vars

-----------------------------------------------------------------------------
ContextTypeOK ==
  /\ mode \in Modes
  /\ arena \in Seq(Node)
  /\ DOMAIN interner \subseteq Node
  /\ \A k \in DOMAIN interner : interner[k] \in Handles
  /\ returned \in Handles \cup {0}

\* The interner and the arena say the same thing: every expression of the arena
\* is filed under its canonical form at its own index, and nothing else is
\* filed (interner.rs:21-28).
HashConsed ==
  /\ \A e \in Handles : /\ Canonical(arena[e]) \in DOMAIN interner
                        /\ interner[Canonical(arena[e])] = e
  /\ \A k \in DOMAIN interner : Canonical(arena[interner[k]]) = k

\* "If the same expression is constructed twice, both references point to the
\* same node", and so for a + b and b + a (README.md:65): no two expressions of
\* the arena are the same up to the order of the operands of + and *.
Same(m, n) ==
  \/ m = n
  \/ /\ IsOp(m) /\ IsOp(n) /\ m.op = n.op /\ m.op # "Sub"
     /\ m.lhs = n.rhs /\ m.rhs = n.lhs

NoDuplicates == \A e, f \in Handles : Same(arena[e], arena[f]) => e = f

\* Operands precede the expression that uses them (a handle exists only once
\* its expression is in the arena), so the arena is a DAG.
ArenaTopological == Topological(arena)

\* No operation with two constant operands is ever in the arena, which the mock
\* backend's depth and noise accounting relies on (mock_fhe.rs:53-56).  Folding
\* looks only at the operands, once, when the operation is appended.
NoConstantOperation ==
  \A e \in Handles :
    IsOp(arena[e]) => \E o \in Operands(arena[e]) : ~ IsConst(arena[o])

\* An operator returns a handle whose value is the operation on the values of
\* its operands, modulo q, under every input: neither folding, nor the canonical
\* order of operands, nor finding the expression already there changes what the
\* program computes.
CombineSound ==
  [][ \A op \in Ops, l, r \in Handles :
        Combine(op, l, r) =>
          \A env \in Environments :
            LET val == Denote(arena', env)
            IN  val[returned'] = RingOp(op, val[l], val[r])
    ]_ctx_vars
=============================================================================
