--------------------------- MODULE CompilerProofs ----------------------------
(* What holds of every context and of every compilation, whatever the        *)
(* program, the plaintext type, the modulus, the request and the mode: an    *)
(* expression is interned once and keeps its meaning; the traversal lowers   *)
(* exactly the live expressions, once each, in topological order, and        *)
(* implements LiveLowering.                                                  *)
EXTENDS Compiler, DagProofs, FiniteSetTheorems

-----------------------------------------------------------------------------
\* The context.

\* The invariant is inductive as a whole: that a new expression finds no
\* duplicate needs the interner to be exact, and folding's result to be new.
ContextInv ==
  /\ ContextTypeOK
  /\ HashConsed
  /\ ArenaTopological
  /\ NoConstantOperation

\* An expression as append is given it: a node whose operands exist.
Appendable(expr) == expr \in Node /\ Operands(expr) \subseteq Handles

-----------------------------------------------------------------------------
\* Two nodes that are the same up to operand order have one canonical form.
LEMMA SameCanonical ==
  ASSUME NEW m \in Node, NEW n \in Node, Same(m, n)
  PROVE  Canonical(m) = Canonical(n)
BY DEF Node, Canonical, IsOp, OpNode, Same, Index

\* Folding takes an appendable expression to an appendable one that does not
\* fold any more.
LEMMA FoldAppendable ==
  ASSUME ContextTypeOK, NEW expr, Appendable(expr)
  PROVE  Appendable(Fold(expr)) /\ ~ Folds(Fold(expr))
<1>1. CASE Folds(expr)
  <2>1. expr.op \in BinOp /\ expr.lhs \in Handles /\ expr.rhs \in Handles
    BY <1>1, DagAssumption DEF Folds, Appendable, Node, IsOp, Operands
  <2>2. arena[expr.lhs] \in Node /\ arena[expr.rhs] \in Node
    BY <2>1 DEF ContextTypeOK, Handles
  <2>3. arena[expr.lhs].value \in Word /\ arena[expr.rhs].value \in Word
    BY <1>1, <2>2 DEF Folds, Node, IsConst
  <2>4. MachineOp(expr.op, arena[expr.lhs].value, arena[expr.rhs].value) % Modulus
          \in Word
    BY <2>1, <2>3, MachineOpType
  <2> DEFINE v == MachineOp(expr.op, arena[expr.lhs].value,
                            arena[expr.rhs].value) % Modulus
  <2>5. Fold(expr) = ConstNode(v)
    BY <1>1 DEF Fold
  <2> HIDE DEF v
  <2>6. v \in Word
    BY <2>4 DEF v
  <2> QED
    BY <2>5, <2>6 DEF Appendable, Node, ConstNode, Operands, IsOp, Folds
<1>2. CASE ~ Folds(expr)
  BY <1>2 DEF Fold
<1> QED
  BY <1>1, <1>2

\* Allocating and filing an expression that is not there yet, whose operands
\* are, and that does not fold, keeps the invariant.
LEMMA InternNewInv ==
  ASSUME ContextInv, NEW expr, Appendable(expr), ~ Folds(expr), InternNew(expr)
  PROVE  ContextInv'
<1> DEFINE key == Canonical(expr)
           new == Len(arena) + 1
<1>1. /\ arena \in Seq(Node) /\ Len(arena) \in Nat
      /\ Handles = 1 .. Len(arena)
  BY DEF ContextInv, ContextTypeOK, Handles
<1>2. /\ arena' = Append(arena, expr)
      /\ interner' = [k \in DOMAIN interner \cup {key} |->
                        IF k = key THEN new ELSE interner[k]]
      /\ returned' = new
      /\ mode' = mode
      /\ key \notin DOMAIN interner
  BY DEF InternNew, AllocAndFile
<1>3. expr \in Node /\ key \in Node /\ Operands(expr) \subseteq Handles
  BY CanonicalNode DEF Appendable
<1> HIDE DEF key
<1>4. /\ arena' \in Seq(Node)
      /\ Handles' = 1 .. new
      /\ arena'[new] = expr
      /\ \A e \in Handles : e \in Handles' /\ e # new /\ arena'[e] = arena[e]
  BY <1>1, <1>2, <1>3 DEF Handles
<1>5. ContextTypeOK'
  BY <1>1, <1>2, <1>3, <1>4 DEF ContextInv, ContextTypeOK
<1>6. HashConsed'
  <2>1. \A e \in Handles' : e = new \/ e \in Handles
    BY <1>1, <1>4
  <2>2. ASSUME NEW e \in Handles'
        PROVE  /\ Canonical(arena'[e]) \in DOMAIN interner'
               /\ interner'[Canonical(arena'[e])] = e
    <3>1. CASE e = new
      BY <3>1, <1>2, <1>4 DEF key
    <3>2. CASE e \in Handles
      <4>1. /\ Canonical(arena[e]) \in DOMAIN interner
            /\ interner[Canonical(arena[e])] = e
        BY <3>2 DEF ContextInv, HashConsed
      <4>2. Canonical(arena[e]) # key
        BY <4>1, <1>2
      <4> QED
        BY <3>2, <4>1, <4>2, <1>2, <1>4
    <3> QED
      BY <2>1, <3>1, <3>2
  <2>3. ASSUME NEW k \in DOMAIN interner'
        PROVE  Canonical(arena'[interner'[k]]) = k
    <3>1. CASE k = key
      BY <3>1, <1>2, <1>4 DEF key
    <3>2. CASE k \in DOMAIN interner /\ k # key
      <4>1. interner'[k] = interner[k] /\ interner[k] \in Handles
        BY <3>2, <1>2 DEF ContextInv, ContextTypeOK
      <4>2. Canonical(arena[interner[k]]) = k
        BY <3>2 DEF ContextInv, HashConsed
      <4> QED
        BY <4>1, <4>2, <1>4
    <3> QED
      BY <3>1, <3>2, <1>2
  <2> QED
    BY <2>2, <2>3 DEF HashConsed
<1>7. ArenaTopological'
  <2>1. \A e \in Handles : Operands(arena[e]) \subseteq 1 .. e - 1
    BY DEF ContextInv, ArenaTopological, Topological, Handles
  <2>2. Operands(expr) \subseteq 1 .. new - 1
    BY <1>1, <1>3
  <2> QED
    BY <2>1, <2>2, <1>1, <1>4 DEF ArenaTopological, Topological, Handles
<1>8. NoConstantOperation'
  <2>1. ASSUME NEW e \in Handles, IsOp(arena[e])
        PROVE  \E o \in Operands(arena[e]) : o \in Handles /\ ~ IsConst(arena[o])
    BY <2>1, <1>1 DEF ContextInv, NoConstantOperation, ArenaTopological, Topological,
                      Handles
  <2>2. IsOp(expr) => \E o \in Operands(expr) : o \in Handles /\ ~ IsConst(arena[o])
    BY <1>3 DEF Folds, Operands
  <2>3. ASSUME NEW e \in Handles', IsOp(arena'[e])
        PROVE  \E o \in Operands(arena'[e]) : ~ IsConst(arena'[o])
    <3>1. CASE e = new
      BY <3>1, <2>2, <2>3, <1>4
    <3>2. CASE e \in Handles
      BY <3>2, <2>1, <2>3, <1>4
    <3> QED
      BY <3>1, <3>2, <1>1, <1>4
  <2> QED
    BY <2>3 DEF NoConstantOperation
<1> QED
  BY <1>5, <1>6, <1>7, <1>8 DEF ContextInv

\* Context::append, whichever way the interner answers.
LEMMA AppendExprInv ==
  ASSUME ContextInv, NEW expr, Appendable(expr), AppendExpr(expr)
  PROVE  ContextInv'
<1>1. Appendable(Fold(expr)) /\ ~ Folds(Fold(expr))
  BY FoldAppendable DEF ContextInv
<1>2. CASE InternNew(Fold(expr))
  BY <1>1, <1>2, InternNewInv
<1>3. CASE InternKnown(Fold(expr))
  BY <1>3 DEF InternKnown, ContextInv, ContextTypeOK, HashConsed, ArenaTopological,
              NoConstantOperation, Handles, Folds
<1> QED
  BY <1>2, <1>3 DEF AppendExpr

\* What the program's calls append is appendable.
LEMMA CallsAppendable ==
  /\ \A i \in InputIndices : Appendable(InputNode(i))
  /\ \A v \in Constants : Appendable(ConstNode(v))
  /\ \A op \in Ops, l, r \in Handles : ContextTypeOK => Appendable(OpNode(op, l, r))
<1>1. \A i \in InputIndices : Appendable(InputNode(i))
  BY DEF Appendable, Node, InputNode, Operands, IsOp
<1>2. \A v \in Constants : Appendable(ConstNode(v))
  BY DagAssumption DEF Appendable, Node, ConstNode, Operands, IsOp
<1>3. ASSUME NEW op \in Ops, NEW l \in Handles, NEW r \in Handles, ContextTypeOK
      PROVE  Appendable(OpNode(op, l, r))
  <2>1. l \in Index /\ r \in Index
    BY <1>3 DEF ContextTypeOK, Handles, Index
  <2> QED
    BY <2>1 DEF Appendable, Node, OpNode, Operands, IsOp
<1> QED
  BY <1>1, <1>2, <1>3

\* The invariant is kept by every call a program makes of a context.
LEMMA ContextNextInv ==
  ASSUME ContextInv, ContextNext
  PROVE  ContextInv'
<1> USE CallsAppendable
<1>1. ASSUME NEW i \in InputIndices, Input(i) PROVE ContextInv'
  BY <1>1, AppendExprInv DEF Input
<1>2. ASSUME NEW v \in Constants, Constant(v) PROVE ContextInv'
  BY <1>2, AppendExprInv DEF Constant
<1>3. ASSUME NEW op \in Ops, NEW l \in Handles, NEW r \in Handles, Combine(op, l, r)
      PROVE  ContextInv'
  BY <1>3, AppendExprInv DEF Combine, ContextInv
<1>4. ASSUME NEW op \in Ops, NEW l \in Handles, NEW r \in Handles,
             CombinePanics(op, l, r)
      PROVE  ContextInv'
  BY <1>4 DEF CombinePanics, AppendPanics, ContextInv, ContextTypeOK, HashConsed,
              ArenaTopological, NoConstantOperation, Handles, Folds
<1> QED
  BY <1>1, <1>2, <1>3, <1>4 DEF ContextNext

\* And by steps that leave the context alone.
LEMMA ContextStutterInv ==
  ASSUME ContextInv, UNCHANGED ctx_vars
  PROVE  ContextInv'
BY DEF ctx_vars, ContextInv, ContextTypeOK, HashConsed, ArenaTopological,
       NoConstantOperation, Handles, Folds

LEMMA ContextInitInv == ContextInit => ContextInv
BY DEF ContextInit, ContextInv, ContextTypeOK, HashConsed, ArenaTopological,
       Topological, NoConstantOperation, Handles

LEMMA ContextInvariant == ContextSpec => []ContextInv
BY ContextInitInv, ContextNextInv, ContextStutterInv, PTL DEF ContextSpec

-----------------------------------------------------------------------------
\* Every value the context keeps, and every handle it returns, is of its type:
\* in particular a handle is always an index of the arena.
THEOREM ContextTypeCorrect == ContextSpec => []ContextTypeOK
<1>1. ContextInv => ContextTypeOK
  BY DEF ContextInv
<1> QED
  BY <1>1, ContextInvariant, PTL

\* Hash-consing is exact: the interner is the inverse of the arena.
THEOREM HashConsing == ContextSpec => []HashConsed
<1>1. ContextInv => HashConsed
  BY DEF ContextInv
<1> QED
  BY <1>1, ContextInvariant, PTL

\* Common subexpressions are shared, up to the order of commutative operands.
THEOREM CommonSubexpressionsShared == ContextSpec => []NoDuplicates
<1>1. ASSUME ContextInv PROVE NoDuplicates
  <2> SUFFICES ASSUME NEW e \in Handles, NEW f \in Handles, Same(arena[e], arena[f])
               PROVE  e = f
    BY DEF NoDuplicates
  <2>1. arena[e] \in Node /\ arena[f] \in Node
    BY <1>1 DEF ContextInv, ContextTypeOK, Handles
  <2>2. Canonical(arena[e]) = Canonical(arena[f])
    BY <2>1, SameCanonical
  <2> QED
    BY <1>1, <2>2 DEF ContextInv, HashConsed
<1> QED
  BY <1>1, ContextInvariant, PTL

\* The expressions are a DAG in topological order.
THEOREM ArenaIsTopological == ContextSpec => []ArenaTopological
<1>1. ContextInv => ArenaTopological
  BY DEF ContextInv
<1> QED
  BY <1>1, ContextInvariant, PTL

\* No operation on two constants survives in the arena.
THEOREM ConstantsFolded == ContextSpec => []NoConstantOperation
<1>1. ContextInv => NoConstantOperation
  BY DEF ContextInv
<1> QED
  BY <1>1, ContextInvariant, PTL

\* One call of the context leaves every existing expression where it is.
LEMMA ContextNextStable ==
  ASSUME ContextTypeOK, ContextNext
  PROVE  \A e \in Handles : e \in DOMAIN arena' /\ arena'[e] = arena[e]
<1>1. ASSUME NEW expr, Appendable(expr), AppendExpr(expr)
      PROVE  \A e \in Handles : e \in DOMAIN arena' /\ arena'[e] = arena[e]
  <2>1. Fold(expr) \in Node
    BY <1>1, FoldAppendable DEF Appendable
  <2>2. CASE InternNew(Fold(expr))
    BY <2>1, <2>2 DEF InternNew, AllocAndFile, ContextTypeOK, Handles
  <2>3. CASE InternKnown(Fold(expr))
    BY <2>3 DEF InternKnown, Handles
  <2> QED
    BY <1>1, <2>2, <2>3 DEF AppendExpr
<1> USE CallsAppendable
<1>2. ASSUME NEW i \in InputIndices, Input(i)
      PROVE  \A e \in Handles : e \in DOMAIN arena' /\ arena'[e] = arena[e]
  BY <1>1, <1>2 DEF Input
<1>3. ASSUME NEW v \in Constants, Constant(v)
      PROVE  \A e \in Handles : e \in DOMAIN arena' /\ arena'[e] = arena[e]
  BY <1>1, <1>3 DEF Constant
<1>4. ASSUME NEW op \in Ops, NEW l \in Handles, NEW r \in Handles, Combine(op, l, r)
      PROVE  \A e \in Handles : e \in DOMAIN arena' /\ arena'[e] = arena[e]
  BY <1>1, <1>4 DEF Combine
<1>5. ASSUME NEW op \in Ops, NEW l \in Handles, NEW r \in Handles,
             CombinePanics(op, l, r)
      PROVE  \A e \in Handles : e \in DOMAIN arena' /\ arena'[e] = arena[e]
  BY <1>5 DEF CombinePanics, AppendPanics, Handles
<1> QED
  BY <1>2, <1>3, <1>4, <1>5 DEF ContextNext

\* No call changes the mode.
LEMMA ContextNextMode ==
  ASSUME ContextNext
  PROVE  mode' = mode
BY DEF ContextNext, Input, Constant, Combine, CombinePanics, AppendPanics, AppendExpr,
       InternKnown, InternNew, AllocAndFile

-----------------------------------------------------------------------------
\* What the program computes.

\* The handle that append returns is one of the canonical form of what it was given,
\* folded; whether that was there already or not.
LEMMA AppendedMeans ==
  ASSUME ContextInv, NEW expr, Appendable(expr), AppendExpr(expr)
  PROVE  /\ returned' \in Handles'
         /\ Canonical(arena'[returned']) = Canonical(Fold(expr))
<1>1. Fold(expr) \in Node
  BY FoldAppendable DEF ContextInv, Appendable
<1>2. CASE InternNew(Fold(expr))
  <2>1. arena' = Append(arena, Fold(expr)) /\ returned' = Len(arena) + 1
    BY <1>2 DEF InternNew, AllocAndFile
  <2>2. arena \in Seq(Node)
    BY DEF ContextInv, ContextTypeOK
  <2>3. /\ Len(arena') = Len(arena) + 1 /\ arena' \in Seq(Node)
        /\ arena'[Len(arena) + 1] = Fold(expr)
    BY <1>1, <2>1, <2>2, AppendProperties
  <2>4. Len(arena) \in Nat /\ DOMAIN arena' = 1 .. Len(arena')
    BY <2>2, <2>3, LenProperties
  <2> QED
    BY <2>1, <2>3, <2>4 DEF Handles
<1>3. CASE InternKnown(Fold(expr))
  <2>1. /\ Canonical(Fold(expr)) \in DOMAIN interner /\ arena' = arena
        /\ returned' = interner[Canonical(Fold(expr))]
    BY <1>3 DEF InternKnown
  <2> QED
    BY <2>1 DEF ContextInv, ContextTypeOK, HashConsed, Handles
<1> QED
  BY <1>2, <1>3 DEF AppendExpr

\* An expression built from two handles has the value of the operation on theirs, for
\* every program and modulus: in a build that panics on overflow, and in one that
\* wraps if the modulus divides the size of the word (as powers of two do).
THEOREM CombinesSoundly ==
  ASSUME FoldsSafe
  PROVE  ContextSpec => CombineSound
<1> DEFINE Sound == \A op \in Ops, l, r \in Handles :
                      Combine(op, l, r) =>
                        \A env \in Environments :
                          LET val == Denote(arena', env)
                          IN  val[returned'] = RingOp(op, val[l], val[r])
<1>1. ASSUME ContextInv, NEW op \in Ops, NEW l \in Handles, NEW r \in Handles,
             Combine(op, l, r), NEW env \in Environments
      PROVE  Denote(arena', env)[returned']
               = RingOp(op, Denote(arena', env)[l], Denote(arena', env)[r])
  <2> DEFINE val == Denote(arena', env)
             expr == OpNode(op, l, r)
             n == arena'[returned']
  <2>1. ContextInv' /\ ContextNext
    <3>1. ContextNext
      BY <1>1 DEF ContextNext
    <3> QED
      BY <1>1, <3>1, ContextNextInv
  <2>2. /\ \A e \in Handles' : val[e] = NodeValue(arena'[e], env, val)
        /\ \A e \in Handles' : val[e] \in Residue
        /\ \A e \in Handles' : arena'[e] \in Node
        /\ \A e \in Handles' : IsOp(arena'[e]) => arena'[e].lhs \in Handles'
                                                  /\ arena'[e].rhs \in Handles'
    <3>1. arena' \in Seq(Node) /\ Topological(arena')
      BY <2>1 DEF ContextInv, ContextTypeOK, ArenaTopological
    <3>2. /\ val \in [DOMAIN arena' -> Residue]
          /\ \A e \in DOMAIN arena' : val[e] = NodeValue(arena'[e], env, val)
      BY <3>1, DenoteEquation, ResiduesAreArguments
    <3>3. /\ DOMAIN arena' = 1 .. Len(arena') /\ Len(arena') \in Nat
          /\ \A e \in DOMAIN arena' :
               /\ arena'[e] \in Node
               /\ IsOp(arena'[e]) => /\ arena'[e].lhs \in 1 .. e - 1
                                     /\ arena'[e].rhs \in 1 .. e - 1
      BY <3>1, OperandsBefore
    <3> HIDE DEF val
    <3> QED
      BY <3>2, <3>3 DEF Handles
  <2>3. Appendable(expr) /\ AppendExpr(expr)
        /\ ~ (OverflowChecks /\ FoldOverflows(expr))
    BY <1>1, CallsAppendable DEF Combine, ContextInv
  <2>4. returned' \in Handles' /\ Canonical(n) = Canonical(Fold(expr))
    BY <1>1, <2>3, AppendedMeans
  <2>5. l \in Handles' /\ r \in Handles' /\ arena'[l] = arena[l] /\ arena'[r] = arena[r]
    BY <1>1, <2>1, ContextNextStable DEF ContextInv, Handles
  <2>6. op \in BinOp /\ Residue \subseteq Int
    <3>1. op \in BinOp
      BY DagAssumption
    <3>2. Residue \subseteq Int
      BY DEF Residue
    <3> QED
      BY <3>1, <3>2
  <2> HIDE DEF val, expr
  <2>7. val[returned'] = NodeValue(Fold(expr), env, val)
    <3>1. val[returned'] = NodeValue(n, env, val)
      BY <2>2, <2>4
    <3>2. NodeValue(n, env, val) = NodeValue(Canonical(n), env, val)
      <4>1. n \in Node /\ (IsOp(n) => val[n.lhs] \in Int /\ val[n.rhs] \in Int)
        BY <2>2, <2>4, <2>6
      <4> HIDE DEF n
      <4> QED
        BY <4>1, CanonicalValue
    <3>3. Fold(expr) \in Node /\ Operands(Fold(expr)) \subseteq Handles
      BY <1>1, <2>3, FoldAppendable DEF ContextInv, Appendable
    <3>4. \A e \in Handles : e \in Handles'
      BY <1>1, <2>1, ContextNextStable DEF ContextInv, Handles
    <3>5. IsOp(Fold(expr)) => val[Fold(expr).lhs] \in Int /\ val[Fold(expr).rhs] \in Int
      BY <3>3, <3>4, <2>2, <2>6, NodeKinds
    <3>6. NodeValue(Canonical(Fold(expr)), env, val) = NodeValue(Fold(expr), env, val)
      BY <3>3, <3>5, CanonicalValue
    <3> QED
      BY <3>1, <3>2, <3>6, <2>4
  <2>8. CASE ~ Folds(expr)
    <3>1. NodeValue(Fold(expr), env, val) = RingOp(op, val[l], val[r])
      BY <2>8 DEF Fold, expr, NodeValue, OpNode, IsOp, IsInput, IsConst
    <3> QED
      BY <2>7, <3>1 DEF val
  <2>9. CASE Folds(expr)
    <3> DEFINE x == arena[l].value
               y == arena[r].value
    <3>1. IsConst(arena[l]) /\ IsConst(arena[r])
      BY <2>9 DEF Folds, expr, OpNode
    <3>2. x \in Word /\ y \in Word
      <4>1. arena[l] \in Node /\ arena[r] \in Node
        BY <2>2, <2>5
      <4> QED
        BY <3>1, <4>1 DEF Node, IsConst
    <3>3. val[l] = x % Modulus /\ val[r] = y % Modulus
      <4>1. \A c \in Node : IsConst(c) => NodeValue(c, env, val) = c.value % Modulus
        BY NodeKinds DEF NodeValue
      <4>2. arena'[l] \in Node /\ arena'[r] \in Node
        BY <2>2, <2>5
      <4>3. /\ val[l] = NodeValue(arena'[l], env, val)
            /\ val[r] = NodeValue(arena'[r], env, val)
        BY <2>2, <2>5
      <4> QED
        BY <3>1, <4>1, <4>2, <4>3, <2>5
    <3>4. Fold(expr) = ConstNode(MachineOp(op, x, y) % Modulus)
      BY <2>9 DEF Fold, expr, OpNode
    <3>5. ~ Overflows(op, x, y) \/ DividesWordSize(Modulus)
      BY <2>3, <2>9 DEF FoldsSafe, FoldOverflows, expr, OpNode, x, y
    <3> HIDE DEF x, y
    <3>6. NodeValue(Fold(expr), env, val) = RingOp(op, x % Modulus, y % Modulus)
      BY <2>6, <3>2, <3>4, <3>5, ConstFoldValue
    <3> QED
      BY <2>7, <3>3, <3>6 DEF val
  <2> QED
    BY <2>8, <2>9
<1>2. ASSUME ContextInv, [ContextNext]_ctx_vars
      PROVE  [Sound]_ctx_vars
  BY <1>1, <1>2
<1> QED
  BY <1>2, ContextInvariant, PTL DEF ContextSpec, CombineSound

-----------------------------------------------------------------------------
\* The compiler.

\* What the traversal has lowered, has at hand, or has still on its stack.
Work == DOMAIN lowered \cup ({current} \ {0}) \cup Range(dfs_stack)

\* Every output whose turn has come is lowered or will be, and only what the
\* request needs is lowered or ever will be.  This is what makes the traversal
\* exact: at its end Work is what is lowered.
WorkExact ==
  /\ Range(output_exprs) \subseteq Work
  /\ Work \subseteq Live(arena, Requested)

\* Without a first output nothing has happened.
NothingYet ==
  output_exprs = << >> =>
    /\ roots = << >> /\ current = 0 /\ dfs_stack = << >>
    /\ gates = << >> /\ inputs = << >> /\ lowered = [e \in {} |-> 0]
    /\ outputs = << >> /\ unused = {}
    /\ verdict \in {"none", "panic"}

\* A verdict on a request comes with nothing left to do.
VerdictFinal ==
  /\ verdict \in {"ok", "error"} =>
       /\ output_exprs # << >> /\ roots = << >>
       /\ current = 0 /\ dfs_stack = << >>
  /\ verdict = "panic" => output_exprs = << >>
  /\ verdict = "ok" => ~ FailsMode
  /\ verdict = "error" => FailsMode
  /\ unused = IF verdict = "error" THEN NotLowered ELSE {}

\* InputsListed, before the end too.
InputsExact ==
  /\ Range(inputs) = {g \in DOMAIN gates : IsInput(gates[g])}
  /\ \A i, j \in DOMAIN inputs : i < j => inputs[i] < inputs[j]

CompilerInv ==
  /\ ContextInv
  /\ CompilerTypeOK
  /\ GatesMirrorExprs
  /\ GatesTopological
  /\ InputsExact
  /\ WorkExact
  /\ NothingYet
  /\ VerdictFinal

-----------------------------------------------------------------------------
\* The compiler does not touch the context.
LEMMA ContextKept ==
  ASSUME ContextInv, mode' = mode, arena' = arena, interner' = interner,
         returned' \in Handles \cup {0}
  PROVE  ContextInv'
BY DEF ContextInv, ContextTypeOK, HashConsed, ArenaTopological, NoConstantOperation,
       Handles

\* Every expression of the arena is a node whose operands are in the arena.
LEMMA ArenaNodes ==
  ASSUME ContextInv
  PROVE  /\ \A e \in Handles : arena[e] \in Node
         /\ \A e \in Handles : Operands(arena[e]) \subseteq Handles
         /\ \A e \in Handles : e \in Nat \ {0}
         /\ 0 \notin Handles
<1>1. arena \in Seq(Node)
  BY DEF ContextInv, ContextTypeOK
<1>2. Handles = 1 .. Len(arena) /\ Len(arena) \in Nat
  BY <1>1, LenProperties DEF Handles
<1>3. \A e \in Handles : Operands(arena[e]) \subseteq 1 .. e - 1
  BY DEF ContextInv, ArenaTopological, Topological, Handles
<1> QED
  BY <1>1, <1>2, <1>3, ElementOfSeq

\* The operands of live work are live.
LEMMA OperandsLive ==
  ASSUME CompilerInv, NEW e \in Work, NEW o \in Operands(arena[e])
  PROVE  o \in Live(arena, Requested)
<1>1. e \in Live(arena, Requested)
  BY DEF CompilerInv, WorkExact
<1>2. Closed(arena, Live(arena, Requested))
  BY ArenaNodes, LiveIsClosed DEF CompilerInv, Handles
<1> QED
  BY <1>1, <1>2 DEF Closed

-----------------------------------------------------------------------------
\* The steps that only move expressions between the node at hand, the stack and
\* the outputs keep the invariant if they keep Work exact.
LEMMA MoveInv ==
  ASSUME CompilerInv, Lowering,
         UNCHANGED <<mode, arena, interner, returned, gates, inputs, lowered,
                     outputs, verdict, unused>>,
         roots' \in Seq(Handles), output_exprs' \in Seq(Handles),
         current' \in Handles \cup {0}, dfs_stack' \in Seq(Handles),
         output_exprs' # << >>,
         Requested' = Requested,
         Range(output_exprs') \subseteq Work',
         Work' \subseteq Live(arena, Requested)
  PROVE  CompilerInv'
<1>1. ContextInv'
  BY ContextKept DEF CompilerInv, ContextInv, ContextTypeOK
<1>2. CompilerTypeOK'
  BY <1>1 DEF CompilerInv, CompilerTypeOK, ContextInv, Handles
<1>3. GatesMirrorExprs' /\ GatesTopological' /\ InputsExact'
  BY DEF CompilerInv, GatesMirrorExprs, Closed, Image, GatesTopological, Topological,
         InputsExact
<1>4. WorkExact'
  BY DEF WorkExact
<1>5. NothingYet' /\ VerdictFinal'
  BY DEF CompilerInv, Lowering, NothingYet, VerdictFinal
<1> QED
  BY <1>1, <1>2, <1>3, <1>4, <1>5 DEF CompilerInv

LEMMA SkipLoweredInv ==
  ASSUME CompilerInv, SkipLowered
  PROVE  CompilerInv'
<1>1. Work' = Work
  BY DEF SkipLowered, Work, IsLowered
<1>2. Requested' = Requested
  BY DEF SkipLowered, Requested
<1> QED
  BY <1>1, <1>2, MoveInv DEF SkipLowered, CompilerInv, CompilerTypeOK, WorkExact,
                             Lowering

LEMMA PopInv ==
  ASSUME CompilerInv, Pop
  PROVE  CompilerInv'
<1>1. /\ current' \in Handles /\ dfs_stack' \in Seq(Handles)
      /\ Range(dfs_stack) = {current'} \cup Range(dfs_stack')
  BY TopAndRestRange DEF Pop, CompilerInv, CompilerTypeOK
<1>2. Work' = Work
  BY <1>1, ArenaNodes DEF Pop, Work, CompilerInv
<1>3. Requested' = Requested
  BY DEF Pop, Requested
<1> QED
  BY <1>1, <1>2, <1>3, MoveInv DEF Pop, CompilerInv, CompilerTypeOK, WorkExact,
                                   Lowering

LEMMA NextRootInv ==
  ASSUME CompilerInv, NextRoot
  PROVE  CompilerInv'
<1> DEFINE h == Head(roots)
<1>1. /\ h \in Handles /\ roots' \in Seq(Handles)
      /\ Range(roots) = {h} \cup Range(roots')
  BY HeadTailRange DEF NextRoot, CompilerInv, CompilerTypeOK
<1>2. /\ output_exprs' \in Seq(Handles) /\ output_exprs' # << >>
      /\ Range(output_exprs') = Range(output_exprs) \cup {h}
  BY <1>1, RangeOfAppend, AppendProperties DEF NextRoot, CompilerInv, CompilerTypeOK
<1>3. dfs_stack' \in Seq(Handles) /\ Range(dfs_stack') = {h}
  BY <1>1 DEF NextRoot, Range
<1>4. Range(dfs_stack) = {}
  BY DEF NextRoot, Range
<1>5. Requested' = Requested
  BY <1>1, <1>2 DEF Requested
<1>6. Work' = Work \cup {h}
  BY <1>3, <1>4 DEF Work, NextRoot
<1>7. h \in Live(arena, Requested)
  <2>1. Requested \subseteq DOMAIN arena
    BY RangeInSet DEF Requested, CompilerInv, CompilerTypeOK, Handles
  <2> QED
    BY <1>1, <2>1, LiveHoldsRoots DEF Requested
<1> QED
  BY <1>1, <1>2, <1>3, <1>5, <1>6, <1>7, MoveInv
     DEF NextRoot, CompilerInv, CompilerTypeOK, WorkExact, Lowering

\* Descending puts the operation back and adds its missing operands.
LEMMA DescendInv ==
  ASSUME CompilerInv, NEW left, NEW right, AtOp(left, right),
         NEW next \in {0, arena[current].lhs},
         NEW pushed \in Seq(Handles),
         {current} \subseteq Range(pushed),
         Range(pushed) \subseteq {current, arena[current].rhs},
         Descend(next, pushed)
  PROVE  CompilerInv'
<1>1. /\ current \in Handles /\ current \in Work
      /\ arena[current] \in Node /\ IsOp(arena[current])
  BY ArenaNodes DEF AtOp, CompilerInv, CompilerTypeOK, Work
<1>2. {arena[current].lhs, arena[current].rhs} \subseteq Live(arena, Requested)
  BY <1>1, NodeKinds, OperandsLive
<1>3. Live(arena, Requested) \subseteq Handles
  BY LiveInDomain DEF Handles
<1>4. current' \in Handles \cup {0}
  BY <1>2, <1>3 DEF Descend
<1>5. /\ dfs_stack' \in Seq(Handles)
      /\ Range(dfs_stack') = Range(dfs_stack) \cup Range(pushed)
  BY RangeConcatenation, ConcatProperties DEF Descend, CompilerInv, CompilerTypeOK
<1>6. Work \subseteq Work'
  BY <1>5 DEF Work, Descend
<1>7. Work' \subseteq Work \cup {arena[current].lhs, arena[current].rhs}
  BY <1>1, <1>5 DEF Work, Descend
<1>8. Requested' = Requested
  BY DEF Descend, Requested
<1> QED
  BY <1>2, <1>4, <1>5, <1>6, <1>7, <1>8, MoveInv
     DEF Descend, AtOp, CompilerInv, CompilerTypeOK, WorkExact, Lowering

LEMMA DescendStepInv ==
  ASSUME CompilerInv, DescendLeft \/ DescendRight \/ DescendBoth
  PROVE  CompilerInv'
<1> DEFINE pair == <<current, arena[current].rhs>>
<1>1. ASSUME NEW left, NEW right, AtOp(left, right)
      PROVE  /\ <<current>> \in Seq(Handles) /\ Range(<<current>>) = {current}
             /\ pair \in Seq(Handles) /\ Range(pair) = {current, arena[current].rhs}
  <2>1. current \in Handles
    BY <1>1 DEF AtOp, CompilerInv, CompilerTypeOK
  <2>2. arena[current].rhs \in Operands(arena[current])
    BY <1>1 DEF AtOp, Operands
  <2>3. arena[current].rhs \in Handles
    BY <2>1, <2>2, ArenaNodes DEF CompilerInv
  <2>4. <<current>> \in Seq(Handles) /\ Range(<<current>>) = {current}
    BY <2>1 DEF Range
  <2>5. pair \in Seq(Handles) /\ Range(pair) = {current, arena[current].rhs}
    BY <2>1, <2>3, RangeOfPair
  <2> QED
    BY <2>4, <2>5
<1>2. CASE DescendLeft
  BY <1>1, <1>2, DescendInv DEF DescendLeft
<1>3. CASE DescendRight
  <2>1. AtOp(TRUE, FALSE) /\ Descend(0, pair)
    BY <1>3 DEF DescendRight
  <2> HIDE DEF pair
  <2> QED
    BY <1>1, <2>1, DescendInv
<1>4. CASE DescendBoth
  <2>1. AtOp(FALSE, FALSE) /\ Descend(arena[current].lhs, pair)
    BY <1>4 DEF DescendBoth
  <2> HIDE DEF pair
  <2> QED
    BY <1>1, <2>1, DescendInv
<1> QED
  BY <1>2, <1>3, <1>4

-----------------------------------------------------------------------------
\* Lowering the node at hand, its operands being lowered.
LEMMA LowerInv ==
  ASSUME CompilerInv, Lowering, current # 0, ~ IsLowered(current),
         Operands(arena[current]) \subseteq DOMAIN lowered,
         NEW gate, gate = Image(current), Lower(gate),
         inputs' = IF IsInput(arena[current]) THEN Append(inputs, Len(gates) + 1)
                   ELSE inputs
  PROVE  CompilerInv'
<1> DEFINE n == Len(gates) + 1
<1>1. /\ gates \in Seq(Node) /\ Len(gates) \in Nat
      /\ DOMAIN gates = 1 .. Len(gates)
      /\ \A g \in DOMAIN gates : gates[g] \in Node
  BY LenProperties, ElementOfSeq DEF CompilerInv, CompilerTypeOK
<1>2. /\ current \in Handles /\ arena[current] \in Node
      /\ DOMAIN lowered \subseteq Handles
      /\ \A e \in DOMAIN lowered : lowered[e] \in DOMAIN gates
      /\ current \notin DOMAIN lowered
  BY ArenaNodes DEF CompilerInv, CompilerTypeOK, IsLowered
<1>3. /\ gate \in Node
      /\ Operands(gate) \subseteq DOMAIN gates
      /\ IsInput(gate) <=> IsInput(arena[current])
  <2>1. CASE IsOp(arena[current])
    <3>1. /\ arena[current].op \in Ops
          /\ arena[current].lhs \in DOMAIN lowered
          /\ arena[current].rhs \in DOMAIN lowered
          /\ ~ IsInput(arena[current])
      BY <1>2, <2>1, NodeKinds
    <3>2. gate = OpNode(arena[current].op, lowered[arena[current].lhs],
                        lowered[arena[current].rhs])
      BY <2>1 DEF Image
    <3>3. /\ lowered[arena[current].lhs] \in DOMAIN gates
          /\ lowered[arena[current].rhs] \in DOMAIN gates
      BY <3>1, <1>2
    <3>4. DOMAIN gates \subseteq Index
      BY <1>1 DEF Index
    <3> QED
      BY <3>1, <3>2, <3>3, <3>4 DEF Node, OpNode, Operands, IsOp, IsInput
  <2>2. CASE ~ IsOp(arena[current])
    BY <1>2, <2>2, NodeKinds DEF Image
  <2> QED
    BY <2>1, <2>2
<1>4. /\ gates' = Append(gates, gate)
      /\ lowered' = [e \in DOMAIN lowered \cup {current} |->
                       IF e = current THEN n ELSE lowered[e]]
      /\ current' = 0
      /\ UNCHANGED <<mode, arena, interner, returned, roots, output_exprs,
                     dfs_stack, outputs, verdict, unused>>
  BY DEF Lower, PutAndPair
<1>5. /\ gates' \in Seq(Node) /\ DOMAIN gates' = 1 .. n
      /\ \A g \in DOMAIN gates : gates'[g] = gates[g]
      /\ gates'[n] = gate
  BY <1>1, <1>3, <1>4, AppendProperties, LenProperties
<1>6. /\ DOMAIN gates' = DOMAIN gates \cup {n}
      /\ n \notin DOMAIN gates /\ n \in Nat
      /\ \A g \in DOMAIN gates : g < n
  BY <1>1, <1>5
<1> HIDE DEF n
<1>7. ContextInv'
  BY <1>4, ContextKept DEF CompilerInv, ContextInv, ContextTypeOK
<1>8. inputs' \in Seq(DOMAIN gates') /\ InputsExact'
  <2>1. inputs \in Seq(DOMAIN gates') /\ outputs \in Seq(DOMAIN gates')
    BY <1>6, SeqMonotonic DEF CompilerInv, CompilerTypeOK
  <2>2. {g \in DOMAIN gates' : IsInput(gates'[g])}
          = {g \in DOMAIN gates : IsInput(gates[g])}
              \cup (IF IsInput(arena[current]) THEN {n} ELSE {})
    BY <1>3, <1>5, <1>6
  <2>3. CASE IsInput(arena[current])
    <3>1. inputs' = Append(inputs, n)
      BY <2>3 DEF n
    <3>2. /\ Len(inputs) \in Nat
          /\ DOMAIN inputs = 1 .. Len(inputs)
          /\ \A i \in 1 .. Len(inputs) : inputs[i] \in DOMAIN gates
      BY LenProperties, ElementOfSeq DEF CompilerInv, CompilerTypeOK
    <3>3. /\ inputs' \in Seq(DOMAIN gates')
          /\ Range(inputs') = Range(inputs) \cup {n}
      BY <1>6, <2>1, <3>1, RangeOfAppend
    <3>4. /\ Len(inputs') = Len(inputs) + 1
          /\ \A i \in 1 .. Len(inputs) : inputs'[i] = inputs[i]
          /\ inputs'[Len(inputs) + 1] = n
      BY <1>6, <2>1, <3>1, AppendProperties
    <3>5. DOMAIN inputs' = 1 .. Len(inputs) + 1
      BY <3>3, <3>4, LenProperties
    <3>6. \A i, j \in DOMAIN inputs : i < j => inputs[i] < inputs[j]
      BY DEF CompilerInv, InputsExact
    <3>7. ASSUME NEW i \in DOMAIN inputs', NEW j \in DOMAIN inputs', i < j
          PROVE  inputs'[i] < inputs'[j]
      <4>1. i \in 1 .. Len(inputs)
        BY <3>2, <3>5, <3>7
      <4>2. CASE j = Len(inputs) + 1
        BY <4>1, <4>2, <3>2, <3>4, <1>6
      <4>3. CASE j \in 1 .. Len(inputs)
        BY <4>1, <4>3, <3>2, <3>4, <3>6, <3>7
      <4> QED
        BY <4>2, <4>3, <3>2, <3>5
    <3> QED
      BY <2>2, <2>3, <3>3, <3>7 DEF CompilerInv, InputsExact
  <2>4. CASE ~ IsInput(arena[current])
    BY <2>1, <2>2, <2>4 DEF CompilerInv, InputsExact
  <2> QED
    BY <2>3, <2>4
<1>9. CompilerTypeOK'
  <2>1. outputs' \in Seq(DOMAIN gates')
    BY <1>4, <1>6, SeqMonotonic DEF CompilerInv, CompilerTypeOK
  <2>2. DOMAIN lowered' \subseteq Handles'
    BY <1>2, <1>4 DEF Handles
  <2>3. \A e \in DOMAIN lowered' : lowered'[e] \in DOMAIN gates'
    BY <1>2, <1>4, <1>6
  <2> QED
    BY <1>4, <1>5, <1>7, <1>8, <2>1, <2>2, <2>3
       DEF CompilerInv, CompilerTypeOK, ContextInv, Handles
<1>10. GatesMirrorExprs'
  <2>1. Closed(arena, DOMAIN lowered)
    BY DEF CompilerInv, GatesMirrorExprs
  <2>2. Closed(arena', DOMAIN lowered')
    BY <2>1, <1>4 DEF Closed
  <2>3. ASSUME NEW e \in DOMAIN lowered'
        PROVE  gates'[lowered'[e]] = Image(e)'
    <3>1. e \in Handles /\ arena[e] \in Node
      BY <2>3, <1>2, <1>4, ArenaNodes DEF CompilerInv
    <3>2. Operands(arena[e]) \subseteq DOMAIN lowered
      BY <2>1, <2>3, <1>4 DEF Closed
    <3>3. Image(e)' = Image(e)
      <4>1. CASE IsOp(arena[e])
        <5>1. arena[e].lhs \in DOMAIN lowered /\ arena[e].rhs \in DOMAIN lowered
          BY <3>1, <3>2, <4>1, NodeKinds
        <5>2. /\ lowered'[arena[e].lhs] = lowered[arena[e].lhs]
              /\ lowered'[arena[e].rhs] = lowered[arena[e].rhs]
          BY <5>1, <1>2, <1>4
        <5> QED
          BY <4>1, <5>2, <1>4 DEF Image
      <4>2. CASE ~ IsOp(arena[e])
        BY <4>2, <1>4 DEF Image
      <4> QED
        BY <4>1, <4>2
    <3>4. CASE e = current
      BY <3>3, <3>4, <1>4, <1>5
    <3>5. CASE e \in DOMAIN lowered
      <4>1. gates[lowered[e]] = Image(e)
        BY <3>5 DEF CompilerInv, GatesMirrorExprs
      <4>2. lowered'[e] = lowered[e] /\ lowered[e] \in DOMAIN gates
        BY <3>5, <1>2, <1>4
      <4> QED
        BY <3>3, <4>1, <4>2, <1>5
    <3> QED
      BY <2>3, <3>4, <3>5, <1>4
  <2>4. ASSUME NEW e \in DOMAIN lowered', NEW f \in DOMAIN lowered',
               lowered'[e] = lowered'[f]
        PROVE  e = f
    <3>1. \A x, y \in DOMAIN lowered : lowered[x] = lowered[y] => x = y
      BY DEF CompilerInv, GatesMirrorExprs
    <3> QED
      BY <2>4, <3>1, <1>2, <1>4, <1>6
  <2>5. ASSUME NEW g \in DOMAIN gates'
        PROVE  \E e \in DOMAIN lowered' : lowered'[e] = g
    <3>1. CASE g = n
      BY <3>1, <1>4
    <3>2. CASE g \in DOMAIN gates
      <4>1. PICK e \in DOMAIN lowered : lowered[e] = g
        BY <3>2 DEF CompilerInv, GatesMirrorExprs
      <4>2. e \in DOMAIN lowered' /\ lowered'[e] = g
        BY <4>1, <1>2, <1>4
      <4> QED
        BY <4>2
    <3> QED
      BY <2>5, <3>1, <3>2, <1>6
  <2> QED
    BY <2>2, <2>3, <2>4, <2>5 DEF GatesMirrorExprs
<1>11. GatesTopological'
  <2>1. \A g \in DOMAIN gates : Operands(gates[g]) \subseteq 1 .. g - 1
    BY DEF CompilerInv, GatesTopological, Topological
  <2>2. Operands(gate) \subseteq 1 .. n - 1
    BY <1>1, <1>3 DEF n
  <2> QED
    BY <2>1, <2>2, <1>5, <1>6 DEF GatesTopological, Topological
<1>12. WorkExact'
  <2>1. Work' = Work
    BY <1>2, <1>4, ArenaNodes DEF Work, CompilerInv
  <2>2. Requested' = Requested
    BY <1>4 DEF Requested
  <2> QED
    BY <2>1, <2>2, <1>4 DEF CompilerInv, WorkExact
<1>13. NothingYet' /\ VerdictFinal'
  BY <1>4 DEF CompilerInv, Lowering, NothingYet, VerdictFinal
<1> QED
  BY <1>7, <1>8, <1>9, <1>10, <1>11, <1>12, <1>13 DEF CompilerInv

LEMMA LowerStepInv ==
  ASSUME CompilerInv, LowerInput \/ LowerConst \/ LowerOp
  PROVE  CompilerInv'
<1>1. current # 0 => arena[current] \in Node
  BY ArenaNodes DEF CompilerInv, CompilerTypeOK
<1>2. CASE LowerInput
  <2>1. ~ IsOp(arena[current]) /\ Operands(arena[current]) = {}
    BY <1>1, <1>2, NodeKinds DEF LowerInput
  <2>2. arena[current] = Image(current)
    BY <2>1 DEF Image
  <2> QED
    BY <1>2, <2>1, <2>2, LowerInv DEF LowerInput
<1>3. CASE LowerConst
  <2>1. /\ ~ IsOp(arena[current]) /\ ~ IsInput(arena[current])
        /\ Operands(arena[current]) = {}
    BY <1>1, <1>3, NodeKinds DEF LowerConst
  <2>2. arena[current] = Image(current)
    BY <2>1 DEF Image
  <2> QED
    BY <1>3, <2>1, <2>2, LowerInv DEF LowerConst
<1>4. CASE LowerOp
  <2>1. /\ IsOp(arena[current]) /\ ~ IsInput(arena[current])
        /\ Operands(arena[current]) \subseteq DOMAIN lowered
    BY <1>1, <1>4, NodeKinds DEF LowerOp, AtOp, IsLowered
  <2>2. OpNode(arena[current].op, lowered[arena[current].lhs],
               lowered[arena[current].rhs]) = Image(current)
    BY <2>1 DEF Image
  <2> QED
    BY <1>4, <2>1, <2>2, LowerInv DEF LowerOp, AtOp
<1> QED
  BY <1>2, <1>3, <1>4

-----------------------------------------------------------------------------
\* With nothing requested nothing is kept from an earlier compilation.
Empty ==
  /\ roots = << >> /\ output_exprs = << >> /\ current = 0 /\ dfs_stack = << >>
  /\ gates = << >> /\ inputs = << >> /\ lowered = [e \in {} |-> 0]
  /\ outputs = << >> /\ unused = {} /\ verdict \in {"none", "panic"}

LEMMA EmptyInv == ContextInv /\ Empty => CompilerInv
<1> SUFFICES ASSUME ContextInv, Empty
             PROVE  CompilerInv
  OBVIOUS
<1> USE DEF Empty
<1>1. DOMAIN lowered = {} /\ DOMAIN gates = {} /\ DOMAIN inputs = {}
  OBVIOUS
<1>2. \A S : << >> \in Seq(S)
  BY EmptySeq
<1>3. CompilerTypeOK
  BY <1>1, <1>2 DEF CompilerTypeOK, ContextInv
<1>4. GatesMirrorExprs /\ GatesTopological
  BY <1>1 DEF GatesMirrorExprs, Closed, GatesTopological, Topological
<1>5. InputsExact
  BY <1>1 DEF InputsExact, Range
<1>6. WorkExact
  BY <1>1 DEF WorkExact, Work, Range
<1>7. NothingYet /\ VerdictFinal
  BY DEF NothingYet, VerdictFinal
<1> QED
  BY <1>3, <1>4, <1>5, <1>6, <1>7 DEF CompilerInv

\* The same of the next state.
LEMMA EmptyNextInv == ContextInv' /\ Empty' => CompilerInv'
BY EmptyInv, PTL

LEMMA InitInv == Init => CompilerInv
BY ContextInitInv, EmptyInv DEF Init, Empty

LEMMA BuildInv ==
  ASSUME CompilerInv, Build
  PROVE  CompilerInv'
<1>1. ContextInv'
  BY ContextNextInv DEF Build, CompilerInv
<1>2. /\ roots' = << >> /\ output_exprs' = << >> /\ current' = 0
      /\ dfs_stack' = << >> /\ gates' = << >> /\ inputs' = << >>
      /\ lowered' = [e \in {} |-> 0] /\ outputs' = << >> /\ unused' = {}
      /\ verdict' \in {"none", "panic"}
  BY DEF Build, Idle, compiler_vars, CompilerInv, NothingYet
<1> QED
  BY <1>1, <1>2, EmptyNextInv DEF Empty

LEMMA ReleaseInv ==
  ASSUME CompilerInv, Release
  PROVE  CompilerInv'
<1>1. ContextInv'
  BY ContextStutterInv DEF Release, CompilerInv
<1> QED
  BY <1>1, EmptyNextInv DEF Release, Empty

LEMMA CompileNothingInv ==
  ASSUME CompilerInv, CompileNothing
  PROVE  CompilerInv'
<1>1. ContextInv'
  BY ContextKept DEF CompileNothing, CompilerInv
<1>2. /\ roots' = << >> /\ output_exprs' = << >> /\ current' = 0
      /\ dfs_stack' = << >> /\ gates' = << >> /\ inputs' = << >>
      /\ lowered' = [e \in {} |-> 0] /\ outputs' = << >> /\ unused' = {}
      /\ verdict' \in {"none", "panic"}
  BY DEF CompileNothing, Idle, CompilerInv, NothingYet
<1> QED
  BY <1>1, <1>2, EmptyNextInv DEF Empty

LEMMA CompileInv ==
  ASSUME CompilerInv, NEW outs \in Requests, Compile(outs)
  PROVE  CompilerInv'
<1>1. /\ outs \in Seq(Handles) /\ outs # << >>
      /\ Head(outs) \in Handles /\ Tail(outs) \in Seq(Handles)
      /\ Range(outs) = {Head(outs)} \cup Range(Tail(outs))
  <2>1. outs \in Seq(Handles)
    BY SeqDef, CompilerAssumption DEF Requests
  <2> QED
    BY <2>1, HeadTailRange DEF Compile
<1>2. /\ dfs_stack = << >> /\ gates = << >> /\ inputs = << >>
      /\ lowered = [e \in {} |-> 0] /\ outputs = << >> /\ unused = {}
      /\ verdict = "none"
  BY DEF Compile, Idle, CompilerInv, NothingYet
<1>3. /\ current' = Head(outs) /\ output_exprs' = <<Head(outs)>>
      /\ roots' = Tail(outs) /\ returned' = 0
      /\ UNCHANGED <<mode, arena, interner, dfs_stack, gates, inputs, lowered,
                     outputs, verdict, unused>>
  BY DEF Compile
<1>4. ContextInv'
  BY <1>3, ContextKept DEF CompilerInv
<1>5. /\ output_exprs' \in Seq(Handles) /\ output_exprs' # << >>
      /\ Range(output_exprs') = {Head(outs)}
  BY <1>1, <1>3 DEF Range
<1>6. CompilerTypeOK'
  BY <1>1, <1>3, <1>4, <1>5 DEF CompilerInv, CompilerTypeOK, ContextInv, Handles
<1>7. GatesMirrorExprs' /\ GatesTopological' /\ InputsExact'
  BY <1>3 DEF CompilerInv, GatesMirrorExprs, Closed, Image, GatesTopological,
              Topological, InputsExact
<1>8. WorkExact'
  <2>1. Requested' = Range(outs)
    BY <1>1, <1>3, <1>5 DEF Requested
  <2>2. Work' = {Head(outs)}
    <3>1. DOMAIN lowered' = {} /\ Range(dfs_stack') = {}
      BY <1>2, <1>3 DEF Range
    <3>2. Head(outs) # 0
      BY <1>1, ArenaNodes DEF CompilerInv
    <3> QED
      BY <1>3, <3>1, <3>2 DEF Work
  <2>3. Range(outs) \subseteq Live(arena, Range(outs))
    BY <1>1, RangeInSet, LiveHoldsRoots DEF Handles
  <2> QED
    BY <1>1, <1>3, <1>5, <2>1, <2>2, <2>3 DEF WorkExact
<1>9. NothingYet' /\ VerdictFinal'
  BY <1>2, <1>3, <1>5 DEF NothingYet, VerdictFinal
<1> QED
  BY <1>4, <1>6, <1>7, <1>8, <1>9 DEF CompilerInv

LEMMA AnswerInv ==
  ASSUME CompilerInv, Accept \/ Refuse
  PROVE  CompilerInv'
<1>1. /\ UNCHANGED <<mode, arena, interner, returned, roots, output_exprs, current,
                     dfs_stack, gates, inputs, lowered>>
      /\ Done /\ verdict' \in {"ok", "error"}
  BY DEF Accept, Refuse
<1>2. ContextInv'
  BY <1>1, ContextKept DEF CompilerInv, ContextInv, ContextTypeOK
<1>3. Range(output_exprs) \subseteq DOMAIN lowered
  <2>1. current = 0 /\ Range(dfs_stack) = {}
    BY <1>1 DEF Done, Range
  <2>2. Work = DOMAIN lowered
    BY <2>1 DEF Work
  <2> QED
    BY <2>2 DEF CompilerInv, WorkExact
<1>4. outputs' \in Seq(DOMAIN gates)
  <2>1. CASE Accept
    <3>1. Len(output_exprs) \in Nat /\ DOMAIN output_exprs = 1 .. Len(output_exprs)
      BY LenProperties DEF CompilerInv, CompilerTypeOK
    <3>2. \A i \in DOMAIN output_exprs : lowered[output_exprs[i]] \in DOMAIN gates
      BY <1>3 DEF Range, CompilerInv, CompilerTypeOK
    <3>3. outputs' \in [1 .. Len(output_exprs) -> DOMAIN gates]
      BY <2>1, <3>1, <3>2 DEF Accept
    <3> QED
      BY <3>1, <3>3, SeqDef
  <2>2. CASE Refuse
    BY <2>2 DEF Refuse, CompilerInv, CompilerTypeOK
  <2> QED
    BY <2>1, <2>2
<1>5. unused' \subseteq Handles
  BY DEF Accept, Refuse, NotLowered, CompilerInv, CompilerTypeOK
<1>6. CompilerTypeOK'
  BY <1>1, <1>2, <1>4, <1>5 DEF CompilerInv, CompilerTypeOK, ContextInv, Handles
<1>7. GatesMirrorExprs' /\ GatesTopological' /\ InputsExact' /\ WorkExact'
  BY <1>1 DEF CompilerInv, GatesMirrorExprs, Closed, Image, GatesTopological,
              Topological, InputsExact, WorkExact, Work, Requested
<1>8. NothingYet' /\ VerdictFinal'
  BY <1>1 DEF CompilerInv, NothingYet, VerdictFinal, Accept, Refuse, Done, Lowering,
              FailsMode, NotLowered, Handles
<1> QED
  BY <1>2, <1>6, <1>7, <1>8 DEF CompilerInv

-----------------------------------------------------------------------------
LEMMA StutterInv ==
  ASSUME CompilerInv, UNCHANGED vars
  PROVE  CompilerInv'
<1>1. ContextInv'
  BY ContextStutterInv DEF CompilerInv, vars, ctx_vars
<1> QED
  BY <1>1 DEF vars, CompilerInv, CompilerTypeOK, ContextInv, GatesMirrorExprs, Closed,
              Image, GatesTopological, Topological, InputsExact, WorkExact, Work,
              Requested, NothingYet, VerdictFinal, FailsMode, NotLowered, Handles

LEMMA NextInv ==
  ASSUME CompilerInv, [Next]_vars
  PROVE  CompilerInv'
<1>1. CASE Build
  BY <1>1, BuildInv
<1>2. ASSUME NEW outs \in Requests, Compile(outs)
      PROVE  CompilerInv'
  BY <1>2, CompileInv
<1>3. CASE CompileNothing
  BY <1>3, CompileNothingInv
<1>4. CASE Step
  BY <1>4, SkipLoweredInv, LowerStepInv, DescendStepInv, PopInv, NextRootInv, AnswerInv
     DEF Step
<1>5. CASE Release
  BY <1>5, ReleaseInv
<1>6. CASE UNCHANGED vars
  BY <1>6, StutterInv
<1> QED
  BY <1>1, <1>2, <1>3, <1>4, <1>5, <1>6 DEF Next

LEMMA CompilerInvariant == Spec => []CompilerInv
BY InitInv, NextInv, PTL DEF Spec

-----------------------------------------------------------------------------
\* What is read off the invariant.

\* The compiler's state, and the context's, always has its type.
THEOREM CompilerTypeCorrect == Spec => []CompilerTypeOK
<1>1. CompilerInv => CompilerTypeOK
  BY DEF CompilerInv
<1> QED
  BY <1>1, CompilerInvariant, PTL

\* The gates are, one to one, the expressions lowered, with their operands
\* lowered first: whatever paths lead to an expression and however often it
\* waits on the stack, it becomes one gate.
THEOREM GatesAreTheLowered == Spec => []GatesMirrorExprs
<1>1. CompilerInv => GatesMirrorExprs
  BY DEF CompilerInv
<1> QED
  BY <1>1, CompilerInvariant, PTL

\* Every arena of gates, finished or not, is in topological order.
THEOREM CircuitsTopological == Spec => []GatesTopological
<1>1. CompilerInv => GatesTopological
  BY DEF CompilerInv
<1> QED
  BY <1>1, CompilerInvariant, PTL

\* The circuit's list of inputs is exactly its input gates, in gate order.
THEOREM InputsAreListed == Spec => []InputsListed
<1>1. CompilerInv => InputsListed
  BY DEF CompilerInv, InputsExact, InputsListed
<1> QED
  BY <1>1, CompilerInvariant, PTL

\* With nothing left to do, what is lowered is what the request needs: it is all
\* needed, it holds the outputs, and it is closed under operands.
LEMMA DoneIsLive ==
  ASSUME CompilerInv, current = 0, dfs_stack = << >>, roots = << >>
  PROVE  DOMAIN lowered = Live(arena, Requested)
<1>1. Range(dfs_stack) = {} /\ Range(roots) = {}
  BY DEF Range
<1>2. Work = DOMAIN lowered /\ Requested = Range(output_exprs)
  BY <1>1 DEF Work, Requested
<1>3. /\ DOMAIN lowered \subseteq Live(arena, Requested)
      /\ Requested \subseteq DOMAIN lowered
  BY <1>2 DEF CompilerInv, WorkExact
<1>4. DOMAIN lowered \in SUBSET DOMAIN arena /\ Closed(arena, DOMAIN lowered)
  BY DEF CompilerInv, CompilerTypeOK, Handles, GatesMirrorExprs
<1> QED
  BY <1>3, <1>4, LiveIsLeast

\* A request that is answered has lowered exactly the live expressions.
THEOREM LiveExpressionsExactly == Spec => []LiveExactly
<1>1. CompilerInv => LiveExactly
  BY DoneIsLive DEF CompilerInv, VerdictFinal, LiveExactly
<1> QED
  BY <1>1, CompilerInvariant, PTL

-----------------------------------------------------------------------------
\* What the circuit computes.

\* The outputs of a circuit that was answered are the gates of the outputs requested.
OutputsLowered ==
  verdict = "ok" => outputs = [i \in DOMAIN output_exprs |-> lowered[output_exprs[i]]]

LEMMA OutputsKept ==
  ASSUME OutputsLowered, [Next]_vars
  PROVE  OutputsLowered'
<1>1. CASE Accept
  BY <1>1 DEF Accept, OutputsLowered
<1>2. CASE Step /\ ~ Accept
  <2>1. verdict' # "ok"
    BY <1>2 DEF Step, SkipLowered, LowerInput, LowerConst, LowerOp, AtOp, Lower, PutAndPair,
       DescendLeft, DescendRight, DescendBoth, Descend, Pop, NextRoot, Refuse, Done, Lowering
  <2> QED
    BY <2>1 DEF OutputsLowered
<1>3. CASE \/ Build \/ CompileNothing \/ Release \/ \E outs \in Requests : Compile(outs)
  BY <1>3 DEF Build, CompileNothing, Release, Compile, Idle, compiler_vars, OutputsLowered
<1>4. CASE UNCHANGED vars
  BY <1>4 DEF vars, OutputsLowered
<1> QED
  BY <1>1, <1>2, <1>3, <1>4 DEF Next

LEMMA OutputsLoweredInvariant == Spec => []OutputsLowered
<1>1. Init => OutputsLowered
  BY DEF Init, OutputsLowered
<1> QED
  BY <1>1, OutputsKept, PTL DEF Spec

\* A gate stands for what its expression stands for: by induction along the arena.
LEMMA LoweredValues ==
  ASSUME CompilerInv, NEW env \in Assignments
  PROVE  \A e \in DOMAIN lowered : Denote(gates, env)[lowered[e]] = Denote(arena, env)[e]
<1> DEFINE exprs == Denote(arena, env)
           circuit == Denote(gates, env)
           S == {e \in DOMAIN arena : e \in DOMAIN lowered => circuit[lowered[e]] = exprs[e]}
<1>1. /\ arena \in Seq(Node) /\ Topological(arena)
      /\ gates \in Seq(Node) /\ Topological(gates)
  BY DEF CompilerInv, ContextInv, ContextTypeOK, ArenaTopological, CompilerTypeOK,
         GatesTopological
<1>2. /\ \A e \in DOMAIN arena : exprs[e] = NodeValue(arena[e], env, exprs)
      /\ \A g \in DOMAIN gates : circuit[g] = NodeValue(gates[g], env, circuit)
  BY <1>1, DenoteEquation
<1>3. /\ Len(arena) \in Nat /\ DOMAIN arena = 1 .. Len(arena)
      /\ \A e \in DOMAIN arena :
           /\ arena[e] \in Node
           /\ IsOp(arena[e]) => arena[e].lhs \in 1 .. e - 1 /\ arena[e].rhs \in 1 .. e - 1
  BY <1>1, OperandsBefore
<1> HIDE DEF exprs, circuit
<1>4. ASSUME NEW e \in DOMAIN arena, (1 .. e - 1) \subseteq S
      PROVE  e \in S
  <2> SUFFICES ASSUME e \in DOMAIN lowered
               PROVE  circuit[lowered[e]] = exprs[e]
    OBVIOUS
  <2> DEFINE n == arena[e]
  <2>1. circuit[lowered[e]] = NodeValue(Image(e), env, circuit)
    BY <1>2 DEF CompilerInv, CompilerTypeOK, GatesMirrorExprs
  <2>2. exprs[e] = NodeValue(n, env, exprs)
    BY <1>2
  <2>3. n \in Node /\ Operands(n) \subseteq DOMAIN lowered
    BY <1>3 DEF CompilerInv, GatesMirrorExprs, Closed
  <2>4. CASE IsOp(n)
    <3>1. n.lhs \in DOMAIN lowered /\ n.rhs \in DOMAIN lowered
      BY <2>3, <2>4, NodeKinds
    <3>2. circuit[lowered[n.lhs]] = exprs[n.lhs] /\ circuit[lowered[n.rhs]] = exprs[n.rhs]
      BY <3>1, <2>4, <1>3, <1>4
    <3>3. NodeValue(Image(e), env, circuit)
            = RingOp(n.op, circuit[lowered[n.lhs]], circuit[lowered[n.rhs]])
      BY <2>4 DEF Image, NodeValue, OpNode, IsOp, IsInput, IsConst
    <3>4. NodeValue(n, env, exprs) = RingOp(n.op, exprs[n.lhs], exprs[n.rhs])
      BY <2>3, <2>4, NodeKinds DEF NodeValue
    <3> QED
      BY <2>1, <2>2, <3>2, <3>3, <3>4
  <2>5. CASE ~ IsOp(n)
    <3>1. Image(e) = n
      BY <2>5 DEF Image
    <3>2. NodeValue(n, env, circuit) = NodeValue(n, env, exprs)
      BY <2>3, <2>5, NodeValueLocal
    <3> QED
      BY <2>1, <2>2, <3>1, <3>2
  <2> QED
    BY <2>4, <2>5
<1>5. DOMAIN arena \subseteq S
  <2> HIDE DEF S
  <2> QED
    BY <1>3, <1>4, PositionInduction
<1>6. DOMAIN lowered \subseteq DOMAIN arena
  BY DEF CompilerInv, CompilerTypeOK, Handles
<1> QED
  BY <1>5, <1>6 DEF exprs, circuit

\* Output by output, the circuit of an accepted request is that of the expressions.
LEMMA OutputsMean ==
  ASSUME CompilerInv, OutputsLowered, verdict = "ok"
  PROVE  /\ DOMAIN outputs = DOMAIN output_exprs
         /\ \A i \in DOMAIN output_exprs : /\ output_exprs[i] \in DOMAIN lowered
                                         /\ outputs[i] = lowered[output_exprs[i]]
<1>1. outputs = [i \in DOMAIN output_exprs |-> lowered[output_exprs[i]]]
  BY DEF OutputsLowered
<1>2. current = 0 /\ Range(dfs_stack) = {}
  BY DEF CompilerInv, VerdictFinal, Range
<1>3. Work = DOMAIN lowered
  BY <1>2 DEF Work
<1>4. Range(output_exprs) \subseteq DOMAIN lowered
  BY <1>3 DEF CompilerInv, WorkExact
<1> QED
  BY <1>1, <1>4 DEF Range

\* A circuit computes what was requested of the compiler, for every program, modulus
\* and assignment of the arguments.
THEOREM CircuitsKeepValues == Spec => []SameValue
<1>1. ASSUME CompilerInv, OutputsLowered
      PROVE  SameValue
  <2> SUFFICES ASSUME verdict = "ok"
               PROVE  /\ DOMAIN outputs = DOMAIN output_exprs
                      /\ \A env \in Environments, i \in DOMAIN outputs :
                           Denote(gates, env)[outputs[i]] = Denote(arena, env)[output_exprs[i]]
    BY DEF SameValue
  <2> QED
    BY <1>1, OutputsMean, LoweredValues, ResiduesAreArguments
<1> QED
  BY <1>1, CompilerInvariant, OutputsLoweredInvariant, PTL

-----------------------------------------------------------------------------
\* Which circuits can be evaluated.

\* n things have not more than n names.
LEMMA Pigeonhole ==
  ASSUME NEW n \in Nat, NEW i \in Nat, NEW name, DOMAIN name = 1 .. n,
         0 .. i \subseteq Range(name)
  PROVE  i < n
<1> DEFINE T == Range(name)
           f == [p \in 1 .. n |-> name[p]]
<1>1. f \in Surjection(1 .. n, T)
  BY DEF Surjection, Range
<1>2. IsFiniteSet(1 .. n) /\ Cardinality(1 .. n) = n
  BY FS_Interval
<1>3. IsFiniteSet(0 .. i) /\ Cardinality(0 .. i) = i + 1
  BY FS_Interval
<1>4. 0 .. i \subseteq T
  OBVIOUS
<1> HIDE DEF f, T
<1>5. IsFiniteSet(T) /\ Cardinality(T) <= n
  BY <1>1, <1>2, FS_Surjection
<1>6. Cardinality(0 .. i) <= Cardinality(T)
  BY <1>4, <1>5, FS_Subset
<1>7. Cardinality(T) \in Nat
  BY <1>5, FS_CardinalityType
<1> QED
  BY <1>3, <1>5, <1>6, <1>7

\* An input is lowered as it stands, and nothing else becomes an input.
LEMMA LoweredInput ==
  ASSUME CompilerInv, NEW e \in DOMAIN lowered
  PROVE  /\ e \in Handles /\ lowered[e] \in DOMAIN gates
         /\ IsInput(arena[e]) \/ IsInput(gates[lowered[e]]) => gates[lowered[e]] = arena[e]
<1>1. e \in Handles /\ lowered[e] \in DOMAIN gates /\ gates[lowered[e]] = Image(e)
  BY DEF CompilerInv, CompilerTypeOK, GatesMirrorExprs
<1>2. CASE IsOp(arena[e])
  BY <1>1, <1>2 DEF Image, IsInput, IsOp, OpNode
<1>3. CASE ~ IsOp(arena[e])
  BY <1>1, <1>3 DEF Image
<1> QED
  BY <1>1, <1>2, <1>3

\* A mode that is strict about inputs accepts a request that needs them all.
LEMMA StrictInputsLowered ==
  ASSUME CompilerInv, verdict = "ok", "Input" \in mode
  PROVE  \A e \in Handles : IsInput(arena[e]) => e \in DOMAIN lowered
BY DEF CompilerInv, VerdictFinal, FailsMode, NotLowered, IsInput

\* In such a mode the circuit has a gate for every argument that the program numbered.
LEMMA StrictReach ==
  ASSUME CompilerInv, verdict = "ok", "Input" \in mode, ArgumentsContiguous,
         NEW g \in DOMAIN gates, IsInput(gates[g])
  PROVE  gates[g].index < Len(inputs)
<1> DEFINE i == gates[g].index
           name == [p \in DOMAIN inputs |-> gates[inputs[p]].index]
           Asks(k) == \E e \in Handles : IsInput(arena[e]) /\ arena[e].index = k
<1>1. /\ Len(inputs) \in Nat /\ DOMAIN inputs = 1 .. Len(inputs)
      /\ Range(inputs) = {h \in DOMAIN gates : IsInput(gates[h])}
  BY LenProperties DEF CompilerInv, CompilerTypeOK, InputsExact
<1>2. \A e \in Handles : IsInput(arena[e]) => e \in DOMAIN lowered
  BY StrictInputsLowered
<1>3. \A e \in DOMAIN lowered :
        /\ e \in Handles /\ lowered[e] \in DOMAIN gates
        /\ IsInput(arena[e]) \/ IsInput(gates[lowered[e]]) => gates[lowered[e]] = arena[e]
  BY LoweredInput
<1>4. Asks(i)
  BY <1>3 DEF CompilerInv, GatesMirrorExprs
<1>5. i \in Nat
  <2>1. gates[g] \in Node
    BY LenProperties, ElementOfSeq DEF CompilerInv, CompilerTypeOK
  <2> QED
    BY <2>1, DagAssumption DEF Node, IsInput
<1>6. ASSUME NEW k \in 0 .. i
      PROVE  \E p \in DOMAIN inputs : name[p] = k
  <2>1. Asks(k)
    BY <1>4 DEF ArgumentsContiguous
  <2>2. PICK e \in Handles : IsInput(arena[e]) /\ arena[e].index = k
    BY <2>1
  <2>3. lowered[e] \in Range(inputs) /\ gates[lowered[e]].index = k
    BY <2>2, <1>1, <1>2, <1>3
  <2> QED
    BY <2>3 DEF Range
<1> HIDE DEF i, name
<1>7. DOMAIN name = 1 .. Len(inputs)
  BY <1>1 DEF name
<1>8. 0 .. i \subseteq Range(name)
  BY <1>1, <1>6, <1>7 DEF Range
<1>9. i < Len(inputs)
  BY <1>1, <1>5, <1>7, <1>8, Pigeonhole
<1> QED
  BY <1>9 DEF i

\* So a vector as long as the circuit's list of inputs has all the arguments that its
\* gates ask for.
THEOREM StrictCircuitsReach == Spec => []StrictCircuitsEvaluable
<1>1. CompilerInv => StrictCircuitsEvaluable
  BY StrictReach DEF StrictCircuitsEvaluable, ArgumentsReach
<1> QED
  BY <1>1, CompilerInvariant, PTL

\* The list of inputs is as long as there are input gates.
LEMMA InputsCounted ==
  ASSUME CompilerInv
  PROVE  Len(inputs) = Cardinality({g \in DOMAIN gates : IsInput(gates[g])})
<1> DEFINE n == Len(inputs)
           T == {g \in DOMAIN gates : IsInput(gates[g])}
           f == [i \in 1 .. n |-> inputs[i]]
<1>1. n \in Nat /\ DOMAIN inputs = 1 .. n /\ Range(inputs) = T
  BY LenProperties DEF CompilerInv, CompilerTypeOK, InputsExact
<1>2. \A i \in 1 .. n : inputs[i] \in T
  BY <1>1 DEF Range
<1>3. \A g \in T : \E i \in 1 .. n : inputs[i] = g
  BY <1>1 DEF Range
<1>4. \A i, j \in 1 .. n : inputs[i] = inputs[j] => i = j
  <2>1. T \subseteq Nat
    BY LenProperties DEF CompilerInv, CompilerTypeOK
  <2>2. \A i, j \in 1 .. n : i < j => inputs[i] < inputs[j]
    BY <1>1 DEF CompilerInv, InputsExact
  <2> HIDE DEF T, n
  <2>3. \A i, j \in 1 .. n : i < j => inputs[i] # inputs[j]
    <3>1. \A i \in 1 .. n : inputs[i] \in Nat
      BY <1>2, <2>1
    <3> SUFFICES ASSUME NEW i \in 1 .. n, NEW j \in 1 .. n, i < j
                 PROVE  inputs[i] # inputs[j]
      OBVIOUS
    <3> QED
      BY <2>2, <3>1
  <2>4. \A i, j \in 1 .. n : i < j \/ j < i \/ i = j
    BY <1>1
  <2> QED
    BY <2>3, <2>4
<1> HIDE DEF T, n
<1>5. f \in Bijection(1 .. n, T)
  BY <1>2, <1>3, <1>4 DEF Bijection, Injection, Surjection, IsInjective
<1> HIDE DEF f
<1>6. ExistsBijection(1 .. n, T)
  BY <1>5 DEF ExistsBijection
<1>7. IsFiniteSet(1 .. n) /\ Cardinality(1 .. n) = n
  BY <1>1, FS_Interval
<1>8. Cardinality(T) = Cardinality(1 .. n)
  BY <1>6, <1>7, FS_Bijection
<1> QED
  BY <1>7, <1>8 DEF T, n

-----------------------------------------------------------------------------
(* The compiler implements LiveLowering: each of its steps is a step of the  *)
(* abstract specification or none at all, under the mapping of Promise.      *)
\* The abstract module's own copies of the operators of Dag mean the same.
LEMMA PromiseOperators ==
  /\ \A n : Promise!Operands(n) = Operands(n)
  /\ \A all, S : Promise!Closed(all, S) <=> Closed(all, S)
  /\ \A all, S : Promise!Live(all, S) = Live(all, S)
  /\ Promise!Node = Node
<1>1. \A n : Promise!Operands(n) = Operands(n)
  BY DEF Promise!Operands, Operands, Promise!IsOp, IsOp
<1>2. \A all, S : Promise!Closed(all, S) <=> Closed(all, S)
  BY <1>1 DEF Promise!Closed, Closed
<1>3. \A all, S : Promise!Live(all, S) = Live(all, S)
  BY <1>2 DEF Promise!Live, Live
<1>4. Promise!Node = Node
  BY DEF Promise!Node, Node, Promise!Word, Word, Promise!Index, Index
<1> QED
  BY <1>1, <1>2, <1>3, <1>4

\* What the compiler's state is, seen from the abstract specification.
LEMMA PromiseNeeded ==
  /\ Promise!Needed = Live(arena, Requested)
  /\ Promise!Dead = Handles \ Live(arena, Requested)
BY PromiseOperators DEF Promise!Needed, Promise!Dead, Handles

\* With no output whose turn has come there is no request and nothing is
\* lowered; otherwise the request is not empty.
LEMMA RequestedOrNot ==
  ASSUME CompilerInv
  PROVE  /\ output_exprs = << >> => Requested = {} /\ DOMAIN lowered = {} /\ unused = {}
         /\ output_exprs # << >> => Requested # {}
<1>1. CASE output_exprs = << >>
  BY <1>1 DEF CompilerInv, NothingYet, Requested, Range
<1>2. CASE output_exprs # << >>
  <2>1. Head(output_exprs) \in Range(output_exprs)
    BY <1>2, HeadTailRange DEF CompilerInv, CompilerTypeOK
  <2> QED
    BY <1>2, <2>1 DEF Requested
<1> QED
  BY <1>1, <1>2

-----------------------------------------------------------------------------
LEMMA InitImplements == Init => Promise!Init
BY ContextAssumption
   DEF Init, ContextInit, Promise!Init, Promise!Kinds, Kinds, Requested, Range

\* Building more expressions is building more expressions.
LEMMA BuildImplements ==
  ASSUME CompilerInv, Build, CompilerInv'
  PROVE  Promise!Build
<1>1. output_exprs = << >> /\ verdict = "none" /\ UNCHANGED compiler_vars
  BY DEF Build, Idle
<1>2. Requested = {} /\ Requested' = {}
  BY <1>1, RequestedOrNot DEF Requested, compiler_vars
<1>3. \A e \in DOMAIN arena : e \in DOMAIN arena' /\ arena'[e] = arena[e]
  BY ContextNextStable DEF Build, CompilerInv, ContextInv, Handles
<1>4. arena' \in Seq(Promise!Node)
  BY PromiseOperators DEF CompilerInv, ContextInv, ContextTypeOK
<1>5. mode' = mode
  BY ContextNextMode DEF Build
<1> QED
  BY <1>1, <1>2, <1>3, <1>4, <1>5 DEF Promise!Build, compiler_vars

\* The first call of the compiler is the request.
LEMMA CompileImplements ==
  ASSUME CompilerInv, NEW outs \in Requests, Compile(outs), CompilerInv'
  PROVE  Promise!Request
<1>1. Requested = {} /\ verdict = "none" /\ verdict' = "none"
  BY RequestedOrNot DEF Compile, Idle
<1>2. UNCHANGED <<mode, arena, lowered, unused>> /\ output_exprs' = <<Head(outs)>>
  BY DEF Compile
<1>3. Head(outs) \in Requested'
  <2>1. Head(outs) \in Range(output_exprs')
    BY <1>2 DEF Range
  <2> QED
    BY <2>1 DEF Requested
<1>4. Requested' \subseteq DOMAIN arena
  BY <1>2, RangeInSet DEF CompilerInv, CompilerTypeOK, Requested, Handles
<1> QED
  BY <1>1, <1>2, <1>3, <1>4 DEF Promise!Request

\* Lowering an expression is including it.
LEMMA LowerImplements ==
  ASSUME CompilerInv, NEW gate, Lower(gate), Lowering, current # 0,
         ~ IsLowered(current), Operands(arena[current]) \subseteq DOMAIN lowered
  PROVE  Promise!Include
<1>1. UNCHANGED <<mode, arena, roots, output_exprs, unused, verdict>>
  BY DEF Lower, PutAndPair
<1>2. Requested' = Requested
  BY <1>1 DEF Requested
<1>3. DOMAIN lowered' = DOMAIN lowered \cup {current}
  BY DEF Lower, PutAndPair
<1>4. current \in Promise!Needed \ DOMAIN lowered
  BY PromiseNeeded DEF CompilerInv, WorkExact, Work, IsLowered
<1>5. Promise!Operands(arena[current]) \subseteq DOMAIN lowered
  BY PromiseOperators
<1> QED
  BY <1>1, <1>2, <1>3, <1>4, <1>5 DEF Promise!Include, Lowering

LEMMA LowerStepImplements ==
  ASSUME CompilerInv, LowerInput \/ LowerConst \/ LowerOp
  PROVE  Promise!Include
<1>1. Lowering /\ current # 0 /\ ~ IsLowered(current)
  BY DEF LowerInput, LowerConst, LowerOp, AtOp
<1>2. arena[current] \in Node
  BY <1>1, ArenaNodes DEF CompilerInv, CompilerTypeOK
<1>3. Operands(arena[current]) \subseteq DOMAIN lowered
  BY <1>2, NodeKinds DEF LowerInput, LowerConst, LowerOp, AtOp, IsLowered
<1>4. \E gate : Lower(gate)
  BY DEF LowerInput, LowerConst, LowerOp
<1> QED
  BY <1>1, <1>3, <1>4, LowerImplements

\* The end of the traversal is the answer, of the kind that is promised.
LEMMA AnswerImplements ==
  ASSUME CompilerInv, Accept \/ Refuse
  PROVE  Promise!Answer
<1>1. /\ UNCHANGED <<mode, arena, roots, output_exprs, lowered>>
      /\ current = 0 /\ dfs_stack = << >> /\ roots = << >>
      /\ output_exprs # << >> /\ verdict = "none"
  BY DEF Accept, Refuse, Done, Lowering
<1>2. Requested' = Requested /\ Requested # {}
  BY <1>1, RequestedOrNot DEF Requested
<1>3. DOMAIN lowered = Promise!Needed
  BY <1>1, DoneIsLive, PromiseNeeded
<1>4. Promise!Dead = NotLowered
  BY <1>3, PromiseNeeded DEF NotLowered
<1>5. Promise!Refused <=> FailsMode
  BY <1>4 DEF Promise!Refused, FailsMode
<1>6. unused = {}
  BY <1>1 DEF CompilerInv, VerdictFinal
<1>7. CASE Accept
  BY <1>1, <1>2, <1>3, <1>5, <1>6, <1>7 DEF Accept, Promise!Answer
<1>8. CASE Refuse
  BY <1>1, <1>2, <1>3, <1>4, <1>5, <1>8 DEF Refuse, Promise!Answer
<1> QED
  BY <1>7, <1>8

\* Discarding the result forgets the request; after a panic there is none.
LEMMA ReleaseImplements ==
  ASSUME CompilerInv, Release
  PROVE  Promise!Forget \/ UNCHANGED Promise!vars
<1>1. Requested' = {} /\ DOMAIN lowered' = {}
  BY DEF Release, Requested, Range
<1>2. UNCHANGED <<mode, arena>> /\ verdict' = "none" /\ unused' = {} /\ verdict # "none"
  BY DEF Release, ctx_vars
<1>3. CASE verdict = "panic"
  BY <1>1, <1>2, <1>3, RequestedOrNot DEF CompilerInv, VerdictFinal, Promise!vars
<1>4. CASE verdict # "panic"
  BY <1>1, <1>2, <1>4 DEF Promise!Forget
<1> QED
  BY <1>3, <1>4

\* The other steps of the traversal are no steps: only what is at hand or on the
\* stack changes, or which of the outputs have had their turn.
LEMMA TraversalStutters ==
  ASSUME CompilerInv,
         \/ SkipLowered \/ DescendLeft \/ DescendRight \/ DescendBoth
         \/ Pop \/ NextRoot \/ CompileNothing \/ UNCHANGED vars
  PROVE  UNCHANGED Promise!vars
<1>1. CASE NextRoot
  <2>1. /\ roots \in Seq(Handles) /\ roots # << >> /\ output_exprs \in Seq(Handles)
        /\ output_exprs' = Append(output_exprs, Head(roots)) /\ roots' = Tail(roots)
        /\ UNCHANGED <<mode, arena, lowered, verdict, unused>>
    BY <1>1 DEF NextRoot, CompilerInv, CompilerTypeOK
  <2>2. Head(roots) \in Handles /\ Range(roots) = {Head(roots)} \cup Range(Tail(roots))
    BY <2>1, HeadTailRange
  <2>3. Range(output_exprs') = Range(output_exprs) \cup {Head(roots)}
    BY <2>1, <2>2, RangeOfAppend
  <2>4. Requested' = Requested
    BY <2>1, <2>2, <2>3 DEF Requested
  <2> QED
    BY <2>1, <2>4 DEF Promise!vars
<1>2. CASE CompileNothing
  BY <1>2 DEF CompileNothing, Idle, Promise!vars, Requested
<1>3. CASE \/ SkipLowered \/ DescendLeft \/ DescendRight \/ DescendBoth
           \/ Pop \/ UNCHANGED vars
  BY <1>3 DEF SkipLowered, DescendLeft, DescendRight, DescendBoth, Descend, Pop,
              vars, Promise!vars, Requested
<1> QED
  BY <1>1, <1>2, <1>3

-----------------------------------------------------------------------------
LEMMA NextImplements ==
  ASSUME CompilerInv, [Next]_vars, CompilerInv'
  PROVE  [Promise!Next]_(Promise!vars)
<1>1. CASE Build
  BY <1>1, BuildImplements DEF Promise!Next
<1>2. ASSUME NEW outs \in Requests, Compile(outs)
      PROVE  Promise!Next
  BY <1>2, CompileImplements DEF Promise!Next
<1>3. CASE LowerInput \/ LowerConst \/ LowerOp
  BY <1>3, LowerStepImplements DEF Promise!Next
<1>4. CASE Accept \/ Refuse
  BY <1>4, AnswerImplements DEF Promise!Next
<1>5. CASE Release
  BY <1>5, ReleaseImplements DEF Promise!Next
<1>6. CASE \/ SkipLowered \/ DescendLeft \/ DescendRight \/ DescendBoth
           \/ Pop \/ NextRoot \/ CompileNothing \/ UNCHANGED vars
  BY <1>6, TraversalStutters
<1> QED
  BY <1>1, <1>2, <1>3, <1>4, <1>5, <1>6 DEF Next, Step

\* Whatever the context, the request and the strictness mode, compilation
\* includes exactly the live expressions, operands first, and refuses exactly
\* when a dead expression is of a kind the mode is strict about.
THEOREM CompilerImplementsPromise == Spec => ImplementsLiveLowering
<1>1. Init => Promise!Init
  BY InitImplements
<1>2. CompilerInv /\ [Next]_vars /\ CompilerInv' => [Promise!Next]_(Promise!vars)
  BY NextImplements
<1> QED
  BY <1>1, <1>2, CompilerInvariant, PTL DEF Spec, Promise!Spec, ImplementsLiveLowering
=============================================================================
