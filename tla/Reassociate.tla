----------------------------- MODULE Reassociate -----------------------------
(* passes::reassociate: reuse-driven reassociation.  The pass goes round the *)
(* operations of a circuit.  A root (a op b) op c, or a op (b op c), whose   *)
(* inner operation nothing else uses is rewritten if two of a, b and c are   *)
(* already combined somewhere, or are both constants.  What is then unused   *)
(* is killed, and if anything was rewritten there is another round.          *)
(*                                                                           *)
(* An action is one iteration of the loop over the operations, one gate      *)
(* taken from the killing list (a hash set: in any order), or a decision at  *)
(* the end of a round.  new_circuit_from, which compacts the result, is      *)
(* module NewCircuit.                                                        *)
EXTENDS Circuit, FiniteSets

VARIABLES
  circuit,           \* the circuit the pass was given
  gates,             \* its gates, as rewritten so far
  dead,
  usages,            \* by gate: the gates that use it, and an output itself
  to_kill,           \* unused gates that the end of the round will kill
  seen,              \* from the canonical form of a gate to an index
  operation_gates,
  constant_gates,
  at,                \* position in operation_gates
  reassociated,      \* this round has rewritten something
  phase              \* "running" or "done"; "panic": overflow in folding

vars == <<circuit, gates, dead, usages, to_kill, seen, operation_gates,
          constant_gates, at, reassociated, phase>>

Put(f, k, v) == [x \in DOMAIN f \cup {k} |-> IF x = k THEN v ELSE f[x]]
Remove(f, k) == Restrict(f, DOMAIN f \ {k})

\* The elements of s that are in S, in order.
Selected(s, S) ==
  LET upto[i \in DOMAIN s] == (IF i = 1 THEN << >> ELSE upto[i - 1])
                               \o (IF s[i] \in S THEN <<s[i]>> ELSE << >>)
  IN  IF s = << >> THEN << >> ELSE upto[Len(s)]

\* learn_topology_of: where each gate of the circuit is found by its contents.
LearnSeen(all) ==
  [k \in {Canonical(all[g]) : g \in DOMAIN all} |->
     CHOOSE g \in DOMAIN all : Canonical(all[g]) = k]

\* ReassociationPass::new.
Init ==
  /\ circuit \in Circuits
  /\ gates = circuit.gates
  /\ dead = {} /\ to_kill = {}
  /\ usages = [g \in DOMAIN gates |-> Uses(gates, circuit.outputs, g)]
  /\ seen = LearnSeen(gates)
  /\ operation_gates = Selected([g \in DOMAIN gates |-> g], {g \in DOMAIN gates : IsOp(gates[g])})
  /\ constant_gates = {g \in DOMAIN gates : IsConst(gates[g])}
  /\ at = 1 /\ reassociated = FALSE /\ phase = "running"

-----------------------------------------------------------------------------
\* A slip: the operands are not let go.
SeveredAlone(links) == links

\* liveness.rs: decrement, and propagated_decrement.  A link <<g, u>> says that
\* u uses g.  Severing links may leave an operation unused, which lets go of its
\* operands in turn: the least set of operations that this comes to is let go.
Severed(links) ==
  LET ops == {g \in DOMAIN gates : IsOp(gates[g])}
      cut(S) == links \cup UNION {Operands(gates[g]) \X {g} : g \in S}
      closed(S) == \A g \in ops :
                     /\ \E u \in DOMAIN gates : <<g, u>> \in cut(S)
                     /\ \A u \in usages[g] : <<g, u>> \in cut(S)
                     => g \in S
  IN  cut({g \in ops : \A S \in SUBSET ops : closed(S) => g \in S})

\* A candidate rewrite: `pair' is combined anew, `other' is left beside it,
\* `moved' is the leaf that moves from the root into the pair, and `inner' is the
\* operation that is taken apart.
Try(pair, other, moved, inner) ==
  [pair |-> pair, other |-> other, moved |-> moved, inner |-> inner]

IsLeaf(n) == IsInput(n) \/ IsConst(n)

\* extract_reassociation_candidates and try_reassociate_candidates: (a op b) op c
\* tries a op c, then b op c; a op (b op c) tries a op c, then a op b.
Tries(root) ==
  LET n == gates[root]
      l == gates[n.lhs]
      r == gates[n.rhs]
  IN  CASE IsOp(l) /\ l.op = n.op /\ IsLeaf(r) ->
             << Try(<<l.lhs, n.rhs>>, l.rhs, n.rhs, n.lhs),
                Try(<<l.rhs, n.rhs>>, l.lhs, n.rhs, n.lhs) >>
        [] IsLeaf(l) /\ IsOp(r) /\ r.op = n.op ->
             << Try(<<n.lhs, r.rhs>>, r.lhs, n.lhs, n.rhs),
                Try(<<n.lhs, r.lhs>>, r.rhs, n.lhs, n.rhs) >>
        [] OTHER -> << >>

\* form_a_gate reuses a gate that is not dead, or else folds two constants.
Pair(root, t) == OpNode(gates[root].op, t.pair[1], t.pair[2])
Reusable(root, t) ==
  LET k == Canonical(Pair(root, t)) IN k \in DOMAIN seen /\ seen[k] \notin dead
Foldable(t) == {t.pair[1], t.pair[2]} \subseteq constant_gates

UsedAnyhow(g) == TRUE   \* a slip

\* The inner operation is used by the root only.
UsedOnce(g) == Cardinality(usages[g]) <= 1

\* The rewrite of a root, if there is one: the first candidate that will do.
Rewrites(root) ==
  LET tries == IF IsOp(gates[root]) /\ gates[root].op # "Sub" THEN Tries(root) ELSE << >>
      ok == {i \in DOMAIN tries : /\ UsedOnce(tries[i].inner)
                                  /\ Reusable(root, tries[i]) \/ Foldable(tries[i])}
  IN  {tries[i] : i \in {j \in ok : \A k \in ok : j <= k}}

Running == phase = "running"
AtRoot == Running /\ at <= Len(operation_gates)
Root == operation_gates[at]

-----------------------------------------------------------------------------
Skip ==
  /\ AtRoot
  /\ Rewrites(Root) = {}
  /\ at' = at + 1
  /\ UNCHANGED <<circuit, gates, dead, usages, to_kill, seen, operation_gates,
                 constant_gates, reassociated, phase>>

\* What the rewritten root is connected to; a slip forgets the leaf that is left.
ConnectedChild(t, child) == {child}
Connected(t, child) == {child, t.other}

\* liveness.rs: decrement puts what has lost its last user on the killing list,
\* increment takes what gets its first one off it.
Emptied(uses, links) ==
  {g \in DOMAIN usages : uses[g] = {} /\ \E u \in DOMAIN gates : <<g, u>> \in links}
Rescued(uses, connected) == {g \in connected : Cardinality(uses[g]) = 1}

\* accept_reassociation: the root, rewritten, uses `child' and what is left.  The
\* links to the inner operation and to the moved leaf are severed first, with all
\* that this leaves unused.  An operation that is connected again does not get back
\* the operands it has let go of.
Accept(t, child, all) ==
  LET links == Severed({<<t.inner, Root>>, <<t.moved, Root>>})
      connected == Connected(t, child)
      uses == [g \in DOMAIN usages |->
                 {u \in usages[g] : <<g, u>> \notin links}
                   \cup (IF g \in connected THEN {Root} ELSE {})]
  IN  /\ gates' = [all EXCEPT ![Root] = OpNode(gates[Root].op, child, t.other)]
      /\ usages' = uses
      /\ to_kill' = (to_kill \cup Emptied(uses, links)) \ Rescued(uses, connected)
      /\ reassociated' = TRUE /\ at' = at + 1
      /\ UNCHANGED <<circuit, dead, operation_gates, phase>>

\* Reassociation::Ternary: the gate found takes the pair's place.
ReuseRemembers ==   \* a slip: the old root can still be found
  /\ AtRoot
  /\ \E t \in Rewrites(Root) :
       /\ Reusable(Root, t)
       /\ Accept(t, seen[Canonical(Pair(Root, t))], gates)
       /\ seen' = Put(seen, Canonical(gates'[Root]), Root)
  /\ UNCHANGED constant_gates

Reuse ==
  /\ AtRoot
  /\ \E t \in Rewrites(Root) :
       /\ Reusable(Root, t)
       /\ LET found == seen[Canonical(Pair(Root, t))]
          IN  /\ Accept(t, found, gates)
              /\ seen' = Put(Remove(seen, Canonical(gates[Root])), Canonical(gates'[Root]), Root)
  /\ UNCHANGED constant_gates

\* Reassociation::Folding: the pair is a constant, in the place of the inner
\* operation.
BothConst(t) == IsConst(gates[t.pair[1]]) /\ IsConst(gates[t.pair[2]])

Folded(root, t) ==
  IF BothConst(t)
  THEN ConstNode(MachineOp(gates[root].op, gates[t.pair[1]].value,
                           gates[t.pair[2]].value) % Modulus)
  ELSE Pair(root, t)

PairOverflows(root, t) ==
  /\ OverflowChecks /\ BothConst(t)
  /\ Overflows(gates[root].op, gates[t.pair[1]].value, gates[t.pair[2]].value)

FoldPair ==
  /\ AtRoot
  /\ \E t \in Rewrites(Root) :
       /\ ~ Reusable(Root, t)
       /\ ~ PairOverflows(Root, t)
       /\ Accept(t, t.inner, [gates EXCEPT ![t.inner] = Folded(Root, t)])
       /\ LET forgotten == Remove(Remove(seen, Canonical(gates[Root])), Canonical(gates[t.inner]))
          IN  seen' = Put(Put(forgotten, Canonical(gates'[t.inner]), t.inner), Canonical(gates'[Root]), Root)
       /\ constant_gates' = constant_gates \cup {t.inner}

FoldPanics ==
  /\ AtRoot
  /\ \E t \in Rewrites(Root) : ~ Reusable(Root, t) /\ PairOverflows(Root, t)
  /\ phase' = "panic"
  /\ UNCHANGED <<circuit, gates, dead, usages, to_kill, seen, operation_gates,
                 constant_gates, at, reassociated>>

\* kill_unused_gates, one gate of the killing list: it takes those of its operands
\* with it that nothing uses.
AtEnd == Running /\ at > Len(operation_gates)

KillAnother(g) ==
  /\ AtEnd /\ g \in to_kill
  /\ g \in dead
  /\ to_kill' = to_kill \ {g}
  /\ UNCHANGED <<circuit, gates, dead, usages, seen, operation_gates, constant_gates,
                 at, reassociated, phase>>

KilledAlone(g) == {g}   \* a slip: its operands are tombstones, but not dead
KilledWith(g) == {g} \cup {o \in Operands(gates[g]) : usages[o] = {}}

Kill(g) ==
  /\ AtEnd /\ g \in to_kill
  /\ g \notin dead
  /\ LET gone == {g} \cup {o \in Operands(gates[g]) : usages[o] = {}}
     IN  gates' = [h \in DOMAIN gates |-> IF h \in gone THEN Tombstone ELSE gates[h]]
  /\ dead' = dead \cup KilledWith(g)
  /\ constant_gates' = IF IsConst(gates[g]) THEN constant_gates \ {g} ELSE constant_gates
  /\ seen' = Remove(seen, Canonical(gates[g]))
  /\ to_kill' = to_kill \ {g}
  /\ UNCHANGED <<circuit, usages, operation_gates, at, reassociated, phase>>

\* collect_survivors_in_operation_gates, and the test of the loop.
Survivors == Selected(operation_gates, DOMAIN gates \ (dead \cup constant_gates))

NextRoundStays ==   \* a slip: goes on from where it is
  /\ AtEnd /\ to_kill = {}
  /\ reassociated
  /\ operation_gates' = Survivors
  /\ reassociated' = FALSE
  /\ UNCHANGED <<circuit, gates, dead, usages, to_kill, seen, constant_gates, at, phase>>

NextRoundAgain ==   \* a slip: the flag is not lowered
  /\ AtEnd /\ to_kill = {}
  /\ reassociated
  /\ operation_gates' = Survivors
  /\ at' = 1
  /\ UNCHANGED <<circuit, gates, dead, usages, to_kill, seen, constant_gates,
                 reassociated, phase>>

NextRound ==
  /\ AtEnd /\ to_kill = {}
  /\ reassociated
  /\ operation_gates' = Survivors
  /\ at' = 1 /\ reassociated' = FALSE
  /\ UNCHANGED <<circuit, gates, dead, usages, to_kill, seen, constant_gates, phase>>

Finish ==
  /\ AtEnd /\ to_kill = {}
  /\ ~ reassociated
  /\ phase' = "done"
  /\ operation_gates' = Survivors
  /\ UNCHANGED <<circuit, gates, dead, usages, to_kill, seen, constant_gates, at,
                 reassociated>>

Step ==
  \/ Skip \/ Reuse \/ FoldPair \/ FoldPanics
  \/ \E g \in to_kill : Kill(g) \/ KillAnother(g)
  \/ NextRound \/ Finish

-----------------------------------------------------------------------------
Indices == DOMAIN gates

ReassociateTypeOK ==
  /\ gates \in Seq(Node \cup {Tombstone}) /\ Indices = DOMAIN circuit.gates
  /\ dead \subseteq Indices /\ to_kill \subseteq Indices
  /\ usages \in [Indices -> SUBSET Indices]
  /\ \A k \in DOMAIN seen : k \in Node /\ seen[k] \in Indices
  /\ operation_gates \in Seq(Indices) /\ constant_gates \subseteq Indices
  /\ at \in 1 .. Len(operation_gates) + 1
  /\ reassociated \in BOOLEAN
  /\ phase \in {"running", "done", "panic"}

Used == {g \in Indices : usages[g] # {}}

\* The usages are what the gates say: a gate is used by the used operations that
\* have it as an operand, and an output by itself.  What is to be killed or is dead
\* is what nothing uses.
UsagesExact ==
  /\ \A g \in Indices : usages[g] = Uses(gates, circuit.outputs, g) \cap (Used \cup {g})
  /\ to_kill \cup dead = Indices \ Used

\* What accept_reassociation relies on: its root is used, and an operation that the
\* root is connected to keeps another user while links are severed.  Else the operands
\* that the operation has let go of, then or before, are not taken back.
Careful ==
  Reuse \/ FoldPair =>
    /\ Root \in Used
    /\ \A g \in Operands(gates'[Root]) :
         IsOp(gates'[g]) => (usages[g] \cap usages'[g]) \ {Root} # {}

\* Right usages stay right: severing with all that it leaves unused, connecting the root
\* and killing leave no gate with a user too many or too few, and put all that is unused,
\* and nothing else, on the killing list.
UsagesStayExact == [][UsagesExact /\ Careful => UsagesExact']_vars

\* "A tombstone never will be in the killing list" (reassociate.rs:204).
NoTombstoneToKill == \A g \in to_kill \ dead : gates[g] # Tombstone

\* A gate found by its contents has these contents, or is dead.
SeenSound ==
  \A k \in DOMAIN seen : seen[k] \notin dead => Canonical(gates[seen[k]]) = k

\* What a used operation needs is used, and so not killed: from the outputs, which
\* are always used, nothing killed can be reached.
UsedClosed == Range(circuit.outputs) \subseteq Used /\ Closed(gates, Used)

\* "This is a topologically ordered DAG" (ir/src/circuit.rs:13), which
\* new_circuit_from relies on (passes/src/lib.rs:106-108): so it is as long as no
\* rewrite has reused a gate that comes after its root.
StaysOrdered == \A g \in Used : Operands(gates[g]) \subseteq 1 .. g - 1

\* "only rewrites cases where an elimination of the node is possible"
\* (reassociate.rs:9): every rewrite leaves one operation less that is used.
UsedOps == {g \in Used : IsOp(gates[g])}
EveryRewriteEliminates ==
  [][ Reuse \/ FoldPair => Cardinality(UsedOps') < Cardinality(UsedOps) ]_vars
=============================================================================
