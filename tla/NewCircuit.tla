------------------------------ MODULE NewCircuit ------------------------------
(* passes::new_circuit_from: what a pass leaves is made a circuit.  The gates *)
(* that something uses are copied, in order, into a new arena, and whenever a *)
(* gate gets another index, its users, which are still to be copied, are told *)
(* so.  An action is one iteration of the loop over the usages.               *)
EXTENDS Circuit, FiniteSets

CONSTANT Handovers   \* what passes hand over: circuit, gates and usages

KeptOf(h) == {g \in DOMAIN h.usages : h.usages[g] # {}}

\* A gate that stands on both sides of an operation keeps its index, as all before it
\* are kept: new_circuit_from would rename but one of the operands.
SquaresStay(h) ==
  \A g \in KeptOf(h) :
    LET n == h.gates[g]
    IN  IsOp(n) => n.lhs # n.rhs \/ 1 .. n.lhs \subseteq KeptOf(h)

\* What a pass is to leave: the gates that something uses are nodes after their
\* operands, which they are users of; outputs and users are gates that are kept.
Proper(h) ==
  /\ h.gates \in Seq(Node \cup {Tombstone})
  /\ h.usages \in Seq(SUBSET KeptOf(h)) /\ KeptOf(h) \subseteq DOMAIN h.gates
  /\ h.circuit.outputs \in Seq(KeptOf(h))
  /\ SquaresStay(h)
  /\ \A g \in KeptOf(h) :
       LET n == h.gates[g]
       IN  /\ n \in Node /\ Operands(n) \subseteq KeptOf(h) \cap 1 .. g - 1
           /\ \A o \in Operands(n) : g \in h.usages[o]

ASSUME HandoverAssumption == \A h \in Handovers : Proper(h)

VARIABLES
  handed,        \* the circuit that the pass was given, and what it left
  passed,        \* passed_gates: the gates that are left, renamed on the way
  next,          \* idx
  alive,         \* alive_gates: the new arena
  inputs,        \* new indices of the input gates
  outputs,       \* new indices of the outputs
  old_outputs,   \* outputs that have not been met yet
  verdict        \* "none", "running", "ok", or "error": PropagationError

rebuildVars == <<handed, passed, next, alive, inputs, outputs, old_outputs, verdict>>

NewCircuitInit ==
  /\ handed = [circuit |-> [gates |-> << >>, outputs |-> << >>], gates |-> << >>, usages |-> << >>]
  /\ passed = << >> /\ next = 1
  /\ alive = << >> /\ inputs = << >> /\ outputs = << >> /\ old_outputs = {}
  /\ verdict = "none"

\* A pass calls new_circuit_from.
HandOver(h) ==
  /\ verdict = "none"
  /\ handed' = h /\ passed' = h.gates /\ next' = 1
  /\ alive' = << >> /\ inputs' = << >> /\ outputs' = << >>
  /\ old_outputs' = Range(h.circuit.outputs)
  /\ verdict' = "running"

AtGate == verdict = "running" /\ next \in DOMAIN passed \cap DOMAIN handed.usages

SkipUnused ==
  /\ AtGate /\ handed.usages[next] = {}
  /\ next' = next + 1
  /\ UNCHANGED <<handed, passed, alive, inputs, outputs, old_outputs, verdict>>

\* propagate_new_index_to_using_gates.  A gate that uses `old' twice is told of
\* its new index once.
Renamed(n, old, new) ==
  IF n.lhs = old THEN OpNode(n.op, new, n.rhs) ELSE OpNode(n.op, n.lhs, new)

\* An output uses itself, but is no user to be told.
ToldItself(g) == handed.usages[g]   \* a slip
Told(g) == handed.usages[g] \ (IF g \in old_outputs THEN {g} ELSE {})

\* ReceivedInput, ReceivedConst or ReceivedNonUser.
NoUser(u, g) == passed[u] # Tombstone /\ g \notin Operands(passed[u])

Moves(g) == Len(alive) + 1 # g

\* transfer_gate_to_final_arena; slips: inputs and outputs keep their old index.
AllocOld(g) ==
  /\ alive' = Append(alive, passed[g])
  /\ inputs' = IF IsInput(passed[g]) THEN Append(inputs, Len(alive) + 1) ELSE inputs
  /\ outputs' = IF g \in old_outputs THEN Append(outputs, g) ELSE outputs
  /\ old_outputs' = old_outputs \ {g}

Alloc(g) ==
  /\ alive' = Append(alive, passed[g])
  /\ inputs' = IF IsInput(passed[g]) THEN Append(inputs, Len(alive) + 1) ELSE inputs
  /\ outputs' = IF g \in old_outputs THEN Append(outputs, Len(alive) + 1) ELSE outputs
  /\ old_outputs' = old_outputs \ {g}

Keep ==
  /\ AtGate /\ handed.usages[next] # {}
  /\ ~ Moves(next)
  /\ Alloc(next)
  /\ next' = next + 1
  /\ UNCHANGED <<handed, passed, verdict>>

MoveUntold ==   \* a slip: the users are not told
  /\ AtGate /\ handed.usages[next] # {}
  /\ Moves(next) /\ \A u \in Told(next) : ~ NoUser(u, next)
  /\ Alloc(next)
  /\ next' = next + 1
  /\ UNCHANGED <<handed, passed, verdict>>

Move ==
  /\ AtGate /\ handed.usages[next] # {}
  /\ Moves(next) /\ \A u \in Told(next) : ~ NoUser(u, next)
  /\ Alloc(next)
  /\ passed' = [u \in DOMAIN passed |->
                  IF u \in Told(next) /\ passed[u] # Tombstone
                  THEN Renamed(passed[u], next, Len(alive) + 1) ELSE passed[u]]
  /\ next' = next + 1
  /\ UNCHANGED <<handed, verdict>>

\* The first user that is none ends the call, whichever comes first.
MoveFails ==
  /\ AtGate /\ handed.usages[next] # {}
  /\ Moves(next) /\ \E u \in Told(next) : NoUser(u, next)
  /\ verdict' = "error"
  /\ UNCHANGED <<handed, passed, next, alive, inputs, outputs, old_outputs>>

Answer ==
  /\ verdict = "running" /\ ~ AtGate
  /\ verdict' = "ok"
  /\ UNCHANGED <<handed, passed, next, alive, inputs, outputs, old_outputs>>

RebuildStep == SkipUnused \/ Keep \/ Move \/ MoveFails \/ Answer

NewCircuitNext == (\E h \in Handovers : HandOver(h)) \/ RebuildStep

NewCircuitSpec == NewCircuitInit /\ [][NewCircuitNext]_rebuildVars

-----------------------------------------------------------------------------
NewCircuitTypeOK ==
  /\ passed \in Seq(Node \cup {Tombstone}) /\ DOMAIN passed = DOMAIN handed.gates
  /\ next \in 1 .. Len(passed) + 1
  /\ alive \in Seq(Node \cup {Tombstone}) /\ Len(alive) < next
  /\ inputs \in Seq(DOMAIN alive) /\ outputs \in Seq(DOMAIN alive)
  /\ old_outputs \subseteq Range(handed.circuit.outputs)
  /\ verdict \in {"none", "running", "ok", "error"}

Kept == KeptOf(handed)

\* Where a gate that is kept goes: as many gates are kept up to it.
Place(g) == Cardinality({h \in Kept : h <= g})

\* The new arena is the kept gates as the pass left them, in order, each operand at
\* the place it has gone to.
RenamedCopy ==
  \A g \in Kept : g < next =>
    LET n == handed.gates[g]
    IN  alive[Place(g)] = IF IsOp(n) THEN OpNode(n.op, Place(n.lhs), Place(n.rhs)) ELSE n

\* "This is a topologically ordered DAG" (ir/src/circuit.rs:13): the gates of the
\* new circuit refer to gates of the new circuit, and backwards.
NewTopological == Topological(alive)

Answered == verdict \in {"ok", "error"}

\* A pass that says of every gate it keeps who uses it, and of an output itself, gets
\* its circuit: there is an error only if some user is none.
RightUsages ==
  \A g \in Kept : \A u \in handed.usages[g] :
    g \in Operands(handed.gates[u]) \/ (u = g /\ g \in Range(handed.circuit.outputs))
FailsOnlyOnWrongUsages == verdict = "error" => ~ RightUsages

\* The outputs are those of the circuit the pass was given, and the inputs are the
\* input gates: once each, in the order of the gates.
OutputsAndInputsKept ==
  verdict = "ok" =>
    /\ Ascending(outputs) /\ Ascending(inputs)
    /\ Range(outputs) = {Place(o) : o \in Range(handed.circuit.outputs)}
    /\ Range(inputs) = {Place(g) : g \in {h \in Kept : IsInput(handed.gates[h])}}
=============================================================================
