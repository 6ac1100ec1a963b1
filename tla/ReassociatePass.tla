--------------------------- MODULE ReassociatePass ---------------------------
(* reuse_driven_reassociate as its callers see it: the rounds of Reassociate, *)
(* and then what is left made a circuit by NewCircuit.                        *)
EXTENDS Reassociate, NewCircuit

roundVars == vars
passVars == <<roundVars, rebuildVars>>

PassInit == Init /\ NewCircuitInit

\* A round, or part of it.
Reassociating == Step /\ UNCHANGED rebuildVars

\* The loop of rounds has ended: new_circuit_from(circuit, gates, usages).
LeavesUsages ==   \* a slip: the usages from before the rounds
  [circuit |-> circuit, gates |-> gates,
   usages |-> [g \in DOMAIN gates |-> Uses(circuit.gates, circuit.outputs, g)]]
Leaves == [circuit |-> circuit, gates |-> gates, usages |-> usages]

Rebuilding ==
  /\ phase = "done"
  /\ HandOver(Leaves) \/ RebuildStep
  /\ UNCHANGED roundVars

PassStep == Reassociating \/ Rebuilding

PassSpec == PassInit /\ [][PassStep]_passVars /\ WF_passVars(PassStep)

-----------------------------------------------------------------------------
\* Whatever the rounds have done, what they leave is in order for compaction: kept
\* gates with kept operands before them, right usages, and so no error (see
\* NewCircuitProofs); unless a rewrite has reused a gate after its root.
LeavesProper == phase = "done" /\ StaysOrdered => Proper(Leaves) /\ UsagesExact

\* The answer is a circuit, and every output of it computes, for all arguments, what the
\* output in the same position of the given circuit computes, after the folding,
\* reuse, killing, renaming and reordering of both stages.
OutputsKeepValue ==
  Answered /\ StaysOrdered =>
    /\ verdict = "ok"
    /\ Len(outputs) = Len(circuit.outputs)
    /\ Topological(alive)
    /\ \A env \in Environments :
         LET before == Denote(circuit.gates, env)
             now == Denote(alive, env)
         IN  \A i \in DOMAIN outputs : now[outputs[i]] = before[circuit.outputs[i]]

\* Dead code elimination is complete: every gate of the optimised circuit is needed
\* by one of its outputs.
NothingUnused ==
  Answered /\ StaysOrdered => \A g \in DOMAIN alive : Uses(alive, outputs, g) # {}

\* The rounds end and the pass answers, with a circuit or with the panic of an overflow.
PassAnswers == <>(Answered \/ phase = "panic")
=============================================================================
