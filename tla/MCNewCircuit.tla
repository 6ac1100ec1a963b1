---------------------------- MODULE MCNewCircuit ----------------------------
(* Small instances of NewCircuit for TLC: gates of which some are needed by *)
(* an output; the others have been killed, and are tombstones or still lie  *)
(* about.                                                                   *)
EXTENDS NewCircuit, CircuitFamilies

Leave(all, outs, buried, selfish) ==
  LET need[g \in DOMAIN all] ==
        g \in Range(outs) \/ \E u \in Users(all, g) : need[u]
      needed == {g \in DOMAIN all : need[g]}
  IN
  [ circuit |-> [gates |-> all, outputs |-> outs],
    gates   |-> [g \in DOMAIN all |-> IF g \in buried \ needed THEN Tombstone ELSE all[g]],
    usages  |-> [g \in DOMAIN all |->
                   IF g \in needed
                   THEN (Uses(all, outs, g) \cap needed) \cup ({g} \cap selfish) ELSE {}] ]

\* All ways to choose outputs among the operations, in order.  Rebalance may leave the
\* usage of an output by itself at a gate that is none.
OpsOf(all) == {g \in DOMAIN all : IsOp(all[g])}

LeftOf(graphs) ==
  UNION {{Leave(all, InOrder(outs, all), buried, selfish) :
            outs \in (SUBSET OpsOf(all)) \ {{}},
            buried \in {{}, DOMAIN all},
            selfish \in {{}, OpsOf(all)}} : all \in graphs}

SmallHandovers ==
  LeftOf(UNION {Grown(TwoInputs, {"Sub"}, 3, Squareless),
                Grown(OneInput, {"Add", "Mul"}, 2, Squareless)})

NoCircuits == {}
=============================================================================
