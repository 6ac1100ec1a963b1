------------------------------ MODULE MCPipeline ------------------------------
(* Small instances of Pipeline for TLC.                                       *)
EXTENDS Pipeline

TwoArguments == {0, 1}
LargeConstant == {5}
OnlySub == {"Sub"}
\* Of new_loose_context and new_folding_strict_context.
TwoModes == {{}, {"Input", "Op"}}
\* A noise of 2 is that of one difference.
BothBackends == { [kind |-> "PlainModQ", noise_budget |-> 0],
                  [kind |-> "MockFHE", noise_budget |-> 2] }
SomeArguments == {<<3>>, <<3, 6>>}
=============================================================================
