----------------------------- MODULE MCContext ------------------------------
(* Small instances of Context for TLC.                                      *)
EXTENDS Context

OneArgument == {0}
TwoArguments == {0, 1}
AllOps == BinOp
OnlyLoose == {{}}

\* Both below q and above it: folding meets reduced and unreduced constants.
SmallAndLarge == {1, 3, 6}
=============================================================================
