----------------------------- MODULE MCCompiler ------------------------------
(* Small instances of Compiler for TLC.                                     *)
EXTENDS Compiler

TwoArguments == {0, 1}
OneConstant == {2}
OnlySub == {"Sub"}

\* The modes of the three public constructors (dsl/src/lib.rs:27-51).
PublicModes == {{}, Kinds, {"Input", "Op"}}
=============================================================================
