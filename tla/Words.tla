------------------------------- MODULE Words --------------------------------
(* The plaintext numbers of the DSL: an unsigned machine word, as u8..u64   *)
(* are (the `Supported' types of common/src/lib.rs:9-30), and the integers  *)
(* modulo the plaintext modulus q, which is what an expression stands for.  *)
(*                                                                          *)
(* A word type of w bits has WordSize = 2^w values.  The model only uses    *)
(* WordSize, so that TLC can take a word of two or three bits.              *)
EXTENDS Integers

CONSTANTS
  WordSize,        \* how many values the plaintext type T has
  Modulus,         \* plain_text_modulus
  OverflowChecks   \* TRUE: + - * panic on overflow; FALSE: they wrap (--release)

\* validate_non_zero refuses a modulus of zero, and q is a value of type T.
ASSUME WordsAssumption ==
  /\ WordSize \in Nat \ {0}
  /\ Modulus \in Nat \ {0}
  /\ Modulus < WordSize
  /\ OverflowChecks \in BOOLEAN

BinOp == {"Add", "Sub", "Mul"}

Word == 0 .. WordSize - 1
Residue == 0 .. Modulus - 1

\* The value of an operation on unbounded integers.
Exact(op, x, y) ==
  CASE op = "Add" -> x + y
    [] op = "Sub" -> x - y
    [] op = "Mul" -> x * y

\* The meaning of an operation: arithmetic modulo the plaintext modulus.
RingOp(op, x, y) == Exact(op, x, y) % Modulus

Overflows(op, x, y) == Exact(op, x, y) \notin Word

\* The machine's + - * on two words, when the build lets them wrap.
MachineOp(op, x, y) == Exact(op, x, y) % WordSize
=============================================================================
