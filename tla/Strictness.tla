----------------------------- MODULE Strictness -----------------------------
(* dsl::compilation_mode: the strictness a program puts together, the mode   *)
(* it makes of it, and how apply_mode (dsl/src/compile.rs) reads that mode.  *)
(*                                                                           *)
(* A Strictness is a u8, here the set of its bits that are one; Context and  *)
(* Compiler take a mode as the set of the kinds it is strict on, which is    *)
(* what this module shows it to be for the modes the constructors make.      *)
EXTENDS Naturals

VARIABLES
  strictness,   \* the Strictness at hand
  asked,        \* ghost: the kinds it was asked to be strict on
  mode,         \* the CompilationMode last made
  made,         \* ghost: which way it was made
  meant,        \* ghost: the kinds asked for then
  unused,       \* the kinds of the expressions a compilation left out
  verdict       \* what apply_mode said of them

vars == <<strictness, asked, mode, made, meant, unused, verdict>>
modeVars == <<mode, made, meant, unused, verdict>>

Bits == 0..7
StrictnessOn == {"Input", "Const", "Op"}

Flag(kind) == CASE kind = "Input" -> {0} [] kind = "Const" -> {1} [] kind = "Op" -> {2}

FromSlice(kinds) == UNION {Flag(k) : k \in kinds}

\* Slips: adding twice takes away (an exclusive or), and so does subtracting what
\* is not there.
AddXor(s, t) == (s \ t) \cup (t \ s)
SubXor(s, t) == (s \ t) \cup (t \ s)

Not(s) == Bits \ s
Add(s, t) == s \cup t
Sub(s, t) == s \ t
BitAnd(s, t) == s \cap t # {}

Loose == [tag |-> "Loose"]
StrictAll == [tag |-> "StrictAll"]
Strict(s) == [tag |-> "Strict", bits |-> s]

\* From<Strictness> for CompilationMode, and back.
ModeFrom(s) ==
  IF s = {} THEN Loose
  ELSE IF BitAnd(s, FromSlice(StrictnessOn)) THEN StrictAll
  ELSE Strict(s)

FromMode(m) ==
  CASE m.tag = "Loose" -> {}
    [] m.tag = "StrictAll" -> FromSlice(StrictnessOn)
    [] m.tag = "Strict" -> m.bits

-----------------------------------------------------------------------------

Init ==
  /\ strictness = {} /\ asked = {}
  /\ mode = StrictAll /\ made = "default" /\ meant = StrictnessOn
  /\ unused = {} /\ verdict = "none"

\* The operand of + and -: a list of kinds, or its complement.
Operand(kinds, negated) == IF negated THEN Not(FromSlice(kinds)) ELSE FromSlice(kinds)
Asked(kinds, negated) == IF negated THEN StrictnessOn \ kinds ELSE kinds

FromKinds ==
  /\ \E kinds \in SUBSET StrictnessOn : strictness' = FromSlice(kinds) /\ asked' = kinds
  /\ UNCHANGED modeVars

Plus ==
  /\ \E kinds \in SUBSET StrictnessOn, negated \in BOOLEAN :
       /\ strictness' = Add(strictness, Operand(kinds, negated))
       /\ asked' = asked \cup Asked(kinds, negated)
  /\ UNCHANGED modeVars

Minus ==
  /\ \E kinds \in SUBSET StrictnessOn, negated \in BOOLEAN :
       /\ strictness' = Sub(strictness, Operand(kinds, negated))
       /\ asked' = asked \ Asked(kinds, negated)
  /\ UNCHANGED modeVars

Negate ==
  /\ strictness' = Not(strictness) /\ asked' = StrictnessOn \ asked
  /\ UNCHANGED modeVars

Make(m, way, kinds) ==
  /\ mode' = m /\ made' = way /\ meant' = kinds
  /\ unused' = {} /\ verdict' = "none"
  /\ UNCHANGED <<strictness, asked>>

With == Make(Strict(strictness), "with", asked)
Into == Make(ModeFrom(strictness), "into", asked)

\* new_folding_strict_context, new_strict_context and new_loose_context.
FoldingStrict == Make(Strict(FromSlice({"Input", "Op"})), "constructor", {"Input", "Op"})
StrictContext == Make(StrictAll, "constructor", StrictnessOn)
LooseContext == Make(Loose, "constructor", {})

\* apply_mode, of a compilation that leaves out expressions of some kinds.
Refuses(m, kinds) ==
  /\ m # Loose
  /\ \E k \in kinds : BitAnd(FromMode(m), Flag(k))

ApplyMode ==
  /\ \E kinds \in SUBSET StrictnessOn :
       /\ unused' = kinds
       /\ verdict' = IF Refuses(mode, kinds) THEN "error" ELSE "ok"
  /\ UNCHANGED <<strictness, asked, mode, made, meant>>

Next ==
  \/ FromKinds \/ Plus \/ Minus \/ Negate
  \/ With \/ Into \/ FoldingStrict \/ StrictContext \/ LooseContext
  \/ ApplyMode

Spec == Init /\ [][Next]_vars

-----------------------------------------------------------------------------

\* Type correctness: a Strictness is eight bits.
StrictnessTypeOK ==
  /\ strictness \subseteq Bits /\ asked \subseteq StrictnessOn
  /\ mode \in {Loose, StrictAll} \cup {Strict(s) : s \in SUBSET Bits}
  /\ meant \subseteq StrictnessOn /\ unused \subseteq StrictnessOn
  /\ verdict \in {"none", "ok", "error"}

\* However a strictness is put together, by lists, sums, differences and
\* complements, and whatever the five bits without a meaning have become:
\* a mode made with CompilationMode::with, or by a constructor, refuses a
\* compilation exactly if it leaves out something of a kind asked for.
JudgesAsAsked ==
  verdict # "none" /\ made # "into" => (verdict = "error" <=> unused \cap meant # {})

\* No way of making a mode makes it laxer than asked.
NeverLaxer == verdict = "ok" => unused \cap meant = {}
=============================================================================
