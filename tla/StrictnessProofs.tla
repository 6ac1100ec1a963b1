-------------------------- MODULE StrictnessProofs --------------------------
(* However a program puts a strictness together, the mode it makes of it     *)
(* judges a compilation as it asked.                                         *)
EXTENDS Strictness, TLAPS

\* The three bits with a meaning are those of the kinds asked for.
Matches(s, kinds) == \A k \in StrictnessOn : BitAnd(s, Flag(k)) <=> k \in kinds

\* A mode that was not converted judges exactly as meant, a converted one no laxer.
ModeMeant ==
  /\ mode = Loose => meant = {}
  /\ mode # Loose => \A k \in meant : BitAnd(FromMode(mode), Flag(k))
  /\ mode # Loose /\ made # "into" => Matches(FromMode(mode), meant)

StrictnessInv ==
  /\ StrictnessTypeOK
  /\ Matches(strictness, asked)
  /\ ModeMeant
  /\ JudgesAsAsked /\ NeverLaxer

-----------------------------------------------------------------------------
LEMMA ModesDiffer ==
  ASSUME NEW s
  PROVE  /\ Loose # StrictAll /\ Loose # Strict(s)
         /\ FromMode(StrictAll) = FromSlice(StrictnessOn) /\ FromMode(Strict(s)) = s
<1>1. Loose.tag = "Loose" /\ StrictAll.tag = "StrictAll" /\ Strict(s).tag = "Strict"
  BY DEF Loose, StrictAll, Strict
<1>2. FromMode(Strict(s)) = Strict(s).bits /\ Strict(s).bits = s
  BY <1>1 DEF FromMode, Strict
<1>3. FromMode(StrictAll) = FromSlice(StrictnessOn)
  BY <1>1 DEF FromMode
<1> QED
  BY <1>1, <1>2, <1>3

\* Every kind has one bit, of its own, and a list has the bits of its members.
LEMMA FlagsApart ==
  /\ Flag("Input") = {0} /\ Flag("Const") = {1} /\ Flag("Op") = {2}
  /\ \A k \in StrictnessOn : Flag(k) \subseteq Bits
BY DEF Flag, StrictnessOn, Bits

LEMMA SliceMatches ==
  ASSUME NEW kinds \in SUBSET StrictnessOn
  PROVE  FromSlice(kinds) \subseteq Bits /\ Matches(FromSlice(kinds), kinds)
<1>1. \A b : b \in FromSlice(kinds) <=> \E k \in kinds : b \in Flag(k)
  BY DEF FromSlice
<1>2. FromSlice(kinds) \subseteq Bits
  BY <1>1, FlagsApart
<1>3. /\ 0 \in FromSlice(kinds) <=> "Input" \in kinds
      /\ 1 \in FromSlice(kinds) <=> "Const" \in kinds
      /\ 2 \in FromSlice(kinds) <=> "Op" \in kinds
  BY <1>1, FlagsApart DEF StrictnessOn
<1> QED
  BY <1>2, <1>3, FlagsApart DEF Matches, BitAnd, StrictnessOn

\* Complements, unions and differences of strictnesses are those of what is asked.
LEMMA NotMatches ==
  ASSUME NEW s, NEW kinds, s \subseteq Bits, Matches(s, kinds)
  PROVE  Not(s) \subseteq Bits /\ Matches(Not(s), StrictnessOn \ kinds)
BY FlagsApart DEF Matches, BitAnd, Not, StrictnessOn, Bits

LEMMA OperandMatches ==
  ASSUME NEW kinds \in SUBSET StrictnessOn, NEW negated \in BOOLEAN
  PROVE  /\ Operand(kinds, negated) \subseteq Bits
         /\ Matches(Operand(kinds, negated), Asked(kinds, negated))
         /\ Asked(kinds, negated) \subseteq StrictnessOn
BY SliceMatches, NotMatches DEF Operand, Asked

LEMMA AddSubMatch ==
  ASSUME NEW s, NEW t, NEW k1, NEW k2, s \subseteq Bits, t \subseteq Bits,
         Matches(s, k1), Matches(t, k2)
  PROVE  /\ Add(s, t) \subseteq Bits /\ Matches(Add(s, t), k1 \cup k2)
         /\ Sub(s, t) \subseteq Bits /\ Matches(Sub(s, t), k1 \ k2)
BY FlagsApart DEF Matches, BitAnd, Add, Sub, StrictnessOn

-----------------------------------------------------------------------------
LEMMA StrictnessInitHolds == Init => StrictnessInv
<1> SUFFICES ASSUME Init PROVE StrictnessInv
  OBVIOUS
<1>1. StrictnessTypeOK
  BY DEF Init, StrictnessTypeOK, Bits, StrictnessOn
<1>2. Matches(strictness, asked)
  BY DEF Init, Matches, BitAnd
<1>3. Matches(FromSlice(StrictnessOn), StrictnessOn)
  BY SliceMatches
<1>4. ModeMeant
  BY <1>3, ModesDiffer DEF Init, ModeMeant, Matches
<1> QED
  BY <1>1, <1>2, <1>4 DEF Init, StrictnessInv, JudgesAsAsked, NeverLaxer

\* A strictness that is put together is not yet a mode.
LEMMA PutTogether ==
  ASSUME StrictnessInv, UNCHANGED modeVars,
         strictness' \subseteq Bits, asked' \subseteq StrictnessOn,
         Matches(strictness', asked')
  PROVE  StrictnessInv'
<1>1. Matches(strictness, asked)'
  BY DEF Matches
<1>2. StrictnessTypeOK' /\ JudgesAsAsked' /\ NeverLaxer'
  BY DEF modeVars, StrictnessInv, StrictnessTypeOK, JudgesAsAsked, NeverLaxer
<1>3. ModeMeant'
  BY DEF modeVars, StrictnessInv, ModeMeant, Matches
<1> QED
  BY <1>1, <1>2, <1>3 DEF StrictnessInv

LEMMA MadeHolds ==
  ASSUME StrictnessInv, NEW m, NEW way, NEW kinds, Make(m, way, kinds),
         m \in {Loose, StrictAll} \cup {Strict(s) : s \in SUBSET Bits},
         kinds \subseteq StrictnessOn,
         m = Loose => kinds = {},
         m # Loose => \A k \in kinds : BitAnd(FromMode(m), Flag(k)),
         m # Loose /\ way # "into" => Matches(FromMode(m), kinds)
  PROVE  StrictnessInv'
<1>1. /\ mode' = m /\ made' = way /\ meant' = kinds /\ unused' = {} /\ verdict' = "none"
      /\ UNCHANGED <<strictness, asked>>
  BY DEF Make
<1>2. StrictnessTypeOK' /\ JudgesAsAsked' /\ NeverLaxer'
  BY <1>1 DEF StrictnessInv, StrictnessTypeOK, JudgesAsAsked, NeverLaxer
<1>3. ModeMeant' /\ Matches(strictness, asked)'
  BY <1>1 DEF StrictnessInv, ModeMeant, Matches
<1> QED
  BY <1>2, <1>3 DEF StrictnessInv

\* The conversion knows two modes and what has no kind: it is no laxer.
LEMMA IntoHolds == StrictnessInv /\ Into => StrictnessInv'
<1> SUFFICES ASSUME StrictnessInv, Into PROVE StrictnessInv'
  OBVIOUS
<1> DEFINE m == ModeFrom(strictness)
<1>1. Make(m, "into", asked) /\ asked \subseteq StrictnessOn /\ strictness \subseteq Bits
      /\ Matches(strictness, asked)
  BY DEF Into, StrictnessInv, StrictnessTypeOK
<1>2. Matches(FromSlice(StrictnessOn), StrictnessOn)
  BY SliceMatches
<1>3. CASE strictness = {}
  <2>1. asked = {}
    BY <1>1, <1>3 DEF Matches, BitAnd
  <2>2. m = Loose
    BY <1>3 DEF ModeFrom
  <2> QED
    BY <1>1, <2>1, <2>2, MadeHolds
<1>4. CASE strictness # {} /\ BitAnd(strictness, FromSlice(StrictnessOn))
  <2>1. m = StrictAll
    BY <1>4 DEF ModeFrom
  <2>2. \A k \in asked : BitAnd(FromMode(m), Flag(k))
    BY <1>1, <1>2, <2>1, ModesDiffer DEF Matches
  <2>3. m # Loose
    BY <2>1, ModesDiffer
  <2> HIDE DEF m
  <2> QED
    BY <1>1, <2>1, <2>2, <2>3, MadeHolds
<1>5. CASE strictness # {} /\ ~ BitAnd(strictness, FromSlice(StrictnessOn))
  <2>1. m = Strict(strictness)
    BY <1>5 DEF ModeFrom
  <2>2. \A k \in StrictnessOn : ~ BitAnd(strictness, Flag(k))
    BY <1>5 DEF FromSlice, BitAnd
  <2>3. asked = {}
    BY <1>1, <2>2 DEF Matches
  <2>4. m # Loose
    BY <2>1, ModesDiffer
  <2> HIDE DEF m
  <2> QED
    BY <1>1, <2>1, <2>3, <2>4, MadeHolds
<1> QED
  BY <1>3, <1>4, <1>5

\* A mode made with CompilationMode::with has the bits as they are.
LEMMA StrictModeHolds ==
  ASSUME StrictnessInv, NEW s, s \subseteq Bits, NEW kinds, kinds \subseteq StrictnessOn,
         Matches(s, kinds), NEW way, way # "into", Make(Strict(s), way, kinds)
  PROVE  StrictnessInv'
<1>1. Strict(s) # Loose /\ FromMode(Strict(s)) = s
  BY ModesDiffer
<1>2. \A k \in kinds : BitAnd(s, Flag(k))
  BY DEF Matches
<1> HIDE DEF Strict
<1> QED
  BY <1>1, <1>2, MadeHolds

LEMMA ModeStepHolds ==
  StrictnessInv /\ (With \/ FoldingStrict \/ StrictContext \/ LooseContext) => StrictnessInv'
<1> SUFFICES ASSUME StrictnessInv, With \/ FoldingStrict \/ StrictContext \/ LooseContext
             PROVE  StrictnessInv'
  OBVIOUS
<1>1. CASE With
  BY <1>1, StrictModeHolds DEF With, StrictnessInv, StrictnessTypeOK
<1>2. CASE FoldingStrict
  <2>1. {"Input", "Op"} \in SUBSET StrictnessOn
    BY DEF StrictnessOn
  <2> QED
    BY <1>2, <2>1, SliceMatches, StrictModeHolds DEF FoldingStrict
<1>3. CASE StrictContext
  <2>1. Matches(FromMode(StrictAll), StrictnessOn) /\ StrictAll # Loose
    BY SliceMatches, ModesDiffer
  <2> QED
    BY <1>3, <2>1, MadeHolds DEF StrictContext, Matches
<1>4. CASE LooseContext
  BY <1>4, MadeHolds DEF LooseContext
<1> QED
  BY <1>1, <1>2, <1>3, <1>4

LEMMA ApplyModeHolds == StrictnessInv /\ ApplyMode => StrictnessInv'
<1> SUFFICES ASSUME StrictnessInv, ApplyMode PROVE StrictnessInv'
  OBVIOUS
<1>1. PICK kinds \in SUBSET StrictnessOn :
        /\ unused' = kinds
        /\ verdict' = IF Refuses(mode, kinds) THEN "error" ELSE "ok"
  BY DEF ApplyMode
<1>2. UNCHANGED <<strictness, asked, mode, made, meant>>
  BY DEF ApplyMode
<1>3. StrictnessTypeOK' /\ Matches(strictness, asked)' /\ ModeMeant'
  BY <1>1, <1>2 DEF StrictnessInv, StrictnessTypeOK, ModeMeant, Matches
<1>4. JudgesAsAsked'
  BY <1>1, <1>2 DEF StrictnessInv, ModeMeant, Matches, Refuses, JudgesAsAsked
<1>5. NeverLaxer'
  BY <1>1, <1>2 DEF StrictnessInv, ModeMeant, Refuses, NeverLaxer
<1> QED
  BY <1>3, <1>4, <1>5 DEF StrictnessInv

LEMMA StrictnessStepHolds == StrictnessInv /\ [Next]_vars => StrictnessInv'
<1> SUFFICES ASSUME StrictnessInv, [Next]_vars PROVE StrictnessInv'
  OBVIOUS
<1>1. strictness \subseteq Bits /\ asked \subseteq StrictnessOn /\ Matches(strictness, asked)
  BY DEF StrictnessInv, StrictnessTypeOK
<1>2. CASE FromKinds
  BY <1>2, SliceMatches, PutTogether DEF FromKinds
<1>3. CASE Plus
  <2>1. PICK kinds \in SUBSET StrictnessOn, negated \in BOOLEAN :
          /\ strictness' = Add(strictness, Operand(kinds, negated))
          /\ asked' = asked \cup Asked(kinds, negated)
    BY <1>3 DEF Plus
  <2> QED
    BY <2>1, <1>1, <1>3, OperandMatches, AddSubMatch, PutTogether DEF Plus
<1>4. CASE Minus
  <2>1. PICK kinds \in SUBSET StrictnessOn, negated \in BOOLEAN :
          /\ strictness' = Sub(strictness, Operand(kinds, negated))
          /\ asked' = asked \ Asked(kinds, negated)
    BY <1>4 DEF Minus
  <2> QED
    BY <2>1, <1>1, <1>4, OperandMatches, AddSubMatch, PutTogether DEF Minus
<1>5. CASE Negate
  BY <1>1, <1>5, NotMatches, PutTogether DEF Negate
<1>6. CASE With \/ FoldingStrict \/ StrictContext \/ LooseContext
  BY <1>6, ModeStepHolds
<1>7. CASE Into
  BY <1>7, IntoHolds
<1>8. CASE ApplyMode
  BY <1>8, ApplyModeHolds
<1>9. CASE UNCHANGED vars
  BY <1>1, <1>9, PutTogether DEF vars, modeVars
<1> QED
  BY <1>2, <1>3, <1>4, <1>5, <1>6, <1>7, <1>8, <1>9 DEF Next

LEMMA StrictnessInvHolds == Spec => []StrictnessInv
BY StrictnessInitHolds, StrictnessStepHolds, PTL DEF Spec

\* A mode made by `with' or by a constructor judges exactly as asked.
THEOREM ModesJudgeAsAsked == Spec => []JudgesAsAsked
<1>1. StrictnessInv => JudgesAsAsked
  BY DEF StrictnessInv
<1> QED
  BY <1>1, StrictnessInvHolds, PTL

\* No mode, not even a converted one, lets pass what was to be refused.
THEOREM ModesNeverLaxer == Spec => []NeverLaxer
<1>1. StrictnessInv => NeverLaxer
  BY DEF StrictnessInv
<1> QED
  BY <1>1, StrictnessInvHolds, PTL
=============================================================================
