---------------------------- MODULE LiveLowering -----------------------------
(* What compilation promises, with nothing said about how it traverses the  *)
(* expressions (README.md:67 "Live code inclusion", README.md:87 "strictness *)
(* modes"): a request for some outputs includes exactly the expressions that *)
(* the outputs need, operands before operations, and is then answered.  The  *)
(* answer is a refusal exactly when the context is strict about a kind of    *)
(* expression of which some are dead, and a refusal reports all dead ones.   *)
EXTENDS Dag

VARIABLES
  strict,          \* the kinds that may not be left unused
  nodes,           \* the expressions built so far
  wanted,          \* the outputs of the current request; {}: there is none
  included,        \* the expressions lowered for it
  answer,          \* "none" until the request is answered: "ok" or "error"
  reported         \* the dead expressions that a refusal lists

vars == <<strict, nodes, wanted, included, answer, reported>>

Needed == Live(nodes, wanted)
Dead == DOMAIN nodes \ Needed
Refused == \E e \in Dead : nodes[e].kind \in strict

Init ==
  /\ strict \in SUBSET Kinds
  /\ nodes = << >>
  /\ wanted = {} /\ included = {} /\ answer = "none" /\ reported = {}

\* The program builds more expressions; those it has stay as they are.
Build ==
  /\ wanted = {} /\ answer = "none"
  /\ nodes' \in Seq(Node)
  /\ \A e \in DOMAIN nodes : e \in DOMAIN nodes' /\ nodes'[e] = nodes[e]
  /\ UNCHANGED <<strict, wanted, included, answer, reported>>

Request ==
  /\ wanted = {} /\ answer = "none"
  /\ wanted' \in SUBSET DOMAIN nodes
  /\ wanted' # {}
  /\ UNCHANGED <<strict, nodes, included, answer, reported>>

Include ==
  /\ answer = "none"
  /\ \E e \in Needed \ included :
       /\ Operands(nodes[e]) \subseteq included
       /\ included' = included \cup {e}
  /\ UNCHANGED <<strict, nodes, wanted, answer, reported>>

Answer ==
  /\ wanted # {} /\ answer = "none"
  /\ included = Needed
  /\ answer' = IF Refused THEN "error" ELSE "ok"
  /\ reported' = IF Refused THEN Dead ELSE {}
  /\ UNCHANGED <<strict, nodes, wanted, included>>

Forget ==
  /\ answer # "none"
  /\ wanted' = {} /\ included' = {} /\ answer' = "none" /\ reported' = {}
  /\ UNCHANGED <<strict, nodes>>

Next == Build \/ Request \/ Include \/ Answer \/ Forget

Spec == Init /\ [][Next]_vars
=============================================================================
