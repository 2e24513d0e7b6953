------------------------------ MODULE MCInlineRun -----------------------------
(***************************************************************************)
(* Instances of InlineRun: one loop for the start and one per approval of  *)
(* the largest graph.                                                      *)
(***************************************************************************)
EXTENDS InlineRun, TLC

CONSTANTS a, b, c, d, l1, l2, l3, none

MCNode == {a, b, c, d}
MCLoop == {l1, l2, l3}

Edge(s, t, w) == [source |-> s, target |-> t, when |-> w]

NoRequired == [n \in MCNode |-> {}]
AllAny == [n \in MCNode |-> "any"]
Agents == [n \in MCNode |-> "agent"]

\* approve-plan asked by a while its sibling c still runs; both decide d.
Beside == [kind |-> [Agents EXCEPT ![b] = "approval"],
           join |-> [AllAny EXCEPT ![d] = "all"],
           required |-> [NoRequired EXCEPT ![d] = {b, c}], abort |-> {},
           edges |-> {Edge(a, b, "none"), Edge(b, d, "eqTrue"), Edge(c, d, "none")}]

\* Two approvals at once, and an agent behind each of them.
TwoGates == [kind |-> [Agents EXCEPT ![a] = "approval", ![b] = "approval"],
             join |-> AllAny, required |-> NoRequired, abort |-> {b},
             edges |-> {Edge(a, c, "eqTrue"), Edge(b, d, "none"), Edge(c, d, "none")}]

\* An approval behind an approval, and an agent beside them.
Chain == [kind |-> [Agents EXCEPT ![a] = "approval", ![b] = "approval"],
          join |-> AllAny, required |-> NoRequired, abort |-> {},
          edges |-> {Edge(a, b, "eqTrue"), Edge(b, c, "eqFalse")}]

LoopSymmetry == Permutations(MCLoop)

MCGraphs == {Beside, TwoGates, Chain}
=============================================================================
