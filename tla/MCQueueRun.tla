------------------------------ MODULE MCQueueRun ------------------------------
(***************************************************************************)
(* Instances of QueueRun.  The graphs are the shapes of the seed workflows *)
(* (seed/workflows/*.yaml), cut down to four nodes each.                   *)
(***************************************************************************)
EXTENDS QueueRun, TLC

CONSTANTS a, b, c, d, worker, none

MCNode == {a, b, c, d}
MCLoop == {worker}

Edge(s, t, w) == [source |-> s, target |-> t, when |-> w]

NoRequired == [n \in MCNode |-> {}]
AllAny == [n \in MCNode |-> "any"]
Agents == [n \in MCNode |-> "agent"]

\* plan -> approve-plan (rejection goes to recap) -> fix, with an agent beside it.
Gate == [kind |-> [Agents EXCEPT ![b] = "approval"], join |-> AllAny,
         required |-> NoRequired, abort |-> {},
         edges |-> {Edge(a, b, "none"), Edge(b, c, "eqTrue"), Edge(b, d, "eqFalse")}]

\* An approval that aborts the run, beside a branch that goes on meanwhile.
AbortGate == [kind |-> [Agents EXCEPT ![b] = "approval"], join |-> AllAny,
              required |-> NoRequired, abort |-> {b},
              edges |-> {Edge(a, b, "none"), Edge(a, c, "none"), Edge(b, d, "eqTrue")}]

\* Evidence branches joined by required edges: scope -> {logs, trace} -> rca.
Diamond == [kind |-> Agents, join |-> [AllAny EXCEPT ![d] = "all"],
            required |-> [NoRequired EXCEPT ![d] = {b, c}], abort |-> {},
            edges |-> {Edge(a, b, "eqTrue"), Edge(a, c, "none"),
                       Edge(b, d, "none"), Edge(c, d, "neTrue")}]

\* scope -> halt when the evidence is insufficient; otherwise on to an approval.
HaltGate == [kind |-> [Agents EXCEPT ![b] = "halt", ![c] = "approval"],
             join |-> AllAny, required |-> NoRequired, abort |-> {},
             edges |-> {Edge(a, b, "eqTrue"), Edge(a, d, "none"), Edge(d, c, "none")}]

\* Two approvals in a row, the second behind a skippable agent.
Chain == [kind |-> [Agents EXCEPT ![a] = "approval", ![c] = "approval", ![d] = "closed"],
          join |-> AllAny, required |-> NoRequired, abort |-> {c},
          edges |-> {Edge(a, b, "eqTrue"), Edge(b, c, "eqTrue"), Edge(c, d, "none")}]

MCGraphs == {Gate, AbortGate, Diamond, HaltGate, Chain}
=============================================================================
