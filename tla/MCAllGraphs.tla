----------------------------- MODULE MCAllGraphs ------------------------------
(***************************************************************************)
(* QueueRun over every valid graph of three nodes (up to the names of the  *)
(* nodes): each pair of nodes in the order a, b, c has no edge or one with *)
(* no condition or `== true`, each node is an agent, an approval or a halt,  *)
(* at most two are approvals, each join is any or all, and an approval that  *)
(* is alone in its graph may abort.                                        *)
(***************************************************************************)
EXTENDS QueueRun, TLC

CONSTANTS a, b, c, worker, none

MCNode == {a, b, c}
MCLoop == {worker}

\* "no" stands for no edge.
EdgeSets ==
    {{e \in {[source |-> a, target |-> b, when |-> x],
             [source |-> a, target |-> c, when |-> y],
             [source |-> b, target |-> c, when |-> z]} : e.when # "no"} :
        x, y, z \in {"no", "none", "eqTrue"}}

Ups(E, n) == {e.source : e \in {x \in E : x.target = n}}

\* A join: all node waits for all its upstreams; c may wait for b alone.
Joined(E, mode) ==
    [n \in MCNode |-> IF mode = "any" THEN {}
                      ELSE IF mode = "all" THEN Ups(E, n)
                      ELSE Ups(E, n) \cap (IF n = c THEN {b} ELSE {})]

Approvals(k) == {n \in MCNode : k[n] = "approval"}

GraphOf(E, k, r, abort) ==
    [kind |-> k, required |-> r, edges |-> E, abort |-> abort,
     join |-> [n \in MCNode |-> IF r[n] = {} THEN "any" ELSE "all"]]

MCKinds == {k \in [MCNode -> {"agent", "approval", "halt"}] : Cardinality(Approvals(k)) <= 2}

MCGraphs ==
    UNION {{GraphOf(E, k, Joined(E, mode), abort) :
               E \in EdgeSets, mode \in {"any", "all", "b"},
               abort \in {{}} \cup (IF Cardinality(Approvals(k)) = 1 THEN {Approvals(k)} ELSE {})} :
           k \in MCKinds}

Symmetry == Permutations(MCNode)

\* States that differ in nothing a later step or a property of this run reads are one: `lost`, the
\* clock of a decided approval, whose resume it is, and the memory of an executor that is at rest
\* (Rebuild starts from the rows).
View == <<graph, IF Executing THEN memVars ELSE <<>>, dbVars, pc, cur, tpc, tcur, result,
          {n \in expired : appr[n] = "WAITING"}, decided, Cardinality(telling), notices, running>>
=============================================================================
