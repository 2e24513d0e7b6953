----------------------------- MODULE DagSemantics -----------------------------
(***************************************************************************)
(* The static graph of a workflow (core/dag.py) and the pure decisions the *)
(* executor takes over it (executor/dag_executor.py, "edge state / node    *)
(* decision").                                                             *)
(*                                                                         *)
(* A graph is a record                                                     *)
(*   kind     node -> "agent" | "approval" | "halt" | "ticket" | "closed"  *)
(*   join     node -> "any" | "all"                                        *)
(*   required node -> the upstreams a join: all node waits for             *)
(*   abort    the approval nodes declared on_reject: abort                 *)
(*   edges    the set of [source, target, when] records                    *)
(* `st` maps a node to its status and `out` to its verdict: what the field *)
(* an edge condition reads holds in the node's output, "absent" when the   *)
(* output is None or has no such field.                                    *)
(***************************************************************************)
EXTENDS FiniteSets

CONSTANT Node

-----------------------------------------------------------------------------
(* Types *)

Kinds == {"agent", "approval", "halt", "ticket", "closed"}

\* Node statuses.  FAILED is not terminal on purpose: a resume re-runs it.
Status == {"pending", "running", "done", "skipped", "waiting_approval",
           "rejected", "rejected-canceled", "failed"}

TERMINAL == {"done", "skipped", "rejected", "rejected-canceled"}

Verdict == {"true", "false", "absent"}

\* Edge conditions: none, `== true`, `== false`, `!= true`.
Conditions == {"none", "eqTrue", "eqFalse", "neTrue"}

Edges == [source : Node, target : Node, when : Conditions]

Graphs == [kind : [Node -> Kinds], join : [Node -> {"any", "all"}],
           required : [Node -> SUBSET Node], abort : SUBSET Node,
           edges : SUBSET Edges]

-----------------------------------------------------------------------------
(* Queries on the graph *)

InEdges(g, n) == {e \in g.edges : e.target = n}

Upstreams(g, n) == {e.source : e \in InEdges(g, n)}

IsApproval(g, n) == g.kind[n] = "approval"

IsHalt(g, n) == g.kind[n] = "halt"

-----------------------------------------------------------------------------
(* Static validation of a graph being saved (DAG._validate, strict) *)

\* Kahn's sort leaves nothing over exactly when every non-empty set of nodes has
\* a member none of whose upstreams is in the set.
Acyclic(g) ==
    \A S \in SUBSET Node :
        S # {} => \E n \in S : Upstreams(g, n) \cap S = {}

JoinConsistent(g) ==
    \A n \in Node :
        IF g.join[n] = "all"
        THEN g.required[n] # {} /\ g.required[n] \subseteq Upstreams(g, n)
        ELSE g.required[n] = {}

\* An approval that aborts the run has no edge for its rejection: that edge
\* could never be taken.
OnRejectConsistent(g) ==
    \A e \in g.edges :
        IsApproval(g, e.source) /\ e.source \in g.abort
            => e.when \notin {"eqFalse", "neTrue"}

Valid(g) ==
    /\ g \in Graphs
    /\ Acyclic(g)
    /\ JoinConsistent(g)
    /\ OnRejectConsistent(g)
    /\ g.abort \subseteq {n \in Node : IsApproval(g, n)}

-----------------------------------------------------------------------------
(* Edge state and node decision *)

\* A comparison with a value that is not there is false for == and true for !=.
EvalCondition(when, v) ==
    \/ when = "none"
    \/ when = "eqTrue" /\ v = "true"
    \/ when = "eqFalse" /\ v = "false"
    \/ when = "neTrue" /\ v # "true"

\* A condition is taken to name an output of its own source, as all conditions of the shipped
\* workflows do; the code would look up any node that it names.
EdgeActive(st, out, e) ==
    /\ st[e.source] \in {"done", "rejected", "rejected-canceled"}
    /\ EvalCondition(e.when, out[e.source])

\* Mutant: a status added to the program and forgotten here.
SourcesTerminalNoTimeout(g, st, n) ==
    \A u \in Upstreams(g, n) : st[u] \in {"done", "skipped", "rejected"}

SourcesTerminal(g, st, n) == \A u \in Upstreams(g, n) : st[u] \in TERMINAL

\* Mutant: a node joined to all starts on its first active edge.
JoinSatisfiedAny(g, st, out, n) ==
    InEdges(g, n) = {} \/ \E e \in InEdges(g, n) : EdgeActive(st, out, e)

JoinSatisfied(g, st, out, n) ==
    \/ InEdges(g, n) = {}
    \/ /\ g.join[n] = "all"
       /\ \A e \in InEdges(g, n) :
             e.source \in g.required[n] => EdgeActive(st, out, e)
    \/ /\ g.join[n] = "any"
       /\ \E e \in InEdges(g, n) : EdgeActive(st, out, e)

\* Mutant: the first settled upstream that does not activate the node skips it.
NodeDecisionEarly(g, st, out, n) ==
    IF JoinSatisfied(g, st, out, n) THEN "ready"
    ELSE IF \E u \in Upstreams(g, n) : st[u] \in TERMINAL THEN "skipped"
    ELSE "blocked"

NodeDecision(g, st, out, n) ==
    IF JoinSatisfied(g, st, out, n) THEN "ready"
    ELSE IF SourcesTerminal(g, st, n) THEN "skipped"
    ELSE "blocked"

HaltTriggered(g, st) == \E n \in Node : IsHalt(g, n) /\ st[n] = "done"

RejectedAbort(g, st) == \E n \in g.abort : st[n] = "rejected"

AllTerminal(st) == \A n \in Node : st[n] \in TERMINAL

HasWaitingApproval(st) == \E n \in Node : st[n] = "waiting_approval"

\* Mutant: a halt node shares its wave.
ReadyNodesTogether(g, st, out) ==
    {n \in Node : /\ st[n] = "pending"
                  /\ ~IsApproval(g, n)
                  /\ NodeDecision(g, st, out, n) = "ready"}

\* The agent nodes that may start now; a ready halt node has the wave to itself.
ReadyNodes(g, st, out) ==
    LET ready == {n \in Node : /\ st[n] = "pending"
                               /\ ~IsApproval(g, n)
                               /\ NodeDecision(g, st, out, n) = "ready"}
        halts == {n \in ready : IsHalt(g, n)}
    IN IF halts # {} THEN halts ELSE ready

\* Mutant: a waiting approval is taken for one that is due.
DueApprovalsAgain(g, st, out) ==
    {n \in Node : /\ st[n] \in {"pending", "waiting_approval"}
                  /\ IsApproval(g, n)
                  /\ NodeDecision(g, st, out, n) \in {"ready", "skipped"}}

\* What one pass of _process_approvals acts on.
DueApprovals(g, st, out) ==
    {n \in Node : /\ st[n] = "pending"
                  /\ IsApproval(g, n)
                  /\ NodeDecision(g, st, out, n) \in {"ready", "skipped"}}

\* What one pass of _process_skips marks: everything left once a halt node ran,
\* otherwise the agent nodes no active edge can reach any more.
DueSkips(g, st, out) ==
    {n \in Node : /\ st[n] = "pending"
                  /\ \/ HaltTriggered(g, st)
                     \/ /\ ~IsApproval(g, n)
                        /\ NodeDecision(g, st, out, n) = "skipped"}
=============================================================================
