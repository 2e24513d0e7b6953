--------------------------- MODULE WorkflowAnalysis ---------------------------
(***************************************************************************)
(* What can be read off a workflow without running it: which nodes must    *)
(* have ended, and which verdicts they cannot have given, before a node    *)
(* starts; and which verdicts account for a node that was skipped.         *)
(*                                                                         *)
(* The operators here analyse a graph, they are no part of the program.    *)
(* SeedWorkflowsProofs proves that what the analysis says holds in every   *)
(* run of every workflow, and from it the properties of SeedWorkflows for  *)
(* every workflow that meets the conditions at the end of this module; TLC *)
(* evaluates these conditions for the workflows of the repository.         *)
(***************************************************************************)
EXTENDS SeedWorkflows

-----------------------------------------------------------------------------
(* Facts *)

\* What a node answers at a moment: its verdict, or "open" while it has not run to its end.
Answer == Verdict \cup {"open"}

\* What is known before a node starts is a set of triples.  <<n, m, v>> says: before n
\* starts, m has ended, and not with the answer v.
Fact == Node \X Node \X Answer

\* An active edge: its source has ended, with a verdict that meets the condition.
Tells(e, m, v) == m = e.source /\ (v = "open" \/ ~EvalCondition(e.when, v))

\* What a node can say when it is done; of an approval, when it is decided.
Sayable(g, n) == IF IsApproval(g, n) THEN {"true", "false"} ELSE g.says[n]

\* A node that has ended said what it can say, on the inputs it requires.
Shows(g, n, m, v) ==
    \/ m = n /\ v \in Verdict \ Sayable(g, n)
    \/ ~IsApproval(g, n) /\ m \in g.needs[n] /\ v # "true"

-----------------------------------------------------------------------------
(* Before a node starts *)

Along(g, known, e, m, v) ==
    Tells(e, m, v) \/ Shows(g, e.source, m, v) \/ <<e.source, m, v>> \in known

\* A node joined to all waits for every required upstream, one joined to any for some edge.
ByJoin(g, known, n, m, v) ==
    LET edges == InEdges(g, n)
    IN /\ edges # {}
       /\ \/ /\ g.join[n] = "all"
             /\ \E e \in edges : e.source \in g.required[n] /\ Along(g, known, e, m, v)
          \/ /\ g.join[n] = "any"
             /\ \A e \in edges : Along(g, known, e, m, v)

\* This verdict of m starts a halt.
Halts(g, m, v) ==
    \E h \in Node : /\ IsHalt(g, h)
                    /\ \E e \in InEdges(g, h) : e.source = m /\ EvalCondition(e.when, v)

\* A halt that may start has the wave to itself, and nothing starts after it: a node that has
\* ended before others start did not start a halt.  Approvals are asked without a wave.
Learnt(g, known, n, m, v) ==
    \/ ByJoin(g, known, n, m, v)
    \/ /\ ~IsApproval(g, n) /\ ~IsHalt(g, n)
       /\ Halts(g, m, v)
       /\ ByJoin(g, known, n, m, "open")

Sound(g, known) ==
    \A n \in g.members : \A m \in Node : \A v \in Answer :
        <<n, m, v>> \in known => Learnt(g, known, n, m, v)

\* The most that can be known: what is left when everything that is not learnt is forgotten.
Known(g) ==
    LET below[known \in SUBSET Fact] ==
            LET less == {f \in known : Learnt(g, known, f[1], f[2], f[3])}
            IN IF less = known THEN known ELSE below[less]
    IN below[g.members \X Node \X Answer]

-----------------------------------------------------------------------------
(* After a node was skipped *)

\* Triples again: <<n, s, v>> says that n may have been skipped since s said v.

\* A verdict that Concludes takes for an excuse: an agent that had to judge and did not, or a
\* rejection that ends the run.
Excuse(g, s, v) ==
    \/ ~IsApproval(g, s) /\ v = "absent" /\ g.says[s] # {"absent"}
    \/ s \in g.abort /\ v = "false"

Wakes(g, n, s, v) == \E e \in InEdges(g, n) : e.source = s /\ EvalCondition(e.when, v)

Quiet(g, n, s) == {v \in Sayable(g, s) : ~Wakes(g, n, s, v) /\ ~Excuse(g, s, v)}

\* What may lie behind a source that does not start n: it was skipped itself, for a verdict
\* that does not start n either, or said such a verdict.
Behind(g, causes, n, s) ==
    {<<n, c[2], c[3]>> : c \in {x \in causes : x[1] = s /\ ~Wakes(g, n, x[2], x[3])}}
        \cup {<<n, s, v>> : v \in Quiet(g, n, s)}

\* The same of an edge that a node joined to all waits for.
Missed(g, causes, e) ==
    {<<e.target, c[2], c[3]>> : c \in {x \in causes : x[1] = e.source}}
        \cup {<<e.target, e.source, v>> :
                  v \in {u \in Sayable(g, e.source) : ~EvalCondition(e.when, u) /\ ~Excuse(g, e.source, u)}}

\* One silent source of a node joined to any is explanation enough, since all are silent.
Explains(g, causes) ==
    \A n \in g.members : InEdges(g, n) # {} =>
        \/ /\ g.join[n] = "all"
           /\ \A e \in InEdges(g, n) : e.source \in g.required[n] => Missed(g, causes, e) \subseteq causes
        \/ /\ g.join[n] = "any"
           /\ \E s \in Upstreams(g, n) : Behind(g, causes, n, s) \subseteq causes

\* The least that explains, taking of the sources of a node the one with the fewest causes.
Causes(g) ==
    LET fewest(causes, n) ==
            CHOOSE s \in Upstreams(g, n) : \A u \in Upstreams(g, n) :
                Cardinality(Behind(g, causes, n, s)) <= Cardinality(Behind(g, causes, n, u))
        of(causes, n) ==
            IF InEdges(g, n) = {} THEN {}
            ELSE IF g.join[n] = "all"
            THEN UNION {Missed(g, causes, e) : e \in {x \in InEdges(g, n) : x.source \in g.required[n]}}
            ELSE Behind(g, causes, n, fewest(causes, n))
        after[d \in Nat] ==
            IF d = 0 THEN {}
            ELSE LET causes == after[d - 1] IN UNION {of(causes, n) : n \in g.members}
    IN after[Cardinality(g.members)]

-----------------------------------------------------------------------------
(* When an edge is active *)

\* No verdict meets the conditions of both edges of a source.
Against(e, x) ==
    x.source = e.source /\ \A v \in Verdict : ~(EvalCondition(e.when, v) /\ EvalCondition(x.when, v))

\* The active edge e leaves no way to n but through these nodes.
CutOff(g, e, nodes, n) ==
    /\ n # e.source /\ g.join[n] = "any" /\ InEdges(g, n) # {}
    /\ \A x \in InEdges(g, n) : x.source \in nodes \/ Against(e, x)

\* The nodes to which e leaves no way at all.
Blocked(g, e) ==
    LET above[nodes \in SUBSET Node] ==
            LET more == {n \in g.members : CutOff(g, e, nodes, n)}
            IN IF more = nodes THEN nodes ELSE above[more]
    IN above[{}]

\* Edges lead upwards.
Rank(g, n) == Cardinality(TransitiveUpstreams(g, n))

-----------------------------------------------------------------------------
(* Conditions on a workflow *)

Wired(g) ==
    /\ g.members \subseteq Node
    /\ \A e \in g.edges : e.source \in g.members /\ e.target \in g.members
    /\ \A n \in Node \ g.members : ~IsApproval(g, n) /\ ~IsHalt(g, n)
    /\ \A n \in Node : g.says[n] \subseteq Verdict /\ g.needs[n] \subseteq Node
    /\ \A n \in g.abort : n \in Node /\ IsApproval(g, n)
    /\ \A h \in Node : IsHalt(g, h) => g.join[h] = "any" /\ InEdges(g, h) # {}

\* Before n starts, m has said v.
Ensures(known, n, m, v) == m \in Node /\ \A u \in Answer \ {v} : <<n, m, u>> \in known

\* For ShippedIsMade: no way to these nodes goes past one of the gates.
Made == {"approve-plan", "approve-commit", "approve-deploy", "test", "review", "commit", "merge", "ci"}

Gated(g, known) ==
    /\ "deploy" \in g.members => \A n \in Made : Ensures(known, "deploy", n, "true")
    /\ \A last \in {"ticket-closed", "ticket-done"} \cap g.members : g.name # "scenario1" =>
          \A n \in Made \cup {"deploy", "verify-deploy"} : Ensures(known, last, n, "true")

\* For InsufficientHolds: what is known before a node after the diagnosis starts excludes
\* these verdicts.
Insufficient == {<<"scope", "true">>, <<"rca", "true">>, <<"locate", "false">>}

Cut(g, known) ==
    \A c \in Insufficient :
        /\ c[1] \in Node
        /\ c[1] \in g.members =>
              \A n \in g.members \ DOMAIN ScenarioOneDiagnosis : <<n, c[1], c[2]>> \in known

\* For InputsSettled: what a node reads lies on every way to it, or is cut off by the edge
\* that starts it.
Feeds(g, known, n, m) ==
    \/ <<n, m, "open">> \in known
    \/ /\ ~IsApproval(g, n) /\ g.join[n] = "any" /\ InEdges(g, n) # {}
       /\ \A e \in InEdges(g, n) : Along(g, known, e, m, "open") \/ m \in Blocked(g, e)

Fed(g, known) ==
    /\ \A n \in Node : Rank(g, n) \in Nat
    /\ \A e \in g.edges : /\ Rank(g, e.source) < Rank(g, e.target)
                          /\ \A n \in Blocked(g, e) : n \in g.members /\ CutOff(g, e, Blocked(g, e), n)
    /\ \A n \in g.members : \A m \in g.reads[n] \ (IF g.name = "scenario1" THEN Either ELSE {}) :
          m \in Node /\ Feeds(g, known, n, m)

\* For Concludes: an approval is asked only when no halt can follow any more, and nothing
\* but what starts a halt could skip the recap without an excuse.
Closed(g, known, causes) ==
    /\ \A n \in g.members : IsApproval(g, n) =>
          \A m \in Node : \A v \in Verdict : Halts(g, m, v) => <<n, m, v>> \in known
    /\ "recap" \in g.members /\ ~IsApproval(g, "recap")
    /\ \A c \in causes : c[1] = "recap" => Halts(g, c[2], c[3])

\* What the proofs assume of the workflows that are run.
ASSUME GraphsAnalysed ==
    \A g \in GraphSet :
        LET known == Known(g)
            causes == Causes(g)
        IN /\ Wired(g) /\ Sound(g, known) /\ Explains(g, causes)
           /\ Gated(g, known) /\ Cut(g, known) /\ Fed(g, known) /\ Closed(g, known, causes)
=============================================================================
