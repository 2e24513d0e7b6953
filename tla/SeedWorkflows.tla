----------------------------- MODULE SeedWorkflows ----------------------------
(***************************************************************************)
(* The three workflows a new tenant starts with (seed/workflows/*.yaml),   *)
(* run under the abstract executor of WorkflowRun.                         *)
(*                                                                         *)
(* Of a node is kept: its kind, the upstreams its join waits for (none:    *)
(* join any), whether it aborts the run (on_reject of an approval,         *)
(* on_failure of the others), the nodes whose output its params read, the  *)
(* nodes one of whose output fields it requires, and what it says.         *)
(*                                                                         *)
(* What a node says is its verdict: "true" or "false" for the field an     *)
(* edge tests or, when no edge tests it, "true" for an output that has the *)
(* fields later nodes require.  "absent" is an output without them: an     *)
(* agent switched off answers {ok, disabled}, and nothing holds an answer  *)
(* of the model to its schema.                                             *)
(***************************************************************************)
EXTENDS WorkflowRun, RunReport, TLC, Naturals

-----------------------------------------------------------------------------
(* Declarations *)

Agent == [kind |-> "agent", required |-> {}, abort |-> TRUE, says |-> {"absent"},
          reads |-> {}, needs |-> {}]

Reader(ns) == [Agent EXCEPT !.reads = ns]

Gate(abort) == [Agent EXCEPT !.kind = "approval", !.abort = abort]

Fixed(kind) == [Agent EXCEPT !.kind = kind, !.abort = FALSE]

\* An agent whose verdict false fails the node (VERDICT_FIELDS), so that no edge
\* ever sees it.
Judged == {"true", "absent"}

Flow(from, to, when) ==
    {[source |-> s, target |-> t, when |-> when] : s \in from, t \in to}

-----------------------------------------------------------------------------
(* Diagnosis: scenarios 1 and 2 *)

Evidence == {"logs", "trace", "metrics", "infra"}

ScenarioOneDiagnosis ==
    LET evidence(abort) == [Agent EXCEPT !.required = {"triage", "scope"}, !.abort = abort,
                                         !.reads = {"triage", "scope"}]
    IN "triage"  :> Agent
    @@ "scope"   :> [Reader({"triage"}) EXCEPT !.required = {"triage"}, !.says = Verdict]
    @@ "logs"    :> evidence(FALSE)
    @@ "metrics" :> evidence(FALSE)
    @@ "infra"   :> evidence(FALSE)
    @@ "trace"   :> [evidence(TRUE) EXCEPT !.reads = {"triage"}]
    @@ "halt"    :> Fixed("halt")
    @@ "locate"  :> [Reader({"triage", "trace", "logs"})
                        EXCEPT !.required = {"triage", "trace", "logs"}, !.says = Verdict]
    @@ "know"    :> [Reader({"triage"}) EXCEPT !.abort = FALSE]
    @@ "rca"     :> [Reader(Evidence \cup {"locate", "know", "scope"})
                        EXCEPT !.required = Evidence \cup {"locate", "know"}, !.says = Verdict]

ScenarioTwoDiagnosis == ScenarioOneDiagnosis

ScenarioOneDiagnosisEdges ==
    UNION {Flow({"triage"}, {"scope", "locate", "know"} \cup Evidence, "none"),
           Flow({"scope"}, Evidence, "eqFalse"),
           Flow({"trace", "logs"}, {"locate"}, "none"),
           Flow(Evidence \cup {"locate", "know"}, {"rca"}, "none"),
           Flow({"scope", "rca"}, {"halt"}, "eqTrue"),
           Flow({"locate"}, {"halt"}, "eqFalse"),
           Flow({"rca"}, {"plan"}, "none")}

ScenarioTwoDiagnosisEdges == ScenarioOneDiagnosisEdges

-----------------------------------------------------------------------------
(* Scenario 1: repair beside a remedy in the cluster, up to the commit *)

ScenarioOneRepair ==
       "plan"              :> Reader({"rca"})
    @@ "approve-plan"      :> Gate(TRUE)
    @@ "approve-remediate" :> Gate(FALSE)
    @@ "remediate"         :> [Reader({"plan", "scope"}) EXCEPT !.required = {"approve-remediate"},
                                                                !.abort = FALSE]
    @@ "fix"               :> Reader({"plan", "locate"})
    @@ "test"              :> [Reader({"fix", "remediate", "plan", "locate"}) EXCEPT !.says = Judged]
    @@ "review"            :> [Reader({"fix", "locate"}) EXCEPT !.says = Judged]
    @@ "approve-commit"    :> Gate(FALSE)
    @@ "commit"            :> Reader({"fix", "test", "locate"})
    @@ "ticket-closed"     :> Fixed("closed")
    @@ "recap"             :> Reader({"rca", "fix", "remediate", "commit"})

ScenarioOneRepairEdges ==
    UNION {Flow({"plan"}, {"approve-plan"}, "none"),
           Flow({"approve-plan"}, {"fix", "approve-remediate"}, "eqTrue"),
           Flow({"approve-remediate"}, {"remediate"}, "eqTrue"),
           Flow({"approve-remediate"}, {"recap"}, "eqFalse"),
           Flow({"fix", "remediate"}, {"test"}, "none"),
           Flow({"test"}, {"review"}, "eqTrue"),
           Flow({"review"}, {"approve-commit"}, "eqTrue"),
           Flow({"approve-commit"}, {"commit"}, "eqTrue"),
           Flow({"approve-commit"}, {"recap"}, "eqFalse"),
           Flow({"commit"}, {"ticket-closed"}, "none"),
           Flow({"ticket-closed"}, {"recap"}, "none")}

-----------------------------------------------------------------------------
(* Scenario 2: repair, release, smoke test *)

Repair ==
       "approve-plan"   :> Gate(TRUE)
    @@ "fix"            :> Reader({"plan", "locate"})
    @@ "test"           :> [Reader({"fix", "plan", "locate"}) EXCEPT !.says = Judged]
    @@ "review"         :> [Reader({"fix", "locate"}) EXCEPT !.says = Judged]
    @@ "approve-commit" :> Gate(FALSE)
    @@ "commit"         :> [Reader({"fix", "test", "locate"}) EXCEPT !.says = Judged]

ScenarioTwoRepair == "plan" :> Reader({"rca"}) @@ Repair

Release ==
       "merge"          :> [Reader({"commit", "locate"}) EXCEPT !.needs = {"commit"}, !.says = Judged]
    @@ "ci"             :> [Reader({"merge", "locate"}) EXCEPT !.needs = {"merge"}, !.says = Judged]
    @@ "approve-deploy" :> Gate(TRUE)
    @@ "deploy"         :> [Reader({"ci", "locate"}) EXCEPT !.needs = {"ci"}, !.says = Judged]
    @@ "verify-deploy"  :> [Reader({"ci", "deploy", "plan", "locate"}) EXCEPT !.needs = {"ci"},
                                                                              !.says = Judged]

ScenarioTwoClosing ==
       "ticket-closed"  :> Fixed("closed")
    @@ "recap"          :> Reader({"rca", "fix", "commit", "merge", "ci", "deploy", "verify-deploy"})

RepairEdges ==
    UNION {Flow({"plan"}, {"approve-plan"}, "none"),
           Flow({"approve-plan"}, {"fix"}, "eqTrue"),
           Flow({"test"}, {"review"}, "eqTrue"),
           Flow({"review"}, {"approve-commit"}, "eqTrue"),
           Flow({"approve-commit"}, {"commit"}, "eqTrue"),
           Flow({"approve-commit"}, {"recap"}, "eqFalse")}

ReleaseEdges(last) ==
    UNION {Flow({"commit"}, {"merge"}, "none"),
           Flow({"merge"}, {"ci"}, "none"),
           Flow({"ci"}, {"approve-deploy"}, "eqTrue"),
           Flow({"approve-deploy"}, {"deploy"}, "eqTrue"),
           Flow({"deploy"}, {"verify-deploy"}, "eqTrue"),
           Flow({"verify-deploy"}, {last}, "eqTrue"),
           Flow({last}, {"recap"}, "none")}

ScenarioTwoEdges ==
    ScenarioTwoDiagnosisEdges \cup RepairEdges \cup Flow({"fix"}, {"test"}, "none")
        \cup ReleaseEdges("ticket-closed")

-----------------------------------------------------------------------------
(* problem-diagnose-fix: the diagnosis comes with the ticket, and the result *)
(* is reported to the system the ticket came from.                           *)

ProblemRepair ==
       "plan"           :> Agent
    @@ "remediate"      :> [Reader({"plan"}) EXCEPT !.abort = FALSE]
    @@ "fix"            :> Reader({"plan"})
    @@ "test"           :> [Reader({"fix", "remediate", "plan"}) EXCEPT !.says = Judged]
    @@ "review"         :> [Reader({"fix"}) EXCEPT !.says = Judged]
    @@ "commit"         :> [Reader({"fix", "test"}) EXCEPT !.says = Judged]
    @@ "approve-plan"   :> Gate(TRUE)
    @@ "approve-commit" :> Gate(FALSE)

ProblemRelease ==
       "merge"          :> [Reader({"commit"}) EXCEPT !.needs = {"commit"}, !.says = Judged]
    @@ "ci"             :> [Reader({"merge"}) EXCEPT !.needs = {"merge"}, !.says = Judged]
    @@ "approve-deploy" :> Gate(TRUE)
    @@ "deploy"         :> [Reader({"ci"}) EXCEPT !.needs = {"ci"}, !.says = Judged]
    @@ "verify-deploy"  :> [Reader({"ci", "deploy", "plan"}) EXCEPT !.needs = {"ci"}, !.says = Judged]

ProblemClosing ==
    LET shipped == {"fix", "commit", "merge", "ci", "deploy", "verify-deploy"}
    IN "ticket-done" :> [Reader(shipped) EXCEPT !.says = Judged]
    @@ "recap"       :> Reader(shipped \cup {"remediate"})

ProblemEdges ==
    UNION {RepairEdges, Flow({"fix"}, {"remediate"}, "none"),
           Flow({"remediate"}, {"test"}, "none"), ReleaseEdges("ticket-done")}

-----------------------------------------------------------------------------
(* The graphs *)

GraphOf(name, nodes, edges) ==
    LET of(n) == IF n \in DOMAIN nodes THEN nodes[n] ELSE Agent
    IN [name     |-> name,
        members  |-> DOMAIN nodes,
        kind     |-> [n \in Node |-> of(n).kind],
        join     |-> [n \in Node |-> IF of(n).required = {} THEN "any" ELSE "all"],
        required |-> [n \in Node |-> of(n).required],
        abort    |-> {n \in DOMAIN nodes : IsApproval([kind |-> [m \in Node |-> of(m).kind]], n)
                                             /\ of(n).abort},
        goesOn   |-> {n \in DOMAIN nodes : of(n).kind = "agent" /\ ~of(n).abort},
        says     |-> [n \in Node |-> of(n).says],
        reads    |-> [n \in Node |-> of(n).reads],
        needs    |-> [n \in Node |-> of(n).needs],
        edges    |-> edges]

ScenarioOne ==
    GraphOf("scenario1", ScenarioOneDiagnosis @@ ScenarioOneRepair,
            ScenarioOneDiagnosisEdges \cup ScenarioOneRepairEdges)

ScenarioTwo ==
    GraphOf("scenario2", ScenarioTwoDiagnosis @@ ScenarioTwoRepair @@ Release @@ ScenarioTwoClosing,
            ScenarioTwoEdges)

ProblemDiagnoseFix ==
    GraphOf("problem-diagnose-fix", ProblemRepair @@ ProblemRelease @@ ProblemClosing,
            ProblemEdges)

SeedNames == UNION {DOMAIN ScenarioOneDiagnosis, DOMAIN ScenarioOneRepair,
                    DOMAIN Release, {"ticket-done"}}

SeedGraphs == {ScenarioOne, ScenarioTwo, ProblemDiagnoseFix}

TransitiveUpstreams(g, n) ==
    LET up[d \in Nat] ==
            IF d = 0 THEN Upstreams(g, n)
            ELSE LET nearer == up[d - 1]
                 IN nearer \cup UNION {Upstreams(g, m) : m \in nearer}
    IN up[Cardinality(g.members)]

\* Params read no output but those of the node's upstreams, direct or not.
ParamsRefs(g) ==
    \A n \in g.members : g.reads[n] \cup g.needs[n] \subseteq TransitiveUpstreams(g, n)

\* What the loader checks of every document (Workflow.load_yaml, strict).
Loads(g) ==
    /\ \A e \in g.edges : e.source \in g.members /\ e.target \in g.members
    /\ \A n \in g.members : n \notin TransitiveUpstreams(g, n)
    /\ JoinConsistent(g) /\ OnRejectConsistent(g) /\ ParamsRefs(g)

ASSUME SeedsLoad == Node = SeedNames => \A g \in SeedGraphs : Loads(g)

-----------------------------------------------------------------------------
(* Running them *)

\* Nodes of the other workflows do not exist here: they count as skipped.
SeedInit ==
    /\ graph \in GraphSet
    /\ st = [n \in Node |-> IF n \in graph.members THEN "pending" ELSE "skipped"]
    /\ row = [n \in Node |-> IF n \in graph.members THEN "none" ELSE "skipped"]
    /\ out = [n \in Node |-> "absent"]
    /\ rowOut = out
    /\ wave = {}

ToSkip ==
    DueSkips(graph, st, out) \cup {n \in DueApprovals(graph, st, out) :
                                      NodeDecision(graph, st, out, n) = "skipped"}

Unrecorded == {n \in Node : ~Recorded(n)}

\* Mutant: a required input that resolves to null is let through.
MissingNothing(n) == {}

\* What is missing of a node's required inputs.
Missing(n) == {m \in graph.needs[n] : out[m] # "true"}

\* A node ends as its declaration lets it: with what it says; with its failure, which
\* on_failure: continue turns into an output that says nothing.
Outcome(n) ==
    /\ Finish(n)
    /\ st'[n] = "done" => out'[n] \in graph.says[n] /\ Missing(n) = {}
    /\ st'[n] = "failed" => graph.kind[n] = "agent" /\ n \notin graph.goesOn

\* Scans and writes are instantaneous here (QueueRun has them step by step), and nodes
\* due to be skipped are skipped in one fixed order: skips commute.
Scan ==
    IF Unrecorded # {} THEN Persist(CHOOSE n \in Unrecorded : TRUE)
    ELSE ToSkip # {} /\ Skip(CHOOSE n \in ToSkip : TRUE)

Settled == Unrecorded = {} /\ ToSkip = {}

\* A run one of whose approvals was decided is resumed, and a run that failed too: in inline
\* mode, since the Worker of queue mode leaves a failed run alone.
Resume ==
    \/ /\ wave # {} /\ \E n \in wave : st[n] = "failed"
       /\ \A n \in wave : st[n] # "running"
       /\ Leave
    \/ /\ \E n \in Node : \/ st[n] = "failed"
                          \/ st[n] = "waiting_approval" /\ row[n] \in TERMINAL
       /\ Restart

SeedNext ==
    \/ Scan
    \/ /\ Settled
       /\ \/ Gather \/ WaveOver \/ Resume
          \/ \E n \in Node : Start(n) \/ Outcome(n) \/ Ask(n) \/ Decide(n)

SeedSpec == SeedInit /\ [][SeedNext]_absVars

-----------------------------------------------------------------------------
(* Properties *)

Started(n) == n \in graph.members /\ st[n] \in {"running", "done", "failed"}

Said(n) == st[n] = "done" /\ out[n] = "true"

\* Nothing is rolled out, and no ticket is closed as delivered, unless the three gates
\* were passed and the tests, the review, the commit, the merge and the build of this run
\* all reported success; a closed ticket also had its rollout tested.  Between merge and
\* deployment the graph has unconditional edges and agents that may be switched off.
ShippedIsMade ==
    LET made == {"approve-plan", "approve-commit", "approve-deploy",
                 "test", "review", "commit", "merge", "ci"}
    IN /\ Started("deploy") => \A n \in made : Said(n)
       /\ \A last \in {"ticket-closed", "ticket-done"} :
             Started(last) /\ graph.name # "scenario1"
                 => \A n \in made \cup {"deploy", "verify-deploy"} : Said(n)

\* A diagnosis that says its evidence is insufficient (the scope, the root cause) or that
\* found no code ends there: nothing is planned, repaired or asked of a person any more.
InsufficientHolds ==
    out["scope"] = "true" \/ out["rca"] = "true" \/ out["locate"] = "false"
        => \A n \in graph.members \ DOMAIN ScenarioOneDiagnosis : st[n] \in {"pending", "skipped"}

\* Params are resolved when a node starts, and a node that has not ended reads as null:
\* no node starts before every node it reads has ended.  Left out is what scenario 1
\* joins to either of two branches: its test may run before the fix or the remedy, and
\* everything after it with it.
Either == {"fix", "remediate", "test", "commit"}

InputsSettled ==
    \A n \in graph.members :
        Started(n) => \A m \in graph.reads[n] \ (IF graph.name = "scenario1" THEN Either ELSE {}) :
                         st[m] \in TERMINAL

\* What the list of runs says of a run that ended as done is what happened.  A run that
\* is "halted" had nothing rejected.  One that is "completed", and one whose rejections
\* were all made by hand, was recapitulated, unless an agent that had to give a verdict
\* gave none: there is no other way to be green and to have done nothing.
Concludes ==
    Settled /\ wave = {} /\ AllTerminal(st) /\ ~RejectedAbort(graph, st)
        => LET outcome == Summary(graph, "done", row).outcome
               silent  == \E n \in Node : st[n] = "done" /\ out[n] = "absent"
                                             /\ graph.says[n] # {"absent"}
           IN /\ outcome = "halted" => RejectedNodes(row) = {}
              /\ outcome = "completed" \/ RejectReasons(row) = {"manual"}
                    => st["recap"] = "done" \/ silent
=============================================================================
