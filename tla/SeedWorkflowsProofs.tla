-------------------------- MODULE SeedWorkflowsProofs -------------------------
(***************************************************************************)
(* The properties of SeedWorkflows, for every set of workflows that meets  *)
(* the conditions of WorkflowAnalysis (GraphsAnalysed): in every run of    *)
(* them, what the analysis reads off the workflow is true of the nodes.    *)
(*                                                                         *)
(* The proofs are about a specification that is wider than SeedSpec, which *)
(* TLC checks: scans and writes take their time, as in the executor.       *)
(***************************************************************************)
EXTENDS WorkflowAnalysis, WellFoundedInduction, TLAPS

-----------------------------------------------------------------------------
(* The shipped workflows in any order of scans, writes and tasks *)

\* WorkflowRun with the outcomes that the workflows declare, and without the order SeedNext
\* puts on it: questions, skips and writes come between the steps of the tasks, and an
\* executor may leave with tasks running.  Only it does not die with something unwritten.
AnyOrderNext ==
    \/ Gather \/ WaveOver \/ Leave
    \/ Restart /\ \A n \in Node : Recorded(n)
    \/ \E n \in Node : \/ Start(n) \/ Outcome(n) \/ Ask(n) \/ Skip(n)
                       \/ Persist(n) \/ Decide(n)

AnyOrderSpec == SeedInit /\ [][AnyOrderNext]_absVars

LEMMA SeedNextIsOne == SeedNext => AnyOrderNext
<1> SUFFICES ASSUME SeedNext
             PROVE  AnyOrderNext
  OBVIOUS
<1>1. CASE Scan
  <2>1. CASE Unrecorded # {}
    <3>1. PICK n \in Unrecorded : Persist(n)
      BY <1>1, <2>1 DEF Scan
    <3>2. QED BY <3>1 DEF AnyOrderNext, Unrecorded
  <2>2. CASE Unrecorded = {}
    <3>1. PICK n \in ToSkip : Skip(n)
      BY <1>1, <2>2 DEF Scan
    <3>2. n \in Node
      BY <3>1 DEF ToSkip, DueSkips, DueApprovals
    <3>3. QED BY <3>1, <3>2 DEF AnyOrderNext
  <2>3. QED BY <2>1, <2>2
<1>2. CASE Resume /\ Settled
  BY <1>2 DEF Resume, Settled, Unrecorded, AnyOrderNext
<1>3. CASE \/ Gather \/ WaveOver
           \/ \E n \in Node : Start(n) \/ Outcome(n) \/ Ask(n) \/ Decide(n)
  BY <1>3 DEF AnyOrderNext
<1>4. QED BY <1>1, <1>2, <1>3 DEF SeedNext

\* What TLC runs is a part of it.
THEOREM SeedSpecIsOne == SeedSpec => AnyOrderSpec
<1>1. [SeedNext]_absVars => [AnyOrderNext]_absVars
  BY SeedNextIsOne
<1>2. QED BY <1>1, PTL DEF SeedSpec, AnyOrderSpec

-----------------------------------------------------------------------------
(* The inductive invariant *)

\* Nodes that have run to an end, or approvals that were decided.
Active == {"done", "rejected", "rejected-canceled"}

Decided == Active

ShapeOK ==
    /\ graph \in GraphSet
    /\ st \in [Node -> Status] /\ out \in [Node -> Verdict]
    /\ row \in [Node -> Status \cup {"none"}] /\ rowOut \in [Node -> Verdict]
    /\ wave \subseteq Node

\* Only approvals wait and are rejected, only the other nodes run and fail, and the nodes of
\* other workflows stay out of it.
KindOK ==
    /\ \A n \in Node : /\ st[n] \in {"waiting_approval", "rejected", "rejected-canceled"}
                             => IsApproval(graph, n)
                       /\ st[n] \in {"running", "failed"} => ~IsApproval(graph, n)
                       /\ n \notin graph.members => st[n] = "skipped"
    /\ \A n \in wave : ~IsApproval(graph, n) /\ n \in graph.members

\* The verdict of an approval is its decision; an agent said what it can say, on the inputs
\* it requires.
OutOK ==
    \A n \in Node :
        /\ st[n] \notin Active => out[n] = "absent"
        /\ st[n] \in Active =>
              IF IsApproval(graph, n) THEN out[n] = (IF st[n] = "done" THEN "true" ELSE "false")
              ELSE /\ out[n] \in graph.says[n]
                   /\ \A m \in graph.needs[n] : out[m] = "true"

\* What is written is what the executor knows, or the decision of an approval that still
\* waits for it.
RowOK ==
    \A n \in Node :
        /\ row[n] \in TERMINAL =>
              \/ row[n] = st[n] /\ rowOut[n] = out[n]
              \/ /\ st[n] = "waiting_approval" /\ row[n] \in Active
                 /\ rowOut[n] = (IF row[n] = "done" THEN "true" ELSE "false")
        /\ row[n] = "waiting_approval" => st[n] = "waiting_approval" /\ rowOut[n] = "absent"

\* A node that did anything was joined.
CauseOK ==
    \A n \in graph.members :
        st[n] \notin {"pending", "skipped"} => JoinSatisfied(graph, st, out, n)

\* Until a halt has ended the run, a node is skipped only when it can no longer start.
SkipOK ==
    ~HaltTriggered(graph, st) =>
        \A n \in graph.members :
            st[n] = "skipped" => SourcesTerminal(graph, st, n) /\ ~JoinSatisfied(graph, st, out, n)

Reached(n) == n \in wave \/ st[n] \notin {"pending", "skipped"}

\* The fact <<n, m, v>>, n aside.
Ended(m, v) == st[m] \in Active /\ out[m] # v

\* What the analysis knows of a node is true from the moment it is gathered or asked.
FactOK ==
    \A n \in graph.members : \A m \in Node : \A v \in Answer :
        Reached(n) /\ <<n, m, v>> \in Known(graph) => Ended(m, v)

\* What a node reads has ended or was skipped when the node is gathered.
FedOK ==
    \A n \in graph.members :
        Reached(n) =>
            \A m \in graph.reads[n] \ (IF graph.name = "scenario1" THEN Either ELSE {}) :
                st[m] \in TERMINAL

Silent(n) == st[n] = "done" /\ out[n] = "absent" /\ graph.says[n] # {"absent"}

Excused ==
    \E n \in Node : \/ Silent(n)
                    \/ st[n] = "rejected-canceled"
                    \/ st[n] = "rejected" /\ n \in graph.abort

\* One of the causes of n is what happened.
Accounted(n) ==
    \E s \in Node : \E v \in Verdict :
        <<n, s, v>> \in Causes(graph) /\ st[s] \in Active /\ out[s] = v

\* Until a halt has ended the run, a node is skipped for a reason.
ReasonOK ==
    ~HaltTriggered(graph, st) /\ ~Excused =>
        \A n \in graph.members : st[n] = "skipped" => Accounted(n)

IInv == ShapeOK /\ KindOK /\ OutOK /\ RowOK /\ CauseOK /\ SkipOK /\ FactOK /\ FedOK /\ ReasonOK

-----------------------------------------------------------------------------
(* The steps *)

LEMMA Analysed ==
    ASSUME graph \in GraphSet
    PROVE  /\ Wired(graph) /\ Sound(graph, Known(graph)) /\ Explains(graph, Causes(graph))
           /\ Gated(graph, Known(graph)) /\ Cut(graph, Known(graph)) /\ Fed(graph, Known(graph))
           /\ Closed(graph, Known(graph), Causes(graph))
  BY GraphsAnalysed

\* A step of a node: its status and its verdict change, and nothing else.
Moves(n, s, v) == n \in Node /\ Set(n, s, v) /\ UNCHANGED <<graph, row, rowOut, wave>>

NodeStep ==
    \E n \in Node :
        \/ /\ n \in wave /\ st[n] = "pending" /\ JoinSatisfied(graph, st, out, n)
           /\ Moves(n, "running", "absent")
        \/ /\ n \in wave /\ st[n] = "running"
           /\ \E v \in Verdict : /\ v \in graph.says[n] /\ \A m \in graph.needs[n] : out[m] = "true"
                                 /\ Moves(n, "done", v)
        \/ n \in wave /\ st[n] = "running" /\ Moves(n, "failed", "absent")
        \/ /\ IsApproval(graph, n) /\ st[n] = "pending" /\ JoinSatisfied(graph, st, out, n)
           /\ Moves(n, "waiting_approval", "absent")
        \/ /\ st[n] = "pending"
           /\ \/ HaltTriggered(graph, st)
              \/ SourcesTerminal(graph, st, n) /\ ~JoinSatisfied(graph, st, out, n)
           /\ Moves(n, "skipped", "absent")

RowStep ==
    /\ UNCHANGED <<graph, st, out, wave>>
    /\ \E n \in Node :
          \/ /\ st[n] # "pending" /\ row[n] \notin TERMINAL
             /\ row' = [row EXCEPT ![n] = st[n]] /\ rowOut' = [rowOut EXCEPT ![n] = out[n]]
          \/ /\ row[n] = "waiting_approval"
             /\ \E s \in Decided :
                   /\ row' = [row EXCEPT ![n] = s]
                   /\ rowOut' = [rowOut EXCEPT ![n] = IF s = "done" THEN "true" ELSE "false"]

WaveStep == wave' = {} /\ UNCHANGED <<graph, st, out, row, rowOut>>

Restarts == Restart /\ \A n \in Node : Recorded(n)

\* A step of the specification is one of these.
LEMMA Steps ==
    ASSUME ShapeOK, KindOK, AnyOrderNext
    PROVE  NodeStep \/ RowStep \/ WaveStep \/ Gather \/ Restarts
<1>1. ASSUME NEW n \in Node, Persist(n)
      PROVE  RowStep
  BY <1>1 DEF Persist, RowStep
<1>2. ASSUME NEW n \in Node, Skip(n)
      PROVE  NodeStep
  <2>1. /\ st[n] = "pending" /\ Moves(n, "skipped", "absent")
        /\ HaltTriggered(graph, st) \/ NodeDecision(graph, st, out, n) = "skipped"
    BY <1>2 DEF Skip, Moves
  <2>2. HaltTriggered(graph, st) \/ (SourcesTerminal(graph, st, n) /\ ~JoinSatisfied(graph, st, out, n))
    BY <2>1 DEF NodeDecision
  <2>3. QED BY <2>1, <2>2 DEF NodeStep
<1>3. ASSUME NEW n \in Node, Start(n)
      PROVE  NodeStep
  <2>1. n \in wave /\ st[n] = "pending" /\ Moves(n, "running", "absent")
    BY <1>3 DEF Start, Moves
  <2>2. JoinSatisfied(graph, st, out, n)
    BY <1>3 DEF Start, NodeDecision
  <2>3. QED BY <2>1, <2>2 DEF NodeStep
<1>4. ASSUME NEW n \in Node, Outcome(n)
      PROVE  NodeStep
  <2>1. /\ n \in wave /\ st[n] = "running" /\ UNCHANGED <<graph, row, rowOut, wave>>
        /\ (\E v \in Verdict : Set(n, "done", v)) \/ Set(n, "failed", "absent")
    BY <1>4 DEF Outcome, Finish
  <2>2. CASE Set(n, "failed", "absent")
    BY <2>1, <2>2 DEF NodeStep, Moves
  <2>3. CASE \E v \in Verdict : Set(n, "done", v)
    <3>1. PICK v \in Verdict : Set(n, "done", v)
      BY <2>3
    <3>2. st'[n] = "done" /\ out'[n] = v
      BY <3>1 DEF Set, ShapeOK
    <3>3. v \in graph.says[n] /\ \A m \in graph.needs[n] : out[m] = "true"
      BY <1>4, <3>2 DEF Outcome, Missing
    <3>4. Moves(n, "done", v)
      BY <2>1, <3>1 DEF Moves
    <3>5. QED BY <2>1, <3>3, <3>4 DEF NodeStep
  <2>4. QED BY <2>1, <2>2, <2>3
<1>5. ASSUME NEW n \in Node, Ask(n)
      PROVE  NodeStep
  <2>1. IsApproval(graph, n) /\ st[n] = "pending" /\ Moves(n, "waiting_approval", "absent")
    BY <1>5 DEF Ask, Moves
  <2>2. JoinSatisfied(graph, st, out, n)
    BY <1>5 DEF Ask, NodeDecision
  <2>3. QED BY <2>1, <2>2 DEF NodeStep
<1>6. ASSUME NEW n \in Node, Decide(n)
      PROVE  RowStep
  BY <1>6 DEF Decide, RowStep, Decided, Active
<1>7. WaveOver \/ Leave => WaveStep
  BY DEF WaveOver, Leave, WaveStep
<1>8. QED BY <1>1, <1>2, <1>3, <1>4, <1>5, <1>6, <1>7 DEF AnyOrderNext, Restarts

\* What a step of a node leaves alone.
LEMMA MovesChange ==
    ASSUME ShapeOK, NEW n, NEW s, NEW v, Moves(n, s, v)
    PROVE  /\ n \in Node /\ st'[n] = s /\ out'[n] = v
           /\ \A m \in Node : m # n => st'[m] = st[m] /\ out'[m] = out[m]
           /\ graph' = graph /\ row' = row /\ rowOut' = rowOut /\ wave' = wave
  BY DEF ShapeOK, Moves, Set

-----------------------------------------------------------------------------
(* What has ended stays *)

Kept == \A n \in Node : st[n] \in TERMINAL => st'[n] = st[n] /\ out'[n] = out[n]

\* An executor that takes a run up from what is written knows what was known, forgets what
\* ran or failed, and learns what was decided.
LEMMA Restarted ==
    ASSUME ShapeOK, KindOK, OutOK, RowOK, Restarts, NEW n \in Node
    PROVE  \/ st'[n] = st[n] /\ out'[n] = out[n]
           \/ st[n] \in {"running", "failed"} /\ st'[n] = "pending" /\ out'[n] = "absent"
           \/ /\ st[n] = "waiting_approval" /\ st'[n] = row[n] /\ row[n] \in Active
              /\ out'[n] = (IF row[n] = "done" THEN "true" ELSE "false")
<1>1. /\ st'[n] = IF row[n] \in Open THEN row[n] ELSE "pending"
      /\ out'[n] = IF row[n] \in Open THEN rowOut[n] ELSE "absent"
  BY DEF Restarts, Restart
<1>2. Recorded(n)
  BY DEF Restarts
<1>3. st[n] \in Status
  BY DEF ShapeOK
<1>4. CASE st[n] \in TERMINAL
  BY <1>1, <1>2, <1>4 DEF Recorded, Open, TERMINAL
<1>5. CASE st[n] = "waiting_approval"
  <2>1. CASE row[n] \in TERMINAL
    <3>1. row[n] \in Active /\ rowOut[n] = (IF row[n] = "done" THEN "true" ELSE "false")
      BY <1>5, <2>1 DEF RowOK, TERMINAL
    <3>2. QED BY <1>1, <1>5, <2>1, <3>1 DEF Open
  <2>2. CASE row[n] \notin TERMINAL
    BY <1>1, <1>2, <1>5, <2>2 DEF Recorded, Open, TERMINAL
  <2>3. QED BY <2>1, <2>2
<1>6. CASE st[n] \in {"pending", "running", "failed"}
  <2>1. row[n] \notin Open
    BY <1>6 DEF RowOK, Open, TERMINAL
  <2>2. out[n] = "absent"
    BY <1>6 DEF OutOK, Active
  <2>3. QED BY <1>1, <1>6, <2>1, <2>2
<1>7. QED BY <1>3, <1>4, <1>5, <1>6 DEF Status, TERMINAL

LEMMA KeptLemma ==
    ASSUME ShapeOK, KindOK, OutOK, RowOK,
           NodeStep \/ RowStep \/ WaveStep \/ Gather \/ Restarts
    PROVE  Kept /\ graph' = graph
<1>1. CASE NodeStep
  <2>1. PICK n \in Node, s \in Status, v \in Verdict : Moves(n, s, v) /\ st[n] \notin TERMINAL
    BY <1>1 DEF NodeStep, TERMINAL, Status, Verdict
  <2>2. QED BY <2>1, MovesChange DEF Kept
<1>2. CASE RowStep \/ WaveStep \/ Gather
  BY <1>2 DEF RowStep, WaveStep, Gather, Kept
<1>3. CASE Restarts
  <2>1. graph' = graph
    BY <1>3 DEF Restarts, Restart
  <2>2. ASSUME NEW n \in Node, st[n] \in TERMINAL
        PROVE  st'[n] = st[n] /\ out'[n] = out[n]
    BY <1>3, <2>2, Restarted DEF TERMINAL
  <2>3. QED BY <2>1, <2>2 DEF Kept
<1>4. QED BY <1>1, <1>2, <1>3

LEMMA SourcesOf ==
    ASSUME ShapeOK, NEW n, NEW e \in InEdges(graph, n)
    PROVE  e.source \in Node /\ e.source \in graph.members /\ e.source \in Upstreams(graph, n)
  BY Analysed DEF ShapeOK, Wired, InEdges, Upstreams

LEMMA EdgeKept ==
    ASSUME ShapeOK, Kept, NEW n, NEW e \in InEdges(graph, n), st[e.source] \in TERMINAL
    PROVE  EdgeActive(st', out', e) <=> EdgeActive(st, out, e)
  BY SourcesOf DEF Kept, EdgeActive

LEMMA ActiveKept ==
    ASSUME ShapeOK, Kept, NEW n, NEW e \in InEdges(graph, n), EdgeActive(st, out, e)
    PROVE  EdgeActive(st', out', e)
  BY EdgeKept DEF EdgeActive, TERMINAL

LEMMA JoinKept ==
    ASSUME ShapeOK, Kept, NEW n, JoinSatisfied(graph, st, out, n)
    PROVE  JoinSatisfied(graph, st', out', n)
  BY ActiveKept DEF JoinSatisfied

LEMMA DeadKept ==
    ASSUME ShapeOK, Kept, NEW n, SourcesTerminal(graph, st, n), ~JoinSatisfied(graph, st, out, n)
    PROVE  SourcesTerminal(graph, st', n) /\ ~JoinSatisfied(graph, st', out', n)
<1>1. ASSUME NEW u \in Upstreams(graph, n)
      PROVE  u \in Node /\ st[u] \in TERMINAL
  BY <1>1, SourcesOf DEF SourcesTerminal, Upstreams
<1>2. SourcesTerminal(graph, st', n)
  BY <1>1 DEF SourcesTerminal, Kept
<1>3. ASSUME NEW e \in InEdges(graph, n)
      PROVE  EdgeActive(st', out', e) <=> EdgeActive(st, out, e)
  BY <1>1, <1>3, EdgeKept, SourcesOf
<1>4. ~JoinSatisfied(graph, st', out', n)
  BY <1>3 DEF JoinSatisfied
<1>5. QED BY <1>2, <1>4

LEMMA HaltKept ==
    ASSUME Kept, HaltTriggered(graph, st)
    PROVE  HaltTriggered(graph, st')
  BY DEF HaltTriggered, Kept, TERMINAL

-----------------------------------------------------------------------------
(* Each part of the invariant is kept *)

AnyStep == NodeStep \/ RowStep \/ WaveStep \/ Gather \/ Restarts

LEMMA ShapeKept ==
    ASSUME ShapeOK, AnyStep
    PROVE  ShapeOK'
<1>1. CASE NodeStep
  <2>1. PICK n \in Node, s \in Status, v \in Verdict : Moves(n, s, v)
    BY <1>1 DEF NodeStep, Status, Verdict
  <2>2. QED BY <2>1 DEF ShapeOK, Moves, Set
<1>2. CASE RowStep
  <2>1. PICK n \in Node, s \in Status, v \in Verdict :
          row' = [row EXCEPT ![n] = s] /\ rowOut' = [rowOut EXCEPT ![n] = v]
    BY <1>2 DEF RowStep, ShapeOK, Status, Decided, Active, Verdict
  <2>2. QED BY <1>2, <2>1 DEF RowStep, ShapeOK
<1>3. CASE WaveStep
  BY <1>3 DEF WaveStep, ShapeOK
<1>4. CASE Gather
  <2>1. ReadyNodes(graph, st, out) \subseteq Node
    BY DEF ReadyNodes
  <2>2. QED BY <1>4, <2>1 DEF Gather, ShapeOK
<1>5. CASE Restarts
  <2>1. Open \subseteq Status /\ "pending" \in Status /\ "absent" \in Verdict
    BY DEF Open, TERMINAL, Status, Verdict
  <2>2. st' \in [Node -> Status] /\ out' \in [Node -> Verdict]
    BY <1>5, <2>1 DEF Restarts, Restart, ShapeOK
  <2>3. QED BY <1>5, <2>2 DEF Restarts, Restart, ShapeOK
<1>6. QED BY <1>1, <1>2, <1>3, <1>4, <1>5 DEF AnyStep

LEMMA KindKept ==
    ASSUME ShapeOK, KindOK, OutOK, RowOK, AnyStep
    PROVE  KindOK'
<1>1. CASE NodeStep
  <2>1. PICK n \in Node, s \in Status, v \in Verdict :
          /\ Moves(n, s, v) /\ st[n] \in {"pending", "running"}
          /\ s \in {"waiting_approval", "rejected", "rejected-canceled"} => IsApproval(graph, n)
          /\ s \in {"running", "failed"} => n \in wave
    BY <1>1 DEF NodeStep, Status, Verdict
  <2>2. n \in graph.members
    BY <2>1 DEF KindOK
  <2>3. /\ st'[n] = s /\ graph' = graph /\ wave' = wave
        /\ \A m \in Node : m # n => st'[m] = st[m]
    BY <2>1, MovesChange
  <2>4. ASSUME NEW m \in Node
        PROVE  /\ st'[m] \in {"waiting_approval", "rejected", "rejected-canceled"} => IsApproval(graph, m)
               /\ st'[m] \in {"running", "failed"} => ~IsApproval(graph, m)
               /\ m \notin graph.members => st'[m] = "skipped"
    BY <2>1, <2>2, <2>3 DEF KindOK
  <2>5. QED BY <2>3, <2>4 DEF KindOK
<1>2. CASE RowStep \/ WaveStep
  BY <1>2 DEF RowStep, WaveStep, KindOK
<1>3. CASE Gather
  <2>1. \A n \in wave' : n \in Node /\ ~IsApproval(graph, n) /\ st[n] = "pending"
    BY <1>3 DEF Gather, ReadyNodes
  <2>2. \A n \in wave' : n \in graph.members
    BY <2>1 DEF KindOK
  <2>3. graph' = graph /\ st' = st
    BY <1>3 DEF Gather
  <2>4. QED BY <2>1, <2>2, <2>3 DEF KindOK
<1>4. CASE Restarts
  <2>1. graph' = graph /\ wave' = {}
    BY <1>4 DEF Restarts, Restart
  <2>2. ASSUME NEW m \in Node
        PROVE  /\ st'[m] \in {"waiting_approval", "rejected", "rejected-canceled"} => IsApproval(graph, m)
               /\ st'[m] \in {"running", "failed"} => ~IsApproval(graph, m)
               /\ m \notin graph.members => st'[m] = "skipped"
    BY <1>4, Restarted DEF KindOK, Active
  <2>3. QED BY <2>1, <2>2 DEF KindOK
<1>5. QED BY <1>1, <1>2, <1>3, <1>4 DEF AnyStep

LEMMA OutKept ==
    ASSUME ShapeOK, KindOK, OutOK, RowOK, AnyStep
    PROVE  OutOK'
<1>1. Kept /\ graph' = graph
  BY KeptLemma DEF AnyStep
<1>2. Wired(graph)
  BY Analysed DEF ShapeOK
\* A verdict that was required is still there.
<1>3. ASSUME NEW n \in Node, \A m \in graph.needs[n] : out[m] = "true"
      PROVE  \A m \in graph.needs[n] : out'[m] = "true"
  <2>1. ASSUME NEW m \in graph.needs[n]
        PROVE  out'[m] = "true"
    <3>1. m \in Node /\ out[m] = "true"
      BY <1>2, <1>3, <2>1 DEF Wired
    <3>2. st[m] \in Active
      BY <3>1 DEF OutOK
    <3>3. QED BY <1>1, <3>1, <3>2 DEF Kept, Active, TERMINAL
  <2>2. QED BY <2>1
<1>4. ASSUME NEW n \in Node,
             /\ st'[n] \notin Active => out'[n] = "absent"
             /\ st'[n] \in Active =>
                  IF IsApproval(graph, n) THEN out'[n] = (IF st'[n] = "done" THEN "true" ELSE "false")
                  ELSE out'[n] \in graph.says[n] /\ \A m \in graph.needs[n] : out[m] = "true"
      PROVE  /\ st'[n] \notin Active => out'[n] = "absent"
             /\ st'[n] \in Active =>
                  IF IsApproval(graph, n) THEN out'[n] = (IF st'[n] = "done" THEN "true" ELSE "false")
                  ELSE out'[n] \in graph.says[n] /\ \A m \in graph.needs[n] : out'[m] = "true"
  BY <1>3, <1>4
<1>5. SUFFICES ASSUME NEW n \in Node
               PROVE  /\ st'[n] \notin Active => out'[n] = "absent"
                      /\ st'[n] \in Active =>
                           IF IsApproval(graph, n) THEN out'[n] = (IF st'[n] = "done" THEN "true" ELSE "false")
                           ELSE out'[n] \in graph.says[n] /\ \A m \in graph.needs[n] : out[m] = "true"
  BY <1>1, <1>4 DEF OutOK
<1>6. CASE st'[n] = st[n] /\ out'[n] = out[n]
  BY <1>6 DEF OutOK
<1>7. CASE NodeStep
  <2>1. PICK k \in Node, s \in Status, v \in Verdict :
          /\ Moves(k, s, v)
          /\ \/ s \notin Active /\ v = "absent"
             \/ s \in Active /\ k \in wave /\ v \in graph.says[k] /\ \A m \in graph.needs[k] : out[m] = "true"
    BY <1>7 DEF NodeStep, Status, Verdict, Active
  <2>2. CASE n = k
    <3>1. st'[n] = s /\ out'[n] = v
      BY <2>1, <2>2, MovesChange
    <3>2. n \in wave => ~IsApproval(graph, n)
      BY DEF KindOK
    <3>3. QED BY <2>1, <2>2, <3>1, <3>2
  <2>3. CASE n # k
    BY <2>1, <2>3, <1>6, MovesChange
  <2>4. QED BY <2>2, <2>3
<1>8. CASE RowStep \/ WaveStep \/ Gather
  BY <1>6, <1>8 DEF RowStep, WaveStep, Gather
<1>9. CASE Restarts
  <2>1. CASE st[n] = "waiting_approval" /\ st'[n] = row[n] /\ row[n] \in Active
               /\ out'[n] = (IF row[n] = "done" THEN "true" ELSE "false")
    BY <2>1 DEF KindOK
  <2>2. CASE st'[n] = "pending" /\ out'[n] = "absent"
    BY <2>2 DEF Active
  <2>3. QED BY <1>6, <1>9, <2>1, <2>2, Restarted
<1>10. QED BY <1>7, <1>8, <1>9 DEF AnyStep

LEMMA RowKept ==
    ASSUME ShapeOK, KindOK, OutOK, RowOK, AnyStep
    PROVE  RowOK'
<1>1. SUFFICES ASSUME NEW n \in Node
               PROVE  /\ row'[n] \in TERMINAL =>
                           \/ row'[n] = st'[n] /\ rowOut'[n] = out'[n]
                           \/ /\ st'[n] = "waiting_approval" /\ row'[n] \in Active
                              /\ rowOut'[n] = (IF row'[n] = "done" THEN "true" ELSE "false")
                      /\ row'[n] = "waiting_approval" => st'[n] = "waiting_approval" /\ rowOut'[n] = "absent"
  BY DEF RowOK
<1>2. CASE NodeStep
  <2>1. PICK k \in Node, s \in Status, v \in Verdict : Moves(k, s, v) /\ st[k] \in {"pending", "running"}
    BY <1>2 DEF NodeStep, Status, Verdict
  <2>2. CASE n = k
    <3>1. row[n] \notin TERMINAL /\ row[n] # "waiting_approval"
      BY <2>1, <2>2 DEF RowOK, TERMINAL
    <3>2. QED BY <2>1, <3>1, MovesChange
  <2>3. CASE n # k
    BY <2>1, <2>3, MovesChange DEF RowOK
  <2>4. QED BY <2>2, <2>3
<1>3. CASE RowStep
  <2>1. st' = st /\ out' = out
    BY <1>3 DEF RowStep
  <2>2. PICK k \in Node :
          \/ /\ st[k] # "pending" /\ row[k] \notin TERMINAL
             /\ row' = [row EXCEPT ![k] = st[k]] /\ rowOut' = [rowOut EXCEPT ![k] = out[k]]
          \/ /\ row[k] = "waiting_approval"
             /\ \E s \in Decided :
                   /\ row' = [row EXCEPT ![k] = s]
                   /\ rowOut' = [rowOut EXCEPT ![k] = IF s = "done" THEN "true" ELSE "false"]
    BY <1>3 DEF RowStep
  <2>3. CASE n # k
    <3>1. row'[n] = row[n] /\ rowOut'[n] = rowOut[n]
      BY <2>2, <2>3 DEF ShapeOK
    <3>2. QED BY <2>1, <3>1 DEF RowOK
  <2>4. CASE n = k /\ row'[n] = st[n] /\ rowOut'[n] = out[n]
    BY <2>1, <2>4 DEF OutOK, Active
  <2>5. CASE n = k /\ row[n] = "waiting_approval"
               /\ \E s \in Decided : row'[n] = s /\ rowOut'[n] = IF s = "done" THEN "true" ELSE "false"
    <3>1. st[n] = "waiting_approval"
      BY <2>5 DEF RowOK
    <3>2. QED BY <2>1, <2>5, <3>1 DEF Decided, Active
  <2>6. CASE n = k
    BY <2>2, <2>4, <2>5, <2>6 DEF ShapeOK
  <2>7. QED BY <2>3, <2>6
<1>4. CASE WaveStep \/ Gather
  BY <1>4 DEF WaveStep, Gather, RowOK
<1>5. CASE Restarts
  <2>1. row' = row /\ rowOut' = rowOut
    BY <1>5 DEF Restarts, Restart
  <2>2. /\ st'[n] = IF row[n] \in Open THEN row[n] ELSE "pending"
        /\ out'[n] = IF row[n] \in Open THEN rowOut[n] ELSE "absent"
    BY <1>5 DEF Restarts, Restart
  <2>3. QED BY <2>1, <2>2 DEF RowOK, Open, TERMINAL
<1>6. QED BY <1>2, <1>3, <1>4, <1>5 DEF AnyStep

LEMMA CauseKept ==
    ASSUME ShapeOK, KindOK, OutOK, RowOK, CauseOK, AnyStep
    PROVE  CauseOK'
<1>1. Kept /\ graph' = graph
  BY KeptLemma DEF AnyStep
<1>2. SUFFICES ASSUME NEW n \in graph.members, st'[n] \notin {"pending", "skipped"}
               PROVE  JoinSatisfied(graph, st, out, n)
  BY <1>1, JoinKept DEF CauseOK
<1>3. n \in Node
  BY Analysed DEF ShapeOK, Wired
<1>4. CASE st[n] \notin {"pending", "skipped"}
  BY <1>4 DEF CauseOK
<1>5. CASE st[n] \in {"pending", "skipped"}
  <2>1. CASE NodeStep
    <3>1. PICK k \in Node, s \in Status, v \in Verdict :
            Moves(k, s, v) /\ (JoinSatisfied(graph, st, out, k) \/ s = "skipped" \/ st[k] = "running")
      BY <2>1 DEF NodeStep, Status, Verdict
    <3>2. QED BY <1>2, <1>3, <1>5, <3>1, MovesChange
  <2>2. CASE RowStep \/ WaveStep \/ Gather
    BY <1>2, <1>5, <2>2 DEF RowStep, WaveStep, Gather
  <2>3. CASE Restarts
    BY <1>2, <1>3, <1>5, <2>3, Restarted
  <2>4. QED BY <2>1, <2>2, <2>3 DEF AnyStep
<1>6. QED BY <1>4, <1>5

\* What is skipped in a step, and was not before, can no longer start, or a halt has ended the run.
LEMMA NewSkip ==
    ASSUME ShapeOK, KindOK, OutOK, RowOK, AnyStep, NEW n \in Node,
           st'[n] = "skipped", st[n] # "skipped", ~HaltTriggered(graph, st)
    PROVE  SourcesTerminal(graph, st, n) /\ ~JoinSatisfied(graph, st, out, n)
<1>1. CASE NodeStep
  <2>1. PICK k \in Node, s \in Status, v \in Verdict :
          /\ Moves(k, s, v)
          /\ s = "skipped" => \/ HaltTriggered(graph, st)
                              \/ SourcesTerminal(graph, st, k) /\ ~JoinSatisfied(graph, st, out, k)
    BY <1>1 DEF NodeStep, Status, Verdict
  <2>2. QED BY <2>1, MovesChange
<1>2. CASE RowStep \/ WaveStep \/ Gather
  BY <1>2 DEF RowStep, WaveStep, Gather
<1>3. CASE Restarts
  BY <1>3, Restarted DEF Active
<1>4. QED BY <1>1, <1>2, <1>3 DEF AnyStep

LEMMA SkipKept ==
    ASSUME ShapeOK, KindOK, OutOK, RowOK, SkipOK, AnyStep
    PROVE  SkipOK'
<1>1. Kept /\ graph' = graph
  BY KeptLemma DEF AnyStep
<1>2. SUFFICES ASSUME ~HaltTriggered(graph, st'), NEW n \in graph.members, st'[n] = "skipped"
               PROVE  SourcesTerminal(graph, st', n) /\ ~JoinSatisfied(graph, st', out', n)
  BY <1>1 DEF SkipOK
<1>3. n \in Node
  BY Analysed DEF ShapeOK, Wired
<1>4. ~HaltTriggered(graph, st)
  BY <1>1, <1>2, HaltKept
<1>5. SourcesTerminal(graph, st, n) /\ ~JoinSatisfied(graph, st, out, n)
  BY <1>2, <1>3, <1>4, NewSkip DEF SkipOK
<1>6. QED BY <1>1, <1>5, DeadKept

-----------------------------------------------------------------------------
(* What the analysis knows is true *)

\* What an active edge tells, and what its source knew and showed, is so.
LEMMA AlongTrue ==
    ASSUME ShapeOK, OutOK, FactOK, NEW n, NEW e \in InEdges(graph, n), EdgeActive(st, out, e),
           NEW m \in Node, NEW v \in Answer, Along(graph, Known(graph), e, m, v)
    PROVE  Ended(m, v)
<1>1. /\ e.source \in Node /\ e.source \in graph.members
      /\ st[e.source] \in Active /\ EvalCondition(e.when, out[e.source])
      /\ out[e.source] \in Verdict /\ "open" \notin Verdict
  BY SourcesOf DEF EdgeActive, Active, ShapeOK, Verdict
<1>2. CASE Tells(e, m, v)
  BY <1>1, <1>2 DEF Tells, Ended
<1>3. CASE m = e.source /\ v \in Verdict \ Sayable(graph, e.source)
  BY <1>1, <1>3 DEF Sayable, OutOK, Ended
<1>4. CASE ~IsApproval(graph, e.source) /\ m \in graph.needs[e.source] /\ v # "true"
  <2>1. out[m] = "true"
    BY <1>1, <1>4 DEF OutOK
  <2>2. st[m] \in Active
    BY <2>1 DEF OutOK
  <2>3. QED BY <1>4, <2>1, <2>2 DEF Ended
<1>5. CASE <<e.source, m, v>> \in Known(graph)
  BY <1>1, <1>5 DEF FactOK, Reached, Active
<1>6. QED BY <1>2, <1>3, <1>4, <1>5 DEF Along, Shows

LEMMA JoinTrue ==
    ASSUME ShapeOK, OutOK, FactOK, NEW n \in Node, JoinSatisfied(graph, st, out, n),
           NEW m \in Node, NEW v \in Answer, ByJoin(graph, Known(graph), n, m, v)
    PROVE  Ended(m, v)
<1>1. PICK e \in InEdges(graph, n) : EdgeActive(st, out, e) /\ Along(graph, Known(graph), e, m, v)
  BY DEF JoinSatisfied, ByJoin
<1>2. QED BY <1>1, AlongTrue

\* What a halt could follow does not start together with it, nor after it.
LEMMA NoHaltBeside ==
    ASSUME ShapeOK, KindOK, SkipOK, Gather, NEW n \in ReadyNodes(graph, st, out), ~IsHalt(graph, n),
           NEW h \in Node, IsHalt(graph, h), NEW e \in InEdges(graph, h), EdgeActive(st, out, e)
    PROVE  FALSE
<1>1. /\ st[h] \notin {"running", "failed"} /\ DueSkips(graph, st, out) = {}
      /\ n \in Node /\ st[n] = "pending"
  BY DEF Gather, ReadyNodes
<1>2. ~HaltTriggered(graph, st)
  BY <1>1 DEF DueSkips
<1>3. JoinSatisfied(graph, st, out, h) /\ ~IsApproval(graph, h) /\ h \in graph.members
  BY Analysed DEF ShapeOK, Wired, JoinSatisfied, IsHalt, IsApproval
<1>4. CASE st[h] = "pending"
  <2>1. NodeDecision(graph, st, out, h) = "ready"
    BY <1>3 DEF NodeDecision
  <2>2. QED BY <1>3, <1>4, <2>1 DEF ReadyNodes
<1>5. CASE st[h] = "skipped"
  BY <1>2, <1>3, <1>5 DEF SkipOK
<1>6. CASE st[h] = "done"
  BY <1>2, <1>6 DEF HaltTriggered
<1>7. CASE st[h] \in {"waiting_approval", "rejected", "rejected-canceled"}
  BY <1>3, <1>7 DEF KindOK
<1>8. st[h] \in Status
  BY DEF ShapeOK
<1>9. QED BY <1>1, <1>4, <1>5, <1>6, <1>7, <1>8 DEF Status

LEMMA NewReach ==
    ASSUME ShapeOK, KindOK, OutOK, RowOK, AnyStep, NEW n \in Node, Reached(n)', ~Reached(n)
    PROVE  /\ JoinSatisfied(graph, st, out, n)
           /\ IsApproval(graph, n) \/ (Gather /\ n \in ReadyNodes(graph, st, out))
<1>1. CASE NodeStep
  <2>1. PICK k \in Node, s \in Status, v \in Verdict :
          /\ Moves(k, s, v)
          /\ \/ k \in wave \/ s = "skipped"
             \/ IsApproval(graph, k) /\ JoinSatisfied(graph, st, out, k)
    BY <1>1 DEF NodeStep, Status, Verdict
  <2>2. QED BY <2>1, MovesChange DEF Reached
<1>2. CASE RowStep \/ WaveStep
  BY <1>2 DEF RowStep, WaveStep, Reached
<1>3. CASE Gather
  <2>1. n \in ReadyNodes(graph, st, out)
    BY <1>3 DEF Gather, Reached
  <2>2. NodeDecision(graph, st, out, n) = "ready"
    BY <2>1 DEF ReadyNodes
  <2>3. QED BY <1>3, <2>1, <2>2 DEF NodeDecision
<1>4. CASE Restarts
  <2>1. wave' = wave
    BY <1>4 DEF Restarts, Restart
  <2>2. QED BY <1>4, <2>1, Restarted DEF Reached
<1>5. QED BY <1>1, <1>2, <1>3, <1>4 DEF AnyStep

LEMMA EndedKept ==
    ASSUME Kept, NEW m \in Node, NEW v, Ended(m, v)
    PROVE  Ended(m, v)'
  BY DEF Kept, Ended, Active, TERMINAL

LEMMA FactKept ==
    ASSUME ShapeOK, KindOK, OutOK, RowOK, SkipOK, FactOK, AnyStep
    PROVE  FactOK'
<1>1. Kept /\ graph' = graph
  BY KeptLemma DEF AnyStep
<1>2. SUFFICES ASSUME NEW n \in graph.members, NEW m \in Node, NEW v \in Answer,
                      Reached(n)', <<n, m, v>> \in Known(graph)
               PROVE  Ended(m, v)
  BY <1>1, EndedKept DEF FactOK
<1>3. n \in Node
  BY Analysed DEF ShapeOK, Wired
<1>4. CASE Reached(n)
  BY <1>2, <1>4 DEF FactOK
<1>5. CASE ~Reached(n)
  <2>1. /\ JoinSatisfied(graph, st, out, n)
        /\ IsApproval(graph, n) \/ (Gather /\ n \in ReadyNodes(graph, st, out))
    BY <1>2, <1>3, <1>5, NewReach
  <2>2. Learnt(graph, Known(graph), n, m, v)
    BY <1>2, Analysed DEF ShapeOK, Sound
  <2>3. CASE ByJoin(graph, Known(graph), n, m, v)
    BY <1>3, <2>1, <2>3, JoinTrue
  <2>4. CASE /\ ~IsApproval(graph, n) /\ ~IsHalt(graph, n) /\ Halts(graph, m, v)
             /\ ByJoin(graph, Known(graph), n, m, "open")
    <3>1. st[m] \in Active
      BY <1>3, <2>1, <2>4, JoinTrue DEF Answer, Ended
    <3>2. PICK h \in Node : /\ IsHalt(graph, h)
                            /\ \E e \in InEdges(graph, h) : e.source = m /\ EvalCondition(e.when, v)
      BY <2>4 DEF Halts
    <3>3. PICK e \in InEdges(graph, h) : e.source = m /\ EvalCondition(e.when, v)
      BY <3>2
    <3>4. out[m] = v => EdgeActive(st, out, e)
      BY <3>1, <3>3 DEF EdgeActive, Active
    <3>5. out[m] # v
      BY <2>1, <2>4, <3>2, <3>3, <3>4, NoHaltBeside
    <3>6. QED BY <3>1, <3>5 DEF Ended
  <2>5. QED BY <2>2, <2>3, <2>4 DEF Learnt
<1>6. QED BY <1>4, <1>5

-----------------------------------------------------------------------------
(* What a node reads *)

\* Of some nodes of a workflow, one lies lowest.
LEMMA Lowest ==
    ASSUME NEW g, \A n \in Node : Rank(g, n) \in Nat, NEW S \in SUBSET Node, S # {}
    PROVE  \E n \in S : \A m \in S : ~(Rank(g, m) < Rank(g, n))
<1> DEFINE R == {p \in Nat \X Nat : p[1] < p[2]}
           T == {Rank(g, n) : n \in S}
<1>1. IsWellFoundedOn(R, Nat)
  BY NatLessThanWellFounded DEF OpToRel
<1>2. T \subseteq Nat /\ T # {}
  OBVIOUS
<1>3. PICK x \in T : \A y \in T : ~(<<y, x>> \in R)
  BY <1>1, <1>2, WFMin
<1>4. PICK n \in S : x = Rank(g, n)
  OBVIOUS
<1>5. ASSUME NEW m \in S, Rank(g, m) < Rank(g, n)
      PROVE  FALSE
  <2>1. Rank(g, m) \in T /\ Rank(g, m) \in Nat /\ x \in Nat
    BY <1>2
  <2>2. <<Rank(g, m), x>> \in R
    BY <1>4, <1>5, <2>1
  <2>3. QED BY <1>3, <2>1, <2>2
<1>6. QED BY <1>5

\* When a wave is gathered, what an active edge cuts off is skipped already.
LEMMA BlockedSkipped ==
    ASSUME ShapeOK, KindOK, CauseOK, Gather, NEW n, NEW e \in InEdges(graph, n), EdgeActive(st, out, e)
    PROVE  \A m \in Blocked(graph, e) : st[m] = "skipped"
<1> DEFINE S == {m \in Blocked(graph, e) : st[m] # "skipped"}
<1>1. /\ e \in graph.edges /\ \A m \in Node : Rank(graph, m) \in Nat
      /\ \A x \in graph.edges : Rank(graph, x.source) < Rank(graph, x.target)
      /\ \A m \in Blocked(graph, e) : m \in graph.members /\ CutOff(graph, e, Blocked(graph, e), m)
      /\ graph.members \subseteq Node
  BY Analysed DEF ShapeOK, Fed, Wired, InEdges
<1>2. SUFFICES ASSUME S # {}
               PROVE  FALSE
  OBVIOUS
<1>3. PICK m \in S : \A k \in S : ~(Rank(graph, k) < Rank(graph, m))
  BY <1>1, <1>2, Lowest
<1>4. /\ m \in Node /\ m \in graph.members /\ st[m] # "skipped"
      /\ graph.join[m] = "any" /\ InEdges(graph, m) # {}
      /\ \A x \in InEdges(graph, m) : x.source \in Blocked(graph, e) \/ Against(e, x)
  BY <1>1, <1>3 DEF CutOff
\* Every edge to it is settled, and none is active.
<1>5. ASSUME NEW x \in InEdges(graph, m)
      PROVE  st[x.source] \in TERMINAL /\ ~EdgeActive(st, out, x)
  <2>1. CASE Against(e, x)
    <3>1. x.source = e.source /\ st[e.source] \in {"done", "rejected", "rejected-canceled"}
          /\ EvalCondition(e.when, out[e.source]) /\ out[e.source] \in Verdict
      BY <2>1, SourcesOf DEF Against, EdgeActive, ShapeOK
    <3>2. ~EvalCondition(x.when, out[x.source])
      BY <2>1, <3>1 DEF Against
    <3>3. QED BY <3>1, <3>2 DEF EdgeActive, TERMINAL
  <2>2. CASE x.source \in Blocked(graph, e)
    <3>1. Rank(graph, x.source) < Rank(graph, m)
      BY <1>1 DEF InEdges
    <3>2. st[x.source] = "skipped"
      BY <1>3, <2>2, <3>1
    <3>3. QED BY <3>2 DEF EdgeActive, TERMINAL
  <2>3. QED BY <1>4, <2>1, <2>2
<1>6. ~JoinSatisfied(graph, st, out, m) /\ SourcesTerminal(graph, st, m)
  BY <1>4, <1>5 DEF JoinSatisfied, SourcesTerminal, Upstreams
<1>7. st[m] = "pending"
  BY <1>4, <1>6 DEF CauseOK
<1>8. NodeDecision(graph, st, out, m) = "skipped"
  BY <1>6 DEF NodeDecision
<1>9. DueApprovals(graph, st, out) = {} /\ DueSkips(graph, st, out) = {}
  BY DEF Gather
<1>10. CASE IsApproval(graph, m)
  BY <1>4, <1>7, <1>8, <1>9, <1>10 DEF DueApprovals
<1>11. CASE ~IsApproval(graph, m)
  BY <1>4, <1>7, <1>8, <1>9, <1>11 DEF DueSkips
<1>12. QED BY <1>10, <1>11

Reads(n) == graph.reads[n] \ (IF graph.name = "scenario1" THEN Either ELSE {})

LEMMA FedKept ==
    ASSUME ShapeOK, KindOK, OutOK, RowOK, CauseOK, SkipOK, FactOK, FedOK, AnyStep, FactOK'
    PROVE  FedOK'
<1>1. Kept /\ graph' = graph
  BY KeptLemma DEF AnyStep
<1>2. /\ graph.members \subseteq Node
      /\ \A n \in graph.members : \A m \in Reads(n) : m \in Node /\ Feeds(graph, Known(graph), n, m)
  BY Analysed DEF ShapeOK, Wired, Fed, Reads
<1>3. SUFFICES ASSUME NEW n \in graph.members, NEW m \in Reads(n), Reached(n)'
               PROVE  st'[m] \in TERMINAL
  BY <1>1 DEF FedOK, Reads
<1>4. n \in Node /\ m \in Node
  BY <1>2
<1>5. SUFFICES ASSUME st[m] \notin TERMINAL, st'[m] \notin TERMINAL
               PROVE  FALSE
  BY <1>1, <1>4 DEF Kept
<1>6. CASE Reached(n)
  BY <1>3, <1>5, <1>6 DEF FedOK, Reads
<1>7. CASE ~Reached(n)
  <2>1. /\ JoinSatisfied(graph, st, out, n)
        /\ IsApproval(graph, n) \/ (Gather /\ n \in ReadyNodes(graph, st, out))
    BY <1>3, <1>4, <1>7, NewReach
  <2>2. CASE <<n, m, "open">> \in Known(graph)
    <3>1. Ended(m, "open")'
      BY <1>1, <1>3, <1>4, <2>2 DEF FactOK, Answer
    <3>2. QED BY <1>5, <3>1 DEF Ended, Active, TERMINAL
  <2>3. CASE /\ ~IsApproval(graph, n) /\ graph.join[n] = "any" /\ InEdges(graph, n) # {}
             /\ \A e \in InEdges(graph, n) : \/ Along(graph, Known(graph), e, m, "open")
                                             \/ m \in Blocked(graph, e)
    <3>1. PICK e \in InEdges(graph, n) : EdgeActive(st, out, e)
      BY <2>1, <2>3 DEF JoinSatisfied
    <3>2. CASE Along(graph, Known(graph), e, m, "open")
      <4>1. Ended(m, "open")
        BY <1>4, <3>1, <3>2, AlongTrue DEF Answer
      <4>2. QED BY <1>5, <4>1 DEF Ended, Active, TERMINAL
    <3>3. CASE m \in Blocked(graph, e)
      <4>1. st[m] = "skipped"
        BY <2>1, <2>3, <3>1, <3>3, BlockedSkipped
      <4>2. QED BY <1>5, <4>1 DEF TERMINAL
    <3>4. QED BY <2>3, <3>2, <3>3
  <2>4. QED BY <1>2, <2>2, <2>3 DEF Feeds
<1>8. QED BY <1>6, <1>7

-----------------------------------------------------------------------------
(* Why a node was skipped *)

LEMMA ExcusedKept ==
    ASSUME Kept, graph' = graph, Excused
    PROVE  Excused'
  BY DEF Kept, Excused, Silent, TERMINAL

LEMMA AccountedKept ==
    ASSUME Kept, graph' = graph, NEW n, Accounted(n)
    PROVE  Accounted(n)'
  BY DEF Kept, Accounted, Active, TERMINAL

\* What a source has said is an excuse, or one of the things it can say that are none.
LEMMA SaidOrExcused ==
    ASSUME ShapeOK, KindOK, OutOK, ~Excused, NEW s \in Node, st[s] \in Active
    PROVE  out[s] \in Verdict /\ out[s] \in Sayable(graph, s) /\ ~Excuse(graph, s, out[s])
<1>1. out[s] \in Verdict
  BY DEF ShapeOK
<1>2. out[s] \in Sayable(graph, s)
  BY DEF OutOK, Sayable
<1>3. CASE ~IsApproval(graph, s) /\ out[s] = "absent" /\ graph.says[s] # {"absent"}
  <2>1. st[s] = "done"
    BY <1>3 DEF KindOK, Active
  <2>2. QED BY <1>3, <2>1 DEF Excused, Silent
<1>4. CASE s \in graph.abort /\ out[s] = "false"
  <2>1. IsApproval(graph, s)
    BY <1>4, Analysed DEF ShapeOK, Wired
  <2>2. st[s] \in {"rejected", "rejected-canceled"}
    BY <1>4, <2>1 DEF OutOK, Active
  <2>3. QED BY <1>4, <2>2 DEF Excused
<1>5. QED BY <1>1, <1>2, <1>3, <1>4 DEF Excuse

\* A node that can no longer start is accounted for by what accounts for its sources.
LEMMA SkipAccounted ==
    ASSUME ShapeOK, KindOK, OutOK, ReasonOK, ~HaltTriggered(graph, st), ~Excused,
           NEW n \in graph.members, SourcesTerminal(graph, st, n), ~JoinSatisfied(graph, st, out, n)
    PROVE  Accounted(n)
<1>1. InEdges(graph, n) # {}
  BY DEF JoinSatisfied
<1>2. ASSUME NEW s \in Upstreams(graph, n)
      PROVE  /\ s \in Node /\ s \in graph.members
             /\ st[s] \in Active \/ (st[s] = "skipped" /\ Accounted(s))
  BY <1>2, SourcesOf DEF Upstreams, SourcesTerminal, TERMINAL, Active, ReasonOK
<1>3. CASE graph.join[n] = "all" /\ \A e \in InEdges(graph, n) :
             e.source \in graph.required[n] => Missed(graph, Causes(graph), e) \subseteq Causes(graph)
  <2>1. PICK e \in InEdges(graph, n) : e.source \in graph.required[n] /\ ~EdgeActive(st, out, e)
    BY <1>3 DEF JoinSatisfied
  <2>2. /\ e.source \in Upstreams(graph, n) /\ e.target = n
        /\ Missed(graph, Causes(graph), e) \subseteq Causes(graph)
    BY <1>3, <2>1 DEF Upstreams, InEdges
  <2>3. CASE st[e.source] \in Active
    <3>1. ~EvalCondition(e.when, out[e.source])
      BY <2>1, <2>3 DEF EdgeActive, Active
    <3>2. out[e.source] \in Verdict /\ <<n, e.source, out[e.source]>> \in Causes(graph)
      BY <1>2, <2>2, <2>3, <3>1, SaidOrExcused DEF Missed
    <3>3. QED BY <1>2, <2>2, <2>3, <3>2 DEF Accounted
  <2>4. CASE st[e.source] = "skipped" /\ Accounted(e.source)
    <3>1. PICK s \in Node, v \in Verdict :
            <<e.source, s, v>> \in Causes(graph) /\ st[s] \in Active /\ out[s] = v
      BY <2>4 DEF Accounted
    <3>2. <<n, s, v>> \in Missed(graph, Causes(graph), e)
      BY <2>2, <3>1 DEF Missed
    <3>3. QED BY <2>2, <3>1, <3>2 DEF Accounted
  <2>5. QED BY <1>2, <2>2, <2>3, <2>4
<1>4. CASE /\ graph.join[n] = "any"
           /\ \E s \in Upstreams(graph, n) : Behind(graph, Causes(graph), n, s) \subseteq Causes(graph)
  <2>1. PICK s \in Upstreams(graph, n) : Behind(graph, Causes(graph), n, s) \subseteq Causes(graph)
    BY <1>4
  <2>2. ASSUME NEW u \in Node, st[u] \in Active
        PROVE  ~Wakes(graph, n, u, out[u])
    BY <1>4, <2>2 DEF Wakes, JoinSatisfied, EdgeActive, Active
  <2>3. CASE st[s] \in Active
    <3>1. out[s] \in Verdict /\ out[s] \in Quiet(graph, n, s)
      BY <1>2, <2>2, <2>3, SaidOrExcused DEF Quiet
    <3>2. <<n, s, out[s]>> \in Causes(graph)
      BY <2>1, <3>1 DEF Behind
    <3>3. QED BY <1>2, <2>3, <3>1, <3>2 DEF Accounted
  <2>4. CASE st[s] = "skipped" /\ Accounted(s)
    <3>1. PICK u \in Node, v \in Verdict :
            <<s, u, v>> \in Causes(graph) /\ st[u] \in Active /\ out[u] = v
      BY <2>4 DEF Accounted
    <3>2. ~Wakes(graph, n, u, v)
      BY <2>2, <3>1
    <3>3. <<n, u, v>> \in Behind(graph, Causes(graph), n, s)
      BY <3>1, <3>2 DEF Behind
    <3>4. QED BY <2>1, <3>1, <3>3 DEF Accounted
  <2>5. QED BY <1>2, <2>3, <2>4
<1>5. QED BY <1>1, <1>3, <1>4, Analysed DEF ShapeOK, Explains

LEMMA ReasonKept ==
    ASSUME ShapeOK, KindOK, OutOK, RowOK, SkipOK, ReasonOK, AnyStep
    PROVE  ReasonOK'
<1>1. Kept /\ graph' = graph
  BY KeptLemma DEF AnyStep
<1>2. SUFFICES ASSUME ~HaltTriggered(graph, st'), ~Excused', NEW n \in graph.members, st'[n] = "skipped"
               PROVE  Accounted(n)
  BY <1>1, AccountedKept DEF ReasonOK
<1>3. ~HaltTriggered(graph, st) /\ ~Excused
  BY <1>1, <1>2, HaltKept, ExcusedKept
<1>4. n \in Node
  BY Analysed DEF ShapeOK, Wired
<1>5. CASE st[n] = "skipped"
  BY <1>3, <1>5 DEF ReasonOK
<1>6. CASE st[n] # "skipped"
  BY <1>2, <1>3, <1>4, <1>6, NewSkip, SkipAccounted
<1>7. QED BY <1>5, <1>6

-----------------------------------------------------------------------------
(* The invariant *)

LEMMA InitInv == SeedInit => IInv
<1> SUFFICES ASSUME SeedInit
             PROVE  IInv
  OBVIOUS
<1>1. /\ graph \in GraphSet /\ wave = {}
      /\ \A n \in Node : /\ st[n] = IF n \in graph.members THEN "pending" ELSE "skipped"
                         /\ row[n] = IF n \in graph.members THEN "none" ELSE "skipped"
                         /\ out[n] = "absent" /\ rowOut[n] = "absent"
  BY DEF SeedInit
<1>2. ShapeOK
  BY DEF SeedInit, ShapeOK, Status, Verdict, Open, TERMINAL
<1>3. graph.members \subseteq Node
  BY <1>2, Analysed DEF ShapeOK, Wired
<1>4. KindOK
  BY <1>1 DEF KindOK
<1>5. OutOK
  BY <1>1 DEF OutOK, Active
<1>6. RowOK
  BY <1>1 DEF RowOK, TERMINAL
<1>7. \A n \in graph.members : st[n] = "pending" /\ ~Reached(n)
  BY <1>1, <1>3 DEF Reached
<1>8. CauseOK /\ SkipOK /\ FactOK /\ FedOK /\ ReasonOK
  BY <1>7 DEF CauseOK, SkipOK, FactOK, FedOK, ReasonOK
<1>9. QED BY <1>2, <1>4, <1>5, <1>6, <1>8 DEF IInv

LEMMA StepInv == IInv /\ [AnyOrderNext]_absVars => IInv'
<1> SUFFICES ASSUME IInv, [AnyOrderNext]_absVars
             PROVE  IInv'
  OBVIOUS
<1>1. CASE AnyOrderNext
  <2>1. AnyStep
    BY <1>1, Steps DEF IInv, AnyStep
  <2>2. ShapeOK' /\ KindOK' /\ OutOK' /\ RowOK' /\ CauseOK' /\ SkipOK' /\ FactOK'
    BY <2>1, ShapeKept, KindKept, OutKept, RowKept, CauseKept, SkipKept, FactKept DEF IInv
  <2>3. FedOK' /\ ReasonOK'
    BY <2>1, <2>2, FedKept, ReasonKept DEF IInv
  <2>4. QED BY <2>2, <2>3 DEF IInv
<1>2. CASE UNCHANGED absVars
  <2>1. /\ graph' = graph /\ st' = st /\ out' = out /\ row' = row /\ rowOut' = rowOut /\ wave' = wave
    BY <1>2 DEF absVars
  <2>2. ShapeOK' /\ KindOK' /\ OutOK' /\ RowOK'
    BY <2>1 DEF IInv, ShapeOK, KindOK, OutOK, RowOK
  <2>3. CauseOK' /\ SkipOK'
    BY <2>1 DEF IInv, CauseOK, SkipOK
  <2>4. FactOK' /\ FedOK'
    BY <2>1 DEF IInv, FactOK, FedOK, Reached, Ended
  <2>5. ReasonOK'
    BY <2>1 DEF IInv, ReasonOK, Excused, Silent, Accounted
  <2>6. QED BY <2>2, <2>3, <2>4, <2>5 DEF IInv
<1>3. QED BY <1>1, <1>2

\* In every run, what the analysis knows before a node starts is true when it is gathered or
\* asked, and stays true; and what is skipped is accounted for.
THEOREM Invariance == AnyOrderSpec => []IInv
  BY InitInv, StepInv, PTL DEF AnyOrderSpec

-----------------------------------------------------------------------------
(* The properties *)

\* What is ensured before a node starts was said.
LEMMA EnsuredSaid ==
    ASSUME IInv, NEW n \in graph.members, Started(n), NEW m, NEW v \in Verdict,
           Ensures(Known(graph), n, m, v)
    PROVE  st[m] \in Active /\ out[m] = v /\ (v = "true" => st[m] = "done")
<1>1. m \in Node /\ Reached(n) /\ out[m] \in Verdict
  BY DEF Ensures, Started, Reached, IInv, ShapeOK
<1>2. \A u \in Answer \ {v} : Ended(m, u)
  BY <1>1 DEF IInv, FactOK, Ensures
<1>3. "open" \in Answer \ {v}
  BY DEF Answer, Verdict
<1>4. st[m] \in Active
  BY <1>2, <1>3 DEF Ended
<1>5. out[m] = v
  BY <1>1, <1>2 DEF Ended, Answer
<1>6. v = "true" => st[m] = "done"
  BY <1>1, <1>4, <1>5 DEF IInv, OutOK, KindOK, Active
<1>7. QED BY <1>4, <1>5, <1>6

\* Nothing is deployed and no ticket is closed as delivered past a gate: the three approvals,
\* the tests, the review, the commit, the merge and the build said yes (ShippedIsMade).
LEMMA InvShipped ==
    ASSUME IInv
    PROVE  ShippedIsMade
<1>1. Gated(graph, Known(graph))
  BY Analysed DEF IInv, ShapeOK
<1>2. ASSUME Started("deploy"), NEW m \in Made
      PROVE  Said(m)
  <2>1. "deploy" \in graph.members
    BY <1>2 DEF Started
  <2>2. Ensures(Known(graph), "deploy", m, "true")
    BY <1>1, <1>2, <2>1 DEF Gated
  <2>3. QED BY <1>2, <2>1, <2>2, EnsuredSaid DEF Said, Verdict
<1>3. ASSUME NEW last \in {"ticket-closed", "ticket-done"}, Started(last), graph.name # "scenario1",
             NEW m \in Made \cup {"deploy", "verify-deploy"}
      PROVE  Said(m)
  <2>1. last \in graph.members
    BY <1>3 DEF Started
  <2>2. Ensures(Known(graph), last, m, "true")
    BY <1>1, <1>3, <2>1 DEF Gated
  <2>3. QED BY <1>3, <2>1, <2>2, EnsuredSaid DEF Said, Verdict
<1>4. QED BY <1>2, <1>3 DEF ShippedIsMade, Made

\* After a diagnosis that says its evidence is insufficient, or finds no code, nothing of the
\* repair starts or is asked (InsufficientHolds).
LEMMA InvInsufficient ==
    ASSUME IInv
    PROVE  InsufficientHolds
<1>1. Cut(graph, Known(graph)) /\ graph.members \subseteq Node
  BY Analysed DEF IInv, ShapeOK, Wired
<1>2. ASSUME NEW c \in Insufficient, out[c[1]] = c[2], NEW n \in graph.members \ DOMAIN ScenarioOneDiagnosis
      PROVE  st[n] \in {"pending", "skipped"}
  <2>1. c[1] \in Node /\ c[2] \in {"true", "false"}
    BY <1>1, <1>2 DEF Cut, Insufficient
  <2>2. c[1] \in graph.members
    <3>1. c[1] \notin graph.members => out[c[1]] = "absent"
      BY <2>1 DEF IInv, KindOK, OutOK, Active
    <3>2. QED BY <1>2, <2>1, <3>1
  <2>3. <<n, c[1], c[2]>> \in Known(graph)
    BY <1>1, <1>2, <2>2 DEF Cut
  <2>4. ~Ended(c[1], c[2])
    BY <1>2 DEF Ended
  <2>5. c[2] \in Answer
    BY <2>1 DEF Answer, Verdict
  <2>6. ~Reached(n)
    BY <1>2, <2>1, <2>3, <2>4, <2>5 DEF IInv, FactOK
  <2>7. QED BY <2>6 DEF Reached
<1>3. ASSUME out["scope"] = "true" \/ out["rca"] = "true" \/ out["locate"] = "false"
      PROVE  \E c \in Insufficient : out[c[1]] = c[2]
  <2>1. /\ <<"scope", "true">> \in Insufficient /\ <<"rca", "true">> \in Insufficient
        /\ <<"locate", "false">> \in Insufficient
    BY DEF Insufficient
  <2>2. QED BY <1>3, <2>1
<1>4. QED BY <1>2, <1>3 DEF InsufficientHolds

\* What a node reads has ended, or was skipped, before it starts (InputsSettled).
LEMMA InvInputs ==
    ASSUME IInv
    PROVE  InputsSettled
  BY DEF IInv, FedOK, InputsSettled, Started, Reached

\* No approval is asked while a halt may still follow.
LEMMA NoHaltAfterAsking ==
    ASSUME IInv, NEW r \in Node, IsApproval(graph, r), Reached(r),
           NEW h \in Node, IsHalt(graph, h), st[h] = "done"
    PROVE  FALSE
<1>1. r \in graph.members /\ h \in graph.members /\ Closed(graph, Known(graph), Causes(graph))
  BY Analysed DEF IInv, ShapeOK, Wired
<1>2. JoinSatisfied(graph, st, out, h) /\ graph.join[h] = "any" /\ InEdges(graph, h) # {}
  BY <1>1, Analysed DEF IInv, ShapeOK, CauseOK, Wired
<1>3. PICK e \in InEdges(graph, h) : EdgeActive(st, out, e)
  BY <1>2 DEF JoinSatisfied
<1>4. /\ e.source \in Node /\ out[e.source] \in Verdict /\ out[e.source] \in Answer
      /\ EvalCondition(e.when, out[e.source])
  BY <1>3, SourcesOf DEF IInv, ShapeOK, EdgeActive, Answer
<1>5. Halts(graph, e.source, out[e.source])
  BY <1>3, <1>4 DEF Halts
<1>6. <<r, e.source, out[e.source]>> \in Known(graph)
  BY <1>1, <1>4, <1>5 DEF Closed
<1>7. Ended(e.source, out[e.source])
  BY <1>1, <1>4, <1>6 DEF IInv, FactOK
<1>8. QED BY <1>7 DEF Ended

\* A halt that was woken has ended the run by the time all nodes are settled.
LEMMA WokenHaltDone ==
    ASSUME IInv, AllTerminal(st), NEW s \in Node, st[s] \in Active, Halts(graph, s, out[s])
    PROVE  HaltTriggered(graph, st)
<1>1. PICK h \in Node : /\ IsHalt(graph, h)
                        /\ \E e \in InEdges(graph, h) : e.source = s /\ EvalCondition(e.when, out[s])
  BY DEF Halts
<1>2. h \in graph.members /\ graph.join[h] = "any" /\ ~IsApproval(graph, h)
  BY <1>1, Analysed DEF IInv, ShapeOK, Wired, IsHalt, IsApproval
<1>3. JoinSatisfied(graph, st, out, h)
  BY <1>1, <1>2 DEF JoinSatisfied, EdgeActive, Active
<1>4. st[h] # "skipped" \/ HaltTriggered(graph, st)
  BY <1>2, <1>3 DEF IInv, SkipOK
<1>5. st[h] \in {"done", "skipped"}
  BY <1>2 DEF AllTerminal, TERMINAL, IInv, KindOK
<1>6. QED BY <1>1, <1>4, <1>5 DEF HaltTriggered

\* A run listed as halted had nothing rejected; one listed as completed, or rejected by hand
\* only, was recapitulated, unless an agent that had to give a verdict gave none (Concludes).
LEMMA InvConcludes ==
    ASSUME IInv
    PROVE  Concludes
<1> SUFFICES ASSUME Settled, AllTerminal(st), ~RejectedAbort(graph, st)
             PROVE  /\ RunOutcome(graph, row) = "halted" => RejectedNodes(row) = {}
                    /\ RunOutcome(graph, row) = "completed" \/ RejectReasons(row) = {"manual"}
                          => st["recap"] = "done"
                             \/ \E n \in Node : st[n] = "done" /\ out[n] = "absent"
                                                  /\ graph.says[n] # {"absent"}
  BY DEF Concludes, Summary
<1>1. ASSUME NEW n \in Node
      PROVE  row[n] = st[n] /\ st[n] \in TERMINAL
  BY DEF Settled, Unrecorded, Recorded, AllTerminal, TERMINAL, Open
<1>2. ASSUME NEW r \in RejectedNodes(row)
      PROVE  /\ r \in Node /\ IsApproval(graph, r) /\ Reached(r)
             /\ st[r] \in {"rejected", "rejected-canceled"}
  BY <1>1, <1>2 DEF RejectedNodes, IInv, KindOK, Reached
<1>3. ASSUME HaltTriggered(graph, st)
      PROVE  RejectedNodes(row) = {}
  BY <1>2, <1>3, NoHaltAfterAsking DEF HaltTriggered
<1>4. HaltedNodes(graph, row) # {} <=> HaltTriggered(graph, st)
  BY <1>1 DEF HaltedNodes, HaltTriggered
<1>5. RunOutcome(graph, row) = "halted" => RejectedNodes(row) = {}
  BY <1>3, <1>4 DEF RunOutcome
<1>6. ASSUME RunOutcome(graph, row) = "completed" \/ RejectReasons(row) = {"manual"},
             ~\E n \in Node : Silent(n)
      PROVE  st["recap"] = "done"
  <2>1. ~HaltTriggered(graph, st)
    <3>1. CASE RunOutcome(graph, row) = "completed"
      BY <1>4, <3>1 DEF RunOutcome
    <3>2. CASE RejectReasons(row) = {"manual"}
      BY <1>3, <3>2 DEF RejectReasons
    <3>3. QED BY <1>6, <3>1, <3>2
  <2>2. ASSUME NEW n \in Node
        PROVE  st[n] # "rejected-canceled"
    <3>1. CASE RunOutcome(graph, row) = "completed"
      BY <1>1, <3>1 DEF RunOutcome, RejectedNodes
    <3>2. CASE RejectReasons(row) = {"manual"}
      <4>1. ASSUME row[n] = "rejected-canceled"
            PROVE  FALSE
        BY <3>2, <4>1 DEF RejectReasons, RejectedNodes
      <4>2. QED BY <1>1, <4>1
    <3>3. QED BY <1>6, <3>1, <3>2
  <2>3. ~Excused
    BY <1>6, <2>2, Analysed DEF Excused, RejectedAbort
  <2>4. "recap" \in graph.members /\ "recap" \in Node /\ ~IsApproval(graph, "recap")
    BY Analysed DEF IInv, ShapeOK, Closed, Wired
  <2>5. ASSUME st["recap"] = "skipped"
        PROVE  FALSE
    <3>1. Accounted("recap")
      BY <2>1, <2>3, <2>4, <2>5 DEF IInv, ReasonOK
    <3>2. PICK s \in Node, v \in Verdict :
            <<"recap", s, v>> \in Causes(graph) /\ st[s] \in Active /\ out[s] = v
      BY <3>1 DEF Accounted
    <3>3. Halts(graph, s, v)
      BY <3>2, Analysed DEF IInv, ShapeOK, Closed
    <3>4. QED BY <2>1, <3>2, <3>3, WokenHaltDone
  <2>6. st["recap"] \in {"done", "skipped"}
    BY <1>1, <2>4 DEF TERMINAL, IInv, KindOK
  <2>7. QED BY <2>5, <2>6
<1>7. QED BY <1>5, <1>6 DEF Silent

-----------------------------------------------------------------------------
(* The theorems *)

\* The four properties hold in whatever order scans, writes, decisions and tasks come, as they
\* do in the executor.
THEOREM AnyOrderIsSafe ==
    AnyOrderSpec => [](ShippedIsMade /\ InsufficientHolds /\ InputsSettled /\ Concludes)
<1>1. IInv => ShippedIsMade /\ InsufficientHolds /\ InputsSettled /\ Concludes
  BY InvShipped, InvInsufficient, InvInputs, InvConcludes
<1>2. QED BY <1>1, Invariance, PTL

\* No node is rolled out and no ticket closed as delivered unless approvals, tests, review,
\* commit, merge and build of this run said yes.
THEOREM ShippedWasMade == SeedSpec => []ShippedIsMade
  BY AnyOrderIsSafe, SeedSpecIsOne, PTL

\* A diagnosis that is insufficient ends there.
THEOREM InsufficientEnds == SeedSpec => []InsufficientHolds
  BY AnyOrderIsSafe, SeedSpecIsOne, PTL

\* Nodes start on inputs that are settled.
THEOREM InputsAreSettled == SeedSpec => []InputsSettled
  BY AnyOrderIsSafe, SeedSpecIsOne, PTL

\* The report of a run that is done tells what happened.
THEOREM ReportIsTrue == SeedSpec => []Concludes
  BY AnyOrderIsSafe, SeedSpecIsOne, PTL
=============================================================================
