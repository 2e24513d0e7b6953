----------------------------- MODULE DagExecutor ------------------------------
(***************************************************************************)
(* DAGExecutor (executor/dag_executor.py): the run() loop over one run's   *)
(* graph, the node tasks it gathers in waves, and what both persist.       *)
(*                                                                         *)
(* One executor object owns `st`, `out`, `failed` and `pauseRequested`.    *)
(* Everything between two awaits is one action; every await of the store   *)
(* is a point where another task of the process, the API or the sweeper    *)
(* may run, so a write is an action of its own, after the change of memory *)
(* it records.  A Loop is one invocation of run(): a Worker makes one per  *)
(* executor, an inline API process one per start and one per approval.     *)
(* The modules that extend this one say when loops start and end.          *)
(*                                                                         *)
(* The order in which a pass visits the nodes (the order of the YAML) is   *)
(* abstracted to any order.                                                *)
(***************************************************************************)
EXTENDS DagSemantics

CONSTANTS Loop,      \* invocations of run()
          GraphSet,  \* the workflows considered
          NoNode     \* "this scan is not writing a node"

ASSUME GraphsAreValid == \A g \in GraphSet : Valid(g)
ASSUME NoNodeIsNotANode == NoNode \notin Node

Task == Loop \X Node

VARIABLES
    graph,            \* the frozen workflow of the run
    st, out,          \* node_states: status and verdict, in memory
    failed,           \* the executor's list of failed nodes
    pauseRequested,
    dbSt, dbOut,      \* the nodes table: the checkpoint
    appr,             \* the approvals table
    pc, cur,          \* run(): control point, and the node a scan is writing
    tpc, tcur,        \* _exec_node: the same for every task
    result            \* what run() returned or raised

memVars  == <<st, out, failed, pauseRequested>>
dbVars   == <<dbSt, dbOut, appr>>
taskVars == <<tpc, tcur>>
execVars == <<graph, st, out, failed, pauseRequested, dbSt, dbOut, appr,
              pc, cur, tpc, tcur, result>>

-----------------------------------------------------------------------------
(* Types *)

LoopPC == {"idle", "scan", "row", "ask", "wave", "returned"}

TaskPC == {"none", "start", "skipRow", "runRow", "exec", "doneRow", "failRow",
           "failing", "scan", "rescan", "row", "ask", "finished", "raised"}

ApprovalStatus == {"none", "WAITING", "APPROVED", "REJECTED", "TIMED_OUT"}

Results == {"none", "done", "waiting_approval", "paused", "failed", "stalled",
            "crashed"}

ExecTypeOK ==
    /\ Valid(graph)
    /\ st \in [Node -> Status]
    /\ out \in [Node -> Verdict]
    /\ failed \in SUBSET Node
    /\ pauseRequested \in BOOLEAN
    /\ dbSt \in [Node -> Status \cup {"none"}]
    /\ dbOut \in [Node -> Verdict]
    /\ appr \in [Node -> ApprovalStatus]
    /\ pc \in [Loop -> LoopPC]
    /\ cur \in [Loop -> Node \cup {NoNode}]
    /\ tpc \in [Task -> TaskPC]
    /\ tcur \in [Task -> Node \cup {NoNode}]
    /\ result \in [Loop -> Results]

\* A task that has been scheduled and has neither returned nor raised.
Active(t) == tpc[t] \notin {"none", "finished", "raised"}

\* A fresh executor over an empty checkpoint.
ExecInit ==
    /\ graph \in GraphSet
    /\ st = [n \in Node |-> "pending"]
    /\ out = [n \in Node |-> "absent"]
    /\ failed = {}
    /\ pauseRequested = FALSE
    /\ dbSt = [n \in Node |-> "none"]
    /\ dbOut = [n \in Node |-> "absent"]
    /\ appr = [n \in Node |-> "none"]
    /\ cur = [l \in Loop |-> NoNode]
    /\ tpc = [t \in Task |-> "none"]
    /\ tcur = [t \in Task |-> NoNode]
    /\ result = [l \in Loop |-> "none"]

-----------------------------------------------------------------------------
(* Steps shared by the loop and the tasks *)

SetNode(n, status, verdict) ==
    /\ st' = [st EXCEPT ![n] = status]
    /\ out' = [out EXCEPT ![n] = verdict]

\* _persist: the row takes the state the node has in memory.
WriteRow(n) ==
    /\ dbSt' = [dbSt EXCEPT ![n] = st[n]]
    /\ dbOut' = [dbOut EXCEPT ![n] = out[n]]

\* Mutant: the approval's status in the place of the node's.
MarkApprovalStatus(n) ==
    IF NodeDecision(graph, st, out, n) = "ready"
    THEN SetNode(n, "WAITING", "absent")
    ELSE SetNode(n, "skipped", "absent")

\* One node of _process_approvals: skipped when its edges say so, otherwise it
\* waits for a person.
MarkApproval(n) ==
    IF NodeDecision(graph, st, out, n) = "ready"
    THEN SetNode(n, "waiting_approval", "absent")
    ELSE SetNode(n, "skipped", "absent")

\* create_approval, after the row of the waiting node is written.
AskApproval(n) == appr' = [appr EXCEPT ![n] = "WAITING"]

-----------------------------------------------------------------------------
(* run(): scan to a fixed point, then decide *)

\* One node of a pass.  The order of the nodes does not matter but for a halt: what
\* is ready to be asked is asked before everything left is skipped.
LoopMark(l) ==
    /\ pc[l] = "scan"
    /\ \/ \E n \in DueApprovals(graph, st, out) :
             /\ MarkApproval(n)
             /\ cur' = [cur EXCEPT ![l] = n]
       \/ \E n \in DueSkips(graph, st, out) :
             /\ HaltTriggered(graph, st) =>
                   \A m \in DueApprovals(graph, st, out) :
                      NodeDecision(graph, st, out, m) = "skipped"
             /\ SetNode(n, "skipped", "absent")
             /\ cur' = [cur EXCEPT ![l] = n]
    /\ pc' = [pc EXCEPT ![l] = "row"]
    /\ UNCHANGED <<graph, failed, pauseRequested, dbSt, dbOut, appr, tpc, tcur, result>>

\* Mutant: the approval is not asked after its row.
LoopRowNoAsk(l) ==
    /\ pc[l] = "row"
    /\ WriteRow(cur[l])
    /\ pc' = [pc EXCEPT ![l] = "scan"]
    /\ cur' = [cur EXCEPT ![l] = NoNode]
    /\ UNCHANGED <<graph, memVars, appr, tpc, tcur, result>>

LoopRow(l) ==
    /\ pc[l] = "row"
    /\ WriteRow(cur[l])
    /\ IF st[cur[l]] = "waiting_approval"
       THEN pc' = [pc EXCEPT ![l] = "ask"] /\ cur' = cur
       ELSE pc' = [pc EXCEPT ![l] = "scan"] /\ cur' = [cur EXCEPT ![l] = NoNode]
    /\ UNCHANGED <<graph, memVars, appr, tpc, tcur, result>>

LoopAsk(l) ==
    /\ pc[l] = "ask"
    /\ AskApproval(cur[l])
    /\ pc' = [pc EXCEPT ![l] = "scan"]
    /\ cur' = [cur EXCEPT ![l] = NoNode]
    /\ UNCHANGED <<graph, memVars, dbSt, dbOut, tpc, tcur, result>>

\* No await separates the last, fruitless pass from these tests.
Settled(l) ==
    /\ pc[l] = "scan"
    /\ DueApprovals(graph, st, out) = {}
    /\ DueSkips(graph, st, out) = {}

MustPause == pauseRequested /\ ~AllTerminal(st)

LoopReturn(l, r) ==
    /\ pc' = [pc EXCEPT ![l] = "returned"]
    /\ result' = [result EXCEPT ![l] = r]
    /\ UNCHANGED <<graph, memVars, dbVars, cur, tpc, tcur>>

LoopFail(l) ==
    /\ Settled(l)
    /\ failed # {} \/ RejectedAbort(graph, st)
    /\ LoopReturn(l, "failed")

LoopPause(l) ==
    /\ Settled(l)
    /\ failed = {} /\ ~RejectedAbort(graph, st)
    /\ MustPause
    /\ LoopReturn(l, "paused")

\* Mutant: the rejection is looked for after the nodes of the wave.
MayGoOnRejected(l) ==
    /\ Settled(l)
    /\ failed = {}
    /\ ~MustPause

\* None of the tests above returned.
MayGoOn(l) ==
    /\ Settled(l)
    /\ failed = {} /\ ~RejectedAbort(graph, st)
    /\ ~MustPause

\* asyncio.gather over the ready nodes.
LoopGather(l) ==
    /\ MayGoOn(l)
    /\ ReadyNodes(graph, st, out) # {}
    /\ pc' = [pc EXCEPT ![l] = "wave"]
    /\ tpc' = [t \in Task |->
                 IF t[1] = l /\ t[2] \in ReadyNodes(graph, st, out)
                 THEN "start" ELSE tpc[t]]
    /\ UNCHANGED <<graph, memVars, dbVars, cur, tcur, result>>

LoopRelease(l) ==
    /\ MayGoOn(l)
    /\ ReadyNodes(graph, st, out) = {}
    /\ LoopReturn(l, IF HasWaitingApproval(st) THEN "waiting_approval"
                     ELSE IF AllTerminal(st) THEN "done"
                     ELSE "stalled")

LoopWaveDone(l) ==
    /\ pc[l] = "wave"
    /\ \A n \in Node : tpc[<<l, n>>] \in {"none", "finished"}
    /\ pc' = [pc EXCEPT ![l] = "scan"]
    /\ tpc' = [t \in Task |-> IF t[1] = l THEN "none" ELSE tpc[t]]
    /\ UNCHANGED <<graph, memVars, dbVars, cur, tcur, result>>

\* gather passes on the first exception and leaves the other tasks running.
LoopWaveFailed(l) ==
    /\ pc[l] = "wave"
    /\ \E n \in Node : tpc[<<l, n>>] = "raised"
    /\ LoopReturn(l, "failed")

-----------------------------------------------------------------------------
(* _exec_node *)

\* Mutant: the status of a gathered node is not read again.
TaskStartBlindly(l, n) ==
    /\ tpc[<<l, n>>] = "start"
    /\ SetNode(n, "running", "absent")
    /\ tpc' = [tpc EXCEPT ![<<l, n>>] = "runRow"]
    /\ UNCHANGED <<graph, failed, pauseRequested, dbVars, pc, cur, tcur, result>>

\* The status and the decision are read again: they may have moved since gather.
TaskStart(l, n) ==
    LET decision == NodeDecision(graph, st, out, n)
        Go(p) == tpc' = [tpc EXCEPT ![<<l, n>>] = p]
    IN
    /\ tpc[<<l, n>>] = "start"
    /\ \/ /\ st[n] # "pending" \/ decision = "blocked"
          /\ Go("finished")
          /\ UNCHANGED <<st, out>>
       \/ /\ st[n] = "pending" /\ decision = "skipped"
          /\ SetNode(n, "skipped", "absent")
          /\ Go("skipRow")
       \/ /\ st[n] = "pending" /\ decision = "ready"
          /\ SetNode(n, "running", "absent")
          /\ Go("runRow")
    /\ UNCHANGED <<graph, failed, pauseRequested, dbVars, pc, cur, tcur, result>>

\* The writes of the task's own node; what each leads to.
AfterRow == [skipRow |-> "finished", runRow |-> "exec",
             doneRow |-> "scan", failRow |-> "failing"]

TaskRow(l, n) ==
    /\ tpc[<<l, n>>] \in DOMAIN AfterRow
    /\ WriteRow(n)
    /\ tpc' = [tpc EXCEPT ![<<l, n>>] = AfterRow[tpc[<<l, n>>]]]
    /\ UNCHANGED <<graph, memVars, appr, pc, cur, tcur, result>>

\* Mutant: the row of a node that is done is not written.
TaskDoneUnwritten(l, n) ==
    /\ tpc[<<l, n>>] = "exec"
    /\ \E v \in Verdict :
          /\ graph.kind[n] \in {"halt", "closed"} => v = "absent"
          /\ SetNode(n, "done", v)
    /\ tpc' = [tpc EXCEPT ![<<l, n>>] = "scan"]
    /\ UNCHANGED <<graph, failed, pauseRequested, dbVars, pc, cur, tcur, result>>

\* Halt and closed nodes compute their output without a runner and name no
\* verdict; an agent or a ticket ends with any verdict (a negative evidence is
\* one of them).
TaskDone(l, n) ==
    /\ tpc[<<l, n>>] = "exec"
    /\ \E v \in Verdict :
          /\ graph.kind[n] \in {"halt", "closed"} => v = "absent"
          /\ SetNode(n, "done", v)
    /\ tpc' = [tpc EXCEPT ![<<l, n>>] = "doneRow"]
    /\ UNCHANGED <<graph, failed, pauseRequested, dbVars, pc, cur, tcur, result>>

\* Retries exhausted under on_failure: abort, or one of the three guards on the
\* output (delivery, verdict, artifacts).
TaskFail(l, n) ==
    /\ tpc[<<l, n>>] = "exec"
    /\ graph.kind[n] \in {"agent", "ticket"}
    /\ SetNode(n, "failed", "absent")
    /\ tpc' = [tpc EXCEPT ![<<l, n>>] = "failRow"]
    /\ UNCHANGED <<graph, failed, pauseRequested, dbVars, pc, cur, tcur, result>>

TaskRaise(l, n) ==
    /\ tpc[<<l, n>>] = "failing"
    /\ failed' = failed \cup {n}
    /\ tpc' = [tpc EXCEPT ![<<l, n>>] = "raised"]
    /\ UNCHANGED <<graph, st, out, pauseRequested, dbVars, pc, cur, tcur, result>>

\* _process_approvals after the node succeeded.
TaskMark(l, n) ==
    /\ tpc[<<l, n>>] \in {"scan", "rescan"}
    /\ \E m \in DueApprovals(graph, st, out) :
          /\ MarkApproval(m)
          /\ tcur' = [tcur EXCEPT ![<<l, n>>] = m]
    /\ tpc' = [tpc EXCEPT ![<<l, n>>] = "row"]
    /\ UNCHANGED <<graph, failed, pauseRequested, dbVars, pc, cur, result>>

TaskMarkRow(l, n) ==
    /\ tpc[<<l, n>>] = "row"
    /\ WriteRow(tcur[<<l, n>>])
    /\ IF st[tcur[<<l, n>>]] = "waiting_approval"
       THEN tpc' = [tpc EXCEPT ![<<l, n>>] = "ask"] /\ tcur' = tcur
       ELSE /\ tpc' = [tpc EXCEPT ![<<l, n>>] = "rescan"]
            /\ tcur' = [tcur EXCEPT ![<<l, n>>] = NoNode]
    /\ UNCHANGED <<graph, memVars, appr, pc, cur, result>>

TaskAsk(l, n) ==
    /\ tpc[<<l, n>>] = "ask"
    /\ AskApproval(tcur[<<l, n>>])
    /\ tpc' = [tpc EXCEPT ![<<l, n>>] = "rescan"]
    /\ tcur' = [tcur EXCEPT ![<<l, n>>] = NoNode]
    /\ UNCHANGED <<graph, memVars, dbSt, dbOut, pc, cur, result>>

\* The pass visits every node once: after an await it may leave behind an
\* approval that became due before its cursor.
TaskReturn(l, n) ==
    /\ \/ tpc[<<l, n>>] = "scan" /\ DueApprovals(graph, st, out) = {}
       \/ tpc[<<l, n>>] = "rescan"
    /\ tpc' = [tpc EXCEPT ![<<l, n>>] = "finished"]
    /\ UNCHANGED <<graph, memVars, dbVars, pc, cur, tcur, result>>

-----------------------------------------------------------------------------
RequestPause ==
    /\ \E l \in Loop : pc[l] \notin {"idle", "returned"}
    /\ ~pauseRequested
    /\ pauseRequested' = TRUE
    /\ UNCHANGED <<graph, st, out, failed, dbVars, pc, cur, tpc, tcur, result>>

LoopStep(l) ==
    \/ LoopMark(l) \/ LoopRow(l) \/ LoopAsk(l)
    \/ LoopFail(l) \/ LoopPause(l) \/ LoopGather(l) \/ LoopRelease(l)
    \/ LoopWaveDone(l) \/ LoopWaveFailed(l)

TaskStep(l, n) ==
    \/ TaskStart(l, n) \/ TaskRow(l, n)
    \/ TaskDone(l, n) \/ TaskFail(l, n) \/ TaskRaise(l, n)
    \/ TaskMark(l, n) \/ TaskMarkRow(l, n) \/ TaskAsk(l, n) \/ TaskReturn(l, n)

ExecStep(l) == LoopStep(l) \/ \E n \in Node : TaskStep(l, n)
=============================================================================
