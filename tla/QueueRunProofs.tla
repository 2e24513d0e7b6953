---------------------------- MODULE QueueRunProofs ----------------------------
(***************************************************************************)
(* Proofs about QueueRun, for every set of nodes, every set of valid       *)
(* graphs and any number of crashes.                                       *)
(***************************************************************************)
EXTENDS QueueRun, TLAPS

-----------------------------------------------------------------------------
(* Type correctness *)

\* Every step of run() keeps the executor's variables in their types.
LEMMA LoopTypeOK ==
    ASSUME ExecTypeOK, NEW l \in Loop, LoopStep(l)
    PROVE  ExecTypeOK'
<1> USE DEF ExecTypeOK, memVars, dbVars, taskVars
<1>1. CASE LoopMark(l)
  BY <1>1 DEF LoopMark, MarkApproval, SetNode, DueApprovals, DueSkips,
              Status, Verdict, LoopPC
<1>2. CASE LoopRow(l)
  BY <1>2 DEF LoopRow, WriteRow, LoopPC
<1>3. CASE LoopAsk(l)
  BY <1>3 DEF LoopAsk, AskApproval, LoopPC, ApprovalStatus
<1>4. CASE LoopFail(l)
  BY <1>4 DEF LoopFail, LoopReturn, LoopPC, Results
<1>5. CASE LoopPause(l)
  BY <1>5 DEF LoopPause, LoopReturn, LoopPC, Results
<1>6. CASE LoopGather(l)
  BY <1>6 DEF LoopGather, LoopPC, TaskPC
<1>7. CASE LoopRelease(l)
  BY <1>7 DEF LoopRelease, LoopReturn, LoopPC, Results
<1>8. CASE LoopWaveDone(l)
  BY <1>8 DEF LoopWaveDone, LoopPC, TaskPC
<1>9. CASE LoopWaveFailed(l)
  BY <1>9 DEF LoopWaveFailed, LoopReturn, LoopPC, Results
<1> QED
  BY <1>1, <1>2, <1>3, <1>4, <1>5, <1>6, <1>7, <1>8, <1>9 DEF LoopStep

\* Every step of _exec_node does too.
LEMMA TaskTypeOK ==
    ASSUME ExecTypeOK, NEW l \in Loop, NEW n \in Node, TaskStep(l, n)
    PROVE  ExecTypeOK'
<1> USE DEF ExecTypeOK, memVars, dbVars, taskVars
<1>0. <<l, n>> \in Task
  BY DEF Task
<1>1. CASE TaskStart(l, n)
  BY <1>0, <1>1 DEF TaskStart, SetNode, Status, Verdict, TaskPC
<1>2. CASE TaskRow(l, n)
  <2>1. AfterRow[tpc[<<l, n>>]] \in TaskPC
    BY <1>2 DEF TaskRow, AfterRow, TaskPC
  <2> QED
    BY <1>0, <1>2, <2>1 DEF TaskRow, WriteRow
<1>3. CASE TaskDone(l, n)
  BY <1>0, <1>3 DEF TaskDone, SetNode, Status, TaskPC
<1>4. CASE TaskFail(l, n)
  BY <1>0, <1>4 DEF TaskFail, SetNode, Status, Verdict, TaskPC
<1>5. CASE TaskRaise(l, n)
  BY <1>0, <1>5 DEF TaskRaise, TaskPC
<1>6. CASE TaskMark(l, n)
  BY <1>0, <1>6 DEF TaskMark, MarkApproval, SetNode, DueApprovals, Status, Verdict, TaskPC
<1>7. CASE TaskMarkRow(l, n)
  BY <1>0, <1>7 DEF TaskMarkRow, WriteRow, TaskPC
<1>8. CASE TaskAsk(l, n)
  BY <1>0, <1>8 DEF TaskAsk, AskApproval, ApprovalStatus, TaskPC
<1>9. CASE TaskReturn(l, n)
  BY <1>0, <1>9 DEF TaskReturn, TaskPC
<1> QED
  BY <1>1, <1>2, <1>3, <1>4, <1>5, <1>6, <1>7, <1>8, <1>9 DEF TaskStep

LEMMA TypeOKInit == Init => TypeOK
<1> SUFFICES ASSUME Init
             PROVE  TypeOK
  OBVIOUS
<1> USE DEF Init, ExecInit
<1>1. Valid(graph)
  BY GraphsAreValid
<1>2. pauseRequested \in BOOLEAN
  OBVIOUS
<1>3. /\ st \in [Node -> Status] /\ out \in [Node -> Verdict] /\ failed \in SUBSET Node
      /\ dbSt \in [Node -> Status \cup {"none"}] /\ dbOut \in [Node -> Verdict]
      /\ appr \in [Node -> ApprovalStatus]
  BY DEF Status, Verdict, ApprovalStatus
<1>4. /\ pc \in [Loop -> LoopPC] /\ cur \in [Loop -> Node \cup {NoNode}]
      /\ tpc \in [Task -> TaskPC] /\ tcur \in [Task -> Node \cup {NoNode}]
      /\ result \in [Loop -> Results]
  BY DEF LoopPC, TaskPC, Results
<1>5. /\ expired \in SUBSET Node /\ decided \in [Node -> Decision \cup {"none"}]
      /\ crashes \in 0 .. MaxCrashes
  BY MaxCrashesIsNat
<1>6. telling \in SUBSET Node /\ notices \in Nat
  OBVIOUS
<1>7. running \in BOOLEAN /\ lost \in BOOLEAN
  BY Zenon
<1> QED
  BY <1>1, <1>2, <1>3, <1>4, <1>5, <1>6, <1>7 DEF TypeOK, ExecTypeOK

\* A resume, by a person or by a command, as the invariants below need to know it.
Resumed(l) ==
    /\ pc[l] = "returned"
    /\ result[l] \in {"paused", "waiting_approval", "crashed"}
    /\ Rebuild(l)
    /\ UNCHANGED <<expired, decided, crashes>>

\* The row of the run and the commands in the queue are beside the executor and the two tables.
Beside == UNCHANGED <<execVars, expired, decided, crashes>>

LEMMA Steps ==
    ASSUME [Next]_vars
    PROVE  \/ ExecutorStep
           \/ \E n \in Node : \/ Expire(n) \/ WriteDecision(n) \/ DeciderCrash(n)
                              \/ \E d \in Decision : CasApproval(n, d)
           \/ WorkerCrash
           \/ \E l \in Loop : Resumed(l)
           \/ Beside
<1>1. ASSUME NEW n \in Node, Approve(n) \/ SweepTimeout(n) PROVE \E d \in Decision : CasApproval(n, d)
  BY <1>1 DEF Approve, SweepTimeout, Decision
<1>2. ASSUME NEW n \in Node, Publish(n) PROVE Beside
  BY <1>2 DEF Publish, Beside
<1>3. ASSUME NEW l \in Loop, PutStatus(l) PROVE Beside
  BY <1>3 DEF PutStatus, Beside
<1>4. ASSUME NEW l \in Loop, Resume(l) PROVE Resumed(l)
  BY <1>4 DEF Resume, Claimable, Resumed
<1>5. ASSUME NEW l \in Loop, Deliver(l) PROVE Resumed(l) \/ Beside
  BY <1>5 DEF Deliver, Claimable, Resumed, Beside
<1>6. ASSUME UNCHANGED vars PROVE Beside
  BY <1>6 DEF vars, Beside
<1> QED
  BY <1>1, <1>2, <1>3, <1>4, <1>5, <1>6 DEF Next

LEMMA TypeOKNext == TypeOK /\ [Next]_vars => TypeOK'
<1> SUFFICES ASSUME TypeOK, [Next]_vars
             PROVE  TypeOK'
  OBVIOUS
<1> USE DEF TypeOK
<1>1. CASE ExecutorStep
  <2>1. ASSUME NEW l \in Loop, LoopStep(l)
        PROVE  ExecTypeOK'
    BY <2>1, LoopTypeOK
  <2>2. ASSUME NEW l \in Loop, NEW n \in Node, TaskStep(l, n)
        PROVE  ExecTypeOK'
    BY <2>2, TaskTypeOK
  <2>3. ASSUME RequestPause
        PROVE  ExecTypeOK'
    <3>1. pauseRequested' \in BOOLEAN
      BY <2>3, Zenon DEF RequestPause
    <3> QED
      BY <2>3, <3>1 DEF RequestPause, ExecTypeOK, dbVars
  <2> QED
    BY <1>1, <2>1, <2>2, <2>3 DEF ExecutorStep, ExecStep, noticeVars
<1>2. ASSUME NEW n \in Node, Expire(n)
      PROVE  TypeOK'
  BY <1>2 DEF Expire, execVars, noticeVars, ExecTypeOK
<1>3. ASSUME NEW n \in Node, NEW d \in Decision, CasApproval(n, d)
      PROVE  TypeOK'
  BY <1>3 DEF CasApproval, memVars, noticeVars, ExecTypeOK, Decision, ApprovalStatus
<1>4. ASSUME NEW n \in Node, WriteDecision(n)
      PROVE  TypeOK'
  <2>1. NodeStatusOf[decided[n]] \in Status
    BY <1>4 DEF WriteDecision, NodeStatusOf, Decision, Status
  <2> QED
    BY <1>4, <2>1 DEF WriteDecision, memVars, ExecTypeOK, Verdict
<1>5. ASSUME NEW n \in Node, DeciderCrash(n)
      PROVE  TypeOK'
  BY <1>5, MaxCrashesIsNat DEF DeciderCrash, execVars, ExecTypeOK
<1>6. CASE WorkerCrash
  BY <1>6, MaxCrashesIsNat DEF WorkerCrash, memVars, dbVars, noticeVars, ExecTypeOK, LoopPC, TaskPC, Results
<1>7. ASSUME NEW l \in Loop, Rebuild(l)
      PROVE  ExecTypeOK' /\ running' \in BOOLEAN /\ lost' \in BOOLEAN
  BY <1>7 DEF Rebuild, Kept, TERMINAL, dbVars, ExecTypeOK, Status, Verdict, LoopPC, Results
<1>8. ASSUME UNCHANGED execVars
      PROVE  ExecTypeOK'
  BY <1>8 DEF execVars, ExecTypeOK
<1>9. ASSUME NEW n \in Node, Publish(n)
      PROVE  TypeOK'
  BY <1>8, <1>9 DEF Publish
<1>10. ASSUME NEW l \in Loop, PutStatus(l) \/ Resume(l)
       PROVE  TypeOK'
  BY <1>7, <1>8, <1>10 DEF PutStatus, Resume
<1>11. ASSUME NEW l \in Loop, Deliver(l)
       PROVE  TypeOK'
  <2>1. notices' \in Nat /\ telling' \in SUBSET Node /\ UNCHANGED <<expired, decided, crashes>>
    BY <1>11 DEF Deliver
  <2>2. ExecTypeOK' /\ running' \in BOOLEAN
    BY <1>7, <1>8, <1>11 DEF Deliver
  <2>3. lost' \in BOOLEAN
    <3>1. CASE Rebuild(l)
      BY <1>7, <3>1
    <3>2. CASE lost' = (lost \/ running)
      BY <3>2, Zenon
    <3> QED
      BY <1>11, <3>1, <3>2 DEF Deliver
  <2> QED
    BY <2>1, <2>2, <2>3
<1>12. CASE UNCHANGED vars
  BY <1>8, <1>12 DEF vars, noticeVars
<1> QED
  BY <1>1, <1>2, <1>3, <1>4, <1>5, <1>6, <1>9, <1>10, <1>11, <1>12
     DEF Next, Approve, SweepTimeout, Decision

\* Every variable of the run, in memory and in the tables, keeps its type.
THEOREM TypeCorrect == Spec => []TypeOK
BY TypeOKInit, TypeOKNext, PTL DEF Spec

-----------------------------------------------------------------------------
(* run() never stalls *)

\* Tasks exist while their wave is awaited, and after a wave that failed.
TasksBelongToAWave ==
    \A t \in Task : tpc[t] # "none" =>
        pc[t[1]] = "wave" \/ (pc[t[1]] = "returned" /\ result[t[1]] = "failed")

\* In a run() that has not returned, a node in memory is running only while its
\* task runs it, and failed only if its task is about to say so or has said so.
RunningHasTask ==
    \A l \in Loop, n \in Node : pc[l] # "returned" /\ st[n] = "running" =>
        tpc[<<l, n>>] \in {"runRow", "exec"}

FailedIsKnown ==
    \A l \in Loop, n \in Node : pc[l] # "returned" /\ st[n] = "failed" =>
        n \in failed \/ tpc[<<l, n>>] \in {"failRow", "failing"}

StallInv ==
    /\ TypeOK
    /\ TasksBelongToAWave
    /\ RunningHasTask
    /\ FailedIsKnown
    /\ NeverStalled

\* Among unsettled nodes that are all pending, one has all its upstreams settled.
LEMMA SettledUpstreams ==
    ASSUME Valid(graph), NEW m \in Node, st[m] \notin TERMINAL
    PROVE  \E n \in Node : st[n] \notin TERMINAL /\ SourcesTerminal(graph, st, n)
<1> DEFINE U == {n \in Node : st[n] \notin TERMINAL}
<1>1. U \in SUBSET Node /\ U # {}
  OBVIOUS
<1>2. PICK n \in U : Upstreams(graph, n) \cap U = {}
  BY <1>1 DEF Valid, Acyclic
<1>3. Upstreams(graph, n) \subseteq Node
  BY DEF Valid, Graphs, Edges, Upstreams, InEdges
<1> QED
  BY <1>2, <1>3 DEF SourcesTerminal

\* At a fixed point of the scan, with nothing ready, a graph whose unsettled nodes
\* are all pending has no unsettled node.
LEMMA FixedPointIsSettled ==
    ASSUME Valid(graph),
           \A n \in Node : st[n] \in TERMINAL \cup {"pending"},
           DueApprovals(graph, st, out) = {},
           DueSkips(graph, st, out) = {},
           ReadyNodes(graph, st, out) = {}
    PROVE  AllTerminal(st)
<1> SUFFICES ASSUME ~AllTerminal(st)
             PROVE  FALSE
  OBVIOUS
<1>1. PICK n \in Node : st[n] \notin TERMINAL /\ SourcesTerminal(graph, st, n)
  BY SettledUpstreams DEF AllTerminal
<1>2. st[n] = "pending"
  BY <1>1
<1>3. NodeDecision(graph, st, out, n) \in {"ready", "skipped"}
  BY <1>1 DEF NodeDecision
<1>4. ~IsApproval(graph, n)
  BY <1>2, <1>3 DEF DueApprovals
<1>5. NodeDecision(graph, st, out, n) = "ready"
  BY <1>2, <1>3, <1>4 DEF DueSkips
<1>6. ReadyNodes(graph, st, out) # {}
  BY <1>2, <1>4, <1>5, Zenon DEF ReadyNodes
<1> QED
  BY <1>6

LEMMA StallInvInit == Init => StallInv
BY TypeOKInit
   DEF Init, ExecInit, StallInv, TasksBelongToAWave, RunningHasTask, FailedIsKnown,
       NeverStalled

LEMMA LoopStallInv ==
    ASSUME StallInv, NEW l \in Loop, LoopStep(l), TypeOK'
    PROVE  StallInv'
<1> USE OneLoop DEF StallInv, TypeOK, ExecTypeOK, Task
<1> USE DEF TasksBelongToAWave, RunningHasTask, FailedIsKnown, NeverStalled
<1>1. CASE LoopMark(l)
  BY <1>1 DEF LoopMark, MarkApproval, SetNode, DueApprovals, DueSkips
<1>2. CASE LoopRow(l)
  BY <1>2 DEF LoopRow, WriteRow, memVars
<1>3. CASE LoopAsk(l)
  BY <1>3 DEF LoopAsk, memVars
<1>4. CASE LoopFail(l)
  BY <1>4 DEF LoopFail, Settled, LoopReturn, memVars
<1>5. CASE LoopPause(l)
  BY <1>5 DEF LoopPause, Settled, LoopReturn, memVars
<1>6. CASE LoopGather(l)
  BY <1>6 DEF LoopGather, MayGoOn, Settled, memVars
<1>7. CASE LoopRelease(l)
  <2> USE <1>7 DEF LoopRelease, MayGoOn, Settled
  <2>1. \A n \in Node : tpc[<<l, n>>] = "none"
    OBVIOUS
  <2>2. \A n \in Node : st[n] \notin {"running", "failed"}
    BY <2>1
  <2>3. ~HasWaitingApproval(st) => \A n \in Node : st[n] \in TERMINAL \cup {"pending"}
    BY <2>2 DEF HasWaitingApproval, Status, TERMINAL
  <2>4. ~HasWaitingApproval(st) => AllTerminal(st)
    BY <2>3, FixedPointIsSettled
  <2>5. result'[l] # "stalled"
    BY <2>4 DEF LoopReturn
  <2> QED
    BY <2>1, <2>5 DEF LoopReturn, memVars
<1>8. CASE LoopWaveDone(l)
  BY <1>8 DEF LoopWaveDone, memVars
<1>9. CASE LoopWaveFailed(l)
  BY <1>9 DEF LoopWaveFailed, LoopReturn, memVars
<1> QED
  BY <1>1, <1>2, <1>3, <1>4, <1>5, <1>6, <1>7, <1>8, <1>9 DEF LoopStep

LEMMA TaskStallInv ==
    ASSUME StallInv, NEW l \in Loop, NEW n \in Node, TaskStep(l, n), TypeOK'
    PROVE  StallInv'
<1> USE OneLoop DEF StallInv, TypeOK, ExecTypeOK, Task
<1> USE DEF TasksBelongToAWave, RunningHasTask, FailedIsKnown, NeverStalled
<1>0. <<l, n>> \in Task
  OBVIOUS
<1>1. CASE TaskStart(l, n)
  <2>1. CASE tpc' = [tpc EXCEPT ![<<l, n>>] = "finished"] /\ st' = st
    BY <1>0, <1>1, <2>1 DEF TaskStart
  <2>2. CASE /\ tpc' = [tpc EXCEPT ![<<l, n>>] = "skipRow"]
             /\ st' = [st EXCEPT ![n] = "skipped"]
    BY <1>0, <1>1, <2>2 DEF TaskStart
  <2>3. CASE /\ tpc' = [tpc EXCEPT ![<<l, n>>] = "runRow"]
             /\ st' = [st EXCEPT ![n] = "running"]
    BY <1>0, <1>1, <2>3 DEF TaskStart
  <2> QED
    BY <1>1, <2>1, <2>2, <2>3 DEF TaskStart, SetNode
<1>2. CASE TaskRow(l, n)
  BY <1>0, <1>2 DEF TaskRow, WriteRow, AfterRow, memVars
<1>3. CASE TaskDone(l, n)
  BY <1>0, <1>3 DEF TaskDone, SetNode
<1>4. CASE TaskFail(l, n)
  BY <1>0, <1>4 DEF TaskFail, SetNode
<1>5. CASE TaskRaise(l, n)
  BY <1>0, <1>5 DEF TaskRaise
<1>6. CASE TaskMark(l, n)
  <2>1. PICK m \in DueApprovals(graph, st, out) : MarkApproval(m)
    BY <1>6 DEF TaskMark
  <2>2. PICK x \in {"waiting_approval", "skipped"} : st' = [st EXCEPT ![m] = x]
    BY <2>1 DEF MarkApproval, SetNode
  <2>3. m \in Node
    BY DEF DueApprovals
  <2>4. /\ tpc[<<l, n>>] \in {"scan", "rescan"}
        /\ tpc' = [tpc EXCEPT ![<<l, n>>] = "row"]
        /\ UNCHANGED <<pc, failed, result>>
    BY <1>6 DEF TaskMark
  <2>5. /\ TasksBelongToAWave' /\ NeverStalled'
    BY <1>0, <2>4
  <2>6. RunningHasTask' /\ FailedIsKnown'
    BY <1>0, <2>2, <2>3, <2>4
  <2> QED
    BY <2>5, <2>6
<1>7. CASE TaskMarkRow(l, n)
  <2>1. PICK x \in {"ask", "rescan"} : tpc' = [tpc EXCEPT ![<<l, n>>] = x]
    BY <1>7 DEF TaskMarkRow
  <2>2. tpc[<<l, n>>] = "row" /\ UNCHANGED <<st, pc, failed, result>>
    BY <1>7 DEF TaskMarkRow, memVars
  <2> QED
    BY <1>0, <2>1, <2>2
<1>8. CASE TaskAsk(l, n)
  BY <1>0, <1>8 DEF TaskAsk, memVars
<1>9. CASE TaskReturn(l, n)
  BY <1>0, <1>9 DEF TaskReturn, memVars
<1> QED
  BY <1>1, <1>2, <1>3, <1>4, <1>5, <1>6, <1>7, <1>8, <1>9 DEF TaskStep

LEMMA StallInvNext == StallInv /\ [Next]_vars => StallInv'
<1> SUFFICES ASSUME StallInv, [Next]_vars
             PROVE  StallInv'
  OBVIOUS
<1>0. TypeOK'
  BY TypeOKNext DEF StallInv
<1> USE <1>0 DEF StallInv, TypeOK, ExecTypeOK
<1> USE DEF TasksBelongToAWave, RunningHasTask, FailedIsKnown, NeverStalled
<1>1. ASSUME NEW l \in Loop, ExecStep(l)
      PROVE  StallInv'
  BY <1>1, LoopStallInv, TaskStallInv DEF ExecStep
<1>2. CASE RequestPause
  BY <1>2 DEF RequestPause
<1>3. ASSUME NEW n \in Node, NEW d \in Decision,
             Expire(n) \/ CasApproval(n, d) \/ WriteDecision(n) \/ DeciderCrash(n)
      PROVE  StallInv'
  BY <1>3 DEF Expire, CasApproval, WriteDecision, DeciderCrash, execVars, memVars
<1>4. CASE WorkerCrash
  BY <1>4 DEF WorkerCrash, memVars
<1>5. ASSUME NEW l \in Loop, Resumed(l)
      PROVE  StallInv'
  BY <1>5, OneLoop DEF Resumed, Rebuild, Kept, TERMINAL, Task
<1>6. CASE Beside
  BY <1>6 DEF Beside, execVars
<1> QED
  BY <1>1, <1>2, <1>3, <1>4, <1>5, <1>6, Steps DEF ExecutorStep, Decision

\* WorkflowStalledError is never raised by the one run() of a Worker, whatever the
\* valid graph, the verdicts, the decisions, the crashes and the resumes.
THEOREM WorkerNeverStalls == Spec => []NeverStalled
<1>1. StallInv => NeverStalled
  BY DEF StallInv
<1> QED
  BY StallInvInit, StallInvNext, <1>1, PTL DEF Spec

-----------------------------------------------------------------------------
(* Nothing starts after a halt *)

\* A halt node shares its wave with other halt nodes only.
HaltHasTheWave ==
    \A s, t \in Task : tpc[s] # "none" /\ tpc[t] # "none" /\ IsHalt(graph, s[2])
        => IsHalt(graph, t[2])

\* Once a halt node ran, the tasks that are left are those of halt nodes.
AfterHaltOnlyHalts ==
    HaltTriggered(graph, st) => \A t \in Task : tpc[t] # "none" => IsHalt(graph, t[2])

HaltInv ==
    /\ StallInv
    /\ HaltHasTheWave
    /\ AfterHaltOnlyHalts

\* A node that is given another status than done triggers no halt.
LEMMA OnlyDoneTriggers ==
    ASSUME st \in [Node -> Status], graph' = graph,
           NEW n \in Node, NEW x, x # "done", st' = [st EXCEPT ![n] = x],
           HaltTriggered(graph, st)'
    PROVE  HaltTriggered(graph, st)
BY DEF HaltTriggered

LEMMA HaltInvInit == Init => HaltInv
BY StallInvInit DEF Init, ExecInit, HaltInv, HaltHasTheWave, AfterHaltOnlyHalts

\* A step that schedules no task and triggers no halt keeps the invariant.
LEMMA HaltInvKept ==
    ASSUME HaltInv, StallInv', graph' = graph,
           \A t \in Task : tpc'[t] # "none" => tpc[t] # "none",
           HaltTriggered(graph, st)' => HaltTriggered(graph, st)
    PROVE  HaltInv'
BY DEF HaltInv, HaltHasTheWave, AfterHaltOnlyHalts

LEMMA LoopHaltInv ==
    ASSUME HaltInv, NEW l \in Loop, LoopStep(l), StallInv'
    PROVE  HaltInv'
<1> USE DEF StallInv, TypeOK, ExecTypeOK
<1>0. StallInv /\ st \in [Node -> Status] /\ tpc \in [Task -> TaskPC]
  BY DEF HaltInv
<1>1. CASE LoopMark(l)
  <2>1. PICK n \in Node, x \in {"waiting_approval", "skipped"} : st' = [st EXCEPT ![n] = x]
    BY <1>1 DEF LoopMark, MarkApproval, SetNode, DueApprovals, DueSkips
  <2>2. graph' = graph /\ tpc' = tpc
    BY <1>1 DEF LoopMark
  <2>3. HaltTriggered(graph, st)' => HaltTriggered(graph, st)
    BY <1>0, <2>1, <2>2, OnlyDoneTriggers
  <2> QED
    BY <2>2, <2>3, HaltInvKept
<1>2. CASE LoopGather(l)
  <2>1. \A t \in Task : tpc[t] = "none"
    BY <1>0, <1>2, OneLoop DEF LoopGather, MayGoOn, Settled, TasksBelongToAWave, Task
  <2>2. /\ graph' = graph /\ st' = st
        /\ \A t \in Task : tpc'[t] # "none" => t[2] \in ReadyNodes(graph, st, out)
    BY <1>2, <2>1 DEF LoopGather, memVars
  <2>3. \A m, n \in ReadyNodes(graph, st, out) : IsHalt(graph, m) => IsHalt(graph, n)
    BY DEF ReadyNodes
  <2>4. ~HaltTriggered(graph, st)
    BY <1>2 DEF LoopGather, MayGoOn, Settled, ReadyNodes, DueSkips
  <2>5. HaltHasTheWave'
    BY <2>2, <2>3 DEF HaltHasTheWave, IsHalt
  <2>6. AfterHaltOnlyHalts'
    BY <2>2, <2>4 DEF AfterHaltOnlyHalts, HaltTriggered, IsHalt
  <2> QED
    BY <2>5, <2>6 DEF HaltInv
<1>3. CASE LoopWaveDone(l)
  BY <1>0, <1>3, HaltInvKept DEF LoopWaveDone, memVars, HaltTriggered
<1>4. CASE \/ LoopRow(l) \/ LoopAsk(l) \/ LoopFail(l) \/ LoopPause(l)
           \/ LoopRelease(l) \/ LoopWaveFailed(l)
  <2>1. graph' = graph /\ st' = st /\ tpc' = tpc
    BY <1>4 DEF LoopRow, LoopAsk, LoopFail, LoopPause, LoopRelease, LoopWaveFailed,
                LoopReturn, memVars
  <2> QED
    BY <2>1, HaltInvKept DEF HaltTriggered
<1> QED
  BY <1>1, <1>2, <1>3, <1>4 DEF LoopStep

LEMMA TaskHaltInv ==
    ASSUME HaltInv, NEW l \in Loop, NEW n \in Node, TaskStep(l, n), StallInv'
    PROVE  HaltInv'
<1>0. /\ st \in [Node -> Status] /\ tpc \in [Task -> TaskPC]
      /\ <<l, n>> \in Task /\ <<l, n>>[2] = n
  BY DEF HaltInv, StallInv, TypeOK, ExecTypeOK, Task
\* Whatever the step, it moves one task, which was scheduled before.
<1>1. /\ graph' = graph
      /\ tpc[<<l, n>>] # "none"
      /\ \E p \in TaskPC : tpc' = [tpc EXCEPT ![<<l, n>>] = p]
  <2>1. CASE TaskStart(l, n)
    BY <2>1 DEF TaskStart, TaskPC
  <2>2. CASE TaskRow(l, n)
    <3>1. AfterRow[tpc[<<l, n>>]] \in TaskPC /\ tpc[<<l, n>>] # "none"
      BY <2>2 DEF TaskRow, AfterRow, TaskPC
    <3> QED
      BY <2>2, <3>1 DEF TaskRow
  <2>3. CASE TaskMarkRow(l, n)
    BY <2>3 DEF TaskMarkRow, TaskPC
  <2>4. CASE \/ TaskDone(l, n) \/ TaskFail(l, n) \/ TaskRaise(l, n)
             \/ TaskMark(l, n) \/ TaskAsk(l, n)
    BY <2>4 DEF TaskDone, TaskFail, TaskRaise, TaskMark, TaskAsk, TaskPC
  <2>5. CASE TaskReturn(l, n)
    BY <2>5 DEF TaskReturn, TaskPC
  <2> QED
    BY <2>1, <2>2, <2>3, <2>4, <2>5 DEF TaskStep
<1>2. \A t \in Task : tpc'[t] # "none" => tpc[t] # "none"
  BY <1>0, <1>1
<1>3. CASE TaskDone(l, n)
  <2>1. \A m \in Node : st'[m] = "done" => st[m] = "done" \/ m = n
    BY <1>0, <1>3 DEF TaskDone, SetNode
  <2>2. HaltHasTheWave'
    BY <1>1, <1>2 DEF HaltInv, HaltHasTheWave, IsHalt
  <2>3. AfterHaltOnlyHalts'
    <3>1. SUFFICES ASSUME HaltTriggered(graph, st)', NEW t \in Task, tpc'[t] # "none"
                   PROVE  IsHalt(graph, t[2])
      BY <1>1 DEF AfterHaltOnlyHalts, IsHalt
    <3>2. PICK m \in Node : IsHalt(graph, m) /\ st'[m] = "done"
      BY <1>1, <3>1 DEF HaltTriggered, IsHalt
    <3>3. CASE m = n
      BY <1>0, <1>1, <1>2, <3>1, <3>2, <3>3 DEF HaltInv, HaltHasTheWave
    <3>4. CASE st[m] = "done"
      BY <1>2, <3>1, <3>2, <3>4 DEF HaltInv, AfterHaltOnlyHalts, HaltTriggered
    <3> QED
      BY <2>1, <3>2, <3>3, <3>4
  <2> QED
    BY <2>2, <2>3 DEF HaltInv
<1>4. ASSUME st' = st \/ \E m \in Node, x \in Status \ {"done"} : st' = [st EXCEPT ![m] = x]
      PROVE  HaltInv'
  <2>1. HaltTriggered(graph, st)' => HaltTriggered(graph, st)
    BY <1>0, <1>1, <1>4, OnlyDoneTriggers DEF HaltTriggered
  <2> QED
    BY <1>1, <1>2, <2>1, HaltInvKept
<1>5. CASE TaskStart(l, n) \/ TaskFail(l, n)
  BY <1>4, <1>5 DEF TaskStart, TaskFail, SetNode, Status
<1>6. CASE TaskMark(l, n)
  BY <1>4, <1>6 DEF TaskMark, MarkApproval, SetNode, DueApprovals, Status
<1>7. CASE \/ TaskRow(l, n) \/ TaskRaise(l, n) \/ TaskMarkRow(l, n)
           \/ TaskAsk(l, n) \/ TaskReturn(l, n)
  BY <1>4, <1>7 DEF TaskRow, TaskRaise, TaskMarkRow, TaskAsk, TaskReturn, memVars
<1> QED
  BY <1>3, <1>5, <1>6, <1>7 DEF TaskStep

LEMMA HaltInvNext == HaltInv /\ [Next]_vars => HaltInv'
<1> SUFFICES ASSUME HaltInv, [Next]_vars
             PROVE  HaltInv'
  OBVIOUS
<1>0. StallInv /\ StallInv'
  BY StallInvNext DEF HaltInv
<1>1. ASSUME NEW l \in Loop, ExecStep(l)
      PROVE  HaltInv'
  BY <1>0, <1>1, LoopHaltInv, TaskHaltInv DEF ExecStep
<1>2. CASE UNCHANGED <<graph, st, tpc>>
  BY <1>0, <1>2, HaltInvKept DEF HaltTriggered
<1>3. CASE RequestPause
  BY <1>2, <1>3 DEF RequestPause
<1>4. ASSUME NEW n \in Node, NEW d \in Decision,
             Expire(n) \/ CasApproval(n, d) \/ WriteDecision(n) \/ DeciderCrash(n)
      PROVE  HaltInv'
  BY <1>2, <1>4 DEF Expire, CasApproval, WriteDecision, DeciderCrash, execVars, memVars
<1>5. CASE WorkerCrash
  BY <1>0, <1>5 DEF WorkerCrash, HaltInv, HaltHasTheWave, AfterHaltOnlyHalts
<1>6. ASSUME NEW l \in Loop, Resumed(l)
      PROVE  HaltInv'
  <2>1. \A t \in Task : tpc[t] = "none" /\ tpc'[t] = "none"
    BY <1>0, <1>6, OneLoop DEF Resumed, Rebuild, StallInv, TasksBelongToAWave, Task
  <2> QED
    BY <1>0, <2>1 DEF HaltInv, HaltHasTheWave, AfterHaltOnlyHalts
<1>7. CASE Beside
  BY <1>2, <1>7 DEF Beside, execVars
<1> QED
  BY <1>1, <1>3, <1>4, <1>5, <1>6, <1>7, Steps DEF ExecutorStep, Decision

\* Only a task, or nothing, gives a node the status running.
LEMMA StartIsHalt ==
    ASSUME HaltInv, [Next]_vars, HaltTriggered(graph, st),
           NEW n \in Node, st'[n] = "running", st[n] # "running"
    PROVE  IsHalt(graph, n)
<1> USE DEF HaltInv, StallInv, TypeOK, ExecTypeOK
<1>1. ASSUME NEW l \in Loop, NEW m \in Node, TaskStart(l, m)
      PROVE  IsHalt(graph, n)
  <2>1. m = n
    BY <1>1 DEF TaskStart, SetNode
  <2>2. <<l, n>> \in Task /\ <<l, n>>[2] = n /\ tpc[<<l, n>>] # "none"
    BY <1>1, <2>1 DEF TaskStart, Task
  <2> QED
    BY <2>2 DEF AfterHaltOnlyHalts
<1>2. ASSUME NEW l \in Loop, LoopStep(l)
      PROVE  FALSE
  BY <1>2 DEF LoopStep, LoopMark, LoopRow, LoopAsk, LoopFail, LoopPause, LoopGather,
              LoopRelease, LoopWaveDone, LoopWaveFailed, LoopReturn, MarkApproval,
              SetNode, DueApprovals, DueSkips, memVars
<1>3. ASSUME NEW l \in Loop, NEW m \in Node, TaskStep(l, m), ~TaskStart(l, m)
      PROVE  FALSE
  BY <1>3 DEF TaskStep, TaskRow, TaskDone, TaskFail, TaskRaise, TaskMark, TaskMarkRow,
              TaskAsk, TaskReturn, MarkApproval, SetNode, DueApprovals, memVars
<1>4. ASSUME NEW l \in Loop, Resumed(l)
      PROVE  FALSE
  BY <1>4 DEF Resumed, Rebuild, Kept, TERMINAL
<1>5. CASE UNCHANGED st
  BY <1>5
<1> QED
  BY <1>1, <1>2, <1>3, <1>4, <1>5, Steps
     DEF ExecutorStep, ExecStep, RequestPause, Expire, CasApproval, WriteDecision, DeciderCrash,
         WorkerCrash, Beside, execVars, memVars

\* Once a halt node has run, no step of any process starts another node, except the
\* halt nodes of the same wave.
THEOREM HaltStopsTheRun == Spec => NothingStartsAfterHalt
<1>1. HaltInv /\ [Next]_vars =>
        [HaltTriggered(graph, st) =>
            \A n \in Node : st'[n] = "running" /\ st[n] # "running" => IsHalt(graph, n)]_vars
  BY StartIsHalt
<1> QED
  BY HaltInvInit, HaltInvNext, <1>1, PTL DEF Spec, NothingStartsAfterHalt

-----------------------------------------------------------------------------
(* What the executor knows, what the nodes table says of it and what the approvals *)
(* table says: one inductive invariant relates the three.  The checkpoint and the  *)
(* approval properties follow from it, and so does the refinement of WorkflowRun.  *)

\* What a resumed executor keeps of a row.
Lasting == TERMINAL \cup {"waiting_approval"}

\* _exec_node never has an approval, and starts a node that run() found ready.  Memory
\* goes ahead of the row, and the row follows before the task goes on.
TaskKnows ==
    \A l \in Loop, n \in Node :
        LET p == tpc[<<l, n>>] IN
        /\ p # "none" => ~IsApproval(graph, n)
        /\ p = "start" => st[n] = "pending" /\ JoinSatisfied(graph, st, out, n)
        /\ p # "skipRow"
        /\ p \in {"runRow", "exec"} => st[n] = "running"
        /\ p = "doneRow" => st[n] = "done" /\ dbSt[n] \notin Lasting
        /\ p \in {"failRow", "failing", "raised"} => st[n] = "failed"
        /\ p \in {"scan", "rescan", "row", "ask", "finished"} =>
              st[n] = "done" /\ dbSt[n] = "done" /\ dbOut[n] = out[n]

\* What is settled in the row, or waits for a person there, is not pending, running or
\* failed in memory.
RowBehind ==
    \A n \in Node : st[n] \in {"pending", "running", "failed"} => dbSt[n] \notin Lasting

\* A node that a scan has marked and not written, or written and not asked.
Marked(n) ==
    /\ n \in Node /\ dbSt[n] \notin Lasting
    /\ st[n] = "skipped" \/ (st[n] = "waiting_approval" /\ IsApproval(graph, n))

Shown(n) ==
    /\ n \in Node /\ IsApproval(graph, n) /\ appr[n] = "none"
    /\ st[n] = "waiting_approval" /\ dbSt[n] = "waiting_approval" /\ dbOut[n] = out[n]

ScanWrites ==
    \A l \in Loop : /\ pc[l] = "row" => Marked(cur[l])
                    /\ pc[l] = "ask" => Shown(cur[l])

\* No two tasks write the same approval.
TaskWrites ==
    \A l \in Loop, m \in Node :
        LET p == tpc[<<l, m>>]
            x == tcur[<<l, m>>]
        IN
        /\ p = "row" => Marked(x) /\ IsApproval(graph, x)
        /\ p = "ask" => Shown(x)
        /\ \A n \in Node :
              p \in {"row", "ask"} /\ tpc[<<l, n>>] \in {"row", "ask"} /\ tcur[<<l, n>>] = x
                  => m = n

BeingWritten(n) ==
    \E l \in Loop :
        \/ pc[l] = "row" /\ cur[l] = n
        \/ tpc[<<l, n>>] = "doneRow"
        \/ result[l] \in {"crashed", "failed"}
        \/ \E m \in Node : tpc[<<l, m>>] = "row" /\ tcur[<<l, m>>] = n

\* What the executor settled or asked is on record -- an approval may have been decided
\* since --, or is being written, or the executor is gone.
Recorded(n) ==
    \/ dbSt[n] = st[n] /\ dbOut[n] = out[n]
    \/ st[n] = "waiting_approval" /\ dbSt[n] \in {"done", "rejected", "rejected-canceled"}
    \/ BeingWritten(n)

Written == \A n \in Node : st[n] \in Lasting => Recorded(n)

\* The row of an approval and that of its node.
Approvals ==
    \A n \in Node :
        /\ appr[n] # "none" =>
              /\ IsApproval(graph, n)
              /\ dbSt[n] \in {"waiting_approval", "done", "rejected", "rejected-canceled"}
        /\ appr[n] = "WAITING" => dbSt[n] = "waiting_approval" /\ decided[n] = "none"
        /\ decided[n] # "none" => dbSt[n] = "waiting_approval" /\ appr[n] = decided[n]

\* run() returns these with nothing running and nothing failed; with "done", all is settled.
Returned ==
    \A l \in Loop :
        /\ result[l] # "none" => pc[l] = "returned"
        /\ result[l] \in {"paused", "waiting_approval", "done"} =>
              \A n \in Node : st[n] \notin {"running", "failed"}
        /\ result[l] = "done" => AllTerminal(st) /\ ~RejectedAbort(graph, st)

Knowledge == TaskKnows /\ RowBehind /\ ScanWrites /\ TaskWrites /\ Written

CkptInv == StallInv /\ Knowledge /\ Approvals /\ DecisionsAgree /\ Returned

-----------------------------------------------------------------------------
(* Lemmas on the graph *)

\* What let a node run lets it run for as long as settled upstreams keep their output.
LEMMA JoinKept ==
    ASSUME NEW g \in Graphs, NEW s, NEW o, NEW s2, NEW o2, NEW n \in Node,
           \A u \in Node : s[u] \in {"done", "rejected", "rejected-canceled"}
                               => s2[u] = s[u] /\ o2[u] = o[u],
           JoinSatisfied(g, s, o, n)
    PROVE  JoinSatisfied(g, s2, o2, n)
<1>1. \A e \in g.edges : e.source \in Node
  BY DEF Graphs, Edges
<1>2. \A e \in g.edges : EdgeActive(s, o, e) => EdgeActive(s2, o2, e)
  BY <1>1 DEF EdgeActive
<1> QED
  BY <1>2 DEF JoinSatisfied, InEdges

LEMMA ReadyIsJoined ==
    \A g, s, o, n : NodeDecision(g, s, o, n) = "ready" <=> JoinSatisfied(g, s, o, n)
BY DEF NodeDecision

\* Marking a pending node in memory.
MarksOne(m, x) ==
    /\ st[m] = "pending" /\ x \in {"waiting_approval", "skipped"}
    /\ x = "waiting_approval" => IsApproval(graph, m)
    /\ st' = [st EXCEPT ![m] = x]
    /\ out' = [out EXCEPT ![m] = "absent"]

LEMMA DueMarksOne ==
    \A m \in DueApprovals(graph, st, out) : MarkApproval(m) =>
        m \in Node /\ IsApproval(graph, m) /\ \E x \in {"waiting_approval", "skipped"} : MarksOne(m, x)
BY DEF DueApprovals, MarkApproval, SetNode, MarksOne

\* While run() scans or has returned in order there are no tasks.
LEMMA NoTasks ==
    ASSUME StallInv, NEW l \in Loop,
           pc[l] # "wave", ~(pc[l] = "returned" /\ result[l] = "failed")
    PROVE  \A t \in Task : tpc[t] = "none"
BY OneLoop DEF StallInv, TasksBelongToAWave, Task

\* A step that leaves alone what is known and written of a node leaves it on record.
LEMMA WritingKept ==
    ASSUME NEW l \in Loop, NEW n \in Node,
           pc[l] = "row" /\ cur[l] = n => pc'[l] = "row" /\ cur'[l] = n,
           tpc[<<l, n>>] = "doneRow" => tpc'[<<l, n>>] = "doneRow",
           result'[l] = result[l],
           \A m \in Node : tpc[<<l, m>>] = "row" /\ tcur[<<l, m>>] = n
                               => tpc'[<<l, m>>] = "row" /\ tcur'[<<l, m>>] = n,
           BeingWritten(n)
    PROVE  BeingWritten(n)'
<1>1. \A k \in Loop : k = l
  BY OneLoop
<1>2. \/ pc[l] = "row" /\ cur[l] = n
      \/ tpc[<<l, n>>] = "doneRow"
      \/ result[l] \in {"crashed", "failed"}
      \/ \E m \in Node : tpc[<<l, m>>] = "row" /\ tcur[<<l, m>>] = n
  BY <1>1 DEF BeingWritten
<1>3. \/ pc'[l] = "row" /\ cur'[l] = n
      \/ tpc'[<<l, n>>] = "doneRow"
      \/ result'[l] \in {"crashed", "failed"}
      \/ \E m \in Node : tpc'[<<l, m>>] = "row" /\ tcur'[<<l, m>>] = n
  BY <1>2
<1> QED
  BY <1>3 DEF BeingWritten

LEMMA WrittenKept ==
    ASSUME Written, NEW n \in Node, st'[n] \in Lasting,
           st'[n] = st[n], out'[n] = out[n], dbSt'[n] = dbSt[n], dbOut'[n] = dbOut[n],
           BeingWritten(n) => BeingWritten(n)'
    PROVE  Recorded(n)'
BY DEF Written, Recorded

LEMMA CkptInit == Init => CkptInv
<1> SUFFICES ASSUME Init PROVE CkptInv
  OBVIOUS
<1>1. \A l \in Loop, n \in Node : tpc[<<l, n>>] = "none"
  BY DEF Init, ExecInit, Task
<1>2. Knowledge
  BY <1>1 DEF Init, ExecInit, Knowledge, TaskKnows, RowBehind, ScanWrites, TaskWrites, Written,
              Lasting, TERMINAL
<1>3. Approvals /\ DecisionsAgree /\ Returned
  BY DEF Init, ExecInit, Approvals, DecisionsAgree, Returned
<1> QED
  BY <1>2, <1>3, StallInvInit DEF CkptInv

-----------------------------------------------------------------------------
(* The steps of run() *)

LEMMA LoopKnowledge ==
    ASSUME CkptInv, NEW l \in Loop, LoopStep(l), TypeOK'
    PROVE  Knowledge'
<1> USE OneLoop DEF CkptInv, StallInv, TypeOK, ExecTypeOK
<1>0. \A n \in Node : <<l, n>> \in Task
  BY DEF Task
<1>g. graph \in Graphs
  BY DEF Valid
<1>1. CASE LoopMark(l)
  <2>1. PICK m \in Node, x \in {"waiting_approval", "skipped"} :
           MarksOne(m, x) /\ cur' = [cur EXCEPT ![l] = m]
    BY <1>1, DueMarksOne DEF LoopMark, DueApprovals, DueSkips, SetNode, MarksOne
  <2>2. \A n \in Node : tpc[<<l, n>>] = "none"
    BY <1>0, <1>1, NoTasks DEF LoopMark
  <2>3. pc[l] = "scan" /\ pc' = [pc EXCEPT ![l] = "row"] /\ UNCHANGED <<graph, dbSt, dbOut, appr, tpc, tcur, result>>
    BY <1>1 DEF LoopMark
  <2>4. TaskKnows' /\ TaskWrites'
    BY <2>2, <2>3 DEF TaskKnows, TaskWrites
  <2>5. RowBehind'
    BY <2>1, <2>3 DEF Knowledge, RowBehind, MarksOne
  <2>6. ScanWrites'
    BY <2>1, <2>3 DEF Knowledge, RowBehind, ScanWrites, Marked, MarksOne, IsApproval
  <2>7. Written'
    <3> SUFFICES ASSUME NEW n \in Node, st'[n] \in Lasting PROVE Recorded(n)'
      BY DEF Written
    <3>1. CASE n = m
      BY <2>1, <2>3, <3>1 DEF Recorded, BeingWritten
    <3>2. CASE n # m
      <4>1. st'[n] = st[n] /\ out'[n] = out[n]
        BY <2>1, <3>2 DEF MarksOne
      <4>2. BeingWritten(n) => BeingWritten(n)'
        BY <2>2, <2>3 DEF BeingWritten
      <4> QED
        BY <2>3, <4>1, <4>2, WrittenKept DEF Knowledge
    <3> QED
      BY <3>1, <3>2
  <2> QED
    BY <2>4, <2>5, <2>6, <2>7 DEF Knowledge
<1>2. CASE LoopRow(l)
  <2>1. \A n \in Node : tpc[<<l, n>>] = "none"
    BY <1>0, <1>2, NoTasks DEF LoopRow
  <2>2. /\ pc[l] = "row" /\ UNCHANGED <<graph, st, out, appr, tpc, tcur, result>>
        /\ Marked(cur[l]) /\ cur[l] \in Node
        /\ dbSt' = [dbSt EXCEPT ![cur[l]] = st[cur[l]]]
        /\ dbOut' = [dbOut EXCEPT ![cur[l]] = out[cur[l]]]
    BY <1>2 DEF LoopRow, WriteRow, memVars, Knowledge, ScanWrites, Marked
  <2>3. TaskKnows' /\ TaskWrites'
    BY <2>1, <2>2 DEF TaskKnows, TaskWrites
  <2>4. RowBehind'
    BY <2>2 DEF Knowledge, RowBehind, Marked
  <2>5. ScanWrites'
    <3>1. \/ pc' = [pc EXCEPT ![l] = "scan"]
          \/ /\ pc' = [pc EXCEPT ![l] = "ask"] /\ cur' = cur
             /\ st[cur[l]] = "waiting_approval"
      BY <1>2 DEF LoopRow
    <3>2. appr[cur[l]] = "none"
      BY <2>2 DEF Marked, Approvals, Lasting, TERMINAL
    <3> QED
      BY <2>2, <3>1, <3>2 DEF ScanWrites, Shown, Marked, IsApproval
  <2>6. Written'
    <3> SUFFICES ASSUME NEW n \in Node, st'[n] \in Lasting, n # cur[l] PROVE Recorded(n)'
      BY <2>2 DEF Written, Recorded
    <3>1. dbSt'[n] = dbSt[n] /\ dbOut'[n] = dbOut[n]
      BY <2>2
    <3>2. BeingWritten(n) => BeingWritten(n)'
      BY <2>1, <2>2 DEF BeingWritten
    <3> QED
      BY <2>2, <3>1, <3>2, WrittenKept DEF Knowledge
  <2> QED
    BY <2>3, <2>4, <2>5, <2>6 DEF Knowledge
<1>3. CASE LoopAsk(l)
  <2>1. \A n \in Node : tpc[<<l, n>>] = "none"
    BY <1>0, <1>3, NoTasks DEF LoopAsk
  <2>2. pc[l] = "ask" /\ pc' = [pc EXCEPT ![l] = "scan"] /\ UNCHANGED <<graph, st, out, dbSt, dbOut, tpc, tcur, result>>
    BY <1>3 DEF LoopAsk, memVars
  <2>3. TaskKnows' /\ TaskWrites' /\ ScanWrites' /\ RowBehind'
    BY <2>1, <2>2 DEF TaskKnows, TaskWrites, ScanWrites, Knowledge, RowBehind
  <2>4. Written'
    <3>1. \A n \in Node : BeingWritten(n) => BeingWritten(n)'
      BY <2>1, <2>2 DEF BeingWritten
    <3> QED
      BY <2>2, <3>1, WrittenKept DEF Knowledge, Written
  <2> QED
    BY <2>3, <2>4 DEF Knowledge
<1>4. CASE LoopGather(l)
  <2>1. \A t \in Task : tpc[t] = "none"
    BY <1>4, NoTasks DEF LoopGather, MayGoOn, Settled
  <2>2. /\ pc[l] = "scan" /\ pc' = [pc EXCEPT ![l] = "wave"]
        /\ UNCHANGED <<graph, st, out, dbSt, dbOut, appr, cur, tcur, result>>
        /\ \A n \in Node : tpc'[<<l, n>>] # "none" => tpc'[<<l, n>>] = "start" /\ n \in ReadyNodes(graph, st, out)
    BY <1>0, <1>4, <2>1 DEF LoopGather, MayGoOn, Settled, memVars, dbVars
  <2>3. \A n \in ReadyNodes(graph, st, out) :
            st[n] = "pending" /\ ~IsApproval(graph, n) /\ JoinSatisfied(graph, st, out, n)
    BY ReadyIsJoined DEF ReadyNodes
  <2>4. TaskKnows'
    BY <2>2, <2>3 DEF TaskKnows
  <2>5. TaskWrites' /\ ScanWrites' /\ RowBehind'
    BY <2>2 DEF TaskWrites, ScanWrites, Knowledge, RowBehind
  <2>6. Written'
    <3>1. \A n \in Node : BeingWritten(n) => BeingWritten(n)'
      BY <1>0, <2>1, <2>2 DEF BeingWritten
    <3> QED
      BY <2>2, <3>1, WrittenKept DEF Knowledge, Written
  <2> QED
    BY <2>4, <2>5, <2>6 DEF Knowledge
<1>5. CASE LoopWaveDone(l)
  <2>1. /\ \A n \in Node : tpc[<<l, n>>] \in {"none", "finished"} /\ tpc'[<<l, n>>] = "none"
        /\ pc[l] = "wave" /\ pc' = [pc EXCEPT ![l] = "scan"]
        /\ UNCHANGED <<graph, st, out, dbSt, dbOut, appr, cur, tcur, result>>
    BY <1>0, <1>5 DEF LoopWaveDone, memVars, dbVars
  <2>2. TaskKnows' /\ TaskWrites' /\ ScanWrites' /\ RowBehind'
    BY <2>1 DEF TaskKnows, TaskWrites, ScanWrites, Knowledge, RowBehind
  <2>3. Written'
    <3>1. \A n \in Node : BeingWritten(n) => BeingWritten(n)'
      BY <2>1 DEF BeingWritten
    <3> QED
      BY <2>1, <3>1, WrittenKept DEF Knowledge, Written
  <2> QED
    BY <2>2, <2>3 DEF Knowledge
<1>6. CASE LoopFail(l) \/ LoopPause(l) \/ LoopRelease(l) \/ LoopWaveFailed(l)
  <2>1. \E r : LoopReturn(l, r) /\ pc[l] \in {"scan", "wave"}
    BY <1>6 DEF LoopFail, LoopPause, LoopRelease, LoopWaveFailed, MayGoOn, Settled
  <2>2. /\ pc[l] \in {"scan", "wave"} /\ pc' = [pc EXCEPT ![l] = "returned"]
        /\ UNCHANGED <<graph, st, out, dbSt, dbOut, appr, cur, tpc, tcur>>
        /\ result[l] = "none"
    BY <2>1 DEF LoopReturn, memVars, dbVars, Returned
  <2>3. TaskKnows' /\ TaskWrites' /\ ScanWrites' /\ RowBehind'
    BY <2>2 DEF TaskKnows, TaskWrites, ScanWrites, Knowledge, RowBehind, Marked, Shown, IsApproval
  <2>4. Written'
    <3>1. \A n \in Node : BeingWritten(n) => BeingWritten(n)'
      BY <2>2 DEF BeingWritten
    <3> QED
      BY <2>2, <3>1, WrittenKept DEF Knowledge, Written
  <2> QED
    BY <2>3, <2>4 DEF Knowledge
<1> QED
  BY <1>1, <1>2, <1>3, <1>4, <1>5, <1>6 DEF LoopStep

-----------------------------------------------------------------------------
(* The steps of _exec_node *)

\* A task moves, in a wave that is awaited or failed.
Moves(l, n, p) ==
    /\ pc[l] \notin {"scan", "row", "ask"} /\ pc' = pc /\ cur' = cur /\ graph' = graph
    /\ tpc[<<l, n>>] # "none"
    /\ tpc'[<<l, n>>] = p /\ \A m \in Node : m # n => tpc'[<<l, m>>] = tpc[<<l, m>>]
    /\ ~IsApproval(graph, n)

LEMMA TaskMoves ==
    ASSUME CkptInv, NEW l \in Loop, NEW n \in Node, tpc[<<l, n>>] # "none", NEW p,
           tpc' = [tpc EXCEPT ![<<l, n>>] = p], UNCHANGED <<graph, pc, cur>>
    PROVE  Moves(l, n, p)
<1>1. <<l, n>> \in Task /\ <<l, n>>[1] = l /\ \A m \in Node : <<l, m>> \in Task
  BY DEF Task
<1>2. pc[l] \notin {"scan", "row", "ask"}
  BY <1>1 DEF CkptInv, StallInv, TasksBelongToAWave
<1>3. ~IsApproval(graph, n)
  BY DEF CkptInv, Knowledge, TaskKnows
<1> QED
  BY <1>1, <1>2, <1>3 DEF Moves, CkptInv, StallInv, TypeOK, ExecTypeOK

\* A task that goes on, having changed at most its own node in memory or its row.
LEMMA OwnNode ==
    ASSUME CkptInv, NEW l \in Loop, NEW n \in Node, NEW p, Moves(l, n, p), tcur' = tcur,
           UNCHANGED <<appr, result>>,
           \A m \in Node : m # n => st'[m] = st[m] /\ out'[m] = out[m] /\ dbSt'[m] = dbSt[m] /\ dbOut'[m] = dbOut[m],
           st[n] \notin {"done", "rejected", "rejected-canceled"} \/ UNCHANGED <<st, out>>,
           tpc[<<l, n>>] \notin {"row", "ask"}, p \notin {"start", "skipRow", "row", "ask"},
           p \in {"runRow", "exec"} => st'[n] = "running",
           p = "doneRow" => st'[n] = "done" /\ dbSt'[n] \notin Lasting,
           p \in {"failRow", "failing", "raised"} => st'[n] = "failed",
           p \in {"scan", "rescan", "finished"} =>
               st'[n] = "done" /\ dbSt'[n] = "done" /\ dbOut'[n] = out'[n],
           st'[n] \in {"pending", "running", "failed"} => dbSt'[n] \notin Lasting,
           st'[n] \in Lasting => Recorded(n)'
    PROVE  Knowledge'
<1> USE OneLoop DEF Moves, CkptInv, StallInv, TypeOK, ExecTypeOK
<1>g. graph \in Graphs
  BY DEF Valid
<1>j. \A m \in Node : JoinSatisfied(graph, st, out, m) => JoinSatisfied(graph, st', out', m)
  <2>1. \A u \in Node : st[u] \in {"done", "rejected", "rejected-canceled"}
                               => st'[u] = st[u] /\ out'[u] = out[u]
    OBVIOUS
  <2> QED
    BY <1>g, <2>1, JoinKept
<1>1. TaskKnows'
  BY <1>j DEF Knowledge, TaskKnows, IsApproval
<1>2. RowBehind'
  BY DEF Knowledge, RowBehind
<1>3. ScanWrites'
  BY DEF ScanWrites
<1>4. TaskWrites'
  <2>1. \A m \in Node : /\ Marked(m) /\ IsApproval(graph, m) => Marked(m)' /\ IsApproval(graph, m)'
                        /\ Shown(m) => Shown(m)'
    BY DEF Marked, Shown, IsApproval
  <2>2. \A m \in Node : tpc'[<<l, m>>] \in {"row", "ask"} => tpc[<<l, m>>] = tpc'[<<l, m>>]
    OBVIOUS
  <2> QED
    BY <2>1, <2>2 DEF Knowledge, TaskWrites, Marked, Shown
<1>5. Written'
  <2> SUFFICES ASSUME NEW m \in Node, st'[m] \in Lasting, m # n PROVE Recorded(m)'
    BY DEF Written
  <2>1. BeingWritten(m) => BeingWritten(m)'
    <3>1. tpc'[<<l, m>>] = tpc[<<l, m>>]
      OBVIOUS
    <3>2. \A k \in Node : tpc[<<l, k>>] = "row" => tpc'[<<l, k>>] = "row"
      OBVIOUS
    <3> QED
      BY <3>1, <3>2, WritingKept
  <2> QED
    BY <2>1, WrittenKept DEF Knowledge
<1> QED
  BY <1>1, <1>2, <1>3, <1>4, <1>5 DEF Knowledge

LEMMA OwnNodeSteps ==
    ASSUME CkptInv, NEW l \in Loop, NEW n \in Node, TypeOK',
           TaskStart(l, n) \/ TaskRow(l, n) \/ TaskDone(l, n) \/ TaskFail(l, n)
               \/ TaskRaise(l, n) \/ TaskReturn(l, n)
    PROVE  Knowledge'
<1> USE DEF StallInv, TypeOK, ExecTypeOK
<1>0. <<l, n>> \in Task
  BY DEF Task
<1>t. /\ TypeOK /\ TaskKnows /\ RowBehind /\ Written
      /\ TaskKnows!(l, n)
  BY DEF CkptInv, Knowledge, TaskKnows
<1>1. CASE TaskStart(l, n)
  <2>1. st[n] = "pending" /\ NodeDecision(graph, st, out, n) = "ready"
    BY <1>1, <1>t, ReadyIsJoined DEF TaskStart
  <2>2. /\ st' = [st EXCEPT ![n] = "running"] /\ out' = [out EXCEPT ![n] = "absent"]
        /\ tpc' = [tpc EXCEPT ![<<l, n>>] = "runRow"]
        /\ UNCHANGED <<graph, dbSt, dbOut, appr, pc, cur, tcur, result>>
        /\ tpc[<<l, n>>] = "start"
    BY <1>1, <2>1 DEF TaskStart, SetNode, dbVars
  <2>3. Moves(l, n, "runRow")
    BY <2>2, TaskMoves
  <2>4. dbSt[n] \notin Lasting
    BY <1>t, <2>1 DEF RowBehind
  <2>5. st'[n] = "running" /\ \A m \in Node : m # n => st'[m] = st[m] /\ out'[m] = out[m]
    BY <1>t, <2>2
  <2> QED
    BY <2>1, <2>2, <2>3, <2>4, <2>5, OwnNode DEF Lasting, TERMINAL
<1>2. CASE TaskRow(l, n)
  <2>1. PICK p \in {"exec", "scan", "failing"} :
           /\ tpc' = [tpc EXCEPT ![<<l, n>>] = p]
           /\ \/ tpc[<<l, n>>] = "runRow" /\ p = "exec"
              \/ tpc[<<l, n>>] = "doneRow" /\ p = "scan"
              \/ tpc[<<l, n>>] = "failRow" /\ p = "failing"
    <3>1. tpc[<<l, n>>] \in {"runRow", "doneRow", "failRow"}
      BY <1>2, <1>t DEF TaskRow, AfterRow
    <3>2. AfterRow["runRow"] = "exec" /\ AfterRow["doneRow"] = "scan" /\ AfterRow["failRow"] = "failing"
      BY DEF AfterRow
    <3> QED
      BY <1>2, <3>1, <3>2 DEF TaskRow
  <2>2. /\ dbSt' = [dbSt EXCEPT ![n] = st[n]] /\ dbOut' = [dbOut EXCEPT ![n] = out[n]]
        /\ UNCHANGED <<graph, st, out, appr, pc, cur, tcur, result>>
    BY <1>2 DEF TaskRow, WriteRow, memVars
  <2>3. Moves(l, n, p)
    BY <2>1, <2>2, TaskMoves
  <2>4. /\ dbSt'[n] = st[n] /\ dbOut'[n] = out[n]
        /\ \A m \in Node : m # n => dbSt'[m] = dbSt[m] /\ dbOut'[m] = dbOut[m]
    BY <1>t, <2>2
  <2>5. Recorded(n)'
    BY <2>2, <2>4 DEF Recorded
  <2> QED
    BY <1>t, <2>1, <2>2, <2>3, <2>4, <2>5, OwnNode DEF Lasting, TERMINAL
<1>3. CASE TaskDone(l, n) \/ TaskFail(l, n)
  <2>1. PICK p \in {"doneRow", "failRow"}, x \in {"done", "failed"}, v \in Verdict :
           /\ tpc' = [tpc EXCEPT ![<<l, n>>] = p]
           /\ st' = [st EXCEPT ![n] = x] /\ out' = [out EXCEPT ![n] = v]
           /\ p = "doneRow" <=> x = "done"
    BY <1>3 DEF TaskDone, TaskFail, SetNode, Verdict
  <2>2. /\ tpc[<<l, n>>] = "exec"
        /\ UNCHANGED <<graph, dbSt, dbOut, appr, pc, cur, tcur, result>>
    BY <1>3 DEF TaskDone, TaskFail, dbVars
  <2>3. Moves(l, n, p)
    BY <2>1, <2>2, TaskMoves
  <2>4. st[n] = "running" /\ dbSt[n] \notin Lasting
    BY <1>t, <2>2 DEF RowBehind
  <2>5. st'[n] = x /\ \A m \in Node : m # n => st'[m] = st[m] /\ out'[m] = out[m]
    BY <1>t, <2>1
  <2>6. x = "done" => Recorded(n)'
    <3>1. x = "done" => tpc'[<<l, n>>] = "doneRow"
      BY <2>1, <2>3 DEF Moves
    <3> QED
      BY <3>1 DEF Recorded, BeingWritten
  <2> QED
    BY <2>1, <2>2, <2>3, <2>4, <2>5, <2>6, OwnNode DEF Lasting, TERMINAL
<1>4. CASE TaskRaise(l, n) \/ TaskReturn(l, n)
  <2>1. PICK p \in {"raised", "finished"} :
           /\ tpc' = [tpc EXCEPT ![<<l, n>>] = p]
           /\ \/ p = "raised" /\ tpc[<<l, n>>] = "failing"
              \/ p = "finished" /\ tpc[<<l, n>>] \in {"scan", "rescan"}
    BY <1>4 DEF TaskRaise, TaskReturn
  <2>2. UNCHANGED <<graph, st, out, dbSt, dbOut, appr, pc, cur, tcur, result>>
    BY <1>4 DEF TaskRaise, TaskReturn, memVars, dbVars
  <2>3. Moves(l, n, p)
    BY <2>1, <2>2, TaskMoves
  <2>4. st[n] \in {"done", "failed"} /\ (st[n] = "done" => dbSt[n] = "done" /\ dbOut[n] = out[n])
    BY <1>t, <2>1
  <2>5. st[n] = "done" => Recorded(n)'
    BY <2>2, <2>4 DEF Recorded
  <2>6. st[n] = "failed" => dbSt[n] \notin Lasting
    BY <1>t DEF RowBehind
  <2> QED
    BY <1>t, <2>1, <2>2, <2>3, <2>4, <2>5, <2>6, OwnNode DEF Lasting, TERMINAL
<1> QED
  BY <1>1, <1>2, <1>3, <1>4

\* _process_approvals in a task: it marks, writes and asks approvals one by one.
LEMMA TaskMarkKnowledge ==
    ASSUME CkptInv, NEW l \in Loop, NEW n \in Node, TypeOK', TaskMark(l, n)
    PROVE  Knowledge'
<1> USE OneLoop DEF StallInv, TypeOK, ExecTypeOK
<1>0. <<l, n>> \in Task /\ \A k \in Node : <<l, k>> \in Task
  BY DEF Task
<1>t. TypeOK /\ TaskKnows /\ RowBehind /\ TaskWrites /\ Written /\ graph \in Graphs
  BY DEF CkptInv, Knowledge, Valid
<1>1. PICK m \in Node, x \in {"waiting_approval", "skipped"} :
         MarksOne(m, x) /\ IsApproval(graph, m) /\ tcur' = [tcur EXCEPT ![<<l, n>>] = m]
  BY DueMarksOne DEF TaskMark
<1>2. /\ tpc[<<l, n>>] \in {"scan", "rescan"}
      /\ tpc' = [tpc EXCEPT ![<<l, n>>] = "row"]
      /\ UNCHANGED <<graph, dbSt, dbOut, appr, pc, cur, result>>
  BY DEF TaskMark, dbVars
<1>3. Moves(l, n, "row")
  BY <1>2, TaskMoves
<1>4. /\ st'[m] = x /\ st[m] = "pending" /\ dbSt[m] \notin Lasting
      /\ \A k \in Node : k # m => st'[k] = st[k] /\ out'[k] = out[k]
      /\ tcur'[<<l, n>>] = m /\ \A k \in Node : k # n => tcur'[<<l, k>>] = tcur[<<l, k>>]
  BY <1>0, <1>1, <1>t DEF MarksOne, RowBehind
<1>5. TaskKnows'
  <2>1. \A k \in Node : JoinSatisfied(graph, st, out, k) => JoinSatisfied(graph, st', out', k)
    <3>1. \A u \in Node : st[u] \in {"done", "rejected", "rejected-canceled"}
                               => st'[u] = st[u] /\ out'[u] = out[u]
      BY <1>4
    <3> QED
      BY <1>t, <3>1, JoinKept
  <2>2. \A k \in Node : tpc[<<l, k>>] # "none" => k # m
    BY <1>1, <1>t DEF TaskKnows
  <2> QED
    BY <1>2, <1>3, <1>4, <1>t, <2>1, <2>2 DEF Moves, TaskKnows, IsApproval
<1>6. RowBehind'
  BY <1>2, <1>4, <1>t DEF RowBehind
<1>7. ScanWrites'
  BY <1>3 DEF Moves, ScanWrites
<1>8. TaskWrites'
  <2>1. \A k \in Node : tpc[<<l, k>>] \in {"row", "ask"} => k # n /\ tcur[<<l, k>>] # m
    BY <1>2, <1>4, <1>t DEF TaskWrites, Marked, Shown
  <2>2. Marked(m)' /\ IsApproval(graph, m)'
    BY <1>1, <1>2, <1>4 DEF Marked, IsApproval
  <2>3. \A k \in Node : /\ k # m /\ Marked(k) => Marked(k)'
                        /\ k # m /\ Shown(k) => Shown(k)'
                        /\ IsApproval(graph, k) => IsApproval(graph, k)'
    BY <1>2, <1>4 DEF Marked, Shown, IsApproval
  <2>4. \A k \in Node : /\ k # n => tpc'[<<l, k>>] = tpc[<<l, k>>]
                        /\ tpc'[<<l, n>>] = "row"
    BY <1>3 DEF Moves
  <2>5. ASSUME NEW k \in Node, k # n, tpc'[<<l, k>>] \in {"row", "ask"}
        PROVE  \E y \in Node : /\ y = tcur'[<<l, k>>] /\ y = tcur[<<l, k>>] /\ y # m
                               /\ tpc'[<<l, k>>] = "row" => Marked(y)' /\ IsApproval(graph, y)'
                               /\ tpc'[<<l, k>>] = "ask" => Shown(y)'
    <3>1. tpc'[<<l, k>>] = tpc[<<l, k>>] /\ tpc[<<l, k>>] \in {"row", "ask"}
      BY <2>4, <2>5
    <3>2. /\ tpc[<<l, k>>] = "row" => Marked(tcur[<<l, k>>]) /\ IsApproval(graph, tcur[<<l, k>>])
          /\ tpc[<<l, k>>] = "ask" => Shown(tcur[<<l, k>>])
      BY <1>t DEF TaskWrites
    <3>3. PICK y \in Node : y = tcur[<<l, k>>]
      BY <3>1, <3>2 DEF Marked, Shown
    <3>4. y = tcur'[<<l, k>>] /\ y # m
      BY <1>4, <2>1, <2>5, <3>1, <3>3
    <3> QED
      BY <2>3, <3>1, <3>2, <3>3, <3>4
  <2>6. \A j, k \in Node : tpc'[<<l, j>>] \in {"row", "ask"} /\ tpc'[<<l, k>>] \in {"row", "ask"}
                             /\ tcur'[<<l, j>>] = tcur'[<<l, k>>] => j = k
    BY <1>4, <1>t, <2>4, <2>5 DEF TaskWrites
  <2>7. \A k \in Node : /\ tpc'[<<l, k>>] = "row" => (Marked(tcur[<<l, k>>]) /\ IsApproval(graph, tcur[<<l, k>>]))'
                        /\ tpc'[<<l, k>>] = "ask" => Shown(tcur[<<l, k>>])'
    <3> SUFFICES ASSUME NEW k \in Node, tpc'[<<l, k>>] \in {"row", "ask"}
                 PROVE  /\ tpc'[<<l, k>>] = "row" => (Marked(tcur[<<l, k>>]) /\ IsApproval(graph, tcur[<<l, k>>]))'
                        /\ tpc'[<<l, k>>] = "ask" => Shown(tcur[<<l, k>>])'
      OBVIOUS
    <3>1. CASE k = n
      BY <1>4, <2>2, <2>4, <3>1 DEF Marked, IsApproval
    <3>2. CASE k # n
      BY <2>5, <3>2 DEF Marked, Shown, IsApproval
    <3> QED
      BY <3>1, <3>2
  <2> QED
    BY <2>6, <2>7 DEF TaskWrites
<1>9. Written'
  <2> SUFFICES ASSUME NEW k \in Node, st'[k] \in Lasting PROVE Recorded(k)'
    BY DEF Written
  <2>1. CASE k = m
    <3>1. tpc'[<<l, n>>] = "row" /\ tcur'[<<l, n>>] = k
      BY <1>3, <1>4, <2>1 DEF Moves
    <3> QED
      BY <3>1 DEF Recorded, BeingWritten
  <2>2. CASE k # m
    <3>1. BeingWritten(k) => BeingWritten(k)'
      <4>1. tpc[<<l, k>>] = "doneRow" => tpc'[<<l, k>>] = "doneRow"
        BY <1>2, <1>3 DEF Moves
      <4>2. \A j \in Node : tpc[<<l, j>>] = "row" => tpc'[<<l, j>>] = "row" /\ tcur'[<<l, j>>] = tcur[<<l, j>>]
        BY <1>2, <1>3, <1>4 DEF Moves
      <4> QED
        BY <1>2, <4>1, <4>2, WritingKept
    <3> QED
      BY <1>2, <1>4, <1>t, <2>2, <3>1, WrittenKept
  <2> QED
    BY <2>1, <2>2
<1> QED
  BY <1>5, <1>6, <1>7, <1>8, <1>9 DEF Knowledge

\* The task has written the approval it marked, or asked it, and goes on.
LEMMA TaskAskKnowledge ==
    ASSUME CkptInv, NEW l \in Loop, NEW n \in Node, TypeOK', TaskMarkRow(l, n) \/ TaskAsk(l, n)
    PROVE  Knowledge'
<1> USE OneLoop DEF StallInv, TypeOK, ExecTypeOK
<1>0. <<l, n>> \in Task /\ \A k \in Node : <<l, k>> \in Task
  BY DEF Task
<1>t. /\ TypeOK /\ TaskKnows /\ RowBehind /\ TaskWrites /\ Written /\ Approvals
      /\ tpc[<<l, n>>] \in {"row", "ask"}
  BY DEF CkptInv, Knowledge, TaskMarkRow, TaskAsk
<1>m. PICK m \in Node : m = tcur[<<l, n>>]
  BY <1>t DEF TaskWrites, Marked, Shown
<1>1. PICK p \in {"ask", "rescan"} :
         /\ tpc' = [tpc EXCEPT ![<<l, n>>] = p]
         /\ p = "ask" => tpc[<<l, n>>] = "row" /\ st[m] = "waiting_approval" /\ tcur' = tcur
         /\ p = "rescan" => tcur' = [tcur EXCEPT ![<<l, n>>] = NoNode]
  BY <1>m DEF TaskMarkRow, TaskAsk
<1>2. /\ UNCHANGED <<graph, st, out, pc, cur, result>>
      /\ \/ /\ tpc[<<l, n>>] = "row" /\ appr' = appr
            /\ dbSt' = [dbSt EXCEPT ![m] = st[m]] /\ dbOut' = [dbOut EXCEPT ![m] = out[m]]
         \/ /\ tpc[<<l, n>>] = "ask" /\ p = "rescan" /\ appr' = [appr EXCEPT ![m] = "WAITING"]
            /\ UNCHANGED <<dbSt, dbOut>>
  BY <1>1, <1>m DEF TaskMarkRow, TaskAsk, WriteRow, AskApproval, memVars
<1>3. Moves(l, n, p)
  BY <1>1, <1>2, <1>t, TaskMoves
<1>4. /\ IsApproval(graph, m) /\ st[m] \in {"waiting_approval", "skipped"}
      /\ tpc[<<l, n>>] = "row" => Marked(m)
      /\ tpc[<<l, n>>] = "ask" => Shown(m)
  BY <1>m, <1>t DEF TaskWrites, Marked, Shown
<1>5. /\ \A k \in Node : k # m => dbSt'[k] = dbSt[k] /\ dbOut'[k] = dbOut[k] /\ appr'[k] = appr[k]
      /\ \A k \in Node : k # n => tcur'[<<l, k>>] = tcur[<<l, k>>]
  BY <1>0, <1>1, <1>2, <1>t
<1>6. TaskKnows'
  <2>1. \A k \in Node : tpc[<<l, k>>] # "none" => k # m
    BY <1>4, <1>t DEF TaskKnows
  <2>2. /\ st[n] = "done" /\ dbSt[n] = "done" /\ dbOut[n] = out[n]
        /\ n # m
    BY <1>t, <2>1 DEF TaskKnows
  <2> QED
    BY <1>2, <1>3, <1>5, <1>t, <2>1, <2>2 DEF Moves, TaskKnows, IsApproval
<1>7. RowBehind'
  BY <1>2, <1>4, <1>5, <1>t DEF RowBehind
<1>8. ScanWrites'
  BY <1>3 DEF Moves, ScanWrites
<1>9. TaskWrites'
  <2>1. \A k \in Node : k # n /\ tpc[<<l, k>>] \in {"row", "ask"} => tcur[<<l, k>>] # m
    BY <1>m, <1>t DEF TaskWrites
  <2>2. \A k \in Node : k # n => tpc'[<<l, k>>] = tpc[<<l, k>>]
    BY <1>3 DEF Moves
  <2>3. tpc'[<<l, n>>] \in {"row", "ask"} => p = "ask" /\ tcur'[<<l, n>>] = m /\ tcur[<<l, n>>] = m /\ tpc'[<<l, n>>] = "ask"
    BY <1>1, <1>3, <1>m DEF Moves
  <2>4. p = "ask" => Shown(m)'
    <3>1. p = "ask" => appr[m] = "none"
      BY <1>1, <1>4, <1>t DEF Marked, Approvals, Lasting, TERMINAL
    <3>2. p = "ask" => tpc[<<l, n>>] = "row" /\ st[m] = "waiting_approval"
      BY <1>1
    <3> QED
      BY <1>2, <1>4, <1>t, <3>1, <3>2 DEF Shown, IsApproval
  <2>5. \A k \in Node : /\ k # m /\ Marked(k) => Marked(k)'
                        /\ k # m /\ Shown(k) => Shown(k)'
                        /\ IsApproval(graph, k) => IsApproval(graph, k)'
    BY <1>2, <1>5 DEF Marked, Shown, IsApproval
  <2>6. ASSUME NEW k \in Node, k # n, tpc'[<<l, k>>] \in {"row", "ask"}
        PROVE  \E x \in Node : /\ x = tcur'[<<l, k>>] /\ x = tcur[<<l, k>>] /\ x # m
                               /\ tpc'[<<l, k>>] = "row" => Marked(x)' /\ IsApproval(graph, x)'
                               /\ tpc'[<<l, k>>] = "ask" => Shown(x)'
    <3>1. tpc'[<<l, k>>] = tpc[<<l, k>>] /\ tpc[<<l, k>>] \in {"row", "ask"}
      BY <2>2, <2>6
    <3>2. /\ tpc[<<l, k>>] = "row" => Marked(tcur[<<l, k>>]) /\ IsApproval(graph, tcur[<<l, k>>])
          /\ tpc[<<l, k>>] = "ask" => Shown(tcur[<<l, k>>])
      BY <1>t DEF TaskWrites
    <3>3. PICK x \in Node : x = tcur[<<l, k>>]
      BY <3>1, <3>2 DEF Marked, Shown
    <3>4. x = tcur'[<<l, k>>] /\ x # m
      BY <1>5, <2>1, <2>6, <3>1, <3>3
    <3> QED
      BY <2>5, <3>1, <3>2, <3>3, <3>4
  <2>7. \A j, k \in Node : tpc'[<<l, j>>] \in {"row", "ask"} /\ tpc'[<<l, k>>] \in {"row", "ask"}
                             /\ tcur'[<<l, j>>] = tcur'[<<l, k>>] => j = k
    BY <1>t, <2>2, <2>3, <2>6 DEF TaskWrites
  <2>8. \A k \in Node : /\ tpc'[<<l, k>>] = "row" => (Marked(tcur[<<l, k>>]) /\ IsApproval(graph, tcur[<<l, k>>]))'
                        /\ tpc'[<<l, k>>] = "ask" => Shown(tcur[<<l, k>>])'
    <3> SUFFICES ASSUME NEW k \in Node, tpc'[<<l, k>>] \in {"row", "ask"}
                 PROVE  /\ tpc'[<<l, k>>] = "row" => (Marked(tcur[<<l, k>>]) /\ IsApproval(graph, tcur[<<l, k>>]))'
                        /\ tpc'[<<l, k>>] = "ask" => Shown(tcur[<<l, k>>])'
      OBVIOUS
    <3>1. CASE k = n
      BY <2>3, <2>4, <3>1 DEF Shown, IsApproval
    <3>2. CASE k # n
      BY <2>6, <3>2 DEF Marked, Shown, IsApproval
    <3> QED
      BY <3>1, <3>2
  <2> QED
    BY <2>7, <2>8 DEF TaskWrites
<1>10. Written'
  <2> SUFFICES ASSUME NEW k \in Node, st'[k] \in Lasting PROVE Recorded(k)'
    BY DEF Written
  <2>1. CASE k = m
    BY <1>2, <1>4, <1>t, <2>1 DEF Recorded, Shown
  <2>2. CASE k # m
    <3>1. BeingWritten(k) => BeingWritten(k)'
      <4>1. tpc[<<l, k>>] = "doneRow" => tpc'[<<l, k>>] = "doneRow"
        BY <1>t, <1>3 DEF Moves
      <4>2. \A j \in Node : tpc[<<l, j>>] = "row" /\ tcur[<<l, j>>] = k
                               => tpc'[<<l, j>>] = "row" /\ tcur'[<<l, j>>] = k
        BY <1>m, <1>3, <1>5, <2>2 DEF Moves
      <4> QED
        BY <1>2, <4>1, <4>2, WritingKept
    <3> QED
      BY <1>2, <1>5, <1>t, <2>2, <3>1, WrittenKept
  <2> QED
    BY <2>1, <2>2
<1> QED
  BY <1>6, <1>7, <1>8, <1>9, <1>10 DEF Knowledge

LEMMA TaskKnowledge ==
    ASSUME CkptInv, NEW l \in Loop, NEW n \in Node, TypeOK', TaskStep(l, n)
    PROVE  Knowledge'
BY OwnNodeSteps, TaskMarkKnowledge, TaskAskKnowledge DEF TaskStep

-----------------------------------------------------------------------------
(* The steps of the API, the sweeper and the clock; crashes and resumes *)

LEMMA DeciderKnowledge ==
    ASSUME CkptInv, NEW n \in Node, NEW d \in Decision, TypeOK',
           Expire(n) \/ CasApproval(n, d) \/ WriteDecision(n) \/ DeciderCrash(n)
    PROVE  Knowledge'
<1> USE OneLoop DEF StallInv, TypeOK, ExecTypeOK
<1>t. /\ TypeOK /\ TaskKnows /\ RowBehind /\ TaskWrites /\ Written /\ ScanWrites /\ Approvals
  BY DEF CkptInv, Knowledge
<1>b. ASSUME UNCHANGED <<pc, cur, tpc, tcur, result>>
      PROVE  \A m \in Node : BeingWritten(m) => BeingWritten(m)'
  BY <1>b DEF BeingWritten
<1>1. CASE Expire(n) \/ DeciderCrash(n)
  <2>1. UNCHANGED <<graph, st, out, dbSt, dbOut, appr, pc, cur, tpc, tcur, result>>
    BY <1>1 DEF Expire, DeciderCrash, execVars
  <2>2. TaskKnows' /\ RowBehind' /\ TaskWrites' /\ ScanWrites'
    BY <1>t, <2>1 DEF TaskKnows, RowBehind, TaskWrites, ScanWrites, Marked, Shown, IsApproval
  <2>3. Written'
    BY <1>b, <1>t, <2>1, WrittenKept DEF Written
  <2> QED
    BY <2>2, <2>3 DEF Knowledge
<1>2. CASE CasApproval(n, d)
  <2>1. /\ UNCHANGED <<graph, st, out, dbSt, dbOut, pc, cur, tpc, tcur, result>>
        /\ appr[n] = "WAITING" /\ \A m \in Node : m # n => appr'[m] = appr[m]
    BY <1>2, <1>t DEF CasApproval, memVars
  <2>2. TaskKnows' /\ RowBehind'
    BY <1>t, <2>1 DEF TaskKnows, RowBehind, IsApproval
  <2>3. TaskWrites' /\ ScanWrites'
    BY <1>t, <2>1 DEF TaskWrites, ScanWrites, Marked, Shown, IsApproval
  <2>4. Written'
    BY <1>b, <1>t, <2>1, WrittenKept DEF Written
  <2> QED
    BY <2>2, <2>3, <2>4 DEF Knowledge
<1>3. CASE WriteDecision(n)
  <2>1. /\ UNCHANGED <<graph, st, out, appr, pc, cur, tpc, tcur, result>>
        /\ decided[n] \in Decision /\ dbSt' = [dbSt EXCEPT ![n] = NodeStatusOf[decided[n]]]
        /\ \A m \in Node : m # n => dbSt'[m] = dbSt[m] /\ dbOut'[m] = dbOut[m]
    BY <1>3, <1>t DEF WriteDecision, memVars
  <2>2. IsApproval(graph, n) /\ dbSt[n] = "waiting_approval" /\ appr[n] # "none"
    BY <1>t, <2>1 DEF Approvals, Decision
  <2>3. dbSt'[n] \in {"done", "rejected", "rejected-canceled"}
    BY <1>t, <2>1 DEF NodeStatusOf, Decision
  <2>4. TaskKnows'
    BY <1>t, <2>1, <2>2 DEF TaskKnows, IsApproval
  <2>5. dbSt[n] \in Lasting
    BY <2>2 DEF Lasting
  <2>6. RowBehind'
    BY <1>t, <2>1, <2>5 DEF RowBehind
  <2>7. TaskWrites' /\ ScanWrites'
    <3>1. \A m \in Node : /\ Marked(m) => Marked(m)' /\ m # n
                          /\ Shown(m) => Shown(m)' /\ m # n
      BY <2>1, <2>2, <2>5 DEF Marked, Shown, IsApproval
    <3> QED
      BY <1>t, <2>1, <3>1 DEF TaskWrites, ScanWrites, Marked, Shown, IsApproval
  <2>8. Written'
    <3> SUFFICES ASSUME NEW m \in Node, st'[m] \in Lasting PROVE Recorded(m)'
      BY DEF Written
    <3>1. CASE m = n
      <4>1. ~BeingWritten(n) \/ result[Worker] \in {"crashed", "failed"}
        <5>1. ~Marked(n)
          BY <2>5 DEF Marked
        <5>2. ASSUME NEW l \in Loop, pc[l] = "row", cur[l] = n PROVE FALSE
          BY <1>t, <5>1, <5>2 DEF ScanWrites
        <5>3. ASSUME NEW l \in Loop, NEW k \in Node, tpc[<<l, k>>] = "row", tcur[<<l, k>>] = n PROVE FALSE
          BY <1>t, <5>1, <5>3 DEF TaskWrites
        <5>4. ASSUME NEW l \in Loop, tpc[<<l, n>>] = "doneRow" PROVE FALSE
          BY <1>t, <2>2, <5>4 DEF TaskKnows
        <5> QED
          BY <5>2, <5>3, <5>4 DEF BeingWritten
      <4>2. CASE st[n] = "waiting_approval"
        BY <2>1, <2>3, <3>1, <4>2 DEF Recorded
      <4>3. CASE result[Worker] \in {"crashed", "failed"}
        BY <2>1, <3>1, <4>3 DEF Recorded, BeingWritten
      <4>4. CASE ~BeingWritten(n)
        BY <1>t, <2>1, <2>2, <2>3, <3>1, <4>4 DEF Written, Recorded, TERMINAL
      <4> QED
        BY <4>1, <4>2, <4>3, <4>4
    <3>2. CASE m # n
      BY <1>b, <1>t, <2>1, <3>2, WrittenKept
    <3> QED
      BY <3>1, <3>2
  <2> QED
    BY <2>4, <2>6, <2>7, <2>8 DEF Knowledge
<1> QED
  BY <1>1, <1>2, <1>3

LEMMA CrashKnowledge == CkptInv /\ TypeOK' /\ WorkerCrash => Knowledge'
<1> SUFFICES ASSUME CkptInv, TypeOK', WorkerCrash PROVE Knowledge'
  OBVIOUS
<1> USE OneLoop DEF StallInv, TypeOK, ExecTypeOK
<1>t. TypeOK /\ RowBehind /\ StallInv
  BY DEF CkptInv, Knowledge
<1>1. /\ UNCHANGED <<graph, st, out, dbSt, dbOut, appr>>
      /\ \A l \in Loop : pc'[l] = "returned"
      /\ \A l \in Loop, n \in Node : tpc'[<<l, n>>] = "none"
  BY DEF WorkerCrash, memVars, dbVars, Task
<1>2. result'[Worker] \in {"crashed", "failed"}
  <2>1. \A l \in Loop : pc[l] # "returned" => result'[l] = "crashed"
    BY DEF WorkerCrash
  <2>2. pc[Worker] = "returned" => result'[Worker] = "crashed"
                                      \/ (result[Worker] = "failed" /\ result'[Worker] = result[Worker])
    BY <1>t DEF WorkerCrash, Executing, Active, TasksBelongToAWave, Task
  <2> QED
    BY <2>1, <2>2
<1>3. TaskKnows' /\ TaskWrites' /\ ScanWrites'
  BY <1>1 DEF TaskKnows, TaskWrites, ScanWrites
<1>4. RowBehind'
  BY <1>1, <1>t DEF RowBehind
<1>5. Written'
  BY <1>2 DEF Written, Recorded, BeingWritten
<1> QED
  BY <1>3, <1>4, <1>5 DEF Knowledge

LEMMA ResumeKnowledge ==
    ASSUME CkptInv, NEW l \in Loop, TypeOK', Resumed(l)
    PROVE  Knowledge'
<1> USE OneLoop DEF StallInv, TypeOK, ExecTypeOK
<1>t. TypeOK
  BY DEF CkptInv
<1>1. \A k \in Loop, n \in Node : tpc[<<k, n>>] = "none"
  <2>1. \A t \in Task : tpc[t] = "none"
    BY NoTasks DEF Resumed, Rebuild, CkptInv
  <2> QED
    BY <2>1 DEF Task
<1>2. /\ tpc' = tpc /\ pc'[l] = "scan" /\ UNCHANGED <<dbSt, dbOut>>
      /\ \A n \in Node : st'[n] = IF Kept(n) THEN dbSt[n] ELSE "pending"
      /\ \A n \in Node : Kept(n) => out'[n] = dbOut[n]
  BY <1>t DEF Resumed, Rebuild, dbVars
<1>3. TaskKnows' /\ TaskWrites'
  BY <1>1, <1>2 DEF TaskKnows, TaskWrites
<1>4. ScanWrites'
  BY <1>2 DEF ScanWrites
<1>5. RowBehind'
  BY <1>2 DEF RowBehind, Kept, Lasting, TERMINAL
<1>6. Written'
  BY <1>2 DEF Written, Recorded, Kept, Lasting, TERMINAL
<1> QED
  BY <1>3, <1>4, <1>5, <1>6 DEF Knowledge

LEMMA KnowledgeUnchanged ==
    ASSUME Knowledge, UNCHANGED <<graph, st, out, dbSt, dbOut, appr, pc, cur, tpc, tcur, result>>
    PROVE  Knowledge'
<1>1. \A n \in Node : Recorded(n) => Recorded(n)'
  BY DEF Recorded, BeingWritten
<1> QED
  BY <1>1 DEF Knowledge, TaskKnows, RowBehind, ScanWrites, TaskWrites, Written, Marked, Shown, IsApproval

-----------------------------------------------------------------------------
(* The two tables *)

Tables == Approvals /\ DecisionsAgree

LEMMA TablesUnchanged ==
    ASSUME Tables, UNCHANGED <<graph, dbSt, appr, decided>>
    PROVE  Tables'
BY DEF Tables, Approvals, DecisionsAgree, IsApproval

\* A row is written whose approval nobody has asked.
LEMMA TablesWritten ==
    ASSUME CkptInv, NEW n \in Node, WriteRow(n), UNCHANGED <<graph, appr, decided>>,
           dbSt[n] \notin Lasting,
           IsApproval(graph, n) => st[n] \in {"waiting_approval", "skipped"}
    PROVE  Tables'
<1>1. dbSt'[n] = st[n] /\ \A m \in Node : m # n => dbSt'[m] = dbSt[m]
  BY DEF WriteRow, CkptInv, StallInv, TypeOK, ExecTypeOK
<1>2. appr[n] = "none" /\ decided[n] = "none"
  BY DEF CkptInv, Approvals, Lasting, TERMINAL
<1> QED
  BY <1>1, <1>2 DEF CkptInv, Tables, Approvals, DecisionsAgree, IsApproval

\* An approval is asked whose row waits.
LEMMA TablesAsked ==
    ASSUME CkptInv, NEW n \in Node, AskApproval(n), UNCHANGED <<graph, dbSt, decided>>, Shown(n)
    PROVE  Tables'
<1>1. appr'[n] = "WAITING" /\ \A m \in Node : m # n => appr'[m] = appr[m]
  BY DEF AskApproval, CkptInv, StallInv, TypeOK, ExecTypeOK
<1>2. decided[n] = "none"
  <2>1. decided[n] # "none" => appr[n] = decided[n] /\ decided[n] \in Decision
    BY DEF CkptInv, Approvals, StallInv, TypeOK
  <2> QED
    BY <2>1 DEF Shown, Decision
<1> QED
  BY <1>1, <1>2 DEF CkptInv, Tables, Approvals, DecisionsAgree, IsApproval, Shown

LEMMA ExecTables ==
    ASSUME CkptInv, NEW l \in Loop, ExecStep(l), UNCHANGED decided
    PROVE  Tables'
<1> USE DEF CkptInv
<1>u. UNCHANGED <<graph, dbSt, appr>> => Tables'
  BY TablesUnchanged DEF Tables
<1>1. CASE LoopRow(l)
  <2>1. Marked(cur[l]) /\ WriteRow(cur[l]) /\ UNCHANGED <<graph, appr>>
    BY <1>1 DEF LoopRow, Knowledge, ScanWrites
  <2> QED
    BY <2>1, TablesWritten DEF Marked
<1>2. CASE LoopAsk(l)
  <2>1. Shown(cur[l]) /\ AskApproval(cur[l]) /\ UNCHANGED <<graph, dbSt>>
    BY <1>2 DEF LoopAsk, Knowledge, ScanWrites
  <2> QED
    BY <2>1, TablesAsked DEF Shown
<1>3. CASE LoopMark(l) \/ LoopFail(l) \/ LoopPause(l) \/ LoopGather(l) \/ LoopRelease(l)
           \/ LoopWaveDone(l) \/ LoopWaveFailed(l)
  BY <1>3, <1>u DEF LoopMark, LoopFail, LoopPause, LoopGather, LoopRelease, LoopWaveDone, LoopWaveFailed,
     LoopReturn, dbVars
<1>4. ASSUME NEW n \in Node, TaskRow(l, n) PROVE Tables'
  <2>1. tpc[<<l, n>>] \in {"runRow", "doneRow", "failRow"} /\ WriteRow(n) /\ UNCHANGED <<graph, appr>>
    BY <1>4 DEF TaskRow, AfterRow, Knowledge, TaskKnows
  <2>2. ~IsApproval(graph, n) /\ dbSt[n] \notin Lasting
    BY <2>1 DEF Knowledge, TaskKnows, RowBehind
  <2> QED
    BY <2>1, <2>2, TablesWritten
<1>5. ASSUME NEW n \in Node, TaskMarkRow(l, n) PROVE Tables'
  <2>1. Marked(tcur[<<l, n>>]) /\ WriteRow(tcur[<<l, n>>]) /\ UNCHANGED <<graph, appr>>
    BY <1>5 DEF TaskMarkRow, Knowledge, TaskWrites
  <2> QED
    BY <2>1, TablesWritten DEF Marked
<1>6. ASSUME NEW n \in Node, TaskAsk(l, n) PROVE Tables'
  <2>1. Shown(tcur[<<l, n>>]) /\ AskApproval(tcur[<<l, n>>]) /\ UNCHANGED <<graph, dbSt>>
    BY <1>6 DEF TaskAsk, Knowledge, TaskWrites
  <2> QED
    BY <2>1, TablesAsked DEF Shown
<1>7. ASSUME NEW n \in Node, TaskStart(l, n) \/ TaskDone(l, n) \/ TaskFail(l, n) \/ TaskRaise(l, n)
                              \/ TaskMark(l, n) \/ TaskReturn(l, n)
      PROVE  Tables'
  BY <1>7, <1>u DEF TaskStart, TaskDone, TaskFail, TaskRaise, TaskMark, TaskReturn, dbVars
<1> QED
  BY <1>1, <1>2, <1>3, <1>4, <1>5, <1>6, <1>7 DEF ExecStep, LoopStep, TaskStep

LEMMA DeciderTables ==
    ASSUME CkptInv, NEW n \in Node, NEW d \in Decision,
           Expire(n) \/ CasApproval(n, d) \/ WriteDecision(n) \/ DeciderCrash(n)
    PROVE  Tables'
<1> USE DEF CkptInv, StallInv, TypeOK, ExecTypeOK
<1>1. CASE Expire(n)
  BY <1>1, TablesUnchanged DEF Tables, Expire, execVars
<1>2. CASE CasApproval(n, d)
  <2>1. /\ appr[n] = "WAITING" /\ appr'[n] = d /\ decided'[n] = d /\ UNCHANGED <<graph, dbSt>>
        /\ \A m \in Node : m # n => appr'[m] = appr[m] /\ decided'[m] = decided[m]
    BY <1>2 DEF CasApproval
  <2> QED
    BY <2>1 DEF Tables, Approvals, DecisionsAgree, IsApproval, Decision
<1>3. CASE WriteDecision(n)
  <2>1. /\ decided[n] \in Decision /\ decided'[n] = "none" /\ UNCHANGED <<graph, appr>>
        /\ dbSt'[n] = NodeStatusOf[decided[n]]
        /\ \A m \in Node : m # n => dbSt'[m] = dbSt[m] /\ decided'[m] = decided[m]
    BY <1>3 DEF WriteDecision
  <2>2. IsApproval(graph, n) /\ appr[n] = decided[n] /\ dbSt[n] = "waiting_approval"
    BY <2>1 DEF Approvals, Decision
  <2>3. NodeStatusOf[decided[n]] \in {"done", "rejected", "rejected-canceled"}
    BY <2>1 DEF NodeStatusOf, Decision
  <2> QED
    BY <2>1, <2>2, <2>3 DEF Tables, Approvals, DecisionsAgree, IsApproval, Decision
<1>4. CASE DeciderCrash(n)
  <2>1. /\ decided'[n] = "none" /\ UNCHANGED <<graph, appr, dbSt>>
        /\ \A m \in Node : m # n => decided'[m] = decided[m]
    BY <1>4 DEF DeciderCrash, execVars
  <2> QED
    BY <2>1 DEF Tables, Approvals, DecisionsAgree, IsApproval
<1> QED
  BY <1>1, <1>2, <1>3, <1>4

-----------------------------------------------------------------------------
(* What run() returned *)

LEMMA ReturnedUnchanged ==
    ASSUME Returned, UNCHANGED <<graph, st, pc, result>>
    PROVE  Returned'
BY DEF Returned, AllTerminal, RejectedAbort

LEMMA LoopReturned ==
    ASSUME CkptInv, NEW l \in Loop, LoopStep(l), TypeOK'
    PROVE  Returned'
<1> USE OneLoop DEF CkptInv, StallInv, TypeOK, ExecTypeOK
<1>1. CASE LoopMark(l) \/ LoopRow(l) \/ LoopAsk(l) \/ LoopGather(l) \/ LoopWaveDone(l)
  <2>1. result[l] = "none" /\ result' = result
    BY <1>1 DEF LoopMark, LoopRow, LoopAsk, LoopGather, LoopWaveDone, MayGoOn, Settled, Returned
  <2> QED
    BY <2>1 DEF Returned
<1>2. CASE LoopFail(l) \/ LoopWaveFailed(l)
  BY <1>2 DEF LoopFail, LoopWaveFailed, LoopReturn, Returned
<1>3. CASE LoopPause(l) \/ LoopRelease(l)
  <2>1. /\ pc[l] = "scan" /\ failed = {} /\ ~RejectedAbort(graph, st) /\ UNCHANGED <<graph, st>>
        /\ pc'[l] = "returned" /\ (result'[l] = "done" => AllTerminal(st))
    BY <1>3 DEF LoopPause, LoopRelease, MayGoOn, Settled, LoopReturn, memVars
  <2>2. \A n \in Node : tpc[<<l, n>>] = "none"
    <3>1. \A t \in Task : tpc[t] = "none"
      BY <2>1, NoTasks
    <3> QED
      BY <3>1 DEF Task
  <2>3. \A n \in Node : st[n] \notin {"running", "failed"}
    BY <2>1, <2>2 DEF RunningHasTask, FailedIsKnown
  <2>4. AllTerminal(st') <=> AllTerminal(st)
    BY <2>1 DEF AllTerminal
  <2>5. RejectedAbort(graph, st)' <=> RejectedAbort(graph, st)
    BY <2>1 DEF RejectedAbort
  <2> QED
    BY <2>1, <2>3, <2>4, <2>5 DEF Returned
<1> QED
  BY <1>1, <1>2, <1>3 DEF LoopStep

\* Tasks that outlive run() are those of a wave that failed.
LEMMA TaskReturned ==
    ASSUME CkptInv, NEW l \in Loop, NEW n \in Node, TaskStep(l, n)
    PROVE  Returned'
<1> USE OneLoop DEF CkptInv, StallInv, TypeOK, ExecTypeOK
<1>1. tpc[<<l, n>>] # "none" /\ UNCHANGED <<pc, result>>
  BY DEF TaskStep, TaskStart, TaskRow, AfterRow, TaskDone, TaskFail, TaskRaise, TaskMark, TaskMarkRow,
     TaskAsk, TaskReturn
<1>2. pc[l] = "wave" \/ result[l] = "failed"
  BY <1>1 DEF TasksBelongToAWave, Task
<1> QED
  BY <1>1, <1>2 DEF Returned

-----------------------------------------------------------------------------
(* The invariant is inductive *)

LEMMA CkptNext == CkptInv /\ [Next]_vars => CkptInv'
<1> SUFFICES ASSUME CkptInv, [Next]_vars PROVE CkptInv'
  OBVIOUS
<1>0. StallInv' /\ TypeOK'
  BY StallInvNext DEF CkptInv, StallInv
<1>u. ASSUME UNCHANGED execVars, UNCHANGED decided PROVE CkptInv'
  BY <1>0, <1>u, KnowledgeUnchanged, TablesUnchanged, ReturnedUnchanged DEF CkptInv, execVars, Tables
<1>1. ASSUME NEW l \in Loop, ExecStep(l), UNCHANGED decided
      PROVE  CkptInv'
  <2>1. Knowledge' /\ Returned'
    BY <1>0, <1>1, LoopKnowledge, TaskKnowledge, LoopReturned, TaskReturned DEF ExecStep
  <2>2. Tables'
    BY <1>1, ExecTables
  <2> QED
    BY <1>0, <2>1, <2>2 DEF CkptInv, Tables
<1>2. CASE RequestPause /\ UNCHANGED decided
  <2>1. UNCHANGED <<graph, st, out, dbSt, dbOut, appr, pc, cur, tpc, tcur, result, decided>>
    BY <1>2 DEF RequestPause, dbVars
  <2> QED
    BY <1>0, <2>1, KnowledgeUnchanged, TablesUnchanged, ReturnedUnchanged DEF CkptInv, Tables
<1>3. ASSUME NEW n \in Node, NEW d \in Decision,
             Expire(n) \/ CasApproval(n, d) \/ WriteDecision(n) \/ DeciderCrash(n)
      PROVE  CkptInv'
  <2>1. Knowledge' /\ Tables'
    BY <1>0, <1>3, DeciderKnowledge, DeciderTables
  <2>2. UNCHANGED <<graph, st, pc, result>>
    BY <1>3 DEF Expire, CasApproval, WriteDecision, DeciderCrash, execVars, memVars
  <2> QED
    BY <1>0, <2>1, <2>2, ReturnedUnchanged DEF CkptInv, Tables
<1>4. CASE WorkerCrash
  <2>1. Knowledge'
    BY <1>0, <1>4, CrashKnowledge
  <2>2. UNCHANGED <<graph, st, dbSt, appr, decided>>
    BY <1>4 DEF WorkerCrash, memVars, dbVars
  <2>3. Tables'
    BY <2>2, TablesUnchanged DEF CkptInv, Tables
  <2>4. Returned'
    <3>1. \A l \in Loop : /\ pc'[l] = "returned"
                          /\ result'[l] = result[l] \/ result'[l] = "crashed"
      BY <1>4 DEF WorkerCrash
    <3> QED
      BY <2>2, <3>1 DEF CkptInv, Returned, AllTerminal, RejectedAbort
  <2> QED
    BY <1>0, <2>1, <2>3, <2>4 DEF CkptInv, Tables
<1>5. ASSUME NEW l \in Loop, Resumed(l)
      PROVE  CkptInv'
  <2>1. Knowledge'
    BY <1>0, <1>5, ResumeKnowledge
  <2>2. Tables'
    BY <1>5, TablesUnchanged DEF Resumed, Rebuild, dbVars, CkptInv, Tables
  <2>3. Returned'
    BY <1>5, OneLoop DEF Resumed, Rebuild, Returned, CkptInv, StallInv, TypeOK, ExecTypeOK
  <2> QED
    BY <1>0, <2>1, <2>2, <2>3 DEF CkptInv, Tables
<1>6. CASE Beside
  BY <1>6, <1>u DEF Beside
<1> QED
  BY <1>1, <1>2, <1>3, <1>4, <1>5, <1>6, Steps DEF ExecutorStep, Decision

LEMMA Checkpoint == Spec => []CkptInv
BY CkptInit, CkptNext, PTL DEF Spec

-----------------------------------------------------------------------------
(* The theorems on the checkpoint and the approvals *)

\* The approvals table and the nodes table never tell different stories about a
\* decision (approval/sweeper.py, RunService.approve), whatever crashes in between.
THEOREM TablesAgree == Spec => []DecisionsAgree
<1>1. CkptInv => DecisionsAgree
  BY DEF CkptInv
<1> QED
  BY <1>1, Checkpoint, PTL

LEMMA ReturnedIsWritten ==
    ASSUME CkptInv, NEW l \in Loop, result[l] \in {"paused", "waiting_approval", "done"},
           NEW n \in Node
    PROVE  /\ st[n] \in Lasting \cup {"pending"}
           /\ st[n] \in Lasting => \/ dbSt[n] = st[n] /\ dbOut[n] = out[n]
                                   \/ /\ st[n] = "waiting_approval"
                                      /\ dbSt[n] \in {"done", "rejected", "rejected-canceled"}
           /\ st[n] = "pending" => dbSt[n] \notin Lasting
<1> USE OneLoop DEF CkptInv, StallInv, TypeOK, ExecTypeOK
<1>1. pc[l] = "returned" /\ st[n] \notin {"running", "failed"}
  BY DEF Returned
<1>2. \A m \in Node : tpc[<<l, m>>] = "none"
  <2>1. \A t \in Task : tpc[t] = "none"
    BY <1>1, NoTasks
  <2> QED
    BY <2>1 DEF Task
<1>3. ~BeingWritten(n)
  BY <1>1, <1>2 DEF BeingWritten
<1> QED
  BY <1>1, <1>3 DEF Knowledge, Written, Recorded, RowBehind, Lasting, TERMINAL, Status

\* When a Worker lets a run go (it is paused, waits for approvals or is done), the nodes
\* table holds all that its executor knew, but for approvals decided since.
THEOREM CheckpointIsComplete == Spec => []CheckpointComplete
<1>1. CkptInv => CheckpointComplete
  BY ReturnedIsWritten DEF CheckpointComplete, Kept, Lasting, TERMINAL
<1> QED
  BY <1>1, Checkpoint, PTL

LEMMA DoneIsSettled == CkptInv => DoneIsDone
<1> SUFFICES ASSUME CkptInv, NEW l \in Loop, result[l] = "done"
             PROVE  LET said == Report(graph, result[l], dbSt)
                    IN /\ AllTerminal(dbSt) /\ said.pending = {}
                       /\ ~RejectedAbort(graph, dbSt)
                       /\ said.summary.outcome = "completed" =>
                             \A n \in Node : appr[n] \in {"none", "APPROVED"}
  BY DEF DoneIsDone
<1>1. AllTerminal(st) /\ ~RejectedAbort(graph, st)
  BY DEF CkptInv, Returned
<1>2. \A n \in Node : dbSt[n] = st[n]
  BY <1>1, ReturnedIsWritten DEF AllTerminal, Lasting, TERMINAL
<1>3. AllTerminal(dbSt) /\ PendingApprovals(dbSt) = {}
  BY <1>1, <1>2 DEF AllTerminal, PendingApprovals, TERMINAL
<1>4. graph.abort \subseteq Node
  BY DEF CkptInv, StallInv, TypeOK, ExecTypeOK, Valid
<1>5. ~RejectedAbort(graph, dbSt)
  BY <1>1, <1>2, <1>4 DEF RejectedAbort
<1>6. ASSUME RunOutcome(graph, dbSt) = "completed", NEW n \in Node, appr[n] # "none"
      PROVE  appr[n] = "APPROVED"
  <2>1. dbSt[n] \notin {"rejected", "rejected-canceled"}
    BY <1>6 DEF RunOutcome, RejectedNodes
  <2>2. dbSt[n] = "done" /\ IsApproval(graph, n)
    BY <1>3, <1>6, <2>1 DEF CkptInv, Approvals, AllTerminal, TERMINAL
  <2>3. appr[n] \in Decision /\ NodeStatusOf[appr[n]] = "done"
    BY <2>2 DEF CkptInv, DecisionsAgree
  <2> QED
    BY <2>3 DEF Decision, NodeStatusOf
<1> QED
  BY <1>3, <1>5, <1>6 DEF Report, Summary

\* What the API reports of a run that ended as done can be relied on: it asks nobody for
\* a decision, no rejection was to abort it, and "completed" means that every approval
\* that was ever asked was approved.
THEOREM DoneCanBeReliedOn == Spec => []DoneIsDone
BY DoneIsSettled, Checkpoint, PTL

LEMMA ApprovalIsKept ==
    ASSUME CkptInv, [Next]_vars, NEW n \in Node
    PROVE  /\ appr[n] \in Decision => appr'[n] = appr[n]
           /\ appr[n] = "WAITING" => appr'[n] # "none"
<1> USE DEF CkptInv, StallInv, TypeOK, ExecTypeOK
<1>1. ASSUME NEW m \in Node, AskApproval(m), appr[m] = "none"
      PROVE  appr[n] # "none" => appr'[n] = appr[n]
  BY <1>1 DEF AskApproval
<1>2. ASSUME NEW l \in Loop, ExecStep(l)
      PROVE  appr[n] # "none" => appr'[n] = appr[n]
  <2>1. CASE LoopAsk(l)
    BY <1>1, <2>1 DEF LoopAsk, Knowledge, ScanWrites, Shown
  <2>2. ASSUME NEW m \in Node, TaskAsk(l, m) PROVE appr[n] # "none" => appr'[n] = appr[n]
    BY <1>1, <2>2 DEF TaskAsk, Knowledge, TaskWrites, Shown
  <2>3. CASE LoopStep(l) /\ ~LoopAsk(l)
    BY <2>3 DEF LoopStep, LoopMark, LoopRow, LoopFail, LoopPause, LoopGather, LoopRelease, LoopWaveDone,
       LoopWaveFailed, LoopReturn, dbVars
  <2>4. ASSUME NEW m \in Node, TaskStep(l, m), ~TaskAsk(l, m) PROVE appr' = appr
    BY <2>4 DEF TaskStep, TaskStart, TaskRow, TaskDone, TaskFail, TaskRaise, TaskMark, TaskMarkRow,
       TaskReturn, dbVars
  <2> QED
    BY <1>2, <2>1, <2>2, <2>3, <2>4 DEF ExecStep
<1>3. ASSUME NEW m \in Node, NEW d \in Decision, CasApproval(m, d)
      PROVE  /\ appr[n] \in Decision => appr'[n] = appr[n]
             /\ appr[n] = "WAITING" => appr'[n] # "none"
  BY <1>3 DEF CasApproval, Decision
<1>4. ASSUME NEW m \in Node, Expire(m) \/ WriteDecision(m) \/ DeciderCrash(m) PROVE appr' = appr
  BY <1>4 DEF Expire, WriteDecision, DeciderCrash, execVars
<1>5. CASE RequestPause \/ WorkerCrash \/ (\E l \in Loop : Resumed(l)) \/ Beside
  BY <1>5 DEF RequestPause, WorkerCrash, Resumed, Rebuild, Beside, execVars, dbVars
<1> QED
  BY <1>2, <1>3, <1>4, <1>5, Steps DEF ExecutorStep, Decision

\* An approval is asked once and decided once: no step takes a decision back, changes it,
\* or asks again, whoever races whom and whatever is rebuilt after a crash.
THEOREM ApprovalsAreKept == Spec => ApprovalsStay
<1>1. CkptInv /\ [Next]_vars =>
         [\A n \in Node :
             /\ appr[n] \in Decision => appr'[n] = appr[n]
             /\ appr[n] = "WAITING" => appr'[n] # "none"]_vars
  BY ApprovalIsKept
<1> QED
  BY <1>1, Checkpoint, PTL DEF Spec, ApprovalsStay

-----------------------------------------------------------------------------
(* A waiting node can be decided *)

BeingAsked(n) ==
    \E l \in Loop : \/ pc[l] = "ask" /\ cur[l] = n
                    \/ \E m \in Node : tpc[<<l, m>>] = "ask" /\ tcur[<<l, m>>] = n

Decidable(n) ==
    dbSt[n] = "waiting_approval" => appr[n] = "WAITING" \/ decided[n] # "none" \/ BeingAsked(n)

AllDecidable == crashes = 0 => \A n \in Node : Decidable(n)

LEMMA DecidableKept ==
    ASSUME NEW n \in Node, Decidable(n),
           dbSt'[n] = dbSt[n] \/ dbSt'[n] # "waiting_approval",
           appr'[n] = appr[n], decided'[n] = decided[n], BeingAsked(n) => BeingAsked(n)'
    PROVE  Decidable(n)'
BY DEF Decidable

LEMMA ExecDecidable ==
    ASSUME CkptInv, NEW l \in Loop, ExecStep(l), UNCHANGED decided, \A n \in Node : Decidable(n)
    PROVE  \A n \in Node : Decidable(n)'
<1> USE OneLoop DEF StallInv, TypeOK, ExecTypeOK
<1>0. \A n \in Node : <<l, n>> \in Task
  BY DEF Task
<1>t. /\ TypeOK /\ TaskKnows /\ RowBehind /\ TaskWrites /\ ScanWrites
  BY DEF CkptInv, Knowledge
<1>s. ASSUME pc[l] \in {"scan", "row", "ask"}
      PROVE  \A n \in Node : tpc[<<l, n>>] = "none"
  <2>1. \A t \in Task : tpc[t] = "none"
    BY <1>s, NoTasks DEF CkptInv
  <2> QED
    BY <1>0, <2>1
<1>1. CASE LoopMark(l) \/ LoopFail(l) \/ LoopPause(l) \/ LoopGather(l) \/ LoopRelease(l)
  <2>1. pc[l] = "scan" /\ UNCHANGED <<dbSt, appr>>
    BY <1>1 DEF LoopMark, LoopFail, LoopPause, LoopGather, LoopRelease, MayGoOn, Settled, LoopReturn, dbVars
  <2>2. \A n \in Node : ~BeingAsked(n)
    BY <1>s, <2>1 DEF BeingAsked
  <2> QED
    BY <2>1, <2>2, DecidableKept
<1>2. CASE LoopWaveDone(l) \/ LoopWaveFailed(l)
  <2>1. pc[l] = "wave" /\ UNCHANGED <<dbSt, appr, tcur>>
    BY <1>2 DEF LoopWaveDone, LoopWaveFailed, LoopReturn, dbVars
  <2>2. tpc' = tpc \/ \A m \in Node : tpc[<<l, m>>] # "ask"
    BY <1>2 DEF LoopWaveDone, LoopWaveFailed, LoopReturn
  <2>3. \A n \in Node : BeingAsked(n) => BeingAsked(n)'
    BY <2>1, <2>2 DEF BeingAsked
  <2> QED
    BY <2>1, <2>3, DecidableKept
<1>3. CASE LoopRow(l)
  <2>1. /\ pc[l] = "row" /\ Marked(cur[l]) /\ appr' = appr
        /\ dbSt'[cur[l]] = st[cur[l]] /\ \A n \in Node : n # cur[l] => dbSt'[n] = dbSt[n]
        /\ st[cur[l]] = "waiting_approval" => pc'[l] = "ask" /\ cur' = cur
    BY <1>3, <1>t DEF LoopRow, WriteRow, ScanWrites, Marked
  <2>2. \A n \in Node : ~BeingAsked(n)
    BY <1>s, <2>1 DEF BeingAsked
  <2>3. st[cur[l]] = "waiting_approval" => BeingAsked(cur[l])'
    BY <2>1 DEF BeingAsked
  <2>4. ASSUME NEW n \in Node, n # cur[l] PROVE Decidable(n)'
    BY <2>1, <2>2, <2>4, DecidableKept
  <2>5. ASSUME NEW n \in Node, n = cur[l] PROVE Decidable(n)'
    <3>1. CASE st[n] = "waiting_approval"
      BY <2>1, <2>5, <3>1 DEF Decidable, BeingAsked
    <3>2. CASE st[n] # "waiting_approval"
      BY <2>1, <2>5, <3>2 DEF Decidable
    <3> QED
      BY <3>1, <3>2
  <2> QED
    BY <2>4, <2>5
<1>4. CASE LoopAsk(l)
  <2>1. /\ pc[l] = "ask" /\ dbSt' = dbSt
        /\ \A n \in Node : appr'[n] = IF n = cur[l] THEN "WAITING" ELSE appr[n]
    BY <1>4, <1>t DEF LoopAsk, AskApproval
  <2>2. \A n \in Node : n # cur[l] => ~BeingAsked(n)
    BY <1>s, <2>1 DEF BeingAsked
  <2> QED
    BY <2>1, <2>2 DEF Decidable
<1>5. ASSUME NEW m \in Node, TaskStep(l, m) PROVE \A n \in Node : Decidable(n)'
  <2>0. pc[l] # "ask"
    BY <1>5, <1>s DEF TaskStep, TaskStart, TaskRow, AfterRow, TaskDone, TaskFail, TaskRaise, TaskMark,
       TaskMarkRow, TaskAsk, TaskReturn
  <2>1. CASE TaskStart(l, m) \/ TaskRow(l, m) \/ TaskDone(l, m) \/ TaskFail(l, m) \/ TaskRaise(l, m)
             \/ TaskMark(l, m) \/ TaskReturn(l, m)
    <3>1. /\ appr' = appr /\ tpc[<<l, m>>] # "ask"
          /\ \A n \in Node : n # m => tpc'[<<l, n>>] = tpc[<<l, n>>] /\ tcur'[<<l, n>>] = tcur[<<l, n>>]
      BY <1>0, <1>t, <2>1 DEF TaskStart, TaskRow, AfterRow, TaskDone, TaskFail, TaskRaise, TaskMark, TaskReturn, dbVars
    <3>2. \A n \in Node : BeingAsked(n) => BeingAsked(n)'
      BY <2>0, <3>1 DEF BeingAsked
    <3>3. \A n \in Node : dbSt'[n] = dbSt[n] \/ dbSt'[n] # "waiting_approval"
      <4>1. CASE TaskRow(l, m)
        <5>1. tpc[<<l, m>>] \in {"runRow", "doneRow", "failRow"}
          BY <1>t, <4>1 DEF TaskRow, AfterRow, TaskKnows
        <5>2. st[m] # "waiting_approval"
          BY <1>t, <5>1 DEF TaskKnows
        <5> QED
          BY <1>t, <4>1, <5>2 DEF TaskRow, WriteRow
      <4>2. CASE ~TaskRow(l, m)
        BY <2>1, <4>2 DEF TaskStart, TaskDone, TaskFail, TaskRaise, TaskMark, TaskReturn, dbVars
      <4> QED
        BY <4>1, <4>2
    <3> QED
      BY <3>1, <3>2, <3>3, DecidableKept
  <2>2. CASE TaskMarkRow(l, m)
    <3> DEFINE c == tcur[<<l, m>>]
    <3>1. /\ tpc[<<l, m>>] = "row" /\ Marked(c) /\ appr' = appr
          /\ \A n \in Node : n # c => dbSt'[n] = dbSt[n]
          /\ dbSt'[c] = st[c]
          /\ st[c] = "waiting_approval" => tpc'[<<l, m>>] = "ask" /\ tcur' = tcur
          /\ \A n \in Node : n # m => tpc'[<<l, n>>] = tpc[<<l, n>>] /\ tcur'[<<l, n>>] = tcur[<<l, n>>]
      BY <1>0, <1>t, <2>2 DEF TaskMarkRow, WriteRow, TaskWrites, Marked
    <3>2. \A n \in Node : BeingAsked(n) => BeingAsked(n)'
      BY <2>0, <3>1 DEF BeingAsked
    <3>3. ASSUME NEW n \in Node, n # c PROVE Decidable(n)'
      BY <3>1, <3>2, <3>3, DecidableKept
    <3>4. ASSUME NEW n \in Node, n = c PROVE Decidable(n)'
      <4>1. CASE st[n] = "waiting_approval"
        BY <3>1, <3>4, <4>1 DEF Decidable, BeingAsked
      <4>2. CASE st[n] # "waiting_approval"
        BY <3>1, <3>4, <4>2 DEF Decidable
      <4> QED
        BY <4>1, <4>2
    <3> QED
      BY <3>3, <3>4
  <2>3. CASE TaskAsk(l, m)
    <3> DEFINE c == tcur[<<l, m>>]
    <3>1. /\ tpc[<<l, m>>] = "ask" /\ dbSt' = dbSt
          /\ \A n \in Node : appr'[n] = IF n = c THEN "WAITING" ELSE appr[n]
          /\ \A n \in Node : n # m => tpc'[<<l, n>>] = tpc[<<l, n>>] /\ tcur'[<<l, n>>] = tcur[<<l, n>>]
      BY <1>0, <1>t, <2>3 DEF TaskAsk, AskApproval
    <3>2. \A n \in Node : n # c /\ BeingAsked(n) => BeingAsked(n)'
      BY <2>0, <3>1 DEF BeingAsked
    <3> QED
      BY <3>1, <3>2 DEF Decidable
  <2> QED
    BY <1>5, <2>1, <2>2, <2>3 DEF TaskStep
<1> QED
  BY <1>1, <1>2, <1>3, <1>4, <1>5 DEF ExecStep, LoopStep

LEMMA DecidableNext == CkptInv /\ AllDecidable /\ [Next]_vars => AllDecidable'
<1> SUFFICES ASSUME CkptInv, AllDecidable, [Next]_vars, crashes' = 0 PROVE \A n \in Node : Decidable(n)'
  BY DEF AllDecidable
<1> USE DEF CkptInv, StallInv, TypeOK, ExecTypeOK
<1>b. UNCHANGED <<pc, cur, tpc, tcur>> => \A n \in Node : BeingAsked(n) => BeingAsked(n)'
  BY DEF BeingAsked
<1>1. ASSUME NEW l \in Loop, ExecStep(l), UNCHANGED <<decided, crashes>> PROVE \A n \in Node : Decidable(n)'
  BY <1>1, ExecDecidable DEF AllDecidable
<1>2. CASE RequestPause /\ UNCHANGED <<decided, crashes>>
  BY <1>2, <1>b, DecidableKept DEF RequestPause, dbVars, AllDecidable
<1>3. ASSUME NEW n \in Node, Expire(n) PROVE \A m \in Node : Decidable(m)'
  BY <1>3, <1>b, DecidableKept DEF Expire, execVars, AllDecidable
<1>4. ASSUME NEW n \in Node, NEW d \in Decision, CasApproval(n, d) PROVE \A m \in Node : Decidable(m)'
  <2>1. /\ decided'[n] = d /\ d # "none" /\ crashes' = crashes /\ UNCHANGED <<dbSt, pc, cur, tpc, tcur>>
        /\ \A m \in Node : m # n => decided'[m] = decided[m] /\ appr'[m] = appr[m]
    BY <1>4 DEF CasApproval, Decision
  <2>2. ASSUME NEW m \in Node, m # n PROVE Decidable(m)'
    BY <1>b, <2>1, <2>2, DecidableKept DEF AllDecidable
  <2>3. Decidable(n)'
    BY <2>1 DEF Decidable
  <2> QED
    BY <2>2, <2>3
<1>5. ASSUME NEW n \in Node, WriteDecision(n) PROVE \A m \in Node : Decidable(m)'
  <2>1. /\ dbSt'[n] # "waiting_approval" /\ crashes' = crashes /\ UNCHANGED <<appr, pc, cur, tpc, tcur>>
        /\ \A m \in Node : m # n => decided'[m] = decided[m] /\ dbSt'[m] = dbSt[m]
    BY <1>5 DEF WriteDecision, NodeStatusOf, Decision
  <2>2. ASSUME NEW m \in Node, m # n PROVE Decidable(m)'
    BY <1>b, <2>1, <2>2, DecidableKept DEF AllDecidable
  <2>3. Decidable(n)'
    BY <2>1 DEF Decidable
  <2> QED
    BY <2>2, <2>3
<1>6. ASSUME (\E n \in Node : DeciderCrash(n)) \/ WorkerCrash PROVE FALSE
  <2>1. crashes' = crashes + 1
    BY <1>6 DEF DeciderCrash, WorkerCrash
  <2> QED
    BY <2>1, MaxCrashesIsNat
<1>7. ASSUME NEW l \in Loop, Resumed(l) PROVE \A n \in Node : Decidable(n)'
  <2>1. UNCHANGED <<dbSt, appr, decided, crashes, tpc, tcur>>
    BY <1>7 DEF Resumed, Rebuild, dbVars
  <2>2. pc[l] = "returned" /\ \A n \in Node : tpc[<<l, n>>] = "none"
    <3>1. \A t \in Task : tpc[t] = "none"
      BY <1>7, NoTasks DEF Resumed, Rebuild
    <3> QED
      BY <1>7, <3>1 DEF Task, Resumed, Rebuild
  <2>3. \A n \in Node : ~BeingAsked(n)
    BY <2>2, OneLoop DEF BeingAsked
  <2> QED
    BY <2>1, <2>3, DecidableKept DEF AllDecidable
<1>8. CASE Beside
  BY <1>8, <1>b, DecidableKept DEF Beside, execVars, AllDecidable
<1> QED
  BY <1>1, <1>2, <1>3, <1>4, <1>5, <1>6, <1>7, <1>8, Steps DEF ExecutorStep, Decision

\* Short of a crash, a node that is recorded as waiting for a person can be decided: its
\* approval waits, is on its way between the two tables, or is being asked at this moment.
THEOREM WaitingCanBeDecided == Spec => []WaitingIsDecidable
<1>1. Init => AllDecidable
  BY DEF Init, ExecInit, AllDecidable, Decidable
<1>2. CkptInv /\ AllDecidable => WaitingIsDecidable
  <2> SUFFICES ASSUME AllDecidable, crashes = 0, NEW n \in Node, Stranded(n)
               PROVE  \/ \E l \in Loop : pc[l] = "ask" /\ cur[l] = n
                      \/ \E t \in Task : tpc[t] = "ask" /\ tcur[t] = n
    BY DEF WaitingIsDecidable
  <2>1. BeingAsked(n)
    BY DEF AllDecidable, Decidable, Stranded, PendingApprovals
  <2> QED
    BY <2>1 DEF BeingAsked, Task
<1> QED
  BY <1>1, <1>2, DecidableNext, CkptInit, CkptNext, PTL DEF Spec

-----------------------------------------------------------------------------
(* The refinement of WorkflowRun *)

\* The operators on the graph mean the same there.
LEMMA SameGraph ==
    /\ Abstract!TERMINAL = TERMINAL /\ Abstract!Verdict = Verdict /\ Abstract!Open = Lasting
    /\ \A g, n : Abstract!IsApproval(g, n) <=> IsApproval(g, n)
    /\ \A g, s : Abstract!HaltTriggered(g, s) <=> HaltTriggered(g, s)
    /\ \A g, s : Abstract!RejectedAbort(g, s) <=> RejectedAbort(g, s)
    /\ \A g, s, o, n : Abstract!NodeDecision(g, s, o, n) = NodeDecision(g, s, o, n)
    /\ \A g, s, o : /\ Abstract!ReadyNodes(g, s, o) = ReadyNodes(g, s, o)
                    /\ Abstract!DueApprovals(g, s, o) = DueApprovals(g, s, o)
                    /\ Abstract!DueSkips(g, s, o) = DueSkips(g, s, o)
<1>1. Abstract!TERMINAL = TERMINAL /\ Abstract!Verdict = Verdict /\ Abstract!Open = Lasting
  BY DEF Abstract!TERMINAL, TERMINAL, Abstract!Verdict, Verdict, Abstract!Open, Lasting
<1>2. /\ \A g, n : Abstract!IsApproval(g, n) <=> IsApproval(g, n)
      /\ \A g, n : Abstract!IsHalt(g, n) <=> IsHalt(g, n)
  BY DEF Abstract!IsApproval, IsApproval, Abstract!IsHalt, IsHalt
<1>3. /\ \A g, s : Abstract!HaltTriggered(g, s) <=> HaltTriggered(g, s)
      /\ \A g, s : Abstract!RejectedAbort(g, s) <=> RejectedAbort(g, s)
  BY <1>2 DEF Abstract!HaltTriggered, HaltTriggered, Abstract!RejectedAbort, RejectedAbort
<1>4. /\ \A g, n : Abstract!InEdges(g, n) = InEdges(g, n)
      /\ \A g, n : Abstract!Upstreams(g, n) = Upstreams(g, n)
      /\ \A s, o, e : Abstract!EdgeActive(s, o, e) <=> EdgeActive(s, o, e)
  BY DEF Abstract!InEdges, InEdges, Abstract!Upstreams, Upstreams, Abstract!EdgeActive, EdgeActive,
         Abstract!EvalCondition, EvalCondition
<1>5. /\ \A g, s, n : Abstract!SourcesTerminal(g, s, n) <=> SourcesTerminal(g, s, n)
      /\ \A g, s, o, n : Abstract!JoinSatisfied(g, s, o, n) <=> JoinSatisfied(g, s, o, n)
  BY <1>1, <1>4 DEF Abstract!SourcesTerminal, SourcesTerminal, Abstract!JoinSatisfied, JoinSatisfied
<1>6. \A g, s, o, n : Abstract!NodeDecision(g, s, o, n) = NodeDecision(g, s, o, n)
  BY <1>5 DEF Abstract!NodeDecision, NodeDecision
<1>7. ASSUME NEW g, NEW s, NEW o
      PROVE  /\ Abstract!ReadyNodes(g, s, o) = ReadyNodes(g, s, o)
             /\ Abstract!DueApprovals(g, s, o) = DueApprovals(g, s, o)
             /\ Abstract!DueSkips(g, s, o) = DueSkips(g, s, o)
  BY <1>2, <1>3, <1>6 DEF Abstract!ReadyNodes, ReadyNodes, Abstract!DueApprovals, DueApprovals,
     Abstract!DueSkips, DueSkips
<1> QED
  BY <1>1, <1>2, <1>3, <1>6, <1>7

LEMMA RefinesInit == Init => Abstract!Init
<1> SUFFICES ASSUME Init PROVE Abstract!Init
  OBVIOUS
<1>1. Gathered = {}
  BY DEF Init, ExecInit, Gathered, Task
<1> QED
  BY <1>1 DEF Init, ExecInit, Abstract!Init

\* A step that touches none of what is mapped.
LEMMA Stutters ==
    UNCHANGED <<graph, st, out, dbSt, dbOut>> /\ Gathered' = Gathered => UNCHANGED Abstract!absVars
BY DEF Abstract!absVars

LEMMA LoopRefines ==
    ASSUME CkptInv, NEW l \in Loop, LoopStep(l)
    PROVE  Abstract!Next \/ UNCHANGED Abstract!absVars
<1> USE OneLoop DEF StallInv, TypeOK, ExecTypeOK
<1>0. \A n \in Node : <<l, n>> \in Task
  BY DEF Task
<1>t. /\ TypeOK /\ StallInv /\ TaskKnows /\ RowBehind /\ Written /\ ScanWrites
  BY DEF CkptInv, Knowledge
<1>s. ASSUME pc[l] \in {"scan", "row", "ask"}
      PROVE  Gathered = {}
  <2>1. \A t \in Task : tpc[t] = "none"
    BY <1>s, NoTasks DEF CkptInv
  <2> QED
    BY <1>0, <2>1 DEF Gathered
<1>g. tpc' = tpc => Gathered' = Gathered
  BY DEF Gathered
<1>1. CASE LoopMark(l)
  <2>1. /\ UNCHANGED <<graph, dbSt, dbOut>> /\ Gathered' = Gathered
    BY <1>1, <1>g DEF LoopMark
  <2>2. \/ \E n \in DueApprovals(graph, st, out) : MarkApproval(n)
        \/ \E n \in DueSkips(graph, st, out) : SetNode(n, "skipped", "absent")
    BY <1>1 DEF LoopMark
  <2>3. ASSUME NEW n \in DueApprovals(graph, st, out), MarkApproval(n) PROVE Abstract!Next
    <3>1. Abstract!Ask(n) \/ Abstract!Skip(n)
      BY <2>1, <2>3, SameGraph DEF DueApprovals, MarkApproval, SetNode, Abstract!Ask, Abstract!Skip, Abstract!Set
    <3> QED
      BY <3>1 DEF Abstract!Next, DueApprovals
  <2>4. ASSUME NEW n \in DueSkips(graph, st, out), SetNode(n, "skipped", "absent") PROVE Abstract!Next
    <3>1. Abstract!Skip(n)
      BY <2>1, <2>4, SameGraph DEF DueSkips, SetNode, Abstract!Skip, Abstract!Set
    <3> QED
      BY <3>1 DEF Abstract!Next, DueSkips
  <2> QED
    BY <2>2, <2>3, <2>4
<1>2. CASE LoopRow(l)
  <2>1. /\ UNCHANGED <<graph, st, out>> /\ Gathered' = Gathered
        /\ Marked(cur[l]) /\ WriteRow(cur[l])
    BY <1>2, <1>g, <1>t DEF LoopRow, ScanWrites, memVars
  <2>2. Abstract!Persist(cur[l]) /\ cur[l] \in Node
    BY <2>1, SameGraph DEF Marked, WriteRow, Abstract!Persist, Lasting
  <2> QED
    BY <2>2 DEF Abstract!Next
<1>3. CASE LoopAsk(l) \/ LoopFail(l) \/ LoopPause(l) \/ LoopRelease(l) \/ LoopWaveFailed(l)
  BY <1>3, <1>g, Stutters DEF LoopAsk, LoopFail, LoopPause, LoopRelease, LoopWaveFailed, LoopReturn,
     memVars, dbVars
<1>4. CASE LoopGather(l)
  <2>1. /\ pc[l] = "scan" /\ failed = {} /\ ~RejectedAbort(graph, st)
        /\ DueApprovals(graph, st, out) = {} /\ DueSkips(graph, st, out) = {}
        /\ ReadyNodes(graph, st, out) # {}
        /\ UNCHANGED <<graph, st, out, dbSt, dbOut>>
    BY <1>4 DEF LoopGather, MayGoOn, Settled, memVars, dbVars
  <2>2. \A t \in Task : tpc[t] = "none"
    BY <2>1, NoTasks DEF CkptInv
  <2>3. Gathered = {} /\ Gathered' = ReadyNodes(graph, st, out)
    <3>1. ReadyNodes(graph, st, out) \subseteq Node
      BY DEF ReadyNodes
    <3>2. \A n \in Node : tpc'[<<l, n>>] # "none" <=> n \in ReadyNodes(graph, st, out)
      BY <1>0, <1>4, <2>2 DEF LoopGather
    <3> QED
      BY <1>s, <2>1, <3>1, <3>2 DEF Gathered
  <2>4. \A n \in Node : st[n] \notin {"running", "failed"}
    <3>1. \A n \in Node : tpc[<<l, n>>] = "none"
      BY <1>0, <2>2
    <3>2. RunningHasTask /\ FailedIsKnown
      BY <1>t
    <3> QED
      BY <2>1, <3>1, <3>2 DEF RunningHasTask, FailedIsKnown
  <2>5. \A n \in Node : Abstract!Recorded(n)
    <3>1. result[l] = "none"
      BY <2>1 DEF CkptInv, Returned
    <3>2. \A n \in Node : ~BeingWritten(n)
      BY <1>0, <2>1, <2>2, <3>1 DEF BeingWritten
    <3> QED
      BY <1>t, <3>2, SameGraph DEF Written, Recorded, Abstract!Recorded, TERMINAL
  <2>6. Abstract!Gather
    BY <2>1, <2>3, <2>4, <2>5, SameGraph DEF Abstract!Gather
  <2> QED
    BY <2>6 DEF Abstract!Next
<1>5. CASE LoopWaveDone(l)
  <2>1. /\ UNCHANGED <<graph, st, out, dbSt, dbOut>>
        /\ \A n \in Node : tpc[<<l, n>>] \in {"none", "finished"} /\ tpc'[<<l, n>>] = "none"
    BY <1>0, <1>5 DEF LoopWaveDone, memVars, dbVars
  <2>2. Gathered' = {} /\ \A n \in Gathered : tpc[<<l, n>>] = "finished" /\ n \in Node
    BY <2>1 DEF Gathered
  <2>3. \A n \in Gathered : st[n] \in TERMINAL /\ Abstract!Recorded(n)
    BY <1>t, <2>2 DEF TaskKnows, TERMINAL, Abstract!Recorded
  <2>4. CASE Gathered = {}
    BY <2>1, <2>2, <2>4, Stutters
  <2>5. CASE Gathered # {}
    BY <2>1, <2>2, <2>3, <2>5, SameGraph DEF Abstract!WaveOver, Abstract!Next
  <2> QED
    BY <2>4, <2>5
<1> QED
  BY <1>1, <1>2, <1>3, <1>4, <1>5 DEF LoopStep

LEMMA TaskRefines ==
    ASSUME CkptInv, NEW l \in Loop, NEW n \in Node, TaskStep(l, n)
    PROVE  Abstract!Next \/ UNCHANGED Abstract!absVars
<1> USE OneLoop DEF StallInv, TypeOK, ExecTypeOK
<1>0. <<l, n>> \in Task /\ \A m \in Node : <<l, m>> \in Task
  BY DEF Task
<1>t. /\ TypeOK /\ StallInv /\ TaskKnows /\ RowBehind /\ TaskWrites
  BY DEF CkptInv, Knowledge
\* A task that goes on leaves the wave as it is.
<1>g. ASSUME NEW p, p # "none", tpc[<<l, n>>] # "none", tpc' = [tpc EXCEPT ![<<l, n>>] = p]
      PROVE  n \in Gathered /\ Gathered' = Gathered
  <2>1. \A m \in Node : tpc'[<<l, m>>] # "none" <=> tpc[<<l, m>>] # "none"
    BY <1>0, <1>g, <1>t
  <2> QED
    BY <1>g, <2>1 DEF Gathered
<1>1. CASE TaskStart(l, n)
  <2>1. st[n] = "pending" /\ NodeDecision(graph, st, out, n) = "ready"
    BY <1>1, <1>t, ReadyIsJoined DEF TaskStart, TaskKnows
  <2>2. /\ SetNode(n, "running", "absent") /\ UNCHANGED <<graph, dbSt, dbOut>>
        /\ n \in Gathered /\ Gathered' = Gathered
    BY <1>1, <1>g, <2>1 DEF TaskStart, dbVars
  <2>3. Abstract!Start(n)
    BY <2>1, <2>2, SameGraph DEF SetNode, Abstract!Start, Abstract!Set
  <2> QED
    BY <2>3 DEF Abstract!Next
<1>2. CASE TaskRow(l, n)
  <2>1. tpc[<<l, n>>] \in {"runRow", "doneRow", "failRow"}
    BY <1>2, <1>t DEF TaskRow, AfterRow, TaskKnows
  <2>2. st[n] # "pending" /\ dbSt[n] \notin Lasting
    BY <1>t, <2>1 DEF TaskKnows, RowBehind
  <2>3. AfterRow[tpc[<<l, n>>]] # "none"
    BY <2>1 DEF AfterRow
  <2>4. WriteRow(n) /\ UNCHANGED <<graph, st, out>> /\ Gathered' = Gathered
    BY <1>2, <1>g, <2>1, <2>3 DEF TaskRow, memVars
  <2>5. Abstract!Persist(n)
    BY <2>2, <2>4, SameGraph DEF WriteRow, Abstract!Persist, Lasting
  <2> QED
    BY <2>5 DEF Abstract!Next
<1>3. CASE TaskDone(l, n) \/ TaskFail(l, n)
  <2>1. /\ (\E v \in Verdict : SetNode(n, "done", v)) \/ SetNode(n, "failed", "absent")
        /\ UNCHANGED <<graph, dbSt, dbOut>> /\ tpc[<<l, n>>] = "exec"
    BY <1>3 DEF TaskDone, TaskFail, dbVars
  <2>2. n \in Gathered /\ Gathered' = Gathered
    BY <1>3, <1>g DEF TaskDone, TaskFail
  <2>3. st[n] = "running"
    BY <1>t, <2>1 DEF TaskKnows
  <2>4. Abstract!Finish(n)
    BY <2>1, <2>2, <2>3, SameGraph DEF SetNode, Abstract!Finish, Abstract!Set
  <2> QED
    BY <2>4 DEF Abstract!Next
<1>4. CASE TaskMark(l, n)
  <2>1. UNCHANGED <<graph, dbSt, dbOut>> /\ Gathered' = Gathered
    BY <1>4, <1>g DEF TaskMark, dbVars
  <2>2. PICK m \in DueApprovals(graph, st, out) : MarkApproval(m)
    BY <1>4 DEF TaskMark
  <2>3. Abstract!Ask(m) \/ Abstract!Skip(m)
    BY <2>1, <2>2, SameGraph DEF DueApprovals, MarkApproval, SetNode, Abstract!Ask, Abstract!Skip, Abstract!Set
  <2> QED
    BY <2>3 DEF Abstract!Next, DueApprovals
<1>5. CASE TaskMarkRow(l, n)
  <2>1. /\ UNCHANGED <<graph, st, out>> /\ tpc[<<l, n>>] = "row"
        /\ WriteRow(tcur[<<l, n>>]) /\ Marked(tcur[<<l, n>>])
    BY <1>5, <1>t DEF TaskMarkRow, TaskWrites, memVars
  <2>2. Gathered' = Gathered
    BY <1>5, <1>g DEF TaskMarkRow
  <2>3. Abstract!Persist(tcur[<<l, n>>]) /\ tcur[<<l, n>>] \in Node
    BY <2>1, <2>2, SameGraph DEF Marked, WriteRow, Abstract!Persist, Lasting
  <2> QED
    BY <2>3 DEF Abstract!Next
<1>6. CASE TaskRaise(l, n) \/ TaskAsk(l, n) \/ TaskReturn(l, n)
  <2>1. UNCHANGED <<graph, st, out, dbSt, dbOut>>
    BY <1>6 DEF TaskRaise, TaskAsk, TaskReturn, memVars, dbVars
  <2>2. Gathered' = Gathered
    BY <1>6, <1>g DEF TaskRaise, TaskAsk, TaskReturn
  <2> QED
    BY <2>1, <2>2, Stutters
<1> QED
  BY <1>1, <1>2, <1>3, <1>4, <1>5, <1>6 DEF TaskStep

LEMMA RefinesNext == CkptInv /\ [Next]_vars => [Abstract!Next]_(Abstract!absVars)
<1> SUFFICES ASSUME CkptInv, [Next]_vars PROVE Abstract!Next \/ UNCHANGED Abstract!absVars
  OBVIOUS
<1> USE DEF StallInv, TypeOK, ExecTypeOK
<1>t. TypeOK /\ Approvals
  BY DEF CkptInv
<1>g. tpc' = tpc => Gathered' = Gathered
  BY DEF Gathered
<1>1. ASSUME NEW l \in Loop, ExecStep(l) PROVE Abstract!Next \/ UNCHANGED Abstract!absVars
  BY <1>1, LoopRefines, TaskRefines DEF ExecStep
<1>2. CASE RequestPause \/ Beside
  BY <1>2, <1>g, Stutters DEF RequestPause, dbVars, Beside, execVars
<1>3. ASSUME NEW n \in Node, NEW d \in Decision, Expire(n) \/ CasApproval(n, d) \/ DeciderCrash(n)
      PROVE  Abstract!Next \/ UNCHANGED Abstract!absVars
  BY <1>3, <1>g, Stutters DEF Expire, CasApproval, DeciderCrash, execVars, memVars
<1>4. ASSUME NEW n \in Node, WriteDecision(n) PROVE Abstract!Next
  <2>1. /\ UNCHANGED <<graph, st, out>> /\ Gathered' = Gathered /\ decided[n] \in Decision
        /\ dbSt' = [dbSt EXCEPT ![n] = NodeStatusOf[decided[n]]]
        /\ dbOut' = [dbOut EXCEPT ![n] = IF decided[n] = "APPROVED" THEN "true" ELSE "false"]
    BY <1>4, <1>g, <1>t DEF WriteDecision, memVars
  <2>2. dbSt[n] = "waiting_approval"
    BY <1>t, <2>1 DEF Approvals, Decision
  <2>3. /\ NodeStatusOf[decided[n]] \in {"done", "rejected", "rejected-canceled"}
        /\ decided[n] = "APPROVED" <=> NodeStatusOf[decided[n]] = "done"
    BY <2>1 DEF NodeStatusOf, Decision
  <2>4. Abstract!Decide(n)
    BY <2>1, <2>2, <2>3 DEF Abstract!Decide
  <2> QED
    BY <2>4 DEF Abstract!Next
<1>5. CASE WorkerCrash
  <2>1. UNCHANGED <<graph, st, out, dbSt, dbOut>> /\ Gathered' = {}
    BY <1>5 DEF WorkerCrash, memVars, dbVars, Gathered, Task
  <2> QED
    BY <2>1 DEF Abstract!Leave, Abstract!Next
<1>6. ASSUME NEW l \in Loop, Resumed(l) PROVE Abstract!Next
  <2>1. \A t \in Task : tpc[t] = "none"
    BY <1>6, NoTasks DEF Resumed, Rebuild, CkptInv
  <2>2. Gathered = {} /\ Gathered' = {}
    BY <1>6, <2>1 DEF Resumed, Rebuild, Gathered, Task
  <2>3. \A n \in Node : Kept(n) <=> dbSt[n] \in Lasting
    BY DEF Kept, Lasting
  <2>4. /\ st' = [n \in Node |-> IF dbSt[n] \in Lasting THEN dbSt[n] ELSE "pending"]
        /\ out' = [n \in Node |-> IF dbSt[n] \in Lasting THEN dbOut[n] ELSE "absent"]
        /\ UNCHANGED <<graph, dbSt, dbOut>>
    BY <1>6, <2>3 DEF Resumed, Rebuild, dbVars
  <2> QED
    BY <2>2, <2>4, SameGraph DEF Abstract!Restart, Abstract!Next
<1> QED
  BY <1>1, <1>2, <1>3, <1>4, <1>5, <1>6, Steps DEF ExecutorStep, Decision

\* Whatever crashes between whichever writes, the run is one of WorkflowRun: every step of
\* the executor, the API, the sweeper and the crashes is one of its steps or none.
THEOREM RunRefinesWorkflowRun == Spec => Refines
BY RefinesInit, RefinesNext, Checkpoint, PTL DEF Spec, Refines, Abstract!Spec

-----------------------------------------------------------------------------
(* The outcome depends on the verdicts *)

\* What skipped a node is final when all its upstreams are settled for good.
LEMMA SettledStays ==
    ASSUME NEW g \in Graphs, NEW s, NEW o, NEW s2, NEW o2, NEW n \in Node,
           \A u \in Node : s[u] \in TERMINAL => s2[u] = s[u] /\ o2[u] = o[u],
           SourcesTerminal(g, s, n)
    PROVE  /\ SourcesTerminal(g, s2, n)
           /\ JoinSatisfied(g, s2, o2, n) <=> JoinSatisfied(g, s, o, n)
<1>1. \A e \in InEdges(g, n) : e.source \in Upstreams(g, n) /\ e.source \in Node
  BY DEF Graphs, Edges, InEdges, Upstreams
<1>2. \A e \in InEdges(g, n) : s2[e.source] = s[e.source] /\ o2[e.source] = o[e.source]
  BY <1>1 DEF SourcesTerminal
<1>3. \A e \in InEdges(g, n) : EdgeActive(s2, o2, e) <=> EdgeActive(s, o, e)
  BY <1>2 DEF EdgeActive
<1>4. SourcesTerminal(g, s2, n)
  BY <1>1, <1>2 DEF SourcesTerminal, Upstreams, InEdges
<1>5. (\A e \in InEdges(g, n) : e.source \in g.required[n] => EdgeActive(s2, o2, e))
      <=> (\A e \in InEdges(g, n) : e.source \in g.required[n] => EdgeActive(s, o, e))
  BY <1>3
<1>6. (\E e \in InEdges(g, n) : EdgeActive(s2, o2, e)) <=> (\E e \in InEdges(g, n) : EdgeActive(s, o, e))
  BY <1>3
<1> QED
  BY <1>4, <1>5, <1>6 DEF JoinSatisfied

\* Of a memory: every skipped node had to be (unless a halt node ran), and every node
\* that was started, asked or decided could be.
Rightly(g, s, o) ==
    \A n \in Node :
        /\ s[n] = "skipped" /\ ~HaltTriggered(g, s) => SourcesTerminal(g, s, n) /\ ~JoinSatisfied(g, s, o, n)
        /\ s[n] \notin {"pending", "skipped"} => JoinSatisfied(g, s, o, n)

OutcomeInv ==
    crashes = 0 => Rightly(graph, st, out) /\ \A l \in Loop : result[l] # "crashed"

\* A node moves, and nothing that is settled changes.
LEMMA RightlyKept ==
    ASSUME NEW g \in Graphs, NEW s, NEW o, NEW s2, NEW o2, Rightly(g, s, o),
           \A u \in Node : s[u] \in TERMINAL => s2[u] = s[u] /\ o2[u] = o[u],
           \A u \in Node : s2[u] = "skipped" /\ s[u] # "skipped"
                               => HaltTriggered(g, s) \/ NodeDecision(g, s, o, u) = "skipped",
           \A u \in Node : s2[u] \notin {"pending", "skipped"} /\ s[u] \in {"pending", "skipped"}
                               => JoinSatisfied(g, s, o, u)
    PROVE  Rightly(g, s2, o2)
<1>1. HaltTriggered(g, s) => HaltTriggered(g, s2)
  BY DEF HaltTriggered, TERMINAL
<1>2. \A n \in Node : JoinSatisfied(g, s, o, n) => JoinSatisfied(g, s2, o2, n)
  BY JoinKept DEF TERMINAL
<1>3. ASSUME NEW n \in Node, s2[n] = "skipped", ~HaltTriggered(g, s2)
      PROVE  SourcesTerminal(g, s2, n) /\ ~JoinSatisfied(g, s2, o2, n)
  <2>1. ~HaltTriggered(g, s)
    BY <1>1, <1>3
  <2>2. SourcesTerminal(g, s, n) /\ ~JoinSatisfied(g, s, o, n)
    BY <1>3, <2>1 DEF Rightly, NodeDecision
  <2> QED
    BY <2>2, SettledStays
<1>4. ASSUME NEW n \in Node, s2[n] \notin {"pending", "skipped"}
      PROVE  JoinSatisfied(g, s2, o2, n)
  BY <1>2, <1>4 DEF Rightly
<1> QED
  BY <1>3, <1>4 DEF Rightly

LEMMA ExecOutcome ==
    ASSUME CkptInv, NEW l \in Loop, ExecStep(l), Rightly(graph, st, out)
    PROVE  Rightly(graph, st, out)'
<1> USE DEF StallInv, TypeOK, ExecTypeOK
<1>t. TypeOK /\ TaskKnows /\ graph \in Graphs
  BY DEF CkptInv, Knowledge, Valid
<1>u. UNCHANGED <<graph, st, out>> => Rightly(graph, st, out)'
  BY DEF Rightly, HaltTriggered, SourcesTerminal, JoinSatisfied, Upstreams, InEdges, EdgeActive, IsHalt
\* One node moves.
<1>m. ASSUME NEW n \in Node, NEW x \in Status, st' = [st EXCEPT ![n] = x], graph' = graph,
             st[n] \in {"pending", "running"}, \A u \in Node : u # n => out'[u] = out[u],
             x = "skipped" => HaltTriggered(graph, st) \/ NodeDecision(graph, st, out, n) = "skipped",
             x # "skipped" /\ st[n] = "pending" => JoinSatisfied(graph, st, out, n)
      PROVE  Rightly(graph, st, out)'
  <2>1. Rightly(graph, st', out')
    <3>1. st'[n] = x /\ \A u \in Node : u # n => st'[u] = st[u] /\ out'[u] = out[u]
      BY <1>t, <1>m
    <3>2. st[n] \notin TERMINAL
      BY <1>m DEF TERMINAL
    <3>3. \A u \in Node : st[u] \in TERMINAL => st'[u] = st[u] /\ out'[u] = out[u]
      BY <3>1, <3>2
    <3>4. \A u \in Node : st'[u] = "skipped" /\ st[u] # "skipped"
                              => HaltTriggered(graph, st) \/ NodeDecision(graph, st, out, u) = "skipped"
      BY <1>m, <3>1
    <3>5. \A u \in Node : st'[u] \notin {"pending", "skipped"} /\ st[u] \in {"pending", "skipped"}
                              => JoinSatisfied(graph, st, out, u)
      BY <1>m, <3>1
    <3> QED
      BY <1>t, <3>3, <3>4, <3>5, RightlyKept
  <2> QED
    BY <1>m, <2>1 DEF Rightly, HaltTriggered, SourcesTerminal, JoinSatisfied, Upstreams, InEdges, EdgeActive, IsHalt
<1>a. ASSUME NEW n \in DueApprovals(graph, st, out), MarkApproval(n), graph' = graph
      PROVE  Rightly(graph, st, out)'
  <2>1. n \in Node /\ st[n] = "pending"
    BY DEF DueApprovals
  <2>2. CASE NodeDecision(graph, st, out, n) = "ready"
    <3>1. st' = [st EXCEPT ![n] = "waiting_approval"] /\ \A u \in Node : u # n => out'[u] = out[u]
      BY <1>a, <1>t, <2>2 DEF MarkApproval, SetNode
    <3>2. "waiting_approval" \in Status /\ JoinSatisfied(graph, st, out, n)
      BY <2>2, ReadyIsJoined DEF Status
    <3> QED
      BY <1>a, <1>m, <2>1, <3>1, <3>2
  <2>3. CASE NodeDecision(graph, st, out, n) # "ready"
    <3>1. st' = [st EXCEPT ![n] = "skipped"] /\ \A u \in Node : u # n => out'[u] = out[u]
      BY <1>a, <1>t, <2>3 DEF MarkApproval, SetNode
    <3>2. "skipped" \in Status /\ NodeDecision(graph, st, out, n) = "skipped"
      BY <2>3 DEF Status, DueApprovals
    <3> QED
      BY <1>a, <1>m, <2>1, <3>1, <3>2
  <2> QED
    BY <2>2, <2>3
<1>1. CASE LoopMark(l)
  <2>1. graph' = graph
    BY <1>1 DEF LoopMark
  <2>2. ASSUME NEW n \in DueSkips(graph, st, out), SetNode(n, "skipped", "absent")
        PROVE  Rightly(graph, st, out)'
    <3>1. /\ n \in Node /\ st[n] = "pending"
          /\ HaltTriggered(graph, st) \/ NodeDecision(graph, st, out, n) = "skipped"
      BY DEF DueSkips
    <3>2. st' = [st EXCEPT ![n] = "skipped"] /\ \A u \in Node : u # n => out'[u] = out[u]
      BY <1>t, <2>2 DEF SetNode
    <3> QED
      BY <1>m, <2>1, <3>1, <3>2 DEF Status
  <2> QED
    BY <1>1, <1>a, <2>1, <2>2 DEF LoopMark
<1>2. CASE LoopStep(l) /\ ~LoopMark(l)
  BY <1>2, <1>u DEF LoopStep, LoopRow, LoopAsk, LoopFail, LoopPause, LoopGather, LoopRelease, LoopWaveDone,
     LoopWaveFailed, LoopReturn, memVars
<1>3. ASSUME NEW n \in Node, TaskStart(l, n) PROVE Rightly(graph, st, out)'
  <2>1. st[n] = "pending" /\ JoinSatisfied(graph, st, out, n)
    BY <1>3, <1>t DEF TaskStart, TaskKnows
  <2>2. /\ graph' = graph /\ st' = [st EXCEPT ![n] = "running"]
        /\ \A u \in Node : u # n => out'[u] = out[u]
    BY <1>3, <1>t, <2>1, ReadyIsJoined DEF TaskStart, SetNode
  <2> QED
    BY <1>m, <2>1, <2>2 DEF Status
<1>4. ASSUME NEW n \in Node, TaskDone(l, n) \/ TaskFail(l, n) PROVE Rightly(graph, st, out)'
  <2>1. st[n] = "running"
    BY <1>4, <1>t DEF TaskDone, TaskFail, TaskKnows
  <2>2. PICK x \in {"done", "failed"} :
           /\ graph' = graph /\ st' = [st EXCEPT ![n] = x]
           /\ \A u \in Node : u # n => out'[u] = out[u]
    BY <1>4, <1>t DEF TaskDone, TaskFail, SetNode
  <2> QED
    BY <1>m, <2>1, <2>2 DEF Status
<1>5. ASSUME NEW n \in Node, TaskMark(l, n) PROVE Rightly(graph, st, out)'
  BY <1>5, <1>a DEF TaskMark
<1>6. ASSUME NEW n \in Node, TaskRow(l, n) \/ TaskRaise(l, n) \/ TaskMarkRow(l, n) \/ TaskAsk(l, n) \/ TaskReturn(l, n)
      PROVE  Rightly(graph, st, out)'
  BY <1>6, <1>u DEF TaskRow, TaskRaise, TaskMarkRow, TaskAsk, TaskReturn, memVars
<1> QED
  BY <1>1, <1>2, <1>3, <1>4, <1>5, <1>6 DEF ExecStep, TaskStep

\* Without crashes a resumed executor knows what the one before it knew, and what was
\* decided meanwhile.
LEMMA ResumeOutcome ==
    ASSUME CkptInv, NEW l \in Loop, Resumed(l), Rightly(graph, st, out), result[l] # "crashed"
    PROVE  Rightly(graph, st, out)'
<1> USE DEF StallInv, TypeOK, ExecTypeOK
<1>t. TypeOK /\ graph \in Graphs
  BY DEF CkptInv, Valid
<1>1. result[l] \in {"paused", "waiting_approval", "done"}
  BY DEF Resumed, Rebuild
<1>2. /\ graph' = graph
      /\ \A n \in Node : st'[n] = IF dbSt[n] \in Lasting THEN dbSt[n] ELSE "pending"
      /\ \A n \in Node : dbSt[n] \in Lasting => out'[n] = dbOut[n]
  BY DEF Resumed, Rebuild, Kept, Lasting
<1>3. ASSUME NEW n \in Node
      PROVE  /\ st[n] \in TERMINAL => st'[n] = st[n] /\ out'[n] = out[n]
             /\ st'[n] = "skipped" => st[n] = "skipped"
             /\ st'[n] \notin {"pending", "skipped"} => st[n] \notin {"pending", "skipped"}
  BY <1>1, <1>2, ReturnedIsWritten DEF Lasting, TERMINAL
<1>4. Rightly(graph, st', out')
  BY <1>t, <1>3, RightlyKept
<1> QED
  BY <1>2, <1>4 DEF Rightly, HaltTriggered, SourcesTerminal, JoinSatisfied, Upstreams, InEdges, EdgeActive, IsHalt

LEMMA OutcomeNext == CkptInv /\ OutcomeInv /\ [Next]_vars => OutcomeInv'
<1> SUFFICES ASSUME CkptInv, OutcomeInv, [Next]_vars, crashes' = 0
             PROVE  Rightly(graph, st, out)' /\ \A l \in Loop : result'[l] # "crashed"
  BY DEF OutcomeInv
<1> USE DEF CkptInv, StallInv, TypeOK, ExecTypeOK
<1>u. UNCHANGED <<graph, st, out>> /\ Rightly(graph, st, out) => Rightly(graph, st, out)'
  BY DEF Rightly, HaltTriggered, SourcesTerminal, JoinSatisfied, Upstreams, InEdges, EdgeActive, IsHalt
<1>1. ASSUME NEW l \in Loop, ExecStep(l), UNCHANGED crashes
      PROVE  Rightly(graph, st, out)' /\ \A k \in Loop : result'[k] # "crashed"
  <2>1. Rightly(graph, st, out)'
    BY <1>1, ExecOutcome DEF OutcomeInv
  <2>2. result' = result \/ \E r \in {"failed", "paused", "stalled", "waiting_approval", "done"} :
                                 result' = [result EXCEPT ![l] = r]
    <3>1. CASE LoopFail(l) \/ LoopWaveFailed(l)
      BY <3>1 DEF LoopFail, LoopWaveFailed, LoopReturn
    <3>2. CASE LoopPause(l)
      BY <3>2 DEF LoopPause, LoopReturn
    <3>3. CASE LoopRelease(l)
      BY <3>3 DEF LoopRelease, LoopReturn
    <3>4. CASE LoopMark(l) \/ LoopRow(l) \/ LoopAsk(l) \/ LoopGather(l) \/ LoopWaveDone(l)
      BY <3>4 DEF LoopMark, LoopRow, LoopAsk, LoopGather, LoopWaveDone
    <3>5. ASSUME NEW n \in Node, TaskStep(l, n) PROVE result' = result
      BY <3>5 DEF TaskStep, TaskStart, TaskRow, TaskDone, TaskFail, TaskRaise,
         TaskMark, TaskMarkRow, TaskAsk, TaskReturn
    <3> QED
      BY <1>1, <3>1, <3>2, <3>3, <3>4, <3>5 DEF ExecStep, LoopStep
  <2>3. DOMAIN result = Loop /\ crashes = 0
    BY <1>1
  <2>4. \A k \in Loop : result[k] # "crashed"
    BY <2>3 DEF OutcomeInv
  <2> QED
    BY <2>1, <2>2, <2>3, <2>4
<1>2. CASE RequestPause /\ UNCHANGED crashes
  BY <1>2, <1>u DEF RequestPause, OutcomeInv
<1>3. ASSUME NEW n \in Node, NEW d \in Decision, Expire(n) \/ CasApproval(n, d) \/ WriteDecision(n)
      PROVE  Rightly(graph, st, out)' /\ \A k \in Loop : result'[k] # "crashed"
  BY <1>3, <1>u DEF Expire, CasApproval, WriteDecision, execVars, memVars, OutcomeInv
<1>4. ASSUME (\E n \in Node : DeciderCrash(n)) \/ WorkerCrash PROVE FALSE
  <2>1. crashes' = crashes + 1
    BY <1>4 DEF DeciderCrash, WorkerCrash
  <2> QED
    BY <2>1, MaxCrashesIsNat
<1>5. ASSUME NEW l \in Loop, Resumed(l)
      PROVE  Rightly(graph, st, out)' /\ \A k \in Loop : result'[k] # "crashed"
  <2>1. crashes = 0 /\ result'[l] = "none"
    BY <1>5 DEF Resumed, Rebuild
  <2> QED
    BY <1>5, <2>1, ResumeOutcome, OneLoop DEF OutcomeInv
<1>6. CASE Beside
  BY <1>6, <1>u DEF Beside, execVars, OutcomeInv
<1> QED
  BY <1>1, <1>2, <1>3, <1>4, <1>5, <1>6, Steps DEF ExecutorStep, Decision

\* In a run that no crash met, the outcome depends on the verdicts and on nothing else: a
\* node was skipped exactly when its edges, evaluated on the final rows, do not let it run,
\* whatever the order of waves, approvals, pauses and resumes.
THEOREM VerdictsDecide == Spec => [](crashes = 0 => OutcomeByVerdicts)
<1>1. Init => OutcomeInv
  BY DEF Init, ExecInit, OutcomeInv, Rightly
<1>2. CkptInv /\ OutcomeInv => (crashes = 0 => OutcomeByVerdicts)
  <2> SUFFICES ASSUME CkptInv, Rightly(graph, st, out), NEW l \in Loop, result[l] = "done",
                      ~HaltTriggered(graph, dbSt), NEW n \in Node
               PROVE  dbSt[n] = "skipped" <=> ~JoinSatisfied(graph, dbSt, dbOut, n)
    BY DEF OutcomeInv, OutcomeByVerdicts
  <2>1. \A m \in Node : st[m] \in TERMINAL
    BY DEF CkptInv, Returned, AllTerminal
  <2>2. \A m \in Node : dbSt[m] = st[m] /\ dbOut[m] = out[m]
    BY <2>1, ReturnedIsWritten DEF Lasting, TERMINAL
  <2>3. ~HaltTriggered(graph, st)
    BY <2>2 DEF HaltTriggered
  <2>4. graph \in Graphs
    BY DEF CkptInv, StallInv, TypeOK, ExecTypeOK, Valid
  <2>5. JoinSatisfied(graph, st, out, n) <=> JoinSatisfied(graph, dbSt, dbOut, n)
    BY <2>2, <2>4, JoinKept
  <2> QED
    BY <2>1, <2>2, <2>3, <2>5 DEF Rightly, TERMINAL
<1> QED
  BY <1>1, <1>2, OutcomeNext, CkptInit, CkptNext, PTL DEF Spec

\* A run whose executor did not die is resumed from a table that holds all that executor
\* knew, but for approvals decided since: in the abstract run, which SeedWorkflowsProofs
\* lets restart on this condition, every node is recorded.
THEOREM RestartsOnRecord ==
    Spec => [](\A l \in Loop :
                  result[l] \in {"paused", "waiting_approval"} => \A n \in Node : Abstract!Recorded(n))
<1>1. ASSUME CkptInv, NEW l \in Loop, result[l] \in {"paused", "waiting_approval"}, NEW n \in Node
      PROVE  Abstract!Recorded(n)
  BY <1>1, ReturnedIsWritten, SameGraph DEF Abstract!Recorded, TERMINAL
<1>2. CkptInv =>
         \A l \in Loop :
            result[l] \in {"paused", "waiting_approval"} => \A n \in Node : Abstract!Recorded(n)
  BY <1>1
<1> QED
  BY <1>2, CkptInit, CkptNext, PTL DEF Spec
=============================================================================
