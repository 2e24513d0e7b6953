---------------------------- MODULE InlineRunProofs ---------------------------
(***************************************************************************)
(* Proofs about InlineRun, for every set of nodes and of valid graphs and  *)
(* any number of loops of run() on the one executor.                       *)
(***************************************************************************)
EXTENDS InlineRun, TLAPS

-----------------------------------------------------------------------------
(* The inductive invariant *)

Calls == {"none", "APPROVED", "REJECTED", "TIMED_OUT", "row", "run", "over"}

TypeOK == ExecTypeOK /\ call \in [Node -> Calls]

\* Where a task has its node to itself, from the test of the status in TaskStart to
\* the last row it writes of it.
Owning == {"skipRow", "runRow", "exec", "doneRow", "failRow", "failing"}

\* The status shows every loop and scan that a task has the node.
TaskKnows ==
    \A l \in Loop, n \in Node :
        LET p == tpc[<<l, n>>] IN
        /\ p = "skipRow" => st[n] = "skipped"
        /\ p \in {"runRow", "exec"} => st[n] = "running"
        /\ p = "doneRow" => st[n] = "done"
        /\ p \in {"failRow", "failing"} => st[n] = "failed"

\* A loop gathers only when the tasks of its last wave are gone.
TasksBelongToAWave ==
    \A l \in Loop, n \in Node : tpc[<<l, n>>] # "none" => pc[l] \in {"wave", "returned"}

OneOwner ==
    \A n \in Node, k, l \in Loop :
        tpc[<<k, n>>] \in Owning /\ tpc[<<l, n>>] \in Owning => k = l

\* What a scan has marked, and nobody asked or decided.
Marked(n) == n \in Node /\ st[n] \in {"skipped", "waiting_approval"} /\ appr[n] = "none"

ScansWrite ==
    /\ \A l \in Loop : /\ pc[l] \in {"row", "ask"} <=> cur[l] \in Node
                       /\ cur[l] \in Node => Marked(cur[l])
    /\ \A t \in Task : /\ tpc[t] \in {"row", "ask"} <=> tcur[t] \in Node
                       /\ tcur[t] \in Node => Marked(tcur[t])

\* Only what waits is asked.
AsksWaiting ==
    /\ \A l \in Loop : pc[l] = "ask" => st[cur[l]] = "waiting_approval"
    /\ \A t \in Task : tpc[t] = "ask" => st[tcur[t]] = "waiting_approval"

\* AskedOnce says this of writers, who are loops or tasks.
OneWriter ==
    \A n \in Node :
        /\ \A k, l \in Loop : cur[k] = n /\ cur[l] = n => k = l
        /\ \A s, t \in Task : tcur[s] = n /\ tcur[t] = n => s = t
        /\ \A l \in Loop, t \in Task : ~(cur[l] = n /\ tcur[t] = n)

\* approve() and the sweeper find the node as their compare-and-swap left it, and
\* memory never hears of a time-out.
CallKnows ==
    \A n \in Node :
        /\ appr[n] # "none" => st[n] # "pending"
        /\ call[n] # "none" => appr[n] \in {"APPROVED", "REJECTED", "TIMED_OUT"}
        /\ call[n] \in {"APPROVED", "REJECTED", "TIMED_OUT"} =>
              st[n] = "waiting_approval" /\ appr[n] = call[n]
        /\ call[n] \in {"row", "run"} => appr[n] # "TIMED_OUT"
        /\ appr[n] \in {"WAITING", "TIMED_OUT"} => st[n] = "waiting_approval"

\* Somebody is about to write the row of the node.
Writing(n) ==
    \/ \E l \in Loop : cur[l] = n /\ pc[l] = "row"
    \/ \E t \in Task : tcur[t] = n /\ tpc[t] = "row"
    \/ \E l \in Loop : tpc[<<l, n>>] \in DOMAIN AfterRow
    \/ call[n] = "row"

Recorded(n) == dbSt[n] = st[n] /\ dbOut[n] = out[n]

\* Memory goes ahead of the table only where a write is on its way, and is apart from it
\* only where the sweeper decided.
RowsFollow ==
    \A n \in Node : st[n] = "pending" \/ Recorded(n) \/ Writing(n) \/ appr[n] = "TIMED_OUT"

\* What the sweeper wrote stays.
SweptRows ==
    \A n \in Node : appr[n] = "TIMED_OUT" /\ call[n] # "TIMED_OUT" =>
                       dbSt[n] = "rejected-canceled" /\ dbOut[n] = "false"

IInv ==
    /\ TypeOK /\ TaskKnows /\ TasksBelongToAWave /\ OneOwner
    /\ ScansWrite /\ AsksWaiting /\ OneWriter /\ CallKnows /\ RowsFollow /\ SweptRows

-----------------------------------------------------------------------------
(* Type correctness *)

\* Every step of run() keeps the executor's variables in their types.
LEMMA LoopTypeOK ==
    ASSUME ExecTypeOK, NEW l \in Loop, LoopStep(l)
    PROVE  ExecTypeOK'
<1> USE DEF ExecTypeOK, memVars, dbVars, taskVars
<1>1. CASE LoopMark(l)
  BY <1>1 DEF LoopMark, MarkApproval, SetNode, DueApprovals, DueSkips,
              Status, Verdict, LoopPC
<1>2. CASE LoopRow(l)
  BY <1>2 DEF LoopRow, WriteRow, LoopPC
<1>3. CASE LoopAsk(l)
  BY <1>3 DEF LoopAsk, AskApproval, LoopPC, ApprovalStatus
<1>4. CASE LoopFail(l)
  BY <1>4 DEF LoopFail, LoopReturn, LoopPC, Results
<1>5. CASE LoopPause(l)
  BY <1>5 DEF LoopPause, LoopReturn, LoopPC, Results
<1>6. CASE LoopGather(l)
  BY <1>6 DEF LoopGather, LoopPC, TaskPC
<1>7. CASE LoopRelease(l)
  BY <1>7 DEF LoopRelease, LoopReturn, LoopPC, Results
<1>8. CASE LoopWaveDone(l)
  BY <1>8 DEF LoopWaveDone, LoopPC, TaskPC
<1>9. CASE LoopWaveFailed(l)
  BY <1>9 DEF LoopWaveFailed, LoopReturn, LoopPC, Results
<1> QED
  BY <1>1, <1>2, <1>3, <1>4, <1>5, <1>6, <1>7, <1>8, <1>9 DEF LoopStep

\* Every step of _exec_node does too.
LEMMA TaskTypeOK ==
    ASSUME ExecTypeOK, NEW l \in Loop, NEW n \in Node, TaskStep(l, n)
    PROVE  ExecTypeOK'
<1> USE DEF ExecTypeOK, memVars, dbVars, taskVars
<1>0. <<l, n>> \in Task
  BY DEF Task
<1>1. CASE TaskStart(l, n)
  BY <1>0, <1>1 DEF TaskStart, SetNode, Status, Verdict, TaskPC
<1>2. CASE TaskRow(l, n)
  <2>1. AfterRow[tpc[<<l, n>>]] \in TaskPC
    BY <1>2 DEF TaskRow, AfterRow, TaskPC
  <2> QED
    BY <1>0, <1>2, <2>1 DEF TaskRow, WriteRow
<1>3. CASE TaskDone(l, n)
  BY <1>0, <1>3 DEF TaskDone, SetNode, Status, TaskPC
<1>4. CASE TaskFail(l, n)
  BY <1>0, <1>4 DEF TaskFail, SetNode, Status, Verdict, TaskPC
<1>5. CASE TaskRaise(l, n)
  BY <1>0, <1>5 DEF TaskRaise, TaskPC
<1>6. CASE TaskMark(l, n)
  BY <1>0, <1>6 DEF TaskMark, MarkApproval, SetNode, DueApprovals, Status, Verdict, TaskPC
<1>7. CASE TaskMarkRow(l, n)
  BY <1>0, <1>7 DEF TaskMarkRow, WriteRow, TaskPC
<1>8. CASE TaskAsk(l, n)
  BY <1>0, <1>8 DEF TaskAsk, AskApproval, ApprovalStatus, TaskPC
<1>9. CASE TaskReturn(l, n)
  BY <1>0, <1>9 DEF TaskReturn, TaskPC
<1> QED
  BY <1>1, <1>2, <1>3, <1>4, <1>5, <1>6, <1>7, <1>8, <1>9 DEF TaskStep

LEMMA TypeOKNext == TypeOK /\ [Next]_vars => TypeOK'
<1> SUFFICES ASSUME TypeOK, [Next]_vars
             PROVE  TypeOK'
  OBVIOUS
<1>1. ASSUME NEW l \in Loop, ExecutorStep(l)
      PROVE  TypeOK'
  <2>1. ASSUME LoopStep(l)
        PROVE  ExecTypeOK'
    BY <2>1, LoopTypeOK DEF TypeOK
  <2>2. ASSUME NEW n \in Node, TaskStep(l, n)
        PROVE  ExecTypeOK'
    BY <2>2, TaskTypeOK DEF TypeOK
  <2> QED
    BY <1>1, <2>1, <2>2 DEF ExecutorStep, ExecStep, TypeOK
<1>2. CASE RequestPause /\ UNCHANGED <<call>>
  <2>1. pauseRequested' \in BOOLEAN
    BY <1>2, Zenon DEF RequestPause
  <2> QED
    BY <1>2, <2>1 DEF RequestPause, TypeOK, ExecTypeOK, dbVars
<1>3. ASSUME NEW n \in Node, ApproveCas(n)
      PROVE  TypeOK'
  BY <1>3 DEF ApproveCas, TypeOK, ExecTypeOK, memVars, ApprovalStatus, Calls
<1>4. ASSUME NEW n \in Node, ApproveMemory(n)
      PROVE  TypeOK'
  BY <1>4 DEF ApproveMemory, SetNode, TypeOK, ExecTypeOK, dbVars, Status, Verdict, Calls
<1>5. ASSUME NEW n \in Node, ApproveRow(n)
      PROVE  TypeOK'
  BY <1>5 DEF ApproveRow, WriteRow, TypeOK, ExecTypeOK, memVars, Calls
<1>6. ASSUME NEW n \in Node, ApproveRun(n)
      PROVE  TypeOK'
  BY <1>6 DEF ApproveRun, TypeOK, ExecTypeOK, memVars, dbVars, LoopPC, Calls
<1>7. ASSUME NEW n \in Node, SweepCas(n)
      PROVE  TypeOK'
  BY <1>7 DEF SweepCas, TypeOK, ExecTypeOK, memVars, ApprovalStatus, Calls
<1>8. ASSUME NEW n \in Node, SweepRow(n)
      PROVE  TypeOK'
  BY <1>8 DEF SweepRow, TypeOK, ExecTypeOK, memVars, Status, Verdict, Calls
<1>9. CASE UNCHANGED vars
  BY <1>9 DEF vars, execVars, TypeOK, ExecTypeOK
<1> QED
  BY <1>1, <1>2, <1>3, <1>4, <1>5, <1>6, <1>7, <1>8, <1>9 DEF Next, AtRest

-----------------------------------------------------------------------------
(* Steps of run() *)

LEMMA RowPoints == DOMAIN AfterRow = {"skipRow", "runRow", "doneRow", "failRow"}
BY DEF AfterRow

\* A time-out in the tables stays as the sweeper left it.
LEMMA SweptRowsStay ==
    ASSUME IInv,
           \A m \in Node : appr'[m] = "TIMED_OUT" =>
              /\ appr[m] = "TIMED_OUT" /\ (call'[m] # "TIMED_OUT" => call[m] # "TIMED_OUT")
              /\ dbSt'[m] = dbSt[m] /\ dbOut'[m] = dbOut[m]
    PROVE  SweptRows'
BY DEF IInv, SweptRows

\* Nobody else changes what a scan is about to ask.
LEMMA AsksStay ==
    ASSUME IInv,
           \A l \in Loop : pc'[l] = "ask" =>
              \/ pc[l] = "ask" /\ cur'[l] = cur[l] /\ st'[cur[l]] = st[cur[l]]
              \/ st'[cur'[l]] = "waiting_approval",
           \A t \in Task : tpc'[t] = "ask" =>
              \/ tpc[t] = "ask" /\ tcur'[t] = tcur[t] /\ st'[tcur[t]] = st[tcur[t]]
              \/ st'[tcur'[t]] = "waiting_approval"
    PROVE  AsksWaiting'
BY DEF IInv, AsksWaiting

\* A loop that returns, or starts, at a point where it scans nothing.
LEMMA PassKeepsInv ==
    ASSUME IInv, TypeOK', NEW l \in Loop, NEW p \in {"scan", "returned"},
           pc[l] \in {"idle", "scan", "wave"}, pc[l] = "wave" => p = "returned",
           pc' = [pc EXCEPT ![l] = p],
           UNCHANGED <<st, out, dbSt, dbOut, appr, cur, tpc, tcur>>,
           \A n \in Node : call'[n] = call[n] \/ (call[n] = "run" /\ call'[n] = "over")
    PROVE  IInv'
<1> USE DEF IInv, TypeOK, ExecTypeOK
<1>1. TaskKnows' /\ OneOwner' /\ OneWriter'
  BY DEF TaskKnows, OneOwner, OneWriter
<1>2. TasksBelongToAWave'
  BY DEF TasksBelongToAWave
<1>3. ScansWrite'
  BY DEF ScansWrite, Marked
<1>4. CallKnows'
  BY DEF CallKnows
<1>5. RowsFollow'
  <2> SUFFICES ASSUME NEW n \in Node, st[n] # "pending", ~Recorded(n), appr[n] # "TIMED_OUT"
               PROVE  Writing(n)'
    BY DEF RowsFollow, Recorded
  <2>1. Writing(n)
    BY DEF RowsFollow
  <2> QED
    BY <2>1 DEF Writing
<1>6. SweptRows'
  BY SweptRowsStay
<1>7. AsksWaiting'
  BY AsksStay
<1> QED
  BY <1>1, <1>2, <1>3, <1>4, <1>5, <1>6, <1>7

LEMMA LoopGatherKeepsInv ==
    ASSUME IInv, TypeOK', NEW l \in Loop, LoopGather(l), UNCHANGED call
    PROVE  IInv'
<1> USE DEF IInv, TypeOK, ExecTypeOK, LoopGather, MayGoOn, Settled, memVars, dbVars
<1>1. /\ pc[l] = "scan" /\ pc' = [pc EXCEPT ![l] = "wave"]
      /\ \A n \in Node : tpc[<<l, n>>] = "none"
  BY DEF TasksBelongToAWave
<1>2. \A k \in Loop, n \in Node :
         \/ tpc'[<<k, n>>] = tpc[<<k, n>>]
         \/ k = l /\ tpc'[<<k, n>>] = "start" /\ tpc[<<k, n>>] = "none"
  BY <1>1 DEF Task
<1>3. ASSUME NEW t \in Task
      PROVE  tpc'[t] = tpc[t] \/ (tpc'[t] = "start" /\ tpc[t] = "none")
  <2>1. PICK k \in Loop, n \in Node : t = <<k, n>>
    BY DEF Task
  <2> QED
    BY <1>2, <2>1
<1>4. TaskKnows' /\ OneOwner' /\ OneWriter'
  BY <1>2 DEF TaskKnows, OneOwner, OneWriter, Owning
<1>5. TasksBelongToAWave'
  BY <1>1, <1>2 DEF TasksBelongToAWave
<1>6. ScansWrite'
  BY <1>1, <1>3 DEF ScansWrite, Marked
<1>7. CallKnows'
  BY DEF CallKnows
<1>8. RowsFollow'
  <2> SUFFICES ASSUME NEW n \in Node, st[n] # "pending", ~Recorded(n), appr[n] # "TIMED_OUT"
               PROVE  Writing(n)'
    BY DEF RowsFollow, Recorded
  <2>1. Writing(n)
    BY DEF RowsFollow
  <2>2. CASE \E k \in Loop : cur[k] = n /\ pc[k] = "row"
    BY <1>1, <2>2 DEF Writing
  <2>3. CASE \E t \in Task : tcur[t] = n /\ tpc[t] = "row"
    BY <1>3, <2>3 DEF Writing
  <2>4. CASE \E k \in Loop : tpc[<<k, n>>] \in DOMAIN AfterRow
    BY <1>2, <2>4, RowPoints DEF Writing
  <2>5. CASE call[n] = "row"
    BY <2>5 DEF Writing
  <2> QED
    BY <2>1, <2>2, <2>3, <2>4, <2>5 DEF Writing
<1>9. SweptRows'
  BY SweptRowsStay
<1>10. AsksWaiting'
  BY <1>1, <1>3, AsksStay
<1> QED
  BY <1>4, <1>5, <1>6, <1>7, <1>8, <1>9, <1>10

LEMMA LoopWaveDoneKeepsInv ==
    ASSUME IInv, TypeOK', NEW l \in Loop, LoopWaveDone(l), UNCHANGED call
    PROVE  IInv'
<1> USE DEF IInv, TypeOK, ExecTypeOK, LoopWaveDone, memVars, dbVars
<1>1. pc[l] = "wave" /\ pc' = [pc EXCEPT ![l] = "scan"]
  OBVIOUS
<1>2. \A k \in Loop, n \in Node :
         \/ k # l /\ tpc'[<<k, n>>] = tpc[<<k, n>>]
         \/ k = l /\ tpc'[<<k, n>>] = "none" /\ tpc[<<k, n>>] \in {"none", "finished"}
  BY DEF Task
<1>3. \A t \in Task : \/ tpc'[t] = tpc[t]
                      \/ tpc'[t] = "none" /\ tpc[t] \in {"none", "finished"}
  BY <1>2 DEF Task
<1>4. TaskKnows' /\ OneOwner' /\ OneWriter'
  BY <1>2 DEF TaskKnows, OneOwner, OneWriter, Owning
<1>5. TasksBelongToAWave'
  BY <1>1, <1>2 DEF TasksBelongToAWave
<1>6. ScansWrite'
  BY <1>1, <1>3 DEF ScansWrite, Marked
<1>7. CallKnows'
  BY DEF CallKnows
<1>8. RowsFollow'
  <2> SUFFICES ASSUME NEW n \in Node, st[n] # "pending", ~Recorded(n), appr[n] # "TIMED_OUT"
               PROVE  Writing(n)'
    BY DEF RowsFollow, Recorded
  <2>1. Writing(n)
    BY DEF RowsFollow
  <2>2. CASE \E k \in Loop : cur[k] = n /\ pc[k] = "row"
    BY <1>1, <2>2 DEF Writing
  <2>3. CASE \E t \in Task : tcur[t] = n /\ tpc[t] = "row"
    BY <1>3, <2>3 DEF Writing
  <2>4. CASE \E k \in Loop : tpc[<<k, n>>] \in DOMAIN AfterRow
    BY <1>2, <2>4, RowPoints DEF Writing
  <2>5. CASE call[n] = "row"
    BY <2>5 DEF Writing
  <2> QED
    BY <2>1, <2>2, <2>3, <2>4, <2>5 DEF Writing
<1>9. SweptRows'
  BY SweptRowsStay
<1>10. AsksWaiting'
  BY <1>1, <1>3, AsksStay
<1> QED
  BY <1>4, <1>5, <1>6, <1>7, <1>8, <1>9, <1>10

\* TaskKnows speaks only of tasks that own their node.
LEMMA KnownStatus ==
    ASSUME TaskKnows, tpc' = tpc,
           \A l \in Loop, n \in Node : tpc[<<l, n>>] \in Owning => st'[n] = st[n]
    PROVE  TaskKnows'
BY DEF TaskKnows, Owning

\* Nor does a step of a task that owns none disturb it.
LEMMA KnownTasks ==
    ASSUME TaskKnows, UNCHANGED st,
           \A l \in Loop, n \in Node :
              tpc'[<<l, n>>] \in Owning => tpc'[<<l, n>>] = tpc[<<l, n>>]
    PROVE  TaskKnows'
BY DEF TaskKnows, Owning

\* A node that is pending is nobody's, and its approval was never asked.
LEMMA PendingIsNobodys ==
    ASSUME IInv, NEW n \in Node, st[n] = "pending"
    PROVE  /\ appr[n] = "none" /\ call[n] = "none"
           /\ \A l \in Loop : tpc[<<l, n>>] \notin Owning /\ cur[l] # n
           /\ \A t \in Task : tcur[t] # n
<1>1. appr[n] = "none" /\ call[n] = "none"
  BY DEF IInv, TypeOK, ExecTypeOK, CallKnows, ApprovalStatus
<1>2. \A l \in Loop : tpc[<<l, n>>] \notin Owning
  BY DEF IInv, TaskKnows, Owning
<1>3. (\A l \in Loop : cur[l] # n) /\ (\A t \in Task : tcur[t] # n)
  BY DEF IInv, ScansWrite, Marked
<1> QED
  BY <1>1, <1>2, <1>3

\* What a scan does to the node it marks.
LEMMA MarkedNode ==
    ASSUME IInv, NEW n \in Node, MarkApproval(n) \/ SetNode(n, "skipped", "absent")
    PROVE  /\ st' = [st EXCEPT ![n] = st'[n]] /\ out' = [out EXCEPT ![n] = "absent"]
           /\ st'[n] \in {"skipped", "waiting_approval"}
BY DEF IInv, TypeOK, ExecTypeOK, MarkApproval, SetNode

LEMMA LoopMarkKeepsInv ==
    ASSUME IInv, TypeOK', NEW l \in Loop, LoopMark(l), UNCHANGED call
    PROVE  IInv'
<1> USE DEF IInv, TypeOK, ExecTypeOK
<1>1. PICK n \in Node : /\ st[n] = "pending"
                        /\ MarkApproval(n) \/ SetNode(n, "skipped", "absent")
                        /\ cur' = [cur EXCEPT ![l] = n]
  BY DEF LoopMark, DueApprovals, DueSkips
<1>2. /\ pc[l] = "scan" /\ pc' = [pc EXCEPT ![l] = "row"]
      /\ UNCHANGED <<dbSt, dbOut, appr, tpc, tcur>>
  BY DEF LoopMark
<1>3. /\ st' = [st EXCEPT ![n] = st'[n]] /\ out' = [out EXCEPT ![n] = "absent"]
      /\ st'[n] \in {"skipped", "waiting_approval"}
  BY <1>1, MarkedNode
<1>4. /\ appr[n] = "none" /\ call[n] = "none"
      /\ \A k \in Loop : tpc[<<k, n>>] \notin Owning /\ cur[k] # n
      /\ \A t \in Task : tcur[t] # n
  BY <1>1, PendingIsNobodys
<1>5. cur[l] \notin Node
  BY <1>2 DEF ScansWrite
<1>6. \A m \in Node : m # n => st'[m] = st[m] /\ out'[m] = out[m]
  BY <1>3
<1>7. \A k \in Loop : \/ k # l /\ cur'[k] = cur[k] /\ pc'[k] = pc[k]
                      \/ k = l /\ cur'[k] = n /\ pc'[k] = "row"
  BY <1>1, <1>2
<1>8. TaskKnows'
  <2>1. \A k \in Loop, m \in Node : tpc[<<k, m>>] \in Owning => st'[m] = st[m]
    BY <1>4, <1>6
  <2> QED
    BY <1>2, <2>1, KnownStatus
<1>9. TasksBelongToAWave' /\ OneOwner'
  BY <1>2 DEF TasksBelongToAWave, OneOwner
<1>10. ScansWrite'
  <2>1. ASSUME NEW k \in Loop
        PROVE  /\ pc'[k] \in {"row", "ask"} <=> cur'[k] \in Node
               /\ cur'[k] \in Node => Marked(cur[k])'
    <3>1. CASE k = l
      BY <1>2, <1>3, <1>4, <1>7, <3>1 DEF Marked
    <3>2. CASE k # l
      <4>1. cur'[k] = cur[k] /\ pc'[k] = pc[k] /\ cur[k] # n
        BY <1>4, <1>7, <3>2
      <4>2. cur[k] \in Node => st'[cur[k]] = st[cur[k]] /\ appr' = appr
        BY <1>2, <1>6, <4>1
      <4> QED
        BY <4>1, <4>2 DEF ScansWrite, Marked
    <3> QED
      BY <3>1, <3>2
  <2>2. ASSUME NEW t \in Task
        PROVE  /\ tpc'[t] \in {"row", "ask"} <=> tcur'[t] \in Node
               /\ tcur'[t] \in Node => Marked(tcur[t])'
    BY <1>2, <1>4, <1>6 DEF ScansWrite, Marked
  <2> QED
    BY <2>1, <2>2 DEF ScansWrite
<1>11. OneWriter'
  <2>1. ASSUME NEW m \in Node, NEW k \in Loop, NEW j \in Loop, cur'[k] = m, cur'[j] = m
        PROVE  k = j
    <3>1. CASE m = n
      BY <1>4, <1>7, <2>1, <3>1
    <3>2. CASE m # n
      BY <1>7, <2>1, <3>2 DEF OneWriter
    <3> QED
      BY <3>1, <3>2
  <2>2. ASSUME NEW m \in Node, NEW s \in Task, NEW t \in Task, tcur'[s] = m, tcur'[t] = m
        PROVE  s = t
    BY <1>2, <2>2 DEF OneWriter
  <2>3. ASSUME NEW m \in Node, NEW k \in Loop, NEW t \in Task
        PROVE  ~(cur'[k] = m /\ tcur'[t] = m)
    BY <1>2, <1>4, <1>7 DEF OneWriter
  <2> QED
    BY <2>1, <2>2, <2>3 DEF OneWriter
<1>12. CallKnows'
  BY <1>2, <1>3, <1>4, <1>6 DEF CallKnows
<1>13. RowsFollow'
  <2>1. Writing(n)'
    BY <1>7 DEF Writing
  <2>2. ASSUME NEW m \in Node, m # n, st[m] = "pending" \/ Recorded(m)
        PROVE  st'[m] = "pending" \/ Recorded(m)'
    BY <1>2, <1>6, <2>2 DEF Recorded
  <2>3. ASSUME NEW m \in Node, m # n, Writing(m)
        PROVE  Writing(m)'
    BY <1>2, <1>5, <1>7, <2>3 DEF Writing
  <2> QED
    BY <1>2, <2>1, <2>2, <2>3 DEF RowsFollow
<1>14. SweptRows'
  BY <1>2, SweptRowsStay
<1>15. AsksWaiting'
  BY <1>2, <1>4, <1>6, <1>7, AsksStay DEF ScansWrite
<1> QED
  BY <1>8, <1>9, <1>10, <1>11, <1>12, <1>13, <1>14, <1>15

LEMMA LoopRowKeepsInv ==
    ASSUME IInv, TypeOK', NEW l \in Loop, LoopRow(l), UNCHANGED call
    PROVE  IInv'
<1> USE DEF IInv, TypeOK, ExecTypeOK
<1>1. pc[l] = "row" /\ UNCHANGED <<st, out, appr, tpc, tcur>>
  BY DEF LoopRow, memVars
<1>2. PICK n \in Node : n = cur[l]
  BY <1>1 DEF ScansWrite
<1>3. /\ dbSt' = [dbSt EXCEPT ![n] = st[n]] /\ dbOut' = [dbOut EXCEPT ![n] = out[n]]
      /\ \/ pc' = [pc EXCEPT ![l] = "ask"] /\ cur' = cur
         \/ pc' = [pc EXCEPT ![l] = "scan"] /\ cur' = [cur EXCEPT ![l] = NoNode]
  BY <1>2 DEF LoopRow, WriteRow
<1>4. \A k \in Loop : \/ k # l /\ cur'[k] = cur[k] /\ pc'[k] = pc[k]
                      \/ k = l /\ pc'[k] = "ask" /\ cur'[k] = cur[k]
                      \/ k = l /\ pc'[k] = "scan" /\ cur'[k] = NoNode
  BY <1>3
<1>5. TaskKnows' /\ OneOwner' /\ CallKnows'
  BY <1>1 DEF TaskKnows, OneOwner, CallKnows
<1>6. TasksBelongToAWave'
  BY <1>1, <1>4 DEF TasksBelongToAWave
<1>7. ScansWrite'
  BY <1>1, <1>4, NoNodeIsNotANode DEF ScansWrite, Marked
<1>8. OneWriter'
  BY <1>1, <1>4, NoNodeIsNotANode DEF OneWriter
<1>9. RowsFollow'
  <2>1. Recorded(n)'
    BY <1>1, <1>3 DEF Recorded
  <2>2. ASSUME NEW m \in Node, m # n, st[m] = "pending" \/ Recorded(m)
        PROVE  st'[m] = "pending" \/ Recorded(m)'
    BY <1>1, <1>3, <2>2 DEF Recorded
  <2>3. ASSUME NEW m \in Node, m # n, Writing(m)
        PROVE  Writing(m)'
    BY <1>1, <1>2, <1>4, <2>3 DEF Writing
  <2> QED
    BY <1>1, <2>1, <2>2, <2>3 DEF RowsFollow
<1>10. SweptRows'
  BY <1>1, <1>2, <1>3, SweptRowsStay DEF ScansWrite, Marked
<1>11. AsksWaiting'
  BY <1>1, <1>2, <1>3, <1>4, AsksStay DEF LoopRow
<1> QED
  BY <1>5, <1>6, <1>7, <1>8, <1>9, <1>10, <1>11

LEMMA LoopAskKeepsInv ==
    ASSUME IInv, TypeOK', NEW l \in Loop, LoopAsk(l), UNCHANGED call
    PROVE  IInv'
<1> USE DEF IInv, TypeOK, ExecTypeOK
<1>1. pc[l] = "ask" /\ UNCHANGED <<st, out, dbSt, dbOut, tpc, tcur>>
  BY DEF LoopAsk, memVars
<1>2. PICK n \in Node : n = cur[l] /\ Marked(n)
  BY <1>1 DEF ScansWrite
<1>3. /\ appr' = [appr EXCEPT ![n] = "WAITING"]
      /\ pc' = [pc EXCEPT ![l] = "scan"] /\ cur' = [cur EXCEPT ![l] = NoNode]
  BY <1>2 DEF LoopAsk, AskApproval
<1>4. \A k \in Loop : \/ k # l /\ cur'[k] = cur[k] /\ pc'[k] = pc[k] /\ cur[k] # n
                      \/ k = l /\ pc'[k] = "scan" /\ cur'[k] = NoNode
  BY <1>2, <1>3 DEF OneWriter
<1>5. \A t \in Task : tcur[t] # n
  BY <1>2 DEF OneWriter
<1>6. TaskKnows' /\ OneOwner'
  BY <1>1 DEF TaskKnows, OneOwner
<1>7. TasksBelongToAWave'
  BY <1>1, <1>4 DEF TasksBelongToAWave
<1>8. \A m \in Node : Marked(m) /\ m # n => Marked(m)'
  BY <1>1, <1>3 DEF Marked
<1>9. ScansWrite'
  <2>1. ASSUME NEW k \in Loop
        PROVE  /\ pc'[k] \in {"row", "ask"} <=> cur'[k] \in Node
               /\ cur'[k] \in Node => Marked(cur[k])'
    BY <1>1, <1>3, <1>4, NoNodeIsNotANode DEF ScansWrite, Marked
  <2>2. ASSUME NEW t \in Task
        PROVE  /\ tpc'[t] \in {"row", "ask"} <=> tcur'[t] \in Node
               /\ tcur'[t] \in Node => Marked(tcur[t])'
    BY <1>1, <1>3, <1>5 DEF ScansWrite, Marked
  <2> QED
    BY <2>1, <2>2 DEF ScansWrite
<1>10. OneWriter'
  BY <1>1, <1>4, NoNodeIsNotANode DEF OneWriter
<1>11. CallKnows'
  BY <1>1, <1>2, <1>3 DEF CallKnows, Marked, AsksWaiting
<1>12. RowsFollow'
  <2>1. ASSUME NEW m \in Node, Writing(m)
        PROVE  Writing(m)'
    BY <1>1, <1>4, <2>1 DEF Writing
  <2> QED
    BY <1>1, <1>2, <1>3, <2>1 DEF RowsFollow, Recorded, Marked
<1>13. SweptRows'
  BY <1>1, <1>3, SweptRowsStay
<1>14. AsksWaiting'
  BY <1>1, <1>4, AsksStay
<1> QED
  BY <1>6, <1>7, <1>9, <1>10, <1>11, <1>12, <1>13, <1>14

-----------------------------------------------------------------------------
(* Steps of _exec_node *)

\* What scans and approve() rely on is not touched by a step that is none of theirs.
LEMMA ScansUntouched ==
    ASSUME IInv, \A t \in Task : tpc'[t] \in {"row", "ask"} <=> tpc[t] \in {"row", "ask"},
           UNCHANGED <<st, appr, pc, cur, tcur, call>>
    PROVE  ScansWrite' /\ OneWriter' /\ CallKnows'
<1>1. ScansWrite'
  BY DEF IInv, ScansWrite, Marked
<1>2. OneWriter' /\ CallKnows'
  BY DEF IInv, OneWriter, CallKnows
<1> QED
  BY <1>1, <1>2

LEMMA TaskPassKeepsInv ==
    ASSUME IInv, TypeOK', NEW l \in Loop, NEW n \in Node,
           tpc[<<l, n>>] \in {"start", "scan", "rescan", "failing"},
           NEW p \in {"finished", "raised"}, tpc' = [tpc EXCEPT ![<<l, n>>] = p],
           UNCHANGED <<st, out, dbSt, dbOut, appr, pc, cur, tcur, call>>
    PROVE  IInv'
<1> USE DEF IInv, TypeOK, ExecTypeOK
<1>1. \A k \in Loop, m \in Node : \/ tpc'[<<k, m>>] = tpc[<<k, m>>]
                                  \/ k = l /\ m = n /\ tpc'[<<k, m>>] = p
  BY DEF Task
<1>2. \A t \in Task : \/ tpc'[t] = tpc[t]
                      \/ t = <<l, n>> /\ tpc'[t] = p
  OBVIOUS
<1>3. TaskKnows' /\ OneOwner'
  BY <1>1 DEF TaskKnows, OneOwner, Owning
<1>4. TasksBelongToAWave'
  BY <1>1 DEF TasksBelongToAWave
<1>5. ScansWrite' /\ OneWriter' /\ CallKnows'
  <2>1. \A t \in Task : tpc'[t] \in {"row", "ask"} <=> tpc[t] \in {"row", "ask"}
    BY <1>2
  <2> QED
    BY <2>1, ScansUntouched
<1>6. RowsFollow'
  <2>1. ASSUME NEW m \in Node, Writing(m)
        PROVE  Writing(m)'
    BY <1>1, <1>2, <2>1, RowPoints DEF Writing
  <2> QED
    BY <2>1 DEF RowsFollow, Recorded
<1>7. SweptRows'
  BY SweptRowsStay
<1>8. AsksWaiting'
  BY <1>2, AsksStay
<1> QED
  BY <1>3, <1>4, <1>5, <1>6, <1>7, <1>8

\* A task that takes its node, or ends with it: nobody else has it, and the row is next.
LEMMA TaskSetsKeepsInv ==
    ASSUME IInv, TypeOK', NEW l \in Loop, NEW n \in Node,
           \/ tpc[<<l, n>>] = "start" /\ st[n] = "pending"
           \/ tpc[<<l, n>>] = "exec",
           NEW p \in {"skipRow", "runRow", "doneRow", "failRow"},
           tpc' = [tpc EXCEPT ![<<l, n>>] = p],
           NEW s, st' = [st EXCEPT ![n] = s],
           p = "skipRow" => s = "skipped", p = "runRow" => s = "running",
           p = "doneRow" => s = "done", p = "failRow" => s = "failed",
           \A m \in Node : m # n => out'[m] = out[m],
           UNCHANGED <<dbSt, dbOut, appr, pc, cur, tcur, call>>
    PROVE  IInv'
<1> USE DEF IInv, TypeOK, ExecTypeOK
<1>1. \A k \in Loop, m \in Node : \/ ~(k = l /\ m = n) /\ tpc'[<<k, m>>] = tpc[<<k, m>>]
                                  \/ k = l /\ m = n /\ tpc'[<<k, m>>] = p
  BY DEF Task
<1>2. \A t \in Task : \/ tpc'[t] = tpc[t]
                      \/ t = <<l, n>> /\ tpc'[t] = p
  OBVIOUS
<1>3. st'[n] = s /\ (\A m \in Node : m # n => st'[m] = st[m])
  OBVIOUS
<1>4. \A k \in Loop : k # l => tpc[<<k, n>>] \notin Owning
  <2>1. CASE st[n] = "pending"
    BY <2>1, PendingIsNobodys
  <2>2. CASE tpc[<<l, n>>] = "exec"
    BY <2>2 DEF OneOwner, Owning
  <2> QED
    BY <2>1, <2>2
<1>5. st[n] \in {"pending", "running"}
  BY DEF TaskKnows
<1>6. TaskKnows'
  <2> SUFFICES ASSUME NEW k \in Loop, NEW m \in Node
               PROVE  /\ tpc'[<<k, m>>] = "skipRow" => st'[m] = "skipped"
                      /\ tpc'[<<k, m>>] \in {"runRow", "exec"} => st'[m] = "running"
                      /\ tpc'[<<k, m>>] = "doneRow" => st'[m] = "done"
                      /\ tpc'[<<k, m>>] \in {"failRow", "failing"} => st'[m] = "failed"
    BY DEF TaskKnows
  <2>1. CASE k = l /\ m = n
    BY <1>1, <1>3, <2>1
  <2>2. CASE k # l /\ m = n
    BY <1>1, <1>4, <2>2 DEF Owning
  <2>3. CASE m # n
    BY <1>1, <1>3, <2>3 DEF TaskKnows
  <2> QED
    BY <2>1, <2>2, <2>3
<1>7. OneOwner'
  BY <1>1, <1>4 DEF OneOwner
<1>8. TasksBelongToAWave'
  BY <1>1 DEF TasksBelongToAWave
<1>9. \A m \in Node : Marked(m) => Marked(m)'
  BY <1>3, <1>5 DEF Marked
<1>10. ScansWrite'
  <2>1. \A t \in Task : tpc'[t] \in {"row", "ask"} <=> tpc[t] \in {"row", "ask"}
    BY <1>2
  <2>2. \A k \in Loop : cur'[k] \in Node => cur'[k] = cur[k] /\ Marked(cur[k])'
    BY <1>9 DEF ScansWrite
  <2>3. \A t \in Task : tcur'[t] \in Node => tcur'[t] = tcur[t] /\ Marked(tcur[t])'
    BY <1>9 DEF ScansWrite
  <2> QED
    BY <2>1, <2>2, <2>3 DEF ScansWrite, Marked
<1>11. OneWriter'
  BY DEF OneWriter
<1>12. CallKnows'
  BY <1>3, <1>5, PendingIsNobodys DEF CallKnows
<1>13. RowsFollow'
  <2>1. Writing(n)'
    BY <1>1, RowPoints DEF Writing
  <2>2. ASSUME NEW m \in Node, m # n, st[m] = "pending" \/ Recorded(m)
        PROVE  st'[m] = "pending" \/ Recorded(m)'
    BY <1>3, <2>2 DEF Recorded
  <2>3. ASSUME NEW m \in Node, m # n, Writing(m)
        PROVE  Writing(m)'
    BY <1>1, <1>2, <2>3, RowPoints DEF Writing
  <2> QED
    BY <2>1, <2>2, <2>3 DEF RowsFollow
<1>14. SweptRows'
  BY SweptRowsStay
<1>15. AsksWaiting'
  BY <1>2, <1>3, <1>5, AsksStay DEF AsksWaiting
<1> QED
  BY <1>6, <1>7, <1>8, <1>10, <1>11, <1>12, <1>13, <1>14, <1>15

LEMMA TaskRowKeepsInv ==
    ASSUME IInv, TypeOK', NEW l \in Loop, NEW n \in Node, TaskRow(l, n), UNCHANGED call
    PROVE  IInv'
<1> USE DEF IInv, TypeOK, ExecTypeOK
<1> DEFINE p == AfterRow[tpc[<<l, n>>]]
<1>1. /\ tpc[<<l, n>>] \in {"skipRow", "runRow", "doneRow", "failRow"}
      /\ tpc' = [tpc EXCEPT ![<<l, n>>] = p]
      /\ dbSt' = [dbSt EXCEPT ![n] = st[n]] /\ dbOut' = [dbOut EXCEPT ![n] = out[n]]
      /\ UNCHANGED <<st, out, appr, pc, cur, tcur>>
  BY RowPoints DEF TaskRow, WriteRow, memVars
<1>2. /\ tpc[<<l, n>>] = "runRow" => p = "exec"
      /\ tpc[<<l, n>>] = "failRow" => p = "failing"
      /\ tpc[<<l, n>>] = "skipRow" => p = "finished"
      /\ tpc[<<l, n>>] = "doneRow" => p = "scan"
  BY DEF AfterRow
<1> HIDE DEF p
<1>3. \A k \in Loop, m \in Node : \/ ~(k = l /\ m = n) /\ tpc'[<<k, m>>] = tpc[<<k, m>>]
                                  \/ k = l /\ m = n /\ tpc'[<<k, m>>] = p
  BY <1>1 DEF Task
<1>4. \A t \in Task : \/ tpc'[t] = tpc[t]
                      \/ t = <<l, n>> /\ tpc'[t] = p
  BY <1>1
<1>5. TaskKnows' /\ OneOwner'
  BY <1>1, <1>2, <1>3 DEF TaskKnows, OneOwner, Owning
<1>6. TasksBelongToAWave'
  BY <1>1, <1>3 DEF TasksBelongToAWave
<1>7. ScansWrite' /\ OneWriter' /\ CallKnows'
  <2>1. \A t \in Task : tpc'[t] \in {"row", "ask"} <=> tpc[t] \in {"row", "ask"}
    BY <1>1, <1>2, <1>4
  <2> QED
    BY <1>1, <2>1, ScansUntouched
<1>8. RowsFollow'
  <2>1. Recorded(n)'
    BY <1>1 DEF Recorded
  <2>2. ASSUME NEW m \in Node, m # n, st[m] = "pending" \/ Recorded(m)
        PROVE  st'[m] = "pending" \/ Recorded(m)'
    BY <1>1, <2>2 DEF Recorded
  <2>3. ASSUME NEW m \in Node, m # n, Writing(m)
        PROVE  Writing(m)'
    <3>1. CASE \E k \in Loop : cur[k] = m /\ pc[k] = "row"
      BY <1>1, <3>1 DEF Writing
    <3>2. CASE \E t \in Task : tcur[t] = m /\ tpc[t] = "row"
      BY <1>1, <1>4, <3>2 DEF Writing
    <3>3. CASE \E k \in Loop : tpc[<<k, m>>] \in DOMAIN AfterRow
      BY <1>3, <2>3, <3>3 DEF Writing
    <3>4. CASE call[m] = "row"
      BY <3>4 DEF Writing
    <3> QED
      BY <2>3, <3>1, <3>2, <3>3, <3>4 DEF Writing
  <2> QED
    BY <1>1, <2>1, <2>2, <2>3 DEF RowsFollow
<1>9. SweptRows'
  BY <1>1, SweptRowsStay DEF TaskKnows, CallKnows
<1>10. AsksWaiting'
  BY <1>1, <1>2, <1>4, AsksStay
<1> QED
  BY <1>5, <1>6, <1>7, <1>8, <1>9, <1>10

LEMMA TaskMarkKeepsInv ==
    ASSUME IInv, TypeOK', NEW l \in Loop, NEW o \in Node, TaskMark(l, o), UNCHANGED call
    PROVE  IInv'
<1> USE DEF IInv, TypeOK, ExecTypeOK
<1> DEFINE w == <<l, o>>
<1>0. w \in Task
  BY DEF Task
<1>1. PICK n \in Node : /\ st[n] = "pending" /\ MarkApproval(n)
                        /\ tcur' = [tcur EXCEPT ![w] = n]
  BY DEF TaskMark, DueApprovals
<1>2. /\ tpc[w] \in {"scan", "rescan"} /\ tpc' = [tpc EXCEPT ![w] = "row"]
      /\ UNCHANGED <<dbSt, dbOut, appr, pc, cur>>
  BY DEF TaskMark, dbVars
<1>3. /\ st' = [st EXCEPT ![n] = st'[n]] /\ out' = [out EXCEPT ![n] = "absent"]
      /\ st'[n] \in {"skipped", "waiting_approval"}
  BY <1>1, MarkedNode
<1>4. /\ appr[n] = "none" /\ call[n] = "none"
      /\ \A k \in Loop : tpc[<<k, n>>] \notin Owning /\ cur[k] # n
      /\ \A t \in Task : tcur[t] # n
  BY <1>1, PendingIsNobodys
<1>5. tcur[w] \notin Node
  BY <1>0, <1>2 DEF ScansWrite
<1>6. \A m \in Node : m # n => st'[m] = st[m] /\ out'[m] = out[m]
  BY <1>3
<1>7. \A t \in Task : \/ t # w /\ tcur'[t] = tcur[t] /\ tpc'[t] = tpc[t]
                      \/ t = w /\ tcur'[t] = n /\ tpc'[t] = "row"
  BY <1>1, <1>2
<1>8. \A k \in Loop, m \in Node :
         \/ tpc'[<<k, m>>] = tpc[<<k, m>>]
         \/ k = l /\ m = o /\ tpc'[<<k, m>>] = "row" /\ tpc[<<k, m>>] \in {"scan", "rescan"}
  BY <1>2 DEF Task
<1> HIDE DEF w
<1>9. TaskKnows'
  <2> SUFFICES ASSUME NEW k \in Loop, NEW m \in Node
               PROVE  /\ tpc'[<<k, m>>] = "skipRow" => st'[m] = "skipped"
                      /\ tpc'[<<k, m>>] \in {"runRow", "exec"} => st'[m] = "running"
                      /\ tpc'[<<k, m>>] = "doneRow" => st'[m] = "done"
                      /\ tpc'[<<k, m>>] \in {"failRow", "failing"} => st'[m] = "failed"
    BY DEF TaskKnows
  <2>1. CASE m = n
    BY <1>4, <1>8, <2>1 DEF Owning
  <2>2. CASE m # n
    BY <1>6, <1>8, <2>2 DEF TaskKnows
  <2> QED
    BY <2>1, <2>2
<1>10. OneOwner'
  BY <1>8 DEF OneOwner, Owning
<1>11. TasksBelongToAWave'
  BY <1>2, <1>8 DEF TasksBelongToAWave
<1>12. ScansWrite'
  <2>1. ASSUME NEW k \in Loop
        PROVE  /\ pc'[k] \in {"row", "ask"} <=> cur'[k] \in Node
               /\ cur'[k] \in Node => Marked(cur[k])'
    <3>1. cur[k] \in Node => st'[cur[k]] = st[cur[k]] /\ appr' = appr
      BY <1>2, <1>4, <1>6
    <3> QED
      BY <1>2, <3>1 DEF ScansWrite, Marked
  <2>2. ASSUME NEW t \in Task
        PROVE  /\ tpc'[t] \in {"row", "ask"} <=> tcur'[t] \in Node
               /\ tcur'[t] \in Node => Marked(tcur[t])'
    <3>1. CASE t = w
      BY <1>2, <1>3, <1>4, <1>7, <3>1 DEF Marked
    <3>2. CASE t # w
      <4>1. tcur'[t] = tcur[t] /\ tpc'[t] = tpc[t] /\ tcur[t] # n
        BY <1>4, <1>7, <3>2
      <4>2. tcur[t] \in Node => st'[tcur[t]] = st[tcur[t]] /\ appr' = appr
        BY <1>2, <1>6, <4>1
      <4> QED
        BY <4>1, <4>2 DEF ScansWrite, Marked
    <3> QED
      BY <3>1, <3>2
  <2> QED
    BY <2>1, <2>2 DEF ScansWrite
<1>13. OneWriter'
  <2>1. ASSUME NEW m \in Node, NEW k \in Loop, NEW j \in Loop, cur'[k] = m, cur'[j] = m
        PROVE  k = j
    BY <1>2, <2>1 DEF OneWriter
  <2>2. ASSUME NEW m \in Node, NEW s \in Task, NEW t \in Task, tcur'[s] = m, tcur'[t] = m
        PROVE  s = t
    <3>1. CASE m = n
      BY <1>4, <1>7, <2>2, <3>1
    <3>2. CASE m # n
      BY <1>7, <2>2, <3>2 DEF OneWriter
    <3> QED
      BY <3>1, <3>2
  <2>3. ASSUME NEW m \in Node, NEW k \in Loop, NEW t \in Task
        PROVE  ~(cur'[k] = m /\ tcur'[t] = m)
    <3>1. CASE t = w
      BY <1>2, <1>4, <1>7, <3>1
    <3>2. CASE t # w
      BY <1>2, <1>7, <3>2 DEF OneWriter
    <3> QED
      BY <3>1, <3>2
  <2> QED
    BY <2>1, <2>2, <2>3 DEF OneWriter
<1>14. CallKnows'
  BY <1>2, <1>3, <1>4, <1>6 DEF CallKnows
<1>15. RowsFollow'
  <2>1. Writing(n)'
    BY <1>0, <1>7 DEF Writing
  <2>2. ASSUME NEW m \in Node, m # n, st[m] = "pending" \/ Recorded(m)
        PROVE  st'[m] = "pending" \/ Recorded(m)'
    BY <1>2, <1>6, <2>2 DEF Recorded
  <2>3. ASSUME NEW m \in Node, m # n, Writing(m)
        PROVE  Writing(m)'
    <3>1. CASE \E k \in Loop : cur[k] = m /\ pc[k] = "row"
      BY <1>2, <3>1 DEF Writing
    <3>2. CASE \E t \in Task : tcur[t] = m /\ tpc[t] = "row"
      BY <1>2, <1>7, <3>2 DEF Writing
    <3>3. CASE \E k \in Loop : tpc[<<k, m>>] \in DOMAIN AfterRow
      BY <1>8, <3>3, RowPoints DEF Writing
    <3>4. CASE call[m] = "row"
      BY <3>4 DEF Writing
    <3> QED
      BY <2>3, <3>1, <3>2, <3>3, <3>4 DEF Writing
  <2> QED
    BY <1>2, <2>1, <2>2, <2>3 DEF RowsFollow
<1>16. SweptRows'
  BY <1>2, SweptRowsStay
<1>17. AsksWaiting'
  BY <1>2, <1>4, <1>6, <1>7, AsksStay DEF ScansWrite
<1> QED
  BY <1>9, <1>10, <1>11, <1>12, <1>13, <1>14, <1>15, <1>16, <1>17

LEMMA TaskMarkRowKeepsInv ==
    ASSUME IInv, TypeOK', NEW l \in Loop, NEW o \in Node, TaskMarkRow(l, o), UNCHANGED call
    PROVE  IInv'
<1> USE DEF IInv, TypeOK, ExecTypeOK
<1> DEFINE w == <<l, o>>
<1>0. w \in Task
  BY DEF Task
<1>1. tpc[w] = "row" /\ UNCHANGED <<st, out, appr, pc, cur>>
  BY DEF TaskMarkRow, memVars
<1>2. PICK n \in Node : n = tcur[w]
  BY <1>0, <1>1 DEF ScansWrite
<1>3. /\ dbSt' = [dbSt EXCEPT ![n] = st[n]] /\ dbOut' = [dbOut EXCEPT ![n] = out[n]]
      /\ \/ tpc' = [tpc EXCEPT ![w] = "ask"] /\ tcur' = tcur /\ st[n] = "waiting_approval"
         \/ tpc' = [tpc EXCEPT ![w] = "rescan"] /\ tcur' = [tcur EXCEPT ![w] = NoNode]
  BY <1>2 DEF TaskMarkRow, WriteRow
<1>4. \A t \in Task : \/ t # w /\ tcur'[t] = tcur[t] /\ tpc'[t] = tpc[t]
                      \/ t = w /\ tpc'[t] = "ask" /\ tcur'[t] = tcur[t]
                      \/ t = w /\ tpc'[t] = "rescan" /\ tcur'[t] = NoNode
  BY <1>3
<1>5. \A k \in Loop, m \in Node :
         \/ tpc'[<<k, m>>] = tpc[<<k, m>>]
         \/ k = l /\ m = o /\ tpc[<<k, m>>] = "row" /\ tpc'[<<k, m>>] \in {"ask", "rescan"}
  BY <1>1, <1>3 DEF Task
<1> HIDE DEF w
<1>6. TaskKnows' /\ OneOwner'
  <2>1. \A k \in Loop, m \in Node :
           tpc'[<<k, m>>] \in Owning => tpc'[<<k, m>>] = tpc[<<k, m>>]
    BY <1>5, Zenon DEF Owning
  <2>2. TaskKnows'
    BY <1>1, <2>1, KnownTasks
  <2>3. OneOwner'
    BY <2>1 DEF OneOwner
  <2> QED
    BY <2>2, <2>3
<1>7. TasksBelongToAWave' /\ CallKnows'
  BY <1>1, <1>5 DEF TasksBelongToAWave, CallKnows
<1>8. ScansWrite'
  BY <1>1, <1>4, NoNodeIsNotANode DEF ScansWrite, Marked
<1>9. OneWriter'
  BY <1>1, <1>4, NoNodeIsNotANode DEF OneWriter
<1>10. RowsFollow'
  <2>1. Recorded(n)'
    BY <1>1, <1>3 DEF Recorded
  <2>2. ASSUME NEW m \in Node, m # n, st[m] = "pending" \/ Recorded(m)
        PROVE  st'[m] = "pending" \/ Recorded(m)'
    BY <1>1, <1>3, <2>2 DEF Recorded
  <2>3. ASSUME NEW m \in Node, m # n, Writing(m)
        PROVE  Writing(m)'
    <3>1. CASE \E k \in Loop : cur[k] = m /\ pc[k] = "row"
      BY <1>1, <3>1 DEF Writing
    <3>2. CASE \E t \in Task : tcur[t] = m /\ tpc[t] = "row"
      BY <1>2, <1>4, <2>3, <3>2 DEF Writing
    <3>3. CASE \E k \in Loop : tpc[<<k, m>>] \in DOMAIN AfterRow
      BY <1>5, <3>3, RowPoints DEF Writing
    <3>4. CASE call[m] = "row"
      BY <3>4 DEF Writing
    <3> QED
      BY <2>3, <3>1, <3>2, <3>3, <3>4 DEF Writing
  <2> QED
    BY <1>1, <2>1, <2>2, <2>3 DEF RowsFollow
<1>11. SweptRows'
  BY <1>0, <1>1, <1>2, <1>3, SweptRowsStay DEF ScansWrite, Marked
<1>12. AsksWaiting'
  BY <1>1, <1>2, <1>3, <1>4, AsksStay
<1> QED
  BY <1>6, <1>7, <1>8, <1>9, <1>10, <1>11, <1>12

LEMMA TaskAskKeepsInv ==
    ASSUME IInv, TypeOK', NEW l \in Loop, NEW o \in Node, TaskAsk(l, o), UNCHANGED call
    PROVE  IInv'
<1> USE DEF IInv, TypeOK, ExecTypeOK
<1> DEFINE w == <<l, o>>
<1>0. w \in Task
  BY DEF Task
<1>1. tpc[w] = "ask" /\ UNCHANGED <<st, out, dbSt, dbOut, pc, cur>>
  BY DEF TaskAsk, memVars
<1>2. PICK n \in Node : n = tcur[w] /\ Marked(n)
  BY <1>0, <1>1 DEF ScansWrite
<1>3. /\ appr' = [appr EXCEPT ![n] = "WAITING"]
      /\ tpc' = [tpc EXCEPT ![w] = "rescan"] /\ tcur' = [tcur EXCEPT ![w] = NoNode]
  BY <1>2 DEF TaskAsk, AskApproval
<1>4. \A t \in Task : \/ t # w /\ tcur'[t] = tcur[t] /\ tpc'[t] = tpc[t] /\ tcur[t] # n
                      \/ t = w /\ tpc'[t] = "rescan" /\ tcur'[t] = NoNode
  BY <1>0, <1>2, <1>3 DEF OneWriter
<1>5. \A k \in Loop : cur[k] # n
  BY <1>0, <1>2 DEF OneWriter
<1>6. \A k \in Loop, m \in Node :
         \/ tpc'[<<k, m>>] = tpc[<<k, m>>]
         \/ k = l /\ m = o /\ tpc[<<k, m>>] = "ask" /\ tpc'[<<k, m>>] = "rescan"
  BY <1>1, <1>3 DEF Task
<1> HIDE DEF w
<1>7. TaskKnows' /\ OneOwner'
  BY <1>1, <1>6 DEF TaskKnows, OneOwner, Owning
<1>8. TasksBelongToAWave'
  BY <1>1, <1>6 DEF TasksBelongToAWave
<1>9. ScansWrite'
  <2>1. ASSUME NEW k \in Loop
        PROVE  /\ pc'[k] \in {"row", "ask"} <=> cur'[k] \in Node
               /\ cur'[k] \in Node => Marked(cur[k])'
    BY <1>1, <1>3, <1>5 DEF ScansWrite, Marked
  <2>2. ASSUME NEW t \in Task
        PROVE  /\ tpc'[t] \in {"row", "ask"} <=> tcur'[t] \in Node
               /\ tcur'[t] \in Node => Marked(tcur[t])'
    BY <1>1, <1>3, <1>4, NoNodeIsNotANode DEF ScansWrite, Marked
  <2> QED
    BY <2>1, <2>2 DEF ScansWrite
<1>10. OneWriter'
  BY <1>1, <1>4, NoNodeIsNotANode DEF OneWriter
<1>11. CallKnows'
  BY <1>0, <1>1, <1>2, <1>3 DEF CallKnows, Marked, AsksWaiting
<1>12. RowsFollow'
  <2>1. ASSUME NEW m \in Node, Writing(m)
        PROVE  Writing(m)'
    <3>1. CASE \E k \in Loop : cur[k] = m /\ pc[k] = "row"
      BY <1>1, <3>1 DEF Writing
    <3>2. CASE \E t \in Task : tcur[t] = m /\ tpc[t] = "row"
      BY <1>1, <1>4, <3>2 DEF Writing
    <3>3. CASE \E k \in Loop : tpc[<<k, m>>] \in DOMAIN AfterRow
      BY <1>6, <3>3, RowPoints DEF Writing
    <3>4. CASE call[m] = "row"
      BY <3>4 DEF Writing
    <3> QED
      BY <2>1, <3>1, <3>2, <3>3, <3>4 DEF Writing
  <2> QED
    BY <1>1, <1>2, <1>3, <2>1 DEF RowsFollow, Recorded, Marked
<1>13. SweptRows'
  BY <1>1, <1>3, SweptRowsStay
<1>14. AsksWaiting'
  BY <1>1, <1>4, AsksStay
<1> QED
  BY <1>7, <1>8, <1>9, <1>10, <1>11, <1>12, <1>13, <1>14

LEMMA TaskStepKeepsInv ==
    ASSUME IInv, TypeOK', NEW l \in Loop, NEW n \in Node, TaskStep(l, n), UNCHANGED call
    PROVE  IInv'
<1> USE DEF memVars, dbVars
<1>1. CASE TaskStart(l, n)
  <2>1. /\ tpc[<<l, n>>] = "start"
        /\ UNCHANGED <<dbSt, dbOut, appr, pc, cur, tcur, call>>
    BY <1>1 DEF TaskStart
  <2>2. CASE tpc' = [tpc EXCEPT ![<<l, n>>] = "finished"] /\ UNCHANGED <<st, out>>
    BY <2>1, <2>2, TaskPassKeepsInv
  <2>3. CASE st[n] = "pending" /\ SetNode(n, "skipped", "absent")
             /\ tpc' = [tpc EXCEPT ![<<l, n>>] = "skipRow"]
    <3>1. \A m \in Node : m # n => out'[m] = out[m]
      BY <2>3 DEF SetNode, IInv, TypeOK, ExecTypeOK
    <3>2. st' = [st EXCEPT ![n] = "skipped"]
      BY <2>3 DEF SetNode
    <3> QED
      BY <2>1, <2>3, <3>1, <3>2, TaskSetsKeepsInv
  <2>4. CASE st[n] = "pending" /\ SetNode(n, "running", "absent")
             /\ tpc' = [tpc EXCEPT ![<<l, n>>] = "runRow"]
    <3>1. \A m \in Node : m # n => out'[m] = out[m]
      BY <2>4 DEF SetNode, IInv, TypeOK, ExecTypeOK
    <3>2. st' = [st EXCEPT ![n] = "running"]
      BY <2>4 DEF SetNode
    <3> QED
      BY <2>1, <2>4, <3>1, <3>2, TaskSetsKeepsInv
  <2> QED
    BY <1>1, <2>2, <2>3, <2>4 DEF TaskStart
<1>2. CASE TaskRow(l, n)
  BY <1>2, TaskRowKeepsInv
<1>3. CASE TaskDone(l, n)
  <2>1. PICK v \in Verdict : SetNode(n, "done", v)
    BY <1>3 DEF TaskDone
  <2>2. \A m \in Node : m # n => out'[m] = out[m]
    BY <2>1 DEF SetNode, IInv, TypeOK, ExecTypeOK
  <2>3. st' = [st EXCEPT ![n] = "done"]
    BY <2>1 DEF SetNode
  <2>4. /\ tpc[<<l, n>>] = "exec" /\ tpc' = [tpc EXCEPT ![<<l, n>>] = "doneRow"]
        /\ UNCHANGED <<dbSt, dbOut, appr, pc, cur, tcur, call>>
    BY <1>3 DEF TaskDone
  <2> QED
    BY <2>2, <2>3, <2>4, TaskSetsKeepsInv
<1>4. CASE TaskFail(l, n)
  <2>1. SetNode(n, "failed", "absent")
    BY <1>4 DEF TaskFail
  <2>2. \A m \in Node : m # n => out'[m] = out[m]
    BY <2>1 DEF SetNode, IInv, TypeOK, ExecTypeOK
  <2>3. st' = [st EXCEPT ![n] = "failed"]
    BY <2>1 DEF SetNode
  <2>4. /\ tpc[<<l, n>>] = "exec" /\ tpc' = [tpc EXCEPT ![<<l, n>>] = "failRow"]
        /\ UNCHANGED <<dbSt, dbOut, appr, pc, cur, tcur, call>>
    BY <1>4 DEF TaskFail
  <2> QED
    BY <2>2, <2>3, <2>4, TaskSetsKeepsInv
<1>5. CASE TaskRaise(l, n)
  BY <1>5, TaskPassKeepsInv DEF TaskRaise
<1>6. CASE TaskMark(l, n)
  BY <1>6, TaskMarkKeepsInv
<1>7. CASE TaskMarkRow(l, n)
  BY <1>7, TaskMarkRowKeepsInv
<1>8. CASE TaskAsk(l, n)
  BY <1>8, TaskAskKeepsInv
<1>9. CASE TaskReturn(l, n)
  BY <1>9, TaskPassKeepsInv DEF TaskReturn
<1> QED
  BY <1>1, <1>2, <1>3, <1>4, <1>5, <1>6, <1>7, <1>8, <1>9 DEF TaskStep

LEMMA LoopStepKeepsInv ==
    ASSUME IInv, TypeOK', NEW l \in Loop, LoopStep(l), UNCHANGED call
    PROVE  IInv'
<1>1. ASSUME pc[l] \in {"scan", "wave"}, NEW r, LoopReturn(l, r)
      PROVE  IInv'
  BY <1>1, PassKeepsInv DEF LoopReturn, memVars, dbVars
<1>2. CASE LoopMark(l)
  BY <1>2, LoopMarkKeepsInv
<1>3. CASE LoopRow(l)
  BY <1>3, LoopRowKeepsInv
<1>4. CASE LoopAsk(l)
  BY <1>4, LoopAskKeepsInv
<1>5. CASE LoopFail(l)
  BY <1>1, <1>5 DEF LoopFail, Settled
<1>6. CASE LoopPause(l)
  BY <1>1, <1>6 DEF LoopPause, Settled
<1>7. CASE LoopGather(l)
  BY <1>7, LoopGatherKeepsInv
<1>8. CASE LoopRelease(l)
  BY <1>1, <1>8 DEF LoopRelease, MayGoOn, Settled
<1>9. CASE LoopWaveDone(l)
  BY <1>9, LoopWaveDoneKeepsInv
<1>10. CASE LoopWaveFailed(l)
  BY <1>1, <1>10 DEF LoopWaveFailed
<1> QED
  BY <1>2, <1>3, <1>4, <1>5, <1>6, <1>7, <1>8, <1>9, <1>10 DEF LoopStep

-----------------------------------------------------------------------------
(* Steps of approve() *)

LEMMA ApproveCasKeepsInv ==
    ASSUME IInv, TypeOK', NEW n \in Node, ApproveCas(n)
    PROVE  IInv'
<1> USE DEF IInv, TypeOK, ExecTypeOK
<1>1. PICK d \in {"APPROVED", "REJECTED"} :
         appr' = [appr EXCEPT ![n] = d] /\ call' = [call EXCEPT ![n] = d]
  BY DEF ApproveCas
<1>2. /\ st[n] = "waiting_approval" /\ appr[n] = "WAITING"
      /\ UNCHANGED <<st, out, dbSt, dbOut, pc, cur, tpc, tcur>>
  BY DEF ApproveCas, memVars
<1>3. call[n] = "none"
  BY <1>2 DEF CallKnows
<1>4. TaskKnows' /\ OneOwner' /\ TasksBelongToAWave' /\ OneWriter'
  BY <1>2 DEF TaskKnows, OneOwner, TasksBelongToAWave, OneWriter
<1>5. \A m \in Node : Marked(m) => Marked(m)'
  BY <1>1, <1>2 DEF Marked
<1>6. ScansWrite'
  BY <1>2, <1>5 DEF ScansWrite, Marked
<1>7. CallKnows'
  BY <1>1, <1>2 DEF CallKnows
<1>8. RowsFollow'
  <2>1. \A m \in Node : Writing(m) => Writing(m)'
    BY <1>1, <1>2, <1>3 DEF Writing
  <2> QED
    BY <1>1, <1>2, <2>1 DEF RowsFollow, Recorded
<1>9. SweptRows'
  BY <1>1, <1>2, <1>3, SweptRowsStay
<1>10. AsksWaiting'
  BY <1>2, AsksStay
<1> QED
  BY <1>4, <1>6, <1>7, <1>8, <1>9, <1>10

LEMMA ApproveMemoryKeepsInv ==
    ASSUME IInv, TypeOK', NEW n \in Node, ApproveMemory(n)
    PROVE  IInv'
<1> USE DEF IInv, TypeOK, ExecTypeOK
<1>1. /\ call[n] \in {"APPROVED", "REJECTED"} /\ call' = [call EXCEPT ![n] = "row"]
      /\ UNCHANGED <<dbSt, dbOut, appr, pc, cur, tpc, tcur>>
  BY DEF ApproveMemory, dbVars
<1>2. st[n] = "waiting_approval" /\ appr[n] # "none"
  BY <1>1 DEF CallKnows
<1>3. st'[n] \in {"done", "rejected"}
  BY DEF ApproveMemory, SetNode
<1>4. \A m \in Node : m # n => st'[m] = st[m] /\ out'[m] = out[m]
  BY DEF ApproveMemory, SetNode
<1>5. TaskKnows'
  <2>1. \A k \in Loop, m \in Node : tpc[<<k, m>>] \in Owning => st'[m] = st[m]
    BY <1>2, <1>4 DEF TaskKnows, Owning
  <2> QED
    BY <1>1, <2>1, KnownStatus
<1>6. OneOwner' /\ TasksBelongToAWave' /\ OneWriter'
  BY <1>1 DEF OneOwner, TasksBelongToAWave, OneWriter
<1>7. \A m \in Node : Marked(m) => Marked(m)'
  BY <1>1, <1>2, <1>4 DEF Marked
<1>8. ScansWrite'
  BY <1>1, <1>7 DEF ScansWrite, Marked
<1>9. CallKnows'
  BY <1>1, <1>2, <1>3, <1>4 DEF CallKnows
<1>10. RowsFollow'
  <2>1. Writing(n)'
    BY <1>1 DEF Writing
  <2>2. \A m \in Node : m # n /\ Writing(m) => Writing(m)'
    BY <1>1 DEF Writing
  <2>3. \A m \in Node : m # n /\ Recorded(m) => Recorded(m)'
    BY <1>1, <1>4 DEF Recorded
  <2> QED
    BY <1>1, <1>4, <2>1, <2>2, <2>3 DEF RowsFollow
<1>11. SweptRows'
  BY <1>1, SweptRowsStay
<1>12. AsksWaiting'
  BY <1>1, <1>2, <1>4, AsksStay DEF ScansWrite, Marked
<1> QED
  BY <1>5, <1>6, <1>8, <1>9, <1>10, <1>11, <1>12

LEMMA ApproveRowKeepsInv ==
    ASSUME IInv, TypeOK', NEW n \in Node, ApproveRow(n)
    PROVE  IInv'
<1> USE DEF IInv, TypeOK, ExecTypeOK
<1>1. /\ call[n] = "row" /\ call' = [call EXCEPT ![n] = "run"]
      /\ dbSt' = [dbSt EXCEPT ![n] = st[n]] /\ dbOut' = [dbOut EXCEPT ![n] = out[n]]
      /\ UNCHANGED <<st, out, appr, pc, cur, tpc, tcur>>
  BY DEF ApproveRow, WriteRow, memVars
<1>2. TaskKnows' /\ OneOwner' /\ TasksBelongToAWave' /\ OneWriter'
  BY <1>1 DEF TaskKnows, OneOwner, TasksBelongToAWave, OneWriter
<1>3. ScansWrite' /\ CallKnows'
  BY <1>1 DEF ScansWrite, Marked, CallKnows
<1>4. RowsFollow'
  <2>1. Recorded(n)'
    BY <1>1 DEF Recorded
  <2>2. \A m \in Node : m # n /\ Writing(m) => Writing(m)'
    BY <1>1 DEF Writing
  <2>3. \A m \in Node : m # n /\ Recorded(m) => Recorded(m)'
    BY <1>1 DEF Recorded
  <2> QED
    BY <1>1, <2>1, <2>2, <2>3 DEF RowsFollow
<1>5. SweptRows'
  BY <1>1, SweptRowsStay DEF CallKnows
<1>6. AsksWaiting'
  BY <1>1, AsksStay
<1> QED
  BY <1>2, <1>3, <1>4, <1>5, <1>6

LEMMA ApproveRunKeepsInv ==
    ASSUME IInv, TypeOK', NEW n \in Node, ApproveRun(n)
    PROVE  IInv'
<1>1. PICK l \in Loop : pc[l] = "idle" /\ pc' = [pc EXCEPT ![l] = "scan"]
  BY DEF ApproveRun
<1>2. \A m \in Node : call'[m] = call[m] \/ (call[m] = "run" /\ call'[m] = "over")
  BY DEF ApproveRun, IInv, TypeOK
<1> QED
  BY <1>1, <1>2, PassKeepsInv DEF ApproveRun, memVars, dbVars

-----------------------------------------------------------------------------
(* Steps of the sweeper *)

LEMMA SweepCasKeepsInv ==
    ASSUME IInv, TypeOK', NEW n \in Node, SweepCas(n)
    PROVE  IInv'
<1> USE DEF IInv, TypeOK, ExecTypeOK
<1>1. /\ appr' = [appr EXCEPT ![n] = "TIMED_OUT"]
      /\ call' = [call EXCEPT ![n] = "TIMED_OUT"]
      /\ appr[n] = "WAITING"
      /\ UNCHANGED <<st, out, dbSt, dbOut, pc, cur, tpc, tcur>>
  BY DEF SweepCas, memVars
<1>2. call[n] = "none" /\ st[n] = "waiting_approval"
  BY <1>1 DEF CallKnows
<1>3. TaskKnows' /\ OneOwner' /\ TasksBelongToAWave' /\ OneWriter'
  BY <1>1 DEF TaskKnows, OneOwner, TasksBelongToAWave, OneWriter
<1>4. \A m \in Node : Marked(m) => Marked(m)'
  BY <1>1 DEF Marked
<1>5. ScansWrite'
  BY <1>1, <1>4 DEF ScansWrite, Marked
<1>6. CallKnows'
  BY <1>1, <1>2 DEF CallKnows
<1>7. RowsFollow'
  <2>1. \A m \in Node : Writing(m) => Writing(m)'
    BY <1>1, <1>2 DEF Writing
  <2> QED
    BY <1>1, <2>1 DEF RowsFollow, Recorded
<1>8. SweptRows'
  BY <1>1, <1>2 DEF SweptRows
<1>9. AsksWaiting'
  BY <1>1, AsksStay
<1> QED
  BY <1>3, <1>5, <1>6, <1>7, <1>8, <1>9

LEMMA SweepRowKeepsInv ==
    ASSUME IInv, TypeOK', NEW n \in Node, SweepRow(n)
    PROVE  IInv'
<1> USE DEF IInv, TypeOK, ExecTypeOK
<1>1. /\ call[n] = "TIMED_OUT" /\ call' = [call EXCEPT ![n] = "over"]
      /\ dbSt' = [dbSt EXCEPT ![n] = "rejected-canceled"]
      /\ dbOut' = [dbOut EXCEPT ![n] = "false"]
      /\ UNCHANGED <<st, out, appr, pc, cur, tpc, tcur>>
  BY DEF SweepRow, memVars
<1>2. appr[n] = "TIMED_OUT"
  BY <1>1 DEF CallKnows
<1>3. TaskKnows' /\ OneOwner' /\ TasksBelongToAWave' /\ OneWriter'
  BY <1>1 DEF TaskKnows, OneOwner, TasksBelongToAWave, OneWriter
<1>4. ScansWrite' /\ CallKnows'
  BY <1>1, <1>2 DEF ScansWrite, Marked, CallKnows
<1>5. RowsFollow'
  <2>1. \A m \in Node : Writing(m) => Writing(m)'
    BY <1>1 DEF Writing
  <2>2. \A m \in Node : m # n /\ Recorded(m) => Recorded(m)'
    BY <1>1 DEF Recorded
  <2> QED
    BY <1>1, <1>2, <2>1, <2>2 DEF RowsFollow
<1>6. SweptRows'
  BY <1>1 DEF SweptRows
<1>7. AsksWaiting'
  BY <1>1, AsksStay
<1> QED
  BY <1>3, <1>4, <1>5, <1>6, <1>7

-----------------------------------------------------------------------------
(* The invariant, and what follows from it *)

LEMMA IInvInit == Init => IInv
<1> SUFFICES ASSUME Init
             PROVE  IInv
  OBVIOUS
<1> USE DEF Init, ExecInit
<1>1. TypeOK
  <2>1. Valid(graph) /\ pauseRequested \in BOOLEAN
    BY GraphsAreValid
  <2>2. /\ st \in [Node -> Status] /\ out \in [Node -> Verdict] /\ failed \in SUBSET Node
        /\ dbSt \in [Node -> Status \cup {"none"}] /\ dbOut \in [Node -> Verdict]
        /\ appr \in [Node -> ApprovalStatus] /\ call \in [Node -> Calls]
    BY DEF Status, Verdict, ApprovalStatus, Calls
  <2>3. /\ pc \in [Loop -> LoopPC] /\ cur \in [Loop -> Node \cup {NoNode}]
        /\ tpc \in [Task -> TaskPC] /\ tcur \in [Task -> Node \cup {NoNode}]
        /\ result \in [Loop -> Results]
    BY DEF LoopPC, TaskPC, Results
  <2> QED
    BY <2>1, <2>2, <2>3 DEF TypeOK, ExecTypeOK
<1>2. \A l \in Loop, n \in Node : tpc[<<l, n>>] = "none"
  BY DEF Task
<1>3. TaskKnows /\ TasksBelongToAWave /\ OneOwner
  BY <1>2 DEF TaskKnows, TasksBelongToAWave, OneOwner, Owning
<1>4. \A l \in Loop : pc[l] \in {"scan", "idle"}
  OBVIOUS
<1>5. ScansWrite
  BY <1>4, NoNodeIsNotANode DEF ScansWrite
<1>6. OneWriter /\ CallKnows /\ RowsFollow /\ SweptRows
  BY NoNodeIsNotANode DEF OneWriter, CallKnows, RowsFollow, SweptRows
<1>7. AsksWaiting
  BY <1>4 DEF AsksWaiting
<1> QED
  BY <1>1, <1>3, <1>5, <1>6, <1>7 DEF IInv

LEMMA IInvNext == IInv /\ [Next]_vars => IInv'
<1> SUFFICES ASSUME IInv, [Next]_vars
             PROVE  IInv'
  OBVIOUS
<1>0. TypeOK'
  BY TypeOKNext DEF IInv
<1>1. ASSUME NEW l \in Loop, ExecutorStep(l)
      PROVE  IInv'
  BY <1>0, <1>1, LoopStepKeepsInv, TaskStepKeepsInv DEF ExecutorStep, ExecStep
<1>2. ASSUME UNCHANGED <<st, out, dbSt, dbOut, appr, pc, cur, tpc, tcur, call>>
      PROVE  IInv'
  <2>1. TaskKnows' /\ OneOwner' /\ TasksBelongToAWave' /\ OneWriter'
    BY <1>2 DEF IInv, TaskKnows, OneOwner, TasksBelongToAWave, OneWriter
  <2>2. ScansWrite' /\ CallKnows' /\ RowsFollow'
    BY <1>2 DEF IInv, ScansWrite, Marked, CallKnows, RowsFollow, Recorded, Writing
  <2>3. SweptRows' /\ AsksWaiting'
    BY <1>2, SweptRowsStay, AsksStay
  <2> QED
    BY <1>0, <2>1, <2>2, <2>3 DEF IInv
<1>3. CASE RequestPause /\ UNCHANGED <<call>>
  BY <1>2, <1>3 DEF RequestPause, dbVars
<1>4. CASE UNCHANGED vars
  BY <1>2, <1>4 DEF vars, execVars
<1>5. ASSUME NEW n \in Node, ApproveCas(n) \/ ApproveMemory(n) \/ ApproveRow(n) \/ ApproveRun(n)
      PROVE  IInv'
  BY <1>0, <1>5, ApproveCasKeepsInv, ApproveMemoryKeepsInv, ApproveRowKeepsInv, ApproveRunKeepsInv
<1>6. ASSUME NEW n \in Node, SweepCas(n) \/ SweepRow(n)
      PROVE  IInv'
  BY <1>0, <1>6, SweepCasKeepsInv, SweepRowKeepsInv
<1> QED
  BY <1>1, <1>3, <1>4, <1>5, <1>6 DEF Next, AtRest

LEMMA Invariant == Spec => []IInv
BY IInvInit, IInvNext, PTL DEF Spec

\* However many approve() calls run the executor again while earlier loops still run, a
\* node is run by one task at a time: the status is tested and set without an await
\* (_exec_node_inner), and stays set until the task has written its last row.
THEOREM NodeRunsOnce == Spec => []StartedOnce
<1>1. IInv => StartedOnce
  BY RowPoints DEF IInv, StartedOnce, OneOwner, Owning
<1> QED
  BY <1>1, Invariant, PTL

\* However many loops and tasks scan for approvals at once, one of them asks for a node,
\* before anybody has decided it (_process_approvals).
THEOREM ApprovalAskedOnce == Spec => []AskedOnce
<1>1. IInv => AskedOnce
  <2> SUFFICES ASSUME IInv, NEW n \in Node
               PROVE  /\ \A p, q \in Writers(n) : p = q
                      /\ Writers(n) # {} => appr[n] = "none"
    BY DEF AskedOnce
  <2>1. \A p, q \in Writers(n) : p = q
    BY DEF IInv, OneWriter, Writers
  <2>2. Writers(n) # {} => appr[n] = "none"
    BY DEF IInv, ScansWrite, Marked, Writers
  <2> QED
    BY <2>1, <2>2
<1> QED
  BY <1>1, Invariant, PTL

\* When all loops, tasks, approve() calls and the sweeper have come to rest, the nodes
\* table is what the executor has in memory, although each of them wrote its own part in
\* steps; what it has not is what the sweeper decided without telling the executor
\* (sweeper.py:94-104), and no later write of the run has covered that up.
THEOREM RestRecorded == Spec => []RestIsRecorded
<1>1. IInv => RestIsRecorded
  <2> SUFFICES ASSUME IInv, Quiet, NEW n \in Node, st[n] # "pending"
               PROVE  (Recorded(n) /\ appr[n] # "TIMED_OUT") \/ TimedOutUnseen(n)
    BY DEF RestIsRecorded, Recorded
  <2>1. \A t \in Task : tpc[t] \in {"none", "finished", "raised"}
    BY DEF Quiet, Active
  <2>2. ~\E l \in Loop : tpc[<<l, n>>] \in DOMAIN AfterRow
    <3>1. \A l \in Loop : <<l, n>> \in Task
      BY DEF Task
    <3> QED
      BY <2>1, <3>1, RowPoints
  <2>3. ~Writing(n)
    BY <2>1, <2>2 DEF Quiet, Writing
  <2>4. CASE appr[n] = "TIMED_OUT"
    BY <2>4 DEF IInv, CallKnows, SweptRows, Quiet, TimedOutUnseen
  <2>5. CASE appr[n] # "TIMED_OUT"
    BY <2>3, <2>5 DEF IInv, RowsFollow
  <2> QED
    BY <2>4, <2>5
<1> QED
  BY <1>1, Invariant, PTL
=============================================================================
