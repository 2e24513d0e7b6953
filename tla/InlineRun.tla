------------------------------- MODULE InlineRun ------------------------------
(***************************************************************************)
(* One run in inline mode (service.py with no queue): the API process owns *)
(* the only executor.  start_run starts a first run() in the background;   *)
(* every approve() call decides the approval in the executor's own memory  *)
(* and then calls run() again on the SAME executor, whether or not the     *)
(* earlier call has returned, so several loops may share one memory.       *)
(* The sweeper runs in the same process and sees only the tables: an       *)
(* approval it times out gets its row behind the executor's back, and the  *)
(* resume it publishes has no consumer, as there is no Worker.  timeout_at *)
(* may pass at any moment an approval waits.                               *)
(***************************************************************************)
EXTENDS DagExecutor

VARIABLES
    call   \* per approval node, how far the call that decided it is, approve() or the
           \* sweeper's: the CAS went through (with which decision), memory changed, the row
           \* was written, a loop was started

vars == <<execVars, call>>

Init ==
    /\ ExecInit
    /\ \E first \in Loop :
          pc = [l \in Loop |-> IF l = first THEN "scan" ELSE "idle"]
    /\ call = [n \in Node |-> "none"]

-----------------------------------------------------------------------------
(* approve() on the executor that is held in memory *)

ApproveCas(n) ==
    /\ st[n] = "waiting_approval"
    /\ appr[n] = "WAITING"
    /\ \E d \in {"APPROVED", "REJECTED"} :
          /\ appr' = [appr EXCEPT ![n] = d]
          /\ call' = [call EXCEPT ![n] = d]
    /\ UNCHANGED <<graph, memVars, dbSt, dbOut, pc, cur, tpc, tcur, result>>

ApproveMemory(n) ==
    /\ call[n] \in {"APPROVED", "REJECTED"}
    /\ IF call[n] = "APPROVED" THEN SetNode(n, "done", "true")
                               ELSE SetNode(n, "rejected", "false")
    /\ call' = [call EXCEPT ![n] = "row"]
    /\ UNCHANGED <<graph, failed, pauseRequested, dbVars, pc, cur, tpc, tcur, result>>

\* Mutant: the row of the node is forgotten.
ApproveRowForgotten(n) ==
    /\ call[n] = "row"
    /\ call' = [call EXCEPT ![n] = "run"]
    /\ UNCHANGED execVars

ApproveRow(n) ==
    /\ call[n] = "row"
    /\ WriteRow(n)
    /\ call' = [call EXCEPT ![n] = "run"]
    /\ UNCHANGED <<graph, memVars, appr, pc, cur, tpc, tcur, result>>

\* _run_and_persist on the same executor.
ApproveRun(n) ==
    /\ call[n] = "run"
    /\ \E l \in Loop : pc[l] = "idle" /\ pc' = [pc EXCEPT ![l] = "scan"]
    /\ call' = [call EXCEPT ![n] = "over"]
    /\ UNCHANGED <<graph, memVars, dbVars, cur, tpc, tcur, result>>

-----------------------------------------------------------------------------
(* The sweeper of the process: two writes, and nothing in memory *)

SweepCas(n) ==
    /\ appr[n] = "WAITING"
    /\ appr' = [appr EXCEPT ![n] = "TIMED_OUT"]
    /\ call' = [call EXCEPT ![n] = "TIMED_OUT"]
    /\ UNCHANGED <<graph, memVars, dbSt, dbOut, pc, cur, tpc, tcur, result>>

SweepRow(n) ==
    /\ call[n] = "TIMED_OUT"
    /\ dbSt' = [dbSt EXCEPT ![n] = "rejected-canceled"]
    /\ dbOut' = [dbOut EXCEPT ![n] = "false"]
    /\ call' = [call EXCEPT ![n] = "over"]
    /\ UNCHANGED <<graph, memVars, appr, pc, cur, tpc, tcur, result>>

-----------------------------------------------------------------------------
Quiet ==
    /\ \A l \in Loop : pc[l] \in {"idle", "returned"}
    /\ \A t \in Task : ~Active(t)
    /\ \A n \in Node : call[n] \in {"none", "over"}

\* Nobody has to approve: a run may stay as it is.
AtRest == Quiet /\ UNCHANGED vars

ExecutorStep(l) == ExecStep(l) /\ UNCHANGED <<call>>

Next ==
    \/ \E l \in Loop : ExecutorStep(l)
    \/ RequestPause /\ UNCHANGED <<call>>
    \/ \E n \in Node : \/ ApproveCas(n) \/ ApproveMemory(n)
                       \/ ApproveRow(n) \/ ApproveRun(n)
                       \/ SweepCas(n) \/ SweepRow(n)
    \/ AtRest

Spec == Init /\ [][Next]_vars

-----------------------------------------------------------------------------
(* Safety *)

\* However many loops gather the same node, one task runs it: the status is
\* tested and set without an await.
StartedOnce ==
    \A n \in Node : \A k, l \in Loop :
        /\ tpc[<<k, n>>] \in DOMAIN AfterRow \cup {"exec", "failing"}
        /\ tpc[<<l, n>>] \in DOMAIN AfterRow \cup {"exec", "failing"}
        => k = l

\* No two scans, of loops or of tasks, write the same node, so that no approval
\* is asked twice.
Writers(n) == {l \in Loop : cur[l] = n} \cup {t \in Task : tcur[t] = n}

AskedOnce ==
    \A n \in Node :
        /\ \A p, q \in Writers(n) : p = q
        /\ Writers(n) # {} => appr[n] = "none"

\* The sweeper's decision is in the tables, and nobody told the executor: to its memory
\* the approval waits, and can no longer be decided.
TimedOutUnseen(n) ==
    /\ appr[n] = "TIMED_OUT" /\ st[n] = "waiting_approval"
    /\ dbSt[n] = "rejected-canceled" /\ dbOut[n] = "false"

\* When nothing moves, the nodes table is what the executor has in memory, except for
\* the approvals the sweeper timed out: their rows tell the decision, which no later
\* write of any loop, task or approve() covers up with what memory still says.
RestIsRecorded ==
    Quiet => \A n \in Node :
        \/ st[n] = "pending"
        \/ dbSt[n] = st[n] /\ dbOut[n] = out[n] /\ appr[n] # "TIMED_OUT"
        \/ TimedOutUnseen(n)
=============================================================================
