------------------------------- MODULE QueueRun -------------------------------
(***************************************************************************)
(* One run in queue mode: a Worker drives an executor rebuilt from the     *)
(* checkpoint (executor/resume.py), the API decides approvals directly in  *)
(* the tenant's database (RunService.approve) and the sweeper times them   *)
(* out (approval/sweeper.py).  None of the three shares memory.            *)
(*                                                                         *)
(* An approval is decided in two writes, the approvals row (CAS) and then  *)
(* the row of the node: `decided` holds the decisions between the two.     *)
(* Whoever decides then publishes a resume command, once; a Worker drops   *)
(* one that comes while runs.status is "running".  Any process may die     *)
(* between two of these steps, at most MaxCrashes times.                   *)
(*                                                                         *)
(* Which messages reach which Worker is the subject of RunLifecycle; here  *)
(* a person may resume a released run at any time, and one whose Worker    *)
(* died, by way of a forced pause.                                         *)
(***************************************************************************)
EXTENDS DagExecutor, RunReport, Naturals

CONSTANTS Worker,      \* the only invocation of run() at a time
          MaxCrashes   \* bound on crashes of the Worker, the API and the sweeper

ASSUME OneLoop == Loop = {Worker}
ASSUME MaxCrashesIsNat == MaxCrashes \in Nat

VARIABLES
    expired,   \* approvals whose timeout_at has passed
    decided,   \* decisions in the approvals row, not yet in the node's row
    telling,   \* approvals decided in both rows, whose resume is not yet published
    notices,   \* resume commands in the queue
    running,   \* is runs.status "running"?
    lost,      \* was a resume dropped, or never sent, since the run was last claimed?
    crashes

noticeVars == <<telling, notices, running, lost>>
vars == <<execVars, expired, decided, noticeVars, crashes>>

Decision == {"APPROVED", "REJECTED", "TIMED_OUT"}

TypeOK ==
    /\ ExecTypeOK
    /\ expired \in SUBSET Node
    /\ decided \in [Node -> Decision \cup {"none"}]
    /\ telling \in SUBSET Node /\ notices \in Nat
    /\ running \in BOOLEAN /\ lost \in BOOLEAN
    /\ crashes \in 0 .. MaxCrashes

\* The Worker has just claimed the run.
Init ==
    /\ ExecInit
    /\ pc = [l \in Loop |-> "scan"]
    /\ expired = {}
    /\ decided = [n \in Node |-> "none"]
    /\ telling = {} /\ notices = 0 /\ running = TRUE /\ lost = FALSE
    /\ crashes = 0

-----------------------------------------------------------------------------
(* The API and the sweeper *)

Expire(n) ==
    /\ appr[n] = "WAITING" /\ n \notin expired
    /\ expired' = expired \cup {n}
    /\ UNCHANGED <<execVars, decided, noticeVars, crashes>>

\* Mutant: an update in the place of the compare-and-swap.
CasApprovalBlind(n, d) ==
    /\ appr[n] # "none"
    /\ appr' = [appr EXCEPT ![n] = d]
    /\ decided' = [decided EXCEPT ![n] = d]
    /\ UNCHANGED <<graph, memVars, dbSt, dbOut, pc, cur, tpc, tcur, result,
                   expired, noticeVars, crashes>>

\* cas_update_approval: the row still waits, and the clock allows this decision
\* (approval_time_guard).
CasApproval(n, d) ==
    /\ appr[n] = "WAITING"
    /\ d = "TIMED_OUT" <=> n \in expired
    /\ appr' = [appr EXCEPT ![n] = d]
    /\ decided' = [decided EXCEPT ![n] = d]
    /\ UNCHANGED <<graph, memVars, dbSt, dbOut, pc, cur, tpc, tcur, result,
                   expired, noticeVars, crashes>>

\* approve() on an executor rebuilt from the checkpoint in the API process.
Approve(n) ==
    /\ dbSt[n] = "waiting_approval"
    /\ \E d \in {"APPROVED", "REJECTED"} : CasApproval(n, d)

SweepTimeout(n) == CasApproval(n, "TIMED_OUT")

NodeStatusOf == [APPROVED |-> "done", REJECTED |-> "rejected",
                 TIMED_OUT |-> "rejected-canceled"]

\* Mutant: the row of the node is forgotten.
WriteDecisionForgotten(n) ==
    /\ decided[n] # "none"
    /\ decided' = [decided EXCEPT ![n] = "none"]
    /\ telling' = telling \cup {n}
    /\ UNCHANGED <<execVars, expired, notices, running, lost, crashes>>

\* The second write: the node's row takes the decision and its output.
WriteDecision(n) ==
    /\ decided[n] # "none"
    /\ dbSt' = [dbSt EXCEPT ![n] = NodeStatusOf[decided[n]]]
    /\ dbOut' = [dbOut EXCEPT ![n] = IF decided[n] = "APPROVED" THEN "true" ELSE "false"]
    /\ decided' = [decided EXCEPT ![n] = "none"]
    /\ telling' = telling \cup {n}
    /\ UNCHANGED <<graph, memVars, appr, pc, cur, tpc, tcur, result, expired, notices, running,
                   lost, crashes>>

\* The resume command, after the two writes.
Publish(n) ==
    /\ n \in telling
    /\ telling' = telling \ {n}
    /\ notices' = notices + 1
    /\ UNCHANGED <<execVars, expired, decided, running, lost, crashes>>

-----------------------------------------------------------------------------
(* Crashes and resume *)

Executing == \/ \E l \in Loop : pc[l] # "returned"
             \/ \E t \in Task : Active(t)

\* The process dies with the executor and all its tasks, or with the outcome it has yet to put
\* down; runs.status goes on saying that it runs.
WorkerCrash ==
    /\ crashes < MaxCrashes /\ (Executing \/ running)
    /\ crashes' = crashes + 1
    /\ pc' = [l \in Loop |-> "returned"]
    /\ cur' = [l \in Loop |-> NoNode]
    /\ tpc' = [t \in Task |-> "none"]
    /\ tcur' = [t \in Task |-> NoNode]
    /\ result' = [l \in Loop |-> IF pc[l] = "returned" /\ ~running THEN result[l] ELSE "crashed"]
    /\ UNCHANGED <<graph, memVars, dbVars, expired, decided, noticeVars>>

\* The API or the sweeper dies between its writes, or before it publishes.
DeciderCrash(n) ==
    /\ crashes < MaxCrashes /\ (decided[n] # "none" \/ n \in telling)
    /\ crashes' = crashes + 1
    /\ decided' = [decided EXCEPT ![n] = "none"]
    /\ telling' = telling \ {n}
    /\ lost' = (lost \/ n \in telling)
    /\ UNCHANGED <<execVars, expired, notices, running>>

\* The outcome of run() goes to runs.status.
PutStatus(l) ==
    /\ running /\ pc[l] = "returned" /\ result[l] \notin {"crashed", "stalled"}
    /\ running' = FALSE
    /\ UNCHANGED <<execVars, expired, decided, telling, notices, lost, crashes>>

\* Mutant: a node that waits starts again.
KeptIfSettled(n) == dbSt[n] \in TERMINAL

\* from_checkpoint: what is settled or waits for a person is kept.
Kept(n) == dbSt[n] \in TERMINAL \cup {"waiting_approval"}

\* The claim, and an executor rebuilt from the rows as they are by then.
Rebuild(l) ==
    /\ st' = [n \in Node |-> IF Kept(n) THEN dbSt[n] ELSE "pending"]
    /\ out' = [n \in Node |-> IF Kept(n) THEN dbOut[n] ELSE "absent"]
    /\ failed' = {}
    /\ pauseRequested' = FALSE
    /\ pc' = [pc EXCEPT ![l] = "scan"]
    /\ result' = [result EXCEPT ![l] = "none"]
    /\ running' = TRUE
    /\ lost' = FALSE
    /\ UNCHANGED <<graph, dbVars, cur, tpc, tcur>>

Claimable(l) == pc[l] = "returned" /\ ~running /\ result[l] \in {"paused", "waiting_approval"}

\* A person resumes the run; one that crashed is paused by force before.
Resume(l) ==
    /\ Claimable(l) \/ (pc[l] = "returned" /\ result[l] = "crashed")
    /\ Rebuild(l)
    /\ UNCHANGED <<expired, decided, telling, notices, crashes>>

\* _cmd_resume: a command that finds the run running, or ended, is dropped.
Deliver(l) ==
    /\ notices > 0
    /\ notices' = notices - 1
    /\ \/ Claimable(l) /\ Rebuild(l)
       \/ ~Claimable(l) /\ lost' = (lost \/ running) /\ UNCHANGED <<execVars, running>>
    /\ UNCHANGED <<expired, decided, telling, crashes>>

-----------------------------------------------------------------------------
ExecutorStep ==
    /\ \/ \E l \in Loop : ExecStep(l)
       \/ RequestPause
    /\ UNCHANGED <<expired, decided, noticeVars, crashes>>

\* A run that ended stays as it is.
Ended == /\ \A l \in Loop : pc[l] = "returned" /\ result[l] \in {"done", "failed"}
         /\ ~Executing

Next ==
    \/ ExecutorStep
    \/ \E n \in Node : \/ Expire(n) \/ Approve(n) \/ SweepTimeout(n)
                       \/ WriteDecision(n) \/ Publish(n) \/ DeciderCrash(n)
    \/ WorkerCrash
    \/ \E l \in Loop : PutStatus(l) \/ Resume(l) \/ Deliver(l)
    \/ Ended /\ UNCHANGED vars

Spec == Init /\ [][Next]_vars

\* The event loop runs every task that can run; the clock, the sweeper, the second write of a
\* decision, the command after it and the Worker that takes it from the queue go on.  Nobody has to
\* decide an approval, to pause or to crash, and nobody has to resume a run.
Fairness ==
    /\ \A l \in Loop :
          /\ WF_vars(LoopStep(l) /\ UNCHANGED <<expired, decided, noticeVars, crashes>>)
          /\ WF_vars(PutStatus(l)) /\ WF_vars(Deliver(l))
    /\ \A l \in Loop, n \in Node :
          WF_vars(TaskStep(l, n) /\ UNCHANGED <<expired, decided, noticeVars, crashes>>)
    /\ \A n \in Node : /\ WF_vars(Expire(n))
                       /\ WF_vars(SweepTimeout(n))
                       /\ WF_vars(WriteDecision(n))
                       /\ WF_vars(Publish(n))

FairSpec == Spec /\ Fairness

-----------------------------------------------------------------------------
(* Safety *)

\* run() never raises WorkflowStalledError: on an acyclic graph a fixed point of
\* the scan with nothing ready and nobody to wait for is a finished run.
NeverStalled == \A l \in Loop : result[l] # "stalled"

\* When a Worker lets a run go, the nodes table holds all that the executor knew,
\* except where the API or the sweeper has since decided an approval.
CheckpointComplete ==
    \A l \in Loop : result[l] \in {"paused", "waiting_approval", "done"} =>
        \A n \in Node :
            \/ dbSt[n] = st[n] /\ dbOut[n] = out[n]
            \/ st[n] = "pending" /\ ~Kept(n)
            \/ st[n] = "waiting_approval" /\ dbSt[n] \in TERMINAL

\* The outcome depends on the verdicts and on nothing else: at the end of a run that met
\* no halt, a node was skipped exactly when its edges, evaluated on the final outputs, do
\* not let it run.  No order of waves, approvals, pauses and resumes skips a node that
\* should have run, or runs one that should not.  (A crash can: an approval skipped for a
\* verdict that was not written yet stays skipped, and the next attempt may give another.)
OutcomeByVerdicts ==
    \A l \in Loop : result[l] = "done" /\ ~HaltTriggered(graph, dbSt) =>
        \A n \in Node :
            dbSt[n] = "skipped" <=> ~JoinSatisfied(graph, dbSt, dbOut, n)

\* What the API reports of a run that ended as done can be relied on: it asks nobody for
\* a decision any more, no rejection was to abort it, and a run it calls completed had
\* every approval that was ever asked approved, by the approvals table too.
DoneIsDone ==
    \A l \in Loop : result[l] = "done" =>
        LET said == Report(graph, result[l], dbSt)
        IN /\ AllTerminal(dbSt) /\ said.pending = {}
           /\ ~RejectedAbort(graph, dbSt)
           /\ said.summary.outcome = "completed" =>
                 \A n \in Node : appr[n] \in {"none", "APPROVED"}

\* A node the API lists as waiting that nobody can decide: its approval was never
\* asked, or was decided and the decision did not reach the node's row.
Stranded(n) ==
    n \in PendingApprovals(dbSt) /\ appr[n] # "WAITING" /\ decided[n] = "none"

\* Short of a crash, a node recorded as waiting can still be decided: its approval
\* waits, is on its way between the two tables, or is being asked right now.
WaitingIsDecidable ==
    crashes = 0 => \A n \in Node : Stranded(n) =>
        \/ \E l \in Loop : pc[l] = "ask" /\ cur[l] = n
        \/ \E t \in Task : tpc[t] = "ask" /\ tcur[t] = n

\* The two tables never tell different stories about a decision.
DecisionsAgree ==
    \A n \in Node :
        IsApproval(graph, n) /\ dbSt[n] \in {"done", "rejected", "rejected-canceled"} =>
            appr[n] \in Decision /\ dbSt[n] = NodeStatusOf[appr[n]]

-----------------------------------------------------------------------------
(* What a step may never do *)

\* An approval is asked once and decided once.
ApprovalsStay ==
    [][\A n \in Node :
          /\ appr[n] \in Decision => appr'[n] = appr[n]
          /\ appr[n] = "WAITING" => appr'[n] # "none"]_vars

\* Once a halt node has run, nothing but another halt of the same wave starts.
NothingStartsAfterHalt ==
    [][HaltTriggered(graph, st) =>
          \A n \in Node : st'[n] = "running" /\ st[n] # "running" => IsHalt(graph, n)]_vars

-----------------------------------------------------------------------------
(* Refinement *)

Gathered == {n \in Node : \E l \in Loop : tpc[<<l, n>>] # "none"}

Abstract == INSTANCE WorkflowRun WITH row <- dbSt, rowOut <- dbOut, wave <- Gathered

\* Whatever crashes between whichever writes, the run is one of WorkflowRun: nodes
\* start on recorded outputs only, a terminal row stays, a decision is taken once,
\* and a restart neither forgets what is written nor makes anything up.
Refines == Abstract!Spec

-----------------------------------------------------------------------------
(* Liveness *)

\* The resume of the last decision came while the run was still running, or died with its sender:
\* every approval is decided, and nothing is on its way that would tell the run.
Overlooked ==
    lost /\ notices = 0 /\ telling = {} /\ PendingApprovals(dbSt) = {}

\* No run waits or computes for ever: again and again it has ended, is paused by a person, has lost
\* its Worker -- or a crash between two writes has stranded an approval, or the one resume of a
\* decision was overlooked.  An approval that is timed out while the run waits for it always sets
\* the run going again.
RunsSettle ==
    \A l \in Loop :
        []<>(\/ result[l] \in {"done", "failed", "paused", "crashed"}
             \/ crashes > 0 /\ \E n \in Node : Stranded(n)
             \/ Overlooked)
=============================================================================
