------------------------------- MODULE RunReport ------------------------------
(***************************************************************************)
(* What the API tells a person of a run (GET /runs, GET /runs/{run_id}):   *)
(* derived anew for every request from the frozen workflow, the status of  *)
(* the run and the rows of its nodes (api/app.py).                         *)
(***************************************************************************)
EXTENDS DagSemantics

\* The nodes at which the run was cut short for want of evidence.
HaltedNodes(g, row) == {n \in Node : IsHalt(g, n) /\ row[n] = "done"}

RejectedNodes(row) == {n \in Node : row[n] \in {"rejected", "rejected-canceled"}}

\* The reason of the first rejected row, in the order of the table: one of these.
RejectReasons(row) ==
    {IF row[n] = "rejected-canceled" THEN "timeout" ELSE "manual" : n \in RejectedNodes(row)}

RunOutcome(g, row) ==
    IF HaltedNodes(g, row) # {} THEN "halted"
    ELSE IF RejectedNodes(row) # {} THEN "rejected" ELSE "completed"

ApiStatus(status) == IF status = "done" THEN "success" ELSE status

PendingApprovals(row) == {n \in Node : row[n] = "waiting_approval"}

\* An entry of the list of runs, and the view of one of them.
Summary(g, status, row) == [status |-> ApiStatus(status), outcome |-> RunOutcome(g, row)]

Report(g, status, row) ==
    [summary |-> Summary(g, status, row), pending |-> PendingApprovals(row)]
=============================================================================
