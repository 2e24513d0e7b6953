------------------------------ MODULE WorkflowRun -----------------------------
(***************************************************************************)
(* What the executor promises about one run of a workflow, without its     *)
(* control points: waves of nodes that start on recorded outputs, end with *)
(* a verdict or fail, approvals that are asked and decided, nodes that are *)
(* skipped, and a restart from the rows that were written.                 *)
(*                                                                         *)
(* QueueRun implements this specification (Refines, checked there);        *)
(* SeedWorkflows runs the workflows of the repository under it, which are  *)
(* too large for the detailed one.                                         *)
(***************************************************************************)
EXTENDS DagSemantics

CONSTANT GraphSet

VARIABLES
    graph,
    st, out,        \* what the executor knows of a node
    row, rowOut,    \* what is written of it
    wave            \* the nodes that run() has gathered

absVars == <<graph, st, out, row, rowOut, wave>>

Open == TERMINAL \cup {"waiting_approval"}

Init ==
    /\ graph \in GraphSet
    /\ st = [n \in Node |-> "pending"]
    /\ out = [n \in Node |-> "absent"]
    /\ row = [n \in Node |-> "none"]
    /\ rowOut = [n \in Node |-> "absent"]
    /\ wave = {}

Set(n, status, verdict) ==
    /\ st' = [st EXCEPT ![n] = status]
    /\ out' = [out EXCEPT ![n] = verdict]

\* What the executor knows is on record; an approval may have been decided since.
Recorded(n) ==
    \/ st[n] \notin Open
    \/ row[n] = st[n] /\ rowOut[n] = out[n]
    \/ st[n] = "waiting_approval" /\ row[n] \in TERMINAL

\* A wave: everything that may start, over recorded outputs only, when nothing runs,
\* nothing failed and nothing is left to be asked or skipped.
Gather ==
    /\ wave = {}
    /\ \A n \in Node : Recorded(n) /\ st[n] \notin {"running", "failed"}
    /\ ~RejectedAbort(graph, st)
    /\ DueApprovals(graph, st, out) = {} /\ DueSkips(graph, st, out) = {}
    /\ ReadyNodes(graph, st, out) # {}
    /\ wave' = ReadyNodes(graph, st, out)
    /\ UNCHANGED <<graph, st, out, row, rowOut>>

Start(n) ==
    /\ n \in wave /\ st[n] = "pending"
    /\ NodeDecision(graph, st, out, n) = "ready"
    /\ Set(n, "running", "absent")
    /\ UNCHANGED <<graph, row, rowOut, wave>>

Finish(n) ==
    /\ n \in wave /\ st[n] = "running"
    /\ \/ \E v \in Verdict : Set(n, "done", v)
       \/ Set(n, "failed", "absent")
    /\ UNCHANGED <<graph, row, rowOut, wave>>

Ask(n) ==
    /\ IsApproval(graph, n) /\ st[n] = "pending"
    /\ NodeDecision(graph, st, out, n) = "ready"
    /\ Set(n, "waiting_approval", "absent")
    /\ UNCHANGED <<graph, row, rowOut, wave>>

Skip(n) ==
    /\ st[n] = "pending"
    /\ HaltTriggered(graph, st) \/ NodeDecision(graph, st, out, n) = "skipped"
    /\ Set(n, "skipped", "absent")
    /\ UNCHANGED <<graph, row, rowOut, wave>>

\* A row that is terminal is never written again.
Persist(n) ==
    /\ st[n] # "pending" /\ row[n] \notin TERMINAL
    /\ row' = [row EXCEPT ![n] = st[n]]
    /\ rowOut' = [rowOut EXCEPT ![n] = out[n]]
    /\ UNCHANGED <<graph, st, out, wave>>

WaveOver ==
    /\ wave # {}
    /\ \A n \in wave : st[n] \in TERMINAL /\ Recorded(n)
    /\ wave' = {}
    /\ UNCHANGED <<graph, st, out, row, rowOut>>

\* A person or the clock decides, in the row.
Decide(n) ==
    /\ row[n] = "waiting_approval"
    /\ \E s \in {"done", "rejected", "rejected-canceled"} :
          /\ row' = [row EXCEPT ![n] = s]
          /\ rowOut' = [rowOut EXCEPT ![n] = IF s = "done" THEN "true" ELSE "false"]
    /\ UNCHANGED <<graph, st, out, wave>>

\* The executor is gone, with the wave.
Leave ==
    /\ wave' = {}
    /\ UNCHANGED <<graph, st, out, row, rowOut>>

\* Another one takes up what is written.
Restart ==
    /\ wave = {}
    /\ st' = [n \in Node |-> IF row[n] \in Open THEN row[n] ELSE "pending"]
    /\ out' = [n \in Node |-> IF row[n] \in Open THEN rowOut[n] ELSE "absent"]
    /\ UNCHANGED <<graph, row, rowOut, wave>>

Next ==
    \/ Gather \/ WaveOver \/ Leave \/ Restart
    \/ \E n \in Node : \/ Start(n) \/ Finish(n) \/ Ask(n) \/ Skip(n)
                       \/ Persist(n) \/ Decide(n)

Spec == Init /\ [][Next]_absVars
=============================================================================
