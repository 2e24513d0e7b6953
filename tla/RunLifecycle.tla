----------------------------- MODULE RunLifecycle -----------------------------
(***************************************************************************)
(* The life of one run in queue mode: the API (RunService) creates it and  *)
(* publishes commands, Workers claim it by a compare-and-swap of its       *)
(* status, hold a lease while they execute it, and report its outcome;     *)
(* the sweeper and the approvers decide its approval; people pause, resume *)
(* and stop it; processes die and messages come twice.                     *)
(*                                                                         *)
(* What an executor does inside run() is the subject of QueueRun.  Here it *)
(* asks at most one approval, and returns with any outcome its view of the *)
(* checkpoint allows.  Of the rows of the nodes only that of the approval  *)
(* node is kept.                                                           *)
(***************************************************************************)
EXTENDS Naturals, Sequences, FiniteSets

CONSTANTS Worker,       \* Worker processes
          Slot,         \* room for executor tasks
          NoSlot, Free, \* "no task", "nobody holds the lease"
          LeaseShared,  \* the API's lock sees the Workers' leases
          Manual,       \* a person pauses a dead run and resumes a resting one
          MaxCommands,  \* bound on commands in the topic
          MaxPauses, MaxStops,  \* bounds on calls of pause_run and stop_run
          MaxDups,      \* bound on duplicate deliveries
          MaxFaults     \* bound on crashes, exceptions and failures of the lock and of renewals

ASSUME NamesDiffer == NoSlot \notin Slot /\ Free \notin Worker /\ "dead" \notin Worker
ASSUME SwitchesAreBoolean == LeaseShared \in BOOLEAN /\ Manual \in BOOLEAN
ASSUME BoundsAreNat == {MaxCommands, MaxPauses, MaxStops, MaxDups, MaxFaults} \subseteq Nat

VARIABLES
    status,    \* runs.status
    node,      \* the approval node's row
    appr,      \* the approval's row
    trig,      \* messages in run.trigger
    cmds,      \* messages in run.command
    hand,      \* per Worker and topic, the message being handled
    held,      \* Worker._tasks: the task a Worker knows for the run
    exec,      \* the executor tasks
    lease,     \* the key run-exec:{run_id}
    renewing,  \* Workers with a task that renews the lease
    creating,  \* progress of RunService._create
    pausing,   \* progress of RunService.pause_run
    deciding,  \* an approval was decided, its resume command is not published yet
    forced,    \* history: a forced pause met a run that somebody was executing
    pauses, stops, dups, faults

runVars   == <<status, node, appr>>
topicVars == <<trig, cmds, dups>>
workVars  == <<hand, held, exec>>
leaseVars == <<lease, renewing>>
apiVars   == <<creating, pausing, deciding, forced, pauses, stops>>
vars      == <<runVars, topicVars, workVars, leaseVars, apiVars, faults>>

Topic == {"trigger", "command"}

\* A run that is over is neither triggered nor resumed.
Over == {"done", "failed", "cancelled"}

NotHandling == [pc |-> "idle", seen |-> "none"]

NoTask == [pc |-> "none", on |-> Free, view |-> "none", pause |-> FALSE, outcome |-> "none"]

\* _create has inserted the run's row; the workspace is being prepared.
Init ==
    /\ status = "running" /\ node = "none" /\ appr = "none"
    /\ trig = 0 /\ cmds = <<>>
    /\ hand = [h \in Worker \X Topic |-> NotHandling]
    /\ held = [w \in Worker |-> NoSlot]
    /\ exec = [s \in Slot |-> NoTask]
    /\ lease = Free /\ renewing = {}
    /\ creating = "prepare" /\ pausing = "no" /\ deciding = FALSE
    /\ forced = FALSE /\ pauses = 0 /\ stops = 0 /\ dups = 0 /\ faults = 0

-----------------------------------------------------------------------------
(* Who has claimed the run *)

Claiming == {h \in Worker \X Topic : hand[h].pc \in {"build", "claim"}}

Working == {s \in Slot : exec[s].pc \in {"new", "work"}}

Finishing == {s \in Slot : exec[s].pc \in {"ending", "ended"}}

Claimed == Claiming \cup Working \cup Finishing # {}

Fault == faults < MaxFaults /\ faults' = faults + 1

NoFault == faults' = faults

Publish(c) == Len(cmds) < MaxCommands /\ cmds' = Append(cmds, c)

-----------------------------------------------------------------------------
(* RunService *)

CreateQueued ==
    /\ creating = "prepare"
    /\ status' = "queued"
    /\ creating' = "publish"
    /\ UNCHANGED <<node, appr, topicVars, workVars, leaseVars,
                   pausing, deciding, forced, pauses, stops, faults>>

CreatePublish ==
    /\ creating = "publish"
    /\ trig' = trig + 1
    /\ creating' = "over"
    /\ UNCHANGED <<runVars, cmds, dups, workVars, leaseVars,
                   pausing, deciding, forced, pauses, stops, faults>>

\* A run that looks dead: it runs, and nobody holds its lease.
Dead == status = "running" /\ lease = Free /\ creating \in {"over", "lost"} /\ ~Claimed

\* pause_run: the status, then the lease, then the swap; a command when the run is
\* not seen to be dead, or when the lease cannot be looked up.
PauseCall ==
    /\ pausing = "no"
    /\ \/ pauses < MaxPauses /\ pauses' = pauses + 1
       \/ Manual /\ Dead /\ pauses' = pauses
    /\ pausing' = IF status = "running" THEN "lookup" ELSE "publish"
    /\ UNCHANGED <<runVars, topicVars, workVars, leaseVars,
                   creating, deciding, forced, stops, faults>>

LeaseVisible == LeaseShared /\ lease # Free

\* Mutant: a run is never taken for dead.
PauseLookupTimid ==
    /\ pausing = "lookup"
    /\ pausing' = "publish"
    /\ UNCHANGED <<runVars, topicVars, workVars, leaseVars,
                   creating, deciding, forced, pauses, stops, faults>>

PauseLookup ==
    /\ pausing = "lookup"
    /\ \/ NoFault /\ pausing' = IF LeaseVisible THEN "publish" ELSE "cas"
       \/ Fault /\ pausing' = "publish"
    /\ UNCHANGED <<runVars, topicVars, workVars, leaseVars,
                   creating, deciding, forced, pauses, stops>>

PauseCas ==
    /\ pausing = "cas"
    /\ IF status = "running"
       THEN /\ status' = "paused"
            /\ pausing' = "no"
            /\ forced' = (forced \/ Claimed \/ creating \in {"prepare", "publish"})
       ELSE /\ pausing' = "publish"
            /\ UNCHANGED <<status, forced>>
    /\ UNCHANGED <<node, appr, topicVars, workVars, leaseVars,
                   creating, deciding, pauses, stops, faults>>

PausePublish ==
    /\ pausing = "publish"
    /\ Publish("pause")
    /\ pausing' = "no"
    /\ UNCHANGED <<runVars, trig, dups, workVars, leaseVars,
                   creating, deciding, forced, pauses, stops, faults>>

\* resume_run, called for a run that rests.
ResumeCall ==
    /\ Manual /\ status \in {"paused", "waiting_approval"}
    /\ Publish("resume")
    /\ UNCHANGED <<runVars, trig, dups, workVars, leaseVars, apiVars, faults>>

StopCall ==
    /\ stops < MaxStops /\ stops' = stops + 1
    /\ Publish("stop")
    /\ UNCHANGED <<runVars, trig, dups, workVars, leaseVars,
                   creating, pausing, deciding, forced, pauses, faults>>

\* An approver (whose executor reads the node's row) or the sweeper (which does
\* not) decides, and publishes resume afterwards.  The two rows change in one
\* step here; QueueRun takes them apart.
Decide(readsNode) ==
    /\ ~deciding /\ appr = "WAITING"
    /\ readsNode => node = "waiting"
    /\ appr' = "decided" /\ node' = "decided"
    /\ deciding' = TRUE
    /\ UNCHANGED <<status, topicVars, workVars, leaseVars,
                   creating, pausing, forced, pauses, stops, faults>>

Approve == Decide(TRUE)

SweepTimeout == Decide(FALSE)

PublishDecision ==
    /\ deciding
    /\ Publish("resume")
    /\ deciding' = FALSE
    /\ UNCHANGED <<runVars, trig, dups, workVars, leaseVars,
                   creating, pausing, forced, pauses, stops, faults>>

\* The API process (with its sweeper) dies: what it was about to publish is lost.
ApiCrash ==
    /\ creating \in {"prepare", "publish"} \/ deciding \/ pausing # "no"
    /\ Fault
    /\ creating' = IF creating = "over" THEN "over" ELSE "lost"
    /\ pausing' = "no" /\ deciding' = FALSE
    /\ UNCHANGED <<runVars, topicVars, workVars, leaseVars, forced, pauses, stops>>

-----------------------------------------------------------------------------
(* Worker: messages and claims *)

Hand(w, k, pc) == hand' = [hand EXCEPT ![<<w, k>>].pc = pc]

\* At least once: a message taken may stay in its topic for another delivery.
TakeTrigger(w) ==
    /\ trig > 0 /\ hand[<<w, "trigger">>].pc = "idle"
    /\ \/ trig' = trig - 1 /\ dups' = dups
       \/ dups < MaxDups /\ dups' = dups + 1 /\ trig' = trig
    /\ IF held[w] = NoSlot /\ status \notin Over
       THEN Hand(w, "trigger", "casQueued")
       ELSE hand' = hand
    /\ UNCHANGED <<runVars, cmds, held, exec, leaseVars, apiVars, faults>>

Take(c) ==
    /\ cmds # <<>> /\ Head(cmds) = c
    /\ \/ cmds' = Tail(cmds) /\ dups' = dups
       \/ dups < MaxDups /\ dups' = dups + 1 /\ cmds' = cmds

TakeResume(w) ==
    /\ hand[<<w, "command">>].pc = "idle" /\ Take("resume")
    /\ IF held[w] = NoSlot /\ status \notin Over
       THEN Hand(w, "command", "casPaused")
       ELSE hand' = hand
    /\ UNCHANGED <<runVars, trig, held, exec, leaseVars, apiVars, faults>>

TakePause(w) ==
    /\ hand[<<w, "command">>].pc = "idle" /\ Take("pause")
    /\ IF held[w] = NoSlot
       THEN exec' = exec
       ELSE exec' = [exec EXCEPT ![held[w]].pause = TRUE]
    /\ UNCHANGED <<runVars, trig, hand, held, leaseVars, apiVars, faults>>

\* A task that has begun runs its finally block when it is cancelled; one that
\* has not never runs at all.
TakeStop(w) ==
    /\ hand[<<w, "command">>].pc = "idle" /\ Take("stop")
    /\ IF held[w] = NoSlot
       THEN Hand(w, "command", "read") /\ exec' = exec
       ELSE /\ Hand(w, "command", "await")
            /\ IF exec[held[w]].pc = "new"
               THEN exec' = [exec EXCEPT ![held[w]] = NoTask]
               ELSE exec' = [exec EXCEPT ![held[w]].pc = "cancelled"]
    /\ held' = [held EXCEPT ![w] = NoSlot]
    /\ UNCHANGED <<runVars, trig, leaseVars, apiVars, faults>>

\* Mutant: resume also takes over a run that is running.
FromStatusTakeOver == [casQueued |-> "queued", casPaused |-> "paused",
                       casWaiting |-> "running"]

\* The swap that claims the run, from one status and else from the next.
FromStatus == [casQueued |-> "queued", casPaused |-> "paused",
               casWaiting |-> "waiting_approval"]

\* Mutant: an update in the place of the compare-and-swap.
ClaimBlind(w, k) ==
    /\ hand[<<w, k>>].pc \in DOMAIN FromStatus
    /\ status' = "running" /\ Hand(w, k, "build")
    /\ UNCHANGED <<node, appr, topicVars, held, exec, leaseVars, apiVars, faults>>

Claim(w, k) ==
    LET pc == hand[<<w, k>>].pc IN
    /\ pc \in DOMAIN FromStatus
    /\ IF status = FromStatus[pc]
       THEN status' = "running" /\ Hand(w, k, "build")
       ELSE /\ status' = status
            /\ Hand(w, k, IF pc = "casPaused" THEN "casWaiting" ELSE "idle")
    /\ UNCHANGED <<node, appr, topicVars, held, exec, leaseVars, apiVars, faults>>

\* resume_executor: what is neither settled nor waiting starts again.
Build(w, k) ==
    /\ hand[<<w, k>>].pc = "build"
    /\ hand' = [hand EXCEPT ![<<w, k>>] =
                   [pc |-> "claim", seen |-> IF node = "cancelled" THEN "none" ELSE node]]
    /\ UNCHANGED <<runVars, topicVars, held, exec, leaseVars, apiVars, faults>>

\* _claim_lease never stands in the way; then the task is created.
Start(w, k) ==
    /\ hand[<<w, k>>].pc = "claim"
    /\ \/ /\ NoFault
          /\ IF lease = Free THEN lease' = w /\ renewing' = renewing \cup {w}
                             ELSE UNCHANGED leaseVars
       \/ Fault /\ UNCHANGED leaseVars
    /\ \E s \in Slot :
          /\ exec[s] = NoTask
          /\ exec' = [exec EXCEPT ![s] = [NoTask EXCEPT !.pc = "new", !.on = w,
                                                        !.view = hand[<<w, k>>].seen]]
          /\ held' = [held EXCEPT ![w] = s]
    /\ hand' = [hand EXCEPT ![<<w, k>>] = NotHandling]
    /\ UNCHANGED <<runVars, topicVars, apiVars>>

-----------------------------------------------------------------------------
(* Worker: stop *)

StopAwaited(w) ==
    /\ hand[<<w, "command">>].pc = "await"
    /\ \A s \in Slot : exec[s].on = w => exec[s].pc # "cancelled"
    /\ Hand(w, "command", "read")
    /\ UNCHANGED <<runVars, topicVars, held, exec, leaseVars, apiVars, faults>>

\* _mark_cancelled: the checkpoint is read, the rows are written, then the status.
StopRead(w) ==
    /\ hand[<<w, "command">>].pc = "read"
    /\ hand' = [hand EXCEPT ![<<w, "command">>] = [pc |-> "void", seen |-> node]]
    /\ UNCHANGED <<runVars, topicVars, held, exec, leaseVars, apiVars, faults>>

StopVoid(w) ==
    /\ hand[<<w, "command">>].pc = "void"
    /\ node' = IF hand[<<w, "command">>].seen = "decided" THEN node ELSE "cancelled"
    /\ Hand(w, "command", "cancel")
    /\ UNCHANGED <<status, appr, topicVars, held, exec, leaseVars, apiVars, faults>>

StopCancel(w) ==
    /\ hand[<<w, "command">>].pc = "cancel"
    /\ status' = "cancelled"
    /\ hand' = [hand EXCEPT ![<<w, "command">>] = NotHandling]
    /\ UNCHANGED <<node, appr, topicVars, held, exec, leaseVars, apiVars, faults>>

-----------------------------------------------------------------------------
(* The executor's task: _execute *)

Begin(s) ==
    /\ exec[s].pc = "new"
    /\ exec' = [exec EXCEPT ![s].pc = "work"]
    /\ UNCHANGED <<runVars, topicVars, hand, held, leaseVars, apiVars, faults>>

\* run() is over: the Worker forgets the task, whichever it knows now.
Finish(s, outcome) ==
    /\ exec' = [exec EXCEPT ![s].pc = "ending", ![s].outcome = outcome]
    /\ held' = [held EXCEPT ![exec[s].on] = NoSlot]

\* The row of the node is replaced; the row of the approval is inserted, which
\* fails, and ends run(), when it exists.
Ask(s) ==
    /\ exec[s].pc = "work" /\ exec[s].view = "none"
    /\ node' = "waiting"
    /\ IF appr = "none"
       THEN /\ appr' = "WAITING"
            /\ exec' = [exec EXCEPT ![s].view = "waiting"]
            /\ held' = held
       ELSE appr' = appr /\ Finish(s, "raised")
    /\ UNCHANGED <<status, topicVars, hand, leaseVars, apiVars, faults>>

Outcomes(e) ==
    {"failed"} \cup (IF e.pause THEN {"paused"} ELSE {})
               \cup (IF e.view = "waiting" /\ ~e.pause THEN {"waiting_approval"} ELSE {})
               \cup (IF e.view # "waiting" THEN {"done"} ELSE {})

Return(s) ==
    /\ exec[s].pc = "work"
    /\ \E o \in Outcomes(exec[s]) : Finish(s, o)
    /\ UNCHANGED <<runVars, topicVars, hand, leaseVars, apiVars, faults>>

\* Any exception but WorkflowNodeFailed and the cancellation.
Raise(s) ==
    /\ exec[s].pc = "work" /\ Fault
    /\ Finish(s, "raised")
    /\ UNCHANGED <<runVars, topicVars, hand, leaseVars, apiVars>>

\* The finally block: only a lease of one's own is deleted, and when that fails
\* it expires.  After an exception nothing is reported.
ReleaseLease(s) ==
    LET w == exec[s].on IN
    /\ exec[s].pc \in {"ending", "cancelled"}
    /\ renewing' = renewing \ {w}
    /\ \/ NoFault /\ lease' = IF lease = w THEN Free ELSE lease
       \/ Fault /\ lease' = IF lease = w THEN "dead" ELSE lease
    /\ exec' = [exec EXCEPT ![s] =
                   IF exec[s].pc = "cancelled" \/ exec[s].outcome = "raised"
                   THEN NoTask ELSE [exec[s] EXCEPT !.pc = "ended"]]
    /\ UNCHANGED <<runVars, topicVars, hand, held, apiVars>>

\* update_run: no compare, just swap.
Report(s) ==
    /\ exec[s].pc = "ended"
    /\ status' = exec[s].outcome
    /\ exec' = [exec EXCEPT ![s] = NoTask]
    /\ UNCHANGED <<node, appr, topicVars, hand, held, leaseVars, apiVars, faults>>

-----------------------------------------------------------------------------
(* Crashes *)

\* The topic delivers again what the Worker had not finished handling.
WorkerCrash(w) ==
    /\ \/ \E k \in Topic : hand[<<w, k>>].pc # "idle"
       \/ \E s \in Slot : exec[s].on = w
    /\ Fault
    /\ trig' = IF hand[<<w, "trigger">>].pc = "idle" THEN trig ELSE trig + 1
    /\ cmds' = CASE hand[<<w, "command">>].pc = "idle" -> cmds
                 [] hand[<<w, "command">>].pc \in {"await", "read", "void", "cancel"}
                       -> <<"stop">> \o cmds
                 [] OTHER -> <<"resume">> \o cmds
    /\ hand' = [hand EXCEPT ![<<w, "trigger">>] = NotHandling, ![<<w, "command">>] = NotHandling]
    /\ held' = [held EXCEPT ![w] = NoSlot]
    /\ exec' = [s \in Slot |-> IF exec[s].on = w THEN NoTask ELSE exec[s]]
    /\ lease' = IF lease = w THEN "dead" ELSE lease
    /\ renewing' = renewing \ {w}
    /\ UNCHANGED <<runVars, dups, apiVars>>

\* A lease nobody renews any more.
LeaseExpires ==
    /\ lease = "dead"
    /\ lease' = Free
    /\ UNCHANGED <<runVars, topicVars, workVars, renewing, apiVars, faults>>

\* The lease of a Worker that lives runs out: its renewals failed until then, or came too late.
\* The Worker says so in its log, renews no more and goes on executing.
LeaseLost(w) ==
    /\ lease = w /\ Fault
    /\ lease' = Free
    /\ renewing' = renewing \ {w}
    /\ UNCHANGED <<runVars, topicVars, workVars, apiVars>>

-----------------------------------------------------------------------------
WorkerStep(w) ==
    \/ TakeTrigger(w) \/ TakeResume(w) \/ TakePause(w) \/ TakeStop(w)
    \/ \E k \in Topic : Claim(w, k) \/ Build(w, k) \/ Start(w, k)
    \/ StopAwaited(w) \/ StopRead(w) \/ StopVoid(w) \/ StopCancel(w)

TaskStep(s) == Begin(s) \/ Return(s) \/ ReleaseLease(s) \/ Report(s)

Create == CreateQueued \/ CreatePublish

PauseStep == PauseLookup \/ PauseCas \/ PausePublish

\* Nothing has to happen to a run that rests.
AtRest == ~Claimed /\ UNCHANGED vars

Next ==
    \/ Create \/ PauseCall \/ PauseStep \/ ResumeCall \/ StopCall
    \/ Approve \/ SweepTimeout \/ PublishDecision \/ ApiCrash
    \/ \E w \in Worker : WorkerStep(w) \/ WorkerCrash(w) \/ LeaseLost(w)
    \/ \E s \in Slot : TaskStep(s) \/ Ask(s) \/ Raise(s)
    \/ LeaseExpires
    \/ AtRest

Spec == Init /\ [][Next]_vars

\* Processes that are up go on, messages are delivered, leases expire, approvals
\* time out, and a person attends to a run that is dead or rests.
Fairness ==
    /\ WF_vars(Create) /\ WF_vars(PauseStep) /\ WF_vars(PublishDecision)
    /\ WF_vars(SweepTimeout) /\ WF_vars(LeaseExpires)
    /\ WF_vars(PauseCall /\ pauses' = pauses)
    /\ WF_vars(ResumeCall /\ cmds = <<>>)
    /\ \A w \in Worker : WF_vars(WorkerStep(w))
    /\ \A s \in Slot : WF_vars(TaskStep(s))

FairSpec == Spec /\ Fairness

-----------------------------------------------------------------------------
(* Safety *)

\* Whatever is delivered twice or dies, at most one Worker builds, runs or reports
\* the run -- as long as no forced pause met a run that somebody was executing.
ClaimedOnce ==
    ~forced => Cardinality(Claiming) + Cardinality(Working \cup Finishing) <= 1

\* The status tells whether the run is claimed: a run that rests, waits in a topic
\* or ended is nobody's (unless it was stopped, or paused by force, meanwhile).
ClaimIsRunning == Claimed /\ ~forced /\ stops = 0 => status = "running"

\* An outcome is final: no late report, duplicate or crash moves a run that is
\* done or failed (a person may still stop it).
EndedStays ==
    [][~forced /\ status \in {"done", "failed"} => status' \in {status, "cancelled"}]_vars

-----------------------------------------------------------------------------
(* What comments and docs of the repository say *)

\* The claim keeps two executors from running (worker.py:258).
OneExecutor == Cardinality(Working) <= 1

-----------------------------------------------------------------------------
(* Liveness *)

\* With the help of a person who pauses it when it is dead and resumes it when it
\* rests, every run ends -- but for a run left queued without a message because its
\* creation was cut short, and for one that was paused while somebody executed it.
RunEnds == <>[](status \in Over \/ (creating = "lost" /\ status = "queued") \/ forced)
=============================================================================
