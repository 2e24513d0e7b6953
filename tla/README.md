# A verification project for the multi-agent workflow engine

agentflow runs *workflows*: graphs whose nodes call agents, ask people for
approval, or stop the run. A run is executed by a Worker (queue mode) or by the
API process itself (inline mode); its progress is checkpointed node by node in
the tenant's database, so that any process can take it up again.

This directory holds TLA+ modules translated from `src/agentflow`, the TLC
configurations that check them on small instances, and TLAPS proofs that hold
for every instance. `PROJECT.json` maps each definition to the lines it models.

Contents: [inventory](#inventory-of-the-system) ·
[modules and code](#modules-and-how-they-correspond-to-the-code) ·
[runs](#what-the-runs-check) · [fairness](#fairness) · [proofs](#what-is-proved) ·
[divergences](#where-the-code-departs-from-what-it-says) ·
[left out](#what-is-not-modelled) · [plan](#plan)

## Inventory of the system

| Part | State it keeps | Operations | What makes it correct |
|---|---|---|---|
| Workflow graph (`core/dag.py`, `core/expressions.py`) | none: a frozen graph | build, validate, evaluate a condition | only acyclic graphs with satisfiable joins are accepted |
| DAG executor (`executor/dag_executor.py`) | `node_states`, `failed`, the pause flag (memory); rows of nodes and approvals (database) | `run`, `approve`, `request_pause`, `from_checkpoint` | never stalls; a node runs once; the outcome depends on verdicts only; the checkpoint is complete when the run is let go; a halt stops it |
| Node attempts (`executor/idempotency.py`) | the ledger `node_attempts` | `execute_with_idempotency` | a recorded side effect is not performed again |
| Run service (`service.py`) | inline executors; the row of the run | create, start, pause, resume, stop, approve | the quota holds; every command has its effect or is refused |
| Worker (`worker.py`) | `_tasks`, `_executors`, `_lease_tasks` | trigger, resume, pause, stop; execute and report | one Worker at a time; outcomes are final |
| Approval sweeper (`approval/sweeper.py`) | none | time out, publish resume | a timeout and a decision exclude one another |
| Queue (`queue/`) | two topics per tenant | publish, subscribe | at-least-once delivery |
| Lock (`lock/`) | keys with owner and expiry | acquire, refresh, release, is_locked | an owner only releases its own |
| State store (`statestore/`) | runs, nodes, approvals, attempts, traces, audit | rows and two compare-and-swaps | a decided approval never moves |
| Tenants (`tenants.py`, `tenantctl.py`, `api/management_store.py`) | tenant rows | provision, migrate, deprovision, drop | a tenant gets all of its default data, once |
| Stores router (`statestore/router.py`, `seed/`) | cached stores per process | get (connect, create, seed), evict | rows that are there are left alone |
| Tickets (`api/ticket_store.py`) | tickets, their runs, numbers | create, create once, attach a run, set status | one ticket per source; a running ticket shows its run |
| Agent and MCP configuration (`agents/config_sync.py`, `agents/mcp_manager.py`, registries) | rows; caches of resolvers and clients | check, load, revalidate, refresh, save, delete | a node works with what the tables say |
| Shipped workflows (`seed/workflows/`) | none | three graphs | nothing is released that was not made, tested and approved |
| Agents and tools (`agents/`, `sandbox/`) | what the middleware noted of the calls; remote branches, pull requests, images | write files, commit, open a PR, merge, build | what is released is what was made; a retry ends well |
| Workspace (`workspace/`) | a checkout per run | clone, check out, branch | a run works on its own branch |
| Reports (`api/app.py`) | none | list and view of runs | green means that what was asked for happened |

**How they interact.** The API inserts a run, prepares its workspace, sets it
`queued` and publishes a *trigger*. A Worker claims it with a compare-and-swap of
`runs.status`, rebuilds the executor from the checkpoint, takes the lease
`run-exec:{run_id}` and drives `run()` in a task. When nothing is left to run, the
task forgets itself, releases the lease and writes the outcome. Pause, resume and
stop are *commands* in a second topic. A person decides an approval through the
API, which writes the approval's row and the node's row itself and then publishes
a resume; the sweeper does the same for approvals whose time is over. In inline
mode the API process keeps the executor in memory, and each `approve` calls
`run()` on it again.

**What is hard.** Every store call is an await, at which other tasks of the process
run: sibling nodes of a wave, a failing wave's detached siblings, a second loop of
the same executor, a cancellation. The API, the sweeper and the Workers write the
same rows without sharing memory. A Worker may die between any two writes, messages
come at least once, the lock may fail or expire under its holder, tools take effect and lose
their answer, caches lag behind tables, and several writes that belong together
(approval and node, lease and status, status and message) are not one
transaction. `PROJECT.json` lists each hazard at its line.

## Modules and how they correspond to the code

```
DagSemantics                pure operators: graph, conditions, node decision, scans
   |        \            \
   |     WorkflowRun     RunReport        what run() promises; what the API reports
   |        |    \       /     \
DagExecutor |   SeedWorkflows   |         the three shipped graphs under WorkflowRun
   |     \  |         |         |
   |     \  |  WorkflowAnalysis |         what can be read off a graph without running it
   |     \  |                   |
   |    QueueRun  ---------------         (INSTANCE WorkflowRun, EXTENDS RunReport)
   |
InlineRun                   several loops of run() on one executor

RunCreation                 tickets, quota, its lock, creation of runs
RunLifecycle                API, sweeper, Workers, topics, lease around one run
NodeExecution               retry, ledger of attempts, guards of one node, per run
AgentConfig                 what a node is given: caches against tables
Release                     from a fix to an image: tools, checkout, remote, ledger
TenantStores                a tenant, its database, its seeds, the caches of processes
```

The proofs are in modules of their own, each extending the module it is named after:
`QueueRunProofs`, `InlineRunProofs`, `RunCreationProofs`, `RunLifecycleProofs`,
`ReleaseProofs`, `TenantStoresProofs`, `SeedWorkflowsProofs`; `NodeProofs` extends NodeExecution
and AgentConfig, which share no variable.

Each has a module `MC...` with its instance for TLC (`MCQueueRun` and `MCAllGraphs` for
QueueRun). The modules meet at the states they share: RunCreation ends where
RunLifecycle begins (a run is queued and published), RunLifecycle cuts the executor
down to what QueueRun and InlineRun show of it, NodeExecution opens the one step in
which DagExecutor runs a node, Release opens what such nodes do through their tools,
AgentConfig the moment before, and TenantStores makes the database they all work on.

**DagSemantics** holds no state. A graph is a record of node kinds (agent, ticket
and other working nodes are `agent`; `approval`, `halt`, `closed` behave
differently), edges with conditions, join modes, required upstreams and approvals
that abort. `Valid` is what `DAG.build` accepts: Kahn's loop is modelled by what it
decides (no cycle). `NodeDecision`, `ReadyNodes`, `DueApprovals`, `DueSkips`,
`HaltTriggered` and `RejectedAbort` follow the methods of the same names. An output
is abstracted to what an edge can tell apart: `"true"`, `"false"` or `"absent"`
under the condition's path. A condition is taken to name an output of the source of its
edge: `_edge_active` evaluates it over the outputs of all nodes (`dag_executor.py:513`),
but every condition of the shipped workflows names the source, and a condition on another
node would read an output that may not be there yet.

**DagExecutor** is one executor object. Everything between two awaits is one
action; an await of the store is a point of interleaving, hence a row is written
by an action of its own, after the change of memory it records.

| Action | Code |
|---|---|
| `LoopMark`, `LoopRow`, `LoopAsk` | the fixed point of `_process_approvals` and `_process_skips` in `run()` |
| `LoopFail`, `LoopPause`, `LoopGather`, `LoopRelease` | the tests after the fixed point and the wave |
| `LoopWaveDone`, `LoopWaveFailed` | `asyncio.gather` returning or raising; after a raise the siblings go on detached |
| `TaskStart` … `TaskReturn` | `_exec_node` / `_exec_node_inner`, with the `_process_approvals` it ends with |
| `RequestPause` | `request_pause` |

The order in which a pass visits the nodes is abstracted to any order, so the
result covers every order of the YAML. The attempts behind one node
(`_run_with_retry`) end in a verdict, in negative evidence (which is an output)
or in `WorkflowNodeFailed`; NodeExecution opens that box.

**QueueRun** adds what happens to that executor in queue mode: approvals decided in
two writes (`Approve`/`SweepTimeout`, then `WriteDecision`) by processes that share
only the database, death of the Worker, of the API and of the sweeper between two
writes, and the way back to the run: whoever decided publishes one resume
(`Publish`), the Worker writes its outcome to `runs.status` (`PutStatus`: `running` turns
false) and takes a resume from the queue (`Deliver`), which claims a run that rests and
drops the command when the run still counts as running (`lost` notes that). A person may
resume a run that rests or whose Worker died (`Resume`). Both rebuild the executor from the rows
(`Rebuild`, `from_checkpoint`). The clock is `Expire`; the time guard of
`cas_update_approval` lets a person decide before the deadline and the sweeper
after it, never both.

**WorkflowRun** is what the executor promises, without its control points: a wave gathers
what may start, over recorded outputs only; nodes end with a verdict or fail; approvals
are asked and decided, nodes skipped, rows written (`Persist`: a terminal row never
again), and a restart goes on from the rows. QueueRun implements it (`Refines`): `row`
and `rowOut` are the nodes table, `wave` the nodes that have a task. SeedWorkflows runs
the shipped workflows under it, which have up to 24 nodes and are too large for the detailed module.

**InlineRun** adds what happens to it in inline mode: several loops of `run()` on one
memory, the first started by `start_run` and one more for each `approve`. The sweeper runs in
the same process (`app.py:372-379`, before the queue mode is asked for), but it knows only the
tables: `SweepCas` and `SweepRow` are its two writes, at any moment an approval waits, and nothing
of them reaches the executor's memory. Its resume goes into a queue that nobody consumes, so there is no
action for it.

**RunLifecycle** puts the processes around the run. The executor is cut down to what
its surroundings see: it asks at most one approval, notices a pause or does not, and
returns any outcome its view of the checkpoint allows, or raises. Each `await` of
the Worker's handlers is a step (`hand[w, topic].pc`): claim, build, lease; stop is
four steps. `TakeStop` on a task that has not run its first step removes it without
its `finally` block, as asyncio does. `PauseCall`/`PauseLookup`/`PauseCas`/
`PausePublish` are the awaits of `pause_run`. `forced` is a history variable: a
forced pause met a run that somebody was executing. The Worker handles one message
of each topic at a time, as its two consumer loops do, and takes a message off the
topic when it is handled or, after a crash, finds it there again; `TakeX` may also
leave it for another delivery (`dups`). A live Worker whose renewals fail until its lease has run out
(`LeaseLost`, `worker.py:112-120`) renews no more and goes on executing.

**NodeExecution** is what `TaskStart` to `TaskReturn` hide for a working node:
`_exec_node_inner`, `_run_with_retry` and `execute_with_idempotency`, each await a step.

| Action | Code |
|---|---|
| `Begin`, `Precheck` | the row `running`; the `require` list |
| `Lookup` | `get_succeeded_attempt` by the key of `_external_operation_id` (`Key`) |
| `Act` | the call of the agent or the creation of the ticket: it may have its effect and answer, have it and fail (a timeout), or not have it |
| `RecordOk`, `RecordFail` | `record_attempt`, which may fail before or after the row went in |
| `OnError` | `on_failure`: negative evidence, or the failure |
| `Judge` | the three guards on the output, outside the reach of `on_failure` |
| `WriteDone`, `WriteFailed`, `ReportFailed` | the node's row and the Worker's report |
| `Crash` | the executor dies at any await; the node starts again with the ledger it left |

`effects` counts what happened outside. The declaration of the node (`config`) is any
combination of key, side effect, retry, `on_failure` and usable inputs. A key built from
content is the same for all runs, a key of the run is the run itself.

**SeedWorkflows** holds the three workflows of `seed/workflows/` as graphs: of a node its kind,
the upstreams it is joined to, whether its failure aborts the run, the nodes its params read
and its `require` list names, and what it may say. `Loads` is what the loader checks of them
(an assumption that TLC evaluates). A node that is declared to go on after a failure says
nothing; an agent that is switched off says nothing; an agent in `VERDICT_FIELDS` never says
no, since that fails it. Scans and writes are instantaneous here; failed runs and
decided approvals are resumed at any time.

**WorkflowAnalysis** is no part of the program: it reads off a graph what must have ended, and with which
verdicts, before a node starts (`Known`), which verdicts account for a node that was skipped
(`Causes`), and which nodes an active edge leaves no way to (`Blocked`). From these it states, for each property of
SeedWorkflows, a condition on the graph (`Gated`, `Cut`, `Fed`, `Closed`) that TLC evaluates for the shipped
workflows (`GraphsAnalysed`), so that an edit of a YAML file that breaks a condition is found without a run.

**RunReport** is what `GET /runs` derives from the rows: halted, rejected (by hand or by the
clock), completed.

**RunCreation** splits the requests at their awaits:

| Action | Code |
|---|---|
| `AskTicket`, `Look`, `NextNumber`, `Insert`, `Reread`, `CreateByHand` | `create_once`, `next_number`, `create` |
| `RunTicket`, `CreateRun` | the endpoints, which may refuse |
| `TakeLock`, `CheckQuota`, `CreateRow`, `Unlock`, `DeleteKey` | the critical section of `_create`; `release` in Redis is two calls, in memory one without a token |
| `Publish`, `ReadRuns`, `WriteRuns`, `MarkRunning` | queued and published, `attach_run`, `set_status` |
| `AskResume`, `ResumeQuota`, `ResumePublish` | `resume_run`, which checks the quota without the lock |
| `Expire`, `Crash`, `RunMoves` | the lock's time to live, death of a process, the Worker |

**TenantStores** follows `TenantStoresRouter.get` and `seed_defaults` statement by statement in
tenantctl and in a serving process at once. Any of these statements may fail (`Fail`, and
`InsertClash`, where the id of a seed is taken under another name): the exception ends the block of its table,
is swallowed, the next block goes on, and the stores are cached as if nothing had happened.
People make, rename and delete servers (`AddServer`, `RenameServer`, `RemoveServer`) and save and
delete agents (`SaveAgent`, `RemoveAgent`; built-in agents are not deleted) while all this goes on.
Three histories name what goes wrong: `disturbed` (two processes seeded at once, one died, or a person
edited), `missed` (the tables in whose seeding a statement failed) and `byHand` (the ids that a person bound
an agent to, or whose server one deleted). The database
may be dropped under open stores, and is made again by the next request, as in the code. A save of a
built-in agent that has no row yet is two statements in the code, an insert and an update, and one step here.

**AgentConfig** follows one node from `AgentNodeRunner.__call__` to its toolkit: the
resolver (`Check` to `ListServers`, by fingerprint in a Worker, by generation in the API), `revalidate`
(`Revalidate` to `Evicted`), `_ensure_loaded` (`ListEnabled` to `Loaded`), the two collections of clients
and of their tools (`Pick`, `Again`, `Done`). Between two awaits nothing else runs in the process (`Running`).
`calm` says that nothing disturbed the node: no other node, change, or failure while it read,
and none before it that left the cache of clients wrong (`spoiled`). `read` and `recurred` are history
too: whether the process, comparing fingerprints, found the tables as it had read them although they
were changed in between.

**Release** is the way from a fix to an image of two runs on one repository. An agent calls
the tools of its node in any order, as often as it likes; a call fails without effect, or takes
effect and loses its answer. People at the remote merge and close pull requests and push to the branches of
runs (`PushByHand`: the branch is `Foreign` from then on, and takes no push without force). `PutMerge` names no commit
and merges what the branch is by then; `pushed` notes that somebody pushed since the head was checked. `GitPush` is a
`ws_git push` of the current branch without force, by committer. `Prepare` leaves a full checkout, a detached one, the trunk or
nothing, as the failures of git do. `job[r].rows` is what the middleware keeps of the tool
calls, `called` and `ok` what it keeps of delivering ones. Assumed of agents: they tell the truth about the
answers of tools (not about files), a commit takes all changed files, ci builds
the image after the artifact, fix-implementer, whose `ws_git` would let it push too, does not, and nobody
pushes with force or to another branch (`prompts.py`).

## What the runs check

Passing runs:

| Run | Instance | Question |
|---|---|---|
| `AllGraphs` | QueueRun on every valid graph of three nodes (agents, halts, up to two approvals; edges without condition or `== true`; joins any, all, or on one required upstream; a single approval also aborting), up to the names of the nodes, no crash | Is a run ever reported stalled? Is its outcome a function of the verdicts (`OutcomeByVerdicts`)? Is `done` really done (`DoneIsDone`)? Does anything start after a halt (`NothingStartsAfterHalt`)? |
| `QueueRun` | five four-node shapes of the seed workflows; two crashes | Can every waiting node be decided (`WaitingIsDecidable`)? Does the checkpoint hold what memory held (`CheckpointComplete`)? Do the tables agree and decisions stay (`DecisionsAgree`, `ApprovalsStay`)? Does every run settle, with one resume for each decision, which may be dropped or die with its sender (`RunsSettle`)? Is all of it a behaviour of WorkflowRun (`Refines`)? |
| `InlineRun` | three loops on one executor and the sweeper of the process, three shapes | Is a node started once and an approval asked once, although loops and tasks scan concurrently (`StartedOnce`, `AskedOnce`)? Is memory written down when all is quiet, and does what the sweeper decided stay in the rows (`RestIsRecorded`)? |
| `Lifecycle` | two Workers, two executor slots, a stop, a duplicate delivery, a fault (crash, exception, lock failure or lost lease), two commands on the topic, a person who pauses dead runs and resumes resting ones | Does one Worker at most have the run (`ClaimedOnce`), does its status say so (`ClaimIsRunning`), are outcomes final (`EndedStays`)? |
| `Lifecycle_ends` | one Worker, a fault, pauses of a live run | Does every run end (`RunEnds`)? |
| `NodeExecution` | one run, all 48 declarations with at most one retry, two deaths, one failing write | Is a recorded effect never repeated (`RecordedOnce`), every effect accounted for (`EffectsAreOnRecord`), what is done on record (`DoneIsOnRecord`)? Does a bad verdict stand against `on_failure` and against replays (`VerdictStands`), and does `continue` cover everything else (`ContinueGoesOn`)? Does the node settle (`NodeSettles`)? |
| `Seeds` | the three shipped workflows in full, with every verdict, decision and failure, and resumes without bound | Is anything rolled out, or a ticket closed, without the gates, tests, merge and build of this run (`ShippedIsMade`)? Does a diagnosis that is insufficient end there (`InsufficientHolds`)? Are the outputs a node reads there when it starts (`InputsSettled`)? Does the report tell what happened (`Concludes`)? |
| `Creation` | three requests of any kind to two processes, a quota of one or two, a crash, a lock that expires early, Redis or memory | Does the quota hold (`QuotaHolds`)? Has a source one ticket (`OneTicketPerSource`)? Does a ticket that counts as running show a run of its own (`TicketShowsItsRun`)? |
| `Tenants` | tenantctl and a serving process, two workflows, two servers and a free name, two agents, two edits or commands, a death, eviction or failing statement | Can a binding lose its server other than by the hand of a person (`BindingsExist`)? Does each table whose statements succeed arrive in full and in order (`SeedsArrive`)? Do rows that are there stay (`RowsStay`)? |
| `Config` | two nodes, a server with a session and one without, two changes or failures, or three of one server (`Bounded`), Worker and API | Does an undisturbed node work with what the tables say (`AgentsGetTheirServers`)? |
| `Release` | two runs, two versions of each change, two failures or acts of a person; with and without conflict | Is what is merged the commit at hand (`MergedIsHead`), the image the tree of its trunk commit (`ReleasedIsTrunk`), a fix in the workspace (`FixIsReal`)? Does a retry succeed after anything an earlier attempt did (`RetriesSucceed`)? |

`AllGraphs` has no crash. What a crash leaves behind, and `from_checkpoint` makes of it, is the subject of `QueueRun`:
there a failed node that were kept would stall the run (`RunsSettle`, `Refines`), and not break `DoneIsDone`.
`DecisionsAgree` shows that no row of a node tells a decision that was not taken; that a
decision whose second write was lost never reaches the row is among the departures below.

One run is a disagreement between the code and its comment (under `findings`):
`Lifecycle_two_executors`. The comment at `worker.py:258` says that the claim prevents
double execution; a pause between claim and lease is forced, and the resume starts a
second executor. The pause may be called after the claim or already during preparation (the run is
inserted as running); its swap comes between claim and lease either way.

**Bounds.** Three nodes are the least on which a join, a skip, an approval and a halt
meet in one wave, and the 3-node graphs with up to two approvals are enumerated instead of chosen
(up to the names of nodes; a `VIEW` takes states for one that differ in nothing which steps or properties of
the run read); the four-node
shapes add what three cannot show (a diamond, two gates in a row, a wave beside a
gate). Two crashes let a crash hit the recovery from a crash. Three loops are one more
than two concurrent approvals need. In RunLifecycle two Workers and two slots are
enough for one duplicate claim; `MaxCommands` bounds the topic (two: a command
overtaken by another), `MaxPauses`, `MaxStops`, `MaxDups` and `MaxFaults` the calls
of people and the number of mishaps. `Manual` allows, beyond those bounds, a pause of
a run that looks dead and a resume of one that rests. In NodeExecution one run is enough because a step
of a run leaves the others alone (proved: `Frame`); one retry and two deaths let an
attempt meet the remains of two earlier executions. Seeds has no bound but the workflows
themselves; it takes scans and writes to be instantaneous, which the theorems about it do not. In Creation three requests are what it takes for a late release to let a third
one in beside a second, and for one `attach_run` to overtake another while a third asks for the same source. In Tenants two rows of
each table let one be missing or out of order; `MaxClock` lets a second seeding fall on a
later time, `MaxEdits` bounds commands and changes by hand (two: a server made and an agent bound to it, or a server deleted while another is seeded), `MaxCuts` deaths, evictions and failing statements.
In Config two nodes are a wave of siblings, and a failure before or after a change are two events (after
which both nodes are at work only if the agent's row is as it was seeded); the
constraint `Bounded` admits a third (a change, its undoing, a failure) while one node at most is at work, to a
tenant in which only the server with a session was changed. In
Release `MaxEvents = 2` lets a failure hit the retry of a failure, and `MaxWrites = 2` lets a file change after it
was committed, in one of the two runs at a time (the constraint `OneRewrites`); a push between check and
merge is one event, which leaves one for the merge to fail. For the properties of the theorems below the bounds do not matter: the proofs cover all of
them. There the runs show that the properties can fail (each has a mutant that breaks it)
and that the interesting cases are reached.

Symmetry is used only in runs without liveness, over sets whose members the
module never tells apart. `CHECK_DEADLOCK FALSE` stands where the system may stop: all requests are
answered, the bounds on what people and mishaps do are used up, or every workflow has ended.

Exemptions inside properties are stated where they stand: `ClaimedOnce`,
`ClaimIsRunning` and `EndedStays` say nothing once a pause was *forced* on a run
somebody executed, which `Lifecycle_two_executors` shows to break them; `RunEnds`
exempts the same runs, and a run left `queued` whose trigger was never
published (`service.py:219`), for which no operation of the system exists;
`WaitingIsDecidable` holds while nothing crashes, and `RunsSettle` exempts a run whose
last resume was *overlooked* (every approval is decided, and the last resume was dropped or died with its
sender) and a *stranded* node: a crash between the row of the node and the row of the
approval (`dag_executor.py:669`), or between the approval and the node
(`dag_executor.py:1104`, `sweeper.py:94`), leaves a node waiting that nobody can
decide. `QuotaHolds` allows one run more for each lock that expired under its holder.
`RestIsRecorded` exempts the approvals that the sweeper of an inline process timed out
(`TimedOutUnseen`), and says of these that table and memory differ in just that decision. `BindingsExist` exempts
ids that people deleted or bound (`byHand`), `SeedsArrive` tables whose seeding failed (`missed`) and seedings that
were `disturbed`. `MergedIsHead` exempts a merge that a push overtook. `AgentsGetTheirServers`
speaks of undisturbed nodes in processes that found no `recurred` tables, and `RetriesSucceed` of attempts in whose way nothing stands (`Hindered`). `ReleasedIsTrunk` exempts
files left uncommitted, since the trees are compared at `HEAD` and the build uses the files.
`InputsSettled` exempts what scenario 1 joins to either of two branches. Removing an
exemption makes TLC find the corresponding defect; they are in the table of departures below.

## Fairness

* An event loop runs every task that can run: weak fairness of each loop and node
  task (QueueRun), of each Worker and executor task (RunLifecycle).
* The sweeper runs forever and time passes: weak fairness of `Expire`, `SweepTimeout`
  and of the second write of a decision.
* Whoever decided goes on to publish its one resume, the Worker puts down the outcome of `run()`, and
  a Worker takes the commands from the queue (QueueRun: `Publish`, `PutStatus`, `Deliver`). Nothing says that a
  command finds the run at rest, and nothing repeats one that did not: it is dropped, as in the
  code. Nobody has to resume a run by hand.
* Topics deliver, the API finishes calls it began, leases nobody renews expire.
* In NodeExecution the step of a run includes its resume after a crash: weak fairness
  says that somebody takes an interrupted run up, and nothing about how fast.
* Agents end: a node's call returns or fails (`timeout`, the budget of the model).
* The modules added around these (RunCreation, TenantStores, AgentConfig, Release, SeedWorkflows) state
  no fairness: their properties are of safety, `RetriesSucceed` too (an attempt that ends undisturbed ends well).
* People are not fair: nobody has to approve, pause or stop, and processes need not
  crash. The one exception is `Lifecycle_ends`, whose statement is about a person who
  pauses a dead run and resumes a resting one; without that person nothing in the
  system takes up a run whose Worker died.

## What is proved

Every theorem holds for all values of the constants that the module's assumptions allow:
all sets of nodes and all valid workflows (QueueRun, InlineRun), all workflows that meet
the conditions of WorkflowAnalysis (SeedWorkflows), any number of loops, Workers,
slots, processes, requests, runs, sources and servers, any seeds, and every bound on crashes,
duplicates, failures and acts of people. What a property exempts it says itself; `VerdictsDecide` alone adds
a hypothesis, that of its run: nobody died.

| Module | Theorem | Statement | Argument |
|---|---|---|---|
| QueueRunProofs | `TypeCorrect` | `Spec => []TypeOK` | action by action |
| | `WorkerNeverStalls` | `Spec => []NeverStalled` | `StallInv`, below |
| | `HaltStopsTheRun` | `Spec => NothingStartsAfterHalt` | `HaltInv`, below |
| | `CheckpointIsComplete` | `Spec => []CheckpointComplete` | `Written` of `CkptInv`, below |
| | `TablesAgree` | `Spec => []DecisionsAgree` | a conjunct of `CkptInv` |
| | `ApprovalsAreKept` | `Spec => ApprovalsStay` | `Approvals` of `CkptInv` |
| | `DoneCanBeReliedOn` | `Spec => []DoneIsDone` | `Returned` of `CkptInv` |
| | `WaitingCanBeDecided` | `Spec => []WaitingIsDecidable` | `CkptInv` with `AllDecidable` |
| | `VerdictsDecide` | `Spec => [](crashes = 0 => OutcomeByVerdicts)` | `OutcomeInv`, below |
| | `RunRefinesWorkflowRun` | `Spec => Refines` | step by step under `CkptInv`, below |
| | `RestartsOnRecord` | `Spec => []`(a run that can be resumed and whose executor did not die has all nodes `Recorded`) | `ReturnedIsWritten` of `CkptInv` |
| SeedWorkflowsProofs | `SeedSpecIsOne` | `SeedSpec => AnyOrderSpec` | step by step |
| | `Invariance` | `AnyOrderSpec => []IInv` | below |
| | `AnyOrderIsSafe` | `AnyOrderSpec => []`(the next four) | from `IInv` |
| | `ShippedWasMade` | `SeedSpec => []ShippedIsMade` | `FactOK` and `Gated` |
| | `InsufficientEnds` | `SeedSpec => []InsufficientHolds` | `FactOK` and `Cut` |
| | `InputsAreSettled` | `SeedSpec => []InputsSettled` | `FedOK` |
| | `ReportIsTrue` | `SeedSpec => []Concludes` | `ReasonOK`, `FactOK` and `Closed` |
| InlineRunProofs | `NodeRunsOnce` | `Spec => []StartedOnce` | `IInv`, below |
| | `ApprovalAskedOnce` | `Spec => []AskedOnce` | `OneWriter` of `IInv` |
| | `RestRecorded` | `Spec => []RestIsRecorded` | `RowsFollow` of `IInv` |
| RunCreationProofs | `OneTicket` | `Spec => []OneTicketPerSource` | `Numbered`, `Sourced` of `TicketInv` |
| | `TicketsShowTheirRuns` | `Spec => []TicketShowsItsRun` | `Attached` of `TicketInv` |
| | `QuotaIsKept` | `Spec => []QuotaHolds` | `QuotaInv`, below |
| RunLifecycleProofs | `ClaimIsExclusive` | `Spec => [](Types /\ Reported /\ Exclusive)` | action by action, below |
| | `ClaimedOnceThm` | `Spec => []ClaimedOnce` | `OneAtMost` of `IInv` |
| | `ClaimIsRunningThm` | `Spec => []ClaimIsRunning` | `ClaimedIsTaken`, `NothingStopped` of `IInv` |
| | `EndedStaysThm` | `Spec => EndedStays` | `Reported`, `Exclusive` of `IInv` |
| NodeProofs | `TypeCorrect` | `Spec => []TypeOK` | action by action |
| | `EffectsOnce` | `Spec => RecordedOnce` | `IInv`, below |
| | `EffectsAccounted` | `Spec => []EffectsAreOnRecord` | `Accounted` of `IInv` |
| | `DoneOnRecord` | `Spec => []DoneIsOnRecord` | `InHand`, `InRow` of `IInv` |
| | `VerdictsStand` | `Spec => []VerdictStands` | `InRow`, `OneSuccess` of `IInv` |
| | `ContinueIsKept` | `Spec => []ContinueGoesOn` | `InRow` of `IInv` |
| | `ConfigInvariance` | `ConfigSpec => []ConfigInv` | one lemma per part and action, below |
| | `EachGetsItsServers` | `ConfigSpec => AgentsGetTheirServers` | `CalmInv` of `ConfigInv` |
| ReleaseProofs | `HeadIsMerged` | `Spec => []MergedIsHead` | `MergeInv`, `MergesHead` of `IInv` |
| | `TrunkIsReleased` | `Spec => []ReleasedIsTrunk` | `BuiltOfTrunk` of `IInv` |
| | `FixesAreReal` | `Spec => []FixIsReal` | `FixInv` |
| | `RetriesEndWell` | `Spec => RetriesSucceed` | `RetryInv`, below |
| TenantStoresProofs | `BindingsAreTrue` | `Spec => []BindingsExist` | `ReadIsTrue` of `IInv` |
| | `RowsAreKept` | `Spec => RowsStay` | action by action, under `IInv` |
| | `SeedsAreThere` | `Spec => []SeedsArrive` | `Orderly` of `IInv`, below |

**Assumptions on the constants.** QueueRun and InlineRun: `GraphsAreValid` (workflows
passed `DAG.build`) and `NoNodeIsNotANode`; QueueRun also `OneLoop` (a Worker drives one
`run()` per executor) and `MaxCrashesIsNat`. NodeExecution: `ConfigsAreNodes` (`retry` is not
negative), `KeysDiffer` (a key of a run is no content key), `BoundsAreNat`. RunLifecycle:
`NamesDiffer` (a free lease and a dead owner are no Workers), `SwitchesAreBoolean`,
`BoundsAreNat`. RunCreation: `QuotaAssumption` (a quota is at least one), `CallsAssumption`
(finitely many requests), `NamesAssumption`. TenantStores: `SeedsAssumption` (the
seed files are not empty, and the manifest names no workflow twice), `BindingAssumption` (the seeds name servers by names they can have,
and people bind agents to ids), `ValuesAssumption`. AgentConfig: `ServerAssumption`
(finitely many servers, and one at least, as the seed files name some). Release: `BoundsAssumption`. SeedWorkflows: `GraphsAnalysed`, the
conditions read off the graphs, which TLC evaluates for the shipped ones.

*Never stalled.* `run()` raises `WorkflowStalledError` when the scans change nothing,
nothing is ready, nothing waits for a person and not all nodes are settled. That this
cannot happen needs more than the graph: a node that is `running` or `failed` is
not settled either. `StallInv` therefore adds that tasks belong to a wave that is being
awaited or has failed (`TasksBelongToAWave`), a running node has a task
(`RunningHasTask`), and a failed node is in `failed` or about to be
(`FailedIsKnown`). With them, at a fixed point the unsettled nodes are all pending;
acyclicity gives one whose upstreams are all settled (`SettledUpstreams`), and such a
node is ready, due for skipping, or due for approval, so the point is not fixed
(`FixedPointIsSettled`). The same statement is false when two
loops share the memory (InlineRun, below): `OneLoop` is what the proof cannot do without.

*Halt.* `HaltInv` adds to `StallInv` that the tasks of halt nodes and those of other
nodes never coexist (`HaltHasTheWave`: `_ready_nodes` schedules halts alone), and that
once a halt ran, the tasks that are left are those of halts (`AfterHaltOnlyHalts`).
That a wave starts only when the scans have skipped what a halt leaves pending keeps
the second.

*Effects.* The statements are about ledger and row, but whether they survive a step
depends on where the execution stands. `IInv` says so: an attempt that is about to be
recorded has no row yet under its execution_id (`NotInserted`); a keyed node acts and
fails only while no success is on record (`NothingYet`), hence never has two
successes to choose from (`OneSuccess`); what is in hand when the guards run comes
from the ledger or is negative evidence (`InHand`). A success whose record failed
*and* went in is the subtle case: the record of the failure is then refused, the
exception leaves `run()`, and the replay finds the success; `Accounted` needs to know
that such an effect has been paid for twice. The proof goes action by action for the
run that moves (`QuietKeepsInv` … `RecordFailKeepsInv`), and by `Frame` for the others.

*Checkpoint and approvals.* `CkptInv` relates three descriptions of a node: what memory says, what the
nodes table says, and what the approvals table says. Memory goes first and the row follows,
so the invariant names who is about to write: a task at `doneRow`, a scan of the loop or of a
task at `row` (`Marked`, `Shown`), a failed or crashed `run()`. `Written` then says that whatever
memory holds as ended or waiting is in the table, or is being written, or has been decided
there meanwhile; `RowBehind` says the reverse, that the table never runs ahead of memory while the
executor lives. With nobody left who writes, `Written` is `CheckpointComplete`. That
two tasks of a wave never ask one approval (`TaskWrites`) needs the scans' test of the status,
which is set before the first await. The row of the run and the commands in the queue only
decide when a resume comes, so the proofs take their steps as stutters of executor and tables, and both
kinds of resume as one (`Steps`, `Resumed`). `RejectedAbort` and `AllTerminal` at a return are in
`Returned`, whence `DoneIsDone`.

*Outcomes.* `OutcomeInv` says that while nothing crashed every settled node is settled
`Rightly`: it ran only if its edges, evaluated on the outputs that are there, let it run, and
was skipped only if they do not. It is inductive because what the edges of a node decide is
decided on settled upstreams, and outputs of settled nodes do not change. A crash really does break it: a
scan skips a node for a verdict in memory whose row is not written; the resumed executor
asks again, may get another verdict, and keeps the skip.

*Refinement.* Under `CkptInv` each step of QueueRun is a step of WorkflowRun over the rows or a
stutter: a task that writes `done` is the end of that node, a scan that writes a row is
the skip or the question, `_process_approvals` between them stutters, and a crash with its
`from_checkpoint` is the restart, since what `from_checkpoint` keeps are the rows themselves.
This is what ties SeedWorkflows, which runs the shipped workflows under WorkflowRun, to the executor.

*Workflows.* The four properties of SeedWorkflows are proved for `AnyOrderSpec`, which is wider than what TLC
runs: questions, skips and writes come between the steps of the tasks, as they do in QueueRun, and an executor
may leave with tasks running. One thing of WorkflowRun is left out of it: a restart with
something unwritten, that is, after a death between a change of memory and its row. An executor that ended in order
leaves nothing unwritten (`RestartsOnRecord`). The heart of `IInv` is `FactOK`: what the analysis knows of a node is true from
the moment the node is gathered or asked. It is inductive although a halt may start beside
other nodes of its graph, because a halt that may start has the wave to itself (`NoHaltBeside`); hence who starts later knows
that the halt's verdict was not given. `CauseOK` and `SkipOK` say that a node ran only if its edges let it run and was
skipped only if they do not; restarts keep both, as they keep every ended row. `FedOK` needs them where two branches
exclude each other: an active edge of one cuts the nodes of the other off, and of those that did not end skipped
one of lowest rank would have been started by an edge that excludes the active one (`BlockedSkipped`, by well-foundedness of the rank).
`ReasonOK` follows a skipped node back to a verdict that explains it (`SkipAccounted`), which is what
`Concludes` needs of the recap.

*Loops on one executor.* In InlineRun any number of loops and tasks share memory. The invariant is that a
node is *owned* from the test of its status to its last write (`OneOwner`), that the status tells
all others so (`TaskKnows`), and that a marked approval has exactly one writer, be it a loop
or a task (`OneWriter`). Both rest on the same fact about the code: between the test of a
status and its change there is no await. `RowsFollow` says that memory is ahead of the table only where
somebody is about to write, or where the sweeper decided; `CallKnows` and `SweptRows`, that such a node waits
in memory from then on, is written by no loop, task or `approve`, and so keeps the sweeper's row.

*Claims.* RunLifecycle's `IInv` says that of all who build, execute or report a run there is
one at most, and that the status is then `running` or `cancelled`, from which no compare-and-swap
claims. It is exactly what a forced pause destroys, hence the `~forced` before `Exclusive`.
That an ended run stays needs `Reported` too (an executor reports only what its `run()` returned).
`NothingStopped` says that without a call of stop nothing writes `cancelled`.

*Quota.* `QuotaInv` counts. There are at most as many requests in the critical section of `_create`
as locks expired under their holders, and one more if somebody still has it (`Guarded`).
`Claims` are the active runs and the requests whose check of the quota has let them through. A check that passes
saw fewer active runs than the quota, and the other claims are made by other holders, so the claims exceed
the quota by at most the expiries. A resume adds none: only a resting run is resumed, and
these count as active. `Fresh` says that no Worker moves a run before it is published.

*Tickets.* That a source has one ticket follows from the unique index (`Insert`) and the second look; the
invariant says of each call what it knows of its ticket (`Sourced`) and of its number (`Numbered`). `Attached`
says that the runs in a ticket's list were made for it and are in the table, also in the copy that
`attach_run` has read and writes back with its own run: an overtaken write may lose a run, but never the last.

*Seeds.* `BindingsExist` holds under any disturbance, because a server keeps its id as long as it is
there, also under another name, and leaves the table only by the hand of a person: what a process
has read of the table stays true or is in `byHand` (`ReadIsTrue`), also when the server is deleted before the
agents are bound. `Orderly` follows a seeding that nobody disturbs through its phases (`Stage`): what each of the
three tables holds when a process is at each statement, that only one seeds, and that when nobody does each table
is untouched or complete, or a statement of it failed. The tables do not fail each other but in one way: an agent
needs the ids of its servers, hence `Sure`.

*Configuration.* What a Worker knows of the tables it knows by a fingerprint: the time of the agent's row, the
number of servers and the newest of their times. `ReadInv` says how the tables may differ from what was read last: a server
is as it was, or gone, or newer than every row of then. Hence an equal fingerprint means equal tables (`SameTables`): the newest time
is as it was, so nothing is newer, and the number is, so nothing is gone. What it does not mean is that nothing happened in between:
clients may have been made of rows that came and went, which is `recurred`. `CacheInv` says of a process that knows
its tables that every client is of an enabled row or about to be thrown away, and every enabled server has a client or
is owed one, by a node that loads or a handler of the API (`InOrder`). `CalmInv` follows the one node that nothing disturbs:
it is alone between its awaits (`CalmAlone`), what it read is what is there (`CalmReads`), and what it has picked, in both of its
passes over the clients, are the usable clients of its agent's servers (`CalmGets`).

*Retries.* `RetryInv` says what `Hindered` leaves: versions on the trunk only go up
(`TrunkGrows`), a workspace starts behind the trunk (`Placed`), heads at the remote lag behind what
was committed (`Lags`), and an answer that an undisturbed attempt got tells of the remote as it still is
(`Answered`), so that what stood in its way is still there when it ends. `MergeInv` and `MergesHead`
carry the first theorem: a merge that was let pass found the remote's branch at the local
head; in the node that merges nobody but a person moves either, which is noted (`pushed`), and the commit is on the trunk with the
tree the branch had.

**Model-checked only.**

* Liveness, which is out of the prover's reach: `RunsSettle`, `RunEnds`, `NodeSettles`.

## Where the code departs from what it says

Each of these was stated as a formula over the modules here, found violated by TLC, and
is kept as a row; `Lifecycle_two_executors` stays in the runs.

*Runs and executors*

| Statement | Formula | Where it fails |
|---|---|---|
| `WorkflowStalledError` means a deadlock or a logic error (`dag_executor.py:241`) | InlineRun: `\A l \in Loop : result[l] # "stalled"` | an inline `approve` raises it (`dag_executor.py:1087`) because the only other node runs in another loop |
| once a halt ran, all other pending nodes are skipped (`docs/constraints/03-dag-semantics.md:28`) | QueueRun: `HaltTriggered(graph, st) => [][\A n \in Node : appr[n] = "none" => appr'[n] = "none"]` | the halt's own task scans for approvals before skips (`dag_executor.py:1039`), and asks one |
| a pause is forced only without an executor (`service.py:327-329`) | RunLifecycle, `LeaseShared = FALSE`: `~forced` while nobody crashed and nothing is being claimed | with in-memory locks the API looks into a lock of its own (`app.py:387-390`) |
| stop sets `cancelled` (`app.py:1606`) | RunLifecycle: `status = "cancelled" => [](status = "cancelled")` | the executor's report overwrites it (`worker.py:215`) |
| after a decision the Worker goes on (`service.py:438-439`, `sweeper.py:6`) | RunLifecycle: `appr = "decided" ~> status # "waiting_approval"`; QueueRun: `RunsSettle` without `Overlooked` | the resume arrives before the Worker has reported, and is dropped (`worker.py:244`, `263-265`); or its sender dies before it publishes |
| a node that waits goes on when it is decided (`dag_executor.py:1152`) | QueueRun: `WaitingIsDecidable` without `crashes = 0` | a crash between the two rows of a question, or of a decision, leaves a node that waits and that nobody can decide (`dag_executor.py:669`, `1104`, `sweeper.py:94`) |
| an approval whose time is over is rejected and the run goes on (`sweeper.py:3-6`) | InlineRun: `Quiet => \A n \in Node : st[n] = "pending" \/ dbSt[n] = st[n]` | in inline mode no process takes the resume, and the executor in memory never hears of the decision: there the approval waits on and can no longer be decided (`app.py:372-379`, `sweeper.py:94-112`) |
| who holds the lease executes the run (`worker.py:104-106`) | RunLifecycle: `[][\A w \in Worker : lease = w /\ (\E s \in Slot : exec[s].on = w /\ exec[s].pc = "work") => lease' # Free]_vars` | after a failed renewal the Worker goes on without a lease, as it says itself (`worker.py:112-118`); a pause is then forced on a live run |
| the lease is released after the task is forgotten, so that no run is "running" without a lease (`worker.py:210`) | `status = "running" /\ ~forced /\ no crash => lease # Free` | the lease is released before the outcome is written (`worker.py:206-215`) |
| a lease lives as long as its executor | `w \in renewing => \E s : exec[s].on = w` | `task.cancel()` before the task's first step: its `finally` never runs (`worker.py:286`) |
| a pause that finds no executor is already in force (`worker.py:276`) | `TakePause(w)` with `held[w] = NoSlot` implies no executor | the executor is on another Worker, or not started yet |
| a stopped run has no node left to decide (`service.py:285`) | `status = "cancelled" => [][node' = node]` | the sweeper writes the node of a cancelled run (`sweeper.py:94-104`) |
| the Worker's stop has "the same semantics" as the service's (`worker.py:298`) | a failed node stays failed | `_mark_cancelled` rebuilds from the checkpoint, where a failed node is pending again (`worker.py:304-307`) |
| a run whose Worker died is taken over by another (`docs/DEPLOYMENT_zh-CN.md:170-171`) | `Claimed' # Claimed ~> Claimed` | the redelivered trigger finds the status `running`, and only `queued` is claimed (`worker.py:179`) |
| an inline stop ends the run | not modelled | it cancels the task of `start_run` only; a loop that runs inside an approve request goes on over nodes marked cancelled (`service.py:376-400`) |

*Nodes and their effects*

| Statement | Formula | Where it fails |
|---|---|---|
| a declared key deduplicates across runs (`dag_executor.py:684`) | with two runs: `Key(r) = ContentKey /\ (\E q \in Run : Succeeded(q) # {})` implies `effects'[r] = effects[r]` | `get_succeeded_attempt` looks only at rows of the same run (`sqlite.py:374`) |
| after a crash a replay does not repeat the side effect (`dag_executor.py:686-687`) | `Keyed(r) /\ config.retry = 0 /\ faults = 0 => effects[r] <= 1` | a crash between the effect and its record (`idempotency.py:52-53`) |
| an output without the files it claims fails the node (`dag_executor.py:145`) | `row[r] = "done" => out[r] # "hollow"` | a crash between record and guard: the reused output has no tool calls to judge it by (`dag_executor.py:756-762`, deliberately let pass) |
| the recap knows what was done (scenario 1, line 363) | `Started("recap")` implies all it reads has ended, also `Either` | the run joins the recap to any of three edges; its test may run before the fix or the remedy |
| the outcome of a run is what was decided | in scenario 1 `outcome = "rejected"` implies no commit | a rejected remedy beside a delivered fix is reported as a rejected run |

*Creation, tenants, configuration*

| Statement | Formula | Where it fails |
|---|---|---|
| `attach_run` attaches (`ticket_store.py:274`) | RunCreation: an answered call's run is in the list of its ticket | two concurrent calls read the same list (`ticket_store.py:278-283`) |
| a run that is paused can be resumed (`service.py:335-336`) | RunCreation: `ResumeQuota` finds room when its own run is the only active one | the quota counts the resumed run itself (`service.py:357`) |
| the three tables of a new tenant are decided alike (`seed/__init__.py:253`) | TenantStores: `SeedsArrive` without `disturbed` | a process that dies in between leaves some tables filled in part, which later openings take for complete |
| a new tenant has the default data when it is first opened (`statestore/router.py:113-117`) | TenantStores: `SeedsArrive` without `missed` | a statement that fails is swallowed (`seed/__init__.py:268`, `286`, `333`) and the stores are cached; a table that has a row then counts as seeded for good |
| agents are never bound to a server that does not exist (`seed/__init__.py:291-293`) | TenantStores: `BindingsExist` without `byHand` | a server is deleted, before or after a seeding binds agents to it (`app.py:1092-1099`), and nobody looks at the ids that an agent is saved with (`app.py:1795-1846`; the leftovers are named at `app.py:1691`) |
| sibling nodes get the servers of their agent | AgentConfig: `AgentsGetTheirServers` without `calm`, no event at all | `_ensure_loaded` marks the tenant before it loads (`mcp_manager.py:114`), so that siblings of the first wave find no clients |
| number of rows and newest `updated_at` cover all changes (`config_sync.py:7-8`), and a change takes effect within the interval (`config.py:154`) | AgentConfig: `AgentsGetTheirServers` without `~recurred`, three events | a server is created, loaded and deleted between two checks: the fingerprint is as it was (`config_sync.py:62`), the clients are not, and nodes go on with the deleted server until another change |
| a read that failed is made up for | the same, without `spoiled` | after a failed `list_enabled` the tenant counts as loaded, and nodes run without tools until the next change |

*From fix to image*

| Statement | Formula over Release | Where it fails |
|---|---|---|
| the artifact is built from the tree of the trunk (`workspace_tools.py:401`) | `ReleasedIsTrunk` without its exemption | the trees are compared at `HEAD`, the build takes the files as they are |
| a repeated merge reports no failure of what happened (`release_tools.py:85-97`) | `Recorded(r).verdict # "bad"` at a keyed node that is done | a tool's failure that the agent reports is recorded as the node's success, then fails its judgement; each resume reuses that record (`idempotency.py:41-46`) |
| a run works on its own branch (`workspace/manager.py`) | `trunk[i].how # "push"` | after a failed checkout the workspace is on the default branch, and `ws_open_pr` pushes it |
| one branch has one PR (`workspace_tools.py:800`) | at most one PR of a run is not closed | `gh pr list` is run unchecked, so a failure passes for an empty list; and a PR merged by hand during a commit that fails is not found |
| two runs may release one after the other | a run merged second gets through ci | its workspace never has the tree of the trunk, which holds the other's change too |
| "what I merge is the commit I submitted" (`release_tools.py:151`) | `MergedIsHead` for `how = "overtaken"` | the head is checked before the merge, and the merge names no sha (`release_tools.py:182-185`): a push in between is merged |
| a PR is merged only if its head is the commit at hand (`release_tools.py:146`) | `MergedIsHead` for `how = "hand"` | what is merged already is accepted without that check (`release_tools.py:136`) |

## What is not modelled

* The text of prompts, the schemas of outputs and the models: an agent is a nondeterministic
  sequence of calls of its tools that ends with a verdict or fails.
* Deployment and smoke tests in a cluster (`deploy`, `verify-deploy`): servers outside
  the repository do them; they are nodes of SeedWorkflows, not of Release.
* Usage, cost, traces and audit rows: written beside the checkpoint, read by nobody
  that decides. The rows of a trace that judge an output are in Release.
* Values of parameters (`resolve_params`): SeedWorkflows keeps which nodes they read and
  whether these have ended.
* An exception other than `WorkflowNodeFailed` inside `run()` (a failing store): in
  RunLifecycle it is `Raise`; in DagExecutor it is covered as a crash.
* In RunCreation a run that is lost from the list of its ticket is noticed only when none is left
  (`TicketShowsItsRun`); the lost run of two is among the departures above.
* In RunLifecycle the two rows of a decision change in one step, since QueueRun takes
  them apart.
* Resume and stop in inline mode, the list of approvers, the sweeper's loop over tenants,
  workflows that people add, edit or delete and their versions, the time to live of a server's cached list of tools.
* `sandbox/orchestrator.py`, `sandbox/action_executor.py` and `sandbox/policy.py`: no other part of
  the source uses them, so there is no system around them to check. (`_parse_quantity`
  there reads a suffix `k` as `Mi`.)
* Preflight checks of tenantctl, Kubernetes namespaces, encryption, authentication, data sources,
  logging: I/O and formats without a protocol.

## Plan

Done: all modules above, the abstract run and its refinement, and the proofs. Left, in this
order:

1. Inline resume and stop: two executors with memories of their own over one table.
2. The sweeper's and the pool's loops over tenants, one of whose stores cannot be opened.
3. Editing and versions of workflows against runs that are being created.
