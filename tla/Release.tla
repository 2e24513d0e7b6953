-------------------------------- MODULE Release --------------------------------
(***************************************************************************)
(* From a fix in the workspace of a run to an image of what the trunk      *)
(* holds: nodes fix, test, commit, merge and ci of the seed workflows, the *)
(* tools their agents call (agents/workspace_tools.py,                     *)
(* agents/release_tools.py, sandbox/), the checkout they work on           *)
(* (workspace/), the ledger that keeps an output of commit and merge, and  *)
(* the judgement of an output by what the tools did (agents/health.py,     *)
(* executor/dag_executor.py).                                              *)
(*                                                                         *)
(* An agent is a language model: it calls the tools of its node in any     *)
(* order, as often as it likes, or not at all, and may break at any time;  *)
(* it is truthful about the answers of tools, but not about the files that *)
(* it changed.  A tool is split where it calls git, gh or docker.  A call  *)
(* fails without effect, or takes effect and loses its answer.             *)
(*                                                                         *)
(* A tree says which version of each run's change it contains; the squash  *)
(* of a branch puts the version of its run on the trunk.                   *)
(***************************************************************************)
EXTENDS Naturals, FiniteSets, Sequences

CONSTANTS Run,
          MaxWrites,    \* bounds: versions of a run's change,
          MaxEvents     \* failures, and what a person does at the remote

ASSUME BoundsAssumption == MaxWrites \in Nat /\ MaxEvents \in Nat

VARIABLES
    clash,      \* do the changes of two runs conflict?
    trunk,      \* the commits of the default branch: [tree, run, how]
    branch,     \* the version at the remote head of aiops/RUN_<run>; Unborn before a push,
                \* Foreign once a person has pushed to it
    prs,        \* the pull requests: [run, state, commit]
    work,       \* the workspace of a run: [git, base, head, work, jar]
    job,        \* where the run is, and what the attempt in hand has done
    ledger,     \* node_attempts of the keyed nodes: [verdict, pr, commit]
    image,      \* the images by the trunk commit in their tag
    events

vars == <<clash, trunk, branch, prs, work, job, ledger, image, events>>

Version == 0..MaxWrites
Unborn == MaxWrites + 1
Foreign == MaxWrites + 2
Empty == [r \in Run |-> 0]
NoTree == [r \in Run |-> Unborn]

Keyed == {"commit", "merge"}
Nodes == {"fix", "commit", "merge", "ci"}
NotRecorded == [verdict |-> "none", pr |-> 0, commit |-> 0]

\* calm: has nothing disturbed the attempt, and no PR been asked of no commits?  called, ok:
\* deliver_called, deliver_ok.  rows: what the tool calls of the node show, over all its attempts.
\* claim: does it say it changed files?
\* pushed: has a person pushed to the branch since it was checked for the merge?
Fresh == [stage |-> "prepare", pc |-> "idle", calm |-> TRUE, called |-> FALSE, ok |-> FALSE,
          built |-> FALSE, pr |-> 0, commit |-> 0, rows |-> "none", claim |-> FALSE,
          pushed |-> FALSE]

\* The tools that change something, by the node whose agent is given them (the registry).
ToolsOf ==
    [fix    |-> {"ws_write_file", "sandbox_run_shell", "sandbox_run_python", "ws_git"},
     commit |-> {"ws_git", "ws_open_pr"},
     merge  |-> {"ws_merge_pr"},
     ci     |-> {"ws_build_artifact", "ws_build_image"}]

SandboxExec == {"sandbox_run_shell", "sandbox_run_python"}

Init ==
    /\ clash \in BOOLEAN
    /\ trunk = <<[tree |-> Empty, run |-> {}, how |-> "before"]>>
    /\ branch = [r \in Run |-> Unborn]
    /\ prs = <<>>
    /\ work = [r \in Run |-> [git |-> "absent", base |-> Empty, head |-> 0, work |-> 0, jar |-> NoTree]]
    /\ job = [r \in Run |-> Fresh]
    /\ ledger = [r \in Run |-> [k \in Keyed |-> NotRecorded]]
    /\ image = <<NoTree>>
    /\ events = 0

HeadTree(r) == [work[r].base EXCEPT ![r] = work[r].head]
WorkTree(r) == [work[r].base EXCEPT ![r] = work[r].work]
Tip == trunk[Len(trunk)]

Event == events < MaxEvents /\ events' = events + 1

\* The tool answers its agent; it failed, and that disturbs the attempt.
ToAgent(r) == [job[r] EXCEPT !.pc = "agent", !.pushed = FALSE]
Failed(r) == [ToAgent(r) EXCEPT !.calm = FALSE]
At(r, stage, pc) == job[r].stage = stage /\ job[r].pc = pc

\* The agent of the node at hand calls one of its tools.
Calls(r, tools) == job[r].pc = "agent" /\ ToolsOf[job[r].stage] \cap tools # {}

Set(r, j) == job' = [job EXCEPT ![r] = j]

-----------------------------------------------------------------------------
(* WorkspaceManager.prepare_one, which prepare_run_workspace lets fail *)

\* clone --no-checkout, checkout base_sha, checkout -B: what a failure leaves is used as it is.
Prepare(r) ==
    /\ job[r].stage = "prepare"
    /\ \E git \in {"absent", "trunk", "detached", "branch"} :
        /\ work' = [work EXCEPT ![r].git = git, ![r].base = Tip.tree]
        /\ IF git = "branch" THEN UNCHANGED events ELSE Event
    /\ Set(r, [job[r] EXCEPT !.stage = "fix"])
    /\ UNCHANGED <<clash, trunk, branch, prs, ledger, image>>

Prepared(r) == work[r].git # "absent"

-----------------------------------------------------------------------------
(* Attempts of a node *)

Advance(r, claim) ==
    LET next == [fix |-> "test", test |-> "commit", commit |-> "merge", merge |-> "ci", ci |-> "released"]
    IN [Fresh EXCEPT !.stage = next[job[r].stage], !.pr = job[r].pr, !.commit = job[r].commit,
                     !.claim = claim, !.rows = IF claim THEN job[r].rows ELSE "none"]

\* The attempt is over and the node is not; its rows stay.
Again(r) == [Fresh EXCEPT !.stage = job[r].stage, !.pr = job[r].pr, !.commit = job[r].commit,
                          !.rows = job[r].rows]

\* The input check: merge requires pr_url, ci requires merge_commit.
Required(r) == CASE job[r].stage = "merge" -> job[r].pr # 0
                 [] job[r].stage = "ci" -> job[r].commit # 0
                 [] OTHER -> TRUE

Recorded(r) == IF job[r].stage \in Keyed THEN ledger[r][job[r].stage] ELSE NotRecorded

Begin(r) ==
    /\ job[r].stage \in Nodes /\ job[r].pc = "idle" /\ Required(r)
    /\ Recorded(r).verdict = "none"
    /\ Set(r, ToAgent(r))
    /\ UNCHANGED <<clash, trunk, branch, prs, work, ledger, image, events>>

\* The output on record stands in for a call of the agent, the bad one too: that node fails again.
Reuse(r) ==
    /\ job[r].stage \in Nodes /\ job[r].pc = "idle"
    /\ Recorded(r).verdict = "good"
    /\ LET j == Advance(r, FALSE)
           out == Recorded(r)
       IN Set(r, IF job[r].stage = "commit" THEN [j EXCEPT !.pr = out.pr]
                 ELSE [j EXCEPT !.commit = out.commit])
    /\ UNCHANGED <<clash, trunk, branch, prs, work, ledger, image, events>>

\* No JSON at the end, a timeout, or the end of the process: the attempt counts as failed, and the
\* node is run again by a retry or a resume.  What tools did stays.
Break(r) ==
    /\ job[r].pc # "idle" /\ Event
    /\ Set(r, Again(r))
    /\ UNCHANGED <<clash, trunk, branch, prs, work, ledger, image>>

\* _raise_on_unmet_delivery, _raise_on_negative_verdict: a promised call that never succeeded, or
\* an output that says so.  Of commit there is no verdict.
Good(r) == CASE job[r].stage = "commit" -> job[r].called => job[r].ok
             [] job[r].stage = "merge" -> job[r].ok
             [] job[r].stage = "ci" -> job[r].ok /\ job[r].built

\* Mutant: a call that failed is evidence too.
SupportedByCalls(r, claim) ==
    claim => job[r].rows \in {"none", "error", "write", "exec"}

\* _raise_on_unsupported_artifacts: not judged without calls, or with a command in the sandbox.
Supported(r, claim) == claim => job[r].rows # "error"

EndFix(r) ==
    /\ At(r, "fix", "agent")
    /\ \E claim \in BOOLEAN :
        Set(r, IF Supported(r, claim) THEN Advance(r, claim) ELSE Again(r))
    /\ UNCHANGED <<clash, trunk, branch, prs, work, ledger, image, events>>

Test(r) ==
    /\ At(r, "test", "idle") /\ Prepared(r)
    /\ Set(r, Advance(r, FALSE))
    /\ UNCHANGED <<clash, trunk, branch, prs, work, ledger, image, events>>

\* The output goes on record before it is judged; the process may end in between.
End(r) ==
    /\ job[r].stage \in {"commit", "merge", "ci"} /\ job[r].pc = "agent"
    /\ ledger' = IF job[r].stage \in Keyed
                 THEN [ledger EXCEPT ![r][job[r].stage] =
                          [verdict |-> IF Good(r) THEN "good" ELSE "bad",
                           pr |-> job[r].pr, commit |-> job[r].commit]]
                 ELSE ledger
    /\ \/ Good(r) /\ Set(r, Advance(r, FALSE)) /\ UNCHANGED events
       \/ Good(r) /\ Set(r, Again(r)) /\ Event
       \/ ~Good(r) /\ Set(r, Again(r)) /\ UNCHANGED events
    /\ UNCHANGED <<clash, trunk, branch, prs, work, image>>

-----------------------------------------------------------------------------
(* The tools of fix-implementer *)

\* ws_write_file_sandboxed: refused, unreachable, or written where this process cannot see it.
WriteFile(r) ==
    /\ Calls(r, {"ws_write_file"}) /\ Prepared(r) /\ work[r].work < MaxWrites
    /\ \/ /\ work' = [work EXCEPT ![r].work = @ + 1]
          /\ Set(r, [job[r] EXCEPT !.rows = IF @ = "exec" THEN @ ELSE "write"])
          /\ UNCHANGED events
       \/ Event /\ Set(r, [Failed(r) EXCEPT !.rows = IF @ = "none" THEN "error" ELSE @]) /\ UNCHANGED work
    /\ UNCHANGED <<clash, trunk, branch, prs, ledger, image>>

\* A command of the sandbox may change files or not.
Exec(r) ==
    /\ Calls(r, SandboxExec) /\ Prepared(r)
    /\ \/ work[r].work < MaxWrites /\ work' = [work EXCEPT ![r].work = @ + 1]
       \/ UNCHANGED work
    /\ Set(r, [job[r] EXCEPT !.rows = "exec"])
    /\ UNCHANGED <<clash, trunk, branch, prs, ledger, image, events>>

\* ws_git add and commit, by fix-implementer or committer.
GitCommit(r) ==
    /\ Calls(r, {"ws_git"}) /\ Prepared(r)
    /\ work[r].head # work[r].work
    /\ work' = [work EXCEPT ![r].head = work[r].work]
    /\ UNCHANGED <<clash, trunk, branch, prs, job, ledger, image, events>>

\* A push of the current branch, which is the trunk itself when the checkout failed.  The remote
\* takes only what its head is an ancestor of.
Pushable(r) ==
    CASE work[r].git = "branch" -> branch[r] # Foreign
      [] work[r].git = "trunk" -> Tip.tree \in {work[r].base, HeadTree(r)}
      [] OTHER -> FALSE

PushCurrent(r) ==
    /\ Pushable(r)
    /\ IF work[r].git = "trunk"
       THEN /\ trunk' = IF Tip.tree = HeadTree(r) THEN trunk
                        ELSE Append(trunk, [tree |-> HeadTree(r), run |-> {r}, how |-> "push"])
            /\ UNCHANGED branch
       ELSE branch' = [branch EXCEPT ![r] = work[r].head] /\ UNCHANGED trunk
    /\ image' = image \o [i \in 1..(Len(trunk') - Len(trunk)) |-> NoTree]

\* ws_git push of it, without force, by committer: fix-implementer is told to take the diff.
GitPush(r) ==
    /\ At(r, "commit", "agent")
    /\ PushCurrent(r)
    /\ UNCHANGED <<clash, prs, work, job, ledger, events>>

-----------------------------------------------------------------------------
(* ws_open_pr *)

\* The guards before the push: a workspace, and a branch.
OpenPr(r) ==
    /\ Calls(r, {"ws_open_pr"})
    /\ Set(r, [job[r] EXCEPT !.called = TRUE,
                             !.pc = IF work[r].git \in {"trunk", "branch"} THEN "push" ELSE "agent"])
    /\ UNCHANGED <<clash, trunk, branch, prs, work, ledger, image, events>>

Push(r) ==
    /\ At(r, "commit", "push")
    /\ \/ /\ ~Pushable(r) /\ Set(r, ToAgent(r)) /\ UNCHANGED <<trunk, branch, image, events>>
       \/ /\ Pushable(r) /\ Set(r, Failed(r)) /\ Event /\ UNCHANGED <<trunk, branch, image>>
       \/ /\ PushCurrent(r)
          /\ \/ Set(r, [job[r] EXCEPT !.pc = "list"]) /\ UNCHANGED events
             \/ Set(r, Failed(r)) /\ Event
    /\ UNCHANGED <<clash, prs, work, ledger>>

OpenPrsOf(r) == {p \in 1..Len(prs) : prs[p].run = r /\ prs[p].state = "OPEN"}

\* A failed list passes for an empty one.
ListPr(r) ==
    /\ At(r, "commit", "list")
    /\ \/ /\ OpenPrsOf(r) # {} /\ UNCHANGED events
          /\ \E p \in OpenPrsOf(r) : Set(r, [ToAgent(r) EXCEPT !.ok = TRUE, !.pr = p])
       \/ /\ IF OpenPrsOf(r) # {} THEN Event ELSE UNCHANGED events
          /\ Set(r, [job[r] EXCEPT !.pc = "create", !.calm = @ /\ OpenPrsOf(r) = {}])
    /\ UNCHANGED <<clash, trunk, branch, prs, work, ledger, image>>

\* The remote takes no second PR for a branch, and none without commits.
Creatable(r) == /\ work[r].git = "branch" /\ branch[r] \notin {0, Unborn}
                /\ \A p \in 1..Len(prs) : prs[p].run = r => prs[p].state # "OPEN"

CreatePr(r) ==
    /\ At(r, "commit", "create")
    /\ \/ /\ ~Creatable(r) /\ UNCHANGED <<prs, events>>
          /\ Set(r, [ToAgent(r) EXCEPT !.calm = @ /\ branch[r] # 0])
       \/ Creatable(r) /\ Event /\ Set(r, Failed(r)) /\ UNCHANGED prs
       \/ /\ Creatable(r)
          /\ prs' = Append(prs, [run |-> r, state |-> "OPEN", commit |-> 0])
          /\ \/ Set(r, [ToAgent(r) EXCEPT !.ok = TRUE, !.pr = Len(prs) + 1]) /\ UNCHANGED events
             \/ Set(r, Failed(r)) /\ Event
    /\ UNCHANGED <<clash, trunk, branch, work, ledger, image>>

-----------------------------------------------------------------------------
(* ws_merge_pr *)

Conflicts(r) == clash /\ \E q \in Run \ {r} : Tip.tree[q] # work[r].base[q]

\* The squash of a branch on the trunk.
Squash(r, how) ==
    /\ trunk' = Append(trunk, [tree |-> [Tip.tree EXCEPT ![r] = branch[r]], run |-> {r}, how |-> how])
    /\ image' = Append(image, NoTree)

\* Mutant: what is already merged is not open, and an error.
MergedNever(p) == FALSE

Merged(p) == prs[p].state = "MERGED"

\* Mutant: the head of the PR may be any commit.
MergeableAnyHead(r, p) ==
    prs[p].state = "OPEN" /\ work[r].git = "branch" /\ ~Conflicts(r)

\* The checks: the PR is open, its head is the commit at hand, it does not conflict.
Mergeable(r, p) ==
    /\ prs[p].state = "OPEN" /\ work[r].git = "branch"
    /\ branch[r] = work[r].head
    /\ ~Conflicts(r)

ViewPr(r) ==
    /\ Calls(r, {"ws_merge_pr"})
    /\ LET p == job[r].pr
           j == [job[r] EXCEPT !.called = TRUE]
       IN \/ Event /\ Set(r, [j EXCEPT !.calm = FALSE])
          \/ /\ UNCHANGED events
             /\ Set(r, CASE Merged(p) -> [j EXCEPT !.ok = TRUE, !.commit = prs[p].commit]
                         [] Mergeable(r, p) -> [j EXCEPT !.pc = "put"]
                         [] OTHER -> j)
    /\ UNCHANGED <<clash, trunk, branch, prs, work, ledger, image>>

\* The merge itself compares nothing and names no commit: the remote refuses what is not open, or
\* conflicts by now, and merges what the branch is by now.
PutMerge(r) ==
    /\ At(r, "merge", "put")
    /\ LET p == job[r].pr
           can == prs[p].state = "OPEN" /\ ~Conflicts(r)
       IN \/ /\ IF can THEN Event ELSE UNCHANGED events
             /\ Set(r, Failed(r)) /\ UNCHANGED <<trunk, prs, image>>
          \/ /\ can /\ Squash(r, IF job[r].pushed THEN "overtaken" ELSE "tool")
             /\ prs' = [prs EXCEPT ![p].state = "MERGED", ![p].commit = Len(trunk) + 1]
             /\ \/ Set(r, [ToAgent(r) EXCEPT !.ok = TRUE, !.commit = Len(trunk) + 1]) /\ UNCHANGED events
                \/ Set(r, Failed(r)) /\ Event
    /\ UNCHANGED <<clash, branch, work, ledger>>

-----------------------------------------------------------------------------
(* ws_build_artifact and ws_build_image *)

\* Mutant: the trees are not compared.
SameTreeAssumed(r) == TRUE

\* _assert_tree_matches_trunk: the tree of HEAD.
SameTree(r) == Prepared(r) /\ HeadTree(r) = trunk[job[r].commit].tree

\* The command builds the files as they are.  It cleans first; a failure leaves no jar behind.
BuildArtifact(r) ==
    /\ Calls(r, {"ws_build_artifact"})
    /\ \/ ~SameTree(r) /\ UNCHANGED <<work, job, events>>
       \/ /\ SameTree(r) /\ UNCHANGED events
          /\ work' = [work EXCEPT ![r].jar = WorkTree(r)]
          /\ Set(r, [job[r] EXCEPT !.built = TRUE])
       \/ Event /\ SameTree(r) /\ work' = [work EXCEPT ![r].jar = NoTree]
          /\ Set(r, [Failed(r) EXCEPT !.built = FALSE])
    /\ UNCHANGED <<clash, trunk, branch, prs, ledger, image>>

\* Any jar will do, but the agent follows its instructions and calls this once the artifact is
\* built; the tag names the commit.
BuildImage(r) ==
    /\ Calls(r, {"ws_build_image"}) /\ job[r].built
    /\ LET named == [image EXCEPT ![job[r].commit] = work[r].jar]
           j == [job[r] EXCEPT !.called = TRUE]
       IN \/ Set(r, [j EXCEPT !.ok = TRUE]) /\ image' = named /\ UNCHANGED events
          \/ Set(r, [j EXCEPT !.calm = FALSE]) /\ image' \in {image, named} /\ Event
    /\ UNCHANGED <<clash, trunk, branch, prs, work, ledger>>

-----------------------------------------------------------------------------
(* A person at the remote *)

Disturb(r) == [job EXCEPT ![r].calm = @ /\ job[r].pc = "idle"]

MergeByHand(p) ==
    /\ prs[p].state = "OPEN" /\ ~Conflicts(prs[p].run) /\ Event
    /\ Squash(prs[p].run, "hand")
    /\ prs' = [prs EXCEPT ![p].state = "MERGED", ![p].commit = Len(trunk) + 1]
    /\ job' = Disturb(prs[p].run)
    /\ UNCHANGED <<clash, branch, work, ledger>>

CloseByHand(p) ==
    /\ prs[p].state = "OPEN" /\ Event
    /\ prs' = [prs EXCEPT ![p].state = "CLOSED"]
    /\ job' = Disturb(prs[p].run)
    /\ UNCHANGED <<clash, trunk, branch, work, ledger, image>>

\* A commit of somebody else on top of the branch.
PushByHand(r) ==
    /\ branch[r] \in Version /\ Event
    /\ branch' = [branch EXCEPT ![r] = Foreign]
    /\ job' = [Disturb(r) EXCEPT ![r].pushed = job[r].pc = "put"]
    /\ UNCHANGED <<clash, trunk, prs, work, ledger, image>>

Step(r) ==
    \/ Prepare(r) \/ Begin(r) \/ Reuse(r) \/ Break(r) \/ EndFix(r) \/ Test(r) \/ End(r)
    \/ WriteFile(r) \/ Exec(r) \/ GitCommit(r) \/ GitPush(r)
    \/ OpenPr(r) \/ Push(r) \/ ListPr(r) \/ CreatePr(r) \/ ViewPr(r) \/ PutMerge(r)
    \/ BuildArtifact(r) \/ BuildImage(r)

Next ==
    \/ \E r \in Run : Step(r) \/ PushByHand(r)
    \/ \E p \in 1..Len(prs) : MergeByHand(p) \/ CloseByHand(p)

Spec == Init /\ [][Next]_vars

-----------------------------------------------------------------------------
(* Properties *)

\* What a run merges is the commit in its own workspace, although the merge names none: no earlier
\* attempt, other run, late commit or push to its branch puts anything else of it on the trunk --
\* but for a push of somebody else between the check of the head and the merge.
MergedIsHead ==
    \A i \in 1..Len(trunk) : \A r \in trunk[i].run :
        trunk[i].how = "tool" => trunk[i].tree[r] = work[r].head /\ trunk[i].tree[r] # 0

\* The image that a run releases is the tree of the trunk commit in its tag, whatever other runs
\* put on the trunk and whatever jars were left behind, unless files were left uncommitted.
ReleasedIsTrunk ==
    \A r \in Run : job[r].stage = "released" =>
        \/ image[job[r].commit] = trunk[job[r].commit].tree
        \/ work[r].work # work[r].head

\* A fix that says it changed files, and is judged, has changed them where this process sees it.
FixIsReal ==
    \A r \in Run : job[r].stage = "test" /\ job[r].claim =>
        work[r].work # 0 \/ job[r].rows \in {"none", "exec"}

\* What stands in the way of a node: no checkout, a branch that somebody else
\* has taken, a PR that conflicts, was closed, or is not of this commit, a trunk that went on.
Hindered(r) ==
    CASE job[r].stage = "commit" -> work[r].git # "branch" \/ branch[r] = Foreign
      [] job[r].stage = "merge" -> LET p == job[r].pr IN prs[p].state # "MERGED" /\ ~Mergeable(r, p)
      [] job[r].stage = "ci" -> ~SameTree(r)
      [] OTHER -> FALSE

\* An attempt that is not disturbed and makes the call it promises succeeds, after whatever earlier
\* attempts did or lost the answer of, a push, a PR, or a merge, unless something is in its way.
RetriesSucceed ==
    [][\A r \in Run : /\ job[r].pc = "agent" /\ job'[r].pc = "idle" /\ events' = events
                      /\ job[r].stage \in Nodes \ {"fix"}
                      /\ job[r].called /\ job[r].calm
                      => job'[r].stage # job[r].stage \/ Hindered(r)]_vars
=============================================================================
