---------------------------- MODULE ReleaseProofs ----------------------------
(***************************************************************************)
(* Proofs about Release, for every set of runs, any number of versions,    *)
(* failures and interventions at the remote.                               *)
(***************************************************************************)
EXTENDS Release, TLAPS

-----------------------------------------------------------------------------
(* Types *)

Tree == [Run -> 0..Foreign]

Commit == [tree : Tree, run : SUBSET Run, how : {"before", "push", "tool", "overtaken", "hand"}]

PullRequest == [run : Run, state : {"OPEN", "MERGED", "CLOSED"}, commit : Nat]

Workspace == [git : {"absent", "trunk", "detached", "branch"}, base : Tree,
              head : Version, work : Version, jar : Tree]

Stages == Nodes \cup {"prepare", "test", "released"}

Places == {"idle", "agent", "push", "list", "create", "put"}

Job == [stage : Stages, pc : Places, calm : BOOLEAN, called : BOOLEAN, ok : BOOLEAN,
        built : BOOLEAN, pr : Nat, commit : Nat, rows : {"none", "error", "write", "exec"},
        claim : BOOLEAN, pushed : BOOLEAN]

Record == [verdict : {"none", "good", "bad"}, pr : Nat, commit : Nat]

TypeOK ==
    /\ trunk \in Seq(Commit) /\ Len(trunk) # 0
    /\ image \in Seq(Tree) /\ Len(image) = Len(trunk)
    /\ branch \in [Run -> 0..Foreign]
    /\ prs \in Seq(PullRequest)
    /\ work \in [Run -> Workspace]
    /\ job \in [Run -> Job]
    /\ ledger \in [Run -> [Keyed -> Record]]

-----------------------------------------------------------------------------
(* The inductive invariant *)

\* An agent is only at work in a node, has what the node requires, and where its tool has stopped
\* belongs to that node.  An attempt that has not begun has not succeeded with a call.
InNode(r) ==
    /\ job[r].pc # "idle" => job[r].stage \in Nodes /\ Required(r)
    /\ job[r].pc \in {"push", "list", "create"} => job[r].stage = "commit"
    /\ job[r].pc = "put" => job[r].stage = "merge"
    /\ job[r].pc = "idle" => ~job[r].ok /\ ~job[r].built
    /\ job[r].stage = "released" => job[r].commit # 0

PrOf(p, r) == p \in 1..Len(prs) /\ prs[p].run = r

CommitOf(c, r) == c \in 1..Len(trunk) /\ trunk[c].run = {r}

\* The PR and the commit that a run knows, from a tool or from the ledger, are its own.
KnowsItsOwn(r) ==
    /\ job[r].pr # 0 => PrOf(job[r].pr, r)
    /\ job[r].commit # 0 => CommitOf(job[r].commit, r)
    /\ \A k \in Keyed : /\ ledger[r][k].pr # 0 => PrOf(ledger[r][k].pr, r)
                        /\ ledger[r][k].commit # 0 => CommitOf(ledger[r][k].commit, r)

\* Versions only go up: the remote head follows the commit, the commit follows the files.  Foreign
\* is above them all.
InOrder(r) ==
    /\ work[r].head <= work[r].work
    /\ branch[r] \in Version => branch[r] <= work[r].head

\* Nothing is committed or pushed in the node that merges, but by a person, and that is noted.
MergesHead(r) == At(r, "merge", "put") => branch[r] = work[r].head \/ job[r].pushed

\* What ci has built is the trunk commit, but for files that are not committed.
OfTrunk(r, tree) == tree = WorkTree(r) /\ HeadTree(r) = trunk[job[r].commit].tree

BuiltOfTrunk(r) ==
    /\ job[r].stage = "ci" /\ job[r].built => OfTrunk(r, work[r].jar)
    /\ job[r].stage = "ci" /\ job[r].ok => OfTrunk(r, image[job[r].commit])
    /\ job[r].stage = "released" => OfTrunk(r, image[job[r].commit])

\* A row of a write is there when something was written.
RowsAreReal(r) == job[r].rows = "write" => work[r].work # 0

RunInv(r) ==
    /\ InNode(r) /\ KnowsItsOwn(r) /\ InOrder(r) /\ MergesHead(r) /\ BuiltOfTrunk(r)
    /\ RowsAreReal(r)

Changed == (1..MaxWrites) \cup {Foreign}

\* A PR is of a branch with a change, and its merge is a commit of its run.
PrsInv ==
    \A p \in 1..Len(prs) :
        /\ branch[prs[p].run] \in Changed
        /\ prs[p].state = "MERGED" => CommitOf(prs[p].commit, prs[p].run)

\* A run that has merged does not commit any more.
MergeInv ==
    \A i \in 1..Len(trunk) : \A r \in trunk[i].run :
        trunk[i].how = "tool" =>
            /\ job[r].stage \in {"merge", "ci", "released"}
            /\ trunk[i].tree[r] = work[r].head /\ trunk[i].tree[r] # 0

IInv == TypeOK /\ (\A r \in Run : RunInv(r)) /\ PrsInv /\ MergeInv

-----------------------------------------------------------------------------
(* What the parts of a state are *)

Late == {"merge", "ci", "released"}

LEMMA Typed ==
    ASSUME TypeOK
    PROVE  /\ Len(trunk) \in Nat \ {0} /\ \A i \in 1..Len(trunk) : trunk[i] \in Commit
           /\ \A i \in 1..Len(image) : image[i] \in Tree
           /\ Len(prs) \in Nat /\ \A p \in 1..Len(prs) : prs[p] \in PullRequest
           /\ Tip \in Commit /\ NoTree \in Tree /\ 0 \in 0..Foreign
<1>1. Len(trunk) \in Nat \ {0} /\ \A i \in 1..Len(trunk) : trunk[i] \in Commit
  BY DEF TypeOK
<1>2. \A i \in 1..Len(image) : image[i] \in Tree
  BY DEF TypeOK
<1>3. Len(prs) \in Nat /\ \A p \in 1..Len(prs) : prs[p] \in PullRequest
  BY DEF TypeOK
<1>4. Tip \in Commit
  BY <1>1 DEF Tip
<1>5. NoTree \in Tree /\ 0 \in 0..Foreign
  BY BoundsAssumption DEF NoTree, Tree, Unborn, Foreign
<1> QED
  BY <1>1, <1>2, <1>3, <1>4, <1>5

\* Each tool is given to the agents of some nodes.
LEMMA CallsInNode ==
    ASSUME NEW r \in Run, InNode(r)
    PROVE  /\ Calls(r, {"ws_write_file"}) \/ Calls(r, SandboxExec) => job[r].stage = "fix"
           /\ Calls(r, {"ws_git"}) => job[r].stage \in {"fix", "commit"}
           /\ Calls(r, {"ws_open_pr"}) => job[r].stage = "commit"
           /\ Calls(r, {"ws_merge_pr"}) => job[r].stage = "merge" /\ job[r].pr # 0
           /\ Calls(r, {"ws_build_artifact"}) \/ Calls(r, {"ws_build_image"}) =>
                 job[r].stage = "ci" /\ job[r].commit # 0
<1>1. job[r].pc = "agent" => job[r].stage \in Nodes /\ Required(r)
  BY DEF InNode
<1> QED
  BY <1>1 DEF Calls, ToolsOf, SandboxExec, Nodes, Required

LEMMA JobEdits ==
    ASSUME NEW j \in Job
    PROVE  /\ \A pc \in Places : [j EXCEPT !.pc = pc] \in Job
           /\ \A v \in BOOLEAN : [j EXCEPT !.calm = v] \in Job
           /\ \A v \in {"none", "error", "write", "exec"} : [j EXCEPT !.rows = v] \in Job
BY DEF Job

\* An attempt is over: its node goes on to the next, or is still to do.
IdleAs(j, r, stage) ==
    /\ j \in Job /\ j.stage = stage /\ j.pc = "idle" /\ ~j.ok /\ ~j.built
    /\ j.pr = job[r].pr /\ j.commit = job[r].commit
    /\ j.rows \in {"none", job[r].rows}

LEMMA AgainIs ==
    ASSUME TypeOK, NEW r \in Run
    PROVE  IdleAs(Again(r), r, job[r].stage)
<1>1. job[r] \in Job
  BY DEF TypeOK
<1> QED
  BY <1>1 DEF IdleAs, Again, Fresh, Job, Places

NextStage == [fix |-> "test", test |-> "commit", commit |-> "merge", merge |-> "ci", ci |-> "released"]

LEMMA AdvanceIs ==
    ASSUME TypeOK, NEW r \in Run, NEW claim \in BOOLEAN, job[r].stage \in DOMAIN NextStage
    PROVE  /\ IdleAs(Advance(r, claim), r, NextStage[job[r].stage])
           /\ Advance(r, claim).claim = claim
           /\ Advance(r, claim).rows = IF claim THEN job[r].rows ELSE "none"
<1> DEFINE rows == IF claim THEN job[r].rows ELSE "none"
           stage == NextStage[job[r].stage]
<1>1. job[r] \in Job
  BY DEF TypeOK
<1>2. stage \in Stages
  BY DEF NextStage, Stages, Nodes
<1>3. rows \in {"none", job[r].rows} /\ rows \in {"none", "error", "write", "exec"}
  BY <1>1 DEF Job
<1>4. Advance(r, claim) = [Fresh EXCEPT !.stage = stage, !.pr = job[r].pr, !.commit = job[r].commit,
                                        !.claim = claim, !.rows = rows]
  BY DEF Advance, NextStage
<1> HIDE DEF rows, stage
<1>5. /\ IdleAs(Advance(r, claim), r, stage)
      /\ Advance(r, claim).claim = claim /\ Advance(r, claim).rows = rows
  BY <1>1, <1>2, <1>3, <1>4 DEF IdleAs, Fresh, Job, Places
<1> QED
  BY <1>5 DEF rows, stage

-----------------------------------------------------------------------------
(* Steps that stay within a run *)

LEMMA LocalKeeps ==
    ASSUME IInv, NEW r \in Run,
           job' \in [Run -> Job], work' \in [Run -> Workspace],
           ledger' \in [Run -> [Keyed -> Record]],
           \A q \in Run : q # r => job'[q] = job[q] /\ work'[q] = work[q] /\ ledger'[q] = ledger[q],
           UNCHANGED <<trunk, branch, prs, image>>,
           RunInv(r)',
           job[r].stage \in Late => job'[r].stage \in Late /\ work'[r].head = work[r].head
    PROVE  IInv'
<1>1. TypeOK'
  BY DEF IInv, TypeOK
<1>2. ASSUME NEW q \in Run
      PROVE  RunInv(q)'
  <2>1. CASE q = r
    BY <2>1
  <2>2. CASE q # r
    <3>1. job'[q] = job[q] /\ work'[q] = work[q] /\ ledger'[q] = ledger[q] /\ RunInv(q)
      BY <2>2 DEF IInv
    <3>2. InNode(q)' /\ InOrder(q)' /\ MergesHead(q)' /\ RowsAreReal(q)'
      BY <3>1 DEF RunInv, InNode, Required, InOrder, MergesHead, At, RowsAreReal
    <3>3. KnowsItsOwn(q)'
      BY <3>1 DEF RunInv, KnowsItsOwn, PrOf, CommitOf
    <3>4. BuiltOfTrunk(q)'
      BY <3>1 DEF RunInv, BuiltOfTrunk, OfTrunk, WorkTree, HeadTree
    <3> QED
      BY <3>2, <3>3, <3>4 DEF RunInv
  <2> QED
    BY <2>1, <2>2
<1>3. PrsInv'
  BY DEF IInv, PrsInv, CommitOf
<1>4. MergeInv'
  <2> SUFFICES ASSUME NEW i \in 1..Len(trunk), NEW q \in trunk[i].run, trunk[i].how = "tool"
               PROVE  /\ job'[q].stage \in Late
                      /\ trunk[i].tree[q] = work'[q].head /\ trunk[i].tree[q] # 0
    BY DEF MergeInv, Late
  <2>1. /\ job[q].stage \in Late
        /\ trunk[i].tree[q] = work[q].head /\ trunk[i].tree[q] # 0
    BY DEF IInv, MergeInv, Late
  <2>2. q \in Run
    BY Typed DEF IInv, Commit
  <2> QED
    BY <2>1, <2>2
<1> QED
  BY <1>1, <1>2, <1>3, <1>4 DEF IInv

\* What goes on record is what the run knows.
LedgerFrom(r) ==
    /\ ledger' \in [Run -> [Keyed -> Record]]
    /\ \A q \in Run : q # r => ledger'[q] = ledger[q]
    /\ \A k \in Keyed :
          \/ ledger'[r][k] = ledger[r][k]
          \/ ledger'[r][k].pr = job[r].pr /\ ledger'[r][k].commit = job[r].commit

LEMMA SameLedger == ASSUME IInv, NEW r \in Run, UNCHANGED ledger PROVE LedgerFrom(r)
<1>1. ledger \in [Run -> [Keyed -> Record]]
  BY DEF IInv, TypeOK
<1> QED
  BY <1>1 DEF LedgerFrom

\* A step of the agent, or of the node, that leaves the files as they are.
LEMMA JobKeeps ==
    ASSUME IInv, NEW r \in Run, NEW j \in Job, Set(r, j),
           UNCHANGED <<trunk, branch, prs, work, image>>, LedgerFrom(r),
           InNode(r)', MergesHead(r)', BuiltOfTrunk(r)',
           j.pr # 0 => PrOf(j.pr, r), j.commit # 0 => CommitOf(j.commit, r),
           j.rows = "write" => job[r].rows = "write",
           job[r].stage \in Late => j.stage \in Late
    PROVE  IInv'
<1>1. /\ job' \in [Run -> Job] /\ job'[r] = j
      /\ \A q \in Run : q # r => job'[q] = job[q]
  BY DEF IInv, TypeOK, Set
<1>2. RunInv(r)
  BY DEF IInv
<1>3. KnowsItsOwn(r)'
  BY <1>1, <1>2 DEF RunInv, KnowsItsOwn, PrOf, CommitOf, LedgerFrom
<1>4. InOrder(r)' /\ RowsAreReal(r)'
  BY <1>1, <1>2 DEF RunInv, InOrder, RowsAreReal
<1>5. RunInv(r)'
  BY <1>3, <1>4 DEF RunInv
<1> QED
  BY <1>1, <1>5, LocalKeeps DEF IInv, TypeOK, LedgerFrom

\* An attempt that is over.
LEMMA OverKeeps ==
    ASSUME IInv, NEW r \in Run, NEW j, NEW stage \in Stages, IdleAs(j, r, stage), Set(r, j),
           UNCHANGED <<trunk, branch, prs, work, image>>, LedgerFrom(r),
           stage = "released" =>
              job[r].stage = "ci" /\ job[r].ok /\ job[r].commit # 0,
           job[r].stage \in Late => stage \in Late
    PROVE  IInv'
<1>1. j \in Job /\ job'[r] = j
  BY DEF IdleAs, IInv, TypeOK, Set
<1>2. KnowsItsOwn(r) /\ BuiltOfTrunk(r)
  BY DEF IInv, RunInv
<1>3. InNode(r)' /\ MergesHead(r)'
  BY <1>1 DEF IdleAs, InNode, MergesHead, At
<1>4. BuiltOfTrunk(r)'
  <2>1. CASE stage = "released"
    <3>1. OfTrunk(r, image[job[r].commit])
      BY <1>2, <2>1 DEF BuiltOfTrunk
    <3>2. job'[r].commit = job[r].commit /\ job'[r].stage = "released"
      BY <1>1, <2>1 DEF IdleAs
    <3> QED
      BY <3>1, <3>2 DEF BuiltOfTrunk, OfTrunk, WorkTree, HeadTree
  <2>2. CASE stage # "released"
    BY <1>1, <2>2 DEF IdleAs, BuiltOfTrunk
  <2> QED
    BY <2>1, <2>2
<1>5. /\ j.pr # 0 => PrOf(j.pr, r)
      /\ j.commit # 0 => CommitOf(j.commit, r)
      /\ j.rows = "write" => job[r].rows = "write"
      /\ job[r].stage \in Late => j.stage \in Late
  BY <1>2 DEF IdleAs, KnowsItsOwn
<1> QED
  BY <1>1, <1>3, <1>4, <1>5, JobKeeps

LEMMA BeginKeeps ==
    ASSUME IInv, NEW r \in Run, Begin(r)
    PROVE  IInv'
<1>1. /\ job[r] \in Job /\ job[r].stage \in Nodes /\ job[r].pc = "idle" /\ Required(r)
      /\ Set(r, ToAgent(r)) /\ UNCHANGED <<trunk, branch, prs, work, ledger, image>>
  BY DEF Begin, IInv, TypeOK
<1> DEFINE j == ToAgent(r)
<1>2. /\ j \in Job /\ j.pc = "agent" /\ j.stage = job[r].stage /\ j.ok = job[r].ok
      /\ j.built = job[r].built /\ j.pr = job[r].pr /\ j.commit = job[r].commit
      /\ j.rows = job[r].rows
  BY <1>1 DEF ToAgent, Job, Places
<1>3. job'[r] = j
  BY <1>1 DEF Set, IInv, TypeOK
<1> HIDE DEF j
<1>4. InNode(r) /\ KnowsItsOwn(r) /\ BuiltOfTrunk(r)
  BY DEF IInv, RunInv
<1>5. InNode(r)' /\ MergesHead(r)'
  BY <1>1, <1>2, <1>3 DEF InNode, Required, Nodes, MergesHead, At
<1>6. BuiltOfTrunk(r)'
  BY <1>1, <1>2, <1>3, <1>4 DEF BuiltOfTrunk, InNode, Nodes
<1>7. /\ j.pr # 0 => PrOf(j.pr, r)
      /\ j.commit # 0 => CommitOf(j.commit, r)
  BY <1>2, <1>4 DEF KnowsItsOwn
<1> QED
  BY <1>1, <1>2, <1>5, <1>6, <1>7, JobKeeps, SameLedger DEF j

\* What the ledger has, the run has got before.
LEMMA ReuseKeeps ==
    ASSUME IInv, NEW r \in Run, Reuse(r)
    PROVE  IInv'
<1> DEFINE a == Advance(r, FALSE)
           out == Recorded(r)
           j == IF job[r].stage = "commit" THEN [a EXCEPT !.pr = out.pr]
                ELSE [a EXCEPT !.commit = out.commit]
<1>1. /\ job[r].pc = "idle" /\ out.verdict = "good" /\ Set(r, j)
      /\ UNCHANGED <<trunk, branch, prs, work, ledger, image>>
  BY DEF Reuse
<1>2. job[r].stage \in Keyed /\ out = ledger[r][job[r].stage]
  BY <1>1 DEF Recorded, NotRecorded
<1>3. /\ out \in Record /\ KnowsItsOwn(r)
      /\ out.pr # 0 => PrOf(out.pr, r)
      /\ out.commit # 0 => CommitOf(out.commit, r)
  BY <1>2 DEF IInv, RunInv, TypeOK, KnowsItsOwn
<1>4. /\ IdleAs(a, r, NextStage[job[r].stage])
      /\ NextStage[job[r].stage] = IF job[r].stage = "commit" THEN "merge" ELSE "ci"
  <2>1. TypeOK /\ job[r].stage \in DOMAIN NextStage
    BY <1>2 DEF IInv, Keyed, NextStage
  <2>2. IdleAs(a, r, NextStage[job[r].stage])
    BY <2>1, AdvanceIs, Zenon
  <2>3. NextStage[job[r].stage] = IF job[r].stage = "commit" THEN "merge" ELSE "ci"
    BY <1>2 DEF Keyed, NextStage
  <2> QED
    BY <2>2, <2>3
<1> HIDE DEF a, out
<1>5. /\ j \in Job /\ j.pc = "idle" /\ ~j.ok /\ ~j.built /\ j.rows \in {"none", job[r].rows}
      /\ j.stage = NextStage[job[r].stage]
      /\ j.pr \in {out.pr, job[r].pr} /\ j.commit \in {out.commit, job[r].commit}
  BY <1>3, <1>4 DEF IdleAs, Job, Record
<1>6. job'[r] = j
  BY <1>1 DEF Set, IInv, TypeOK
<1> HIDE DEF j
<1>7. InNode(r)' /\ MergesHead(r)' /\ BuiltOfTrunk(r)'
  BY <1>4, <1>5, <1>6 DEF InNode, MergesHead, At, BuiltOfTrunk
<1>8. /\ j.pr # 0 => PrOf(j.pr, r)
      /\ j.commit # 0 => CommitOf(j.commit, r)
  BY <1>3, <1>5 DEF KnowsItsOwn
<1>9. j.rows = "write" => job[r].rows = "write"
  BY <1>5
<1>10. j.stage \in Late
  BY <1>4, <1>5 DEF Late
<1> QED
  BY <1>1, <1>5, <1>7, <1>8, <1>9, <1>10, JobKeeps, SameLedger DEF j

LEMMA BreakKeeps ==
    ASSUME IInv, NEW r \in Run, Break(r)
    PROVE  IInv'
<1>1. /\ Set(r, Again(r)) /\ UNCHANGED <<trunk, branch, prs, work, ledger, image>>
      /\ job[r].stage \in Stages /\ job[r].stage # "released"
  BY DEF Break, IInv, RunInv, InNode, TypeOK, Job, Nodes
<1> QED
  BY <1>1, AgainIs, OverKeeps, SameLedger DEF IInv

LEMMA EndFixKeeps ==
    ASSUME IInv, NEW r \in Run, EndFix(r)
    PROVE  IInv'
<1>1. job[r].stage = "fix" /\ UNCHANGED <<trunk, branch, prs, work, ledger, image>>
  BY DEF EndFix, At
<1>2. PICK claim \in BOOLEAN : Set(r, Advance(r, claim)) \/ Set(r, Again(r))
  BY DEF EndFix
<1>3. IdleAs(Again(r), r, "fix") /\ IdleAs(Advance(r, claim), r, "test")
  BY <1>1, AgainIs, AdvanceIs DEF IInv, NextStage
<1>4. "fix" \in Stages /\ "test" \in Stages /\ job[r].stage \notin Late
  BY <1>1 DEF Stages, Nodes, Late
<1> QED
  BY <1>1, <1>2, <1>3, <1>4, OverKeeps, SameLedger

LEMMA TestKeeps ==
    ASSUME IInv, NEW r \in Run, Test(r)
    PROVE  IInv'
<1>1. /\ job[r].stage = "test" /\ UNCHANGED <<trunk, branch, prs, work, ledger, image>>
      /\ Set(r, Advance(r, FALSE))
  BY DEF Test, At
<1>2. IdleAs(Advance(r, FALSE), r, "commit")
  <2>1. TypeOK /\ job[r].stage \in DOMAIN NextStage
    BY <1>1 DEF IInv, NextStage
  <2>2. IdleAs(Advance(r, FALSE), r, NextStage[job[r].stage])
    BY <2>1, AdvanceIs, Zenon
  <2>3. NextStage[job[r].stage] = "commit"
    BY <1>1 DEF NextStage
  <2> QED
    BY <1>1, <2>2, <2>3, Zenon
<1>3. "commit" \in Stages /\ job[r].stage \notin Late
  BY <1>1 DEF Stages, Nodes, Late
<1> QED
  BY <1>1, <1>2, <1>3, OverKeeps, SameLedger

LEMMA EndKeeps ==
    ASSUME IInv, NEW r \in Run, End(r)
    PROVE  IInv'
<1>1. /\ job[r].stage \in {"commit", "merge", "ci"} /\ job[r].pc = "agent"
      /\ UNCHANGED <<trunk, branch, prs, work, image>>
      /\ Set(r, Again(r)) \/ (Good(r) /\ Set(r, Advance(r, FALSE)))
  BY DEF End
<1>2. LedgerFrom(r)
  <2> DEFINE verdict == IF Good(r) THEN "good" ELSE "bad"
             rec == [verdict |-> verdict, pr |-> job[r].pr, commit |-> job[r].commit]
  <2>1. job[r] \in Job /\ ledger \in [Run -> [Keyed -> Record]]
    BY DEF IInv, TypeOK
  <2>2. ledger' = IF job[r].stage \in Keyed THEN [ledger EXCEPT ![r][job[r].stage] = rec] ELSE ledger
    BY DEF End
  <2>3. verdict \in {"none", "good", "bad"}
    OBVIOUS
  <2> HIDE DEF verdict
  <2>4. rec \in Record /\ rec.pr = job[r].pr /\ rec.commit = job[r].commit
    BY <2>1, <2>3 DEF Record, Job
  <2> HIDE DEF rec
  <2>5. CASE job[r].stage \in Keyed
    <3>1. ledger' = [ledger EXCEPT ![r] = [ledger[r] EXCEPT ![job[r].stage] = rec]]
      BY <2>2, <2>5
    <3>2. [ledger[r] EXCEPT ![job[r].stage] = rec] \in [Keyed -> Record]
      BY <2>1, <2>4
    <3>3. ledger'[r] = [ledger[r] EXCEPT ![job[r].stage] = rec]
      BY <2>1, <3>1
    <3>4. \A k \in Keyed : ledger'[r][k] = ledger[r][k] \/ ledger'[r][k] = rec
      BY <2>1, <3>3
    <3> QED
      BY <2>1, <2>4, <3>1, <3>2, <3>4 DEF LedgerFrom
  <2>6. CASE job[r].stage \notin Keyed
    BY <2>2, <2>6, SameLedger
  <2> QED
    BY <2>5, <2>6
<1>3. IdleAs(Again(r), r, job[r].stage) /\ job[r].stage \in Stages
  BY <1>1, AgainIs DEF IInv, Stages, Nodes
<1>4. CASE Set(r, Again(r))
  BY <1>1, <1>2, <1>3, <1>4, OverKeeps
<1>5. CASE Good(r) /\ Set(r, Advance(r, FALSE))
  <2> DEFINE stage == NextStage[job[r].stage]
  <2>1. TypeOK /\ job[r].stage \in DOMAIN NextStage
    BY <1>1 DEF IInv, NextStage
  <2>2. IdleAs(Advance(r, FALSE), r, stage)
    BY <2>1, AdvanceIs, Zenon
  <2>3. /\ stage \in Stages /\ stage \in Late
        /\ stage = "released" => job[r].stage = "ci"
    BY <1>1 DEF NextStage, Stages, Nodes, Late
  <2>4. job[r].stage = "ci" => job[r].ok /\ job[r].commit # 0
    BY <1>1, <1>5 DEF Good, IInv, RunInv, InNode, Required
  <2> HIDE DEF stage
  <2> QED
    BY <1>1, <1>2, <1>5, <2>2, <2>3, <2>4, OverKeeps
<1> QED
  BY <1>1, <1>4, <1>5

\* What the agent of the committer is told, or where its tool goes on.
LEMMA CommitterKeeps ==
    ASSUME IInv, NEW r \in Run, NEW j \in Job, Set(r, j),
           UNCHANGED <<trunk, branch, prs, work, ledger, image>>,
           j.stage = "commit", job[r].stage = "commit", j.pc \in {"agent", "push", "list", "create"},
           j.pr = job[r].pr \/ PrOf(j.pr, r), j.commit = job[r].commit, j.rows = job[r].rows
    PROVE  IInv'
<1>1. job'[r] = j
  BY DEF Set, IInv, TypeOK
<1>2. KnowsItsOwn(r)
  BY DEF IInv, RunInv
<1>3. InNode(r)' /\ MergesHead(r)' /\ BuiltOfTrunk(r)'
  BY <1>1 DEF InNode, Required, Nodes, MergesHead, At, BuiltOfTrunk
<1>4. /\ j.pr # 0 => PrOf(j.pr, r)
      /\ j.commit # 0 => CommitOf(j.commit, r)
      /\ job[r].stage \in Late => j.stage \in Late
  BY <1>2 DEF KnowsItsOwn, Late
<1> QED
  BY <1>3, <1>4, JobKeeps, SameLedger

LEMMA OpenPrKeeps ==
    ASSUME IInv, NEW r \in Run, OpenPr(r)
    PROVE  IInv'
<1> DEFINE pc == IF work[r].git \in {"trunk", "branch"} THEN "push" ELSE "agent"
           j == [job[r] EXCEPT !.called = TRUE, !.pc = pc]
<1>1. /\ job[r] \in Job /\ Set(r, j) /\ UNCHANGED <<trunk, branch, prs, work, ledger, image>>
      /\ job[r].stage = "commit"
  BY CallsInNode DEF OpenPr, IInv, RunInv, TypeOK
<1>2. pc \in {"push", "agent"}
  OBVIOUS
<1> HIDE DEF pc
<1>3. /\ j \in Job /\ j.pc = pc /\ j.stage = "commit" /\ j.pr = job[r].pr /\ j.commit = job[r].commit
      /\ j.rows = job[r].rows
  BY <1>1, <1>2 DEF Job, Places
<1> HIDE DEF j
<1> QED
  BY <1>1, <1>2, <1>3, CommitterKeeps

\* An open PR of the run is its own.
LEMMA ListPrKeeps ==
    ASSUME IInv, NEW r \in Run, ListPr(r)
    PROVE  IInv'
<1>1. /\ job[r] \in Job /\ job[r].stage = "commit"
      /\ UNCHANGED <<trunk, branch, prs, work, ledger, image>>
  BY DEF ListPr, At, IInv, TypeOK
<1>2. ASSUME NEW p \in OpenPrsOf(r), Set(r, [ToAgent(r) EXCEPT !.ok = TRUE, !.pr = p])
      PROVE  IInv'
  <2> DEFINE j == [ToAgent(r) EXCEPT !.ok = TRUE, !.pr = p]
  <2>1. PrOf(p, r) /\ p \in Nat
    BY DEF OpenPrsOf, PrOf
  <2>2. /\ j \in Job /\ j.pc = "agent" /\ j.stage = "commit" /\ j.pr = p /\ j.commit = job[r].commit
        /\ j.rows = job[r].rows
    BY <1>1, <2>1 DEF ToAgent, Job, Places
  <2>3. Set(r, j)
    BY <1>2
  <2> HIDE DEF j
  <2> QED
    BY <1>1, <2>1, <2>2, <2>3, CommitterKeeps
<1>3. CASE Set(r, [job[r] EXCEPT !.pc = "create", !.calm = @ /\ OpenPrsOf(r) = {}])
  <2> DEFINE calm == job[r].calm /\ OpenPrsOf(r) = {}
             j == [job[r] EXCEPT !.pc = "create", !.calm = calm]
  <2>1. calm \in BOOLEAN
    BY <1>1, Zenon DEF Job
  <2>2. Set(r, j)
    BY <1>3
  <2> HIDE DEF calm
  <2>3. /\ j \in Job /\ j.pc = "create" /\ j.stage = "commit" /\ j.pr = job[r].pr
        /\ j.commit = job[r].commit /\ j.rows = job[r].rows
    BY <1>1, <2>1 DEF Job, Places
  <2> HIDE DEF j
  <2> QED
    BY <1>1, <2>2, <2>3, CommitterKeeps
<1> QED
  BY <1>2, <1>3 DEF ListPr

\* What is merged is a commit of the run; what is to be merged is its head.
LEMMA ViewPrKeeps ==
    ASSUME IInv, NEW r \in Run, ViewPr(r)
    PROVE  IInv'
<1>1. /\ job[r] \in Job /\ job[r].stage = "merge" /\ job[r].pc = "agent" /\ job[r].pr # 0
      /\ UNCHANGED <<trunk, branch, prs, work, ledger, image>> /\ KnowsItsOwn(r)
  BY CallsInNode DEF ViewPr, IInv, RunInv, TypeOK, Calls
<1> DEFINE p == job[r].pr
           c == [job[r] EXCEPT !.called = TRUE]
<1>2. PICK j : /\ Set(r, j)
               /\ \/ j = [c EXCEPT !.calm = FALSE]
                  \/ Merged(p) /\ j = [c EXCEPT !.ok = TRUE, !.commit = prs[p].commit]
                  \/ Mergeable(r, p) /\ j = [c EXCEPT !.pc = "put"]
                  \/ j = c
  BY DEF ViewPr
<1>3. c \in Job /\ c.stage = "merge" /\ c.pc = "agent" /\ c.pr = p /\ c.commit = job[r].commit
      /\ c.rows = job[r].rows
  BY <1>1 DEF Job
<1> HIDE DEF c
<1>4. /\ PrOf(p, r) /\ prs[p] \in PullRequest
      /\ Merged(p) => CommitOf(prs[p].commit, r)
  BY <1>1, Typed DEF IInv, KnowsItsOwn, PrsInv, PrOf, Merged
<1>5. /\ j \in Job /\ j.stage = "merge" /\ j.pr = p /\ j.rows = job[r].rows
      /\ j.pc = "agent" \/ (j.pc = "put" /\ Mergeable(r, p))
      /\ j.commit = job[r].commit \/ CommitOf(j.commit, r)
  BY <1>2, <1>3, <1>4 DEF Job, Places, PullRequest
<1>6. job'[r] = j
  BY <1>2 DEF Set, IInv, TypeOK
<1>7. InNode(r)' /\ BuiltOfTrunk(r)'
  BY <1>1, <1>5, <1>6 DEF InNode, Required, Nodes, BuiltOfTrunk
<1>8. MergesHead(r)'
  BY <1>1, <1>5, <1>6 DEF MergesHead, At, Mergeable
<1>9. /\ j.pr # 0 => PrOf(j.pr, r)
      /\ j.commit # 0 => CommitOf(j.commit, r)
      /\ j.rows = "write" => job[r].rows = "write"
      /\ j.stage \in Late
  BY <1>1, <1>4, <1>5 DEF KnowsItsOwn, Late
<1> QED
  BY <1>1, <1>2, <1>5, <1>7, <1>8, <1>9, JobKeeps, SameLedger

-----------------------------------------------------------------------------
(* Steps that change the files of a run *)

LEMMA FilesKeep ==
    ASSUME IInv, NEW r \in Run, NEW j \in Job, NEW w \in Workspace,
           job' = [job EXCEPT ![r] = j], work' = [work EXCEPT ![r] = w],
           UNCHANGED <<trunk, branch, prs, ledger, image>>,
           InNode(r)', MergesHead(r)', BuiltOfTrunk(r)',
           j.pr = job[r].pr, j.commit = job[r].commit,
           work[r].head <= w.head, w.head <= w.work, j.rows = "write" => w.work # 0,
           job[r].stage \in Late => j.stage \in Late /\ w.head = work[r].head
    PROVE  IInv'
<1>1. /\ job' \in [Run -> Job] /\ job'[r] = j /\ work' \in [Run -> Workspace] /\ work'[r] = w
      /\ \A q \in Run : q # r => job'[q] = job[q] /\ work'[q] = work[q]
  BY DEF IInv, TypeOK
<1>2. RunInv(r) /\ branch[r] \in 0..Foreign /\ work[r] \in Workspace
  BY DEF IInv, TypeOK
<1>3. KnowsItsOwn(r)'
  BY <1>1, <1>2 DEF RunInv, KnowsItsOwn, PrOf, CommitOf
<1>4. InOrder(r)'
  <2>1. work[r].head \in Nat /\ w.head \in Nat /\ w.work \in Nat /\ branch[r] \in Nat
    BY <1>2, BoundsAssumption DEF Workspace, Version, Foreign
  <2>2. branch[r] \in Version => branch[r] <= work[r].head
    BY <1>2 DEF RunInv, InOrder
  <2>3. branch[r] \in Version => branch[r] <= w.head
    BY <2>1, <2>2
  <2> QED
    BY <1>1, <2>3 DEF InOrder
<1>5. RowsAreReal(r)'
  BY <1>1 DEF RowsAreReal
<1>6. RunInv(r)'
  BY <1>3, <1>4, <1>5 DEF RunInv
<1> QED
  BY <1>1, <1>6, LocalKeeps DEF IInv, TypeOK

\* The agents of fix and commit at work.
LEMMA EditsKeep ==
    ASSUME IInv, NEW r \in Run, NEW j \in Job, NEW w \in Workspace,
           job' = [job EXCEPT ![r] = j], work' = [work EXCEPT ![r] = w],
           UNCHANGED <<trunk, branch, prs, ledger, image>>,
           job[r].stage \in {"fix", "commit"}, j.stage = job[r].stage, j.pc = "agent",
           j.pr = job[r].pr, j.commit = job[r].commit,
           work[r].head <= w.head, w.head <= w.work, j.rows = "write" => w.work # 0
    PROVE  IInv'
<1>1. job'[r] = j
  BY DEF IInv, TypeOK
<1>2. InNode(r)' /\ MergesHead(r)' /\ BuiltOfTrunk(r)'
  BY <1>1 DEF InNode, Required, Nodes, MergesHead, At, BuiltOfTrunk
<1>3. job[r].stage \notin Late
  BY DEF Late
<1> QED
  BY <1>2, <1>3, FilesKeep

LEMMA PrepareKeeps ==
    ASSUME IInv, NEW r \in Run, Prepare(r)
    PROVE  IInv'
<1>1. PICK git \in {"absent", "trunk", "detached", "branch"} :
         work' = [work EXCEPT ![r].git = git, ![r].base = Tip.tree]
  BY DEF Prepare
<1> DEFINE w == [work[r] EXCEPT !.git = git, !.base = Tip.tree]
           j == [job[r] EXCEPT !.stage = "fix"]
<1>2. /\ job[r] \in Job /\ work[r] \in Workspace /\ Tip.tree \in Tree
      /\ job[r].stage = "prepare" /\ Set(r, j) /\ UNCHANGED <<trunk, branch, prs, ledger, image>>
  BY Typed DEF Prepare, IInv, TypeOK, Commit
<1>3. /\ w \in Workspace /\ w.head = work[r].head /\ w.work = work[r].work
  BY <1>1, <1>2 DEF Workspace
<1>4. work' = [work EXCEPT ![r] = w]
  BY <1>1 DEF IInv, TypeOK
<1>5. /\ j \in Job /\ j.stage = "fix" /\ j.pc = job[r].pc /\ j.pr = job[r].pr /\ j.rows = job[r].rows
      /\ j.commit = job[r].commit /\ j.ok = job[r].ok /\ j.built = job[r].built
  BY <1>2 DEF Job, Stages, Nodes
<1>6. job' = [job EXCEPT ![r] = j] /\ job'[r] = j
  BY <1>2 DEF Set, IInv, TypeOK
<1> HIDE DEF j, w
<1>7. InNode(r) /\ InOrder(r) /\ RowsAreReal(r)
  BY DEF IInv, RunInv
<1>8. InNode(r)' /\ MergesHead(r)' /\ BuiltOfTrunk(r)'
  BY <1>2, <1>5, <1>6, <1>7 DEF InNode, Required, Nodes, MergesHead, At, BuiltOfTrunk
<1>9. work[r].head <= w.head /\ w.head <= w.work /\ (j.rows = "write" => w.work # 0)
  <2>1. work[r].head \in Nat
    BY <1>2, BoundsAssumption DEF Workspace, Version
  <2> QED
    BY <1>3, <1>5, <1>7, <2>1 DEF InOrder, RowsAreReal
<1>10. job[r].stage \notin Late
  BY <1>2 DEF Late
<1> QED
  BY <1>2, <1>3, <1>4, <1>5, <1>6, <1>8, <1>9, <1>10, FilesKeep

\* One more version of the files.
LEMMA OneMore ==
    ASSUME IInv, NEW r \in Run, work[r].work < MaxWrites
    PROVE  LET w == [work[r] EXCEPT !.work = work[r].work + 1]
           IN /\ w \in Workspace /\ w.work # 0 /\ w.head = work[r].head /\ w.head <= w.work
              /\ work[r].head <= w.head
              /\ [work EXCEPT ![r].work = @ + 1] = [work EXCEPT ![r] = w]
<1> DEFINE w == [work[r] EXCEPT !.work = work[r].work + 1]
<1>1. work[r] \in Workspace /\ work[r].head <= work[r].work
  BY DEF IInv, RunInv, InOrder, TypeOK
<1>2. work[r].work \in Nat /\ work[r].head \in Nat /\ work[r].work + 1 \in Version
  BY <1>1, BoundsAssumption DEF Workspace, Version
<1>3. w \in Workspace /\ w.work = work[r].work + 1 /\ w.head = work[r].head
  BY <1>1, <1>2 DEF Workspace
<1>4. [work EXCEPT ![r].work = @ + 1] = [work EXCEPT ![r] = w]
  BY DEF IInv, TypeOK
<1> HIDE DEF w
<1>5. w.work # 0 /\ w.head <= w.work /\ work[r].head <= w.head
  BY <1>1, <1>2, <1>3
<1> QED
  BY <1>3, <1>4, <1>5 DEF w

LEMMA NoMore ==
    ASSUME IInv, NEW r \in Run
    PROVE  /\ work[r] \in Workspace /\ work[r].head <= work[r].head /\ work[r].head <= work[r].work
           /\ work = [work EXCEPT ![r] = work[r]] /\ job[r] \in Job
           /\ job[r].rows = "write" => work[r].work # 0
<1>1. work[r] \in Workspace /\ work[r].head <= work[r].work /\ job[r] \in Job
      /\ (job[r].rows = "write" => work[r].work # 0)
  BY DEF IInv, RunInv, InOrder, RowsAreReal, TypeOK
<1>2. work[r].head \in Nat
  BY <1>1, BoundsAssumption DEF Workspace, Version
<1>3. work = [work EXCEPT ![r] = work[r]]
  BY DEF IInv, TypeOK
<1> QED
  BY <1>1, <1>2, <1>3

LEMMA WriteFileKeeps ==
    ASSUME IInv, NEW r \in Run, WriteFile(r)
    PROVE  IInv'
<1>1. /\ job[r].stage = "fix" /\ job[r].pc = "agent" /\ work[r].work < MaxWrites /\ job[r] \in Job
      /\ UNCHANGED <<trunk, branch, prs, ledger, image>>
  BY CallsInNode DEF WriteFile, IInv, RunInv, TypeOK, Calls
<1>2. CASE /\ work' = [work EXCEPT ![r].work = @ + 1]
           /\ Set(r, [job[r] EXCEPT !.rows = IF @ = "exec" THEN @ ELSE "write"])
  <2> DEFINE rows == IF job[r].rows = "exec" THEN job[r].rows ELSE "write"
             j == [job[r] EXCEPT !.rows = rows]
             w == [work[r] EXCEPT !.work = work[r].work + 1]
  <2>1. job' = [job EXCEPT ![r] = j]
    BY <1>2 DEF Set
  <2>2. rows \in {"exec", "write"}
    OBVIOUS
  <2> HIDE DEF rows
  <2>3. /\ j \in Job /\ j.stage = job[r].stage /\ j.pc = "agent" /\ j.pr = job[r].pr
        /\ j.commit = job[r].commit
    BY <1>1, <2>2 DEF Job
  <2>4. /\ w \in Workspace /\ w.work # 0 /\ w.head <= w.work /\ work[r].head <= w.head
        /\ work' = [work EXCEPT ![r] = w]
    BY <1>1, <1>2, OneMore
  <2> HIDE DEF j, w
  <2> QED
    BY <1>1, <2>1, <2>3, <2>4, EditsKeep
<1>3. CASE Set(r, [Failed(r) EXCEPT !.rows = IF @ = "none" THEN "error" ELSE @]) /\ UNCHANGED work
  <2> DEFINE rows == IF job[r].rows = "none" THEN "error" ELSE job[r].rows
             j == [Failed(r) EXCEPT !.rows = rows]
  <2>1. Failed(r).rows = job[r].rows /\ Failed(r) \in Job /\ Failed(r).stage = job[r].stage
        /\ Failed(r).pc = "agent" /\ Failed(r).pr = job[r].pr /\ Failed(r).commit = job[r].commit
    BY <1>1 DEF Failed, ToAgent, Job, Places
  <2>2. job' = [job EXCEPT ![r] = j]
    BY <1>3, <2>1 DEF Set
  <2>3. rows \in {"none", "error", "write", "exec"} /\ (rows = "write" => job[r].rows = "write")
    BY <1>1 DEF Job
  <2> HIDE DEF rows
  <2>4. /\ j \in Job /\ j.stage = job[r].stage /\ j.pc = "agent" /\ j.pr = job[r].pr
        /\ j.commit = job[r].commit /\ j.rows = rows
    BY <2>1, <2>3 DEF Job
  <2> HIDE DEF j
  <2>5. work' = [work EXCEPT ![r] = work[r]]
    BY <1>3, NoMore
  <2> QED
    BY <1>1, <2>2, <2>3, <2>4, <2>5, NoMore, EditsKeep
<1> QED
  BY <1>2, <1>3 DEF WriteFile

LEMMA ExecKeeps ==
    ASSUME IInv, NEW r \in Run, Exec(r)
    PROVE  IInv'
<1> DEFINE j == [job[r] EXCEPT !.rows = "exec"]
<1>1. /\ job[r].stage = "fix" /\ job[r].pc = "agent" /\ job[r] \in Job
      /\ UNCHANGED <<trunk, branch, prs, ledger, image>> /\ job' = [job EXCEPT ![r] = j]
  BY CallsInNode DEF Exec, IInv, RunInv, TypeOK, Calls, Set
<1>2. /\ j \in Job /\ j.stage = job[r].stage /\ j.pc = "agent" /\ j.pr = job[r].pr
      /\ j.commit = job[r].commit /\ j.rows = "exec"
  BY <1>1 DEF Job
<1> HIDE DEF j
<1>3. CASE work[r].work < MaxWrites /\ work' = [work EXCEPT ![r].work = @ + 1]
  <2> DEFINE w == [work[r] EXCEPT !.work = work[r].work + 1]
  <2>1. /\ w \in Workspace /\ w.work # 0 /\ w.head <= w.work /\ work[r].head <= w.head
        /\ work' = [work EXCEPT ![r] = w]
    BY <1>3, OneMore
  <2> HIDE DEF w
  <2> QED
    BY <1>1, <1>2, <2>1, EditsKeep
<1>4. CASE UNCHANGED work
  <2>1. work' = [work EXCEPT ![r] = work[r]]
    BY <1>4, NoMore
  <2> QED
    BY <1>1, <1>2, <2>1, NoMore, EditsKeep
<1> QED
  BY <1>3, <1>4 DEF Exec

LEMMA GitCommitKeeps ==
    ASSUME IInv, NEW r \in Run, GitCommit(r)
    PROVE  IInv'
<1> DEFINE w == [work[r] EXCEPT !.head = work[r].work]
<1>1. /\ job[r].stage \in {"fix", "commit"} /\ job[r].pc = "agent"
      /\ UNCHANGED <<trunk, branch, prs, job, ledger, image>>
  BY CallsInNode DEF GitCommit, IInv, RunInv, Calls
<1>2. work' = [work EXCEPT ![r] = w]
  BY DEF GitCommit, IInv, TypeOK
<1>3. w \in Workspace /\ w.head = work[r].work /\ w.work = work[r].work
  BY NoMore DEF Workspace
<1> HIDE DEF w
<1>4. work[r].work \in Nat
  BY NoMore, BoundsAssumption DEF Workspace, Version
<1>5. work[r].head <= w.head /\ w.head <= w.work /\ (job[r].rows = "write" => w.work # 0)
  BY <1>3, <1>4, NoMore
<1>6. job' = [job EXCEPT ![r] = job[r]]
  BY <1>1 DEF IInv, TypeOK
<1> QED
  BY <1>1, <1>2, <1>3, <1>5, <1>6, NoMore, EditsKeep

\* The jar is of the trunk commit, but for files that are not committed.
LEMMA BuildArtifactKeeps ==
    ASSUME IInv, NEW r \in Run, BuildArtifact(r)
    PROVE  IInv'
<1>1. /\ job[r].stage = "ci" /\ job[r].pc = "agent" /\ job[r].commit # 0
      /\ UNCHANGED <<trunk, branch, prs, ledger, image>> /\ BuiltOfTrunk(r)
  BY CallsInNode DEF BuildArtifact, IInv, RunInv, Calls
<1>2. ASSUME NEW j \in Job, NEW jar \in Tree, Set(r, j), work' = [work EXCEPT ![r].jar = jar],
             j.stage = "ci", j.pc = "agent", j.pr = job[r].pr, j.commit = job[r].commit,
             j.rows = job[r].rows, j.ok = job[r].ok, SameTree(r), j.built => jar = WorkTree(r)
      PROVE  IInv'
  <2> DEFINE w == [work[r] EXCEPT !.jar = jar]
  <2>1. work' = [work EXCEPT ![r] = w]
    BY <1>2 DEF IInv, TypeOK
  <2>2. /\ w \in Workspace /\ w.head = work[r].head /\ w.work = work[r].work /\ w.base = work[r].base
        /\ w.jar = jar
    BY NoMore DEF Workspace
  <2> HIDE DEF w
  <2>3. job' = [job EXCEPT ![r] = j] /\ job'[r] = j /\ work'[r] = w
    BY <1>2, <2>1 DEF Set, IInv, TypeOK
  <2>4. InNode(r)' /\ MergesHead(r)'
    BY <1>1, <1>2, <2>3 DEF InNode, Required, Nodes, MergesHead, At
  <2>5. WorkTree(r)' = WorkTree(r) /\ HeadTree(r)' = HeadTree(r)
    BY <2>2, <2>3 DEF WorkTree, HeadTree
  <2>6. BuiltOfTrunk(r)'
    BY <1>1, <1>2, <2>2, <2>3, <2>5 DEF BuiltOfTrunk, OfTrunk, SameTree
  <2>7. job[r].stage \in Late => j.stage \in Late /\ w.head = work[r].head
    BY <1>1, <1>2, <2>2
  <2> QED
    BY <1>1, <1>2, <2>1, <2>2, <2>3, <2>4, <2>6, <2>7, NoMore, FilesKeep
<1>3. CASE /\ SameTree(r) /\ work' = [work EXCEPT ![r].jar = WorkTree(r)]
           /\ Set(r, [job[r] EXCEPT !.built = TRUE])
  <2> DEFINE j == [job[r] EXCEPT !.built = TRUE]
  <2>1. WorkTree(r) \in Tree
    BY NoMore, BoundsAssumption DEF WorkTree, Workspace, Tree, Version, Foreign
  <2>2. /\ j \in Job /\ j.stage = "ci" /\ j.pc = "agent" /\ j.pr = job[r].pr /\ j.commit = job[r].commit
        /\ j.rows = job[r].rows /\ j.ok = job[r].ok
    BY <1>1, NoMore DEF Job
  <2>3. Set(r, j)
    BY <1>3
  <2> HIDE DEF j
  <2> QED
    BY <1>2, <1>3, <2>1, <2>2, <2>3
<1>4. CASE /\ SameTree(r) /\ work' = [work EXCEPT ![r].jar = NoTree]
           /\ Set(r, [Failed(r) EXCEPT !.built = FALSE])
  <2> DEFINE j == [Failed(r) EXCEPT !.built = FALSE]
  <2>1. NoTree \in Tree
    BY Typed DEF IInv
  <2>2. /\ j \in Job /\ j.stage = "ci" /\ j.pc = "agent" /\ j.pr = job[r].pr /\ j.commit = job[r].commit
        /\ j.rows = job[r].rows /\ j.ok = job[r].ok /\ ~j.built
    BY <1>1, NoMore DEF Job, Failed, ToAgent, Places
  <2>3. Set(r, j)
    BY <1>4
  <2> HIDE DEF j
  <2> QED
    BY <1>2, <1>4, <2>1, <2>2, <2>3
<1>5. CASE UNCHANGED <<work, job>>
  <2>1. RunInv(r)'
    BY <1>1, <1>5 DEF IInv, RunInv, InNode, Required, KnowsItsOwn, PrOf, CommitOf, InOrder, MergesHead, At,
                      BuiltOfTrunk, OfTrunk, WorkTree, HeadTree, RowsAreReal
  <2> QED
    BY <1>1, <1>5, <2>1, LocalKeeps DEF IInv, TypeOK
<1> QED
  BY <1>3, <1>4, <1>5 DEF BuildArtifact

-----------------------------------------------------------------------------
(* Steps at the remote *)

\* The trunk and the list of PRs only grow.
Grown ==
    /\ Len(trunk) <= Len(trunk') /\ \A i \in 1..Len(trunk) : trunk'[i] = trunk[i]
    /\ Len(prs) <= Len(prs') /\ \A p \in 1..Len(prs) : prs'[p].run = prs[p].run

LEMMA GrownKnows ==
    ASSUME TypeOK, TypeOK', Grown, NEW r \in Run
    PROVE  /\ \A p : PrOf(p, r) => PrOf(p, r)'
           /\ \A c : CommitOf(c, r) => CommitOf(c, r)'
<1>1. Len(trunk) \in Nat /\ Len(prs) \in Nat /\ Len(trunk') \in Nat /\ Len(prs') \in Nat
  BY DEF TypeOK
<1> QED
  BY <1>1 DEF Grown, PrOf, CommitOf

\* What a disturbance of an attempt leaves alone.
Same(k, j) ==
    /\ k.stage = j.stage /\ k.pc = j.pc /\ k.called = j.called /\ k.ok = j.ok /\ k.built = j.built
    /\ k.pr = j.pr /\ k.commit = j.commit /\ k.rows = j.rows /\ k.claim = j.claim

LEMMA DisturbIs ==
    ASSUME TypeOK, NEW r \in Run,
           \/ job' = Disturb(r)
           \/ job' = [Disturb(r) EXCEPT ![r].pushed = job[r].pc = "put"]
    PROVE  /\ job' \in [Run -> Job] /\ \A q \in Run : q # r => job'[q] = job[q]
           /\ Same(job'[r], job[r]) /\ (job[r].pc = "idle" \/ ~job'[r].calm)
           /\ job' = Disturb(r) => job'[r].pushed = job[r].pushed
           /\ job' = [Disturb(r) EXCEPT ![r].pushed = job[r].pc = "put"] =>
                 (job'[r].pushed <=> job[r].pc = "put")
<1> DEFINE calm == job[r].calm /\ job[r].pc = "idle"
           put == job[r].pc = "put"
           j == [job[r] EXCEPT !.calm = calm]
           k == [j EXCEPT !.pushed = put]
<1>1. job \in [Run -> Job] /\ job[r] \in Job /\ calm \in BOOLEAN /\ put \in BOOLEAN
  BY DEF TypeOK
<1>2. Disturb(r) = [job EXCEPT ![r] = j]
  BY <1>1 DEF Disturb
<1>3. [Disturb(r) EXCEPT ![r].pushed = put] = [job EXCEPT ![r] = k]
  BY <1>1, <1>2
<1>9. job' = [job EXCEPT ![r] = j] \/ job' = [job EXCEPT ![r] = k]
  BY <1>2, <1>3
<1>10. /\ job' = Disturb(r) => job' = [job EXCEPT ![r] = j]
       /\ job' = [Disturb(r) EXCEPT ![r].pushed = job[r].pc = "put"] => job' = [job EXCEPT ![r] = k]
  BY <1>2, <1>3
<1>4. calm => job[r].pc = "idle"
  OBVIOUS
<1> HIDE DEF calm
<1>5. j \in Job /\ Same(j, job[r]) /\ (j.calm <=> calm) /\ j.pushed = job[r].pushed
  BY <1>1 DEF Job, Same
<1> HIDE DEF put
<1>6. k \in Job /\ Same(k, job[r]) /\ (k.calm <=> calm) /\ k.pushed = put
  BY <1>1 DEF Job, Same
<1> HIDE DEF j, k
<1>7. job' = [job EXCEPT ![r] = j] =>
         /\ job' \in [Run -> Job] /\ job'[r] = j /\ \A q \in Run : q # r => job'[q] = job[q]
  BY <1>1, <1>5
<1>8. job' = [job EXCEPT ![r] = k] =>
         /\ job' \in [Run -> Job] /\ job'[r] = k /\ \A q \in Run : q # r => job'[q] = job[q]
  BY <1>1, <1>6
<1>11. job' \in [Run -> Job] /\ job'[r] \in {j, k} /\ \A q \in Run : q # r => job'[q] = job[q]
  BY <1>7, <1>8, <1>9
<1>12. Same(job'[r], job[r]) /\ (job[r].pc = "idle" \/ ~job'[r].calm)
  BY <1>4, <1>5, <1>6, <1>11
<1>13. /\ job' = Disturb(r) => job'[r].pushed = job[r].pushed
       /\ job' = [Disturb(r) EXCEPT ![r].pushed = job[r].pc = "put"] => (job'[r].pushed <=> put)
  BY <1>5, <1>6, <1>7, <1>8, <1>10
<1> QED
  BY <1>11, <1>12, <1>13 DEF put

\* A step at the remote does nothing to the other runs.
LEMMA OthersKeep ==
    ASSUME IInv, TypeOK', Grown, NEW r \in Run, Same(job'[r], job[r]), job[r].pushed => job'[r].pushed,
           work'[r] = work[r], ledger'[r] = ledger[r], branch'[r] = branch[r],
           CommitOf(job[r].commit, r) => image'[job[r].commit] = image[job[r].commit]
    PROVE  RunInv(r)'
<1>1. /\ job'[r].stage = job[r].stage /\ job'[r].pc = job[r].pc /\ job'[r].ok = job[r].ok
      /\ job'[r].built = job[r].built /\ job'[r].pr = job[r].pr /\ job'[r].commit = job[r].commit
      /\ job'[r].rows = job[r].rows
  BY DEF Same
<1>2. RunInv(r)
  BY DEF IInv
<1>3. InNode(r)' /\ InOrder(r)' /\ MergesHead(r)' /\ RowsAreReal(r)'
  BY <1>1, <1>2 DEF RunInv, InNode, Required, InOrder, MergesHead, At, RowsAreReal
<1>4. KnowsItsOwn(r)'
  <2>1. /\ \A p : PrOf(p, r) => PrOf(p, r)'
        /\ \A c : CommitOf(c, r) => CommitOf(c, r)'
    BY GrownKnows DEF IInv
  <2>2. KnowsItsOwn(r)
    BY <1>2 DEF RunInv
  <2> QED
    BY <1>1, <2>1, <2>2 DEF KnowsItsOwn
<1>5. BuiltOfTrunk(r)'
  <2>1. ASSUME (job[r].stage = "ci" /\ (job[r].built \/ job[r].ok)) \/ job[r].stage = "released"
        PROVE  CommitOf(job[r].commit, r)
    BY <1>2, <2>1 DEF RunInv, InNode, Required, KnowsItsOwn
  <2>2. ASSUME CommitOf(job[r].commit, r)
        PROVE  trunk'[job[r].commit] = trunk[job[r].commit] /\ image'[job[r].commit] = image[job[r].commit]
    BY <2>2 DEF CommitOf, Grown
  <2>3. WorkTree(r)' = WorkTree(r) /\ HeadTree(r)' = HeadTree(r)
    BY DEF WorkTree, HeadTree
  <2> QED
    BY <1>1, <1>2, <2>1, <2>2, <2>3 DEF RunInv, BuiltOfTrunk, OfTrunk
<1> QED
  BY <1>3, <1>4, <1>5 DEF RunInv

LEMMA RemoteKeeps ==
    ASSUME IInv, TypeOK', Grown, PrsInv', NEW r \in Run, RunInv(r)', UNCHANGED <<work, ledger>>,
           \A q \in Run : q # r =>
              /\ job'[q] = job[q] /\ branch'[q] = branch[q]
              /\ CommitOf(job[q].commit, q) => image'[job[q].commit] = image[job[q].commit],
           job[r].stage \in Late => job'[r].stage \in Late,
           \A i \in 1..Len(trunk') : i > Len(trunk) /\ trunk'[i].how = "tool" =>
              /\ trunk'[i].run = {r} /\ job'[r].stage \in Late
              /\ trunk'[i].tree[r] = work[r].head /\ work[r].head # 0
    PROVE  IInv'
<1>1. ASSUME NEW q \in Run
      PROVE  RunInv(q)'
  BY OthersKeep DEF Same
<1>2. MergeInv'
  <2> SUFFICES ASSUME NEW i \in 1..Len(trunk'), NEW q \in trunk'[i].run, trunk'[i].how = "tool"
               PROVE  /\ job'[q].stage \in Late
                      /\ trunk'[i].tree[q] = work[q].head /\ trunk'[i].tree[q] # 0
    BY DEF MergeInv, Late
  <2>1. CASE i > Len(trunk)
    BY <2>1
  <2>2. CASE ~(i > Len(trunk))
    <3>1. i \in 1..Len(trunk) /\ trunk'[i] = trunk[i]
      BY <2>2, Typed DEF Grown, IInv
    <3>2. /\ q \in Run /\ job[q].stage \in Late
          /\ trunk[i].tree[q] = work[q].head /\ trunk[i].tree[q] # 0
      BY <3>1, Typed DEF IInv, MergeInv, Late, Commit
    <3> QED
      BY <3>1, <3>2
  <2> QED
    BY <2>1, <2>2
<1> QED
  BY <1>1, <1>2 DEF IInv

MarksMerged(p, n) == prs' = [prs EXCEPT ![p].state = "MERGED", ![p].commit = n]

\* A squash appends one commit of the run, and the PR becomes a merged one.
LEMMA Squashed ==
    ASSUME IInv, NEW r \in Run, NEW p, PrOf(p, r), NEW how \in {"tool", "overtaken", "hand"}, Squash(r, how),
           NEW n, n = Len(trunk) + 1,
           MarksMerged(p, n),
           branch' = branch, work' = work, ledger' = ledger, job' \in [Run -> Job]
    PROVE  /\ TypeOK' /\ Grown /\ PrsInv'
           /\ Len(trunk') = n /\ CommitOf(n, r)'
           /\ trunk'[n].how = how /\ trunk'[n].tree[r] = branch[r]
           /\ \A i \in 1..Len(trunk) : image'[i] = image[i]
<1> DEFINE tree == [Tip.tree EXCEPT ![r] = branch[r]]
           c == [tree |-> tree, run |-> {r}, how |-> how]
<1>1. tree \in Tree /\ tree[r] = branch[r]
  BY Typed DEF IInv, TypeOK, Commit, Tree
<1> HIDE DEF tree
<1>2. c \in Commit /\ c.run = {r} /\ c.how = how /\ c.tree = tree
  BY <1>1 DEF Commit
<1>3. trunk' = Append(trunk, c) /\ image' = Append(image, NoTree)
  BY DEF Squash, tree
<1> HIDE DEF c
<1>4. /\ trunk \in Seq(Commit) /\ image \in Seq(Tree) /\ Len(image) = Len(trunk)
      /\ Len(trunk) \in Nat /\ n \in Nat /\ NoTree \in Tree
  BY Typed DEF IInv, TypeOK
<1>5. /\ trunk' \in Seq(Commit) /\ Len(trunk') = n /\ trunk'[n] = c
      /\ \A i \in 1..Len(trunk) : trunk'[i] = trunk[i]
  BY <1>2, <1>3, <1>4
<1>6. /\ image' \in Seq(Tree) /\ Len(image') = Len(trunk')
      /\ \A i \in 1..Len(trunk) : image'[i] = image[i]
  BY <1>3, <1>4, <1>5
<1> DEFINE m == [prs[p] EXCEPT !.state = "MERGED", !.commit = n]
<1>7. prs \in Seq(PullRequest) /\ p \in 1..Len(prs) /\ prs[p] \in PullRequest /\ prs[p].run = r
  BY Typed DEF IInv, TypeOK, PrOf
<1>8. m \in PullRequest /\ m.run = r /\ m.commit = n
  BY <1>4, <1>7 DEF PullRequest
<1>9. prs' = [prs EXCEPT ![p] = m]
  BY <1>7 DEF MarksMerged
<1> HIDE DEF m
<1>10. /\ prs' \in Seq(PullRequest) /\ Len(prs') = Len(prs)
       /\ \A o \in 1..Len(prs) : prs'[o] = IF o = p THEN m ELSE prs[o]
  <2>1. prs \in Seq(PullRequest) /\ p \in 1..Len(prs) /\ m \in PullRequest
    BY <1>7, <1>8
  <2>2. prs' \in Seq(PullRequest)
    BY <1>9, <2>1
  <2>3. Len(prs') = Len(prs)
    BY <1>9, <2>1
  <2>4. \A o \in 1..Len(prs) : prs'[o] = IF o = p THEN m ELSE prs[o]
    BY <1>9, <2>1
  <2> QED
    BY <2>2, <2>3, <2>4
<1>11. TypeOK'
  BY <1>4, <1>5, <1>6, <1>10 DEF IInv, TypeOK
<1>12. Grown
  BY <1>4, <1>5, <1>7, <1>8, <1>10 DEF Grown
<1>13. CommitOf(n, r)'
  <2>1. n \in 1..Len(trunk')
    BY <1>4, <1>5
  <2> QED
    BY <1>2, <1>5, <2>1 DEF CommitOf
<1>14. PrsInv'
  <2> SUFFICES ASSUME NEW o \in 1..Len(prs)
               PROVE  /\ branch[prs'[o].run] \in Changed
                      /\ prs'[o].state = "MERGED" =>
                            /\ prs'[o].commit \in 1..Len(trunk')
                            /\ trunk'[prs'[o].commit].run = {prs'[o].run}
    BY <1>10 DEF PrsInv, CommitOf
  <2>1. /\ branch[prs[o].run] \in Changed
        /\ prs[o].state = "MERGED" => /\ prs[o].commit \in 1..Len(trunk)
                                      /\ trunk[prs[o].commit].run = {prs[o].run}
    BY DEF IInv, PrsInv, CommitOf
  <2>2. CASE o = p
    BY <1>2, <1>4, <1>5, <1>7, <1>8, <1>10, <2>1, <2>2
  <2>3. CASE o # p
    BY <1>4, <1>5, <1>10, <2>1, <2>3
  <2> QED
    BY <2>2, <2>3
<1> QED
  BY <1>1, <1>2, <1>5, <1>6, <1>11, <1>12, <1>13, <1>14

\* A push puts a commit of the run on the branch, or on the trunk.
LEMMA PushesKeep ==
    ASSUME IInv, NEW r \in Run, PushCurrent(r), UNCHANGED <<prs, work, ledger>>,
           NEW j \in Job, job' = [job EXCEPT ![r] = j],
           job[r].stage = "commit", j.stage = "commit", j.pc \in {"agent", "list"},
           j.pr = job[r].pr, j.commit = job[r].commit, j.rows = job[r].rows
    PROVE  IInv'
<1>1. /\ job[r].stage = "commit" /\ UNCHANGED <<prs, work, ledger>>
      /\ job[r] \in Job /\ RunInv(r) /\ work[r] \in Workspace
  BY DEF IInv, TypeOK
<1>3. /\ j \in Job /\ j.stage = "commit" /\ j.pc \in {"agent", "list"} /\ j.pr = job[r].pr
      /\ j.commit = job[r].commit /\ j.rows = job[r].rows
  OBVIOUS
<1>4. /\ job' \in [Run -> Job] /\ job'[r] = j
      /\ \A q \in Run : q # r => job'[q] = job[q]
  BY <1>3 DEF IInv, TypeOK
<1>5. /\ trunk \in Seq(Commit) /\ Len(trunk) \in Nat \ {0} /\ HeadTree(r) \in Tree
      /\ image \in Seq(Tree) /\ Len(image) = Len(trunk) /\ NoTree \in Tree
  <2>1. HeadTree(r) \in Tree
    BY <1>1, BoundsAssumption DEF HeadTree, Workspace, Tree, Version, Foreign
  <2> QED
    BY <2>1, Typed DEF IInv, TypeOK
<1>6. \/ trunk' = trunk
      \/ trunk' = Append(trunk, [tree |-> HeadTree(r), run |-> {r}, how |-> "push"])
  BY DEF PushCurrent
<1>7. /\ trunk' \in Seq(Commit) /\ Len(trunk') \in {Len(trunk), Len(trunk) + 1}
      /\ \A i \in 1..Len(trunk) : trunk'[i] = trunk[i]
      /\ Len(trunk') # Len(trunk) => trunk'[Len(trunk) + 1].how = "push"
  <2> DEFINE c == [tree |-> HeadTree(r), run |-> {r}, how |-> "push"]
  <2>1. c \in Commit /\ c.how = "push"
    BY <1>5 DEF Commit
  <2>2. trunk' = trunk \/ trunk' = Append(trunk, c)
    BY <1>6
  <2> HIDE DEF c
  <2> QED
    BY <1>5, <2>1, <2>2
<1>8. /\ image' \in Seq(Tree) /\ Len(image') = Len(trunk')
      /\ \A i \in 1..Len(trunk) : image'[i] = image[i]
  <2> DEFINE n == Len(trunk') - Len(trunk)
             new == [i \in 1..n |-> NoTree]
  <2>1. image' = image \o new
    BY DEF PushCurrent
  <2>2. n \in {0, 1}
    BY <1>5, <1>7
  <2>3. new \in Seq(Tree) /\ Len(new) = n
    BY <1>5, <2>2
  <2>4. Len(trunk') = Len(image) + n
    BY <1>5, <1>7
  <2> HIDE DEF new
  <2> QED
    BY <1>5, <2>1, <2>2, <2>3, <2>4
<1>9. branch' = branch \/ (branch[r] # Foreign /\ branch' = [branch EXCEPT ![r] = work[r].head])
  BY DEF PushCurrent, Pushable
<1>10. /\ branch' \in [Run -> 0..Foreign]
       /\ branch'[r] = branch[r] \/ (branch[r] # Foreign /\ branch'[r] = work[r].head)
       /\ \A q \in Run : q # r => branch'[q] = branch[q]
       /\ work[r].head \in 0..MaxWrites /\ branch[r] \in 0..Foreign
  <2>1. branch \in [Run -> 0..Foreign]
    BY DEF IInv, TypeOK
  <2>2. work[r].head \in 0..MaxWrites /\ work[r].head \in 0..Foreign
    BY <1>1, BoundsAssumption DEF Workspace, Version, Foreign
  <2> QED
    BY <1>9, <2>1, <2>2
<1>11. TypeOK'
  BY <1>1, <1>4, <1>5, <1>7, <1>8, <1>10 DEF IInv, TypeOK
<1>12. Grown
  BY <1>1, <1>5, <1>7, Typed DEF Grown, IInv
<1>13. InOrder(r)'
  BY <1>1, <1>10 DEF RunInv, InOrder
<1>14. PrsInv'
  <2> SUFFICES ASSUME NEW p \in 1..Len(prs)
               PROVE  /\ branch'[prs[p].run] \in Changed
                      /\ prs[p].state = "MERGED" => /\ prs[p].commit \in 1..Len(trunk')
                                                    /\ trunk'[prs[p].commit].run = {prs[p].run}
    BY <1>1 DEF PrsInv, CommitOf
  <2>1. /\ branch[prs[p].run] \in Changed /\ prs[p].run \in Run
        /\ prs[p].state = "MERGED" => /\ prs[p].commit \in 1..Len(trunk)
                                      /\ trunk[prs[p].commit].run = {prs[p].run}
    BY Typed DEF IInv, PrsInv, CommitOf, PullRequest
  <2>2. branch[r] \in Changed /\ branch[r] # Foreign => work[r].head \in 1..MaxWrites
    BY <1>1, <1>10, BoundsAssumption DEF RunInv, InOrder, Changed, Version
  <2>3. branch'[prs[p].run] \in Changed
    <3>1. CASE prs[p].run = r
      <4>1. CASE branch'[r] = branch[r]
        BY <2>1, <3>1, <4>1
      <4>2. CASE branch[r] # Foreign /\ branch'[r] = work[r].head
        BY <2>1, <2>2, <3>1, <4>2 DEF Changed
      <4> QED
        BY <1>10, <4>1, <4>2
    <3>2. CASE prs[p].run # r
      BY <1>10, <2>1, <3>2
    <3> QED
      BY <3>1, <3>2
  <2>4. \A i \in 1..Len(trunk) : i \in 1..Len(trunk') /\ trunk'[i] = trunk[i]
    BY <1>5, <1>7
  <2> QED
    BY <2>1, <2>3, <2>4
<1>15. KnowsItsOwn(r)'
  <2>1. /\ \A p : PrOf(p, r) => PrOf(p, r)'
        /\ \A c : CommitOf(c, r) => CommitOf(c, r)'
    BY <1>11, <1>12, GrownKnows DEF IInv
  <2> QED
    BY <1>1, <1>3, <1>4, <2>1 DEF RunInv, KnowsItsOwn, PrOf, CommitOf
<1>16. InNode(r)' /\ MergesHead(r)' /\ BuiltOfTrunk(r)' /\ RowsAreReal(r)'
  BY <1>1, <1>3, <1>4 DEF RunInv, InNode, Required, Nodes, MergesHead, At, BuiltOfTrunk, RowsAreReal
<1>17. RunInv(r)'
  BY <1>13, <1>15, <1>16 DEF RunInv
<1>18. job[r].stage \notin Late
  BY <1>1 DEF Late
<1>19. \A i \in 1..Len(trunk') : i > Len(trunk) => trunk'[i].how # "tool"
  BY <1>5, <1>7
<1>20. \A q \in Run : CommitOf(job[q].commit, q) => image'[job[q].commit] = image[job[q].commit]
  BY <1>8 DEF CommitOf
<1> QED
  BY <1>1, <1>4, <1>10, <1>11, <1>12, <1>14, <1>17, <1>18, <1>19, <1>20, RemoteKeeps

LEMMA GitPushKeeps ==
    ASSUME IInv, NEW r \in Run, GitPush(r)
    PROVE  IInv'
<1>1. /\ job[r].stage = "commit" /\ job[r].pc = "agent" /\ PushCurrent(r)
      /\ UNCHANGED <<prs, work, ledger>> /\ job' = job
  BY DEF GitPush, At
<1>2. job[r] \in Job /\ job' = [job EXCEPT ![r] = job[r]]
  BY <1>1 DEF IInv, TypeOK
<1> QED
  BY <1>1, <1>2, PushesKeep

LEMMA PushKeeps ==
    ASSUME IInv, NEW r \in Run, Push(r)
    PROVE  IInv'
<1>1. /\ job[r].stage = "commit" /\ job[r].pc = "push" /\ UNCHANGED <<prs, work, ledger>>
      /\ job[r] \in Job
  BY DEF Push, At, IInv, TypeOK
<1>2. PICK j : /\ Set(r, j) /\ j \in {ToAgent(r), Failed(r), [job[r] EXCEPT !.pc = "list"]}
               /\ PushCurrent(r) \/ UNCHANGED <<trunk, branch, image>>
  BY DEF Push
<1>3. /\ j \in Job /\ j.stage = "commit" /\ j.pc \in {"agent", "list"} /\ j.pr = job[r].pr
      /\ j.commit = job[r].commit /\ j.rows = job[r].rows
  BY <1>1, <1>2 DEF Failed, ToAgent, Job, Places
<1>4. CASE PushCurrent(r)
  <2>1. job' = [job EXCEPT ![r] = j]
    BY <1>2 DEF Set
  <2> QED
    BY <1>1, <1>3, <1>4, <2>1, PushesKeep
<1>5. CASE UNCHANGED <<trunk, branch, image>>
  BY <1>1, <1>2, <1>3, <1>5, CommitterKeeps
<1> QED
  BY <1>2, <1>4, <1>5

\* Only a branch with a change gets a PR.
LEMMA CreatePrKeeps ==
    ASSUME IInv, NEW r \in Run, CreatePr(r)
    PROVE  IInv'
<1>1. /\ job[r].stage = "commit" /\ job[r].pc = "create"
      /\ UNCHANGED <<trunk, branch, work, ledger, image>> /\ job[r] \in Job /\ RunInv(r)
  BY DEF CreatePr, At, IInv, TypeOK
<1>2. /\ ToAgent(r) \in Job /\ Failed(r) \in Job /\ ToAgent(r).stage = "commit"
      /\ Failed(r).stage = "commit" /\ ToAgent(r).pc = "agent" /\ Failed(r).pc = "agent"
      /\ ToAgent(r).pr = job[r].pr /\ Failed(r).pr = job[r].pr /\ ToAgent(r).commit = job[r].commit
      /\ Failed(r).commit = job[r].commit /\ ToAgent(r).rows = job[r].rows
      /\ Failed(r).rows = job[r].rows
  BY <1>1 DEF Failed, ToAgent, Job, Places
<1>3. CASE UNCHANGED prs /\ Set(r, Failed(r))
  BY <1>1, <1>2, <1>3, CommitterKeeps
<1>5. CASE UNCHANGED prs /\ Set(r, [ToAgent(r) EXCEPT !.calm = @ /\ branch[r] # 0])
  <2> DEFINE calm == ToAgent(r).calm /\ branch[r] # 0
             j == [ToAgent(r) EXCEPT !.calm = calm]
  <2>1. calm \in BOOLEAN
    BY <1>2 DEF Job
  <2>2. Set(r, j)
    BY <1>5
  <2> HIDE DEF calm
  <2>3. /\ j \in Job /\ j.stage = "commit" /\ j.pc = "agent" /\ j.pr = job[r].pr
        /\ j.commit = job[r].commit /\ j.rows = job[r].rows
    BY <1>2, <2>1 DEF Job
  <2> HIDE DEF j
  <2> QED
    BY <1>1, <1>5, <2>2, <2>3, CommitterKeeps
<1>4. CASE /\ Creatable(r) /\ prs' = Append(prs, [run |-> r, state |-> "OPEN", commit |-> 0])
           /\ \/ Set(r, [ToAgent(r) EXCEPT !.ok = TRUE, !.pr = Len(prs) + 1])
              \/ Set(r, Failed(r))
  <2> DEFINE new == [run |-> r, state |-> "OPEN", commit |-> 0]
  <2>1. new \in PullRequest /\ new.run = r /\ new.state = "OPEN"
    BY DEF PullRequest
  <2>2. prs' = Append(prs, new) /\ prs \in Seq(PullRequest) /\ Len(prs) \in Nat
    BY <1>4, Typed DEF IInv, TypeOK
  <2> HIDE DEF new
  <2>3. PICK n : n = Len(prs) + 1
    OBVIOUS
  <2>4. /\ prs' \in Seq(PullRequest) /\ Len(prs') = n /\ prs'[n] = new /\ n \in Nat
        /\ \A p \in 1..Len(prs) : prs'[p] = prs[p]
    BY <2>1, <2>2, <2>3
  <2>5. PrOf(n, r)'
    <3>1. n \in 1..Len(prs')
      BY <2>2, <2>3, <2>4
    <3> QED
      BY <2>1, <2>4, <3>1 DEF PrOf
  <2>6. PICK j \in Job : /\ Set(r, j) /\ j.stage = "commit" /\ j.pc = "agent" /\ j.pr \in {job[r].pr, n}
                         /\ j.commit = job[r].commit /\ j.rows = job[r].rows
    <3>1. CASE Set(r, Failed(r))
      BY <1>2, <3>1
    <3>2. CASE Set(r, [ToAgent(r) EXCEPT !.ok = TRUE, !.pr = Len(prs) + 1])
      <4> DEFINE k == [ToAgent(r) EXCEPT !.ok = TRUE, !.pr = n]
      <4>1. /\ k \in Job /\ k.stage = "commit" /\ k.pc = "agent" /\ k.pr = n
            /\ k.commit = job[r].commit /\ k.rows = job[r].rows
        BY <1>2, <2>4 DEF Job
      <4>2. Set(r, k)
        BY <2>3, <3>2
      <4> HIDE DEF k
      <4> QED
        BY <4>1, <4>2
    <3> QED
      BY <1>4, <3>1, <3>2
  <2>7. /\ job' \in [Run -> Job] /\ job'[r] = j
        /\ \A q \in Run : q # r => job'[q] = job[q]
    BY <2>6 DEF Set, IInv, TypeOK
  <2>8. TypeOK'
    BY <1>1, <2>4, <2>7 DEF IInv, TypeOK
  <2>9. Grown
    BY <1>1, <2>2, <2>3, <2>4, Typed DEF Grown, IInv
  <2>10. PrsInv'
    <3> SUFFICES ASSUME NEW p \in 1..n
                 PROVE  /\ branch[prs'[p].run] \in Changed
                        /\ prs'[p].state = "MERGED" => /\ prs'[p].commit \in 1..Len(trunk)
                                                       /\ trunk[prs'[p].commit].run = {prs'[p].run}
      BY <1>1, <2>4 DEF PrsInv, CommitOf
    <3>1. CASE p = n
      <4>1. branch[r] \in Changed
        <5>1. branch[r] \in 0..Foreign /\ branch[r] \notin {0, Unborn}
          BY <1>4 DEF Creatable, IInv, TypeOK
        <5> QED
          BY <5>1, BoundsAssumption DEF Changed, Unborn, Foreign
      <4> QED
        BY <2>1, <2>4, <3>1, <4>1
    <3>2. CASE p # n
      <4>1. p \in 1..Len(prs)
        BY <2>2, <2>3, <3>2
      <4> QED
        BY <2>4, <4>1 DEF IInv, PrsInv, CommitOf
    <3> QED
      BY <3>1, <3>2
  <2>11. KnowsItsOwn(r)'
    <3>1. /\ \A p : PrOf(p, r) => PrOf(p, r)'
          /\ \A c : CommitOf(c, r) => CommitOf(c, r)'
      BY <2>8, <2>9, GrownKnows DEF IInv
    <3> QED
      BY <1>1, <2>5, <2>6, <2>7, <3>1 DEF RunInv, KnowsItsOwn, PrOf, CommitOf
  <2>12. InNode(r)' /\ MergesHead(r)' /\ BuiltOfTrunk(r)' /\ RowsAreReal(r)' /\ InOrder(r)'
    BY <1>1, <2>6, <2>7 DEF RunInv, InNode, Required, Nodes, MergesHead, At, BuiltOfTrunk, RowsAreReal, InOrder
  <2>13. RunInv(r)'
    BY <2>11, <2>12 DEF RunInv
  <2>14. job[r].stage \notin Late /\ \A i \in 1..Len(trunk') : ~(i > Len(trunk))
    BY <1>1, Typed DEF Late, IInv
  <2> QED
    BY <1>1, <2>7, <2>8, <2>9, <2>10, <2>13, <2>14, RemoteKeeps
<1> QED
  BY <1>3, <1>4, <1>5 DEF CreatePr

\* The version on the branch is the head, as it was when the PR was looked at, or somebody has
\* pushed since.
LEMMA PutMergeKeeps ==
    ASSUME IInv, NEW r \in Run, PutMerge(r)
    PROVE  IInv'
<1>1. /\ job[r].stage = "merge" /\ job[r].pc = "put" /\ UNCHANGED <<branch, work, ledger>>
      /\ job[r] \in Job /\ RunInv(r)
  BY DEF PutMerge, At, IInv, TypeOK
<1>2. /\ ToAgent(r) \in Job /\ Failed(r) \in Job /\ ToAgent(r).stage = "merge"
      /\ Failed(r).stage = "merge" /\ ToAgent(r).pc = "agent" /\ Failed(r).pc = "agent"
      /\ ToAgent(r).pr = job[r].pr /\ Failed(r).pr = job[r].pr /\ ToAgent(r).commit = job[r].commit
      /\ Failed(r).commit = job[r].commit /\ ToAgent(r).rows = job[r].rows
      /\ Failed(r).rows = job[r].rows
  BY <1>1 DEF Failed, ToAgent, Job, Places
<1>3. job[r].pr # 0 /\ PrOf(job[r].pr, r) /\ (branch[r] = work[r].head \/ job[r].pushed)
  BY <1>1 DEF RunInv, InNode, Required, KnowsItsOwn, MergesHead, At
<1>4. ASSUME NEW j \in Job, Set(r, j), j.stage = "merge", j.pc = "agent", j.pr = job[r].pr
      PROVE  /\ job' \in [Run -> Job] /\ job'[r] = j
             /\ \A q \in Run : q # r => job'[q] = job[q]
             /\ InNode(r)' /\ MergesHead(r)' /\ BuiltOfTrunk(r)'
  <2>1. /\ job' \in [Run -> Job] /\ job'[r] = j
        /\ \A q \in Run : q # r => job'[q] = job[q]
    BY <1>4 DEF Set, IInv, TypeOK
  <2> QED
    BY <1>3, <1>4, <2>1 DEF InNode, Required, Nodes, MergesHead, At, BuiltOfTrunk
<1>5. CASE Set(r, Failed(r)) /\ UNCHANGED <<trunk, prs, image>>
  <2>1. InNode(r)' /\ MergesHead(r)' /\ BuiltOfTrunk(r)'
    BY <1>2, <1>4, <1>5
  <2>2. KnowsItsOwn(r)
    BY <1>1 DEF RunInv
  <2>3. /\ Failed(r).pr # 0 => PrOf(Failed(r).pr, r)
        /\ Failed(r).commit # 0 => CommitOf(Failed(r).commit, r)
        /\ Failed(r).stage \in Late
    BY <1>2, <2>2 DEF KnowsItsOwn, Late
  <2> QED
    BY <1>1, <1>2, <1>5, <2>1, <2>3, JobKeeps, SameLedger
<1>6. ASSUME NEW how \in {"tool", "overtaken", "hand"}, Squash(r, how), how = "tool" => ~job[r].pushed,
             prs' = [prs EXCEPT ![job[r].pr].state = "MERGED", ![job[r].pr].commit = Len(trunk) + 1],
             \/ Set(r, [ToAgent(r) EXCEPT !.ok = TRUE, !.commit = Len(trunk) + 1])
             \/ Set(r, Failed(r))
      PROVE  IInv'
  <2>1. PICK n, p : n = Len(trunk) + 1 /\ p = job[r].pr
    OBVIOUS
  <2>2. n \in Nat /\ Len(trunk) \in Nat
    BY <2>1, Typed DEF IInv
  <2>3. PICK j \in Job : /\ Set(r, j) /\ j.stage = "merge" /\ j.pc = "agent" /\ j.pr = p
                         /\ j.commit \in {job[r].commit, n} /\ j.rows = job[r].rows
    <3>1. CASE Set(r, Failed(r))
      BY <1>2, <2>1, <3>1
    <3>2. CASE Set(r, [ToAgent(r) EXCEPT !.ok = TRUE, !.commit = Len(trunk) + 1])
      <4> DEFINE k == [ToAgent(r) EXCEPT !.ok = TRUE, !.commit = n]
      <4>1. /\ k \in Job /\ k.stage = "merge" /\ k.pc = "agent" /\ k.pr = p
            /\ k.commit = n /\ k.rows = job[r].rows
        BY <1>2, <2>1, <2>2 DEF Job
      <4>2. Set(r, k)
        BY <2>1, <3>2
      <4> HIDE DEF k
      <4> QED
        BY <4>1, <4>2
    <3> QED
      BY <1>6, <3>1, <3>2
  <2>4. /\ job' \in [Run -> Job] /\ job'[r] = j
        /\ \A q \in Run : q # r => job'[q] = job[q]
        /\ InNode(r)' /\ MergesHead(r)' /\ BuiltOfTrunk(r)'
    BY <1>4, <2>1, <2>3
  <2>5. PrOf(p, r) /\ MarksMerged(p, n)
    BY <1>3, <1>6, <2>1 DEF MarksMerged
  <2>6. /\ TypeOK' /\ Grown /\ PrsInv'
        /\ Len(trunk') = n /\ CommitOf(n, r)'
        /\ trunk'[n].how = how /\ trunk'[n].tree[r] = branch[r]
        /\ \A i \in 1..Len(trunk) : image'[i] = image[i]
    <3>3. /\ branch' = branch /\ work' = work /\ ledger' = ledger /\ n = Len(trunk) + 1
          /\ job' \in [Run -> Job]
      BY <1>1, <2>1, <2>4
    <3> QED
      BY <1>6, <2>5, <3>3, Squashed
  <2>7. KnowsItsOwn(r)'
    <3>1. /\ \A o : PrOf(o, r) => PrOf(o, r)'
          /\ \A c : CommitOf(c, r) => CommitOf(c, r)'
      BY <2>6, GrownKnows DEF IInv
    <3> QED
      BY <1>1, <2>1, <2>3, <2>4, <2>6, <3>1 DEF RunInv, KnowsItsOwn, PrOf, CommitOf
  <2>8. InOrder(r)' /\ RowsAreReal(r)'
    BY <1>1, <2>3, <2>4 DEF RunInv, InOrder, RowsAreReal
  <2>9. RunInv(r)'
    BY <2>4, <2>7, <2>8 DEF RunInv
  <2>10. \A q \in Run : CommitOf(job[q].commit, q) => image'[job[q].commit] = image[job[q].commit]
    BY <2>6 DEF CommitOf
  <2>11. how = "tool" => branch[r] = work[r].head /\ work[r].head # 0
    <3>1. branch[r] \in Changed
      BY <2>5 DEF IInv, PrsInv, PrOf
    <3>2. 0 \notin Changed
      BY BoundsAssumption DEF Changed, Foreign
    <3> QED
      BY <1>3, <1>6, <3>1, <3>2
  <2>12. \A i \in 1..Len(trunk') : i > Len(trunk) => i = n
    BY <2>1, <2>2, <2>6
  <2>13. trunk'[n].run = {r} /\ job'[r].stage \in Late
    BY <2>3, <2>4, <2>6 DEF CommitOf, Late
  <2>14. trunk'[n].how = "tool" => trunk'[n].tree[r] = work[r].head
    BY <2>6, <2>11
  <2> QED
    BY <1>1, <2>4, <2>6, <2>9, <2>10, <2>11, <2>12, <2>13, <2>14, RemoteKeeps
<1> DEFINE how == IF job[r].pushed THEN "overtaken" ELSE "tool"
<1>7. how \in {"tool", "overtaken", "hand"} /\ (how = "tool" => ~job[r].pushed)
  OBVIOUS
<1>8. \/ Set(r, Failed(r)) /\ UNCHANGED <<trunk, prs, image>>
      \/ /\ Squash(r, how)
         /\ prs' = [prs EXCEPT ![job[r].pr].state = "MERGED", ![job[r].pr].commit = Len(trunk) + 1]
         /\ \/ Set(r, [ToAgent(r) EXCEPT !.ok = TRUE, !.commit = Len(trunk) + 1])
            \/ Set(r, Failed(r))
  BY DEF PutMerge
<1> HIDE DEF how
<1> QED
  BY <1>5, <1>6, <1>7, <1>8

\* Only ci of the run names an image by its commit, and only with a jar it has built.
LEMMA BuildImageKeeps ==
    ASSUME IInv, NEW r \in Run, BuildImage(r)
    PROVE  IInv'
<1>1. /\ job[r].stage = "ci" /\ job[r].pc = "agent" /\ job[r].commit # 0 /\ job[r].built
      /\ UNCHANGED <<trunk, branch, prs, work, ledger>> /\ job[r] \in Job /\ RunInv(r)
      /\ work[r].jar \in Tree
  BY CallsInNode, NoMore DEF BuildImage, IInv, RunInv, Calls, Workspace
<1>2. PICK c : c = job[r].commit
  OBVIOUS
<1>3. CommitOf(c, r) /\ OfTrunk(r, work[r].jar) /\ (job[r].ok => OfTrunk(r, image[c]))
  BY <1>1, <1>2 DEF RunInv, KnowsItsOwn, BuiltOfTrunk
<1>4. image \in Seq(Tree) /\ Len(image) = Len(trunk) /\ c \in 1..Len(image)
  BY <1>3 DEF IInv, TypeOK, CommitOf
<1> DEFINE named == [image EXCEPT ![c] = work[r].jar]
<1>5. /\ named \in Seq(Tree) /\ Len(named) = Len(image) /\ named[c] = work[r].jar
      /\ \A i \in 1..Len(image) : i # c => named[i] = image[i]
  <2>1. named \in Seq(Tree)
    BY <1>1, <1>4
  <2>2. Len(named) = Len(image)
    BY <1>4
  <2>3. named[c] = work[r].jar /\ \A i \in 1..Len(image) : i # c => named[i] = image[i]
    BY <1>4
  <2> QED
    BY <2>1, <2>2, <2>3
<1> HIDE DEF named
<1>6. PICK j : /\ Set(r, j) /\ \/ j = [[job[r] EXCEPT !.called = TRUE] EXCEPT !.ok = TRUE] /\ image' = named
                               \/ /\ j = [[job[r] EXCEPT !.called = TRUE] EXCEPT !.calm = FALSE]
                                  /\ image' \in {image, named}
  BY <1>2 DEF BuildImage, named
<1>7. /\ j \in Job /\ j.stage = "ci" /\ j.pc = "agent" /\ j.built /\ j.pr = job[r].pr /\ j.commit = c
      /\ j.rows = job[r].rows /\ (j.ok => job[r].ok \/ image' = named)
  BY <1>1, <1>2, <1>6 DEF Job
<1>8. /\ job' \in [Run -> Job] /\ job'[r] = j
      /\ \A q \in Run : q # r => job'[q] = job[q]
  BY <1>6, <1>7 DEF Set, IInv, TypeOK
<1>9. /\ image' \in Seq(Tree) /\ Len(image') = Len(trunk)
      /\ \A i \in 1..Len(image) : i # c => image'[i] = image[i]
      /\ image' = image \/ image'[c] = work[r].jar
  BY <1>4, <1>5, <1>6
<1>10. TypeOK'
  BY <1>1, <1>8, <1>9 DEF IInv, TypeOK
<1>11. Grown
  BY <1>1, Typed DEF Grown, IInv
<1>12. PrsInv'
  BY <1>1 DEF IInv, PrsInv, CommitOf
<1>13. WorkTree(r)' = WorkTree(r) /\ HeadTree(r)' = HeadTree(r)
  BY <1>1 DEF WorkTree, HeadTree
<1>14. j.ok => OfTrunk(r, image'[c])
  BY <1>3, <1>5, <1>7, <1>9
<1>15. BuiltOfTrunk(r)'
  <2>1. work[r].jar = WorkTree(r) /\ HeadTree(r) = trunk[c].tree
    BY <1>2, <1>3 DEF OfTrunk
  <2>2. j.ok => image'[c] = WorkTree(r)
    BY <1>14 DEF OfTrunk
  <2> QED
    BY <1>1, <1>7, <1>8, <1>13, <2>1, <2>2 DEF BuiltOfTrunk, OfTrunk
<1>16. InNode(r)' /\ MergesHead(r)' /\ InOrder(r)' /\ RowsAreReal(r)'
  BY <1>1, <1>2, <1>7, <1>8 DEF RunInv, InNode, Required, Nodes, MergesHead, At, InOrder, RowsAreReal
<1>17. KnowsItsOwn(r)'
  BY <1>1, <1>2, <1>7, <1>8 DEF RunInv, KnowsItsOwn, PrOf, CommitOf
<1>18. RunInv(r)'
  BY <1>15, <1>16, <1>17 DEF RunInv
<1>19. ASSUME NEW q \in Run, q # r, CommitOf(job[q].commit, q)
       PROVE  image'[job[q].commit] = image[job[q].commit]
  <2>1. job[q].commit # c /\ job[q].commit \in 1..Len(trunk)
    BY <1>3, <1>19 DEF CommitOf
  <2> QED
    BY <1>4, <1>9, <2>1
<1>20. job'[r].stage \in Late /\ \A i \in 1..Len(trunk') : ~(i > Len(trunk))
  BY <1>1, <1>7, <1>8, Typed DEF Late, IInv
<1> QED
  BY <1>1, <1>8, <1>10, <1>11, <1>12, <1>18, <1>19, <1>20, RemoteKeeps

LEMMA HandKeeps ==
    ASSUME IInv, NEW p \in 1..Len(prs), MergeByHand(p) \/ CloseByHand(p)
    PROVE  IInv'
<1>1. PICK r \in Run : r = prs[p].run
  BY Typed DEF IInv, PullRequest
<1>2. /\ job' = Disturb(r)
      /\ branch' = branch /\ work' = work /\ ledger' = ledger /\ PrOf(p, r)
  BY <1>1 DEF MergeByHand, CloseByHand, PrOf
<1>3. /\ job' \in [Run -> Job] /\ Same(job'[r], job[r]) /\ job'[r].pushed = job[r].pushed
      /\ \A q \in Run : q # r => job'[q] = job[q]
  BY <1>2, DisturbIs DEF IInv
<1>4. job'[r].stage = job[r].stage
  BY <1>3 DEF Same
<1>5. CASE MergeByHand(p)
  <2>1. PICK n : n = Len(trunk) + 1
    OBVIOUS
  <2>2. PICK how \in {"tool", "overtaken", "hand"} : how = "hand"
    OBVIOUS
  <2>3. Squash(r, how) /\ MarksMerged(p, n)
    BY <1>1, <1>5, <2>1, <2>2 DEF MergeByHand, MarksMerged
  <2>4. /\ TypeOK' /\ Grown /\ PrsInv'
        /\ Len(trunk') = n /\ CommitOf(n, r)'
        /\ trunk'[n].how = how /\ trunk'[n].tree[r] = branch[r]
        /\ \A i \in 1..Len(trunk) : image'[i] = image[i]
    <3>1. /\ branch' = branch /\ work' = work /\ ledger' = ledger /\ n = Len(trunk) + 1
          /\ job' \in [Run -> Job] /\ PrOf(p, r)
      BY <1>2, <1>3, <2>1
    <3> QED
      BY <2>3, <3>1, Squashed
  <2>5. \A q \in Run : CommitOf(job[q].commit, q) => image'[job[q].commit] = image[job[q].commit]
    BY <2>4 DEF CommitOf
  <2>6. RunInv(r)'
    BY <1>2, <1>3, <2>4, <2>5, OthersKeep
  <2>7. \A i \in 1..Len(trunk') : i > Len(trunk) => trunk'[i].how # "tool"
    <3>1. Len(trunk) \in Nat
      BY Typed DEF IInv
    <3>2. \A i \in 1..Len(trunk') : i > Len(trunk) => i = n
      BY <2>1, <2>4, <3>1
    <3> QED
      BY <2>2, <2>4, <3>2
  <2> QED
    BY <1>2, <1>3, <1>4, <2>4, <2>5, <2>6, <2>7, RemoteKeeps
<1>6. CASE CloseByHand(p)
  <2> DEFINE m == [prs[p] EXCEPT !.state = "CLOSED"]
  <2>1. UNCHANGED <<trunk, image>> /\ prs' = [prs EXCEPT ![p] = m] /\ prs \in Seq(PullRequest)
    BY <1>6 DEF CloseByHand, IInv, TypeOK
  <2>2. m \in PullRequest /\ m.run = prs[p].run /\ m.state = "CLOSED"
    BY Typed DEF IInv, PullRequest
  <2> HIDE DEF m
  <2>3. prs' \in Seq(PullRequest)
    BY <2>1, <2>2
  <2>4. Len(prs') = Len(prs)
    BY <2>1, <2>2
  <2>5. \A o \in 1..Len(prs) : prs'[o] = IF o = p THEN m ELSE prs[o]
    BY <2>1, <2>2
  <2>6. TypeOK'
    BY <1>2, <1>3, <2>1, <2>3 DEF IInv, TypeOK
  <2>7. Grown
    BY <2>1, <2>2, <2>4, <2>5, Typed DEF Grown, IInv
  <2>8. PrsInv'
    BY <1>2, <2>1, <2>2, <2>4, <2>5 DEF IInv, PrsInv, CommitOf
  <2>9. RunInv(r)'
    BY <1>2, <1>3, <2>1, <2>6, <2>7, OthersKeep
  <2>10. \A i \in 1..Len(trunk') : ~(i > Len(trunk))
    BY <2>1, Typed DEF IInv
  <2> QED
    BY <1>2, <1>3, <1>4, <2>1, <2>6, <2>7, <2>8, <2>9, <2>10, RemoteKeeps
<1> QED
  BY <1>5, <1>6

\* Of a branch that somebody else has pushed to the run merges nothing it has not looked at.
LEMMA PushByHandKeeps ==
    ASSUME IInv, NEW r \in Run, PushByHand(r)
    PROVE  IInv'
<1>1. /\ branch[r] \in Version /\ branch' = [branch EXCEPT ![r] = Foreign]
      /\ job' = [Disturb(r) EXCEPT ![r].pushed = job[r].pc = "put"]
      /\ UNCHANGED <<trunk, prs, work, ledger, image>> /\ TypeOK /\ RunInv(r)
  BY DEF PushByHand, IInv
<1>2. /\ branch' \in [Run -> 0..Foreign] /\ branch'[r] = Foreign /\ Foreign \notin Version
      /\ \A q \in Run : q # r => branch'[q] = branch[q]
  BY <1>1, BoundsAssumption DEF TypeOK, Foreign, Version
<1>3. /\ job' \in [Run -> Job] /\ Same(job'[r], job[r])
      /\ job'[r].pushed <=> job[r].pc = "put"
      /\ \A q \in Run : q # r => job'[q] = job[q]
  BY <1>1, DisturbIs
<1>4. TypeOK' /\ Grown
  BY <1>1, <1>2, <1>3, Typed DEF TypeOK, Grown
<1>5. PrsInv'
  BY <1>1, <1>2, Typed DEF IInv, PrsInv, CommitOf, Changed, PullRequest
<1>6. InNode(r)' /\ InOrder(r)' /\ RowsAreReal(r)'
  BY <1>1, <1>2, <1>3 DEF Same, RunInv, InNode, Required, InOrder, RowsAreReal
<1>7. MergesHead(r)'
  BY <1>1, <1>3 DEF Same, MergesHead, At
<1>8. KnowsItsOwn(r)' /\ BuiltOfTrunk(r)'
  BY <1>1, <1>3 DEF Same, RunInv, KnowsItsOwn, PrOf, CommitOf, BuiltOfTrunk, OfTrunk, WorkTree, HeadTree
<1>9. RunInv(r)'
  BY <1>6, <1>7, <1>8 DEF RunInv
<1>10. /\ job[r].stage \in Late => job'[r].stage \in Late
       /\ \A i \in 1..Len(trunk') : ~(i > Len(trunk))
  BY <1>1, <1>3, Typed DEF Same
<1> QED
  BY <1>1, <1>2, <1>3, <1>4, <1>5, <1>9, <1>10, RemoteKeeps

-----------------------------------------------------------------------------
(* The theorems *)

LEMMA IInvInit == Init => IInv
<1> SUFFICES ASSUME Init
             PROVE  IInv
  OBVIOUS
<1>1. Empty \in Tree /\ NoTree \in Tree
  BY BoundsAssumption DEF Empty, NoTree, Tree, Unborn, Foreign
<1>2. trunk \in Seq(Commit) /\ Len(trunk) = 1 /\ trunk[1].how = "before"
  <2> DEFINE c == [tree |-> Empty, run |-> {}, how |-> "before"]
  <2>1. c \in Commit /\ c.how = "before"
    BY <1>1 DEF Commit
  <2>2. trunk = <<c>>
    BY DEF Init
  <2> HIDE DEF c
  <2> QED
    BY <2>1, <2>2
<1>3. image \in Seq(Tree) /\ Len(image) = 1
  BY <1>1 DEF Init
<1>4. branch \in [Run -> 0..Foreign] /\ prs \in Seq(PullRequest) /\ Len(prs) = 0
  BY BoundsAssumption DEF Init, Unborn, Foreign
<1>5. /\ work \in [Run -> Workspace]
      /\ \A r \in Run : work[r].head = 0 /\ work[r].work = 0 /\ branch[r] = Unborn
  BY <1>1, BoundsAssumption DEF Init, Workspace, Version
<1>6. /\ job \in [Run -> Job]
      /\ \A r \in Run : /\ job[r].stage = "prepare" /\ job[r].pc = "idle" /\ ~job[r].ok /\ ~job[r].built
                        /\ job[r].pr = 0 /\ job[r].commit = 0 /\ job[r].rows = "none"
  BY DEF Init, Fresh, Job, Stages, Places
<1>7. /\ ledger \in [Run -> [Keyed -> Record]]
      /\ \A r \in Run : \A k \in Keyed : ledger[r][k].pr = 0 /\ ledger[r][k].commit = 0
  BY DEF Init, NotRecorded, Record
<1>8. TypeOK
  BY <1>2, <1>3, <1>4, <1>5, <1>6, <1>7 DEF TypeOK
<1>9. ASSUME NEW r \in Run
      PROVE  RunInv(r)
  <2>1. Unborn \notin Version
    BY BoundsAssumption DEF Unborn, Version
  <2> QED
    BY <1>5, <1>6, <1>7, <2>1
       DEF RunInv, InNode, KnowsItsOwn, InOrder, MergesHead, At, BuiltOfTrunk, RowsAreReal
<1>10. PrsInv /\ MergeInv
  BY <1>2, <1>4 DEF PrsInv, MergeInv
<1> QED
  BY <1>8, <1>9, <1>10 DEF IInv

LEMMA IInvNext == IInv /\ [Next]_vars => IInv'
<1> SUFFICES ASSUME IInv, [Next]_vars
             PROVE  IInv'
  OBVIOUS
<1>1. ASSUME NEW r \in Run, Step(r)
      PROVE  IInv'
  BY <1>1, PrepareKeeps, BeginKeeps, ReuseKeeps, BreakKeeps, EndFixKeeps, TestKeeps, EndKeeps,
     WriteFileKeeps, ExecKeeps, GitCommitKeeps, GitPushKeeps, OpenPrKeeps, PushKeeps, ListPrKeeps, CreatePrKeeps,
     ViewPrKeeps, PutMergeKeeps, BuildArtifactKeeps, BuildImageKeeps DEF Step
<1>2. ASSUME NEW p \in 1..Len(prs), MergeByHand(p) \/ CloseByHand(p)
      PROVE  IInv'
  BY <1>2, HandKeeps
<1>4. ASSUME NEW r \in Run, PushByHand(r)
      PROVE  IInv'
  BY <1>4, PushByHandKeeps
<1>3. CASE UNCHANGED vars
  <2>1. TypeOK' /\ PrsInv' /\ MergeInv'
    BY <1>3 DEF vars, IInv, TypeOK, PrsInv, CommitOf, MergeInv
  <2>2. ASSUME NEW r \in Run
        PROVE  RunInv(r)'
    BY <1>3 DEF vars, IInv, RunInv, InNode, Required, KnowsItsOwn, PrOf, CommitOf, InOrder, MergesHead, At,
                BuiltOfTrunk, OfTrunk, WorkTree, HeadTree, RowsAreReal
  <2> QED
    BY <2>1, <2>2 DEF IInv
<1> QED
  BY <1>1, <1>2, <1>3, <1>4 DEF Next

LEMMA Invariance == Spec => []IInv
BY IInvInit, IInvNext, PTL DEF Spec

\* What ws_merge_pr puts on the trunk is what the run has committed, and there is something: no
\* retry, no answer that got lost, no other run and no push of somebody else to the branch makes it
\* merge another version, unless that push falls between its check of the head and the merge, which
\* names no commit.
THEOREM HeadIsMerged == Spec => []MergedIsHead
<1>1. IInv => MergedIsHead
  BY DEF IInv, MergeInv, MergedIsHead
<1> QED
  BY <1>1, Invariance, PTL

\* An image that is released bears the tag of a trunk commit and is built of its tree, or files
\* were left uncommitted.
THEOREM TrunkIsReleased == Spec => []ReleasedIsTrunk
<1>1. ASSUME IInv
      PROVE  ReleasedIsTrunk
  <2> SUFFICES ASSUME NEW r \in Run, job[r].stage = "released", work[r].work = work[r].head
               PROVE  image[job[r].commit] = trunk[job[r].commit].tree
    BY DEF ReleasedIsTrunk
  <2>1. OfTrunk(r, image[job[r].commit])
    BY <1>1 DEF IInv, RunInv, BuiltOfTrunk
  <2> QED
    BY <2>1 DEF OfTrunk, WorkTree, HeadTree
<1> QED
  BY <1>1, Invariance, PTL

\* A claim that is passed on was not refuted by the calls.
FixInv == \A r \in Run : job[r].stage = "test" /\ job[r].claim => job[r].rows # "error"

LEMMA TestFollowsFix ==
    ASSUME IInv, NEW r \in Run, Step(r), ~EndFix(r)
    PROVE  job'[r].stage # "test" \/ job'[r] = job[r]
<1>1. /\ job[r] \in Job /\ job \in [Run -> Job] /\ InNode(r)
  BY DEF IInv, TypeOK, RunInv
<1>2. ASSUME NEW j, Set(r, j), j.stage # "test"
      PROVE  job'[r].stage # "test"
  BY <1>1, <1>2 DEF Set
<1>3. /\ ToAgent(r).stage = job[r].stage /\ Failed(r).stage = job[r].stage
      /\ Again(r).stage = job[r].stage
  BY <1>1 DEF ToAgent, Failed, Again, Fresh, Job
<1>4. CASE Prepare(r)
  BY <1>1, <1>4 DEF Prepare, Set, Job
<1>5. CASE Begin(r)
  BY <1>1, <1>2, <1>3, <1>5 DEF Begin, Nodes
<1>6. CASE Reuse(r)
  <2> DEFINE a == Advance(r, FALSE)
             out == Recorded(r)
             j == IF job[r].stage = "commit" THEN [a EXCEPT !.pr = out.pr]
                  ELSE [a EXCEPT !.commit = out.commit]
  <2>1. Set(r, j) /\ out.verdict = "good"
    BY <1>6 DEF Reuse
  <2>2. job[r].stage \in Keyed
    BY <2>1 DEF Recorded, NotRecorded
  <2>3. TypeOK /\ job[r].stage \in DOMAIN NextStage /\ NextStage[job[r].stage] # "test"
    BY <2>2 DEF IInv, Keyed, NextStage
  <2>4. IdleAs(a, r, NextStage[job[r].stage])
    BY <2>3, AdvanceIs, Zenon
  <2>5. a \in Job /\ a.stage # "test"
    BY <2>3, <2>4 DEF IdleAs
  <2> HIDE DEF a, out
  <2>6. j.stage # "test"
    BY <2>5 DEF Job
  <2> HIDE DEF j
  <2> QED
    BY <1>2, <2>1, <2>6
<1>7. CASE Break(r)
  BY <1>1, <1>2, <1>3, <1>7 DEF Break, InNode, Nodes
<1>8. CASE Test(r) \/ End(r)
  <2>1. TypeOK /\ job[r].stage \in DOMAIN NextStage /\ NextStage[job[r].stage] # "test"
    <3>1. job[r].stage \in {"test", "commit", "merge", "ci"}
      BY <1>8 DEF Test, At, End
    <3> QED
      BY <3>1 DEF IInv, NextStage
  <2>2. IdleAs(Advance(r, FALSE), r, NextStage[job[r].stage])
    BY <2>1, AdvanceIs, Zenon
  <2>3. Advance(r, FALSE).stage # "test"
    BY <2>1, <2>2 DEF IdleAs
  <2>4. Set(r, Advance(r, FALSE)) \/ (Set(r, Again(r)) /\ job[r].stage # "test")
    BY <1>8 DEF Test, End
  <2> QED
    BY <1>2, <1>3, <2>3, <2>4
<1>15. CASE GitPush(r)
  BY <1>15 DEF GitPush
<1>9. CASE WriteFile(r) \/ Exec(r) \/ GitCommit(r)
  <2>1. job[r].stage \in {"fix", "commit"}
    BY <1>1, <1>9, CallsInNode DEF WriteFile, Exec, GitCommit
  <2>2. CASE WriteFile(r)
    <3>1. \A rows : /\ [job[r] EXCEPT !.rows = rows].stage # "test"
                    /\ [Failed(r) EXCEPT !.rows = rows].stage # "test"
      BY <1>1, <2>1 DEF Failed, ToAgent, Job
    <3> QED
      BY <1>2, <2>2, <3>1 DEF WriteFile
  <2>3. CASE Exec(r)
    BY <1>1, <2>1, <2>3 DEF Exec, Set, Job
  <2>4. CASE GitCommit(r)
    BY <2>4 DEF GitCommit
  <2> QED
    BY <1>9, <2>2, <2>3, <2>4
<1>10. CASE OpenPr(r)
  <2>1. job[r].stage = "commit"
    BY <1>1, <1>10, CallsInNode DEF OpenPr
  <2> QED
    BY <1>1, <1>10, <2>1 DEF OpenPr, Set, Job
<1>11. CASE Push(r) \/ CreatePr(r) \/ PutMerge(r)
  <2>1. job[r].stage \in {"commit", "merge"}
    BY <1>11 DEF Push, CreatePr, PutMerge, At
  <2>2. CASE Push(r)
    BY <1>1, <1>2, <1>3, <2>1, <2>2 DEF Push, Job
  <2>3. CASE CreatePr(r)
    BY <1>1, <1>2, <1>3, <2>1, <2>3 DEF CreatePr, Job, ToAgent
  <2>4. CASE PutMerge(r)
    BY <1>1, <1>2, <1>3, <2>1, <2>4 DEF PutMerge, Job, ToAgent
  <2> QED
    BY <1>11, <2>2, <2>3, <2>4
<1>12. CASE ListPr(r)
  <2>1. job[r].stage = "commit"
    BY <1>12 DEF ListPr, At
  <2>2. CASE \E p \in OpenPrsOf(r) : Set(r, [ToAgent(r) EXCEPT !.ok = TRUE, !.pr = p])
    BY <1>1, <1>2, <2>1, <2>2 DEF ToAgent, Job
  <2>3. CASE Set(r, [job[r] EXCEPT !.pc = "create", !.calm = @ /\ OpenPrsOf(r) = {}])
    BY <1>1, <1>2, <2>1, <2>3 DEF Job
  <2> QED
    BY <1>12, <2>2, <2>3 DEF ListPr
<1>13. CASE ViewPr(r)
  <2>1. job[r].stage = "merge"
    BY <1>1, <1>13, CallsInNode DEF ViewPr
  <2> DEFINE c == [job[r] EXCEPT !.called = TRUE]
  <2>2. PICK j : /\ Set(r, j)
                 /\ \/ j = [c EXCEPT !.calm = FALSE]
                    \/ j = [c EXCEPT !.ok = TRUE, !.commit = prs[job[r].pr].commit]
                    \/ j = [c EXCEPT !.pc = "put"]
                    \/ j = c
    BY <1>13 DEF ViewPr
  <2>3. j.stage = "merge"
    BY <1>1, <2>1, <2>2 DEF Job
  <2> QED
    BY <1>2, <2>2, <2>3
<1>14. CASE BuildArtifact(r) \/ BuildImage(r)
  <2>1. job[r].stage = "ci"
    BY <1>1, <1>14, CallsInNode DEF BuildArtifact, BuildImage
  <2>2. CASE BuildArtifact(r)
    BY <1>1, <1>2, <1>3, <2>1, <2>2 DEF BuildArtifact, Job, Failed, ToAgent
  <2>3. CASE BuildImage(r)
    BY <1>1, <1>2, <2>1, <2>3 DEF BuildImage, Job
  <2> QED
    BY <1>14, <2>2, <2>3
<1> QED
  BY <1>4, <1>5, <1>6, <1>7, <1>8, <1>9, <1>10, <1>11, <1>12, <1>13, <1>14, <1>15 DEF Step

LEMMA OnlyTheActor ==
    ASSUME IInv, NEW r \in Run, Step(r), NEW q \in Run, q # r
    PROVE  job'[q] = job[q]
<1>1. job \in [Run -> Job]
  BY DEF IInv, TypeOK
<1>2. \/ job' = job
      \/ \E j : Set(r, j)
  BY DEF Step, Prepare, Begin, Reuse, Break, EndFix, Test, End, WriteFile, Exec, GitCommit, GitPush, OpenPr,
         Push, ListPr, CreatePr, ViewPr, PutMerge, BuildArtifact, BuildImage
<1> QED
  BY <1>1, <1>2 DEF Set

LEMMA FixNext == IInv /\ FixInv /\ [Next]_vars => FixInv'
<1> SUFFICES ASSUME IInv, FixInv, [Next]_vars, NEW r \in Run, job'[r].stage = "test", job'[r].claim
             PROVE  job'[r].rows # "error"
  BY DEF FixInv
<1>1. CASE job'[r] = job[r]
  BY <1>1 DEF FixInv
<1>2. CASE EndFix(r)
  <2>1. job[r].stage = "fix" /\ TypeOK
    BY <1>2 DEF EndFix, At, IInv
  <2>2. PICK claim \in BOOLEAN : Set(r, IF Supported(r, claim) THEN Advance(r, claim) ELSE Again(r))
    BY <1>2 DEF EndFix
  <2>3. IdleAs(Again(r), r, "fix")
    BY <2>1, AgainIs
  <2>4. Advance(r, claim).claim = claim /\ (Advance(r, claim).rows = IF claim THEN job[r].rows ELSE "none")
    BY <2>1, AdvanceIs DEF NextStage
  <2>5. CASE ~Supported(r, claim)
    BY <2>1, <2>2, <2>3, <2>5 DEF Set, TypeOK, IdleAs
  <2>6. CASE Supported(r, claim)
    <3>1. job'[r] = Advance(r, claim)
      BY <2>1, <2>2, <2>6 DEF Set, TypeOK
    <3> QED
      BY <2>4, <2>6, <3>1 DEF Supported
  <2> QED
    BY <2>5, <2>6
<1>3. ASSUME NEW q \in Run, Step(q), ~(q = r /\ EndFix(r))
      PROVE  job'[r].rows # "error"
  BY <1>1, <1>3, TestFollowsFix, OnlyTheActor
<1>4. ASSUME NEW q \in Run,
             \/ job' = Disturb(q)
             \/ job' = [Disturb(q) EXCEPT ![q].pushed = job[q].pc = "put"]
      PROVE  job'[r].rows # "error"
  <2>1. r # q => job'[r] = job[r]
    BY <1>4, DisturbIs DEF IInv
  <2>2. Same(job'[q], job[q])
    BY <1>4, DisturbIs DEF IInv
  <2> QED
    BY <2>1, <2>2 DEF Same, FixInv
<1>5. ASSUME NEW p \in 1..Len(prs), MergeByHand(p) \/ CloseByHand(p)
      PROVE  job'[r].rows # "error"
  <2>1. prs[p].run \in Run /\ job' = Disturb(prs[p].run)
    BY <1>5, Typed DEF IInv, PullRequest, MergeByHand, CloseByHand
  <2> QED
    BY <1>4, <2>1
<1>6. ASSUME NEW q \in Run, PushByHand(q)
      PROVE  job'[r].rows # "error"
  BY <1>4, <1>6 DEF PushByHand
<1> QED
  BY <1>1, <1>2, <1>3, <1>5, <1>6 DEF Next, vars

\* A fix that says it changed files has changed some, unless no call shows anything or a command in
\* the sandbox may have done it: a write that failed does not pass for one.
THEOREM FixesAreReal == Spec => []FixIsReal
<1>1. Init => FixInv
  BY DEF Init, FixInv, Fresh
<1>2. ASSUME IInv, FixInv
      PROVE  FixIsReal
  <2> SUFFICES ASSUME NEW r \in Run, job[r].stage = "test", job[r].claim,
                      job[r].rows \notin {"none", "exec"}
               PROVE  work[r].work # 0
    BY DEF FixIsReal
  <2>1. job[r].rows \in {"none", "error", "write", "exec"} /\ job[r].rows # "error"
    BY <1>2 DEF IInv, TypeOK, Job, FixInv
  <2> QED
    BY <1>2, <2>1 DEF IInv, RunInv, RowsAreReal
<1> QED
  BY <1>1, <1>2, FixNext, Invariance, PTL DEF Spec

-----------------------------------------------------------------------------
(* Retries *)

\* Until a workspace is prepared there is none; only its own branch is pushed as one, and a list or
\* a creation of PRs comes after the push.
Placed(r) ==
    /\ job[r].stage = "prepare" => work[r].git = "absent"
    /\ work[r].git # "branch" => branch[r] = Unborn
    /\ job[r].pc \in {"push", "list", "create"} => work[r].git \in {"trunk", "branch"}
    /\ job[r].pc \in {"list", "create"} /\ work[r].git = "branch" => branch[r] # Unborn

\* The trunk lags behind the commit and the remote head, and a workspace starts behind the trunk.
Lags(q) ==
    /\ Tip.tree[q] <= work[q].head \/ branch[q] = Foreign
    /\ branch[q] # Unborn => Tip.tree[q] <= branch[q]
    /\ \A r \in Run : work[r].base[q] <= Tip.tree[q]

\* What an undisturbed attempt got for an answer, as long as it was no success, still stands.
Blocked(r, p) == prs[p].state # "MERGED" /\ ~Mergeable(r, p)

Answered(r) ==
    /\ job[r].pc = "idle" => ~job[r].called
    /\ At(r, "commit", "agent") /\ job[r].called /\ job[r].calm /\ ~job[r].ok =>
          work[r].git # "branch" \/ branch[r] = Foreign
    /\ At(r, "commit", "create") /\ job[r].calm => OpenPrsOf(r) = {}
    /\ At(r, "merge", "agent") /\ job[r].called /\ job[r].calm /\ ~job[r].ok =>
          Blocked(r, job[r].pr)
    /\ job[r].stage = "ci" /\ job[r].called /\ job[r].calm => job[r].ok /\ job[r].built

RetryInv == \A r \in Run : Placed(r) /\ Lags(r) /\ Answered(r)

TrunkGrows == \A q \in Run : Tip.tree[q] <= Tip'.tree[q]

LEMMA Numbers ==
    ASSUME TypeOK
    PROVE  /\ Unborn \in Nat /\ MaxWrites \in Nat /\ Unborn = MaxWrites + 1
           /\ Foreign = MaxWrites + 2 /\ Foreign \notin Version /\ Unborn \notin Version
           /\ \A q \in Run : /\ Tip.tree[q] \in Nat /\ branch[q] \in Nat /\ Tip.tree[q] <= Foreign
                             /\ branch[q] \in 0..Foreign
                             /\ work[q].head \in 0..MaxWrites /\ work[q].work \in 0..MaxWrites
                             /\ work[q].git \in {"absent", "trunk", "detached", "branch"}
                             /\ work[q] \in Workspace /\ job[q] \in Job
           /\ \A q, r \in Run : work[r].base[q] \in Nat
<1>1. /\ Unborn \in Nat /\ MaxWrites \in Nat /\ Unborn = MaxWrites + 1
      /\ Foreign = MaxWrites + 2 /\ Foreign \notin Version /\ Unborn \notin Version
  BY BoundsAssumption DEF Unborn, Foreign, Version
<1>2. \A q \in Run : /\ work[q] \in Workspace /\ job[q] \in Job /\ branch[q] \in Nat
                    /\ branch[q] \in 0..Foreign
  BY <1>1 DEF TypeOK
<1>3. Tip.tree \in Tree /\ \A r \in Run : work[r].base \in Tree
  BY <1>2, Typed DEF Commit, Workspace
<1>4. \A t \in Tree : \A q \in Run : t[q] \in Nat /\ t[q] <= Foreign
  BY <1>1 DEF Tree
<1> QED
  BY <1>1, <1>2, <1>3, <1>4 DEF Workspace, Version

\* Commits and pushes leave the trunk behind.
OffTrunk(q) ==
    /\ work'[q].base \in {work[q].base, Tip.tree}
    /\ work'[q].head \in Nat /\ work[q].head <= work'[q].head
    /\ branch'[q] \in {branch[q], work[q].head, Foreign}
    /\ branch[q] = Foreign => branch'[q] = Foreign

LEMMA LagsLocal ==
    ASSUME IInv, RetryInv, UNCHANGED trunk, \A q \in Run : OffTrunk(q)
    PROVE  TrunkGrows /\ \A q \in Run : Lags(q)'
<1>1. Tip' = Tip
  BY DEF Tip
<1>2. TypeOK
  BY DEF IInv
<1>3. ASSUME NEW q \in Run
      PROVE  Lags(q)'
  <2>1. /\ Tip.tree[q] \in Nat /\ branch[q] \in Nat /\ work[q].head \in Nat /\ Tip.tree[q] <= Foreign
        /\ \A r \in Run : work[r].base[q] \in Nat
    BY <1>2, Numbers
  <2>2. Lags(q)
    BY DEF RetryInv
  <2>3. /\ Tip.tree[q] <= work'[q].head \/ branch'[q] = Foreign
        /\ branch'[q] # Unborn => Tip.tree[q] <= branch'[q]
    BY <2>1, <2>2 DEF Lags, OffTrunk
  <2>4. \A r \in Run : work'[r].base[q] <= Tip.tree[q]
    BY <2>1, <2>2 DEF Lags, OffTrunk
  <2> QED
    BY <1>1, <2>3, <2>4 DEF Lags
<1> QED
  BY <1>1, <1>2, <1>3, Numbers DEF TrunkGrows

\* A commit on the trunk brings a later version of one run.
LEMMA LagsAppend ==
    ASSUME IInv, RetryInv, NEW r \in Run, NEW c \in Commit, trunk' = Append(trunk, c),
           UNCHANGED <<work, branch>>,
           \A q \in Run : q # r => c.tree[q] = Tip.tree[q],
           Tip.tree[r] <= c.tree[r], c.tree[r] <= work[r].head \/ branch[r] = Foreign,
           branch[r] # Unborn => c.tree[r] <= branch[r]
    PROVE  TrunkGrows /\ \A q \in Run : Lags(q)'
<1>1. Tip' = c
  BY DEF Tip, IInv, TypeOK
<1>2. TypeOK
  BY DEF IInv
<1>3. \A q \in Run : c.tree[q] \in Nat
  BY <1>2, Numbers DEF Commit, Tree
<1>4. ASSUME NEW q \in Run
      PROVE  Tip.tree[q] <= c.tree[q] /\ Lags(q)'
  <2>1. /\ Tip.tree[q] \in Nat /\ c.tree[q] \in Nat /\ \A s \in Run : work[s].base[q] \in Nat
    BY <1>2, <1>3, Numbers
  <2>2. Lags(q)
    BY DEF RetryInv
  <2>3. Tip.tree[q] <= c.tree[q] /\ \A s \in Run : work[s].base[q] <= c.tree[q]
    BY <2>1, <2>2 DEF Lags
  <2>4. /\ c.tree[q] <= work[q].head \/ branch[q] = Foreign
        /\ branch[q] # Unborn => c.tree[q] <= branch[q]
    BY <2>2 DEF Lags
  <2> QED
    BY <1>1, <2>3, <2>4 DEF Lags
<1> QED
  BY <1>1, <1>4 DEF TrunkGrows

LEMMA LagsSquash ==
    ASSUME IInv, RetryInv, NEW r \in Run, NEW p, PrOf(p, r), NEW how \in {"tool", "overtaken", "hand"},
           Squash(r, how), UNCHANGED <<work, branch>>
    PROVE  TrunkGrows /\ \A q \in Run : Lags(q)'
<1> DEFINE tree == [Tip.tree EXCEPT ![r] = branch[r]]
           c == [tree |-> tree, run |-> {r}, how |-> how]
<1>1. /\ tree \in Tree /\ tree[r] = branch[r]
      /\ \A q \in Run : q # r => tree[q] = Tip.tree[q]
  BY Typed DEF IInv, TypeOK, Commit, Tree
<1> HIDE DEF tree
<1>2. c \in Commit /\ c.tree = tree
  BY <1>1 DEF Commit
<1>3. trunk' = Append(trunk, c)
  BY DEF Squash, tree
<1> HIDE DEF c
<1>4. branch[r] # Unborn /\ (branch[r] <= work[r].head \/ branch[r] = Foreign)
  <2>1. branch[r] \in Changed
    BY DEF PrOf, IInv, PrsInv
  <2>2. branch[r] # Unborn /\ (branch[r] \in Version \/ branch[r] = Foreign)
    BY <2>1, Numbers DEF IInv, Changed, Version
  <2> QED
    BY <2>2 DEF IInv, RunInv, InOrder
<1>5. Lags(r) /\ branch[r] \in Nat
  BY Numbers DEF RetryInv, IInv
<1>6. /\ Tip.tree[r] <= c.tree[r] /\ c.tree[r] <= branch[r]
      /\ c.tree[r] <= work[r].head \/ branch[r] = Foreign
  BY <1>1, <1>2, <1>4, <1>5 DEF Lags
<1> QED
  BY <1>1, <1>2, <1>3, <1>6, LagsAppend

LEMMA LagsPush ==
    ASSUME IInv, RetryInv, NEW r \in Run, PushCurrent(r), Push(r) \/ GitPush(r)
    PROVE  TrunkGrows /\ \A q \in Run : Lags(q)'
<1>1. /\ work' = work /\ TypeOK /\ Placed(r) /\ Lags(r)
  BY DEF Push, GitPush, IInv, RetryInv
<1>2. CASE trunk' = trunk
  <2>1. branch' = branch \/ (branch[r] # Foreign /\ branch' = [branch EXCEPT ![r] = work[r].head])
    BY DEF PushCurrent, Pushable
  <2>2. \A q \in Run : /\ branch'[q] \in {branch[q], work[q].head, Foreign}
                       /\ branch[q] = Foreign => branch'[q] = Foreign
    BY <1>1, <2>1 DEF TypeOK
  <2>3. \A q \in Run : work[q].head \in Nat /\ work[q].head <= work[q].head
    BY <1>1, Numbers
  <2>4. \A q \in Run : work'[q].base = work[q].base /\ work'[q].head = work[q].head
    BY <1>1
  <2>5. \A q \in Run : OffTrunk(q)
    BY <2>2, <2>3, <2>4 DEF OffTrunk
  <2> QED
    BY <1>2, <2>5, LagsLocal
<1>3. CASE trunk' # trunk
  <2> DEFINE c == [tree |-> HeadTree(r), run |-> {r}, how |-> "push"]
  <2>1. /\ work[r].git = "trunk" /\ Tip.tree \in {work[r].base, HeadTree(r)} /\ branch' = branch
        /\ trunk' = Append(trunk, c)
    BY <1>3 DEF PushCurrent, Pushable
  <2>2. /\ HeadTree(r) \in Tree /\ HeadTree(r)[r] = work[r].head
        /\ \A q \in Run : q # r => HeadTree(r)[q] = work[r].base[q]
    <3>1. work[r].base \in Tree /\ work[r].head \in 0..Foreign
      BY <1>1, Numbers DEF Workspace
    <3> QED
      BY <3>1 DEF HeadTree, Tree
  <2>3. c \in Commit /\ c.tree = HeadTree(r)
    BY <2>2 DEF Commit
  <2> HIDE DEF c
  <2>4. \A q \in Run : q # r => c.tree[q] = Tip.tree[q]
    BY <2>1, <2>2, <2>3
  <2>5. branch[r] = Unborn /\ branch[r] # Foreign
    BY <1>1, <2>1, Numbers DEF Placed
  <2>6. work[r].head <= work[r].head
    BY <1>1, Numbers
  <2> QED
    BY <1>1, <2>1, <2>2, <2>3, <2>4, <2>5, <2>6, LagsAppend DEF Lags
<1> QED
  BY <1>2, <1>3

\* The trunk goes up, by any step.
LEMMA LagsStep ==
    ASSUME IInv, RetryInv, NEW r \in Run, Step(r)
    PROVE  TrunkGrows /\ \A q \in Run : Lags(q)'
<1>1. TypeOK
  BY DEF IInv
<1>2. \A q \in Run : work[q].head \in Nat /\ work[q].work \in Nat /\ work[q].head <= work[q].head
  BY <1>1, Numbers
<1>3. work \in [Run -> Workspace]
  BY <1>1 DEF TypeOK
<1>4. CASE Push(r) \/ GitPush(r)
  <2>1. work' = work /\ (PushCurrent(r) \/ UNCHANGED <<trunk, branch>>)
    BY <1>4 DEF Push, GitPush
  <2>2. CASE PushCurrent(r)
    BY <1>4, <2>2, LagsPush
  <2>3. CASE UNCHANGED <<trunk, branch>>
    BY <1>2, <2>1, <2>3, LagsLocal DEF OffTrunk
  <2> QED
    BY <2>1, <2>2, <2>3
<1>5. CASE PutMerge(r)
  <2>1. UNCHANGED <<work, branch>> /\ job[r].stage = "merge" /\ job[r].pc = "put"
    BY <1>5 DEF PutMerge, At
  <2>2. PrOf(job[r].pr, r)
    BY <2>1 DEF IInv, RunInv, InNode, Required, KnowsItsOwn
  <2>3. trunk' = trunk \/ \E how \in {"tool", "overtaken", "hand"} : Squash(r, how)
    BY <1>5 DEF PutMerge
  <2> QED
    BY <1>2, <2>1, <2>2, <2>3, LagsLocal, LagsSquash DEF OffTrunk
<1>6. CASE trunk' = trunk /\ branch' = branch /\
           (\/ work' = work
            \/ work' = [work EXCEPT ![r].work = @ + 1]
            \/ work' = [work EXCEPT ![r].jar = WorkTree(r)]
            \/ work' = [work EXCEPT ![r].jar = NoTree])
  <2>1. \A q \in Run : work'[q].base = work[q].base /\ work'[q].head = work[q].head
    <3>1. CASE work' = work
      BY <3>1
    <3>2. CASE work' = [work EXCEPT ![r].work = @ + 1]
      BY <1>3, <3>2 DEF Workspace
    <3>3. CASE work' = [work EXCEPT ![r].jar = WorkTree(r)]
      BY <1>3, <3>3 DEF Workspace
    <3>4. CASE work' = [work EXCEPT ![r].jar = NoTree]
      BY <1>3, <3>4 DEF Workspace
    <3> QED
      BY <1>6, <3>1, <3>2, <3>3, <3>4
  <2> QED
    BY <1>2, <1>6, <2>1, LagsLocal DEF OffTrunk
<1>7. CASE Prepare(r)
  <2>1. PICK git \in {"absent", "trunk", "detached", "branch"} :
            work' = [work EXCEPT ![r].git = git, ![r].base = Tip.tree]
    BY <1>7 DEF Prepare
  <2>2. \A q \in Run : work'[q].base \in {work[q].base, Tip.tree} /\ work'[q].head = work[q].head
    BY <1>3, <2>1 DEF Workspace
  <2> QED
    BY <1>2, <1>7, <2>2, LagsLocal DEF Prepare, OffTrunk
<1>8. CASE GitCommit(r)
  <2>1. work' = [work EXCEPT ![r].head = work[r].work]
    BY <1>8 DEF GitCommit
  <2>2. work[r].head <= work[r].work
    BY DEF IInv, RunInv, InOrder
  <2>3. \A q \in Run : work'[q].base = work[q].base /\ work'[q].head \in Nat /\ work[q].head <= work'[q].head
    BY <1>2, <1>3, <2>1, <2>2 DEF Workspace
  <2> QED
    BY <1>8, <2>3, LagsLocal DEF GitCommit, OffTrunk
<1> QED
  BY <1>4, <1>5, <1>6, <1>7, <1>8
     DEF Step, Begin, Reuse, Break, EndFix, Test, End, WriteFile, Exec, OpenPr, ListPr, CreatePr, ViewPr,
         BuildArtifact, BuildImage

\* A conflict with the trunk stays one.
LEMMA ConflictStays ==
    ASSUME IInv, RetryInv, TrunkGrows, NEW r \in Run, Conflicts(r), clash' = clash,
           work'[r].base = work[r].base, TypeOK'
    PROVE  Conflicts(r)'
<1>1. PICK q \in Run \ {r} : clash /\ Tip.tree[q] # work[r].base[q]
  BY DEF Conflicts
<1>2. /\ Tip.tree[q] \in Nat /\ work[r].base[q] \in Nat
  BY Numbers DEF IInv
<1>3. Tip'.tree[q] \in Nat
  <2>1. Tip' \in Commit
    BY DEF TypeOK, Tip
  <2> QED
    BY <1>1, <2>1, BoundsAssumption DEF Commit, Tree, Unborn
<1>4. work[r].base[q] <= Tip.tree[q] /\ Tip.tree[q] <= Tip'.tree[q]
  BY DEF RetryInv, Lags, TrunkGrows
<1>5. Tip'.tree[q] # work[r].base[q]
  BY <1>1, <1>2, <1>3, <1>4
<1> QED
  BY <1>1, <1>5 DEF Conflicts

LEMMA BlockedStays ==
    ASSUME IInv, RetryInv, TrunkGrows, NEW r \in Run, NEW p, Blocked(r, p), clash' = clash,
           work'[r].base = work[r].base, work'[r].git = work[r].git, work'[r].head = work[r].head,
           branch'[r] = branch[r], prs'[p] = prs[p], TypeOK'
    PROVE  Blocked(r, p)'
<1>1. Conflicts(r) => Conflicts(r)'
  BY ConflictStays
<1> QED
  BY <1>1 DEF Blocked, Mergeable

\* What a step does to a run that is not its own: at most, a person takes its PR or its branch away.
Elsewhere(q) ==
    /\ work'[q] = work[q] /\ clash' = clash
    /\ \/ /\ branch'[q] = branch[q] \/ (branch[q] \in Version /\ branch'[q] = Foreign)
          /\ Same(job'[q], job[q]) /\ (job[q].pc = "idle" \/ ~job'[q].calm)
       \/ /\ job'[q] = job[q] /\ branch'[q] = branch[q]
          /\ \A p : PrOf(p, q) => prs'[p] = prs[p]
          /\ OpenPrsOf(q)' \subseteq OpenPrsOf(q)

LEMMA ElsewhereKeeps ==
    ASSUME IInv, RetryInv, TrunkGrows, TypeOK', NEW q \in Run, Elsewhere(q)
    PROVE  Placed(q)' /\ Answered(q)'
<1>1. /\ Placed(q) /\ Answered(q) /\ InNode(q) /\ KnowsItsOwn(q) /\ job[q] \in Job
      /\ Foreign \notin Version /\ Unborn \notin Version /\ Foreign # Unborn
  BY Numbers DEF RetryInv, IInv, RunInv, TypeOK
<1>2. CASE /\ branch'[q] = branch[q] \/ (branch[q] \in Version /\ branch'[q] = Foreign)
           /\ Same(job'[q], job[q]) /\ (job[q].pc = "idle" \/ ~job'[q].calm)
  <2>1. /\ job'[q].stage = job[q].stage /\ job'[q].pc = job[q].pc
        /\ job'[q].called = job[q].called
    BY <1>2 DEF Same
  <2>2. Placed(q)'
    BY <1>1, <1>2, <2>1 DEF Elsewhere, Placed
  <2>3. Answered(q)'
    BY <1>1, <1>2, <2>1 DEF Answered, At
  <2> QED
    BY <2>2, <2>3
<1>3. CASE /\ job'[q] = job[q] /\ branch'[q] = branch[q]
           /\ \A p : PrOf(p, q) => prs'[p] = prs[p]
           /\ OpenPrsOf(q)' \subseteq OpenPrsOf(q)
  <2>1. Placed(q)'
    BY <1>1, <1>3 DEF Elsewhere, Placed
  <2>2. ASSUME At(q, "merge", "agent"), Blocked(q, job[q].pr)
        PROVE  Blocked(q, job[q].pr)'
    <3>1. PICK p : p = job[q].pr
      OBVIOUS
    <3>2. PrOf(p, q)
      BY <1>1, <2>2, <3>1 DEF At, InNode, Required, KnowsItsOwn
    <3>3. Blocked(q, p)'
      BY <1>3, <2>2, <3>1, <3>2, BlockedStays DEF Elsewhere
    <3> QED
      BY <1>3, <3>1, <3>3 DEF Blocked, Mergeable
  <2>3. Answered(q)'
    <3>1. OpenPrsOf(q) = {} => OpenPrsOf(q)' = {}
      BY <1>3
    <3> QED
      BY <1>1, <1>3, <2>2, <3>1 DEF Answered, At, Elsewhere
  <2> QED
    BY <2>1, <2>3
<1> QED
  BY <1>2, <1>3 DEF Elsewhere

LEMMA StepElsewhere ==
    ASSUME IInv, IInv', NEW r \in Run, Step(r), NEW q \in Run, q # r
    PROVE  Elsewhere(q)
<1>1. /\ work \in [Run -> Workspace] /\ branch \in [Run -> 0..Foreign] /\ prs \in Seq(PullRequest)
      /\ KnowsItsOwn(r) /\ InNode(r)
  BY DEF IInv, TypeOK, RunInv
<1>2. clash' = clash /\ job'[q] = job[q]
  BY OnlyTheActor DEF Step, Prepare, Begin, Reuse, Break, EndFix, Test, End, WriteFile, Exec, GitCommit,
         GitPush, OpenPr, Push, ListPr, CreatePr, ViewPr, PutMerge, BuildArtifact, BuildImage
<1>3. branch'[q] = branch[q]
  <2>1. branch' = branch \/ branch' = [branch EXCEPT ![r] = work[r].head]
    BY DEF Step, Prepare, Begin, Reuse, Break, EndFix, Test, End, WriteFile, Exec, GitCommit, GitPush,
           OpenPr, Push, PushCurrent, ListPr, CreatePr, ViewPr, PutMerge, BuildArtifact, BuildImage
  <2> QED
    BY <1>1, <2>1
<1>4. work'[q] = work[q]
  <2>1. CASE Prepare(r)
    BY <1>1, <2>1 DEF Prepare
  <2>2. CASE WriteFile(r) \/ Exec(r)
    BY <1>1, <2>2 DEF WriteFile, Exec
  <2>3. CASE GitCommit(r) \/ BuildArtifact(r)
    BY <1>1, <2>3 DEF GitCommit, BuildArtifact
  <2>4. CASE work' = work
    BY <2>4
  <2> QED
    BY <2>1, <2>2, <2>3, <2>4
       DEF Step, Begin, Reuse, Break, EndFix, Test, End, GitPush, OpenPr, Push, ListPr, CreatePr, ViewPr,
           PutMerge, BuildImage
<1>5. /\ \A p : PrOf(p, q) => prs'[p] = prs[p]
      /\ OpenPrsOf(q)' \subseteq OpenPrsOf(q)
  <2>1. CASE prs' = prs
    BY <2>1 DEF OpenPrsOf
  <2>2. CASE CreatePr(r) /\ prs' # prs
    <3> DEFINE new == [run |-> r, state |-> "OPEN", commit |-> 0]
    <3>1. prs' = Append(prs, new) /\ new \in PullRequest /\ new.run = r
      BY <2>2 DEF CreatePr, PullRequest
    <3> HIDE DEF new
    <3>2. /\ Len(prs) \in Nat /\ Len(prs') = Len(prs) + 1 /\ prs'[Len(prs) + 1].run = r
          /\ \A p \in 1..Len(prs) : prs'[p] = prs[p]
      BY <1>1, <3>1
    <3> QED
      BY <3>2 DEF PrOf, OpenPrsOf
  <2>3. CASE PutMerge(r) /\ prs' # prs
    <3>1. PICK p : p = job[r].pr
      OBVIOUS
    <3>2. PrOf(p, r)
      BY <1>1, <2>3, <3>1 DEF PutMerge, At, InNode, Required, KnowsItsOwn
    <3>3. PICK n : n = Len(trunk) + 1
      OBVIOUS
    <3>4. prs' = [prs EXCEPT ![p].state = "MERGED", ![p].commit = n]
      BY <2>3, <3>1, <3>3 DEF PutMerge
    <3>5. Len(prs') = Len(prs) /\ \A o \in 1..Len(prs) : o # p => prs'[o] = prs[o]
      BY <1>1, <3>4
    <3>6. prs'[p].run = r
      <4>1. prs[p] \in PullRequest /\ p \in 1..Len(prs) /\ prs[p].run = r
        BY <3>2, Typed DEF PrOf, IInv
      <4> QED
        BY <1>1, <3>4, <4>1 DEF PullRequest
    <3> QED
      BY <3>2, <3>5, <3>6 DEF PrOf, OpenPrsOf
  <2> QED
    BY <2>1, <2>2, <2>3
       DEF Step, Prepare, Begin, Reuse, Break, EndFix, Test, End, WriteFile, Exec, GitCommit, GitPush,
           OpenPr, Push, ListPr, ViewPr, BuildArtifact, BuildImage
<1> QED
  BY <1>2, <1>3, <1>4, <1>5 DEF Elsewhere

LEMMA HandElsewhere ==
    ASSUME IInv, NEW p \in 1..Len(prs), MergeByHand(p) \/ CloseByHand(p), NEW q \in Run
    PROVE  Elsewhere(q)
<1>1. /\ job \in [Run -> Job] /\ prs \in Seq(PullRequest) /\ prs[p] \in PullRequest
      /\ prs[p].run \in Run
  BY Typed DEF IInv, TypeOK, PullRequest
<1>2. job' = Disturb(prs[p].run) /\ UNCHANGED <<clash, branch, work>>
  BY DEF MergeByHand, CloseByHand
<1>3. CASE q = prs[p].run
  BY <1>1, <1>2, <1>3, DisturbIs DEF Elsewhere, IInv
<1>4. CASE q # prs[p].run
  <2>1. job'[q] = job[q]
    BY <1>1, <1>2, <1>4, DisturbIs DEF IInv
  <2>2. PICK n : n = Len(trunk) + 1
    OBVIOUS
  <2>3. PICK m \in {[prs[p] EXCEPT !.state = "CLOSED"],
                    [prs[p] EXCEPT !.state = "MERGED", !.commit = n]} : prs' = [prs EXCEPT ![p] = m]
    BY <1>1, <2>2 DEF MergeByHand, CloseByHand
  <2>4. m.run = prs[p].run
    BY <1>1, <2>3 DEF PullRequest
  <2>5. Len(prs') = Len(prs) /\ prs'[p] = m /\ \A o \in 1..Len(prs) : o # p => prs'[o] = prs[o]
    BY <1>1, <2>3
  <2> QED
    BY <1>2, <1>4, <2>1, <2>4, <2>5 DEF Elsewhere, PrOf, OpenPrsOf
<1> QED
  BY <1>3, <1>4

LEMMA LagsHand ==
    ASSUME IInv, RetryInv, NEW p \in 1..Len(prs), MergeByHand(p) \/ CloseByHand(p)
    PROVE  TrunkGrows /\ \A q \in Run : Lags(q)'
<1>1. PrOf(p, prs[p].run) /\ prs[p].run \in Run /\ UNCHANGED <<work, branch>>
  BY Typed DEF PrOf, IInv, PullRequest, MergeByHand, CloseByHand
<1>2. \A q \in Run : work[q].head \in Nat /\ work[q].head <= work[q].head
  BY Numbers DEF IInv
<1>3. trunk' = trunk \/ Squash(prs[p].run, "hand")
  BY DEF MergeByHand, CloseByHand
<1> QED
  BY <1>1, <1>2, <1>3, LagsLocal, LagsSquash DEF OffTrunk

LEMMA PushElsewhere ==
    ASSUME IInv, RetryInv, NEW r \in Run, PushByHand(r)
    PROVE  TrunkGrows /\ \A q \in Run : Lags(q)' /\ Elsewhere(q)
<1>1. /\ branch[r] \in Version /\ branch' = [branch EXCEPT ![r] = Foreign] /\ branch \in [Run -> 0..Foreign]
      /\ job' = [Disturb(r) EXCEPT ![r].pushed = job[r].pc = "put"]
      /\ UNCHANGED <<clash, trunk, prs, work>> /\ TypeOK
  BY DEF PushByHand, IInv, TypeOK
<1>2. \A q \in Run : branch'[q] = IF q = r THEN Foreign ELSE branch[q]
  BY <1>1
<1>3. \A q \in Run : work[q].head \in Nat /\ work[q].head <= work[q].head
  BY <1>1, Numbers
<1>4. TrunkGrows /\ \A q \in Run : Lags(q)'
  BY <1>1, <1>2, <1>3, LagsLocal DEF OffTrunk
<1>5. ASSUME NEW q \in Run
      PROVE  Elsewhere(q)
  <2>1. CASE q = r
    BY <1>1, <1>2, <2>1, DisturbIs DEF Elsewhere
  <2>2. CASE q # r
    BY <1>1, <1>2, <2>2, DisturbIs DEF Elsewhere, OpenPrsOf
  <2> QED
    BY <2>1, <2>2
<1> QED
  BY <1>4, <1>5

\* An attempt that is over has called nothing.
LEMMA OverIs ==
    ASSUME IInv, NEW r \in Run, Reuse(r) \/ Break(r) \/ EndFix(r) \/ Test(r) \/ End(r)
    PROVE  job'[r].pc = "idle" /\ ~job'[r].called /\ job'[r].stage # "prepare"
<1>1. job[r] \in Job /\ job \in [Run -> Job] /\ InNode(r)
  BY DEF IInv, TypeOK, RunInv
<1>2. /\ Again(r).pc = "idle" /\ ~Again(r).called /\ Again(r).stage = job[r].stage
  BY DEF Again, Fresh
<1>3. job[r].stage \in DOMAIN NextStage =>
         \A claim \in BOOLEAN : LET j == Advance(r, claim)
                                IN j.pc = "idle" /\ ~j.called /\ j.stage # "prepare"
  BY DEF Advance, Fresh, NextStage
<1>4. CASE Reuse(r)
  <2> DEFINE j == Advance(r, FALSE)
             out == Recorded(r)
  <2>1. job[r].stage \in DOMAIN NextStage
    BY <1>4 DEF Reuse, Nodes, NextStage
  <2>2. j \in Job /\ j.pc = "idle" /\ ~j.called /\ j.stage # "prepare"
    BY <1>3, <2>1, AdvanceIs DEF IdleAs, IInv
  <2>3. job'[r] \in {[j EXCEPT !.pr = out.pr], [j EXCEPT !.commit = out.commit]}
    BY <1>1, <1>4 DEF Reuse, Set
  <2> HIDE DEF j, out
  <2> QED
    BY <2>2, <2>3 DEF Job
<1>5. CASE Break(r)
  BY <1>1, <1>2, <1>5 DEF Break, Set, InNode, Nodes
<1>6. CASE EndFix(r)
  <2>1. job[r].stage = "fix"
    BY <1>6 DEF EndFix, At
  <2>2. \E claim \in BOOLEAN : job'[r] \in {Advance(r, claim), Again(r)}
    BY <1>1, <1>6 DEF EndFix, Set
  <2> QED
    BY <1>2, <1>3, <2>1, <2>2 DEF NextStage
<1>7. CASE Test(r)
  <2>1. job[r].stage = "test" /\ job'[r] = Advance(r, FALSE)
    BY <1>1, <1>7 DEF Test, At, Set
  <2> QED
    BY <1>3, <2>1 DEF NextStage
<1>8. CASE End(r)
  <2>1. job[r].stage \in {"commit", "merge", "ci"} /\ job'[r] \in {Advance(r, FALSE), Again(r)}
    BY <1>1, <1>8 DEF End, Set
  <2> QED
    BY <1>2, <1>3, <2>1 DEF NextStage
<1> QED
  BY <1>4, <1>5, <1>6, <1>7, <1>8

LEMMA OwnStep ==
    ASSUME IInv, IInv', RetryInv, TrunkGrows, NEW r \in Run, Step(r)
    PROVE  Placed(r)' /\ Answered(r)'
<1>1. /\ job[r] \in Job /\ job \in [Run -> Job] /\ work[r] \in Workspace /\ work \in [Run -> Workspace]
      /\ branch \in [Run -> 0..Foreign] /\ InNode(r) /\ KnowsItsOwn(r)
  BY DEF IInv, TypeOK, RunInv
<1>2. Placed(r) /\ Answered(r)
  BY DEF RetryInv
<1>3. \A j : Set(r, j) => job'[r] = j
  BY <1>1 DEF Set
<1>4. CASE Prepare(r)
  <2>1. job[r].stage = "prepare" /\ job[r].pc = "idle" /\ branch' = branch
    BY <1>1, <1>4 DEF Prepare, InNode, Nodes
  <2>2. job'[r].stage = "fix" /\ job'[r].pc = "idle" /\ ~job'[r].called
    BY <1>1, <1>2, <1>3, <1>4, <2>1 DEF Prepare, Job, Answered
  <2>3. branch[r] = Unborn
    BY <1>2, <2>1 DEF Placed
  <2> QED
    BY <2>1, <2>2, <2>3 DEF Placed, Answered, At
<1>5. CASE Reuse(r) \/ Break(r) \/ EndFix(r) \/ Test(r) \/ End(r)
  <2>1. job'[r].pc = "idle" /\ ~job'[r].called /\ job'[r].stage # "prepare"
    BY <1>5, OverIs
  <2>2. work' = work /\ branch' = branch
    BY <1>5 DEF Reuse, Break, EndFix, Test, End
  <2> QED
    BY <1>2, <2>1, <2>2 DEF Placed, Answered, At
<1>6. CASE Begin(r)
  <2>1. job[r].pc = "idle" /\ job[r].stage \in Nodes /\ work' = work /\ branch' = branch
    BY <1>6 DEF Begin
  <2>2. job'[r].pc = "agent" /\ ~job'[r].called /\ job'[r].stage = job[r].stage
    BY <1>1, <1>2, <1>3, <1>6, <2>1 DEF Begin, ToAgent, Job, Answered
  <2> QED
    BY <1>2, <2>1, <2>2 DEF Placed, Answered, At, Nodes
<1>7. CASE WriteFile(r) \/ Exec(r)
  <2>1. job[r].stage = "fix" /\ job[r].pc = "agent" /\ branch' = branch
    BY <1>1, <1>7, CallsInNode DEF WriteFile, Exec, Calls
  <2>2. job'[r].stage = "fix" /\ job'[r].pc = "agent"
    BY <1>1, <1>3, <1>7, <2>1 DEF WriteFile, Exec, Failed, ToAgent, Job
  <2>3. work'[r].git = work[r].git
    BY <1>1, <1>7 DEF WriteFile, Exec, Workspace
  <2> QED
    BY <1>2, <2>1, <2>2, <2>3 DEF Placed, Answered, At
<1>8. CASE GitCommit(r)
  <2>1. job[r].stage \in {"fix", "commit"} /\ job[r].pc = "agent" /\ branch' = branch /\ job' = job
    BY <1>1, <1>8, CallsInNode DEF GitCommit, Calls
  <2>2. work'[r].git = work[r].git
    BY <1>1, <1>8 DEF GitCommit, Workspace
  <2> QED
    BY <1>2, <2>1, <2>2 DEF Placed, Answered, At
<1>9. CASE OpenPr(r)
  <2>1. job[r].stage = "commit" /\ work' = work /\ branch' = branch
    BY <1>1, <1>9, CallsInNode DEF OpenPr
  <2>2. job'[r].stage = "commit" /\ job'[r].pc = IF work[r].git \in {"trunk", "branch"} THEN "push" ELSE "agent"
    BY <1>1, <1>3, <1>9, <2>1 DEF OpenPr, Job
  <2> QED
    BY <1>2, <2>1, <2>2 DEF Placed, Answered, At
<1>10. CASE Push(r)
  <2>1. job[r].stage = "commit" /\ job[r].pc = "push" /\ work' = work
    BY <1>10 DEF Push, At
  <2>2. /\ job'[r].stage = "commit"
        /\ \/ job'[r].pc = "agent" /\ ~job'[r].calm
           \/ job'[r].pc = "agent" /\ ~Pushable(r) /\ branch' = branch
           \/ job'[r].pc = "list" /\ PushCurrent(r)
    <3>1. Set(r, Failed(r)) => job'[r].stage = "commit" /\ job'[r].pc = "agent" /\ ~job'[r].calm
      BY <1>1, <1>3, <2>1 DEF Failed, ToAgent, Job
    <3>2. Set(r, ToAgent(r)) => job'[r].stage = "commit" /\ job'[r].pc = "agent"
      BY <1>1, <1>3, <2>1 DEF ToAgent, Job
    <3>3. Set(r, [job[r] EXCEPT !.pc = "list"]) => job'[r].stage = "commit" /\ job'[r].pc = "list"
      BY <1>1, <1>3, <2>1 DEF Job
    <3> QED
      BY <1>10, <3>1, <3>2, <3>3 DEF Push
  <2>3. /\ work[r].git # "branch" => branch' = branch
        /\ work[r].git = "branch" /\ job'[r].pc = "list" => branch' = [branch EXCEPT ![r] = work[r].head]
    <3>1. work[r].git # "branch" => branch' = branch
      BY <1>10 DEF Push, PushCurrent, Pushable
    <3> QED
      BY <2>2, <3>1 DEF PushCurrent, Pushable
  <2>4. work[r].head # Unborn
    BY Numbers DEF IInv
  <2>5. Placed(r)'
    BY <1>1, <1>2, <2>1, <2>2, <2>3, <2>4 DEF Placed
  <2>6. ~Pushable(r) => work[r].git # "branch" \/ branch[r] = Foreign
    BY DEF Pushable
  <2> QED
    BY <2>1, <2>2, <2>5, <2>6 DEF Answered, At
<1>17. CASE GitPush(r)
  <2>1. /\ job[r].stage = "commit" /\ job[r].pc = "agent" /\ UNCHANGED <<job, work>>
        /\ PushCurrent(r)
    BY <1>17 DEF GitPush, At
  <2>2. (work[r].git # "branch" => branch' = branch) /\ (branch[r] = Foreign => branch' = branch)
    BY <2>1 DEF PushCurrent, Pushable
  <2> QED
    BY <1>2, <2>1, <2>2 DEF Placed, Answered, At
<1>11. CASE ListPr(r)
  <2>1. /\ job[r].stage = "commit" /\ job[r].pc = "list" /\ work' = work /\ branch' = branch
        /\ prs' = prs
    BY <1>11 DEF ListPr, At
  <2>2. /\ job'[r].stage = "commit"
        /\ \/ job'[r].pc = "agent" /\ job'[r].ok
           \/ job'[r].pc = "create" /\ (job'[r].calm => OpenPrsOf(r) = {})
    <3>1. CASE \E p \in OpenPrsOf(r) : Set(r, [ToAgent(r) EXCEPT !.ok = TRUE, !.pr = p])
      BY <1>1, <1>3, <2>1, <3>1 DEF ToAgent, Job
    <3>2. CASE Set(r, [job[r] EXCEPT !.pc = "create", !.calm = @ /\ OpenPrsOf(r) = {}])
      <4>1. job'[r] = [job[r] EXCEPT !.pc = "create", !.calm = @ /\ OpenPrsOf(r) = {}]
        BY <1>3, <3>2
      <4>2. job'[r].pc = "create" /\ job'[r].stage = "commit"
        BY <1>1, <2>1, <4>1 DEF Job
      <4>3. job'[r].calm <=> job[r].calm /\ OpenPrsOf(r) = {}
        BY <1>1, <4>1 DEF Job
      <4> QED
        BY <4>2, <4>3
    <3> QED
      BY <1>11, <3>1, <3>2 DEF ListPr
  <2> QED
    BY <1>2, <2>1, <2>2 DEF Placed, Answered, At, OpenPrsOf
<1>12. CASE CreatePr(r)
  <2>1. /\ job[r].stage = "commit" /\ job[r].pc = "create" /\ work' = work /\ branch' = branch
    BY <1>12 DEF CreatePr, At
  <2>2. /\ job'[r].stage = "commit" /\ job'[r].pc = "agent"
    BY <1>1, <1>3, <1>12, <2>1 DEF CreatePr, Failed, ToAgent, Job
  <2>3. ASSUME job'[r].calm, ~job'[r].ok
        PROVE  ~Creatable(r) /\ job[r].calm /\ branch[r] # 0
    <3>1. Set(r, Failed(r)) => ~job'[r].calm
      BY <1>1, <1>3 DEF Failed, ToAgent, Job
    <3>2. Set(r, [ToAgent(r) EXCEPT !.ok = TRUE, !.pr = Len(prs) + 1]) => job'[r].ok
      BY <1>1, <1>3 DEF ToAgent, Job
    <3>3. Set(r, [ToAgent(r) EXCEPT !.calm = @ /\ branch[r] # 0]) =>
             (job'[r].calm <=> job[r].calm /\ branch[r] # 0)
      BY <1>1, <1>3 DEF ToAgent, Job
    <3> QED
      BY <1>12, <2>3, <3>1, <3>2, <3>3 DEF CreatePr
  <2>4. ASSUME ~Creatable(r), job[r].calm, branch[r] # 0
        PROVE  work[r].git # "branch"
    BY <1>2, <2>1, <2>4 DEF Creatable, Placed, Answered, At, OpenPrsOf
  <2> QED
    BY <1>2, <2>1, <2>2, <2>3, <2>4 DEF Placed, Answered, At
<1>13. CASE ViewPr(r)
  <2>1. /\ job[r].stage = "merge" /\ job[r].pc = "agent" /\ UNCHANGED <<work, branch, prs, trunk, clash>>
    BY <1>1, <1>13, CallsInNode DEF ViewPr, Calls
  <2> DEFINE p == job[r].pr
             j == [job[r] EXCEPT !.called = TRUE]
  <2>2. j \in Job /\ j.stage = "merge" /\ j.pc = "agent" /\ j.pr = p
    BY <1>1, <2>1 DEF Job
  <2>3. \/ job'[r] = [j EXCEPT !.calm = FALSE]
        \/ job'[r] = [j EXCEPT !.ok = TRUE, !.commit = prs[p].commit]
        \/ job'[r] = [j EXCEPT !.pc = "put"]
        \/ job'[r] = j /\ ~Merged(p) /\ ~Mergeable(r, p)
    BY <1>3, <1>13 DEF ViewPr
  <2> HIDE DEF p, j
  <2>4. /\ job'[r].stage = "merge" /\ job'[r].pc \in {"agent", "put"}
        /\ job'[r].pc = "agent" /\ job'[r].calm /\ ~job'[r].ok =>
              job'[r].pr = p /\ prs[p].state # "MERGED" /\ ~Mergeable(r, p)
    <3>1. CASE job'[r] = [j EXCEPT !.calm = FALSE]
      BY <2>2, <3>1 DEF Job
    <3>2. CASE job'[r] = [j EXCEPT !.ok = TRUE, !.commit = prs[p].commit]
      BY <2>2, <3>2 DEF Job
    <3>3. CASE job'[r] = [j EXCEPT !.pc = "put"]
      BY <2>2, <3>3 DEF Job
    <3>4. CASE job'[r] = j /\ ~Merged(p) /\ ~Mergeable(r, p)
      BY <2>2, <3>4 DEF Merged
    <3> QED
      BY <2>3, <3>1, <3>2, <3>3, <3>4
  <2>6. ASSUME job'[r].pr = p, prs[p].state # "MERGED", ~Mergeable(r, p)
        PROVE  Blocked(r, job[r].pr)'
    <3>1. PICK c : c = p
      OBVIOUS
    <3>2. ~Mergeable(r, c)'
      BY <2>1, <2>6, <3>1 DEF Mergeable, Conflicts, Tip
    <3> QED
      BY <2>1, <2>6, <3>1, <3>2 DEF Blocked, Mergeable, Conflicts, Tip
  <2>7. Answered(r)'
    BY <2>4, <2>6 DEF Answered, At
  <2>8. Placed(r)'
    BY <1>2, <2>1, <2>4 DEF Placed
  <2> QED
    BY <2>7, <2>8
<1>14. CASE PutMerge(r)
  <2>1. job[r].stage = "merge" /\ work' = work /\ branch' = branch
    BY <1>14 DEF PutMerge, At
  <2>2. job'[r].stage = "merge" /\ job'[r].pc = "agent" /\ (~job'[r].calm \/ job'[r].ok)
    <3>1. Set(r, Failed(r)) => job'[r].stage = "merge" /\ job'[r].pc = "agent" /\ ~job'[r].calm
      BY <1>1, <1>3, <2>1 DEF Failed, ToAgent, Job
    <3>2. Set(r, [ToAgent(r) EXCEPT !.ok = TRUE, !.commit = Len(trunk) + 1]) =>
             job'[r].stage = "merge" /\ job'[r].pc = "agent" /\ job'[r].ok
      BY <1>1, <1>3, <2>1 DEF ToAgent, Job
    <3> QED
      BY <1>14, <3>1, <3>2 DEF PutMerge
  <2> QED
    BY <1>2, <2>1, <2>2 DEF Placed, Answered, At
<1>15. CASE BuildArtifact(r)
  <2>1. job[r].stage = "ci" /\ job[r].pc = "agent" /\ branch' = branch
    BY <1>1, <1>15, CallsInNode DEF BuildArtifact, Calls
  <2>2. /\ job'[r].stage = "ci" /\ job'[r].pc = "agent"
        /\ job'[r].called /\ job'[r].calm => job'[r].ok /\ job'[r].built
    <3>1. job[r].called /\ job[r].calm => job[r].ok /\ job[r].built
      BY <1>2, <2>1 DEF Answered
    <3>2. CASE job' = job
      BY <2>1, <3>1, <3>2
    <3>3. CASE Set(r, [job[r] EXCEPT !.built = TRUE])
      BY <1>1, <1>3, <2>1, <3>1, <3>3 DEF Job
    <3>4. CASE Set(r, [Failed(r) EXCEPT !.built = FALSE])
      BY <1>1, <1>3, <2>1, <3>4 DEF Failed, ToAgent, Job
    <3> QED
      BY <1>15, <3>2, <3>3, <3>4 DEF BuildArtifact
  <2>3. work'[r].git = work[r].git
    BY <1>1, <1>15 DEF BuildArtifact, Workspace
  <2> QED
    BY <1>2, <2>1, <2>2, <2>3 DEF Placed, Answered, At
<1>16. CASE BuildImage(r)
  <2>1. /\ job[r].stage = "ci" /\ job[r].pc = "agent" /\ job[r].built /\ UNCHANGED <<work, branch>>
    BY <1>1, <1>16, CallsInNode DEF BuildImage, Calls
  <2>2. /\ job'[r].stage = "ci" /\ job'[r].pc = "agent"
        /\ job'[r].calm => job'[r].ok /\ job'[r].built
    BY <1>1, <1>3, <1>16, <2>1 DEF BuildImage, Job
  <2> QED
    BY <1>2, <2>1, <2>2 DEF Placed, Answered, At
<1> QED
  BY <1>4, <1>5, <1>6, <1>7, <1>8, <1>9, <1>10, <1>11, <1>12, <1>13, <1>14, <1>15, <1>16, <1>17
     DEF Step

LEMMA RetryNext == IInv /\ RetryInv /\ [Next]_vars => RetryInv'
<1> SUFFICES ASSUME IInv, RetryInv, [Next]_vars
             PROVE  RetryInv'
  OBVIOUS
<1>1. IInv' /\ TypeOK'
  BY IInvNext DEF IInv
<1>2. ASSUME NEW r \in Run, Step(r)
      PROVE  RetryInv'
  <2>1. TrunkGrows /\ \A q \in Run : Lags(q)'
    BY <1>2, LagsStep
  <2>2. Placed(r)' /\ Answered(r)'
    BY <1>1, <1>2, <2>1, OwnStep
  <2>3. \A q \in Run : q # r => Placed(q)' /\ Answered(q)'
    BY <1>1, <1>2, <2>1, StepElsewhere, ElsewhereKeeps
  <2> QED
    BY <2>1, <2>2, <2>3 DEF RetryInv
<1>3. ASSUME NEW p \in 1..Len(prs), MergeByHand(p) \/ CloseByHand(p)
      PROVE  RetryInv'
  <2>1. TrunkGrows /\ \A q \in Run : Lags(q)'
    BY <1>3, LagsHand
  <2>2. \A q \in Run : Placed(q)' /\ Answered(q)'
    BY <1>1, <1>3, <2>1, HandElsewhere, ElsewhereKeeps
  <2> QED
    BY <2>1, <2>2 DEF RetryInv
<1>4. CASE UNCHANGED vars
  BY <1>4 DEF vars, RetryInv, Placed, Lags, Answered, At, Blocked, Mergeable, Conflicts, OpenPrsOf, Tip
<1>5. ASSUME NEW r \in Run, PushByHand(r)
      PROVE  RetryInv'
  <2>1. TrunkGrows /\ \A q \in Run : Lags(q)' /\ Elsewhere(q)
    BY <1>5, PushElsewhere
  <2> QED
    BY <1>1, <2>1, ElsewhereKeeps DEF RetryInv
<1> QED
  BY <1>2, <1>3, <1>4, <1>5 DEF Next

LEMMA RetryInit == Init => RetryInv
<1> SUFFICES ASSUME Init, NEW r \in Run
             PROVE  Placed(r) /\ Lags(r) /\ Answered(r)
  BY DEF RetryInv
<1>1. /\ job[r] = Fresh /\ work[r].git = "absent" /\ branch[r] = Unborn /\ work[r].head = 0
      /\ \A q \in Run : work[q].base = Empty
  BY DEF Init
<1>2. Tip.tree = Empty
  BY DEF Init, Tip
<1>3. Placed(r) /\ Answered(r)
  BY <1>1 DEF Placed, Answered, At, Fresh
<1>4. Lags(r)
  BY <1>1, <1>2 DEF Lags, Empty
<1> QED
  BY <1>3, <1>4

\* An agent stops when its attempt ends, or breaks off.
LEMMA StopsAtTheEnd ==
    ASSUME IInv, NEW r \in Run, Step(r), job[r].pc = "agent", job'[r].pc = "idle"
    PROVE  Break(r) \/ EndFix(r) \/ End(r)
<1>1. job[r] \in Job /\ job \in [Run -> Job] /\ InNode(r)
  BY DEF IInv, TypeOK, RunInv
<1>2. \A j : Set(r, j) => job'[r] = j
  BY <1>1 DEF Set
<1>3. ~Prepare(r) /\ ~Begin(r) /\ ~Reuse(r) /\ ~Test(r) /\ ~Push(r) /\ ~ListPr(r) /\ ~CreatePr(r) /\ ~PutMerge(r)
  BY <1>1 DEF Prepare, Begin, Reuse, Test, Push, ListPr, CreatePr, PutMerge, At, InNode, Nodes
<1>4. ~GitCommit(r) /\ ~GitPush(r)
  BY DEF GitCommit, GitPush
<1>5. ~WriteFile(r) /\ ~Exec(r)
  BY <1>1, <1>2 DEF WriteFile, Exec, Failed, ToAgent, Job
<1>6. ~OpenPr(r)
  BY <1>1, <1>2 DEF OpenPr, Job
<1>7. ~ViewPr(r)
  <2> DEFINE j == [job[r] EXCEPT !.called = TRUE]
             c == prs[job[r].pr].commit
  <2>1. j \in Job /\ j.pc = "agent"
    BY <1>1 DEF Job
  <2>2. ViewPr(r) => job'[r] \in {[j EXCEPT !.calm = FALSE], [j EXCEPT !.ok = TRUE, !.commit = c],
                                  [j EXCEPT !.pc = "put"], j}
    BY <1>2 DEF ViewPr
  <2> HIDE DEF j, c
  <2> QED
    BY <2>1, <2>2 DEF Job
<1>8. ~BuildArtifact(r) /\ ~BuildImage(r)
  BY <1>1, <1>2 DEF BuildArtifact, BuildImage, Failed, ToAgent, Job
<1> QED
  BY <1>3, <1>4, <1>5, <1>6, <1>7, <1>8 DEF Step

LEMMA EventsCount == Spec => [](events \in Nat)
<1>1. Init => events \in Nat
  BY DEF Init
<1>2. events \in Nat /\ [Next]_vars => (events \in Nat)'
  <2> SUFFICES ASSUME events \in Nat, [Next]_vars
               PROVE  events' \in Nat
    OBVIOUS
  <2>1. CASE UNCHANGED vars
    BY <2>1 DEF vars
  <2>2. ASSUME NEW r \in Run, Step(r)
        PROVE  events' = events \/ Event
    BY <2>2 DEF Step, Prepare, Begin, Reuse, Break, EndFix, Test, End, WriteFile, Exec, GitCommit, GitPush,
                OpenPr, Push, ListPr, CreatePr, ViewPr, PutMerge, BuildArtifact, BuildImage
  <2>3. ASSUME NEW p \in 1..Len(prs), MergeByHand(p) \/ CloseByHand(p)
        PROVE  Event
    BY <2>3 DEF MergeByHand, CloseByHand
  <2>4. ASSUME NEW r \in Run, PushByHand(r)
        PROVE  Event
    BY <2>4 DEF PushByHand
  <2> QED
    BY <2>1, <2>2, <2>3, <2>4 DEF Next, Event
<1> QED
  BY <1>1, <1>2, PTL DEF Spec

\* An attempt that ends without a mishap in it, after it called what it promises, either succeeded
\* or found something in its way that is still there: nothing that earlier attempts did, or that
\* other runs do meanwhile, makes it fail for any other reason.
THEOREM RetriesEndWell == Spec => RetriesSucceed
<1>1. ASSUME IInv, RetryInv, events \in Nat, [Next]_vars, NEW r \in Run,
             job[r].pc = "agent", job'[r].pc = "idle", events' = events,
             job[r].stage \in Nodes \ {"fix"}, job[r].called, job[r].calm,
             job'[r].stage = job[r].stage
      PROVE  Hindered(r)
  <2>1. job[r] \in Job /\ job \in [Run -> Job] /\ Answered(r)
    BY <1>1 DEF IInv, TypeOK, RetryInv
  <2>2. Step(r)
    <3>1. ASSUME NEW q \in Run, Step(q), q # r
          PROVE  FALSE
      BY <1>1, <3>1, OnlyTheActor
    <3>2. ASSUME NEW p \in 1..Len(prs), MergeByHand(p) \/ CloseByHand(p)
          PROVE  FALSE
      BY <1>1, <3>2 DEF MergeByHand, CloseByHand, Event
    <3>3. ASSUME NEW q \in Run, PushByHand(q)
          PROVE  FALSE
      BY <1>1, <3>3 DEF PushByHand, Event
    <3> QED
      BY <1>1, <3>1, <3>2, <3>3 DEF Next, vars
  <2>3. End(r)
    <3>1. ~Break(r)
      BY <1>1 DEF Break, Event
    <3>2. ~EndFix(r)
      BY <1>1 DEF EndFix, At
    <3> QED
      BY <1>1, <2>2, <3>1, <3>2, StopsAtTheEnd
  <2>4. ~Good(r)
    <3>1. ASSUME Good(r)
          PROVE  job'[r] = Advance(r, FALSE)
      <4>1. Set(r, Advance(r, FALSE)) \/ Event
        BY <2>3, <3>1 DEF End
      <4>2. ~Event
        BY <1>1 DEF Event
      <4> QED
        BY <2>1, <4>1, <4>2 DEF Set
    <3>2. job[r].stage \in {"commit", "merge", "ci"}
      BY <2>3 DEF End
    <3>3. Advance(r, FALSE).stage # job[r].stage
      BY <3>2 DEF Advance, Fresh
    <3> QED
      BY <1>1, <3>1, <3>3
  <2>5. CASE job[r].stage = "commit"
    BY <1>1, <2>1, <2>4, <2>5 DEF Good, Answered, At, Hindered
  <2>6. CASE job[r].stage = "merge"
    BY <1>1, <2>1, <2>4, <2>6 DEF Good, Answered, At, Blocked, Hindered
  <2>7. CASE job[r].stage = "ci"
    BY <1>1, <2>1, <2>4, <2>7 DEF Good, Answered
  <2> QED
    BY <2>3, <2>5, <2>6, <2>7 DEF End
<1>2. IInv /\ RetryInv /\ events \in Nat /\ [Next]_vars =>
        [\A r \in Run : /\ job[r].pc = "agent" /\ job'[r].pc = "idle" /\ events' = events
                        /\ job[r].stage \in Nodes \ {"fix"}
                        /\ job[r].called /\ job[r].calm
                        => job'[r].stage # job[r].stage \/ Hindered(r)]_vars
  BY <1>1
<1>3. Spec => []RetryInv
  BY RetryInit, RetryNext, Invariance, PTL DEF Spec
<1> QED
  BY <1>2, <1>3, Invariance, EventsCount, PTL DEF Spec, RetriesSucceed
=============================================================================
