-------------------------- MODULE RunLifecycleProofs --------------------------
(***************************************************************************)
(* Proofs about RunLifecycle, for any number of Workers, executor slots,   *)
(* commands, duplicates, crashes and calls of people, with a lock that the *)
(* API shares with the Workers or not.                                     *)
(***************************************************************************)
EXTENDS RunLifecycle, FiniteSetTheorems, TLAPS

-----------------------------------------------------------------------------
(* Types *)

Swapping == {"casQueued", "casPaused", "casWaiting"}

Stopping == {"await", "read", "void", "cancel"}

Handling ==
    [pc : {"idle", "build", "claim"} \cup Swapping \cup Stopping,
     seen : {"none", "waiting", "decided", "cancelled"}]

RunStatus == {"running", "queued", "paused", "waiting_approval"} \cup Over

Executing ==
    [pc : {"none", "new", "work", "ending", "ended", "cancelled"},
     on : Worker \cup {Free},
     view : {"none", "waiting", "decided", "cancelled"},
     pause : BOOLEAN,
     outcome : {"none", "raised", "done", "failed", "paused", "waiting_approval"}]

Types ==
    /\ status \in RunStatus
    /\ node \in {"none", "waiting", "decided", "cancelled"}
    /\ cmds \in Seq({"resume", "pause", "stop"})
    /\ hand \in [Worker \X Topic -> Handling]
    /\ held \in [Worker -> Slot \cup {NoSlot}]
    /\ exec \in [Slot -> Executing]
    /\ creating \in {"prepare", "publish", "over", "lost"}
    /\ forced \in BOOLEAN
    /\ stops \in Nat

\* A run() that is over has an outcome, and an exception is not reported.
Reportable(e) ==
    /\ e.pc \in {"ending", "ended"} => e.outcome # "none"
    /\ e.pc = "ended" => e.outcome # "raised"

Reported == \A s \in Slot : Reportable(exec[s])

-----------------------------------------------------------------------------
(* The inductive invariant *)

Carrying == Working \cup Finishing

\* Of those who build, run or report the run, there is one at most.
OneAtMost ==
    /\ \A g, h \in Claiming : g = h
    /\ \A s, t \in Carrying : s = t
    /\ Claiming = {} \/ Carrying = {}

\* Somebody's run has no status from which another could claim it: it runs, or a stop
\* overtook its executor.
ClaimedIsTaken == Claimed => status \in {"running", "cancelled"}

\* A run that is being created is nobody's, and nobody can claim it yet.
CreatedIsFree == creating = "prepare" => ~Claimed /\ status \in {"running", "cancelled"}

Exclusive == ~forced => OneAtMost /\ ClaimedIsTaken /\ CreatedIsFree

\* Without a call of stop no stop is on its way, and nothing is cancelled.
NothingStopped ==
    stops = 0 => /\ \A i \in 1 .. Len(cmds) : cmds[i] # "stop"
                 /\ \A w \in Worker : hand[<<w, "command">>].pc \notin Stopping
                 /\ status # "cancelled"

IInv == Types /\ Reported /\ Exclusive /\ NothingStopped

-----------------------------------------------------------------------------
(* Types are kept *)

LEMMA TypesInit == Init => Types /\ Reported
<1> SUFFICES ASSUME Init PROVE Types /\ Reported
  OBVIOUS
<1>1. NotHandling \in Handling /\ NoTask \in Executing /\ Reportable(NoTask)
  BY DEF NotHandling, Handling, NoTask, Executing, Reportable
<1>2. hand \in [Worker \X Topic -> Handling] /\ exec \in [Slot -> Executing] /\ Reported
  BY <1>1 DEF Init, Reported
<1>3. held \in [Worker -> Slot \cup {NoSlot}] /\ cmds \in Seq({"resume", "pause", "stop"})
  BY DEF Init
<1> QED
  BY <1>2, <1>3 DEF Init, Types, RunStatus

\* Moving a message on, and a task.
LEMMA HandTypes ==
    ASSUME Types, NEW w \in Worker, NEW k \in Topic,
           NEW pc \in {"idle", "build", "claim"} \cup Swapping \cup Stopping, Hand(w, k, pc)
    PROVE  hand' \in [Worker \X Topic -> Handling]
<1>1. <<w, k>> \in Worker \X Topic
  OBVIOUS
<1>2. [hand[<<w, k>>] EXCEPT !.pc = pc] \in Handling
  BY <1>1 DEF Types, Handling
<1> QED
  BY <1>1, <1>2 DEF Types, Hand

LEMMA ExecTypes ==
    ASSUME Types, Reported, NEW s \in Slot, NEW e \in Executing,
           Reportable(e),
           exec' = [exec EXCEPT ![s] = e]
    PROVE  exec' \in [Slot -> Executing] /\ Reported'
BY DEF Types, Reported

LEMMA TakeTypes ==
    ASSUME Types, NEW c, Take(c)
    PROVE  cmds' \in Seq({"resume", "pause", "stop"})
<1>1. cmds # <<>> => Tail(cmds) \in Seq({"resume", "pause", "stop"})
  BY DEF Types
<1> QED
  BY <1>1 DEF Types, Take

LEMMA PublishTypes ==
    ASSUME Types, NEW c \in {"resume", "pause", "stop"}, Publish(c)
    PROVE  cmds' \in Seq({"resume", "pause", "stop"})
BY DEF Types, Publish

\* What a Worker does with its messages.
LEMMA WorkerTypes ==
    ASSUME Types, Reported, NEW w \in Worker, WorkerStep(w)
    PROVE  Types' /\ Reported'
<1> USE DEF topicVars, runVars, workVars, leaseVars, apiVars
<1>0. /\ \A k \in Topic : <<w, k>> \in Worker \X Topic
      /\ "command" \in Topic /\ "trigger" \in Topic
  BY DEF Topic
<1>1. CASE TakeTrigger(w)
  <2>1. hand' \in [Worker \X Topic -> Handling]
    BY <1>0, <1>1, HandTypes DEF TakeTrigger, Swapping, Types
  <2> QED
    BY <1>1, <2>1 DEF TakeTrigger, Types, Reported
<1>2. CASE TakeResume(w)
  <2>1. hand' \in [Worker \X Topic -> Handling]
    BY <1>0, <1>2, HandTypes DEF TakeResume, Swapping, Types
  <2>2. cmds' \in Seq({"resume", "pause", "stop"})
    BY <1>2, TakeTypes DEF TakeResume
  <2> QED
    BY <1>2, <2>1, <2>2 DEF TakeResume, Types, Reported
<1>3. CASE TakePause(w)
  <2>1. cmds' \in Seq({"resume", "pause", "stop"})
    BY <1>3, TakeTypes DEF TakePause
  <2>2. exec' \in [Slot -> Executing] /\ Reported'
    <3>1. CASE held[w] = NoSlot
      BY <1>3, <3>1 DEF TakePause, Types, Reported
    <3>2. CASE held[w] # NoSlot
      <4>1. held[w] \in Slot /\ exec[held[w]] \in Executing
        BY <3>2 DEF Types
      <4>2. [exec[held[w]] EXCEPT !.pause = TRUE] \in Executing
        BY <4>1 DEF Executing
      <4>3. [exec[held[w]] EXCEPT !.pause = TRUE].pc = exec[held[w]].pc
            /\ [exec[held[w]] EXCEPT !.pause = TRUE].outcome = exec[held[w]].outcome
        BY <4>1 DEF Executing
      <4>4. exec' = [exec EXCEPT ![held[w]] = [exec[held[w]] EXCEPT !.pause = TRUE]]
        BY <1>3, <3>2 DEF TakePause
      <4> QED
        BY <4>1, <4>2, <4>3, <4>4, ExecTypes DEF Reported, Reportable
    <3> QED
      BY <3>1, <3>2
  <2> QED
    BY <1>3, <2>1, <2>2 DEF TakePause, Types
<1>4. CASE TakeStop(w)
  <2>1. hand' \in [Worker \X Topic -> Handling]
    BY <1>0, <1>4, HandTypes DEF TakeStop, Stopping
  <2>2. cmds' \in Seq({"resume", "pause", "stop"})
    BY <1>4, TakeTypes DEF TakeStop
  <2>3. exec' \in [Slot -> Executing] /\ Reported'
    <3>1. CASE held[w] = NoSlot
      BY <1>4, <3>1 DEF TakeStop, Types, Reported
    <3>2. CASE held[w] # NoSlot
      <4>1. held[w] \in Slot /\ exec[held[w]] \in Executing
        BY <3>2 DEF Types
      <4>2. /\ [exec[held[w]] EXCEPT !.pc = "cancelled"] \in Executing
            /\ Reportable([exec[held[w]] EXCEPT !.pc = "cancelled"])
            /\ NoTask \in Executing /\ Reportable(NoTask)
        BY <4>1 DEF Executing, NoTask, Reportable
      <4>3. \/ exec' = [exec EXCEPT ![held[w]] = NoTask]
            \/ exec' = [exec EXCEPT ![held[w]] = [exec[held[w]] EXCEPT !.pc = "cancelled"]]
        BY <1>4, <3>2 DEF TakeStop
      <4> QED
        BY <4>1, <4>2, <4>3, ExecTypes
    <3> QED
      BY <3>1, <3>2
  <2>4. held' \in [Worker -> Slot \cup {NoSlot}]
    BY <1>4 DEF TakeStop, Types
  <2> QED
    BY <1>4, <2>1, <2>2, <2>3, <2>4 DEF TakeStop, Types
<1>5. ASSUME NEW k \in Topic, Claim(w, k)
      PROVE  Types' /\ Reported'
  <2>1. hand' \in [Worker \X Topic -> Handling]
    BY <1>5, HandTypes DEF Claim, Swapping
  <2> QED
    BY <1>5, <2>1 DEF Claim, RunStatus, Types, Reported
<1>6. ASSUME NEW k \in Topic, Build(w, k)
      PROVE  Types' /\ Reported'
  <2>1. [pc |-> "claim", seen |-> IF node = "cancelled" THEN "none" ELSE node] \in Handling
    BY DEF Types, Handling
  <2> QED
    BY <1>0, <1>6, <2>1 DEF Build, Types, Reported
<1>7. ASSUME NEW k \in Topic, Start(w, k)
      PROVE  Types' /\ Reported'
  <2>1. hand' \in [Worker \X Topic -> Handling]
    BY <1>0, <1>7 DEF Start, Handling, NotHandling, Types
  <2>2. PICK s \in Slot :
           /\ exec' = [exec EXCEPT ![s] = [NoTask EXCEPT !.pc = "new", !.on = w,
                                                          !.view = hand[<<w, k>>].seen]]
           /\ held' = [held EXCEPT ![w] = s]
    BY <1>7 DEF Start
  <2>3. hand[<<w, k>>].seen \in {"none", "waiting", "decided", "cancelled"}
    BY <1>0 DEF Handling, Types
  <2>4. LET e == [NoTask EXCEPT !.pc = "new", !.on = w, !.view = hand[<<w, k>>].seen]
        IN  e \in Executing /\ Reportable(e)
    BY <2>3 DEF Executing, NoTask, Reportable
  <2>5. exec' \in [Slot -> Executing] /\ Reported'
    BY <2>2, <2>4, ExecTypes
  <2>6. held' \in [Worker -> Slot \cup {NoSlot}]
    BY <2>2 DEF Types
  <2> QED
    BY <1>7, <2>1, <2>5, <2>6 DEF Start, Types
<1>8. CASE StopAwaited(w)
  <2>1. hand' \in [Worker \X Topic -> Handling]
    BY <1>0, <1>8, HandTypes DEF StopAwaited, Stopping
  <2> QED
    BY <1>8, <2>1 DEF StopAwaited, Types, Reported
<1>9. CASE StopRead(w)
  <2>1. [pc |-> "void", seen |-> node] \in Handling
    BY DEF Types, Handling, Stopping
  <2> QED
    BY <1>0, <1>9, <2>1 DEF StopRead, Types, Reported
<1>10. CASE StopVoid(w)
  <2>1. hand' \in [Worker \X Topic -> Handling]
    BY <1>0, <1>10, HandTypes DEF StopVoid, Stopping
  <2> QED
    BY <1>10, <2>1 DEF StopVoid, Types, Reported
<1>11. CASE StopCancel(w)
  <2>1. NotHandling \in Handling
    BY DEF NotHandling, Handling
  <2> QED
    BY <1>0, <1>11, <2>1 DEF StopCancel, Types, Reported, RunStatus, Over
<1> QED
  BY <1>1, <1>2, <1>3, <1>4, <1>5, <1>6, <1>7, <1>8, <1>9, <1>10, <1>11 DEF WorkerStep

\* run() is over: the task ends, and the Worker forgets whichever it knows.
LEMMA FinishTypes ==
    ASSUME Types, Reported, NEW s \in Slot, NEW o \in {"raised"} \cup (RunStatus \ {"running", "queued", "cancelled"}),
           Finish(s, o), exec[s].pc = "work"
    PROVE  /\ exec' = [exec EXCEPT ![s] = [exec[s] EXCEPT !.pc = "ending", !.outcome = o]]
           /\ exec' \in [Slot -> Executing] /\ Reported'
           /\ held' \in [Worker -> Slot \cup {NoSlot}]
<1>1. exec[s] \in Executing
  BY DEF Types
<1>2. LET e == [exec[s] EXCEPT !.pc = "ending", !.outcome = o]
      IN  e \in Executing /\ Reportable(e)
  BY <1>1 DEF Executing, RunStatus, Over, Reportable
<1>3. exec' = [exec EXCEPT ![s] = [exec[s] EXCEPT !.pc = "ending", !.outcome = o]]
  BY <1>1 DEF Finish, Types
<1>4. held' \in [Worker -> Slot \cup {NoSlot}]
  BY DEF Finish, Types
<1> QED
  BY <1>2, <1>3, <1>4, ExecTypes

\* What a task does.
LEMMA SlotTypes ==
    ASSUME Types, Reported, NEW s \in Slot, TaskStep(s) \/ Ask(s) \/ Raise(s)
    PROVE  Types' /\ Reported'
<1> USE DEF topicVars, runVars, workVars, leaseVars, apiVars
<1>0. exec[s] \in Executing
  BY DEF Types
<1>1. CASE Begin(s)
  <2>1. LET e == [exec[s] EXCEPT !.pc = "work"] IN e \in Executing /\ Reportable(e)
    BY <1>0 DEF Executing, Reportable
  <2>2. exec' = [exec EXCEPT ![s] = [exec[s] EXCEPT !.pc = "work"]]
    BY <1>1 DEF Begin
  <2>3. exec' \in [Slot -> Executing] /\ Reported'
    BY <2>1, <2>2, ExecTypes
  <2> QED
    BY <1>1, <2>3 DEF Begin, Types
<1>2. CASE Return(s)
  <2>1. PICK o \in Outcomes(exec[s]) : Finish(s, o)
    BY <1>2 DEF Return
  <2>2. o \in {"raised"} \cup (RunStatus \ {"running", "queued", "cancelled"})
    BY <2>1 DEF Outcomes, RunStatus, Over
  <2>3. exec' \in [Slot -> Executing] /\ Reported' /\ held' \in [Worker -> Slot \cup {NoSlot}]
    BY <1>2, <2>1, <2>2, FinishTypes DEF Return
  <2> QED
    BY <1>2, <2>3 DEF Return, Types
<1>3. CASE ReleaseLease(s)
  <2>1. LET e == [exec[s] EXCEPT !.pc = "ended"]
        IN  e \in Executing /\ (exec[s].pc = "ending" /\ exec[s].outcome # "raised" => Reportable(e))
    BY <1>0 DEF Executing, Reported, Reportable
  <2>2. NoTask \in Executing /\ Reportable(NoTask)
    BY DEF Executing, NoTask, Reportable
  <2> DEFINE e == IF exec[s].pc = "cancelled" \/ exec[s].outcome = "raised"
                  THEN NoTask ELSE [exec[s] EXCEPT !.pc = "ended"]
  <2>3. exec' = [exec EXCEPT ![s] = e]
    BY <1>3 DEF ReleaseLease
  <2>4. exec' \in [Slot -> Executing] /\ Reported'
    BY <1>3, <2>1, <2>2, <2>3, ExecTypes DEF ReleaseLease
  <2> QED
    BY <1>3, <2>4 DEF ReleaseLease, Types
<1>4. CASE Report(s)
  <2>1. NoTask \in Executing /\ Reportable(NoTask)
    BY DEF Executing, NoTask, Reportable
  <2>2. exec' = [exec EXCEPT ![s] = NoTask]
    BY <1>4 DEF Report
  <2>3. exec' \in [Slot -> Executing] /\ Reported'
    BY <2>1, <2>2, ExecTypes
  <2> QED
    BY <1>0, <1>4, <2>3 DEF Report, Types, Reported, Reportable, Executing, RunStatus, Over
<1>5. CASE Ask(s)
  <2>1. CASE appr = "none"
    <3>1. LET e == [exec[s] EXCEPT !.view = "waiting"]
          IN  e \in Executing /\ e.pc = exec[s].pc /\ e.outcome = exec[s].outcome
      BY <1>0 DEF Executing
    <3>2. exec' = [exec EXCEPT ![s] = [exec[s] EXCEPT !.view = "waiting"]]
      BY <1>5, <2>1 DEF Ask
    <3>3. exec' \in [Slot -> Executing] /\ Reported'
      BY <3>1, <3>2, ExecTypes DEF Reported, Reportable
    <3> QED
      BY <1>5, <2>1, <3>3 DEF Ask, Types
  <2>2. CASE appr # "none"
    <3>1. exec' \in [Slot -> Executing] /\ Reported' /\ held' \in [Worker -> Slot \cup {NoSlot}]
      BY <1>5, <2>2, FinishTypes DEF Ask
    <3> QED
      BY <1>5, <2>2, <3>1 DEF Ask, Types
  <2> QED
    BY <2>1, <2>2
<1>6. CASE Raise(s)
  <2>1. exec' \in [Slot -> Executing] /\ Reported' /\ held' \in [Worker -> Slot \cup {NoSlot}]
    BY <1>6, FinishTypes DEF Raise
  <2> QED
    BY <1>6, <2>1 DEF Raise, Types
<1> QED
  BY <1>1, <1>2, <1>3, <1>4, <1>5, <1>6 DEF TaskStep

\* What RunService, the sweeper and the lock do.
ServiceStep ==
    \/ Create \/ PauseCall \/ PauseStep \/ ResumeCall \/ StopCall
    \/ Approve \/ SweepTimeout \/ PublishDecision \/ ApiCrash \/ LeaseExpires
    \/ \E w \in Worker : LeaseLost(w)

LEMMA ServiceTypes == Types /\ Reported /\ ServiceStep => Types' /\ Reported'
<1> SUFFICES ASSUME Types, Reported, ServiceStep PROVE Types' /\ Reported'
  OBVIOUS
<1> USE DEF topicVars, runVars, workVars, leaseVars, apiVars
<1>1. CASE Create
  BY <1>1 DEF Create, CreateQueued, CreatePublish, Types, Reported, RunStatus
<1>2. CASE PauseCall
  BY <1>2 DEF PauseCall, Types, Reported
<1>3. CASE PauseStep
  <2>1. CASE PauseLookup
    BY <2>1 DEF PauseLookup, Types, Reported
  <2>2. CASE PauseCas
    <3>1. forced' \in BOOLEAN
      BY <2>2, Zenon DEF PauseCas, Types
    <3> QED
      BY <2>2, <3>1 DEF PauseCas, Types, Reported, RunStatus
  <2>3. CASE PausePublish
    <3>1. cmds' \in Seq({"resume", "pause", "stop"})
      BY <2>3, PublishTypes DEF PausePublish
    <3> QED
      BY <2>3, <3>1 DEF PausePublish, Types, Reported
  <2> QED
    BY <1>3, <2>1, <2>2, <2>3 DEF PauseStep
<1>4. CASE ResumeCall \/ PublishDecision
  <2>1. cmds' \in Seq({"resume", "pause", "stop"})
    BY <1>4, PublishTypes DEF ResumeCall, PublishDecision
  <2> QED
    BY <1>4, <2>1 DEF ResumeCall, PublishDecision, Types, Reported
<1>5. CASE StopCall
  <2>1. cmds' \in Seq({"resume", "pause", "stop"})
    BY <1>5, PublishTypes DEF StopCall
  <2> QED
    BY <1>5, <2>1 DEF StopCall, Types, Reported
<1>6. CASE Approve \/ SweepTimeout
  BY <1>6 DEF Approve, SweepTimeout, Decide, Types, Reported
<1>7. CASE ApiCrash
  BY <1>7 DEF ApiCrash, Types, Reported
<1>8. CASE LeaseExpires \/ \E w \in Worker : LeaseLost(w)
  BY <1>8 DEF LeaseExpires, LeaseLost, Types, Reported
<1> QED
  BY <1>1, <1>2, <1>3, <1>4, <1>5, <1>6, <1>7, <1>8 DEF ServiceStep

\* The topic of commands after a crash.
Redelivered(w) ==
    \/ cmds' = cmds
    \/ cmds' = <<"stop">> \o cmds /\ hand[<<w, "command">>].pc \in Stopping
    \/ cmds' = <<"resume">> \o cmds

LEMMA CrashTypes ==
    ASSUME Types, Reported, NEW w \in Worker, WorkerCrash(w)
    PROVE  Types' /\ Reported' /\ Redelivered(w)
<1> USE DEF topicVars, runVars, workVars, leaseVars, apiVars
<1>1. NotHandling \in Handling /\ NoTask \in Executing /\ Reportable(NoTask)
  BY DEF NotHandling, Handling, NoTask, Executing, Reportable
<1>2. hand' \in [Worker \X Topic -> Handling]
  BY <1>1 DEF WorkerCrash, Types
<1>3. Redelivered(w)
  BY DEF WorkerCrash, Redelivered, Stopping
<1>4. cmds' \in Seq({"resume", "pause", "stop"})
  <2>1. <<"stop">> \in Seq({"resume", "pause", "stop"}) /\ <<"resume">> \in Seq({"resume", "pause", "stop"})
    OBVIOUS
  <2> QED
    BY <1>3, <2>1 DEF Redelivered, Types
<1>5. exec' \in [Slot -> Executing] /\ Reported'
  BY <1>1 DEF WorkerCrash, Types, Reported
<1>6. held' \in [Worker -> Slot \cup {NoSlot}]
  BY DEF WorkerCrash, Types
<1> QED
  BY <1>2, <1>3, <1>4, <1>5, <1>6 DEF WorkerCrash, Types

LEMMA TypesNext == Types /\ Reported /\ [Next]_vars => Types' /\ Reported'
<1> SUFFICES ASSUME Types, Reported, [Next]_vars PROVE Types' /\ Reported'
  OBVIOUS
<1>1. CASE UNCHANGED vars
  BY <1>1 DEF vars, topicVars, runVars, workVars, leaseVars, apiVars, Types, Reported
<1> QED
  BY <1>1, ServiceTypes, WorkerTypes, CrashTypes, SlotTypes DEF Next, ServiceStep, AtRest

-----------------------------------------------------------------------------
(* One claim *)

\* A step that claims nothing and sets the run to nothing but cancelled.
LEMMA NoNewClaim ==
    ASSUME Exclusive, forced' = forced, creating' = creating,
           Claiming' \subseteq Claiming, Carrying' \subseteq Carrying,
           status' \in {status, "cancelled"}
    PROVE  Exclusive'
BY DEF Exclusive, OneAtMost, ClaimedIsTaken, CreatedIsFree, Claimed, Carrying

LEMMA HandClaims ==
    ASSUME Types, NEW w \in Worker, NEW k \in Topic, NEW pc, pc \notin {"build", "claim"}, Hand(w, k, pc)
    PROVE  Claiming' \subseteq Claiming
<1>1. hand \in [Worker \X Topic -> Handling] /\ <<w, k>> \in Worker \X Topic
  BY DEF Types
<1>2. hand'[<<w, k>>].pc = pc
  BY <1>1 DEF Hand, Handling
<1>3. \A h \in Worker \X Topic : h # <<w, k>> => hand'[h] = hand[h]
  BY <1>1 DEF Hand
<1> QED
  BY <1>2, <1>3 DEF Claiming

LEMMA WorkerExclusive ==
    ASSUME Types, Exclusive, NEW w \in Worker, WorkerStep(w)
    PROVE  Exclusive'
<1> USE DEF topicVars, runVars, workVars, leaseVars, apiVars
<1>0. /\ \A k \in Topic : <<w, k>> \in Worker \X Topic
      /\ "command" \in Topic /\ "trigger" \in Topic
  BY DEF Topic
<1>e. exec' = exec => Carrying' = Carrying
  BY DEF Carrying, Working, Finishing
<1>h. hand' = hand => Claiming' = Claiming
  BY DEF Claiming
<1>1. CASE TakeTrigger(w)
  <2>1. Claiming' \subseteq Claiming
    BY <1>0, <1>1, <1>h, HandClaims DEF TakeTrigger
  <2> QED
    BY <1>1, <1>e, <2>1, NoNewClaim DEF TakeTrigger
<1>2. CASE TakeResume(w)
  <2>1. Claiming' \subseteq Claiming
    BY <1>0, <1>2, <1>h, HandClaims DEF TakeResume
  <2> QED
    BY <1>2, <1>e, <2>1, NoNewClaim DEF TakeResume
<1>3. CASE TakePause(w)
  <2>1. Carrying' = Carrying
    <3>1. CASE held[w] = NoSlot
      BY <1>3, <1>e, <3>1 DEF TakePause
    <3>2. CASE held[w] # NoSlot
      <4>1. held[w] \in Slot /\ exec[held[w]] \in Executing
        BY <3>2 DEF Types
      <4>2. \A s \in Slot : s # held[w] => exec'[s] = exec[s]
        BY <1>3, <3>2 DEF TakePause, Types
      <4>3. exec'[held[w]].pc = exec[held[w]].pc
        BY <1>3, <3>2, <4>1 DEF TakePause, Types, Executing
      <4> QED
        BY <4>2, <4>3 DEF Carrying, Working, Finishing
    <3> QED
      BY <3>1, <3>2
  <2> QED
    BY <1>3, <1>h, <2>1, NoNewClaim DEF TakePause
<1>4. CASE TakeStop(w)
  <2>1. Claiming' \subseteq Claiming
    BY <1>0, <1>4, HandClaims DEF TakeStop
  <2>2. Carrying' \subseteq Carrying
    <3>1. CASE held[w] = NoSlot
      BY <1>4, <1>e, <3>1 DEF TakeStop
    <3>2. CASE held[w] # NoSlot
      <4>1. held[w] \in Slot /\ exec[held[w]] \in Executing
        BY <3>2 DEF Types
      <4>2. \A s \in Slot : s # held[w] => exec'[s] = exec[s]
        BY <1>4, <3>2 DEF TakeStop, Types
      <4>3. exec'[held[w]].pc \in {"none", "cancelled"}
        BY <1>4, <3>2, <4>1 DEF TakeStop, Types, NoTask, Executing
      <4> QED
        BY <4>2, <4>3 DEF Carrying, Working, Finishing
    <3> QED
      BY <3>1, <3>2
  <2> QED
    BY <1>4, <2>1, <2>2, NoNewClaim DEF TakeStop
<1>5. ASSUME NEW k \in Topic, Claim(w, k)
      PROVE  Exclusive'
  <2>1. CASE status = FromStatus[hand[<<w, k>>].pc]
    <3>1. status \in {"queued", "paused", "waiting_approval"} /\ status' = "running" /\ Hand(w, k, "build")
      BY <1>5, <2>1 DEF Claim, FromStatus
    <3>2. ASSUME ~forced PROVE ~Claimed /\ creating # "prepare"
      BY <3>1, <3>2 DEF Exclusive, ClaimedIsTaken, CreatedIsFree
    <3>3. \A h \in Worker \X Topic : h # <<w, k>> => hand'[h] = hand[h]
      BY <3>1 DEF Hand, Types
    <3>4. ASSUME ~forced PROVE Claiming' \subseteq {<<w, k>>} /\ Carrying' = {}
      <4>1. Claiming = {} /\ Carrying = {}
        BY <3>2, <3>4 DEF Claimed, Carrying
      <4>2. \A h \in Worker \X Topic : h # <<w, k>> => h \notin Claiming'
        BY <3>3, <4>1 DEF Claiming
      <4> QED
        BY <1>5, <1>e, <4>1, <4>2 DEF Claiming, Claim
    <3> QED
      BY <1>5, <3>1, <3>2, <3>4 DEF Claim, Exclusive, OneAtMost, ClaimedIsTaken, CreatedIsFree
  <2>2. CASE status # FromStatus[hand[<<w, k>>].pc]
    <3>1. Claiming' \subseteq Claiming
      BY <1>5, <2>2, HandClaims DEF Claim
    <3> QED
      BY <1>5, <1>e, <2>2, <3>1, NoNewClaim DEF Claim
  <2> QED
    BY <2>1, <2>2
<1>6. ASSUME NEW k \in Topic, Build(w, k)
      PROVE  Exclusive'
  <2>1. Claiming' \subseteq Claiming
    BY <1>0, <1>6 DEF Build, Claiming, Types
  <2> QED
    BY <1>6, <1>e, <2>1, NoNewClaim DEF Build
<1>7. ASSUME NEW k \in Topic, Start(w, k)
      PROVE  Exclusive'
  <2>1. PICK s \in Slot :
           exec' = [exec EXCEPT ![s] = [NoTask EXCEPT !.pc = "new", !.on = w,
                                                      !.view = hand[<<w, k>>].seen]]
    BY <1>7 DEF Start
  <2>2. <<w, k>> \in Claiming
    BY <1>0, <1>7 DEF Start, Claiming
  <2>3. \A h \in Worker \X Topic : h # <<w, k>> => hand'[h] = hand[h]
    BY <1>7 DEF Start, Types
  <2>4. hand'[<<w, k>>].pc = "idle"
    BY <1>0, <1>7 DEF Start, Types, NotHandling
  <2>5. Claiming' \subseteq Claiming \ {<<w, k>>}
    BY <2>3, <2>4 DEF Claiming
  <2>6. Carrying' \subseteq Carrying \cup {s}
    BY <2>1 DEF Carrying, Working, Finishing, Types
  <2>7. ASSUME ~forced PROVE Claiming' = {} /\ Carrying' \subseteq {s} /\ status \in {"running", "cancelled"}
    BY <2>2, <2>5, <2>6, <2>7 DEF Exclusive, OneAtMost, ClaimedIsTaken, Claimed
  <2>8. ASSUME ~forced PROVE creating # "prepare" /\ Claiming' = {} /\ Carrying' \subseteq {s}
    BY <2>2, <2>5, <2>6, <2>8 DEF Exclusive, OneAtMost, CreatedIsFree, Claimed
  <2> QED
    BY <1>7, <2>7, <2>8 DEF Start, Exclusive, OneAtMost, ClaimedIsTaken, CreatedIsFree
<1>8. CASE StopAwaited(w)
  <2>1. Claiming' \subseteq Claiming
    BY <1>0, <1>8, HandClaims DEF StopAwaited
  <2> QED
    BY <1>8, <1>e, <2>1, NoNewClaim DEF StopAwaited
<1>9. CASE StopRead(w)
  <2>1. Claiming' \subseteq Claiming
    BY <1>0, <1>9 DEF StopRead, Claiming, Types
  <2> QED
    BY <1>9, <1>e, <2>1, NoNewClaim DEF StopRead
<1>10. CASE StopVoid(w)
  <2>1. Claiming' \subseteq Claiming
    BY <1>0, <1>10, HandClaims DEF StopVoid
  <2> QED
    BY <1>10, <1>e, <2>1, NoNewClaim DEF StopVoid
<1>11. CASE StopCancel(w)
  <2>1. Claiming' \subseteq Claiming
    BY <1>0, <1>11 DEF StopCancel, Claiming, Types, NotHandling
  <2> QED
    BY <1>11, <1>e, <2>1, NoNewClaim DEF StopCancel
<1> QED
  BY <1>1, <1>2, <1>3, <1>4, <1>5, <1>6, <1>7, <1>8, <1>9, <1>10, <1>11 DEF WorkerStep

LEMMA SlotExclusive ==
    ASSUME Types, Reported, Exclusive, NEW s \in Slot, TaskStep(s) \/ Ask(s) \/ Raise(s)
    PROVE  Exclusive'
<1> USE DEF topicVars, runVars, workVars, leaseVars, apiVars
<1>0. exec[s] \in Executing /\ exec \in [Slot -> Executing]
  BY DEF Types
<1>c. hand' = hand => Claiming' = Claiming
  BY DEF Claiming
<1>k. ASSUME exec[s].pc \in {"new", "work", "ending", "ended"}, NEW e, exec' = [exec EXCEPT ![s] = e]
      PROVE  Carrying' \subseteq Carrying
  BY <1>0, <1>k DEF Carrying, Working, Finishing
<1>1. CASE Begin(s)
  BY <1>1, <1>c, <1>k, NoNewClaim DEF Begin
<1>f. ASSUME NEW o, Finish(s, o), exec[s].pc = "work"
      PROVE  Carrying' \subseteq Carrying
  <2>1. exec' = [exec EXCEPT ![s] = [exec[s] EXCEPT !.pc = "ending", !.outcome = o]]
    BY <1>0, <1>f DEF Finish
  <2> QED
    BY <1>f, <1>k, <2>1
<1>2. CASE Return(s)
  <2>1. Carrying' \subseteq Carrying
    BY <1>2, <1>f DEF Return
  <2> QED
    BY <1>2, <1>c, <2>1, NoNewClaim DEF Return
<1>3. CASE ReleaseLease(s)
  <2>1. Carrying' \subseteq Carrying
    <3>1. CASE exec[s].pc = "ending"
      BY <1>3, <1>k, <3>1 DEF ReleaseLease
    <3>2. CASE exec[s].pc = "cancelled"
      <4>1. exec' = [exec EXCEPT ![s] = NoTask]
        BY <1>3, <3>2 DEF ReleaseLease
      <4> QED
        BY <1>0, <4>1 DEF Carrying, Working, Finishing, NoTask
    <3> QED
      BY <1>3, <3>1, <3>2 DEF ReleaseLease
  <2> QED
    BY <1>3, <1>c, <2>1, NoNewClaim DEF ReleaseLease
<1>4. CASE Report(s)
  <2>1. s \in Carrying
    BY <1>4 DEF Report, Carrying, Finishing
  <2>2. ASSUME NEW t \in Slot, t \in Carrying' PROVE t \in Carrying /\ t # s
    BY <1>0, <1>4, <2>2 DEF Report, Carrying, Working, Finishing, NoTask
  <2>3. ASSUME ~forced PROVE Claiming' = {} /\ Carrying' = {} /\ creating # "prepare"
    <3>1. Claiming' = {}
      BY <1>4, <1>c, <2>1, <2>3 DEF Report, Exclusive, OneAtMost
    <3>2. Carrying' \subseteq Slot
      BY DEF Carrying, Working, Finishing
    <3>3. \A t \in Carrying : t = s
      BY <2>1, <2>3 DEF Exclusive, OneAtMost
    <3>4. creating # "prepare"
      BY <2>1, <2>3 DEF Exclusive, CreatedIsFree, Claimed, Carrying
    <3> QED
      BY <2>2, <3>1, <3>2, <3>3, <3>4
  <2> QED
    BY <1>4, <2>3 DEF Report, Exclusive, OneAtMost, ClaimedIsTaken, CreatedIsFree, Claimed, Carrying
<1>5. CASE Ask(s)
  <2>1. Carrying' \subseteq Carrying
    <3>1. CASE appr = "none"
      <4>1. exec' = [exec EXCEPT ![s] = [exec[s] EXCEPT !.view = "waiting"]]
        BY <1>5, <3>1 DEF Ask
      <4> QED
        BY <1>5, <1>k, <4>1 DEF Ask
    <3>2. CASE appr # "none"
      BY <1>5, <1>f, <3>2 DEF Ask
    <3> QED
      BY <3>1, <3>2
  <2> QED
    BY <1>5, <1>c, <2>1, NoNewClaim DEF Ask
<1>6. CASE Raise(s)
  <2>1. Carrying' \subseteq Carrying
    BY <1>6, <1>f DEF Raise
  <2> QED
    BY <1>6, <1>c, <2>1, NoNewClaim DEF Raise
<1> QED
  BY <1>1, <1>2, <1>3, <1>4, <1>5, <1>6 DEF TaskStep

LEMMA ServiceExclusive == Types /\ Exclusive /\ ServiceStep => Exclusive'
<1> SUFFICES ASSUME Types, Exclusive, ServiceStep PROVE Exclusive'
  OBVIOUS
<1> USE DEF topicVars, runVars, workVars, leaseVars, apiVars
<1>w. workVars' = workVars => Claiming' = Claiming /\ Carrying' = Carrying /\ Claimed' = Claimed
  BY DEF Claiming, Carrying, Working, Finishing, Claimed
<1>o. OneAtMost /\ workVars' = workVars => OneAtMost'
  BY <1>w DEF OneAtMost
<1>1. CASE Create
  BY <1>1, <1>w, <1>o DEF Create, CreateQueued, CreatePublish, Exclusive, ClaimedIsTaken, CreatedIsFree
<1>2. CASE PauseCall \/ PauseLookup \/ PausePublish \/ ResumeCall \/ StopCall \/ Approve
           \/ SweepTimeout \/ PublishDecision \/ LeaseExpires \/ \E w \in Worker : LeaseLost(w)
  BY <1>2, <1>w, NoNewClaim DEF PauseCall, PauseLookup, PausePublish, ResumeCall, StopCall, Approve,
     SweepTimeout, Decide, PublishDecision, LeaseExpires, LeaseLost
<1>3. CASE PauseCas
  <2>1. CASE status = "running"
    <3>1. forced' = (forced \/ Claimed \/ creating \in {"prepare", "publish"})
      BY <1>3, <2>1, Zenon DEF PauseCas
    <3>2. ~forced' => ~forced /\ ~Claimed /\ creating # "prepare"
      BY <3>1, Zenon
    <3>3. workVars' = workVars /\ creating' = creating
      BY <1>3 DEF PauseCas
    <3> QED
      BY <1>w, <1>o, <3>2, <3>3, Zenon DEF Exclusive, ClaimedIsTaken, CreatedIsFree
  <2>2. CASE status # "running"
    BY <1>3, <1>w, <2>2, NoNewClaim DEF PauseCas
  <2> QED
    BY <2>1, <2>2
<1>4. CASE ApiCrash
  BY <1>4, <1>w, <1>o DEF ApiCrash, Exclusive, ClaimedIsTaken, CreatedIsFree
<1> QED
  BY <1>1, <1>2, <1>3, <1>4 DEF ServiceStep, PauseStep

LEMMA CrashExclusive ==
    ASSUME Types, Exclusive, NEW w \in Worker, WorkerCrash(w)
    PROVE  Exclusive'
<1> USE DEF topicVars, runVars, workVars, leaseVars, apiVars
<1>1. Claiming' \subseteq Claiming
  BY DEF WorkerCrash, Claiming, Types, Topic, NotHandling
<1>2. Carrying' \subseteq Carrying
  BY DEF WorkerCrash, Carrying, Working, Finishing, NoTask
<1> QED
  BY <1>1, <1>2, NoNewClaim DEF WorkerCrash

LEMMA ExclusiveNext == Types /\ Reported /\ Exclusive /\ [Next]_vars => Exclusive'
<1> SUFFICES ASSUME Types, Reported, Exclusive, [Next]_vars PROVE Exclusive'
  OBVIOUS
<1>1. CASE UNCHANGED vars
  BY <1>1 DEF vars, topicVars, runVars, workVars, leaseVars, apiVars, Exclusive, OneAtMost,
     ClaimedIsTaken, CreatedIsFree, Claimed, Claiming, Carrying, Working, Finishing
<1> QED
  BY <1>1, ServiceExclusive, WorkerExclusive, CrashExclusive, SlotExclusive DEF Next, ServiceStep, AtRest

LEMMA ExclusiveInit == Init => Exclusive
<1> SUFFICES ASSUME Init PROVE Exclusive
  OBVIOUS
<1>1. Claiming = {} /\ Carrying = {}
  BY DEF Init, Claiming, Carrying, Working, Finishing, NotHandling, NoTask
<1> QED
  BY <1>1 DEF Init, Exclusive, OneAtMost, ClaimedIsTaken, CreatedIsFree, Claimed, Carrying

-----------------------------------------------------------------------------
(* The theorems *)

\* Whatever is lost, repeated or dies, the claim by swap is exclusive (worker.py): what
\* a claimed run looks like to all who could claim it too.
THEOREM ClaimIsExclusive == Spec => [](Types /\ Reported /\ Exclusive)
BY TypesInit, TypesNext, ExclusiveInit, ExclusiveNext, PTL DEF Spec

LEMMA OneIsOne ==
    ASSUME NEW S, \A x, y \in S : x = y
    PROVE  IsFiniteSet(S) /\ Cardinality(S) <= 1 /\ (S # {} => Cardinality(S) = 1)
<1>1. CASE S = {}
  BY <1>1, FS_EmptySet
<1>2. CASE S # {}
  <2>1. PICK x \in S : TRUE
    BY <1>2
  <2>2. S = {x}
    BY <2>1
  <2>3. IsFiniteSet(S) /\ Cardinality(S) = 1
    BY <2>2, FS_Singleton, Zenon
  <2> QED
    BY <1>2, <2>3
<1> QED
  BY <1>1, <1>2

LEMMA OneClaim == Exclusive => ClaimedOnce
<1> SUFFICES ASSUME Exclusive, ~forced
             PROVE  Cardinality(Claiming) + Cardinality(Carrying) <= 1
  BY DEF ClaimedOnce, Carrying
<1>1. /\ \A g, h \in Claiming : g = h
      /\ \A s, t \in Carrying : s = t
      /\ Claiming = {} \/ Carrying = {}
  BY DEF Exclusive, OneAtMost
<1>2. Cardinality(Claiming) \in Nat /\ Cardinality(Claiming) <= 1
  BY <1>1, OneIsOne, FS_CardinalityType
<1>3. Cardinality(Carrying) \in Nat /\ Cardinality(Carrying) <= 1
  BY <1>1, OneIsOne, FS_CardinalityType
<1>4. Cardinality({}) = 0
  BY FS_EmptySet
<1> QED
  BY <1>1, <1>2, <1>3, <1>4

\* At most one Worker builds, runs or reports the run, whatever is delivered twice or
\* dies -- as long as no forced pause met a run that somebody was executing.
THEOREM ClaimedOnceThm == Spec => []ClaimedOnce
<1>1. Types /\ Reported /\ Exclusive => ClaimedOnce
  BY OneClaim
<1> QED
  BY <1>1, ClaimIsExclusive, PTL

\* An outcome is final: a step of a run that is done or failed leaves its status, or
\* cancels it.
LEMMA OutcomeStays ==
    Types /\ Exclusive /\ [Next]_vars =>
        (~forced /\ status \in {"done", "failed"} => status' \in {status, "cancelled"})
<1> SUFFICES ASSUME Types, Exclusive, [Next]_vars, ~forced, status \in {"done", "failed"}
             PROVE  status' \in {status, "cancelled"}
  OBVIOUS
<1> USE DEF topicVars, runVars, workVars, leaseVars, apiVars
<1>1. ~Claimed /\ creating # "prepare"
  BY DEF Exclusive, ClaimedIsTaken, CreatedIsFree
<1>2. ASSUME NEW s \in Slot PROVE exec[s].pc \notin {"new", "work", "ending", "ended"}
  BY <1>1 DEF Claimed, Working, Finishing
<1>3. CASE ServiceStep
  BY <1>1, <1>3 DEF ServiceStep, Create, CreateQueued, CreatePublish, PauseCall, PauseStep, PauseLookup,
     PauseCas, PausePublish, ResumeCall, StopCall, Approve, SweepTimeout, Decide, PublishDecision,
     ApiCrash, LeaseExpires, LeaseLost
<1>4. ASSUME NEW w \in Worker, WorkerStep(w) PROVE status' \in {status, "cancelled"}
  <2>1. ASSUME NEW k \in Topic, Claim(w, k) PROVE status' = status
    BY <2>1 DEF Claim, FromStatus
  <2>2. ASSUME NEW k \in Topic, Build(w, k) \/ Start(w, k) PROVE status' = status
    BY <2>2 DEF Build, Start
  <2>3. CASE TakeTrigger(w) \/ TakeResume(w) \/ TakePause(w) \/ TakeStop(w)
    BY <2>3 DEF TakeTrigger, TakeResume, TakePause, TakeStop
  <2>4. CASE StopAwaited(w) \/ StopRead(w) \/ StopVoid(w) \/ StopCancel(w)
    BY <2>4 DEF StopAwaited, StopRead, StopVoid, StopCancel
  <2> QED
    BY <1>4, <2>1, <2>2, <2>3, <2>4 DEF WorkerStep
<1>5. ASSUME NEW w \in Worker, WorkerCrash(w) PROVE status' \in {status, "cancelled"}
  BY <1>5 DEF WorkerCrash
<1>6. ASSUME NEW s \in Slot, TaskStep(s) \/ Ask(s) \/ Raise(s) PROVE status' \in {status, "cancelled"}
  BY <1>2, <1>6 DEF TaskStep, Begin, Return, ReleaseLease, Report, Ask, Raise
<1>7. CASE UNCHANGED vars
  BY <1>7 DEF vars
<1> QED
  BY <1>3, <1>4, <1>5, <1>6, <1>7 DEF Next, ServiceStep, AtRest

\* No late report, duplicate or crash moves a run that is done or failed.
THEOREM EndedStaysThm == Spec => EndedStays
<1>1. Types /\ Reported /\ Exclusive /\ [Next]_vars =>
          [~forced /\ status \in {"done", "failed"} => status' \in {status, "cancelled"}]_vars
  BY OutcomeStays
<1> QED
  BY <1>1, ClaimIsExclusive, PTL DEF Spec, EndedStays

-----------------------------------------------------------------------------
(* Nothing is stopped unasked *)

\* No stop is on its way, nor being handled, nor done.
Unstopped(c, h, r) ==
    /\ \A i \in 1 .. Len(c) : c[i] # "stop"
    /\ \A w \in Worker : h[<<w, "command">>].pc \notin Stopping
    /\ r # "cancelled"

LEMMA ServiceStops == Types /\ NothingStopped /\ ServiceStep => NothingStopped'
<1> SUFFICES ASSUME Types, NothingStopped, ServiceStep, stops' = 0 PROVE Unstopped(cmds', hand', status')
  BY DEF NothingStopped, Unstopped
<1> USE DEF topicVars, runVars, workVars, leaseVars, apiVars
<1>p. ASSUME NEW c \in {"pause", "resume"}, Publish(c), \A i \in 1 .. Len(cmds) : cmds[i] # "stop"
      PROVE  \A i \in 1 .. Len(cmds') : cmds'[i] # "stop"
  BY <1>p DEF Publish, Types
<1>1. CASE StopCall
  BY <1>1 DEF StopCall, Types
<1>2. CASE ~StopCall
  <2>1. stops' = stops
    BY <1>2 DEF ServiceStep, Create, CreateQueued, CreatePublish, PauseCall, PauseStep, PauseLookup,
       PauseCas, PausePublish, ResumeCall, Approve, SweepTimeout, Decide, PublishDecision,
       ApiCrash, LeaseExpires, LeaseLost
  <2>2. Unstopped(cmds, hand, status)
    BY <2>1 DEF NothingStopped, Unstopped
  <2>3. hand' = hand
    BY <1>2 DEF ServiceStep, Create, CreateQueued, CreatePublish, PauseCall, PauseStep, PauseLookup,
       PauseCas, PausePublish, ResumeCall, Approve, SweepTimeout, Decide, PublishDecision,
       ApiCrash, LeaseExpires, LeaseLost
  <2>4. status' # "cancelled"
    BY <1>2, <2>2 DEF Unstopped, ServiceStep, Create, CreateQueued, CreatePublish, PauseCall, PauseStep,
       PauseLookup, PauseCas, PausePublish, ResumeCall, Approve, SweepTimeout, Decide, PublishDecision,
       ApiCrash, LeaseExpires, LeaseLost
  <2>5. cmds' = cmds \/ Publish("pause") \/ Publish("resume")
    BY <1>2 DEF ServiceStep, Create, CreateQueued, CreatePublish, PauseCall, PauseStep,
       PauseLookup, PauseCas, PausePublish, ResumeCall, Approve, SweepTimeout, Decide, PublishDecision,
       ApiCrash, LeaseExpires, LeaseLost
  <2> QED
    BY <1>p, <2>2, <2>3, <2>4, <2>5 DEF Unstopped
<1> QED
  BY <1>1, <1>2

LEMMA HandStops ==
    ASSUME Types, NEW w \in Worker, NEW k \in Topic, NEW pc,
           Hand(w, k, pc), pc \notin Stopping,
           \A v \in Worker : hand[<<v, "command">>].pc \notin Stopping
    PROVE  \A v \in Worker : hand'[<<v, "command">>].pc \notin Stopping
<1>1. <<w, k>> \in Worker \X Topic /\ \A v \in Worker : <<v, "command">> \in Worker \X Topic
  BY DEF Topic
<1>2. hand'[<<w, k>>].pc = pc
  BY <1>1 DEF Hand, Types, Handling
<1>3. \A h \in Worker \X Topic : h # <<w, k>> => hand'[h] = hand[h]
  BY <1>1 DEF Hand, Types
<1> QED
  BY <1>1, <1>2, <1>3

LEMMA WorkerStops ==
    ASSUME Types, NothingStopped, NEW w \in Worker, WorkerStep(w)
    PROVE  NothingStopped'
<1> USE DEF topicVars, runVars, workVars, leaseVars, apiVars
<1>0. /\ \A v \in Worker, k \in Topic : <<v, k>> \in Worker \X Topic
      /\ "command" \in Topic /\ "trigger" \in Topic
  BY DEF Topic
<1>1. stops' = stops
  BY DEF WorkerStep, TakeTrigger, TakeResume, TakePause, TakeStop, Claim, Build, Start,
     StopAwaited, StopRead, StopVoid, StopCancel
<1> SUFFICES ASSUME Unstopped(cmds, hand, status) PROVE Unstopped(cmds', hand', status')
  BY <1>1 DEF NothingStopped, Unstopped
<1> USE DEF Unstopped
<1>t. ASSUME NEW c, Take(c)
      PROVE  c # "stop" /\ \A i \in 1 .. Len(cmds') : cmds'[i] # "stop"
  <2>1. Len(cmds) \in Nat /\ Len(cmds) # 0 /\ c = cmds[1]
    BY <1>t DEF Take, Types
  <2>2. cmds' = cmds \/ (Len(cmds') = Len(cmds) - 1 /\ \A i \in 1 .. Len(cmds') : cmds'[i] = cmds[i + 1])
    BY <1>t DEF Take, Types
  <2> QED
    BY <2>1, <2>2
<1>2. CASE TakeTrigger(w)
  <2>1. \A v \in Worker : hand'[<<v, "command">>].pc \notin Stopping
    BY <1>0, <1>2, HandStops DEF TakeTrigger, Stopping
  <2> QED
    BY <1>2, <2>1 DEF TakeTrigger
<1>3. CASE TakeResume(w)
  <2>1. \A v \in Worker : hand'[<<v, "command">>].pc \notin Stopping
    BY <1>0, <1>3, HandStops DEF TakeResume, Stopping
  <2> QED
    BY <1>3, <1>t, <2>1 DEF TakeResume
<1>4. CASE TakePause(w)
  BY <1>4, <1>t DEF TakePause
<1>5. CASE TakeStop(w)
  BY <1>5, <1>t DEF TakeStop
<1>6. ASSUME NEW k \in Topic, Claim(w, k)
      PROVE  Unstopped(cmds', hand', status')
  <2>1. \A v \in Worker : hand'[<<v, "command">>].pc \notin Stopping
    BY <1>0, <1>6, HandStops DEF Claim, Stopping
  <2> QED
    BY <1>6, <2>1 DEF Claim
<1>7. ASSUME NEW k \in Topic, Build(w, k)
      PROVE  Unstopped(cmds', hand', status')
  <2>1. \A v \in Worker : hand'[<<v, "command">>].pc \notin Stopping
    BY <1>0, <1>7 DEF Build, Stopping, Types
  <2> QED
    BY <1>7, <2>1 DEF Build
<1>8. ASSUME NEW k \in Topic, Start(w, k)
      PROVE  Unstopped(cmds', hand', status')
  <2>1. \A v \in Worker : hand'[<<v, "command">>].pc \notin Stopping
    BY <1>0, <1>8 DEF Start, Stopping, Types, NotHandling
  <2> QED
    BY <1>8, <2>1 DEF Start
<1>9. CASE StopAwaited(w) \/ StopRead(w) \/ StopVoid(w) \/ StopCancel(w)
  BY <1>9 DEF StopAwaited, StopRead, StopVoid, StopCancel, Stopping
<1> QED
  BY <1>2, <1>3, <1>4, <1>5, <1>6, <1>7, <1>8, <1>9 DEF WorkerStep

LEMMA CrashStops ==
    ASSUME Types, Reported, NothingStopped, NEW w \in Worker, WorkerCrash(w)
    PROVE  NothingStopped'
<1> USE DEF topicVars, runVars, workVars, leaseVars, apiVars
<1>1. stops' = stops /\ status' = status
  BY DEF WorkerCrash
<1> SUFFICES ASSUME Unstopped(cmds, hand, status) PROVE Unstopped(cmds', hand', status')
  BY <1>1 DEF NothingStopped, Unstopped
<1> USE DEF Unstopped
<1>2. \A v \in Worker : hand'[<<v, "command">>].pc \notin Stopping
  BY DEF WorkerCrash, Types, Topic, NotHandling, Stopping
<1>3. cmds' = cmds \/ cmds' = <<"resume">> \o cmds
  BY CrashTypes DEF Redelivered
<1>4. \A i \in 1 .. Len(<<"resume">> \o cmds) : (<<"resume">> \o cmds)[i] # "stop"
  <2>1. <<"resume">> \in Seq({"resume"}) /\ Len(<<"resume">>) = 1 /\ <<"resume">>[1] = "resume"
    OBVIOUS
  <2>2. Len(<<"resume">> \o cmds) = 1 + Len(cmds) /\ Len(cmds) \in Nat
    BY DEF Types
  <2>3. \A i \in 1 .. 1 + Len(cmds) : (<<"resume">> \o cmds)[i] = IF i = 1 THEN "resume" ELSE cmds[i - 1]
    BY <2>1 DEF Types
  <2> QED
    BY <2>2, <2>3
<1> QED
  BY <1>1, <1>2, <1>3, <1>4

LEMMA SlotStops ==
    ASSUME Types, Reported, NothingStopped, NEW s \in Slot, TaskStep(s) \/ Ask(s) \/ Raise(s)
    PROVE  NothingStopped'
<1> USE DEF topicVars, runVars, workVars, leaseVars, apiVars
<1>1. stops' = stops /\ cmds' = cmds /\ hand' = hand
  BY DEF TaskStep, Begin, Return, ReleaseLease, Report, Ask, Raise
<1>2. status' = status \/ status' = exec[s].outcome
  BY DEF TaskStep, Begin, Return, ReleaseLease, Report, Ask, Raise
<1>3. exec[s].outcome # "cancelled"
  BY DEF Types, Executing
<1> QED
  BY <1>1, <1>2, <1>3 DEF NothingStopped

LEMMA NothingStoppedNext == Types /\ Reported /\ NothingStopped /\ [Next]_vars => NothingStopped'
<1> SUFFICES ASSUME Types, Reported, NothingStopped, [Next]_vars PROVE NothingStopped'
  OBVIOUS
<1>1. CASE UNCHANGED vars
  BY <1>1 DEF vars, topicVars, runVars, workVars, leaseVars, apiVars, NothingStopped
<1> QED
  BY <1>1, ServiceStops, WorkerStops, CrashStops, SlotStops DEF Next, ServiceStep, AtRest

LEMMA NothingStoppedInit == Init => NothingStopped
BY DEF Init, NothingStopped, Topic, NotHandling, Stopping

\* The status tells whether the run is claimed: a run that rests, waits in a topic
\* or ended is nobody's (unless it was stopped, or paused by force, meanwhile).
THEOREM ClaimIsRunningThm == Spec => []ClaimIsRunning
<1>1. Exclusive /\ NothingStopped => ClaimIsRunning
  BY DEF Exclusive, ClaimedIsTaken, NothingStopped, ClaimIsRunning
<1>2. IInv /\ [Next]_vars => IInv'
  BY TypesNext, ExclusiveNext, NothingStoppedNext DEF IInv
<1>3. Init => IInv
  BY TypesInit, ExclusiveInit, NothingStoppedInit DEF IInv
<1>4. IInv => ClaimIsRunning
  BY <1>1 DEF IInv
<1> QED
  BY <1>2, <1>3, <1>4, PTL DEF Spec
=============================================================================
