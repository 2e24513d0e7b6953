----------------------------- MODULE NodeExecution ----------------------------
(***************************************************************************)
(* One working node (agent or ticket) in each of several runs of one       *)
(* workflow: the attempts behind DAGExecutor._exec_node_inner, the ledger  *)
(* node_attempts (executor/idempotency.py) and the row of the node.  The   *)
(* executor may die at any await; the run is then resumed, and a node      *)
(* whose row is not terminal is executed again from the start.             *)
(*                                                                         *)
(* `effects` counts what happened in the outside world.  An attempt may    *)
(* fail after its effect (a timeout, a lost answer).  An output is "good", *)
(* "bad" (its own verdict or its unmet delivery says no) or "hollow" (it   *)
(* claims files, and none of the tool calls it did make could have written *)
(* any; a claim without tool calls cannot be judged and counts as good).   *)
(***************************************************************************)
EXTENDS Naturals, Sequences

CONSTANTS Run,         \* runs of the workflow
          Config,      \* the declarations of the node considered
          NoKey, ContentKey,
          MaxCrashes,  \* bound on deaths of an executor
          MaxFaults    \* bound on failing writes of the ledger

ASSUME ConfigsAreNodes ==
    Config \subseteq [declared : {"no", "usable", "unusable"}, sideEffect : BOOLEAN,
                      retry : Nat, continue : BOOLEAN, required : BOOLEAN]
ASSUME KeysDiffer == NoKey # ContentKey /\ {NoKey, ContentKey} \cap Run = {}
ASSUME BoundsAreNat == MaxCrashes \in Nat /\ MaxFaults \in Nat

VARIABLES
    config,   \* the node's declaration in the frozen workflow
    row,      \* per run, the status in the row of the node ...
    out,      \* ... and its output
    ledger,   \* per run, the rows of node_attempts
    effects,  \* per run, how often the effect took place
    pc,       \* per run, the control point of _exec_node_inner
    attempt,  \* the loop variable of execute_with_idempotency
    output,   \* the result in hand
    fresh,    \* runs whose process called the runner, and has tool calls to show
    inserted, \* runs with a row under the current execution_id
    crashes, faults

worldVars == <<ledger, effects>>
rowVars   == <<row, out>>
execVars  == <<pc, attempt, output, fresh, inserted>>
vars      == <<config, rowVars, worldVars, execVars, crashes, faults>>

-----------------------------------------------------------------------------
(* Types *)

Outputs == {"good", "bad", "hollow"}

Results == Outputs \cup {"none", "negative"}

PC == {"idle", "precheck", "lookup", "act", "recordOk", "recordFail", "onError",
       "judge", "doneRow", "failRow", "failed", "over"}

Attempts == [status : {"succeeded", "failed"}, output : Results]

TypeOK ==
    /\ config \in Config
    /\ row \in [Run -> {"none", "running", "done", "failed"}]
    /\ out \in [Run -> Results]
    /\ ledger \in [Run -> Seq(Attempts)]
    /\ effects \in [Run -> Nat]
    /\ pc \in [Run -> PC]
    /\ attempt \in [Run -> Nat]
    /\ output \in [Run -> Results]
    /\ fresh \in SUBSET Run /\ inserted \in SUBSET Run
    /\ crashes \in 0 .. MaxCrashes /\ faults \in 0 .. MaxFaults

Init ==
    /\ config \in Config
    /\ row = [r \in Run |-> "none"] /\ out = [r \in Run |-> "none"]
    /\ ledger = [r \in Run |-> <<>>] /\ effects = [r \in Run |-> 0]
    /\ pc = [r \in Run |-> "idle"] /\ attempt = [r \in Run |-> 0]
    /\ output = [r \in Run |-> "none"]
    /\ fresh = {} /\ inserted = {}
    /\ crashes = 0 /\ faults = 0

-----------------------------------------------------------------------------
(* Helpers *)

\* _external_operation_id: a usable declared key, else a key of the run for nodes
\* with side effects and for those that declared one.
Key(r) ==
    IF config.declared = "usable" THEN ContentKey
    ELSE IF config.sideEffect \/ config.declared = "unusable" THEN r
    ELSE NoKey

\* The outputs get_succeeded_attempt may return: rows of this run only.
Successes(rows) ==
    {rows[i].output : i \in {j \in DOMAIN rows : rows[j].status = "succeeded"}}

Succeeded(r) == Successes(ledger[r])

Go(r, p) == pc' = [pc EXCEPT ![r] = p]

Record(r, status, result) ==
    /\ ledger' = [ledger EXCEPT ![r] = Append(@, [status |-> status, output |-> result])]
    /\ inserted' = inserted \cup {r}

Fault == faults < MaxFaults /\ faults' = faults + 1

-----------------------------------------------------------------------------
(* _exec_node_inner and _run_with_retry *)

\* Mutant: a row that says "running" is taken for somebody else's.
BeginOnce(r) ==
    /\ pc[r] = "idle" /\ row[r] = "none"
    /\ row' = [row EXCEPT ![r] = "running"] /\ out' = [out EXCEPT ![r] = "none"]
    /\ Go(r, "precheck")
    /\ UNCHANGED <<config, worldVars, attempt, output, fresh, inserted, crashes, faults>>

\* A node that is not terminal in the checkpoint starts with the row "running".
Begin(r) ==
    /\ pc[r] = "idle"
    /\ row' = [row EXCEPT ![r] = "running"] /\ out' = [out EXCEPT ![r] = "none"]
    /\ Go(r, "precheck")
    /\ UNCHANGED <<config, worldVars, attempt, output, fresh, inserted, crashes, faults>>

\* Mutant: a missing input is raised past on_failure.
PrecheckRaises(r) ==
    /\ pc[r] = "precheck"
    /\ Go(r, IF config.required THEN "lookup" ELSE "failRow")
    /\ UNCHANGED <<config, rowVars, worldVars, attempt, output, fresh, inserted, crashes, faults>>

\* The required inputs are usable, or on_error decides at once.
Precheck(r) ==
    /\ pc[r] = "precheck"
    /\ Go(r, IF config.required THEN "lookup" ELSE "onError")
    /\ UNCHANGED <<config, rowVars, worldVars, attempt, output, fresh, inserted, crashes, faults>>

\* Mutant: the ledger is not consulted.
LookupNothing(r) ==
    /\ pc[r] = "lookup"
    /\ Go(r, "act")
    /\ attempt' = [attempt EXCEPT ![r] = 0]
    /\ inserted' = inserted \ {r}
    /\ UNCHANGED <<config, rowVars, worldVars, output, fresh, crashes, faults>>

\* A node with a key reuses any success of this run that the store returns.
Lookup(r) ==
    /\ pc[r] = "lookup"
    /\ IF Key(r) # NoKey /\ Succeeded(r) # {}
       THEN /\ \E o \in Succeeded(r) : output' = [output EXCEPT ![r] = o]
            /\ Go(r, "judge")
            /\ UNCHANGED <<attempt, inserted>>
       ELSE /\ Go(r, "act")
            /\ attempt' = [attempt EXCEPT ![r] = 0]
            /\ inserted' = inserted \ {r}
            /\ output' = output
    /\ UNCHANGED <<config, rowVars, worldVars, fresh, crashes, faults>>

\* action(): the effect takes place or not, and the answer comes or not.
Act(r) ==
    /\ pc[r] = "act"
    /\ fresh' = fresh \cup {r}
    /\ \/ /\ effects' = [effects EXCEPT ![r] = @ + 1]
          /\ \E o \in Outputs : output' = [output EXCEPT ![r] = o]
          /\ Go(r, "recordOk")
       \/ /\ \E x \in {0, 1} : effects' = [effects EXCEPT ![r] = @ + x]
          /\ Go(r, "recordFail")
          /\ output' = output
    /\ UNCHANGED <<config, rowVars, ledger, attempt, inserted, crashes, faults>>

\* Mutant: the node's row first, the ledger never.
RecordOkLater(r) ==
    /\ pc[r] = "recordOk"
    /\ Go(r, "judge")
    /\ UNCHANGED <<config, rowVars, worldVars, attempt, output, fresh, inserted,
                   crashes, faults>>

\* The success is recorded inside the try: a failing write counts as a failed
\* attempt, whether or not the row went in.
RecordOk(r) ==
    /\ pc[r] = "recordOk"
    /\ \/ Record(r, "succeeded", output[r]) /\ Go(r, "judge") /\ faults' = faults
       \/ Record(r, "succeeded", output[r]) /\ Go(r, "recordFail") /\ Fault
       \/ UNCHANGED <<ledger, inserted>> /\ Go(r, "recordFail") /\ Fault
    /\ UNCHANGED <<config, rowVars, effects, attempt, output, fresh, crashes>>

\* After the record of a failure: the next attempt, with an execution_id of its
\* own, or on_error when they are exhausted.
Retry(r) ==
    IF attempt[r] < config.retry
    THEN /\ attempt' = [attempt EXCEPT ![r] = @ + 1]
         /\ Go(r, "act")
    ELSE Go(r, "onError") /\ attempt' = attempt

\* The exception of a failing record leaves execute_with_idempotency and run():
\* nothing more is written, and the run must be resumed.
Leave(r) ==
    /\ pc' = [pc EXCEPT ![r] = "idle"]
    /\ fresh' = fresh \ {r}

\* Mutant: a failed attempt leaves no row.
RecordFailSilently(r) ==
    /\ pc[r] = "recordFail"
    /\ Retry(r)
    /\ UNCHANGED <<config, rowVars, worldVars, output, fresh, inserted, crashes, faults>>

\* The execution_id is the primary key: when the success went in after all, the
\* record of the failure is refused.
RecordFail(r) ==
    /\ pc[r] = "recordFail"
    /\ \/ /\ r \in inserted
          /\ Leave(r)
          /\ UNCHANGED <<ledger, inserted, attempt, faults>>
       \/ /\ Leave(r) /\ Fault
          /\ UNCHANGED <<ledger, inserted, attempt>>
       \/ /\ r \notin inserted
          /\ ledger' = [ledger EXCEPT ![r] =
                           Append(@, [status |-> "failed", output |-> "none"])]
          /\ Retry(r)
          /\ UNCHANGED <<inserted, fresh, faults>>
    /\ UNCHANGED <<config, rowVars, effects, output, crashes>>

\* on_failure: continue turns the failure into negative evidence.
OnError(r) ==
    /\ pc[r] = "onError"
    /\ IF config.continue
       THEN output' = [output EXCEPT ![r] = "negative"] /\ Go(r, "judge")
       ELSE output' = [output EXCEPT ![r] = "none"] /\ Go(r, "failRow")
    /\ UNCHANGED <<config, rowVars, worldVars, attempt, fresh, inserted, crashes, faults>>

-----------------------------------------------------------------------------
(* The guards on the output, and the row *)

\* Mutant: the verdict is judged within reach of on_failure.
JudgeInside(r) ==
    /\ pc[r] = "judge"
    /\ Go(r, IF output[r] = "bad" /\ ~config.continue THEN "failRow" ELSE "doneRow")
    /\ UNCHANGED <<config, rowVars, worldVars, attempt, output, fresh, inserted,
                   crashes, faults>>

\* A bad output fails the node whatever on_failure says; a hollow one does when
\* the runner has tool calls to judge it by, which a reused result has not.
Judge(r) ==
    /\ pc[r] = "judge"
    /\ Go(r, IF output[r] = "bad" \/ (output[r] = "hollow" /\ r \in fresh)
             THEN "failRow" ELSE "doneRow")
    /\ UNCHANGED <<config, rowVars, worldVars, attempt, output, fresh, inserted,
                   crashes, faults>>

\* Mutant: the status of the attempt in the place of the node's.
WriteDoneAttempt(r) ==
    /\ pc[r] = "doneRow"
    /\ row' = [row EXCEPT ![r] = "succeeded"] /\ out' = [out EXCEPT ![r] = output[r]]
    /\ Go(r, "over")
    /\ UNCHANGED <<config, worldVars, attempt, output, fresh, inserted, crashes, faults>>

WriteDone(r) ==
    /\ pc[r] = "doneRow"
    /\ row' = [row EXCEPT ![r] = "done"] /\ out' = [out EXCEPT ![r] = output[r]]
    /\ Go(r, "over")
    /\ UNCHANGED <<config, worldVars, attempt, output, fresh, inserted, crashes, faults>>

WriteFailed(r) ==
    /\ pc[r] = "failRow"
    /\ row' = [row EXCEPT ![r] = "failed"] /\ out' = [out EXCEPT ![r] = output[r]]
    /\ Go(r, "failed")
    /\ UNCHANGED <<config, worldVars, attempt, output, fresh, inserted, crashes, faults>>

\* The Worker reports the run as failed: it is not resumed any more.
ReportFailed(r) ==
    /\ pc[r] = "failed"
    /\ Go(r, "over")
    /\ UNCHANGED <<config, rowVars, worldVars, attempt, output, fresh, inserted,
                   crashes, faults>>

\* The executor dies; until the run was reported, even a failed node starts again.
Crash(r) ==
    /\ pc[r] \notin {"idle", "over"} /\ crashes < MaxCrashes
    /\ crashes' = crashes + 1
    /\ Leave(r)
    /\ UNCHANGED <<config, rowVars, worldVars, attempt, output, inserted, faults>>

-----------------------------------------------------------------------------
Step(r) ==
    \/ Begin(r) \/ Precheck(r) \/ Lookup(r) \/ Act(r) \/ RecordOk(r) \/ RecordFail(r)
    \/ OnError(r) \/ Judge(r) \/ WriteDone(r) \/ WriteFailed(r) \/ ReportFailed(r)

\* A node that is over stays so, and nobody has to resume an interrupted run.
AtRest == (\A r \in Run : pc[r] \in {"idle", "over"}) /\ UNCHANGED vars

Next ==
    \/ \E r \in Run : Step(r) \/ Crash(r)
    \/ AtRest

Spec == Init /\ [][Next]_vars

\* The event loop runs the node's task, and an interrupted run is resumed.
FairSpec == Spec /\ \A r \in Run : WF_vars(Step(r))

-----------------------------------------------------------------------------
(* Safety *)

Keyed(r) == Key(r) # NoKey

\* A side effect that is on record as a success is not performed again, through
\* any crashes, resumes, retries and failing writes (05-idempotency.md:5).
RecordedOnce ==
    [][\A r \in Run : Keyed(r) /\ Succeeded(r) # {} => effects'[r] = effects[r]]_vars

\* What is done is on record: the output in the row is that of a recorded success
\* of the same run -- or negative evidence that the node's declaration allows.
DoneIsOnRecord ==
    \A r \in Run : row[r] = "done" =>
        out[r] \in Succeeded(r) \/ (config.continue /\ out[r] = "negative")

\* The ledger accounts for the outside world: every effect has its row, but for
\* one in hand, one per crash and one per failing write.
EffectsAreOnRecord ==
    \A r \in Run :
        effects[r] <= Len(ledger[r]) + crashes + faults
                      + (IF pc[r] \in {"recordOk", "recordFail"} THEN 1 ELSE 0)

\* A verdict stands: a node never gets done with a bad output, nor, once a keyed
\* node's bad output is on record, by trying again after a crash.
VerdictStands ==
    \A r \in Run : row[r] = "done" =>
        out[r] # "bad" /\ (Keyed(r) => "bad" \notin Succeeded(r))

\* Under on_failure: continue a node fails for what it put out, and for nothing
\* that went wrong on the way (NodeInputError included).
ContinueGoesOn ==
    \A r \in Run : config.continue /\ row[r] = "failed" => out[r] \in {"bad", "hollow"}

-----------------------------------------------------------------------------
(* Liveness *)

\* Every node settles: retries end, and crashes only delay it.
NodeSettles == \A r \in Run : <>[](pc[r] = "over" /\ row[r] \in {"done", "failed"})
=============================================================================
