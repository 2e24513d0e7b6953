------------------------------ MODULE NodeProofs ------------------------------
(***************************************************************************)
(* Proofs about one node: of NodeExecution, what becomes of its attempts,  *)
(* for every set of runs, every declaration of the node, any number of     *)
(* retries, crashes and failing writes; and of AgentConfig, what its agent *)
(* is given, for any servers, nodes, changes and failures.  The two share  *)
(* no variable.                                                            *)
(***************************************************************************)
EXTENDS NodeExecution, AgentConfig, FiniteSetTheorems, WellFoundedInduction, TLAPS

-----------------------------------------------------------------------------
(* The ledger *)

\* A row appended to the ledger adds its output to the successes if it is one.
LEMMA SuccessesAppend ==
    ASSUME NEW s \in Seq(Attempts), NEW a \in Attempts
    PROVE  Successes(Append(s, a)) =
               Successes(s) \cup (IF a.status = "succeeded" THEN {a.output} ELSE {})
<1> DEFINE t == Append(s, a)
<1>1. /\ Len(t) = Len(s) + 1 /\ Len(s) \in Nat
      /\ DOMAIN s = 1 .. Len(s) /\ DOMAIN t = 1 .. Len(t)
      /\ \A i \in 1 .. Len(s) : t[i] = s[i]
      /\ t[Len(s) + 1] = a
  OBVIOUS
<1>2. DOMAIN t = DOMAIN s \cup {Len(s) + 1}
  BY <1>1
<1> QED
  BY <1>1, <1>2 DEF Successes

\* No success in an empty ledger.
LEMMA SuccessesEmpty == Successes(<<>>) = {}
BY DEF Successes

-----------------------------------------------------------------------------
(* Type correctness *)

LEMMA TypeOKInit == Init => TypeOK
BY BoundsAreNat DEF Init, TypeOK, PC, Results

\* The control point stays in its type wherever a step goes.
LEMMA GoTypeOK ==
    ASSUME TypeOK, NEW r \in Run, NEW p \in PC, Go(r, p)
    PROVE  pc' \in [Run -> PC]
BY DEF TypeOK, Go

LEMMA LookupTypeOK ==
    ASSUME TypeOK, NEW r \in Run, Lookup(r)
    PROVE  TypeOK'
<1>1. ASSUME NEW o \in Succeeded(r)
      PROVE  o \in Results
  <2>1. PICK i \in DOMAIN ledger[r] : o = ledger[r][i].output
    BY DEF Succeeded, Successes
  <2>2. ledger[r] \in Seq(Attempts)
    BY DEF TypeOK
  <2>3. ledger[r][i] \in Attempts
    BY <2>1, <2>2
  <2> QED
    BY <2>1, <2>3 DEF Attempts
<1>2. output' \in [Run -> Results]
  BY <1>1 DEF Lookup, TypeOK
<1>3. \E p \in PC : Go(r, p)
  BY DEF Lookup, PC
<1>4. attempt' \in [Run -> Nat] /\ inserted' \in SUBSET Run
  <2>1. attempt \in [Run -> Nat] /\ inserted \in SUBSET Run
    BY DEF TypeOK
  <2>2. attempt' = attempt \/ attempt' = [attempt EXCEPT ![r] = 0]
    BY DEF Lookup
  <2>3. inserted' = inserted \/ inserted' = inserted \ {r}
    BY DEF Lookup
  <2>4. attempt' \in [Run -> Nat]
    BY <2>1, <2>2
  <2> QED
    BY <2>1, <2>3, <2>4
<1>5. pc' \in [Run -> PC]
  BY <1>3, GoTypeOK
<1>6. UNCHANGED <<config, rowVars, worldVars, fresh, crashes, faults>>
  BY Zenon DEF Lookup
<1> QED
  BY <1>2, <1>4, <1>5, <1>6 DEF TypeOK, rowVars, worldVars

LEMMA ActTypeOK ==
    ASSUME TypeOK, NEW r \in Run, Act(r)
    PROVE  TypeOK'
<1>1. PICK x \in {0, 1} : effects' = [effects EXCEPT ![r] = effects[r] + x]
  BY DEF Act
<1>2. effects \in [Run -> Nat] /\ effects[r] + x \in Nat
  BY DEF TypeOK
<1>3. effects' \in [Run -> Nat]
  BY <1>1, <1>2
<1>4. output' \in [Run -> Results] /\ fresh' \in SUBSET Run
  <2>1. output' = output \/ \E o \in Outputs : output' = [output EXCEPT ![r] = o]
    BY DEF Act
  <2>2. fresh' = fresh \cup {r}
    BY DEF Act
  <2> QED
    BY <2>1, <2>2 DEF TypeOK, Results
<1>5. \E p \in PC : Go(r, p)
  BY DEF Act, PC
<1> QED
  BY <1>3, <1>4, <1>5, GoTypeOK DEF Act, TypeOK, rowVars

\* What is appended to the ledger is an attempt, and a fault was allowed for.
LEMMA RecordTypeOK ==
    ASSUME TypeOK, NEW r \in Run, RecordOk(r) \/ RecordFail(r)
    PROVE  TypeOK'
<1>1. ASSUME NEW a \in Attempts
      PROVE  [ledger EXCEPT ![r] = Append(ledger[r], a)] \in [Run -> Seq(Attempts)]
  <2>1. ledger \in [Run -> Seq(Attempts)] /\ ledger[r] \in Seq(Attempts)
    BY DEF TypeOK
  <2>2. Append(ledger[r], a) \in Seq(Attempts)
    BY <2>1
  <2> QED
    BY <2>1, <2>2
<1>2. /\ [status |-> "succeeded", output |-> output[r]] \in Attempts
      /\ [status |-> "failed", output |-> "none"] \in Attempts
  BY DEF TypeOK, Attempts, Results
<1>3. ledger' \in [Run -> Seq(Attempts)]
  <2>1. \/ UNCHANGED ledger
        \/ ledger' = [ledger EXCEPT ![r] = Append(ledger[r],
                           [status |-> "succeeded", output |-> output[r]])]
        \/ ledger' = [ledger EXCEPT ![r] = Append(ledger[r],
                           [status |-> "failed", output |-> "none"])]
    BY DEF RecordOk, Record, RecordFail
  <2>2. CASE UNCHANGED ledger
    BY <2>2 DEF TypeOK
  <2> QED
    BY <1>1, <1>2, <2>1, <2>2
<1>4. inserted' \in SUBSET Run /\ fresh' \in SUBSET Run
  BY DEF RecordOk, Record, RecordFail, Leave, TypeOK
<1>5. \E p \in PC : Go(r, p)
  BY DEF RecordOk, RecordFail, Retry, Leave, Go, PC
<1>6. attempt' = attempt \/ attempt' = [attempt EXCEPT ![r] = attempt[r] + 1]
  BY DEF RecordOk, RecordFail, Retry
<1>7. attempt' \in [Run -> Nat]
  <2>1. attempt \in [Run -> Nat] /\ attempt[r] + 1 \in Nat
    BY DEF TypeOK
  <2> QED
    BY <1>6, <2>1
<1>8. faults' \in 0 .. MaxFaults
  <2>1. faults' = faults \/ Fault
    BY DEF RecordOk, RecordFail
  <2> QED
    BY <2>1, BoundsAreNat DEF Fault, TypeOK
<1>9. UNCHANGED <<config, rowVars, effects, output, crashes>>
  BY Zenon DEF RecordOk, RecordFail
<1>10. pc' \in [Run -> PC]
  BY <1>5, GoTypeOK
<1> QED
  BY <1>3, <1>4, <1>7, <1>8, <1>9, <1>10 DEF TypeOK, rowVars

LEMMA TypeOKStep ==
    ASSUME TypeOK, NEW r \in Run, Step(r) \/ Crash(r)
    PROVE  TypeOK'
<1> USE DEF TypeOK, Go, rowVars, worldVars, PC
<1>1. CASE Begin(r)
  BY <1>1 DEF Begin, Results
<1>2. CASE Precheck(r)
  BY <1>2 DEF Precheck
<1>3. CASE OnError(r)
  BY <1>3 DEF OnError, Results
<1>4. CASE Judge(r)
  BY <1>4 DEF Judge
<1>5. CASE WriteDone(r)
  BY <1>5 DEF WriteDone
<1>6. CASE WriteFailed(r)
  BY <1>6 DEF WriteFailed
<1>7. CASE ReportFailed(r)
  BY <1>7 DEF ReportFailed
<1>8. CASE Crash(r)
  BY <1>8, BoundsAreNat DEF Crash, Leave
<1> QED
  BY <1>1, <1>2, <1>3, <1>4, <1>5, <1>6, <1>7, <1>8,
     LookupTypeOK, ActTypeOK, RecordTypeOK DEF Step

LEMMA TypeOKNext == TypeOK /\ [Next]_vars => TypeOK'
<1> SUFFICES ASSUME TypeOK, [Next]_vars
             PROVE  TypeOK'
  OBVIOUS
<1>1. CASE UNCHANGED vars
  BY <1>1 DEF vars, TypeOK, rowVars, worldVars, execVars
<1> QED
  BY <1>1, TypeOKStep DEF Next, AtRest

\* Rows, ledger and the state of every execution keep their types.
THEOREM TypeCorrect == Spec => []TypeOK
BY TypeOKInit, TypeOKNext, PTL DEF Spec

-----------------------------------------------------------------------------
(* The inductive invariant: what the control point of a run says about its   *)
(* ledger, the output in hand and the row.                                   *)

\* The current execution_id has no row when the action is called.
NotInserted(r) == pc[r] \in {"act", "recordOk"} => r \notin inserted

\* A keyed node acts, and fails, only while no success is on record.
NothingYet(r) ==
    Keyed(r) /\ (\/ pc[r] \in {"act", "recordOk", "onError"}
                 \/ pc[r] = "recordFail" /\ r \notin inserted)
        => Succeeded(r) = {}

\* Hence the ledger never holds two different successes to choose from.
OneSuccess(r) == Keyed(r) => \A o, p \in Succeeded(r) : o = p

\* Without usable inputs nothing is attempted at all.
OnlyUsable(r) ==
    ~config.required =>
        /\ Succeeded(r) = {}
        /\ pc[r] \notin {"lookup", "act", "recordOk", "recordFail"}

\* An output comes from the ledger or is negative evidence.
Backed(r, o) ==
    \/ o \in Succeeded(r)
    \/ config.continue /\ o = "negative" /\ (Keyed(r) => Succeeded(r) = {})

InHand(r) ==
    /\ pc[r] \in {"judge", "doneRow"} => Backed(r, output[r])
    /\ pc[r] = "doneRow" => output[r] # "bad"
    /\ pc[r] = "failRow" /\ config.continue => output[r] \in {"bad", "hollow"}

InRow(r) ==
    /\ row[r] = "done" => pc[r] = "over" /\ Backed(r, out[r]) /\ out[r] # "bad"
    /\ row[r] = "failed" /\ config.continue => out[r] \in {"bad", "hollow"}

\* What the ledger, the deaths and the failing writes can account for.
Covered(r) == Len(ledger[r]) + crashes + faults

\* Every effect but the one in hand is covered; a success whose record failed
\* and yet went in is covered twice.
Accounted(r) ==
    /\ effects[r] <= Covered(r) + 1
    /\ \/ pc[r] \notin {"recordOk", "recordFail"}
       \/ pc[r] = "recordFail" /\ r \in inserted
       => effects[r] <= Covered(r)

RunInv(r) ==
    /\ NotInserted(r) /\ NothingYet(r) /\ OneSuccess(r) /\ OnlyUsable(r)
    /\ InHand(r) /\ InRow(r) /\ Accounted(r)

IInv == TypeOK /\ \A r \in Run : RunInv(r)

-----------------------------------------------------------------------------
(* A step of one run leaves the others alone *)

LEMMA Frame ==
    ASSUME TypeOK, NEW r \in Run, NEW s \in Run, s # r, Step(r) \/ Crash(r)
    PROVE  /\ row'[s] = row[s] /\ out'[s] = out[s]
           /\ ledger'[s] = ledger[s] /\ effects'[s] = effects[s]
           /\ pc'[s] = pc[s] /\ output'[s] = output[s]
           /\ s \in inserted' <=> s \in inserted
<1>1. /\ row \in [Run -> {"none", "running", "done", "failed"}]
      /\ out \in [Run -> Results] /\ output \in [Run -> Results]
      /\ ledger \in [Run -> Seq(Attempts)] /\ effects \in [Run -> Nat]
      /\ pc \in [Run -> PC]
  BY DEF TypeOK
<1>2. row'[s] = row[s] /\ out'[s] = out[s]
  <2>1. CASE Begin(r)
    BY <2>1, <1>1 DEF Begin
  <2>2. CASE WriteDone(r)
    BY <2>2, <1>1 DEF WriteDone
  <2>3. CASE WriteFailed(r)
    BY <2>3, <1>1 DEF WriteFailed
  <2>4. CASE UNCHANGED rowVars
    BY <2>4 DEF rowVars
  <2> QED
    BY <2>1, <2>2, <2>3, <2>4, Zenon
       DEF Step, Precheck, Lookup, Act, RecordOk, RecordFail, OnError, Judge,
           ReportFailed, Crash
<1>3. ledger'[s] = ledger[s] /\ (s \in inserted' <=> s \in inserted)
  <2>1. CASE RecordOk(r)
    BY <2>1, <1>1 DEF RecordOk, Record
  <2>2. CASE RecordFail(r)
    BY <2>2, <1>1 DEF RecordFail
  <2>3. CASE Lookup(r)
    BY <2>3 DEF Lookup, worldVars
  <2>4. CASE Act(r)
    BY <2>4 DEF Act
  <2>5. CASE UNCHANGED <<worldVars, inserted>>
    BY <2>5 DEF worldVars
  <2> QED
    BY <2>1, <2>2, <2>3, <2>4, <2>5, Zenon
       DEF Step, Begin, Precheck, OnError, Judge, WriteDone, WriteFailed,
           ReportFailed, Crash
<1>4. effects'[s] = effects[s]
  <2>1. CASE Act(r)
    BY <2>1, <1>1 DEF Act
  <2>2. CASE RecordOk(r) \/ RecordFail(r)
    BY <2>2 DEF RecordOk, RecordFail
  <2>3. CASE UNCHANGED worldVars
    BY <2>3 DEF worldVars
  <2> QED
    BY <2>1, <2>2, <2>3, Zenon
       DEF Step, Begin, Precheck, Lookup, OnError, Judge, WriteDone, WriteFailed,
           ReportFailed, Crash
<1>5. pc'[s] = pc[s]
  BY <1>1 DEF Step, Begin, Precheck, Lookup, Act, RecordOk, RecordFail, OnError, Judge,
              WriteDone, WriteFailed, ReportFailed, Crash, Leave, Retry, Go
<1>6. output'[s] = output[s]
  <2>1. CASE Lookup(r) \/ Act(r) \/ OnError(r)
    BY <2>1, <1>1 DEF Lookup, Act, OnError
  <2>2. CASE UNCHANGED output
    BY <2>2
  <2> QED
    BY <2>1, <2>2, Zenon
       DEF Step, Begin, Precheck, RecordOk, RecordFail, Judge, WriteDone,
           WriteFailed, ReportFailed, Crash
<1> QED
  BY <1>2, <1>3, <1>4, <1>5, <1>6

\* Nothing a step does changes the declaration or takes a count back.
LEMMA CountsGrow ==
    ASSUME TypeOK, NEW r \in Run, Step(r) \/ Crash(r)
    PROVE  /\ config' = config
           /\ crashes' \in {crashes, crashes + 1} /\ faults' \in {faults, faults + 1}
<1>1. config' = config
  BY Zenon DEF Step, Begin, Precheck, Lookup, Act, RecordOk, RecordFail, OnError, Judge,
              WriteDone, WriteFailed, ReportFailed, Crash
<1>2. crashes' = crashes \/ crashes' = crashes + 1
  BY Zenon DEF Step, Begin, Precheck, Lookup, Act, RecordOk, RecordFail, OnError, Judge,
              WriteDone, WriteFailed, ReportFailed, Crash
<1>3. faults' = faults \/ faults' = faults + 1
  <2>1. CASE RecordOk(r) \/ RecordFail(r)
    BY <2>1 DEF RecordOk, RecordFail, Fault
  <2>2. CASE UNCHANGED faults
    BY <2>2
  <2> QED
    BY <2>1, <2>2, Zenon
       DEF Step, Begin, Precheck, Lookup, Act, OnError, Judge, WriteDone,
           WriteFailed, ReportFailed, Crash
<1> QED
  BY <1>1, <1>2, <1>3

\* Whatever is added to the ledger or counted widens the cover.
LEMMA CoveredGrows ==
    ASSUME TypeOK, NEW r \in Run,
           Len(ledger'[r]) \in {Len(ledger[r]), Len(ledger[r]) + 1},
           crashes' \in {crashes, crashes + 1}, faults' \in {faults, faults + 1}
    PROVE  /\ Covered(r) \in Nat /\ Covered(r)' \in Nat /\ Covered(r)' >= Covered(r)
           /\ \/ Len(ledger'[r]) = Len(ledger[r]) + 1
              \/ crashes' = crashes + 1
              \/ faults' = faults + 1
              => Covered(r)' >= Covered(r) + 1
<1>1. Len(ledger[r]) \in Nat /\ crashes \in Nat /\ faults \in Nat
  <2>1. ledger[r] \in Seq(Attempts) /\ crashes \in Nat /\ faults \in Nat
    BY BoundsAreNat DEF TypeOK
  <2> QED
    BY <2>1
<1>2. PICK n \in Nat, c \in Nat, f \in Nat :
          n = Len(ledger[r]) /\ c = crashes /\ f = faults
  BY <1>1
<1>3. PICK m \in {n, n + 1}, d \in {c, c + 1}, g \in {f, f + 1} :
          m = Len(ledger'[r]) /\ d = crashes' /\ g = faults'
  BY <1>2
<1>4. Covered(r) = n + c + f /\ Covered(r)' = m + d + g
  BY <1>2, <1>3 DEF Covered
<1>5. /\ n + c + f \in Nat /\ m + d + g \in Nat /\ m + d + g >= n + c + f
      /\ m = n + 1 \/ d = c + 1 \/ g = f + 1 => m + d + g >= n + c + f + 1
  OBVIOUS
<1> QED
  BY <1>2, <1>3, <1>4, <1>5

\* So what holds of the others still does.
LEMMA OthersKeepInv ==
    ASSUME TypeOK, NEW r \in Run, NEW s \in Run, s # r, Step(r) \/ Crash(r), RunInv(s)
    PROVE  RunInv(s)'
<1>1. Covered(s) \in Nat /\ Covered(s)' \in Nat /\ Covered(s)' >= Covered(s)
  <2>1. Len(ledger'[s]) = Len(ledger[s])
    BY Frame
  <2>2. crashes' \in {crashes, crashes + 1} /\ faults' \in {faults, faults + 1}
    BY CountsGrow
  <2> QED
    BY <2>1, <2>2, CoveredGrows
<1>2. (Keyed(s) <=> Keyed(s)') /\ Succeeded(s)' = Succeeded(s)
  BY Frame, CountsGrow DEF Keyed, Key, Succeeded
<1>3. Accounted(s)'
  <2>1. effects[s] \in Nat
    BY DEF TypeOK
  <2> QED
    BY <1>1, <2>1, Frame DEF RunInv, Accounted
<1> QED
  BY <1>2, <1>3, Frame, CountsGrow
     DEF RunInv, NotInserted, NothingYet, OneSuccess, OnlyUsable, Backed, InHand, InRow

-----------------------------------------------------------------------------
(* A step and the run it belongs to, one lemma per kind of action *)

\* Begin, Precheck, OnError, Judge, the writes of the row and a crash touch
\* neither the ledger nor the world.
QuietStep(r) ==
    \/ Begin(r) \/ Precheck(r) \/ OnError(r) \/ Judge(r) \/ WriteDone(r)
    \/ WriteFailed(r) \/ ReportFailed(r) \/ Crash(r)

LEMMA QuietFacts ==
    ASSUME TypeOK, NEW r \in Run, QuietStep(r)
    PROVE  /\ Succeeded(r)' = Succeeded(r) /\ (Keyed(r)' <=> Keyed(r))
           /\ config' = config /\ ledger' = ledger /\ effects' = effects
           /\ inserted' = inserted
<1>1. ledger' = ledger /\ effects' = effects /\ inserted' = inserted
  BY Zenon DEF QuietStep, Begin, Precheck, OnError, Judge, WriteDone, WriteFailed,
               ReportFailed, Crash, worldVars
<1>2. config' = config
  BY CountsGrow DEF QuietStep, Step
<1> QED
  BY <1>1, <1>2 DEF Succeeded, Keyed, Key

LEMMA QuietKeepsAccounted ==
    ASSUME TypeOK, NEW r \in Run, QuietStep(r), RunInv(r)
    PROVE  Accounted(r)'
<1>1. effects' = effects /\ effects[r] \in Nat /\ pc \in [Run -> PC]
  BY QuietFacts DEF TypeOK
<1>2. pc[r] \notin {"recordOk", "recordFail"} \/ crashes' = crashes + 1
  BY <1>1 DEF QuietStep, Begin, Precheck, OnError, Judge, WriteDone, WriteFailed,
              ReportFailed, Crash
<1>3. /\ Covered(r) \in Nat /\ Covered(r)' \in Nat /\ Covered(r)' >= Covered(r)
      /\ crashes' = crashes + 1 => Covered(r)' >= Covered(r) + 1
  <2>1. Len(ledger'[r]) = Len(ledger[r])
    BY QuietFacts
  <2>2. crashes' \in {crashes, crashes + 1} /\ faults' \in {faults, faults + 1}
    BY CountsGrow DEF QuietStep, Step
  <2> QED
    BY <2>1, <2>2, CoveredGrows
<1>4. /\ effects[r] <= Covered(r) + 1
      /\ pc[r] \notin {"recordOk", "recordFail"} => effects[r] <= Covered(r)
  BY DEF RunInv, Accounted
<1>5. effects[r] <= Covered(r)' /\ effects[r] <= Covered(r)' + 1
  <2>1. CASE crashes' = crashes + 1
    BY <1>1, <1>3, <1>4, <2>1
  <2>2. CASE pc[r] \notin {"recordOk", "recordFail"}
    <3>1. effects[r] <= Covered(r)
      BY <1>4, <2>2
    <3> QED
      BY <1>1, <1>3, <3>1
  <2> QED
    BY <1>2, <2>1, <2>2
<1> QED
  BY <1>1, <1>5 DEF Accounted

LEMMA QuietKeepsInv ==
    ASSUME TypeOK, NEW r \in Run, QuietStep(r), RunInv(r)
    PROVE  RunInv(r)'
<1>1. /\ Succeeded(r)' = Succeeded(r) /\ (Keyed(r)' <=> Keyed(r))
      /\ config' = config /\ inserted' = inserted
  BY QuietFacts
<1>2. /\ pc \in [Run -> PC] /\ output \in [Run -> Results]
      /\ out \in [Run -> Results]
      /\ row \in [Run -> {"none", "running", "done", "failed"}]
  BY DEF TypeOK
<1> USE DEF RunInv, NotInserted, NothingYet, OneSuccess, OnlyUsable, Backed, InHand,
            InRow, Go
<1>3. Accounted(r)'
  BY QuietKeepsAccounted
<1>4. CASE Begin(r)
  BY <1>1, <1>2, <1>3, <1>4 DEF Begin
<1>5. CASE Precheck(r)
  BY <1>1, <1>2, <1>3, <1>5 DEF Precheck, rowVars
<1>6. CASE OnError(r)
  BY <1>1, <1>2, <1>3, <1>6 DEF OnError, rowVars
<1>7. CASE Judge(r)
  BY <1>1, <1>2, <1>3, <1>7 DEF Judge, rowVars
<1>8. CASE WriteDone(r)
  BY <1>1, <1>2, <1>3, <1>8 DEF WriteDone
<1>9. CASE WriteFailed(r)
  BY <1>1, <1>2, <1>3, <1>9 DEF WriteFailed
<1>10. CASE ReportFailed(r)
  BY <1>1, <1>2, <1>3, <1>10 DEF ReportFailed, rowVars
<1>11. CASE Crash(r)
  BY <1>1, <1>2, <1>3, <1>11 DEF Crash, Leave, rowVars
<1> QED
  BY <1>4, <1>5, <1>6, <1>7, <1>8, <1>9, <1>10, <1>11 DEF QuietStep

LEMMA LookupKeepsInv ==
    ASSUME TypeOK, NEW r \in Run, Lookup(r), RunInv(r)
    PROVE  RunInv(r)'
<1>1. /\ config' = config /\ ledger' = ledger /\ effects' = effects
      /\ UNCHANGED <<rowVars, crashes, faults>>
  BY Zenon DEF Lookup, worldVars
<1>2. Succeeded(r)' = Succeeded(r) /\ (Keyed(r)' <=> Keyed(r))
  BY <1>1 DEF Succeeded, Keyed, Key
<1>3. pc \in [Run -> PC] /\ output \in [Run -> Results] /\ inserted \in SUBSET Run
  BY DEF TypeOK
<1>4. CASE Keyed(r) /\ Succeeded(r) # {}
  <2>1. PICK o \in Succeeded(r) : output' = [output EXCEPT ![r] = o]
    BY <1>4 DEF Lookup, Keyed
  <2>2. pc'[r] = "judge" /\ inserted' = inserted /\ output'[r] = o
    BY <1>3, <1>4, <2>1 DEF Lookup, Keyed, Go
  <2>3. pc[r] = "lookup"
    BY DEF Lookup
  <2> QED
    BY <1>1, <1>2, <2>1, <2>2, <2>3
       DEF RunInv, NotInserted, NothingYet, OneSuccess, OnlyUsable, Backed, InHand,
           InRow, Accounted, Covered, rowVars
<1>5. CASE ~(Keyed(r) /\ Succeeded(r) # {})
  <2>1. pc'[r] = "act" /\ inserted' = inserted \ {r}
    BY <1>3, <1>5 DEF Lookup, Keyed, Go
  <2>2. pc[r] = "lookup"
    BY DEF Lookup
  <2> QED
    BY <1>1, <1>2, <1>5, <2>1, <2>2
       DEF RunInv, NotInserted, NothingYet, OneSuccess, OnlyUsable, Backed, InHand,
           InRow, Accounted, Covered, rowVars
<1> QED
  BY <1>4, <1>5

LEMMA ActKeepsInv ==
    ASSUME TypeOK, NEW r \in Run, Act(r), RunInv(r)
    PROVE  RunInv(r)'
<1>1. /\ config' = config /\ ledger' = ledger /\ inserted' = inserted
      /\ UNCHANGED <<rowVars, crashes, faults>>
  BY Zenon DEF Act
<1>2. Succeeded(r)' = Succeeded(r) /\ (Keyed(r)' <=> Keyed(r))
  BY <1>1 DEF Succeeded, Keyed, Key
<1>3. pc \in [Run -> PC] /\ effects \in [Run -> Nat] /\ effects[r] \in Nat
  BY DEF TypeOK
<1>4. pc[r] = "act" /\ pc'[r] \in {"recordOk", "recordFail"}
  BY <1>3 DEF Act, Go
<1>5. r \notin inserted
  BY <1>4 DEF RunInv, NotInserted
<1>6. Accounted(r)'
  <2>1. PICK x \in {0, 1} : effects' = [effects EXCEPT ![r] = effects[r] + x]
    BY DEF Act
  <2>2. effects'[r] = effects[r] + x
    BY <1>3, <2>1
  <2>3. effects[r] <= Covered(r)
    BY <1>4 DEF RunInv, Accounted
  <2>4. Covered(r) \in Nat /\ Covered(r)' \in Nat /\ Covered(r)' >= Covered(r)
    BY <1>1, CoveredGrows
  <2>5. effects'[r] <= Covered(r)' + 1
    BY <1>3, <2>2, <2>3, <2>4
  <2> QED
    BY <1>1, <1>4, <1>5, <2>5 DEF Accounted
<1> QED
  BY <1>1, <1>2, <1>4, <1>5, <1>6
     DEF RunInv, NotInserted, NothingYet, OneSuccess, OnlyUsable, Backed, InHand, InRow,
         rowVars

\* What the two records of an attempt do to the successes of the run.
LEMMA RecordedRow ==
    ASSUME TypeOK, NEW r \in Run, NEW a \in Attempts,
           ledger' = [ledger EXCEPT ![r] = Append(ledger[r], a)]
    PROVE  /\ Succeeded(r)' =
                  Succeeded(r) \cup (IF a.status = "succeeded" THEN {a.output} ELSE {})
           /\ Len(ledger'[r]) = Len(ledger[r]) + 1
           /\ Len(ledger[r]) \in Nat
<1>1. ledger[r] \in Seq(Attempts) /\ ledger'[r] = Append(ledger[r], a)
  BY DEF TypeOK
<1>2. Len(ledger'[r]) = Len(ledger[r]) + 1 /\ Len(ledger[r]) \in Nat
  BY <1>1
<1> QED
  BY <1>1, <1>2, SuccessesAppend DEF Succeeded

LEMMA RecordOkKeepsInv ==
    ASSUME TypeOK, NEW r \in Run, RecordOk(r), RunInv(r)
    PROVE  RunInv(r)'
<1> DEFINE a == [status |-> "succeeded", output |-> output[r]]
<1>1. /\ config' = config /\ effects' = effects /\ output' = output /\ row' = row
      /\ out' = out /\ crashes' = crashes /\ pc[r] = "recordOk" /\ r \notin inserted
  BY DEF RecordOk, rowVars, RunInv, NotInserted
<1>2. /\ pc \in [Run -> PC] /\ effects[r] \in Nat /\ faults \in Nat /\ crashes \in Nat
      /\ Len(ledger[r]) \in Nat /\ a \in Attempts
  <2>1. /\ pc \in [Run -> PC] /\ effects[r] \in Nat /\ ledger[r] \in Seq(Attempts)
        /\ faults \in Nat /\ crashes \in Nat /\ output[r] \in Results
    BY BoundsAreNat DEF TypeOK
  <2> QED
    BY <2>1 DEF Attempts
<1>3. Keyed(r)' <=> Keyed(r)
  BY <1>1 DEF Keyed, Key
<1>4. effects[r] <= Covered(r) + 1
  BY <1>1 DEF RunInv, Accounted
<1>5. CASE /\ Record(r, "succeeded", output[r])
           /\ \/ pc'[r] = "judge" /\ faults' = faults
              \/ pc'[r] = "recordFail" /\ faults' = faults + 1
  <2>1. /\ ledger' = [ledger EXCEPT ![r] = Append(ledger[r], a)]
        /\ inserted' = inserted \cup {r}
    BY <1>5 DEF Record
  <2>2. Succeeded(r)' = Succeeded(r) \cup {output[r]}
    BY <1>2, <2>1, RecordedRow
  <2>3. Covered(r) \in Nat /\ Covered(r)' \in Nat /\ Covered(r)' >= Covered(r) + 1
    <3>1. Len(ledger'[r]) = Len(ledger[r]) + 1
      BY <1>2, <2>1, RecordedRow
    <3> QED
      BY <1>1, <1>5, <3>1, CoveredGrows
  <2>4. Accounted(r)'
    <3>1. effects'[r] <= Covered(r)' /\ effects'[r] <= Covered(r)' + 1
      BY <1>1, <1>2, <1>4, <2>3
    <3> QED
      BY <3>1 DEF Accounted
  <2>5. r \in inserted'
    BY <2>1
  <2>6. Keyed(r) => Succeeded(r) = {}
    BY <1>1 DEF RunInv, NothingYet
  <2>7. config.required
    BY <1>1 DEF RunInv, OnlyUsable
  <2> QED
    BY <1>1, <1>3, <1>5, <2>2, <2>4, <2>5, <2>6, <2>7
       DEF RunInv, NotInserted, NothingYet, OneSuccess, OnlyUsable, Backed, InHand, InRow
<1>6. CASE /\ UNCHANGED <<ledger, inserted>>
           /\ pc'[r] = "recordFail" /\ faults' = faults + 1
  <2>1. Succeeded(r)' = Succeeded(r)
    BY <1>6 DEF Succeeded
  <2>2. Covered(r) \in Nat /\ Covered(r)' \in Nat /\ Covered(r)' >= Covered(r) + 1
    <3>1. Len(ledger'[r]) = Len(ledger[r])
      BY <1>6
    <3> QED
      BY <1>1, <1>6, <3>1, CoveredGrows
  <2>3. effects'[r] <= Covered(r)' + 1
    BY <1>1, <1>2, <1>4, <2>2
  <2>4. Accounted(r)'
    BY <1>1, <1>6, <2>3 DEF Accounted
  <2> QED
    BY <1>1, <1>3, <1>6, <2>1, <2>4
       DEF RunInv, NotInserted, NothingYet, OneSuccess, OnlyUsable, Backed, InHand, InRow
<1>7. \/ Record(r, "succeeded", output[r]) /\ Go(r, "judge") /\ faults' = faults
      \/ Record(r, "succeeded", output[r]) /\ Go(r, "recordFail") /\ faults' = faults + 1
      \/ UNCHANGED <<ledger, inserted>> /\ Go(r, "recordFail") /\ faults' = faults + 1
  BY Zenon DEF RecordOk, Fault
<1>8. \A p \in {"judge", "recordFail"} : Go(r, p) => pc'[r] = p
  BY <1>2 DEF Go
<1> QED
  BY <1>5, <1>6, <1>7, <1>8

LEMMA RecordFailKeepsInv ==
    ASSUME TypeOK, NEW r \in Run, RecordFail(r), RunInv(r)
    PROVE  RunInv(r)'
<1> DEFINE a == [status |-> "failed", output |-> "none"]
<1>1. /\ config' = config /\ effects' = effects /\ output' = output /\ row' = row
      /\ out' = out /\ crashes' = crashes /\ pc[r] = "recordFail"
      /\ inserted' = inserted
  BY DEF RecordFail, rowVars
<1>2. /\ pc \in [Run -> PC] /\ effects[r] \in Nat /\ faults \in Nat /\ crashes \in Nat
      /\ ledger[r] \in Seq(Attempts) /\ a \in Attempts
  <2>1. a \in Attempts
    BY DEF Attempts, Results
  <2> QED
    BY <2>1, BoundsAreNat DEF TypeOK
<1>3. Keyed(r)' <=> Keyed(r)
  BY <1>1 DEF Keyed, Key
<1>4. effects[r] <= Covered(r) + 1
  BY <1>1 DEF RunInv, Accounted
<1>5. config.required
  BY <1>1 DEF RunInv, OnlyUsable
<1>6. CASE /\ ledger' = ledger /\ pc'[r] = "idle"
           /\ \/ r \in inserted /\ faults' = faults
              \/ faults' = faults + 1
  <2>1. Succeeded(r)' = Succeeded(r)
    BY <1>6 DEF Succeeded
  <2>2. /\ Covered(r) \in Nat /\ Covered(r)' \in Nat /\ Covered(r)' >= Covered(r)
        /\ faults' = faults + 1 => Covered(r)' >= Covered(r) + 1
    <3>1. Len(ledger'[r]) = Len(ledger[r])
      BY <1>6
    <3> QED
      BY <1>1, <1>6, <3>1, CoveredGrows
  <2>3. effects'[r] <= Covered(r)' /\ effects'[r] <= Covered(r)' + 1
    <3>1. CASE r \in inserted
      <4>1. effects[r] <= Covered(r)
        BY <1>1, <3>1 DEF RunInv, Accounted
      <4> QED
        BY <1>1, <1>2, <2>2, <4>1
    <3>2. CASE faults' = faults + 1
      BY <1>1, <1>2, <1>4, <2>2, <3>2
    <3> QED
      BY <1>6, <3>1, <3>2
  <2>4. Accounted(r)'
    BY <2>3 DEF Accounted
  <2> QED
    BY <1>1, <1>3, <1>5, <1>6, <2>1, <2>4
       DEF RunInv, NotInserted, NothingYet, OneSuccess, OnlyUsable, Backed, InHand, InRow
<1>7. CASE /\ r \notin inserted /\ pc'[r] \in {"act", "onError"} /\ faults' = faults
           /\ ledger' = [ledger EXCEPT ![r] = Append(ledger[r], a)]
  <2>1. Succeeded(r)' = Succeeded(r) \cup {}
    BY <1>2, <1>7, RecordedRow
  <2>2. Covered(r) \in Nat /\ Covered(r)' \in Nat /\ Covered(r)' >= Covered(r) + 1
    <3>1. Len(ledger'[r]) = Len(ledger[r]) + 1
      BY <1>2, <1>7, RecordedRow
    <3> QED
      BY <1>1, <1>7, <3>1, CoveredGrows
  <2>3. effects'[r] <= Covered(r)' /\ effects'[r] <= Covered(r)' + 1
    BY <1>1, <1>2, <1>4, <2>2
  <2>4. Accounted(r)'
    BY <2>3 DEF Accounted
  <2>5. Keyed(r) => Succeeded(r) = {}
    BY <1>1, <1>7 DEF RunInv, NothingYet
  <2> QED
    BY <1>1, <1>3, <1>5, <1>7, <2>1, <2>4, <2>5
       DEF RunInv, NotInserted, NothingYet, OneSuccess, OnlyUsable, Backed, InHand, InRow
<1>8. \/ /\ r \in inserted /\ faults' = faults /\ ledger' = ledger /\ Leave(r)
      \/ /\ faults' = faults + 1 /\ ledger' = ledger /\ Leave(r)
      \/ /\ r \notin inserted /\ Retry(r) /\ faults' = faults
         /\ ledger' = [ledger EXCEPT ![r] = Append(ledger[r], a)]
  BY DEF RecordFail, Fault
<1>9. Leave(r) => pc'[r] = "idle"
  BY <1>2 DEF Leave
<1>10. Retry(r) => pc'[r] \in {"act", "onError"}
  BY <1>2 DEF Retry, Go
<1> QED
  BY <1>6, <1>7, <1>8, <1>9, <1>10

-----------------------------------------------------------------------------
(* The invariant holds *)

LEMMA IInvInit == Init => IInv
<1> SUFFICES ASSUME Init
             PROVE  IInv
  OBVIOUS
<1>1. ASSUME NEW r \in Run
      PROVE  RunInv(r)
  <2>1. ledger[r] = <<>> /\ Succeeded(r) = {} /\ Len(ledger[r]) = 0
    BY SuccessesEmpty DEF Init, Succeeded
  <2>2. /\ effects[r] = 0 /\ crashes = 0 /\ faults = 0 /\ pc[r] = "idle"
        /\ row[r] = "none"
    BY DEF Init
  <2>3. Accounted(r)
    BY <2>1, <2>2 DEF Accounted, Covered
  <2> QED
    BY <2>1, <2>2, <2>3
       DEF RunInv, NotInserted, NothingYet, OneSuccess, OnlyUsable, InHand, InRow
<1> QED
  BY <1>1, TypeOKInit DEF IInv

LEMMA IInvNext == IInv /\ [Next]_vars => IInv'
<1> SUFFICES ASSUME IInv, [Next]_vars
             PROVE  IInv'
  OBVIOUS
<1>1. TypeOK /\ TypeOK'
  BY TypeOKNext DEF IInv
<1>2. CASE UNCHANGED vars
  BY <1>1, <1>2
     DEF vars, rowVars, worldVars, execVars, IInv, RunInv, NotInserted, NothingYet,
         OneSuccess, OnlyUsable, Backed, InHand, InRow, Accounted, Covered, Keyed, Key,
         Succeeded
<1>3. ASSUME NEW r \in Run, Step(r) \/ Crash(r), NEW s \in Run
      PROVE  RunInv(s)'
  <2>1. RunInv(s) /\ RunInv(r)
    BY DEF IInv
  <2>2. CASE s # r
    BY <1>1, <1>3, <2>1, <2>2, OthersKeepInv
  <2>3. CASE s = r
    <3>1. QuietStep(r) \/ Lookup(r) \/ Act(r) \/ RecordOk(r) \/ RecordFail(r)
      BY <1>3, Zenon DEF Step, QuietStep
    <3>2. RunInv(r)'
      BY <1>1, <2>1, <3>1, QuietKeepsInv, LookupKeepsInv, ActKeepsInv,
         RecordOkKeepsInv, RecordFailKeepsInv
    <3> QED
      BY <2>3, <3>2
  <2> QED
    BY <2>2, <2>3
<1> QED
  BY <1>1, <1>2, <1>3 DEF Next, AtRest, IInv

\* Every reachable state satisfies the inductive invariant.
THEOREM Invariant == Spec => []IInv
BY IInvInit, IInvNext, PTL DEF Spec

-----------------------------------------------------------------------------
(* What follows from it *)

\* What the row calls done is on record in the ledger of the same run, or is the
\* negative evidence its declaration allows, through all crashes and retries.
THEOREM DoneOnRecord == Spec => []DoneIsOnRecord
<1>1. IInv => DoneIsOnRecord
  BY DEF IInv, RunInv, InRow, Backed, DoneIsOnRecord
<1> QED
  BY <1>1, Invariant, PTL

\* A node is never done with an output whose verdict was bad, however often a
\* resumed run tries again.
THEOREM VerdictsStand == Spec => []VerdictStands
<1>1. IInv => VerdictStands
  BY DEF IInv, RunInv, InRow, Backed, OneSuccess, VerdictStands
<1> QED
  BY <1>1, Invariant, PTL

\* Under on_failure: continue nothing but the node's own output fails it.
THEOREM ContinueIsKept == Spec => []ContinueGoesOn
<1>1. IInv => ContinueGoesOn
  BY DEF IInv, RunInv, InRow, ContinueGoesOn
<1> QED
  BY <1>1, Invariant, PTL

\* No effect goes unrecorded but for one in hand, one per crash, one per fault.
THEOREM EffectsAccounted == Spec => []EffectsAreOnRecord
<1>1. IInv => EffectsAreOnRecord
  <2> SUFFICES ASSUME IInv, NEW r \in Run
               PROVE  effects[r] <= Len(ledger[r]) + crashes + faults
                          + (IF pc[r] \in {"recordOk", "recordFail"} THEN 1 ELSE 0)
    BY DEF EffectsAreOnRecord
  <2>1. Accounted(r)
    BY DEF IInv, RunInv
  <2>2. effects[r] \in Nat /\ Covered(r) \in Nat
    <3>1. /\ ledger[r] \in Seq(Attempts) /\ effects[r] \in Nat
          /\ crashes \in Nat /\ faults \in Nat
      BY BoundsAreNat DEF IInv, TypeOK
    <3> QED
      BY <3>1 DEF Covered
  <2>3. CASE pc[r] \in {"recordOk", "recordFail"}
    BY <2>1, <2>3 DEF Accounted, Covered
  <2>4. CASE pc[r] \notin {"recordOk", "recordFail"}
    <3>1. effects[r] <= Covered(r) + 0
      BY <2>1, <2>2, <2>4 DEF Accounted
    <3> QED
      BY <2>4, <3>1 DEF Covered
  <2> QED
    BY <2>3, <2>4
<1> QED
  BY <1>1, Invariant, PTL

\* A recorded success of a keyed node keeps the effect from being repeated.
THEOREM EffectsOnce == Spec => RecordedOnce
<1>1. IInv /\ [Next]_vars =>
          [\A r \in Run : Keyed(r) /\ Succeeded(r) # {} => effects'[r] = effects[r]]_vars
  <2> SUFFICES ASSUME IInv, Next, NEW s \in Run, Keyed(s), Succeeded(s) # {}
               PROVE  effects'[s] = effects[s]
    BY Zenon
  <2>1. ASSUME NEW r \in Run, Step(r) \/ Crash(r)
        PROVE  effects'[s] = effects[s]
    <3>1. CASE s # r
      BY <2>1, <3>1, Frame DEF IInv
    <3>2. CASE s = r
      <4>1. pc[s] # "act"
        BY DEF IInv, RunInv, NothingYet
      <4>2. ~Act(r)
        BY <3>2, <4>1 DEF Act
      <4>3. CASE QuietStep(r)
        BY <4>3, <3>2, QuietFacts DEF IInv
      <4>4. CASE Lookup(r) \/ RecordOk(r) \/ RecordFail(r)
        BY <4>4 DEF Lookup, worldVars, RecordOk, RecordFail
      <4> QED
        BY <2>1, <4>2, <4>3, <4>4, Zenon DEF Step, QuietStep
    <3> QED
      BY <3>1, <3>2
  <2>2. CASE AtRest
    BY <2>2 DEF AtRest, vars, worldVars
  <2> QED
    BY <2>1, <2>2 DEF Next
<1> QED
  BY <1>1, Invariant, PTL DEF Spec, RecordedOnce

-----------------------------------------------------------------------------
(* What an agent is given: the inductive invariant *)

Points == {"idle", "off", "check", "agents", "servers", "revalidate", "evict", "close",
           "ensure", "list", "load", "connect", "pick", "reconnect"}

Times == [Server -> Nat]
ServerRow == {x \in [at : Nat, on : BOOLEAN] : x.at = 0 => x = NoRow}
AgentRow == [at : Nat, on : BOOLEAN, ids : SUBSET Server]

Local == [pc : Points, ret : {"ensure", "pick"}, had : BOOLEAN, seen : AgentRow, old : AgentRow,
          list : Times, todo : SUBSET Server, got : Times, given : Times, conn : SUBSET Server,
          second : BOOLEAN, calm : BOOLEAN]

ConfigTypes ==
    /\ host \in Host
    /\ servers \in [Server -> ServerRow] /\ agent \in AgentRow
    /\ resolver \in AgentRow /\ known \in BOOLEAN /\ due \in BOOLEAN
    /\ loaded \in BOOLEAN /\ clients \in [Server -> [at : Nat, up : BOOLEAN]]
    /\ node \in [Node -> Local]
    /\ handler \in [pc : {"idle", "reload", "refresh", "build", "connect"}, on : SUBSET Server]
    /\ edits \in Nat /\ failures \in Nat
    /\ behind \in BOOLEAN /\ spoiled \in BOOLEAN /\ recurred \in BOOLEAN
    /\ read \in [Server -> ServerRow] \X AgentRow

\* Only the API is told of changes, and only a Worker looks for them.
HostInv ==
    /\ host = "worker" => handler.pc = "idle"
    /\ host = "api" => /\ ~behind
                       /\ \A n \in Node : node[n].pc \notin {"servers", "revalidate", "evict", "close"}

\* The times of rows are past, and a row of the agent is known by its time.
Versions == {agent, read[2]} \cup {node[n].seen : n \in {m \in Node : node[m].pc = "servers"}}

TimeInv ==
    /\ \A s \in Server : servers[s].at < Now /\ read[1][s].at < Now
    /\ \A v \in Versions : v.at < Now
    /\ \A v, w \in Versions : v.at = w.at => v = w

Count(rows) == Cardinality({s \in Server : rows[s].at # 0})
Newest(rows) == Max({rows[s].at : s \in Server})

\* What the process read last, and how the tables may differ from it.
ReadInv ==
    /\ \A s \in Server : \/ servers[s] = read[1][s] \/ servers[s] = NoRow
                         \/ \A t \in Server : read[1][t].at < servers[s].at
    /\ host = "worker" =>
          /\ ~behind => read = <<servers, agent>>
          /\ known => /\ resolver = read[2]
                      /\ print = <<IF read[2].at = 0 THEN 0 ELSE 1, read[2].at,
                                   Count(read[1]), Newest(read[1])>>
          /\ \A n \in Node : node[n].had => known
    /\ host = "api" => (known /\ ~due /\ handler.pc # "reload" => resolver = agent)

Revalidating == \E n \in Node : node[n].pc \in {"revalidate", "evict", "close"}
Loading(n) == node[n].pc \in {"load", "connect"}

\* A client of the server is about to be thrown away, or to be made.
Refreshing(s) == handler.pc = "refresh" /\ s \in handler.on
Owed(s) ==
    \/ handler.pc \in {"refresh", "build"} /\ s \in handler.on
    \/ \E n \in Node : node[n].pc = "list" \/ (Loading(n) /\ s \in node[n].todo)

\* The clients are those of the servers that are enabled, as these are configured.
InOrder ==
    /\ \A s \in Cached : clients[s].at = Enabled[s] \/ Refreshing(s)
    /\ \A n \in Node : Loading(n) =>
          \A s \in node[n].todo : node[n].list[s] = Enabled[s] \/ Refreshing(s)
    /\ loaded => \A s \in In(Enabled) : s \in Cached \/ Owed(s)

Clean == ~spoiled /\ (host = "worker" => known /\ ~behind /\ ~recurred /\ ~Revalidating)

CacheInv == Clean => InOrder

\* A node that nothing disturbed.
Chosen == Cached \cap agent.ids
Past(n) == node[n].ret = "pick" \/ node[n].pc \in {"ensure", "list", "load", "connect"}

CalmAlone(n) == handler.pc = "idle" /\ \A m \in Node \ {n} : ~Busy(m)

CalmReads(n) ==
    LET c == node[n] IN
    /\ c.pc \in {"agents", "servers"} => c.had = known /\ c.old = resolver
    /\ c.pc = "servers" => c.seen = agent
    /\ c.pc \in {"revalidate", "evict", "close"} => ~behind /\ known /\ c.ret = "ensure"
    /\ Past(n) => agent.on /\ ~spoiled /\ (host = "worker" => known /\ ~behind)

CalmLoads(n) ==
    LET c == node[n] IN
    /\ c.pc \in {"pick", "reconnect"} \/ c.second => c.ret = "pick"
    /\ c.ret = "pick" => loaded /\ c.pc \notin {"list", "load", "connect"}
    /\ c.pc \in {"list", "load", "connect"} => loaded

CalmGets(n) ==
    LET c == node[n] IN
    /\ IF c.pc \in {"pick", "reconnect"}
       THEN /\ c.todo \subseteq Chosen
            /\ \A s \in Server : c.got[s] = IF s \in Chosen \ c.todo THEN clients[s].at ELSE 0
            /\ \A s \in Chosen \ c.todo : Usable(s)
       ELSE c.got = Nothing
    /\ c.second => /\ \A s \in Server : c.given[s] = IF s \in Chosen THEN clients[s].at ELSE 0
                   /\ \A s \in Chosen : Usable(s)

CalmInv ==
    \A n \in Node : node[n].calm /\ Busy(n) => CalmAlone(n) /\ CalmReads(n) /\ CalmLoads(n) /\ CalmGets(n)

ConfigInv == ConfigTypes /\ HostInv /\ TimeInv /\ ReadInv /\ CacheInv /\ CalmInv

-----------------------------------------------------------------------------
(* Types *)

LEMMA RowTypes ==
    /\ NoRow \in ServerRow /\ NoAgent \in AgentRow /\ Nothing \in Times
    /\ NoClient \in [at : Nat, up : BOOLEAN] /\ Idle \in Local
    /\ Quiet \in [pc : {"idle", "reload", "refresh", "build", "connect"}, on : SUBSET Server]
BY DEF NoRow, NoAgent, Nothing, Times, NoClient, Idle, Local, Points, Quiet, ServerRow, AgentRow

LEMMA NowIsNat == edits \in Nat => Now \in Nat /\ Now > 0
BY ServerAssumption, FS_CardinalityType DEF Now, Seeded

\* The servers that list_enabled returns, with their times.
LEMMA EnabledType == ConfigTypes => Enabled \in Times /\ In(Enabled) \subseteq Server
BY DEF ConfigTypes, Enabled, Times, In, ServerRow

\* One coroutine moves.
Moved(n) == node' \in [Node -> Local] /\ \A m \in Node : m # n => node'[m] = node[m]

LEMMA LocalUpdates ==
    ASSUME NEW c \in Local
    PROVE  /\ \A x \in Points : [c EXCEPT !.pc = x] \in Local
           /\ \A x \in {"ensure", "pick"} : [c EXCEPT !.ret = x] \in Local
           /\ \A x \in BOOLEAN : [c EXCEPT !.had = x] \in Local
           /\ \A x \in AgentRow : [c EXCEPT !.seen = x] \in Local /\ [c EXCEPT !.old = x] \in Local
           /\ \A x \in Times : /\ [c EXCEPT !.list = x] \in Local /\ [c EXCEPT !.got = x] \in Local
                              /\ [c EXCEPT !.given = x] \in Local
           /\ \A x \in SUBSET Server : [c EXCEPT !.todo = x] \in Local /\ [c EXCEPT !.conn = x] \in Local
           /\ \A x \in BOOLEAN : [c EXCEPT !.second = x] \in Local /\ [c EXCEPT !.calm = x] \in Local
BY DEF Local

LEMMA Moving ==
    ASSUME ConfigTypes, NEW n \in Node, NEW r \in Local, node' = [node EXCEPT ![n] = r]
    PROVE  Moved(n) /\ node'[n] = r
BY DEF Moved, ConfigTypes

\* The resolver is returned: what becomes of the coroutine.
LEMMA Returned ==
    ASSUME ConfigTypes, NEW n \in Node, NEW r \in AgentRow, NEW clean \in BOOLEAN, Return(n, r, clean)
    PROVE  /\ Moved(n) /\ ~node'[n].had
           /\ node'[n].pc # "off" =>
                 /\ node'[n].ret = node[n].ret /\ node'[n].second = node[n].second
                 /\ node'[n].got = node[n].got /\ node'[n].given = node[n].given
           /\ node[n].ret = "pick" =>
                 /\ node'[n].pc = "pick" /\ node'[n].todo = Allowed(r)
                 /\ node'[n].calm = node[n].calm
           /\ node[n].ret # "pick" =>
                 /\ node'[n].calm => node[n].calm /\ clean
                 /\ node'[n].pc = IF r.on THEN "ensure" ELSE "off"
<1> DEFINE back == [node[n] EXCEPT !.seen = NoAgent, !.old = NoAgent, !.had = FALSE]
<1>1. Allowed(r) \in SUBSET Server /\ node[n] \in Local
  BY DEF Allowed, Cached, ConfigTypes
<1>2. /\ back \in Local /\ back.ret = node[n].ret /\ back.calm = node[n].calm /\ ~back.had
      /\ back.second = node[n].second /\ back.got = node[n].got /\ back.given = node[n].given
  BY <1>1, RowTypes DEF Local
<1>3. node' = [node EXCEPT ![n] = IF node[n].ret = "pick"
            THEN [back EXCEPT !.pc = "pick", !.todo = Allowed(r)]
            ELSE IF r.on THEN [back EXCEPT !.pc = "ensure", !.calm = @ /\ clean]
            ELSE [Idle EXCEPT !.pc = "off", !.calm = back.calm /\ clean]]
  BY DEF Return
<1>4. /\ (back.calm /\ clean) \in BOOLEAN /\ (back.calm /\ clean => back.calm /\ clean)
      /\ Idle \in Local /\ {"pick", "ensure", "off"} \subseteq Points
  BY RowTypes DEF Points
<1> HIDE DEF back
<1>5. CASE node[n].ret = "pick"
  <2> DEFINE d == [back EXCEPT !.pc = "pick", !.todo = Allowed(r)]
  <2>1. d \in Local
    BY <1>1, <1>2, <1>4, LocalUpdates
  <2>2. /\ d.pc = "pick" /\ d.todo = Allowed(r) /\ d.ret = back.ret /\ d.calm = back.calm /\ d.had = back.had
        /\ d.second = back.second /\ d.got = back.got /\ d.given = back.given
    BY <1>2 DEF Local
  <2>3. node' = [node EXCEPT ![n] = d]
    BY <1>3, <1>5
  <2> HIDE DEF d
  <2>4. Moved(n) /\ node'[n] = d
    BY <2>1, <2>3, Moving
  <2> QED
    BY <1>2, <1>5, <2>2, <2>4
<1>6. CASE node[n].ret # "pick" /\ r.on
  <2> DEFINE d == [back EXCEPT !.pc = "ensure", !.calm = back.calm /\ clean]
  <2>1. d \in Local
    BY <1>2, <1>4, LocalUpdates
  <2>2. /\ d.pc = "ensure" /\ d.ret = back.ret /\ d.had = back.had
        /\ d.second = back.second /\ d.got = back.got /\ d.given = back.given
    BY <1>2 DEF Local
  <2>3. d.calm => back.calm /\ clean
    BY <1>2, <1>4 DEF Local
  <2>4. node' = [node EXCEPT ![n] = d]
    BY <1>3, <1>6
  <2> HIDE DEF d
  <2>5. Moved(n) /\ node'[n] = d
    BY <2>1, <2>4, Moving
  <2> QED
    BY <1>2, <1>6, <2>2, <2>3, <2>5
<1>7. CASE node[n].ret # "pick" /\ ~r.on
  <2> DEFINE d == [Idle EXCEPT !.pc = "off", !.calm = back.calm /\ clean]
  <2>1. d \in Local
    BY <1>4, LocalUpdates
  <2>2. d.pc = "off" /\ (d.calm => back.calm /\ clean) /\ ~d.had
    BY <1>4, RowTypes DEF Local, Idle
  <2>3. node' = [node EXCEPT ![n] = d]
    BY <1>3, <1>7
  <2> HIDE DEF d
  <2>4. Moved(n) /\ node'[n] = d
    BY <2>1, <2>3, Moving
  <2> QED
    BY <1>2, <1>7, <2>2, <2>4
<1> QED
  BY <1>5, <1>6, <1>7

LEMMA CheckMoves ==
    ASSUME ConfigTypes, NEW n \in Node, Check(n)
    PROVE  /\ Moved(n)
           /\ \/ known /\ ~due /\ Return(n, resolver, ~behind /\ ~spoiled)
              \/ /\ ~(known /\ ~due)
                 /\ node'[n] = [node[n] EXCEPT !.pc = "agents", !.had = known, !.old = resolver]
<1>1. CASE known /\ ~due
  BY <1>1, Returned DEF Check, Moved, ConfigTypes
<1>2. CASE ~(known /\ ~due)
  <2> DEFINE r == [node[n] EXCEPT !.pc = "agents", !.had = known, !.old = resolver]
  <2>1. r \in Local
    BY LocalUpdates DEF ConfigTypes, Points
  <2>2. node' = [node EXCEPT ![n] = r]
    BY <1>2 DEF Check, ConfigTypes
  <2>3. Moved(n) /\ node'[n] = r
    BY <2>1, <2>2, Moving
  <2> QED
    BY <1>2, <2>3
<1> QED
  BY <1>1, <1>2

LEMMA ListAgentsMoves ==
    ASSUME ConfigTypes, NEW n \in Node, ListAgents(n)
    PROVE  /\ Moved(n)
           /\ host # "api" => node'[n] = [node[n] EXCEPT !.pc = "servers", !.seen = agent]
<1>1. CASE host = "api"
  BY <1>1, Returned DEF ListAgents, Moved, ConfigTypes
<1>2. CASE host # "api"
  <2> DEFINE r == [node[n] EXCEPT !.pc = "servers", !.seen = agent]
  <2>1. r \in Local
    BY LocalUpdates DEF ConfigTypes, Points
  <2>2. node' = [node EXCEPT ![n] = r]
    BY <1>2 DEF ListAgents, ConfigTypes
  <2>3. Moved(n) /\ node'[n] = r
    BY <2>1, <2>2, Moving
  <2> QED
    BY <1>2, <2>3
<1> QED
  BY <1>1, <1>2

\* Is the fingerprint what it was on entry?
Matches(n) == node[n].had /\ print = Signature(node[n].seen)

LEMMA ListServersMoves ==
    ASSUME ConfigTypes, NEW n \in Node, ListServers(n)
    PROVE  /\ Moved(n) /\ behind' \in BOOLEAN
           /\ Matches(n) => Return(n, node[n].old, ~behind' /\ ~spoiled)
           /\ ~Matches(n) =>
                 node'[n] = [node[n] EXCEPT !.pc = "revalidate", !.seen = NoAgent, !.had = FALSE, !.old = NoAgent]
<1>0. node[n] \in Local /\ behind' \in BOOLEAN
  BY DEF ConfigTypes, ListServers
<1>1. CASE Matches(n)
  <2>1. node[n].old \in AgentRow
    BY <1>0 DEF Local
  <2>2. Return(n, node[n].old, ~behind' /\ ~spoiled)
    BY <1>1 DEF ListServers, Matches
  <2> QED
    BY <1>0, <1>1, <2>1, <2>2, Returned DEF Moved
<1>2. CASE ~Matches(n)
  <2> DEFINE r == [node[n] EXCEPT !.pc = "revalidate", !.seen = NoAgent, !.had = FALSE, !.old = NoAgent]
  <2>1. r \in Local
    BY <1>0, LocalUpdates, RowTypes DEF Points
  <2>2. node' = [node EXCEPT ![n] = r]
    BY <1>2 DEF ListServers, Matches, ConfigTypes
  <2>3. Moved(n) /\ node'[n] = r
    BY <2>1, <2>2, Moving
  <2> QED
    BY <1>0, <1>2, <2>3
<1> QED
  BY <1>1, <1>2

LEMMA EvictedMoves ==
    ASSUME ConfigTypes, NEW n \in Node, Evicted(n)
    PROVE  Moved(n) /\ spoiled' \in BOOLEAN
<1>1. spoiled' \in BOOLEAN
  BY DEF Evicted
<1> QED
  BY <1>1, Returned DEF Evicted, Moved, ConfigTypes

LEMMA ListMoves ==
    ASSUME ConfigTypes, NEW n \in Node
    PROVE  /\ Revalidate(n) =>
                 Moved(n) /\ node'[n] = [node[n] EXCEPT !.pc = "evict", !.list = Enabled, !.todo = Cached]
           /\ ListEnabled(n) =>
                 Moved(n) /\ node'[n] = [node[n] EXCEPT !.pc = "load", !.list = Enabled, !.todo = In(Enabled)]
<1>1. Cached \subseteq Server /\ Enabled \in Times /\ In(Enabled) \subseteq Server
  BY EnabledType DEF Cached
<1> DEFINE r(p, todo) == [node[n] EXCEPT !.pc = p, !.list = Enabled, !.todo = todo]
<1>2. r("evict", Cached) \in Local /\ r("load", In(Enabled)) \in Local
  BY <1>1, LocalUpdates DEF ConfigTypes, Points
<1>3. /\ Revalidate(n) => node' = [node EXCEPT ![n] = r("evict", Cached)]
      /\ ListEnabled(n) => node' = [node EXCEPT ![n] = r("load", In(Enabled))]
  BY DEF Revalidate, ListEnabled, ConfigTypes
<1> HIDE DEF r
<1>4. /\ Revalidate(n) => Moved(n) /\ node'[n] = r("evict", Cached)
      /\ ListEnabled(n) => Moved(n) /\ node'[n] = r("load", In(Enabled))
  BY <1>2, <1>3, Moving
<1> QED
  BY <1>4 DEF r

LEMMA EvictMoves ==
    ASSUME ConfigTypes, NEW n \in Node, Evict(n)
    PROVE  \E s \in Stale(n) :
              /\ Moved(n) /\ clients' \in [Server -> [at : Nat, up : BOOLEAN]]
              /\ clients' = [clients EXCEPT ![s] = NoClient]
              /\ node'[n] = [node[n] EXCEPT !.todo = @ \ {s}, !.pc = IF clients[s].up THEN "close" ELSE "evict"]
<1>1. PICK s \in Stale(n) :
         /\ clients' = [clients EXCEPT ![s] = NoClient]
         /\ node' = [node EXCEPT ![n].todo = @ \ {s},
                                 ![n].pc = IF clients[s].up THEN "close" ELSE "evict"]
  BY DEF Evict
<1> DEFINE p == IF clients[s].up THEN "close" ELSE "evict"
           r == [node[n] EXCEPT !.todo = @ \ {s}, !.pc = p]
<1>2. node[n] \in Local /\ node[n].todo \in SUBSET Server /\ p \in Points
  BY DEF ConfigTypes, Local, Points
<1>3. r \in Local
  BY <1>2, LocalUpdates
<1>4. node' = [node EXCEPT ![n] = r]
  BY <1>1 DEF ConfigTypes
<1>5. Moved(n) /\ node'[n] = r
  BY <1>3, <1>4, Moving
<1>6. clients' \in [Server -> [at : Nat, up : BOOLEAN]]
  BY <1>1, RowTypes DEF ConfigTypes
<1> QED
  BY <1>1, <1>5, <1>6

LEMMA PlainMoves ==
    ASSUME ConfigTypes, NEW n \in Node
    PROVE  /\ Closed(n) => Moved(n) /\ node'[n] = [node[n] EXCEPT !.pc = "evict"]
           /\ EnsureLoaded(n) =>
                 /\ Moved(n)
                 /\ node'[n] = IF loaded THEN [node[n] EXCEPT !.pc = "check", !.ret = "pick"]
                               ELSE [node[n] EXCEPT !.pc = "list"]
           /\ Loaded(n) =>
                 Moved(n) /\ node'[n] = [node[n] EXCEPT !.pc = "check", !.ret = "pick", !.list = Nothing]
           /\ Again(n) =>
                 /\ Moved(n)
                 /\ node'[n] = [node[n] EXCEPT !.pc = "ensure", !.second = TRUE, !.given = node[n].got, !.got = Nothing]
           /\ Done(n) => Moved(n) /\ node'[n] = Idle
<1>1. node[n] \in Local /\ Nothing \in Times /\ Idle \in Local /\ node[n].got \in Times
  BY RowTypes DEF ConfigTypes, Local
<1>2. ASSUME Closed(n)
      PROVE  Moved(n) /\ node'[n] = [node[n] EXCEPT !.pc = "evict"]
  <2>1. [node[n] EXCEPT !.pc = "evict"] \in Local
    BY <1>1, LocalUpdates DEF Points
  <2>2. node' = [node EXCEPT ![n] = [node[n] EXCEPT !.pc = "evict"]]
    BY <1>2 DEF Closed, To, ConfigTypes
  <2> QED
    BY <2>1, <2>2, Moving
<1>3. ASSUME EnsureLoaded(n)
      PROVE  /\ Moved(n)
             /\ node'[n] = IF loaded THEN [node[n] EXCEPT !.pc = "check", !.ret = "pick"]
                           ELSE [node[n] EXCEPT !.pc = "list"]
  <2> DEFINE r == IF loaded THEN [node[n] EXCEPT !.pc = "check", !.ret = "pick"]
                  ELSE [node[n] EXCEPT !.pc = "list"]
  <2>1. r \in Local
    BY <1>1, LocalUpdates DEF Points
  <2>2. node' = [node EXCEPT ![n] = r]
    BY <1>3 DEF EnsureLoaded, To, ConfigTypes
  <2> HIDE DEF r
  <2>3. Moved(n) /\ node'[n] = r
    BY <2>1, <2>2, Moving
  <2> QED
    BY <2>3 DEF r
<1>4. ASSUME Loaded(n)
      PROVE  Moved(n) /\ node'[n] = [node[n] EXCEPT !.pc = "check", !.ret = "pick", !.list = Nothing]
  <2> DEFINE r == [node[n] EXCEPT !.pc = "check", !.ret = "pick", !.list = Nothing]
  <2>1. r \in Local
    BY <1>1, LocalUpdates DEF Points
  <2>2. node' = [node EXCEPT ![n] = r]
    BY <1>4 DEF Loaded, ConfigTypes
  <2> QED
    BY <2>1, <2>2, Moving
<1>5. ASSUME Again(n)
      PROVE  /\ Moved(n)
             /\ node'[n] = [node[n] EXCEPT !.pc = "ensure", !.second = TRUE, !.given = node[n].got, !.got = Nothing]
  <2> DEFINE r == [node[n] EXCEPT !.pc = "ensure", !.second = TRUE, !.given = node[n].got, !.got = Nothing]
  <2>1. r \in Local
    BY <1>1, LocalUpdates DEF Points
  <2>2. node' = [node EXCEPT ![n] = r]
    BY <1>5 DEF Again, ConfigTypes
  <2> QED
    BY <2>1, <2>2, Moving
<1>6. ASSUME Done(n)
      PROVE  Moved(n) /\ node'[n] = Idle
  BY <1>1, <1>6, Moving DEF Done
<1> QED
  BY <1>2, <1>3, <1>4, <1>5, <1>6

LEMMA LoadRowMoves ==
    ASSUME ConfigTypes, NEW n \in Node, LoadRow(n)
    PROVE  \E s \in node[n].todo :
              /\ Moved(n) /\ clients' \in [Server -> [at : Nat, up : BOOLEAN]]
              /\ s \in Cached => clients' = clients /\ node'[n] = [node[n] EXCEPT !.todo = @ \ {s}]
              /\ s \notin Cached =>
                    /\ clients' = [clients EXCEPT ![s].at = node[n].list[s]]
                    /\ node'[n] = IF s \in Stateful
                                  THEN [node[n] EXCEPT !.todo = @ \ {s}, !.pc = "connect", !.conn = {s}]
                                  ELSE [node[n] EXCEPT !.todo = @ \ {s}]
<1>1. PICK s \in node[n].todo :
         LET rest == [node EXCEPT ![n].todo = @ \ {s}]
         IN IF s \in Cached
            THEN node' = rest /\ UNCHANGED clients
            ELSE /\ clients' = [clients EXCEPT ![s].at = node[n].list[s]]
                 /\ node' = IF s \in Stateful
                            THEN [rest EXCEPT ![n].pc = "connect", ![n].conn = {s}] ELSE rest
  BY Zenon DEF LoadRow
<1>2. node[n] \in Local /\ s \in Server /\ node[n].todo \in SUBSET Server /\ node[n].list[s] \in Nat
  BY DEF ConfigTypes, Local, Times
<1>3. clients' \in [Server -> [at : Nat, up : BOOLEAN]]
  BY <1>1, <1>2 DEF ConfigTypes
<1> DEFINE rest == [node[n] EXCEPT !.todo = @ \ {s}]
           more == [node[n] EXCEPT !.todo = @ \ {s}, !.pc = "connect", !.conn = {s}]
           r == IF s \notin Cached /\ s \in Stateful THEN more ELSE rest
<1>4. rest \in Local /\ more \in Local
  BY <1>2, LocalUpdates DEF Points
<1>5. node' = [node EXCEPT ![n] = r]
  BY <1>1 DEF ConfigTypes
<1>6. Moved(n) /\ node'[n] = r
  BY <1>4, <1>5, Moving
<1> QED
  BY <1>1, <1>3, <1>6

LEMMA ConnectMoves ==
    ASSUME ConfigTypes, NEW n \in Node, Connected(n) \/ Reconnected(n)
    PROVE  /\ Moved(n) /\ clients' \in [Server -> [at : Nat, up : BOOLEAN]]
           /\ node'[n] = [node[n] EXCEPT !.pc = IF Connected(n) THEN "load" ELSE "pick", !.conn = {}]
           /\ \A s \in Server : clients'[s].at = clients[s].at /\ (clients[s].up => clients'[s].up)
<1> DEFINE r == [node[n] EXCEPT !.pc = IF Connected(n) THEN "load" ELSE "pick", !.conn = {}]
<1>1. r \in Local
  BY LocalUpdates DEF ConfigTypes, Points
<1>2. node' = [node EXCEPT ![n] = r]
  BY DEF Connected, Reconnected, Resumes, ConfigTypes
<1>3. Moved(n) /\ node'[n] = r
  BY <1>1, <1>2, Moving
<1>4. clients' = [s \in Server |-> clients'[s]] /\ \A s \in Server : clients'[s] \in {clients[s], [clients[s] EXCEPT !.up = TRUE]}
  BY DEF Connected, Reconnected
<1>5. ASSUME NEW s \in Server
      PROVE  clients'[s] \in [at : Nat, up : BOOLEAN] /\ clients'[s].at = clients[s].at /\ (clients[s].up => clients'[s].up)
  <2>1. clients[s] \in [at : Nat, up : BOOLEAN]
    BY DEF ConfigTypes
  <2>2. CASE clients'[s] = clients[s]
    BY <2>1, <2>2
  <2>3. CASE clients'[s] = [clients[s] EXCEPT !.up = TRUE]
    BY <2>1, <2>3
  <2> QED
    BY <1>4, <2>2, <2>3
<1>6. clients' \in [Server -> [at : Nat, up : BOOLEAN]]
  BY <1>4, <1>5
<1> QED
  BY <1>3, <1>5, <1>6

LEMMA PickMoves ==
    ASSUME ConfigTypes, NEW n \in Node, Pick(n)
    PROVE  \E s \in node[n].todo :
              /\ Moved(n)
              /\ node'[n] = IF s \in Cached /\ ~Usable(s)
                            THEN [node[n] EXCEPT !.pc = "reconnect", !.conn = {s}]
                            ELSE [node[n] EXCEPT !.todo = @ \ {s}, !.got = [node[n].got EXCEPT ![s] = clients[s].at]]
<1>1. PICK s \in node[n].todo :
         node' = IF s \in Cached /\ ~Usable(s)
                 THEN [node EXCEPT ![n].pc = "reconnect", ![n].conn = {s}]
                 ELSE [node EXCEPT ![n].todo = @ \ {s}, ![n].got[s] = clients[s].at]
  BY DEF Pick
<1>2. /\ node[n] \in Local /\ s \in Server /\ node[n].todo \in SUBSET Server
      /\ [node[n].got EXCEPT ![s] = clients[s].at] \in Times
  BY DEF ConfigTypes, Local, Times
<1> DEFINE r == IF s \in Cached /\ ~Usable(s)
                THEN [node[n] EXCEPT !.pc = "reconnect", !.conn = {s}]
                ELSE [node[n] EXCEPT !.todo = @ \ {s}, !.got = [node[n].got EXCEPT ![s] = clients[s].at]]
<1>3. r \in Local
  BY <1>2, LocalUpdates DEF Points
<1>4. node' = [node EXCEPT ![n] = r]
  BY <1>1, <1>2 DEF ConfigTypes, Local
<1> HIDE DEF r
<1>5. Moved(n) /\ node'[n] = r
  BY <1>3, <1>4, Moving
<1> QED
  BY <1>5 DEF r

LEMMA FailMoves ==
    ASSUME ConfigTypes, NEW n \in Node
    PROVE  /\ FailRead(n) => Moved(n) /\ node'[n] = Idle /\ spoiled' \in BOOLEAN
           /\ FailServer(n) => /\ Moved(n) /\ ~node'[n].calm /\ node'[n].had = node[n].had
                               /\ node'[n].pc = IF node[n].pc = "connect" THEN "load" ELSE "pick"
                               /\ node'[n].list = node[n].list
                               /\ node[n].pc = "connect" => node'[n].todo = node[n].todo
<1>1. ASSUME FailRead(n) PROVE Moved(n) /\ node'[n] = Idle /\ spoiled' \in BOOLEAN
  BY <1>1, Moving, RowTypes DEF FailRead, ConfigTypes
<1>2. ASSUME NEW r \in Local, node' = [node EXCEPT ![n] = r], ~r.calm, r.had = node[n].had, r.list = node[n].list,
             r.pc = IF node[n].pc = "connect" THEN "load" ELSE "pick", node[n].pc = "connect" => r.todo = node[n].todo
      PROVE  /\ Moved(n) /\ ~node'[n].calm /\ node'[n].had = node[n].had
             /\ node'[n].pc = IF node[n].pc = "connect" THEN "load" ELSE "pick"
             /\ node'[n].list = node[n].list
             /\ node[n].pc = "connect" => node'[n].todo = node[n].todo
  BY <1>2, Moving
<1>3. node[n] \in Local /\ node[n].todo \in SUBSET Server /\ node[n].got \in Times
  BY DEF ConfigTypes, Local
<1>4. CASE node[n].pc = "connect" /\ FailServer(n)
  <2> DEFINE r == [node[n] EXCEPT !.pc = "load", !.conn = {}, !.calm = FALSE]
  <2>1. r \in Local
    BY <1>3, LocalUpdates DEF Points
  <2>2. node' = [node EXCEPT ![n] = r]
    BY <1>4 DEF FailServer, ConfigTypes
  <2>3. r.pc = "load" /\ ~r.calm /\ r.had = node[n].had /\ r.list = node[n].list /\ r.todo = node[n].todo
    BY <1>3 DEF Local
  <2> HIDE DEF r
  <2> QED
    BY <1>1, <1>2, <1>4, <2>1, <2>2, <2>3
<1>5. CASE node[n].pc = "reconnect" /\ FailServer(n)
  <2> DEFINE r == [node[n] EXCEPT !.pc = "pick", !.todo = @ \ node[n].conn, !.conn = {}, !.calm = FALSE]
  <2>1. r \in Local
    BY <1>3, LocalUpdates DEF Points
  <2>2. node' = [node EXCEPT ![n] = r]
    BY <1>5 DEF FailServer, ConfigTypes
  <2>3. r.pc = "pick" /\ ~r.calm /\ r.had = node[n].had /\ r.list = node[n].list
    BY <1>3 DEF Local
  <2> HIDE DEF r
  <2> QED
    BY <1>1, <1>2, <1>5, <2>1, <2>2, <2>3
<1>6. CASE node[n].pc = "pick" /\ FailServer(n)
  <2>1. PICK s \in In(node[n].got) : node' = [node EXCEPT ![n].got[s] = 0, ![n].calm = FALSE]
    BY <1>6 DEF FailServer
  <2> DEFINE r == [node[n] EXCEPT !.got = [node[n].got EXCEPT ![s] = 0], !.calm = FALSE]
  <2>2. [node[n].got EXCEPT ![s] = 0] \in Times
    BY <1>3, <2>1 DEF In, Times
  <2>3. r \in Local
    BY <1>3, <2>2, LocalUpdates
  <2>4. node' = [node EXCEPT ![n] = r]
    BY <2>1, <1>3 DEF ConfigTypes, Local
  <2>5. r.pc = "pick" /\ ~r.calm /\ r.had = node[n].had /\ r.list = node[n].list
    BY <1>3, <1>6 DEF Local
  <2> HIDE DEF r
  <2> QED
    BY <1>1, <1>2, <1>6, <2>3, <2>4, <2>5
<1>7. FailServer(n) => node[n].pc \in {"connect", "reconnect", "pick"}
  BY DEF FailServer
<1> QED
  BY <1>1, <1>4, <1>5, <1>6, <1>7

\* Those that were busy are no longer calm.
LEMMA Disturbed ==
    ASSUME ConfigTypes
    PROVE  /\ Upset(node) \in [Node -> Local]
           /\ \A m \in Node :
                /\ ~Busy(m) => Upset(node)[m] = node[m]
                /\ Busy(m) => Upset(node)[m] = [node[m] EXCEPT !.calm = FALSE]
<1>1. \A m \in Node : [node[m] EXCEPT !.calm = FALSE] \in Local /\ node[m] \in Local
  BY LocalUpdates DEF ConfigTypes
<1> QED
  BY <1>1 DEF Upset

LEMMA EditTypes ==
    ASSUME ConfigTypes, NEW h, Edit(h),
           h \in [pc : {"idle", "reload", "refresh", "build", "connect"}, on : SUBSET Server]
    PROVE  /\ node' = Upset(node) /\ node' \in [Node -> Local]
           /\ handler' \in [pc : {"idle", "reload", "refresh", "build", "connect"}, on : SUBSET Server]
           /\ edits' = edits + 1 /\ edits' \in Nat /\ failures' \in Nat /\ behind' \in BOOLEAN
  BY Disturbed, RowTypes DEF Edit, ConfigTypes

LEMMA StartMoves ==
    ASSUME ConfigTypes, NEW n \in Node, Start(n)
    PROVE  /\ node' \in [Node -> Local]
           /\ \A m \in Node : m # n => node'[m] = Upset(node)[m]
           /\ node'[n] = [Idle EXCEPT !.pc = "check",
                            !.calm = (handler.pc = "idle" /\ \A m \in Node : ~Busy(m))]
<1> DEFINE free == handler.pc = "idle" /\ \A m \in Node : ~Busy(m)
           r == [Idle EXCEPT !.pc = "check", !.calm = free]
<1>1. free \in BOOLEAN
  OBVIOUS
<1> HIDE DEF free
<1>2. r \in Local
  BY <1>1, LocalUpdates, RowTypes DEF Points
<1>3. node' = [Upset(node) EXCEPT ![n] = r]
  BY DEF Start, free
<1> HIDE DEF r
<1>4. /\ node' \in [Node -> Local] /\ node'[n] = r
      /\ \A m \in Node : m # n => node'[m] = Upset(node)[m]
  BY <1>2, <1>3, Disturbed
<1> QED
  BY <1>4 DEF r, free

LEMMA SaveTypes ==
    ASSUME ConfigTypes, NEW s \in Server, SaveServer(s) \/ DeleteServer(s)
    PROVE  /\ servers' \in [Server -> ServerRow] /\ agent' = agent
           /\ Edit([pc |-> "refresh", on |-> {s}])
           /\ servers'[s] = NoRow \/ servers'[s].at = Now
           /\ \A t \in Server : t # s => servers'[t] = servers[t]
<1>1. CASE SaveServer(s)
  <2>1. PICK on \in BOOLEAN : servers' = [servers EXCEPT ![s] = [at |-> Now, on |-> on]]
    BY <1>1 DEF SaveServer
  <2>2. [at |-> Now, on |-> on] \in ServerRow
    BY NowIsNat DEF ConfigTypes, ServerRow
  <2> QED
    BY <1>1, <2>1, <2>2 DEF SaveServer, ConfigTypes
<1>2. CASE DeleteServer(s)
  BY <1>2, RowTypes DEF DeleteServer, ConfigTypes
<1> QED
  BY <1>1, <1>2

LEMMA ConfigTypesNext == ConfigTypes /\ [ConfigNext]_configVars => ConfigTypes'
<1> SUFFICES ASSUME ConfigTypes, [ConfigNext]_configVars
             PROVE  ConfigTypes'
  OBVIOUS
<1>1. ASSUME NEW n \in Node, NodeStep(n)
      PROVE  ConfigTypes'
  <2>1. CASE Start(n)
    BY <2>1, StartMoves, Zenon DEF Start, ConfigTypes, tables, cache, bounds, past
  <2>2. CASE Check(n)
    <3>1. Moved(n)
      BY <2>2, CheckMoves
    <3>2. UNCHANGED <<host, tables, cache, loaded, clients, handler, bounds, behind, spoiled, past>>
      BY <2>2 DEF Check
    <3> QED
      BY <3>1, <3>2 DEF Moved, ConfigTypes, tables, cache, bounds, past
  <2>3. CASE ListAgents(n)
    BY <2>3, ListAgentsMoves, Zenon DEF Moved, ListAgents, ConfigTypes, tables, cache, bounds, past
  <2>4. CASE ListServers(n)
    <3>1. node[n].seen \in AgentRow /\ recurred' \in BOOLEAN /\ known' \in BOOLEAN
      BY <2>4 DEF ConfigTypes, Local, ListServers
    <3>2. resolver' \in AgentRow /\ read' \in [Server -> ServerRow] \X AgentRow
      BY <2>4, <3>1 DEF ConfigTypes, ListServers
    <3> QED
      BY <2>4, <3>1, <3>2, ListServersMoves, Zenon DEF Moved, ListServers, ConfigTypes, tables, bounds
  <2>5. CASE Revalidate(n) \/ ListEnabled(n)
    <3>1. Moved(n)
      BY <2>5, ListMoves, Zenon
    <3>2. UNCHANGED <<host, tables, cache, loaded, clients, handler, bounds, behind, spoiled, past>>
      BY <2>5 DEF Revalidate, ListEnabled
    <3> QED
      BY <3>1, <3>2 DEF Moved, ConfigTypes, tables, cache, bounds, past
  <2>6. CASE Evict(n)
    <3>1. Moved(n) /\ clients' \in [Server -> [at : Nat, up : BOOLEAN]]
      BY <2>6, EvictMoves
    <3>2. UNCHANGED <<host, tables, cache, loaded, handler, bounds, behind, spoiled, past>>
      BY <2>6 DEF Evict
    <3> QED
      BY <3>1, <3>2 DEF Moved, ConfigTypes, tables, cache, bounds, past
  <2>7. CASE Evicted(n)
    BY <2>7, EvictedMoves DEF Moved, Evicted, ConfigTypes, tables, cache, bounds, past
  <2>8. CASE Closed(n) \/ EnsureLoaded(n) \/ Loaded(n) \/ Again(n) \/ Done(n)
    <3>1. Moved(n)
      BY <2>8, PlainMoves, Zenon
    <3>2. /\ UNCHANGED <<host, tables, cache, clients, handler, bounds, behind, spoiled, past>>
          /\ loaded' = loaded \/ loaded' = TRUE
      BY <2>8 DEF Closed, EnsureLoaded, Loaded, Again, Done
    <3> QED
      BY <3>1, <3>2 DEF Moved, ConfigTypes, tables, cache, bounds, past
  <2>9. CASE LoadRow(n)
    <3>1. Moved(n) /\ clients' \in [Server -> [at : Nat, up : BOOLEAN]]
      BY <2>9, LoadRowMoves
    <3>2. UNCHANGED <<host, tables, cache, loaded, handler, bounds, behind, spoiled, past>>
      BY <2>9 DEF LoadRow
    <3> QED
      BY <3>1, <3>2 DEF Moved, ConfigTypes, tables, cache, bounds, past
  <2>10. CASE Connected(n) \/ Reconnected(n)
    <3>1. Moved(n) /\ clients' \in [Server -> [at : Nat, up : BOOLEAN]]
      BY <2>10, ConnectMoves
    <3>2. UNCHANGED <<host, tables, cache, loaded, handler, bounds, behind, spoiled, past>>
      BY <2>10 DEF Connected, Reconnected
    <3> QED
      BY <3>1, <3>2 DEF Moved, ConfigTypes, tables, cache, bounds, past
  <2>11. CASE Pick(n)
    <3>1. Moved(n)
      BY <2>11, PickMoves
    <3>2. UNCHANGED <<host, tables, cache, loaded, clients, handler, bounds, behind, spoiled, past>>
      BY <2>11 DEF Pick
    <3> QED
      BY <3>1, <3>2 DEF Moved, ConfigTypes, tables, cache, bounds, past
  <2>12. CASE FailRead(n) \/ FailServer(n)
    <3>1. failures' = failures + 1 /\ UNCHANGED <<host, tables, cache, loaded, clients, handler, edits, behind, past>>
      BY <2>12 DEF FailRead, FailServer
    <3>2. node' \in [Node -> Local] /\ spoiled' \in BOOLEAN
      <4>1. CASE FailRead(n)
        BY <4>1, FailMoves DEF Moved
      <4>2. CASE FailServer(n)
        BY <4>2, FailMoves, Zenon DEF Moved, FailServer, ConfigTypes
      <4> QED
        BY <2>12, <4>1, <4>2
    <3> QED
      BY <3>1, <3>2 DEF ConfigTypes, tables, cache, past
  <2> QED
    BY <1>1, <2>1, <2>2, <2>3, <2>4, <2>5, <2>6, <2>7, <2>8, <2>9, <2>10, <2>11, <2>12 DEF NodeStep
<1>2. ASSUME NEW s \in Server, SaveServer(s) \/ DeleteServer(s)
      PROVE  ConfigTypes'
  <2>1. servers' \in [Server -> ServerRow] /\ agent' = agent /\ Edit([pc |-> "refresh", on |-> {s}])
    BY <1>2, SaveTypes
  <2> QED
    BY <2>1, EditTypes DEF Edit, ConfigTypes, cache, past
<1>3. CASE SaveAgent
  <2>1. agent' \in AgentRow /\ servers' = servers /\ Edit([pc |-> "reload", on |-> {}])
    BY <1>3, NowIsNat DEF SaveAgent, AgentRow, ConfigTypes
  <2> QED
    BY <2>1, EditTypes DEF Edit, ConfigTypes, cache, past
<1>4. ASSUME NEW s \in Server, LoseSession(s)
      PROVE  ConfigTypes'
  <2>1. [clients[s] EXCEPT !.up = FALSE] \in [at : Nat, up : BOOLEAN]
    BY DEF ConfigTypes
  <2>2. clients' = [clients EXCEPT ![s] = [clients[s] EXCEPT !.up = FALSE]]
    BY <1>4 DEF LoseSession, ConfigTypes
  <2>3. clients' \in [Server -> [at : Nat, up : BOOLEAN]]
    BY <2>1, <2>2 DEF ConfigTypes
  <2> QED
    BY <1>4, <2>3, Disturbed DEF LoseSession, ConfigTypes, tables, cache, past
<1>5. CASE Reload
  BY <1>5, RowTypes DEF Reload, ConfigTypes, tables, bounds, past
<1>6. CASE RefreshEvict
  <2>1. clients' \in [Server -> [at : Nat, up : BOOLEAN]]
    BY <1>6, RowTypes DEF RefreshEvict, ConfigTypes
  <2>2. spoiled' \in BOOLEAN /\ handler' \in [pc : {"idle", "reload", "refresh", "build", "connect"}, on : SUBSET Server]
    BY <1>6 DEF RefreshEvict, ConfigTypes
  <2> QED
    BY <1>6, <2>1, <2>2 DEF RefreshEvict, ConfigTypes, tables, cache, bounds, past
<1>7. CASE RefreshBuild
  <2>1. clients' \in [Server -> [at : Nat, up : BOOLEAN]]
    BY <1>7, EnabledType DEF RefreshBuild, ConfigTypes, Times
  <2>2. handler' \in [pc : {"idle", "reload", "refresh", "build", "connect"}, on : SUBSET Server]
    BY <1>7, RowTypes DEF RefreshBuild, ConfigTypes
  <2> QED
    BY <1>7, <2>1, <2>2 DEF RefreshBuild, ConfigTypes, tables, cache, bounds, past
<1>8. CASE RefreshConnected
  <2>1. PICK up \in BOOLEAN :
           /\ failures' = IF up THEN failures ELSE failures + 1
           /\ clients' = [s \in Server |-> IF s \in handler.on \cap Cached
                                           THEN [clients[s] EXCEPT !.up = up \/ @] ELSE clients[s]]
    BY <1>8 DEF RefreshConnected
  <2>2. clients' \in [Server -> [at : Nat, up : BOOLEAN]]
    <3>1. \A s \in Server : [clients[s] EXCEPT !.up = up \/ @] \in [at : Nat, up : BOOLEAN]
      BY DEF ConfigTypes
    <3> QED
      BY <2>1, <3>1 DEF ConfigTypes
  <2> QED
    BY <1>8, <2>1, <2>2, RowTypes DEF RefreshConnected, ConfigTypes, tables, cache, past
<1>9. CASE Tick \/ UNCHANGED configVars
  BY <1>9 DEF Tick, configVars, ConfigTypes, tables, cache, bounds, past
<1> QED
  BY <1>1, <1>2, <1>3, <1>4, <1>5, <1>6, <1>7, <1>8, <1>9 DEF ConfigNext

LEMMA SeededRows ==
    \E t \in [Server -> 1 .. Seeded] : IsInjective(t)
<1>1. PICK f \in [1 .. Seeded -> Server] :
         /\ \A i, j \in 1 .. Seeded : f[i] = f[j] => i = j
         /\ \A s \in Server : \E i \in 1 .. Seeded : f[i] = s
  BY ServerAssumption, FS_CardinalityType
     DEF Seeded, ExistsBijection, Bijection, Injection, Surjection, IsInjective
<1> DEFINE t == [s \in Server |-> CHOOSE i \in 1 .. Seeded : f[i] = s]
<1>2. \A s \in Server : t[s] \in 1 .. Seeded /\ f[t[s]] = s
  BY <1>1
<1>3. t \in [Server -> 1 .. Seeded] /\ IsInjective(t)
  BY <1>2 DEF IsInjective
<1> QED
  BY <1>3

LEMMA ConfigTypesInit == ConfigInit => ConfigTypes
<1> SUFFICES ASSUME ConfigInit PROVE ConfigTypes
  OBVIOUS
<1> DEFINE t == CHOOSE f \in [Server -> 1 .. Seeded] : IsInjective(f)
<1>1. t \in [Server -> 1 .. Seeded]
  BY SeededRows
<1>2. servers = [s \in Server |-> [at |-> t[s], on |-> TRUE]]
  BY DEF ConfigInit
<1>3. Seeded \in Nat
  BY ServerAssumption, FS_CardinalityType DEF Seeded
<1> HIDE DEF t
<1>4. servers \in [Server -> ServerRow]
  BY <1>1, <1>2, <1>3 DEF ServerRow
<1>5. agent \in AgentRow
  BY DEF ConfigInit, AgentRow
<1> QED
  BY <1>4, <1>5, RowTypes DEF ConfigInit, ConfigTypes

-----------------------------------------------------------------------------
(* What a step of a node does to its own coroutine, and to the others *)

LEMMA DisturbedFields ==
    ASSUME ConfigTypes, NEW m \in Node
    PROVE  LET u == Upset(node)[m] IN
           /\ u.pc = node[m].pc /\ u.seen = node[m].seen /\ u.had = node[m].had
           /\ u.list = node[m].list /\ u.todo = node[m].todo
           /\ u.calm => ~Busy(m)
<1>1. node[m] \in Local
  BY DEF ConfigTypes
<1>2. CASE Busy(m)
  <2>1. Upset(node)[m] = [node[m] EXCEPT !.calm = FALSE]
    BY <1>2, Disturbed
  <2> QED
    BY <1>1, <2>1 DEF Local
<1>3. CASE ~Busy(m)
  BY <1>3, Disturbed
<1> QED
  BY <1>2, <1>3

LEMMA Others ==
    ASSUME ConfigTypes, NEW n \in Node, NodeStep(n), NEW m \in Node, m # n
    PROVE  /\ node'[m].pc = node[m].pc /\ node'[m].seen = node[m].seen /\ node'[m].had = node[m].had
           /\ node'[m].list = node[m].list /\ node'[m].todo = node[m].todo
           /\ Start(n) => (node'[m].calm => ~Busy(m))
           /\ ~Start(n) => node'[m] = node[m]
<1>1. CASE Start(n)
  BY <1>1, StartMoves, DisturbedFields
<1>2. CASE ~Start(n)
  <2>1. Moved(n)
    BY <1>2, CheckMoves, ListAgentsMoves, ListServersMoves, EvictedMoves, ListMoves, EvictMoves,
       PlainMoves, LoadRowMoves, ConnectMoves, PickMoves, FailMoves, Zenon DEF NodeStep
  <2> QED
    BY <1>2, <2>1 DEF Moved
<1> QED
  BY <1>1, <1>2

\* Points at which a node reads the tables of a Worker.
Refetching == {"servers", "revalidate", "evict", "close"}

\* What became of node n: where it reads, what it has found, what it loads.
Became(n) ==
    LET c == node[n]
        d == node'[n]
    IN
    /\ d.pc = "servers" => ListAgents(n) /\ host # "api" /\ d.seen = agent
    /\ d.pc \in Refetching => c.pc \in Refetching \/ ListAgents(n)
    /\ d.had => c.had \/ known
    /\ d.pc \in {"load", "connect"} =>
          \/ ListEnabled(n) /\ d.list = Enabled /\ d.todo = In(Enabled) /\ d.pc = "load"
          \/ c.pc \in {"load", "connect"} /\ d.list = c.list /\ d.todo \subseteq c.todo
    /\ d.pc = "list" => EnsureLoaded(n) /\ ~loaded
    /\ d.calm => c.calm \/ Start(n)
    /\ d.pc = "off" => Check(n) \/ ListAgents(n) \/ ListServers(n) \/ Evicted(n)

LEMMA ReturnedBecame ==
    ASSUME ConfigTypes, NEW n \in Node, NEW r \in AgentRow, NEW clean \in BOOLEAN, Return(n, r, clean),
           Check(n) \/ ListAgents(n) \/ ListServers(n) \/ Evicted(n)
    PROVE  Became(n) /\ node'[n].pc \in {"off", "pick", "ensure"}
<1>1. node[n].ret \in {"ensure", "pick"}
  BY DEF ConfigTypes, Local
<1>2. node'[n].pc \in {"off", "pick", "ensure"} /\ ~node'[n].had /\ (node'[n].calm => node[n].calm)
  BY <1>1, Returned
<1> QED
  BY <1>2 DEF Became, Refetching

LEMMA Self ==
    ASSUME ConfigTypes, NEW n \in Node, NodeStep(n)
    PROVE  Became(n)
<1> DEFINE c == node[n]
           d == node'[n]
<1>0. c \in Local
  BY DEF ConfigTypes
<1>a. ASSUME d.had = c.had, d.calm = c.calm,
             d.pc \in {"check", "agents", "ensure", "pick", "reconnect"} \/ (d.pc \in Refetching \ {"servers"} /\ c.pc \in Refetching)
      PROVE  Became(n)
  BY <1>a DEF Became, Refetching
<1>1. CASE Start(n) \/ FailRead(n) \/ Done(n)
  <2>1. Idle \in Local /\ ~Idle.had /\ Idle.pc = "idle" /\ ~Idle.calm
    BY RowTypes DEF Idle
  <2>2. d = Idle \/ (Start(n) /\ \E x : d = [Idle EXCEPT !.pc = "check", !.calm = x])
    <3>1. CASE Start(n)
      BY <3>1, StartMoves, Zenon
    <3>2. CASE FailRead(n)
      BY <3>2, FailMoves
    <3>3. CASE Done(n)
      BY <3>3, PlainMoves, Zenon
    <3> QED
      BY <1>1, <3>1, <3>2, <3>3
  <2> HIDE DEF d
  <2>3. ~d.had /\ d.pc \in {"idle", "check"} /\ (d.calm => Start(n))
    BY <2>1, <2>2 DEF Local
  <2> QED
    BY <2>3 DEF Became, Refetching, d
<1>2. CASE Check(n)
  <2>1. CASE known /\ ~due
    BY <1>2, <2>1, ReturnedBecame, CheckMoves DEF ConfigTypes
  <2>2. CASE ~(known /\ ~due)
    <3>1. d = [c EXCEPT !.pc = "agents", !.had = known, !.old = resolver]
      BY <1>2, <2>2, CheckMoves
    <3>2. d.pc = "agents" /\ d.had = known /\ d.calm = c.calm
      BY <1>0, <3>1 DEF Local
    <3> QED
      BY <3>2 DEF Became, Refetching
  <2> QED
    BY <2>1, <2>2
<1>3. CASE ListAgents(n)
  <2>1. CASE host = "api"
    BY <1>3, <2>1, ReturnedBecame DEF ConfigTypes, ListAgents
  <2>2. CASE host # "api"
    <3>1. d = [c EXCEPT !.pc = "servers", !.seen = agent]
      BY <1>3, <2>2, ListAgentsMoves
    <3>2. d.pc = "servers" /\ d.seen = agent /\ d.had = c.had /\ d.calm = c.calm
      BY <1>0, <3>1 DEF Local
    <3> QED
      BY <1>3, <2>2, <3>2 DEF Became
  <2> QED
    BY <2>1, <2>2
<1>4. CASE ListServers(n)
  <2>1. CASE Matches(n)
    <3>1. c.old \in AgentRow /\ (~behind' /\ ~spoiled) \in BOOLEAN
      BY <1>0 DEF Local
    <3> QED
      BY <1>4, <2>1, <3>1, ReturnedBecame, ListServersMoves
  <2>2. CASE ~Matches(n)
    <3>1. c.pc = "servers" /\ d = [c EXCEPT !.pc = "revalidate", !.seen = NoAgent, !.had = FALSE, !.old = NoAgent]
      BY <1>4, <2>2, ListServersMoves DEF ListServers, Resumes
    <3>2. d.pc = "revalidate" /\ ~d.had /\ d.calm = c.calm
      BY <1>0, <3>1 DEF Local
    <3> QED
      BY <3>1, <3>2 DEF Became, Refetching
  <2> QED
    BY <2>1, <2>2
<1>5. CASE Revalidate(n)
  <2>1. c.pc = "revalidate" /\ d = [c EXCEPT !.pc = "evict", !.list = Enabled, !.todo = Cached]
    BY <1>5, ListMoves, Zenon DEF Revalidate, Resumes
  <2>2. d.pc = "evict" /\ d.had = c.had /\ d.calm = c.calm
    BY <1>0, <2>1 DEF Local
  <2> QED
    BY <1>a, <2>1, <2>2 DEF Refetching
<1>6. CASE ListEnabled(n)
  <2>1. d = [c EXCEPT !.pc = "load", !.list = Enabled, !.todo = In(Enabled)]
    BY <1>6, ListMoves, Zenon
  <2>2. d.pc = "load" /\ d.list = Enabled /\ d.todo = In(Enabled) /\ d.had = c.had /\ d.calm = c.calm
    BY <1>0, <2>1 DEF Local
  <2> QED
    BY <1>6, <2>2 DEF Became, Refetching
<1>7. CASE Evict(n)
  <2>1. c.pc = "evict"
    BY <1>7 DEF Evict
  <2>2. PICK s : d = [c EXCEPT !.todo = @ \ {s}, !.pc = IF clients[s].up THEN "close" ELSE "evict"]
    BY <1>7, EvictMoves
  <2>3. d.pc \in {"close", "evict"} /\ d.had = c.had /\ d.calm = c.calm
    BY <1>0, <2>2 DEF Local
  <2> QED
    BY <1>a, <2>1, <2>3 DEF Refetching
<1>8. CASE Closed(n)
  <2>1. c.pc = "close" /\ d = [c EXCEPT !.pc = "evict"]
    BY <1>8, PlainMoves, Zenon DEF Closed, Resumes
  <2>2. d.pc = "evict" /\ d.had = c.had /\ d.calm = c.calm
    BY <1>0, <2>1 DEF Local
  <2> QED
    BY <1>a, <2>1, <2>2 DEF Refetching
<1>9. CASE Evicted(n)
  BY <1>9, ReturnedBecame DEF Evicted, ConfigTypes
<1>10. CASE EnsureLoaded(n)
  <2>1. \/ d = [c EXCEPT !.pc = "check", !.ret = "pick"]
        \/ ~loaded /\ d = [c EXCEPT !.pc = "list"]
    BY <1>10, PlainMoves, Zenon
  <2>2. (d.pc = "check" \/ (d.pc = "list" /\ ~loaded)) /\ d.had = c.had /\ d.calm = c.calm
    BY <1>0, <2>1 DEF Local
  <2> QED
    BY <1>10, <2>2 DEF Became, Refetching
<1>11. CASE Loaded(n) \/ Again(n)
  <2>1. \/ d = [c EXCEPT !.pc = "check", !.ret = "pick", !.list = Nothing]
        \/ d = [c EXCEPT !.pc = "ensure", !.second = TRUE, !.given = node[n].got, !.got = Nothing]
    BY <1>11, PlainMoves, Zenon
  <2>2. d.pc \in {"check", "ensure"} /\ d.had = c.had /\ d.calm = c.calm
    BY <1>0, <2>1 DEF Local
  <2> QED
    BY <1>a, <2>2
<1>12. CASE LoadRow(n)
  <2>1. c.pc = "load"
    BY <1>12, Zenon DEF LoadRow
  <2>2. PICK s : \/ d = [c EXCEPT !.todo = @ \ {s}, !.pc = "connect", !.conn = {s}]
                 \/ d = [c EXCEPT !.todo = @ \ {s}]
    BY <1>12, LoadRowMoves
  <2>3. d.pc \in {"load", "connect"} /\ d.list = c.list /\ d.todo = c.todo \ {s} /\ d.had = c.had /\ d.calm = c.calm
    BY <1>0, <2>1, <2>2 DEF Local
  <2> QED
    BY <2>1, <2>3 DEF Became, Refetching
<1>13. CASE Connected(n) \/ Reconnected(n)
  <2>1. Connected(n) => c.pc = "connect"
    BY DEF Connected, Resumes
  <2>2. d = [c EXCEPT !.pc = IF Connected(n) THEN "load" ELSE "pick", !.conn = {}]
    BY <1>13, ConnectMoves
  <2>3. /\ d.pc = IF Connected(n) THEN "load" ELSE "pick"
        /\ d.list = c.list /\ d.todo = c.todo /\ d.had = c.had /\ d.calm = c.calm
    BY <1>0, <2>2 DEF Local
  <2> QED
    BY <2>1, <2>3 DEF Became, Refetching
<1>14. CASE Pick(n)
  <2>1. c.pc = "pick"
    BY <1>14, Zenon DEF Pick
  <2>2. PICK s : \/ d = [c EXCEPT !.pc = "reconnect", !.conn = {s}]
                 \/ d = [c EXCEPT !.todo = @ \ {s}, !.got = [node[n].got EXCEPT ![s] = clients[s].at]]
    BY <1>14, PickMoves, Zenon
  <2>3. d.pc \in {"reconnect", "pick"} /\ d.had = c.had /\ d.calm = c.calm
    BY <1>0, <2>1, <2>2 DEF Local
  <2> QED
    BY <1>a, <2>3
<1>15. CASE FailServer(n)
  <2>1. /\ ~d.calm /\ d.had = c.had /\ d.pc = IF c.pc = "connect" THEN "load" ELSE "pick"
        /\ d.list = c.list /\ (c.pc = "connect" => d.todo = c.todo)
    BY <1>15, FailMoves
  <2> QED
    BY <2>1 DEF Became, Refetching
<1> QED
  BY <1>1, <1>2, <1>3, <1>4, <1>5, <1>6, <1>7, <1>8, <1>9, <1>10, <1>11, <1>12, <1>13, <1>14, <1>15
     DEF NodeStep

-----------------------------------------------------------------------------
(* What the process has read *)

LEMMA StepFrame ==
    ASSUME NEW n \in Node, NodeStep(n)
    PROVE  /\ UNCHANGED <<host, servers, agent, handler, edits>>
           /\ ListServers(n) \/ UNCHANGED <<behind, read>>
           /\ ListServers(n) \/ ListAgents(n) \/ UNCHANGED <<resolver, known, print, due>>
  BY Zenon DEF NodeStep, Start, Check, ListAgents, ListServers, Revalidate, Evict, Closed, Evicted,
     EnsureLoaded, ListEnabled, LoadRow, Loaded, Connected, Pick, Reconnected, Again, Done,
     FailRead, FailServer, tables, cache, bounds, past

LEMMA EditFrame ==
    ASSUME NEW h, Edit(h)
    PROVE  /\ UNCHANGED <<host, resolver, known, print, due, loaded, clients, failures, spoiled, read, recurred>>
           /\ handler.pc = "idle" /\ handler' = (IF host = "api" THEN h ELSE Quiet)
           /\ node' = Upset(node) /\ behind' = (host = "worker") /\ edits' = edits + 1
  BY DEF Edit, cache, past

\* The other steps.
LEMMA ProcessFrame ==
    ASSUME ConfigTypes, Reload \/ RefreshEvict \/ RefreshBuild \/ RefreshConnected \/ Tick
    PROVE  /\ UNCHANGED <<host, servers, agent, resolver, known, print, loaded, node, edits, behind, read, recurred>>
           /\ handler.pc = "idle" => Tick /\ handler' = handler
           /\ handler'.pc \in {"reload", "refresh"} => handler' = handler
           /\ Tick => UNCHANGED <<clients, handler, spoiled>> /\ host = "worker"
<1>1. Quiet.pc = "idle"
  BY DEF Quiet
<1>2. CASE Reload
  BY <1>1, <1>2 DEF Reload, Tick, tables, bounds, past
<1>3. CASE RefreshEvict
  <2>1. handler' = [handler EXCEPT !.pc = "build"] /\ handler.pc = "refresh"
    BY <1>3 DEF RefreshEvict
  <2>2. handler'.pc = "build" /\ ~Tick
    BY <2>1 DEF ConfigTypes, Tick
  <2> QED
    BY <1>3, <2>1, <2>2 DEF RefreshEvict, tables, cache, bounds, past
<1>4. CASE RefreshBuild
  <2>1. handler' \in {Quiet, [handler EXCEPT !.pc = "connect"]} /\ handler.pc = "build"
    BY <1>4 DEF RefreshBuild
  <2>2. handler'.pc \in {"idle", "connect"} /\ ~Tick
    BY <1>1, <2>1 DEF ConfigTypes, Tick
  <2> QED
    BY <1>4, <2>1, <2>2 DEF RefreshBuild, tables, cache, bounds, past
<1>5. CASE RefreshConnected
  BY <1>1, <1>5 DEF RefreshConnected, Tick, tables, cache, past
<1>6. CASE Tick
  BY <1>6 DEF Tick, tables, bounds, past
<1> QED
  BY <1>2, <1>3, <1>4, <1>5, <1>6

LEMMA HostNext == ConfigTypes /\ HostInv /\ [ConfigNext]_configVars => HostInv'
<1> SUFFICES ASSUME ConfigTypes, HostInv, [ConfigNext]_configVars
             PROVE  HostInv'
  OBVIOUS
<1>0. host \in {"worker", "api"}
  BY ServerAssumption DEF ConfigTypes
<1>1. ASSUME NEW n \in Node, NodeStep(n)
      PROVE  HostInv'
  <2>1. host' = host /\ handler' = handler /\ (ListServers(n) \/ behind' = behind)
    BY <1>1, StepFrame
  <2>2. host = "api" => ~ListServers(n)
    BY DEF HostInv, ListServers, Resumes
  <2>3. ASSUME host = "api", NEW m \in Node
        PROVE  node'[m].pc \notin Refetching
    <3>1. CASE m # n
      BY <1>1, <2>3, <3>1, Others DEF HostInv, Refetching
    <3>2. CASE m = n
      <4>1. ListAgents(n) => node'[n].pc \notin Refetching
        BY <2>3, ReturnedBecame DEF ListAgents, Refetching, ConfigTypes
      <4> QED
        BY <1>1, <2>3, <3>2, <4>1, Self DEF Became, HostInv, Refetching
    <3> QED
      BY <3>1, <3>2
  <2> QED
    BY <2>1, <2>2, <2>3 DEF HostInv, Refetching
<1>2. ASSUME NEW h, Edit(h)
      PROVE  HostInv'
  <2>1. host' = host /\ node' = Upset(node) /\ behind' = (host = "worker")
    BY <1>2, EditFrame
  <2>2. \A m \in Node : node'[m].pc = node[m].pc
    BY <2>1, DisturbedFields
  <2>3. host = "worker" => handler'.pc = "idle"
    BY <1>2, EditFrame DEF Quiet
  <2> QED
    BY <2>1, <2>2, <2>3 DEF HostInv
<1>3. ASSUME NEW s \in Server, LoseSession(s)
      PROVE  HostInv'
  BY <1>3, DisturbedFields DEF HostInv, LoseSession
<1>4. CASE Reload \/ RefreshEvict \/ RefreshBuild \/ RefreshConnected \/ Tick
  BY <1>4, ProcessFrame DEF HostInv
<1>5. CASE UNCHANGED configVars
  BY <1>5 DEF HostInv, configVars
<1> QED
  BY <1>1, <1>2, <1>3, <1>4, <1>5 DEF ConfigNext, SaveServer, DeleteServer, SaveAgent

\* The newest time is the time of a row.
LEMMA NewestIs ==
    ASSUME NEW rows \in [Server -> ServerRow], NEW k \in Nat, \A s \in Server : rows[s].at < k
    PROVE  /\ \E t \in Server : Newest(rows) = rows[t].at
           /\ \A s \in Server : rows[s].at <= Newest(rows)
<1> DEFINE gaps == {k - rows[s].at : s \in Server}
           times == {rows[s].at : s \in Server}
           R == {p \in Nat \X Nat : p[1] < p[2]}
<1>1. \A s \in Server : rows[s].at \in Nat /\ k - rows[s].at \in Nat
  BY DEF ServerRow
<1>2. gaps \subseteq Nat /\ gaps # {}
  BY <1>1, ServerAssumption
<1>3. PICK g \in gaps : \A h \in gaps : ~(<<h, g>> \in R)
  <2>1. IsWellFoundedOn(R, Nat)
    BY NatLessThanWellFounded DEF OpToRel
  <2> QED
    BY <1>2, <2>1, WFMin
<1>4. PICK t \in Server : g = k - rows[t].at
  OBVIOUS
<1>5. ASSUME NEW s \in Server
      PROVE  rows[s].at <= rows[t].at
  <2> DEFINE h == k - rows[s].at
  <2>1. h \in gaps /\ h \in Nat /\ g \in Nat
    BY <1>1, <1>2
  <2>2. ~(h < g)
    BY <1>3, <2>1
  <2> HIDE DEF h
  <2>3. ~(k - rows[s].at < k - rows[t].at)
    BY <1>4, <2>2 DEF h
  <2> QED
    BY <1>1, <2>3
<1>6. \E x \in times : \A y \in times : x >= y
  BY <1>1, <1>5
<1>7. Max(times) \in times /\ \A y \in times : Max(times) >= y
  BY <1>6 DEF Max
<1> QED
  BY <1>1, <1>7 DEF Newest

\* A fingerprint that is as it was tells that the tables are as they were: whatever was added
\* or changed since would be newer, and what was deleted would be missed.
LEMMA SameTables ==
    ASSUME ConfigTypes, TimeInv, ReadInv, host = "worker",
           NEW n \in Node, node[n].pc = "servers", Matches(n)
    PROVE  read = <<servers, node[n].seen>>
<1> DEFINE then == read[1]
           seen == node[n].seen
<1>1. /\ read = <<then, read[2]>> /\ then \in [Server -> ServerRow] /\ servers \in [Server -> ServerRow]
      /\ Now \in Nat
  BY NowIsNat DEF ConfigTypes
<1>2. known /\ print = Signature(seen)
  BY DEF Matches, ReadInv
<1>3. /\ seen.at = read[2].at
      /\ Count(servers) = Count(then) /\ Newest(servers) = Newest(then)
  BY <1>2 DEF ReadInv, Signature, Count, Newest
<1>4. seen = read[2]
  BY <1>3 DEF TimeInv, Versions
<1>5. ASSUME NEW s \in Server
      PROVE  servers[s] = then[s] \/ servers[s] = NoRow
  <2>1. PICK t \in Server : Newest(then) = then[t].at
    BY <1>1, NewestIs DEF TimeInv
  <2>2. servers[s].at <= then[t].at
    BY <1>1, <1>3, <2>1, NewestIs DEF TimeInv
  <2>3. servers[s].at \in Nat /\ then[t].at \in Nat
    BY <1>1 DEF ServerRow
  <2> QED
    BY <2>2, <2>3 DEF ReadInv
<1> DEFINE here == {s \in Server : servers[s].at # 0}
           there == {s \in Server : then[s].at # 0}
<1>6. here \subseteq there
  BY <1>5 DEF NoRow
<1>7. here = there
  <2>1. IsFiniteSet(there)
    BY ServerAssumption, FS_Subset
  <2>2. Cardinality(here) = Cardinality(there)
    BY <1>3 DEF Count
  <2> HIDE DEF here, there
  <2> QED
    BY <1>6, <2>1, <2>2, FS_Subset
<1>8. \A s \in Server : servers[s] = then[s]
  BY <1>1, <1>5, <1>7 DEF NoRow, ServerRow
<1> QED
  BY <1>1, <1>4, <1>8

-----------------------------------------------------------------------------
(* Times *)

LEMMA VersionTypes == ConfigTypes => Versions \subseteq AgentRow
BY DEF ConfigTypes, Versions, Local

\* The rows that a process has at hand are those it had, and the agent's.
LEMMA VersionsNext ==
    ASSUME ConfigTypes, HostInv, [ConfigNext]_configVars
    PROVE  Versions' \subseteq Versions \cup {agent'}
<1>1. ASSUME \A m \in Node : node'[m].pc = "servers" =>
                  (node[m].pc = "servers" /\ node'[m].seen = node[m].seen) \/ node'[m].seen = agent,
             read'[2] \in Versions
      PROVE  Versions' \subseteq Versions \cup {agent'}
  BY <1>1 DEF Versions
<1>2. ASSUME NEW n \in Node, NodeStep(n)
      PROVE  Versions' \subseteq Versions \cup {agent'}
  <2>1. ASSUME NEW m \in Node, node'[m].pc = "servers"
        PROVE  (node[m].pc = "servers" /\ node'[m].seen = node[m].seen) \/ node'[m].seen = agent
    <3>1. CASE m # n
      BY <1>2, <2>1, <3>1, Others
    <3>2. CASE m = n
      BY <1>2, <2>1, <3>2, Self DEF Became
    <3> QED
      BY <3>1, <3>2
  <2>2. read'[2] \in Versions
    <3>1. CASE ListServers(n)
      <4>1. node[n].pc = "servers" /\ (read' = read \/ read' = <<servers, node[n].seen>>)
        BY <3>1 DEF ListServers, Resumes
      <4> QED
        BY <4>1 DEF Versions
    <3>2. CASE ~ListServers(n)
      BY <1>2, <3>2, StepFrame DEF Versions
    <3> QED
      BY <3>1, <3>2
  <2> QED
    BY <1>1, <2>1, <2>2
<1>3. ASSUME UNCHANGED read, node' = Upset(node)
      PROVE  Versions' \subseteq Versions \cup {agent'}
  BY <1>1, <1>3, DisturbedFields DEF Versions
<1>4. CASE \E h : Edit(h)
  BY <1>3, <1>4, EditFrame
<1>5. CASE \E s \in Server : LoseSession(s)
  BY <1>3, <1>5 DEF LoseSession, past
<1>6. ASSUME UNCHANGED <<read, node>>
      PROVE  Versions' \subseteq Versions \cup {agent'}
  BY <1>1, <1>6 DEF Versions
<1>7. CASE Reload \/ RefreshEvict \/ RefreshBuild \/ RefreshConnected \/ Tick
  BY <1>6, <1>7, ProcessFrame
<1>8. CASE UNCHANGED configVars
  BY <1>6, <1>8 DEF configVars, past
<1> QED
  BY <1>2, <1>4, <1>5, <1>7, <1>8 DEF ConfigNext, SaveServer, DeleteServer, SaveAgent

\* What a step does to the tables: one row gets the time, or goes.
LEMMA TablesNext ==
    ASSUME ConfigTypes, [ConfigNext]_configVars
    PROVE  /\ Now \in Nat /\ Now > 0
           /\ \/ Now' = Now /\ UNCHANGED <<servers, agent>>
              \/ /\ Now' = Now + 1
                 /\ \A s \in Server : servers'[s] = servers[s] \/ servers'[s] = NoRow \/ servers'[s].at = Now
                 /\ agent' = agent \/ agent'.at = Now
           /\ \/ read' = read
              \/ \E n \in Node : read' = <<servers, node[n].seen>> /\ ListServers(n)
<1>1. edits \in Nat /\ Seeded \in Nat /\ Now \in Nat /\ Now > 0
  BY NowIsNat, ServerAssumption, FS_CardinalityType DEF ConfigTypes, Seeded
<1>2. /\ edits' = edits => Now' = Now
      /\ edits' = edits + 1 => Now' = Now + 1
  BY <1>1 DEF Now
<1>3. CASE \E n \in Node : NodeStep(n)
  <2>1. PICK n \in Node : NodeStep(n)
    BY <1>3
  <2>2. ListServers(n) => read' = read \/ read' = <<servers, node[n].seen>>
    BY DEF ListServers
  <2> QED
    BY <1>1, <1>2, <2>1, <2>2, StepFrame
<1>4. ASSUME NEW s \in Server, SaveServer(s) \/ DeleteServer(s)
      PROVE  /\ Now' = Now + 1 /\ read' = read /\ agent' = agent
             /\ \A t \in Server : servers'[t] = servers[t] \/ servers'[t] = NoRow \/ servers'[t].at = Now
  BY <1>2, <1>4, SaveTypes, EditFrame
<1>5. CASE SaveAgent
  <2>1. agent'.at = Now /\ servers' = servers /\ Edit([pc |-> "reload", on |-> {}])
    BY <1>5 DEF SaveAgent
  <2> QED
    BY <1>1, <1>2, <2>1, EditFrame
<1>6. CASE \E s \in Server : LoseSession(s)
  BY <1>1, <1>2, <1>6 DEF LoseSession, tables, past
<1>7. CASE Reload \/ RefreshEvict \/ RefreshBuild \/ RefreshConnected \/ Tick
  BY <1>1, <1>2, <1>7, ProcessFrame
<1>8. CASE UNCHANGED configVars
  BY <1>1, <1>2, <1>8 DEF configVars, tables, bounds, past
<1> QED
  BY <1>1, <1>3, <1>4, <1>5, <1>6, <1>7, <1>8 DEF ConfigNext

LEMMA TimeNext ==
    ASSUME ConfigTypes, HostInv, TimeInv, [ConfigNext]_configVars
    PROVE  TimeInv'
<1>1. ConfigTypes'
  BY ConfigTypesNext
<1>2. /\ \A s \in Server : servers[s].at \in Nat /\ read[1][s].at \in Nat /\ servers'[s].at \in Nat
      /\ Now \in Nat /\ Now' \in Nat /\ Now <= Now' /\ Now > 0
  <2>1. \A x \in ServerRow : x.at \in Nat
    BY DEF ServerRow
  <2>2. \A s \in Server : servers[s] \in ServerRow /\ read[1][s] \in ServerRow /\ servers'[s] \in ServerRow
    BY <1>1 DEF ConfigTypes
  <2> QED
    BY <2>1, <2>2, TablesNext
<1>3. \A s \in Server : servers'[s].at < Now'
  BY <1>2, TablesNext DEF TimeInv, NoRow
<1>4. \A s \in Server : read'[1][s].at < Now'
  <2>1. read'[1] = read[1] \/ read'[1] = servers
    BY TablesNext
  <2> QED
    BY <1>2, <2>1 DEF TimeInv
<1>5. \A v \in Versions : v.at \in Nat /\ v.at < Now
  BY VersionTypes DEF AgentRow, TimeInv
<1>6. agent' \in Versions \/ (agent'.at = Now /\ Now' = Now + 1)
  BY TablesNext DEF Versions
<1>7. \A v \in Versions' : v \in Versions \/ v = agent'
  BY VersionsNext
<1>8. \A v \in Versions' : v.at < Now'
  BY <1>2, <1>5, <1>6, <1>7
<1>9. ASSUME NEW v \in Versions', NEW w \in Versions', v.at = w.at
      PROVE  v = w
  <2>1. CASE v \in Versions /\ w \in Versions
    BY <1>9, <2>1 DEF TimeInv
  <2>2. CASE v \notin Versions \/ w \notin Versions
    BY <1>2, <1>5, <1>6, <1>7, <1>9, <2>2
  <2> QED
    BY <2>1, <2>2
<1> QED
  BY <1>3, <1>4, <1>8, <1>9 DEF TimeInv

\* A fingerprint that is as it was leaves what the process knows, otherwise it is what was read.
LEMMA ListServersReads ==
    ASSUME ConfigTypes, TimeInv, ReadInv, host = "worker", NEW n \in Node, ListServers(n)
    PROVE  /\ read' = <<servers, node[n].seen>> /\ behind' = (node[n].seen # agent) /\ known' = TRUE
           /\ resolver' = node[n].seen /\ print' = Signature(node[n].seen)
           /\ Matches(n) => known /\ read' = read /\ UNCHANGED <<resolver, known, print>>
           /\ ~Matches(n) => recurred' = recurred
           /\ Matches(n) => recurred' = (recurred \/ behind)
<1>1. node[n].pc = "servers" /\ behind' = (node[n].seen # agent)
  BY DEF ListServers, Resumes
<1>2. CASE Matches(n)
  <2>1. read = <<servers, node[n].seen>>
    BY <1>1, <1>2, SameTables
  <2>2. UNCHANGED <<resolver, known, print, read>> /\ recurred' = (recurred \/ (behind /\ read = <<servers, node[n].seen>>))
    BY <1>2 DEF ListServers, Matches
  <2>3. known /\ print = Signature(node[n].seen)
    BY <1>2 DEF Matches, ReadInv
  <2>4. resolver = node[n].seen
    BY <2>1, <2>3 DEF ReadInv
  <2>5. known' = TRUE
    BY <2>2, <2>3 DEF ConfigTypes
  <2> QED
    BY <1>1, <1>2, <2>1, <2>2, <2>3, <2>4, <2>5
<1>3. CASE ~Matches(n)
  BY <1>1, <1>3 DEF ListServers, Matches
<1> QED
  BY <1>2, <1>3

\* A row that is not as it was read has been deleted or is newer than all that was read.
RowsFollow == \A s \in Server : \/ servers[s] = read[1][s] \/ servers[s] = NoRow
                                \/ \A t \in Server : read[1][t].at < servers[s].at

LEMMA RowsFollowNext ==
    ASSUME ConfigTypes, HostInv, TimeInv, ReadInv, [ConfigNext]_configVars
    PROVE  RowsFollow'
<1>1. RowsFollow
  BY DEF ReadInv, RowsFollow
<1>2. CASE \E n \in Node : read' = <<servers, node[n].seen>> /\ ListServers(n)
  <2>1. read'[1] = servers /\ servers' = servers
    BY <1>2 DEF ListServers, tables
  <2> QED
    BY <2>1 DEF RowsFollow
<1>3. CASE read' = read
  <2>1. CASE servers' = servers
    BY <1>1, <1>3, <2>1 DEF RowsFollow
  <2>2. CASE \A s \in Server : servers'[s] = servers[s] \/ servers'[s] = NoRow \/ servers'[s].at = Now
    BY <1>1, <1>3, <2>2 DEF RowsFollow, TimeInv
  <2> QED
    BY <2>1, <2>2, TablesNext
<1> QED
  BY <1>2, <1>3, TablesNext

\* A Worker that saw no change since knows the tables.
WorkerReads ==
    /\ ~behind => read = <<servers, agent>>
    /\ known => /\ resolver = read[2]
                /\ print = <<IF read[2].at = 0 THEN 0 ELSE 1, read[2].at,
                             Count(read[1]), Newest(read[1])>>
    /\ \A n \in Node : node[n].had => known

LEMMA WorkerReadsNext ==
    ASSUME ConfigTypes, HostInv, TimeInv, ReadInv, [ConfigNext]_configVars, host = "worker"
    PROVE  WorkerReads'
<1>0. WorkerReads
  BY DEF ReadInv, WorkerReads
<1>1. ASSUME NEW n \in Node, NodeStep(n)
      PROVE  WorkerReads'
  <2>1. UNCHANGED <<host, servers, agent>>
    BY <1>1, StepFrame
  <2>2. \A m \in Node : node'[m].had => node[m].had \/ known
    BY <1>1, Others, Self DEF Became
  <2>3. CASE ListServers(n)
    <3>1. /\ read' = <<servers, node[n].seen>> /\ behind' = (node[n].seen # agent) /\ known' = TRUE
          /\ resolver' = node[n].seen /\ print' = Signature(node[n].seen)
      BY <2>3, ListServersReads
    <3>2. print' = <<IF read'[2].at = 0 THEN 0 ELSE 1, read'[2].at, Count(read'[1]), Newest(read'[1])>>
      BY <3>1 DEF Signature, Count, Newest
    <3> QED
      BY <2>1, <3>1, <3>2 DEF WorkerReads
  <2>4. CASE ~ListServers(n)
    <3>1. ~ListAgents(n) => UNCHANGED <<resolver, known, print, behind, read>>
      BY <1>1, <2>4, StepFrame
    <3>2. ListAgents(n) => UNCHANGED <<resolver, known, print, behind, read>>
      BY DEF ListAgents, cache, past
    <3> QED
      BY <1>0, <2>1, <2>2, <3>1, <3>2 DEF WorkerReads
  <2> QED
    BY <2>3, <2>4
<1>2. CASE \E h : Edit(h)
  <2>1. UNCHANGED <<resolver, known, print, read>> /\ behind' = TRUE /\ node' = Upset(node)
    BY <1>2, EditFrame
  <2>2. \A m \in Node : node'[m].had = node[m].had
    BY <2>1, DisturbedFields
  <2> QED
    BY <1>0, <2>1, <2>2 DEF WorkerReads
<1>3. CASE \E s \in Server : LoseSession(s)
  <2>1. UNCHANGED <<servers, agent, behind, resolver, known, print, read>> /\ node' = Upset(node)
    BY <1>3 DEF LoseSession, tables, cache, past
  <2>2. \A m \in Node : node'[m].had = node[m].had
    BY <2>1, DisturbedFields
  <2> QED
    BY <1>0, <2>1, <2>2 DEF WorkerReads
<1>4. CASE Reload \/ RefreshEvict \/ RefreshBuild \/ RefreshConnected \/ Tick
  BY <1>0, <1>4, ProcessFrame DEF WorkerReads
<1>5. CASE UNCHANGED configVars
  BY <1>0, <1>5 DEF WorkerReads, configVars, tables, cache, past
<1> QED
  BY <1>1, <1>2, <1>3, <1>4, <1>5 DEF ConfigNext, SaveServer, DeleteServer, SaveAgent

\* The API has the agent's row, or is told to read it.
ApiReads == known /\ ~due /\ handler.pc # "reload" => resolver = agent

LEMMA ApiReadsNext ==
    ASSUME ConfigTypes, HostInv, ReadInv, [ConfigNext]_configVars, host = "api"
    PROVE  ApiReads'
<1>0. ApiReads
  BY DEF ReadInv, ApiReads
<1>1. ASSUME NEW n \in Node, NodeStep(n)
      PROVE  ApiReads'
  <2>1. UNCHANGED <<agent, handler>> /\ ~ListServers(n)
    BY <1>1, StepFrame, Zenon DEF HostInv, ListServers, Resumes
  <2>2. CASE ListAgents(n)
    BY <2>1, <2>2 DEF ListAgents, ApiReads
  <2>3. CASE ~ListAgents(n)
    BY <1>0, <1>1, <2>1, <2>3, StepFrame DEF ApiReads
  <2> QED
    BY <2>2, <2>3
<1>2. ASSUME NEW s \in Server, SaveServer(s) \/ DeleteServer(s)
      PROVE  ApiReads'
  BY <1>0, <1>2, SaveTypes, EditFrame DEF ApiReads
<1>3. CASE SaveAgent
  <2>1. Edit([pc |-> "reload", on |-> {}])
    BY <1>3 DEF SaveAgent
  <2>2. handler' = [pc |-> "reload", on |-> {}]
    BY <2>1, EditFrame
  <2>3. handler'.pc = "reload"
    BY <2>2
  <2> QED
    BY <2>3 DEF ApiReads
<1>4. CASE \E s \in Server : LoseSession(s)
  BY <1>0, <1>4 DEF LoseSession, tables, cache, ApiReads
<1>5. CASE Reload \/ Tick
  BY <1>5 DEF Reload, Tick, ApiReads
<1>6. CASE RefreshEvict \/ RefreshBuild \/ RefreshConnected
  BY <1>0, <1>6 DEF RefreshEvict, RefreshBuild, RefreshConnected, tables, cache, ApiReads
<1>7. CASE UNCHANGED configVars
  BY <1>0, <1>7 DEF configVars, tables, cache, ApiReads
<1> QED
  BY <1>1, <1>2, <1>3, <1>4, <1>5, <1>6, <1>7 DEF ConfigNext

LEMMA ReadNext ==
    ASSUME ConfigTypes, HostInv, TimeInv, ReadInv, [ConfigNext]_configVars
    PROVE  ReadInv'
<1>1. host' = host
  <2>1. CASE \E n \in Node : NodeStep(n)
    BY <2>1, StepFrame
  <2>2. CASE \E h : Edit(h)
    BY <2>2, EditFrame
  <2>3. CASE \E s \in Server : LoseSession(s)
    BY <2>3 DEF LoseSession
  <2>4. CASE Reload \/ RefreshEvict \/ RefreshBuild \/ RefreshConnected \/ Tick
    BY <2>4, ProcessFrame
  <2>5. CASE UNCHANGED configVars
    BY <2>5 DEF configVars
  <2> QED
    BY <2>1, <2>2, <2>3, <2>4, <2>5 DEF ConfigNext, SaveServer, DeleteServer, SaveAgent
<1>2. RowsFollow'
  BY RowsFollowNext
<1>3. host = "worker" => WorkerReads'
  BY WorkerReadsNext
<1>4. host = "api" => ApiReads'
  BY ApiReadsNext
<1> QED
  BY <1>1, <1>2, <1>3, <1>4 DEF ReadInv, RowsFollow, WorkerReads, ApiReads

-----------------------------------------------------------------------------
(* The clients are those of the servers *)

\* Where a node is when it takes a step.
LEMMA PointOf ==
    ASSUME NEW n \in Node
    PROVE  /\ Check(n) => node[n].pc = "check"
           /\ ListAgents(n) => node[n].pc = "agents"
           /\ ListServers(n) => node[n].pc = "servers"
           /\ Revalidate(n) => node[n].pc = "revalidate"
           /\ Evict(n) \/ Evicted(n) => node[n].pc = "evict"
           /\ Closed(n) => node[n].pc = "close"
           /\ EnsureLoaded(n) => node[n].pc = "ensure"
           /\ ListEnabled(n) => node[n].pc = "list"
           /\ LoadRow(n) \/ Loaded(n) => node[n].pc = "load"
           /\ Connected(n) => node[n].pc = "connect"
           /\ Pick(n) \/ Again(n) \/ Done(n) => node[n].pc = "pick"
           /\ Reconnected(n) => node[n].pc = "reconnect"
           /\ Start(n) => node[n].pc \in {"idle", "off"}
           /\ FailRead(n) => node[n].pc \in {"agents", "servers", "revalidate", "list"}
           /\ FailServer(n) => node[n].pc \in {"connect", "reconnect", "pick"}
<1>1. /\ Check(n) => node[n].pc = "check"
      /\ ListAgents(n) => node[n].pc = "agents"
      /\ ListServers(n) => node[n].pc = "servers"
      /\ Revalidate(n) => node[n].pc = "revalidate"
      /\ Evict(n) \/ Evicted(n) => node[n].pc = "evict"
      /\ Closed(n) => node[n].pc = "close"
  BY DEF Check, ListAgents, ListServers, Revalidate, Evict, Closed, Evicted, Resumes
<1>2. /\ EnsureLoaded(n) => node[n].pc = "ensure"
      /\ ListEnabled(n) => node[n].pc = "list"
      /\ LoadRow(n) \/ Loaded(n) => node[n].pc = "load"
      /\ Connected(n) => node[n].pc = "connect"
      /\ Pick(n) \/ Again(n) \/ Done(n) => node[n].pc = "pick"
      /\ Reconnected(n) => node[n].pc = "reconnect"
  BY Zenon DEF EnsureLoaded, ListEnabled, LoadRow, Loaded, Connected, Pick, Reconnected, Again, Done, Resumes
<1>3. /\ Start(n) => node[n].pc \in {"idle", "off"}
      /\ FailRead(n) => node[n].pc \in {"agents", "servers", "revalidate", "list"}
      /\ FailServer(n) => node[n].pc \in {"connect", "reconnect", "pick"}
  BY DEF Start, Busy, FailRead, FailServer
<1> QED
  BY <1>1, <1>2, <1>3

\* What can happen to a node that revalidates or loads.
LEMMA StepsFrom ==
    ASSUME NEW n \in Node, NodeStep(n)
    PROVE  /\ node[n].pc = "revalidate" => Revalidate(n) \/ FailRead(n)
           /\ node[n].pc = "evict" => Evict(n) \/ Evicted(n)
           /\ node[n].pc = "close" => Closed(n)
           /\ node[n].pc = "list" => ListEnabled(n) \/ FailRead(n)
           /\ node[n].pc = "load" => LoadRow(n) \/ Loaded(n)
           /\ node[n].pc = "connect" => Connected(n) \/ FailServer(n)
           /\ node[n].pc = "servers" => ListServers(n) \/ FailRead(n)
           /\ node[n].pc = "agents" => ListAgents(n) \/ FailRead(n)
  BY PointOf DEF NodeStep

\* What a step of a node does to the marks on the cache.
LEMMA MarksStep ==
    ASSUME NEW n \in Node, NodeStep(n)
    PROVE  /\ loaded' = loaded \/ (Evicted(n) /\ ~loaded') \/ EnsureLoaded(n)
           /\ ~Evicted(n) /\ ~spoiled' => ~spoiled
           /\ ~Evicted(n) /\ ~ListServers(n) => recurred' = recurred
<1>1. CASE Check(n) \/ ListAgents(n) \/ Revalidate(n) \/ Evict(n) \/ Closed(n)
  BY <1>1 DEF Check, ListAgents, Revalidate, Evict, Closed, past
<1>2. CASE ListServers(n)
  BY <1>2 DEF ListServers
<1>3. CASE Evicted(n)
  BY <1>3 DEF Evicted
<1>4. CASE ListEnabled(n) \/ LoadRow(n) \/ Loaded(n) \/ Connected(n) \/ Pick(n)
  <2>1. ASSUME LoadRow(n) PROVE UNCHANGED <<loaded, spoiled, recurred>>
    BY <2>1 DEF LoadRow, past
  <2>2. ASSUME Pick(n) PROVE UNCHANGED <<loaded, spoiled, recurred>>
    BY <2>2 DEF Pick, past
  <2>3. ASSUME Connected(n) PROVE UNCHANGED <<loaded, spoiled, recurred>>
    BY <2>3 DEF Connected, past
  <2>4. ASSUME ListEnabled(n) \/ Loaded(n) PROVE UNCHANGED <<loaded, spoiled, recurred>>
    BY <2>4 DEF ListEnabled, Loaded, past
  <2> QED
    BY <1>4, <2>1, <2>2, <2>3, <2>4
<1>5. CASE EnsureLoaded(n)
  BY <1>5 DEF EnsureLoaded, past
<1>6. CASE Reconnected(n) \/ Again(n) \/ Done(n) \/ Start(n)
  BY <1>6 DEF Reconnected, Again, Done, Start, past
<1>7. CASE FailRead(n) \/ FailServer(n)
  <2>1. ASSUME FailRead(n) PROVE UNCHANGED <<loaded, recurred>> /\ (~spoiled' => ~spoiled)
    BY <2>1 DEF FailRead, past
  <2>2. ASSUME FailServer(n) PROVE UNCHANGED <<loaded, spoiled, recurred>>
    BY <2>2 DEF FailServer, past
  <2> QED
    BY <1>7, <2>1, <2>2
<1> QED
  BY <1>1, <1>2, <1>3, <1>4, <1>5, <1>6, <1>7 DEF NodeStep

\* Whoever revalidates goes on, until all is evicted or an attempt fails.
LEMMA RevalidatingGoesOn ==
    ASSUME ConfigTypes, NEW n \in Node, NodeStep(n), ~Evicted(n), ~spoiled', Revalidating
    PROVE  Revalidating'
<1>0. node[n] \in Local
  BY DEF ConfigTypes
<1>1. PICK m \in Node : node[m].pc \in {"revalidate", "evict", "close"}
  BY DEF Revalidating
<1>2. CASE m # n
  BY <1>1, <1>2, Others DEF Revalidating
<1>3. CASE m = n
  <2>1. Revalidate(n) \/ Evict(n) \/ Closed(n)
    <3>1. ~FailRead(n) \/ node[n].pc # "revalidate"
      BY DEF FailRead
    <3> QED
      BY <1>1, <1>3, <3>1, StepsFrom
  <2>2. \/ node'[n] = [node[n] EXCEPT !.pc = "evict", !.list = Enabled, !.todo = Cached]
        \/ node'[n] = [node[n] EXCEPT !.pc = "evict"]
        \/ \E s : node'[n] = [node[n] EXCEPT !.todo = @ \ {s}, !.pc = IF clients[s].up THEN "close" ELSE "evict"]
    <3>1. CASE Evict(n)
      BY <3>1, EvictMoves
    <3>2. CASE Revalidate(n)
      BY <3>2, ListMoves, Zenon
    <3>3. CASE Closed(n)
      BY <3>3, PlainMoves, Zenon
    <3> QED
      BY <2>1, <3>1, <3>2, <3>3
  <2>3. node'[n].pc \in {"evict", "close"}
    BY <1>0, <2>2 DEF Local
  <2> QED
    BY <2>3 DEF Revalidating
<1> QED
  BY <1>2, <1>3

\* Only at the end of an eviction do the clients come in order.
LEMMA CleanBefore ==
    ASSUME ConfigTypes, HostInv, TimeInv, ReadInv, [ConfigNext]_configVars, Clean',
           \A n \in Node : ~Evicted(n)
    PROVE  Clean
<1>0. host \in {"worker", "api"}
  BY ServerAssumption DEF ConfigTypes
<1>1. ASSUME NEW n \in Node, NodeStep(n)
      PROVE  Clean
  <2>1. host' = host /\ ~spoiled /\ ~spoiled'
    BY <1>1, StepFrame, MarksStep DEF Clean
  <2>2. ASSUME host = "worker"
        PROVE  known /\ ~behind /\ ~recurred /\ ~Revalidating
    <3>1. known' /\ ~behind' /\ ~recurred' /\ ~Revalidating'
      BY <2>1, <2>2 DEF Clean
    <3>2. ~Revalidating
      BY <1>1, <2>1, <3>1, RevalidatingGoesOn
    <3>3. CASE ListServers(n)
      <4>1. Matches(n)
        <5>1. ASSUME ~Matches(n) PROVE FALSE
          <6>1. node'[n] = [node[n] EXCEPT !.pc = "revalidate", !.seen = NoAgent, !.had = FALSE, !.old = NoAgent]
            BY <3>3, <5>1, ListServersMoves
          <6>2. node'[n].pc = "revalidate"
            BY <6>1 DEF ConfigTypes, Local
          <6> QED
            BY <3>1, <6>2 DEF Revalidating
        <5> QED
          BY <5>1
      <4> QED
        BY <2>2, <3>1, <3>2, <3>3, <4>1, ListServersReads DEF ConfigTypes
    <3>4. CASE ~ListServers(n)
      <4>1. behind' = behind /\ recurred' = recurred
        BY <1>1, <3>4, StepFrame, MarksStep
      <4>2. known' = known
        <5>1. ListAgents(n) => known' = known
          BY <2>2 DEF ListAgents, cache
        <5> QED
          BY <1>1, <3>4, <5>1, StepFrame
      <4> QED
        BY <3>1, <3>2, <4>1, <4>2
    <3> QED
      BY <3>3, <3>4
  <2> QED
    BY <2>1, <2>2 DEF Clean
<1>2. CASE \E h : Edit(h)
  <2>1. UNCHANGED <<host, spoiled>> /\ behind' = (host = "worker")
    BY <1>2, EditFrame
  <2> QED
    BY <2>1 DEF Clean
<1>3. CASE \E s \in Server : LoseSession(s)
  <2>1. UNCHANGED <<host, spoiled, known, behind, recurred>> /\ node' = Upset(node)
    BY <1>3 DEF LoseSession, cache, past
  <2>2. Revalidating <=> Revalidating'
    BY <2>1, DisturbedFields DEF Revalidating
  <2> QED
    BY <2>1, <2>2 DEF Clean
<1>4. CASE Reload \/ RefreshEvict \/ RefreshBuild \/ RefreshConnected \/ Tick
  <2>1. UNCHANGED <<host, known, behind, recurred, node>>
    BY <1>4, ProcessFrame
  <2>2. ~spoiled' => ~spoiled
    BY <1>4 DEF Reload, RefreshEvict, RefreshBuild, RefreshConnected, Tick
  <2> QED
    BY <2>1, <2>2 DEF Clean, Revalidating
<1>5. CASE UNCHANGED configVars
  BY <1>5 DEF Clean, Revalidating, configVars, cache, past
<1> QED
  BY <1>1, <1>2, <1>3, <1>4, <1>5 DEF ConfigNext, SaveServer, DeleteServer, SaveAgent

\* An eviction that ends without a mark leaves the clients of the servers.
LEMMA EvictedInOrder ==
    ASSUME ConfigTypes, NEW n \in Node, Evicted(n), ~spoiled'
    PROVE  InOrder'
<1>0. NodeStep(n)
  BY DEF NodeStep
<1>1. /\ UNCHANGED <<clients, servers>> /\ loaded' = FALSE /\ ~Overtaken /\ Stale(n) = {}
      /\ ~\E s \in Cached : [t \in Cached |-> IF t \in node[n].todo THEN node[n].list[t] ELSE clients[t].at][s] # Enabled[s]
  BY DEF Evicted, tables
<1>2. \A s \in Cached : clients[s].at = Enabled[s]
  BY <1>1 DEF Stale
<1>3. node'[n].pc \in {"off", "pick", "ensure"}
  BY ReturnedBecame DEF Evicted, ConfigTypes
<1>4. ASSUME NEW m \in Node, Loading(m)', NEW s \in node'[m].todo
      PROVE  node'[m].list[s] = Enabled[s]
  <2>1. m # n
    BY <1>3, <1>4 DEF Loading
  <2>2. Loading(m) /\ node'[m].list = node[m].list /\ s \in node[m].todo
    BY <1>0, <1>4, <2>1, Others DEF Loading
  <2> QED
    BY <1>1, <2>2 DEF Overtaken, Loading
<1>5. Enabled' = Enabled /\ Cached' = Cached
  BY <1>1 DEF Enabled, Cached
<1> QED
  BY <1>1, <1>2, <1>4, <1>5 DEF InOrder, Loading

\* What a step of a node does to the clients, but for an eviction: one that was missing is made.
LEMMA ClientsStep ==
    ASSUME ConfigTypes, NEW n \in Node, NodeStep(n), ~Evict(n), NEW s \in Server
    PROVE  \/ clients'[s].at = clients[s].at
           \/ /\ node[n].pc = "load" /\ s \in node[n].todo
              /\ clients[s].at = 0 /\ clients'[s].at = node[n].list[s]
<1>1. CASE LoadRow(n)
  <2>1. node[n].pc = "load" /\ node[n].todo \subseteq Server
    BY <1>1 DEF LoadRow, ConfigTypes, Local
  <2>2. PICK t \in node[n].todo :
           /\ t \in Cached => clients' = clients
           /\ t \notin Cached => clients' = [clients EXCEPT ![t].at = node[n].list[t]]
    BY <1>1, LoadRowMoves
  <2>3. CASE t \in Cached \/ t # s
    <3>1. clients'[s].at = clients[s].at
      BY <2>1, <2>2, <2>3 DEF ConfigTypes
    <3> QED
      BY <3>1
  <2>4. CASE t \notin Cached /\ t = s
    <3>1. clients[s].at = 0 /\ clients[s] \in [at : Nat, up : BOOLEAN]
      BY <2>4 DEF Cached, ConfigTypes
    <3>2. clients'[s].at = node[n].list[s]
      BY <2>2, <2>4, <3>1 DEF ConfigTypes
    <3> QED
      BY <2>1, <2>2, <2>4, <3>1, <3>2
  <2> QED
    BY <2>3, <2>4
<1>2. CASE Connected(n) \/ Reconnected(n)
  BY <1>2, ConnectMoves
<1>3. CASE Start(n) \/ Check(n) \/ ListAgents(n) \/ ListServers(n) \/ Revalidate(n) \/ Closed(n) \/ Evicted(n)
  BY <1>3 DEF Start, Check, ListAgents, ListServers, Revalidate, Closed, Evicted
<1>4. CASE EnsureLoaded(n) \/ ListEnabled(n) \/ Loaded(n) \/ Pick(n) \/ Again(n) \/ Done(n)
  <2>1. ~Pick(n) => clients' = clients
    BY <1>4 DEF EnsureLoaded, ListEnabled, Loaded, Again, Done
  <2>2. Pick(n) => clients' = clients
    BY DEF Pick
  <2> QED
    BY <2>1, <2>2
<1>5. CASE FailRead(n) \/ FailServer(n)
  <2>1. FailRead(n) => clients' = clients
    BY DEF FailRead
  <2>2. FailServer(n) => clients' = clients
    BY DEF FailServer
  <2> QED
    BY <1>5, <2>1, <2>2
<1> QED
  BY <1>1, <1>2, <1>3, <1>4, <1>5 DEF NodeStep

\* A client that a node was to make is made, or still to be made by it.
Brings(n, s) == node[n].pc = "list" \/ (Loading(n) /\ s \in node[n].todo)

LEMMA BringsStep ==
    ASSUME ConfigTypes, NEW n \in Node, NodeStep(n), ~spoiled', NEW s \in In(Enabled), NEW m \in Node, Brings(m, s)
    PROVE  Brings(m, s)' \/ clients'[s].at # 0 \/ (Loading(n) /\ s \in node[n].todo /\ clients'[s].at = node[n].list[s])
<1>0. node[n] \in Local /\ s \in Server
  BY DEF ConfigTypes, In
<1>1. CASE m # n
  BY <1>1, Others DEF Brings, Loading
<1>2. CASE m = n /\ node[n].pc = "list"
  <2>1. ListEnabled(n)
    BY <1>2, StepsFrom DEF FailRead
  <2>2. node'[n] = [node[n] EXCEPT !.pc = "load", !.list = Enabled, !.todo = In(Enabled)]
    BY <2>1, ListMoves, Zenon
  <2>3. node'[n].pc = "load" /\ node'[n].todo = In(Enabled)
    BY <1>0, <2>2 DEF Local
  <2> QED
    BY <1>2, <2>3 DEF Brings, Loading
<1>3. CASE m = n /\ node[n].pc = "connect"
  <2>0. s \in node[n].todo
    BY <1>3 DEF Brings, Loading
  <2>1. CASE Connected(n)
    <3>1. node'[n] = [node[n] EXCEPT !.pc = "load", !.conn = {}]
      BY <2>1, ConnectMoves
    <3>2. node'[n].pc = "load" /\ node'[n].todo = node[n].todo
      BY <1>0, <3>1 DEF Local
    <3> QED
      BY <1>3, <2>0, <3>2 DEF Brings, Loading
  <2>2. CASE FailServer(n)
    BY <1>3, <2>0, <2>2, FailMoves DEF Brings, Loading
  <2> QED
    BY <1>3, <2>1, <2>2, StepsFrom
<1>4. CASE m = n /\ node[n].pc = "load"
  <2>0. s \in node[n].todo
    BY <1>4 DEF Brings, Loading
  <2>1. LoadRow(n)
    BY <1>4, <2>0, StepsFrom, Zenon DEF Loaded
  <2>2. PICK t \in node[n].todo :
              /\ t \in Cached => clients' = clients
              /\ t \notin Cached => clients' = [clients EXCEPT ![t].at = node[n].list[t]]
              /\ \/ node'[n] = [node[n] EXCEPT !.todo = @ \ {t}, !.pc = "connect", !.conn = {t}]
                 \/ node'[n] = [node[n] EXCEPT !.todo = @ \ {t}]
    BY <2>1, LoadRowMoves
  <2>3. node'[n].pc \in {"load", "connect"} /\ node'[n].todo = node[n].todo \ {t}
    BY <1>0, <1>4, <2>2 DEF Local
  <2>4. CASE s # t
    BY <1>4, <2>0, <2>3, <2>4 DEF Brings, Loading
  <2>5. CASE s = t /\ s \in Cached
    BY <2>2, <2>5 DEF Cached
  <2>6. CASE s = t /\ s \notin Cached
    <3>1. clients'[s].at = node[n].list[s]
      BY <1>0, <2>2, <2>6 DEF ConfigTypes
    <3> QED
      BY <1>4, <2>0, <3>1 DEF Loading
  <2> QED
    BY <2>4, <2>5, <2>6
<1> QED
  BY <1>1, <1>2, <1>3, <1>4 DEF Brings, Loading

\* A step of a node leaves the clients in order.
LEMMA NodeKeepsOrder ==
    ASSUME ConfigTypes, HostInv, InOrder, Clean, NEW n \in Node, NodeStep(n), ~Evicted(n), Clean'
    PROVE  InOrder'
<1>0. host \in {"worker", "api"} /\ node[n] \in Local
  BY ServerAssumption DEF ConfigTypes
<1>1. ~Evict(n) /\ ~spoiled'
  BY <1>0 DEF Clean, Revalidating, HostInv, Evict
<1>2. Enabled' = Enabled /\ handler' = handler /\ Enabled \in Times
  BY StepFrame, EnabledType DEF Enabled
<1>3. ASSUME NEW s \in Server
      PROVE  Refreshing(s)' <=> Refreshing(s)
  BY <1>2 DEF Refreshing
<1>4. ASSUME NEW s \in Cached'
      PROVE  clients'[s].at = Enabled[s] \/ Refreshing(s)
  <2>0. s \in Server /\ clients'[s].at # 0
    BY <1>4 DEF Cached
  <2>1. CASE clients'[s].at = clients[s].at
    BY <2>0, <2>1 DEF Cached, InOrder
  <2>2. CASE node[n].pc = "load" /\ s \in node[n].todo /\ clients'[s].at = node[n].list[s]
    BY <2>2 DEF InOrder, Loading
  <2> QED
    BY <1>1, <2>0, <2>1, <2>2, ClientsStep
<1>5. ASSUME NEW m \in Node, Loading(m)', NEW s \in node'[m].todo
      PROVE  node'[m].list[s] = Enabled[s] \/ Refreshing(s)
  <2>1. CASE m # n
    <3>1. Loading(m) /\ node'[m].list = node[m].list /\ s \in node[m].todo
      BY <1>5, <2>1, Others DEF Loading
    <3> QED
      BY <3>1 DEF InOrder
  <2>2. CASE m = n
    <3>1. node'[n].pc \in {"load", "connect"}
      BY <1>5, <2>2 DEF Loading
    <3>2. CASE node'[n].list = Enabled
      BY <2>2, <3>2
    <3>3. CASE Loading(n) /\ node'[n].list = node[n].list /\ node'[n].todo \subseteq node[n].todo
      BY <1>5, <2>2, <3>3 DEF InOrder
    <3> QED
      BY <3>1, <3>2, <3>3, Self DEF Became, Loading
  <2> QED
    BY <2>1, <2>2
<1>6. ASSUME loaded', NEW s \in In(Enabled)
      PROVE  s \in Cached' \/ Owed(s)'
  <2>0. s \in Server /\ Enabled[s] # 0
    BY <1>6 DEF In
  <2>1. CASE loaded
    <3>1. CASE s \in Cached
      <4>1. clients[s].at # 0
        BY <3>1 DEF Cached
      <4>2. clients'[s].at = clients[s].at
        BY <1>1, <2>0, <4>1, ClientsStep
      <4> QED
        BY <2>0, <4>1, <4>2 DEF Cached
    <3>2. CASE handler.pc \in {"refresh", "build"} /\ s \in handler.on
      BY <1>2, <3>2 DEF Owed
    <3>3. CASE \E m \in Node : Brings(m, s)
      <4>1. PICK m \in Node : Brings(m, s)
        BY <3>3
      <4>2. CASE Brings(m, s)'
        BY <4>2 DEF Owed, Brings
      <4>3. CASE clients'[s].at # 0
        BY <2>0, <4>3 DEF Cached
      <4>4. CASE Loading(n) /\ s \in node[n].todo /\ clients'[s].at = node[n].list[s]
        <5>1. node[n].list[s] = Enabled[s] \/ Refreshing(s)
          BY <4>4 DEF InOrder
        <5>2. Refreshing(s) => Owed(s)'
          BY <1>2 DEF Refreshing, Owed
        <5>3. node[n].list[s] = Enabled[s] => s \in Cached'
          BY <2>0, <4>4 DEF Cached
        <5> QED
          BY <5>1, <5>2, <5>3
      <4> QED
        BY <1>1, <4>1, <4>2, <4>3, <4>4, BringsStep
    <3> QED
      BY <1>6, <2>1, <3>1, <3>2, <3>3 DEF InOrder, Owed, Brings
  <2>2. CASE ~loaded
    <3>1. EnsureLoaded(n)
      BY <1>6, <2>2, MarksStep
    <3>2. node'[n] = [node[n] EXCEPT !.pc = "list"]
      BY <2>2, <3>1, PlainMoves, Zenon
    <3>3. node'[n].pc = "list"
      BY <1>0, <3>2 DEF Local
    <3> QED
      BY <3>3 DEF Owed
  <2> QED
    BY <2>1, <2>2
<1>7. \A s \in Server : Refreshing(s) => Refreshing(s)'
  BY <1>3
<1>8. Cached' \subseteq Server /\ \A m \in Node : node'[m].todo \subseteq Server
  <2>1. ConfigTypes'
    BY ConfigTypesNext DEF ConfigNext
  <2> QED
    BY <2>1 DEF Cached, ConfigTypes, Local
<1> QED
  BY <1>2, <1>4, <1>5, <1>6, <1>7, <1>8 DEF InOrder, In

\* A saved server is to be refreshed: its client is not looked at until then.
LEMMA EditKeepsOrder ==
    ASSUME ConfigTypes, InOrder, NEW h, Edit(h), NEW S \in SUBSET Server,
           \A s \in Server \ S : servers'[s] = servers[s], host = "api",
           S # {} => h = [pc |-> "refresh", on |-> S]
    PROVE  InOrder'
<1>0. /\ UNCHANGED <<clients, loaded>> /\ handler.pc = "idle" /\ handler' = h /\ node' = Upset(node)
  BY EditFrame
<1>1. \A m \in Node : /\ node'[m].pc = node[m].pc /\ node'[m].list = node[m].list
                      /\ node'[m].todo = node[m].todo /\ node[m].todo \subseteq Server
  BY <1>0, DisturbedFields DEF ConfigTypes, Local
<1>2. Cached' = Cached /\ Cached \subseteq Server
  BY <1>0 DEF Cached
<1>3. \A s \in Server \ S : Enabled'[s] = Enabled[s] /\ ~Refreshing(s)
  BY <1>0 DEF Enabled, Refreshing
<1>4. \A s \in S : Refreshing(s)' /\ Owed(s)'
  BY <1>0 DEF Refreshing, Owed
<1>5. \A s \in Server \ S : Owed(s) => Owed(s)'
  BY <1>0, <1>1 DEF Owed, Loading
<1>6. \A s \in Cached : clients'[s].at = Enabled'[s] \/ Refreshing(s)'
  BY <1>0, <1>2, <1>3, <1>4 DEF InOrder
<1>7. ASSUME NEW m \in Node, Loading(m)', NEW s \in node'[m].todo
      PROVE  node'[m].list[s] = Enabled'[s] \/ Refreshing(s)'
  <2>1. Loading(m) /\ s \in node[m].todo /\ s \in Server /\ node'[m].list = node[m].list
    BY <1>1, <1>7 DEF Loading
  <2>2. s \notin S => node[m].list[s] = Enabled[s]
    BY <1>3, <2>1 DEF InOrder
  <2> QED
    BY <1>3, <1>4, <2>1, <2>2
<1>8. ASSUME loaded', NEW s \in In(Enabled)'
      PROVE  s \in Cached \/ Owed(s)'
  <2>1. s \in Server /\ Enabled'[s] # 0
    BY <1>8 DEF In
  <2>2. s \notin S => s \in In(Enabled)
    BY <1>3, <2>1 DEF In
  <2> QED
    BY <1>0, <1>4, <1>5, <1>8, <2>1, <2>2 DEF InOrder
<1> QED
  BY <1>2, <1>6, <1>7, <1>8 DEF InOrder

\* The client of a saved server is thrown away, and made anew from its row.
LEMMA RefreshKeepsOrder ==
    ASSUME ConfigTypes, InOrder, ~spoiled', RefreshEvict \/ RefreshBuild \/ RefreshConnected
    PROVE  InOrder'
<1>0. UNCHANGED <<servers, node, loaded>> /\ Enabled' = Enabled /\ Enabled \in Times
  BY EnabledType DEF RefreshEvict, RefreshBuild, RefreshConnected, tables, Enabled
<1>1. \A m \in Node : node[m].todo \subseteq Server
  BY DEF ConfigTypes, Local
<1>2. CASE RefreshEvict
  <2>1. handler.pc = "refresh" /\ handler'.pc = "build" /\ handler'.on = handler.on /\ ~Overtaken
    BY <1>2 DEF RefreshEvict, ConfigTypes
  <2>2. \A s \in Server : clients'[s] = IF s \in handler.on THEN NoClient ELSE clients[s]
    BY <1>2 DEF RefreshEvict
  <2>3. \A s \in Cached' : s \in Cached /\ s \notin handler.on /\ clients'[s] = clients[s]
    BY <2>2 DEF Cached, NoClient
  <2>4. \A s \in Cached' : clients'[s].at = Enabled[s]
    BY <2>3 DEF InOrder, Refreshing
  <2>5. \A m \in Node : Loading(m) => \A s \in node[m].todo : node[m].list[s] = Enabled[s]
    BY <2>1 DEF Overtaken, Loading
  <2>6. ASSUME loaded, NEW s \in In(Enabled)
        PROVE  s \in Cached' \/ Owed(s)'
    <3>1. CASE s \in handler.on
      BY <2>1, <3>1 DEF Owed
    <3>2. CASE s \notin handler.on
      <4>1. s \in Cached => s \in Cached'
        BY <2>2, <3>2 DEF Cached
      <4>2. Owed(s) => Owed(s)'
        BY <1>0, <3>2 DEF Owed, Loading
      <4> QED
        BY <2>6, <4>1, <4>2 DEF InOrder
    <3> QED
      BY <3>1, <3>2
  <2> QED
    BY <1>0, <2>4, <2>5, <2>6 DEF InOrder, Loading, In
<1>3. CASE RefreshBuild
  <2>1. handler.pc = "build" /\ handler'.pc \in {"idle", "connect"}
    BY <1>3 DEF RefreshBuild, ConfigTypes, Quiet
  <2>2. \A s \in Server : clients'[s] = IF s \in handler.on \cap In(Enabled)
                                        THEN [at |-> Enabled[s], up |-> FALSE] ELSE clients[s]
    BY <1>3 DEF RefreshBuild
  <2>3. \A s \in Server : clients'[s].at = IF s \in handler.on \cap In(Enabled) THEN Enabled[s] ELSE clients[s].at
    <3>1. ASSUME NEW s \in Server, s \in handler.on \cap In(Enabled)
          PROVE  clients'[s].at = Enabled[s]
      <4>1. clients'[s] = [at |-> Enabled[s], up |-> FALSE]
        BY <2>2, <3>1
      <4> QED
        BY <4>1
    <3>2. ASSUME NEW s \in Server, s \notin handler.on \cap In(Enabled)
          PROVE  clients'[s].at = clients[s].at
      BY <2>2, <3>2
    <3> QED
      BY <3>1, <3>2
  <2>4. \A s \in Server : ~Refreshing(s) /\ ~Refreshing(s)'
    BY <2>1 DEF Refreshing
  <2>5. \A s \in Cached' : clients'[s].at = Enabled[s]
    BY <2>3, <2>4 DEF InOrder, Cached
  <2>6. \A m \in Node : Loading(m) => \A s \in node[m].todo : node[m].list[s] = Enabled[s]
    BY <1>1, <2>4 DEF InOrder
  <2>7. ASSUME loaded, NEW s \in In(Enabled)
        PROVE  s \in Cached' \/ Owed(s)'
    <3>0. s \in Server /\ Enabled[s] # 0
      BY <2>7 DEF In
    <3>1. CASE s \in handler.on
      BY <2>3, <3>0, <3>1 DEF Cached, In
    <3>2. CASE s \notin handler.on
      <4>1. s \in Cached => s \in Cached'
        BY <2>3, <3>2 DEF Cached
      <4>2. Owed(s) => Owed(s)'
        BY <1>0, <3>2 DEF Owed, Loading
      <4> QED
        BY <2>7, <4>1, <4>2 DEF InOrder
    <3> QED
      BY <3>1, <3>2
  <2> QED
    BY <1>0, <2>5, <2>6, <2>7 DEF InOrder, Loading, In
<1>4. CASE RefreshConnected
  <2>1. handler.pc = "connect" /\ handler'.pc = "idle"
    BY <1>4 DEF RefreshConnected, Quiet
  <2>2. \A s \in Server : clients'[s].at = clients[s].at
    <3>1. PICK up \in BOOLEAN : clients' = [s \in Server |-> IF s \in handler.on \cap Cached
                                        THEN [clients[s] EXCEPT !.up = up \/ @] ELSE clients[s]]
      BY <1>4 DEF RefreshConnected
    <3> QED
      BY <3>1 DEF ConfigTypes
  <2>3. Cached' = Cached /\ Cached \subseteq Server
    BY <2>2 DEF Cached
  <2>4. \A s : ~Refreshing(s) /\ ~Refreshing(s)' /\ (Owed(s) => Owed(s)')
    BY <1>0, <2>1 DEF Refreshing, Owed, Loading
  <2> QED
    BY <1>0, <2>2, <2>3, <2>4 DEF InOrder, Loading, In
<1> QED
  BY <1>2, <1>3, <1>4

LEMMA CacheNext ==
    ASSUME ConfigTypes, HostInv, TimeInv, ReadInv, CacheInv, [ConfigNext]_configVars
    PROVE  CacheInv'
<1> SUFFICES ASSUME Clean'
             PROVE  InOrder'
  BY DEF CacheInv
<1>0. host \in {"worker", "api"} /\ ~spoiled'
  BY ServerAssumption DEF ConfigTypes, Clean
<1>1. CASE \E n \in Node : Evicted(n)
  BY <1>0, <1>1, EvictedInOrder
<1>2. CASE \A n \in Node : ~Evicted(n)
  <2>0. Clean /\ InOrder
    BY <1>2, CleanBefore DEF CacheInv
  <2>1. CASE \E n \in Node : NodeStep(n)
    BY <1>2, <2>0, <2>1, NodeKeepsOrder
  <2>2. ASSUME NEW h, Edit(h)
        PROVE  host = "api"
    BY <1>0, <2>2, EditFrame DEF Clean
  <2>3. ASSUME NEW s \in Server, SaveServer(s) \/ DeleteServer(s)
        PROVE  InOrder'
    <3>1. Edit([pc |-> "refresh", on |-> {s}]) /\ \A t \in Server \ {s} : servers'[t] = servers[t]
      BY <2>3, SaveTypes
    <3>2. {s} \in SUBSET Server
      OBVIOUS
    <3> QED
      BY <2>0, <2>2, <3>1, <3>2, EditKeepsOrder
  <2>4. CASE SaveAgent
    <3>1. Edit([pc |-> "reload", on |-> {}]) /\ \A t \in Server \ {} : servers'[t] = servers[t]
      BY <2>4 DEF SaveAgent
    <3>2. {} \in SUBSET Server
      OBVIOUS
    <3> QED
      BY <2>0, <2>2, <3>1, <3>2, EditKeepsOrder
  <2>5. ASSUME UNCHANGED <<servers, loaded>>, \A s \in Server : clients'[s].at = clients[s].at,
               \A m \in Node : /\ node'[m].pc = node[m].pc /\ node'[m].list = node[m].list
                               /\ node'[m].todo = node[m].todo,
               handler' = handler \/ (handler.pc = "reload" /\ handler'.pc = "idle")
        PROVE  InOrder'
    <3>1. Enabled' = Enabled /\ Cached' = Cached
      BY <2>5 DEF Enabled, Cached
    <3>2. \A s : /\ Refreshing(s) => Refreshing(s)'
                 /\ Owed(s) => Owed(s)'
      BY <2>5 DEF Refreshing, Owed, Loading
    <3>3. Cached \subseteq Server
      BY DEF Cached
    <3> QED
      BY <2>0, <2>5, <3>1, <3>2, <3>3 DEF InOrder, Loading, In
  <2>6. ASSUME NEW t \in Server, LoseSession(t)
        PROVE  InOrder'
    <3>1. \A s \in Server : clients'[s].at = clients[s].at
      BY <2>6 DEF LoseSession, ConfigTypes
    <3>2. \A m \in Node : /\ node'[m].pc = node[m].pc /\ node'[m].list = node[m].list
                          /\ node'[m].todo = node[m].todo
      BY <2>6, DisturbedFields DEF LoseSession
    <3> QED
      BY <2>5, <2>6, <3>1, <3>2 DEF LoseSession, tables
  <2>7. CASE Reload \/ Tick
    BY <2>5, <2>7 DEF Reload, Tick, tables, Quiet
  <2>8. CASE RefreshEvict \/ RefreshBuild \/ RefreshConnected
    BY <1>0, <2>0, <2>8, RefreshKeepsOrder
  <2>9. CASE UNCHANGED configVars
    BY <2>5, <2>9 DEF configVars, tables
  <2> QED
    BY <2>1, <2>3, <2>4, <2>6, <2>7, <2>8, <2>9 DEF ConfigNext
<1> QED
  BY <1>1, <1>2

-----------------------------------------------------------------------------
(* A node that nothing disturbs *)

CalmOf(n) == CalmAlone(n) /\ CalmReads(n) /\ CalmLoads(n) /\ CalmGets(n)

\* A process that knows the tables has the agent's row.
LEMMA KnownAgent ==
    ASSUME ConfigTypes, ReadInv, known, handler.pc # "reload",
           host = "worker" => ~behind, host = "api" => ~due
    PROVE  resolver = agent
<1>1. host \in {"worker", "api"}
  BY ServerAssumption DEF ConfigTypes
<1> QED
  BY <1>1 DEF ReadInv

\* As long as a calm node goes on it is the only one.
LEMMA StaysAlone ==
    ASSUME ConfigTypes, NEW n \in Node, NodeStep(n), ~Start(n), CalmAlone(n)
    PROVE  CalmAlone(n)'
  BY StepFrame, Others DEF CalmAlone, Busy

\* When the resolver that is returned is the agent's row, the node goes on with the clients
\* that the agent is bound to.
LEMMA ReturnKeepsCalm ==
    ASSUME ConfigTypes, NEW n \in Node, NEW clean \in BOOLEAN, Return(n, agent, clean),
           CalmReads(n), CalmLoads(n), CalmGets(n), node[n].pc \in {"check", "agents", "servers", "evict"},
           Busy(n)', UNCHANGED <<agent, clients>>, node[n].ret = "pick" => loaded',
           ~spoiled', host' = "worker" => known' /\ ~behind'
    PROVE  CalmReads(n)' /\ CalmLoads(n)' /\ CalmGets(n)'
<1>0. node[n].ret \in {"ensure", "pick"} /\ agent \in AgentRow
  BY DEF ConfigTypes, Local
<1>1. node'[n].pc \notin {"idle", "off"}
  BY DEF Busy
<1>2. /\ node'[n].ret = node[n].ret /\ node'[n].second = node[n].second
      /\ node'[n].got = node[n].got /\ node'[n].given = node[n].given
  BY <1>0, <1>1, Returned
<1>3. node[n].got = Nothing
  BY DEF CalmGets
<1>4. Chosen' = Chosen /\ Cached' = Cached /\ \A s \in Server : Usable(s)' <=> Usable(s)
  BY DEF Chosen, Cached, Usable
<1>5. /\ node[n].second => /\ \A s \in Server : node'[n].given[s] = IF s \in Chosen THEN clients'[s].at ELSE 0
                           /\ \A s \in Chosen : Usable(s)'
  BY <1>2, <1>4 DEF CalmGets, Chosen, Cached
<1>6. CASE node[n].ret = "pick"
  <2>1. node'[n].pc = "pick" /\ node'[n].todo = Chosen
    BY <1>0, <1>6, Returned DEF Allowed, Chosen
  <2>2. agent.on
    BY <1>6 DEF CalmReads, Past
  <2>3. \A s \in Server : node'[n].got[s] = 0
    BY <1>2, <1>3 DEF Nothing
  <2>4. CalmGets(n)'
    BY <1>2, <1>4, <1>5, <2>1, <2>3 DEF CalmGets
  <2>5. CalmLoads(n)'
    BY <1>2, <1>6, <2>1 DEF CalmLoads
  <2>6. CalmReads(n)'
    BY <2>1, <2>2 DEF CalmReads
  <2> QED
    BY <2>4, <2>5, <2>6
<1>7. CASE node[n].ret = "ensure"
  <2>1. node'[n].pc = "ensure" /\ agent.on
    BY <1>0, <1>1, <1>7, Returned
  <2>2. ~node[n].second
    BY <1>7 DEF CalmLoads
  <2>3. CalmGets(n)'
    BY <1>2, <1>3, <2>1, <2>2 DEF CalmGets
  <2>4. CalmLoads(n)'
    BY <1>2, <1>7, <2>1, <2>2 DEF CalmLoads
  <2>5. CalmReads(n)'
    BY <2>1 DEF CalmReads
  <2> QED
    BY <2>3, <2>4, <2>5
<1> QED
  BY <1>0, <1>6, <1>7

\* What is kept while a node goes from one place to another without looking at clients.
LEMMA GetsKept ==
    ASSUME ConfigTypes, NEW n \in Node, CalmGets(n), UNCHANGED agent,
           node[n].pc \notin {"pick", "reconnect"}, node'[n].pc \notin {"pick", "reconnect"},
           node'[n].got = node[n].got, node'[n].second = node[n].second, node'[n].given = node[n].given,
           ~node[n].second \/ clients' = clients
    PROVE  CalmGets(n)'
<1>1. node[n].second => Chosen' = Chosen /\ clients' = clients /\ Chosen \subseteq Server
  BY DEF Chosen, Cached
<1> QED
  BY <1>1 DEF CalmGets, Usable

LEMMA CheckKeepsCalm ==
    ASSUME ConfigTypes, HostInv, ReadInv, NEW n \in Node, CalmOf(n), Check(n), node'[n].calm, Busy(n)'
    PROVE  CalmReads(n)' /\ CalmLoads(n)' /\ CalmGets(n)'
<1>0. /\ node[n] \in Local /\ node[n].pc = "check" /\ handler.pc = "idle"
      /\ UNCHANGED <<host, servers, agent, resolver, known, loaded, clients, behind, spoiled>>
  BY DEF Check, tables, cache, ConfigTypes, CalmOf, CalmAlone
<1>1. CASE known /\ ~due
  <2>1. Return(n, resolver, ~behind /\ ~spoiled) /\ resolver \in AgentRow
    BY <1>1, CheckMoves DEF ConfigTypes
  <2>2. ~spoiled /\ (host = "worker" => known /\ ~behind)
    <3>1. CASE node[n].ret = "pick"
      BY <3>1 DEF CalmOf, CalmReads, Past
    <3>2. CASE node[n].ret # "pick"
      BY <1>1, <2>1, <3>2, Returned
    <3> QED
      BY <3>1, <3>2
  <2>3. resolver = agent
    BY <1>0, <1>1, <2>2, KnownAgent
  <2>4. node[n].ret = "pick" => loaded'
    BY <1>0 DEF CalmOf, CalmLoads
  <2>5. (~behind /\ ~spoiled) \in BOOLEAN
    OBVIOUS
  <2> QED
    BY <1>0, <2>1, <2>2, <2>3, <2>4, <2>5, ReturnKeepsCalm DEF CalmOf
<1>2. CASE ~(known /\ ~due)
  <2>1. node'[n] = [node[n] EXCEPT !.pc = "agents", !.had = known, !.old = resolver]
    BY <1>2, CheckMoves
  <2>2. /\ node'[n].pc = "agents" /\ node'[n].had = known /\ node'[n].old = resolver
        /\ node'[n].ret = node[n].ret /\ node'[n].second = node[n].second
        /\ node'[n].got = node[n].got /\ node'[n].given = node[n].given
    BY <1>0, <2>1 DEF Local
  <2>3. CalmReads(n)'
    BY <1>0, <2>2 DEF CalmOf, CalmReads, Past
  <2>4. CalmLoads(n)'
    BY <1>0, <2>2 DEF CalmOf, CalmLoads
  <2>5. CalmGets(n)'
    BY <1>0, <2>2, GetsKept DEF CalmOf
  <2> QED
    BY <2>3, <2>4, <2>5
<1> QED
  BY <1>1, <1>2

LEMMA ListAgentsKeepsCalm ==
    ASSUME ConfigTypes, HostInv, ReadInv, NEW n \in Node, CalmOf(n), ListAgents(n), node'[n].calm, Busy(n)'
    PROVE  CalmReads(n)' /\ CalmLoads(n)' /\ CalmGets(n)'
<1>0. /\ node[n] \in Local /\ node[n].pc = "agents" /\ host \in {"worker", "api"}
      /\ UNCHANGED <<host, servers, agent, loaded, clients, behind, spoiled>>
  BY ServerAssumption DEF ListAgents, Resumes, tables, ConfigTypes
<1>1. CASE host = "api"
  <2>1. Return(n, agent, ~spoiled) /\ agent \in AgentRow /\ (~spoiled) \in BOOLEAN
    BY <1>1 DEF ListAgents, ConfigTypes
  <2>2. ~spoiled
    <3>1. CASE node[n].ret = "pick"
      BY <3>1 DEF CalmOf, CalmReads, Past
    <3>2. CASE node[n].ret # "pick"
      BY <2>1, <3>2, Returned
    <3> QED
      BY <3>1, <3>2
  <2>3. node[n].ret = "pick" => loaded'
    BY <1>0 DEF CalmOf, CalmLoads
  <2> QED
    BY <1>0, <1>1, <2>1, <2>2, <2>3, ReturnKeepsCalm DEF CalmOf
<1>2. CASE host # "api"
  <2>1. node'[n] = [node[n] EXCEPT !.pc = "servers", !.seen = agent] /\ UNCHANGED <<resolver, known>>
    BY <1>2, ListAgentsMoves DEF ListAgents, cache
  <2>2. /\ node'[n].pc = "servers" /\ node'[n].had = node[n].had /\ node'[n].old = node[n].old
        /\ node'[n].seen = agent
        /\ node'[n].ret = node[n].ret /\ node'[n].second = node[n].second
        /\ node'[n].got = node[n].got /\ node'[n].given = node[n].given
    BY <1>0, <2>1 DEF Local
  <2>3. CalmReads(n)'
    BY <1>0, <2>1, <2>2 DEF CalmOf, CalmReads, Past
  <2>4. CalmLoads(n)'
    BY <1>0, <2>2 DEF CalmOf, CalmLoads
  <2>5. CalmGets(n)'
    BY <1>0, <2>2, GetsKept DEF CalmOf
  <2> QED
    BY <2>3, <2>4, <2>5
<1> QED
  BY <1>1, <1>2

\* For its clients a node does not find other tables than for its resolver.
LEMMA ListServersKeepsCalm ==
    ASSUME ConfigTypes, HostInv, TimeInv, ReadInv, NEW n \in Node, CalmOf(n), ListServers(n), node'[n].calm, Busy(n)'
    PROVE  CalmReads(n)' /\ CalmLoads(n)' /\ CalmGets(n)'
<1>0. /\ node[n] \in Local /\ node[n].pc = "servers" /\ host = "worker"
      /\ UNCHANGED <<host, servers, agent, loaded, clients, spoiled>>
  BY ServerAssumption DEF ListServers, Resumes, tables, ConfigTypes, HostInv
<1>1. node[n].seen = agent /\ node[n].had = known /\ node[n].old = resolver
  BY <1>0 DEF CalmOf, CalmReads
<1>2. behind' = FALSE /\ known' = TRUE /\ resolver' = agent
  BY <1>0, <1>1, ListServersReads
<1>3. CASE Matches(n)
  <2>1. Return(n, agent, ~behind' /\ ~spoiled) /\ agent \in AgentRow
    BY <1>0, <1>1, <1>2, <1>3, ListServersMoves, ListServersReads DEF ConfigTypes
  <2>2. ~spoiled
    <3>1. CASE node[n].ret = "pick"
      BY <3>1 DEF CalmOf, CalmReads, Past
    <3>2. CASE node[n].ret # "pick"
      <4>1. (~behind' /\ ~spoiled) \in BOOLEAN
        OBVIOUS
      <4> QED
        BY <2>1, <3>2, <4>1, Returned
    <3> QED
      BY <3>1, <3>2
  <2>3. node[n].ret = "pick" => loaded'
    BY <1>0 DEF CalmOf, CalmLoads
  <2>4. (~behind' /\ ~spoiled) \in BOOLEAN
    OBVIOUS
  <2> QED
    BY <1>0, <1>2, <2>1, <2>2, <2>3, <2>4, ReturnKeepsCalm DEF CalmOf
<1>4. CASE ~Matches(n)
  <2>1. node'[n] = [node[n] EXCEPT !.pc = "revalidate", !.seen = NoAgent, !.had = FALSE, !.old = NoAgent]
    BY <1>4, ListServersMoves
  <2>2. /\ node'[n].pc = "revalidate"
        /\ node'[n].ret = node[n].ret /\ node'[n].second = node[n].second
        /\ node'[n].got = node[n].got /\ node'[n].given = node[n].given
    BY <1>0, <2>1 DEF Local
  <2>3. node[n].ret = "ensure"
    <3>1. ASSUME node[n].ret = "pick" PROVE FALSE
      <4>1. known /\ ~behind
        BY <1>0, <3>1 DEF CalmOf, CalmReads, Past
      <4>2. read = <<servers, agent>>
        BY <1>0, <4>1 DEF ReadInv
      <4>3. print = <<IF read[2].at = 0 THEN 0 ELSE 1, read[2].at, Count(read[1]), Newest(read[1])>>
        BY <1>0, <4>1 DEF ReadInv
      <4>4. print = Signature(agent)
        BY <4>2, <4>3 DEF Signature, Count, Newest
      <4> QED
        BY <1>1, <1>4, <4>1, <4>4 DEF Matches
    <3> QED
      BY <1>0, <3>1 DEF Local
  <2>4. CalmReads(n)'
    BY <1>2, <2>2, <2>3 DEF CalmReads, Past
  <2>5. CalmLoads(n)'
    BY <1>0, <2>2, <2>3 DEF CalmOf, CalmLoads
  <2>6. CalmGets(n)'
    BY <1>0, <2>2, GetsKept DEF CalmOf
  <2> QED
    BY <2>4, <2>5, <2>6
<1> QED
  BY <1>3, <1>4

LEMMA EvictionKeepsCalm ==
    ASSUME ConfigTypes, HostInv, ReadInv, NEW n \in Node, CalmOf(n), node'[n].calm, Busy(n)',
           Revalidate(n) \/ Evict(n) \/ Closed(n) \/ Evicted(n)
    PROVE  CalmReads(n)' /\ CalmLoads(n)' /\ CalmGets(n)'
<1>0. /\ node[n] \in Local /\ node[n].pc \in {"revalidate", "evict", "close"}
      /\ UNCHANGED <<host, servers, agent, resolver, known, handler, behind>>
  BY DEF Revalidate, Evict, Closed, Evicted, Resumes, tables, cache, ConfigTypes
<1>1. ~behind /\ known /\ node[n].ret = "ensure" /\ ~node[n].second /\ handler.pc = "idle"
  BY <1>0 DEF CalmOf, CalmReads, CalmLoads, CalmAlone
<1>2. CASE ~Evicted(n)
  <2>1. \/ node'[n] = [node[n] EXCEPT !.pc = "evict", !.list = Enabled, !.todo = Cached]
        \/ node'[n] = [node[n] EXCEPT !.pc = "evict"]
        \/ \E s : node'[n] = [node[n] EXCEPT !.todo = @ \ {s}, !.pc = IF clients[s].up THEN "close" ELSE "evict"]
    <3>1. CASE Evict(n)
      BY <3>1, EvictMoves
    <3>2. CASE Revalidate(n)
      BY <3>2, ListMoves, Zenon
    <3>3. CASE Closed(n)
      BY <3>3, PlainMoves, Zenon
    <3> QED
      BY <1>2, <3>1, <3>2, <3>3, Zenon
  <2>2. /\ node'[n].pc \in {"evict", "close"}
        /\ node'[n].ret = node[n].ret /\ node'[n].second = node[n].second
        /\ node'[n].got = node[n].got /\ node'[n].given = node[n].given
    BY <1>0, <2>1 DEF Local
  <2>3. CalmReads(n)'
    BY <1>0, <1>1, <2>2 DEF CalmReads, Past
  <2>4. CalmLoads(n)'
    BY <1>1, <2>2 DEF CalmLoads
  <2>5. CalmGets(n)'
    BY <1>0, <1>1, <2>2, GetsKept DEF CalmOf
  <2> QED
    BY <2>3, <2>4, <2>5
<1>3. CASE Evicted(n)
  <2>0. host = "worker"
    BY <1>0, ServerAssumption DEF HostInv, ConfigTypes
  <2>1. Return(n, resolver, ~behind /\ ~spoiled') /\ clients' = clients /\ node[n].pc = "evict"
    BY <1>3 DEF Evicted
  <2>2. resolver = agent /\ agent \in AgentRow
    BY <1>1, <2>0, KnownAgent DEF ConfigTypes
  <2>3. (~behind /\ ~spoiled') \in BOOLEAN
    OBVIOUS
  <2>4. ~spoiled'
    BY <1>1, <2>1, <2>2, <2>3, Returned
  <2> QED
    BY <1>0, <1>1, <2>1, <2>2, <2>3, <2>4, ReturnKeepsCalm DEF CalmOf
<1> QED
  BY <1>2, <1>3

LEMMA LoadKeepsCalm ==
    ASSUME ConfigTypes, NEW n \in Node, CalmOf(n), node'[n].calm, Busy(n)',
           EnsureLoaded(n) \/ ListEnabled(n) \/ LoadRow(n) \/ Loaded(n) \/ Connected(n)
    PROVE  CalmReads(n)' /\ CalmLoads(n)' /\ CalmGets(n)'
<1>0. /\ node[n] \in Local /\ node[n].pc \in {"ensure", "list", "load", "connect"}
      /\ UNCHANGED <<host, agent, known, behind, spoiled>> /\ (EnsureLoaded(n) => node[n].pc = "ensure")
  <2>1. EnsureLoaded(n) => /\ node[n].pc = "ensure"
                           /\ UNCHANGED <<host, agent, known, behind, spoiled>>
    BY DEF EnsureLoaded, tables, cache
  <2>2. LoadRow(n) => node[n].pc = "load" /\ UNCHANGED <<host, agent, known, behind, spoiled>>
    BY Zenon DEF LoadRow, tables, cache
  <2>3. ListEnabled(n) \/ Loaded(n) => node[n].pc \in {"list", "load"} /\ UNCHANGED <<host, agent, known, behind, spoiled>>
    BY DEF ListEnabled, Loaded, Resumes, tables, cache
  <2>4. Connected(n) => node[n].pc = "connect" /\ UNCHANGED <<host, agent, known, behind, spoiled>>
    BY DEF Connected, Resumes, tables, cache
  <2>5. ~EnsureLoaded(n) \/ node[n].pc = "ensure"
    BY DEF EnsureLoaded
  <2> QED
    BY <2>1, <2>2, <2>3, <2>4, <2>5 DEF ConfigTypes
<1>1. /\ agent.on /\ ~spoiled /\ (host = "worker" => known /\ ~behind)
      /\ node[n].second => node[n].ret = "pick"
      /\ node[n].ret = "pick" => loaded /\ node[n].pc = "ensure"
      /\ node[n].pc # "ensure" => loaded
  BY <1>0 DEF CalmOf, CalmReads, CalmLoads, Past
<1>2. ASSUME EnsureLoaded(n)
      PROVE  /\ node'[n].second = node[n].second /\ node'[n].got = node[n].got /\ node'[n].given = node[n].given
             /\ loaded' /\ clients' = clients
             /\ \/ node'[n].pc = "check" /\ node'[n].ret = "pick"
                \/ node'[n].pc = "list" /\ node'[n].ret = node[n].ret /\ node'[n].ret # "pick"
  <2>1. \/ loaded /\ node'[n] = [node[n] EXCEPT !.pc = "check", !.ret = "pick"]
        \/ ~loaded /\ node'[n] = [node[n] EXCEPT !.pc = "list"]
    BY <1>2, PlainMoves, Zenon
  <2>2. loaded' = TRUE /\ clients' = clients
    BY <1>2 DEF EnsureLoaded
  <2> QED
    BY <1>0, <1>1, <2>1, <2>2 DEF Local
<1>3. ASSUME ~EnsureLoaded(n)
      PROVE  /\ node'[n].second = node[n].second /\ node'[n].got = node[n].got /\ node'[n].given = node[n].given
             /\ node[n].pc # "ensure" /\ loaded' = loaded
             /\ \/ node'[n].pc = "check" /\ node'[n].ret = "pick"
                \/ node'[n].pc \in {"load", "connect"} /\ node'[n].ret = node[n].ret
  <2>1. /\ loaded' = loaded
        /\ \/ node'[n] = [node[n] EXCEPT !.pc = "load", !.list = Enabled, !.todo = In(Enabled)]
           \/ \E s : \/ node'[n] = [node[n] EXCEPT !.todo = @ \ {s}, !.pc = "connect", !.conn = {s}]
                     \/ node'[n] = [node[n] EXCEPT !.todo = @ \ {s}] /\ node[n].pc = "load"
           \/ node'[n] = [node[n] EXCEPT !.pc = "check", !.ret = "pick", !.list = Nothing]
           \/ node'[n] = [node[n] EXCEPT !.pc = "load", !.conn = {}]
    <3>1. CASE ListEnabled(n)
      BY <3>1, ListMoves DEF ListEnabled
    <3>2. CASE LoadRow(n)
      BY <3>2, LoadRowMoves, Zenon DEF LoadRow
    <3>3. CASE Loaded(n)
      BY <3>3, PlainMoves DEF Loaded
    <3>4. CASE Connected(n)
      BY <3>4, ConnectMoves DEF Connected
    <3> QED
      BY <1>3, <3>1, <3>2, <3>3, <3>4, Zenon
  <2>2. node[n].pc # "ensure"
    BY <1>3, Zenon DEF ListEnabled, LoadRow, Loaded, Connected, Resumes
  <2> QED
    BY <1>0, <2>1, <2>2, Zenon DEF Local
<1>4. node'[n].pc \in {"check", "list", "load", "connect"}
  BY <1>2, <1>3
<1>5. CalmReads(n)'
  BY <1>0, <1>1, <1>4 DEF CalmReads
<1>6. CalmLoads(n)'
  BY <1>1, <1>2, <1>3 DEF CalmLoads
<1>7. CalmGets(n)'
  <2>1. ~node[n].second \/ clients' = clients
    BY <1>1, <1>2, <1>3
  <2> QED
    BY <1>0, <1>2, <1>3, <1>4, <2>1, GetsKept DEF CalmOf
<1> QED
  BY <1>5, <1>6, <1>7

\* The clients are collected one by one; a lost session of one of them is made first.
LEMMA PickKeepsCalm ==
    ASSUME ConfigTypes, NEW n \in Node, CalmOf(n), node'[n].calm, Busy(n)',
           Pick(n) \/ Reconnected(n) \/ Again(n)
    PROVE  CalmReads(n)' /\ CalmLoads(n)' /\ CalmGets(n)'
<1>0. /\ node[n] \in Local /\ node[n].pc \in {"pick", "reconnect"}
      /\ UNCHANGED <<host, agent, known, loaded, behind, spoiled>>
  <2>1. Pick(n) => node[n].pc = "pick" /\ UNCHANGED <<host, agent, known, loaded, behind, spoiled>>
    BY DEF Pick, tables, cache
  <2>2. Reconnected(n) => node[n].pc = "reconnect" /\ UNCHANGED <<host, agent, known, loaded, behind, spoiled>>
    BY DEF Reconnected, Resumes, tables, cache
  <2>3. Again(n) => node[n].pc = "pick" /\ UNCHANGED <<host, agent, known, loaded, behind, spoiled>>
    BY DEF Again, tables, cache
  <2> QED
    BY <2>1, <2>2, <2>3 DEF ConfigTypes
<1>1. /\ node[n].ret = "pick" /\ loaded
      /\ agent.on /\ ~spoiled /\ (host = "worker" => known /\ ~behind)
  BY <1>0 DEF CalmOf, CalmReads, CalmLoads, Past
<1>2. /\ node[n].todo \subseteq Chosen
      /\ \A s \in Server : node[n].got[s] = IF s \in Chosen \ node[n].todo THEN clients[s].at ELSE 0
      /\ \A s \in Chosen \ node[n].todo : Usable(s)
      /\ node[n].second => /\ \A s \in Server : node[n].given[s] = IF s \in Chosen THEN clients[s].at ELSE 0
                           /\ \A s \in Chosen : Usable(s)
      /\ Chosen \subseteq Server
  BY <1>0 DEF CalmOf, CalmGets, Chosen, Cached
<1>3. ASSUME node'[n].pc \in {"pick", "reconnect", "ensure"}, node'[n].ret = "pick"
      PROVE  CalmReads(n)' /\ CalmLoads(n)'
  BY <1>0, <1>1, <1>3 DEF CalmReads, CalmLoads
<1>4. CASE Pick(n)
  <2>0. clients' = clients /\ Chosen' = Chosen /\ \A s : Usable(s)' <=> Usable(s)
    BY <1>0, <1>4 DEF Pick, Chosen, Cached, Usable
  <2>1. PICK s \in node[n].todo :
           node'[n] = IF s \in Cached /\ ~Usable(s)
                      THEN [node[n] EXCEPT !.pc = "reconnect", !.conn = {s}]
                      ELSE [node[n] EXCEPT !.todo = @ \ {s}, !.got = [node[n].got EXCEPT ![s] = clients[s].at]]
    BY <1>4, PickMoves, Zenon
  <2>2. s \in Chosen /\ s \in Cached /\ s \in Server /\ node[n].pc = "pick" /\ node[n].got \in [Server -> Nat]
    BY <1>0, <1>2, <1>4 DEF Chosen, Pick, Local, Times
  <2>3. CASE ~Usable(s)
    <3>1. /\ node'[n].pc = "reconnect" /\ node'[n].ret = node[n].ret /\ node'[n].second = node[n].second
          /\ node'[n].todo = node[n].todo /\ node'[n].got = node[n].got /\ node'[n].given = node[n].given
      BY <1>0, <2>1, <2>2, <2>3 DEF Local
    <3>2. CalmGets(n)'
      BY <1>2, <2>0, <3>1 DEF CalmGets
    <3> QED
      BY <1>1, <1>3, <3>1, <3>2
  <2>4. CASE Usable(s)
    <3>1. /\ node'[n].pc = "pick" /\ node'[n].ret = node[n].ret /\ node'[n].second = node[n].second
          /\ node'[n].todo = node[n].todo \ {s} /\ node'[n].given = node[n].given
          /\ node'[n].got = [node[n].got EXCEPT ![s] = clients[s].at]
      BY <1>0, <2>1, <2>2, <2>4 DEF Local
    <3>2. \A t \in Server : node'[n].got[t] = IF t \in Chosen \ node'[n].todo THEN clients[t].at ELSE 0
      BY <1>2, <2>2, <3>1
    <3>3. \A t \in Chosen \ node'[n].todo : Usable(t)
      BY <1>2, <2>4, <3>1
    <3>4. CalmGets(n)'
      BY <1>2, <2>0, <3>1, <3>2, <3>3 DEF CalmGets
    <3> QED
      BY <1>1, <1>3, <3>1, <3>4
  <2> QED
    BY <2>3, <2>4
<1>5. CASE Reconnected(n)
  <2>1. node'[n] = [node[n] EXCEPT !.pc = "pick", !.conn = {}]
    <3>1. ~Connected(n)
      BY <1>5 DEF Connected, Reconnected, Resumes
    <3> QED
      BY <1>5, <3>1, ConnectMoves
  <2>2. \A s \in Server : clients'[s].at = clients[s].at /\ (clients[s].up => clients'[s].up)
    BY <1>5, ConnectMoves
  <2>3. Chosen' = Chosen /\ \A s \in Server : Usable(s) => Usable(s)'
    BY <1>0, <2>2 DEF Chosen, Cached, Usable
  <2>4. /\ node'[n].pc = "pick" /\ node'[n].ret = node[n].ret /\ node'[n].second = node[n].second
        /\ node'[n].todo = node[n].todo /\ node'[n].got = node[n].got /\ node'[n].given = node[n].given
    BY <1>0, <2>1 DEF Local
  <2>5. CalmGets(n)'
    BY <1>2, <2>2, <2>3, <2>4 DEF CalmGets
  <2> QED
    BY <1>1, <1>3, <2>4, <2>5
<1>6. CASE Again(n)
  <2>0. clients' = clients /\ Chosen' = Chosen /\ (\A s : Usable(s)' <=> Usable(s)) /\ node[n].todo = {}
    BY <1>0, <1>6 DEF Again, Chosen, Cached, Usable
  <2>1. node'[n] = [node[n] EXCEPT !.pc = "ensure", !.second = TRUE, !.given = node[n].got, !.got = Nothing]
    BY <1>6, PlainMoves, Zenon
  <2>2. /\ node'[n].pc = "ensure" /\ node'[n].ret = node[n].ret /\ node'[n].got = Nothing
        /\ node'[n].given = node[n].got
    BY <1>0, <2>1 DEF Local
  <2>3. CalmGets(n)'
    BY <1>2, <2>0, <2>2 DEF CalmGets
  <2> QED
    BY <1>1, <1>3, <2>2, <2>3
<1> QED
  BY <1>4, <1>5, <1>6

\* A step does not calm a node that was disturbed.
LEMMA CalmBefore ==
    ASSUME ConfigTypes, NEW n \in Node, NodeStep(n), ~Start(n), node'[n].calm, Busy(n)'
    PROVE  node[n].calm /\ Busy(n) /\ ~FailRead(n) /\ ~FailServer(n) /\ ~Done(n)
<1>1. ~FailRead(n) /\ ~FailServer(n) /\ ~Done(n)
  <2>1. ~Idle.calm /\ Idle.pc = "idle"
    BY DEF Idle
  <2> QED
    BY <2>1, FailMoves, PlainMoves, Zenon DEF Busy
<1>2. Busy(n)
  BY <1>1, PointOf DEF Busy, NodeStep
<1> QED
  BY <1>1, <1>2, Self DEF Became

LEMMA StartIsCalm ==
    ASSUME ConfigTypes, NEW n \in Node, Start(n), node'[n].calm
    PROVE  CalmOf(n)'
<1>0. /\ handler' = handler
      /\ node'[n] = [Idle EXCEPT !.pc = "check", !.calm = (handler.pc = "idle" /\ \A m \in Node : ~Busy(m))]
      /\ \A m \in Node : m # n => node'[m] = Upset(node)[m]
  BY StartMoves, Zenon DEF Start
<1>1. /\ node'[n].pc = "check" /\ node'[n].ret = "ensure" /\ ~node'[n].second /\ node'[n].got = Nothing
      /\ handler.pc = "idle" /\ \A m \in Node : ~Busy(m)
  <2> DEFINE free == handler.pc = "idle" /\ \A m \in Node : ~Busy(m)
  <2>1. free \in BOOLEAN
    OBVIOUS
  <2>2. node'[n] = [Idle EXCEPT !.pc = "check", !.calm = free]
    BY <1>0
  <2> HIDE DEF free
  <2>3. node'[n].calm = free
    BY <2>1, <2>2, RowTypes DEF Local
  <2>4. node'[n].pc = "check" /\ node'[n].ret = "ensure" /\ ~node'[n].second /\ node'[n].got = Nothing
    BY <2>2 DEF Idle
  <2> QED
    BY <2>3, <2>4 DEF free
<1>2. CalmAlone(n)'
  BY <1>0, <1>1, DisturbedFields DEF CalmAlone, Busy
<1> QED
  BY <1>1, <1>2 DEF CalmOf, CalmReads, CalmLoads, CalmGets, Past

LEMMA CalmNext ==
    ASSUME ConfigTypes, HostInv, TimeInv, ReadInv, CalmInv, [ConfigNext]_configVars
    PROVE  CalmInv'
<1> SUFFICES ASSUME NEW m \in Node, node'[m].calm, Busy(m)'
             PROVE  CalmOf(m)'
  BY DEF CalmInv, CalmOf
<1>1. node[m].calm /\ Busy(m) => CalmOf(m)
  BY DEF CalmInv, CalmOf
<1>2. CASE NodeStep(m)
  <2>1. CASE Start(m)
    BY <2>1, StartIsCalm
  <2>2. CASE ~Start(m)
    <3>1. CalmOf(m) /\ ~FailRead(m) /\ ~FailServer(m) /\ ~Done(m)
      BY <1>1, <1>2, <2>2, CalmBefore
    <3>2. CalmReads(m)' /\ CalmLoads(m)' /\ CalmGets(m)'
      BY <1>2, <2>2, <3>1, CheckKeepsCalm, ListAgentsKeepsCalm, ListServersKeepsCalm, EvictionKeepsCalm,
         LoadKeepsCalm, PickKeepsCalm DEF NodeStep
    <3>3. CalmAlone(m)'
      BY <1>2, <2>2, <3>1, StaysAlone DEF CalmOf
    <3> QED
      BY <3>2, <3>3 DEF CalmOf
  <2> QED
    BY <2>1, <2>2
<1>3. ASSUME NEW n \in Node, NodeStep(n), n # m
      PROVE  FALSE
  <2>1. ~Start(n)
    BY <1>3, Others DEF Busy
  <2>2. node'[m] = node[m]
    BY <1>3, <2>1, Others
  <2>3. CalmOf(m)
    BY <1>1, <2>2 DEF Busy
  <2>4. ~Busy(n)
    BY <1>3, <2>3 DEF CalmOf, CalmAlone
  <2> QED
    BY <1>3, <2>1, <2>4, PointOf DEF NodeStep, Busy
<1>4. CASE node' = Upset(node)
  BY <1>4, DisturbedFields DEF Busy
<1>5. CASE (\E h : Edit(h)) \/ (\E s \in Server : LoseSession(s))
  BY <1>4, <1>5, EditFrame DEF LoseSession
<1>6. ASSUME UNCHANGED <<host, servers, agent, resolver, known, loaded, clients, node, handler, behind, spoiled>>
      PROVE  CalmOf(m)'
  BY <1>1, <1>6 DEF CalmOf, CalmAlone, CalmReads, CalmLoads, CalmGets, Past, Busy, Chosen, Cached, Usable
<1>7. CASE Reload \/ RefreshEvict \/ RefreshBuild \/ RefreshConnected \/ Tick
  <2>1. node' = node /\ CalmOf(m)
    BY <1>1, <1>7, ProcessFrame DEF Busy
  <2>2. handler.pc = "idle"
    BY <2>1 DEF CalmOf, CalmAlone
  <2> QED
    BY <1>6, <1>7, <2>2, ProcessFrame
<1>8. CASE UNCHANGED configVars
  BY <1>6, <1>8 DEF configVars, tables, cache
<1> QED
  BY <1>2, <1>3, <1>5, <1>7, <1>8 DEF ConfigNext, SaveServer, DeleteServer, SaveAgent

-----------------------------------------------------------------------------
(* The invariant, and what follows from it *)

LEMMA ConfigInvInit == ConfigInit => ConfigInv
<1> SUFFICES ASSUME ConfigInit PROVE ConfigInv
  OBVIOUS
<1>0. ConfigTypes
  BY ConfigTypesInit
<1>1. /\ handler = Quiet /\ edits = 0 /\ behind = FALSE /\ known = FALSE /\ loaded = FALSE
      /\ read = <<servers, agent>> /\ node = [n \in Node |-> Idle] /\ clients = [s \in Server |-> NoClient]
      /\ agent.at = 1
  BY DEF ConfigInit
<1>2. \A n \in Node : node[n].pc = "idle" /\ ~node[n].had
  BY <1>1 DEF Idle
<1>3. HostInv
  BY <1>1, <1>2 DEF HostInv, Quiet
<1>4. TimeInv
  <2>1. Seeded \in Nat /\ Seeded > 0
    BY ServerAssumption, FS_CardinalityType, FS_EmptySet DEF Seeded
  <2>2. Now = Seeded + 1
    BY <1>1, <2>1 DEF Now
  <2> DEFINE t == CHOOSE f \in [Server -> 1 .. Seeded] : IsInjective(f)
  <2>3. t \in [Server -> 1 .. Seeded]
    BY SeededRows
  <2>4. servers = [s \in Server |-> [at |-> t[s], on |-> TRUE]]
    BY DEF ConfigInit
  <2> HIDE DEF t
  <2>5. \A s \in Server : servers[s].at \in 1 .. Seeded
    BY <2>3, <2>4
  <2>6. Versions = {agent}
    BY <1>1, <1>2 DEF Versions
  <2> QED
    BY <1>1, <2>1, <2>2, <2>5, <2>6 DEF TimeInv
<1>5. ReadInv
  BY <1>1, <1>2 DEF ReadInv
<1>6. CacheInv
  <2>1. Cached = {}
    BY <1>1 DEF Cached, NoClient
  <2> QED
    BY <1>1, <1>2, <2>1 DEF CacheInv, InOrder, Loading
<1>7. CalmInv
  BY <1>2 DEF CalmInv, Busy
<1> QED
  BY <1>0, <1>3, <1>4, <1>5, <1>6, <1>7 DEF ConfigInv

LEMMA ConfigInvNext == ConfigInv /\ [ConfigNext]_configVars => ConfigInv'
  BY ConfigTypesNext, HostNext, TimeNext, ReadNext, CacheNext, CalmNext DEF ConfigInv

\* What a process has read, and the clients it has, are what the tables say, as far as it can
\* know: of the coroutines of nodes, of the caches of config_sync.py and mcp_manager.py, and
\* of the requests that change the tables.
THEOREM ConfigInvariance == ConfigSpec => []ConfigInv
<1>1. ConfigInit => ConfigInv
  BY ConfigInvInit
<1>2. ConfigInv /\ [ConfigNext]_configVars => ConfigInv'
  BY ConfigInvNext
<1> QED
  BY <1>1, <1>2, PTL DEF ConfigSpec

\* A calm node that is done was given the clients of the servers its agent is bound to.
LEMMA DoneGotAll ==
    ASSUME ConfigInv, NEW n \in Node, Done(n), node[n].calm, ~recurred
    PROVE  agent.on /\ Offered(n) = Bound
<1>0. node[n].pc = "pick" /\ node[n].todo = {} /\ node[n].second
  BY DEF Done
<1>1. CalmOf(n) /\ ConfigTypes
  BY <1>0 DEF ConfigInv, CalmInv, CalmOf, Busy
<1>2. /\ node[n].ret = "pick" /\ loaded /\ agent.on /\ ~spoiled /\ (host = "worker" => known /\ ~behind)
  BY <1>0, <1>1 DEF CalmOf, CalmLoads, CalmReads, Past
<1>3. handler.pc = "idle" /\ \A m \in Node : m # n => node[m].pc \in {"idle", "off"}
  BY <1>1 DEF CalmOf, CalmAlone, Busy
<1>4. InOrder
  <2>1. ~Revalidating
    BY <1>0, <1>3 DEF Revalidating
  <2> QED
    BY <1>2, <2>1 DEF ConfigInv, CacheInv, Clean
<1>5. \A s \in Cached : clients[s].at = Enabled[s]
  BY <1>3, <1>4 DEF InOrder, Refreshing
<1>6. \A s \in Server : Enabled[s] # 0 => s \in Cached
  <2>1. \A s : ~Owed(s)
    BY <1>0, <1>3 DEF Owed, Loading
  <2> QED
    BY <1>2, <1>4, <2>1 DEF InOrder, In
<1>7. /\ \A s \in Server : /\ node[n].got[s] = IF s \in Chosen THEN clients[s].at ELSE 0
                           /\ node[n].given[s] = IF s \in Chosen THEN clients[s].at ELSE 0
      /\ \A s \in Chosen : Usable(s)
  BY <1>0, <1>1 DEF CalmOf, CalmGets
<1>8. ASSUME NEW s \in Server
      PROVE  Offered(n)[s] = Bound[s]
  <2>1. CASE s \in Chosen
    <3>1. /\ node[n].got[s] = clients[s].at /\ node[n].given[s] = clients[s].at /\ s \in agent.ids
          /\ clients[s].at # 0 /\ clients[s].at = Enabled[s] /\ (s \in Stateful => clients[s].up)
      BY <1>5, <1>7, <2>1 DEF Chosen, Cached, Usable
    <3> QED
      BY <3>1 DEF Offered, Bound
  <2>2. CASE s \notin Chosen
    <3>1. node[n].got[s] = 0 /\ (s \in agent.ids => Enabled[s] = 0)
      BY <1>6, <1>7, <2>2 DEF Chosen
    <3> QED
      BY <3>1 DEF Offered, Bound
  <2> QED
    BY <2>1, <2>2
<1>9. Offered(n) = Bound
  BY <1>8 DEF Offered, Bound
<1> QED
  BY <1>2, <1>9

\* Only a resolver that is returned turns a node off.
LEMMA OffBy ==
    ASSUME ConfigTypes, NEW n \in Node, NodeStep(n), node'[n].pc = "off"
    PROVE  \/ Check(n) /\ known /\ ~due
           \/ ListAgents(n) /\ host = "api"
           \/ ListServers(n) /\ Matches(n)
           \/ Evicted(n)
<1>0. node[n] \in Local
  BY DEF ConfigTypes
<1>1. Check(n) \/ ListAgents(n) \/ ListServers(n) \/ Evicted(n)
  BY Self DEF Became
<1>2. CASE Check(n) /\ ~(known /\ ~due)
  <2>1. node'[n] = [node[n] EXCEPT !.pc = "agents", !.had = known, !.old = resolver]
    BY <1>2, CheckMoves
  <2> QED
    BY <1>0, <2>1 DEF Local
<1>3. CASE ListAgents(n) /\ host # "api"
  <2>1. node'[n] = [node[n] EXCEPT !.pc = "servers", !.seen = agent]
    BY <1>3, ListAgentsMoves
  <2> QED
    BY <1>0, <2>1 DEF Local
<1>4. CASE ListServers(n) /\ ~Matches(n)
  <2>1. node'[n] = [node[n] EXCEPT !.pc = "revalidate", !.seen = NoAgent, !.had = FALSE, !.old = NoAgent]
    BY <1>4, ListServersMoves
  <2> QED
    BY <1>0, <2>1 DEF Local
<1> QED
  BY <1>1, <1>2, <1>3, <1>4

\* A calm node is turned off by the row that the agent has now.
LEMMA OffIsDisabled ==
    ASSUME ConfigInv, NEW n \in Node, NodeStep(n), node'[n].pc = "off", node'[n].calm
    PROVE  ~agent.on
<1>0. ConfigTypes /\ HostInv /\ TimeInv /\ ReadInv /\ node[n] \in Local
  BY DEF ConfigInv, ConfigTypes
<1>1. ASSUME NEW r \in AgentRow, NEW clean \in BOOLEAN, Return(n, r, clean)
      PROVE  ~r.on /\ node[n].calm /\ clean
  <2>1. node[n].ret # "pick"
    BY <1>0, <1>1, Returned
  <2> QED
    BY <1>0, <1>1, <2>1, Returned
<1>2. node[n].pc \in {"check", "agents", "servers", "evict"}
  BY <1>0, OffBy, PointOf
<1>3. node[n].calm => CalmOf(n) /\ handler.pc = "idle"
  BY <1>2 DEF ConfigInv, CalmInv, CalmOf, CalmAlone, Busy
<1>4. CASE Check(n) /\ known /\ ~due
  <2>1. Return(n, resolver, ~behind /\ ~spoiled) /\ resolver \in AgentRow /\ (~behind /\ ~spoiled) \in BOOLEAN
    BY <1>0, <1>4 DEF Check, ConfigTypes
  <2>2. ~resolver.on /\ node[n].calm /\ ~behind
    BY <1>1, <2>1
  <2>3. resolver = agent
    BY <1>0, <1>3, <1>4, <2>2, KnownAgent
  <2> QED
    BY <2>2, <2>3
<1>5. CASE ListAgents(n) /\ host = "api"
  <2>1. Return(n, agent, ~spoiled) /\ agent \in AgentRow /\ (~spoiled) \in BOOLEAN
    BY <1>0, <1>5 DEF ListAgents, ConfigTypes
  <2> QED
    BY <1>1, <2>1
<1>6. CASE ListServers(n) /\ Matches(n)
  <2>1. Return(n, node[n].old, ~behind' /\ ~spoiled) /\ node[n].old \in AgentRow /\ (~behind' /\ ~spoiled) \in BOOLEAN
    BY <1>0, <1>6, ListServersMoves DEF Local
  <2>2. ~node[n].old.on /\ node[n].calm
    BY <1>1, <2>1
  <2>3. node[n].pc = "servers" /\ host = "worker"
    BY <1>0, <1>6, PointOf, ServerAssumption DEF HostInv, ConfigTypes
  <2>4. node[n].old = resolver /\ node[n].seen = agent
    BY <1>3, <2>2, <2>3 DEF CalmOf, CalmReads
  <2>5. resolver = agent
    BY <1>0, <1>6, <2>3, <2>4, ListServersReads
  <2> QED
    BY <2>2, <2>4, <2>5
<1>7. CASE Evicted(n)
  <2>1. Return(n, resolver, ~behind /\ ~spoiled') /\ resolver \in AgentRow /\ (~behind /\ ~spoiled') \in BOOLEAN
    BY <1>0, <1>7 DEF Evicted, ConfigTypes
  <2>2. ~resolver.on /\ node[n].calm
    BY <1>1, <2>1
  <2>3. node[n].pc = "evict" /\ host = "worker"
    BY <1>0, <1>7, PointOf, ServerAssumption DEF HostInv, ConfigTypes
  <2>4. known /\ ~behind
    BY <1>3, <2>2, <2>3 DEF CalmOf, CalmReads
  <2>5. resolver = agent
    BY <1>0, <1>3, <2>2, <2>3, <2>4, KnownAgent
  <2> QED
    BY <2>2, <2>5
<1> QED
  BY <1>0, <1>4, <1>5, <1>6, <1>7, OffBy

\* What AgentsGetTheirServers says of one step.
StepGives ==
    \A n \in Node : node'[n].pc # node[n].pc =>
         /\ Done(n) /\ node[n].calm /\ ~recurred => agent.on /\ Offered(n) = Bound
         /\ node'[n].pc = "off" /\ node'[n].calm => ~agent.on

LEMMA GivesNext == ConfigInv /\ [ConfigNext]_configVars => StepGives
<1> SUFFICES ASSUME ConfigInv, [ConfigNext]_configVars, NEW n \in Node, node'[n].pc # node[n].pc
             PROVE  /\ Done(n) /\ node[n].calm /\ ~recurred => agent.on /\ Offered(n) = Bound
                    /\ node'[n].pc = "off" /\ node'[n].calm => ~agent.on
  BY DEF StepGives
<1>0. ConfigTypes
  BY DEF ConfigInv
<1>1. NodeStep(n)
  <2>1. ASSUME NEW m \in Node, NodeStep(m), m # n
        PROVE  FALSE
    BY <1>0, <2>1, Others
  <2>2. node' # Upset(node)
    BY <1>0, DisturbedFields
  <2>3. ~(\E h : Edit(h)) /\ ~(\E s \in Server : LoseSession(s))
    BY <2>2, EditFrame DEF LoseSession
  <2>4. node' # node
    OBVIOUS
  <2>5. ~(Reload \/ RefreshEvict \/ RefreshBuild \/ RefreshConnected \/ Tick)
    BY <1>0, <2>4, ProcessFrame
  <2>6. ~UNCHANGED configVars
    BY <2>4 DEF configVars
  <2> QED
    BY <2>1, <2>3, <2>5, <2>6 DEF ConfigNext, SaveServer, DeleteServer, SaveAgent
<1> QED
  BY <1>1, DoneGotAll, OffIsDisabled

\* A node that nothing disturbed works with the servers that are bound to its agent and enabled,
\* each as it is configured now, or does not work at all when its agent is disabled: for any
\* servers, nodes, changes and failures, with the fingerprint and the eviction of
\* config_sync.py and mcp_manager.py in a Worker, and the generation of app.py in the API.
THEOREM EachGetsItsServers == ConfigSpec => AgentsGetTheirServers
<1>1. ConfigSpec => []ConfigInv
  BY ConfigInvariance
<1>2. ConfigInv /\ [ConfigNext]_configVars => StepGives
  BY GivesNext
<1>3. [][StepGives]_configVars => AgentsGetTheirServers
  BY PTL DEF AgentsGetTheirServers, StepGives
<1> QED
  BY <1>1, <1>2, <1>3, PTL DEF ConfigSpec
==============================================================================
