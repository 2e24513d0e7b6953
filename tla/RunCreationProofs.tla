--------------------------- MODULE RunCreationProofs --------------------------
(***************************************************************************)
(* What RunCreation says of tickets, runs and the quota, proved for any    *)
(* number of requests, processes and sources, and any quota.               *)
(***************************************************************************)
EXTENDS RunCreation, FiniteSetTheorems, TLAPS

PC == {"new", "look", "number", "insert", "reread", "answered", "refused", "dead",
       "lock", "quota", "create", "unlock", "delete", "publish", "attach", "write", "mark",
       "resumeQuota", "resumePublish"}

Runs == {"none", "running", "queued", "waiting_approval", "paused", "ended"}

CallRec == [pc : PC, ticket : Ticket \cup {NoTicket}, run : Call \cup {NoTicket},
            source : Source \cup {NoTicket}, number : Nat, seen : Seq(Call)]

TicketRec == [source : Source \cup {NoTicket}, number : Nat, runs : Seq(Call),
              status : {"none", "new", "running"}]

TypeOK ==
    /\ redis \in BOOLEAN
    /\ proc \in [Call -> Process]
    /\ quota \in Nat
    /\ call \in [Call -> CallRec]
    /\ ticket \in [Ticket -> TicketRec]
    /\ seq \in Nat
    /\ run \in [Call -> Runs]
    /\ lock \in Process \cup {Free}
    /\ crashes \in Nat /\ expiries \in Nat

-----------------------------------------------------------------------------
(* Types *)

LEMMA TicketTypes == Absent \in TicketRec /\ ByHand \in TicketRec
<1>1. <<>> \in Seq(Call)
  OBVIOUS
<1>2. Absent \in TicketRec
  BY <1>1 DEF Absent, TicketRec
<1>3. [Absent EXCEPT !.status = "new"] \in TicketRec
  BY <1>2 DEF TicketRec
<1> QED
  BY <1>2, <1>3 DEF ByHand

LEMMA TypeOKInit == Init => TypeOK
<1> SUFFICES ASSUME Init PROVE TypeOK
  OBVIOUS
<1>1. quota \in Nat
  BY QuotaAssumption DEF Init
<1>2. call \in [Call -> CallRec]
  BY DEF Init, CallRec, PC
<1>3. Absent \in TicketRec /\ ByHand \in TicketRec
  BY TicketTypes
<1>4. ticket \in [Ticket -> TicketRec]
  BY <1>3 DEF Init
<1> QED
  BY <1>1, <1>2, <1>4 DEF Init, TypeOK, Runs

\* A call moves to another point of its request.
LEMMA GoTypes ==
    ASSUME TypeOK, NEW c \in Call, NEW p \in PC, Go(c, p)
    PROVE  call' \in [Call -> CallRec]
<1>1. [call[c] EXCEPT !.pc = p] \in CallRec
  BY DEF TypeOK, CallRec
<1> QED
  BY <1>1 DEF Go, TypeOK

LEMMA RequestTypes ==
    ASSUME TypeOK, NEW c \in Call,
           AskTicket(c) \/ CreateByHand(c) \/ RunTicket(c) \/ CreateRun(c) \/ AskResume(c)
    PROVE  TypeOK'
<1> USE DEF TypeOK
<1>1. CASE AskTicket(c)
  <2>1. PICK s \in Source : call' = [call EXCEPT ![c].pc = "look", ![c].source = s]
    BY <1>1 DEF AskTicket
  <2>2. [call[c] EXCEPT !.pc = "look", !.source = s] \in CallRec
    BY DEF CallRec, PC
  <2> QED
    BY <1>1, <2>1, <2>2 DEF AskTicket, setting
<1>2. CASE CreateByHand(c)
  <2>1. [call[c] EXCEPT !.pc = "answered", !.ticket = c] \in CallRec
    BY DEF CallRec, PC, Ticket
  <2>2. ByHand \in TicketRec
    BY TicketTypes
  <2>3. call' \in [Call -> CallRec]
    BY <1>2, <2>1 DEF CreateByHand
  <2>4. ticket' \in [Ticket -> TicketRec]
    BY <1>2, <2>2 DEF CreateByHand
  <2> QED
    BY <1>2, <2>3, <2>4 DEF CreateByHand, setting
<1>3. CASE RunTicket(c)
  <2>1. PICK t \in Ticket, pc \in Checked : call' = [call EXCEPT ![c].pc = pc, ![c].ticket = t]
    BY <1>3 DEF RunTicket
  <2>2. [call[c] EXCEPT !.pc = pc, !.ticket = t] \in CallRec
    BY DEF CallRec, PC, Checked
  <2> QED
    BY <1>3, <2>1, <2>2 DEF RunTicket, setting
<1>4. CASE CreateRun(c)
  BY <1>4, GoTypes DEF CreateRun, Checked, PC, setting
<1>5. CASE AskResume(c)
  <2>1. PICK r \in Call : call' = [call EXCEPT ![c].pc = "resumeQuota", ![c].run = r]
    BY <1>5 DEF AskResume
  <2>2. [call[c] EXCEPT !.pc = "resumeQuota", !.run = r] \in CallRec
    BY DEF CallRec, PC
  <2> QED
    BY <1>5, <2>1, <2>2 DEF AskResume, setting
<1> QED
  BY <1>1, <1>2, <1>3, <1>4, <1>5

LEMMA TicketStepTypes ==
    ASSUME TypeOK, NEW c \in Call, Look(c) \/ NextNumber(c) \/ Insert(c) \/ Reread(c)
    PROVE  TypeOK'
<1> USE DEF TypeOK
<1>1. ASSUME NEW t \in Ticket PROVE [call[c] EXCEPT !.pc = "answered", !.ticket = t] \in CallRec
  BY DEF CallRec, PC
<1>2. CASE Look(c)
  <2>1. CASE Go(c, "number")
    BY <1>2, <2>1, GoTypes DEF Look, PC, setting
  <2>2. ASSUME NEW t \in Ticket, call' = [call EXCEPT ![c].pc = "answered", ![c].ticket = t]
        PROVE  TypeOK'
    BY <1>1, <1>2, <2>2 DEF Look, setting
  <2> QED
    BY <1>2, <2>1, <2>2 DEF Look, OfSource
<1>3. CASE NextNumber(c)
  <2>1. ASSUME NEW k \in Nat PROVE [call[c] EXCEPT !.pc = "insert", !.number = k] \in CallRec
    BY DEF CallRec, PC
  <2>2. seq + 1 \in Nat
    OBVIOUS
  <2> QED
    BY <1>3, <2>1, <2>2 DEF NextNumber, setting
<1>4. CASE Insert(c)
  <2>1. Row(c) \in TicketRec
    BY DEF Row, CallRec, TicketRec
  <2>2. ticket' \in [Ticket -> TicketRec]
    BY <1>4, <2>1 DEF Insert
  <2> QED
    BY <1>4, <2>2, GoTypes DEF Insert, PC, setting
<1>5. CASE Reread(c)
  <2>1. PICK t \in Ticket : call' = [call EXCEPT ![c].pc = "answered", ![c].ticket = t]
    BY <1>5 DEF Reread, OfSource
  <2> QED
    BY <1>1, <1>5, <2>1 DEF Reread, setting
<1> QED
  BY <1>2, <1>3, <1>4, <1>5

LEMMA RunStepTypes ==
    ASSUME TypeOK, NEW c \in Call,
           \/ TakeLock(c) \/ CheckQuota(c) \/ CreateRow(c) \/ Unlock(c) \/ DeleteKey(c)
           \/ Publish(c) \/ ResumeQuota(c) \/ ResumePublish(c)
    PROVE  TypeOK'
<1> USE DEF TypeOK
<1>1. CASE TakeLock(c)
  BY <1>1, GoTypes DEF TakeLock, Acquire, Token, PC, setting
<1>2. CASE CheckQuota(c)
  BY <1>2, GoTypes DEF CheckQuota, PC, setting
<1>3. CASE CreateRow(c)
  <2>1. [call[c] EXCEPT !.pc = "unlock", !.run = c] \in CallRec
    BY DEF CallRec, PC
  <2> QED
    BY <1>3, <2>1 DEF CreateRow, Runs, setting
<1>4. CASE Unlock(c)
  <2>1. PICK p \in {"publish", "refused", "delete"} : Go(c, p) /\ lock' \in {lock, Free}
    BY <1>4 DEF Unlock
  <2> QED
    BY <1>4, <2>1, GoTypes DEF Unlock, PC, setting
<1>5. CASE DeleteKey(c)
  BY <1>5, GoTypes DEF DeleteKey, PC, setting
<1>6. CASE Publish(c)
  BY <1>6, GoTypes DEF Publish, PC, Runs, setting
<1>7. CASE ResumeQuota(c)
  BY <1>7, GoTypes DEF ResumeQuota, PC, setting
<1>8. CASE ResumePublish(c)
  BY <1>8, GoTypes DEF ResumePublish, PC, Runs, setting
<1> QED
  BY <1>1, <1>2, <1>3, <1>4, <1>5, <1>6, <1>7, <1>8

\* Whoever writes to a ticket has one.
LEMMA AttachTypes ==
    ASSUME TypeOK, NEW c \in Call, ReadRuns(c) \/ WriteRuns(c) \/ MarkRunning(c),
           call[c].ticket # NoTicket
    PROVE  TypeOK'
<1> USE DEF TypeOK
<1>1. call[c].ticket \in Ticket /\ call[c].seen \in Seq(Call)
  BY DEF CallRec
<1>2. CASE ReadRuns(c)
  <2>1. ticket[call[c].ticket].runs \in Seq(Call)
    BY <1>1 DEF TicketRec
  <2>2. [call[c] EXCEPT !.pc = "write", !.seen = ticket[call[c].ticket].runs] \in CallRec
    BY <2>1 DEF CallRec, PC
  <2> QED
    BY <1>2, <2>2 DEF ReadRuns, setting
<1>3. CASE WriteRuns(c)
  <2>0. Append(call[c].seen, c) \in Seq(Call)
    BY <1>1
  <2>1. [ticket[call[c].ticket] EXCEPT !.runs = Append(call[c].seen, c)] \in TicketRec
    BY <1>1, <2>0 DEF TicketRec
  <2>2. ticket' \in [Ticket -> TicketRec]
    BY <1>3, <2>1 DEF WriteRuns
  <2> QED
    BY <1>3, <2>2, GoTypes DEF WriteRuns, PC, setting
<1>4. CASE MarkRunning(c)
  <2>1. [ticket[call[c].ticket] EXCEPT !.status = "running"] \in TicketRec
    BY <1>1 DEF TicketRec
  <2>2. ticket' \in [Ticket -> TicketRec]
    BY <1>4, <2>1 DEF MarkRunning
  <2> QED
    BY <1>4, <2>2, GoTypes DEF MarkRunning, PC, setting
<1> QED
  BY <1>2, <1>3, <1>4

LEMMA WorldTypes ==
    ASSUME TypeOK, (\E r \in Call : RunMoves(r)) \/ Expire \/ (\E p \in Process : Crash(p)) \/ UNCHANGED vars
    PROVE  TypeOK'
<1> USE DEF TypeOK
<1>1. ASSUME NEW r \in Call, RunMoves(r) PROVE TypeOK'
  BY <1>1 DEF RunMoves, Runs, setting
<1>2. CASE Expire
  BY <1>2 DEF Expire, setting
<1>3. ASSUME NEW p \in Process, Crash(p) PROVE TypeOK'
  <2>1. ASSUME NEW c \in Call PROVE [call[c] EXCEPT !.pc = "dead"] \in CallRec
    BY DEF CallRec, PC
  <2> QED
    BY <1>3, <2>1 DEF Crash, setting
<1>4. CASE UNCHANGED vars
  BY <1>4 DEF vars, setting
<1> QED
  BY <1>1, <1>2, <1>3, <1>4

-----------------------------------------------------------------------------
(* The inductive invariant of tickets and runs *)

\* Every call that asks for a ticket has a number of its own, or none yet.
Numbered ==
    /\ \A c \in Call : call[c].number <= seq
    /\ \A c \in Call : call[c].pc \in {"insert", "reread"} => call[c].number > 0
    /\ \A c, d \in Call : call[c].number = call[d].number /\ call[c].number > 0 => c = d

\* A ticket for a source is its call's, and the only one of its source.
Sourced ==
    /\ \A c \in Call : call[c].source # NoTicket =>
          call[c].pc \in {"look", "number", "insert", "reread", "answered", "dead"}
    /\ \A c \in Call : call[c].pc \in {"look", "number", "insert", "reread"} => call[c].source # NoTicket
    /\ \A c \in Call : call[c].pc \in {"new", "look", "number", "insert"} => ticket[c] = Absent
    /\ \A t \in Ticket : ticket[t].source # NoTicket =>
          /\ t \in Call
          /\ ticket[t].source = call[t].source
          /\ ticket[t].number = call[t].number
          /\ ticket[t].number > 0
    /\ \A t \in Ticket : ticket[t].status = "none" => ticket[t] = Absent
    /\ \A t, u \in Ticket : ticket[t].source = ticket[u].source /\ ticket[t].source # NoTicket => t = u
    /\ \A c \in Call : call[c].pc = "answered" /\ call[c].source # NoTicket =>
          call[c].ticket \in OfSource(call[c].source)

Made == {"unlock", "delete", "publish", "attach", "write", "mark", "answered", "dead"}

\* A list of runs for a ticket: each was made for it, and is in the table.
OfTicket(s, t) ==
    \A i \in 1 .. Len(s) : call[s[i]].ticket = t /\ run[s[i]] # "none"

\* What a run, its ticket and the call that made both know of one another.
Attached ==
    /\ \A c \in Call : run[c] # "none" => call[c].pc \in Made
    /\ \A c \in Call : call[c].pc \in {"publish", "attach", "write", "mark"} => run[c] # "none"
    /\ \A c \in Call : call[c].pc \in {"unlock", "delete"} => (call[c].run = c <=> run[c] # "none")
    /\ \A c \in Call : call[c].pc \in {"new", "lock", "quota", "create"} => call[c].run = NoTicket
    /\ \A c \in Call : call[c].pc \in {"attach", "write", "mark"} => call[c].ticket # NoTicket
    /\ \A c \in Call : call[c].pc \in {"new", "look", "number", "insert", "reread"} => call[c].ticket = NoTicket
    /\ \A c \in Call : call[c].ticket # NoTicket => Exists(call[c].ticket)
    /\ \A t \in Ticket : OfTicket(ticket[t].runs, t)
    /\ \A c \in Call : call[c].pc = "write" => OfTicket(call[c].seen, call[c].ticket)
    /\ \A c \in Call : call[c].pc = "mark" => ticket[call[c].ticket].runs # <<>>
    /\ \A t \in Ticket : ticket[t].status = "running" => ticket[t].runs # <<>>

TicketInv == TypeOK /\ Numbered /\ Sourced /\ Attached

LEMMA TicketInvInit == Init => TicketInv
<1> SUFFICES ASSUME Init PROVE TicketInv
  OBVIOUS
<1>1. TypeOK
  BY TypeOKInit
<1>2. ByHand.source = NoTicket /\ ByHand.runs = <<>> /\ ByHand.status = "new" /\ Absent.source = NoTicket
      /\ Absent.runs = <<>> /\ Absent.status = "none"
  BY DEF ByHand, Absent
<1>3. \A t \in Ticket : /\ ticket[t].source = NoTicket /\ ticket[t].runs = <<>> /\ ticket[t].status # "running"
                        /\ ticket[t].status = "none" => ticket[t] = Absent
  BY <1>2 DEF Init
<1>4. \A c \in Call : ticket[c] = Absent
  BY NamesAssumption DEF Init, Ticket
<1>5. Numbered
  BY DEF Init, Numbered
<1>6. Sourced
  BY <1>3, <1>4 DEF Init, Sourced
<1>7. Attached
  BY <1>3 DEF Init, Attached, OfTicket
<1> QED
  BY <1>1, <1>5, <1>6, <1>7 DEF TicketInv

\* A ticket is there exactly when it has a status.
LEMMA ExistsByStatus ==
    ASSUME Sourced, NEW t \in Ticket
    PROVE  Exists(t) <=> ticket[t].status # "none"
BY DEF Sourced, Exists, Absent

\* Where a step that makes neither a ticket nor a run may take a call.
Onward(c, p) ==
    \/ p = call[c].pc
    \/ p = "dead" /\ call[c].pc # "new"
    \/ p = "refused" /\ run[c] = "none" /\ call[c].source = NoTicket
    \/ call[c].pc = "insert" /\ p = "reread"
    \/ call[c].pc = "new" /\ p = "lock"
    \/ call[c].pc = "lock" /\ p = "quota"
    \/ call[c].pc = "quota" /\ p = "create"
    \/ call[c].pc = "quota" /\ p = "unlock"
    \/ call[c].pc = "unlock" /\ p = "delete"
    \/ call[c].pc \in {"unlock", "delete"} /\ p = "publish" /\ call[c].run = c
    \/ call[c].pc = "publish" /\ p = "answered"
    \/ call[c].pc = "publish" /\ p = "attach" /\ call[c].ticket # NoTicket
    \/ call[c].pc = "resumeQuota" /\ p = "resumePublish"
    \/ call[c].pc = "resumePublish" /\ p = "answered"

LEMMA OnwardKeeps ==
    ASSUME TicketInv, TypeOK', UNCHANGED <<ticket, seq>>,
           \A c \in Call : run'[c] = "none" <=> run[c] = "none",
           \A c \in Call : \E p \in PC : Onward(c, p) /\ call'[c] = [call[c] EXCEPT !.pc = p]
    PROVE  TicketInv'
<1> USE DEF TicketInv
<1>1. \A c \in Call : /\ call'[c].ticket = call[c].ticket /\ call'[c].run = call[c].run
                      /\ call'[c].source = call[c].source /\ call'[c].number = call[c].number
                      /\ call'[c].seen = call[c].seen
                      /\ Onward(c, call'[c].pc)
  BY DEF TypeOK, CallRec
<1>2. Numbered'
  BY <1>1 DEF Numbered, Onward
<1>3. Sourced'
  <2>1. /\ \A c \in Call : call'[c].source # NoTicket =>
              call'[c].pc \in {"look", "number", "insert", "reread", "answered", "dead"}
        /\ \A c \in Call : call'[c].pc \in {"look", "number", "insert", "reread"} => call'[c].source # NoTicket
        /\ \A c \in Call : call'[c].pc \in {"new", "look", "number", "insert"} => ticket'[c] = Absent
    BY <1>1 DEF Sourced, Onward
  <2>2. \A t \in Ticket : ticket'[t].source # NoTicket =>
          /\ t \in Call
          /\ ticket'[t].source = call'[t].source
          /\ ticket'[t].number = call'[t].number
          /\ ticket'[t].number > 0
    BY <1>1 DEF Sourced
  <2>3. \A c \in Call : call'[c].pc = "answered" /\ call'[c].source # NoTicket => call[c].pc = "answered"
    BY <1>1 DEF Sourced, Onward
  <2> QED
    BY <1>1, <2>1, <2>2, <2>3 DEF Sourced, OfSource, Exists
<1>4. Attached'
  <2>1. /\ \A c \in Call : run'[c] # "none" => call'[c].pc \in Made
        /\ \A c \in Call : call'[c].pc \in {"publish", "attach", "write", "mark"} => run'[c] # "none"
        /\ \A c \in Call : call'[c].pc \in {"unlock", "delete"} => (call'[c].run = c <=> run'[c] # "none")
        /\ \A c \in Call : call'[c].pc \in {"new", "lock", "quota", "create"} => call'[c].run = NoTicket
    BY <1>1, NamesAssumption DEF Attached, Onward, Made
  <2>2. /\ \A c \in Call : call'[c].pc \in {"attach", "write", "mark"} => call'[c].ticket # NoTicket
        /\ \A c \in Call : call'[c].pc \in {"new", "look", "number", "insert", "reread"} => call'[c].ticket = NoTicket
        /\ \A c \in Call : call'[c].pc = "mark" => ticket'[call'[c].ticket].runs # <<>>
    BY <1>1 DEF Attached, Onward
  <2>3. \A c \in Call : call'[c].ticket # NoTicket => ticket'[call'[c].ticket] # Absent
    BY <1>1 DEF Attached, Exists
  <2>4. ASSUME NEW s \in Seq(Call), NEW t, OfTicket(s, t) PROVE OfTicket(s, t)'
    BY <1>1, <2>4 DEF OfTicket
  <2>5. \A t \in Ticket : ticket[t].runs \in Seq(Call)
    BY DEF TypeOK, TicketRec
  <2>6. \A t \in Ticket : OfTicket(ticket[t].runs, t)'
    BY <2>4, <2>5 DEF Attached
  <2>7. \A c \in Call : call'[c].pc = "write" => OfTicket(call[c].seen, call[c].ticket)
    BY <1>1 DEF Attached, Onward
  <2>8. \A c \in Call : call[c].seen \in Seq(Call)
    BY DEF TypeOK, CallRec
  <2>9. \A c \in Call : call'[c].pc = "write" => OfTicket(call[c].seen, call[c].ticket)'
    BY <1>1, <2>4, <2>7, <2>8 DEF OfTicket
  <2> QED
    BY <1>1, <2>1, <2>2, <2>3, <2>6, <2>9 DEF Attached, Exists
<1> QED
  BY <1>2, <1>3, <1>4

\* One call goes on.
LEMMA GoKeeps ==
    ASSUME TicketInv, TypeOK', NEW c \in Call, NEW p \in PC, Go(c, p), Onward(c, p),
           UNCHANGED <<ticket, seq>>, \A r \in Call : run'[r] = "none" <=> run[r] = "none"
    PROVE  TicketInv'
<1>1. \A d \in Call \ {c} : Onward(d, call[d].pc) /\ call[d].pc \in PC
                             /\ call'[d] = [call[d] EXCEPT !.pc = call[d].pc]
  BY DEF Go, TicketInv, TypeOK, CallRec, Onward
<1>2. call'[c] = [call[c] EXCEPT !.pc = p]
  BY DEF Go, TicketInv, TypeOK
<1> QED
  BY <1>1, <1>2, OnwardKeeps

LEMMA RunStepKeeps ==
    ASSUME TicketInv, TypeOK', NEW c \in Call,
           \/ CreateRun(c) \/ TakeLock(c) \/ CheckQuota(c) \/ Unlock(c) \/ DeleteKey(c)
           \/ Publish(c) \/ ResumeQuota(c) \/ ResumePublish(c)
    PROVE  TicketInv'
<1> USE DEF TicketInv
<1>0. /\ call[c].pc \in {"new", "lock", "quota", "resumeQuota"} => run[c] = "none" /\ call[c].source = NoTicket
      /\ call[c].pc \in {"unlock", "delete"} => call[c].source = NoTicket
      /\ call[c].pc \in {"unlock", "delete"} /\ call[c].run # c => run[c] = "none"
  BY DEF Attached, Sourced, Made
<1>1. CASE CreateRun(c)
  BY <1>0, <1>1, GoKeeps DEF CreateRun, Checked, Onward, PC
<1>2. CASE TakeLock(c)
  BY <1>0, <1>2, GoKeeps DEF TakeLock, Onward, PC
<1>3. CASE CheckQuota(c)
  BY <1>0, <1>3, GoKeeps DEF CheckQuota, Onward, PC
<1>4. CASE Unlock(c)
  <2>1. PICK p \in {"publish", "refused", "delete"} :
           /\ Go(c, p) /\ (p = "publish" => call[c].run = c) /\ (p = "refused" => call[c].run # c)
    BY <1>4 DEF Unlock
  <2>2. Onward(c, p) /\ p \in PC
    BY <1>0, <1>4, <2>1 DEF Unlock, Onward, PC
  <2> QED
    BY <1>4, <2>1, <2>2, GoKeeps DEF Unlock
<1>5. CASE DeleteKey(c)
  BY <1>0, <1>5, GoKeeps DEF DeleteKey, Onward, PC
<1>6. CASE Publish(c)
  <2>1. \A r \in Call : run'[r] = "none" <=> run[r] = "none"
    BY <1>6 DEF Publish, TypeOK, Attached
  <2> QED
    BY <1>6, <2>1, GoKeeps DEF Publish, Onward, PC
<1>7. CASE ResumeQuota(c)
  BY <1>0, <1>7, GoKeeps DEF ResumeQuota, Onward, PC
<1>8. CASE ResumePublish(c)
  <2>1. \A r \in Call : run'[r] = "none" <=> run[r] = "none"
    BY <1>8 DEF ResumePublish, TypeOK
  <2> QED
    BY <1>8, <2>1, GoKeeps DEF ResumePublish, Onward, PC
<1> QED
  BY <1>1, <1>2, <1>3, <1>4, <1>5, <1>6, <1>7, <1>8

LEMMA WorldKeeps ==
    ASSUME TicketInv, TypeOK',
           (\E r \in Call : RunMoves(r)) \/ Expire \/ (\E p \in Process : Crash(p)) \/ UNCHANGED vars
    PROVE  TicketInv'
<1> USE DEF TicketInv
<1>0. \A d \in Call : Onward(d, call[d].pc) /\ call[d].pc \in PC /\ call[d] = [call[d] EXCEPT !.pc = call[d].pc]
  BY DEF TypeOK, CallRec, Onward
<1>1. ASSUME NEW r \in Call, RunMoves(r) PROVE TicketInv'
  <2>1. \A d \in Call : run'[d] = "none" <=> run[d] = "none"
    BY <1>1 DEF RunMoves, TypeOK
  <2> QED
    BY <1>0, <1>1, <2>1, OnwardKeeps DEF RunMoves
<1>2. CASE Expire
  BY <1>0, <1>2, OnwardKeeps DEF Expire
<1>3. ASSUME NEW p \in Process, Crash(p) PROVE TicketInv'
  <2>1. ASSUME NEW d \in Call
        PROVE  \E q \in PC : Onward(d, q) /\ call'[d] = [call[d] EXCEPT !.pc = q]
    <3>1. CASE proc[d] = p /\ call[d].pc \notin Over \cup {"new"}
      BY <1>3, <3>1 DEF Crash, Onward, PC
    <3>2. CASE ~(proc[d] = p /\ call[d].pc \notin Over \cup {"new"})
      BY <1>0, <1>3, <3>2 DEF Crash
    <3> QED
      BY <3>1, <3>2
  <2> QED
    BY <1>3, <2>1, OnwardKeeps DEF Crash
<1>4. CASE UNCHANGED vars
  BY <1>0, <1>4, OnwardKeeps DEF vars
<1> QED
  BY <1>1, <1>2, <1>3, <1>4

\* A list stays one of runs for its ticket while those who made them stay as they are.
LEMMA OfTicketKept ==
    ASSUME NEW s \in Seq(Call), NEW t, OfTicket(s, t),
           \A r \in Call : run[r] # "none" => run'[r] # "none" /\ call'[r].ticket = call[r].ticket
    PROVE  \A i \in 1 .. Len(s) : call'[s[i]].ticket = t /\ run'[s[i]] # "none"
BY DEF OfTicket

\* What such a call becomes.
Asks(c, r) ==
    \/ /\ call[c].pc = "new" /\ r.pc = "look"
       /\ r.source \in Source /\ r.number = call[c].number
       /\ r.ticket = NoTicket /\ r.run = call[c].run
    \/ /\ call[c].pc = "new" /\ r.pc \in {"lock", "refused"}
       /\ r.source = call[c].source /\ r.number = call[c].number
       /\ r.ticket \in Ticket /\ Exists(r.ticket) /\ r.run = call[c].run
    \/ /\ call[c].pc = "new" /\ r.pc = "resumeQuota"
       /\ r.source = call[c].source /\ r.number = call[c].number
       /\ r.ticket = call[c].ticket
    \/ /\ call[c].pc = "look" /\ r.pc = "number"
       /\ r.source = call[c].source /\ r.number = call[c].number
       /\ r.ticket = call[c].ticket /\ r.run = call[c].run
    \/ /\ call[c].pc = "number" /\ r.pc = "insert"
       /\ r.source = call[c].source /\ r.number = seq + 1 /\ seq' = seq + 1
       /\ r.ticket = call[c].ticket /\ r.run = call[c].run
    \/ /\ call[c].pc \in {"look", "reread"} /\ r.pc = "answered"
       /\ r.source = call[c].source /\ r.number = call[c].number
       /\ r.ticket \in OfSource(call[c].source) /\ r.run = call[c].run

\* A call that makes no ticket learns of one, or asks for one, or joins a run of another.
LEMMA AskKeeps ==
    ASSUME TicketInv, TypeOK', NEW c \in Call,
           AskTicket(c) \/ RunTicket(c) \/ AskResume(c) \/ Look(c) \/ NextNumber(c) \/ Reread(c)
    PROVE  TicketInv'
<1> USE DEF TicketInv
<1>a. /\ ticket' = ticket /\ run' = run
      /\ call[c].pc \in {"new", "look", "number", "reread"}
      /\ call[c] \in CallRec /\ DOMAIN call = Call
  BY DEF AskTicket, RunTicket, AskResume, Look, NextNumber, Reread, TypeOK
<1>b. /\ run[c] = "none"
      /\ call[c].pc = "new" => call[c].run = NoTicket /\ call[c].ticket = NoTicket
  BY <1>a DEF Attached, Made
<1>1. PICK r \in CallRec :
      /\ call' = [call EXCEPT ![c] = r] /\ r.seen = call[c].seen
      /\ Asks(c, r)
  <2>1. CASE AskTicket(c)
    <3>1. PICK s \in Source : call' = [call EXCEPT ![c].pc = "look", ![c].source = s]
      BY <2>1 DEF AskTicket
    <3> DEFINE r == [call[c] EXCEPT !.pc = "look", !.source = s]
    <3>2. /\ r \in CallRec /\ r.seen = call[c].seen /\ r.pc = "look" /\ r.source = s
          /\ r.number = call[c].number /\ r.ticket = call[c].ticket /\ r.run = call[c].run
      BY <1>a DEF CallRec, PC
    <3> QED
      BY <1>b, <2>1, <3>1, <3>2 DEF AskTicket, Asks
  <2>2. CASE RunTicket(c)
    <3>1. PICK t \in Ticket, pc \in Checked :
             Exists(t) /\ call' = [call EXCEPT ![c].pc = pc, ![c].ticket = t]
      BY <2>2 DEF RunTicket
    <3> DEFINE r == [call[c] EXCEPT !.pc = pc, !.ticket = t]
    <3>2. /\ r \in CallRec /\ r.seen = call[c].seen /\ r.pc = pc /\ r.source = call[c].source
          /\ r.number = call[c].number /\ r.ticket = t /\ r.run = call[c].run
      BY <1>a DEF CallRec, PC, Checked
    <3> QED
      BY <2>2, <3>1, <3>2 DEF RunTicket, Checked, Asks
  <2>3. CASE AskResume(c)
    <3>1. PICK q \in Call : call' = [call EXCEPT ![c].pc = "resumeQuota", ![c].run = q]
      BY <2>3 DEF AskResume
    <3> DEFINE r == [call[c] EXCEPT !.pc = "resumeQuota", !.run = q]
    <3>2. /\ r \in CallRec /\ r.seen = call[c].seen /\ r.pc = "resumeQuota" /\ r.source = call[c].source
          /\ r.number = call[c].number /\ r.ticket = call[c].ticket
      BY <1>a DEF CallRec, PC
    <3> QED
      BY <2>3, <3>1, <3>2 DEF AskResume, Asks
  <2>4. ASSUME NEW t \in OfSource(call[c].source), call' = [call EXCEPT ![c].pc = "answered", ![c].ticket = t],
               call[c].pc \in {"look", "reread"}
        PROVE  \E r \in CallRec : call' = [call EXCEPT ![c] = r] /\ r.seen = call[c].seen /\ Asks(c, r)
    <3>1. t \in Ticket
      BY DEF OfSource
    <3> DEFINE r == [call[c] EXCEPT !.pc = "answered", !.ticket = t]
    <3>2. /\ r \in CallRec /\ r.seen = call[c].seen /\ r.pc = "answered" /\ r.source = call[c].source
          /\ r.number = call[c].number /\ r.ticket = t /\ r.run = call[c].run
      BY <1>a, <3>1 DEF CallRec, PC
    <3> QED
      BY <2>4, <3>2 DEF Asks
  <2>5. CASE Look(c) /\ Go(c, "number")
    <3> DEFINE r == [call[c] EXCEPT !.pc = "number"]
    <3>2. /\ r \in CallRec /\ r.seen = call[c].seen /\ r.pc = "number" /\ r.source = call[c].source
          /\ r.number = call[c].number /\ r.ticket = call[c].ticket /\ r.run = call[c].run
      BY <1>a DEF CallRec, PC
    <3> QED
      BY <2>5, <3>2 DEF Look, Go, Asks
  <2>6. CASE NextNumber(c)
    <3>1. PICK k \in Nat : k = seq + 1 /\ seq' = k /\ call' = [call EXCEPT ![c].pc = "insert", ![c].number = k]
      BY <2>6 DEF NextNumber, TypeOK
    <3> DEFINE r == [call[c] EXCEPT !.pc = "insert", !.number = k]
    <3>2. /\ r \in CallRec /\ r.seen = call[c].seen /\ r.pc = "insert" /\ r.source = call[c].source
          /\ r.number = k /\ r.ticket = call[c].ticket /\ r.run = call[c].run
      BY <1>a DEF CallRec, PC
    <3> QED
      BY <2>6, <3>1, <3>2 DEF NextNumber, Asks
  <2> QED
    BY <2>1, <2>2, <2>3, <2>4, <2>5, <2>6 DEF Look, Reread
<1>0. /\ ticket' = ticket /\ run' = run
      /\ \A d \in Call \ {c} : call'[d] = call[d]
      /\ call'[c] = r
      /\ call[c].pc \in {"new", "look", "number", "reread"}
      /\ run[c] = "none"
  BY <1>a, <1>b, <1>1 DEF Asks
<1>2. seq' = seq \/ (seq' = seq + 1 /\ call[c].pc = "number" /\ call'[c].number = seq + 1)
  BY <1>0, <1>1 DEF AskTicket, RunTicket, AskResume, Look, NextNumber, Reread, Asks
<1>3. Numbered'
  <2>1. \A d \in Call \ {c} : call'[d].number = call[d].number /\ call[d].number <= seq
    BY <1>0 DEF Numbered
  <2>2. seq \in Nat /\ \A d \in Call : call[d].number \in Nat
    BY DEF TypeOK, CallRec
  <2>3. call'[c].number = call[c].number \/ (call'[c].number = seq + 1 /\ seq' = seq + 1)
    BY <1>0, <1>1 DEF Asks
  <2>4. call'[c].pc \in {"insert", "reread"} => call'[c].number > 0
    BY <1>0, <1>1, <2>2 DEF Asks
  <2>5. \A d, e \in Call : call'[d].number = call'[e].number /\ call'[d].number > 0 => d = e
    BY <2>1, <2>2, <2>3 DEF Numbered
  <2> QED
    BY <1>0, <1>2, <2>1, <2>2, <2>3, <2>4, <2>5 DEF Numbered
<1>4. ticket[c].source = NoTicket \/ call[c].pc = "reread"
  BY <1>0 DEF Sourced, Absent
<1>5. Sourced'
  <2>1. /\ \A d \in Call : call'[d].source # NoTicket =>
              call'[d].pc \in {"look", "number", "insert", "reread", "answered", "dead"}
        /\ \A d \in Call : call'[d].pc \in {"look", "number", "insert", "reread"} => call'[d].source # NoTicket
        /\ \A d \in Call : call'[d].pc \in {"new", "look", "number", "insert"} => ticket'[d] = Absent
    BY <1>0, <1>1, NamesAssumption DEF Sourced, Asks
  <2>2. \A t \in Ticket : ticket'[t].source # NoTicket =>
          /\ t \in Call
          /\ ticket'[t].source = call'[t].source
          /\ ticket'[t].number = call'[t].number
          /\ ticket'[t].number > 0
    BY <1>0, <1>1, <1>4 DEF Sourced, Asks
  <2>3. \A d \in Call : call'[d].pc = "answered" /\ call'[d].source # NoTicket =>
                         call'[d].ticket \in OfSource(call'[d].source)
    BY <1>0, <1>1 DEF Sourced, Asks
  <2> QED
    BY <1>0, <2>1, <2>2, <2>3 DEF Sourced, OfSource, Exists
<1>6. Attached'
  <2>1. /\ \A d \in Call : run'[d] # "none" => call'[d].pc \in Made
        /\ \A d \in Call : call'[d].pc \in {"publish", "attach", "write", "mark"} => run'[d] # "none"
        /\ \A d \in Call : call'[d].pc \in {"unlock", "delete"} => (call'[d].run = d <=> run'[d] # "none")
        /\ \A d \in Call : call'[d].pc \in {"new", "lock", "quota", "create"} => call'[d].run = NoTicket
    BY <1>0, <1>1 DEF Attached, Asks
  <2>2. /\ \A d \in Call : call'[d].pc \in {"attach", "write", "mark"} => call'[d].ticket # NoTicket
        /\ \A d \in Call : call'[d].pc \in {"new", "look", "number", "insert", "reread"} => call'[d].ticket = NoTicket
        /\ \A d \in Call : call'[d].pc = "mark" => ticket'[call'[d].ticket].runs # <<>>
    BY <1>0, <1>1 DEF Attached, Asks
  <2>3. \A d \in Call : call'[d].ticket # NoTicket => ticket'[call'[d].ticket] # Absent
    BY <1>0, <1>1 DEF Attached, Exists, OfSource, Asks
  <2>4. \A d \in Call : run[d] # "none" => run'[d] # "none" /\ call'[d].ticket = call[d].ticket
    BY <1>0
  <2>5. \A t \in Ticket : ticket[t].runs \in Seq(Call)
    BY DEF TypeOK, TicketRec
  <2>6. \A t \in Ticket : OfTicket(ticket[t].runs, t)'
    BY <1>0, <2>4, <2>5, OfTicketKept DEF Attached, OfTicket
  <2>7. \A d \in Call : call[d].seen \in Seq(Call)
    BY DEF TypeOK, CallRec
  <2>8. \A d \in Call : call'[d].pc = "write" => d # c /\ OfTicket(call[d].seen, call[d].ticket)
    BY <1>0, <1>1 DEF Attached, Asks
  <2>9. \A d \in Call : call'[d].pc = "write" => OfTicket(call[d].seen, call[d].ticket)'
    BY <1>0, <2>4, <2>7, <2>8, OfTicketKept DEF OfTicket
  <2> QED
    BY <1>0, <2>1, <2>2, <2>3, <2>6, <2>9 DEF Attached, Exists
<1> QED
  BY <1>3, <1>5, <1>6

\* A ticket is made: for the source the call was asked for, or by hand.
LEMMA MakeKeeps ==
    ASSUME TicketInv, TypeOK', NEW c \in Call, Insert(c) \/ CreateByHand(c)
    PROVE  TicketInv'
<1> USE DEF TicketInv
<1>0. CASE Insert(c) /\ OfSource(call[c].source) # {}
  BY <1>0, GoKeeps DEF Insert, Onward, PC
<1>1. CASE CreateByHand(c) \/ (Insert(c) /\ OfSource(call[c].source) = {})
  <2>a. /\ run' = run /\ seq' = seq
        /\ call[c].pc \in {"new", "insert"}
        /\ call[c] \in CallRec /\ DOMAIN call = Call /\ c \in Ticket /\ DOMAIN ticket = Ticket
    BY <1>1 DEF CreateByHand, Insert, TypeOK, Ticket
  <2>b. /\ run[c] = "none" /\ ticket[c] = Absent /\ ~Exists(c)
        /\ call[c].pc = "new" => call[c].source = NoTicket
    BY <2>a DEF Attached, Made, Sourced, Exists
  <2>1. PICK r \in CallRec, x \in TicketRec :
           /\ call' = [call EXCEPT ![c] = r] /\ ticket' = [ticket EXCEPT ![c] = x]
           /\ r.seen = call[c].seen /\ r.source = call[c].source /\ r.number = call[c].number
           /\ x.runs = <<>> /\ x.status = "new"
           /\ \/ /\ r.pc = "answered" /\ r.ticket = c
                 /\ x.source = NoTicket /\ call[c].source = NoTicket
              \/ /\ call[c].pc = "insert" /\ r.pc = "reread" /\ r.ticket = call[c].ticket /\ r.run = call[c].run
                 /\ x.source = call[c].source /\ x.number = call[c].number
                 /\ OfSource(call[c].source) = {}
    <3>1. CASE CreateByHand(c)
      <4> DEFINE r == [call[c] EXCEPT !.pc = "answered", !.ticket = c]
      <4>1. /\ r \in CallRec /\ r.seen = call[c].seen /\ r.pc = "answered" /\ r.source = call[c].source
            /\ r.number = call[c].number /\ r.ticket = c
        BY <2>a DEF CallRec, PC
      <4>2. ByHand \in TicketRec /\ ByHand.runs = <<>> /\ ByHand.status = "new" /\ ByHand.source = NoTicket
        BY TicketTypes DEF ByHand, Absent
      <4> QED
        BY <2>b, <3>1, <4>1, <4>2 DEF CreateByHand
    <3>2. CASE Insert(c) /\ OfSource(call[c].source) = {}
      <4> DEFINE r == [call[c] EXCEPT !.pc = "reread"]
      <4>1. /\ r \in CallRec /\ r.seen = call[c].seen /\ r.pc = "reread" /\ r.source = call[c].source
            /\ r.number = call[c].number /\ r.ticket = call[c].ticket /\ r.run = call[c].run
        BY <2>a DEF CallRec, PC
      <4>2. /\ Row(c) \in TicketRec /\ Row(c).runs = <<>> /\ Row(c).status = "new"
            /\ Row(c).source = call[c].source /\ Row(c).number = call[c].number
        BY <2>a DEF Row, TicketRec, CallRec
      <4> QED
        BY <3>2, <4>1, <4>2 DEF Insert, Go
    <3> QED
      BY <1>1, <3>1, <3>2
  <2>2. /\ \A d \in Call \ {c} : call'[d] = call[d]
        /\ \A u \in Ticket \ {c} : ticket'[u] = ticket[u]
        /\ call'[c] = r /\ ticket'[c] = x
        /\ \A d \in Call : call'[d].source = call[d].source /\ call'[d].number = call[d].number
    BY <2>1, <2>a
  <2>3. Numbered'
    BY <2>1, <2>2, <2>a DEF Numbered
  <2>4. Sourced'
    <3>1. /\ \A d \in Call : call'[d].source # NoTicket =>
                call'[d].pc \in {"look", "number", "insert", "reread", "answered", "dead"}
          /\ \A d \in Call : call'[d].pc \in {"look", "number", "insert", "reread"} => call'[d].source # NoTicket
          /\ \A d \in Call : call'[d].pc \in {"new", "look", "number", "insert"} => ticket'[d] = Absent
      BY <2>1, <2>2 DEF Sourced, Ticket
    <3>2. ASSUME NEW u \in Ticket, ticket'[u].source # NoTicket
          PROVE  /\ u \in Call
                 /\ ticket'[u].source = call'[u].source
                 /\ ticket'[u].number = call'[u].number
                 /\ ticket'[u].number > 0
      <4>1. CASE u = c
        BY <2>1, <2>2, <3>2, <4>1 DEF Numbered
      <4>2. CASE u # c
        BY <2>2, <3>2, <4>2 DEF Sourced
      <4> QED
        BY <4>1, <4>2
    <3>3. \A u \in Ticket : ticket'[u].status = "none" => ticket'[u] = Absent
      BY <2>1, <2>2 DEF Sourced
    <3>4. ASSUME NEW u \in Ticket, u # c, x.source # NoTicket PROVE ticket[u].source # x.source
      <4>1. x.source = call[c].source /\ OfSource(call[c].source) = {}
        BY <2>1, <3>4
      <4> QED
        BY <3>4, <4>1 DEF OfSource, Exists, Absent
    <3>5. \A u, v \in Ticket : ticket'[u].source = ticket'[v].source /\ ticket'[u].source # NoTicket => u = v
      BY <2>2, <3>4 DEF Sourced
    <3>6. ASSUME NEW d \in Call, call'[d].pc = "answered", call'[d].source # NoTicket
          PROVE  call'[d].ticket \in Ticket /\ ticket'[call'[d].ticket] # Absent
                 /\ ticket'[call'[d].ticket].source = call'[d].source
      <4>1. d # c
        BY <2>1, <2>2, <3>6
      <4>2. call[d].ticket \in OfSource(call[d].source)
        BY <2>2, <3>6, <4>1 DEF Sourced
      <4> QED
        BY <2>b, <2>2, <4>1, <4>2 DEF OfSource, Exists
    <3> QED
      BY <3>1, <3>2, <3>3, <3>5, <3>6 DEF Sourced, OfSource, Exists
  <2>5. Attached'
    <3>1. /\ \A d \in Call : run'[d] # "none" => call'[d].pc \in Made
          /\ \A d \in Call : call'[d].pc \in {"publish", "attach", "write", "mark"} => run'[d] # "none"
          /\ \A d \in Call : call'[d].pc \in {"unlock", "delete"} => (call'[d].run = d <=> run'[d] # "none")
          /\ \A d \in Call : call'[d].pc \in {"new", "lock", "quota", "create"} => call'[d].run = NoTicket
      BY <2>1, <2>2, <2>a, <2>b DEF Attached
    <3>2. /\ \A d \in Call : call'[d].pc \in {"attach", "write", "mark"} => call'[d].ticket # NoTicket
          /\ \A d \in Call : call'[d].pc \in {"new", "look", "number", "insert", "reread"} => call'[d].ticket = NoTicket
      BY <2>1, <2>2, <2>a DEF Attached
    <3>3. Absent.status = "none"
      BY DEF Absent
    <3>4. \A d \in Call : call'[d].ticket # NoTicket => ticket'[call'[d].ticket] # Absent
      BY <2>1, <2>2, <2>a, <2>b, <3>3 DEF Attached, Exists, TypeOK, CallRec
    <3>5. ASSUME NEW d \in Call, call'[d].pc = "mark" PROVE ticket'[call'[d].ticket].runs # <<>>
      <4>1. d # c
        BY <2>1, <2>2, <3>5
      <4>2. call[d].ticket # NoTicket /\ ticket[call[d].ticket].runs # <<>>
        BY <2>2, <3>5, <4>1 DEF Attached
      <4>3. call[d].ticket # c /\ call[d].ticket \in Ticket
        BY <2>b, <4>2 DEF Attached, TypeOK, CallRec
      <4> QED
        BY <2>2, <4>1, <4>2, <4>3
    <3>6. \A q \in Call : run[q] # "none" => run'[q] # "none" /\ call'[q].ticket = call[q].ticket
      BY <2>2, <2>a, <2>b
    <3>7. ASSUME NEW u \in Ticket PROVE OfTicket(ticket[u].runs, u)'
      <4>1. CASE u = c
        BY <2>1, <2>2, <4>1 DEF OfTicket
      <4>2. CASE u # c
        <5>1. ticket[u].runs \in Seq(Call) /\ OfTicket(ticket[u].runs, u) /\ ticket'[u] = ticket[u]
          BY <2>2, <4>2 DEF Attached, TypeOK, TicketRec
        <5> QED
          BY <3>6, <5>1, OfTicketKept DEF OfTicket
      <4> QED
        BY <4>1, <4>2
    <3>8. ASSUME NEW d \in Call, call'[d].pc = "write" PROVE OfTicket(call[d].seen, call[d].ticket)'
      <4>1. d # c /\ call'[d] = call[d]
        BY <2>1, <2>2, <3>8
      <4>2. call[d].seen \in Seq(Call) /\ OfTicket(call[d].seen, call[d].ticket)
        BY <3>8, <4>1 DEF Attached, TypeOK, CallRec
      <4> QED
        BY <3>6, <4>1, <4>2, OfTicketKept DEF OfTicket
    <3>9. \A u \in Ticket : ticket'[u].status = "running" => ticket'[u].runs # <<>>
      BY <2>1, <2>2 DEF Attached
    <3> QED
      BY <3>1, <3>2, <3>4, <3>5, <3>7, <3>8, <3>9 DEF Attached, Exists
  <2> QED
    BY <2>3, <2>4, <2>5
<1> QED
  BY <1>0, <1>1

\* What becomes of its runs touches no ticket's source and no number.
LEMMA SourcedKept ==
    ASSUME TicketInv, UNCHANGED seq,
           \A d \in Call : /\ call'[d].source = call[d].source /\ call'[d].number = call[d].number
                           /\ call'[d].ticket = call[d].ticket,
           \A d \in Call : \/ call'[d].pc = call[d].pc
                           \/ /\ call[d].source = NoTicket
                              /\ call'[d].pc \notin {"new", "look", "number", "insert", "reread"},
           \A u \in Ticket : ticket'[u].source = ticket[u].source /\ ticket'[u].number = ticket[u].number,
           \A u \in Ticket : ticket'[u].status = "none" => ticket'[u] = Absent,
           \A u \in Ticket : ticket'[u] = Absent <=> ticket[u] = Absent
    PROVE  Numbered' /\ Sourced'
<1> USE DEF TicketInv
<1>1. Numbered'
  BY DEF Numbered
<1>2. Sourced'
  <2>1. /\ \A d \in Call : call'[d].source # NoTicket =>
              call'[d].pc \in {"look", "number", "insert", "reread", "answered", "dead"}
        /\ \A d \in Call : call'[d].pc \in {"look", "number", "insert", "reread"} => call'[d].source # NoTicket
        /\ \A d \in Call : call'[d].pc \in {"new", "look", "number", "insert"} => ticket'[d] = Absent
    BY DEF Sourced, Ticket
  <2>2. \A u \in Ticket : ticket'[u].source # NoTicket =>
          /\ u \in Call
          /\ ticket'[u].source = call'[u].source
          /\ ticket'[u].number = call'[u].number
          /\ ticket'[u].number > 0
    BY DEF Sourced
  <2>3. \A d \in Call : call'[d].pc = "answered" /\ call'[d].source # NoTicket =>
                         call[d].ticket \in OfSource(call[d].source)
    BY DEF Sourced
  <2>4. \A d \in Call : call'[d].pc = "answered" /\ call'[d].source # NoTicket =>
                         /\ call'[d].ticket \in Ticket /\ ticket'[call'[d].ticket] # Absent
                         /\ ticket'[call'[d].ticket].source = call'[d].source
    BY <2>3 DEF OfSource, Exists
  <2>5. \A u, v \in Ticket : ticket'[u].source = ticket'[v].source /\ ticket'[u].source # NoTicket => u = v
    BY DEF Sourced
  <2> QED
    BY <2>1, <2>2, <2>4, <2>5 DEF Sourced, OfSource, Exists
<1> QED
  BY <1>1, <1>2

\* The run is made, and attached to its ticket in three steps.
LEMMA AttachKeeps ==
    ASSUME TicketInv, TypeOK', NEW c \in Call,
           CreateRow(c) \/ ReadRuns(c) \/ WriteRuns(c) \/ MarkRunning(c)
    PROVE  TicketInv'
<1> USE DEF TicketInv
<1>0. /\ call[c] \in CallRec /\ DOMAIN call = Call /\ seq' = seq
      /\ call[c].pc \in {"create", "attach", "write", "mark"}
      /\ call[c].source = NoTicket
      /\ DOMAIN ticket = Ticket
  BY DEF CreateRow, ReadRuns, WriteRuns, MarkRunning, TypeOK, Sourced
<1>1. CASE CreateRow(c)
  <2> DEFINE r == [call[c] EXCEPT !.pc = "unlock", !.run = c]
  <2>1. /\ r.seen = call[c].seen /\ r.source = call[c].source
        /\ r.number = call[c].number /\ r.ticket = call[c].ticket /\ r.pc = "unlock" /\ r.run = c
    BY <1>0 DEF CallRec
  <2>2. /\ call'[c] = r /\ \A d \in Call \ {c} : call'[d] = call[d]
        /\ ticket' = ticket /\ run'[c] = "running" /\ \A d \in Call \ {c} : run'[d] = run[d]
    BY <1>0, <1>1 DEF CreateRow, TypeOK
  <2> HIDE DEF r
  <2>3. Numbered' /\ Sourced'
    BY <1>0, <2>1, <2>2, SourcedKept DEF Sourced
  <2>4. run[c] = "none"
    BY <1>1 DEF CreateRow, Attached, Made
  <2>5. Attached'
    <3>1. /\ \A d \in Call : run'[d] # "none" => call'[d].pc \in Made
          /\ \A d \in Call : call'[d].pc \in {"publish", "attach", "write", "mark"} => run'[d] # "none"
          /\ \A d \in Call : call'[d].pc \in {"unlock", "delete"} => (call'[d].run = d <=> run'[d] # "none")
          /\ \A d \in Call : call'[d].pc \in {"new", "lock", "quota", "create"} => call'[d].run = NoTicket
      BY <2>1, <2>2 DEF Attached, Made
    <3>2. /\ \A d \in Call : call'[d].pc \in {"attach", "write", "mark"} => call'[d].ticket # NoTicket
          /\ \A d \in Call : call'[d].pc \in {"new", "look", "number", "insert", "reread"} => call'[d].ticket = NoTicket
          /\ \A d \in Call : call'[d].ticket # NoTicket => ticket'[call'[d].ticket] # Absent
          /\ \A d \in Call : call'[d].pc = "mark" => ticket'[call'[d].ticket].runs # <<>>
          /\ \A u \in Ticket : ticket'[u].status = "running" => ticket'[u].runs # <<>>
      BY <2>1, <2>2 DEF Attached, Exists
    <3>3. \A q \in Call : run[q] # "none" => run'[q] # "none" /\ call'[q].ticket = call[q].ticket
      BY <2>1, <2>2, <2>4
    <3>4. ASSUME NEW u \in Ticket PROVE OfTicket(ticket[u].runs, u)'
      <4>1. ticket[u].runs \in Seq(Call) /\ OfTicket(ticket[u].runs, u) /\ ticket'[u] = ticket[u]
        BY <2>2 DEF Attached, TypeOK, TicketRec
      <4> QED
        BY <3>3, <4>1, OfTicketKept DEF OfTicket
    <3>5. ASSUME NEW d \in Call, call'[d].pc = "write" PROVE OfTicket(call[d].seen, call[d].ticket)'
      <4>1. d # c /\ call'[d] = call[d]
        BY <2>1, <2>2, <3>5
      <4>2. call[d].seen \in Seq(Call) /\ OfTicket(call[d].seen, call[d].ticket)
        BY <3>5, <4>1 DEF Attached, TypeOK, CallRec
      <4> QED
        BY <3>3, <4>1, <4>2, OfTicketKept DEF OfTicket
    <3> QED
      BY <3>1, <3>2, <3>4, <3>5 DEF Attached, Exists
  <2> QED
    BY <2>3, <2>5
<1>2. ASSUME NEW t \in Ticket, call[c].ticket = t, ReadRuns(c) \/ WriteRuns(c) \/ MarkRunning(c)
      PROVE  TicketInv'
  <2>0. Exists(t) /\ ticket[t].status # "none" /\ ticket[t] \in TicketRec /\ run[c] # "none"
    BY <1>2, ExistsByStatus, NamesAssumption DEF Attached, Ticket, TypeOK, ReadRuns, WriteRuns, MarkRunning
  <2>1. PICK r \in CallRec, x \in TicketRec :
           /\ call' = [call EXCEPT ![c] = r] /\ ticket' = [ticket EXCEPT ![t] = x]
           /\ r.source = call[c].source /\ r.number = call[c].number
           /\ r.ticket = call[c].ticket /\ r.run = call[c].run
           /\ x.source = ticket[t].source /\ x.number = ticket[t].number /\ x.status # "none"
           /\ \/ r.pc = "write" /\ r.seen = ticket[t].runs /\ x = ticket[t]
              \/ /\ r.pc = "mark" /\ call[c].pc = "write" /\ x.runs = Append(call[c].seen, c)
                 /\ x.status = ticket[t].status
              \/ /\ r.pc = "answered" /\ call[c].pc = "mark" /\ x.runs = ticket[t].runs /\ x.status = "running"
    <3>1. CASE ReadRuns(c)
      <4> DEFINE r == [call[c] EXCEPT !.pc = "write", !.seen = ticket[t].runs]
      <4>1. ticket[t].runs \in Seq(Call)
        BY <2>0 DEF TicketRec
      <4>2. /\ r \in CallRec /\ r.seen = ticket[t].runs /\ r.source = call[c].source
            /\ r.number = call[c].number /\ r.ticket = call[c].ticket /\ r.pc = "write" /\ r.run = call[c].run
        BY <1>0, <4>1 DEF CallRec, PC
      <4>3. ticket' = [ticket EXCEPT ![t] = ticket[t]]
        BY <3>1 DEF ReadRuns, TypeOK
      <4> QED
        BY <1>2, <2>0, <3>1, <4>2, <4>3 DEF ReadRuns
    <3>2. CASE WriteRuns(c)
      <4> DEFINE r == [call[c] EXCEPT !.pc = "mark"]
      <4>1. /\ r \in CallRec /\ r.source = call[c].source
            /\ r.number = call[c].number /\ r.ticket = call[c].ticket /\ r.pc = "mark" /\ r.run = call[c].run
        BY <1>0 DEF CallRec, PC
      <4>a. call[c].seen \in Seq(Call)
        BY <1>0 DEF CallRec
      <4>b. Append(call[c].seen, c) \in Seq(Call)
        BY <4>a
      <4>2. PICK s \in Seq(Call) : s = Append(call[c].seen, c)
        BY <4>b
      <4> DEFINE x == [ticket[t] EXCEPT !.runs = s]
      <4>3. /\ x \in TicketRec /\ x.runs = s /\ x.source = ticket[t].source /\ x.number = ticket[t].number
            /\ x.status = ticket[t].status
        BY <2>0 DEF TicketRec
      <4> QED
        BY <1>2, <2>0, <3>2, <4>1, <4>2, <4>3 DEF WriteRuns, Go
    <3>3. CASE MarkRunning(c)
      <4> DEFINE r == [call[c] EXCEPT !.pc = "answered"]
      <4>1. /\ r \in CallRec /\ r.source = call[c].source
            /\ r.number = call[c].number /\ r.ticket = call[c].ticket /\ r.pc = "answered" /\ r.run = call[c].run
        BY <1>0 DEF CallRec, PC
      <4> DEFINE x == [ticket[t] EXCEPT !.status = "running"]
      <4>3. /\ x \in TicketRec /\ x.runs = ticket[t].runs /\ x.source = ticket[t].source
            /\ x.number = ticket[t].number /\ x.status = "running"
        BY <2>0 DEF TicketRec
      <4> QED
        BY <1>2, <3>3, <4>1, <4>3 DEF MarkRunning, Go
    <3> QED
      BY <1>2, <3>1, <3>2, <3>3
  <2>2. /\ call'[c] = r /\ \A d \in Call \ {c} : call'[d] = call[d]
        /\ ticket'[t] = x /\ \A u \in Ticket \ {t} : ticket'[u] = ticket[u]
        /\ run' = run
    BY <1>0, <1>2, <2>1 DEF ReadRuns, WriteRuns, MarkRunning
  <2>3. Numbered' /\ Sourced'
    <3>1. Absent.status = "none"
      BY DEF Absent
    <3>2. \A u \in Ticket : ticket'[u].status = "none" => ticket'[u] = Absent
      BY <2>1, <2>2 DEF Sourced
    <3>3. \A u \in Ticket : ticket'[u] = Absent <=> ticket[u] = Absent
      BY <2>0, <2>1, <2>2, <3>1
    <3> QED
      BY <1>0, <2>1, <2>2, <3>2, <3>3, SourcedKept DEF Sourced
  <2>5. Attached'
    <3>1. /\ \A d \in Call : run'[d] # "none" => call'[d].pc \in Made
          /\ \A d \in Call : call'[d].pc \in {"publish", "attach", "write", "mark"} => run'[d] # "none"
          /\ \A d \in Call : call'[d].pc \in {"unlock", "delete"} => (call'[d].run = d <=> run'[d] # "none")
          /\ \A d \in Call : call'[d].pc \in {"new", "lock", "quota", "create"} => call'[d].run = NoTicket
      BY <2>0, <2>1, <2>2 DEF Attached, Made
    <3>2. /\ \A d \in Call : call'[d].pc \in {"attach", "write", "mark"} => call'[d].ticket # NoTicket
          /\ \A d \in Call : call'[d].pc \in {"new", "look", "number", "insert", "reread"} => call'[d].ticket = NoTicket
      BY <1>2, <2>1, <2>2, NamesAssumption DEF Attached, Ticket
    <3>3. \A q \in Call : run[q] # "none" => run'[q] # "none" /\ call'[q].ticket = call[q].ticket
      BY <2>1, <2>2
    <3>a. Absent.status = "none"
      BY DEF Absent
    <3>b. \A d \in Call : call'[d].ticket # NoTicket => ticket'[call'[d].ticket] # Absent
      BY <2>1, <2>2, <3>a DEF Attached, Exists, TypeOK, CallRec
    <3>c. ASSUME NEW q \in Seq(Call), NEW k \in Call PROVE Append(q, k) # <<>>
      <4>1. Len(Append(q, k)) = Len(q) + 1 /\ Len(q) \in Nat
        OBVIOUS
      <4>2. Len(<<>>) = 0
        OBVIOUS
      <4> QED
        BY <4>1, <4>2
    <3>d. call[c].seen \in Seq(Call)
      BY <1>0 DEF CallRec
    <3>e. call[c].pc = "mark" => ticket[t].runs # <<>>
      BY <1>2 DEF Attached
    <3>f. ticket[t].runs # <<>> => x.runs # <<>>
      BY <2>1, <3>c, <3>d
    <3>g. r.pc = "mark" \/ x.status = "running" => x.runs # <<>>
      BY <2>1, <3>c, <3>d, <3>e, <3>f DEF Attached
    <3>h. ASSUME NEW d \in Call, call'[d].pc = "mark" PROVE ticket'[call'[d].ticket].runs # <<>>
      <4>1. CASE d = c
        BY <1>2, <2>1, <2>2, <3>g, <3>h, <4>1
      <4>2. CASE d # c
        <5>1. call[d].pc = "mark" /\ call'[d].ticket = call[d].ticket /\ call[d].ticket \in Ticket
              /\ ticket[call[d].ticket].runs # <<>>
          BY <2>2, <3>h, <4>2 DEF Attached, TypeOK, CallRec
        <5> QED
          BY <2>2, <3>f, <5>1
      <4> QED
        BY <4>1, <4>2
    <3>i. \A u \in Ticket : ticket'[u].status = "running" => ticket'[u].runs # <<>>
      BY <2>2, <3>g DEF Attached
    <3>4. ASSUME NEW s \in Seq(Call), NEW u, OfTicket(s, u)
          PROVE  \A i \in 1 .. Len(s) : call'[s[i]].ticket = u /\ run'[s[i]] # "none"
      BY <3>3, <3>4, OfTicketKept
    <3>5. \A i \in 1 .. Len(x.runs) : call'[x.runs[i]].ticket = t /\ run'[x.runs[i]] # "none"
      <4>1. CASE x.runs = ticket[t].runs
        <5>1. ticket[t].runs \in Seq(Call) /\ OfTicket(ticket[t].runs, t)
          BY <2>0 DEF Attached, TicketRec
        <5> QED
          BY <3>4, <4>1, <5>1
      <4>2. CASE call[c].pc = "write" /\ x.runs = Append(call[c].seen, c)
        <5>1. OfTicket(call[c].seen, t)
          BY <1>2, <4>2 DEF Attached
        <5>2. \A i \in 1 .. Len(call[c].seen) :
                 call'[call[c].seen[i]].ticket = t /\ run'[call[c].seen[i]] # "none"
          BY <3>4, <3>d, <5>1
        <5>3. /\ Len(x.runs) = Len(call[c].seen) + 1
              /\ \A i \in 1 .. Len(call[c].seen) : x.runs[i] = call[c].seen[i]
              /\ x.runs[Len(call[c].seen) + 1] = c
          BY <3>d, <4>2
        <5>4. call'[c].ticket = t /\ run'[c] # "none"
          BY <1>2, <2>0, <2>1, <2>2
        <5>5. Len(call[c].seen) \in Nat
          BY <3>d
        <5>6. ASSUME NEW i \in 1 .. Len(x.runs) PROVE call'[x.runs[i]].ticket = t /\ run'[x.runs[i]] # "none"
          <6>1. i \in 1 .. Len(call[c].seen) \/ i = Len(call[c].seen) + 1
            BY <5>3, <5>5
          <6>2. CASE i \in 1 .. Len(call[c].seen)
            BY <5>2, <5>3, <6>2
          <6>3. CASE i = Len(call[c].seen) + 1
            BY <5>3, <5>4, <6>3
          <6> QED
            BY <6>1, <6>2, <6>3
        <5> QED
          BY <5>6
      <4> QED
        BY <2>1, <4>1, <4>2
    <3>6. ASSUME NEW u \in Ticket PROVE OfTicket(ticket[u].runs, u)'
      <4>1. CASE u = t
        BY <2>2, <3>5, <4>1 DEF OfTicket
      <4>2. CASE u # t
        <5>1. ticket[u].runs \in Seq(Call) /\ OfTicket(ticket[u].runs, u) /\ ticket'[u] = ticket[u]
          BY <2>2, <4>2 DEF Attached, TypeOK, TicketRec
        <5>2. \A i \in 1 .. Len(ticket[u].runs) : call'[ticket[u].runs[i]].ticket = u /\ run'[ticket[u].runs[i]] # "none"
          BY <3>4, <5>1
        <5> QED
          BY <5>1, <5>2 DEF OfTicket
      <4> QED
        BY <4>1, <4>2
    <3>7. ASSUME NEW d \in Call, call'[d].pc = "write" PROVE OfTicket(call[d].seen, call[d].ticket)'
      <4>1. CASE d = c
        <5>1. r.pc = "write" /\ r.seen = ticket[t].runs /\ x = ticket[t] /\ r.ticket = t
          BY <1>2, <2>1, <2>2, <3>7, <4>1
        <5> QED
          BY <2>2, <3>5, <4>1, <5>1 DEF OfTicket
      <4>2. CASE d # c
        <5>1. call[d].seen \in Seq(Call) /\ OfTicket(call[d].seen, call[d].ticket) /\ call'[d] = call[d]
          BY <2>2, <3>7, <4>2 DEF Attached, TypeOK, CallRec
        <5>2. \A i \in 1 .. Len(call[d].seen) :
                 call'[call[d].seen[i]].ticket = call[d].ticket /\ run'[call[d].seen[i]] # "none"
          BY <3>4, <5>1
        <5> QED
          BY <5>1, <5>2 DEF OfTicket
      <4> QED
        BY <4>1, <4>2
    <3> QED
      BY <3>1, <3>2, <3>b, <3>h, <3>i, <3>6, <3>7 DEF Attached, Exists
  <2> QED
    BY <2>3, <2>5
<1>3. CASE ReadRuns(c) \/ WriteRuns(c) \/ MarkRunning(c)
  <2>1. call[c].ticket \in Ticket
    BY <1>0, <1>3 DEF ReadRuns, WriteRuns, MarkRunning, Attached, CallRec
  <2> QED
    BY <1>2, <1>3, <2>1
<1> QED
  BY <1>1, <1>3

LEMMA TicketInvNext == TicketInv /\ [Next]_vars => TicketInv'
<1> SUFFICES ASSUME TicketInv, [Next]_vars PROVE TicketInv'
  OBVIOUS
<1>0. TypeOK
  BY DEF TicketInv
<1>1. ASSUME NEW c \in Call, AskTicket(c) \/ RunTicket(c) \/ AskResume(c) \/ Look(c) \/ NextNumber(c) \/ Reread(c)
      PROVE  TicketInv'
  BY <1>0, <1>1, RequestTypes, TicketStepTypes, AskKeeps
<1>2. ASSUME NEW c \in Call, Insert(c) \/ CreateByHand(c) PROVE TicketInv'
  BY <1>0, <1>2, RequestTypes, TicketStepTypes, MakeKeeps
<1>3. ASSUME NEW c \in Call,
             \/ CreateRun(c) \/ TakeLock(c) \/ CheckQuota(c) \/ Unlock(c) \/ DeleteKey(c)
             \/ Publish(c) \/ ResumeQuota(c) \/ ResumePublish(c)
      PROVE  TicketInv'
  BY <1>0, <1>3, RequestTypes, RunStepTypes, RunStepKeeps
<1>4. ASSUME NEW c \in Call, CreateRow(c) \/ ReadRuns(c) \/ WriteRuns(c) \/ MarkRunning(c) PROVE TicketInv'
  <2>1. CASE CreateRow(c)
    BY <1>0, <2>1, RunStepTypes, AttachKeeps
  <2>2. CASE ReadRuns(c) \/ WriteRuns(c) \/ MarkRunning(c)
    <3>1. call[c].ticket # NoTicket
      BY <2>2 DEF ReadRuns, WriteRuns, MarkRunning, TicketInv, Attached
    <3> QED
      BY <1>0, <2>2, <3>1, AttachTypes, AttachKeeps
  <2> QED
    BY <1>4, <2>1, <2>2
<1>5. CASE (\E r \in Call : RunMoves(r)) \/ Expire \/ (\E p \in Process : Crash(p)) \/ UNCHANGED vars
  BY <1>0, <1>5, WorldTypes, WorldKeeps
<1> QED
  BY <1>1, <1>2, <1>3, <1>4, <1>5 DEF Next, Step

LEMMA TicketsAreSound == Spec => []TicketInv
BY TicketInvInit, TicketInvNext, PTL DEF Spec

\* One ticket for one source, whoever asks for it at once and however often: all answers
\* name it, and no two tickets for sources bear one number.
THEOREM OneTicket == Spec => []OneTicketPerSource
<1>1. TicketInv => OneTicketPerSource
  <2> SUFFICES ASSUME TicketInv, NEW c \in Call, call[c].pc = "answered", call[c].source # NoTicket
               PROVE  /\ OfSource(call[c].source) = {call[c].ticket}
                      /\ \A t \in Ticket \ {call[c].ticket} :
                            Exists(t) /\ ticket[t].source # NoTicket
                                => ticket[t].number # ticket[call[c].ticket].number
    BY DEF OneTicketPerSource
  <2> USE DEF TicketInv
  <2>1. call[c].ticket \in OfSource(call[c].source)
    BY DEF Sourced
  <2>2. call[c].ticket \in Ticket /\ ticket[call[c].ticket].source = call[c].source
    BY <2>1 DEF OfSource
  <2>3. ASSUME NEW t \in Ticket, ticket[t].source # NoTicket, ticket[t].number = ticket[call[c].ticket].number
        PROVE  t = call[c].ticket
    BY <2>2, <2>3 DEF Sourced, Numbered
  <2>4. \A t \in OfSource(call[c].source) : t = call[c].ticket
    BY <2>2 DEF Sourced, OfSource
  <2> QED
    BY <2>1, <2>3, <2>4
<1> QED
  BY <1>1, TicketsAreSound, PTL

\* A ticket that counts as running shows a run that was made for it and is in the table: no
\* death of a process on the way, and no list written over another, leaves it without one.
THEOREM TicketsShowTheirRuns == Spec => []TicketShowsItsRun
<1>1. TicketInv => TicketShowsItsRun
  <2> SUFFICES ASSUME TicketInv, NEW t \in Ticket, ticket[t].status = "running"
               PROVE  \E c \in Call : LatestRun(t) = c /\ call[c].ticket = t /\ run[c] # "none"
    BY DEF TicketShowsItsRun
  <2> USE DEF TicketInv
  <2>1. PICK s \in Seq(Call) : s = ticket[t].runs
    BY DEF TypeOK, TicketRec
  <2>2. s # <<>> /\ OfTicket(s, t)
    BY <2>1 DEF Attached
  <2>3. Len(s) \in 1 .. Len(s) /\ s[Len(s)] \in Call
    BY <2>2
  <2>4. LatestRun(t) = s[Len(s)]
    BY <2>1, <2>2 DEF LatestRun, Last
  <2> QED
    BY <2>2, <2>3, <2>4 DEF OfTicket
<1> QED
  BY <1>1, TicketsAreSound, PTL

-----------------------------------------------------------------------------
(* The quota *)

Holders == {c \in Call : InSection(c)}

Held == \E c \in Holders : proc[c] = lock

\* One call in the section, and one more for every lock that expired under its holder.
Guarded == Cardinality(Holders) <= expiries + (IF Held THEN 1 ELSE 0)

\* The runs that count, and those about to be made: the quota has let each of them in.
Claims == {c \in Call : run[c] \in ACTIVE \/ call[c].pc = "create"}

\* No Worker has a run before it is published.
Fresh ==
    \A c \in Call : call[c].pc \in {"unlock", "delete", "publish"} /\ run[c] # "none" => run[c] = "running"

QuotaInv == TicketInv /\ Guarded /\ Fresh /\ Cardinality(Claims) <= quota + expiries

LEMMA Sizes ==
    ASSUME NEW S, S \subseteq Call
    PROVE  IsFiniteSet(S) /\ Cardinality(S) \in Nat
BY CallsAssumption, FS_Subset, FS_CardinalityType

LEMMA Smaller ==
    ASSUME NEW S, NEW T, S \subseteq T, T \subseteq Call
    PROVE  Cardinality(S) <= Cardinality(T)
BY Sizes, FS_Subset

LEMMA OneMore ==
    ASSUME NEW S, NEW T, NEW c, S \subseteq T \cup {c}, T \subseteq Call, S \subseteq Call
    PROVE  Cardinality(S) <= Cardinality(T) + 1
<1>1. IsFiniteSet(T) /\ Cardinality(T) \in Nat
  BY Sizes
<1>2. IsFiniteSet(T \cup {c}) /\ Cardinality(T \cup {c}) <= Cardinality(T) + 1
  BY <1>1, FS_AddElement
<1>3. Cardinality(S) <= Cardinality(T \cup {c}) /\ Cardinality(S) \in Nat /\ Cardinality(T \cup {c}) \in Nat
  BY <1>2, Sizes, FS_Subset, FS_CardinalityType
<1> QED
  BY <1>1, <1>2, <1>3

LEMMA OneLess ==
    ASSUME NEW S, NEW T, NEW c \in T, S \subseteq T \ {c}, T \subseteq Call
    PROVE  Cardinality(S) <= Cardinality(T) - 1
<1>1. IsFiniteSet(T) /\ Cardinality(T \ {c}) = Cardinality(T) - 1
  BY Sizes, FS_RemoveElement
<1>2. Cardinality(S) <= Cardinality(T \ {c})
  BY Smaller
<1> QED
  BY <1>1, <1>2

\* Who is in the section, and which runs count, after a step of one call.
LEMMA OthersStay ==
    ASSUME TypeOK, NEW c \in Call, UNCHANGED proc, \A d \in Call \ {c} : call'[d] = call[d]
    PROVE  /\ Holders' \ {c} = Holders \ {c}
           /\ c \in Holders' <=> call'[c].pc \in {"quota", "create", "unlock", "delete"}
           /\ c \in Holders <=> call[c].pc \in {"quota", "create", "unlock", "delete"}
BY DEF Holders, InSection

\* Nobody enters or leaves the section, and the lock stays.
LEMMA SameSection ==
    ASSUME QuotaInv, Holders' = Holders, UNCHANGED <<proc, lock, expiries>>
    PROVE  Guarded'
BY DEF QuotaInv, Guarded, Held

\* A holder leaves the section, and if the lock was in its name it is free.
LEMMA LeavesSection ==
    ASSUME QuotaInv, NEW c \in Holders, Holders' = Holders \ {c}, UNCHANGED <<proc, expiries>>,
           lock' = Free \/ (lock' = lock /\ lock # proc[c])
    PROVE  Guarded'
<1>1. Cardinality(Holders') <= Cardinality(Holders) - 1
  BY OneLess DEF Holders
<1>2. Cardinality(Holders') \in Nat /\ Cardinality(Holders) \in Nat /\ expiries \in Nat
  BY Sizes DEF Holders, QuotaInv, TicketInv, TypeOK
<1>3. lock' = lock /\ lock # proc[c] /\ Held => Held'
  BY DEF Held
<1>4. CASE lock' = lock /\ lock # proc[c] /\ ~Held
  BY <1>1, <1>2, <1>4 DEF Guarded, QuotaInv
<1>5. CASE lock' = lock /\ lock # proc[c] /\ Held
  BY <1>1, <1>2, <1>3, <1>5 DEF Guarded, QuotaInv
<1>6. CASE lock' = Free
  BY <1>1, <1>2, <1>6 DEF Guarded, QuotaInv
<1> QED
  BY <1>4, <1>5, <1>6

\* No run is made or let in.
LEMMA FewerClaims ==
    ASSUME QuotaInv, TypeOK', Claims' \subseteq Claims, expiries' >= expiries, UNCHANGED quota
    PROVE  Cardinality(Claims') <= quota' + expiries'
<1>1. Cardinality(Claims') <= Cardinality(Claims)
  BY Smaller DEF Claims
<1>2. Cardinality(Claims') \in Nat /\ Cardinality(Claims) \in Nat /\ expiries \in Nat /\ expiries' \in Nat /\ quota \in Nat
  BY Sizes DEF Claims, QuotaInv, TicketInv, TypeOK
<1> QED
  BY <1>1, <1>2 DEF QuotaInv

\* A call that is outside the section before and after.
LEMMA OutsideKeeps ==
    ASSUME QuotaInv, TypeOK', NEW c \in Call,
           \/ AskTicket(c) \/ RunTicket(c) \/ AskResume(c) \/ Look(c) \/ NextNumber(c) \/ Reread(c)
           \/ Insert(c) \/ CreateByHand(c) \/ CreateRun(c) \/ Publish(c) \/ ResumeQuota(c)
           \/ ResumePublish(c) \/ ReadRuns(c) \/ WriteRuns(c) \/ MarkRunning(c)
    PROVE  Guarded' /\ Fresh' /\ Cardinality(Claims') <= quota' + expiries'
<1> USE DEF QuotaInv, TicketInv
<1>t. TypeOK
  OBVIOUS
<1>1. /\ UNCHANGED <<proc, quota, lock, expiries>>
      /\ \A d \in Call \ {c} : call'[d] = call[d]
      /\ call[c].pc \notin {"quota", "create", "unlock", "delete"}
      /\ call'[c].pc \notin {"quota", "create", "unlock", "delete"}
      /\ call'[c].pc # "publish"
  <2>1. CASE \/ AskTicket(c) \/ CreateByHand(c) \/ RunTicket(c) \/ CreateRun(c) \/ AskResume(c)
    <3>1. CASE AskTicket(c)
      <4>1. PICK s \in Source : call' = [call EXCEPT ![c].pc = "look", ![c].source = s]
        BY <3>1 DEF AskTicket
      <4> QED
        BY <3>1, <4>1, <1>t DEF AskTicket, setting, TypeOK, CallRec
    <3>2. CASE CreateByHand(c)
      BY <3>2, <1>t DEF CreateByHand, setting, TypeOK, CallRec
    <3>3. CASE RunTicket(c)
      BY <3>3, <1>t DEF RunTicket, Checked, setting, TypeOK, CallRec
    <3>4. CASE CreateRun(c)
      BY <3>4, <1>t DEF CreateRun, Checked, Go, setting, TypeOK, CallRec
    <3>5. CASE AskResume(c)
      <4>1. PICK r \in Call : call' = [call EXCEPT ![c].pc = "resumeQuota", ![c].run = r]
        BY <3>5 DEF AskResume
      <4> QED
        BY <3>5, <4>1, <1>t DEF AskResume, setting, TypeOK, CallRec
    <3> QED
      BY <2>1, <3>1, <3>2, <3>3, <3>4, <3>5
  <2>2. CASE Look(c) \/ NextNumber(c) \/ Reread(c) \/ Insert(c)
    <3>1. CASE Look(c)
      BY <3>1, <1>t DEF Look, Go, setting, TypeOK, CallRec
    <3>2. CASE NextNumber(c)
      BY <3>2, <1>t DEF NextNumber, setting, TypeOK, CallRec
    <3>3. CASE Reread(c)
      <4>1. PICK s \in Ticket : call' = [call EXCEPT ![c].pc = "answered", ![c].ticket = s]
        BY <3>3 DEF Reread, OfSource
      <4> QED
        BY <3>3, <4>1, <1>t DEF Reread, setting, TypeOK, CallRec
    <3>4. CASE Insert(c)
      BY <3>4, <1>t DEF Insert, Go, setting, TypeOK, CallRec
    <3> QED
      BY <2>2, <3>1, <3>2, <3>3, <3>4
  <2>3. CASE Publish(c) \/ ResumeQuota(c) \/ ResumePublish(c)
    BY <2>3, <1>t DEF Publish, ResumeQuota, ResumePublish, Go, setting, TypeOK, CallRec
  <2>4. CASE ReadRuns(c) \/ WriteRuns(c) \/ MarkRunning(c)
    BY <2>4, <1>t DEF ReadRuns, WriteRuns, MarkRunning, Go, setting, TypeOK, CallRec
  <2> QED
    BY <2>1, <2>2, <2>3, <2>4
<1>2. \A r \in Call : /\ run'[r] \in ACTIVE => run[r] \in ACTIVE
                      /\ r # c /\ run[r] \in {"none", "running"} => run'[r] = run[r]
  <2>1. CASE Publish(c)
    <3>1. run[c] = "running"
      BY <2>1 DEF Publish, Attached, Fresh
    <3> QED
      BY <1>t, <2>1, <3>1 DEF Publish, TypeOK, ACTIVE
  <2>2. CASE ResumePublish(c)
    BY <1>t, <2>2 DEF ResumePublish, TypeOK, ACTIVE, Runs
  <2>3. CASE ~Publish(c) /\ ~ResumePublish(c)
    <3>1. run' = run
      BY <2>3 DEF AskTicket, RunTicket, AskResume, Look, NextNumber, Reread, Insert, CreateByHand, CreateRun,
         ResumeQuota, ReadRuns, WriteRuns, MarkRunning
    <3> QED
      BY <3>1
  <2> QED
    BY <2>1, <2>2, <2>3
<1>3. Holders' = Holders
  BY <1>t, <1>1, OthersStay DEF Holders
<1>4. Claims' \subseteq Claims
  <2> SUFFICES ASSUME NEW d \in Call, run'[d] \in ACTIVE \/ call'[d].pc = "create"
               PROVE  run[d] \in ACTIVE \/ call[d].pc = "create"
    BY DEF Claims
  <2>1. d = c => call'[d].pc # "create"
    BY <1>1
  <2>2. d # c => call'[d] = call[d]
    BY <1>1
  <2> QED
    BY <1>2, <2>1, <2>2
<1>5. \A r \in Call : run[r] = "none" => run'[r] = "none"
  BY <1>t DEF AskTicket, RunTicket, AskResume, Look, NextNumber, Reread, Insert, CreateByHand, CreateRun,
     ResumeQuota, ReadRuns, WriteRuns, MarkRunning, Publish, ResumePublish, TypeOK, Attached
<1>6. Fresh'
  <2> SUFFICES ASSUME NEW d \in Call, call'[d].pc \in {"unlock", "delete", "publish"}, run'[d] # "none"
               PROVE  run'[d] = "running"
    BY DEF Fresh
  <2>1. d # c /\ call'[d] = call[d]
    BY <1>1
  <2>2. run[d] = "running"
    BY <1>5, <2>1 DEF Fresh
  <2> QED
    BY <1>2, <2>1, <2>2
<1> QED
  BY <1>1, <1>3, <1>4, <1>6, SameSection, FewerClaims DEF TypeOK

LEMMA SectionKeeps ==
    ASSUME QuotaInv, TypeOK', NEW c \in Call,
           TakeLock(c) \/ CheckQuota(c) \/ CreateRow(c) \/ Unlock(c) \/ DeleteKey(c)
    PROVE  Guarded' /\ Fresh' /\ Cardinality(Claims') <= quota' + expiries'
<1> USE DEF QuotaInv, TicketInv
<1>t. TypeOK
  OBVIOUS
<1>n. /\ expiries \in Nat /\ quota \in Nat
      /\ \A S \in SUBSET Call : IsFiniteSet(S) /\ Cardinality(S) \in Nat
  BY <1>t, Sizes DEF TypeOK
<1>s. Holders \subseteq Call /\ Holders' \subseteq Call /\ Claims \subseteq Call /\ Claims' \subseteq Call
  BY DEF Holders, Claims
<1>1. CASE TakeLock(c)
  <2>1. /\ UNCHANGED <<proc, quota, expiries, run>> /\ call[c].pc = "lock"
        /\ \A d \in Call \ {c} : call'[d] = call[d]
        /\ \/ lock = Free /\ lock' = proc[c] /\ call'[c].pc = "quota"
           \/ lock' = lock /\ call'[c].pc = "refused"
    BY <1>1, <1>t DEF TakeLock, Acquire, Token, Go, setting, TypeOK, CallRec
  <2>2. Claims' \subseteq Claims
    BY <2>1 DEF Claims
  <2>3. Fresh'
    BY <2>1 DEF Fresh
  <2>4. CASE lock' = lock /\ call'[c].pc = "refused"
    <3>1. Holders' = Holders
      BY <1>t, <2>1, <2>4, OthersStay DEF Holders
    <3> QED
      BY <2>1, <2>2, <2>3, <2>4, <3>1, SameSection, FewerClaims, <1>n
  <2>5. CASE lock = Free /\ lock' = proc[c] /\ call'[c].pc = "quota"
    <3>1. Holders' \subseteq Holders \cup {c} /\ c \in Holders'
      BY <1>t, <2>1, <2>5, OthersStay
    <3>2. ~Held /\ Held'
      BY <1>t, <2>1, <2>5, <3>1, NamesAssumption DEF Held, TypeOK, Holders
    <3>3. Cardinality(Holders') <= Cardinality(Holders) + 1
      BY <1>s, <3>1, OneMore
    <3>4. Cardinality(Holders') \in Nat /\ Cardinality(Holders) \in Nat
      BY <1>n, <1>s
    <3>5. Guarded'
      BY <1>n, <2>1, <3>2, <3>3, <3>4 DEF Guarded
    <3> QED
      BY <2>1, <2>2, <2>3, <3>5, FewerClaims, <1>n
  <2> QED
    BY <2>1, <2>4, <2>5
<1>2. CASE CheckQuota(c)
  <2>1. /\ UNCHANGED <<proc, quota, expiries, run, lock>> /\ call[c].pc = "quota"
        /\ \A d \in Call \ {c} : call'[d] = call[d]
        /\ \/ HasRoom /\ call'[c].pc = "create"
           \/ call'[c].pc = "unlock"
    BY <1>2, <1>t DEF CheckQuota, Go, setting, TypeOK, CallRec
  <2>2. Holders' = Holders
    BY <1>t, <2>1, OthersStay DEF Holders
  <2>3. Guarded'
    BY <2>1, <2>2, SameSection
  <2>4. run[c] = "none"
    BY <2>1 DEF Attached, Made
  <2>5. Fresh'
    BY <2>1, <2>4 DEF Fresh
  <2>6. CASE call'[c].pc = "unlock"
    <3>1. Claims' \subseteq Claims
      BY <2>1, <2>6 DEF Claims
    <3> QED
      BY <2>1, <2>3, <2>5, <3>1, FewerClaims, <1>n
  <2>7. CASE HasRoom /\ call'[c].pc = "create"
    <3> DEFINE A == {r \in Call : run[r] \in ACTIVE}
    <3>1. Claims' \subseteq A \cup Holders
      BY <2>1, <2>7, <2>2 DEF Claims, Holders, InSection
    <3>2. Cardinality(A) < quota
      BY <2>7 DEF HasRoom, ActiveRuns
    <3>3. Cardinality(Holders) <= expiries + 1
      BY <1>n, <1>s DEF Guarded
    <3>4. IsFiniteSet(A) /\ IsFiniteSet(Holders) /\ Cardinality(A) \in Nat /\ Cardinality(Holders) \in Nat
      BY <1>n, <1>s
    <3> HIDE DEF A
    <3>5. Cardinality(A \cup Holders) <= Cardinality(A) + Cardinality(Holders)
      <4>1. /\ IsFiniteSet(A \cap Holders)
            /\ Cardinality(A \cup Holders) = Cardinality(A) + Cardinality(Holders) - Cardinality(A \cap Holders)
        BY <3>4, FS_Union, FS_Intersection
      <4>2. Cardinality(A \cap Holders) \in Nat
        BY <4>1, FS_CardinalityType
      <4> QED
        BY <3>4, <4>1, <4>2
    <3>6. A \cup Holders \subseteq Call
      BY <1>s DEF A
    <3>7. Cardinality(Claims') <= Cardinality(A \cup Holders)
      BY <3>1, <3>6, Smaller
    <3>8. Cardinality(Claims') \in Nat /\ Cardinality(A \cup Holders) \in Nat
      BY <1>n, <1>s, <3>6
    <3>9. Cardinality(Claims') <= quota + expiries
      BY <1>n, <3>2, <3>3, <3>4, <3>5, <3>7, <3>8
    <3> QED
      BY <2>1, <2>3, <2>5, <3>9
  <2> QED
    BY <2>1, <2>6, <2>7
<1>3. CASE CreateRow(c)
  <2>1. /\ UNCHANGED <<proc, quota, expiries, lock>> /\ call[c].pc = "create"
        /\ \A d \in Call \ {c} : call'[d] = call[d] /\ run'[d] = run[d]
        /\ call'[c].pc = "unlock" /\ run'[c] = "running"
    BY <1>3, <1>t DEF CreateRow, setting, TypeOK, CallRec
  <2>2. Holders' = Holders
    BY <1>t, <2>1, OthersStay DEF Holders
  <2>3. Guarded'
    BY <2>1, <2>2, SameSection
  <2>4. Claims' \subseteq Claims
    BY <2>1 DEF Claims
  <2>5. Fresh'
    BY <2>1 DEF Fresh
  <2> QED
    BY <2>1, <2>3, <2>4, <2>5, FewerClaims, <1>n
<1>4. CASE Unlock(c) \/ DeleteKey(c)
  <2>1. /\ UNCHANGED <<proc, quota, expiries, run>> /\ call[c].pc \in {"unlock", "delete"}
        /\ \A d \in Call \ {c} : call'[d] = call[d]
        /\ \/ call'[c].pc = "delete" /\ lock' = lock
           \/ /\ call'[c].pc \in {"publish", "refused"}
              /\ lock' = Free \/ (lock' = lock /\ lock # proc[c])
    <3>1. CASE Unlock(c)
      BY <3>1, <1>t DEF Unlock, Mine, Token, Go, setting, TypeOK, CallRec
    <3>2. CASE DeleteKey(c)
      BY <3>2, <1>t DEF DeleteKey, Go, setting, TypeOK, CallRec
    <3> QED
      BY <1>4, <3>1, <3>2
  <2>2. Claims' \subseteq Claims
    BY <2>1 DEF Claims
  <2>3. Fresh'
    BY <2>1 DEF Fresh
  <2>4. CASE call'[c].pc = "delete" /\ lock' = lock
    <3>1. Holders' = Holders
      BY <1>t, <2>1, <2>4, OthersStay DEF Holders
    <3> QED
      BY <2>1, <2>2, <2>3, <2>4, <3>1, SameSection, FewerClaims, <1>n
  <2>5. CASE call'[c].pc \in {"publish", "refused"} /\ (lock' = Free \/ (lock' = lock /\ lock # proc[c]))
    <3>1. c \in Holders /\ Holders' = Holders \ {c}
      BY <1>t, <2>1, <2>5, OthersStay
    <3>2. Guarded'
      BY <2>1, <2>5, <3>1, LeavesSection
    <3> QED
      BY <2>1, <2>2, <2>3, <3>2, FewerClaims, <1>n
  <2> QED
    BY <2>1, <2>4, <2>5
<1> QED
  BY <1>1, <1>2, <1>3, <1>4

LEMMA WorldKeepsQuota ==
    ASSUME QuotaInv, TypeOK',
           (\E r \in Call : RunMoves(r)) \/ Expire \/ (\E p \in Process : Crash(p)) \/ UNCHANGED vars
    PROVE  Guarded' /\ Fresh' /\ Cardinality(Claims') <= quota' + expiries'
<1> USE DEF QuotaInv, TicketInv
<1>t. TypeOK
  OBVIOUS
<1>n. /\ expiries \in Nat /\ quota \in Nat
      /\ \A S \in SUBSET Call : IsFiniteSet(S) /\ Cardinality(S) \in Nat
  BY <1>t, Sizes DEF TypeOK
<1>s. Holders \subseteq Call /\ Holders' \subseteq Call /\ Claims \subseteq Call /\ Claims' \subseteq Call
  BY DEF Holders, Claims
<1>1. ASSUME NEW r \in Call, RunMoves(r) PROVE Guarded' /\ Fresh' /\ Cardinality(Claims') <= quota' + expiries'
  <2>1. /\ UNCHANGED <<proc, quota, expiries, lock, call>>
        /\ \A d \in Call \ {r} : run'[d] = run[d]
        /\ run[r] \in ACTIVE
        /\ run'[r] = "running" \/ call[r].pc \notin {"unlock", "delete", "publish"}
    BY <1>1, <1>t DEF RunMoves, setting, TypeOK, ACTIVE
  <2>2. Holders' = Holders
    BY <2>1 DEF Holders, InSection
  <2>3. Claims' \subseteq Claims
    BY <2>1 DEF Claims
  <2>4. run[r] # "none"
    BY <2>1 DEF ACTIVE
  <2>5. Fresh'
    BY <2>1, <2>4 DEF Fresh
  <2> QED
    BY <2>1, <2>2, <2>3, <2>5, SameSection, FewerClaims, <1>n
<1>2. CASE Expire
  <2>1. /\ UNCHANGED <<proc, quota, run, call>> /\ lock # Free /\ lock' = Free
        /\ expiries' = IF Held THEN expiries + 1 ELSE expiries
    BY <1>2 DEF Expire, setting, Held, Holders
  <2>2. Holders' = Holders /\ Claims' = Claims /\ Fresh'
    BY <2>1 DEF Holders, InSection, Claims, Fresh
  <2>3. Cardinality(Holders) \in Nat
    BY <1>n, <1>s
  <2>4. Guarded'
    BY <1>n, <2>1, <2>2, <2>3 DEF Guarded
  <2>5. Cardinality(Claims') <= quota' + expiries'
    BY <1>n, <2>1, <2>2, FewerClaims
  <2> QED
    BY <2>2, <2>4, <2>5
<1>3. ASSUME NEW p \in Process, Crash(p) PROVE Guarded' /\ Fresh' /\ Cardinality(Claims') <= quota' + expiries'
  <2>1. /\ UNCHANGED <<proc, quota, run, expiries>>
        /\ lock' = lock \/ (lock' = Free /\ lock = p)
        /\ \A d \in Call : call'[d] = call[d] \/ (proc[d] = p /\ call'[d].pc = "dead")
        /\ \A d \in Call : proc[d] = p /\ InSection(d) => call'[d].pc = "dead"
    BY <1>3, <1>t DEF Crash, setting, InSection, Over, TypeOK, CallRec
  <2>2. Holders' \subseteq Holders /\ \A d \in Holders : proc[d] = p => d \notin Holders'
    BY <2>1 DEF Holders, InSection
  <2>3. \A d \in Holders : proc[d] # p => d \in Holders'
    BY <2>1 DEF Holders, InSection
  <2>4. Claims' \subseteq Claims /\ Fresh'
    BY <2>1 DEF Claims, Fresh
  <2>5. Cardinality(Holders') \in Nat /\ Cardinality(Holders) \in Nat
    BY <1>n, <1>s
  <2>6. Cardinality(Holders') <= Cardinality(Holders)
    BY <1>s, <2>2, Smaller
  <2>7. ASSUME ~Held PROVE Guarded'
    <3>1. Cardinality(Holders) <= expiries
      BY <1>n, <2>5, <2>7 DEF Guarded
    <3>2. Cardinality(Holders') <= expiries'
      BY <1>n, <2>1, <2>5, <2>6, <3>1
    <3> QED
      BY <1>n, <2>1, <2>5, <3>2 DEF Guarded
  <2>8. ASSUME NEW d \in Holders, proc[d] = lock PROVE Guarded'
    <3>1. CASE lock = p
      <4>1. Holders' \subseteq Holders \ {d}
        BY <2>2, <2>8, <3>1
      <4>2. Cardinality(Holders') <= Cardinality(Holders) - 1
        BY <1>s, <4>1, OneLess
      <4>3. Cardinality(Holders) <= expiries + 1
        BY <1>n, <2>5 DEF Guarded
      <4> QED
        BY <1>n, <2>1, <2>5, <4>2, <4>3 DEF Guarded
    <3>2. CASE lock # p
      <4>1. lock' = lock /\ d \in Holders'
        BY <2>1, <2>3, <2>8, <3>2
      <4>2. Held /\ Held'
        BY <2>1, <2>8, <4>1 DEF Held
      <4> QED
        BY <1>n, <2>1, <2>5, <2>6, <4>2 DEF Guarded
    <3> QED
      BY <3>1, <3>2
  <2>9. Guarded'
    BY <2>7, <2>8 DEF Held
  <2> QED
    BY <1>n, <2>1, <2>4, <2>9, FewerClaims
<1>4. CASE UNCHANGED vars
  <2>1. UNCHANGED <<proc, quota, run, expiries, call, lock>>
    BY <1>4 DEF vars, setting
  <2>2. Holders' = Holders /\ Claims' = Claims /\ Fresh'
    BY <2>1 DEF Holders, InSection, Claims, Fresh
  <2> QED
    BY <2>1, <2>2, SameSection, FewerClaims, <1>n
<1> QED
  BY <1>1, <1>2, <1>3, <1>4

LEMMA QuotaInvInit == Init => QuotaInv
<1> SUFFICES ASSUME Init PROVE QuotaInv
  OBVIOUS
<1>1. Holders = {} /\ Claims = {} /\ Fresh
  BY DEF Init, Holders, InSection, Claims, ACTIVE, Fresh
<1>2. Cardinality({}) = 0
  BY FS_EmptySet
<1>3. quota \in Nat /\ expiries = 0
  BY QuotaAssumption DEF Init
<1> QED
  BY <1>1, <1>2, <1>3, TicketInvInit DEF QuotaInv, Guarded

LEMMA QuotaInvNext == QuotaInv /\ [Next]_vars => QuotaInv'
<1> SUFFICES ASSUME QuotaInv, [Next]_vars PROVE QuotaInv'
  OBVIOUS
<1>1. TicketInv'
  BY TicketInvNext DEF QuotaInv
<1>2. TypeOK'
  BY <1>1 DEF TicketInv
<1>3. ASSUME NEW c \in Call,
             \/ AskTicket(c) \/ RunTicket(c) \/ AskResume(c) \/ Look(c) \/ NextNumber(c) \/ Reread(c)
             \/ Insert(c) \/ CreateByHand(c) \/ CreateRun(c) \/ Publish(c) \/ ResumeQuota(c)
             \/ ResumePublish(c) \/ ReadRuns(c) \/ WriteRuns(c) \/ MarkRunning(c)
      PROVE  QuotaInv'
  BY <1>1, <1>2, <1>3, OutsideKeeps DEF QuotaInv
<1>4. ASSUME NEW c \in Call, TakeLock(c) \/ CheckQuota(c) \/ CreateRow(c) \/ Unlock(c) \/ DeleteKey(c)
      PROVE  QuotaInv'
  BY <1>1, <1>2, <1>4, SectionKeeps DEF QuotaInv
<1>5. CASE (\E r \in Call : RunMoves(r)) \/ Expire \/ (\E p \in Process : Crash(p)) \/ UNCHANGED vars
  BY <1>1, <1>2, <1>5, WorldKeepsQuota DEF QuotaInv
<1> QED
  BY <1>3, <1>4, <1>5 DEF Next, Step

\* The tenant never has more active runs than its quota, but for one run for each lock
\* that expired under its holder: neither the two calls of a release, nor a token that a
\* whole process shares, nor a resume, nor a crash in the section lets in more.
THEOREM QuotaIsKept == Spec => []QuotaHolds
<1>1. QuotaInv => QuotaHolds
  <2> SUFFICES ASSUME QuotaInv PROVE ActiveRuns <= quota + expiries
    BY DEF QuotaHolds
  <2>1. {r \in Call : run[r] \in ACTIVE} \subseteq Claims /\ Claims \subseteq Call
    BY DEF Claims
  <2>2. Cardinality({r \in Call : run[r] \in ACTIVE}) <= Cardinality(Claims)
    BY <2>1, Smaller
  <2>3. Cardinality({r \in Call : run[r] \in ACTIVE}) \in Nat /\ Cardinality(Claims) \in Nat
    BY <2>1, Sizes
  <2>4. quota \in Nat /\ expiries \in Nat
    BY DEF QuotaInv, TicketInv, TypeOK
  <2> QED
    BY <2>2, <2>3, <2>4 DEF ActiveRuns, QuotaInv
<1> QED
  BY <1>1, QuotaInvInit, QuotaInvNext, PTL DEF Spec
=============================================================================
