------------------------------ MODULE RunCreation -----------------------------
(***************************************************************************)
(* How runs come into being: the tickets of a tenant (api/ticket_store.py),*)
(* POST /run, POST /tickets/{tid}/run (api/app.py), the quota and its      *)
(* critical section (service.py: _create, resume_run) and the lock that    *)
(* guards it (lock/redis.py, lock/memory.py).                              *)
(*                                                                         *)
(* A call is one request, a coroutine of an API process; it is split at its*)
(* awaits.  A call makes at most one ticket and one run, and names them.   *)
(* Only the status of a run is kept; the Worker, which moves it, is        *)
(* RunLifecycle's matter.                                                  *)
(*                                                                         *)
(* A lock object has one token for its whole process, so that two calls of *)
(* a process hold the lock under one name.  The in-memory lock has none at *)
(* all: there is one process then.                                         *)
(***************************************************************************)
EXTENDS Naturals, FiniteSets, Sequences, SequencesExt

CONSTANTS Call, Process, Source,
          MaxQuota,             \* bounds: the quota of a tenant,
          MaxCrashes,           \* API processes that die,
          MaxExpiries,          \* locks that expire under their holder
          Old,                  \* a ticket that is there from the start
          NoTicket, Free

ASSUME QuotaAssumption == MaxQuota \in Nat \ {0}
ASSUME CallsAssumption == IsFiniteSet(Call)
ASSUME NamesAssumption ==
    Old \notin Call /\ NoTicket \notin Call \cup {Old} \cup Source /\ Free \notin Process

VARIABLES
    redis,      \* is the lock in Redis, or in the memory of the only process?
    proc,       \* the process of a call
    quota,      \* max_concurrent_runs of the tenant
    call,       \* [pc, ticket, run, source, number, seen]
    ticket,     \* the row of a ticket, by the call that made it
    seq,        \* ticket_seq: the last number taken
    run,        \* the status of a run, by the call that made it
    lock,       \* tenant-quota:{tenant_id}: whose token it holds
    crashes, expiries

setting == <<redis, proc, quota>>

vars == <<setting, call, ticket, seq, run, lock, crashes, expiries>>

ACTIVE == {"running", "queued", "waiting_approval", "paused"}

Ticket == Call \cup {Old}

Over == {"answered", "refused", "dead"}

Absent == [source |-> NoTicket, number |-> 0, runs |-> <<>>, status |-> "none"]

ByHand == [Absent EXCEPT !.status = "new"]

Init ==
    /\ redis \in BOOLEAN
    /\ proc \in [Call -> Process]
    /\ quota \in 1 .. MaxQuota
    /\ ~redis => \E p \in Process : \A c \in Call : proc[c] = p
    /\ call = [c \in Call |-> [pc |-> "new", ticket |-> NoTicket, run |-> NoTicket,
                               source |-> NoTicket, number |-> 0, seen |-> <<>>]]
    /\ ticket = [t \in Ticket |-> IF t = Old THEN ByHand ELSE Absent]
    /\ seq = 0
    /\ run = [c \in Call |-> "none"]
    /\ lock = Free
    /\ crashes = 0 /\ expiries = 0

Exists(t) == ticket[t] # Absent

Go(c, pc) == call' = [call EXCEPT ![c].pc = pc]

-----------------------------------------------------------------------------
(* A ticket for a source: create_once *)

OfSource(s) == {t \in Ticket : Exists(t) /\ ticket[t].source = s}

AskTicket(c) ==
    /\ call[c].pc = "new"
    /\ \E s \in Source : call' = [call EXCEPT ![c].pc = "look", ![c].source = s]
    /\ UNCHANGED <<setting, ticket, seq, run, lock, crashes, expiries>>

Look(c) ==
    /\ call[c].pc = "look"
    /\ LET found == OfSource(call[c].source) IN
       IF found = {} THEN Go(c, "number")
       ELSE \E t \in found : call' = [call EXCEPT ![c].pc = "answered", ![c].ticket = t]
    /\ UNCHANGED <<setting, ticket, seq, run, lock, crashes, expiries>>

\* The number is taken after the look, so that a repeated request burns none.
NextNumber(c) ==
    /\ call[c].pc = "number"
    /\ seq' = seq + 1
    /\ call' = [call EXCEPT ![c].pc = "insert", ![c].number = seq + 1]
    /\ UNCHANGED <<setting, ticket, run, lock, crashes, expiries>>

Row(c) == [source |-> call[c].source, number |-> call[c].number, runs |-> <<>>, status |-> "new"]

\* Mutant: the table has no unique index over the source.
InsertTwice(c) ==
    /\ call[c].pc = "insert"
    /\ ticket' = [ticket EXCEPT ![c] = Row(c)]
    /\ Go(c, "reread")
    /\ UNCHANGED <<setting, seq, run, lock, crashes, expiries>>

\* ON CONFLICT (tenant_id, source_ref) DO NOTHING.
Insert(c) ==
    /\ call[c].pc = "insert"
    /\ ticket' = IF OfSource(call[c].source) = {} THEN [ticket EXCEPT ![c] = Row(c)] ELSE ticket
    /\ Go(c, "reread")
    /\ UNCHANGED <<setting, seq, run, lock, crashes, expiries>>

\* Whoever inserted it: the row that is there is the answer.
Reread(c) ==
    /\ call[c].pc = "reread"
    /\ \E t \in OfSource(call[c].source) :
          call' = [call EXCEPT ![c].pc = "answered", ![c].ticket = t]
    /\ UNCHANGED <<setting, ticket, seq, run, lock, crashes, expiries>>

\* POST /tickets: a ticket by hand has no source, and its number is the caller's.
CreateByHand(c) ==
    /\ call[c].pc = "new"
    /\ ticket' = [ticket EXCEPT ![c] = ByHand]
    /\ call' = [call EXCEPT ![c].pc = "answered", ![c].ticket = c]
    /\ UNCHANGED <<setting, seq, run, lock, crashes, expiries>>

-----------------------------------------------------------------------------
(* The lock *)

Token(c) == proc[c]

Acquire(c, key) == lock = Free /\ lock' = Token(c)

\* A lock runs out while its holder still works (early), or after its holder died.
InSection(c) == call[c].pc \in {"quota", "create", "unlock", "delete"}

Expire ==
    /\ lock # Free
    /\ LET early == \E c \in Call : InSection(c) /\ proc[c] = lock IN
       /\ early => expiries < MaxExpiries
       /\ expiries' = IF early THEN expiries + 1 ELSE expiries
    /\ lock' = Free
    /\ UNCHANGED <<setting, call, ticket, seq, run, crashes>>

Mine(c) == lock = Token(c)

\* In Redis release reads the token and deletes the key in two calls, and deletes
\* whatever is there by then; in memory it drops the key without asking whose it is.
Unlock(c) ==
    /\ call[c].pc = "unlock"
    /\ LET next == IF call[c].run = c THEN "publish" ELSE "refused" IN
       IF redis
       THEN /\ Go(c, IF Mine(c) THEN "delete" ELSE next)
            /\ UNCHANGED lock
       ELSE /\ lock' = Free
            /\ Go(c, next)
    /\ UNCHANGED <<setting, ticket, seq, run, crashes, expiries>>

DeleteKey(c) ==
    /\ call[c].pc = "delete"
    /\ lock' = Free
    /\ Go(c, IF call[c].run = c THEN "publish" ELSE "refused")
    /\ UNCHANGED <<setting, ticket, seq, run, crashes, expiries>>

-----------------------------------------------------------------------------
(* A run for a ticket: run_ticket, RunService._create *)

\* The workflow may be gone or may not load, and what the ticket or the request gives may
\* not be what the workflow reads: then the request is refused.
Checked == {"lock", "refused"}

RunTicket(c) ==
    /\ call[c].pc = "new"
    /\ \E t \in Ticket, pc \in Checked :
          Exists(t) /\ call' = [call EXCEPT ![c].pc = pc, ![c].ticket = t]
    /\ UNCHANGED <<setting, ticket, seq, run, lock, crashes, expiries>>

\* POST /run: a run without a ticket.
CreateRun(c) ==
    /\ call[c].pc = "new"
    /\ \E pc \in Checked : Go(c, pc)
    /\ UNCHANGED <<setting, ticket, seq, run, lock, crashes, expiries>>

\* Polled until it is free, or until the deadline: then the request fails.
TakeLock(c) ==
    /\ call[c].pc = "lock"
    /\ \/ Acquire(c, "tenant-quota") /\ Go(c, "quota")
       \/ lock # Free /\ lock' = lock /\ Go(c, "refused")
    /\ UNCHANGED <<setting, ticket, seq, run, crashes, expiries>>

ActiveRuns == Cardinality({r \in Call : run[r] \in ACTIVE})

\* Mutant: a run that waits for a person does not count.
HasRoomForRunning ==
    Cardinality({r \in Call : run[r] \in ACTIVE \ {"waiting_approval"}}) < quota

HasRoom == ActiveRuns < quota

CheckQuota(c) ==
    /\ call[c].pc = "quota"
    /\ Go(c, IF HasRoom THEN "create" ELSE "unlock")
    /\ UNCHANGED <<setting, ticket, seq, run, lock, crashes, expiries>>

CreateRow(c) ==
    /\ call[c].pc = "create"
    /\ run' = [run EXCEPT ![c] = "running"]
    /\ call' = [call EXCEPT ![c].pc = "unlock", ![c].run = c]
    /\ UNCHANGED <<setting, ticket, seq, lock, crashes, expiries>>

\* Mutant: the ticket counts as running once its run is queued, before it names the run.
PublishMarks(c) ==
    /\ call[c].pc = "publish"
    /\ run' = [run EXCEPT ![c] = "queued"]
    /\ Go(c, IF call[c].ticket = NoTicket THEN "answered" ELSE "attach")
    /\ ticket' = IF call[c].ticket = NoTicket THEN ticket
                 ELSE [ticket EXCEPT ![call[c].ticket].status = "running"]
    /\ UNCHANGED <<setting, seq, lock, crashes, expiries>>

\* Outside the section: the workspace is prepared, the row queued, the trigger published.
Publish(c) ==
    /\ call[c].pc = "publish"
    /\ run' = [run EXCEPT ![c] = "queued"]
    /\ Go(c, IF call[c].ticket = NoTicket THEN "answered" ELSE "attach")
    /\ UNCHANGED <<setting, ticket, seq, lock, crashes, expiries>>

\* attach_run reads the list and writes it back.
ReadRuns(c) ==
    /\ call[c].pc = "attach"
    /\ call' = [call EXCEPT ![c].pc = "write", ![c].seen = ticket[call[c].ticket].runs]
    /\ UNCHANGED <<setting, ticket, seq, run, lock, crashes, expiries>>

WriteRuns(c) ==
    /\ call[c].pc = "write"
    /\ ticket' = [ticket EXCEPT ![call[c].ticket].runs = Append(call[c].seen, c)]
    /\ Go(c, "mark")
    /\ UNCHANGED <<setting, seq, run, lock, crashes, expiries>>

MarkRunning(c) ==
    /\ call[c].pc = "mark"
    /\ ticket' = [ticket EXCEPT ![call[c].ticket].status = "running"]
    /\ Go(c, "answered")
    /\ UNCHANGED <<setting, seq, run, lock, crashes, expiries>>

\* What the list of tickets shows of a ticket: its own status stays running for ever, so that
\* the last run of its list stands for it; NoTicket when it shows none.
LatestRun(t) == IF ticket[t].status = "running" /\ ticket[t].runs # <<>>
                THEN Last(ticket[t].runs) ELSE NoTicket

-----------------------------------------------------------------------------
(* resume_run: the quota is read without the lock, and counts the run itself *)

AskResume(c) ==
    /\ call[c].pc = "new"
    /\ \E r \in Call : /\ run[r] # "none"
                       /\ call' = [call EXCEPT ![c].pc = "resumeQuota", ![c].run = r]
    /\ UNCHANGED <<setting, ticket, seq, run, lock, crashes, expiries>>

ResumeQuota(c) ==
    /\ call[c].pc = "resumeQuota"
    /\ Go(c, IF HasRoom THEN "resumePublish" ELSE "refused")
    /\ UNCHANGED <<setting, ticket, seq, run, lock, crashes, expiries>>

\* Whatever its status: the Worker claims the run by compare-and-swap if it rests, and
\* drops the message otherwise.
ResumePublish(c) ==
    /\ call[c].pc = "resumePublish"
    /\ LET r == call[c].run IN
       run' = [run EXCEPT ![r] = IF @ \in {"paused", "waiting_approval"} THEN "running" ELSE @]
    /\ Go(c, "answered")
    /\ UNCHANGED <<setting, ticket, seq, lock, crashes, expiries>>

-----------------------------------------------------------------------------
(* The rest of the world *)

\* A Worker takes up a queued run, and runs it until it rests or ends.
RunMoves(r) ==
    /\ \/ run[r] = "queued" /\ run' = [run EXCEPT ![r] = "running"]
       \/ /\ run[r] = "running" /\ call[r].pc \notin {"unlock", "delete", "publish"}
          /\ \E s \in {"paused", "waiting_approval", "ended"} : run' = [run EXCEPT ![r] = s]
    /\ UNCHANGED <<setting, call, ticket, seq, lock, crashes, expiries>>

\* An API process dies with its calls, and with its lock when that was in its memory.
Crash(p) ==
    /\ crashes < MaxCrashes
    /\ crashes' = crashes + 1
    /\ call' = [c \in Call |-> IF proc[c] = p /\ call[c].pc \notin Over \cup {"new"}
                               THEN [call[c] EXCEPT !.pc = "dead"] ELSE call[c]]
    /\ lock' = IF redis \/ lock # p THEN lock ELSE Free
    /\ UNCHANGED <<setting, ticket, seq, run, expiries>>

Step(c) ==
    \/ Look(c) \/ NextNumber(c) \/ Insert(c) \/ Reread(c)
    \/ TakeLock(c) \/ CheckQuota(c) \/ CreateRow(c) \/ Unlock(c) \/ DeleteKey(c)
    \/ Publish(c) \/ ReadRuns(c) \/ WriteRuns(c) \/ MarkRunning(c)
    \/ ResumeQuota(c) \/ ResumePublish(c)

Next ==
    \/ \E c \in Call : \/ AskTicket(c) \/ CreateByHand(c) \/ RunTicket(c)
                        \/ CreateRun(c) \/ AskResume(c)
                        \/ Step(c) \/ RunMoves(c)
    \/ Expire
    \/ \E p \in Process : Crash(p)

Spec == Init /\ [][Next]_vars

-----------------------------------------------------------------------------
(* Properties *)

\* The tenant never has more active runs than its quota, but for one run for each lock
\* that expired under its holder: neither the two calls of a release, nor a token that a
\* whole process shares, nor a resume, nor a crash in the section lets in more.
QuotaHolds == ActiveRuns <= quota + expiries

\* A ticket that counts as running shows a run that was made for it and is in the table: no
\* death of a process on the way, and no list written over another, leaves it without one.
TicketShowsItsRun ==
    \A t \in Ticket : ticket[t].status = "running" =>
        \E c \in Call : LatestRun(t) = c /\ call[c].ticket = t /\ run[c] # "none"

\* One ticket for one source, whoever asks for it at once and however often: all answers
\* name it, and no two tickets for sources bear one number.
OneTicketPerSource ==
    \A c \in Call : call[c].pc = "answered" /\ call[c].source # NoTicket =>
        /\ OfSource(call[c].source) = {call[c].ticket}
        /\ \A t \in Ticket \ {call[c].ticket} :
              Exists(t) /\ ticket[t].source # NoTicket
                  => ticket[t].number # ticket[call[c].ticket].number
=============================================================================
