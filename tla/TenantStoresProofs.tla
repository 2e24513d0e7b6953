-------------------------- MODULE TenantStoresProofs --------------------------
(***************************************************************************)
(* Proofs about TenantStores, for any number of processes, any seeds and   *)
(* every bound on ticks, deaths and changes by hand.                       *)
(***************************************************************************)
EXTENDS TenantStores, TLAPS

-----------------------------------------------------------------------------
(* Types *)

Job == [pc : Phases \cup {"idle", "register", "version"}, i : Nat, base : Nat,
        ids : SUBSET (Names \X Id)]

\* The list that a process inserts, by its phase, and how far it is.
InList(j) ==
    /\ j.pc = "flows" => j.i = 1
    /\ j.pc = "flow" => j.i \in 1..Len(Flows)
    /\ j.pc = "backend" => j.i \in 1..Len(Backends)
    /\ j.pc = "agent" => j.i \in 1..Len(Agents)

TypeOK ==
    /\ row \in {"none", "active", "deleted"} /\ db \in BOOLEAN /\ served \in BOOLEAN
    /\ flows \in [Flow -> Nat]
    /\ backends \in [Names -> Id \cup {None}]
    /\ agents \in [Agent -> (SUBSET Id) \cup {None}]
    /\ job \in [Process -> Job]
    /\ \A p \in Process : InList(job[p])
    /\ bundle \in [Process -> {"none", "open", "dead"}]
    /\ clock \in Nat \ {0} /\ cuts \in Nat /\ edits \in 0..MaxEdits
    /\ disturbed \in BOOLEAN /\ missed \subseteq {"flows", "backends", "agents"}
    /\ byHand \in SUBSET Id

-----------------------------------------------------------------------------
(* The inductive invariants *)

\* What a process read of the table of servers holds until it binds agents, and after that.
There(id) == id \in byHand \/ \E s \in Names : backends[s] = id

ReadIsTrue ==
    \A p \in Process : job[p].pc \in {"agents", "agent"} => \A d \in job[p].ids : There(d[2])

\* The stages of a seeding, one table after the other.
FlowsBefore(k, base) ==
    \A j \in DOMAIN Flows : flows[Flows[j]] = IF j < k THEN base + j ELSE 0

NoAgents == \A a \in Agent : agents[a] = None

AgentsThere == \A a \in Agent : AsDeclared(a)

FlowsDone == "flows" \notin missed => FlowsThere

ServersDone == "backends" \notin missed => ServersThere

Sure == missed \cap {"backends", "agents"} = {}

\* The tables when a seeding is over, and before one begins.
Arrived == FlowsDone /\ ServersDone /\ (Sure => AgentsThere)

BeforeServers ==
    /\ NoServers \/ ServersDone
    /\ Sure => NoAgents \/ (ServersThere /\ AgentsThere)

Settled == (NoFlows \/ FlowsDone) /\ BeforeServers

\* What the tables hold while p seeds a tenant that nobody else touches.
FlowsStage(p) ==
    /\ job[p].pc = "flows" => NoFlows \/ FlowsDone
    /\ job[p].pc = "flow" =>
          ("flows" \notin missed => FlowsBefore(job[p].i, job[p].base))
    /\ job[p].pc \in {"backends", "backend", "names", "agents", "agent"} => FlowsDone

ServersStage(p) ==
    /\ job[p].pc \in {"flows", "flow", "backends"} => BeforeServers
    /\ job[p].pc = "backend" =>
          /\ "backends" \notin missed =>
                \A j \in 1..(job[p].i - 1) : backends[Backends[j]] # None
          /\ Sure => NoAgents
    /\ job[p].pc \in {"names", "agents", "agent"} => ServersDone

AgentsStage(p) ==
    /\ job[p].pc \in {"names", "agents"} => (Sure => NoAgents \/ AgentsThere)
    /\ job[p].pc \in {"agents", "agent"} => job[p].ids = Known
    /\ job[p].pc = "agent" => (Sure =>
          /\ \A a \in Agent : agents[a] = None \/ AsDeclared(a)
          /\ \A j \in 1..(job[p].i - 1) : AsDeclared(Agents[j]))

Stage(p) == FlowsStage(p) /\ ServersStage(p) /\ AgentsStage(p)

Orderly ==
    ~disturbed =>
        /\ \A p, q \in Process : Seeding(p) /\ Seeding(q) => p = q
        /\ \A p \in Process : Seeding(p) => Stage(p)
        /\ (\A p \in Process : ~Seeding(p)) => Settled
        /\ (\E p \in Process : bundle[p] = "open") => Arrived

IInv == TypeOK /\ BindingsExist /\ ReadIsTrue /\ Orderly

-----------------------------------------------------------------------------
(* Type correctness *)

Places == Phases \cup {"idle", "register", "version"}

LEMMA Lists ==
    /\ Len(Flows) \in Nat \ {0} /\ DOMAIN Flows = 1..Len(Flows)
    /\ Len(Backends) \in Nat \ {0} /\ DOMAIN Backends = 1..Len(Backends)
    /\ Len(Agents) \in Nat \ {0} /\ DOMAIN Agents = 1..Len(Agents)
    /\ \A f \in Flow : \E j \in 1..Len(Flows) : f = Flows[j]
    /\ \A s \in Backend : \E j \in 1..Len(Backends) : s = Backends[j]
    /\ \A a \in Agent : \E j \in 1..Len(Agents) : a = Agents[j]
    /\ \A j \in 1..Len(Flows) : Flows[j] \in Flow
    /\ \A j \in 1..Len(Backends) : Backends[j] \in Backend
    /\ \A j \in 1..Len(Agents) : Agents[j] \in Agent
<1>1. ASSUME NEW S, NEW s \in Seq(S), s # <<>>
      PROVE  Len(s) \in Nat \ {0} /\ DOMAIN s = 1..Len(s)
  BY <1>1
<1>2. Len(Flows) \in Nat \ {0} /\ DOMAIN Flows = 1..Len(Flows)
  BY <1>1, SeedsAssumption
<1>3. Len(Backends) \in Nat \ {0} /\ DOMAIN Backends = 1..Len(Backends)
  BY <1>1, SeedsAssumption
<1>4. Len(Agents) \in Nat \ {0} /\ DOMAIN Agents = 1..Len(Agents)
  BY <1>1, SeedsAssumption
<1> QED
  BY <1>2, <1>3, <1>4 DEF Flow, Backend, Agent

\* A process goes on to another phase, at the start of its list.
LEMMA GoesOn ==
    ASSUME TypeOK, NEW p \in Process, NEW pc \in Places, Go(p, pc)
    PROVE  /\ job' \in [Process -> Job] /\ \A q \in Process : InList(job'[q])
           /\ job'[p].pc = pc /\ job'[p].base = job[p].base /\ job'[p].ids = job[p].ids
           /\ job'[p].i = 1
           /\ \A q \in Process : q # p => job'[q] = job[q]
<1> DEFINE r == [job[p] EXCEPT !.pc = pc, !.i = 1]
<1>1. job[p] \in Job
  BY DEF TypeOK
<1>2. r \in Job /\ r.pc = pc /\ r.i = 1 /\ r.base = job[p].base /\ r.ids = job[p].ids
  BY <1>1 DEF Job, Places
<1>3. InList(r)
  BY <1>2, Lists DEF InList
<1>4. job' = [job EXCEPT ![p] = r]
  BY DEF Go, TypeOK
<1> HIDE DEF r
<1> QED
  BY <1>2, <1>3, <1>4 DEF TypeOK

\* A process goes on in its list, or after the last of it to the next phase.
LEMMA Advances ==
    ASSUME TypeOK, NEW p \in Process, NEW list, NEW next \in Places,
           next \notin {"flow", "backend"}, Advance(p, list, next),
           \/ list = Flows /\ job[p].pc = "flow"
           \/ list = Backends /\ job[p].pc = "backend"
           \/ list = Agents /\ job[p].pc = "agent"
    PROVE  /\ job' \in [Process -> Job] /\ \A q \in Process : InList(job'[q])
           /\ job'[p].base = job[p].base /\ job'[p].ids = job[p].ids
           /\ job[p].i \in 1..Len(list)
           /\ \/ job[p].i = Len(list) /\ job'[p].pc = next
              \/ /\ job[p].i # Len(list) /\ job'[p].pc = job[p].pc
                 /\ job'[p].i = job[p].i + 1
           /\ \A q \in Process : q # p => job'[q] = job[q]
<1> DEFINE i == IF job[p].i = Len(list) THEN 1 ELSE job[p].i + 1
           pc == IF job[p].i = Len(list) THEN next ELSE job[p].pc
           r == [job[p] EXCEPT !.i = i, !.pc = pc]
<1>1. job[p] \in Job /\ InList(job[p])
  BY DEF TypeOK
<1>2. Len(list) \in Nat \ {0} /\ job[p].i \in 1..Len(list)
  BY <1>1, Lists DEF InList
<1>3. /\ r \in Job /\ r.base = job[p].base /\ r.ids = job[p].ids
      /\ \/ job[p].i = Len(list) /\ r.pc = next /\ r.i = 1
         \/ job[p].i # Len(list) /\ r.pc = job[p].pc /\ r.i = job[p].i + 1
  <2>1. i \in Nat /\ pc \in Places
    BY <1>1, <1>2 DEF Job, Places
  <2>2. \/ job[p].i = Len(list) /\ pc = next /\ i = 1
        \/ job[p].i # Len(list) /\ pc = job[p].pc /\ i = job[p].i + 1
    OBVIOUS
  <2> HIDE DEF i, pc
  <2>3. r \in Job /\ r.pc = pc /\ r.i = i /\ r.base = job[p].base /\ r.ids = job[p].ids
    BY <1>1, <2>1 DEF Job, Places
  <2> QED
    BY <2>2, <2>3
<1>4. InList(r)
  BY <1>1, <1>2, <1>3, Lists DEF InList
<1>5. job' = [job EXCEPT ![p] = r]
  BY DEF Advance, TypeOK
<1> HIDE DEF r
<1> QED
  BY <1>2, <1>3, <1>4, <1>5 DEF TypeOK

LEMMA TypeOKInit == Init => TypeOK
<1> SUFFICES ASSUME Init
             PROVE  TypeOK
  OBVIOUS
<1>1. Idle \in Job /\ InList(Idle)
  BY DEF Idle, Job, InList
<1>2. db \in BOOLEAN /\ served \in BOOLEAN /\ disturbed \in BOOLEAN
  BY DEF Init
<1>3. /\ flows \in [Flow -> Nat] /\ backends \in [Names -> Id \cup {None}]
      /\ bundle \in [Process -> {"none", "open", "dead"}]
  BY DEF Init
<1>4. agents \in [Agent -> (SUBSET Id) \cup {None}]
  <2>1. None \in (SUBSET Id) \cup {None}
    OBVIOUS
  <2> QED
    BY <2>1, Zenon DEF Init
<1>5. job \in [Process -> Job] /\ \A p \in Process : InList(job[p])
  BY <1>1 DEF Init
<1>6. clock \in Nat \ {0} /\ cuts \in Nat /\ edits \in 0..MaxEdits /\ row \in {"none", "active", "deleted"}
  BY ValuesAssumption DEF Init
<1>7. missed \subseteq {"flows", "backends", "agents"} /\ byHand \in SUBSET Id
  BY DEF Init
<1> QED
  BY <1>2, <1>3, <1>4, <1>5, <1>6, <1>7 DEF TypeOK

\* Stores that are opened: the process starts to seed.
LEMMA Connects ==
    ASSUME TypeOK, NEW p \in Process, Connect(p)
    PROVE  /\ job' \in [Process -> Job] /\ \A q \in Process : InList(job'[q])
           /\ job'[p].pc = "flows" /\ \A q \in Process : q # p => job'[q] = job[q]
           /\ db' = TRUE /\ disturbed' \in BOOLEAN /\ UNCHANGED <<missed, byHand>>
           /\ ~disturbed' => ~disturbed /\ \A q \in Process : q # p => ~Seeding(q)
<1>1. Go(p, "flows") /\ "flows" \in Places
  BY DEF Connect, Places, Phases
<1>2. disturbed' = (disturbed \/ \E q \in Process \ {p} : Seeding(q))
  BY DEF Connect
<1>3. disturbed' \in BOOLEAN
  BY <1>2
<1>4. ~disturbed' => ~disturbed /\ \A q \in Process : q # p => ~Seeding(q)
  BY <1>2
<1> QED
  BY <1>1, <1>3, <1>4, GoesOn DEF Connect

LEMMA KnownIds == TypeOK => Known \in SUBSET (Names \X Id)
BY DEF TypeOK, Known

\* A process that is through goes back to where it came from, with the stores in its cache.
LEMMA Finishes ==
    ASSUME TypeOK, NEW p \in Process, Finish(p)
    PROVE  /\ job' \in [Process -> Job] /\ \A q \in Process : InList(job'[q])
           /\ job'[p].pc \in {"idle", "version"} /\ \A q \in Process : q # p => job'[q] = job[q]
           /\ bundle' \in [Process -> {"none", "open", "dead"}]
<1> DEFINE pc == IF Server[p] THEN "idle" ELSE "version"
           r == [Idle EXCEPT !.pc = pc]
<1>1. pc \in {"idle", "version"}
  OBVIOUS
<1> HIDE DEF pc
<1>2. r \in Job /\ r.pc = pc
  BY <1>1 DEF Idle, Job
<1>3. InList(r)
  BY <1>1, <1>2 DEF InList
<1>4. job' = [job EXCEPT ![p] = r] /\ bundle' = [bundle EXCEPT ![p] = "open"]
  BY DEF Finish, pc
<1> HIDE DEF r
<1> QED
  BY <1>1, <1>2, <1>3, <1>4 DEF TypeOK

\* What an agent is bound to is among what its process read.
LEMMA AgentBinding ==
    ASSUME TypeOK, NEW p \in Process, InsertAgent(p)
    PROVE  /\ job[p].i \in 1..Len(Agents) /\ Agents[job[p].i] \in Agent
           /\ \E ids \in SUBSET Id :
                 /\ ids = {d[2] : d \in {e \in job[p].ids : e[1] \in Binding[Agents[job[p].i]]}}
                 /\ LET a == Agents[job[p].i]
                    IN \/ /\ agents[a] # None \/ (ids = {} /\ a \notin Custom)
                          /\ agents' = agents
                       \/ /\ agents[a] = None /\ ~(ids = {} /\ a \notin Custom)
                          /\ agents' = [agents EXCEPT ![a] = ids]
<1>1. job[p].pc = "agent" /\ InList(job[p]) /\ job[p].ids \in SUBSET (Names \X Id)
  BY DEF InsertAgent, TypeOK, Job
<1>2. job[p].i \in 1..Len(Agents) /\ Agents[job[p].i] \in Agent
  BY <1>1, Lists DEF InList
<1> DEFINE ids == {d[2] : d \in {e \in job[p].ids : e[1] \in Binding[Agents[job[p].i]]}}
<1>3. ids \in SUBSET Id
  BY <1>1
<1>4. agents' = IF agents[Agents[job[p].i]] # None \/ (ids = {} /\ Agents[job[p].i] \notin Custom)
                THEN agents ELSE [agents EXCEPT ![Agents[job[p].i]] = ids]
  BY DEF InsertAgent
<1> HIDE DEF ids
<1> DEFINE a == Agents[job[p].i]
<1>5. \/ /\ agents[a] # None \/ (ids = {} /\ a \notin Custom)
         /\ agents' = agents
      \/ /\ agents[a] = None /\ ~(ids = {} /\ a \notin Custom)
         /\ agents' = [agents EXCEPT ![a] = ids]
  BY <1>4
<1> QED
  BY <1>2, <1>3, <1>5 DEF ids

\* What a statement that fails leaves behind.
LEMMA Failing ==
    ASSUME TypeOK, NEW p \in Process, Fail(p) \/ InsertClash(p)
    PROVE  /\ Seeding(p)
           /\ UNCHANGED <<row, db, tables, served, clock, edits, disturbed, byHand>>
           /\ \/ /\ job[p].pc \in {"flows", "flow"} /\ Go(p, "backends")
                 /\ missed' = missed \cup {"flows"} /\ bundle' = bundle
              \/ /\ job[p].pc \in {"backends", "backend"} /\ Go(p, "names")
                 /\ missed' = missed \cup {"backends"} /\ bundle' = bundle
              \/ /\ job[p].pc \in {"names", "agents", "agent"} /\ Finish(p)
                 /\ missed' = missed \cup {"agents"}
<1>1. PICK table : /\ Fails(p, table)
                   /\ \/ job[p].pc \in {"flows", "flow"} /\ table = "flows"
                      \/ job[p].pc \in {"backends", "backend"} /\ table = "backends"
                      \/ job[p].pc \in {"names", "agents", "agent"} /\ table = "agents"
  <2>1. CASE Fail(p)
    <3>1. Seeding(p) /\ Fails(p, Table(p))
      BY <2>1 DEF Fail
    <3>2. \/ job[p].pc \in {"flows", "flow"} /\ Table(p) = "flows"
          \/ job[p].pc \in {"backends", "backend"} /\ Table(p) = "backends"
          \/ job[p].pc \in {"names", "agents", "agent"} /\ Table(p) = "agents"
      BY <3>1 DEF Seeding, Phases, Table
    <3> QED
      BY <3>1, <3>2
  <2>2. CASE InsertClash(p)
    BY <2>2 DEF InsertClash
  <2> QED
    BY <2>1, <2>2
<1>2. Seeding(p)
  BY <1>1 DEF Seeding, Phases
<1>3. UNCHANGED <<row, db, tables, served, clock, edits, disturbed, byHand>>
  BY <1>1 DEF Fails
<1> QED
  BY <1>1, <1>2, <1>3 DEF Fails

LEMMA SeedingTypeOK ==
    ASSUME TypeOK, NEW p \in Process,
           \/ ListFlows(p) \/ InsertFlow(p) \/ ListBackends(p) \/ InsertBackend(p)
           \/ ReadNames(p) \/ ListAgents(p) \/ InsertAgent(p) \/ InsertClash(p) \/ Fail(p)
    PROVE  TypeOK'
<1> USE DEF tables, history
<1>1. CASE ListFlows(p)
  <2> DEFINE pc == IF NoFlows THEN "flow" ELSE "backends"
             r == [job[p] EXCEPT !.pc = pc, !.base = clock]
  <2>1. job[p] \in Job /\ InList(job[p]) /\ clock \in Nat
    BY DEF TypeOK
  <2>2. job[p].pc = "flows" /\ job' = [job EXCEPT ![p] = r]
    BY <1>1 DEF ListFlows, TypeOK
  <2>3. pc \in {"flow", "backends"}
    OBVIOUS
  <2> HIDE DEF pc
  <2>4. r \in Job /\ r.pc = pc /\ r.i = job[p].i
    BY <2>1, <2>3 DEF Job, Phases
  <2>5. job[p].i = 1
    BY <2>1, <2>2 DEF InList
  <2>6. InList(r)
    BY <2>3, <2>4, <2>5, Lists DEF InList
  <2> HIDE DEF r
  <2>7. job' \in [Process -> Job] /\ \A q \in Process : InList(job'[q])
    BY <2>2, <2>4, <2>6 DEF TypeOK
  <2> QED
    BY <1>1, <2>7 DEF ListFlows, TypeOK
<1>2. CASE InsertFlow(p)
  <2>1. Advance(p, Flows, "backends") /\ job[p].pc = "flow" /\ "backends" \in Places
    BY <1>2 DEF InsertFlow, Places, Phases
  <2>2. job' \in [Process -> Job] /\ \A q \in Process : InList(job'[q])
    BY <2>1, Advances
  <2>3. Stamp(p) \in Nat
    BY DEF Stamp, TypeOK, Job
  <2>4. flows' \in [Flow -> Nat]
    BY <1>2, <2>3 DEF InsertFlow, TypeOK
  <2> QED
    BY <1>2, <2>2, <2>4 DEF InsertFlow, TypeOK
<1>3. CASE ListBackends(p)
  <2>1. PICK pc \in {"backend", "names"} : Go(p, pc)
    BY <1>3 DEF ListBackends
  <2>2. pc \in Places
    BY DEF Places, Phases
  <2>3. job' \in [Process -> Job] /\ \A q \in Process : InList(job'[q])
    BY <2>1, <2>2, GoesOn
  <2> QED
    BY <1>3, <2>3 DEF ListBackends, TypeOK
<1>4. CASE InsertBackend(p)
  <2>1. Advance(p, Backends, "names") /\ job[p].pc = "backend" /\ "names" \in Places
    BY <1>4 DEF InsertBackend, Places, Phases
  <2>2. job' \in [Process -> Job] /\ \A q \in Process : InList(job'[q])
    BY <2>1, Advances
  <2>3. Backends[job[p].i] \in Names
    BY <2>1, Lists, BindingAssumption DEF TypeOK, InList
  <2>4. SeedId(Backends[job[p].i]) \in Id
    BY <2>3, ValuesAssumption DEF SeedId, Id
  <2>5. backends' \in [Names -> Id \cup {None}]
    BY <1>4, <2>4 DEF InsertBackend, SeedServer, TypeOK
  <2> QED
    BY <1>4, <2>2, <2>5 DEF InsertBackend, TypeOK
<1>5. CASE ReadNames(p)
  <2> DEFINE r == [job[p] EXCEPT !.pc = "agents", !.ids = Known]
  <2>1. job[p] \in Job /\ Known \in SUBSET (Names \X Id)
    BY KnownIds DEF TypeOK
  <2>2. r \in Job /\ r.pc = "agents"
    BY <2>1 DEF Job, Phases
  <2>3. InList(r)
    BY <2>2 DEF InList
  <2>4. job' = [job EXCEPT ![p] = r]
    BY <1>5 DEF ReadNames, TypeOK
  <2> HIDE DEF r
  <2>5. job' \in [Process -> Job] /\ \A q \in Process : InList(job'[q])
    BY <2>2, <2>3, <2>4 DEF TypeOK
  <2> QED
    BY <1>5, <2>5 DEF ReadNames, TypeOK
<1>6. CASE ListAgents(p)
  <2>1. /\ job' \in [Process -> Job] /\ \A q \in Process : InList(job'[q])
        /\ bundle' \in [Process -> {"none", "open", "dead"}]
    <3>1. (Go(p, "agent") /\ bundle' = bundle) \/ Finish(p)
      BY <1>6 DEF ListAgents
    <3>2. "agent" \in Places
      BY DEF Places, Phases
    <3> QED
      BY <3>1, <3>2, GoesOn, Finishes DEF TypeOK
  <2> QED
    BY <1>6, <2>1 DEF ListAgents, TypeOK
<1>7. CASE InsertAgent(p)
  <2>1. /\ job' \in [Process -> Job] /\ \A q \in Process : InList(job'[q])
        /\ bundle' \in [Process -> {"none", "open", "dead"}]
    <3>1. Finish(p) \/ (job[p].i # Len(Agents) /\ Advance(p, Agents, "agent") /\ bundle' = bundle)
      BY <1>7 DEF InsertAgent
    <3>2. "agent" \in Places /\ job[p].pc = "agent"
      BY <1>7 DEF InsertAgent, Places, Phases
    <3> QED
      BY <3>1, <3>2, Advances, Finishes DEF TypeOK
  <2>2. agents' \in [Agent -> (SUBSET Id) \cup {None}]
    BY <1>7, AgentBinding DEF TypeOK
  <2> QED
    BY <1>7, <2>1, <2>2 DEF InsertAgent, TypeOK
<1>8. CASE InsertClash(p) \/ Fail(p)
  <2>1. /\ job' \in [Process -> Job] /\ \A q \in Process : InList(job'[q])
        /\ bundle' \in [Process -> {"none", "open", "dead"}]
    <3>1. \/ (Go(p, "backends") \/ Go(p, "names")) /\ bundle' = bundle
          \/ Finish(p)
      BY <1>8, Failing
    <3>2. "backends" \in Places /\ "names" \in Places
      BY DEF Places, Phases
    <3> QED
      BY <3>1, <3>2, GoesOn, Finishes DEF TypeOK
  <2>2. cuts' \in Nat
    BY <1>8 DEF InsertClash, Fail, TypeOK
  <2>3. missed' \subseteq {"flows", "backends", "agents"}
    BY <1>8, Failing DEF TypeOK
  <2> QED
    BY <1>8, <2>1, <2>2, <2>3, Failing DEF TypeOK
<1> QED
  BY <1>1, <1>2, <1>3, <1>4, <1>5, <1>6, <1>7, <1>8

LEMMA TypeOKNext == TypeOK /\ [Next]_vars => TypeOK'
<1> SUFFICES ASSUME TypeOK, [Next]_vars
             PROVE  TypeOK'
  OBVIOUS
<1> USE DEF tables, history
<1>1. ASSUME NEW p \in Process, Get(p)
      PROVE  TypeOK'
  BY <1>1, Connects DEF Get, TypeOK
<1>2. ASSUME NEW p \in Process, Provision(p)
      PROVE  TypeOK'
  <2>1. Go(p, "register") /\ "register" \in Places
    BY <1>2 DEF Provision, Places
  <2>2. job' \in [Process -> Job] /\ \A q \in Process : InList(job'[q])
    BY <2>1, GoesOn
  <2>3. edits' \in 0..MaxEdits
    BY <1>2, ValuesAssumption DEF Provision, TypeOK
  <2> QED
    BY <1>2, <2>2, <2>3 DEF Provision, TypeOK
<1>3. ASSUME NEW p \in Process, Migrate(p)
      PROVE  TypeOK'
  <2>1. Connect(p) /\ edits' \in 0..MaxEdits
    BY <1>3, ValuesAssumption DEF Migrate, TypeOK
  <2>2. /\ job' \in [Process -> Job] /\ \A q \in Process : InList(job'[q])
        /\ db' = TRUE /\ disturbed' \in BOOLEAN /\ UNCHANGED <<missed, byHand>>
    BY <2>1, Connects
  <2> QED
    BY <1>3, <2>1, <2>2 DEF Migrate, TypeOK
<1>4. ASSUME NEW p \in Process, Register(p)
      PROVE  TypeOK'
  BY <1>4, Connects DEF Register, TypeOK
<1>5. ASSUME NEW p \in Process, Version(p)
      PROVE  TypeOK'
  <2>1. Go(p, "idle") /\ "idle" \in Places
    BY <1>5 DEF Version, Places
  <2>2. job' \in [Process -> Job] /\ \A q \in Process : InList(job'[q])
    BY <2>1, GoesOn
  <2> QED
    BY <1>5, <2>2 DEF Version, TypeOK
<1>6. ASSUME NEW p \in Process, \/ ListFlows(p) \/ InsertFlow(p) \/ ListBackends(p) \/ InsertBackend(p)
                                \/ ReadNames(p) \/ ListAgents(p) \/ InsertAgent(p)
                                \/ InsertClash(p) \/ Fail(p)
      PROVE  TypeOK'
  BY <1>6, SeedingTypeOK
<1>7. Idle \in Job /\ InList(Idle)
  BY DEF Idle, Job, InList
<1>8. ASSUME NEW p \in Process, Restart(p)
      PROVE  TypeOK'
  <2>1. served' \in BOOLEAN /\ disturbed' \in BOOLEAN
    BY <1>8, ValuesAssumption DEF Restart, TypeOK
  <2>2. job' \in [Process -> Job] /\ \A q \in Process : InList(job'[q])
    BY <1>7, <1>8 DEF Restart, TypeOK
  <2>3. cuts' \in Nat /\ bundle' \in [Process -> {"none", "open", "dead"}]
    BY <1>8 DEF Restart, TypeOK
  <2> QED
    BY <1>8, <2>1, <2>2, <2>3 DEF Restart, TypeOK
<1>9. ASSUME NEW p \in Process, Evict(p)
      PROVE  TypeOK'
  BY <1>9 DEF Evict, TypeOK
<1>10. ASSUME NEW s \in Names, \/ AddServer(s) \/ RemoveServer(s)
                               \/ \E t \in Names : RenameServer(s, t)
       PROVE  TypeOK'
  <2>1. Edit /\ edits' \in 0..MaxEdits /\ <<s, edits + 1>> \in Id
    BY <1>10, ValuesAssumption DEF AddServer, RemoveServer, RenameServer, Edit, TypeOK, Id
  <2>2. backends' \in [Names -> Id \cup {None}]
    <3>1. CASE AddServer(s)
      BY <2>1, <3>1 DEF AddServer, TypeOK
    <3>2. CASE RemoveServer(s)
      BY <3>2 DEF RemoveServer, TypeOK
    <3>3. ASSUME NEW t \in Names, RenameServer(s, t)
          PROVE  backends' \in [Names -> Id \cup {None}]
      BY <3>3 DEF RenameServer, TypeOK
    <3> QED
      BY <1>10, <3>1, <3>2, <3>3
  <2>3. byHand' \in SUBSET Id /\ agents' = agents
    BY <1>10 DEF AddServer, RemoveServer, RenameServer, TypeOK
  <2> QED
    BY <2>1, <2>2, <2>3 DEF Edit, TypeOK
<1>11. ASSUME NEW a \in Agent, RemoveAgent(a) \/ \E ids \in Asked : SaveAgent(a, ids)
       PROVE  TypeOK'
  <2>1. Edit /\ edits' \in 0..MaxEdits
    BY <1>11, ValuesAssumption DEF RemoveAgent, SaveAgent, Edit, TypeOK
  <2>2. /\ agents' \in [Agent -> (SUBSET Id) \cup {None}] /\ byHand' \in SUBSET Id
        /\ backends' = backends
    BY <1>11, BindingAssumption DEF RemoveAgent, SaveAgent, TypeOK
  <2> QED
    BY <2>1, <2>2 DEF Edit, TypeOK
<1>12. CASE Deprovision
  <2>1. edits' \in 0..MaxEdits
    BY <1>12, ValuesAssumption DEF Deprovision, TypeOK
  <2> QED
    BY <1>12, <2>1 DEF Deprovision, TypeOK
<1>13. CASE DropDatabase
  <2>1. /\ flows' \in [Flow -> Nat] /\ backends' \in [Names -> Id \cup {None}]
        /\ agents' \in [Agent -> (SUBSET Id) \cup {None}]
    BY <1>13 DEF DropDatabase, Blank
  <2>2. job' \in [Process -> Job] /\ \A q \in Process : InList(job'[q])
    BY <1>7, <1>13 DEF DropDatabase, TypeOK
  <2>3. bundle' \in [Process -> {"none", "open", "dead"}]
    BY <1>13 DEF DropDatabase, TypeOK
  <2> QED
    BY <1>13, <2>1, <2>2, <2>3 DEF DropDatabase, TypeOK
<1>14. CASE Rescan
  BY <1>14 DEF Rescan, TypeOK
<1>15. CASE Tick
  BY <1>15 DEF Tick, TypeOK
<1>16. CASE UNCHANGED vars
  BY <1>16 DEF vars, TypeOK
<1> QED
  BY <1>1, <1>2, <1>3, <1>4, <1>5, <1>6, <1>8, <1>9, <1>10, <1>11, <1>12, <1>13, <1>14, <1>15, <1>16
     DEF Next, Work

-----------------------------------------------------------------------------
(* Bindings *)

\* What agents are bound to, and what processes read, stays in the table or with a person.
LEMMA BindingsKept ==
    ASSUME TypeOK, BindingsExist, ReadIsTrue,
           \A id \in Id : There(id) => There(id)',
           \A a \in Agent : \/ agents'[a] \in {agents[a], None}
                            \/ \E q \in Process : /\ job[q].pc = "agent"
                                                  /\ \A id \in agents'[a] :
                                                        \E d \in job[q].ids : id = d[2]
                            \/ agents'[a] \subseteq byHand',
           \A p \in Process : job'[p].pc \in {"agents", "agent"} =>
              \/ job[p].pc \in {"agents", "agent"} /\ job'[p].ids = job[p].ids
              \/ job'[p].ids = Known
    PROVE  BindingsExist' /\ ReadIsTrue'
<1>1. \A d \in Known : There(d[2])
  BY DEF Known, There
<1>2. Known \in SUBSET (Names \X Id) /\ \A p \in Process : job[p].ids \in SUBSET (Names \X Id)
  BY KnownIds DEF TypeOK, Job
<1>3. ASSUME NEW ids \in SUBSET (Names \X Id), \A d \in ids : There(d[2]), NEW d \in ids
      PROVE  There(d[2])'
  <2>1. d[2] \in Id /\ There(d[2])
    BY <1>3
  <2> QED
    BY <2>1
<1>4. ReadIsTrue'
  <2> SUFFICES ASSUME NEW p \in Process, job'[p].pc \in {"agents", "agent"}
               PROVE  \A d \in job'[p].ids : There(d[2])'
    BY DEF ReadIsTrue
  <2>1. CASE job[p].pc \in {"agents", "agent"} /\ job'[p].ids = job[p].ids
    <3>1. \A d \in job[p].ids : There(d[2])
      BY <2>1 DEF ReadIsTrue
    <3>2. \A d \in job[p].ids : There(d[2])'
      BY <1>2, <1>3, <3>1
    <3> QED
      BY <2>1, <3>2
  <2>2. CASE job'[p].ids = Known
    <3>1. \A d \in Known : There(d[2])'
      BY <1>1, <1>2, <1>3
    <3> QED
      BY <2>2, <3>1
  <2> QED
    BY <2>1, <2>2
<1>5. BindingsExist'
  <2> SUFFICES ASSUME NEW a \in Agent, agents'[a] # None
               PROVE  \A id \in agents'[a] : There(id)'
    BY DEF BindingsExist, There
  <2>1. CASE agents'[a] = agents[a]
    <3>1. agents[a] \in SUBSET Id /\ \A id \in agents[a] : There(id)
      BY <2>1 DEF BindingsExist, There, TypeOK
    <3> QED
      BY <2>1, <3>1
  <2>2. ASSUME NEW q \in Process, job[q].pc = "agent",
               \A id \in agents'[a] : \E d \in job[q].ids : id = d[2]
        PROVE  \A id \in agents'[a] : There(id)'
    <3>1. \A d \in job[q].ids : There(d[2])
      BY <2>2 DEF ReadIsTrue
    <3>2. \A d \in job[q].ids : There(d[2])'
      BY <1>2, <1>3, <3>1
    <3> QED
      BY <2>2, <3>2
  <2>3. CASE agents'[a] \subseteq byHand'
    BY <2>3 DEF There
  <2> QED
    BY <2>1, <2>2, <2>3
<1> QED
  BY <1>4, <1>5

\* What steps do to the rows: those of RowsStay, without its exemptions.
RowsKept ==
    /\ \A f \in Flow : flows[f] # 0 => flows'[f] = flows[f]
    /\ \A s \in Names : backends[s] # None => backends'[s] = backends[s]
    /\ \A a \in Agent : agents[a] # None => agents'[a] = agents[a]

LEMMA SeedingKeepsRows ==
    ASSUME TypeOK, NEW p \in Process,
           \/ ListFlows(p) \/ InsertFlow(p) \/ ListBackends(p) \/ InsertBackend(p)
           \/ ReadNames(p) \/ ListAgents(p) \/ InsertAgent(p) \/ InsertClash(p) \/ Fail(p)
    PROVE  RowsKept
<1>1. CASE UNCHANGED tables
  BY <1>1 DEF tables, RowsKept
<1>2. CASE InsertFlow(p)
  BY <1>2 DEF InsertFlow, RowsKept, TypeOK
<1>3. CASE InsertBackend(p)
  BY <1>3 DEF InsertBackend, SeedServer, RowsKept, TypeOK
<1>4. CASE InsertAgent(p)
  <2>1. \A a \in Agent : agents[a] # None => agents'[a] = agents[a]
    BY <1>4, AgentBinding DEF TypeOK
  <2> QED
    BY <1>4, <2>1 DEF InsertAgent, RowsKept
<1>5. CASE InsertClash(p) \/ Fail(p)
  BY <1>1, <1>5, Failing
<1> QED
  BY <1>1, <1>2, <1>3, <1>4, <1>5 DEF ListFlows, ListBackends, ReadNames, ListAgents

\* A server whose row is kept is there as before.
LEMMA RowsAreThere ==
    ASSUME TypeOK, byHand \subseteq byHand',
           \A s \in Names : backends[s] # None =>
               \/ backends[s] \in byHand'
               \/ \E t \in Names : backends'[t] = backends[s]
    PROVE  \A id \in Id : There(id) => There(id)'
BY ValuesAssumption DEF There

LEMMA BindingsNext ==
    ASSUME TypeOK, BindingsExist, ReadIsTrue, [Next]_vars
    PROVE  BindingsExist' /\ ReadIsTrue'
<1> USE DEF history
<1> DEFINE Reads(p) == job'[p].pc \in {"agents", "agent"} =>
              \/ job[p].pc \in {"agents", "agent"} /\ job'[p].ids = job[p].ids
              \/ job'[p].ids = Known
<1>0. ASSUME NEW p \in Process, \A q \in Process : q # p => job'[q] = job[q],
             Reads(p), UNCHANGED <<backends, agents, byHand>>
      PROVE  BindingsExist' /\ ReadIsTrue'
  <2>1. \A id \in Id : There(id) => There(id)'
    BY <1>0 DEF There
  <2> QED
    BY <1>0, <2>1, BindingsKept
<1>1. ASSUME NEW p \in Process, Connect(p), UNCHANGED tables
      PROVE  BindingsExist' /\ ReadIsTrue'
  BY <1>0, <1>1, Connects DEF tables
<1>2. ASSUME NEW p \in Process, NEW pc \in Places, Go(p, pc), UNCHANGED <<backends, agents, byHand>>,
             pc = "agent" => job[p].pc = "agents", pc # "agents"
      PROVE  BindingsExist' /\ ReadIsTrue'
  BY <1>0, <1>2, GoesOn
<1>3. ASSUME NEW p \in Process, Get(p) \/ Migrate(p) \/ Register(p)
      PROVE  BindingsExist' /\ ReadIsTrue'
  BY <1>1, <1>3 DEF Get, Migrate, Register
<1>4. ASSUME NEW p \in Process, Provision(p) \/ Version(p)
      PROVE  BindingsExist' /\ ReadIsTrue'
  BY <1>2, <1>4 DEF Provision, Version, tables, Places
<1>5. ASSUME NEW p \in Process, ListFlows(p)
      PROVE  BindingsExist' /\ ReadIsTrue'
  <2>1. Reads(p) /\ \A q \in Process : q # p => job'[q] = job[q]
    BY <1>5 DEF ListFlows, TypeOK, Job
  <2> QED
    BY <1>0, <1>5, <2>1 DEF ListFlows, tables
<1>6. ASSUME NEW p \in Process, InsertFlow(p)
      PROVE  BindingsExist' /\ ReadIsTrue'
  <2>1. job[p].pc = "flow" /\ Advance(p, Flows, "backends") /\ "backends" \in Places
    BY <1>6 DEF InsertFlow, Places, Phases
  <2>2. Reads(p) /\ \A q \in Process : q # p => job'[q] = job[q]
    BY <2>1, Advances
  <2> QED
    BY <1>0, <1>6, <2>2 DEF InsertFlow
<1>7. ASSUME NEW p \in Process, ListBackends(p)
      PROVE  BindingsExist' /\ ReadIsTrue'
  BY <1>2, <1>7 DEF ListBackends, tables, Places, Phases
<1>8. ASSUME NEW p \in Process, InsertBackend(p)
      PROVE  BindingsExist' /\ ReadIsTrue'
  <2>1. job[p].pc = "backend" /\ Advance(p, Backends, "names") /\ "names" \in Places
    BY <1>8 DEF InsertBackend, Places, Phases
  <2>2. Reads(p) /\ \A q \in Process : q # p => job'[q] = job[q]
    BY <2>1, Advances
  <2>3. \A s \in Names : backends[s] # None => backends'[s] = backends[s]
    BY <1>8, SeedingKeepsRows DEF RowsKept
  <2>4. \A id \in Id : There(id) => There(id)'
    BY <1>8, <2>3, RowsAreThere DEF InsertBackend
  <2> QED
    BY <1>8, <2>2, <2>4, BindingsKept DEF InsertBackend
<1>9. ASSUME NEW p \in Process, ReadNames(p)
      PROVE  BindingsExist' /\ ReadIsTrue'
  <2>1. Reads(p) /\ \A q \in Process : q # p => job'[q] = job[q]
    BY <1>9 DEF ReadNames, TypeOK, Job
  <2> QED
    BY <1>0, <1>9, <2>1 DEF ReadNames, tables
<1>10. ASSUME NEW p \in Process, Finish(p), UNCHANGED <<backends, agents, byHand>>
       PROVE  BindingsExist' /\ ReadIsTrue'
  BY <1>0, <1>10, Finishes
<1>11. ASSUME NEW p \in Process, ListAgents(p)
       PROVE  BindingsExist' /\ ReadIsTrue'
  <2>1. UNCHANGED <<backends, agents, byHand>> /\ (Go(p, "agent") \/ Finish(p))
    BY <1>11 DEF ListAgents, tables
  <2>2. job[p].pc = "agents" /\ "agent" \in Places
    BY <1>11 DEF ListAgents, Places, Phases
  <2> QED
    BY <1>2, <1>10, <2>1, <2>2
<1>12. ASSUME NEW p \in Process, InsertClash(p) \/ Fail(p)
       PROVE  BindingsExist' /\ ReadIsTrue'
  <2>1. /\ UNCHANGED <<backends, agents, byHand>>
        /\ Go(p, "backends") \/ Go(p, "names") \/ Finish(p)
    BY <1>12, Failing DEF tables
  <2>2. "backends" \in Places /\ "names" \in Places
    BY DEF Places, Phases
  <2> QED
    BY <1>2, <1>10, <2>1, <2>2
<1>13. ASSUME NEW p \in Process, InsertAgent(p)
       PROVE  BindingsExist' /\ ReadIsTrue'
  <2>1. job[p].pc = "agent" /\ UNCHANGED <<backends, byHand>>
    BY <1>13 DEF InsertAgent
  <2>2. Reads(p) /\ \A q \in Process : q # p => job'[q] = job[q]
    <3>1. Finish(p) \/ Advance(p, Agents, "agent")
      BY <1>13 DEF InsertAgent
    <3>2. "agent" \in Places
      BY DEF Places, Phases
    <3> QED
      BY <2>1, <3>1, <3>2, Finishes, Advances
  <2>3. \A a \in Agent : \/ agents'[a] = agents[a]
                         \/ \A id \in agents'[a] : \E d \in job[p].ids : id = d[2]
    <3>1. PICK b \in Agent, ids \in SUBSET Id :
             /\ \A id \in ids : \E d \in job[p].ids : id = d[2]
             /\ agents' = agents \/ agents' = [agents EXCEPT ![b] = ids]
      <4>1. PICK ids \in SUBSET Id :
               /\ ids = {d[2] : d \in {e \in job[p].ids : e[1] \in Binding[Agents[job[p].i]]}}
               /\ agents' = agents \/ agents' = [agents EXCEPT ![Agents[job[p].i]] = ids]
        BY <1>13, AgentBinding
      <4>2. \A id \in ids : \E d \in job[p].ids : id = d[2]
        BY <4>1
      <4> QED
        BY <1>13, <4>1, <4>2, AgentBinding
    <3> QED
      BY <3>1 DEF TypeOK
  <2>4. \A id \in Id : There(id) => There(id)'
    BY <2>1 DEF There
  <2> QED
    BY <2>1, <2>2, <2>3, <2>4, BindingsKept
<1>14. ASSUME NEW p \in Process, Restart(p)
       PROVE  BindingsExist' /\ ReadIsTrue'
  <2>1. job'[p] = Idle /\ \A q \in Process : q # p => job'[q] = job[q]
    BY <1>14 DEF Restart, TypeOK
  <2> QED
    BY <1>0, <1>14, <2>1 DEF Restart, tables, Idle
<1>15. ASSUME UNCHANGED <<job, backends, agents, byHand>>
       PROVE  BindingsExist' /\ ReadIsTrue'
  BY <1>15 DEF BindingsExist, ReadIsTrue, There
<1>16. ASSUME NEW p \in Process, Evict(p)
       PROVE  BindingsExist' /\ ReadIsTrue'
  BY <1>15, <1>16 DEF Evict, tables
<1>17. ASSUME NEW s \in Names, \/ AddServer(s) \/ RemoveServer(s)
                               \/ \E t \in Names : RenameServer(s, t)
       PROVE  BindingsExist' /\ ReadIsTrue'
  <2>1. UNCHANGED <<job, agents>>
    BY <1>17 DEF AddServer, RemoveServer, RenameServer, Edit
  <2>2. byHand \subseteq byHand' /\ \A u \in Names : backends[u] # None =>
           \/ backends[u] \in byHand'
           \/ \E t \in Names : backends'[t] = backends[u]
    <3>1. CASE AddServer(s)
      BY <3>1 DEF AddServer, TypeOK
    <3>2. CASE RemoveServer(s)
      BY <3>2 DEF RemoveServer, TypeOK
    <3>3. ASSUME NEW t \in Names, RenameServer(s, t)
          PROVE  byHand \subseteq byHand' /\ \A u \in Names : backends[u] # None =>
                    \E v \in Names : backends'[v] = backends[u]
      <4>1. backends' = [backends EXCEPT ![s] = None, ![t] = backends[s]] /\ backends[t] = None
        BY <3>3 DEF RenameServer
      <4>2. backends'[t] = backends[s]
        BY <4>1 DEF TypeOK
      <4>3. \A u \in Names \ {s, t} : backends'[u] = backends[u]
        BY <4>1 DEF TypeOK
      <4> QED
        BY <3>3, <4>1, <4>2, <4>3 DEF RenameServer
    <3> QED
      BY <1>17, <3>1, <3>2, <3>3
  <2>3. \A id \in Id : There(id) => There(id)'
    BY <2>2, RowsAreThere
  <2> QED
    BY <2>1, <2>3, BindingsKept
<1>18. ASSUME NEW a \in Agent, RemoveAgent(a) \/ \E ids \in Asked : SaveAgent(a, ids)
       PROVE  BindingsExist' /\ ReadIsTrue'
  <2>1. UNCHANGED <<job, backends>> /\ byHand \subseteq byHand'
    BY <1>18 DEF RemoveAgent, SaveAgent, Edit
  <2>2. \A b \in Agent : agents'[b] \in {agents[b], None} \/ agents'[b] \subseteq byHand'
    BY <1>18 DEF RemoveAgent, SaveAgent, TypeOK
  <2>3. \A id \in Id : There(id) => There(id)'
    BY <2>1 DEF There
  <2> QED
    BY <2>1, <2>2, <2>3, BindingsKept
<1>19. CASE DropDatabase
  <2>1. \A p \in Process : job'[p].pc \notin {"agents", "agent"}
    BY <1>19 DEF DropDatabase, Seeding, Phases, Idle, TypeOK
  <2> QED
    BY <1>19, <2>1 DEF DropDatabase, Blank, BindingsExist, ReadIsTrue
<1>20. CASE Deprovision \/ Rescan \/ Tick \/ UNCHANGED vars
  BY <1>15, <1>20 DEF Deprovision, Rescan, Tick, vars, tables
<1> QED
  BY <1>3, <1>4, <1>5, <1>6, <1>7, <1>8, <1>9, <1>11, <1>12, <1>13, <1>14, <1>16, <1>17, <1>18, <1>19,
     <1>20 DEF Next, Work

LEMMA BindingsInv == Spec => [](TypeOK /\ BindingsExist /\ ReadIsTrue)
<1>1. Init => TypeOK /\ BindingsExist /\ ReadIsTrue
  BY TypeOKInit DEF Init, BindingsExist, ReadIsTrue, Idle
<1>2. TypeOK /\ BindingsExist /\ ReadIsTrue /\ [Next]_vars => (TypeOK /\ BindingsExist /\ ReadIsTrue)'
  BY TypeOKNext, BindingsNext
<1> QED
  BY <1>1, <1>2, PTL DEF Spec

\* Whoever seeds at once, fails, dies in between, makes servers under the names of the seeds,
\* or gives them other names: an id that an agent is bound to is that of a server, unless a
\* person deleted that server or bound the agent to the id (seed_defaults reads the ids back
\* by name).
THEOREM BindingsAreTrue == Spec => []BindingsExist
BY BindingsInv, PTL

\* Stores may be opened as often as one likes and by any number of processes at once: rows that
\* are there stay as they are (insert_if_absent).
THEOREM RowsAreKept == Spec => RowsStay
<1>1. TypeOK /\ [Next]_vars =>
         [db' /\ edits' = edits =>
              /\ \A f \in Flow : flows[f] # 0 => flows'[f] = flows[f]
              /\ \A s \in Names : backends[s] # None => backends'[s] = backends[s]
              /\ \A a \in Agent : agents[a] # None => agents'[a] = agents[a]]_vars
  <2> SUFFICES ASSUME TypeOK, Next, db', edits' = edits
               PROVE  RowsKept
    BY DEF RowsKept
  <2>1. CASE UNCHANGED tables
    BY <2>1 DEF tables, RowsKept
  <2>2. ASSUME NEW p \in Process, Get(p) \/ Provision(p) \/ Migrate(p) \/ Restart(p) \/ Evict(p)
        PROVE  RowsKept
    BY <2>1, <2>2 DEF Get, Provision, Migrate, Restart, Evict
  <2>3. ASSUME NEW p \in Process, Register(p) \/ Version(p)
        PROVE  RowsKept
    BY <2>1, <2>3 DEF Register, Version
  <2>4. ASSUME NEW p \in Process, \/ ListFlows(p) \/ InsertFlow(p) \/ ListBackends(p)
                                  \/ InsertBackend(p) \/ ReadNames(p) \/ ListAgents(p)
                                  \/ InsertAgent(p) \/ InsertClash(p) \/ Fail(p)
        PROVE  RowsKept
    BY <2>4, SeedingKeepsRows
  <2>5. ~Edit
    <3>1. edits \in Nat
      BY ValuesAssumption DEF TypeOK
    <3>2. edits' # edits + 1
      BY <3>1
    <3> QED
      BY <3>2 DEF Edit
  <2>6. /\ \A s \in Names : /\ ~AddServer(s) /\ ~RemoveServer(s)
                            /\ \A t \in Names : ~RenameServer(s, t)
        /\ \A a \in Agent : ~RemoveAgent(a) /\ \A ids \in Asked : ~SaveAgent(a, ids)
    BY <2>5 DEF AddServer, RemoveServer, RenameServer, RemoveAgent, SaveAgent
  <2>7. ~DropDatabase
    BY DEF DropDatabase
  <2>8. CASE Deprovision \/ Rescan \/ Tick
    BY <2>1, <2>8 DEF Deprovision, Rescan, Tick
  <2> QED
    BY <2>2, <2>3, <2>4, <2>6, <2>7, <2>8 DEF Next, Work
<1>2. Spec => []TypeOK
  BY BindingsInv, PTL
<1> QED
  BY <1>1, <1>2, PTL DEF Spec, RowsStay

-----------------------------------------------------------------------------
(* The order of a seeding *)

LEMMA FullIsNotBlank ==
    /\ FlowsThere => ~NoFlows
    /\ ServersThere => ~NoServers
<1>1. Flows[1] \in Flow /\ Backends[1] \in Backend /\ Backend \subseteq Names
  BY Lists, BindingAssumption
<1> QED
  BY <1>1 DEF FlowsThere, NoFlows, ServersThere, NoServers

LEMMA FlowsUnmoved ==
    ASSUME flows' = flows
    PROVE  /\ FlowsThere' <=> FlowsThere
           /\ NoFlows' <=> NoFlows
BY DEF FlowsThere, NoFlows

LEMMA ServersUnmoved ==
    ASSUME backends' = backends
    PROVE  /\ ServersThere' <=> ServersThere
           /\ NoServers' <=> NoServers
           /\ Known' = Known
BY DEF ServersThere, NoServers, Known

LEMMA AgentsUnmoved ==
    ASSUME UNCHANGED <<backends, agents>>
    PROVE  /\ AgentsThere' <=> AgentsThere
           /\ NoAgents' <=> NoAgents
           /\ \A a \in Agent : AsDeclared(a)' <=> AsDeclared(a)
<1>1. \A a \in Agent : AsDeclared(a)' <=> AsDeclared(a)
  BY DEF AsDeclared
<1> QED
  BY <1>1 DEF AgentsThere, NoAgents

LEMMA Unmoved ==
    ASSUME UNCHANGED <<tables, missed>>
    PROVE  /\ Arrived' <=> Arrived
           /\ Settled' <=> Settled
           /\ BeforeServers' <=> BeforeServers
           /\ FlowsDone' <=> FlowsDone
           /\ ServersDone' <=> ServersDone
           /\ Sure' <=> Sure
BY FlowsUnmoved, ServersUnmoved, AgentsUnmoved
   DEF tables, Arrived, Settled, BeforeServers, FlowsDone, ServersDone, Sure

LEMMA StageUnmoved ==
    ASSUME UNCHANGED <<tables, missed>>, NEW p \in Process, job'[p] = job[p], Stage(p)
    PROVE  Stage(p)'
<1>1. UNCHANGED <<flows, backends, agents>>
  BY DEF tables
<1>2. FlowsStage(p)'
  BY <1>1, Unmoved, FlowsUnmoved DEF Stage, FlowsStage, FlowsBefore
<1>3. ServersStage(p)'
  BY <1>1, Unmoved, ServersUnmoved, AgentsUnmoved DEF Stage, ServersStage
<1>4. AgentsStage(p)'
  <2>1. /\ (AgentsThere' <=> AgentsThere) /\ (NoAgents' <=> NoAgents) /\ Known' = Known
        /\ \A a \in Agent : AsDeclared(a)' <=> AsDeclared(a)
    BY <1>1, ServersUnmoved, AgentsUnmoved
  <2>2. AgentsStage(p)
    BY DEF Stage
  <2>3. job[p].pc = "agent" /\ Sure =>
          /\ \A a \in Agent : agents'[a] = None \/ AsDeclared(a)'
          /\ \A j \in 1..(job[p].i - 1) : AsDeclared(Agents[j])'
    <3> SUFFICES ASSUME job[p].pc = "agent", Sure
                 PROVE  /\ \A a \in Agent : agents'[a] = None \/ AsDeclared(a)'
                        /\ \A j \in 1..(job[p].i - 1) : AsDeclared(Agents[j])'
      OBVIOUS
    <3>1. /\ \A a \in Agent : agents[a] = None \/ AsDeclared(a)
          /\ \A j \in 1..(job[p].i - 1) : AsDeclared(Agents[j])
      BY <2>2 DEF AgentsStage
    <3>2. ASSUME NEW j \in 1..(job[p].i - 1)
          PROVE  AsDeclared(Agents[j])'
      <4>1. AsDeclared(Agents[j])
        BY <3>1
      <4> QED
        BY <1>1, <4>1 DEF AsDeclared
    <3> QED
      BY <1>1, <2>1, <3>1, <3>2
  <2> QED
    BY <2>1, <2>2, <2>3, Unmoved DEF AgentsStage
<1> QED
  BY <1>2, <1>3, <1>4 DEF Stage

LEMMA ArrivedIsSettled == Arrived => Settled
BY DEF Arrived, Settled, BeforeServers, Sure, ServersDone

\* Steps of others than a seeder, which leave the tables alone.
LEMMA QuietKeepsOrder ==
    ASSUME Orderly, UNCHANGED <<tables, missed>>, ~disturbed' => ~disturbed,
           ~disturbed' => \A q \in Process : \/ job'[q] = job[q]
                                             \/ ~Seeding(q) /\ ~Seeding(q)',
           \A q \in Process : bundle'[q] = "open" => bundle[q] = "open"
    PROVE  Orderly'
<1> SUFFICES ASSUME ~disturbed'
             PROVE  /\ \A p, q \in Process : Seeding(p)' /\ Seeding(q)' => p = q
                    /\ \A p \in Process : Seeding(p)' => Stage(p)'
                    /\ (\A p \in Process : ~Seeding(p)') => Settled'
                    /\ (\E p \in Process : bundle'[p] = "open") => Arrived'
  BY DEF Orderly
<1>1. /\ \A p, q \in Process : Seeding(p) /\ Seeding(q) => p = q
      /\ \A p \in Process : Seeding(p) => Stage(p)
      /\ (\A p \in Process : ~Seeding(p)) => Settled
      /\ (\E p \in Process : bundle[p] = "open") => Arrived
  BY DEF Orderly
<1>2. \A q \in Process : Seeding(q)' <=> Seeding(q)
  BY DEF Seeding
<1>3. ASSUME NEW p \in Process, Seeding(p)'
      PROVE  Stage(p)'
  <2>1. Seeding(p) /\ job'[p] = job[p] /\ Stage(p)
    BY <1>1, <1>2, <1>3
  <2> QED
    BY <2>1, StageUnmoved
<1> QED
  BY <1>1, <1>2, <1>3, Unmoved

\* A step of the seeder.
LEMMA SeederKeepsOrder ==
    ASSUME Orderly, NEW p \in Process, Seeding(p), disturbed' = disturbed,
           \A q \in Process : q # p => job'[q] = job[q],
           Seeding(p)' => bundle' = bundle,
           ~disturbed /\ Stage(p) =>
              /\ Arrived => Arrived'
              /\ IF Seeding(p)' THEN Stage(p)' ELSE Arrived'
    PROVE  Orderly'
<1> SUFFICES ASSUME ~disturbed'
             PROVE  /\ \A q, r \in Process : Seeding(q)' /\ Seeding(r)' => q = r
                    /\ \A q \in Process : Seeding(q)' => Stage(q)'
                    /\ (\A q \in Process : ~Seeding(q)') => Settled'
                    /\ (\E q \in Process : bundle'[q] = "open") => Arrived'
  BY DEF Orderly
<1>1. Stage(p) /\ \A q \in Process : q # p => ~Seeding(q)
  BY DEF Orderly
<1>2. \A q \in Process : q # p => ~Seeding(q)'
  BY <1>1 DEF Seeding
<1>3. Arrived' => Settled'
  BY ArrivedIsSettled, PTL
<1>4. (\E q \in Process : bundle'[q] = "open") => Arrived'
  <2>1. CASE Seeding(p)'
    BY <1>1, <2>1 DEF Orderly
  <2>2. CASE ~Seeding(p)'
    BY <1>1, <2>2
  <2> QED
    BY <2>1, <2>2
<1> QED
  BY <1>1, <1>2, <1>3, <1>4

\* Stores that are opened while nobody else opens them: what there is, is settled.
LEMMA ConnectKeepsOrder ==
    ASSUME TypeOK, Orderly, NEW p \in Process, Connect(p), ~Seeding(p), UNCHANGED <<tables, bundle>>
    PROVE  Orderly'
<1> SUFFICES ASSUME ~disturbed'
             PROVE  /\ \A q, r \in Process : Seeding(q)' /\ Seeding(r)' => q = r
                    /\ \A q \in Process : Seeding(q)' => Stage(q)'
                    /\ (\A q \in Process : ~Seeding(q)') => Settled'
                    /\ (\E q \in Process : bundle'[q] = "open") => Arrived'
  BY DEF Orderly
<1>1. /\ job'[p].pc = "flows" /\ \A q \in Process : q # p => job'[q] = job[q]
      /\ ~disturbed /\ \A q \in Process : q # p => ~Seeding(q)
      /\ missed' = missed
  BY Connects
<1>2. /\ Settled
      /\ (\E q \in Process : bundle[q] = "open") => Arrived
  BY <1>1 DEF Orderly
<1>3. \A q \in Process : q # p => ~Seeding(q)'
  BY <1>1 DEF Seeding
<1>4. Settled' /\ (Arrived' <=> Arrived)
  BY <1>1, <1>2, Unmoved
<1>5. Stage(p)'
  BY <1>1, <1>4 DEF Stage, FlowsStage, ServersStage, AgentsStage, Settled
<1> QED
  BY <1>2, <1>3, <1>4, <1>5

LEMMA ListFlowsKeepsOrder ==
    ASSUME TypeOK, Orderly, NEW p \in Process, ListFlows(p)
    PROVE  Orderly'
<1>1. /\ job[p].pc = "flows" /\ job[p].i = 1 /\ clock \in Nat /\ UNCHANGED <<tables, bundle>>
      /\ UNCHANGED <<disturbed, missed>>
  BY DEF ListFlows, TypeOK, InList, history
<1>2. /\ job'[p].pc = (IF NoFlows THEN "flow" ELSE "backends")
      /\ job'[p].base = clock /\ job'[p].i = 1
      /\ \A q \in Process : q # p => job'[q] = job[q]
  BY <1>1 DEF ListFlows, TypeOK, Job
<1>3. Seeding(p) /\ Seeding(p)'
  BY <1>1, <1>2 DEF Seeding, Phases
<1>4. ASSUME Stage(p)
      PROVE  Stage(p)'
  <2>1. (NoFlows \/ FlowsDone) /\ BeforeServers'
    BY <1>1, <1>4, Unmoved DEF Stage, FlowsStage, ServersStage
  <2>2. CASE NoFlows
    <3>1. job'[p].pc = "flow"
      BY <1>2, <2>2
    <3>2. \A j \in DOMAIN Flows : flows'[Flows[j]] = 0 /\ ~(j < 1)
      BY <1>1, <2>2, Lists DEF NoFlows, tables
    <3>3. FlowsBefore(job[p].i, job[p].base)'
      BY <1>2, <3>2 DEF FlowsBefore
    <3> QED
      BY <2>1, <3>1, <3>3 DEF Stage, FlowsStage, ServersStage, AgentsStage
  <2>3. CASE ~NoFlows
    <3>1. job'[p].pc = "backends" /\ FlowsDone'
      BY <1>1, <1>2, <2>1, <2>3, Unmoved
    <3> QED
      BY <2>1, <3>1 DEF Stage, FlowsStage, ServersStage, AgentsStage
  <2> QED
    BY <2>2, <2>3
<1> QED
  BY <1>1, <1>2, <1>3, <1>4, SeederKeepsOrder, Unmoved

\* The last of the manifest gets the latest time.
LEMMA InsertFlowKeepsOrder ==
    ASSUME TypeOK, Orderly, NEW p \in Process, InsertFlow(p)
    PROVE  Orderly'
<1> DEFINE i == job[p].i
           base == job[p].base
<1>1. /\ job[p].pc = "flow" /\ Advance(p, Flows, "backends") /\ "backends" \in Places
      /\ UNCHANGED <<backends, agents, bundle, disturbed, missed>>
      /\ flows' = [flows EXCEPT ![Flows[i]] = IF @ = 0 THEN base + i ELSE @]
  BY DEF InsertFlow, Places, Phases, Stamp, history
<1>2. /\ i \in 1..Len(Flows) /\ base \in Nat /\ job'[p].base = base
      /\ \/ i = Len(Flows) /\ job'[p].pc = "backends"
         \/ i # Len(Flows) /\ job'[p].pc = "flow" /\ job'[p].i = i + 1
      /\ \A q \in Process : q # p => job'[q] = job[q]
  <2>1. base \in Nat
    BY DEF TypeOK, Job
  <2>2. /\ i \in 1..Len(Flows) /\ job'[p].base = base
        /\ \/ i = Len(Flows) /\ job'[p].pc = "backends"
           \/ i # Len(Flows) /\ job'[p].pc = job[p].pc /\ job'[p].i = i + 1
        /\ \A q \in Process : q # p => job'[q] = job[q]
    BY <1>1, Advances
  <2> QED
    BY <1>1, <2>1, <2>2
<1>3. Seeding(p) /\ Seeding(p)'
  BY <1>1, <1>2 DEF Seeding, Phases
<1>4. (Sure' <=> Sure) /\ (BeforeServers' <=> BeforeServers) /\ (ServersDone' <=> ServersDone)
  BY <1>1, ServersUnmoved, AgentsUnmoved DEF Sure, BeforeServers, ServersDone
<1>5. Arrived => Arrived'
  <2>1. FlowsThere => flows' = flows
    <3>1. Flows[i] \in Flow
      BY <1>2, Lists
    <3> QED
      BY <1>1, <3>1 DEF FlowsThere, TypeOK
  <2>2. FlowsDone => FlowsDone'
    BY <1>1, <2>1, FlowsUnmoved DEF FlowsDone
  <2> QED
    BY <1>1, <1>4, <2>2, AgentsUnmoved DEF Arrived
<1>6. ASSUME "flows" \notin missed, FlowsBefore(i, base)
      PROVE  \A j \in 1..Len(Flows) : flows'[Flows[j]] = IF j < i + 1 THEN base + j ELSE 0
  <2>1. /\ Len(Flows) \in Nat /\ DOMAIN Flows = 1..Len(Flows)
        /\ \A j \in 1..Len(Flows) : Flows[j] \in Flow
    BY Lists
  <2> SUFFICES ASSUME NEW j \in 1..Len(Flows)
               PROVE  flows'[Flows[j]] = IF j < i + 1 THEN base + j ELSE 0
    OBVIOUS
  <2>2. flows[Flows[j]] = IF j < i THEN base + j ELSE 0
    BY <1>6, <2>1 DEF FlowsBefore
  <2>3. CASE j = i
    BY <1>1, <1>2, <2>1, <2>2, <2>3 DEF TypeOK
  <2>4. CASE j # i
    <3>1. Flows[j] # Flows[i]
      BY <1>2, <2>1, <2>4, SeedsAssumption
    <3>2. flows'[Flows[j]] = flows[Flows[j]]
      BY <1>1, <2>1, <3>1 DEF TypeOK
    <3> QED
      BY <1>2, <2>2, <2>4, <3>2
  <2> QED
    BY <2>3, <2>4
<1>7. ASSUME Stage(p)
      PROVE  Stage(p)'
  <2>1. ("flows" \notin missed => FlowsBefore(i, base)) /\ BeforeServers'
    BY <1>1, <1>4, <1>7 DEF Stage, FlowsStage, ServersStage
  <2>2. Len(Flows) \in Nat /\ DOMAIN Flows = 1..Len(Flows)
    BY Lists
  <2>3. CASE i = Len(Flows)
    <3>1. ASSUME "flows" \notin missed
          PROVE  FlowsThere'
      <4>1. \A j \in 1..Len(Flows) : flows'[Flows[j]] = base + j
        BY <1>6, <2>1, <2>2, <2>3, <3>1
      <4>2. \A f \in Flow : flows'[f] # 0
        BY <1>2, <2>2, <4>1, Lists
      <4>3. ASSUME NEW f \in Flow \ {Flows[Len(Flows)]}
            PROVE  flows'[f] < flows'[Flows[Len(Flows)]]
        <5>1. PICK j \in 1..Len(Flows) : f = Flows[j]
          BY Lists
        <5>2. j < Len(Flows) /\ Len(Flows) \in 1..Len(Flows)
          BY <1>2, <2>2, <5>1
        <5> QED
          BY <1>2, <2>2, <4>1, <5>1, <5>2
      <4> QED
        BY <4>2, <4>3 DEF FlowsThere
    <3>2. FlowsDone'
      BY <1>1, <3>1 DEF FlowsDone
    <3>3. job'[p].pc = "backends"
      BY <1>2, <2>3
    <3> QED
      BY <2>1, <3>2, <3>3 DEF Stage, FlowsStage, ServersStage, AgentsStage
  <2>4. CASE i # Len(Flows)
    <3>1. job'[p].pc = "flow" /\ job'[p].i = i + 1
      BY <1>2, <2>4
    <3>2. "flows" \notin missed => FlowsBefore(job[p].i, job[p].base)'
      BY <1>2, <1>6, <2>1, <2>2, <3>1 DEF FlowsBefore
    <3> QED
      BY <1>1, <2>1, <3>1, <3>2 DEF Stage, FlowsStage, ServersStage, AgentsStage
  <2> QED
    BY <2>3, <2>4
<1> QED
  BY <1>1, <1>2, <1>3, <1>5, <1>7, SeederKeepsOrder

LEMMA ListBackendsKeepsOrder ==
    ASSUME TypeOK, Orderly, NEW p \in Process, ListBackends(p)
    PROVE  Orderly'
<1>1. /\ job[p].pc = "backends" /\ UNCHANGED <<tables, bundle, disturbed, missed>>
      /\ Go(p, IF NoServers THEN "backend" ELSE "names")
  BY DEF ListBackends, history
<1>2. /\ job'[p].pc = (IF NoServers THEN "backend" ELSE "names") /\ job'[p].i = 1
      /\ \A q \in Process : q # p => job'[q] = job[q]
  <2>1. PICK pc \in {"backend", "names"} : pc = IF NoServers THEN "backend" ELSE "names"
    OBVIOUS
  <2>2. Go(p, pc) /\ pc \in Places
    BY <1>1, <2>1 DEF Places, Phases
  <2> QED
    BY <2>1, <2>2, GoesOn
<1>3. Seeding(p) /\ Seeding(p)'
  BY <1>1, <1>2 DEF Seeding, Phases
<1>4. (NoAgents' <=> NoAgents) /\ (AgentsThere' <=> AgentsThere)
  BY <1>1, AgentsUnmoved DEF tables
<1>5. ASSUME Stage(p)
      PROVE  Stage(p)'
  <2>1. FlowsDone' /\ BeforeServers
    BY <1>1, <1>5, Unmoved DEF Stage, FlowsStage, ServersStage
  <2>2. CASE NoServers
    <3>1. job'[p].pc = "backend" /\ (Sure' => NoAgents')
      BY <1>1, <1>2, <1>4, <2>1, <2>2, FullIsNotBlank, Unmoved DEF BeforeServers
    <3>2. \A j \in 1..(job'[p].i - 1) : FALSE
      BY <1>2
    <3> QED
      BY <2>1, <3>1, <3>2 DEF Stage, FlowsStage, ServersStage, AgentsStage
  <2>3. CASE ~NoServers
    <3>1. job'[p].pc = "names" /\ ServersDone' /\ (Sure' => NoAgents' \/ AgentsThere')
      BY <1>1, <1>2, <1>4, <2>1, <2>3, Unmoved DEF BeforeServers
    <3> QED
      BY <2>1, <3>1 DEF Stage, FlowsStage, ServersStage, AgentsStage
  <2> QED
    BY <2>2, <2>3
<1> QED
  BY <1>1, <1>2, <1>3, <1>5, SeederKeepsOrder, Unmoved

LEMMA InsertBackendKeepsOrder ==
    ASSUME TypeOK, Orderly, NEW p \in Process, InsertBackend(p)
    PROVE  Orderly'
<1> DEFINE i == job[p].i
<1>1. /\ job[p].pc = "backend" /\ Advance(p, Backends, "names") /\ "names" \in Places
      /\ UNCHANGED <<flows, agents, bundle, disturbed, missed>>
      /\ backends' = SeedServer(Backends[i])
  BY DEF InsertBackend, Places, Phases, history
<1>2. /\ i \in 1..Len(Backends)
      /\ \/ i = Len(Backends) /\ job'[p].pc = "names"
         \/ i # Len(Backends) /\ job'[p].pc = "backend" /\ job'[p].i = i + 1
      /\ \A q \in Process : q # p => job'[q] = job[q]
  <2>1. /\ i \in 1..Len(Backends)
        /\ \/ i = Len(Backends) /\ job'[p].pc = "names"
           \/ i # Len(Backends) /\ job'[p].pc = job[p].pc /\ job'[p].i = i + 1
        /\ \A q \in Process : q # p => job'[q] = job[q]
    BY <1>1, Advances
  <2> QED
    BY <1>1, <2>1
<1>3. Seeding(p) /\ Seeding(p)'
  BY <1>1, <1>2 DEF Seeding, Phases
<1>4. /\ Len(Backends) \in Nat
      /\ \A j \in 1..Len(Backends) : Backends[j] \in Backend
      /\ Backend \subseteq Names
  BY Lists, BindingAssumption
<1>5. (FlowsDone' <=> FlowsDone) /\ (Sure' <=> Sure) /\ (NoAgents' <=> NoAgents)
  BY <1>1, FlowsUnmoved DEF FlowsDone, Sure, NoAgents
<1>6. Arrived => Arrived'
  <2>1. CASE "backends" \in missed
    BY <1>1, <1>5, <2>1 DEF Arrived, ServersDone, Sure
  <2>2. CASE "backends" \notin missed
    <3>1. ServersThere => backends' = backends
      BY <1>1, <1>2, <1>4 DEF ServersThere, SeedServer, TypeOK
    <3> QED
      BY <1>1, <1>5, <2>2, <3>1, ServersUnmoved, AgentsUnmoved DEF Arrived, ServersDone
  <2> QED
    BY <2>1, <2>2
<1>7. ASSUME Stage(p)
      PROVE  Stage(p)'
  <2>1. /\ FlowsDone' /\ (Sure' => NoAgents')
        /\ "backends" \notin missed => \A j \in 1..(i - 1) : backends[Backends[j]] # None
    BY <1>1, <1>5, <1>7 DEF Stage, FlowsStage, ServersStage
  <2>2. ASSUME "backends" \notin missed, NEW j \in 1..i
        PROVE  backends'[Backends[j]] # None
    <3>1. Backends[j] \in Names /\ Backends[i] \in Names
      BY <1>2, <1>4
    <3>2. SeedId(Backends[i]) # None
      BY <3>1, ValuesAssumption DEF SeedId, Id
    <3>3. Backends[j] = Backends[i] \/ backends[Backends[j]] # None
      BY <1>2, <2>1, <2>2
    <3> QED
      BY <1>1, <3>1, <3>2, <3>3 DEF SeedServer, TypeOK
  <2>3. CASE i = Len(Backends)
    <3>1. ServersDone'
      BY <1>1, <2>2, <2>3, Lists DEF ServersThere, ServersDone
    <3>2. job'[p].pc = "names"
      BY <1>2, <2>3
    <3> QED
      BY <2>1, <3>1, <3>2 DEF Stage, FlowsStage, ServersStage, AgentsStage
  <2>4. CASE i # Len(Backends)
    <3>1. job'[p].pc = "backend" /\ job'[p].i = i + 1
      BY <1>2, <2>4
    <3>2. "backends" \notin missed' => \A j \in 1..(job'[p].i - 1) : backends'[Backends[j]] # None
      BY <1>1, <1>2, <2>2, <3>1
    <3> QED
      BY <2>1, <3>1, <3>2 DEF Stage, FlowsStage, ServersStage, AgentsStage
  <2> QED
    BY <2>3, <2>4
<1> QED
  BY <1>1, <1>2, <1>3, <1>6, <1>7, SeederKeepsOrder

LEMMA ReadNamesKeepsOrder ==
    ASSUME TypeOK, Orderly, NEW p \in Process, ReadNames(p)
    PROVE  Orderly'
<1>1. /\ job[p].pc = "names" /\ UNCHANGED <<tables, bundle, disturbed, missed>>
      /\ job'[p].pc = "agents" /\ job'[p].ids = Known
      /\ \A q \in Process : q # p => job'[q] = job[q]
  BY DEF ReadNames, TypeOK, Job, history
<1>2. Seeding(p) /\ Seeding(p)'
  BY <1>1 DEF Seeding, Phases
<1>3. Known' = Known /\ (NoAgents' <=> NoAgents) /\ (AgentsThere' <=> AgentsThere)
  BY <1>1, ServersUnmoved, AgentsUnmoved DEF tables
<1>4. ASSUME Stage(p)
      PROVE  Stage(p)'
  <2>1. FlowsDone' /\ ServersDone' /\ (Sure' => NoAgents' \/ AgentsThere')
    BY <1>1, <1>3, <1>4, Unmoved DEF Stage, FlowsStage, ServersStage, AgentsStage
  <2> QED
    BY <1>1, <1>3, <2>1 DEF Stage, FlowsStage, ServersStage, AgentsStage
<1> QED
  BY <1>1, <1>2, <1>4, SeederKeepsOrder, Unmoved

LEMMA ListAgentsKeepsOrder ==
    ASSUME TypeOK, Orderly, NEW p \in Process, ListAgents(p)
    PROVE  Orderly'
<1>1. job[p].pc = "agents" /\ UNCHANGED <<tables, disturbed, missed>> /\ Seeding(p)
  BY DEF ListAgents, history, Seeding, Phases
<1>2. (NoAgents' <=> NoAgents) /\ Known' = Known
  BY <1>1, ServersUnmoved, AgentsUnmoved DEF tables
<1>3. CASE NoAgents
  <2>1. Go(p, "agent") /\ bundle' = bundle /\ "agent" \in Places
    BY <1>3 DEF ListAgents, NoAgents, Places, Phases
  <2>2. /\ job'[p].pc = "agent" /\ job'[p].i = 1 /\ job'[p].ids = job[p].ids
        /\ \A q \in Process : q # p => job'[q] = job[q]
    BY <2>1, GoesOn
  <2>3. Seeding(p)'
    BY <2>2 DEF Seeding, Phases
  <2>4. ASSUME Stage(p)
        PROVE  Stage(p)'
    <3>1. FlowsDone' /\ ServersDone' /\ job'[p].ids = Known'
      BY <1>1, <1>2, <2>2, <2>4, Unmoved DEF Stage, FlowsStage, ServersStage, AgentsStage
    <3>2. \A a \in Agent : agents'[a] = None
      BY <1>1, <1>3 DEF NoAgents, tables
    <3>3. \A j \in 1..(job'[p].i - 1) : FALSE
      BY <2>2
    <3> QED
      BY <2>2, <3>1, <3>2, <3>3 DEF Stage, FlowsStage, ServersStage, AgentsStage
  <2> QED
    BY <1>1, <2>1, <2>2, <2>3, <2>4, SeederKeepsOrder, Unmoved
<1>4. CASE ~NoAgents
  <2>1. Finish(p)
    BY <1>4 DEF ListAgents, NoAgents
  <2>2. ~Seeding(p)' /\ \A q \in Process : q # p => job'[q] = job[q]
    BY <2>1, Finishes DEF Seeding, Phases
  <2>3. ASSUME Stage(p)
        PROVE  Arrived'
    <3>1. Arrived
      BY <1>1, <1>4, <2>3 DEF Stage, FlowsStage, ServersStage, AgentsStage, Arrived
    <3> QED
      BY <1>1, <3>1, Unmoved
  <2> QED
    BY <1>1, <2>2, <2>3, SeederKeepsOrder
<1> QED
  BY <1>3, <1>4

\* An agent gets those of its servers that are in the table by now.
LEMMA InsertAgentKeepsOrder ==
    ASSUME TypeOK, Orderly, NEW p \in Process, InsertAgent(p)
    PROVE  Orderly'
<1> DEFINE i == job[p].i
<1>1. /\ job[p].pc = "agent" /\ UNCHANGED <<flows, backends, disturbed, missed>> /\ Seeding(p)
  BY DEF InsertAgent, history, Seeding, Phases
<1>2. /\ i \in 1..Len(Agents)
      /\ \/ i = Len(Agents) /\ ~Seeding(p)'
         \/ /\ i # Len(Agents) /\ job'[p].pc = "agent" /\ job'[p].i = i + 1 /\ bundle' = bundle
            /\ Seeding(p)' /\ job'[p].ids = job[p].ids
      /\ \A q \in Process : q # p => job'[q] = job[q]
  <2>1. i \in 1..Len(Agents)
    BY AgentBinding
  <2>2. CASE i = Len(Agents)
    <3>1. Finish(p)
      BY <2>2 DEF InsertAgent
    <3> QED
      BY <2>1, <2>2, <3>1, Finishes DEF Seeding, Phases
  <2>3. CASE i # Len(Agents)
    <3>1. Advance(p, Agents, "agent") /\ bundle' = bundle /\ "agent" \in Places
      BY <2>3 DEF InsertAgent, Places, Phases
    <3>2. /\ job'[p].pc = "agent" /\ job'[p].i = i + 1 /\ job'[p].ids = job[p].ids
          /\ \A q \in Process : q # p => job'[q] = job[q]
      BY <1>1, <2>3, <3>1, Advances
    <3> QED
      BY <2>1, <2>3, <3>1, <3>2 DEF Seeding, Phases
  <2> QED
    BY <2>2, <2>3
<1>3. (FlowsDone' <=> FlowsDone) /\ (ServersDone' <=> ServersDone) /\ Known' = Known /\ (Sure' <=> Sure)
  BY <1>1, FlowsUnmoved, ServersUnmoved DEF FlowsDone, ServersDone, Sure
<1>4. PICK a \in Agent, ids \in SUBSET Id :
         /\ a = Agents[i]
         /\ ids = {d[2] : d \in {e \in job[p].ids : e[1] \in Binding[a]}}
         /\ \/ /\ agents[a] # None \/ (ids = {} /\ a \notin Custom)
               /\ agents' = agents
            \/ /\ agents[a] = None /\ ~(ids = {} /\ a \notin Custom)
               /\ agents' = [agents EXCEPT ![a] = ids]
  BY AgentBinding
<1>5. \A b \in Agent : agents'[b] = agents[b] \/ b = a
  BY <1>4 DEF TypeOK
<1>6. \A b \in Agent : b # a /\ AsDeclared(b) => AsDeclared(b)'
  BY <1>1, <1>5 DEF AsDeclared
<1>7. ASSUME job[p].ids = Known, agents[a] = None \/ AsDeclared(a)
      PROVE  AsDeclared(a)'
  <2>1. ids = {backends[s] : s \in {t \in Binding[a] : backends[t] # None}}
    <3>1. Binding[a] \subseteq Names
      BY BindingAssumption
    <3>2. ASSUME NEW s \in Binding[a], backends[s] # None
          PROVE  backends[s] \in ids
      <4>1. <<s, backends[s]>> \in job[p].ids
        BY <1>7, <3>1, <3>2 DEF Known
      <4> QED
        BY <1>4, <4>1
    <3>3. ASSUME NEW id \in ids
          PROVE  \E s \in Binding[a] : backends[s] # None /\ id = backends[s]
      <4>1. PICK d \in Known : id = d[2] /\ d[1] \in Binding[a]
        BY <1>4, <1>7
      <4> QED
        BY <4>1 DEF Known
    <3> QED
      BY <3>2, <3>3
  <2>2. agents'[a] = IF agents[a] # None THEN agents[a]
                     ELSE IF ids = {} /\ a \notin Custom THEN None ELSE ids
    BY <1>4 DEF TypeOK
  <2>3. AsDeclared(a) <=> agents[a] = IF ids = {} /\ a \notin Custom THEN None ELSE ids
    BY <2>1 DEF AsDeclared
  <2>4. AsDeclared(a)' <=> agents'[a] = IF ids = {} /\ a \notin Custom THEN None ELSE ids
    BY <1>1, <2>1 DEF AsDeclared
  <2> QED
    BY <1>7, <2>2, <2>3, <2>4
<1>8. ASSUME Stage(p)
      PROVE  (Arrived => Arrived') /\ (IF Seeding(p)' THEN Stage(p)' ELSE Arrived')
  <2>1. /\ FlowsDone /\ ServersDone /\ job[p].ids = Known
        /\ Sure => /\ \A b \in Agent : agents[b] = None \/ AsDeclared(b)
                   /\ \A j \in 1..(i - 1) : AsDeclared(Agents[j])
    BY <1>1, <1>8 DEF Stage, FlowsStage, ServersStage, AgentsStage
  <2>2. ASSUME Sure
        PROVE  /\ AsDeclared(a)'
               /\ \A b \in Agent : AsDeclared(b) => AsDeclared(b)'
               /\ \A b \in Agent : agents'[b] = None \/ AsDeclared(b)'
    <3>1. AsDeclared(a)'
      BY <1>7, <2>1, <2>2
    <3> QED
      BY <1>5, <1>6, <2>1, <2>2, <3>1
  <2>3. Arrived => Arrived'
    BY <1>3, <2>2 DEF Arrived, AgentsThere
  <2>4. ASSUME Sure, NEW j \in 1..i
        PROVE  AsDeclared(Agents[j])'
    <3>1. Agents[j] \in Agent
      BY <1>2, Lists
    <3>2. j = i \/ AsDeclared(Agents[j])
      BY <1>2, <2>1, <2>4
    <3> QED
      BY <1>4, <2>2, <2>4, <3>1, <3>2
  <2>5. CASE i = Len(Agents)
    <3>1. Sure' => AgentsThere'
      <4> SUFFICES ASSUME Sure, NEW b \in Agent
                   PROVE  AsDeclared(b)'
        BY <1>3 DEF AgentsThere
      <4>1. PICK j \in 1..Len(Agents) : b = Agents[j]
        BY Lists
      <4> QED
        BY <2>4, <2>5, <4>1
    <3>2. Arrived'
      BY <1>3, <2>1, <3>1 DEF Arrived
    <3> QED
      BY <1>2, <2>3, <2>5, <3>2
  <2>6. CASE i # Len(Agents)
    <3>1. job'[p].pc = "agent" /\ job'[p].i = i + 1 /\ job'[p].ids = Known'
      BY <1>2, <1>3, <2>1, <2>6
    <3>2. Sure' => \A j \in 1..(job'[p].i - 1) : AsDeclared(Agents[j])'
      BY <1>2, <1>3, <2>4, <3>1
    <3>3. Sure' => \A b \in Agent : agents'[b] = None \/ AsDeclared(b)'
      BY <1>3, <2>2
    <3>4. Stage(p)'
      BY <1>3, <2>1, <3>1, <3>2, <3>3 DEF Stage, FlowsStage, ServersStage, AgentsStage
    <3> QED
      BY <1>2, <2>3, <2>6, <3>4
  <2> QED
    BY <2>5, <2>6
<1> QED
  BY <1>1, <1>2, <1>8, SeederKeepsOrder

\* A failure excuses its own table, and that of the servers the bindings as well.
LEMMA FailingKeepsOrder ==
    ASSUME TypeOK, Orderly, NEW p \in Process, Fail(p) \/ InsertClash(p)
    PROVE  Orderly'
<1>1. Seeding(p) /\ UNCHANGED <<flows, backends, agents, disturbed>>
  BY Failing DEF tables
<1>2. /\ (FlowsThere' <=> FlowsThere) /\ (ServersThere' <=> ServersThere)
      /\ (AgentsThere' <=> AgentsThere) /\ (NoAgents' <=> NoAgents) /\ (NoServers' <=> NoServers)
  BY <1>1, FlowsUnmoved, ServersUnmoved, AgentsUnmoved
<1>3. "backends" \in Places /\ "names" \in Places
  BY DEF Places, Phases
<1>4. missed \subseteq missed'
  BY Failing
<1>5. Arrived => Arrived'
  BY <1>2, <1>4 DEF Arrived, FlowsDone, ServersDone, Sure
<1>6. CASE /\ job[p].pc \in {"flows", "flow"} /\ Go(p, "backends")
           /\ missed' = missed \cup {"flows"} /\ bundle' = bundle
  <2>1. job'[p].pc = "backends" /\ \A q \in Process : q # p => job'[q] = job[q]
    BY <1>3, <1>6, GoesOn
  <2>2. FlowsDone' /\ (BeforeServers' <=> BeforeServers)
    BY <1>2, <1>6 DEF FlowsDone, BeforeServers, ServersDone, Sure
  <2>3. Stage(p) => Stage(p)'
    BY <1>6, <2>1, <2>2 DEF Stage, FlowsStage, ServersStage, AgentsStage
  <2>4. Seeding(p)'
    BY <2>1 DEF Seeding, Phases
  <2> QED
    BY <1>1, <1>5, <1>6, <2>1, <2>3, <2>4, SeederKeepsOrder
<1>7. CASE /\ job[p].pc \in {"backends", "backend"} /\ Go(p, "names")
           /\ missed' = missed \cup {"backends"} /\ bundle' = bundle
  <2>1. job'[p].pc = "names" /\ \A q \in Process : q # p => job'[q] = job[q]
    BY <1>3, <1>7, GoesOn
  <2>2. ServersDone' /\ ~Sure' /\ (FlowsDone' <=> FlowsDone)
    BY <1>2, <1>7 DEF ServersDone, Sure, FlowsDone
  <2>3. Stage(p) => Stage(p)'
    BY <1>7, <2>1, <2>2 DEF Stage, FlowsStage, ServersStage, AgentsStage
  <2>4. Seeding(p)'
    BY <2>1 DEF Seeding, Phases
  <2> QED
    BY <1>1, <1>5, <1>7, <2>1, <2>3, <2>4, SeederKeepsOrder
<1>8. CASE /\ job[p].pc \in {"names", "agents", "agent"} /\ Finish(p)
           /\ missed' = missed \cup {"agents"}
  <2>1. ~Seeding(p)' /\ \A q \in Process : q # p => job'[q] = job[q]
    BY <1>8, Finishes DEF Seeding, Phases
  <2>2. ~Sure' /\ (FlowsDone' <=> FlowsDone) /\ (ServersDone' <=> ServersDone)
    BY <1>2, <1>8 DEF Sure, FlowsDone, ServersDone
  <2>3. Stage(p) => Arrived'
    BY <1>8, <2>2 DEF Stage, FlowsStage, ServersStage, Arrived
  <2> QED
    BY <1>1, <1>5, <2>1, <2>3, SeederKeepsOrder
<1> QED
  BY <1>6, <1>7, <1>8, Failing

LEMMA OrderlyNext ==
    ASSUME TypeOK, Orderly, [Next]_vars
    PROVE  Orderly'
<1> USE DEF history
<1>1. ASSUME NEW p \in Process, Get(p) \/ Migrate(p) \/ Register(p)
      PROVE  Orderly'
  <2>1. Connect(p) /\ UNCHANGED <<tables, bundle>> /\ ~Seeding(p)
    BY <1>1 DEF Get, Migrate, Register, Seeding, Phases, tables
  <2> QED
    BY <2>1, ConnectKeepsOrder
<1>2. ASSUME NEW p \in Process, NEW pc \in {"register", "idle"}, Go(p, pc), ~Seeding(p),
             UNCHANGED <<tables, disturbed, missed>>,
             \A q \in Process : bundle'[q] = "open" => bundle[q] = "open"
      PROVE  Orderly'
  <2>1. job'[p].pc = pc /\ \A q \in Process : q # p => job'[q] = job[q]
    BY <1>2, GoesOn DEF Places
  <2>2. ~Seeding(p)'
    BY <2>1 DEF Seeding, Phases
  <2>3. \A q \in Process : job'[q] = job[q] \/ (~Seeding(q) /\ ~Seeding(q)')
    BY <1>2, <2>1, <2>2
  <2> QED
    BY <1>2, <2>3, QuietKeepsOrder
<1>3. ASSUME NEW p \in Process, Provision(p) \/ Version(p)
      PROVE  Orderly'
  <2>1. ~Seeding(p)
    BY <1>3 DEF Provision, Version, Seeding, Phases
  <2>2. UNCHANGED <<tables, disturbed, missed>> /\ \E pc \in {"register", "idle"} : Go(p, pc)
    BY <1>3 DEF Provision, Version, tables
  <2>3. \A q \in Process : bundle'[q] = "open" => bundle[q] = "open"
    BY <1>3 DEF Provision, Version, TypeOK
  <2> QED
    BY <1>2, <2>1, <2>2, <2>3
<1>4. ASSUME NEW p \in Process, \/ ListFlows(p) \/ InsertFlow(p) \/ ListBackends(p) \/ InsertBackend(p)
                                \/ ReadNames(p) \/ ListAgents(p) \/ InsertAgent(p)
                                \/ InsertClash(p) \/ Fail(p)
      PROVE  Orderly'
  BY <1>4, ListFlowsKeepsOrder, InsertFlowKeepsOrder, ListBackendsKeepsOrder, InsertBackendKeepsOrder,
     ReadNamesKeepsOrder, ListAgentsKeepsOrder, InsertAgentKeepsOrder, FailingKeepsOrder
<1>5. ASSUME NEW p \in Process, Restart(p)
      PROVE  Orderly'
  <2>1. /\ UNCHANGED <<tables, missed>> /\ disturbed' = (disturbed \/ Seeding(p))
        /\ job'[p] = Idle /\ \A q \in Process : q # p => job'[q] = job[q]
        /\ \A q \in Process : bundle'[q] = "open" => bundle[q] = "open"
    BY <1>5 DEF Restart, TypeOK
  <2>2. ~Seeding(p)'
    BY <2>1 DEF Seeding, Phases, Idle
  <2>3. ~disturbed' => ~disturbed /\ ~Seeding(p)
    BY <2>1
  <2>4. ~disturbed' => \A q \in Process : job'[q] = job[q] \/ (~Seeding(q) /\ ~Seeding(q)')
    BY <2>1, <2>2, <2>3
  <2> QED
    BY <2>1, <2>3, <2>4, QuietKeepsOrder
<1>6. ASSUME UNCHANGED <<tables, job, disturbed, missed>>,
             \A q \in Process : bundle'[q] = "open" => bundle[q] = "open"
      PROVE  Orderly'
  BY <1>6, QuietKeepsOrder
<1>7. ASSUME NEW p \in Process, Evict(p)
      PROVE  Orderly'
  <2>1. \A q \in Process : bundle'[q] = "open" => bundle[q] = "open"
    BY <1>7 DEF Evict, TypeOK
  <2> QED
    BY <1>6, <1>7, <2>1 DEF Evict, tables
<1>8. CASE Deprovision \/ Rescan \/ Tick \/ UNCHANGED vars
  BY <1>6, <1>8 DEF Deprovision, Rescan, Tick, vars, tables
<1>9. CASE \/ \E s \in Names : AddServer(s) \/ RemoveServer(s) \/ \E t \in Names : RenameServer(s, t)
           \/ \E a \in Agent : RemoveAgent(a) \/ \E ids \in Asked : SaveAgent(a, ids)
  <2>1. disturbed' = TRUE
    BY <1>9 DEF AddServer, RemoveServer, RenameServer, RemoveAgent, SaveAgent, Edit
  <2> QED
    BY <2>1 DEF Orderly
<1>10. CASE DropDatabase
  <2>1. NoFlows' /\ NoServers' /\ NoAgents'
    BY <1>10 DEF DropDatabase, Blank, NoFlows, NoServers, NoAgents
  <2>2. \A q \in Process : ~Seeding(q)'
    BY <1>10 DEF DropDatabase, Seeding, Phases, Idle, TypeOK
  <2>3. \A q \in Process : bundle'[q] # "open"
    BY <1>10 DEF DropDatabase, TypeOK
  <2> QED
    BY <2>1, <2>2, <2>3 DEF Orderly, Settled, BeforeServers
<1> QED
  BY <1>1, <1>3, <1>4, <1>5, <1>7, <1>8, <1>9, <1>10 DEF Next, Work

\* Stores that were opened without a disturbance hold each part of the default data whose
\* seeding met no failure, and the last workflow of the manifest is the newest, which is the
\* default (seed_defaults).
THEOREM SeedsAreThere == Spec => []SeedsArrive
<1>1. Init => Orderly
  BY DEF Init, Orderly, Idle, Seeding, Phases, Settled, BeforeServers, NoFlows, NoServers, NoAgents
<1>2. TypeOK /\ Orderly /\ [Next]_vars => Orderly'
  BY OrderlyNext
<1>3. Orderly => SeedsArrive
  BY DEF Orderly, SeedsArrive, Arrived, FlowsDone, ServersDone, Sure, AgentsThere
<1>4. Spec => []TypeOK
  BY BindingsInv, PTL
<1> QED
  BY <1>1, <1>2, <1>3, <1>4, PTL DEF Spec
=============================================================================
