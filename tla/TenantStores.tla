----------------------------- MODULE TenantStores -----------------------------
(***************************************************************************)
(* One tenant from its provisioning to its end: its row in the management  *)
(* database (tenantctl.py, api/management_store.py), its own database and  *)
(* the default data put into it (seed/__init__.py), the caches of stores   *)
(* that the processes keep (statestore/router.py) and the Worker pool that *)
(* takes it up (worker.py).  Tenants do not share a database, so that one  *)
(* of them shows what happens to each.                                     *)
(*                                                                         *)
(* A process is tenantctl, an API process or a Worker process.  Opening    *)
(* the stores of a tenant is split at its awaits, each of which is a       *)
(* statement of its own, committed at once.                                *)
(***************************************************************************)
EXTENDS Naturals, Sequences, FiniteSets

CONSTANTS
    Server,         \* process -> does it serve requests or runs? (else it is tenantctl)
    Flows,          \* seed/workflows: the ids of the manifest, in order
    Names,          \* the names that MCP servers can have
    Backends,       \* seed/dataplane.yaml: those of the servers whose URL is set, in order
    Agents,         \* the agents of its bindings, then those of seed/agents, in order
    Custom,         \* which of them are custom
    Binding,        \* agent -> the names of the servers it is bound to
    Asked,          \* the sets of ids that people bind agents to
    None,
    MaxClock, MaxCuts, MaxEdits     \* bounds: ticks, deaths and failures, changes by hand

Process == DOMAIN Server

Backend == {Backends[i] : i \in DOMAIN Backends}
Agent == {Agents[i] : i \in DOMAIN Agents}
Flow == {Flows[i] : i \in DOMAIN Flows}

\* The id of a server: seed-<name> is 0, those that are made up for a server bear a number.
Id == Names \X (0..MaxEdits)

SeedId(s) == <<s, 0>>

\* The seeds name something, and a workflow once.
ASSUME SeedsAssumption ==
    /\ Flows \in Seq(Flow) /\ Backends \in Seq(Backend) /\ Agents \in Seq(Agent)
    /\ <<>> \notin {Flows, Backends, Agents}
    /\ \A i, j \in DOMAIN Flows : Flows[i] = Flows[j] => i = j

ASSUME BindingAssumption ==
    /\ Backend \subseteq Names /\ Custom \subseteq Agent
    /\ Binding \in [Agent -> SUBSET Names]
    /\ Asked \subseteq SUBSET Id

ASSUME ValuesAssumption ==
    /\ Server \in [Process -> BOOLEAN]
    /\ None \notin Id /\ \A ids \in SUBSET Id : None # ids
    /\ MaxClock \in Nat /\ MaxCuts \in Nat /\ MaxEdits \in Nat

VARIABLES
    row,        \* the row of the tenant: none, active or deleted
    db,         \* is there a database?
    flows,      \* table workflows: id -> created_at, 0 when there is none
    backends,   \* table mcp_servers: name -> the id of the server
    agents,     \* table agent_configs: agent -> the ids it is bound to
    job,        \* [pc, i, base, ids]: what a process is doing; it read ids, with their names
    bundle,     \* the stores that a process has in its cache
    served,     \* does a consumer of the Worker pool listen to the tenant?
    clock, cuts, edits,
    disturbed,  \* did two processes seed at once, or one die meanwhile, or a person edit?
    missed,     \* the tables in whose seeding a statement failed
    byHand      \* the ids that a person bound an agent to, or whose server one deleted

tables == <<flows, backends, agents>>
history == <<disturbed, missed, byHand>>
vars == <<row, db, tables, job, bundle, served, clock, cuts, edits, history>>

Idle == [pc |-> "idle", i |-> 1, base |-> 0, ids |-> {}]

Phases == {"flows", "flow", "backends", "backend", "names", "agents", "agent"}

Blank ==
    /\ flows' = [f \in Flow |-> 0]
    /\ backends' = [s \in Names |-> None]
    /\ agents' = [a \in Agent |-> None]

Init ==
    /\ row = "none" /\ db = FALSE
    /\ flows = [f \in Flow |-> 0]
    /\ backends = [s \in Names |-> None]
    /\ agents = [a \in Agent |-> None]
    /\ job = [p \in Process |-> Idle]
    /\ bundle = [p \in Process |-> "none"]
    /\ served = FALSE
    /\ clock = 1 /\ cuts = 0 /\ edits = 0
    /\ disturbed = FALSE /\ missed = {} /\ byHand = {}

Go(p, pc) == job' = [job EXCEPT ![p].pc = pc, ![p].i = 1]

Seeding(p) == job[p].pc \in Phases

-----------------------------------------------------------------------------
(* TenantStoresRouter.get and seed_defaults *)

\* The database is made on the way if there is none, whatever the row says of the tenant.
Connect(p) ==
    /\ db' = TRUE
    /\ disturbed' = (disturbed \/ \E q \in Process \ {p} : Seeding(q))
    /\ UNCHANGED <<missed, byHand>>
    /\ Go(p, "flows")

Get(p) ==
    /\ Server[p] /\ job[p].pc = "idle" /\ bundle[p] = "none"
    /\ Connect(p)
    /\ UNCHANGED <<row, tables, bundle, served, clock, cuts, edits>>

NoFlows == \A f \in Flow : flows[f] = 0

ListFlows(p) ==
    /\ job[p].pc = "flows"
    /\ job' = [job EXCEPT ![p].pc = IF NoFlows THEN "flow" ELSE "backends", ![p].base = clock]
    /\ UNCHANGED <<row, db, tables, bundle, served, clock, cuts, edits, history>>

\* The next of a list of rows to insert, and the phase after the last one.
Advance(p, list, next) ==
    job' = [job EXCEPT ![p].i = IF @ = Len(list) THEN 1 ELSE @ + 1,
                       ![p].pc = IF job[p].i = Len(list) THEN next ELSE @]

\* Mutant: the times go down along the manifest.
StampReversed(p) == job[p].base + Len(Flows) - job[p].i

Stamp(p) == job[p].base + job[p].i

\* ON CONFLICT (id) DO NOTHING
InsertFlow(p) ==
    /\ job[p].pc = "flow"
    /\ flows' = [flows EXCEPT ![Flows[job[p].i]] = IF @ = 0 THEN Stamp(p) ELSE @]
    /\ Advance(p, Flows, "backends")
    /\ UNCHANGED <<row, db, backends, agents, bundle, served, clock, cuts, edits, history>>

NoServers == \A s \in Names : backends[s] = None

ListBackends(p) ==
    /\ job[p].pc = "backends"
    /\ Go(p, IF NoServers THEN "backend" ELSE "names")
    /\ UNCHANGED <<row, db, tables, bundle, served, clock, cuts, edits, history>>

\* Mutant: the seed replaces a server of that name.
SeedServerOver(s) == [backends EXCEPT ![s] = SeedId(s)]

\* ON CONFLICT (name) DO NOTHING
SeedServer(s) == [backends EXCEPT ![s] = IF @ = None THEN SeedId(s) ELSE @]

\* The id is the primary key: a server of the seeds that got another name has it already.
IdTaken(s) == backends[s] = None /\ \E t \in Names : backends[t] = SeedId(s)

InsertBackend(p) ==
    /\ job[p].pc = "backend" /\ ~IdTaken(Backends[job[p].i])
    /\ backends' = SeedServer(Backends[job[p].i])
    /\ Advance(p, Backends, "names")
    /\ UNCHANGED <<row, db, flows, agents, bundle, served, clock, cuts, edits, history>>

\* Mutant: the ids are taken to be those of the seeds.
KnownAssumed == {<<s, SeedId(s)>> : s \in {t \in Names : backends[t] # None}}

\* The ids are read back by name.
Known == {<<s, backends[s]>> : s \in {t \in Names : backends[t] # None}}

ReadNames(p) ==
    /\ job[p].pc = "names"
    /\ job' = [job EXCEPT ![p].pc = "agents", ![p].ids = Known]
    /\ UNCHANGED <<row, db, tables, bundle, served, clock, cuts, edits, history>>

\* The stores are in the cache, and tenantctl goes on to the version of its tables.
Finish(p) ==
    /\ job' = [job EXCEPT ![p] = [Idle EXCEPT !.pc = IF Server[p] THEN "idle" ELSE "version"]]
    /\ bundle' = [bundle EXCEPT ![p] = "open"]

ListAgents(p) ==
    /\ job[p].pc = "agents"
    /\ IF \A a \in Agent : agents[a] = None
       THEN Go(p, "agent") /\ UNCHANGED bundle
       ELSE Finish(p)
    /\ UNCHANGED <<row, db, tables, served, clock, cuts, edits, history>>

\* A builtin agent none of whose servers is known is left out, a custom one has none then.
InsertAgent(p) ==
    /\ job[p].pc = "agent"
    /\ LET a == Agents[job[p].i]
           ids == {d[2] : d \in {e \in job[p].ids : e[1] \in Binding[a]}}
       IN agents' = IF agents[a] # None \/ (ids = {} /\ a \notin Custom) THEN agents
                    ELSE [agents EXCEPT ![a] = ids]
    /\ IF job[p].i = Len(Agents) THEN Finish(p)
       ELSE Advance(p, Agents, "agent") /\ UNCHANGED bundle
    /\ UNCHANGED <<row, db, flows, backends, served, clock, cuts, edits, history>>

\* A statement that fails ends the seeding of its table, and the next table is seeded all the
\* same; after the last one the stores are in the cache as if nothing had happened.
Fails(p, table) ==
    /\ missed' = missed \cup {table}
    /\ IF table = "agents" THEN Finish(p)
       ELSE Go(p, IF table = "flows" THEN "backends" ELSE "names") /\ UNCHANGED bundle
    /\ UNCHANGED <<row, db, tables, served, clock, edits, disturbed, byHand>>

Table(p) ==
    CASE job[p].pc \in {"flows", "flow"} -> "flows"
      [] job[p].pc \in {"backends", "backend"} -> "backends"
      [] job[p].pc \in {"names", "agents", "agent"} -> "agents"

Fail(p) ==
    /\ Seeding(p) /\ cuts < MaxCuts
    /\ cuts' = cuts + 1
    /\ Fails(p, Table(p))

InsertClash(p) ==
    /\ job[p].pc = "backend" /\ IdTaken(Backends[job[p].i])
    /\ Fails(p, "backends")
    /\ UNCHANGED cuts

-----------------------------------------------------------------------------
(* tenantctl *)

\* An active tenant is left alone without --force.
Provision(p) ==
    /\ ~Server[p] /\ job[p].pc = "idle"
    /\ row # "active" \/ edits < MaxEdits
    /\ edits' = IF row = "active" THEN edits + 1 ELSE edits
    /\ db' = TRUE
    /\ Go(p, "register")
    /\ UNCHANGED <<row, tables, bundle, served, clock, cuts, history>>

\* upsert_tenant, then the stores of a router of its own.
Register(p) ==
    /\ job[p].pc = "register"
    /\ row' = "active"
    /\ Connect(p)
    /\ UNCHANGED <<tables, bundle, served, clock, cuts, edits>>

\* Every active tenant's stores are opened, which brings its tables up to date.
Migrate(p) ==
    /\ ~Server[p] /\ job[p].pc = "idle" /\ row = "active" /\ edits < MaxEdits
    /\ edits' = edits + 1
    /\ Connect(p)
    /\ UNCHANGED <<row, tables, bundle, served, clock, cuts>>

Version(p) ==
    /\ job[p].pc = "version"
    /\ Go(p, "idle")
    /\ bundle' = [bundle EXCEPT ![p] = "none"]
    /\ UNCHANGED <<row, db, tables, served, clock, cuts, edits, history>>

Deprovision ==
    /\ row = "active" /\ edits < MaxEdits
    /\ edits' = edits + 1
    /\ row' = "deleted"
    /\ UNCHANGED <<db, tables, job, bundle, served, clock, cuts, history>>

\* --confirm-delete: open connections are cut, and the processes keep them in their caches.
DropDatabase ==
    /\ row = "deleted" /\ db
    /\ db' = FALSE
    /\ Blank
    /\ job' = [p \in Process |-> IF Seeding(p) THEN Idle ELSE job[p]]
    /\ bundle' = [p \in Process |-> IF Seeding(p) \/ bundle[p] = "open" THEN "dead" ELSE bundle[p]]
    /\ disturbed' = FALSE /\ missed' = {} /\ byHand' = {}
    /\ UNCHANGED <<row, served, clock, cuts, edits>>

-----------------------------------------------------------------------------
(* The Worker pool, the tenant's own changes, deaths *)

\* A consumer is never taken away: the pool only remembers whom it has seen.
Rescan ==
    /\ row = "active" /\ ~served
    /\ served' = TRUE
    /\ UNCHANGED <<row, db, tables, job, bundle, clock, cuts, edits, history>>

\* A person changes a table by way of a process that has the stores.
Edit ==
    /\ \E p \in Process : bundle[p] = "open"
    /\ db /\ edits < MaxEdits
    /\ edits' = edits + 1
    /\ disturbed' = TRUE
    /\ UNCHANGED <<row, db, flows, job, bundle, served, clock, cuts, missed>>

\* POST /mcp-servers: a server of the tenant's own, under a name that is free.
AddServer(s) ==
    /\ Edit /\ backends[s] = None
    /\ backends' = [backends EXCEPT ![s] = <<s, edits + 1>>]
    /\ UNCHANGED <<agents, byHand>>

\* PUT /mcp-servers: another name, if it is free, and the same id.
RenameServer(s, t) ==
    /\ Edit /\ backends[s] # None /\ backends[t] = None
    /\ backends' = [backends EXCEPT ![s] = None, ![t] = backends[s]]
    /\ UNCHANGED <<agents, byHand>>

\* DELETE /mcp-servers: the agents that are bound to it stay so.
RemoveServer(s) ==
    /\ Edit /\ backends[s] # None
    /\ backends' = [backends EXCEPT ![s] = None]
    /\ byHand' = byHand \cup {backends[s]}
    /\ UNCHANGED agents

\* PUT /agent-configs, for a custom agent that is not there POST: nobody looks whether the
\* servers exist.
SaveAgent(a, ids) ==
    /\ Edit
    /\ agents' = [agents EXCEPT ![a] = ids]
    /\ byHand' = byHand \cup ids
    /\ UNCHANGED backends

\* DELETE /agent-configs: the last one leaves an empty table, as in a new tenant.
RemoveAgent(a) ==
    /\ Edit /\ a \in Custom /\ agents[a] # None
    /\ agents' = [agents EXCEPT ![a] = None]
    /\ UNCHANGED <<backends, byHand>>

Tick ==
    /\ clock < MaxClock
    /\ clock' = clock + 1
    /\ UNCHANGED <<row, db, tables, job, bundle, served, cuts, edits, history>>

\* A process dies and starts again; the consumers of the pool are those of one process.
Restart(p) ==
    /\ cuts < MaxCuts
    /\ cuts' = cuts + 1
    /\ job' = [job EXCEPT ![p] = Idle]
    /\ bundle' = [bundle EXCEPT ![p] = "none"]
    /\ served' = (IF Server[p] THEN FALSE ELSE served)
    /\ disturbed' = (disturbed \/ Seeding(p))
    /\ UNCHANGED <<row, db, tables, clock, edits, missed, byHand>>

\* The least recently used tenant of a cache that is full: its connections are closed.
Evict(p) ==
    /\ Server[p] /\ job[p].pc = "idle" /\ bundle[p] # "none" /\ cuts < MaxCuts
    /\ cuts' = cuts + 1
    /\ bundle' = [bundle EXCEPT ![p] = "none"]
    /\ UNCHANGED <<row, db, tables, job, served, clock, edits, history>>

Work(p) ==
    \/ Register(p) \/ Version(p)
    \/ ListFlows(p) \/ InsertFlow(p) \/ ListBackends(p) \/ InsertBackend(p)
    \/ ReadNames(p) \/ ListAgents(p) \/ InsertAgent(p) \/ InsertClash(p) \/ Fail(p)

Next ==
    \/ \E p \in Process : Get(p) \/ Provision(p) \/ Migrate(p) \/ Work(p) \/ Restart(p) \/ Evict(p)
    \/ \E s \in Names : AddServer(s) \/ RemoveServer(s) \/ \E t \in Names : RenameServer(s, t)
    \/ \E a \in Agent : RemoveAgent(a) \/ \E ids \in Asked : SaveAgent(a, ids)
    \/ Deprovision \/ DropDatabase \/ Rescan \/ Tick

Spec == Init /\ [][Next]_vars

-----------------------------------------------------------------------------
(* Properties *)

\* An agent is bound to an id that no server has, and so silently without tools, only when a
\* person deleted that server or bound the agent to it: no order of seedings, failures and
\* changes of names leads there.
BindingsExist ==
    \A a \in Agent : agents[a] # None =>
        \A id \in agents[a] : id \in byHand \/ \E s \in Names : backends[s] = id

\* What is in a table of the tenant stays as it is, however often the stores are opened and
\* by how many processes: only the end of the database takes it away.
RowsStay ==
    [][db' /\ edits' = edits =>
              /\ \A f \in Flow : flows[f] # 0 => flows'[f] = flows[f]
              /\ \A s \in Names : backends[s] # None => backends'[s] = backends[s]
              /\ \A a \in Agent : agents[a] # None => agents'[a] = agents[a]]_vars

\* The last workflow of the manifest is the newest and thus the default.
FlowsThere ==
    /\ \A f \in Flow : flows[f] # 0
    /\ \A f \in Flow \ {Flows[Len(Flows)]} : flows[f] < flows[Flows[Len(Flows)]]

ServersThere == \A s \in Backend : backends[s] # None

\* An agent has all of its servers that there are, and a builtin one with none has no row.
AsDeclared(a) ==
    LET ids == {backends[s] : s \in {t \in Binding[a] : backends[t] # None}}
    IN agents[a] = IF ids = {} /\ a \notin Custom THEN None ELSE ids

\* Whoever got the stores of a tenant that was seeded without disturbance has each table
\* complete in whose seeding no statement failed, whatever failed in the others; only the
\* bindings also want the servers.
SeedsArrive ==
    (\E p \in Process : bundle[p] = "open") /\ ~disturbed =>
        /\ "flows" \notin missed => FlowsThere
        /\ "backends" \notin missed => ServersThere
        /\ missed \cap {"backends", "agents"} = {} => \A a \in Agent : AsDeclared(a)
=============================================================================
