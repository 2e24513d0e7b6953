------------------------------ MODULE AgentConfig ------------------------------
(***************************************************************************)
(* What an agent is given when its node starts: its row of agent_configs   *)
(* and the clients of the MCP servers bound to it, through the caches of   *)
(* the process that runs the node (agents/config_sync.py,                  *)
(* agents/mcp_manager.py, agents/runner.py, worker.py, api/app.py).        *)
(*                                                                         *)
(* The process is a Worker, which sees changes by fingerprints of the two  *)
(* tables, or the API in inline mode, which is told of its own changes.    *)
(* A coroutine is split at its awaits.  The nodes are those of one wave    *)
(* and of waves to come; all of them use the one agent.                    *)
(***************************************************************************)
EXTENDS Naturals, FiniteSets, FiniteSetsExt, Functions

CONSTANTS
    Host,       \* the processes to look at: a set of "worker", "api"
    Server,     \* MCP servers
    Stateful,   \* those with a session that must be connected
    Node,       \* coroutines that run a node
    MaxEvents   \* bound: changes of the tables and failures

\* The seed files name a server at least.
ASSUME ServerAssumption ==
    /\ Stateful \subseteq Server /\ IsFiniteSet(Server) /\ Server # {}
    /\ Host \subseteq {"worker", "api"}

VARIABLES
    host,
    servers,    \* table mcp_servers: server -> [at, on]; at = updated_at, 0 without a row
    agent,      \* the agent's row of agent_configs: [at, on, ids]
    resolver,   \* the cached resolver, that is, a copy of such a row
    known,      \* is there one?
    print,      \* its fingerprint
    due,        \* has the interval of the check gone by? (api: is its generation over?)
    loaded,     \* MCPClientManager._loaded
    clients,    \* MCPClientManager._clients: server -> [at, up]; at = 0 without a client
    node,       \* what the coroutine of a node is doing, with its local variables
    handler,    \* the request that changes a table in this process (api)
    edits, failures,
    behind,     \* was a table changed since the process last read it?
    spoiled,    \* did a failure, or a coroutine with old rows, leave the cache of clients wrong?
    read,       \* the tables when the fingerprint was taken
    recurred    \* were they found again as they had been, after changes in between?

tables == <<servers, agent>>
cache == <<resolver, known, print, due>>
bounds == <<edits, failures>>
past == <<read, recurred>>
configVars == <<host, tables, cache, loaded, clients, node, handler, bounds, behind, spoiled, past>>

NoRow == [at |-> 0, on |-> FALSE]
NoClient == [at |-> 0, up |-> FALSE]
NoAgent == [at |-> 0, on |-> TRUE, ids |-> {}]
Nothing == [s \in Server |-> 0]
Quiet == [pc |-> "idle", on |-> {}]

\* ret: where the resolver was called from.  seen, old, had: the row it read, the one cached on
\* entry, and whether there was one.  list, todo: rows or clients to go through.  got: the clients collected.
\* given: those of the first of the two collections.  conn: a server that is being connected.  calm: has nothing disturbed the node?
Idle == [pc |-> "idle", ret |-> "ensure", had |-> FALSE, seen |-> NoAgent, old |-> NoAgent,
         list |-> Nothing, todo |-> {}, got |-> Nothing, given |-> Nothing, conn |-> {}, second |-> FALSE,
         calm |-> FALSE]

\* The tenant has been seeded: each server was written at its time, the agent was bound to all.
Seeded == Cardinality(Server)
Now == Seeded + edits + 1

ConfigInit ==
    /\ host \in Host
    /\ LET t == CHOOSE f \in [Server -> 1..Seeded] : IsInjective(f)
       IN servers = [s \in Server |-> [at |-> t[s], on |-> TRUE]]
    /\ agent = [at |-> 1, on |-> TRUE, ids |-> Server]
    /\ resolver = NoAgent /\ known = FALSE /\ print = <<0, 0, 0, 0>> /\ due = TRUE
    /\ loaded = FALSE /\ clients = [s \in Server |-> NoClient]
    /\ node = [n \in Node |-> Idle]
    /\ handler = Quiet
    /\ edits = 0 /\ failures = 0 /\ behind = FALSE /\ spoiled = FALSE
    /\ read = <<servers, agent>> /\ recurred = FALSE

Busy(n) == node[n].pc \notin {"idle", "off"}

\* Where a coroutine waits.  Between these places nothing else runs in its process.
Await == {"agents", "servers", "revalidate", "close", "list", "connect", "reconnect"}
Running == {n \in Node : Busy(n) /\ node[n].pc \notin Await}

Resumes(n, pc) == node[n].pc = pc /\ Running = {}

\* The nodes after an event that disturbs those which read their configuration.
Upset(nodes) == [n \in Node |-> IF Busy(n) THEN [nodes[n] EXCEPT !.calm = FALSE] ELSE nodes[n]]

To(n, pc) == [node EXCEPT ![n].pc = pc]

\* list_enabled
Enabled == [s \in Server |-> IF servers[s].on THEN servers[s].at ELSE 0]
In(list) == {s \in Server : list[s] # 0}

Cached == {s \in Server : clients[s].at # 0}
Usable(s) == s \in Stateful => clients[s].up

-----------------------------------------------------------------------------
(* TenantConfigSync.resolver and, in the API, _agent_config_provider *)

\* Mutant: a fingerprint by the newest change alone.
SignatureNewest(row) == <<row.at, Max({servers[s].at : s \in Server})>>

\* Number of rows and newest updated_at, of both tables.
Signature(row) ==
    <<IF row.at = 0 THEN 0 ELSE 1, row.at,
      Cardinality({s \in Server : servers[s].at # 0}), Max({servers[s].at : s \in Server})>>

\* The clients that the agent is bound to, of those there are.
Allowed(row) == Cached \cap row.ids

\* The resolver is returned.  To the runner: a disabled agent ends the node.  To server_ids_for:
\* the clients to look at are those there are now.  A node stays calm only when the process knows
\* the tables and its clients are in order.
Return(n, row, clean) ==
    LET back == [node[n] EXCEPT !.seen = NoAgent, !.old = NoAgent, !.had = FALSE]
    IN node' = [node EXCEPT ![n] =
            IF node[n].ret = "pick"
            THEN [back EXCEPT !.pc = "pick", !.todo = Allowed(row)]
            ELSE IF row.on THEN [back EXCEPT !.pc = "ensure", !.calm = @ /\ clean]
            ELSE [Idle EXCEPT !.pc = "off", !.calm = back.calm /\ clean]]

Check(n) ==
    /\ node[n].pc = "check"
    /\ IF known /\ ~due THEN Return(n, resolver, ~behind /\ ~spoiled)
       ELSE node' = [node EXCEPT ![n].pc = "agents", ![n].had = known, ![n].old = resolver]
    /\ UNCHANGED <<host, tables, cache, loaded, clients, handler, bounds, behind, spoiled, past>>

\* The API keeps what it read under the generation of this moment.
ListAgents(n) ==
    /\ Resumes(n, "agents")
    /\ IF host = "api"
       THEN /\ resolver' = agent /\ known' = TRUE /\ due' = FALSE /\ print' = print
            /\ Return(n, agent, ~spoiled)
       ELSE /\ node' = [node EXCEPT ![n].pc = "servers", ![n].seen = agent]
            /\ UNCHANGED cache
    /\ UNCHANGED <<host, tables, loaded, clients, handler, bounds, behind, spoiled, past>>

\* The resolver that was cached on entry is returned when the fingerprint is still the same.
ListServers(n) ==
    /\ Resumes(n, "servers")
    /\ due' = FALSE
    /\ behind' = (node[n].seen # agent)
    /\ LET row == node[n].seen
       IN IF node[n].had /\ print = Signature(row)
          THEN /\ Return(n, node[n].old, ~behind' /\ ~spoiled)
               /\ recurred' = (recurred \/ (behind /\ read = <<servers, row>>))
               /\ UNCHANGED <<resolver, known, print, read>>
          ELSE /\ resolver' = row /\ known' = TRUE /\ print' = Signature(row)
               /\ read' = <<servers, row>> /\ UNCHANGED recurred
               /\ node' = [node EXCEPT ![n].pc = "revalidate", ![n].seen = NoAgent,
                                       ![n].had = FALSE, ![n].old = NoAgent]
    /\ UNCHANGED <<host, tables, loaded, clients, handler, bounds, spoiled>>

-----------------------------------------------------------------------------
(* MCPClientManager.revalidate *)

Revalidate(n) ==
    /\ Resumes(n, "revalidate")
    /\ node' = [node EXCEPT ![n].pc = "evict", ![n].list = Enabled, ![n].todo = Cached]
    /\ UNCHANGED <<host, tables, cache, loaded, clients, handler, bounds, behind, spoiled, past>>

\* Clients whose row is gone, disabled, or newer.
Stale(n) == {s \in node[n].todo : node[n].list[s] # clients[s].at}

Evict(n) ==
    /\ node[n].pc = "evict"
    /\ \E s \in Stale(n) :
        /\ clients' = [clients EXCEPT ![s] = NoClient]
        /\ node' = [node EXCEPT ![n].todo = @ \ {s},
                                ![n].pc = IF clients[s].up THEN "close" ELSE "evict"]
    /\ UNCHANGED <<host, tables, cache, loaded, handler, bounds, behind, spoiled, past>>

Closed(n) ==
    /\ Resumes(n, "close")
    /\ node' = To(n, "evict")
    /\ UNCHANGED <<host, tables, cache, loaded, clients, handler, bounds, behind, spoiled, past>>

\* A coroutine is to cache a client from a row that was changed since it read it.
Overtaken == \E m \in Node : /\ node[m].pc \in {"load", "connect"}
                             /\ \E s \in node[m].todo : node[m].list[s] # Enabled[s]

Evicted(n) ==
    /\ node[n].pc = "evict" /\ Stale(n) = {}
    /\ loaded' = FALSE
    /\ LET seen == [s \in Cached |-> IF s \in node[n].todo THEN node[n].list[s] ELSE clients[s].at]
       IN spoiled' = (Overtaken \/ \E s \in Cached : seen[s] # Enabled[s])
    /\ Return(n, resolver, ~behind /\ ~spoiled')
    /\ recurred' = FALSE
    /\ UNCHANGED <<host, tables, cache, clients, handler, bounds, behind, read>>

-----------------------------------------------------------------------------
(* MCPClientManager.clients_for_agent, which the runner calls for the clients and once more for *)
(* the names of their tools                                                                     *)

\* _ensure_loaded: marked before anything is loaded.
EnsureLoaded(n) ==
    /\ node[n].pc = "ensure"
    /\ IF loaded THEN node' = [node EXCEPT ![n].pc = "check", ![n].ret = "pick"]
       ELSE node' = To(n, "list")
    /\ loaded' = TRUE
    /\ UNCHANGED <<host, tables, cache, clients, handler, bounds, behind, spoiled, past>>

ListEnabled(n) ==
    /\ Resumes(n, "list")
    /\ node' = [node EXCEPT ![n].pc = "load", ![n].list = Enabled, ![n].todo = In(Enabled)]
    /\ UNCHANGED <<host, tables, cache, loaded, clients, handler, bounds, behind, spoiled, past>>

\* _load_row: a server that has a client already is passed over.
LoadRow(n) ==
    /\ node[n].pc = "load"
    /\ \E s \in node[n].todo :
        LET rest == [node EXCEPT ![n].todo = @ \ {s}]
        IN IF s \in Cached
           THEN node' = rest /\ UNCHANGED clients
           ELSE /\ clients' = [clients EXCEPT ![s].at = node[n].list[s]]
                /\ node' = IF s \in Stateful
                           THEN [rest EXCEPT ![n].pc = "connect", ![n].conn = {s}] ELSE rest
    /\ UNCHANGED <<host, tables, cache, loaded, handler, bounds, behind, spoiled, past>>

Loaded(n) ==
    /\ node[n].pc = "load" /\ node[n].todo = {}
    /\ node' = [node EXCEPT ![n].pc = "check", ![n].ret = "pick", ![n].list = Nothing]
    /\ UNCHANGED <<host, tables, cache, loaded, clients, handler, bounds, behind, spoiled, past>>

\* The connection that a coroutine waits for is made, on a client that may have been evicted.
Connected(n) ==
    /\ Resumes(n, "connect")
    /\ clients' = [s \in Server |-> IF s \in node[n].conn /\ clients[s].at = node[n].list[s]
                                    THEN [clients[s] EXCEPT !.up = TRUE] ELSE clients[s]]
    /\ node' = [node EXCEPT ![n].pc = "load", ![n].conn = {}]
    /\ UNCHANGED <<host, tables, cache, loaded, handler, bounds, behind, spoiled, past>>

\* A client that lost its session is connected once more.
Pick(n) ==
    /\ node[n].pc = "pick"
    /\ \E s \in node[n].todo :
        node' = IF s \in Cached /\ ~Usable(s)
                THEN [node EXCEPT ![n].pc = "reconnect", ![n].conn = {s}]
                ELSE [node EXCEPT ![n].todo = @ \ {s}, ![n].got[s] = clients[s].at]
    /\ UNCHANGED <<host, tables, cache, loaded, clients, handler, bounds, behind, spoiled, past>>

Reconnected(n) ==
    /\ Resumes(n, "reconnect")
    /\ clients' = [s \in Server |-> IF s \in node[n].conn \cap Cached
                                    THEN [clients[s] EXCEPT !.up = TRUE] ELSE clients[s]]
    /\ node' = [node EXCEPT ![n].pc = "pick", ![n].conn = {}]
    /\ UNCHANGED <<host, tables, cache, loaded, handler, bounds, behind, spoiled, past>>

\* After the clients, the names of their tools.
Again(n) ==
    /\ node[n].pc = "pick" /\ node[n].todo = {} /\ ~node[n].second
    /\ node' = [node EXCEPT ![n].pc = "ensure", ![n].second = TRUE,
                            ![n].given = node[n].got, ![n].got = Nothing]
    /\ UNCHANGED <<host, tables, cache, loaded, clients, handler, bounds, behind, spoiled, past>>

\* build_toolkit leaves out a client without its session; a tool without a name is not allowed.
Offered(n) ==
    [s \in Server |-> IF /\ node[n].got[s] # 0
                         /\ s \in Stateful => clients[s].at = node[n].given[s] /\ clients[s].up
                      THEN node[n].given[s] ELSE 0]

Done(n) ==
    /\ node[n].pc = "pick" /\ node[n].todo = {} /\ node[n].second
    /\ node' = [node EXCEPT ![n] = Idle]
    /\ UNCHANGED <<host, tables, cache, loaded, clients, handler, bounds, behind, spoiled, past>>

-----------------------------------------------------------------------------
(* AgentNodeRunner.__call__ *)

Start(n) ==
    /\ ~Busy(n) /\ Running = {}
    /\ node' = [Upset(node) EXCEPT ![n] = [Idle EXCEPT !.pc = "check",
                    !.calm = handler.pc = "idle" /\ \A m \in Node : ~Busy(m)]]
    /\ UNCHANGED <<host, tables, cache, loaded, clients, handler, bounds, behind, spoiled, past>>

\* A statement fails: so does this attempt of the node.  What was marked before stays marked.
FailRead(n) ==
    /\ Running = {} /\ edits + failures < MaxEvents /\ failures' = failures + 1
    /\ node[n].pc \in {"agents", "servers", "revalidate", "list"}
    /\ node' = [node EXCEPT ![n] = Idle]
    /\ spoiled' = (spoiled \/ node[n].pc \in {"revalidate", "list"})
    /\ UNCHANGED <<host, tables, cache, loaded, clients, handler, edits, behind, past>>

\* A server cannot be reached, or does not list its tools: the node goes on without it.
FailServer(n) ==
    /\ Running \subseteq {n} /\ edits + failures < MaxEvents /\ failures' = failures + 1
    /\ \/ node[n].pc = "connect" /\ node' = [node EXCEPT ![n].pc = "load", ![n].conn = {}, ![n].calm = FALSE]
       \/ /\ node[n].pc = "reconnect"
          /\ node' = [node EXCEPT ![n].pc = "pick", ![n].todo = @ \ node[n].conn,
                                  ![n].conn = {}, ![n].calm = FALSE]
       \/ /\ node[n].pc = "pick" /\ node[n].second /\ node[n].todo = {}
          /\ \E s \in In(node[n].got) : node' = [node EXCEPT ![n].got[s] = 0, ![n].calm = FALSE]
    /\ UNCHANGED <<host, tables, cache, loaded, clients, handler, edits, behind, spoiled, past>>

LoseSession(s) ==
    /\ Running = {} /\ edits + failures < MaxEvents /\ failures' = failures + 1
    /\ s \in Stateful /\ clients[s].up
    /\ clients' = [clients EXCEPT ![s].up = FALSE]
    /\ node' = Upset(node)
    /\ UNCHANGED <<host, tables, cache, loaded, handler, edits, behind, spoiled, past>>

-----------------------------------------------------------------------------
(* The requests of a person: /mcp-servers and /agent-configs *)

Edit(next) ==
    /\ Running = {} /\ edits + failures < MaxEvents /\ edits' = edits + 1
    /\ handler.pc = "idle"
    /\ handler' = IF host = "api" THEN next ELSE Quiet
    /\ node' = Upset(node)
    /\ behind' = (host = "worker")
    /\ UNCHANGED <<host, cache, loaded, clients, failures, spoiled, past>>

\* create_mcp_server, update_mcp_server
SaveServer(s) ==
    /\ \E on \in BOOLEAN : servers' = [servers EXCEPT ![s] = [at |-> Now, on |-> on]]
    /\ Edit([pc |-> "refresh", on |-> {s}])
    /\ UNCHANGED agent

DeleteServer(s) ==
    /\ servers[s].at # 0
    /\ servers' = [servers EXCEPT ![s] = NoRow]
    /\ Edit([pc |-> "refresh", on |-> {s}])
    /\ UNCHANGED agent

\* update_agent_config; a server that is bound need not exist.
SaveAgent ==
    /\ \E on \in BOOLEAN, ids \in SUBSET Server :
        /\ on \/ ids = Server
        /\ agent' = [at |-> Now, on |-> on, ids |-> ids]
    /\ Edit([pc |-> "reload", on |-> {}])
    /\ UNCHANGED servers

\* _reload_agent_config_resolver: a new generation.
Reload ==
    /\ handler.pc = "reload" /\ Running = {}
    /\ due' = TRUE /\ handler' = Quiet
    /\ UNCHANGED <<host, tables, resolver, known, print, loaded, clients, node, bounds, behind, spoiled, past>>

\* MCPClientManager.refresh_server
RefreshEvict ==
    /\ handler.pc = "refresh" /\ Running = {}
    /\ clients' = [s \in Server |-> IF s \in handler.on THEN NoClient ELSE clients[s]]
    /\ handler' = [handler EXCEPT !.pc = "build"]
    /\ spoiled' = (spoiled \/ Overtaken)
    /\ UNCHANGED <<host, tables, cache, loaded, node, bounds, behind, past>>

RefreshBuild ==
    /\ handler.pc = "build" /\ Running = {}
    /\ clients' = [s \in Server |-> IF s \in handler.on \cap In(Enabled)
                                    THEN [at |-> Enabled[s], up |-> FALSE] ELSE clients[s]]
    /\ handler' = IF handler.on \cap In(Enabled) \cap Stateful = {} THEN Quiet
                  ELSE [handler EXCEPT !.pc = "connect"]
    /\ UNCHANGED <<host, tables, cache, loaded, node, bounds, behind, spoiled, past>>

RefreshConnected ==
    /\ handler.pc = "connect" /\ Running = {}
    /\ \E up \in BOOLEAN :
        /\ up \/ edits + failures < MaxEvents
        /\ failures' = IF up THEN failures ELSE failures + 1
        /\ clients' = [s \in Server |-> IF s \in handler.on \cap Cached
                                        THEN [clients[s] EXCEPT !.up = up \/ @] ELSE clients[s]]
    /\ handler' = Quiet
    /\ UNCHANGED <<host, tables, cache, loaded, node, edits, behind, spoiled, past>>

\* The interval between two checks is over.
Tick ==
    /\ host = "worker" /\ ~due /\ Running = {}
    /\ due' = TRUE
    /\ UNCHANGED <<host, tables, resolver, known, print, loaded, clients, node, handler, bounds,
                   behind, spoiled, past>>

NodeStep(n) ==
    \/ Start(n) \/ Check(n) \/ ListAgents(n) \/ ListServers(n)
    \/ Revalidate(n) \/ Evict(n) \/ Closed(n) \/ Evicted(n)
    \/ EnsureLoaded(n) \/ ListEnabled(n) \/ LoadRow(n) \/ Loaded(n) \/ Connected(n)
    \/ Pick(n) \/ Reconnected(n) \/ Again(n) \/ Done(n)
    \/ FailRead(n) \/ FailServer(n)

ConfigNext ==
    \/ \E n \in Node : NodeStep(n)
    \/ \E s \in Server : LoseSession(s) \/ SaveServer(s) \/ DeleteServer(s)
    \/ SaveAgent \/ Reload \/ RefreshEvict \/ RefreshBuild \/ RefreshConnected \/ Tick

ConfigSpec == ConfigInit /\ [][ConfigNext]_configVars

-----------------------------------------------------------------------------
(* Properties *)

Bound == [s \in Server |-> IF s \in agent.ids THEN Enabled[s] ELSE 0]

\* A node that read its configuration alone, with no change since the process last read the
\* tables, works with the servers that are bound to its agent and enabled, each as it is
\* configured now, or does not work at all when its agent is disabled: through evictions, the
\* clients that are kept, lost sessions, and failures of attempts before it.  Left out is a process
\* that has found the tables as they had been, after changes in between: its fingerprint cannot tell.
AgentsGetTheirServers ==
    [][\A n \in Node : node'[n].pc # node[n].pc =>
         /\ Done(n) /\ node[n].calm /\ ~recurred => agent.on /\ Offered(n) = Bound
         /\ node'[n].pc = "off" /\ node'[n].calm => ~agent.on]_configVars
=============================================================================
