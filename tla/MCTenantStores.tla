---------------------------- MODULE MCTenantStores ----------------------------
(***************************************************************************)
(* tenantctl and a process that serves; two workflows, two servers and a   *)
(* name for one more, an agent for each of the servers, the second custom. *)
(***************************************************************************)
EXTENDS TenantStores, TLC

CONSTANTS ctl, api

MCServer == ctl :> FALSE @@ api :> TRUE
MCFlows == <<"diagnosis", "bugfix">>
MCNames == {"telemetry", "repository", "extra"}
MCBackends == <<"telemetry", "repository">>
MCAgents == <<"analyst", "coder">>
MCCustom == {"coder"}
MCBinding == "analyst" :> {"telemetry"} @@ "coder" :> {"telemetry", "repository"}
MCAsked == {{}, {<<"repository", 0>>, <<"telemetry", 1>>}}
=============================================================================
