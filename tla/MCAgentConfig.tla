---------------------------- MODULE MCAgentConfig ----------------------------
(***************************************************************************)
(* Two nodes, a server with a session and one without.  A change or a      *)
(* failure may come at any time, and a second one, after which both nodes  *)
(* are at work only in a tenant whose agent is as it was seeded.  A third  *)
(* may come while one node at most is at work, to a tenant in which only   *)
(* the server with a session was changed: enough to change it, use it and  *)
(* undo the change.                                                        *)
(***************************************************************************)
EXTENDS AgentConfig, TLC

Symmetry == Permutations(Node)

OneAtWork == \E n \in Node : ~Busy(n)
Unchanged == agent.at = 1

Bounded ==
    \/ edits + failures < 2
    \/ edits + failures < MaxEvents /\ (OneAtWork \/ Unchanged)
    \/ /\ OneAtWork /\ Unchanged
       /\ \A s \in Server \ Stateful : servers[s].at \in 1..Seeded
=============================================================================
