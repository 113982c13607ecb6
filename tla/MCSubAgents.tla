----------------------------- MODULE MCSubAgents -----------------------------
(***************************************************************************)
(* For TLC: a delegation, or the MCP gateway its tools go through.  The    *)
(* two are checked apart, each with the other at rest.                     *)
(***************************************************************************)
EXTENDS SubAgents, McpGateway

CONSTANT Parts

VARIABLE part  \* "delegation" or "gateway"

MCInit == part \in Parts /\ Init /\ McpInit

MCNext == /\ UNCHANGED part
          /\ \/ part = "delegation" /\ Next /\ UNCHANGED mcpVars
             \/ part = "gateway" /\ McpNext /\ UNCHANGED vars

MCSpec == MCInit /\ [][MCNext]_<<part, vars, mcpVars>> /\ Fairness /\ McpFairness

\* The server's entry as shipped, and with its tool denied.
MCDeclarations == {[allow |-> {"query"}, deny |-> {}], [allow |-> {"query"}, deny |-> {"query"}]}
=============================================================================
