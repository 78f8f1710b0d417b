----------------------------- MODULE MCBridgeSync -----------------------------
EXTENDS BridgeSync

CONSTANTS a1, a2

MCAccounts == {a1, a2}

(* 20 is the priority of the loop on the pending operations. *)
MCPriorities == {0, 20}

=============================================================================
