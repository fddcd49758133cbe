--------------------------- MODULE MCDurableQueue ---------------------------
(***************************************************************************)
(* One job that both processes can meet in every state.                    *)
(***************************************************************************)
EXTENDS DurableQueue

CONSTANTS mine, theirs

MCTenants == {mine, theirs}
MCTenant == [j \in Jobs |-> mine]
=============================================================================
