---------------------------- MODULE MCBroadcast ----------------------------
(***************************************************************************)
(* BroadcastTicket with a ticket, its parent, and the parent's.            *)
(***************************************************************************)
EXTENDS BroadcastTicket

CONSTANTS grandparent, parent, ticket

MCInputs == [tx \in Txs |-> CASE tx = ticket -> {parent}
                              [] tx = parent -> {grandparent}
                              [] OTHER -> {}]
=============================================================================
