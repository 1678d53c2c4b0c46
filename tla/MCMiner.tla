------------------------------ MODULE MCMiner ------------------------------
(***************************************************************************)
(* TLC instance of Miner: the node starts on a chain whose last block is   *)
(* another node's payload block waiting for its signatures, the node is    *)
(* among the elected signers, and the user submits payload jobs.           *)
(***************************************************************************)
EXTENDS Miner

\* One payload block of another node, not signed yet.
MCInitChain == <<[full |-> TRUE, ours |-> FALSE, job |-> NoId]>>

=============================================================================
