------------------------------- MODULE MCChain -------------------------------
(* Instance of Chain for TLC: three miner keys, one identity, one zone  *)
(* name, and a database that already holds two signing blocks mined by *)
(* k1 and k2 (so that a signer election has keys to draw from).          *)
EXTENDS Chain

CONSTANTS k1, k2, k3, i1, z1

MCKeys == {k1, k2, k3}

GenesisBlock == [idx |-> 1, key |-> k1, tx |-> NoTx, ts |-> 0, tail |-> 1, prev |-> NoHash]
Block2 == [idx |-> 2, key |-> k2, tx |-> NoTx, ts |-> 0, tail |-> 1, prev |-> Hash(GenesisBlock)]

\* A database holding two signing blocks.
MCInitChain == <<GenesisBlock, Block2>>

MCOrigin == Hash(GenesisBlock)

\* The genesis block of the spec's bootstrap scenario: a zone payload block
\* mined by a node with an empty origin.
GenesisZone == [idx |-> 1, key |-> k1, tx |-> [class |-> "zone", id |-> i1, zone |-> z1],
                ts |-> 0, tail |-> 1, prev |-> NoHash]

\* A database holding that genesis block alone.
MCPayloadGenesisChain == <<GenesisZone>>

\* State constraint: the blocks loaded at start are never replaced, so that
\* forks (which take the same path at every index) happen above them.
MCKeepLoadedChain == \A i \in DOMAIN InitChain : i \in DOMAIN blocks /\ blocks[i] = InitChain[i]

\* The tail of a signing block's signature only feeds its hash; candidates
\* of the network keep it fixed and vary it for payload blocks, whose tail
\* seeds the election.
MCCandidates == {b \in NetworkBlocks : ~IsPayload(b) => b.tail = 1}
=============================================================================
