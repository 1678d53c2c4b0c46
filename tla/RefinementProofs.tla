-------------------------- MODULE RefinementProofs --------------------------
(***************************************************************************)
(* Proof that the blocks table of Chain implements ChainStore under the    *)
(* identity mapping store <- blocks: every step of the engine, including   *)
(* stops, restarts, check_chain and a stop inside truncate_db_from_block,  *)
(* either leaves the table alone, installs one block at an index on top of *)
(* the blocks below it, or cuts the table back to a prefix.                *)
(*                                                                         *)
(* The argument rests on the invariant IInv of ChainProofs: the table is   *)
(* a linked prefix 1..n, so a Good block lands at n + 1 (GoodExtendsTip),  *)
(* a Fork at an index the table holds (ForkReplacesStored) and every       *)
(* truncation at an index in 1..n + 1 (TruncationStartsInRange).          *)
(***************************************************************************)
EXTENDS ChainProofs

\* A linked table, in the terms of ChainStore.
LEMMA StoreLinked ==
    ASSUME IInv
    PROVE  Store!IsLinked(blocks)
BY DEF IInv, TypeOK, ChainLinked, Store!IsLinked, Follows

\* add_block of block b on the blocks below its index, when b follows the
\* block under it, is ChainStore's InstallAt(b.idx).
LEMMA AddBlockInstalls ==
    ASSUME IInv, phase # "down", NEW b \in Block, NEW dom, NEW zon,
           b.idx \in 1..(Height + 1),
           b.idx # 1 => b.prev = Hash(blocks[b.idx - 1]),
           AddBlock(b, TruncBlocks(b.idx), dom, zon)
    PROVE  Store!InstallAt(b.idx)
<1> DEFINE bl == TruncBlocks(b.idx)
<1>1. DOMAIN blocks = 1..Height /\ Height \in 0..MaxIndex
  BY HeightType DEF IInv, ChainLinked
<1>2. DOMAIN bl = 1..(b.idx - 1) /\ \A j \in 1..(b.idx - 1) : bl[j] = blocks[j]
  BY <1>1 DEF TruncBlocks
<1>3. b.idx \notin DOMAIN bl
  BY <1>2
<1>4. blocks' = [i \in DOMAIN bl \cup {b.idx} |-> IF i = b.idx THEN b ELSE bl[i]]
  BY <1>3 DEF AddBlock
<1>5. /\ DOMAIN blocks' = 1..b.idx
      /\ \A j \in 1..(b.idx - 1) : blocks'[j] = blocks[j]
      /\ blocks'[b.idx] = b
  BY <1>2, <1>4
<1>6. b.idx - 1 \in DOMAIN blocks \cup {0}
  BY <1>1
<1>7. b.idx = 1 \/ b.idx - 1 \in DOMAIN blocks
  BY <1>1
<1>8. QED
  BY <1>5, <1>6 DEF Store!InstallAt, Follows, Block

\* A Good block from the network is installed on top of the table.
LEMMA ReceiveRefines ==
    ASSUME IInv, NEW b \in Candidates, ReceiveBlock(b)
    PROVE  [Store!Next]_blocks
<1>1. CASE CheckFault(b, lastBlock, lastFull) # "none" \/ Quality(b) # "Good"
  BY <1>1 DEF ReceiveBlock
<1>2. CASE CheckFault(b, lastBlock, lastFull) = "none" /\ Quality(b) = "Good"
  <2>1. b \in Block /\ b.idx \in 1..(Height + 1) /\ phase = "run"
    BY CandidateType DEF ReceiveBlock
  <2>2. b.idx = Height + 1 /\ (b.idx # 1 => b.prev = Hash(blocks[b.idx - 1]))
    BY <1>2, <2>1, GoodExtendsTip
  <2>3. DOMAIN blocks = 1..Height /\ Height \in 0..MaxIndex
    BY <2>1, HeightType DEF IInv, ChainLinked
  <2>4. TruncBlocks(b.idx) = blocks
    BY <2>2, <2>3 DEF TruncBlocks, IInv, TypeOK
  <2>5. AddBlock(b, TruncBlocks(b.idx), domains, zones)
    BY <1>2, <2>4 DEF ReceiveBlock
  <2>6. Store!InstallAt(b.idx)
    BY <2>1, <2>2, <2>5, AddBlockInstalls
  <2>7. b.idx \in 1..MaxIndex
    BY <2>1 DEF Block, Idx
  <2>8. QED
    BY <2>6, <2>7 DEF Store!Next
<1>3. QED
  BY <1>1, <1>2

\* A Fork is installed at the index it replaces.
LEMMA ReplaceRefines ==
    ASSUME IInv, NEW b \in Candidates, ReplaceBlock(b)
    PROVE  [Store!Next]_blocks
<1>1. b \in Block /\ b.idx \in 1..(Height + 1) /\ phase = "run"
  BY CandidateType DEF ReplaceBlock, ForkAccepted
<1>2. b.idx \in 1..Height /\ (b.idx # 1 => b.prev = Hash(blocks[b.idx - 1]))
  BY <1>1, ForkReplacesStored DEF ReplaceBlock, ForkAccepted
<1>3. AddBlock(b, TruncBlocks(b.idx), TruncRows(domains, b.idx), TruncRows(zones, b.idx))
  BY DEF ReplaceBlock
<1>4. Store!InstallAt(b.idx)
  BY <1>1, <1>2, <1>3, AddBlockInstalls
<1>5. b.idx \in 1..MaxIndex
  BY <1>1 DEF Block, Idx
<1>6. QED
  BY <1>4, <1>5 DEF Store!Next

\* Cutting at an index the table holds is CutFrom; at one above the top it
\* cuts nothing.
LEMMA TruncRefines ==
    ASSUME IInv, phase # "down", NEW i \in 1..(Height + 1), blocks' = TruncBlocks(i)
    PROVE  [Store!Next]_blocks
<1>1. DOMAIN blocks = 1..Height /\ Height \in 0..MaxIndex
  BY HeightType DEF IInv, ChainLinked
<1>2. CASE i \in DOMAIN blocks
  <2>1. Store!CutFrom(i)
    BY <1>2 DEF Store!CutFrom, Store!Below, TruncBlocks
  <2>2. i \in 1..MaxIndex
    BY <1>1, <1>2, ConstantsAssumption
  <2>3. QED
    BY <2>1, <2>2 DEF Store!Next
<1>3. CASE i \notin DOMAIN blocks
  <2>1. i = Height + 1
    BY <1>1, <1>3
  <2>2. TruncBlocks(i) = blocks
    BY <1>1, <2>1 DEF TruncBlocks, IInv, TypeOK
  <2>3. QED
    BY <2>2
<1>4. QED
  BY <1>2, <1>3

\* check_chain's step either keeps the table or truncates it at the block
\* it rejects.
LEMMA CheckChainBlockRefines ==
    ASSUME IInv, CheckChainBlock
    PROVE  [Store!Next]_blocks
<1> DEFINE b == blocks[cc.id]
<1>1. CASE CheckFault(b, cc.last, cc.full) # "none" \/ QualityIn(b, cc.last, cc.full) = "Good"
  BY <1>1 DEF CheckChainBlock
<1>2. CASE CheckFault(b, cc.last, cc.full) = "none" /\ QualityIn(b, cc.last, cc.full) # "Good"
  <2>1. blocks' = TruncBlocks(cc.id)
    BY <1>2 DEF CheckChainBlock
  <2>2. cc.id \in 1..(Height + 1) /\ phase # "down"
    BY HeightType DEF CheckChainBlock, IInv, TypeOK
  <2>3. QED
    BY <2>1, <2>2, TruncRefines
<1>3. QED
  BY <1>1, <1>2

\* A stop inside truncate_db_from_block has already cut the blocks table.
LEMMA TornRefines ==
    ASSUME IInv, TruncationTorn
    PROVE  [Store!Next]_blocks
<1>1. PICK i \in TruncationStarts, k \in {1, 2} : TornTruncate(i, k)
  BY DEF TruncationTorn
<1>2. i \in 1..(Height + 1) /\ phase # "down"
  BY TruncationStartsInRange
<1>3. QED
  BY <1>1, <1>2, TruncRefines DEF TornTruncate

\* Every step of the engine is a step of ChainStore or leaves the table.
LEMMA NextRefines ==
    ASSUME IInv, [Next]_vars
    PROVE  [Store!Next]_blocks
<1>1. CASE UNCHANGED vars
  BY <1>1 DEF vars
<1>2. CASE \E b \in Candidates : ReceiveBlock(b)
  BY <1>2, ReceiveRefines
<1>3. CASE \E b \in Candidates : ReplaceBlock(b)
  BY <1>3, ReplaceRefines
<1>4. CASE Restart \/ CheckChainDone \/ CheckChainGenesis
  BY <1>4 DEF Restart, CheckChainDone, CheckChainGenesis
<1>5. CASE CheckChainBlock
  BY <1>5, CheckChainBlockRefines
<1>6. CASE TruncationTorn
  BY <1>6, TornRefines
<1>7. QED
  BY <1>1, <1>2, <1>3, <1>4, <1>5, <1>6 DEF Next

-----------------------------------------------------------------------------
(* Theorem *)

\* The blocks table of the chain engine implements ChainStore: whatever
\* the network delivers, and with stops and restarts anywhere, including
\* between the DELETEs of truncate_db_from_block, add_block, replace_block
\* and check_chain only append a linked block, install a Fork linked to the
\* block below it, or cut the table back.
THEOREM StoreImplemented == Spec => StoreRefined
<1>1. Init => IInv
  BY InitIInv
<1>2. IInv /\ [Next]_vars => IInv'
  BY NextIInv
<1>3. IInv => Store!Init
  BY StoreLinked DEF Store!Init
<1>4. IInv /\ [Next]_vars => [Store!Next]_blocks
  BY NextRefines
<1>5. QED
  BY <1>1, <1>2, <1>3, <1>4, PTL DEF Spec, StoreRefined, Store!Spec
=============================================================================
