--------------------------- MODULE ProjectionProofs ---------------------------
(***************************************************************************)
(* Proof that the domains and zones tables stay the projection of the      *)
(* payload blocks of the blocks table (ProjectionConsistent), whenever the *)
(* three DELETEs of truncate_db_from_block are not torn apart by a stop of *)
(* the process (TornTruncation = FALSE; with it, run torn_truncation shows *)
(* the property fails).                                                    *)
(*                                                                         *)
(* The argument: add_block inserts a row exactly when it inserts a payload *)
(* block at a new index, and truncating every table at the same index      *)
(* commutes with the projection because a row's id is its block's index,  *)
(* which ChainLinked guarantees.                                           *)
(***************************************************************************)
EXTENDS ChainProofs

\* The rows of class c that the payload blocks of table bl define.
Proj(bl, c) ==
    {RowOf(bl[i]) : i \in {j \in DOMAIN bl : IsPayload(bl[j]) /\ bl[j].tx.class = c}}

PInv == IInv /\ ProjectionConsistent

\* ProjectionConsistent, in terms of Proj.
LEMMA ProjectionByProj ==
    /\ ProjectionConsistent <=> (domains = Proj(blocks, "domain") /\ zones = Proj(blocks, "zone"))
    /\ ProjectionConsistent' <=> (domains' = Proj(blocks', "domain") /\ zones' = Proj(blocks', "zone"))
BY DEF ProjectionConsistent, Proj

\* Truncating the blocks table at i truncates its projection at i: the row
\* of block j has id j.
LEMMA ProjTrunc ==
    ASSUME NEW i, NEW c,
           \A j \in DOMAIN blocks : blocks[j].idx = j
    PROVE  Proj(TruncBlocks(i), c) = TruncRows(Proj(blocks, c), i)
<1> DEFINE bl == TruncBlocks(i)
<1>1. DOMAIN bl = {j \in DOMAIN blocks : j < i} /\ \A j \in DOMAIN bl : bl[j] = blocks[j]
  BY DEF TruncBlocks
<1>2. \A j \in DOMAIN blocks : RowOf(blocks[j]).id = j
  BY DEF RowOf
<1>3. \A r : r \in Proj(bl, c) <=> r \in TruncRows(Proj(blocks, c), i)
  BY <1>1, <1>2 DEF Proj, TruncRows
<1>4. QED
  BY <1>3

\* Inserting block b at a fresh index adds its row to its class only.
LEMMA ProjAdd ==
    ASSUME NEW b, NEW bl, NEW c, b.idx \notin DOMAIN bl
    PROVE  Proj([i \in DOMAIN bl \cup {b.idx} |-> IF i = b.idx THEN b ELSE bl[i]], c)
             = IF IsPayload(b) /\ b.tx.class = c THEN Proj(bl, c) \cup {RowOf(b)}
               ELSE Proj(bl, c)
<1> DEFINE nb == [i \in DOMAIN bl \cup {b.idx} |-> IF i = b.idx THEN b ELSE bl[i]]
<1>1. DOMAIN nb = DOMAIN bl \cup {b.idx} /\ nb[b.idx] = b
      /\ \A j \in DOMAIN bl : nb[j] = bl[j]
  OBVIOUS
<1>2. CASE IsPayload(b) /\ b.tx.class = c
  <2>1. \A r : r \in Proj(nb, c) <=> r \in Proj(bl, c) \cup {RowOf(b)}
    BY <1>1, <1>2 DEF Proj
  <2>2. QED
    BY <1>2, <2>1
<1>3. CASE ~(IsPayload(b) /\ b.tx.class = c)
  <2>1. \A r : r \in Proj(nb, c) <=> r \in Proj(bl, c)
    BY <1>1, <1>3 DEF Proj
  <2>2. QED
    BY <1>3, <2>1
<1>4. QED
  BY <1>2, <1>3

\* add_block on tables that agree keeps them agreeing.
LEMMA AddBlockProj ==
    ASSUME NEW b, NEW bl, NEW dom, NEW zon,
           dom = Proj(bl, "domain"), zon = Proj(bl, "zone"),
           AddBlock(b, bl, dom, zon)
    PROVE  ProjectionConsistent'
<1>1. CASE b.idx \in DOMAIN bl
  BY <1>1, ProjectionByProj DEF AddBlock
<1>2. CASE b.idx \notin DOMAIN bl
  <2> DEFINE nb == [i \in DOMAIN bl \cup {b.idx} |-> IF i = b.idx THEN b ELSE bl[i]]
  <2>1. /\ blocks' = nb
        /\ domains' = (IF IsPayload(b) /\ b.tx.class = "domain" THEN dom \cup {RowOf(b)} ELSE dom)
        /\ zones' = (IF IsPayload(b) /\ b.tx.class = "zone" THEN zon \cup {RowOf(b)} ELSE zon)
    BY <1>2 DEF AddBlock
  <2>2. Proj(nb, "domain") = domains'
    BY <1>2, <2>1, ProjAdd
  <2>3. Proj(nb, "zone") = zones'
    BY <1>2, <2>1, ProjAdd
  <2>4. QED
    BY <2>1, <2>2, <2>3, ProjectionByProj
<1>3. QED
  BY <1>1, <1>2

-----------------------------------------------------------------------------
(* The actions *)

\* check_new_block and add_block of a Good block keep the projection.
LEMMA ReceivePInv ==
    ASSUME PInv, NEW b \in Candidates, ReceiveBlock(b)
    PROVE  ProjectionConsistent'
<1>1. CASE CheckFault(b, lastBlock, lastFull) # "none" \/ Quality(b) # "Good"
  BY <1>1 DEF ReceiveBlock, PInv, ProjectionConsistent
<1>2. CASE CheckFault(b, lastBlock, lastFull) = "none" /\ Quality(b) = "Good"
  <2>1. AddBlock(b, blocks, domains, zones)
    BY <1>2 DEF ReceiveBlock
  <2>2. QED
    BY <2>1, AddBlockProj, ProjectionByProj DEF PInv
<1>3. QED
  BY <1>1, <1>2

\* replace_block truncates the three tables at the same index and adds.
LEMMA ReplacePInv ==
    ASSUME PInv, NEW b \in Candidates, ReplaceBlock(b)
    PROVE  ProjectionConsistent'
<1>1. \A j \in DOMAIN blocks : blocks[j].idx = j
  BY DEF PInv, IInv, ChainLinked
<1>2. /\ TruncRows(domains, b.idx) = Proj(TruncBlocks(b.idx), "domain")
      /\ TruncRows(zones, b.idx) = Proj(TruncBlocks(b.idx), "zone")
  BY <1>1, ProjTrunc, ProjectionByProj DEF PInv
<1>3. AddBlock(b, TruncBlocks(b.idx), TruncRows(domains, b.idx), TruncRows(zones, b.idx))
  BY DEF ReplaceBlock
<1>4. QED
  BY <1>2, <1>3, AddBlockProj

\* check_chain truncates the three tables at the first block it rejects.
LEMMA CheckChainBlockPInv ==
    ASSUME PInv, CheckChainBlock
    PROVE  ProjectionConsistent'
<1> DEFINE b == blocks[cc.id]
<1>1. CASE CheckFault(b, cc.last, cc.full) # "none" \/ QualityIn(b, cc.last, cc.full) = "Good"
  BY <1>1 DEF CheckChainBlock, PInv, ProjectionConsistent
<1>2. CASE CheckFault(b, cc.last, cc.full) = "none" /\ QualityIn(b, cc.last, cc.full) # "Good"
  <2>1. /\ blocks' = TruncBlocks(cc.id)
        /\ domains' = TruncRows(domains, cc.id)
        /\ zones' = TruncRows(zones, cc.id)
    BY <1>2 DEF CheckChainBlock
  <2>2. \A j \in DOMAIN blocks : blocks[j].idx = j
    BY DEF PInv, IInv, ChainLinked
  <2>3. QED
    BY <2>1, <2>2, ProjTrunc, ProjectionByProj DEF PInv
<1>3. QED
  BY <1>1, <1>2

\* With truncations never torn, every step keeps the projection.
LEMMA NextPInv ==
    ASSUME ~TornTruncation
    PROVE  PInv /\ [Next]_vars => PInv'
<1> SUFFICES ASSUME PInv, [Next]_vars PROVE PInv'
  OBVIOUS
<1>1. IInv'
  BY NextIInv DEF PInv
<1>2. ProjectionConsistent'
  <2>1. CASE UNCHANGED vars
    BY <2>1 DEF vars, PInv, ProjectionConsistent
  <2>2. CASE \E b \in Candidates : ReceiveBlock(b)
    BY <2>2, ReceivePInv
  <2>3. CASE \E b \in Candidates : ReplaceBlock(b)
    BY <2>3, ReplacePInv
  <2>4. CASE Restart \/ CheckChainDone \/ CheckChainGenesis
    BY <2>4 DEF Restart, CheckChainDone, CheckChainGenesis, PInv, ProjectionConsistent
  <2>5. CASE CheckChainBlock
    BY <2>5, CheckChainBlockPInv
  <2>6. ~TruncationTorn
    BY DEF TruncationTorn
  <2>7. QED
    BY <2>1, <2>2, <2>3, <2>4, <2>5, <2>6 DEF Next
<1>3. QED
  BY <1>1, <1>2 DEF PInv

\* The initial tables are the projection of the loaded chain.
LEMMA InitPInv == Init => PInv
BY InitIInv DEF Init, PInv, ProjectionConsistent

-----------------------------------------------------------------------------
(* Theorem *)

\* As long as no stop of the process falls between the DELETEs of
\* truncate_db_from_block, the domains and zones tables hold exactly the
\* rows of the payload blocks stored: add_block, replace_block, restarts
\* and check_chain's truncation never leave a row without its block or a
\* payload block without its row.
THEOREM ProjectionAlwaysConsistent ==
    ASSUME ~TornTruncation
    PROVE  Spec => []ProjectionConsistent
<1>1. Init => PInv
  BY InitPInv
<1>2. PInv /\ [Next]_vars => PInv'
  BY NextPInv
<1>3. PInv => ProjectionConsistent
  BY DEF PInv
<1>4. QED
  BY <1>1, <1>2, <1>3, PTL DEF Spec
=============================================================================
