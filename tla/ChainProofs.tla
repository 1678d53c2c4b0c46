----------------------------- MODULE ChainProofs -----------------------------
(***************************************************************************)
(* Proofs about the chain engine of Chain.tla, for every value of the      *)
(* constants that satisfies ConstantsAssumption and InitChainAssumption.   *)
(*                                                                         *)
(* TypeOK is not inductive on its own: a candidate block carries the hash  *)
(* of the stored block below it, which is a hash of the right type only    *)
(* because the blocks table has no gaps.  The inductive invariant IInv is  *)
(* therefore TypeOK together with ChainLinked.                             *)
(***************************************************************************)
EXTENDS Chain, WellFoundedInduction, TLAPS

IInv == TypeOK /\ ChainLinked

-----------------------------------------------------------------------------
(* Basic facts *)

\* get_height is a block index or 0.
LEMMA HeightType ==
    ASSUME IInv
    PROVE  Height \in 0..MaxIndex
BY ConstantsAssumption DEF IInv, TypeOK, Height, HeightOf, Block, Idx

\* The remainder by a positive window lies inside the window.
LEMMA ModRange ==
    ASSUME NEW x \in Nat, NEW w \in Nat \ {0}
    PROVE  x % w \in 0..(w - 1)
OBVIOUS

\* A visit of the election loop lands on a block below the payload block.
LEMMA VisitInWindow ==
    ASSUME NEW t \in Nat, NEW c \in Nat, NEW h \in Nat, NEW m \in 2..h
    PROVE  ((t * c) % (m - 1)) + 1 \in 1..h
<1>1. t * c \in Nat /\ m - 1 \in Nat \ {0}
  OBVIOUS
<1>2. (t * c) % (m - 1) \in 0..(m - 2)
  BY <1>1, ModRange
<1>3. QED
  BY <1>2

\* A nonempty set of indices has a largest element, so the query for the
\* last payload block (ORDER BY id DESC LIMIT 1) picks a stored row.
LEMMA MaxExists ==
    ASSUME NEW n \in Nat, NEW P \in SUBSET (1..n), P # {}
    PROVE  \E i \in P : \A j \in P : j <= i
<1> DEFINE T == {n - i : i \in P}
<1>1. T \subseteq Nat /\ T # {}
  <2>1. \A i \in P : n - i \in Nat
    OBVIOUS
  <2>2. PICK p \in P : TRUE
    OBVIOUS
  <2>3. n - p \in T
    OBVIOUS
  <2>4. QED
    BY <2>1, <2>3
<1>2. \E x \in T : \A y \in T : ~(<<y, x>> \in OpToRel(<, Nat))
  BY <1>1, NatLessThanWellFounded, WFMin
<1>3. PICK x \in T : \A y \in T : ~(y < x)
  BY <1>1, <1>2 DEF OpToRel
<1>4. PICK i0 \in P : x = n - i0
  BY <1>3
<1>5. \A j \in P : j <= i0
  <2> TAKE j \in P
  <2>1. n - j \in T
    OBVIOUS
  <2>2. ~(n - j < n - i0)
    BY <1>3, <1>4, <2>1
  <2>3. j \in 1..n /\ i0 \in 1..n
    OBVIOUS
  <2>4. QED
    BY <2>2, <2>3
<1>6. QED
  BY <1>4, <1>5

\* The last payload block of a linked table is one of its blocks, or none.
LEMMA LastPayloadType ==
    ASSUME NEW n \in Nat, NEW bl \in [1..n -> Block], NEW S \in SUBSET (1..n)
    PROVE  LastPayloadIn(bl, S) \in Block \cup {NoBlock}
<1> DEFINE P == {i \in S : IsPayload(bl[i])}
<1>1. CASE P = {}
  BY <1>1 DEF LastPayloadIn
<1>2. CASE P # {}
  <2>1. \E i \in P : \A j \in P : j <= i
    BY <1>2, MaxExists
  <2>2. (CHOOSE i \in P : \A j \in P : j <= i) \in 1..n
    BY <2>1
  <2>3. QED
    BY <1>2, <2>2 DEF LastPayloadIn
<1>3. QED
  BY <1>1, <1>2

-----------------------------------------------------------------------------
(* Candidates *)

\* A stored block's hash is a hash.
LEMMA HashType ==
    ASSUME NEW b \in Block
    PROVE  Hash(b) \in Hashes
BY DEF Hash, Hashes, Block

\* Every block the network may deliver is a block, at most one above the tip.
LEMMA CandidateType ==
    ASSUME IInv, NEW b \in Candidates
    PROVE  /\ b \in Block
           /\ b.idx \in 1..(Height + 1)
<1> USE ConstantsAssumption
<1>1. Height \in 0..MaxIndex
  BY HeightType
<1>2. PICK i \in 1..IF Height < MaxIndex THEN Height + 1 ELSE MaxIndex :
        b \in {[idx |-> i, key |-> k, tx |-> t, ts |-> s, tail |-> l, prev |-> p] :
                 k \in Keys, t \in Tx \cup {NoTx}, s \in Times, l \in Tails,
                 p \in PrevChoices(i)}
  BY DEF Candidates, NetworkBlocks
<1>3. i \in Idx /\ i \in 1..(Height + 1)
  BY <1>1 DEF Idx
<1>4. PrevChoices(i) \subseteq Hashes
  <2>1. CASE i - 1 \notin DOMAIN blocks
    BY <2>1 DEF PrevChoices, Hashes
  <2>2. CASE i - 1 \in DOMAIN blocks
    <3>1. blocks[i - 1] \in Block
      BY <2>2 DEF IInv, TypeOK
    <3>2. QED
      BY <2>2, <3>1, HashType DEF PrevChoices, Hashes
  <2>3. QED
    BY <2>1, <2>2
<1>5. PICK k \in Keys, t \in Tx \cup {NoTx}, s \in Times, l \in Tails, p \in PrevChoices(i) :
        b = [idx |-> i, key |-> k, tx |-> t, ts |-> s, tail |-> l, prev |-> p]
  BY <1>2
<1>6. QED
  BY <1>3, <1>4, <1>5 DEF Block

-----------------------------------------------------------------------------
(* What the outcome of check_block says about the block *)

\* The gates before the signing rules: Good only without a last block, for
\* a genesis block; Sign only with a last block, after the Rewind gate.
LEMMA PreQualityShape ==
    ASSUME NEW b, NEW lb
    PROVE  /\ PreQuality(b, lb) \in {"Future", "Bad", "Rewind", "Good", "Sign"}
           /\ PreQuality(b, lb) = "Good" => lb = NoBlock /\ IsGenesis(b)
           /\ PreQuality(b, lb) = "Sign" =>
                 /\ lb # NoBlock
                 /\ b.idx - 1 \in DOMAIN blocks => b.prev = Hash(blocks[b.idx - 1])
BY DEF PreQuality

\* The verdicts of the rest of check_block.
LEMMA FinalQualityShape ==
    ASSUME NEW b, NEW lb
    PROVE  /\ FinalQuality(b, lb) = "Fork" => b.idx <= lb.idx /\ b.idx \in DOMAIN blocks
           /\ FinalQuality(b, lb) = "Good" =>
                 \/ b.idx <= lb.idx /\ b.idx \notin DOMAIN blocks
                 \/ ~(b.idx <= lb.idx) /\ b.prev = Hash(lb)
BY DEF FinalQuality

\* Good comes from the genesis branch or from the final checks, Fork only
\* from the final checks.
LEMMA QualityShape ==
    ASSUME NEW b, NEW lb, NEW F
    PROVE  /\ QualityIn(b, lb, F) = "Good" =>
                 \/ PreQuality(b, lb) = "Good"
                 \/ PreQuality(b, lb) = "Sign" /\ FinalQuality(b, lb) = "Good"
           /\ QualityIn(b, lb, F) = "Fork" =>
                 PreQuality(b, lb) = "Sign" /\ FinalQuality(b, lb) = "Fork"
BY PreQualityShape DEF QualityIn

\* While the process runs, a block check_new_block finds Good extends the
\* tip and carries the tip's hash.
LEMMA GoodExtendsTip ==
    ASSUME IInv, phase # "down", NEW b \in Block, b.idx \in 1..(Height + 1),
           Quality(b) = "Good"
    PROVE  /\ b.idx = Height + 1
           /\ b.idx # 1 => b.prev = Hash(blocks[b.idx - 1])
<1>1. Height \in 0..MaxIndex
  BY HeightType
<1>2. CASE PreQuality(b, lastBlock) = "Good"
  <2>1. lastBlock = NoBlock /\ IsGenesis(b)
    BY <1>2, PreQualityShape
  <2>2. QED
    BY <2>1 DEF IsGenesis, Height, HeightOf
<1>3. CASE PreQuality(b, lastBlock) = "Sign" /\ FinalQuality(b, lastBlock) = "Good"
  <2>1. lastBlock # NoBlock
    BY <1>3, PreQualityShape
  <2>2. lastBlock \in Block
    BY <2>1 DEF IInv, TypeOK
  <2>3. Height = lastBlock.idx /\ DOMAIN blocks = 1..Height /\ lastBlock = blocks[Height]
    BY <2>1 DEF IInv, ChainLinked, Height, HeightOf
  <2>4. ~(b.idx <= lastBlock.idx) /\ b.prev = Hash(lastBlock)
    BY <1>1, <1>3, <2>3, FinalQualityShape
  <2>5. QED
    BY <1>1, <2>3, <2>4
<1>4. QED
  BY <1>2, <1>3, QualityShape DEF Quality

\* While the process runs, a block check_new_block finds Fork replaces a
\* stored block and carries the hash of the stored block below it.
LEMMA ForkReplacesStored ==
    ASSUME IInv, phase # "down", NEW b \in Block, b.idx \in 1..(Height + 1),
           Quality(b) = "Fork"
    PROVE  /\ b.idx \in 1..Height
           /\ b.idx # 1 => b.prev = Hash(blocks[b.idx - 1])
<1>1. Height \in 0..MaxIndex
  BY HeightType
<1>2. PreQuality(b, lastBlock) = "Sign" /\ FinalQuality(b, lastBlock) = "Fork"
  BY QualityShape DEF Quality
<1>3. DOMAIN blocks = 1..Height
  BY DEF IInv, ChainLinked
<1>4. b.idx \in 1..Height
  BY <1>2, <1>3, FinalQualityShape
<1>5. b.idx # 1 => b.idx - 1 \in DOMAIN blocks
  BY <1>1, <1>3, <1>4
<1>6. QED
  BY <1>2, <1>4, <1>5, PreQualityShape

-----------------------------------------------------------------------------
(* Tables cut at an index *)

\* load_last_block on a table holding 1..n returns the block at n.
LEMMA TopOfPrefix ==
    ASSUME NEW n \in Nat, NEW bl, DOMAIN bl = 1..n
    PROVE  TopBlock(bl) = IF n = 0 THEN NoBlock ELSE bl[n]
<1>1. CASE n = 0
  BY <1>1 DEF TopBlock
<1>2. CASE n # 0
  <2>1. (CHOOSE i \in 1..n : \A j \in 1..n : j <= i) = n
    <3>1. \A j \in 1..n : j <= n
      OBVIOUS
    <3>2. \A i \in 1..n : (\A j \in 1..n : j <= i) => i = n
      BY <1>2
    <3>3. QED
      BY <1>2, <3>1, <3>2
  <2>2. QED
    BY <1>2, <2>1 DEF TopBlock
<1>3. QED
  BY <1>1, <1>2

\* truncate_db_from_block on a linked table leaves a linked table 1..m.
LEMMA TruncLinked ==
    ASSUME NEW n \in 0..MaxIndex, NEW i \in 1..(n + 1),
           DOMAIN blocks = 1..n,
           blocks \in [DOMAIN blocks -> Block],
           \A j \in DOMAIN blocks : blocks[j].idx = j,
           \A j \in DOMAIN blocks \ {1} : blocks[j].prev = Hash(blocks[j - 1])
    PROVE  /\ i - 1 \in 0..MaxIndex
           /\ DOMAIN TruncBlocks(i) = 1..(i - 1)
           /\ TruncBlocks(i) \in [1..(i - 1) -> Block]
           /\ \A j \in 1..(i - 1) : TruncBlocks(i)[j] = blocks[j]
           /\ \A j \in 1..(i - 1) : TruncBlocks(i)[j].idx = j
           /\ \A j \in 1..(i - 1) \ {1} : TruncBlocks(i)[j].prev = Hash(TruncBlocks(i)[j - 1])
<1> DEFINE bl == TruncBlocks(i)
<1>1. i - 1 \in 0..MaxIndex /\ {j \in 1..n : j < i} = 1..(i - 1) /\ 1..(i - 1) \subseteq 1..n
  BY ConstantsAssumption
<1>2. bl = [j \in 1..(i - 1) |-> blocks[j]]
  BY <1>1 DEF TruncBlocks
<1>3. \A j \in 1..(i - 1) : bl[j] = blocks[j] /\ blocks[j] \in Block /\ blocks[j].idx = j
  BY <1>1, <1>2
<1>4. \A j \in 1..(i - 1) \ {1} : bl[j].prev = Hash(bl[j - 1])
  <2> SUFFICES ASSUME NEW j \in 1..(i - 1), j # 1 PROVE bl[j].prev = Hash(bl[j - 1])
    OBVIOUS
  <2>1. j - 1 \in 1..(i - 1) /\ j \in (1..n) \ {1}
    BY <1>1
  <2>2. QED
    BY <1>3, <2>1
<1>5. QED
  BY <1>1, <1>2, <1>3, <1>4

-----------------------------------------------------------------------------
(* add_block on a linked prefix *)

\* add_block of a block that extends a linked table 1..b.idx-1 yields a
\* linked, well-typed table 1..b.idx whose top is last_block.
LEMMA AddBlockLinked ==
    ASSUME NEW b \in Block, NEW bl, NEW dom, NEW zon,
           DOMAIN bl = 1..(b.idx - 1),
           bl \in [DOMAIN bl -> Block],
           \A i \in DOMAIN bl : bl[i].idx = i,
           \A i \in DOMAIN bl \ {1} : bl[i].prev = Hash(bl[i - 1]),
           b.idx # 1 => b.prev = Hash(bl[b.idx - 1]),
           dom \subseteq Row, zon \subseteq Row,
           lastFull \in Block \cup {NoBlock},
           AddBlock(b, bl, dom, zon)
    PROVE  /\ DOMAIN blocks' = 1..b.idx
           /\ b.idx \in 0..MaxIndex
           /\ blocks' \in [DOMAIN blocks' -> Block]
           /\ \A i \in DOMAIN blocks' : blocks'[i].idx = i
           /\ \A i \in DOMAIN blocks' \ {1} : blocks'[i].prev = Hash(blocks'[i - 1])
           /\ domains' \subseteq Row
           /\ zones' \subseteq Row
           /\ lastBlock' = b
           /\ Height' = b.idx
           /\ lastBlock' = blocks'[Height']
           /\ lastFull' \in Block \cup {NoBlock}
<1> USE ConstantsAssumption
<1>1. b.idx \notin DOMAIN bl
  BY DEF Block, Idx
<1>2. blocks' = [i \in DOMAIN bl \cup {b.idx} |-> IF i = b.idx THEN b ELSE bl[i]]
  BY <1>1 DEF AddBlock
<1>3. DOMAIN blocks' = 1..b.idx /\ b.idx \in 0..MaxIndex
  BY <1>2 DEF Block, Idx
<1>4. lastBlock' = b /\ Height' = b.idx
  BY NoBlockAssumption DEF AddBlock, Height, HeightOf
<1>5. IsPayload(b) => RowOf(b) \in Row
  BY DEF IsPayload, RowOf, Row, Block, Tx
<1>6. domains' \subseteq Row /\ zones' \subseteq Row
  BY <1>1, <1>5 DEF AddBlock
<1>7. lastFull' \in Block \cup {NoBlock}
  BY DEF AddBlock
<1>8. blocks' \in [DOMAIN blocks' -> Block] /\ \A i \in DOMAIN blocks' : blocks'[i].idx = i
  BY <1>2
<1>9. \A i \in DOMAIN blocks' \ {1} : blocks'[i].prev = Hash(blocks'[i - 1])
  BY <1>2, <1>3 DEF Block, Idx
<1>10. lastBlock' = blocks'[Height']
  BY <1>2, <1>4
<1>11. QED
  BY <1>3, <1>4, <1>6, <1>7, <1>8, <1>9, <1>10

-----------------------------------------------------------------------------
(* The signers cache after a check *)

\* check_block(b, lb, F) leaves a signers cache of the right type while the
\* blocks table is 1..height: every index the election visits is stored.
LEMMA SignersAfterCheckType ==
    ASSUME IInv, phase # "down", NEW b, NEW lb, NEW F \in Block \cup {NoBlock},
           CheckFault(b, lb, F) = "none"
    PROVE  SignersAfterCheck(b, lb, F) \in [index : 0..MaxIndex, keys : SUBSET Keys]
<1> USE ConstantsAssumption
<1>1. CASE ~ElectionRuns(b, lb, F)
  BY <1>1 DEF SignersAfterCheck, IInv, TypeOK
<1>2. CASE ElectionRuns(b, lb, F)
  <2>1. F \in Block
    BY <1>2 DEF ElectionRuns, SignerCheckCalled
  <2>2. F.idx \in 1..MaxIndex /\ F.tail \in Tails
    BY <2>1 DEF Block, Idx
  <2>3. F.idx # 1 /\ F.idx <= Height
    <3>1. F.idx # 1
      BY <1>2 DEF CheckFault
    <3>2. F.idx <= Height
      BY <1>2, <2>2, HeightType DEF ElectionRuns
    <3>3. QED
      BY <3>1, <3>2
  <2>4. \A c \in 1..(F.idx - 1) : VisitIdx(F, c) \in DOMAIN blocks
    <3>1. DOMAIN blocks = 1..Height
      BY DEF IInv, ChainLinked
    <3>2. F.idx - 1 \in Nat \ {0} /\ F.tail \in Nat
      <4>1. F.idx - 1 \in Nat \ {0}
        BY <2>2, <2>3
      <4>2. F.tail \in Nat
        BY <2>2
      <4>3. QED
        BY <4>1, <4>2
    <3>3. SUFFICES ASSUME NEW c \in 1..(F.idx - 1)
                   PROVE  VisitIdx(F, c) \in 1..Height
      BY <3>1
    <3>4. F.idx \in 2..Height /\ Height \in Nat /\ c \in Nat
      BY <2>2, <2>3, HeightType
    <3>5. QED
      BY <3>2, <3>4, VisitInWindow DEF VisitIdx
  <2>5. VisitedKeys(F) \subseteq Keys
    BY <2>4 DEF VisitedKeys, IInv, TypeOK, Block
  <2>6. Elected(F) \subseteq Keys
    BY <2>5 DEF Elected
  <2>7. F.idx \in 0..MaxIndex
    BY <2>2
  <2>8. QED
    BY <1>2, <2>6, <2>7 DEF SignersAfterCheck
<1>3. QED
  BY <1>1, <1>2

-----------------------------------------------------------------------------
(* The inductive invariant *)

LEMMA InitIInv == Init => IInv
<1> USE ConstantsAssumption, InitChainAssumption
<1> SUFFICES ASSUME Init PROVE IInv
  OBVIOUS
<1>1. DOMAIN blocks = 1..Len(InitChain) /\ blocks \in [DOMAIN blocks -> Block]
  BY DEF Init
<1>2. Height = Len(InitChain)
  <2>1. CASE InitChain = <<>>
    <3>1. lastBlock = NoBlock
      BY <2>1 DEF Init
    <3>2. QED
      BY <2>1, <3>1 DEF Height, HeightOf
  <2>2. CASE InitChain # <<>>
    <3>1. Len(InitChain) \in DOMAIN InitChain
      BY <2>2
    <3>2. lastBlock = InitChain[Len(InitChain)] /\ InitChain[Len(InitChain)] \in Block
      BY <2>2, <3>1 DEF Init
    <3>3. lastBlock # NoBlock
      BY <3>2, NoBlockAssumption
    <3>4. QED
      BY <3>1, <3>2, <3>3 DEF Height, HeightOf
  <2>3. QED
    BY <2>1, <2>2
<1>3. domains \subseteq Row /\ zones \subseteq Row
  BY <1>1 DEF Init, RowOf, Row, IsPayload, Block, Tx
<1>4. lastBlock \in Block \cup {NoBlock}
  BY <1>1 DEF Init
<1>5. lastFull \in Block \cup {NoBlock}
  <2>1. InitChain \in [1..Len(InitChain) -> Block] /\ Len(InitChain) \in Nat
    OBVIOUS
  <2>2. QED
    BY <2>1, LastPayloadType DEF Init
<1>6. TypeOK
  BY <1>1, <1>3, <1>4, <1>5 DEF Init, TypeOK, NoSigners, NoCheck, Idx
<1>7. ChainLinked
  BY <1>1, <1>2 DEF Init, ChainLinked
<1>8. QED
  BY <1>6, <1>7 DEF IInv

\* The end of check_chain on a linked table bl = 1..m: the tip reloaded is
\* the block at m.
LEMMA CheckChainEndTip ==
    ASSUME NEW m \in 0..MaxIndex, NEW bl \in [1..m -> Block],
           \A j \in 1..m : bl[j].idx = j,
           lastFull \in Block \cup {NoBlock},
           CheckChainEnd(bl)
    PROVE  /\ lastBlock' \in Block \cup {NoBlock}
           /\ Height' = m
           /\ lastBlock' # NoBlock => lastBlock' = bl[m]
           /\ lastFull' \in Block \cup {NoBlock}
           /\ phase' = "run"
           /\ cc' = NoCheck
<1> USE ConstantsAssumption
<1>1. lastBlock' = IF m = 0 THEN NoBlock ELSE bl[m]
  BY TopOfPrefix DEF CheckChainEnd
<1>2. Height' = m
  BY <1>1, NoBlockAssumption DEF Height, HeightOf
<1>3. lastFull' \in Block \cup {NoBlock}
  BY LastPayloadType DEF CheckChainEnd
<1>4. QED
  BY <1>1, <1>2, <1>3 DEF CheckChainEnd

\* The invariant after add_block, from what AddBlockLinked establishes.
LEMMA AddBlockIInv ==
    ASSUME NEW b \in Block, IInv,
           /\ DOMAIN blocks' = 1..b.idx
           /\ b.idx \in 0..MaxIndex
           /\ blocks' \in [DOMAIN blocks' -> Block]
           /\ \A i \in DOMAIN blocks' : blocks'[i].idx = i
           /\ \A i \in DOMAIN blocks' \ {1} : blocks'[i].prev = Hash(blocks'[i - 1])
           /\ domains' \subseteq Row
           /\ zones' \subseteq Row
           /\ lastBlock' = b
           /\ Height' = b.idx
           /\ lastBlock' = blocks'[Height']
           /\ lastFull' \in Block \cup {NoBlock},
           signers' \in [index : 0..MaxIndex, keys : SUBSET Keys],
           fault' \in {"none", "hang", "panic", "originPanic"},
           phase' = phase, cc' = cc
    PROVE  IInv'
<1>1. TypeOK'
  <2>1. DOMAIN blocks' \subseteq Idx
    BY ConstantsAssumption DEF Idx
  <2>2. lastBlock' \in Block \cup {NoBlock}
    OBVIOUS
  <2>3. phase' \in {"run", "check", "down"}
        /\ cc' \in [id : 1..(MaxIndex + 1), last : Block \cup {NoBlock}, full : Block \cup {NoBlock}]
    BY DEF IInv, TypeOK
  <2>4. QED
    BY <2>1, <2>2, <2>3 DEF TypeOK
<1>2. \E n \in 0..MaxIndex : DOMAIN blocks' = 1..n
  OBVIOUS
<1>3. ChainLinked'
  BY <1>2 DEF ChainLinked
<1>4. QED
  BY <1>1, <1>3 DEF IInv

\* check_new_block, and add_block of a Good block, keep the invariant.
LEMMA ReceiveIInv ==
    ASSUME IInv, NEW b \in Candidates, ReceiveBlock(b)
    PROVE  IInv'
<1> USE ConstantsAssumption
<1>1. b \in Block /\ b.idx \in 1..(Height + 1) /\ Height \in 0..MaxIndex
  BY CandidateType, HeightType
<1>2. phase = "run" /\ phase' = phase /\ cc' = cc
  BY DEF ReceiveBlock
<1>3. fault' \in {"none", "hang", "panic", "originPanic"}
  BY DEF ReceiveBlock, CheckFault
<1>4. CASE CheckFault(b, lastBlock, lastFull) # "none"
  BY <1>2, <1>3, <1>4 DEF ReceiveBlock, IInv, TypeOK, ChainLinked, Height, HeightOf
<1>5. CASE CheckFault(b, lastBlock, lastFull) = "none"
  <2>1. signers' \in [index : 0..MaxIndex, keys : SUBSET Keys]
    <3>1. signers' = SignersAfterCheck(b, lastBlock, lastFull)
      BY <1>5 DEF ReceiveBlock
    <3>2. lastFull \in Block \cup {NoBlock} /\ phase # "down"
      BY <1>2 DEF IInv, TypeOK
    <3>3. QED
      BY <1>5, <3>1, <3>2, SignersAfterCheckType
  <2>2. CASE Quality(b) # "Good"
    BY <1>2, <1>3, <1>5, <2>1, <2>2 DEF ReceiveBlock, IInv, TypeOK, ChainLinked, Height, HeightOf
  <2>3. CASE Quality(b) = "Good"
    <3>1. b.idx = Height + 1 /\ (b.idx # 1 => b.prev = Hash(blocks[b.idx - 1]))
      BY <1>1, <1>2, <2>3, GoodExtendsTip
    <3>2. AddBlock(b, blocks, domains, zones)
      BY <1>5, <2>3 DEF ReceiveBlock
    <3>3. DOMAIN blocks = 1..(b.idx - 1)
      <4>1. DOMAIN blocks = 1..Height
        BY <1>2 DEF IInv, ChainLinked
      <4>2. QED
        BY <1>1, <3>1, <4>1
    <3>4. /\ blocks \in [DOMAIN blocks -> Block]
          /\ \A i \in DOMAIN blocks : blocks[i].idx = i
          /\ \A i \in DOMAIN blocks \ {1} : blocks[i].prev = Hash(blocks[i - 1])
          /\ domains \subseteq Row /\ zones \subseteq Row
          /\ lastFull \in Block \cup {NoBlock}
      BY DEF IInv, TypeOK, ChainLinked
    <3>5. /\ DOMAIN blocks' = 1..b.idx
          /\ b.idx \in 0..MaxIndex
          /\ blocks' \in [DOMAIN blocks' -> Block]
          /\ \A i \in DOMAIN blocks' : blocks'[i].idx = i
          /\ \A i \in DOMAIN blocks' \ {1} : blocks'[i].prev = Hash(blocks'[i - 1])
          /\ domains' \subseteq Row
          /\ zones' \subseteq Row
          /\ lastBlock' = b
          /\ Height' = b.idx
          /\ lastBlock' = blocks'[Height']
          /\ lastFull' \in Block \cup {NoBlock}
      BY <1>1, <3>1, <3>2, <3>3, <3>4, AddBlockLinked
    <3>6. QED
      BY <1>1, <1>2, <1>3, <2>1, <3>5, AddBlockIInv
  <2>4. QED
    BY <2>2, <2>3
<1>6. QED
  BY <1>4, <1>5

\* replace_block of an accepted Fork keeps the invariant.
LEMMA ReplaceIInv ==
    ASSUME IInv, NEW b \in Candidates, ReplaceBlock(b)
    PROVE  IInv'
<1> USE ConstantsAssumption
<1>1. b \in Block /\ b.idx \in 1..(Height + 1) /\ Height \in 0..MaxIndex
  BY CandidateType, HeightType
<1>2. phase = "run" /\ phase' = phase /\ cc' = cc /\ fault' = fault
  BY DEF ReplaceBlock, ForkAccepted
<1>3. b.idx \in 1..Height /\ (b.idx # 1 => b.prev = Hash(blocks[b.idx - 1]))
  BY <1>1, <1>2, ForkReplacesStored DEF ReplaceBlock, ForkAccepted
<1> DEFINE bl == TruncBlocks(b.idx)
<1>4. /\ DOMAIN bl = 1..(b.idx - 1)
      /\ bl \in [DOMAIN bl -> Block]
      /\ \A i \in DOMAIN bl : bl[i].idx = i
      /\ \A i \in DOMAIN bl \ {1} : bl[i].prev = Hash(bl[i - 1])
      /\ b.idx # 1 => bl[b.idx - 1] = blocks[b.idx - 1]
  <2>1. DOMAIN blocks = 1..Height
    BY <1>2 DEF IInv, ChainLinked
  <2>2. b.idx \in 1..(Height + 1)
    BY <1>1, <1>3
  <2>3. /\ DOMAIN bl = 1..(b.idx - 1)
        /\ bl \in [1..(b.idx - 1) -> Block]
        /\ \A j \in 1..(b.idx - 1) : bl[j] = blocks[j]
        /\ \A j \in 1..(b.idx - 1) : bl[j].idx = j
        /\ \A j \in 1..(b.idx - 1) \ {1} : bl[j].prev = Hash(bl[j - 1])
    BY <1>1, <2>1, <2>2, TruncLinked DEF IInv, TypeOK, ChainLinked
  <2>4. b.idx # 1 => b.idx - 1 \in 1..(b.idx - 1)
    BY <1>1
  <2>5. QED
    BY <2>3, <2>4
<1>5. b.idx # 1 => b.prev = Hash(bl[b.idx - 1])
  BY <1>3, <1>4
<1>6. TruncRows(domains, b.idx) \subseteq Row /\ TruncRows(zones, b.idx) \subseteq Row
  BY DEF TruncRows, IInv, TypeOK
<1>7. signers' \in [index : 0..MaxIndex, keys : SUBSET Keys]
  BY DEF ReplaceBlock, NoSigners
<1>8. AddBlock(b, bl, TruncRows(domains, b.idx), TruncRows(zones, b.idx))
  BY DEF ReplaceBlock
<1>9. fault' \in {"none", "hang", "panic", "originPanic"} /\ lastFull \in Block \cup {NoBlock}
  BY <1>2 DEF IInv, TypeOK
<1>10. /\ DOMAIN blocks' = 1..b.idx
       /\ b.idx \in 0..MaxIndex
       /\ blocks' \in [DOMAIN blocks' -> Block]
       /\ \A i \in DOMAIN blocks' : blocks'[i].idx = i
       /\ \A i \in DOMAIN blocks' \ {1} : blocks'[i].prev = Hash(blocks'[i - 1])
       /\ domains' \subseteq Row
       /\ zones' \subseteq Row
       /\ lastBlock' = b
       /\ Height' = b.idx
       /\ lastBlock' = blocks'[Height']
       /\ lastFull' \in Block \cup {NoBlock}
  BY <1>1, <1>4, <1>5, <1>6, <1>8, <1>9, AddBlockLinked
<1>11. QED
  BY <1>1, <1>2, <1>7, <1>9, <1>10, AddBlockIInv

\* A restart (init_db and the set-up of check_chain) keeps the invariant.
LEMMA RestartIInv ==
    ASSUME IInv, Restart
    PROVE  IInv'
<1> USE ConstantsAssumption
<1>1. PICK n \in 0..MaxIndex : DOMAIN blocks = 1..n
  BY DEF IInv, ChainLinked
<1>2. blocks \in [1..n -> Block] /\ \A j \in 1..n : blocks[j].idx = j
  BY <1>1 DEF IInv, TypeOK, ChainLinked
<1> DEFINE top   == TopBlock(blocks)
           full0 == IF top = NoBlock \/ IsPayload(top) THEN top
                    ELSE LastPayloadIn(blocks, DOMAIN blocks)
           start == IF n > CheckBlocks THEN n - CheckBlocks + 1 ELSE 1
           last  == IF start > 1 THEN blocks[start - 1] ELSE NoBlock
<1>3. top = IF n = 0 THEN NoBlock ELSE blocks[n]
  BY <1>1, TopOfPrefix
<1>4. HeightOf(top) = n /\ top \in Block \cup {NoBlock}
  BY <1>2, <1>3, NoBlockAssumption DEF HeightOf
<1>5. full0 \in Block \cup {NoBlock}
  BY <1>1, <1>2, <1>4, LastPayloadType
<1>6. start \in 1..(MaxIndex + 1) /\ last \in Block \cup {NoBlock}
  BY <1>2
<1>7. last # NoBlock => last.idx \in Nat
  BY <1>6 DEF Block, Idx
<1>8. (IF last = NoBlock \/ IsPayload(last) THEN last
       ELSE LastFullBefore(full0, last.idx)) \in Block \cup {NoBlock}
  <2>1. \A x : LastPayloadIn(blocks, {i \in DOMAIN blocks : i < x}) \in Block \cup {NoBlock}
    BY <1>1, <1>2, LastPayloadType
  <2>2. QED
    BY <1>5, <1>6, <2>1 DEF LastFullBefore
<1>9. /\ lastBlock' = top /\ lastFull' = full0
      /\ signers' = NoSigners /\ fault' = "none" /\ phase' = "check"
      /\ cc' = [id |-> start, last |-> last,
                full |-> IF last = NoBlock \/ IsPayload(last) THEN last
                         ELSE LastFullBefore(full0, last.idx)]
      /\ UNCHANGED <<blocks, domains, zones>>
  BY <1>4 DEF Restart
<1>10. Height' = n
  BY <1>4, <1>9 DEF Height
<1>11. TypeOK'
  BY <1>4, <1>5, <1>6, <1>8, <1>9 DEF IInv, TypeOK, NoSigners
<1>12. ChainLinked'
  BY <1>1, <1>3, <1>9, <1>10 DEF IInv, ChainLinked
<1>13. QED
  BY <1>11, <1>12 DEF IInv

\* check_chain's loop ending above the height keeps the invariant.
LEMMA CheckChainDoneIInv ==
    ASSUME IInv, CheckChainDone
    PROVE  IInv'
<1> USE ConstantsAssumption
<1>1. Height \in 0..MaxIndex /\ DOMAIN blocks = 1..Height
  BY HeightType DEF CheckChainDone, IInv, ChainLinked
<1>2. blocks \in [1..Height -> Block] /\ \A j \in 1..Height : blocks[j].idx = j
  BY <1>1 DEF IInv, TypeOK, ChainLinked
<1>3. CheckChainEnd(blocks) /\ lastFull \in Block \cup {NoBlock}
  BY DEF CheckChainDone, IInv, TypeOK
<1>4. /\ lastBlock' \in Block \cup {NoBlock}
      /\ Height' = Height
      /\ lastBlock' # NoBlock => lastBlock' = blocks[Height]
      /\ lastFull' \in Block \cup {NoBlock}
      /\ phase' = "run" /\ cc' = NoCheck
  BY <1>1, <1>2, <1>3, CheckChainEndTip
<1>5. QED
  BY <1>1, <1>4 DEF CheckChainDone, IInv, TypeOK, ChainLinked, NoCheck

\* check_chain's check of block 1 against the origin keeps the invariant.
LEMMA CheckChainGenesisIInv ==
    ASSUME IInv, CheckChainGenesis
    PROVE  IInv'
<1> USE ConstantsAssumption
<1>1. cc.id = 1 /\ 1 \in DOMAIN blocks
  BY HeightType DEF CheckChainGenesis, IInv, ChainLinked
<1>2. blocks[1] \in Block
  BY <1>1 DEF IInv, TypeOK
<1>3. cc' \in [id : 1..(MaxIndex + 1), last : Block \cup {NoBlock}, full : Block \cup {NoBlock}]
  <2>1. cc \in [id : 1..(MaxIndex + 1), last : Block \cup {NoBlock}, full : Block \cup {NoBlock}]
    BY DEF IInv, TypeOK
  <2>2. CASE Hash(blocks[1]) # Origin
    BY <2>1, <2>2 DEF CheckChainGenesis
  <2>3. CASE Hash(blocks[1]) = Origin
    <3>1. cc' = [cc EXCEPT !.id = 2, !.last = blocks[1]]
      BY <2>3 DEF CheckChainGenesis
    <3>2. 2 \in 1..(MaxIndex + 1)
      OBVIOUS
    <3>3. QED
      BY <1>2, <2>1, <3>1, <3>2
  <2>4. QED
    BY <2>2, <2>3
<1>4. fault' \in {"none", "hang", "panic", "originPanic"}
  BY DEF CheckChainGenesis
<1>5. QED
  BY <1>3, <1>4 DEF CheckChainGenesis, IInv, TypeOK, ChainLinked, Height, HeightOf

\* check_chain's check of a block above 1 keeps the invariant: a Good
\* block moves the loop on, any other verdict cuts the tables below it.
LEMMA CheckChainBlockIInv ==
    ASSUME IInv, CheckChainBlock
    PROVE  IInv'
<1> USE ConstantsAssumption
<1> DEFINE b == blocks[cc.id]
<1>1. phase = "check" /\ cc.id \in 2..Height /\ Height \in 0..MaxIndex
  BY HeightType DEF CheckChainBlock, IInv, TypeOK
<1>2. DOMAIN blocks = 1..Height
  BY <1>1 DEF IInv, ChainLinked
<1>3. b \in Block /\ b.idx = cc.id
  BY <1>1, <1>2 DEF IInv, TypeOK, ChainLinked
<1>4. fault' = CheckFault(b, cc.last, cc.full)
  BY DEF CheckChainBlock
<1>5. fault' \in {"none", "hang", "panic", "originPanic"}
  BY <1>4 DEF CheckFault
<1>6. CASE fault' # "none"
  BY <1>5, <1>6 DEF CheckChainBlock, IInv, TypeOK, ChainLinked, Height, HeightOf
<1>7. CASE fault' = "none"
  <2>1. signers' \in [index : 0..MaxIndex, keys : SUBSET Keys]
    <3>1. signers' = SignersAfterCheck(b, cc.last, cc.full)
      BY <1>7 DEF CheckChainBlock
    <3>2. cc.full \in Block \cup {NoBlock} /\ phase # "down"
      BY <1>1 DEF IInv, TypeOK
    <3>3. CheckFault(b, cc.last, cc.full) = "none"
      BY <1>4, <1>7
    <3>4. QED
      BY <3>1, <3>2, <3>3, SignersAfterCheckType
  <2>2. CASE QualityIn(b, cc.last, cc.full) = "Good"
    <3>1. /\ lastFull' = IF IsPayload(b) THEN b ELSE lastFull
          /\ cc' = [id |-> cc.id + 1, last |-> b,
                    full |-> IF IsPayload(b) THEN b ELSE cc.full]
          /\ UNCHANGED <<blocks, domains, zones, lastBlock, phase>>
      BY <1>7, <2>2 DEF CheckChainBlock
    <3>2. cc' \in [id : 1..(MaxIndex + 1), last : Block \cup {NoBlock}, full : Block \cup {NoBlock}]
      BY <1>1, <1>3, <3>1 DEF IInv, TypeOK
    <3>3. lastFull' \in Block \cup {NoBlock}
      BY <1>3, <3>1 DEF IInv, TypeOK
    <3>4. QED
      BY <1>5, <2>1, <3>1, <3>2, <3>3 DEF IInv, TypeOK, ChainLinked, Height, HeightOf
  <2>3. CASE QualityIn(b, cc.last, cc.full) # "Good"
    <3> DEFINE bl == TruncBlocks(cc.id)
    <3>1. /\ blocks' = bl
          /\ domains' = TruncRows(domains, cc.id)
          /\ zones' = TruncRows(zones, cc.id)
          /\ CheckChainEnd(bl)
      BY <1>7, <2>3 DEF CheckChainBlock
    <3>2. /\ cc.id - 1 \in 0..MaxIndex
          /\ DOMAIN bl = 1..(cc.id - 1)
          /\ bl \in [1..(cc.id - 1) -> Block]
          /\ \A j \in 1..(cc.id - 1) : bl[j].idx = j
          /\ \A j \in 1..(cc.id - 1) \ {1} : bl[j].prev = Hash(bl[j - 1])
      <4>1. cc.id \in 1..(Height + 1)
        BY <1>1
      <4>2. QED
        BY <1>1, <1>2, <4>1, TruncLinked DEF IInv, TypeOK, ChainLinked
    <3>3. lastFull \in Block \cup {NoBlock}
      BY DEF IInv, TypeOK
    <3>4. /\ lastBlock' \in Block \cup {NoBlock}
          /\ Height' = cc.id - 1
          /\ lastBlock' # NoBlock => lastBlock' = bl[cc.id - 1]
          /\ lastFull' \in Block \cup {NoBlock}
          /\ phase' = "run" /\ cc' = NoCheck
      BY <3>1, <3>2, <3>3, CheckChainEndTip
    <3>5. domains' \subseteq Row /\ zones' \subseteq Row
      BY <3>1 DEF TruncRows, IInv, TypeOK
    <3>6. TypeOK'
      BY <1>5, <2>1, <3>1, <3>2, <3>4, <3>5 DEF TypeOK, NoCheck, Idx
    <3>7. ChainLinked'
      BY <3>1, <3>2, <3>4 DEF ChainLinked
    <3>8. QED
      BY <3>6, <3>7 DEF IInv
  <2>4. QED
    BY <2>2, <2>3
<1>8. QED
  BY <1>6, <1>7

\* A truncation starts at a stored index (or one above the table).
LEMMA TruncationStartsInRange ==
    ASSUME IInv, NEW i \in TruncationStarts
    PROVE  i \in 1..(Height + 1) /\ phase # "down"
<1>1. CASE i \in {b.idx : b \in {c \in Candidates : ForkAccepted(c)}}
  <2>1. PICK b \in Candidates : ForkAccepted(b) /\ i = b.idx
    BY <1>1
  <2>2. b \in Block /\ b.idx \in 1..(Height + 1) /\ phase = "run"
    BY <2>1, CandidateType DEF ForkAccepted
  <2>3. b.idx \in 1..Height
    BY <2>1, <2>2, ForkReplacesStored DEF ForkAccepted
  <2>4. QED
    BY <2>1, <2>2, <2>3, HeightType
<1>2. CASE i \in {j \in {cc.id} : CheckChainRejects}
  <2>1. i = cc.id /\ cc.id \in 2..Height /\ phase = "check"
    BY <1>2, HeightType DEF CheckChainRejects, IInv, TypeOK
  <2>2. QED
    BY <2>1, HeightType
<1>3. QED
  BY <1>1, <1>2 DEF TruncationStarts

\* A stop of the process inside truncate_db_from_block keeps the blocks
\* table linked: the blocks go first.
LEMMA TruncationTornIInv ==
    ASSUME IInv, TruncationTorn
    PROVE  IInv'
<1> USE ConstantsAssumption
<1>1. PICK i \in TruncationStarts, k \in {1, 2} : TornTruncate(i, k)
  BY DEF TruncationTorn
<1>2. i \in 1..(Height + 1) /\ DOMAIN blocks = 1..Height /\ Height \in 0..MaxIndex
  BY TruncationStartsInRange, HeightType DEF IInv, ChainLinked
<1> DEFINE bl == TruncBlocks(i)
<1>3. /\ i - 1 \in 0..MaxIndex
      /\ DOMAIN bl = 1..(i - 1)
      /\ bl \in [1..(i - 1) -> Block]
      /\ \A j \in 1..(i - 1) : bl[j].idx = j
      /\ \A j \in 1..(i - 1) \ {1} : bl[j].prev = Hash(bl[j - 1])
  BY <1>2, TruncLinked DEF IInv, TypeOK, ChainLinked
<1>4. blocks' = bl /\ domains' \subseteq Row /\ zones' \subseteq Row
  BY <1>1 DEF TornTruncate, TruncRows, IInv, TypeOK
<1>5. /\ phase' = "down" /\ lastBlock' = NoBlock /\ lastFull' = NoBlock
      /\ signers' = NoSigners /\ cc' = NoCheck /\ fault' = fault
  BY DEF TruncationTorn, ProcessStops
<1>6. TypeOK'
  BY <1>3, <1>4, <1>5 DEF IInv, TypeOK, NoSigners, NoCheck, Idx
<1>7. ChainLinked'
  BY <1>3, <1>4, <1>5 DEF ChainLinked
<1>8. QED
  BY <1>6, <1>7 DEF IInv

LEMMA NextIInv == IInv /\ [Next]_vars => IInv'
<1> SUFFICES ASSUME IInv, [Next]_vars PROVE IInv'
  OBVIOUS
<1>1. CASE UNCHANGED vars
  BY <1>1 DEF vars, IInv, TypeOK, ChainLinked, Height, HeightOf
<1>2. CASE \E b \in Candidates : ReceiveBlock(b)
  BY <1>2, ReceiveIInv
<1>3. CASE \E b \in Candidates : ReplaceBlock(b)
  BY <1>3, ReplaceIInv
<1>4. CASE Restart
  BY <1>4, RestartIInv
<1>5. CASE CheckChainDone
  BY <1>5, CheckChainDoneIInv
<1>6. CASE CheckChainGenesis
  BY <1>6, CheckChainGenesisIInv
<1>7. CASE CheckChainBlock
  BY <1>7, CheckChainBlockIInv
<1>8. CASE TruncationTorn
  BY <1>8, TruncationTornIInv
<1>9. QED
  BY <1>1, <1>2, <1>3, <1>4, <1>5, <1>6, <1>7, <1>8 DEF Next

-----------------------------------------------------------------------------
(* Theorems *)

\* Every reachable state of the chain engine is well typed.
THEOREM TypeCorrect == Spec => []TypeOK
<1>1. Init => IInv
  BY InitIInv
<1>2. IInv /\ [Next]_vars => IInv'
  BY NextIInv
<1>3. IInv => TypeOK
  BY DEF IInv
<1>4. QED
  BY <1>1, <1>2, <1>3, PTL DEF Spec

\* In every reachable state the blocks table holds 1..n without gaps and
\* each block carries its predecessor's hash, and while the process runs
\* last_block is the top block: check_new_block, add_block, replace_block,
\* restarts, check_chain and a stop inside truncate_db_from_block keep the
\* chain linked for every candidate the network delivers.
THEOREM ChainAlwaysLinked == Spec => []ChainLinked
<1>1. Init => IInv
  BY InitIInv
<1>2. IInv /\ [Next]_vars => IInv'
  BY NextIInv
<1>3. IInv => ChainLinked
  BY DEF IInv
<1>4. QED
  BY <1>1, <1>2, <1>3, PTL DEF Spec
=============================================================================
