---------------------------- MODULE SignersProofs ----------------------------
(***************************************************************************)
(* Proof that the signers cache of get_block_signers never holds a stale   *)
(* election for a stored payload block (SignersCacheFresh).                *)
(*                                                                         *)
(* SignersCacheFresh is not inductive.  The cache is filled with the       *)
(* election of the last_full_block argument F of check_block at index      *)
(* F.idx, so the argument itself must be the payload block stored there   *)
(* whenever a payload block is stored there (FullStored), and the cache    *)
(* must sit below every index the table can still gain a block at without  *)
(* replace_block clearing it (CacheBelowTip): at most the height while the *)
(* engine serves, below check_chain's cursor while it checks, and empty    *)
(* while the process is down.                                              *)
(***************************************************************************)
EXTENDS ChainProofs

\* A last_full_block argument F agrees with the table at its index: a
\* payload block stored at F.idx is F itself.
FullStored(F) ==
    (F # NoBlock /\ F.idx \in DOMAIN blocks /\ IsPayload(blocks[F.idx])) => blocks[F.idx] = F

\* Where the cache may point.
CacheBelowTip ==
    /\ phase = "run" => cc = NoCheck /\ (signers.keys # {} => signers.index <= Height)
    /\ phase = "check" => /\ cc.id <= Height + 1
                          /\ signers.keys # {} => signers.index < cc.id
                          /\ cc.full # NoBlock => cc.full.idx < cc.id
    /\ phase = "down" => signers.keys = {}

SInv ==
    /\ IInv
    /\ FullStored(lastFull)
    /\ FullStored(cc.full)
    /\ CacheBelowTip
    /\ SignersCacheFresh

\* The blocks table keeps its indices 1..m and the blocks stored there.
KeptUpTo(m) ==
    \A j \in 1..m : /\ j \in DOMAIN blocks' <=> j \in DOMAIN blocks
                    /\ j \in DOMAIN blocks => blocks'[j] = blocks[j]

-----------------------------------------------------------------------------
(* Lemmas about the election and the last-payload query *)

\* The election of a payload block F reads only the blocks below F.idx.
LEMMA ElectedFrame ==
    ASSUME NEW F \in Block, KeptUpTo(F.idx - 1),
           \A j \in 1..(F.idx - 1) : j \in DOMAIN blocks
    PROVE  Elected(F)' = Elected(F)
<1>1. F.idx \in Nat /\ F.tail \in Nat
  <2>1. F.idx \in 1..MaxIndex /\ F.tail \in Tails
    BY DEF Block, Idx
  <2>2. F.idx \in Nat
    BY <2>1, ConstantsAssumption
  <2>3. F.tail \in Nat
    BY <2>1, ConstantsAssumption
  <2>4. QED
    BY <2>2, <2>3
<1>2. \A c \in 1..(F.idx - 1) : VisitIdx(F, c) \in 1..(F.idx - 1)
  <2> SUFFICES ASSUME NEW c \in 1..(F.idx - 1) PROVE VisitIdx(F, c) \in 1..(F.idx - 1)
    OBVIOUS
  <2>1. F.idx - 1 \in Nat \ {0} /\ F.tail * c \in Nat
    BY <1>1
  <2> DEFINE x == F.tail * c
  <2> DEFINE w == F.idx - 1
  <2>2. x % w \in 0..(w - 1)
    BY <2>1, ModRange
  <2>3. (F.tail * c) % (F.idx - 1) \in 0..(F.idx - 2)
    BY <1>1, <2>2
  <2>4. QED
    BY <1>1, <2>3 DEF VisitIdx
<1>3. \A c \in 1..(F.idx - 1) : blocks'[VisitIdx(F, c)] = blocks[VisitIdx(F, c)]
  BY <1>2 DEF KeptUpTo
<1>4. VisitedKeys(F)' = VisitedKeys(F)
  BY <1>3 DEF VisitedKeys
<1>5. \A k : FirstVisit(F, k)' = FirstVisit(F, k)
  <2> SUFFICES ASSUME NEW k PROVE FirstVisit(F, k)' = FirstVisit(F, k)
    OBVIOUS
  <2>1. \A c \in 1..(F.idx - 1) :
           (/\ blocks'[VisitIdx(F, c)].key = k
            /\ \A d \in 1..(c - 1) : blocks'[VisitIdx(F, d)].key # k)
           <=> (/\ blocks[VisitIdx(F, c)].key = k
                /\ \A d \in 1..(c - 1) : blocks[VisitIdx(F, d)].key # k)
    BY <1>1, <1>3
  <2>2. QED
    BY <2>1, Zenon DEF FirstVisit
<1>6. QED
  BY <1>4, <1>5 DEF Elected

\* The last payload block among indices S of a linked table is stored at
\* its own index in S, or there is none.
LEMMA LastPayloadStored ==
    ASSUME NEW n \in Nat, NEW bl, DOMAIN bl = 1..n,
           \A i \in DOMAIN bl : bl[i].idx = i,
           NEW S \in SUBSET (1..n)
    PROVE  LET F == LastPayloadIn(bl, S)
           IN  F = NoBlock \/ (F.idx \in S /\ bl[F.idx] = F /\ IsPayload(F))
<1> DEFINE P == {i \in S : IsPayload(bl[i])}
<1>1. CASE P = {}
  BY <1>1 DEF LastPayloadIn
<1>2. CASE P # {}
  <2>1. \E i \in P : \A j \in P : j <= i
    BY <1>2, MaxExists
  <2>2. (CHOOSE i \in P : \A j \in P : j <= i) \in P
    BY <2>1
  <2> DEFINE ch == CHOOSE i \in P : \A j \in P : j <= i
  <2>3. LastPayloadIn(bl, S) = bl[ch]
    BY <1>2 DEF LastPayloadIn
  <2>4. ch \in S /\ bl[ch].idx = ch /\ IsPayload(bl[ch])
    BY <2>2
  <2>5. QED
    BY <2>3, <2>4
<1>3. QED
  BY <1>1, <1>2

\* A block stored at its own index agrees with the table.
LEMMA StoredFullStored ==
    ASSUME NEW F,
           F = NoBlock \/ (F.idx \in DOMAIN blocks /\ blocks[F.idx] = F)
    PROVE  FullStored(F)
BY DEF FullStored

-----------------------------------------------------------------------------
(* The cache across a step *)

\* A cache entry below a kept part of the table stays fresh.
LEMMA CacheKept ==
    ASSUME IInv, IInv', SignersCacheFresh, NEW m \in Nat, KeptUpTo(m),
           signers' = signers,
           signers.keys # {} => signers.index <= m
    PROVE  SignersCacheFresh'
<1> SUFFICES ASSUME (signers.keys # {} /\ signers.index \in DOMAIN blocks
                     /\ IsPayload(blocks[signers.index]))'
             PROVE  (signers.keys = Elected(blocks[signers.index]))'
  BY DEF SignersCacheFresh
<1> DEFINE i == signers.index
<1>1. i \in 1..m
  BY ConstantsAssumption DEF IInv, TypeOK, ChainLinked, Block, Idx
<1>0. PICK G : G = blocks[i]
  OBVIOUS
<1>2. i \in DOMAIN blocks /\ blocks'[i] = G
  BY <1>0, <1>1 DEF KeptUpTo
<1>3. signers.keys = Elected(G)
  BY <1>0, <1>2 DEF SignersCacheFresh
<1>4. G \in Block /\ G.idx = i
  BY <1>0, <1>2 DEF IInv, TypeOK, ChainLinked
<1>5. KeptUpTo(G.idx - 1)
  BY <1>1, <1>4 DEF KeptUpTo
<1>6. \A j \in 1..(G.idx - 1) : j \in DOMAIN blocks
  <2>1. PICK n \in 0..MaxIndex : DOMAIN blocks = 1..n
    BY DEF IInv, ChainLinked
  <2>2. QED
    BY <1>2, <1>4, <2>1
<1>7. Elected(G)' = Elected(G)
  BY <1>4, <1>5, <1>6, ElectedFrame
<1>8. QED
  BY <1>2, <1>3, <1>7

\* check_block(b, lb, F) with an argument F that agrees with the table,
\* over a step that keeps the table up to m, leaves the cache fresh.
LEMMA CacheAfterCheck ==
    ASSUME IInv, IInv', SignersCacheFresh, NEW b, NEW lb, NEW F \in Block \cup {NoBlock},
           FullStored(F), NEW m \in Nat, KeptUpTo(m),
           signers' = SignersAfterCheck(b, lb, F),
           ElectionRuns(b, lb, F) => F.idx <= m,
           ~ElectionRuns(b, lb, F) => (signers.keys # {} => signers.index <= m)
    PROVE  SignersCacheFresh'
<1>1. CASE ~ElectionRuns(b, lb, F)
  BY <1>1, CacheKept DEF SignersAfterCheck
<1>2. CASE ElectionRuns(b, lb, F)
  <2> SUFFICES ASSUME (signers.keys # {} /\ signers.index \in DOMAIN blocks
                       /\ IsPayload(blocks[signers.index]))'
               PROVE  (signers.keys = Elected(blocks[signers.index]))'
    BY DEF SignersCacheFresh
  <2>1. F \in Block /\ signers' = [index |-> F.idx, keys |-> Elected(F)]
    BY <1>2 DEF SignersAfterCheck, ElectionRuns, SignerCheckCalled
  <2>2. F.idx \in 1..m
    BY <1>2, <2>1 DEF Block, Idx
  <2>3. F.idx \in DOMAIN blocks /\ blocks'[F.idx] = blocks[F.idx]
    BY <2>1, <2>2 DEF KeptUpTo
  <2>4. blocks[F.idx] = F
    <3>1. IsPayload(blocks[F.idx])
      BY <2>1, <2>3
    <3>2. F # NoBlock
      BY <2>1, NoBlockAssumption
    <3>3. QED
      BY <2>3, <3>1, <3>2, Zenon DEF FullStored
  <2>5. KeptUpTo(F.idx - 1)
    BY <2>2 DEF KeptUpTo
  <2>6. \A j \in 1..(F.idx - 1) : j \in DOMAIN blocks
    <3>1. PICK n \in 0..MaxIndex : DOMAIN blocks = 1..n
      BY DEF IInv, ChainLinked
    <3>2. QED
      BY <2>3, <3>1
  <2>7. Elected(F)' = Elected(F)
    BY <2>1, <2>5, <2>6, ElectedFrame
  <2>8. QED
    BY <2>1, <2>3, <2>4, <2>7
<1>3. QED
  BY <1>1, <1>2

\* An argument that agrees with the table keeps agreeing when the table
\* keeps its first m blocks and gains no other payload block at F.idx.
LEMMA FullStoredKept ==
    ASSUME NEW F, FullStored(F), NEW m, KeptUpTo(m),
           (F # NoBlock /\ F.idx \in DOMAIN blocks' /\ IsPayload(blocks'[F.idx])) => F.idx \in 1..m
    PROVE  FullStored(F)'
BY DEF FullStored, KeptUpTo

-----------------------------------------------------------------------------
(* The actions *)

\* check_new_block, and add_block of a Good block, keep SInv: the cache is
\* filled from last_full_block, stored below the new tip.
LEMMA ReceiveSInv ==
    ASSUME SInv, NEW b \in Candidates, ReceiveBlock(b)
    PROVE  SInv'
<1> USE ConstantsAssumption
<1>1. IInv'
  BY ReceiveIInv DEF SInv
<1>2. b \in Block /\ b.idx \in 1..(Height + 1) /\ Height \in 0..MaxIndex
  BY CandidateType, HeightType DEF SInv
<1>3. phase = "run" /\ phase' = "run" /\ cc' = cc /\ cc = NoCheck
  BY DEF ReceiveBlock, SInv, CacheBelowTip
<1>4. DOMAIN blocks = 1..Height /\ lastFull \in Block \cup {NoBlock}
  BY <1>3 DEF SInv, IInv, ChainLinked, TypeOK
<1>5. FullStored(cc.full)'
  BY <1>3, NoBlockAssumption DEF FullStored, NoCheck
<1>0. PICK h, F : h \in Nat /\ h = Height /\ F = lastFull
  BY <1>2
<1>6. CASE CheckFault(b, lastBlock, lastFull) # "none"
  <2>1. UNCHANGED <<blocks, lastBlock, lastFull, signers>>
    BY <1>6 DEF ReceiveBlock
  <2>2. KeptUpTo(Height)
    BY <2>1 DEF KeptUpTo
  <2>3. SignersCacheFresh'
    BY <1>0, <1>1, <1>3, <2>1, <2>2, CacheKept DEF SInv, CacheBelowTip
  <2>4. CacheBelowTip'
    BY <1>3, <2>1 DEF SInv, CacheBelowTip, Height, HeightOf
  <2>5. FullStored(lastFull)'
    BY <2>1 DEF SInv, FullStored
  <2>6. QED
    BY <1>1, <1>5, <2>3, <2>4, <2>5 DEF SInv
<1>7. CASE CheckFault(b, lastBlock, lastFull) = "none"
  <2>1. signers' = SignersAfterCheck(b, lastBlock, lastFull)
    BY <1>7 DEF ReceiveBlock
  <2>2. ElectionRuns(b, lastBlock, lastFull) => lastFull \in Block /\ lastFull.idx \in 1..Height
    BY <1>2, <1>4 DEF ElectionRuns, SignerCheckCalled, Block, Idx
  <2>3. signers'.keys # {} => signers'.index \in 0..Height
    <3>1. CASE ElectionRuns(b, lastBlock, lastFull)
      BY <2>1, <2>2, <3>1 DEF SignersAfterCheck
    <3>2. CASE ~ElectionRuns(b, lastBlock, lastFull)
      BY <1>3, <2>1, <3>2 DEF SignersAfterCheck, SInv, CacheBelowTip, IInv, TypeOK
    <3>3. QED
      BY <3>1, <3>2
  <2>4. CASE Quality(b) # "Good"
    <3>1. UNCHANGED <<blocks, lastBlock, lastFull>>
      BY <1>7, <2>4 DEF ReceiveBlock
    <3>2. KeptUpTo(Height)
      BY <3>1 DEF KeptUpTo
    <3>3. SignersCacheFresh'
      BY <1>0, <1>1, <1>3, <1>4, <2>1, <2>2, <3>2, CacheAfterCheck DEF SInv, CacheBelowTip
    <3>4. CacheBelowTip'
      BY <1>3, <2>3, <3>1 DEF CacheBelowTip, Height, HeightOf
    <3>5. FullStored(lastFull)'
      BY <3>1 DEF SInv, FullStored
    <3>6. QED
      BY <1>1, <1>5, <3>3, <3>4, <3>5 DEF SInv
  <2>5. CASE Quality(b) = "Good"
    <3>1. b.idx = Height + 1
      BY <1>2, <1>3, <2>5, GoodExtendsTip DEF SInv
    <3>2. AddBlock(b, blocks, domains, zones)
      BY <1>7, <2>5 DEF ReceiveBlock
    <3>3. /\ blocks' = [i \in 1..(Height + 1) |-> IF i = b.idx THEN b ELSE blocks[i]]
          /\ lastFull' = IF IsPayload(b) THEN b ELSE lastFull
          /\ Height' = Height + 1
      <4>1. b.idx \notin DOMAIN blocks
        BY <1>2, <1>4, <3>1
      <4>2. blocks' = [i \in DOMAIN blocks \cup {b.idx} |-> IF i = b.idx THEN b ELSE blocks[i]]
        BY <3>2, <4>1 DEF AddBlock
      <4>3. DOMAIN blocks \cup {b.idx} = 1..(Height + 1)
        BY <1>2, <1>4, <3>1
      <4>4. lastBlock' = b /\ lastFull' = IF IsPayload(b) THEN b ELSE lastFull
        BY <3>2 DEF AddBlock
      <4>5. Height' = b.idx
        BY <1>2, <4>4, NoBlockAssumption DEF Height, HeightOf
      <4>6. QED
        BY <3>1, <4>2, <4>3, <4>4, <4>5
    <3>4. KeptUpTo(Height)
      BY <1>2, <1>4, <3>1, <3>3 DEF KeptUpTo
    <3>5. SignersCacheFresh'
      BY <1>0, <1>1, <1>3, <1>4, <2>1, <2>2, <3>4, CacheAfterCheck DEF SInv, CacheBelowTip
    <3>6. CacheBelowTip'
      BY <1>2, <1>3, <2>3, <3>3 DEF CacheBelowTip
    <3>7. FullStored(lastFull)'
      <4>1. CASE IsPayload(b)
        BY <3>1, <3>3, <4>1 DEF FullStored
      <4>2. CASE ~IsPayload(b)
        <5>1. PICK L : L = lastFull
          OBVIOUS
        <5>2. FullStored(L)'
          <6>1. (L # NoBlock /\ L.idx \in DOMAIN blocks' /\ IsPayload(blocks'[L.idx])) => L.idx \in 1..Height
            BY <1>2, <3>1, <3>3, <4>2
          <6>2. QED
            BY <5>1, <3>4, <6>1, FullStoredKept DEF SInv
        <5>3. QED
          BY <3>3, <4>2, <5>1, <5>2
      <4>3. QED
        BY <4>1, <4>2
    <3>8. QED
      BY <1>1, <1>5, <3>5, <3>6, <3>7 DEF SInv
  <2>6. QED
    BY <2>4, <2>5
<1>8. QED
  BY <1>6, <1>7

\* replace_block clears the cache; last_full_block is the Fork when it is a
\* payload block, and otherwise stays below it or above the new table.
LEMMA ReplaceSInv ==
    ASSUME SInv, NEW b \in Candidates, ReplaceBlock(b)
    PROVE  SInv'
<1> USE ConstantsAssumption
<1>1. IInv'
  BY ReplaceIInv DEF SInv
<1>2. b \in Block /\ b.idx \in 1..(Height + 1) /\ Height \in 0..MaxIndex
  BY CandidateType, HeightType DEF SInv
<1>3. phase = "run" /\ phase' = "run" /\ cc' = cc /\ cc = NoCheck /\ signers' = NoSigners
  BY DEF ReplaceBlock, ForkAccepted, SInv, CacheBelowTip
<1>4. b.idx \in 1..Height /\ DOMAIN blocks = 1..Height
  BY <1>2, <1>3, ForkReplacesStored DEF ReplaceBlock, ForkAccepted, SInv, IInv, ChainLinked
<1>5. SignersCacheFresh' /\ CacheBelowTip' /\ FullStored(cc.full)'
  BY <1>3, NoBlockAssumption DEF SignersCacheFresh, CacheBelowTip, NoSigners, FullStored, NoCheck
<1> DEFINE bl == TruncBlocks(b.idx)
<1>6. DOMAIN bl = 1..(b.idx - 1) /\ \A j \in 1..(b.idx - 1) : bl[j] = blocks[j]
  BY <1>2, <1>4 DEF TruncBlocks
<1>7. AddBlock(b, bl, TruncRows(domains, b.idx), TruncRows(zones, b.idx))
  BY DEF ReplaceBlock
<1>8. /\ blocks' = [i \in DOMAIN bl \cup {b.idx} |-> IF i = b.idx THEN b ELSE bl[i]]
      /\ lastFull' = IF IsPayload(b) THEN b ELSE lastFull
  <2>1. b.idx \notin DOMAIN bl
    BY <1>6
  <2>2. QED
    BY <1>7, <2>1 DEF AddBlock
<1>9. DOMAIN blocks' = 1..b.idx /\ blocks'[b.idx] = b
  BY <1>2, <1>6, <1>8
<1>10. KeptUpTo(b.idx - 1)
  BY <1>2, <1>4, <1>6, <1>8, <1>9 DEF KeptUpTo
<1>11. FullStored(lastFull)'
  <2>1. CASE IsPayload(b)
    BY <1>8, <1>9, <2>1 DEF FullStored
  <2>2. CASE ~IsPayload(b)
    <3>0. PICK F : F = lastFull
      OBVIOUS
    <3>1. PICK m \in Nat : m = b.idx - 1
      BY <1>2
    <3>2. (F # NoBlock /\ F.idx \in DOMAIN blocks' /\ IsPayload(blocks'[F.idx])) => F.idx \in 1..m
      BY <1>2, <1>9, <2>2, <3>0, <3>1
    <3>3. FullStored(F)'
      BY <1>10, <3>0, <3>1, <3>2, FullStoredKept DEF SInv
    <3>4. QED
      BY <1>8, <2>2, <3>0, <3>3
  <2>3. QED
    BY <2>1, <2>2
<1>12. QED
  BY <1>1, <1>5, <1>11 DEF SInv

\* A stop inside truncate_db_from_block empties the process's memory.
LEMMA TruncationTornSInv ==
    ASSUME SInv, TruncationTorn
    PROVE  SInv'
<1>1. IInv'
  BY TruncationTornIInv DEF SInv
<1>2. /\ phase' = "down" /\ lastFull' = NoBlock
      /\ signers' = NoSigners /\ cc' = NoCheck
  BY DEF TruncationTorn, ProcessStops
<1>3. QED
  BY <1>1, <1>2 DEF SInv, SignersCacheFresh, CacheBelowTip, NoSigners, FullStored, NoCheck

\* A restart empties the cache and loads last_full_block, and check_chain's
\* own copy of it, from the table, below the loop's first index.
LEMMA RestartSInv ==
    ASSUME SInv, Restart
    PROVE  SInv'
<1> USE ConstantsAssumption
<1>1. IInv'
  BY RestartIInv DEF SInv
<1>2. PICK n : n \in 0..MaxIndex /\ DOMAIN blocks = 1..n
  BY DEF SInv, IInv, ChainLinked
<1>3. \A j \in 1..n : blocks[j].idx = j /\ blocks[j] \in Block
  BY <1>2 DEF SInv, IInv, ChainLinked, TypeOK
<1> DEFINE Stored(F) == F = NoBlock \/ (F.idx \in DOMAIN blocks /\ blocks[F.idx] = F)
<1>4. PICK top : top = TopBlock(blocks)
  OBVIOUS
<1>5. top = IF n = 0 THEN NoBlock ELSE blocks[n]
  BY <1>2, <1>4, TopOfPrefix
<1>6. PICK full0 : full0 = IF top = NoBlock \/ IsPayload(top) THEN top
                           ELSE LastPayloadIn(blocks, DOMAIN blocks)
  OBVIOUS
<1>7. PICK start : /\ start = IF n > CheckBlocks THEN n - CheckBlocks + 1 ELSE 1
                   /\ start \in 1..(n + 1)
  BY <1>2
<1>8. PICK last : last = IF start > 1 THEN blocks[start - 1] ELSE NoBlock
  OBVIOUS
<1>9. PICK full1 : full1 = IF last = NoBlock \/ IsPayload(last) THEN last
                           ELSE LastFullBefore(full0, last.idx)
  OBVIOUS
<1>10. HeightOf(top) = n
  BY <1>2, <1>3, <1>5, NoBlockAssumption DEF HeightOf
<1>11. /\ lastFull' = full0 /\ signers' = NoSigners /\ phase' = "check"
       /\ cc' = [id |-> start, last |-> last, full |-> full1]
       /\ blocks' = blocks /\ Height' = n
  BY <1>4, <1>6, <1>7, <1>8, <1>9, <1>10 DEF Restart, Height
<1>12. Stored(full0)
  <2>1. Stored(top)
    BY <1>2, <1>3, <1>5
  <2>2. PICK G : G = LastPayloadIn(blocks, DOMAIN blocks)
    OBVIOUS
  <2>3. Stored(G)
    BY <1>2, <1>3, <2>2, LastPayloadStored
  <2>4. QED
    BY <1>6, <2>1, <2>2, <2>3
<1>13. Stored(full1) /\ (full1 # NoBlock => full1.idx < start)
  <2>1. CASE start = 1
    BY <1>8, <1>9, <2>1
  <2>2. CASE start > 1
    <3>1. last = blocks[start - 1] /\ last.idx = start - 1 /\ last # NoBlock
      BY <1>2, <1>3, <1>7, <1>8, <2>2, NoBlockAssumption
    <3>2. CASE IsPayload(last)
      BY <1>2, <1>7, <1>9, <2>2, <3>1, <3>2
    <3>3. CASE ~IsPayload(last) /\ full0 # NoBlock /\ full0.idx < start - 1
      <4>1. full1 = full0
        BY <1>9, <3>1, <3>3 DEF LastFullBefore
      <4>2. full0.idx \in 1..n
        BY <1>2, <1>12, <3>3
      <4>3. QED
        BY <1>7, <1>12, <3>3, <4>1, <4>2
    <3>4. CASE ~IsPayload(last) /\ ~(full0 # NoBlock /\ full0.idx < start - 1)
      <4>1. PICK k : k \in Nat /\ k = start - 1
        BY <1>7, <2>2
      <4>2. PICK S0 : S0 = {i \in DOMAIN blocks : i < k}
        OBVIOUS
      <4>3. full1 = LastPayloadIn(blocks, S0)
        BY <1>9, <3>1, <3>4, <4>1, <4>2 DEF LastFullBefore
      <4>4. S0 \in SUBSET (1..n)
        BY <1>2, <4>2
      <4>5. PICK G : G = LastPayloadIn(blocks, S0)
        OBVIOUS
      <4>6. G = NoBlock \/ (G.idx \in S0 /\ blocks[G.idx] = G)
        BY <1>2, <1>3, <4>4, <4>5, LastPayloadStored
      <4>7. G # NoBlock => G.idx \in DOMAIN blocks /\ G.idx < k /\ blocks[G.idx] = G
        BY <4>2, <4>6
      <4>8. QED
        BY <1>2, <1>7, <4>1, <4>3, <4>5, <4>7
    <3>5. QED
      BY <3>2, <3>3, <3>4
  <2>3. QED
    BY <1>7, <2>1, <2>2
<1>14. SignersCacheFresh'
  BY <1>11 DEF SignersCacheFresh, NoSigners
<1>15. CacheBelowTip'
  BY <1>7, <1>11, <1>13 DEF CacheBelowTip, NoSigners
<1>16. FullStored(lastFull)' /\ FullStored(cc.full)'
  BY <1>11, <1>12, <1>13 DEF FullStored
<1>17. QED
  BY <1>1, <1>14, <1>15, <1>16 DEF SInv

\* The end of check_chain's loop above the height: the cursor was one above
\* the tip, so the cache lies below it.
LEMMA CheckChainDoneSInv ==
    ASSUME SInv, CheckChainDone
    PROVE  SInv'
<1> USE ConstantsAssumption
<1>1. IInv'
  BY CheckChainDoneIInv DEF SInv
<1>2. Height \in 0..MaxIndex /\ DOMAIN blocks = 1..Height /\ phase = "check"
  BY HeightType DEF CheckChainDone, SInv, IInv, ChainLinked
<1>3. \A j \in 1..Height : blocks[j].idx = j /\ blocks[j] \in Block
  BY <1>2 DEF SInv, IInv, TypeOK, ChainLinked
<1>4. /\ lastBlock' \in Block \cup {NoBlock}
      /\ Height' = Height
      /\ phase' = "run" /\ cc' = NoCheck
  BY <1>2, <1>3, CheckChainEndTip DEF CheckChainDone, SInv, IInv, TypeOK
<1>5. UNCHANGED <<blocks, signers>>
  BY DEF CheckChainDone
<1>6. signers.keys # {} => signers.index <= Height
  BY <1>2 DEF CheckChainDone, SInv, CacheBelowTip, IInv, TypeOK
<1>7. PICK h : h \in Nat /\ h = Height
  BY <1>2
<1>8. SignersCacheFresh'
  <2>1. KeptUpTo(h)
    BY <1>5 DEF KeptUpTo
  <2>2. QED
    BY <1>1, <1>5, <1>6, <1>7, <2>1, CacheKept DEF SInv
<1>9. CacheBelowTip'
  BY <1>4, <1>5, <1>6 DEF CacheBelowTip
<1>10. FullStored(lastFull)'
  <2>1. CASE lastFull # NoBlock
    BY <1>5, <2>1 DEF CheckChainDone, CheckChainEnd, SInv, FullStored
  <2>2. CASE lastFull = NoBlock
    <3>1. PICK G : G = LastPayloadIn(blocks, DOMAIN blocks)
      OBVIOUS
    <3>2. G = NoBlock \/ (G.idx \in DOMAIN blocks /\ blocks[G.idx] = G)
      BY <1>2, <1>3, <3>1, LastPayloadStored
    <3>3. lastFull' = G
      BY <2>2, <3>1 DEF CheckChainDone, CheckChainEnd
    <3>4. QED
      BY <1>5, <3>2, <3>3 DEF FullStored
  <2>3. QED
    BY <2>1, <2>2
<1>11. FullStored(cc.full)'
  BY <1>4, NoBlockAssumption DEF FullStored, NoCheck
<1>12. QED
  BY <1>1, <1>8, <1>9, <1>10, <1>11 DEF SInv

\* check_chain's check of block 1 only moves the cursor to 2.
LEMMA CheckChainGenesisSInv ==
    ASSUME SInv, CheckChainGenesis
    PROVE  SInv'
<1> USE ConstantsAssumption
<1>1. IInv'
  BY CheckChainGenesisIInv DEF SInv
<1>2. Height \in 0..MaxIndex /\ cc.id = 1 /\ 1 <= Height /\ phase = "check"
  BY HeightType DEF CheckChainGenesis, SInv, IInv, ChainLinked
<1>3. UNCHANGED <<blocks, lastBlock, lastFull, signers, phase>>
      /\ cc'.full = cc.full /\ cc'.id \in {1, 2}
  BY DEF CheckChainGenesis, SInv, IInv, TypeOK
<1>4. Height' = Height
  BY <1>3 DEF Height, HeightOf
<1>5. PICK h : h \in Nat /\ h = Height
  BY <1>2
<1>6. signers.keys # {} => signers.index <= Height
  BY <1>2 DEF SInv, CacheBelowTip, IInv, TypeOK
<1>7. SignersCacheFresh'
  <2>1. KeptUpTo(h)
    BY <1>3 DEF KeptUpTo
  <2>2. QED
    BY <1>1, <1>3, <1>5, <1>6, <2>1, CacheKept DEF SInv
<1>8. CacheBelowTip'
  <2>1. cc.full = NoBlock /\ signers.index \in Nat /\ (signers.keys # {} => signers.index < 1)
    BY <1>2 DEF SInv, CacheBelowTip, IInv, TypeOK, Block, Idx
  <2>2. QED
    BY <1>2, <1>3, <1>4, <2>1 DEF CacheBelowTip
<1>9. FullStored(lastFull)' /\ FullStored(cc.full)'
  BY <1>3 DEF SInv, FullStored
<1>10. QED
  BY <1>1, <1>7, <1>8, <1>9 DEF SInv

\* check_chain's check of a block above 1: the cache is filled from the
\* loop's own last_full_block, which lies below the cursor, so it survives
\* the truncation at the cursor when the block is rejected.
LEMMA CheckChainBlockSInv ==
    ASSUME SInv, CheckChainBlock
    PROVE  SInv'
<1> USE ConstantsAssumption
<1>1. IInv'
  BY CheckChainBlockIInv DEF SInv
<1>2. PICK b : b = blocks[cc.id]
  OBVIOUS
<1>3. /\ phase = "check" /\ cc.id \in 2..Height /\ Height \in 0..MaxIndex
      /\ DOMAIN blocks = 1..Height
  BY HeightType DEF CheckChainBlock, SInv, IInv, TypeOK, ChainLinked
<1>4. b \in Block /\ b.idx = cc.id /\ b = blocks[b.idx]
  BY <1>2, <1>3 DEF SInv, IInv, TypeOK, ChainLinked
<1>5. /\ cc.full \in Block \cup {NoBlock}
      /\ cc.full # NoBlock => cc.full.idx < cc.id /\ cc.full.idx \in Nat
      /\ signers.index \in Nat
      /\ signers.keys # {} => signers.index < cc.id
  BY <1>3 DEF SInv, IInv, TypeOK, CacheBelowTip, Block, Idx
<1>6. PICK F : F = cc.full
  OBVIOUS
<1>7. PICK h : h \in Nat /\ h = Height
  BY <1>3
<1>8. fault' = CheckFault(b, cc.last, cc.full)
  BY <1>2 DEF CheckChainBlock
<1>9. CASE fault' # "none"
  <2>1. UNCHANGED <<blocks, lastBlock, lastFull, signers, phase, cc>>
    BY <1>2, <1>9 DEF CheckChainBlock
  <2>2. SignersCacheFresh'
    <3>1. KeptUpTo(h)
      BY <2>1 DEF KeptUpTo
    <3>2. QED
      BY <1>1, <1>3, <1>5, <1>7, <2>1, <3>1, CacheKept DEF SInv
  <2>3. QED
    BY <1>1, <2>1, <2>2 DEF SInv, CacheBelowTip, FullStored, Height, HeightOf
<1>10. CASE fault' = "none"
  <2>1. signers' = SignersAfterCheck(b, cc.last, cc.full)
    BY <1>2, <1>10 DEF CheckChainBlock
  <2>2. ElectionRuns(b, cc.last, cc.full) =>
           cc.full \in Block /\ cc.full.idx < cc.id /\ cc.full.idx \in Nat
    BY <1>5 DEF ElectionRuns, SignerCheckCalled
  <2>3. signers'.keys # {} => signers'.index < cc.id
    <3>1. CASE ElectionRuns(b, cc.last, cc.full)
      BY <2>1, <2>2, <3>1 DEF SignersAfterCheck
    <3>2. CASE ~ElectionRuns(b, cc.last, cc.full)
      BY <1>5, <2>1, <3>2 DEF SignersAfterCheck
    <3>3. QED
      BY <3>1, <3>2
  <2>4. FullStored(F)
    BY <1>6 DEF SInv
  <2>8. signers'.index \in Nat
    BY <1>1 DEF IInv, TypeOK
  <2>5. CASE QualityIn(b, cc.last, cc.full) = "Good"
    <3>1. /\ lastFull' = IF IsPayload(b) THEN b ELSE lastFull
          /\ cc' = [id |-> cc.id + 1, last |-> b,
                    full |-> IF IsPayload(b) THEN b ELSE cc.full]
          /\ UNCHANGED <<blocks, lastBlock, phase>>
      BY <1>2, <1>10, <2>5 DEF CheckChainBlock
    <3>2. KeptUpTo(h)
      BY <3>1 DEF KeptUpTo
    <3>3. SignersCacheFresh'
      <4>1. ElectionRuns(b, cc.last, F) => F.idx <= h
        BY <1>3, <1>6, <1>7, <2>2
      <4>2. ~ElectionRuns(b, cc.last, F) => (signers.keys # {} => signers.index <= h)
        BY <1>3, <1>5, <1>7
      <4>3. QED
        BY <1>1, <1>5, <1>6, <1>7, <2>1, <2>4, <3>2, <4>1, <4>2, CacheAfterCheck DEF SInv
    <3>4. Height' = Height
      BY <3>1 DEF Height, HeightOf
    <3>5. CacheBelowTip'
      <4>1. (IF IsPayload(b) THEN b ELSE cc.full) # NoBlock =>
               (IF IsPayload(b) THEN b ELSE cc.full).idx < cc.id + 1
        BY <1>3, <1>4, <1>5, NoBlockAssumption
      <4>2. QED
        BY <1>3, <1>5, <2>3, <2>8, <3>1, <3>4, <4>1 DEF CacheBelowTip
    <3>6. FullStored(lastFull)' /\ FullStored(cc.full)'
      BY <1>4, <3>1 DEF SInv, FullStored
    <3>7. QED
      BY <1>1, <3>3, <3>5, <3>6 DEF SInv
  <2>6. CASE QualityIn(b, cc.last, cc.full) # "Good"
    <3> DEFINE bl == TruncBlocks(cc.id)
    <3>1. /\ blocks' = bl
          /\ CheckChainEnd(bl)
      BY <1>2, <1>10, <2>6 DEF CheckChainBlock
    <3>2. PICK m : m \in Nat /\ m = cc.id - 1
      BY <1>3
    <3>3. /\ DOMAIN bl = 1..m
          /\ \A j \in 1..m : bl[j] = blocks[j] /\ bl[j].idx = j /\ bl[j] \in Block
      BY <1>3, <3>2 DEF TruncBlocks, SInv, IInv, TypeOK, ChainLinked
    <3>4. KeptUpTo(m)
      BY <1>3, <3>1, <3>2, <3>3 DEF KeptUpTo
    <3>5. /\ Height' = m
          /\ phase' = "run" /\ cc' = NoCheck
      <4>1. m \in 0..MaxIndex /\ lastFull \in Block \cup {NoBlock}
        BY <1>3, <3>2 DEF SInv, IInv, TypeOK
      <4>3. bl \in [1..m -> Block]
        BY <3>3 DEF TruncBlocks
      <4>2. QED
        BY <3>1, <3>3, <4>1, <4>3, CheckChainEndTip
    <3>6. SignersCacheFresh'
      <4>1. ElectionRuns(b, cc.last, F) => F.idx <= m
        BY <1>3, <1>6, <2>2, <3>2
      <4>2. ~ElectionRuns(b, cc.last, F) => (signers.keys # {} => signers.index <= m)
        BY <1>3, <1>5, <3>2
      <4>3. QED
        BY <1>1, <1>5, <1>6, <2>1, <2>4, <3>2, <3>4, <4>1, <4>2, CacheAfterCheck DEF SInv
    <3>7. CacheBelowTip'
      <4>1. signers'.keys # {} => signers'.index <= m
        BY <1>3, <2>3, <2>8, <3>2
      <4>2. QED
        BY <3>5, <4>1 DEF CacheBelowTip
    <3>8. FullStored(lastFull)'
      <4>1. CASE lastFull # NoBlock
        <5>1. PICK L : L = lastFull
          OBVIOUS
        <5>2. lastFull' = lastFull
          BY <3>1, <4>1 DEF CheckChainEnd
        <5>3. (L # NoBlock /\ L.idx \in DOMAIN blocks' /\ IsPayload(blocks'[L.idx])) => L.idx \in 1..m
          BY <3>1, <3>3
        <5>4. FullStored(L)'
          BY <3>4, <5>1, <5>3, FullStoredKept DEF SInv
        <5>5. QED
          BY <5>1, <5>2, <5>4
      <4>2. CASE lastFull = NoBlock
        <5>1. PICK G : G = LastPayloadIn(bl, DOMAIN bl)
          OBVIOUS
        <5>2. G = NoBlock \/ (G.idx \in DOMAIN bl /\ bl[G.idx] = G)
          BY <3>2, <3>3, <5>1, LastPayloadStored
        <5>3. lastFull' = G
          BY <3>1, <4>2, <5>1 DEF CheckChainEnd
        <5>4. QED
          BY <3>1, <5>2, <5>3 DEF FullStored
      <4>3. QED
        BY <4>1, <4>2
    <3>9. FullStored(cc.full)'
      BY <3>5, NoBlockAssumption DEF FullStored, NoCheck
    <3>10. QED
      BY <1>1, <3>6, <3>7, <3>8, <3>9 DEF SInv
  <2>7. QED
    BY <2>5, <2>6
<1>11. QED
  BY <1>9, <1>10

\* The engine starts with an empty cache.
LEMMA InitSInv == Init => SInv
<1> SUFFICES ASSUME Init PROVE SInv
  OBVIOUS
<1> USE InitChainAssumption
<1>1. IInv
  BY InitIInv
<1>2. PICK n : n \in Nat /\ n = Len(InitChain)
  OBVIOUS
<1>3. DOMAIN blocks = 1..n /\ \A i \in DOMAIN blocks : blocks[i].idx = i
  BY <1>2 DEF Init
<1>4. PICK G : G = lastFull
  OBVIOUS
<1>5. G = NoBlock \/ (G.idx \in DOMAIN blocks /\ blocks[G.idx] = G)
  BY <1>2, <1>3, <1>4, LastPayloadStored DEF Init
<1>6. FullStored(lastFull)
  BY <1>4, <1>5, StoredFullStored
<1>7. FullStored(cc.full) /\ CacheBelowTip /\ SignersCacheFresh
  BY DEF Init, NoCheck, NoSigners, FullStored, CacheBelowTip, SignersCacheFresh
<1>8. QED
  BY <1>1, <1>6, <1>7 DEF SInv

\* A step that changes no variable keeps the invariant.
LEMMA StutterSInv ==
    ASSUME SInv, UNCHANGED vars
    PROVE  SInv'
<1> USE ConstantsAssumption
<1>1. IInv'
  BY NextIInv DEF SInv
<1>2. KeptUpTo(MaxIndex)
  BY DEF vars, KeptUpTo
<1>3. signers' = signers /\ (signers.keys # {} => signers.index <= MaxIndex)
  BY DEF vars, SInv, IInv, TypeOK
<1>4. SignersCacheFresh'
  BY <1>1, <1>2, <1>3, CacheKept DEF SInv
<1>5. (FullStored(lastFull) /\ FullStored(cc.full) /\ CacheBelowTip)'
  BY DEF vars, SInv, FullStored, CacheBelowTip, Height, HeightOf
<1>6. QED
  BY <1>1, <1>4, <1>5 DEF SInv

\* Every step of the engine keeps the invariant.
LEMMA NextSInv == SInv /\ [Next]_vars => SInv'
<1> SUFFICES ASSUME SInv, [Next]_vars PROVE SInv'
  OBVIOUS
<1>1. CASE UNCHANGED vars
  BY <1>1, StutterSInv
<1>2. CASE \E b \in Candidates : ReceiveBlock(b)
  BY <1>2, ReceiveSInv
<1>3. CASE \E b \in Candidates : ReplaceBlock(b)
  BY <1>3, ReplaceSInv
<1>4. CASE Restart
  BY <1>4, RestartSInv
<1>5. CASE CheckChainDone
  BY <1>5, CheckChainDoneSInv
<1>6. CASE CheckChainGenesis
  BY <1>6, CheckChainGenesisSInv
<1>7. CASE CheckChainBlock
  BY <1>7, CheckChainBlockSInv
<1>8. CASE TruncationTorn
  BY <1>8, TruncationTornSInv
<1>9. QED
  BY <1>1, <1>2, <1>3, <1>4, <1>5, <1>6, <1>7, <1>8 DEF Next

-----------------------------------------------------------------------------
(* Theorem *)

\* The signer cache is never stale: whenever the engine holds a cached
\* signer set for a stored payload block, across add_block, replace_block,
\* check_chain, stops anywhere (inside truncate_db_from_block included)
\* and restarts, it is the set get_signers_at would elect at that block.
THEOREM SignersCacheAlwaysFresh == Spec => []SignersCacheFresh
<1>1. Init => SInv
  BY InitSInv
<1>2. SInv /\ [Next]_vars => SInv'
  BY NextSInv
<1>3. SInv => SignersCacheFresh
  BY DEF SInv
<1>4. QED
  BY <1>1, <1>2, <1>3, PTL DEF Spec
=============================================================================
