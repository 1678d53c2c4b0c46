-------------------------------- MODULE Chain --------------------------------
(***************************************************************************)
(* The chain engine of src/src/blockchain/chain.rs: the persisted tables   *)
(* (blocks, domains, zones), the in-memory tip caches (last_block,         *)
(* last_full_block), the signers cache, the two mutators the network     *)
(* drives, check_new_block followed by add_block, and replace_block on a   *)
(* fork, and the restart path: the process stops at any point, init_db     *)
(* reloads the tip caches and main runs check_chain over the stored        *)
(* suffix before the network starts.  Candidate blocks are arbitrary       *)
(* well-formed blocks: the gates that only reject (version, timestamp from *)
(* the future, key strength, proof of work, hash and signature) are taken  *)
(* as passed, since a rejected block changes nothing.                      *)
(*                                                                         *)
(* A block hash is abstracted by the fields it commits to other than the   *)
(* previous hash (Hash below); a candidate's prev_block_hash is the hash   *)
(* of the stored block below it or a hash of no stored block.              *)
(***************************************************************************)
EXTENDS Naturals, FiniteSets, Sequences

CONSTANTS
    Keys,              \* public keys of miners
    Ids,               \* transaction identities (hashes of labels)
    ZoneNames,         \* zone names carried in zone and domain data
    Tails,             \* values of the 64-bit tail of a block signature
    Times,             \* block timestamps
    MaxIndex,          \* bound on the block index (model bound)
    SignersStart,      \* BLOCK_SIGNERS_START
    SignersAll,        \* BLOCK_SIGNERS_ALL
    SignersMin,        \* BLOCK_SIGNERS_MIN
    NewDomainsInterval,\* NEW_DOMAINS_INTERVAL
    CheckBlocks,       \* settings.check_blocks, the depth of check_chain
    OverflowChecks,    \* TRUE for a build that panics on u64 underflow
    TornTruncation,    \* TRUE when the process may stop between two DELETEs
    InitChain,         \* the chain found in the database at start
    Origin,            \* the configured origin hash, NoHash when empty
    NoHash,            \* the empty hash (prev of genesis, empty origin)
    UnknownHash,       \* a hash of no stored block
    NoTx,              \* the absent transaction of a signing block
    NoBlock            \* Option::None for a block

ASSUME ConstantsAssumption ==
    /\ MaxIndex \in Nat \ {0}
    /\ SignersStart \in Nat
    /\ SignersAll \in Nat \ {0}
    /\ SignersMin \in Nat
    /\ NewDomainsInterval \in Nat
    /\ Tails \subseteq Nat
    /\ Times \subseteq Nat
    /\ CheckBlocks \in Nat
    /\ OverflowChecks \in BOOLEAN
    /\ TornTruncation \in BOOLEAN

Idx == 1..MaxIndex

\* Transaction: class, identity, and the zone named by its data (the zone's
\* own name for a zone, data.zone for a domain).
Tx == [class : {"zone", "domain"}, id : Ids, zone : ZoneNames]

Hash(b) == <<b.idx, b.key, b.tx, b.ts, b.tail>>

Hashes == (Idx \X Keys \X (Tx \cup {NoTx}) \X Times \X Tails) \cup {NoHash, UnknownHash}

Block == [idx : Idx, key : Keys, tx : Tx \cup {NoTx}, ts : Times,
          tail : Tails, prev : Hashes]

IsPayload(b) == b.tx # NoTx

\* Rows of the domains and zones tables (SQL_ADD_DOMAIN, SQL_ADD_ZONE).
Row == [id : Idx, identity : Ids, key : Keys, zone : ZoneNames]

\* (mutant) a row whose id is bound one past the block index.
RowOfNextId(b) == [id |-> b.idx + 1, identity |-> b.tx.id, key |-> b.key, zone |-> b.tx.zone]

RowOf(b) == [id |-> b.idx, identity |-> b.tx.id, key |-> b.key, zone |-> b.tx.zone]

ASSUME InitChainAssumption ==
    /\ InitChain \in Seq(Block)
    /\ Len(InitChain) <= MaxIndex
    /\ \A i \in DOMAIN InitChain : InitChain[i].idx = i
    /\ \A i \in DOMAIN InitChain \ {1} : InitChain[i].prev = Hash(InitChain[i - 1])

\* Option::None is not a block.
ASSUME NoBlockAssumption == NoBlock \notin Block

VARIABLES
    blocks,     \* the blocks table: index -> block
    domains,    \* the domains table: set of rows
    zones,      \* the zones table: set of rows
    lastBlock,  \* Chain.last_block
    lastFull,   \* Chain.last_full_block
    signers,    \* Chain.signers (SignersCache): index and elected keys
    fault,      \* "none", or how the engine thread stopped: "hang", "panic"
                \* (check_block), "originPanic" (check_chain on block 1)
    phase,      \* "run" (serving), "check" (inside check_chain), "down"
    cc          \* check_chain's locals: next id, last_block, last_full_block

vars == <<blocks, domains, zones, lastBlock, lastFull, signers, fault, phase, cc>>

NoSigners == [index |-> 0, keys |-> {}]

NoCheck == [id |-> 1, last |-> NoBlock, full |-> NoBlock]

-----------------------------------------------------------------------------
(* Queries *)

\* The index of an optional block, 0 for None (current_height).
HeightOf(lb) == IF lb = NoBlock THEN 0 ELSE lb.idx

\* get_height: read from the cached tip, not from the table.
Height == HeightOf(lastBlock)

\* The last payload block of a set of stored indices, or NoBlock.
LastPayloadIn(bl, S) ==
    LET P == {i \in S : IsPayload(bl[i])}
    IN  IF P = {} THEN NoBlock
        ELSE bl[CHOOSE i \in P : \A j \in P : j <= i]

\* (mutant) load_last_block with ORDER BY id ASC.
TopBlockFirst(bl) ==
    IF DOMAIN bl = {} THEN NoBlock
    ELSE bl[CHOOSE i \in DOMAIN bl : \A j \in DOMAIN bl : i <= j]

\* load_last_block: SELECT * FROM blocks ORDER BY id DESC LIMIT 1.
TopBlock(bl) ==
    IF DOMAIN bl = {} THEN NoBlock
    ELSE bl[CHOOSE i \in DOMAIN bl : \A j \in DOMAIN bl : j <= i]

\* get_last_full_block(before, Some(key)): the cache first, then the table.
GetLastFullBlockFor(before, key) ==
    IF lastFull # NoBlock /\ lastFull.idx < before /\ lastFull.key = key
    THEN lastFull
    ELSE LastPayloadIn(blocks, {i \in DOMAIN blocks : i < before /\ blocks[i].key = key})

\* get_last_full_block(before, None) when the cache holds cached.
LastFullBefore(cached, before) ==
    IF cached # NoBlock /\ cached.idx < before
    THEN cached
    ELSE LastPayloadIn(blocks, {i \in DOMAIN blocks : i < before})

\* is_id_available: the first row (LIMIT 1) below height with this identity
\* must belong to key.
IsIdAvailable(height, id, key, table) ==
    LET M == {r \in table : r.id < height /\ r.identity = id}
    IN  \A r \in M : (\A s \in M : r.id <= s.id) => r.key = key

\* is_id_in_blockchain
IsIdInBlockchain(height, id, table) ==
    \E r \in table : r.id < height /\ r.identity = id

\* get_difficulty_for_transaction is u32::MAX for a domain of an unknown zone
\* (get_zones reads every zone row), which no block difficulty can meet.
DifficultyOk(b) ==
    b.tx = NoTx \/ b.tx.class = "zone" \/ b.tx.zone \in {r.zone : r \in zones}

\* Identity checks of check_block for a payload block; lb is the last_block
\* argument (current_height).
TxAcceptable(b, lb) ==
    /\ IsIdAvailable(HeightOf(lb), b.tx.id, b.key, domains)
    /\ IsIdAvailable(HeightOf(lb), b.tx.id, b.key, zones)
    /\ LET last == GetLastFullBlockFor(b.idx, b.key)
       IN  \/ last = NoBlock
           \/ last.idx >= b.idx
           \/ IsIdInBlockchain(b.idx, b.tx.id, domains)
           \/ last.ts + NewDomainsInterval <= b.ts

\* Block::is_genesis
IsGenesis(b) == b.idx = 1 /\ b.prev = NoHash

OriginConfigured == Origin # NoHash

\* (mutant) PreQuality without the Rewind gate on the stored previous block.
PreQualityNoRewind(b, lb) ==
    IF lb # NoBlock /\ b.idx > lb.idx + 1 THEN "Future"
    ELSE IF ~DifficultyOk(b) THEN "Bad"
    ELSE IF IsPayload(b) /\ ~TxAcceptable(b, lb) THEN "Bad"
    ELSE IF lb = NoBlock
         THEN IF ~IsGenesis(b) THEN "Future"
              ELSE IF OriginConfigured /\ Hash(b) # Origin THEN "Bad"
              ELSE "Good"
    ELSE IF b.ts < lb.ts /\ b.idx > lb.idx THEN "Bad"
    ELSE "Sign"

\* Gates of check_block(b, lb, _) up to the signing-block rules; "Sign"
\* when the block reaches them.
PreQuality(b, lb) ==
    IF lb # NoBlock /\ b.idx > lb.idx + 1 THEN "Future"
    ELSE IF ~DifficultyOk(b) THEN "Bad"
    ELSE IF b.idx - 1 \in DOMAIN blocks /\ b.prev # Hash(blocks[b.idx - 1]) THEN "Rewind"
    ELSE IF IsPayload(b) /\ ~TxAcceptable(b, lb) THEN "Bad"
    ELSE IF lb = NoBlock
         THEN IF ~IsGenesis(b) THEN "Future"
              ELSE IF OriginConfigured /\ Hash(b) # Origin THEN "Bad"
              ELSE "Good"
    ELSE IF b.ts < lb.ts /\ b.idx > lb.idx THEN "Bad"
    ELSE "Sign"

(* Signer election, get_block_signers: indices (tail * count) mod window + 1
   for count = 1, 2, ... ; a key is elected when it is not the payload's own
   key and fewer than SignersAll keys were discovered before it.  The
   visited indices repeat with period window, so the loop ends iff enough
   keys occur among the first window visits. *)
VisitIdx(F, c) == ((F.tail * c) % (F.idx - 1)) + 1

VisitedKeys(F) == {blocks[VisitIdx(F, c)].key : c \in 1..(F.idx - 1)} \ {F.key}

FirstVisit(F, k) ==
    CHOOSE c \in 1..(F.idx - 1) :
        /\ blocks[VisitIdx(F, c)].key = k
        /\ \A d \in 1..(c - 1) : blocks[VisitIdx(F, d)].key # k

Elected(F) ==
    {k \in VisitedKeys(F) :
        Cardinality({j \in VisitedKeys(F) : FirstVisit(F, j) < FirstVisit(F, k)}) < SignersAll}

ElectionHangs(F) == Cardinality(VisitedKeys(F)) < SignersAll

\* self.get_height() - full_block.index in u64: a negative difference wraps
\* to a count far above every bound (or panics with overflow checks).
SignCountUnderflows(F) == F # NoBlock /\ Height < F.idx

SignCountBelow(F, n) == ~SignCountUnderflows(F) /\ Height - F.idx < n

\* is_good_sign_block(b, F) calls is_good_signer_for_block: a signing block
\* while fewer than BLOCK_SIGNERS_MIN (first branch) or BLOCK_SIGNERS_ALL
\* (second branch) blocks sit on the last payload block F.
SignerCheckCalled(b, lb, F) ==
    /\ PreQuality(b, lb) = "Sign"
    /\ b.idx > SignersStart
    /\ ~IsPayload(b)
    /\ F # NoBlock
    /\ SignCountBelow(F, SignersMin) \/ SignCountBelow(F, SignersAll)

UnderflowPanics(b, lb, F) ==
    /\ PreQuality(b, lb) = "Sign" /\ b.idx > SignersStart /\ ~IsPayload(b)
    /\ SignCountUnderflows(F) /\ OverflowChecks

SignersCached(F) == signers.index = F.idx /\ signers.keys # {}

\* get_block_signers computes the election (not cached, not empty).
ElectionRuns(b, lb, F) ==
    /\ SignerCheckCalled(b, lb, F)
    /\ ~(F.idx < SignersStart \/ Height < F.idx)
    /\ ~SignersCached(F)

\* How check_block(b, lb, F) ends: normally, by a panic, or never.
CheckFault(b, lb, F) ==
    IF UnderflowPanics(b, lb, F) THEN "panic"
    ELSE IF ElectionRuns(b, lb, F) /\ F.idx = 1 THEN "panic"
    ELSE IF ElectionRuns(b, lb, F) /\ ElectionHangs(F) THEN "hang"
    ELSE "none"

SignersFor(F) ==
    IF F.idx < SignersStart \/ Height < F.idx THEN {}
    ELSE IF SignersCached(F) THEN signers.keys
    ELSE Elected(F)

\* is_good_signer_for_block
IsGoodSigner(b, F) ==
    /\ b.key \in SignersFor(F)
    /\ \A i \in (F.idx + 1)..(b.idx - 1) : blocks[i].key # b.key

\* The rest of check_block once the signing rules passed.
FinalQuality(b, lb) ==
    IF b.idx <= lb.idx
    THEN IF b.idx = lb.idx /\ Hash(lb) = Hash(b) THEN "Twin"
         ELSE IF b.idx \in DOMAIN blocks
              THEN IF Hash(blocks[b.idx]) # Hash(b) THEN "Fork" ELSE "Twin"
              ELSE "Good"
    ELSE IF b.prev # Hash(lb) THEN "Bad"
    ELSE "Good"

\* check_block(b, lb, F)
QualityIn(b, lb, F) ==
    IF PreQuality(b, lb) # "Sign" THEN PreQuality(b, lb)
    ELSE IF SignerCheckCalled(b, lb, F) /\ ~IsGoodSigner(b, F) THEN "Bad"
    ELSE FinalQuality(b, lb)

\* check_new_block: check_block with the tip caches.
Quality(b) == QualityIn(b, lastBlock, lastFull)

\* The signers cache after check_block(b, lb, F).
SignersAfterCheck(b, lb, F) ==
    IF ElectionRuns(b, lb, F) THEN [index |-> F.idx, keys |-> Elected(F)]
    ELSE signers

\* Blocks the network may deliver: any index up to one above the tip, with
\* the hash of the stored block below as prev, or a hash of no stored block.
PrevChoices(i) ==
    {UnknownHash, IF i - 1 \in DOMAIN blocks THEN Hash(blocks[i - 1]) ELSE NoHash}

NetworkBlocks ==
    UNION {{[idx |-> i, key |-> k, tx |-> t, ts |-> s, tail |-> l, prev |-> p] :
               k \in Keys, t \in Tx \cup {NoTx}, s \in Times, l \in Tails,
               p \in PrevChoices(i)} :
           i \in 1..IF Height < MaxIndex THEN Height + 1 ELSE MaxIndex}

Candidates == NetworkBlocks

-----------------------------------------------------------------------------
(* Table updates *)

\* (mutant) truncation that keeps the row at the index itself.
TruncRowsAbove(table, index) == {r \in table : r.id <= index}

\* truncate_db_from_block on one table of rows
TruncRows(table, index) == {r \in table : r.id < index}

\* (mutant) truncation bound one below the index.
TruncBlocksBelow(index) == [i \in {j \in DOMAIN blocks : j < index - 1} |-> blocks[i]]

TruncBlocks(index) == [i \in {j \in DOMAIN blocks : j < index} |-> blocks[i]]

\* truncate_db_from_block when the process stops after its first (k = 1)
\* or its second (k = 2) DELETE: each statement commits on its own.
TornTruncate(index, k) ==
    /\ blocks' = TruncBlocks(index)
    /\ domains' = IF k = 2 THEN TruncRows(domains, index) ELSE domains
    /\ zones' = zones

-----------------------------------------------------------------------------
(* Actions *)

Init ==
    /\ blocks = InitChain
    /\ domains = {RowOf(InitChain[i]) : i \in {j \in DOMAIN InitChain : IsPayload(InitChain[j]) /\ InitChain[j].tx.class = "domain"}}
    /\ zones = {RowOf(InitChain[i]) : i \in {j \in DOMAIN InitChain : IsPayload(InitChain[j]) /\ InitChain[j].tx.class = "zone"}}
    /\ lastBlock = IF InitChain = <<>> THEN NoBlock ELSE InitChain[Len(InitChain)]
    /\ lastFull = LastPayloadIn(InitChain, DOMAIN InitChain)
    /\ signers = NoSigners
    /\ fault = "none"
    /\ phase = "run"
    /\ cc = NoCheck

\* add_block on the tables bl, dom, zon (after a possible truncation):
\* caches first, then the block row, then the transaction row if the block
\* row was inserted.
AddBlock(b, bl, dom, zon) ==
    /\ lastBlock' = b
    /\ lastFull' = IF IsPayload(b) THEN b ELSE lastFull
    /\ IF b.idx \in DOMAIN bl
       THEN /\ blocks' = bl /\ domains' = dom /\ zones' = zon
       ELSE /\ blocks' = [i \in DOMAIN bl \cup {b.idx} |-> IF i = b.idx THEN b ELSE bl[i]]
            /\ domains' = IF IsPayload(b) /\ b.tx.class = "domain" THEN dom \cup {RowOf(b)} ELSE dom
            /\ zones' = IF IsPayload(b) /\ b.tx.class = "zone" THEN zon \cup {RowOf(b)} ELSE zon

\* The network hands a block to check_new_block and adds it when Good.
ReceiveBlock(b) ==
    /\ phase = "run"
    /\ fault = "none"
    /\ fault' = CheckFault(b, lastBlock, lastFull)
    /\ IF fault' # "none"
       THEN UNCHANGED <<blocks, domains, zones, lastBlock, lastFull, signers>>
       ELSE /\ signers' = SignersAfterCheck(b, lastBlock, lastFull)
            /\ IF Quality(b) = "Good"
               THEN AddBlock(b, blocks, domains, zones)
               ELSE UNCHANGED <<blocks, domains, zones, lastBlock, lastFull>>
    /\ UNCHANGED <<phase, cc>>

\* A block checked as Fork is accepted and replace_block reached.
ForkAccepted(b) ==
    /\ phase = "run"
    /\ fault = "none"
    /\ CheckFault(b, lastBlock, lastFull) = "none"
    /\ Quality(b) = "Fork"

\* (mutant) replace_block without clearing the signers cache.
ReplaceBlockKeepCache(b) ==
    /\ ForkAccepted(b)
    /\ signers' = signers
    /\ AddBlock(b, TruncBlocks(b.idx), TruncRows(domains, b.idx), TruncRows(zones, b.idx))
    /\ UNCHANGED <<fault, phase, cc>>

\* replace_block clears the signers cache, truncates the three tables at
\* the block's index and adds it.
ReplaceBlock(b) ==
    /\ ForkAccepted(b)
    /\ signers' = NoSigners
    /\ AddBlock(b, TruncBlocks(b.idx), TruncRows(domains, b.idx), TruncRows(zones, b.idx))
    /\ UNCHANGED <<fault, phase, cc>>

\* The process stops: its memory (tip caches, signers cache, locals) is
\* gone until the next start.
ProcessStops ==
    /\ phase' = "down"
    /\ lastBlock' = NoBlock /\ lastFull' = NoBlock
    /\ signers' = NoSigners /\ cc' = NoCheck
    /\ UNCHANGED fault

\* The process stops, in any state, and main starts it again: Chain::new
\* and init_db load the tip caches from the table (the signers cache starts
\* empty), then check_chain(check_blocks) starts its loop at
\* max(1, height - check_blocks + 1) with the block below as last_block.
Restart ==
    LET top   == TopBlock(blocks)
        full0 == IF top = NoBlock \/ IsPayload(top) THEN top
                 ELSE LastPayloadIn(blocks, DOMAIN blocks)
        h     == HeightOf(top)
        start == IF h > CheckBlocks THEN h - CheckBlocks + 1 ELSE 1
        last  == IF start > 1 THEN blocks[start - 1] ELSE NoBlock
    IN  /\ lastBlock' = top
        /\ lastFull' = full0
        /\ signers' = NoSigners
        /\ fault' = "none"
        /\ phase' = "check"
        /\ cc' = [id |-> start, last |-> last,
                  full |-> IF last = NoBlock \/ IsPayload(last) THEN last
                           ELSE LastFullBefore(full0, last.idx)]
        /\ UNCHANGED <<blocks, domains, zones>>

\* The end of check_chain on the blocks table bl: last_block reloaded,
\* last_full_block from get_last_full_block(MAX, None), which returns the
\* cache whenever it is set; the loop's locals go out of scope.
CheckChainEnd(bl) ==
    /\ lastBlock' = TopBlock(bl)
    /\ lastFull' = IF lastFull # NoBlock THEN lastFull
                   ELSE LastPayloadIn(bl, DOMAIN bl)
    /\ phase' = "run"
    /\ cc' = NoCheck

\* check_chain's loop has passed the height.
CheckChainDone ==
    /\ phase = "check" /\ fault = "none"
    /\ cc.id > Height
    /\ CheckChainEnd(blocks)
    /\ UNCHANGED <<blocks, domains, zones, signers, fault>>

\* check_chain on block 1: its hash must be self.origin (the zero hash when
\* no origin is configured), else it panics; it becomes last_block.
CheckChainGenesis ==
    /\ phase = "check" /\ fault = "none"
    /\ cc.id <= Height /\ cc.id = 1
    /\ IF Hash(blocks[1]) # Origin
       THEN fault' = "originPanic" /\ UNCHANGED cc
       ELSE fault' = "none" /\ cc' = [cc EXCEPT !.id = 2, !.last = blocks[1]]
    /\ UNCHANGED <<blocks, domains, zones, lastBlock, lastFull, signers, phase>>

\* check_chain on block id > 1: check_block in the loop's context; a Good
\* block advances the loop (a payload one also the last_full_block cache),
\* any other verdict truncates the tables at it and ends the loop.
CheckChainBlock ==
    /\ phase = "check" /\ fault = "none"
    /\ cc.id <= Height /\ cc.id > 1
    /\ LET b == blocks[cc.id]
       IN  /\ fault' = CheckFault(b, cc.last, cc.full)
           /\ IF fault' # "none"
              THEN UNCHANGED <<blocks, domains, zones, lastBlock, lastFull, signers, phase, cc>>
              ELSE /\ signers' = SignersAfterCheck(b, cc.last, cc.full)
                   /\ IF QualityIn(b, cc.last, cc.full) = "Good"
                      THEN /\ lastFull' = IF IsPayload(b) THEN b ELSE lastFull
                           /\ cc' = [id |-> cc.id + 1, last |-> b,
                                     full |-> IF IsPayload(b) THEN b ELSE cc.full]
                           /\ UNCHANGED <<blocks, domains, zones, lastBlock, phase>>
                      ELSE /\ blocks' = TruncBlocks(cc.id)
                           /\ domains' = TruncRows(domains, cc.id)
                           /\ zones' = TruncRows(zones, cc.id)
                           /\ CheckChainEnd(TruncBlocks(cc.id))

\* check_chain reaches a stored block that check_block does not find Good.
CheckChainRejects ==
    /\ phase = "check" /\ fault = "none"
    /\ cc.id <= Height /\ cc.id > 1
    /\ CheckFault(blocks[cc.id], cc.last, cc.full) = "none"
    /\ QualityIn(blocks[cc.id], cc.last, cc.full) # "Good"

\* The indices at which a truncate_db_from_block call may start: the index
\* of a Fork replace_block installs, or the block check_chain rejects.
TruncationStarts ==
    {b.idx : b \in {c \in Candidates : ForkAccepted(c)}}
        \cup {i \in {cc.id} : CheckChainRejects}

\* The process stops inside truncate_db_from_block, after its first or
\* second DELETE.
TruncationTorn ==
    /\ TornTruncation
    /\ \E i \in TruncationStarts, k \in {1, 2} : TornTruncate(i, k)
    /\ ProcessStops

Next ==
    \/ \E b \in Candidates : ReceiveBlock(b) \/ ReplaceBlock(b)
    \/ Restart
    \/ CheckChainDone
    \/ CheckChainGenesis
    \/ CheckChainBlock
    \/ TruncationTorn

Spec == Init /\ [][Next]_vars

-----------------------------------------------------------------------------
(* Properties *)

\* check_block's link test: block b carries the hash of block a.
Follows(b, a) == b.prev = Hash(a)

\* The blocks table seen through ChainStore, its contract.
Store == INSTANCE ChainStore WITH store <- blocks

TypeOK ==
    /\ DOMAIN blocks \subseteq Idx
    /\ blocks \in [DOMAIN blocks -> Block]
    /\ domains \subseteq Row
    /\ zones \subseteq Row
    /\ lastBlock \in Block \cup {NoBlock}
    /\ lastFull \in Block \cup {NoBlock}
    /\ signers \in [index : 0..MaxIndex, keys : SUBSET Keys]
    /\ fault \in {"none", "hang", "panic", "originPanic"}
    /\ phase \in {"run", "check", "down"}
    /\ cc \in [id : 1..(MaxIndex + 1), last : Block \cup {NoBlock}, full : Block \cup {NoBlock}]

\* Blocks are stored at indices 1..n without gaps and each block's
\* prev_block_hash is the hash of the block below it, and while the process
\* runs last_block is the top one: add_block, replace_block, the Rewind and
\* prev checks of check_block and truncate_db_from_block (blocks first)
\* keep the persisted chain linked even when the process stops between two
\* statements, and init_db and check_chain reload the tip from it.
ChainLinked ==
    /\ \E n \in 0..MaxIndex : DOMAIN blocks = 1..n
    /\ \A i \in DOMAIN blocks : blocks[i].idx = i
    /\ \A i \in DOMAIN blocks \ {1} : blocks[i].prev = Hash(blocks[i - 1])
    /\ phase # "down" => DOMAIN blocks = 1..Height
    /\ phase # "down" /\ lastBlock # NoBlock => lastBlock = blocks[Height]

\* The domains and zones tables hold exactly one row per payload block of
\* the blocks table: add_block writes the row with the block and
\* truncate_db_from_block cuts all three tables at the same index.
ProjectionConsistent ==
    /\ domains = {RowOf(blocks[i]) : i \in {j \in DOMAIN blocks : IsPayload(blocks[j]) /\ blocks[j].tx.class = "domain"}}
    /\ zones = {RowOf(blocks[i]) : i \in {j \in DOMAIN blocks : IsPayload(blocks[j]) /\ blocks[j].tx.class = "zone"}}

\* A signers cache entry for a stored payload block holds that block's
\* election on the current chain: replace_block clears the cache whenever
\* the blocks the election read may change.
SignersCacheFresh ==
    (signers.keys # {} /\ signers.index \in DOMAIN blocks /\ IsPayload(blocks[signers.index]))
        => signers.keys = Elected(blocks[signers.index])

\* last_full_block is the last payload block of the blocks table (the spec:
\* the tip fields are caches of the persistent tip).
LastFullCoherent ==
    lastFull = LastPayloadIn(blocks, DOMAIN blocks)

\* No identity is owned by two keys in the domains and zones tables (spec
\* invariant 6).
IdentityOwnedOnce ==
    \A r1, r2 \in domains \cup zones : r1.identity = r2.identity => r1.key = r2.key

\* The signer election of check_block always returns.
ElectionTerminates == fault # "hang"

\* check_block never panics: no u64 underflow of the sign count and no
\* modulo by a zero election window.
NoPanic == fault # "panic"

\* The blocks table only ever changes as ChainStore allows: check_new_block
\* with add_block appends a block linked to the tip, replace_block installs
\* a Fork linked to the block below it, and truncate_db_from_block (from
\* check_chain, whole or torn by a stop) cuts it back; restarts and every
\* rejected block leave it alone.
StoreRefined == Store!Spec

=============================================================================
