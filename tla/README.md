# Formal models of the GIS chain engine

This directory holds TLA+ models of the blockchain engine in
`src/src/blockchain/chain.rs` and of its miner (`src/src/miner.rs`). It also
holds the TLC configurations that model-check them and TLAPS proofs about
them.

## 1. The system

| # | Part | Source | State | Operations that change state |
|---|------|--------|-------|------------------------------|
| C1 | Hash / key / signature utilities | not under `src/` | none | none (pure checks) |
| C2 | Block and transaction model | not under `src/` | none | none |
| C3 | Persistent store | `chain.rs` (SQL) | `blocks`, `domains`, `zones`, `options` tables | insert block, insert row, truncate from index, clear |
| C4 | Signer cache | `chain.rs:965-985` | `(index, signers)` | filled by `get_block_signers`, cleared by `replace_block` |
| C5 | Chain engine | `chain.rs` | `last_block`, `last_full_block`, `zones` cache, `max_height` | `check_new_block`/`check_block`, `add_block`, `replace_block`, `check_chain`, `init_db` |
| C6 | Miner | `miner.rs` | job queue, `running`, `mining`, current job, worker threads | `add_block` (enqueue), scheduler loop, `mine_internal`, `find_hash` |
| C7 | Event bus | `miner.rs` (posts) | subscribers | post (no effect on chain state) |
| - | Settings, entry point | `settings.rs`, `main.rs` | configuration | start-up: `Chain::new`, `check_chain`, start the miner |

**How the parts interact.**
- The engine C5 sits behind one mutex in the `Context`.
- The network and the miner's worker threads hand it candidate blocks. A Good block is added. A Fork may be installed by `replace_block`.
- The miner scheduler asks the engine for signing jobs (`get_sign_block`).
- Workers read the tip under the lock, mine without it, and submit under it again.
- At start, `main` runs `check_chain`. It re-validates the stored suffix and truncates at the first bad block.

**What is hard here.**
- Caches outlive the data they describe: `last_full_block`, the signer cache and the zones cache.
- Integer arithmetic can underflow or divide by zero in u64 (`chain.rs:852`, `933`).
- The signer election may never end (`chain.rs:932`), and it runs while the engine mutex is held.
- Identity checks are off by one (`id < height`).
- Several SQL statements run without a transaction (`chain.rs:159`, `244`).
- The miner preempts workers through a shared flag with a 100 ms sleep.

## 2. Modules

### `Chain.tla`: the chain engine (C3, C4, C5)

**State.**

| Variable | Code |
|----------|------|
| `blocks` | the blocks table, as a function from index to block |
| `domains`, `zones` | the projection tables, as sets of `[id, identity, key, zone]` rows |
| `lastBlock`, `lastFull` | `Chain.last_block`, `Chain.last_full_block` |
| `signers` | `Chain.signers` |
| `fault` | how the engine thread stopped: `"hang"` for a non-terminating election, `"panic"` for a u64 underflow under overflow checks or a modulo by zero, `"originPanic"` for the origin panic of `check_chain` (`chain.rs:121-123`) |
| `phase` | `"run"` while the engine serves blocks, `"check"` while `check_chain` runs at start (`main.rs:117`), `"down"` after the process stopped |
| `cc` | the loop state of `check_chain`: the next index `id` and its locals `last_block`, `last_full_block` |

**Data abstraction.**
- A block is a record of index, key, transaction, timestamp, the 64-bit signature tail and the previous hash.
- `Hash(b)` is the tuple of the fields a hash commits to, other than the previous hash. Two candidates with the same content have the same hash.
- The gates of `check_block` that only reject are taken as passed, because a rejected block changes nothing. These gates are version, future timestamp, key strength, proof of work, hash and signature.
- The Yggdrasil-records check is left out. It reads record contents, which the model does not have.
- A transaction keeps:
  - its class;
  - its identity;
  - the zone it names (`data.zone` of a domain, or the zone's own name). This is the only part of `data` that any check reads.
- `IsIdAvailable` takes the row with the smallest id. The SQL `LIMIT 1` has no `ORDER BY`, and SQLite returns rows of an integer-keyed table in rowid order. A different row order is not modelled.
- `tail.wrapping_mul(count)` is the plain product. The model's tails are small, so the product never reaches 2^64.

**Actions.**
- `ReceiveBlock(b)` is `check_new_block` followed by `add_block` when the result is Good (as in `miner.rs:280-296`). The signer cache fills whenever the election runs. A non-terminating election or a panic stops the engine (`fault`).
- `ReplaceBlock(b)` is the acceptance of a Fork: `replace_block`. It clears the signer cache, truncates the three tables and calls `add_block`.
- `ProcessStops` is a stop of the process at any moment between two handler calls: the caches in memory are lost and the tables are kept. With `TornTruncation` it may also happen between the three DELETEs of `truncate_db_from_block` (`TruncationTorn`), during a `replace_block` or the truncation of `check_chain`.
- `Restart` is `Chain::new`: `init_db` reloads `last_block` and `last_full_block` from the top of the table, then `check_chain(CheckBlocks)` sets up its window `start..height` and its locals.
- `CheckChainGenesis`, `CheckChainBlock` and `CheckChainDone` are one iteration of the loop of `check_chain` each: block 1 is compared with the origin (a panic when it differs); any other block goes through `check_block` with the loop's locals, and the first one that is not Good truncates the tables and ends the loop; at the end the tip caches are reloaded (`CheckChainEnd`, through `get_last_full_block`, which returns a set cache first).
- The election is written in closed form. The indices visited are `(tail*c) % (F.idx-1) + 1`, and they repeat with period `F.idx - 1`. So the loop ends iff enough keys occur among the first `F.idx - 1` visits. The keys are elected in the order of their first visit.

**Candidates.** The network may deliver any block with an index up to one above the tip. Its previous hash is either the hash of the stored block below it or an unknown hash. `MCChain` restricts the signature tail of signing blocks to one value, since it only feeds their hash.

### `MCChain.tla`: the TLC instance

**Constants.**
- Three keys, one identity and one zone name.
- Tails `{1, 2}` and times `{0, 1}`.
- `MaxIndex = 4`.
- `SignersAll = 2`, `SignersMin = 1`, `SignersStart = 0` (as in the code), and `NewDomainsInterval = 1`.

**Other constants.** `CheckBlocks = 8` (the default of `settings.check_blocks`), so every restart checks the whole bounded chain. `OverflowChecks = FALSE` (a release build). `TornTruncation` is `TRUE` only in `crash_safety` and `torn_truncation`.

**Start state.** The database holds two signing blocks, mined by `k1` and `k2`. A state constraint keeps these two blocks, so forks happen at indices 3 and 4, above the stored prefix.

**Why these bounds are enough.**
- Indices 3 and 4 give a payload block with one and two blocks below it, so the window is 2 or 3.
- They also give a signing block above a payload block, a Fork of either, and a payload block above a payload block.
- Two tails give elections that visit different keys.
- Two times make the cooldown and the timestamp-collision gate both pass and fail.
- `SignersAll = 2` against three keys makes the election both end and hang.
- `crash_safety` uses `MaxIndex = 3`: with torn truncations the projection rows of removed blocks accumulate across restarts, and index 3 already gives a fork, a torn truncation at it and a check of it after restart.

### `Miner.tla`: the miner (C6), with its calls into C5

**State.**

| Variable | Code |
|----------|------|
| `chain` | the chain as the miner sees it: a sequence of `[full, ours, job]` (payload or signing block, mined by this node or not, the payload job it came from) |
| `jobs` | `Miner.jobs`, a sequence of jobs `[kind, id, due]` |
| `current` | `current_job`, the local of `run_main_loop` |
| `mining`, `running` | the two `AtomicBool`s |
| `spc` | where the scheduler thread is: top of the loop, in the 100 ms preemption pause, in `wait_timeout`, or exited |
| `wk` | the worker threads, one slot each: `read` (top of `find_hash`'s loop), `sleep` (the 5 s waiting-signers sleep), `hash` (nonce loop) or `idle`, with the job and the index it read |
| `submitted`, `stops` | bookkeeping of the user's jobs and of `ActionStopMining` events, both bounded |

**Actions.**
- Scheduler, one action per branch of `run_main_loop`:
  - `SchedStartJob` starts the head of the queue if it is due, and `mine_internal` spawns `Threads` workers.
  - `SchedEmptyPush` and `SchedEmptyIdle` are the empty-queue branch, with `get_sign_block` answering or not.
  - `SchedPoll` is a payload job mining with a head that stays; it asks `get_sign_block` unless the head is a signing job.
  - `SchedPreempt` and `SchedResume` are the preemption, with the 100 ms pause between them.
  - `SchedEndIteration` is the `wait_timeout` and the final `if !mining { current_job = None }`.
  - `SchedDropJob` is the fall-through to that line at the top of the loop.
  - `SchedExit` leaves the loop.
- Workers:
  - `WorkerRead` is the tip read under the lock, then the flag check, then the waiting-signers test.
  - `WorkerWake` is the end of the 5 s sleep.
  - `WorkerCancelled` is the flag seen in the nonce loop.
  - `WorkerFinds` is `check_new_block` and `add_block` under the lock, then `mining = false`.
  - `WorkerSeesNewBlock` is the per-second tip check.
- Environment:
  - `AddJob` is `Miner::add_block` of a payload job.
  - `Stop` is `Miner::stop`; `StopMiningEvent` is the bus listener.
  - `ClockPasses` is a signing job's start time being reached.
  - `NetworkBlock` is a block of another node: a signature while the last payload block waits for signers, otherwise a payload block.

**Engine queries.** `get_sign_block`, `update_sign_block_for_mining`, `is_waiting_signers` and `is_good_signer_for_block` are translated onto the abstract chain.

**Abstractions.**
- Forks and `check_block`'s other gates are left to `Chain.tla`. A mined block is Good iff it extends the tip it was mined on and, for a signing block, this node has not signed since the last payload block.
- This node is taken to be among the elected signers.
- Wall-clock waits are arbitrary delays: `wait_timeout(30 s)`, the 5 s sleep, the 60 s rule of `get_sign_block` and the random start of signing jobs.
- The one timing fact kept is the 100 ms preemption pause. `SchedResume` waits until every worker is idle or asleep, because hashing and reading workers see the flag within one hash, while a worker in its 5 s sleep does not.

### `MCMiner.tla`: the TLC instance

**Constants.**
- The chain starts as a genesis payload block (not ours).
- `SignersMin = 2`, so two signatures lock a payload block.
- `Threads = 1` and `MaxWorkers = 3`: a job, the job that preempts it and a requeued copy can each have a live worker.
- `MaxQueue = 3` in the safety runs and 2 in the liveness runs, which admits a payload job plus duplicate signing jobs.
- One user stop event.

**Height bound.** Other nodes add blocks up to `MaxHeight = 3`: two signatures of genesis, and a third block that makes a worker's read stale. The double-mining run needs `MaxHeight = 6`, so that the requeued copy of the job can be signed and mined again.

**Payload jobs.** `{j1, j2}` in the safety runs. The liveness runs use `{j1}` (with `{j1, j2}` for the starvation run).

### `ChainStore.tla`: what the blocks table promises

`ChainStore` is the abstract contract of the blocks table, with one variable `store` and two actions:
- `InstallAt(i)` puts a block at index `i`, which is at most one above the top, drops everything above `i`, and keeps everything below it. The new block must `Follows` the block below it.
- `CutFrom(i)` removes the blocks at `i` and above.

`Init` asks for a linked prefix `1..n`. The link test is a constant operator. `Chain` instantiates it with `check_block`'s test `b.prev = Hash(a)` (`chain.rs:836`).

`Chain` defines `Store == INSTANCE ChainStore WITH store <- blocks`. The refinement mapping is the identity on the blocks table: domains, zones, the caches, the phase and the check cursor are implementation state. `StoreRefined == Store!Spec` is the property that `add_block` and `replace_block` (an install), `truncate_db_from_block` in `check_chain` (a cut), restarts and torn truncations (a cut or nothing) never change the table in any other way.

### `ChainProofs.tla`, `ProjectionProofs.tla`, `RefinementProofs.tla`, `SignersProofs.tla`, `MinerProofs.tla`: TLAPS proofs

See section 4.

## 3. Runs

| Run | Expect | What it shows |
|-----|--------|---------------|
| `chain_safety` | pass | `TypeOK`, `ChainLinked`, `ProjectionConsistent` and `SignersCacheFresh` hold in every interleaving of received blocks, forks, stops and restarts with `check_chain` (28,752 states). |
| `crash_safety` | pass | `StoreRefined`: `Chain` implements `ChainStore` when the process may also stop between the DELETEs of a truncation and `check_chain` runs after every restart. Every step changes the blocks table by an install or a cut (6,652 states). |
| `stale_last_full_block` | violation | `LastFullCoherent`: after `replace_block` removes the last payload block, `last_full_block` still names it (`chain.rs:251`). |
| `identity_taken_over` | violation | `IdentityOwnedOnce`: a key registers the identity owned by the tip block's key, since the lookup uses `id < height` (`chain.rs:763`). |
| `election_hangs` | violation | `ElectionTerminates`: `get_block_signers` loops forever when too few distinct keys mined the blocks below the payload block (`chain.rs:932`). |
| `payload_genesis_panics` | violation | `NoPanic`: with a zone in the genesis block, the first signing block takes `% window` with `window = 0` (`chain.rs:933`). |
| `miner_safety` | pass | `TypeOK` and `SignOncePerPayload` of `Miner`. In every interleaving of the scheduler, three workers, user jobs, stops and other nodes' blocks, this node never signs one payload block twice, although duplicate signing jobs are queued and stale workers survive preemption (2,385,704 states). |
| `miner_liveness` | pass | `SignatureProvided`: with one payload job, a payload block waiting for signers is eventually signed by this node, unless the wait ends or the miner stops (94,164 states). |
| `preempted_job_mined_twice` | violation | `NoJobMinedTwice`: a worker in the 5 s waiting-signers sleep misses the 100 ms preemption (`miner.rs:133`, `325`). It mines the payload job while its requeued copy is started and mined again, so one transaction lands in two blocks. |
| `sign_job_starved` | violation | `SignatureProvided` with two payload jobs. The scheduler looks only at `jobs[0]` (`miner.rs:126`). A signing job behind a queued payload job never starts, while the current payload job sleeps waiting for the signatures this node should give. |
| `payload_job_lost` | violation | `JobEventuallyMined`, under `LiveNetSpec`. A worker clears `mining` after any found hash, also a stale one that `check_new_block` rejects (`miner.rs:294`). A surviving worker of a preempted job does so under the job's requeued copy. `run_main_loop` then forgets `current_job` without requeueing it, and the job is never mined. |
| `torn_truncation` | violation | `ProjectionConsistent`: a stop between the DELETEs of `truncate_db_from_block` (`chain.rs:159-170`) leaves rows of removed blocks; spec says truncation is atomic. |

Deadlock checking is off in every run (`CHECK_DEADLOCK FALSE`) for two reasons. The model bounds the height, and the engine really can stop: the `fault` states are terminal (a hang or panic leaves the engine mutex poisoned or held).

Each property of the passing runs has a mutant, a plausible bug that TLC catches:

| Property | Mutant |
|----------|--------|
| `TypeOK` | a projection row bound one past the block index |
| `ChainLinked` | no Rewind gate |
| `ProjectionConsistent` | truncation that keeps the row at the index |
| `SignersCacheFresh` | `replace_block` without clearing the signer cache |
| `StoreRefined` | `truncate_db_from_block` deleting from `index - 1` (`id >= index` written as `id >= index - 1`) |
| `TypeOK` (`miner_safety`) | `Miner::add_block` giving a payload job a random start, like a signing job |
| `SignOncePerPayload` | `check_new_block` without `is_good_signer_for_block` |
| `SignatureProvided` | `find_hash` sleeping in the waiting-signers branch for signing jobs too (`full &&` dropped at `miner.rs:322`) |

**Fairness.**
- The chain model has no liveness property. Its one progress question, whether the election ends, is the safety property `ElectionTerminates`.
- `Miner`'s `Spec` assumes weak fairness of the scheduler thread (`SchedStep`) and of each worker thread (`WorkerStep(s)`), because they are OS threads that are never blocked forever. `wait_timeout` and the sleeps all end.
- It assumes strong fairness of the two actions in which `get_sign_block` returns a block (`SchedEmptyPush`, `SchedPoll(TRUE)`). They are enabled whenever the block is on offer, but the code refuses while the tip is younger than 60 s, so only strong fairness models "asked again and again, it eventually answers".
- It assumes weak fairness of `ClockPasses`, because time passes.
- The user, `Miner::stop`, the stop event and the other nodes get no fairness.
- `LiveNetSpec` adds one assumption about the network, used only by `payload_job_lost`: while a payload block waits for signers, the other signers eventually sign it. Without it a payload job may wait forever for reasons outside this node.

## 4. Proofs

`ChainProofs.tla` proves two theorems for every value of the constants that satisfies `ConstantsAssumption`, `InitChainAssumption` and `NoBlockAssumption`:
- `TypeCorrect == Spec => []TypeOK`
- `ChainAlwaysLinked == Spec => []ChainLinked`

**Why TypeOK needs strengthening.** `TypeOK` alone is not inductive. A candidate's previous hash is the hash of `blocks[i-1]`. That value is a well-typed hash only because the table has no gaps below the tip. The inductive invariant is therefore `IInv == TypeOK /\ ChainLinked`.

The restart actions are covered too: after `ProcessStops` the invariant only asks the table to be a linked prefix, and `Restart`, `CheckChainDone` and `CheckChainBlock` re-establish `last_block = blocks[Height]` by `TopOfPrefix` (the top of a table `1..n` is block `n`). `TruncationTorn` keeps the blocks table a prefix whichever DELETE it stops after, because the blocks DELETE is the first one. The proofs hold for every `CheckBlocks`, `OverflowChecks` and `TornTruncation`.

**The argument.**
- `CandidateType`: a delivered block is a `Block` with index at most `Height + 1`.
- `GoodExtendsTip`: a Good block has index `Height + 1` and carries the tip's hash.
- `ForkReplacesStored`: a Fork lies in `1..Height` and carries the hash of the block below it. Both lemmas rest on the Rewind gate and on `FinalQuality`.
- `AddBlockLinked`: `add_block` on a linked prefix `1..b.idx-1` gives a linked table `1..b.idx` with `last_block` on top. This covers both paths: the untruncated table for Good, and the truncated table for Fork.
- `SignersAfterCheckType`: every index the election visits lies inside the table. It rests on `VisitInWindow`.
- `MaxExists` (from `WFMin` of the well-founded induction library) shows that the last-payload query picks a stored block.

**The projection tables.** `ProjectionProofs.tla` proves
- `ProjectionAlwaysConsistent == ASSUME ~TornTruncation PROVE Spec => []ProjectionConsistent`.

The inductive invariant is `IInv /\ ProjectionConsistent`; `IInv` is needed because a row's id equals its block's index only because `blocks[j].idx = j` (`ChainLinked`). Two lemmas about `Proj(bl, c)`, the rows the payload blocks of class `c` of a table define, carry the argument:
- `ProjTrunc`: truncating the blocks table at `i` truncates its projection at `i`.
- `ProjAdd`: inserting a block at a fresh index adds its row to its own class and nothing else.

`add_block` (Good block), `replace_block` (truncate and add) and `check_chain`'s truncation follow from them; restarts leave the tables alone. The assumption `~TornTruncation` is necessary: run `torn_truncation` shows the property fails otherwise.

**The refinement.** `RefinementProofs.tla` proves
- `StoreImplemented == Spec => StoreRefined`.

It reuses `IInv` of `ChainProofs`. `IInv` gives `Store!Init`, because `ChainLinked` makes the table a linked prefix (`StoreLinked`). For the steps:
- `AddBlockInstalls`: `add_block` of a block at `b.idx <= Height + 1` that carries the hash of the block below is `InstallAt(b.idx)`.
- A Good block (`ReceiveRefines`) and a Fork (`ReplaceRefines`) meet those conditions by `GoodExtendsTip` and `ForkReplacesStored`.
- `TruncRefines`: truncating at an index in the table is `CutFrom`; truncating at `Height + 1` changes nothing. This covers `check_chain`'s truncation (`CheckChainBlockRefines`) and the torn truncation (`TornRefines`).
- Restarts and the other steps of `check_chain` leave the table alone.

The final step is by `PTL`.

**The signer cache.** `SignersProofs.tla` proves
- `SignersCacheAlwaysFresh == Spec => []SignersCacheFresh`.

It holds for every value of the constants, `TornTruncation` and `CheckBlocks` included. `SignersCacheFresh` is not inductive: it says nothing of the cache when its index is above the table, yet such a cache becomes stale the moment a block is stored there. The inductive invariant is
`SInv == IInv /\ FullStored(lastFull) /\ FullStored(cc.full) /\ CacheBelowTip /\ SignersCacheFresh`. Each conjunct is needed:
- `CacheBelowTip`: the cache index is at most `Height` while running, below the cursor `cc.id` during `check_chain`, and the cache is empty while stopped. An append or a truncation at the cursor therefore never touches the blocks the cached election read.
- `FullStored(F)`: the payload block `F` that the next election starts from (`last_full_block`, or the loop's own one in `check_chain`) is the block stored at its index. A cache filled from `F` is then the election at a stored block.
- `IInv` of `ChainProofs` gives the table's shape.

TLC checked `SInv` as an invariant before the proof: 28,752 states on `chain_safety`'s constants, 6,652 on `crash_safety`'s, and runs with `CheckBlocks = 1` and with `TornTruncation` and `CheckBlocks = 0`.

The lemmas carry the argument:
- `ElectedFrame`: an election reads only the blocks below its start.
- `CacheKept`: a step that keeps the table up to the cache index keeps the cache fresh.
- `CacheAfterCheck`: the same for a step that refills the cache through `SignersAfterCheck`.
- `FullStoredKept`, `LastPayloadStored`: the payload-block pointers stay stored.

`replace_block` is the one step that may rewrite blocks below the cache index, and it empties the cache (`ReplaceSInv`).

**The miner.** `MinerProofs.tla` proves, for every value of the constants satisfying `MinerAssumption`:
- `MinerTypeCorrect == Spec => []TypeOK`;
- `SignOnceKept == Spec => (SignOncePerPayload => []SignOncePerPayload)`.

The second starts from a chain on which the property holds. `MinerAssumption` lets `InitChain` be any chain, because the miner starts on whatever the database holds. The theorem says the miner never introduces a second signature.

`TypeOK` is not inductive. Its inductive invariant is `TInv == TypeOK /\ ThreadsCarryJobs`, which adds two facts about the threads:
- In the 100 ms preemption pause the current job is a payload job and the queue is not empty. `SchedResume` puts the job back and takes the head.
- A worker that is not idle carries a job. A worker without one would mine a block that `MinedGood` does not check as a signature.

`SignOncePerPayload` is then kept by each append (`AppendSignOnce`). A signature passes `check_new_block` only when none of ours lies above the last payload block (`GoodSignatureSpaced`). The last payload block is the highest one (`LastFullFacts`, on `MaxOfIsMax`), so an earlier signature of ours has a payload block above it. TLC checked `MInv == TInv /\ SignOncePerPayload` on `miner_safety`'s constants (2,385,704 states) before the proof.

**Out of TLAPS' reach, left to TLC.**
- Liveness, which needs ENABLED and fairness: `SignatureProvided` (run `miner_liveness`), and `JobEventuallyMined`.
- What a recursive operator computes for every input. None of the modules with theorems uses recursion.
- The properties of the violation runs, which are false.

## 5. Not modelled yet, and the plan

**Not modelled.**
- `init_db`'s origin wipe and migrations (options table).
- A stop inside `add_block` between the block insert and the row insert.
- In the miner:
  - `Miner::add_block` of a signing block (its retain of queued signing jobs, `miner.rs:69-71`);
  - the genesis job of `create_genesis_if_needed` (`main.rs:203`);
  - the weak-key exit of `mine_internal`;
  - the signer election seen from the miner (this node is assumed elected);
  - the `MinerStarted`/`MinerStopped`/`MinerStats` events, which only feed the UI.
- Three divergences found while modelling the engine are not checked by any run of this version:
  - `is_good_sign_block` returns early for payload blocks (`chain.rs:849`), so the rule of spec 4.4 that rejects a payload block above an unlocked one is dead code;
  - a Fork at index 1 replaces an origin genesis (`chain.rs:796`);
  - `check_chain` may truncate a chain the engine accepted (`chain.rs:896`), or, with an empty origin setting, panic on block 1 at every start (`chain.rs:121`, `miner.rs:287`).
- `run_main_loop` pushes a signing job on every iteration while `jobs[0]` is a payload job (`miner.rs:157`), so duplicate signing jobs queue up against spec 4.8. `SignOncePerPayload` shows the duplicates never make this node sign twice, and `sign_job_starved` shows what the head-only scheduling costs.
- The negative random offset of `miner.rs:156` has no effect a property could see. A signing job may become due at any moment in the model.
- The zones cache and the UI queries (`get_my_domains`, `can_mine_domain`, `get_domain_info`).
- C1 and C2, beyond the abstraction above.

**Plan.**
1. (Done in this version: the restart model.)
2. (Done: the `Miner` module, with the findings of runs `preempted_job_mined_twice`, `sign_job_starved` and `payload_job_lost`.)
3. (Done: the abstract `ChainStore` that `Chain` refines, checked in `crash_safety` and proved.)
4. A composition of the engine with the miner, replacing `Miner`'s abstract chain by `Chain`'s tables.
5. (Done: proofs of `SignersCacheFresh`, and of the miner's `TypeOK` and `SignOncePerPayload`.)
6. An action property of the miner's queue (a preempted payload job goes back to the head), stated and proved from `TInv`.
