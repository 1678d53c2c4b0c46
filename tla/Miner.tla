------------------------------- MODULE Miner -------------------------------
(***************************************************************************)
(* The miner of src/src/miner.rs: the job queue (Miner.jobs), the          *)
(* scheduler thread (run_main_loop) with its local current_job, the shared *)
(* mining flag that cancels worker threads, the worker threads of          *)
(* find_hash, and the calls the scheduler and the workers make into the    *)
(* chain engine (get_sign_block, update_sign_block_for_mining,             *)
(* is_waiting_signers, check_new_block and add_block).                     *)
(*                                                                         *)
(* The chain is abstracted to what those calls read: the sequence of       *)
(* blocks, each a payload ("full") block or a signing block, mined by this *)
(* node or not, and for our payload blocks the job they came from.  Forks  *)
(* and the gates of check_block are the subject of Chain.tla; here a       *)
(* mined block is Good when it extends the tip it was mined on and, for a  *)
(* signing block, this node has not yet signed the last payload block.     *)
(*                                                                         *)
(* Wall-clock waits (the 30 s wait_timeout and sleep, the 5 s sleep of a   *)
(* worker waiting for signers, the 60 s rule of get_sign_block, a signing  *)
(* job's random start) are arbitrary delays.  The one timing fact the      *)
(* model keeps is the 100 ms pause of a preemption: a worker that is       *)
(* hashing or about to read the tip notices the cleared flag within it;    *)
(* a worker in its 5 s sleep does not.                                     *)
(***************************************************************************)
EXTENDS Naturals, Sequences, FiniteSets

CONSTANTS
    FullJobs,      \* payload jobs the user submits (model values)
    NoId,          \* the job field of a block that is not ours
    Threads,       \* settings.mining.threads: workers per job
    MaxWorkers,    \* bound: worker threads alive at once
    SignersMin,    \* BLOCK_SIGNERS_MIN
    InitChain,     \* the chain at start
    MaxHeight,     \* bound: height up to which other nodes add blocks
    MaxQueue,      \* bound: length of the job queue
    MaxUserStops   \* bound: ActionStopMining events

BlockRec == [full : BOOLEAN, ours : BOOLEAN, job : FullJobs \cup {NoId}]

ASSUME MinerAssumption ==
    /\ NoId \notin FullJobs
    /\ Threads \in Nat \ {0}
    /\ MaxWorkers \in Nat /\ Threads <= MaxWorkers
    /\ SignersMin \in Nat \ {0}
    /\ InitChain \in Seq(BlockRec) /\ InitChain # <<>>
    /\ MaxHeight \in Nat /\ MaxQueue \in Nat /\ MaxUserStops \in Nat

Slots == 1..MaxWorkers

\* MineJob: a payload job (start 0, always due) or a signing job, due once
\* its random start time has passed.
Job == [kind : {"full"}, id : FullJobs, due : {TRUE}]
         \cup [kind : {"sign"}, id : {NoId}, due : BOOLEAN]
NoJob == [kind |-> "none", id |-> NoId, due |-> FALSE]

\* A worker thread: "read" at the top of find_hash's outer loop, "sleep"
\* in the 5 s wait for signers, "hash" in the nonce loop; "idle" is a free
\* slot.  idx is the block index read from the tip.
Idle == [pc |-> "idle", job |-> NoJob, idx |-> 0]

VARIABLES
    chain,      \* the blocks, as seen by the miner
    jobs,       \* Miner.jobs
    current,    \* run_main_loop's current_job
    mining,     \* Miner.mining
    running,    \* Miner.running
    spc,        \* the scheduler thread: "top", "preempt", "wait", "exited"
    wk,         \* worker slots
    submitted,  \* payload jobs the user has handed to add_block
    stops       \* ActionStopMining events so far

vars == <<chain, jobs, current, mining, running, spc, wk, submitted, stops>>

-----------------------------------------------------------------------------
(* What the miner asks the chain engine *)

Height == Len(chain)

MaxOf(S) == CHOOSE m \in S : \A x \in S : x <= m

\* last_full_block.index, or 0 for None.
LastFullIndex ==
    IF \E i \in DOMAIN chain : chain[i].full
    THEN MaxOf({i \in DOMAIN chain : chain[i].full}) ELSE 0

\* is_waiting_signers
IsWaitingSigners == LastFullIndex > 0 /\ Height - LastFullIndex < SignersMin

\* get_sign_block's scan of last_full_block.index..height for a block of
\* our key: we mined the payload block itself or already signed it.
OursSinceLastFull == \E i \in LastFullIndex..Height : i > 0 /\ chain[i].ours

\* get_sign_block returns a block (this node is taken to be among the
\* elected signers; the 60 s rule on the tip's age is the caller's choice).
SignBlockOffered == IsWaitingSigners /\ ~OursSinceLastFull

\* update_sign_block_for_mining returns a block.
SignBlockForMining == LastFullIndex > 0 /\ Height - LastFullIndex < SignersMin

\* check_new_block of a block mined by worker w: it must extend the tip it
\* was mined on, and a signing block's key must not have signed the last
\* payload block yet (is_good_signer_for_block).
MinedGoodNoSignerCheck(w) == w.idx = Height + 1

MinedGood(w) ==
    /\ w.idx = Height + 1
    /\ w.job.kind = "sign" =>
         ~\E i \in (LastFullIndex + 1)..Height : chain[i].ours

MinedBlock(w) == [full |-> w.job.kind = "full", ours |-> TRUE, job |-> w.job.id]

-----------------------------------------------------------------------------
(* mine_internal *)

FreeSlots == {s \in Slots : wk[s].pc = "idle"}

\* Spawn Threads workers for job in the lowest free slots.
Spawn(job) ==
    LET take == {s \in FreeSlots : Cardinality({t \in FreeSlots : t < s}) < Threads}
    IN  /\ Cardinality(FreeSlots) >= Threads
        /\ wk' = [s \in Slots |-> IF s \in take
                                  THEN [pc |-> "read", job |-> job, idx |-> 0]
                                  ELSE wk[s]]

\* mine_internal, called with the mining flag just set: a signing job
\* whose block update_sign_block_for_mining refuses clears the flag and
\* returns; otherwise the workers start.
MineInternal(job) ==
    IF job.kind = "sign" /\ ~SignBlockForMining
    THEN mining' = FALSE /\ UNCHANGED wk
    ELSE mining' = TRUE /\ Spawn(job)

\* get_sign_block returned a block: a signing job is queued with a random
\* start, due now or later.
PushSignJob ==
    /\ SignBlockOffered
    /\ Len(jobs) < MaxQueue
    /\ \E d \in BOOLEAN : jobs' = Append(jobs, [kind |-> "sign", id |-> NoId, due |-> d])

HeadIsDueSign == jobs # <<>> /\ Head(jobs).kind = "sign" /\ Head(jobs).due

-----------------------------------------------------------------------------
(* The scheduler thread, run_main_loop *)

\* No current job: the head of the queue starts if it is due.
SchedStartJob ==
    /\ spc = "top" /\ running /\ current = NoJob /\ jobs # <<>>
    /\ IF Head(jobs).due
       THEN /\ jobs' = Tail(jobs) /\ current' = Head(jobs)
            /\ MineInternal(Head(jobs))
       ELSE UNCHANGED <<jobs, current, mining, wk>>
    /\ spc' = "wait"
    /\ UNCHANGED <<chain, running, submitted, stops>>

\* No current job and an empty queue: get_sign_block gives a signing job.
SchedEmptyPush ==
    /\ spc = "top" /\ running /\ current = NoJob /\ jobs = <<>>
    /\ PushSignJob
    /\ spc' = "wait"
    /\ UNCHANGED <<chain, current, mining, running, wk, submitted, stops>>

\* ... or none (nothing to sign, or the tip is younger than 60 s).
SchedEmptyIdle ==
    /\ spc = "top" /\ running /\ current = NoJob /\ jobs = <<>>
    /\ spc' = "wait"
    /\ UNCHANGED <<chain, jobs, current, mining, running, wk, submitted, stops>>

\* A payload job is mining and the head of the queue is not a due signing
\* job: it stays; unless it is a signing job, get_sign_block is asked.
SchedPoll(push) ==
    /\ spc = "top" /\ running /\ current.kind = "full" /\ mining
    /\ ~HeadIsDueSign
    /\ IF push
       THEN ~(jobs # <<>> /\ Head(jobs).kind = "sign") /\ PushSignJob
       ELSE UNCHANGED jobs
    /\ spc' = "wait"
    /\ UNCHANGED <<chain, current, mining, running, wk, submitted, stops>>

\* A due signing job preempts the payload job: the flag is cleared and the
\* scheduler sleeps 100 ms holding the queue.
SchedPreempt ==
    /\ spc = "top" /\ running /\ current.kind = "full" /\ mining
    /\ HeadIsDueSign
    /\ mining' = FALSE
    /\ spc' = "preempt"
    /\ UNCHANGED <<chain, jobs, current, running, wk, submitted, stops>>

\* After the pause the payload job goes back to the head of the queue and
\* the signing job starts.
SchedResume ==
    /\ spc = "preempt"
    /\ \A s \in Slots : wk[s].pc \in {"idle", "sleep"}
    /\ jobs' = <<current>> \o Tail(jobs)
    /\ current' = Head(jobs)
    /\ MineInternal(Head(jobs))
    /\ spc' = "top"
    /\ UNCHANGED <<chain, running, submitted, stops>>

\* A current job whose flag is cleared is forgotten.
SchedDropJob ==
    /\ spc = "top" /\ running /\ current # NoJob /\ ~mining
    /\ current' = NoJob
    /\ UNCHANGED <<chain, jobs, mining, running, spc, wk, submitted, stops>>

\* The end of an iteration, after wait_timeout.
SchedEndIteration ==
    /\ spc = "wait"
    /\ current' = IF mining THEN current ELSE NoJob
    /\ spc' = "top"
    /\ UNCHANGED <<chain, jobs, mining, running, wk, submitted, stops>>

SchedExit ==
    /\ spc = "top" /\ ~running
    /\ spc' = "exited"
    /\ UNCHANGED <<chain, jobs, current, mining, running, wk, submitted, stops>>

-----------------------------------------------------------------------------
(* The worker threads, find_hash and the thread body of mine_internal *)

SetWorker(s, w) == wk' = [wk EXCEPT ![s] = w]

WorkerReadAnyJobSleeps(s) ==
    /\ wk[s].pc = "read"
    /\ IF ~mining
       THEN SetWorker(s, Idle)
       ELSE SetWorker(s, [wk[s] EXCEPT
                !.idx = Height + 1,
                !.pc = IF IsWaitingSigners THEN "sleep" ELSE "hash"])
    /\ UNCHANGED <<chain, jobs, current, mining, running, spc, submitted, stops>>

\* Top of find_hash's loop: read the tip and is_waiting_signers under the
\* lock, then the flag.
WorkerRead(s) ==
    /\ wk[s].pc = "read"
    /\ IF ~mining
       THEN SetWorker(s, Idle)
       ELSE SetWorker(s, [wk[s] EXCEPT
                !.idx = Height + 1,
                !.pc = IF wk[s].job.kind = "full" /\ IsWaitingSigners
                       THEN "sleep" ELSE "hash"])
    /\ UNCHANGED <<chain, jobs, current, mining, running, spc, submitted, stops>>

WorkerWake(s) ==
    /\ wk[s].pc = "sleep"
    /\ SetWorker(s, [wk[s] EXCEPT !.pc = "read"])
    /\ UNCHANGED <<chain, jobs, current, mining, running, spc, submitted, stops>>

\* The nonce loop sees the flag cleared.
WorkerCancelled(s) ==
    /\ wk[s].pc = "hash" /\ ~mining
    /\ SetWorker(s, Idle)
    /\ UNCHANGED <<chain, jobs, current, mining, running, spc, submitted, stops>>

\* A hash is found: under the lock check_new_block, add_block when Good,
\* and the flag is cleared in any case.
WorkerFinds(s) ==
    /\ wk[s].pc = "hash" /\ mining
    /\ chain' = IF MinedGood(wk[s]) THEN Append(chain, MinedBlock(wk[s])) ELSE chain
    /\ mining' = FALSE
    /\ SetWorker(s, Idle)
    /\ UNCHANGED <<jobs, current, running, spc, submitted, stops>>

\* After a second of hashing the chain has grown past the block: a signing
\* worker drops the work and clears the flag, a payload worker re-reads.
WorkerSeesNewBlock(s) ==
    /\ wk[s].pc = "hash" /\ mining
    /\ wk[s].idx > 1 /\ Height >= wk[s].idx
    /\ IF wk[s].job.kind = "sign"
       THEN mining' = FALSE /\ SetWorker(s, Idle)
       ELSE UNCHANGED mining /\ SetWorker(s, [wk[s] EXCEPT !.pc = "read"])
    /\ UNCHANGED <<chain, jobs, current, running, spc, submitted, stops>>

-----------------------------------------------------------------------------
(* The environment: the user, the clock and the other nodes *)

AddJobRandomStart(j) ==
    /\ j \notin submitted /\ Len(jobs) < MaxQueue
    /\ \E d \in BOOLEAN : jobs' = Append(jobs, [kind |-> "full", id |-> j, due |-> d])
    /\ submitted' = submitted \cup {j}
    /\ UNCHANGED <<chain, current, mining, running, spc, wk, stops>>

\* Miner::add_block of a payload job.
AddJob(j) ==
    /\ j \notin submitted /\ Len(jobs) < MaxQueue
    /\ jobs' = Append(jobs, [kind |-> "full", id |-> j, due |-> TRUE])
    /\ submitted' = submitted \cup {j}
    /\ UNCHANGED <<chain, current, mining, running, spc, wk, stops>>

\* Miner::stop
Stop ==
    /\ running
    /\ mining' = FALSE /\ running' = FALSE
    /\ UNCHANGED <<chain, jobs, current, spc, wk, submitted, stops>>

\* The ActionStopMining event.
StopMiningEvent ==
    /\ stops < MaxUserStops
    /\ mining' = FALSE /\ stops' = stops + 1
    /\ UNCHANGED <<chain, jobs, current, running, spc, wk, submitted>>

\* Time passes the start of a queued signing job.
ClockPasses ==
    /\ \E i \in DOMAIN jobs :
         /\ ~jobs[i].due
         /\ jobs' = [jobs EXCEPT ![i].due = TRUE]
    /\ UNCHANGED <<chain, current, mining, running, spc, wk, submitted, stops>>

\* Another node's block arrives: a signature while the last payload block
\* waits for signers, a payload block otherwise.
NetworkBlock ==
    /\ Height < MaxHeight
    /\ chain' = Append(chain, [full |-> ~IsWaitingSigners, ours |-> FALSE, job |-> NoId])
    /\ UNCHANGED <<jobs, current, mining, running, spc, wk, submitted, stops>>

-----------------------------------------------------------------------------

Init ==
    /\ chain = InitChain
    /\ jobs = <<>>
    /\ current = NoJob
    /\ mining = FALSE
    /\ running = TRUE
    /\ spc = "top"
    /\ wk = [s \in Slots |-> Idle]
    /\ submitted = {}
    /\ stops = 0

SchedStep ==
    \/ SchedStartJob \/ SchedEmptyIdle \/ SchedPoll(FALSE)
    \/ SchedPreempt \/ SchedResume \/ SchedDropJob \/ SchedEndIteration
    \/ SchedExit

WorkerStep(s) ==
    WorkerRead(s) \/ WorkerWake(s) \/ WorkerCancelled(s)
        \/ WorkerFinds(s) \/ WorkerSeesNewBlock(s)

Next ==
    \/ SchedStep \/ SchedEmptyPush \/ SchedPoll(TRUE)
    \/ \E s \in Slots : WorkerStep(s)
    \/ \E j \in FullJobs : AddJob(j)
    \/ Stop \/ StopMiningEvent \/ ClockPasses \/ NetworkBlock

\* The scheduler and every worker are threads the OS keeps running; a
\* get_sign_block that keeps being asked while its block is on offer
\* returns it once the tip is older than 60 s, and time passes.
Fairness ==
    /\ WF_vars(SchedStep)
    /\ SF_vars(SchedEmptyPush) /\ SF_vars(SchedPoll(TRUE))
    /\ \A s \in Slots : WF_vars(WorkerStep(s))
    /\ WF_vars(ClockPasses)

Spec == Init /\ [][Next]_vars /\ Fairness

\* The network assumption under which a payload job can be expected to be
\* mined: while the last payload block waits for signers, the other
\* elected signers eventually sign it.
LiveNetSpec == Spec /\ WF_vars(IsWaitingSigners /\ NetworkBlock)

-----------------------------------------------------------------------------
(* Properties *)

TypeOK ==
    /\ chain \in Seq(BlockRec)
    /\ jobs \in Seq(Job)
    /\ current \in Job \cup {NoJob}
    /\ mining \in BOOLEAN /\ running \in BOOLEAN
    /\ spc \in {"top", "preempt", "wait", "exited"}
    /\ wk \in [Slots -> [pc : {"idle", "read", "sleep", "hash"},
                         job : Job \cup {NoJob}, idx : Nat]]
    /\ submitted \subseteq FullJobs
    /\ stops \in 0..MaxUserStops

\* This node signs a payload block at most once, although get_sign_block
\* queues duplicate signing jobs and update_sign_block_for_mining moves a
\* signing job to whatever the tip is when it starts: is_good_signer_for_block
\* rejects a second signature.
SignOncePerPayload ==
    \A i, k \in DOMAIN chain :
        /\ i < k /\ chain[i].ours /\ chain[k].ours
        /\ ~chain[i].full /\ ~chain[k].full
        => \E m \in (i + 1)..k : chain[m].full

\* Each payload job the user submits is mined into at most one block: the
\* preempted job goes back to the queue while its workers may still be
\* alive.
NoJobMinedTwice ==
    \A i, k \in DOMAIN chain :
        chain[i].job \in FullJobs /\ chain[i].job = chain[k].job => i = k

\* While the last payload block waits for signers that include this node,
\* the node eventually signs it (or the waiting ends, or the miner stops).
SignatureProvided ==
    IsWaitingSigners ~> (~IsWaitingSigners \/ OursSinceLastFull \/ ~running)

\* Every payload job handed to Miner::add_block is eventually mined into a
\* block of the chain, unless the miner is stopped: a job is only taken
\* off the queue to be mined, and a preempted one is put back.
JobEventuallyMined ==
    \A j \in FullJobs :
        j \in submitted ~> (\E i \in DOMAIN chain : chain[i].job = j) \/ ~running

=============================================================================
