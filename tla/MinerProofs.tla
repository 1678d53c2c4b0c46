---------------------------- MODULE MinerProofs ----------------------------
(***************************************************************************)
(* Proofs about the miner: every reachable state is well typed, and this   *)
(* node never signs one payload block twice.                               *)
(*                                                                         *)
(* Neither invariant is inductive as it stands.  TypeOK needs two facts    *)
(* about the threads: the scheduler sleeps in its 100 ms preemption pause  *)
(* only with a payload job current and a nonempty queue (SchedResume puts  *)
(* the job back and takes the head), and a live worker carries a job      *)
(* (a worker with no job would mine a block that check_new_block takes for *)
(* a payload of nobody's job, or a signature it does not check).  With     *)
(* those, SignOncePerPayload is kept by each append: a signature is only   *)
(* added when none of ours follows the last payload block, so an earlier   *)
(* signature of ours lies below that payload block.                        *)
(***************************************************************************)
EXTENDS Miner, WellFoundedInduction, TLAPS

\* What the threads hold that TypeOK needs to be inductive.
ThreadsCarryJobs ==
    /\ spc = "preempt" => current.kind = "full" /\ jobs # <<>>
    /\ \A s \in Slots : wk[s].pc # "idle" => wk[s].job \in Job

\* The inductive invariant behind TypeOK.
TInv == TypeOK /\ ThreadsCarryJobs

\* The inductive invariant behind SignOncePerPayload.
MInv == TInv /\ SignOncePerPayload

\* A step keeps TInv, and keeps SignOncePerPayload when it holds before.
KeepsInv == TInv' /\ (SignOncePerPayload => SignOncePerPayload')

\* SignOncePerPayload for a given sequence of blocks.
SignOnceIn(c) ==
    \A i, k \in DOMAIN c :
        /\ i < k /\ c[i].ours /\ c[k].ours
        /\ ~c[i].full /\ ~c[k].full
        => \E m \in (i + 1)..k : c[m].full

-----------------------------------------------------------------------------
(* Lemmas on the chain queries *)

\* A nonempty set of block indices has a largest element, the one MaxOf
\* picks.
LEMMA MaxOfIsMax ==
    ASSUME NEW n \in Nat, NEW P \in SUBSET (1..n), P # {}
    PROVE  MaxOf(P) \in P /\ \A j \in P : j <= MaxOf(P)
<1> DEFINE T == {n - i : i \in P}
<1>1. T \subseteq Nat /\ T # {}
  <2>1. \A i \in P : n - i \in Nat
    OBVIOUS
  <2>2. PICK p \in P : TRUE
    OBVIOUS
  <2>3. n - p \in T
    OBVIOUS
  <2>4. QED
    BY <2>1, <2>3
<1>2. \E x \in T : \A y \in T : ~(<<y, x>> \in OpToRel(<, Nat))
  BY <1>1, NatLessThanWellFounded, WFMin
<1>3. PICK x \in T : \A y \in T : ~(y < x)
  BY <1>1, <1>2 DEF OpToRel
<1>4. PICK i0 \in P : x = n - i0
  BY <1>3
<1>5. \A j \in P : j <= i0
  <2> TAKE j \in P
  <2>1. n - j \in T
    OBVIOUS
  <2>2. ~(n - j < n - i0)
    BY <1>3, <1>4, <2>1
  <2>3. j \in 1..n /\ i0 \in 1..n
    OBVIOUS
  <2>4. QED
    BY <2>2, <2>3
<1>6. \E i \in P : \A j \in P : j <= i
  BY <1>5
<1>7. QED
  BY <1>6 DEF MaxOf

\* last_full_block is the highest payload block: a payload block when
\* there is one, and only signatures above it.
LEMMA LastFullFacts ==
    ASSUME chain \in Seq(BlockRec)
    PROVE  /\ LastFullIndex \in 0..Height
           /\ LastFullIndex > 0 => chain[LastFullIndex].full
           /\ \A j \in (LastFullIndex + 1)..Height : ~chain[j].full
<1> DEFINE P == {i \in DOMAIN chain : chain[i].full}
<1>1. DOMAIN chain = 1..Height /\ Height \in Nat
  BY DEF Height
<1>2. PICK L : L = LastFullIndex
  OBVIOUS
<1>3. CASE P = {}
  <2>1. ~\E i \in DOMAIN chain : chain[i].full
    BY <1>3
  <2>2. L = 0
    BY <1>2, <2>1 DEF LastFullIndex
  <2>3. QED
    BY <1>1, <1>2, <2>1, <2>2
<1>4. CASE P # {}
  <2>1. MaxOf(P) \in P /\ \A j \in P : j <= MaxOf(P)
    BY <1>1, <1>4, MaxOfIsMax
  <2>2. \E i \in DOMAIN chain : chain[i].full
    BY <1>4
  <2>3. L = MaxOf(P)
    BY <1>2, <2>2 DEF LastFullIndex
  <2>4. L \in 1..Height /\ chain[L].full
    BY <1>1, <2>1, <2>3
  <2>5. \A j \in (L + 1)..Height : ~chain[j].full
    <3> SUFFICES ASSUME NEW j \in (L + 1)..Height, chain[j].full PROVE FALSE
      OBVIOUS
    <3>1. j \in P
      BY <1>1, <2>4
    <3>2. j <= MaxOf(P)
      BY <2>1, <3>1
    <3>3. QED
      BY <1>1, <2>3, <2>4, <3>2
  <2>6. QED
    BY <1>2, <2>4, <2>5
<1>5. QED
  BY <1>3, <1>4

\* Appending a block keeps the property when the block is not one of our
\* signatures, or when every earlier signature of ours has a payload
\* block above it.
LEMMA AppendSignOnce ==
    ASSUME NEW c \in Seq(BlockRec), SignOnceIn(c), NEW x \in BlockRec,
           x.ours /\ ~x.full =>
               \A i \in DOMAIN c : c[i].ours /\ ~c[i].full =>
                   \E m \in (i + 1)..Len(c) : c[m].full
    PROVE  SignOnceIn(Append(c, x))
<1> DEFINE d == Append(c, x)
<1>1. DOMAIN d = 1..(Len(c) + 1) /\ d[Len(c) + 1] = x
      /\ \A i \in 1..Len(c) : d[i] = c[i]
  OBVIOUS
<1> SUFFICES ASSUME NEW i \in DOMAIN d, NEW k \in DOMAIN d,
                    i < k, d[i].ours, d[k].ours, ~d[i].full, ~d[k].full
             PROVE  \E m \in (i + 1)..k : d[m].full
  BY DEF SignOnceIn
<1>2. CASE k = Len(c) + 1
  <2>1. i \in DOMAIN c /\ c[i].ours /\ ~c[i].full /\ x.ours /\ ~x.full
    BY <1>1, <1>2
  <2>2. PICK m \in (i + 1)..Len(c) : c[m].full
    BY <2>1
  <2>3. QED
    BY <1>1, <1>2, <2>2
<1>3. CASE k # Len(c) + 1
  <2>1. i \in DOMAIN c /\ k \in DOMAIN c /\ c[i] = d[i] /\ c[k] = d[k]
    BY <1>1, <1>3
  <2>2. PICK m \in (i + 1)..k : c[m].full
    BY <2>1 DEF SignOnceIn
  <2>3. QED
    BY <1>1, <2>1, <2>2
<1>4. QED
  BY <1>2, <1>3

-----------------------------------------------------------------------------
(* The invariant across each step *)

\* A worker slot's record.
WorkerRec == [pc : {"idle", "read", "sleep", "hash"}, job : Job \cup {NoJob}, idx : Nat]

\* A step that leaves the chain, the queue and the workers alone keeps the
\* invariant when its other variables keep their types and the pause
\* keeps its payload job.
LEMMA FrameKeeps ==
    ASSUME TInv, UNCHANGED <<chain, jobs, wk, submitted>>,
           current' \in Job \cup {NoJob}, mining' \in BOOLEAN, running' \in BOOLEAN,
           spc' \in {"top", "preempt", "wait", "exited"}, stops' \in 0..MaxUserStops,
           spc' = "preempt" => current'.kind = "full" /\ jobs # <<>>
    PROVE  KeepsInv
BY DEF KeepsInv, TInv, TypeOK, ThreadsCarryJobs, SignOncePerPayload

\* Spawn's workers carry the job.
LEMMA SpawnOK ==
    ASSUME TypeOK, ThreadsCarryJobs, NEW job \in Job, Spawn(job)
    PROVE  /\ wk' \in [Slots -> WorkerRec]
           /\ \A s \in Slots : wk'[s].pc # "idle" => wk'[s].job \in Job
<1> DEFINE take == {s \in FreeSlots : Cardinality({t \in FreeSlots : t < s}) < Threads}
<1>1. wk' = [s \in Slots |-> IF s \in take
                             THEN [pc |-> "read", job |-> job, idx |-> 0]
                             ELSE wk[s]]
  BY DEF Spawn
<1>2. [pc |-> "read", job |-> job, idx |-> 0] \in WorkerRec
  BY DEF WorkerRec
<1>3. \A s \in Slots : wk[s] \in WorkerRec /\ (wk[s].pc # "idle" => wk[s].job \in Job)
  BY DEF TypeOK, ThreadsCarryJobs, WorkerRec
<1>4. QED
  BY <1>1, <1>2, <1>3

\* mine_internal starts workers that carry the job, or starts none.
LEMMA MineInternalOK ==
    ASSUME TypeOK, ThreadsCarryJobs, NEW job \in Job, MineInternal(job)
    PROVE  /\ mining' \in BOOLEAN
           /\ wk' \in [Slots -> WorkerRec]
           /\ \A s \in Slots : wk'[s].pc # "idle" => wk'[s].job \in Job
<1>1. CASE job.kind = "sign" /\ ~SignBlockForMining
  BY <1>1 DEF MineInternal, TypeOK, ThreadsCarryJobs, WorkerRec
<1>2. CASE ~(job.kind = "sign" /\ ~SignBlockForMining)
  <2>1. mining' = TRUE /\ Spawn(job)
    BY <1>2 DEF MineInternal
  <2>2. QED
    BY <2>1, SpawnOK
<1>3. QED
  BY <1>1, <1>2

\* The scheduler steps that only move its own control, or clear flags.
LEMMA SchedQuietKeeps ==
    ASSUME TInv,
           SchedEmptyIdle \/ SchedPoll(FALSE) \/ SchedPreempt \/ SchedDropJob
             \/ SchedEndIteration \/ SchedExit \/ Stop \/ StopMiningEvent
    PROVE  KeepsInv
<1>1. TypeOK /\ ThreadsCarryJobs
  BY DEF TInv
<1>2. NoJob \in Job \cup {NoJob}
  OBVIOUS
<1>3. CASE SchedEmptyIdle \/ SchedExit
  <2>1. /\ UNCHANGED <<chain, jobs, wk, submitted>>
        /\ current' \in Job \cup {NoJob} /\ mining' \in BOOLEAN /\ running' \in BOOLEAN
        /\ spc' \in {"top", "preempt", "wait", "exited"} /\ stops' \in 0..MaxUserStops
        /\ spc' = "preempt" => current'.kind = "full" /\ jobs # <<>>
    BY <1>1, <1>3 DEF SchedEmptyIdle, SchedExit, TypeOK
  <2>2. QED
    BY <2>1, FrameKeeps
<1>9. CASE Stop
  <2>1. /\ UNCHANGED <<chain, jobs, wk, submitted>>
        /\ current' \in Job \cup {NoJob} /\ mining' \in BOOLEAN /\ running' \in BOOLEAN
        /\ spc' \in {"top", "preempt", "wait", "exited"} /\ stops' \in 0..MaxUserStops
        /\ spc' = "preempt" => current'.kind = "full" /\ jobs # <<>>
    BY <1>1, <1>9 DEF Stop, TypeOK, ThreadsCarryJobs
  <2>2. QED
    BY <2>1, FrameKeeps
<1>7. CASE SchedPoll(FALSE)
  BY <1>1, <1>7, FrameKeeps DEF SchedPoll, TypeOK
<1>8. CASE StopMiningEvent
  <2>0. stops' \in 0..MaxUserStops
    BY <1>1, <1>8, MinerAssumption DEF StopMiningEvent, TypeOK
  <2>1. /\ UNCHANGED <<chain, jobs, wk, submitted>>
        /\ current' \in Job \cup {NoJob} /\ mining' \in BOOLEAN /\ running' \in BOOLEAN
        /\ spc' \in {"top", "preempt", "wait", "exited"} /\ stops' \in 0..MaxUserStops
        /\ spc' = "preempt" => current'.kind = "full" /\ jobs # <<>>
    BY <1>1, <1>8, <2>0 DEF StopMiningEvent, TypeOK, ThreadsCarryJobs
  <2>2. QED
    BY <2>1, FrameKeeps
<1>4. CASE SchedPreempt
  BY <1>1, <1>4, FrameKeeps DEF SchedPreempt, TypeOK, HeadIsDueSign
<1>5. CASE SchedDropJob \/ SchedEndIteration
  BY <1>1, <1>2, <1>5, FrameKeeps DEF SchedDropJob, SchedEndIteration, TypeOK
<1>6. QED
  BY <1>3, <1>4, <1>5, <1>7, <1>8, <1>9

\* get_sign_block's job joins the queue.
LEMMA PushSignJobType ==
    ASSUME TypeOK, PushSignJob
    PROVE  jobs' \in Seq(Job) /\ jobs' # <<>>
<1>1. PICK d \in BOOLEAN : jobs' = Append(jobs, [kind |-> "sign", id |-> NoId, due |-> d])
  BY DEF PushSignJob
<1>2. [kind |-> "sign", id |-> NoId, due |-> d] \in Job
  BY DEF Job
<1>3. QED
  BY <1>1, <1>2 DEF TypeOK

\* The scheduler asks get_sign_block and queues its job.
LEMMA SchedPushKeeps ==
    ASSUME TInv, SchedEmptyPush \/ SchedPoll(TRUE)
    PROVE  KeepsInv
<1>1. TypeOK /\ ThreadsCarryJobs
  BY DEF TInv
<1>2. PushSignJob /\ spc' = "wait"
      /\ UNCHANGED <<chain, current, mining, running, wk, submitted, stops>>
  BY DEF SchedEmptyPush, SchedPoll
<1>3. jobs' \in Seq(Job)
  BY <1>1, <1>2, PushSignJobType
<1>4. QED
  BY <1>1, <1>2, <1>3 DEF KeepsInv, TInv, TypeOK, ThreadsCarryJobs, SignOncePerPayload

\* run_main_loop takes the head of the queue, when it is due.
LEMMA SchedStartJobKeeps ==
    ASSUME TInv, SchedStartJob
    PROVE  KeepsInv
<1>1. TypeOK /\ ThreadsCarryJobs
  BY DEF TInv
<1>2. spc' = "wait" /\ UNCHANGED <<chain, running, submitted, stops>> /\ jobs # <<>>
  BY DEF SchedStartJob
<1>3. CASE Head(jobs).due
  <2>1. jobs' = Tail(jobs) /\ current' = Head(jobs) /\ MineInternal(Head(jobs))
    BY <1>3 DEF SchedStartJob
  <2>2. Head(jobs) \in Job /\ Tail(jobs) \in Seq(Job)
    BY <1>1, <1>2 DEF TypeOK
  <2>3. /\ mining' \in BOOLEAN
        /\ wk' \in [Slots -> WorkerRec]
        /\ \A s \in Slots : wk'[s].pc # "idle" => wk'[s].job \in Job
    BY <1>1, <2>1, <2>2, MineInternalOK
  <2>4. QED
    BY <1>1, <1>2, <2>1, <2>2, <2>3 DEF KeepsInv, TInv, TypeOK, ThreadsCarryJobs,
       SignOncePerPayload, WorkerRec
<1>4. CASE ~Head(jobs).due
  <2>1. UNCHANGED <<jobs, current, mining, wk>>
    BY <1>4 DEF SchedStartJob
  <2>2. QED
    BY <1>1, <1>2, <2>1 DEF KeepsInv, TInv, TypeOK, ThreadsCarryJobs, SignOncePerPayload
<1>5. QED
  BY <1>3, <1>4

\* After the pause the preempted payload job goes back to the queue and the
\* signing job at its head starts.
LEMMA SchedResumeKeeps ==
    ASSUME TInv, SchedResume
    PROVE  KeepsInv
<1>1. TypeOK /\ ThreadsCarryJobs
  BY DEF TInv
<1>2. spc = "preempt" /\ spc' = "top" /\ UNCHANGED <<chain, running, submitted, stops>>
      /\ jobs' = <<current>> \o Tail(jobs) /\ current' = Head(jobs)
      /\ MineInternal(Head(jobs))
  BY DEF SchedResume
<1>3. current.kind = "full" /\ jobs # <<>> /\ current \in Job \cup {NoJob}
  BY <1>1, <1>2 DEF ThreadsCarryJobs, TypeOK
<1>4. current \in Job
  BY <1>3 DEF NoJob
<1>5. Head(jobs) \in Job /\ Tail(jobs) \in Seq(Job)
  BY <1>1, <1>3 DEF TypeOK
<1>6. jobs' \in Seq(Job)
  BY <1>2, <1>4, <1>5
<1>7. /\ mining' \in BOOLEAN
      /\ wk' \in [Slots -> WorkerRec]
      /\ \A s \in Slots : wk'[s].pc # "idle" => wk'[s].job \in Job
  BY <1>1, <1>2, <1>5, MineInternalOK
<1>8. QED
  BY <1>1, <1>2, <1>5, <1>6, <1>7 DEF KeepsInv, TInv, TypeOK, ThreadsCarryJobs,
     SignOncePerPayload, WorkerRec

\* Miner::add_block queues a payload job.
LEMMA AddJobKeeps ==
    ASSUME TInv, NEW j \in FullJobs, AddJob(j)
    PROVE  KeepsInv
<1>1. TypeOK /\ ThreadsCarryJobs
  BY DEF TInv
<1>2. [kind |-> "full", id |-> j, due |-> TRUE] \in Job
  BY DEF Job
<1>3. jobs' \in Seq(Job) /\ jobs' # <<>>
  BY <1>1, <1>2 DEF AddJob, TypeOK
<1>4. QED
  BY <1>1, <1>3 DEF AddJob, KeepsInv, TInv, TypeOK, ThreadsCarryJobs, SignOncePerPayload

\* The start time of a queued signing job passes.
LEMMA ClockPassesKeeps ==
    ASSUME TInv, ClockPasses
    PROVE  KeepsInv
<1>1. TypeOK /\ ThreadsCarryJobs
  BY DEF TInv
<1>2. PICK i \in DOMAIN jobs : jobs' = [jobs EXCEPT ![i].due = TRUE]
  BY DEF ClockPasses
<1>3. [jobs[i] EXCEPT !.due = TRUE] \in Job
  <2>1. jobs[i] \in Job
    BY <1>1 DEF TypeOK
  <2>2. CASE jobs[i] \in [kind : {"full"}, id : FullJobs, due : {TRUE}]
    <3>1. [jobs[i] EXCEPT !.due = TRUE] \in [kind : {"full"}, id : FullJobs, due : {TRUE}]
      BY <2>2
    <3>2. QED
      BY <3>1 DEF Job
  <2>3. CASE jobs[i] \in [kind : {"sign"}, id : {NoId}, due : BOOLEAN]
    <3>1. [jobs[i] EXCEPT !.due = TRUE] \in [kind : {"sign"}, id : {NoId}, due : BOOLEAN]
      BY <2>3
    <3>2. QED
      BY <3>1 DEF Job
  <2>4. QED
    BY <2>1, <2>2, <2>3 DEF Job
<1>4. jobs' \in Seq(Job) /\ DOMAIN jobs' = DOMAIN jobs
  BY <1>1, <1>2, <1>3 DEF TypeOK
<1>5. jobs # <<>> => jobs' # <<>>
  BY <1>4
<1>6. QED
  BY <1>1, <1>4, <1>5 DEF ClockPasses, KeepsInv, TInv, TypeOK, ThreadsCarryJobs, SignOncePerPayload

\* A worker slot set to a record that carries a job unless it is idle.
LEMMA SetWorkerOK ==
    ASSUME TypeOK, ThreadsCarryJobs, NEW s \in Slots, NEW w \in WorkerRec,
           w.pc # "idle" => w.job \in Job, SetWorker(s, w)
    PROVE  /\ wk' \in [Slots -> WorkerRec]
           /\ \A t \in Slots : wk'[t].pc # "idle" => wk'[t].job \in Job
BY DEF SetWorker, TypeOK, ThreadsCarryJobs, WorkerRec

\* The worker steps that touch only the worker and the mining flag.
LEMMA WorkerQuietKeeps ==
    ASSUME TInv, NEW s \in Slots,
           WorkerRead(s) \/ WorkerWake(s) \/ WorkerCancelled(s) \/ WorkerSeesNewBlock(s)
    PROVE  KeepsInv
<1>1. TypeOK /\ ThreadsCarryJobs
  BY DEF TInv
<1>2. wk[s] \in WorkerRec /\ (wk[s].pc # "idle" => wk[s].job \in Job)
  BY <1>1 DEF TypeOK, ThreadsCarryJobs, WorkerRec
<1>3. Idle \in WorkerRec
  BY DEF Idle, WorkerRec, NoJob
<1>4. Height + 1 \in Nat
  BY <1>1 DEF TypeOK, Height
<1>5. /\ mining' \in BOOLEAN
      /\ UNCHANGED <<chain, jobs, current, running, spc, submitted, stops>>
      /\ \E w \in WorkerRec : (w.pc # "idle" => w.job \in Job) /\ SetWorker(s, w)
  <2>1. CASE WorkerRead(s)
    BY <1>1, <1>2, <1>3, <1>4, <2>1 DEF WorkerRead, WorkerRec, TypeOK, Idle
  <2>2. CASE WorkerWake(s)
    <3>1. [wk[s] EXCEPT !.pc = "read"] \in WorkerRec
      BY <1>2 DEF WorkerRec
    <3>2. wk[s].job \in Job
      BY <1>2, <2>2 DEF WorkerWake
    <3>3. [wk[s] EXCEPT !.pc = "read"].job \in Job
      BY <1>2, <3>2 DEF WorkerRec
    <3>4. QED
      BY <1>1, <2>2, <3>1, <3>3 DEF WorkerWake, TypeOK
  <2>3. CASE WorkerCancelled(s)
    BY <1>1, <1>3, <2>3 DEF WorkerCancelled, TypeOK, Idle
  <2>4. CASE WorkerSeesNewBlock(s)
    BY <1>1, <1>2, <1>3, <2>4 DEF WorkerSeesNewBlock, WorkerRec, TypeOK, Idle
  <2>5. QED
    BY <2>1, <2>2, <2>3, <2>4
<1>6. /\ wk' \in [Slots -> WorkerRec]
      /\ \A t \in Slots : wk'[t].pc # "idle" => wk'[t].job \in Job
  BY <1>1, <1>5, SetWorkerOK
<1>7. QED
  BY <1>1, <1>5, <1>6 DEF KeepsInv, TInv, TypeOK, ThreadsCarryJobs, SignOncePerPayload, WorkerRec

\* A signature check_new_block accepts follows every earlier signature of
\* ours by a payload block: none of ours lies above the last payload block,
\* so an earlier one lies below it.
LEMMA GoodSignatureSpaced ==
    ASSUME TypeOK, NEW w, w.job.kind = "sign", MinedGood(w)
    PROVE  \A i \in DOMAIN chain : chain[i].ours /\ ~chain[i].full =>
               \E m \in (i + 1)..Len(chain) : chain[m].full
<1>1. chain \in Seq(BlockRec)
  BY DEF TypeOK
<1>2. PICK L : L = LastFullIndex
  OBVIOUS
<1>3. /\ L \in 0..Height
      /\ L > 0 => chain[L].full
      /\ ~\E i \in (L + 1)..Height : chain[i].ours
  BY <1>1, <1>2, LastFullFacts DEF MinedGood
<1>4. DOMAIN chain = 1..Height /\ Height = Len(chain)
  BY <1>1 DEF Height
<1> SUFFICES ASSUME NEW i \in DOMAIN chain, chain[i].ours, ~chain[i].full
             PROVE  \E m \in (i + 1)..Len(chain) : chain[m].full
  OBVIOUS
<1>5. i <= L
  BY <1>3, <1>4
<1>6. L > 0 /\ i # L
  BY <1>3, <1>4, <1>5
<1>7. QED
  BY <1>3, <1>4, <1>5, <1>6

\* A worker finds a hash: check_new_block, add_block when the block is Good.
LEMMA WorkerFindsKeeps ==
    ASSUME TInv, NEW s \in Slots, WorkerFinds(s)
    PROVE  KeepsInv
<1>1. TypeOK /\ ThreadsCarryJobs
  BY DEF TInv
<1>2. wk[s].pc = "hash" /\ wk[s].job \in Job
  BY <1>1 DEF WorkerFinds, ThreadsCarryJobs
<1>3. Idle \in WorkerRec
  BY DEF Idle, WorkerRec, NoJob
<1>4. /\ wk' \in [Slots -> WorkerRec]
      /\ \A t \in Slots : wk'[t].pc # "idle" => wk'[t].job \in Job
  BY <1>1, <1>3, SetWorkerOK DEF WorkerFinds, Idle
<1>5. MinedBlock(wk[s]) \in BlockRec
  BY <1>2 DEF MinedBlock, BlockRec, Job
<1>6. chain \in Seq(BlockRec)
  BY <1>1 DEF TypeOK
<1>7. chain' \in Seq(BlockRec) /\ (SignOnceIn(chain) => SignOnceIn(chain'))
  <2>1. CASE MinedGood(wk[s])
    <3>1. chain' = Append(chain, MinedBlock(wk[s]))
      BY <2>1 DEF WorkerFinds
    <3>2. MinedBlock(wk[s]).ours /\ ~MinedBlock(wk[s]).full => wk[s].job.kind = "sign"
      BY <1>2 DEF MinedBlock, Job
    <3>3. MinedBlock(wk[s]).ours /\ ~MinedBlock(wk[s]).full =>
             \A i \in DOMAIN chain : chain[i].ours /\ ~chain[i].full =>
                 \E m \in (i + 1)..Len(chain) : chain[m].full
      BY <1>1, <2>1, <3>2, GoodSignatureSpaced
    <3>4. SignOnceIn(chain) => SignOnceIn(Append(chain, MinedBlock(wk[s])))
      BY <1>5, <1>6, <3>3, AppendSignOnce
    <3>5. QED
      BY <1>5, <1>6, <3>1, <3>4
  <2>2. CASE ~MinedGood(wk[s])
    BY <1>6, <2>2 DEF WorkerFinds
  <2>3. QED
    BY <2>1, <2>2
<1>8. QED
  BY <1>1, <1>4, <1>7 DEF WorkerFinds, KeepsInv, TInv, TypeOK, ThreadsCarryJobs,
     SignOncePerPayload, SignOnceIn, WorkerRec

\* Another node's block arrives: it is not ours.
LEMMA NetworkBlockKeeps ==
    ASSUME TInv, NetworkBlock
    PROVE  KeepsInv
<1>1. TypeOK /\ ThreadsCarryJobs
  BY DEF TInv
<1>2. PICK x : x = [full |-> ~IsWaitingSigners, ours |-> FALSE, job |-> NoId]
  OBVIOUS
<1>3. x \in BlockRec /\ ~x.ours
  BY <1>2 DEF BlockRec
<1>4. chain \in Seq(BlockRec)
  BY <1>1 DEF TypeOK
<1>5. chain' = Append(chain, x)
  BY <1>2 DEF NetworkBlock
<1>6. chain' \in Seq(BlockRec) /\ (SignOnceIn(chain) => SignOnceIn(chain'))
  BY <1>3, <1>4, <1>5, AppendSignOnce
<1>7. QED
  BY <1>1, <1>6 DEF NetworkBlock, KeepsInv, TInv, TypeOK, ThreadsCarryJobs,
     SignOncePerPayload, SignOnceIn

\* The miner starts with no jobs and idle workers.
LEMMA InitTInv == Init => TInv
<1> SUFFICES ASSUME Init PROVE TInv
  OBVIOUS
<1>1. Idle \in WorkerRec
  BY DEF Idle, WorkerRec, NoJob
<1>2. NoJob \in Job \cup {NoJob}
  OBVIOUS
<1>3. wk \in [Slots -> WorkerRec] /\ \A s \in Slots : wk[s].pc = "idle"
  BY <1>1 DEF Init, Idle
<1>4. chain \in Seq(BlockRec) /\ stops \in 0..MaxUserStops
  BY MinerAssumption DEF Init
<1>5. jobs \in Seq(Job)
  <2>1. jobs = <<>>
    BY DEF Init
  <2>2. QED
    BY <2>1
<1>7. current \in Job \cup {NoJob} /\ submitted \subseteq FullJobs
      /\ mining \in BOOLEAN /\ running \in BOOLEAN /\ spc = "top"
  BY <1>2 DEF Init
<1>6. QED
  BY <1>3, <1>4, <1>5, <1>7 DEF TInv, TypeOK, ThreadsCarryJobs, WorkerRec

\* A step that changes nothing.
LEMMA StutterKeeps ==
    ASSUME TInv, UNCHANGED vars
    PROVE  KeepsInv
BY DEF vars, KeepsInv, TInv, TypeOK, ThreadsCarryJobs, SignOncePerPayload

\* Every step of the miner, its threads and its environment keeps TInv,
\* and keeps SignOncePerPayload.
LEMMA NextKeeps == TInv /\ [Next]_vars => KeepsInv
<1> SUFFICES ASSUME TInv, [Next]_vars PROVE KeepsInv
  OBVIOUS
<1>1. CASE UNCHANGED vars
  BY <1>1, StutterKeeps
<1>2. CASE SchedEmptyIdle \/ SchedPoll(FALSE) \/ SchedPreempt \/ SchedDropJob
             \/ SchedEndIteration \/ SchedExit \/ Stop \/ StopMiningEvent
  BY <1>2, SchedQuietKeeps
<1>3. CASE SchedEmptyPush \/ SchedPoll(TRUE)
  BY <1>3, SchedPushKeeps
<1>4. CASE SchedStartJob
  BY <1>4, SchedStartJobKeeps
<1>5. CASE SchedResume
  BY <1>5, SchedResumeKeeps
<1>6. CASE \E s \in Slots : WorkerStep(s)
  <2>1. PICK s \in Slots : WorkerStep(s)
    BY <1>6
  <2>2. CASE WorkerFinds(s)
    BY <2>2, WorkerFindsKeeps
  <2>3. CASE ~WorkerFinds(s)
    BY <2>1, <2>3, WorkerQuietKeeps DEF WorkerStep
  <2>4. QED
    BY <2>2, <2>3
<1>7. CASE \E j \in FullJobs : AddJob(j)
  BY <1>7, AddJobKeeps
<1>8. CASE ClockPasses
  BY <1>8, ClockPassesKeeps
<1>9. CASE NetworkBlock
  BY <1>9, NetworkBlockKeeps
<1>10. QED
  BY <1>1, <1>2, <1>3, <1>4, <1>5, <1>6, <1>7, <1>8, <1>9 DEF Next, SchedStep

-----------------------------------------------------------------------------
(* Theorems *)

\* Every reachable state of the miner is well typed: the queue holds jobs,
\* the scheduler's current_job is a job or none, and every worker thread
\* of mine_internal is idle or carries the job it was started for.
THEOREM MinerTypeCorrect == Spec => []TypeOK
<1>1. Init => TInv
  BY InitTInv
<1>2. TInv /\ [Next]_vars => TInv'
  BY NextKeeps DEF KeepsInv
<1>3. TInv => TypeOK
  BY DEF TInv
<1>4. QED
  BY <1>1, <1>2, <1>3, PTL DEF Spec

\* The miner never signs a payload block twice: from a chain on which this
\* node has not signed any payload block twice, whatever jobs the user
\* submits, whatever get_sign_block queues, however the signing job
\* preempts the payload job and however the workers of find_hash race the
\* blocks of other nodes, check_new_block admits no second signature of
\* ours after a payload block.
THEOREM SignOnceKept == Spec => (SignOncePerPayload => []SignOncePerPayload)
<1>1. Init /\ SignOncePerPayload => MInv
  BY InitTInv DEF MInv
<1>2. MInv /\ [Next]_vars => MInv'
  BY NextKeeps DEF KeepsInv, MInv
<1>3. MInv => SignOncePerPayload
  BY DEF MInv
<1>4. QED
  BY <1>1, <1>2, <1>3, PTL DEF Spec
=============================================================================
