# TLA+ models of nbio and its sudden-power-off test

The repository is a test suite for NVMe SSDs. Its own logic is `nbio`
(`scripts/tools/nbio`), a multi-threaded generator of I/O that remembers what
it wrote and verifies what it reads, and the shell tests that drive it, above
all the sudden-power-off tests (`scripts/spor`, `scripts/por`). The rest is
third-party code (`nvme-cli-1.6`), one-shot functional tests and report tools.

Whether such a program is right is a question about interleavings: a verifier
that blames a correct device, or accepts a wrong block, does so after a
particular order of job threads, completions, wrapped counters and power cuts.

File names below are relative to `scripts/tools/nbio` unless they start with
`scripts/`.

## Inventory

| Component | State | Operations | What makes it correct |
|---|---|---|---|
| LBA lock (`iover.c` try_lock_lbas, unlock_lbas; `bit.h`) | `lba_lock`, a bitmap of all LBAs in 64-bit words, shared by the jobs of a namespace | lock a range word by word with load and CAS, roll back on conflict, unlock | no LBA belongs to two bios; no bit is lost or leaked; a call is atomic to the others |
| Verifier (`iover.c`, `block.h`, `datagen.c`) | per LBA a `block_desc` (state, 16-bit timestamp, pattern), `timestamp`, the history ring `hist_desc`/`hist_idx`, in memory, a file or shared memory | generate_data, commit_block_state, backup_hist_state, verify_bio_read, verify_hist_read, submit | journal and device do not drift apart; a correct device is not blamed; a wrong block is reported |
| Generator: bios (`iogen.c` generate_bio, bio_end) | the bio pool of a job, `num_inflight` | pick opcode and range, lock, stamp, enqueue, complete | a bio is locked as long as it is out |
| Generator: threads (`iogen.c`, `main.c`) | `iogen->state`, `running_job_mask`, `finished_job_mask`, `job->state`, threads, a condition variable per job | start, wait for a dependency, run, stop, abort, drain, end; signal handler; cleanup | the last job ends the run; dependencies are kept; cleanup comes after the drain; signals and finite jobs end the process |
| Sudden-power-off cycle (`scripts/spor/common_chamber`, `scripts/spor/2.spor_w_write/run`) | what survives: device media, journal in shared memory | cut, abort, power on, replay the ring, next round | the replay repairs the journal, reports losses and only losses |
| Generator: loop of a job and I/O engines (`iogen.c` iogen_job_runner; `io/libaio.c`, `io/null.c`, `io/spdkio.c`) | `bio_free`, `bio_inflight`, `nr_enqueued`; request rings of libaio and null, spdk's queue pair and admin queue | generate, enqueue, submit, poll, drain | the engine holds exactly what the job counts, each bio ends once, a job with an amount ends |
| Parameters (`parser.c`, `params.h`, `main.c` validate, bind_params) | defaults, the list of jobs, the extreme I/O sizes, one `namespace_info` per namespace | read a line, open a section, validate and bind a job | inheritance does not depend on other sections; what is bound fits namespace and buffers |
| Distributions (`iogen.c` generate_bio, `jesd219.c`) | `slba_next`, the cursors of a job | pick opcode, size and start, three tries | a bio lies in its range and its buffer; reads stay behind writes; a fill fills |
| Process (`main.c`, `iover_init`, `iover_exit`, `init`/`exit` of the engines) | engines and their instance count, verifiers, journals in memory and outside, logs, power switch | validate, prepare and its unwinding, run, cleanup, cleanup_spo, the next process | engines closed once and not under another instance; no start or end costs the journal |
| Power control (`powerctl.c`) | a serial line | switch on and off | nbio cuts the power only when it may |
| Accounting, logs, display, CRC, dumps | output only | | |
| Functional tests, vendored tools | outside nbio | | |

How they interact: a job thread takes a bio from its pool, `generate_bio` asks
the verifier to lock its LBAs and to stamp its data, the engine takes it, and
the poll of the same thread later calls `bio_end`, which unlocks the range and
verifies or commits it. Threads of several jobs share the verifier (lock,
timestamp, ring) and `iogen->state` and the two masks. The main thread polls
`iogen_running` once a second; the signal handler runs on top of it and joins
the job threads. A second nbio process, started by the shell after a power
cut, inherits the journal through shared memory.

What is hard, with the line where it bites, is the list `hazards` of
`PROJECT.json`.

## Modules

### LbaLock, LbaRangeLock, LbaLockProofs

`LbaLock` has one step for each load and each compare-and-swap of
`try_lock_lbas`, its `rollback:` loop and `unlock_lbas`. A word is the set of
its bits that are 1; `pc` is the loop a job is in, `lba_offset` and
`ulong_offset` are the local variables, `seen` the loaded word. A job thread
makes one call at a time and may hold the ranges of `IoDepth` bios.

`LbaRangeLock` is the abstract lock: a range is taken in one step if it is
disjoint from all others, or not at all. `LbaLock` implements it
(`AtomicRangeLock`): the refinement mapping gives a job the ranges it holds and
the range whose last CAS has succeeded. `Iover` is built on the abstract lock.

### Iover, MCIover, IoverProofs

The data path. A bio goes through the stages `count` (the increment of
`iover->timestamp`, a load and a store in the C code, so two jobs may lose
one), `stamp` (block by block, each with its own read of the counter),
`enqueue`, `flight` (the device executes block by block, in any order) and
`submit` (the range is unlocked on entry; verify or commit).

Content of a block is what the verifier can tell apart: zeroes, ones,
uncorrectable, or data with its LBA and timestamp, from which the pattern
follows. `media` is what the device holds, `ideal` what a device that loses
nothing would hold; a device may drop or misplace a block, at most `MaxFaults`
times. `block_desc` keeps the timestamp modulo `TsMod`, the 2^16 of the code.
`Matches` is what a descriptor means, `Accepts` what the code tests; they
differ where the code's test is weaker (`is_all` compares one byte).

`JobLbas` gives each job the LBAs of its `lba_range`. Nothing keeps the ranges of
two jobs apart: the default is the whole namespace, and `bind_params` looks at
the end of the namespace only. `iover_submit` unlocks a range before it verifies
or commits it, so the lock alone does not keep another job from the descriptors
in between. `CommitAlone` states what is needed: while a job handles a
completion, no other job has a bio on its blocks. Jobs with ranges of their own
(`DisjointJobs`: the tests that run several jobs at once, `scripts/io/5.mt_mixed`)
keep it; so do the jobs of `scripts/io/8.hotspot_read`, whose ranges meet but
which follow each other by `dependency` (`InOrder` of `IogenJobs`). Without it
the verifier does blame a correct device (see Findings).

### SpoCycle, MCSpoCycle, SpoCycleProofs, SpoLossProofs

Extends `Iover` by the cycle of `2.spor_w_write`: I/O, `PowerOff`,
`AbortAndReplay` (process and locks die, shared memory survives, the timestamp
restarts at 0, because `iover_exit` saves it for journal files only), the
replay (`history_slba`, `verify_hist_read`), its two ways to end (the job
drains; the main thread sees `done` first) and the next round. Of a block in
flight at the cut, what the device kept is right, whatever it is. `clean` is a
history variable: no cycle so far fell into one of four gaps: the ring was not
full (run `spo_unwrapped`), its oldest entry was of a block in flight, the entry
of a block in flight had been overwritten by those of later commands (`Noted`),
or the main thread returned before the reads were verified.

### IogenJobs, MCIogenJobs, IogenProofs

The threads of one process. The data of a bio is left out (it is `Iover`'s):
a job has `inflight` bios. One iteration of a job's loop is one step, since
between the test of `iogen->state` and the enqueue it touches nothing that is
shared here; the end of a job is five steps (broadcast, set the finished bit,
clear the running bit, count, declare `done`), because these are the
interleavings that matter. The signal handler interrupts the main thread at
any of its steps, thread creation included, and joins thread by thread.

### JobRunner, BioQueue, MCJobRunner, JobRunnerProofs

The loop of one job, `iogen_job_runner`, over the three engines. A bio is in
`free`, in `inflight` or, once refused, in no list. The engine's side is a
record: the ring with head, tail and count (libaio: `iodepth` entries and
`nr_enqueued`; null: one entry more, empty when head = tail), what the device
has, and spdk's admin queue. `Enqueue`, `Submit` and `Poll` give the set of
outcomes of the engine's operation; `Generate`, `TryLater`, `PollFull`, `Stop`,
`LastSubmit` and `Drain` are the iterations of the runner, and `Exit` the
`exit(1)` of `bio_end`. `io_submit` may take a part of what is queued or fail.

`BioQueue` is what the generator expects of an engine: what is accepted stays
there until it is ended, once; only a refused bio is lost, and then an error is
recorded. `JobRunner` implements it with what the engine really holds
(`EngineHolds`) and what the generator recorded.

### JobParams, Workload, MCWorkload, WorkloadProofs

`JobParams` goes from a parameter file to the jobs of a run. A line is what the
character automaton of `parser.c` makes of it: a section, a property with its
converted value, a line that is refused, or one with a token that is too long,
which the parser reports and drops. `DefineSection`, `DefineProperty`,
`ParsingError`, `DropLine` and `EndOfFile` are its callbacks; `Validate` is one
iteration of `validate` (sizes of a job that has none, journals, dependency,
`bind_params`), `InitJobs` the table `lbas[]` of `iogen_job_init`. The code
compares namespaces by EUI64 or NGUID; here the nsid stands for them.

`Workload` continues with one of the jobs: `PickBio` draws opcode and size, and
the `Try` actions are the iterations of `generate_bio` over a start whose LBAs
are not locked, one per distribution. Random numbers are any number their
formula can give, with the unsigned remainder and the division by zero of the
code. `ALIGN` is the mask of the code, which rounds up only if the alignment is a
power of two. Bios end in any order.

### Nbio, MCNbio, NbioProofs

A process from `validate` to the end of `main`, and the next one on the same
namespaces. An engine is `none`, `open`, `closed` or, exited without having
been open, `dangling`; spdk's `nr_instances` and whether the controllers are
attached are counted as in the code. `mem` is the journal a verifier works on,
`image` what is outside of the process: a file, a mapped file or shared memory.
Of a journal only versions of descriptors and timestamp are kept. Every step
that acquires something may fail, `prepare` then unwinds through its gotos;
where these close what was never opened the process is `crashed`, where it
polls for ever it is `hung`. The run itself is one state, in which bios change
the journals, the test may cut the power and a signal may come; how it gets
there and drains is `IogenJobs` and `JobRunner`. `cleanup` and `cleanup_spo`
follow, by SPOR level.

## Runs

| Run | Instance | Shows |
|---|---|---|
| `lba_lock` | 2 jobs, words of 2 bits, 5 LBAs, sizes 1, 2 and 4, 2 bios each | no LBA shared, bitmap exact, implements the abstract lock |
| `iover_ops` | 1 job, 2 bios, 2 LBAs, all opcodes, 1 fault | journal tracks the device, no false alarm, wrong data reported, a write changes its block |
| `iover_jobs` | 2 jobs with disjoint halves of 4 LBAs, wrap of the timestamp, 1 fault | the journal tracks the device, with races on the timestamp (that wrong data is reported with several jobs is proved, under `CommitAlone`) |
| `spo_cycle` | 1 job, 2 bios, ring of 3, 2 cuts, no faults | outside the four gaps (`clean`) the replay repairs the journal and blames nobody; even in a gap it takes no right descriptor away |
| `spo_loss` | the same, 1 cut, 1 fault | a lost acknowledged write is reported |
| `iogen_stop` | 2 independent jobs, depth 2, SIGINT | end of the run, drain before cleanup, termination |
| `iogen_abort` | job 2 depends on job 1, power cut, SIGUSR1, SPOR level 2 | a job starts when the one it depends on has drained; SIGUSR1 ends a stuck process |
| `job_runner` | 3 bios, batches of 2, amount 6, 3 engines, 1 error of `io_submit` | the engine holds what the job counts, `generate_bio` always finds a bio, the job ends, the engines implement `BioQueue` |
| `workload` | every file of up to 4 lines over 8 kinds of lines, and a file per kind of workload | inheritance, bios in range and buffer, reads behind writes, a fill fills |
| `nbio` | 3 processes, 2 failures, one or two namespaces, 4 kinds of journals, 4 SPOR levels | engines closed once, controllers attached while used, journal carried over, power cut only when drained, everything released |
| `spo_unwrapped` | as `spo_cycle`, 1 cut | violation, see below |
| `iogen_lost` | job 2 depends on job 1 | violation, see below |

### Bounds

- `lba_lock`: 5 LBAs in words of 2 bits give first, middle and partial last
  words and ranges that start inside a word; three words are needed for a
  rollback of more than one. Jobs are symmetric.
- `Iover`: ranges of one and two of two LBAs overlap in every way; the slots of
  a pool are symmetric. `MaxTs` bounds the writes stamped, and with
  `TsMod = MaxTs` the 16-bit timestamp wraps in the last of them (in `spo_`
  runs it does not).
- `SpoCycle`: a ring of 3 wraps within the writes of one cycle and holds two
  entries of one block; two cuts are the least at which a repaired journal and
  a restarted timestamp meet new writes. Four writes (`MaxTs` of `spo_cycle`)
  overwrite the entry of one that is still in flight.
- `IogenJobs`: two jobs suffice for a race of the last two threads and for a
  dependency; the safety properties are proved for any number of jobs. Level 2
  is the harder one: a job must drain before it ends, on a device that may have
  no power, and `InOrder` is about its bios in flight. From level 3 on a job ends
  without a drain and that part of `InOrder` says nothing; those levels are in
  the theorems.
  One signal is sent per run (`signalled`).
- `JobRunner`: three bios with batches of two leave a bio behind in the ring at
  a stop, and six bios wrap both rings; after one error of `io_submit` the ring
  is sent later, in part.
- `Workload`: four lines after the engine and the size give two sections with a
  property each, in any order, and every error. The workloads have depths up to
  3, which is where a try meets a locked range; ranges of 7 to 40 blocks hold
  every boundary of the formulas (a bio as long as, longer than and one block
  shorter than its range; the 5, 20 and 80 % of jesd219). `MaxBit` is the number
  of bits `ALIGN` looks at.
- `Nbio`: the third process sees what a failed second one left of the journal of
  the first. Two failures are a failed start or a kill, twice. `MaxWork` is the
  number of changes of a journal per process.

Deadlock is checked in `lba_lock`. The other models end: a process returns, a
job ends, or the bounds on writes, cuts and processes are used up.

### Fairness

`IogenJobs` and `JobRunner` have liveness properties.

In `IogenJobs`, weak fairness of `Main` and of each
`Job(j)`: the operating system schedules every thread, and a powered device
completes the commands it has (`JobPoll` is part of `Job`). Enqueueing, failure
of the engine, `exit(1)`, timeouts, signals and power cuts are not fair. Nor is
reaching the amount of a job, because it may be infinite: `Terminates` has it
as its premise.

In `JobRunner`, weak fairness of `Generate` (the LBAs of a try are not locked
for ever, since what locks them ends), of `PollFull` and `Drain` (the device
completes what it has), of `LastSubmit` and `Finish`, and of `Stop` when the
amount is reached. Refusals, errors and other stops are not fair. `JobEnds`
exempts a job whose last `io_submit` failed (`Stranded`): its result is not
looked at and the drain waits for ever. It is checked for opcodes that the
engine ends; a deallocate through libaio and an identify through spdk never
end.

## Proofs

All proofs are checked by TLAPS from the named assumptions on the constants,
which TLC evaluates in the runs: `WAssumption`, ... of `LbaLock`;
`NJobsAssumption`, `DependAssumption`, `IogenParams` of `IogenJobs`; those of
`Iover` on its bounds and ranges; `RunnerParams` of `JobRunner`;
`SetupsAssumption` and `BoundsAssumption` of `Nbio`; `NamesAssumption` and
`InputsAssumption` of `JobParams` (a namespace has blocks of 512 or 4096 bytes,
and the value of a key is what its conversion can give). A theorem that needs
more has it as a hypothesis of its own, named below.

`LbaLockProofs`: mutual exclusion is not inductive, since a range becomes held
when the last of its bits is set. The inductive invariant says that a job owns
the LBAs of its held ranges and the part of the range of its call that the loop
has passed, that LBAs owned are pairwise disjoint between calls, and that the
bits that are 1 are exactly the LBAs owned; and it bounds the loop variables,
so that a mask stays within its word. From it follow type correctness, mutual
exclusion (`NoSharedLba`), `BitmapExact` and, with the mapping above, the
refinement of `LbaRangeLock`: every step is a step of the abstract lock or a
stutter.

`IogenProofs`: the invariant `Inv` relates the place of the main thread to the
threads that exist (`Progress`), the finished mask to the places of the threads
(`MaskExact`), says that someone is left to count the bits while all are set
and the generator looks running (`CounterLeft`: the reason why the last job is
never missed), that only jobs in loop or drain have bios in flight (`Drained`),
that a job past its wait depends on one that has broadcast
(`DependencyEnded`), what the handler has joined (`Joined`) and that nothing is
in flight when the generator has stopped (`Stopped`). From it follow
`TypeOK`, `LastJobEndsRun`, `DoneMeansFinished`, `InOrder` and, below SPOR
level 3 and without SIGUSR1, `DrainedAtCleanup`, for any number of jobs, any
dependency graph and any queue depth.

`IoverProofs`: `TypeCorrect` has no hypothesis; jobs may share LBAs. The other
theorems are of the form `Spec /\ []CommitAlone => []P`. Their invariant says
that the locked ranges of a job are those of its bios between generation and
completion (`LbaRangeLock` gives no more than that, and `LbaLock` implements it)
and that the blocks of all bios are pairwise disjoint (`Disjoint`): before the
completion by the lock, after it, when the lock is gone, by `CommitAlone`. On it
rests `JournalTrue`: a block that no bio writes is as its descriptor says, a
block that a bio writes is, behind the bio's progress, as the bio stamped it.
`NeverBlamed` and `WrongReported` follow from what a descriptor accepts; the
second also assumes `MaxTs <= TsMod`, that is, no wrap of the 16-bit timestamp,
because two writes a full wrap apart look alike to the code.
`OwnRangesCommitAlone` discharges the hypothesis where the ranges of the jobs do
not meet (`DisjointJobs`): a bio gets its blocks from the range of its job and
keeps them. `WriteVisible` assumes one job (`OneJobOnly`), of which `CommitAlone`
asks nothing: two jobs may lose an increment of `iover->timestamp`.

`JobRunnerProofs`: the invariant counts. The bios of the free list, those in
flight and those refused are all of the pool; the ring between head and tail
(with the wrap-around of each engine), what the device has and the admin queue
are the bios in flight, each once. `HeldAgree`, `FreeBio` and the refinement of
`BioQueue` follow, under `NoDeallocate`: libaio executes a deallocate at once and
never ends it.

`NbioProofs`: `nr_instances` is the number of engines that are open on spdk, and
every place of `prepare` and its gotos has its set of engines and verifiers that
are open; this is why each is closed once (`ClosedOnce`) and the controllers are
detached with the last (`StaysAttached`). `CarriedOver` adds what the image
outside of the process is at each place, by kind of journal.

`WorkloadProofs`: `TypedInv` follows every field of `job_params` through parser,
binding and validation, keeps the sizes that count for the buffers below
`iosize_max`, and says that what is drawn comes from lottery and sizes. From it
follow `TypeCorrect`, `Fits` and, with what rounding up to a power of two that
divides range and size can give, `InRange`. `ReadsBehind` needs the number M of
blocks at the start of the range that are written or being written: nothing else
is in flight, and the cursor is a multiple of the one size, or at most one block
behind M. `RangeFilled` needs that until the range is full the blocks sent are its
first ones and none behind them is locked, so that no try is refused before the
wrap. `NoChaining` (`Inherited`) needs that while the file is read there is a job
per section.

`SpoCycleProofs` uses the lemmas of `IoverProofs` about single actions. These
prove `Base` (bios, locks, device) apart from `Tracks` (the journal), because
after a cut the first still holds and the second does not. `Sound` adds the
types of the cycle, whence `CycleTyped`. The invariant of the repair, `SpoInv`,
was first checked with TLC. It has three parts.
`Cycle` holds whatever the parameters and the device: the last entry of a block in
flight accepts what its command leaves (`Foretold`; an entry is lost to newer ones
only after all older entries of its block, which is why slots are compared by
their `Age`), no slot younger than an entry is empty (`Filled`), and in the replay
reads are single blocks of the entry they took, a locked range is that of a read
not yet completed, and cursor and count of the walk agree (`Walk`: the oldest
entry first, then from the newest on).
`Readable` says that no block is uncorrectable. `Journal` says, by phase and for
a correct device: at work only blocks that a command under way has executed are
not accepted (`Lagging`); in the replay the last entry of a block that is not
accepted is still ahead of the walk, or is the one being read (`Repairing`); at
the end all are accepted.
`ReplayRepairs` and `ReplayNeverBlames` follow for any ring, pool, sizes, opcodes
and number of cuts, under `Repairable`: no write_uncorrect, which the ring has no
state for, and at SPOR level 3 unwritten blocks may read as anything, since a
write marks its blocks unwritten when it is sent. `OneJob` and
`CutsAssumption` (there is a ring, and single blocks can be read) are assumptions
of `SpoCycle`.

The lemmas of the walk rest on `Due`: the last entry of a block is still ahead of
the walk, or is the one being read, and no older entry of the block is. It needs
`Cycle` alone, and serves both for the repair and for the report of a loss.
`ReplayOnlyRepairs` (`ReplaySpoilsNothing`) follows from `Cycle` too and has no
hypothesis: whatever gap the cycle fell into and whatever the opcodes, on a correct
device no step of the replay takes a descriptor away that accepts its block,
because a read brings what the device holds and the descriptor is asked before the
entry.

`SpoLossProofs` proves `LossIsReported`: the first replay over a full ring that runs
to its end blames a device that has dropped an acknowledged write of a block of
the ring (other than the block of the oldest entry, which is read first), for
any number of dropped writes and misdirected reads, any pool, sizes and ring, at SPOR
level 3 or below. `LossInv` adds to `Cycle` and `Readable` that
bios and entries are of data only (`DataOnly`), that the data on a block carries its
own LBA (`Placed`), and, up to the end of the first replay (`FirstCut`): at work
the journal tracks the ideal device (`Tracks`) and so does the last entry of a
block that no command is still to execute (`Told`); in the replay a read holds some
block of the device (`ReadMedia`) and every lost block is reported or its last
entry is due, with entry and descriptor both rejecting whatever a read can return
(`Reporting`). The argument: by `Tracks` and `Told` both carry the stamp of the lost
write; the lost block itself has an older stamp, and every other block has another
LBA, so nothing on the device passes; being due, the last entry is the first of
its block to be verified (an older one could accept the block and take the
descriptor back); `verify_hist_read` then finds neither right and sets the result.
`LossInv` was checked with TLC on three instances before the proof. The hypothesis
`Visible` is needed in both parts, and TLC has a counterexample without each: only
reads, writes and flushes (with a deallocate that reads as zeroes the old block may
look like the one lost), and `MaxTs <= TsMod` (after a wrap two writes of a block
look alike).

Only model-checked: liveness (`Terminates`, `SignalEndsRun`, `JobEnds`), which is
outside what this prover does. Every other property of a passing run is a theorem.

## Findings

Two runs show a disagreement between the code and what its tests expect:

- `spo_unwrapped`: the replay starts at `hist_idx`, the slot written next. Until
  the ring has wrapped it is empty, and the replay ends at once.
- `iogen_lost`: `pthread_cond_wait` without a predicate; a broadcast that comes
  first is lost and nbio never returns.

Seen while modelling, and part of the models as the code has them:

- Two jobs at once on one LBA: `iover_submit` unlocks a range (`iover.c:1582`)
  before it commits or verifies it (`iover.c:1625`). One job's write has ended and
  is unlocked; another job locks the block, reads what was just written and gets
  to `verify_bio_read` before the commit: it finds the old descriptor and blames a
  correct device. Two writes may likewise commit in the wrong order. No test of
  the repository has such jobs, and nothing refuses them (`CommitAlone`).
- Verifier: `verify_bio_read` drops the verdict on zeroed blocks (`iover.c:1113`);
  `is_all` compares the first byte only (`iover.c:765`); the result of `pwrite`
  is unsigned, so a journal that could not be saved is not noticed
  (`iover.c:463`).
- Replay: the walk starts with the oldest entry, and if its block has a write
  in flight a correct device is blamed; so it is if the ring is shorter than what
  is sent while one command is in flight, whose entry is then overwritten
  (`iover.c:1495`), and for a block of a write_uncorrect in flight, for which the
  ring notes the opcode instead of a state; `history_slba` sets `done` while reads
  are out (`iogen.c:449`), and the main thread may return before they are
  verified; an entry whose block is locked is used up.
- Engines: a deallocate through libaio (`io/libaio.c:233`) and an identify
  through spdk (`io/spdkio.c:511`) never end.
- Sizes: `lbas[]` is filled by iosize opcode and indexed by bio opcode
  (`iogen.c:505`), so that writes get READ_SIZE and WRITE_SIZE is never used; a
  uniform bio as long as its range divides by zero (`iogen.c:560`). `ALIGN`
  (`types.h:58`) masks, so that an alignment that is no power of two gives
  another number (`iogen.c:510`, `iogen.c:587`).
- Separate streams: the cursor of the writes moves on when a try is refused
  (`iogen.c:556`). With writes of several sizes of more than two blocks, or with
  deallocates, reads then meet LBAs nobody wrote; `ReadsWritten` is stated, and
  proved, for the other jobs.
- Parameters: the percent flag of AMOUNT stays set (`parser.c:646`); the result
  of `bind_params` is ignored (`main.c:470`); a section whose name is too long
  is dropped and its lines change the section before (`parser.c:1193`).
- Process: after SIGUSR1 at SPOR level 1 or 2 `cleanup_spo` may run with bios in
  flight, although its comment (`main.c:798`) says that these levels wait; the
  gotos of `prepare` close logs that were never opened (`main.c:717`); without
  memory for the verifiers `prepare` returns 0; if `pthread_create` fails,
  `cleanup` runs under the threads created before (`main.c:571`); the smart log
  is polled for ever on a device without power (`io/spdkio.c:554`); a journal
  file that is too short is read for ever (`iover.c:344`).

## Not modelled

- Verifier: jobs with `lba_overlap`, which lock nothing and compare with a window
  of timestamps from the issue of the read on. Two parameter files set it.
  `scripts/io/6.wr_dependency/lba_conflict:19` has `compare` commented out, so
  that nothing is stamped or verified. `scripts/io/8.hotspot_read/parameter:31`
  sets it for a job that only reads, after the writer has ended: no descriptor
  changes between issue and completion, the window is one timestamp, and blocks
  that are unwritten are not compared. Also identify compare, metadata and
  protection information. `verify_dealloc_block` has further cases (the last
  data, or any of several values), which accept everything; the parser sets only
  zeroes or ones (`parser.c:737`). (The unwritten state that a write
  has at SPOR level 3 until it ends is modelled and part of the proofs; the runs
  are below level 3.)
- Bios: pareto (it sets no start LBA), error injection, streams, a reset (no
  engine defines `reset` or `reinit`); several jobs drawing from the one state
  of `jesd219.c`.
- Engines: the construction of commands, scatter lists, the splitting of
  deallocates into ranges.
- Parser: the character automaton and the environment; keys that set a field
  nothing here reads; section names of 64 to 127 characters, which the tokenizer
  accepts but which do not fit into `job_params.name` (`parser.c:212`).
- SPO cycle: more than one job on the ring, SPO during SPOR and at NPO, driver
  binding and rescan. (The run has reads and writes of single blocks; the proofs
  are for all sizes and operations but write_uncorrect.)
- Threads: spurious wake-ups, a second signal, the freeing of jobs, more than
  64 jobs.
- Accounting, latency buckets, logs, display, CRC and dumps: output that nothing
  reads back.
- Functional tests (`scripts/func`, `scripts/bug`), report tools
  (`scripts/tools/statistics`, `ftl_checker`, `prim_proc`) and shell tests other
  than the SPO cycle: fixed sequences of commands with an expected answer; they
  have no state of their own, and what they would be checked against is the
  device.
- `scripts/tools/nvme-cli-1.6` and `scripts/tools/env_ssdsim`: third-party code.
  They are more than half of the C lines of the repository, and with the tests
  and report tools above most of the rest, so that the models stand for about an
  eighth of all lines, though for most of those of nbio (four fifths of
  `iover.c`, nine tenths of `iogen.c`, three quarters of `main.c`, three fifths
  of `parser.c` and of the engines).

## Plan

1. Done: lock, data path, power-off cycle, threads; proofs about the lock and
   the threads; then the loop of a job over the engines, parameters and
   distributions, and the process with its journals.
2. Done: proofs about the data path, the loop of a job over the engines, the
   process, parameters and distributions.
3. Done: proofs about `SpoCycle`: the replay repairs the journal and blames nobody,
   takes no right descriptor away, and reports what was lost before the first cut.
   Left: losses of later cycles, whose stamps start again at 0 beside older ones.
4. More of the verifier: the timestamp window of `lba_overlap`, several jobs on
   one ring, and `CommitAlone` from the dependencies of the jobs (a composition
   of `Iover` with `IogenJobs`).
5. The shell around the cycle: SPO during SPOR and at NPO.
