# Slurmy: TLA+ specifications, model checking and proofs

Slurmy prepares benchmark jobs (solver configurations × problems) on a local machine, uploads
them to a SLURM cluster, submits them batch by batch from the head node, runs them on compute
nodes and shows and downloads the results. This directory holds TLA+ models of the parts that
keep a job correct while clients, controllers, allocations, web threads and SLURM fail or overlap,
the TLC configurations that check them and the TLAPS proofs. Paths below are relative to the
repository's root; `templates/` is `implementation/templates/`.

## 1. Inventory

| Component | State it keeps | Operations | Module |
| --- | --- | --- | --- |
| Submission controller (`templates/remote_submit.sh`) | `.submit-controller.lock`, `submission.csv`, `submission.state`, `submission_context.sh` | start, plan, read the checkpoint, select unfinished batches, submit, checkpoint, exit traps | `JobLifecycle` |
| Stop / resume / recover / dispatch (`templates/remote_{stop,resume,recover,dispatch}.sh`, `implementation/slurmy-job.py`) | `.stopped`, `.dispatch-launch.lock`, `.auto-recovery.lock`, `submission.state` | the four scripts | `JobLifecycle` |
| Submission coordinator (`implementation/submit_coordinator.py`) | `submit.lock`, leases, `submit-capacity.json` | attempt, release | `SubmitCoordinator`, `FairShare` |
| Batch and call runners (`templates/batch.sh`, `call.sh`) | archives, result files, index, `.ready`, progress files | skip, place, requeue, run, publish, stop | `ResultStore`, `PairResults` |
| Upload (`templates/submit.sh`, `remote_prepare.sh`, `remote_finish_upload.sh`) | staging directory, job directory | prepare, copy, unpack, publish by rename | `JobDirectory` |
| Job deletion (`templates/remote_delete.sh`, `implementation/slurmy-job.py`) | `.delete-locks/` (a lock and a deletion marker per job) | stop, delete, both tried three times | `JobDirectory` |
| Snapshot cache (`web-app/slurmy_web/snapshot_cache.py`) | entries, pending loads, host locks | get, status, invalidate, heartbeat calls, load threads, eviction | `SnapshotCache` |
| Recovery watch (`recovery_watch.py`) | an entry per watched job, blocked jobs | observe, idle candidates, stop, resume | `WebOperations` |
| Web operations (`app.py`) | operation table, shutdown flag | click, join, refuse, wait, run, shut down, automatic resume | `WebOperations` |
| Monitor (`monitor.py`, `cluster.py`) | none on the cluster | full collections, heartbeats, the shared probe of the controller lock | the probe in `JobLifecycle`, what it reports in `WebOperations` |
| Names, preparation, builds, workflow files, download and export, launcher, cancel, SSH options, batch suggestion | local files, one name file | sequential | not modelled (section 6) |
| Example solvers (`workflows/example-solvers/`) | | | not modelled (section 6) |

How they interact. `submit.sh` publishes a job directory and runs the dispatcher, which launches
the controller in its own session. The controller calls the coordinator for every batch; the
coordinator calls `sbatch`. SLURM starts `batch.sh`, which runs `call.sh` per solver-problem pair.
Stop, Resume and automatic recovery talk to the controller only through files and kernel locks;
Resume reads the index that `call.sh` writes; Delete stops the job and removes its directory. The
web server runs these scripts as subprocesses. Its page threads read the cluster through the
snapshot cache, and every observation also feeds the recovery watch, which may start an automatic
resume.

What is hard: clients die at any line while what they started goes on; the marker `.stopped` is
both a request of the user and a tool of recovery; checks of the queue and of a lock are two
steps; `sbatch` may succeed without anyone learning it; allocations are killed between two
renames, requeued and resumed; several jobs compete for a submission limit that SLURM may or may
not report; a removal runs beside a launch or another removal of the same directory; observations
of the cluster are applied after the click that made them obsolete. What makes each part correct:

* life cycle: checkpoints are never ahead of or behind what they claim, a Stop stays a Stop and
  drains the job, no batch is queued twice;
* results: a completed result is final, and index, progress and exit status never claim more than
  the result files hold;
* coordinator: no slot is claimed twice, shares are max-min fair, no slot idles, no job starves, a
  refused total is not tried again while the refusal counts;
* directory: no half of a job is ever visible as a job, a confirmed deletion is complete, nothing
  runs in a directory that loses its files, removals exclude each other;
* cache: one refresh per key, no page goes back in time or is called current when it is not, every
  refresh ends, the cache stays bounded;
* web server: an explicit Stop outlasts every stale observation, automatic recovery has a budget and
  revives nothing old, conflicting operations exclude each other, nothing is lost at shutdown.

`PROJECT.json` lists the hazards, each at its line, with the properties that would catch it.

## 2. Modules

**`JobLifecycle`**: one job on the head node. A *client* is one invocation of a remote script; it
runs once and a retry is another client. `pc` is its place in the script, `cpc` the place of the
controller it launched. A `flock` is held exactly while its process is at certain points, so lock
predicates (`ControllerLockFree`, `DispatchLockFree`, `RecoveryLockFree`) are read off the program
points; a dying process releases its locks by moving. A momentary probe `flock -n … true` is two
steps, because another process can be refused in between. `rows` is `submission.csv` by batch id,
`state` is `submission.state`, `live` counts the allocations squeue lists per batch. `marker` and
`late` are auxiliary. With `Faults` clients and controllers die anywhere, squeue fails and sbatch
is refused or accepted without confirmation; such an acceptance is taken to happen before the
controller exits (one that comes later is in `SubmitCoordinator`, as `inflight`). Every write of a
small file is one step. The thirty rounds of Stop are a choice between another round and giving up.
`ControllerPlan` stands for naming, checks and planning, which either succeed or end the controller.
A batch is `done` when its calls are complete; how Resume learns that is `ResultStore`'s subject.

**`ResultStore`**: one planned batch on the compute nodes: the allocations that run it one after
another and every file `call.sh` renames into place, one step per rename. `Faults` chooses kills
(node failure, KILL after TERM), failing writes and an index that awk reads only in part; TERM is
always possible. A failed index update removes `.ready`, and that removal is taken to succeed. A
partial read replaces the index by some of its rows and the new one, unnoticed (the header line is
left out); `lost` records it, as it records a kill. *Assumption*: allocations of a batch do not
overlap (the `NoSecondAllocation` of `JobLifecycle`); the `resubmit` run shows when it fails.
**`PairResults`** is the abstract specification: attempts save results, a completed result is final.
`ResultStore` refines it with `saved` = pairs with a result file, `completed` = those marked
complete.

**`FairShare`**: `fair_targets` as operators, and beside it the reference definition of a fair share
(`WithinFairShare`: pour the capacity evenly, up to each demand). **`SubmitCoordinator`**: the jobs
of one user that take turns under `submit.lock`. An attempt is one step up to `sbatch` (lease,
expiry, snapshot, limits, decision), because under the lock only the queue changes and it is read
once; `sbatch` and its answer are another. Time is what the code compares: a lease is fresh or older
than 45 s, an observation fresh or older than 300 s. `turn`, an unbounded counter in the code, is
kept modulo the constant `TurnCycle`, any multiple of every possible number of waiting jobs, since
only its remainder is used (proved: `TurnModelled`). `seen` is the total in the snapshot of the
attempt under way, `landed` records acceptances that come while another attempt decides, and
`inflight` is the environment's: an abandoned sbatch that SLURM may still accept.

**`JobDirectory`**: one job directory from upload to removal. The upload prepares a staging directory,
copies, unpacks and renames it (`Prepare` … `Publish`), each remote call with its tries and lost
answers. A launch (the dispatcher, then the controller up to its first `sbatch`) is split where it
touches the directory: what it looks for, what it creates by name, what it creates with `mkdir -p`.
A *client* is one `slurmy-job.py delete`: it stops the job, then deletes it, and tries each three times
when the connection breaks, while the script of an earlier try (a member of `scripts`) may go on.
`files` holds the classes of files the guards look at; `rm -rf` unlinks them one at a time in any
order, after it has read the list once (`todo`). `lock` is the controller's lock, which goes with its
inode when rm unlinks the file. `.delete-locks/JOB.lock` is held at the points `InGate`. `crossed`
records that a launch overlapped a removal, which the code does not prevent (see the limits below).
One allocation per launch is enough: the models of a controller's batches and its restarts are
`JobLifecycle`'s.

**`SnapshotCache`**: every `with self.lock` block of the cache is one step; a load thread waits for
its host's lock, reads, publishes (or records an error) and finishes, and a request joins it, waits
with a timeout, wakes or answers from the entry. Python's `is` in `status` is the flag `same` of a
request: whether the object it holds is still the entry's. A snapshot is the number of operations
the cluster had seen when it was read; `crossed` marks one that an invalidation overtook between its
reading and its publication. Ages are tests (`fresh`, `backoff`), set by the code and ended by time.
Abstractions, each of which only adds behaviours: which entries without a load in flight are evicted is a choice;
the age limit on `fetched_epoch` in `status` is left out (it only makes more answers stale); a
heartbeat may be skipped at any time; releasing the host lock belongs to the reading; a request that
was woken may find its entry evicted. All entries are taken to have one ttl.

**`WebOperations`**: the operation table, the watch and the monitor threads for one job. A click
tells the watch first and starts its operation in a later step (`Click`, `ClickStarts`), as
`job_action` and `delete_job` do; an operation is a subprocess whose remote effects are four steps
at most (the scripts' own interleavings are `JobLifecycle`'s). The loader and the heartbeat thread
fetch an observation in one step and apply it in another, so clicks and operations come between.
`observe` and `idle_candidates` are one step each, with the set of busy jobs read in it, and time is
what they compare: `idle` (not, new, past its minimum) and `wait`. Queue unavailability and heartbeats
that see only half of a change are among the observations. `reported`, `tries`, `known`, `halt` and
`forgotten` are history. Left out: the cancellation of single SLURM ids (it changes no job files and
no watch entry) and the announcement of jobs that a submission has just created.

MC modules add only what TLC needs (a symmetry set). Names of definitions follow the code; `map` in
`PROJECT.json` gives the lines of each. Operators introduced by a comment starting with *Mutant* are
plausible wrong versions of the definition after them; no specification uses them, and replacing
the definition by one must make TLC report the property it is listed with.

## 3. Runs

| Run | Bounds | Shows |
| --- | --- | --- |
| `lifecycle` | 3 clients of any kind, 2 batches, faults, symmetric clients; about 930,000 states | `AcceptedPrefix`, `CompleteMeansRecorded`, `StateNeverAhead`, `StopAdmitsAtMostOne` |
| `lifecycle_live` | 2 clients (dispatch, stop), 3 batches, no faults | `NoSecondAllocation`, `StopDrains`, `LaunchSubmitsAll` |
| `results` | 2 allocations, 2 pairs, 1 placement retry, 2 restarts, kills, failing writes and reads; about 760,000 states | `KeepsCompleted` (the refinement), `ResultHasArchive`, `NothingAhead`, `SuccessMeansComplete`, `IndexCurrentUnlessLost`, `AllocationsEnd` |
| `coordinator` | 2 jobs with demands 1–2, limit 3, 1 other task, faults; about 760,000 states | `OneClaimPerSlot`, `WorkConserving`, `FairAdmission`, `RefusalLowers` |
| `coordinator_live` | 3 jobs with demands 1–2, limit 2, no faults | `MaxOutstandingKept`, `NoStarvation` |
| `directory` | 1 upload, 1 later launch, 2 symmetric clients with 2 tries each; about 1,400,000 states | `PartialIsMarked`, `DeletedMeansGone`, `WorkKeepsInputs`, `OneRemoval` |
| `cache` | 1 host, 2 pages, 1 request at a time, 2 loads, a cache of 1 entry, 1 operation; about 430,000 states | `LabelHonest`, `OneRefresh`, `EntriesBounded`, `PendingHasEntry`, `NeverGoesBack`, `RefreshEnds` |
| `web` | 1 job, 2 attempts, 2 pairs; about 6,100,000 states | `RetryBudget`, `StopHolds`, `NoRevival`, `ShutdownQuiet`, `OneAtATime` |
| `stop_race`, `recovery_race`, `resubmit`, `index_lost` | as small as the counterexample allows | violations, below |

The runs `lifecycle`, `results`, `coordinator`, `directory`, `cache` and `web` also check `TypeOK`.

Why the bounds suffice. Three clients are a submission, a Stop and a recovery or a resume, the
largest conflict the scripts know of; two batches give a first, a last, a repeated and a skipped
one, three give a middle one. Two allocations give an interrupted run and its resume, each with
requeues below and above the placement limit. Two jobs with limit 3 have unused shares, a
remainder, leased and unleased tasks; three jobs on two slots are the smallest system in which the
rotation matters. Two Deletes with two tries give a removal beside its own retry and beside
another's; a launch of the upload and a later one give a Resume between Stop and removal. Two pages
of one host with room for one entry make loads queue for the host and evict each other, and a
second operation would only repeat the first: what a label compares is the last invalidation. Two
attempts and two pairs let a budget be spent, renewed by a result and spent again. The theorems of
section 5 cover all bounds of these runs except where that section says otherwise.

Deadlock is not checked where the system comes to rest: clients run once (`lifecycle*`, `directory`),
batches end (`results`), the server shuts down (`web`). It is checked for the coordinator and the
cache, which run for ever.

Fairness. Scripts, controllers and shells that run keep running (weak fairness per process) and
allocations and tasks end, as wall-clock limits enforce; nobody has to start, kill or signal
anything. The coordinator's `SF(Proceeds)` says that a job whose attempt would be admitted again
and again is not always the one to come too late: attempts are separated by five seconds of sleep
and nothing synchronises the controllers. `NoStarvation` speaks of a set of submitting jobs that
has stopped changing; if controllers start and end in step with the rotation, TLC shows a job that
is always passed over. `LaunchSubmitsAll` excludes a Stop and a cluster without a free slot
(`WaitsEnd`); with monitor polls among the clients it fails, because a probe can refuse a starting
controller (see the hazards). In the cache, load threads run and SSH calls end (they have timeouts);
`SF(LoadAcquires)` says that a thread blocked on a host lock that is released again and again gets
it, which heartbeats, arriving every few seconds and only when the lock is free, do not prevent.
`directory` and `web` check safety only.

## 4. What the code does not keep

Four runs end in a violation, each a disagreement between the code and what it or its documentation
says:

* `stop_race`: Stop reports *no active SLURM allocations* on a queue snapshot older than its lock
  probe; the controller's last batch can be accepted in between.
* `recovery_race`: recovery checks `.stopped`, creates it and removes it; an explicit Stop in
  between is lost.
* `resubmit`: `SLURMY_RESUME_JOB_ID` resubmits a batch that SLURM accepted without confirmation or
  whose controller died before its checkpoint.
* `index_lost`: a kill between two renames of `call.sh` leaves an index that lacks a completed row,
  and nothing repairs it.

Other limits of the code appear as named exceptions in properties that otherwise hold:

* `lost` of `ResultStore`: besides the kill of `index_lost`, an index read only in part
  (`call.sh:129`) is replaced by one with fewer rows, and `.ready` stays.
* `crossed` of `JobDirectory`: a launch that has looked at `.stopped` before a removal begins, or
  after rm has unlinked it, writes into the directory being removed and may bring it back.
* `crossed` of `SnapshotCache`: a snapshot that was read before an operation's invalidation and
  published after it is stamped with the time of publication and shown as current.
* `forgotten` of `WebOperations`: a monitor that sees recovery's own transient `.stopped` drops the
  watch entry and with it the number of attempts, so the budget starts again.
* `RefusalLowers` holds while an observed ceiling is in force. After its five minutes a refusal still
  takes the minimum with the expired value, and an old lower ceiling is in force again.

## 5. Proofs

The proof module of each component states an inductive invariant `IInv`, proves `Init => IInv` and
`IInv /\ [Next]_vars => IInv'`, and reads its theorems off it. The named assumptions are those of the
model's constants and no more: counts are natural numbers, sets of keys are finite, a model value
that stands for *none* is not one of the values. TLC has checked every `IInv` on the instances of
section 3.

**`JobLifecycleProofs`**, for any set of clients, any positive number of batches, any subset of
operations and with or without faults: `TypeCorrect`, `ControllerExclusion`, `PrefixAlways`,
`CompleteAlways`, `StateAlways` and `StopAdmits`, that is every property of the `lifecycle` run and
mutual exclusion of controllers. `IInv` adds: a controller exists only behind a client that has
launched it (`NotYetLaunched`), at most one controller is past its lock (`OneController`), the
recorded batches are `0 .. Accepted-1` (`RecordedInterval`), a controller that has read the file has
`submitted = Accepted` and a loop index of at most `Accepted` (`LoopInSync`), counts saved by
dispatchers never exceed the recorded ones (`CountsNeverAhead`), and a controller at `sbatch` has seen
no acceptance since the marker was created (`LateOnlyInFlight`). The argument: only the lock holder
writes rows, so its own count stays right; it appends either a repeated batch or exactly the next
one; it reaches the end of its loop only when every batch is recorded; and after a Stop it meets the
marker before its next attempt. Steps are grouped: `QuietMoves` covers every action that changes
program points only; one lemma per conjunct then has one case per remaining action.
`NoSecond` proves `NoSecondAllocation` under `Undisturbed` (no faults, no Resume, no recovery, the
circumstances of `lifecycle_live`): a submitting controller is at the first batch not on record
(`AtNextBatch`), and each allocation is on record or about to be recorded (`EachAccounted`). The
`resubmit` run shows that without the first half of `Undisturbed` it is false.

**`ResultStoreProofs`**, for any pairs, allocations, retries and faults: every safety property of the
`results` run, and `Implements`: `ResultStore` implements `PairResults` (each step saves the row of a
pair without a complete result or changes neither set). One allocation runs at a time (`OneLive`), so
the pair a call works at stays without a complete result from batch.sh's test to call.sh's rename
(`AtWork`); hence a completed result is never replaced, which carries every statement of the form
*… is complete* over each step; while no call has failed, what batch.sh has passed is complete
(`Behind`), and between two renames index and results differ by the row under way (`IndexMatches`).

**`JobDirectoryProofs`**, for any clients, tries and launches: every property of the `directory` run.
One deletion script is past the gate (`GateExclusive`); from squeue to its marker it holds the
controller's lock, so no allocation appears after squeue (`LockKeepsOut`, `HoldersHold`); a launch that
is not yet at the lock when the removal begins, or looks at `.stopped` while it lasts, has overlapped
it; without such an overlap nobody writes once the directory is gone (`NobodyBuilds`), and before
publication nobody can (`Unpublished`).

**`SnapshotCacheProofs`**, for any hosts, pages, requests, threads and limit: every safety and action
property of the `cache` run. A thread owns its key from the block that creates its event to the one
that pops it (`PendingRight`); so what it publishes is newer than what is there (`LoadNewer`,
`NotAhead`); an entry is fresh only with a snapshot read after the last invalidation, or crossed
(`EntryHonest`, `LoadHonest`); and a request that still holds the entry's object holds its value
(`SameObject`). `EntriesBounded` needs the cardinality lemmas of the library and finite sets of keys.

**`WebOperationsProofs`**, for any number of attempts and pairs: every property of the `web` run. Of
two running operations one is a Stop beside a download or a resume, or a delete that waits for the
other (`Paired`); a successful Stop leaves nothing that could remove the marker (`Halted`); every
source of an automatic resume (an entry, a candidate, an observation of work, work itself) needs a
known job (`Knows`); an observation never shows fewer results than were reported, and the attempts
of an entry are at least the retries counted (`Seen`, `Budget`).

**`FairShareProofs`**, for any number of jobs, demands, capacity and turn: what the loop of
`fair_targets` computes. `ExactDivision`: the targets sum to max(0, capacity), or to all demands where
these are less. `FairTargetsFair`: whatever a target allows is within the fair share of the reference
definition. `TurnWraps`: targets depend on the turn modulo a common multiple of the numbers of jobs
only. Both the loop and a sum are recursive functions over sets of jobs. The library's induction
rules cannot be used (they take an operator, which the provers cannot instantiate), so the module
argues by a minimal counterexample: the proper-subset order on a finite set is well founded
(`MinimalSubset`, from the library), and one step of the recursion refutes the smallest set for
which a claim fails. In this way it proves that such recursions have a solution and only one
(`RecursionExists`, `RecursionUnique`), hence that `SumOver` and the loop satisfy their equations;
that sums do not depend on the order of the fold, are monotone and split (`SumRemove`,
`SumMonotone`, `SumSplit`); and that the loop keeps its invariant (`PopKeeps`): a job that was popped
asked for no more than the present equal share, because granting a demand that fits the share never
lowers the share of the others. The rotation is a bijection of the waiting jobs
(`PositionBijection`), so exactly the remainder is handed out on top, whatever the turn.

**`SubmitCoordinatorProofs`**, for any finite set of jobs, demands, limit and `TurnCycle`: every safety
and action property of the two coordinator runs. `IInv` adds to `TypeOK` and `OneClaimPerSlot`: one
attempt is at `sbatch` (`Mutex`), SLURM keeps the user within its limit (`WithinLimit`; it bounds `seen`
and the observations made from it), and an attempt at `sbatch` has seen a total below an observed
ceiling in force (`SeenBelow`, from which `RefusalLowers` follows: nobody else can refresh the
observation while the lock is held). `FairAdmission` then is `FairTargetsFair` at the only step that
leads to `sbatch` (`OnlyProceeds`), and `WorkConserving` follows from `ExactDivision` by counting: if no
leased job were below its target, the targets would sum to less than the slots there are; it needs
the types only. `MaxOutstandingKept` is proved for a system without faults, as `coordinator_live`
checks it, with a second invariant (`Modest`); with faults it does not hold, since an sbatch given up
for lost can still be accepted after its job has filled its share.

Only model-checked: everything under fairness (`StopDrains`, `LaunchSubmitsAll`, `AllocationsEnd`,
`NoStarvation`, `RefreshEnds`), since liveness is outside the prover's reach. Every invariant, every
action property and the refinement of the passing runs has a theorem.

## 6. Not modelled, and the plan

* *Names* (`job_names.py`, `remote_rename_job.sh`): every read and write of a name is under one
  exclusive lock, so nothing interleaves; what is left is text normalisation. In `JobLifecycle` the
  controller's naming step succeeds or ends it.
* *Preparation, packaging, workflow files, download and export*: sequential transformations of files
  on behalf of one user, about names and contents.
* *Builds* (`build/slurmy-build.py`): compiler runs, file transfer and one cache record. Its one
  interleaving, sources that change while the outputs are downloaded, is listed among the hazards.
* *Launcher, cancellation, SSH options, batch suggestion*: operating-system calls and a formula. Their
  failures appear as `ClientDies`, `ClientLoses`, `Kill` and `Terminate`.
* *Presentation*: routes, pages, and how squeue, sacct and the job files are parsed. Core selection and
  the parsing of measurements are data the properties do not depend on.
* *`workflows/example-solvers/`* (E, Vampire, Drodi): third-party theorem provers in C and C++, by far the
  largest part of the tree. Slurmy packages them, runs them as black boxes and measures them; they are
  not its logic, and a call's outcome in `ResultStore` stands for whatever they do.

What could come next, in this order:

1. In `JobLifecycle`, acceptances that come after their controller has gone (today only in
   `SubmitCoordinator`).
2. The announcement of new jobs in `app.py`, with two threads that see the same job.
3. The composition of `WebOperations` with the scripts of `JobLifecycle`, which is too large for TLC
   as it stands and would need an abstraction of the scripts proved correct first.
4. The build cache's fingerprint.
