---------------------------- MODULE JobLifecycle ----------------------------
(***************************************************************************)
(* The life of one Slurmy job on the head node: the scripts that submit,   *)
(* stop, resume and automatically recover it, the detached controller that *)
(* submits its batches, and the files and kernel locks they share.         *)
(*                                                                         *)
(* A client is one invocation of a remote script over SSH (submit.sh,      *)
(* slurmy-job.py stop or resume, resume --if-idle, one monitor poll).  It  *)
(* runs once; a retry is another client.  A client that reaches the        *)
(* dispatcher launches at most one controller, so the controller carries   *)
(* the name of its client.  The job directory exists throughout: deletion  *)
(* is a component of its own.                                              *)
(***************************************************************************)
EXTENDS Naturals, Sequences, FiniteSets

CONSTANTS Client,   \* invocations of the client scripts
          N,        \* number of planned batches
          Kinds,    \* the operations clients may perform
          Faults    \* whether processes die and SLURM answers get lost

ASSUME NAssumption == N \in Nat \ {0}
ASSUME KindsAssumption ==
    Kinds \subseteq {"dispatch", "stop", "resume", "recover", "monitor"}
ASSUME FaultsAssumption == Faults \in BOOLEAN

Batch == 0 .. (N - 1)

VARIABLES
    kind,       \* the operation each client performs ("none" before it starts)
    pc,         \* where each client is in its script
    saved,      \* accepted count a dispatcher read from submission.state
    cpc,        \* where each client's controller is in remote_submit.sh
    cur,        \* BATCH_ID of a controller's submission loop
    submitted,  \* a controller's own count of accepted batches
    wanted,     \* RESUME_WANTED: unfinished batches a resuming controller repeats
    stopped,    \* the .stopped marker exists
    context,    \* submission_context.sh has been saved
    rows,       \* submission.csv: the batch_id of every row, in file order
    state,      \* submission.state: its word and its accepted count
    live,       \* allocations of each batch that squeue lists
    done,       \* batches whose calls are all complete
    marker,     \* auxiliary: which script created the .stopped marker
    late        \* auxiliary: allocations accepted since the marker was created

clientVars == <<kind, pc, saved>>
controllerVars == <<cpc, cur, submitted, wanted>>
vars == <<kind, pc, saved, cpc, cur, submitted, wanted, stopped, context,
          rows, state, live, done, marker, late>>

-----------------------------------------------------------------------------
(* Locks.  A flock is held exactly as long as the process that took it runs, *)
(* so who holds one is read off the program counters.                        *)

ControllerEnd == {"none", "done", "failed"}
Submitting == {"init", "plan", "read", "select", "next", "check", "sbatch",
               "record", "publish"}
ExclusiveProbe == {"dispatchHeld", "stopHeld", "resumeHeld", "recoverHeld"}
Dispatching == {"dispatchProbe", "dispatchHeld", "dispatchCheck",
                "dispatchLaunch", "dispatchWait"}
Recovering == {"recoverQueue", "recoverProbe", "recoverHeld", "recoverMark",
               "resumeCheck", "resumeQueue", "resumeProbe", "resumeHeld",
               "resumeClear", "dispatchLock"} \cup Dispatching
Stopping == {"stopMark", "stopQueue", "stopProbe", "stopHeld", "stopWrite"}
ClientActive == Stopping \cup Recovering
                \cup {"recoverCheck", "monitorProbe", "monitorHeld"}

\* .submit-controller.lock, as an exclusive and as a shared request see it.
NoExclusiveHolder == \A q \in Client : /\ cpc[q] \notin Submitting
                                       /\ pc[q] \notin ExclusiveProbe
ControllerLockFree == NoExclusiveHolder /\ \A q \in Client : pc[q] # "monitorHeld"
\* .dispatch-launch.lock; the launched controller closes its descriptor.
DispatchLockFree == \A q \in Client : pc[q] \notin Dispatching
\* .auto-recovery.lock; the launched controller inherits its descriptor.
RecoveryLockFree ==
    \A q \in Client : kind[q] = "recover" => /\ pc[q] \notin Recovering
                                             /\ cpc[q] \in ControllerEnd

\* squeue lists no allocation of this job.
QueueEmpty == \A b \in Batch : live[b] = 0

\* The batches submission.csv names, and remote_submit.sh's count of them.
Recorded == {rows[i] : i \in 1 .. Len(rows)}
Accepted == Cardinality(Recorded)
RecordedBefore(i) == {rows[j] : j \in 1 .. (i - 1)}
\* The test remote_submit.sh makes before it trusts submission.csv.
ContiguousPrefix ==
    \A i \in 1 .. Len(rows) : \/ rows[i] \in RecordedBefore(i)
                              \/ rows[i] = Cardinality(RecordedBefore(i))

StateWord == {"none", "submitting", "complete", "failed", "stopped"}
SubmissionState == [word : StateWord, accepted : Nat]

-----------------------------------------------------------------------------
Init ==
    /\ kind = [p \in Client |-> "none"]
    /\ pc = [p \in Client |-> "idle"]
    /\ saved = [p \in Client |-> 0]
    /\ cpc = [p \in Client |-> "none"]
    /\ cur = [p \in Client |-> 0]
    /\ submitted = [p \in Client |-> 0]
    /\ wanted = [p \in Client |-> {}]
    /\ stopped = FALSE
    /\ context = FALSE
    /\ rows = << >>
    /\ state = [word |-> "none", accepted |-> 0]
    /\ live = [b \in Batch |-> 0]
    /\ done = {}
    /\ marker = "none"
    /\ late = 0

Goto(p, at) == pc' = [pc EXCEPT ![p] = at]
CGoto(p, at) == cpc' = [cpc EXCEPT ![p] = at]

\* slurmy-job.py runs remote_stop.sh before a requested Resume; --if-idle
\* runs remote_recover.sh instead.
Entry(k) == CASE k = "dispatch" -> "dispatchLock"
              [] k = "stop"     -> "stopMark"
              [] k = "resume"   -> "stopMark"
              [] k = "recover"  -> "recoverCheck"
              [] k = "monitor"  -> "monitorProbe"

Start(p, k) ==
    /\ pc[p] = "idle"
    /\ kind' = [kind EXCEPT ![p] = k]
    /\ Goto(p, Entry(k))
    /\ UNCHANGED <<saved, controllerVars, stopped, context, rows, state, live,
                   done, marker, late>>

\* ssh, its 120 second limit or the network ends the client's script.  The
\* controller it may have launched is in another session and lives on.
ClientDies(p) ==
    /\ Faults
    /\ pc[p] \in ClientActive
    /\ Goto(p, "ended")
    /\ saved' = [saved EXCEPT ![p] = 0]
    /\ UNCHANGED <<kind, controllerVars, stopped, context, rows, state, live,
                   done, marker, late>>

(* `flock -n .submit-controller.lock true`: the probe takes the lock, if it  *)
(* is free, for as long as `true` runs.                                      *)
Probe(p, at, held, busy) ==
    /\ pc[p] = at
    /\ \/ ControllerLockFree /\ Goto(p, held)
       \/ ~ControllerLockFree /\ \E b \in busy : Goto(p, b)
    /\ UNCHANGED <<kind, saved, controllerVars, stopped, context, rows, state,
                   live, done, marker, late>>

ProbeEnds(p, held, next) ==
    /\ pc[p] = held
    /\ Goto(p, next)
    /\ UNCHANGED <<kind, saved, controllerVars, stopped, context, rows, state,
                   live, done, marker, late>>

\* The squeue query of a script: an unreadable queue ends it; the other two
\* answers lead where the script says.
QueryQueue(p, at, empty, busy) ==
    /\ pc[p] = at
    /\ \/ Faults /\ Goto(p, "ended")
       \/ QueueEmpty /\ Goto(p, empty)
       \/ ~QueueEmpty /\ \E b \in busy : Goto(p, b)
    /\ UNCHANGED <<kind, saved, controllerVars, stopped, context, rows, state,
                   live, done, marker, late>>

-----------------------------------------------------------------------------
(* remote_stop.sh.  After a check that finds work left it looks again (up to *)
(* 30 times) or gives up; the count is abstracted to that choice.  scancel   *)
(* only hastens AllocationEnds, which is always possible.                    *)

StopMark(p) ==
    /\ pc[p] = "stopMark"
    /\ stopped' = TRUE
    /\ marker' = "stop"
    /\ late' = IF stopped THEN late ELSE 0
    /\ Goto(p, "stopQueue")
    /\ UNCHANGED <<kind, saved, controllerVars, context, rows, state, live, done>>

StopQueue(p) == QueryQueue(p, "stopQueue", "stopProbe", {"stopMark", "ended"})
StopProbe(p) == Probe(p, "stopProbe", "stopHeld", {"stopMark", "ended"})
StopProbeEnds(p) == ProbeEnds(p, "stopHeld", "stopWrite")

StopWrite(p) ==
    /\ pc[p] = "stopWrite"
    /\ state' = [word |-> "stopped", accepted |-> state.accepted]
    /\ Goto(p, IF kind[p] = "resume" THEN "resumeCheck" ELSE "ended")
    /\ UNCHANGED <<kind, saved, controllerVars, stopped, context, rows, live,
                   done, marker, late>>

-----------------------------------------------------------------------------
(* remote_recover.sh, which continues into remote_resume.sh.                 *)

RecoverCheck(p) ==
    /\ pc[p] = "recoverCheck"
    /\ \/ (~RecoveryLockFree \/ stopped) /\ Goto(p, "ended")
       \/ RecoveryLockFree /\ ~stopped /\ Goto(p, "recoverQueue")
    /\ UNCHANGED <<kind, saved, controllerVars, stopped, context, rows, state,
                   live, done, marker, late>>

RecoverQueue(p) == QueryQueue(p, "recoverQueue", "recoverProbe", {"ended"})
RecoverProbe(p) == Probe(p, "recoverProbe", "recoverHeld", {"ended"})
RecoverProbeEnds(p) == ProbeEnds(p, "recoverHeld", "recoverMark")

RecoverMark(p) ==
    /\ pc[p] = "recoverMark"
    /\ stopped' = TRUE
    /\ marker' = IF stopped THEN marker ELSE "recover"
    /\ late' = IF stopped THEN late ELSE 0
    /\ Goto(p, "resumeCheck")
    /\ UNCHANGED <<kind, saved, controllerVars, context, rows, state, live, done>>

(* remote_resume.sh up to its embedded copy of the dispatcher.               *)

ResumeCheck(p) ==
    /\ pc[p] = "resumeCheck"
    /\ Goto(p, IF stopped /\ context THEN "resumeQueue" ELSE "ended")
    /\ UNCHANGED <<kind, saved, controllerVars, stopped, context, rows, state,
                   live, done, marker, late>>

ResumeQueue(p) == QueryQueue(p, "resumeQueue", "resumeProbe", {"ended"})
ResumeProbe(p) == Probe(p, "resumeProbe", "resumeHeld", {"ended"})
ResumeProbeEnds(p) == ProbeEnds(p, "resumeHeld", "resumeClear")

\* `rm -- .stopped` fails, and ends the script, when the marker is gone.
ResumeClear(p) ==
    /\ pc[p] = "resumeClear"
    /\ stopped' = FALSE
    /\ marker' = "none"
    /\ late' = 0
    /\ Goto(p, IF stopped THEN "dispatchLock" ELSE "ended")
    /\ UNCHANGED <<kind, saved, controllerVars, context, rows, state, live, done>>

-----------------------------------------------------------------------------
(* remote_dispatch.sh, and its copy in remote_resume.sh.                     *)

DispatchLock(p) ==
    /\ pc[p] = "dispatchLock"
    /\ DispatchLockFree
    /\ Goto(p, "dispatchProbe")
    /\ UNCHANGED <<kind, saved, controllerVars, stopped, context, rows, state,
                   live, done, marker, late>>

DispatchProbe(p) == Probe(p, "dispatchProbe", "dispatchHeld", {"ended"})
DispatchProbeEnds(p) == ProbeEnds(p, "dispatchHeld", "dispatchCheck")

DispatchCheck(p) ==
    /\ pc[p] = "dispatchCheck"
    /\ \/ stopped /\ Goto(p, "ended") /\ UNCHANGED saved
       \/ /\ ~stopped
          /\ saved' = [saved EXCEPT ![p] = state.accepted]
          /\ Goto(p, "dispatchLaunch")
    /\ UNCHANGED <<kind, controllerVars, stopped, context, rows, state, live,
                   done, marker, late>>

DispatchLaunch(p) ==
    /\ pc[p] = "dispatchLaunch"
    /\ state' = [word |-> "submitting", accepted |-> saved[p]]
    /\ CGoto(p, "start")
    /\ Goto(p, "dispatchWait")
    /\ UNCHANGED <<kind, saved, cur, submitted, wanted, stopped, context, rows,
                   live, done, marker, late>>

\* After 0.2 seconds: has the controller already ended unsuccessfully?
DispatchWait(p) ==
    /\ pc[p] = "dispatchWait"
    /\ \/ cpc[p] = "failed" /\ state' = [word |-> "failed", accepted |-> saved[p]]
       \/ cpc[p] # "failed" /\ UNCHANGED state
    /\ saved' = [saved EXCEPT ![p] = 0]
    /\ Goto(p, "ended")
    /\ UNCHANGED <<kind, controllerVars, stopped, context, rows, live,
                   done, marker, late>>

-----------------------------------------------------------------------------
(* remote_submit.sh, the controller.                                         *)

\* A controller's variables go with its process.
ControllerEnds(p, how) ==
    /\ CGoto(p, how)
    /\ cur' = [cur EXCEPT ![p] = 0]
    /\ submitted' = [submitted EXCEPT ![p] = 0]
    /\ wanted' = [wanted EXCEPT ![p] = {}]

\* An unsuccessful exit with the EXIT trap installed: finish_submit.
Exit1(p) ==
    /\ ControllerEnds(p, "failed")
    /\ state' = [word |-> "failed", accepted |-> submitted[p]]

\* Mutant: the controller does not take its lock.
ControllerLockMissing(p) ==
    /\ cpc[p] = "start"
    /\ CGoto(p, "init")
    /\ UNCHANGED <<clientVars, cur, submitted, wanted, stopped, context, rows,
                   state, live, done, marker, late>>

\* `flock -n 9`; the refusal precedes the EXIT trap, so it writes nothing.
ControllerLock(p) ==
    /\ cpc[p] = "start"
    /\ CGoto(p, IF ControllerLockFree THEN "init" ELSE "failed")
    /\ UNCHANGED <<clientVars, cur, submitted, wanted, stopped, context, rows,
                   state, live, done, marker, late>>

ControllerInit(p) ==
    /\ cpc[p] = "init"
    /\ context' = TRUE
    /\ \/ stopped /\ Exit1(p)
       \/ ~stopped /\ CGoto(p, "plan") /\ UNCHANGED <<cur, submitted, wanted, state>>
    /\ UNCHANGED <<clientVars, stopped, rows, live, done, marker, late>>

\* Name assignment, configuration and topology checks, allocation planning.
ControllerPlan(p) ==
    /\ cpc[p] = "plan"
    /\ \/ CGoto(p, "read") /\ UNCHANGED <<cur, submitted, wanted, state>>
       \/ Faults /\ Exit1(p)
    /\ UNCHANGED <<clientVars, stopped, context, rows, live, done, marker, late>>

ControllerRead(p) ==
    /\ cpc[p] = "read"
    /\ \/ /\ ContiguousPrefix
          /\ submitted' = [submitted EXCEPT ![p] = Accepted]
          /\ state' = [word |-> "submitting", accepted |-> Accepted]
          /\ CGoto(p, "select")
          /\ UNCHANGED <<cur, wanted>>
       \/ ~ContiguousPrefix /\ Exit1(p)
    /\ UNCHANGED <<clientVars, stopped, context, rows, live, done, marker, late>>

\* RESUME_INCOMPLETE is 1 only behind remote_resume.sh.
ControllerSelect(p) ==
    /\ cpc[p] = "select"
    /\ wanted' = [wanted EXCEPT ![p] =
                    IF kind[p] \in {"resume", "recover"} THEN Batch \ done ELSE {}]
    /\ CGoto(p, "next")
    /\ UNCHANGED <<clientVars, cur, submitted, stopped, context, rows, state,
                   live, done, marker, late>>

\* Mutant: an off-by-one in the test for recorded batches.
SkippedOneMore(p) == cur[p] <= submitted[p] /\ cur[p] \notin wanted[p]

\* BATCH_ID < submitted, and not among the batches to repeat.
Skipped(p) == cur[p] < submitted[p] /\ cur[p] \notin wanted[p]

\* Mutant: the marker breaks out of the loop instead of failing the controller.
ControllerNextBreaks(p) ==
    /\ cpc[p] = "next"
    /\ \/ /\ cur[p] = N \/ stopped
          /\ state' = [word |-> "complete", accepted |-> submitted[p]]
          /\ ControllerEnds(p, "done")
       \/ /\ cur[p] < N /\ ~stopped /\ Skipped(p)
          /\ cur' = [cur EXCEPT ![p] = @ + 1]
          /\ UNCHANGED <<cpc, submitted, wanted, state>>
       \/ /\ cur[p] < N /\ ~stopped /\ ~Skipped(p)
          /\ CGoto(p, "check")
          /\ UNCHANGED <<cur, submitted, wanted, state>>
    /\ UNCHANGED <<clientVars, stopped, context, rows, live, done, marker, late>>

\* Head of the submission loop.
ControllerNext(p) ==
    /\ cpc[p] = "next"
    /\ \/ /\ cur[p] = N
          /\ state' = [word |-> "complete", accepted |-> submitted[p]]
          /\ ControllerEnds(p, "done")
       \/ cur[p] < N /\ stopped /\ Exit1(p)
       \/ /\ cur[p] < N /\ ~stopped /\ Skipped(p)
          /\ cur' = [cur EXCEPT ![p] = @ + 1]
          /\ UNCHANGED <<cpc, submitted, wanted, state>>
       \/ /\ cur[p] < N /\ ~stopped /\ ~Skipped(p)
          /\ CGoto(p, "check")
          /\ UNCHANGED <<cur, submitted, wanted, state>>
    /\ UNCHANGED <<clientVars, stopped, context, rows, live, done, marker, late>>

\* Mutant: the loop that waits for capacity does not look at the marker.
ControllerCheckMissing(p) ==
    /\ cpc[p] = "check"
    /\ CGoto(p, "sbatch")
    /\ UNCHANGED <<clientVars, cur, submitted, wanted, state, stopped, context,
                   rows, live, done, marker, late>>

\* The marker is read before every attempt to submit this batch.
ControllerCheck(p) ==
    /\ cpc[p] = "check"
    /\ \/ stopped /\ Exit1(p)
       \/ ~stopped /\ CGoto(p, "sbatch") /\ UNCHANGED <<cur, submitted, wanted, state>>
    /\ UNCHANGED <<clientVars, stopped, context, rows, live, done, marker, late>>

\* The coordinator answers WAIT: sleep, then look at the marker again.
ControllerWait(p) ==
    /\ cpc[p] = "sbatch"
    /\ CGoto(p, "check")
    /\ UNCHANGED <<clientVars, cur, submitted, wanted, stopped, context, rows,
                   state, live, done, marker, late>>

\* slurmctld queues the batch.
Enqueue(p) ==
    /\ live' = [live EXCEPT ![cur[p]] = @ + 1]
    /\ late' = IF stopped THEN late + 1 ELSE 0

\* Mutant: the new count is published before the row is on disk.
ControllerAcceptPublishes(p) ==
    /\ cpc[p] = "sbatch"
    /\ Enqueue(p)
    /\ CGoto(p, "record")
    /\ state' = [word |-> "submitting", accepted |-> submitted[p] + 1]
    /\ UNCHANGED <<clientVars, cur, submitted, wanted, stopped, context, rows,
                   done, marker>>

ControllerAccept(p) ==
    /\ cpc[p] = "sbatch"
    /\ Enqueue(p)
    /\ CGoto(p, "record")
    /\ UNCHANGED <<clientVars, cur, submitted, wanted, stopped, context, rows,
                   state, done, marker>>

\* Mutant: a refused batch is passed over instead of ending the controller.
ControllerErrorContinues(p) ==
    /\ Faults
    /\ cpc[p] = "sbatch"
    /\ CGoto(p, "next")
    /\ cur' = [cur EXCEPT ![p] = @ + 1]
    /\ UNCHANGED <<clientVars, submitted, wanted, stopped, context, rows, state,
                   live, done, marker, late>>

\* The coordinator answers ERROR: SLURM refused the batch, or accepted it
\* without sbatch learning of it within its 60 seconds.  (SubmitCoordinator has the
\* acceptances that come even later.)
ControllerError(p) ==
    /\ Faults
    /\ cpc[p] = "sbatch"
    /\ Enqueue(p) \/ UNCHANGED <<live, late>>
    /\ Exit1(p)
    /\ UNCHANGED <<clientVars, stopped, context, rows, done, marker>>

\* Mutant: rows number the batches from one.
ControllerRecordFromOne(p) ==
    /\ cpc[p] = "record"
    /\ rows' = Append(rows, cur[p] + 1)
    /\ submitted' = [submitted EXCEPT ![p] = IF cur[p] >= @ THEN @ + 1 ELSE @]
    /\ CGoto(p, "publish")
    /\ UNCHANGED <<clientVars, cur, wanted, stopped, context, state, live, done,
                   marker, late>>

ControllerRecord(p) ==
    /\ cpc[p] = "record"
    /\ rows' = Append(rows, cur[p])
    /\ submitted' = [submitted EXCEPT ![p] = IF cur[p] >= @ THEN @ + 1 ELSE @]
    /\ CGoto(p, "publish")
    /\ UNCHANGED <<clientVars, cur, wanted, stopped, context, state, live, done,
                   marker, late>>

ControllerPublish(p) ==
    /\ cpc[p] = "publish"
    /\ state' = [word |-> "submitting", accepted |-> submitted[p]]
    /\ cur' = [cur EXCEPT ![p] = @ + 1]
    /\ CGoto(p, "next")
    /\ UNCHANGED <<clientVars, submitted, wanted, stopped, context, rows, live,
                   done, marker, late>>

\* HUP, INT or TERM: the trap exits 1, through finish_submit.
ControllerTerminated(p) ==
    /\ Faults
    /\ cpc[p] \in Submitting
    /\ Exit1(p)
    /\ UNCHANGED <<clientVars, stopped, context, rows, live, done, marker, late>>

\* SIGKILL or a head-node crash: the kernel drops the lock, no trap runs.
ControllerKilled(p) ==
    /\ Faults
    /\ cpc[p] \in Submitting \cup {"start"}
    /\ ControllerEnds(p, "failed")
    /\ UNCHANGED <<clientVars, stopped, context, rows, state, live, done,
                   marker, late>>

-----------------------------------------------------------------------------
(* SLURM: an allocation ends, having completed all calls of its batch or not *)
(* (failed, cancelled, out of time).                                         *)

AllocationEnds(b) ==
    /\ live[b] > 0
    /\ live' = [live EXCEPT ![b] = @ - 1]
    /\ done' \in {done, done \cup {b}}
    /\ UNCHANGED <<clientVars, controllerVars, stopped, context, rows, state,
                   marker, late>>

\* monitor.py's collector takes the lock shared, for as long as `true` runs.
MonitorProbe(p) ==
    /\ pc[p] = "monitorProbe"
    /\ Goto(p, IF NoExclusiveHolder THEN "monitorHeld" ELSE "ended")
    /\ UNCHANGED <<kind, saved, controllerVars, stopped, context, rows, state,
                   live, done, marker, late>>
MonitorProbeEnds(p) == ProbeEnds(p, "monitorHeld", "ended")

-----------------------------------------------------------------------------
StopStep(p) == \/ StopMark(p) \/ StopQueue(p) \/ StopProbe(p)
               \/ StopProbeEnds(p) \/ StopWrite(p)
RecoverStep(p) == \/ RecoverCheck(p) \/ RecoverQueue(p) \/ RecoverProbe(p)
                  \/ RecoverProbeEnds(p) \/ RecoverMark(p)
ResumeStep(p) == \/ ResumeCheck(p) \/ ResumeQueue(p) \/ ResumeProbe(p)
                 \/ ResumeProbeEnds(p) \/ ResumeClear(p)
DispatchStep(p) == \/ DispatchLock(p) \/ DispatchProbe(p) \/ DispatchProbeEnds(p)
                   \/ DispatchCheck(p) \/ DispatchLaunch(p) \/ DispatchWait(p)
MonitorStep(p) == MonitorProbe(p) \/ MonitorProbeEnds(p)
ClientStep(p) == \/ StopStep(p) \/ RecoverStep(p) \/ ResumeStep(p)
                 \/ DispatchStep(p) \/ MonitorStep(p)
ControllerStep(p) == \/ ControllerLock(p) \/ ControllerInit(p) \/ ControllerPlan(p)
                     \/ ControllerRead(p) \/ ControllerSelect(p)
                     \/ ControllerNext(p) \/ ControllerCheck(p)
                     \/ ControllerWait(p) \/ ControllerAccept(p)
                     \/ ControllerError(p) \/ ControllerRecord(p)
                     \/ ControllerPublish(p)
ControllerDies(p) == ControllerTerminated(p) \/ ControllerKilled(p)

Next == \/ \E p \in Client : \/ \E k \in Kinds : Start(p, k)
                             \/ ClientStep(p)
                             \/ ClientDies(p)
                             \/ ControllerStep(p)
                             \/ ControllerDies(p)
        \/ \E b \in Batch : AllocationEnds(b)

Spec == Init /\ [][Next]_vars

(* Fairness.  The scripts, the controller and SLURM keep going once started;  *)
(* nobody is obliged to start an operation, and nothing is obliged to fail.   *)
Fairness ==
    /\ \A p \in Client : WF_vars(ClientStep(p)) /\ WF_vars(ControllerStep(p))
    /\ \A b \in Batch : WF_vars(AllocationEnds(b))
FairSpec == Spec /\ Fairness

-----------------------------------------------------------------------------
(* Properties.                                                               *)

ClientAt == {"idle", "ended"} \cup ClientActive
ControllerAt == {"start"} \cup Submitting \cup ControllerEnd

\* Every variable stays in its type: every client and controller is at a
\* known point of its script, submission.csv names planned batches only.
TypeOK ==
    /\ kind \in [Client -> {"none"} \cup Kinds]
    /\ pc \in [Client -> ClientAt]
    /\ saved \in [Client -> Nat]
    /\ cpc \in [Client -> ControllerAt]
    /\ cur \in [Client -> 0 .. N]
    /\ submitted \in [Client -> Nat]
    /\ wanted \in [Client -> SUBSET Batch]
    /\ stopped \in BOOLEAN
    /\ context \in BOOLEAN
    /\ rows \in Seq(Batch)
    /\ state \in SubmissionState
    /\ live \in [Batch -> Nat]
    /\ done \in SUBSET Batch
    /\ marker \in {"none", "stop", "recover"}
    /\ late \in Nat

\* submission.csv is always a contiguous batch prefix, whatever controllers
\* crash, are resumed or overlap with other scripts: the test at
\* remote_submit.sh 213 never refuses to resume a job.
AcceptedPrefix == ContiguousPrefix

\* `complete` in submission.state means that submission.csv records every
\* planned batch, however the submission was cut into controllers.
CompleteMeansRecorded == state.word = "complete" => Recorded = Batch

\* The accepted count in submission.state, as any of the four scripts that
\* write it leaves it, never claims a batch that submission.csv lacks.
StateNeverAhead == state.accepted <= Accepted

\* Once a Stop marker exists, at most one more allocation is accepted before
\* it is cleared: the attempt already past its own look at the marker.
StopAdmitsAtMostOne == stopped => late <= 1

\* No batch has two allocations in the queue, so no call runs twice at once.
NoSecondAllocation == \A b \in Batch : live[b] <= 1

\* When Stop has found the queue empty and takes the controller lock, what it
\* then reports is true: no allocation of the job is active.
StopConfirmsQuiet ==
    [][\A p \in Client : pc[p] = "stopProbe" /\ pc'[p] = "stopHeld" => QueueEmpty]_vars

\* Automatic recovery clears only the marker it created, never the marker of
\* an explicit Stop.
RecoveryKeepsStop ==
    [][\A p \in Client : /\ kind[p] = "recover"
                         /\ pc[p] = "resumeClear"
                         /\ pc'[p] = "dispatchLock"
                         => marker # "stop"]_vars

\* A marker that stays in place drains the job: every controller exits and
\* the queue empties for good.
StopDrains ==
    <>[]stopped => <>[](QueueEmpty /\ \A p \in Client : cpc[p] \in ControllerEnd)

\* No controller is answered WAIT forever for the same batch.
WaitsEnd == \A p \in Client : []<>(cpc[p] \notin {"check", "sbatch"})

\* Unless somebody stops the job or the cluster never has a free slot,
\* launching a controller gets every batch recorded, also when several
\* dispatchers and their probes compete for the lock that a controller may
\* take only without waiting.
LaunchSubmitsAll ==
    /\ []~stopped
    /\ WaitsEnd
    /\ <>(\E p \in Client : cpc[p] = "start")
    => <>(Recorded = Batch)
=============================================================================
