--------------------------- MODULE WebOperations ---------------------------
(***************************************************************************)
(* The web server's operations on one job and its automatic recovery       *)
(* (web-app/slurmy_web/app.py and recovery_watch.py).  Clicks start        *)
(* operations, which are subprocesses that run remote scripts; monitor     *)
(* threads fetch observations of the cluster and feed them to the recovery *)
(* watch, which may start an automatic resume.  Observations, clicks and   *)
(* operations overlap freely: what is applied may be out of date.          *)
(*                                                                         *)
(* The remote scripts are reduced to their effects on the job; their own   *)
(* interleavings are JobLifecycle's subject.  Time is what the watch       *)
(* compares: how long a job has been idle and whether a minute has passed. *)
(***************************************************************************)
EXTENDS Naturals, FiniteSets

CONSTANTS
    MaxAttempts,   \* RecoveryWatch.max_attempts, 3 in the code
    Total,         \* solver-problem pairs of the job
    NoEntry        \* the job has no entry in the watch

ASSUME AttemptsAssumption == MaxAttempts \in Nat \ {0} /\ Total \in Nat \ {0}

VARIABLES
    job,        \* the job on the cluster
    running,    \* the operations of the job's scope with state 'running'
    entry,      \* recovery_watch.entries for the job
    blocked,    \* the job is in recovery_watch.blocked
    click,      \* a click that has told the watch and not yet started its operation
    loader,     \* the thread that loads a full observation (one per host)
    heartbeat,  \* the thread of check_idle_jobs
    shutdown,   \* SHUTTING_DOWN
    reported,   \* the most completed pairs an observation told the watch of; history
    tries,      \* retries since then or a Resume click, until forgotten; history
    known,      \* the job has worked since the app started, or was resumed here; history
    halt,       \* what became of the last Stop; history
    forgotten   \* a monitor dropped the entry since the count began; history

web == <<running, click, shutdown>>
watch == <<entry, blocked>>
monitors == <<loader, heartbeat>>
history == <<reported, tries, known, halt, forgotten>>
vars == <<job, web, watch, monitors, history>>

Labels == {"sync", "stop", "resume", "auto", "delete"}
Downloads == {"sync"}
Clicks == Labels \ {"auto"}
NoClick == "none"

Jobs == [exists : BOOLEAN, active : BOOLEAN, marker : BOOLEAN,
         state : {"submitting", "failed", "stopped"}, completed : 0 .. Total]
\* What a full collection and a heartbeat report of the job.
Observations == [kind : {"absent", "active", "stopped", "submitting", "failed"},
                 queue : BOOLEAN, completed : 0 .. Total]
Heartbeats == {"unknown", "absent", "active", "stopped", "inactive"}
Operations == [label : Labels, step : 0 .. 3, deps : SUBSET Labels]
WatchEntries == [completed : 0 .. Total, attempts : 0 .. MaxAttempts,
                 idle : {"no", "new", "old"}, wait : BOOLEAN]

ASSUME NoEntryAssumption == NoEntry \notin WatchEntries

\* The values of the variables.
TypeOK ==
    /\ job \in Jobs
    /\ running \subseteq Operations
    /\ entry \in WatchEntries \cup {NoEntry}
    /\ blocked \in BOOLEAN
    /\ click \in Clicks \cup {NoClick}
    /\ loader \in [pc : {"idle", "candidate"}] \cup [pc : {"fetched"}, seen : Observations]
    /\ heartbeat \in [pc : {"idle", "verify"}] \cup [pc : {"fetched"}, row : Heartbeats]
    /\ shutdown \in BOOLEAN
    /\ reported \in 0 .. Total
    /\ tries \in 0 .. MaxAttempts + 1
    /\ known \in BOOLEAN
    /\ halt \in {"none", "done", "raced"}
    /\ forgotten \in BOOLEAN

NoJob == [exists |-> FALSE, active |-> FALSE, marker |-> FALSE, state |-> "failed", completed |-> 0]
Idle == [pc |-> "idle"]
RunningLabels == {op.label : op \in running}
NewWatch(done) == [completed |-> done, attempts |-> 0, idle |-> "no", wait |-> FALSE]

\* The app starts beside a working job, an old failure or a stopped job.
Init ==
    /\ job \in {[exists |-> TRUE, active |-> TRUE, marker |-> FALSE, state |-> "submitting", completed |-> 0],
                [exists |-> TRUE, active |-> FALSE, marker |-> FALSE, state |-> "failed", completed |-> 0],
                [exists |-> TRUE, active |-> FALSE, marker |-> TRUE, state |-> "stopped", completed |-> 0]}
    /\ running = {}
    /\ entry = NoEntry /\ blocked = FALSE
    /\ click = NoClick
    /\ loader = Idle /\ heartbeat = Idle
    /\ shutdown = FALSE
    /\ reported = 0 /\ tries = 0 /\ known = (job.state = "submitting") /\ halt = "none" /\ forgotten = FALSE

----------------------------------------------------------------------------
(* operation(): the table of running operations, under the guard *)

\* A second stop or delete is answered with the running one.
Joins(label) == label \in {"stop", "delete"} /\ label \in RunningLabels

\* The running operations that make a new one wait for another day (409).
Conflicts(label) ==
    CASE label = "delete" -> {}
      [] label = "stop" -> RunningLabels \ (Downloads \cup {"resume", "auto"})
      [] OTHER -> RunningLabels

\* Mutant: the table is not told that the server is stopping.
AdmittedWhileStopping(label) == ~Joins(label) /\ Conflicts(label) = {}

Admitted(label) == ~shutdown /\ ~Joins(label) /\ Conflicts(label) = {}

\* Mutant: a delete does not wait for the operations it found running.
StartedAtOnce(label) == running \cup {[label |-> label, step |-> 0, deps |-> {}]}

\* A delete waits for what was running when it was requested.
Started(label) ==
    running \cup {[label |-> label, step |-> 0,
                   deps |-> IF label = "delete" THEN RunningLabels ELSE {}]}

----------------------------------------------------------------------------
(* Clicks: job_action, delete_job *)

WatchStop == entry' = NoEntry /\ blocked' = TRUE
WatchResume == entry' = NewWatch(0) /\ blocked' = FALSE

\* The watch is told before the job is looked up and the operation starts.
Click(c) ==
    /\ click = NoClick
    /\ click' = c
    /\ \/ c \in {"stop", "delete"} /\ WatchStop /\ UNCHANGED history
       \/ /\ c = "resume" /\ WatchResume
          /\ tries' = 0 /\ known' = TRUE /\ halt' = "none" /\ forgotten' = FALSE
          /\ UNCHANGED reported
       \/ c = "sync" /\ UNCHANGED <<watch, history>>
    /\ UNCHANGED <<job, running, shutdown, monitors>>

ClickStarts ==
    /\ click # NoClick
    /\ Admitted(click)
    /\ running' = Started(click)
    /\ click' = NoClick
    /\ halt' = IF click = "resume" THEN "none" ELSE halt
    /\ UNCHANGED <<job, shutdown, watch, monitors, reported, tries, known, forgotten>>

\* Joined, refused with 409, or the job was not found.
ClickEnds ==
    /\ click # NoClick
    /\ ~Admitted(click) \/ click # "delete"
    /\ click' = NoClick
    /\ UNCHANGED <<job, running, shutdown, watch, monitors, history>>

\* shutdown(): refused while an operation runs.
Shutdown ==
    /\ ~shutdown /\ running = {}
    /\ shutdown' = TRUE
    /\ UNCHANGED <<job, running, click, watch, monitors, history>>

----------------------------------------------------------------------------
(* Operations: run() and the effects of the subprocess on the job *)

Replace(op, step) == (running \ {op}) \cup {[op EXCEPT !.step = step]}

\* An ended operation no longer holds up a delete.
Ended(op) == {[o EXCEPT !.deps = @ \ {op.label}] : o \in running \ {op}}

Ready(op) == op.deps = {} /\ job.exists

\* Stop, resume and delete first stop the job: marker, then a quiet queue.
OperationMarks(op) ==
    /\ Ready(op)
    /\ op.step = 0 /\ op.label \in {"stop", "resume", "delete"}
    /\ job' = [job EXCEPT !.marker = TRUE]
    /\ running' = Replace(op, 1)
    /\ UNCHANGED <<click, shutdown, watch, monitors, history>>

OperationStops(op) ==
    /\ Ready(op)
    /\ op.step = 1
    /\ job' = [job EXCEPT !.active = FALSE, !.state = "stopped", !.marker = TRUE]
    /\ running' = IF op.label = "stop" THEN Ended(op) ELSE Replace(op, 2)
    /\ halt' = IF op.label # "stop" THEN halt
               ELSE IF {"resume", "auto"} \cap RunningLabels = {} THEN "done" ELSE "raced"
    /\ UNCHANGED <<click, shutdown, watch, monitors, reported, tries, known, forgotten>>

\* Mutant: recovery only looks for live work.
RecoveryChecksQueue(op) ==
    /\ Ready(op)
    /\ op.step = 0 /\ op.label = "auto"
    /\ IF job.active
       THEN running' = Ended(op) /\ UNCHANGED job
       ELSE running' = Replace(op, 2) /\ job' = [job EXCEPT !.marker = TRUE]
    /\ UNCHANGED <<click, shutdown, watch, monitors, history>>

\* Automatic recovery: never for stopped or working jobs.
RecoveryChecks(op) ==
    /\ Ready(op)
    /\ op.step = 0 /\ op.label = "auto"
    /\ IF job.marker \/ job.active
       THEN running' = Ended(op) /\ UNCHANGED job
       ELSE running' = Replace(op, 2) /\ job' = [job EXCEPT !.marker = TRUE]
    /\ UNCHANGED <<click, shutdown, watch, monitors, history>>

ResumeUnmarks(op) ==
    /\ Ready(op)
    /\ op.step = 2 /\ op.label \in {"resume", "auto"}
    /\ job.marker /\ ~job.active
    /\ job' = [job EXCEPT !.marker = FALSE]
    /\ running' = Replace(op, 3)
    /\ UNCHANGED <<click, shutdown, watch, monitors, history>>

ResumeDispatches(op) ==
    /\ Ready(op)
    /\ op.step = 3
    /\ IF job.marker THEN UNCHANGED job
       ELSE job' = [job EXCEPT !.active = TRUE, !.state = "submitting"]
    /\ running' = Ended(op)
    /\ UNCHANGED <<click, shutdown, watch, monitors, history>>

DeleteRemoves(op) ==
    /\ Ready(op)
    /\ op.step = 2 /\ op.label = "delete"
    /\ job' = NoJob
    /\ running' = Ended(op)
    /\ UNCHANGED <<click, shutdown, watch, monitors, history>>

\* The subprocess fails or has nothing to do; a delete also gives up when
\* what it waits for takes five minutes.  The table and the cache are told.
OperationEnds(op) ==
    /\ running' = Ended(op)
    /\ UNCHANGED <<job, click, shutdown, watch, monitors, history>>

OperationStep(op) ==
    \/ OperationMarks(op) \/ OperationStops(op) \/ RecoveryChecks(op) \/ ResumeUnmarks(op)
    \/ ResumeDispatches(op) \/ DeleteRemoves(op) \/ OperationEnds(op)

----------------------------------------------------------------------------
(* Monitoring: snapshot(), consider_recovery(), check_idle_jobs() *)

Busy == running # {}

\* RemoteCollector.fetch and JobSnapshot.state, as far as the watch reads
\* them.  Without squeue only the controller's lock shows activity.
Collected(active, available) ==
    [kind |-> IF ~job.exists THEN "absent" ELSE IF active THEN "active" ELSE job.state,
     queue |-> available, completed |-> job.completed]

LoaderFetches ==
    /\ loader = Idle
    /\ \E active, available \in BOOLEAN :
          /\ IF available THEN active = job.active ELSE active => job.active
          /\ loader' = [pc |-> "fetched", seen |-> Collected(active, available)]
    /\ heartbeat' = IF heartbeat.pc = "verify" THEN Idle ELSE heartbeat
    /\ UNCHANGED <<job, web, watch, history>>

\* Mutant: every incomplete job is watched.
WatchableAny(seen) == seen.kind \in {"active", "submitting", "failed"}

\* Do not revive old historical failures merely by opening history.
Watchable(seen) == seen.kind \in {"active", "submitting"}

\* Mutant: unchanged counts renew the attempts too.
CountedAgain(seen) ==
    LET e == IF entry = NoEntry THEN NewWatch(seen.completed) ELSE entry
    IN IF seen.completed >= e.completed
       THEN [e EXCEPT !.completed = seen.completed, !.attempts = 0] ELSE e

\* The entry after an observation of the counts.
Counted(seen) ==
    LET e == IF entry = NoEntry THEN NewWatch(seen.completed) ELSE entry
    IN IF seen.completed > e.completed
       THEN [e EXCEPT !.completed = seen.completed, !.attempts = 0] ELSE e

\* Mutant: the attempts are not limited.
DueForever(e) == e.idle = "old" /\ ~e.wait

Due(e) == e.idle = "old" /\ ~e.wait /\ e.attempts < MaxAttempts

IdleFor(e) == [e EXCEPT !.idle = IF @ = "no" THEN "new" ELSE @]

\* The history of the retries: new results begin a new count, an entry
\* that is dropped takes its count with it.
Recount(seen, dropped, retried) ==
    LET new == seen.completed > reported IN
    /\ reported' = IF new THEN seen.completed ELSE reported
    /\ forgotten' = (dropped \/ (forgotten /\ ~new))
    /\ tries' = IF forgotten' THEN 0
                ELSE (IF new THEN 0 ELSE tries) + (IF retried THEN 1 ELSE 0)

\* observe(): the new entry, and whether a retry is due.
Observe(seen) ==
    LET e == Counted(seen) IN
    \/ /\ blocked \/ seen.kind = "absent" \/ (entry = NoEntry /\ ~Watchable(seen))
       /\ loader' = Idle /\ UNCHANGED <<entry, reported, tries, forgotten>>
    \/ /\ ~blocked /\ seen.kind # "absent"
       /\ seen.kind = "stopped" \/ seen.completed = Total
       /\ entry' = NoEntry /\ loader' = Idle
       /\ Recount(seen, entry # NoEntry, FALSE)
    \/ /\ ~blocked /\ seen.kind \notin {"absent", "stopped"} /\ seen.completed < Total
       /\ entry # NoEntry \/ Watchable(seen)
       /\ \/ /\ seen.kind = "active" \/ ~seen.queue \/ Busy
             /\ entry' = [e EXCEPT !.idle = "no"] /\ loader' = Idle
             /\ Recount(seen, FALSE, FALSE)
          \/ /\ seen.kind # "active" /\ seen.queue /\ ~Busy /\ ~Due(e)
             /\ entry' = IdleFor(e) /\ loader' = Idle
             /\ Recount(seen, FALSE, FALSE)
          \/ /\ seen.kind # "active" /\ seen.queue /\ ~Busy /\ Due(e)
             /\ entry' = [e EXCEPT !.attempts = @ + 1, !.wait = TRUE, !.idle = "new"]
             /\ loader' = [pc |-> "candidate"]
             /\ Recount(seen, FALSE, TRUE)

LoaderObserves ==
    /\ loader.pc = "fetched"
    /\ IF shutdown THEN loader' = Idle /\ UNCHANGED <<entry, reported, tries, forgotten>>
       ELSE Observe(loader.seen)
    /\ UNCHANGED <<job, web, blocked, heartbeat, known, halt>>

\* The automatic resume is started, or refused with 409.
LoaderRecovers ==
    /\ loader.pc = "candidate"
    /\ loader' = Idle
    /\ running' = IF Admitted("auto") THEN Started("auto") ELSE running
    /\ UNCHANGED <<job, click, shutdown, watch, heartbeat, history>>

\* fetch_activity: the queue, then the marker, then the controller's lock.
Activity ==
    IF ~job.exists THEN {"absent"}
    ELSE (IF job.active THEN {"active"} ELSE {})
         \cup (IF job.marker THEN {"stopped"} ELSE IF job.active THEN {} ELSE {"inactive"})

HeartbeatFetches ==
    /\ heartbeat = Idle
    /\ entry # NoEntry /\ entry.attempts < MaxAttempts
    /\ \E row \in Activity \cup {"unknown"} : heartbeat' = [pc |-> "fetched", row |-> row]
    /\ UNCHANGED <<job, web, watch, loader, history>>

\* idle_candidates(): it drops an entry, resets or continues its idle time;
\* a candidate asks for a full observation.
HeartbeatChecks ==
    /\ heartbeat.pc = "fetched"
    /\ LET row == heartbeat.row IN
       \/ /\ entry = NoEntry \/ blocked
          /\ heartbeat' = Idle /\ UNCHANGED <<entry, forgotten, tries>>
       \/ /\ entry # NoEntry /\ (row \in {"unknown", "active"} \/ Busy)
          /\ entry' = [entry EXCEPT !.idle = "no"] /\ heartbeat' = Idle /\ UNCHANGED <<forgotten, tries>>
       \/ /\ entry # NoEntry /\ ~Busy /\ row \in {"stopped", "absent"}
          /\ entry' = NoEntry /\ heartbeat' = Idle /\ forgotten' = TRUE /\ tries' = 0
       \/ /\ entry # NoEntry /\ ~Busy /\ row = "inactive"
          /\ entry' = IdleFor(entry) /\ UNCHANGED <<forgotten, tries>>
          /\ heartbeat' = IF Due(entry) THEN [pc |-> "verify"] ELSE Idle
    /\ UNCHANGED <<job, web, blocked, loader, reported, known, halt>>

IdleTimePasses ==
    /\ entry # NoEntry /\ entry.idle = "new"
    /\ entry' = [entry EXCEPT !.idle = "old"]
    /\ UNCHANGED <<job, web, blocked, monitors, history>>

RetryTimePasses ==
    /\ entry # NoEntry /\ entry.wait
    /\ entry' = [entry EXCEPT !.wait = FALSE]
    /\ UNCHANGED <<job, web, blocked, monitors, history>>

----------------------------------------------------------------------------
(* The cluster *)

JobProgresses ==
    /\ job.active /\ job.completed < Total
    /\ job' = [job EXCEPT !.completed = @ + 1]
    /\ UNCHANGED <<web, watch, monitors, history>>

\* The controller dies or ends and no allocation is left.
JobGoesIdle ==
    /\ job.active
    /\ \E s \in {"submitting", "failed"} : job' = [job EXCEPT !.active = FALSE, !.state = s]
    /\ UNCHANGED <<web, watch, monitors, history>>

Next ==
    \/ \E c \in Clicks : Click(c)
    \/ ClickStarts \/ ClickEnds \/ Shutdown
    \/ \E op \in running : OperationStep(op)
    \/ LoaderFetches \/ LoaderObserves \/ LoaderRecovers
    \/ HeartbeatFetches \/ HeartbeatChecks
    \/ IdleTimePasses \/ RetryTimePasses
    \/ JobProgresses \/ JobGoesIdle

Spec == Init /\ [][Next]_vars

----------------------------------------------------------------------------
(* Properties *)

\* Between two reports of new results and without a Resume click, at most
\* MaxAttempts observations choose the job for an automatic resume, however
\* old they are when they reach observe().  A monitor that drops the entry
\* (it saw .stopped, perhaps recovery's own, or no directory) ends the count:
\* the watch then starts again from zero when the job is next seen working.
RetryBudget == tries <= MaxAttempts

\* Once Stop has reported success with no resume beside it, the job keeps
\* its marker and nothing runs until a Resume is clicked: neither an
\* observation made before the click nor a candidate already chosen by
\* observe() brings it back, because remote_recover.sh looks for .stopped.
StopHolds == halt = "done" /\ job.exists => job.marker /\ ~job.active

\* An automatic resume only runs for a job that worked or was submitting
\* while the app ran, or that was resumed here: opening the history of an
\* old failure never starts it, whatever the monitors report.
NoRevival == "auto" \in RunningLabels => known

\* Once shutdown() has answered, no operation runs, not even one whose click
\* or candidate was accepted before: its subprocess would die with the server.
ShutdownQuiet == shutdown => running = {}

\* Two subprocesses of one job run side by side only when one is a Stop
\* and the other a download or a resume, which a Stop may overtake; a delete
\* in particular starts only when everything it found running has ended.
OneAtATime ==
    \A o, p \in running : o # p /\ o.deps = {} /\ p.deps = {} =>
        \E y \in Downloads \cup {"resume", "auto"} : {o.label, p.label} = {"stop", y}
============================================================================
