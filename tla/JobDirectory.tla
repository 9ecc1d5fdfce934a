--------------------------- MODULE JobDirectory ---------------------------
(***************************************************************************)
(* The life of one job directory on the cluster: it is uploaded, published *)
(* by a rename, launched, and removed by Delete.  Each remote script runs  *)
(* at the far end of an SSH connection that may break: its client then     *)
(* tries again while the first script goes on, and any script may be       *)
(* killed by its two-minute timeout between two of its steps.              *)
(*                                                                         *)
(* (implementation/templates/submit.sh, remote_prepare.sh,                 *)
(* remote_finish_upload.sh, remote_dispatch.sh, remote_stop.sh,            *)
(* remote_delete.sh and implementation/slurmy-job.py)                      *)
(*                                                                         *)
(* What a controller does with its batches is JobLifecycle's subject; here *)
(* it submits one allocation.  What matters is which files it finds.       *)
(***************************************************************************)
EXTENDS Naturals

CONSTANTS
    Clients,      \* runs of slurmy-job.py delete
    MaxAttempts,  \* tries of one SSH operation, 3 in the code
    MaxLaunches   \* bound: launches after the one of the upload

ASSUME AttemptsAssumption == MaxAttempts \in Nat \ {0} /\ MaxLaunches \in Nat

VARIABLES
    upload,     \* submit.sh: [pc, attempt]
    staging,    \* .staging-JOB
    exists,     \* the job directory is there
    files,      \* what it holds
    lock,       \* who holds the file .submit-controller.lock of the directory
    deleting,   \* .delete-locks/JOB.deleting
    queue,      \* an allocation with this work directory is queued or running
    launch,     \* the dispatcher and then the controller it starts
    launches,   \* launches left
    clients,    \* slurmy-job.py delete: [phase, attempt]
    scripts,    \* the remote scripts that run, connected or not
    crossed     \* a launch overlapped a removal; history

uploading == <<upload, staging>>
directory == <<exists, files>>
work == <<queue, launch, launches>>
deletion == <<deleting, clients, scripts>>
vars == <<uploading, directory, lock, work, deletion, crossed>>

\* "inputs" stands for the published files, "state" for those a launch writes.
Files == {"inputs", "marker", "lock", "state"}
Attempts == 1 .. MaxAttempts
LaunchSteps == {"none", "unmark", "find", "probe", "look", "write", "open", "fill", "check", "sbatch"}
Scripts == [client : Clients, kind : {"stop"}, attempt : Attempts, pc : {"loop"}, todo : {{}}]
    \cup [client : Clients, kind : {"delete"}, attempt : Attempts,
          pc : {"gate", "guard", "lock", "queue", "mark", "remove", "unmark"}, todo : SUBSET Files]

\* The values of the variables; nothing is in a directory that is not there.
TypeOK ==
    /\ upload \in [pc : {"prepare", "copy", "unpack", "publish", "ended"}, attempt : Attempts]
    /\ staging \in {"none", "empty", "partial", "copied", "unpacked"}
    /\ exists \in BOOLEAN
    /\ files \subseteq Files /\ (files # {} => exists)
    /\ lock \in {"free", "launch", "delete"}
    /\ deleting \in BOOLEAN /\ queue \in BOOLEAN /\ crossed \in BOOLEAN
    /\ launch \in LaunchSteps /\ launches \in 0 .. MaxLaunches
    /\ clients \in [Clients -> [phase : {"idle", "stop", "delete", "deleted", "failed"}, attempt : Attempts]]
    /\ scripts \subseteq Scripts

Init ==
    /\ upload = [pc |-> "prepare", attempt |-> 1] /\ staging = "none"
    /\ exists = FALSE /\ files = {} /\ lock = "free"
    /\ deleting = FALSE /\ queue = FALSE
    /\ launch = "none" /\ launches = MaxLaunches
    /\ clients = [c \in Clients |-> [phase |-> "idle", attempt |-> 1]]
    /\ scripts = {} /\ crossed = FALSE

----------------------------------------------------------------------------
(* Upload: submit.sh, remote_prepare.sh, remote_finish_upload.sh *)

UploadTo(pc) == upload' = [pc |-> pc, attempt |-> 1]

UploadFails ==
    upload' = IF upload.attempt < MaxAttempts THEN [upload EXCEPT !.attempt = @ + 1]
              ELSE [upload EXCEPT !.pc = "ended"]

\* Three tries, each of which may do its work and lose the answer.
Prepare ==
    /\ upload.pc = "prepare"
    /\ \E reached, answered \in BOOLEAN :
          /\ answered => reached
          /\ staging' = IF reached THEN "empty" ELSE staging
          /\ IF answered THEN UploadTo("copy") ELSE UploadFails
    /\ UNCHANGED <<directory, lock, work, deletion, crossed>>

Copy ==
    /\ upload.pc = "copy"
    /\ \/ staging' = "copied" /\ (UploadTo("unpack") \/ UploadFails)
       \/ staging' \in {"partial", staging} /\ UploadFails
    /\ UNCHANGED <<directory, lock, work, deletion, crossed>>

Unpack ==
    /\ upload.pc = "unpack"
    /\ staging = "copied"
    /\ staging' = "unpacked"
    /\ UploadTo("publish")
    /\ UNCHANGED <<directory, lock, work, deletion, crossed>>

\* The rename shows all of it at once; the same channel then dispatches.
Publish ==
    /\ upload.pc = "publish"
    /\ ~exists /\ exists' = TRUE
    /\ files' = {"inputs"} /\ staging' = "none"
    /\ UploadTo("ended") /\ launch' = "find"
    /\ UNCHANGED <<lock, queue, launches, deletion, crossed>>

\* The script that unpacks dies; it is not tried again.
FinishDies ==
    /\ upload.pc \in {"unpack", "publish"}
    /\ UploadTo("ended")
    /\ UNCHANGED <<staging, directory, lock, work, deletion, crossed>>

----------------------------------------------------------------------------
(* Launches: remote_resume.sh, remote_dispatch.sh, remote_submit.sh *)

Removing == \E s \in scripts : s.pc = "remove"

\* submit.sh with SLURMY_RESUME_JOB_ID dispatches at once, Resume unmarks.
LaunchBegins ==
    /\ launch = "none" /\ launches > 0
    /\ exists /\ upload.pc = "ended"
    /\ launch' \in {"find", "unmark"} /\ launches' = launches - 1
    /\ UNCHANGED <<uploading, directory, lock, queue, deletion, crossed>>

LaunchUnmarks ==
    /\ launch = "unmark"
    /\ "marker" \in files /\ ~queue /\ lock = "free"
    /\ files' = files \ {"marker"} /\ launch' = "find"
    /\ UNCHANGED <<uploading, exists, lock, queue, launches, deletion, crossed>>

LaunchFinds ==
    /\ launch = "find"
    /\ "inputs" \in files /\ launch' = "probe"
    /\ UNCHANGED <<uploading, directory, lock, queue, launches, deletion, crossed>>

LaunchProbes ==
    /\ launch = "probe"
    /\ lock = "free" /\ launch' = "look"
    /\ UNCHANGED <<uploading, directory, lock, queue, launches, deletion, crossed>>

LaunchLooks ==
    /\ launch = "look"
    /\ "marker" \notin files /\ launch' = "write"
    /\ crossed' = (crossed \/ Removing)
    /\ UNCHANGED <<uploading, directory, lock, queue, launches, deletion>>

\* submission.state and the lock's file, by relative names.
LaunchWrites ==
    /\ launch = "write"
    /\ exists /\ files' = files \cup {"state", "lock"}
    /\ launch' = "open"
    /\ UNCHANGED <<uploading, exists, lock, queue, launches, deletion, crossed>>

\* The controller: bash opens its script, the script opens and takes the lock.
LaunchOpens ==
    /\ launch = "open"
    /\ "inputs" \in files /\ lock = "free"
    /\ lock' = "launch" /\ files' = files \cup {"lock"}
    /\ launch' = "fill"
    /\ UNCHANGED <<uploading, exists, queue, launches, deletion, crossed>>

\* mkdir -p creates what it does not find, the directory included.
LaunchFills ==
    /\ launch = "fill"
    /\ exists' = TRUE /\ files' = files \cup {"state"}
    /\ launch' = "check"
    /\ UNCHANGED <<uploading, lock, queue, launches, deletion, crossed>>

LaunchChecks ==
    /\ launch = "check"
    /\ "inputs" \in files /\ "marker" \notin files
    /\ launch' = "sbatch"
    /\ UNCHANGED <<uploading, directory, lock, queue, launches, deletion, crossed>>

Holds == launch \in {"fill", "check", "sbatch"}
Released == IF lock = "launch" /\ Holds THEN "free" ELSE lock

LaunchSubmits ==
    /\ launch = "sbatch"
    /\ "inputs" \in files /\ queue' = TRUE
    /\ launch' = "none" /\ lock' = Released
    /\ UNCHANGED <<uploading, directory, launches, deletion, crossed>>

\* A check that fails, a signal, a fault; what is left of it writes the state.
LaunchEnds ==
    /\ launch # "none"
    /\ launch' = "none" /\ lock' = Released
    /\ files' = IF exists /\ (Holds \/ launch \in {"write", "open"}) THEN files \cup {"state"} ELSE files
    /\ UNCHANGED <<uploading, exists, queue, launches, deletion, crossed>>

AllocationEnds ==
    /\ queue /\ queue' = FALSE
    /\ UNCHANGED <<uploading, directory, lock, launch, launches, deletion, crossed>>

----------------------------------------------------------------------------
(* Clients: slurmy-job.py delete *)

Attached(s) == clients[s.client] = [phase |-> s.kind, attempt |-> s.attempt]

\* Mutant: one try more than the code allows.
AfterOnceMore(c, code) ==
    CASE code = 0 /\ c.phase = "stop" -> [phase |-> "delete", attempt |-> 1]
      [] code = 0 /\ c.phase = "delete" -> [c EXCEPT !.phase = "deleted"]
      [] code \in {255, 75} /\ c.attempt <= MaxAttempts -> [c EXCEPT !.attempt = @ + 1]
      [] OTHER -> [c EXCEPT !.phase = "failed"]

\* What a client does with the code of a try.  255 stands for the codes of a
\* broken connection and of the timeouts, 75 for a deletion in progress.
After(c, code) ==
    CASE code = 0 /\ c.phase = "stop" -> [phase |-> "delete", attempt |-> 1]
      [] code = 0 /\ c.phase = "delete" -> [c EXCEPT !.phase = "deleted"]
      [] code \in {255, 75} /\ c.attempt < MaxAttempts -> [c EXCEPT !.attempt = @ + 1]
      [] OTHER -> [c EXCEPT !.phase = "failed"]

\* Only published jobs are listed; a second click is another client.
ClientBegins(c) ==
    /\ clients[c].phase = "idle" /\ exists
    /\ clients' = [clients EXCEPT ![c] = [phase |-> "stop", attempt |-> 1]]
    /\ UNCHANGED <<uploading, directory, lock, work, deleting, scripts, crossed>>

\* The script's own first step: an absent directory needs nothing, a Stop marks.
ClientTries(c) ==
    /\ clients[c].phase \in {"stop", "delete"}
    /\ ~\E s \in scripts : s.client = c /\ Attached(s)
    /\ LET stop == clients[c].phase = "stop" IN
       IF exists
       THEN /\ scripts' = scripts \cup {[client |-> c, kind |-> clients[c].phase,
                                         attempt |-> clients[c].attempt,
                                         pc |-> IF stop THEN "loop" ELSE "gate", todo |-> {}]}
            /\ files' = IF stop THEN files \cup {"marker"} ELSE files
            /\ UNCHANGED clients
       ELSE /\ clients' = [clients EXCEPT ![c] = After(@, 0)]
            /\ UNCHANGED <<scripts, files>>
    /\ UNCHANGED <<uploading, exists, lock, work, deleting, crossed>>

\* The connection breaks or is given up; a script that started goes on.
ClientLoses(c) ==
    /\ clients[c].phase \in {"stop", "delete"}
    /\ clients' = [clients EXCEPT ![c] = After(@, 255)]
    /\ UNCHANGED <<uploading, directory, lock, work, deleting, scripts, crossed>>

----------------------------------------------------------------------------
(* Remote scripts *)

Exits(s, code) ==
    /\ scripts' = scripts \ {s}
    /\ clients' = IF Attached(s) THEN [clients EXCEPT ![s.client] = After(@, code)] ELSE clients

Goes(s, pc) == scripts' = (scripts \ {s}) \cup {[s EXCEPT !.pc = pc]} /\ UNCHANGED clients

\* The flock of the controller's lock goes with the process.
Unlocked == IF lock = "delete" THEN "free" ELSE lock

\* Each round marks the job again and cancels its allocations; the last one
\* probes the lock, by when its look at the queue may be out of date.
StopLoops(s) ==
    /\ s.kind = "stop" /\ s.pc = "loop"
    /\ \/ /\ exists /\ files' = files \cup {"marker"} /\ queue' = FALSE
          /\ UNCHANGED <<scripts, clients>>
       \/ /\ exists /\ lock = "free"
          /\ files' = files \cup {"lock", "state"} /\ Exits(s, 0) /\ UNCHANGED queue
       \/ Exits(s, 1) /\ UNCHANGED <<files, queue>>
    /\ UNCHANGED <<uploading, exists, lock, launch, launches, deleting, crossed>>

InGate(s) == s.kind = "delete" /\ s.pc # "gate"

\* Mutant: the lock lies in the directory, where the removal unlinks it.
GateFreeInside == "lock" \notin files \/ ~\E s \in scripts : InGate(s)

\* .delete-locks/JOB.lock
GateFree == ~\E s \in scripts : InGate(s)

DeleteEnters(s) ==
    /\ s.kind = "delete" /\ s.pc = "gate"
    /\ IF GateFree THEN Goes(s, "guard") ELSE Exits(s, 75)
    /\ UNCHANGED <<uploading, directory, lock, work, deleting, crossed>>

DeleteGuards(s) ==
    /\ s.kind = "delete" /\ s.pc = "guard"
    /\ IF ~exists THEN Exits(s, 0) /\ UNCHANGED files
       ELSE IF "marker" \in files \/ deleting THEN Goes(s, "lock") /\ files' = files \cup {"lock"}
       ELSE Exits(s, 2) /\ UNCHANGED files
    /\ UNCHANGED <<uploading, exists, lock, work, deleting, crossed>>

DeleteLocks(s) ==
    /\ s.kind = "delete" /\ s.pc = "lock"
    /\ IF lock = "free" THEN lock' = "delete" /\ Goes(s, "queue")
       ELSE Exits(s, 3) /\ UNCHANGED lock
    /\ UNCHANGED <<uploading, directory, work, deleting, crossed>>

\* Mutant: the queue was confirmed empty by Stop and is not asked again.
DeleteTrusts(s) ==
    /\ s.kind = "delete" /\ s.pc = "queue"
    /\ Goes(s, "mark") /\ UNCHANGED lock
    /\ UNCHANGED <<uploading, directory, work, deleting, crossed>>

\* squeue may also fail.
DeleteConfirms(s) ==
    /\ s.kind = "delete" /\ s.pc = "queue"
    /\ \/ ~queue /\ Goes(s, "mark") /\ UNCHANGED lock
       \/ Exits(s, 3) /\ lock' = Unlocked
    /\ UNCHANGED <<uploading, directory, work, deleting, crossed>>

\* Mutant: the removal begins without its marker.
DeleteMarksNothing(s) ==
    /\ s.kind = "delete" /\ s.pc = "mark"
    /\ scripts' = (scripts \ {s}) \cup {[s EXCEPT !.pc = "remove", !.todo = files]}
    /\ crossed' = (crossed \/ launch \in {"write", "open"})
    /\ UNCHANGED <<uploading, directory, lock, work, deleting, clients>>

\* The marker, and rm reads what the directory holds.
DeleteMarks(s) ==
    /\ s.kind = "delete" /\ s.pc = "mark"
    /\ deleting' = TRUE
    /\ scripts' = (scripts \ {s}) \cup {[s EXCEPT !.pc = "remove", !.todo = files]}
    /\ crossed' = (crossed \/ launch \in {"write", "open"})
    /\ UNCHANGED <<uploading, directory, lock, work, clients>>

\* rm -rf, a file at a time in any order.
DeleteUnlinks(s) ==
    /\ s.kind = "delete" /\ s.pc = "remove"
    /\ \E f \in s.todo :
          /\ files' = files \ {f}
          /\ lock' = IF f = "lock" THEN "free" ELSE lock
          /\ scripts' = (scripts \ {s}) \cup {[s EXCEPT !.todo = @ \ {f}]}
    /\ UNCHANGED <<uploading, exists, work, deleting, clients, crossed>>

\* Mutant: an rm that fails does not end the script.
DeleteRemovesAnyway(s) ==
    /\ s.kind = "delete" /\ s.pc = "remove" /\ s.todo = {}
    /\ exists' = (files # {}) /\ Goes(s, "unmark") /\ UNCHANGED lock
    /\ UNCHANGED <<uploading, files, work, deleting, crossed>>

\* What was created behind rm's back keeps the directory, and rm fails.
DeleteRemoves(s) ==
    /\ s.kind = "delete" /\ s.pc = "remove" /\ s.todo = {}
    /\ IF files = {} THEN exists' = FALSE /\ Goes(s, "unmark") /\ UNCHANGED lock
       ELSE Exits(s, 1) /\ lock' = Unlocked /\ UNCHANGED exists
    /\ UNCHANGED <<uploading, files, work, deleting, crossed>>

DeleteUnmarks(s) ==
    /\ s.kind = "delete" /\ s.pc = "unmark"
    /\ deleting' = FALSE
    /\ Exits(s, 0) /\ lock' = Unlocked
    /\ UNCHANGED <<uploading, directory, work, crossed>>

\* The timeout or a reboot of the login node; its locks go with it.
ScriptDies(s) ==
    /\ Exits(s, 255)
    /\ lock' = IF InGate(s) /\ s.pc \notin {"guard", "lock"} THEN Unlocked ELSE lock
    /\ UNCHANGED <<uploading, directory, work, deleting, crossed>>

ScriptStep(s) ==
    \/ StopLoops(s)
    \/ DeleteEnters(s) \/ DeleteGuards(s) \/ DeleteLocks(s) \/ DeleteConfirms(s)
    \/ DeleteMarks(s) \/ DeleteUnlinks(s) \/ DeleteRemoves(s) \/ DeleteUnmarks(s)
    \/ ScriptDies(s)

----------------------------------------------------------------------------
Next ==
    \/ Prepare \/ Copy \/ Unpack \/ Publish \/ FinishDies
    \/ LaunchBegins \/ LaunchUnmarks \/ LaunchFinds \/ LaunchProbes \/ LaunchLooks \/ LaunchWrites
    \/ LaunchOpens \/ LaunchFills \/ LaunchChecks \/ LaunchSubmits \/ LaunchEnds
    \/ AllocationEnds
    \/ \E c \in Clients : ClientBegins(c) \/ ClientTries(c) \/ ClientLoses(c)
    \/ \E s \in scripts : ScriptStep(s)

Spec == Init /\ [][Next]_vars

----------------------------------------------------------------------------
(* Properties *)

\* A directory without all of its inputs is one that a deletion has begun to
\* remove, and its deletion marker says so: an upload that breaks exposes
\* nothing, and a Delete tried again finds what lets it pass its guard.  A
\* launch that overlapped the removal may bring an empty directory back.
PartialIsMarked == exists /\ "inputs" \notin files => deleting \/ crossed

\* "Job deleted." means that the directory is gone for good and nothing runs
\* in it, whichever try of which client removed it, unless a launch that was
\* past its look at .stopped overlapped the removal.
DeletedMeansGone ==
    (\E c \in Clients : clients[c].phase = "deleted") => (~exists /\ ~queue) \/ crossed

\* No allocation is left in a directory that loses its files: the queue is
\* read under the controller's lock after a Stop that may be out of date.
WorkKeepsInputs == queue => "inputs" \in files \/ crossed

\* A second removal waits for the first: its lock is outside of what it
\* removes ("instead of opening a replacement lock inode").
OneRemoval ==
    \A s, t \in scripts : {s.pc, t.pc} \subseteq {"mark", "remove", "unmark"} => s = t
============================================================================
