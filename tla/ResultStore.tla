---------------------------- MODULE ResultStore ----------------------------
(***************************************************************************)
(* One planned batch on the compute nodes: the allocations that run it one *)
(* after another (batch.sh), the calls they make (call.sh), and the files  *)
(* these leave in the job directory: result archives, one result file per  *)
(* solver-problem pair, the compact index of the batch and its `.ready`    *)
(* marker, the progress files.                                             *)
(*                                                                         *)
(* An allocation is submitted when no other one runs the batch, first      *)
(* unconditionally and then by Resume whenever it reads an unfinished pair. *)
(* Files are written under a temporary name and renamed: one step each.    *)
(***************************************************************************)
EXTENDS Naturals, FiniteSets

CONSTANTS Alloc,              \* allocations of the batch, over the job's life
          T,                  \* number of pairs in the batch
          PlacementRetries,   \* requeues a misplaced allocation asks for (5)
          RestartBound,       \* bound on SLURM_RESTART_COUNT
          Faults              \* "kill": a node dies; "write", "read": a file cannot be

ASSUME TAssumption == T \in Nat \ {0}
ASSUME RestartAssumption == /\ PlacementRetries \in Nat
                            /\ RestartBound \in Nat
                            /\ PlacementRetries <= RestartBound
ASSUME FaultsAssumption == Faults \subseteq {"kill", "write", "read"}

Pair == 1 .. T
\* A row and its archive carry SLURM_JOB_ID, which a requeue keeps.
Row == [run : Alloc, complete : BOOLEAN]

VARIABLES
    pc,         \* where each allocation is in batch.sh and the call it waits for
    task,       \* position of batch.sh in TASK_IDS
    failed,     \* batch.sh's exit status so far
    restarts,   \* SLURM_RESTART_COUNT
    term,       \* SLURM has sent TERM (scancel, or 30 seconds before the limit)
    outcome,    \* complete= of the call under way
    exit,       \* how the allocation ended
    result,     \* result files: the row of each pair that has one
    archived,   \* archives in results/, by allocation and pair
    index,      \* the batch's compact index: the row of each pair it lists
    ready,      \* results/index/.ready exists
    progress,   \* progress files: the state of each pair that has one
    lost        \* auxiliary: an allocation was killed, or an index read in part

allocVars == <<pc, task, failed, restarts, term, outcome, exit>>
fileVars == <<result, archived, index, ready, progress>>
vars == <<allocVars, fileVars, lost>>

Calling == {"call", "run", "archive", "result", "index", "finish"}
Live == {"setup", "batch"} \cup Calling

\* A row replaces the row of its pair, or is added.
Put(rows, t, row) == [u \in DOMAIN rows \cup {t} |-> IF u = t THEN row ELSE rows[u]]

\* Mutant: the test reads the header line, which never says `true`.
DoneNever(t) == FALSE

\* batch.sh's test of a saved result.
Done(t) == t \in DOMAIN result /\ result[t].complete

ThisRow(a) == [run |-> a, complete |-> outcome[a]]

\* The rows that Resume reads, and whether it finds work in this batch.
SeenByResume == IF ready THEN index ELSE result
Wanted == \E t \in Pair : ~(t \in DOMAIN SeenByResume /\ SeenByResume[t].complete)

-----------------------------------------------------------------------------
Init ==
    /\ pc = [a \in Alloc |-> "idle"]
    /\ task = [a \in Alloc |-> 1]
    /\ failed = [a \in Alloc |-> FALSE]
    /\ restarts = [a \in Alloc |-> 0]
    /\ term = [a \in Alloc |-> FALSE]
    /\ outcome = [a \in Alloc |-> FALSE]
    /\ exit = [a \in Alloc |-> "none"]
    /\ result = [t \in {} |-> <<>>]
    /\ archived = {}
    /\ index = [t \in {} |-> <<>>]
    /\ ready = TRUE
    /\ progress = [t \in {} |-> "none"]
    /\ lost = FALSE

Goto(a, at) == pc' = [pc EXCEPT ![a] = at]

\* The controller submits the batch; SLURM starts the allocation.
Submit(a) ==
    /\ pc[a] = "idle"
    /\ \A b \in Alloc : pc[b] \notin Live
    /\ (\A b \in Alloc : pc[b] = "idle") \/ Wanted
    /\ Goto(a, "setup")
    /\ UNCHANGED <<task, failed, restarts, term, outcome, exit, fileVars, lost>>

\* batch.sh's variables go with its process.
Forgets(a) ==
    /\ task' = [task EXCEPT ![a] = 1]
    /\ failed' = [failed EXCEPT ![a] = FALSE]
    /\ term' = [term EXCEPT ![a] = FALSE]
    /\ outcome' = [outcome EXCEPT ![a] = FALSE]

Ends(a, how) ==
    /\ Goto(a, "ended")
    /\ exit' = [exit EXCEPT ![a] = how]
    /\ Forgets(a)
    /\ UNCHANGED restarts

\* SLURM runs batch.sh of the same allocation again from its start.
Requeued(a) ==
    /\ Goto(a, "setup")
    /\ Forgets(a)
    /\ restarts' = [restarts EXCEPT ![a] = @ + 1]
    /\ UNCHANGED exit

-----------------------------------------------------------------------------
(* batch.sh                                                                  *)

\* Unpack the calls, read the cpuset, check containment.
BatchSetup(a) ==
    /\ pc[a] = "setup"
    /\ \/ ~term[a] /\ Goto(a, "batch")
          /\ UNCHANGED <<task, failed, restarts, term, outcome, exit>>
       \/ Ends(a, "failure")
    /\ UNCHANGED <<fileVars, lost>>

BatchSkips(a) ==
    /\ pc[a] = "batch" /\ ~term[a]
    /\ task[a] <= T /\ Done(task[a])
    /\ task' = [task EXCEPT ![a] = @ + 1]
    /\ UNCHANGED <<pc, failed, restarts, term, outcome, exit, fileVars, lost>>

\* The allocated cores can hold the call.
BatchPlaces(a) ==
    /\ pc[a] = "batch" /\ ~term[a]
    /\ task[a] <= T /\ ~Done(task[a])
    /\ Goto(a, "call")
    /\ UNCHANGED <<task, failed, restarts, term, outcome, exit, fileVars, lost>>

\* Mutant: placement_failure does not count its requeues.
BatchMisplacedForever(a) ==
    /\ pc[a] = "batch" /\ ~term[a]
    /\ task[a] <= T /\ ~Done(task[a])
    /\ \/ task[a] = 1 /\ Goto(a, "setup")
          /\ UNCHANGED <<task, failed, restarts, term, outcome, exit>>
       \/ Ends(a, "failure")
    /\ UNCHANGED <<fileVars, lost>>

\* Mutant: placement_failure requeues without limit.
BatchMisplacedUncapped(a) ==
    /\ pc[a] = "batch" /\ ~term[a]
    /\ task[a] <= T /\ ~Done(task[a])
    /\ task[a] = 1
    /\ Requeued(a)
    /\ UNCHANGED <<fileVars, lost>>

\* They cannot: placement_failure.  scontrol may refuse the requeue.
BatchMisplaced(a) ==
    /\ pc[a] = "batch" /\ ~term[a]
    /\ task[a] <= T /\ ~Done(task[a])
    /\ \/ task[a] = 1 /\ restarts[a] < PlacementRetries /\ Requeued(a)
       \/ Ends(a, "failure")
    /\ UNCHANGED <<fileVars, lost>>

BatchEnds(a) ==
    /\ pc[a] = "batch" /\ ~term[a]
    /\ task[a] > T
    /\ Ends(a, IF failed[a] THEN "failure" ELSE "success")
    /\ UNCHANGED <<fileVars, lost>>

\* TERM with no call running, or one that has not installed its trap.
BatchStops(a) ==
    /\ pc[a] \in {"batch", "call"} /\ term[a]
    /\ Ends(a, "failure")
    /\ UNCHANGED <<fileVars, lost>>

\* Mutant: the call's exit status is not collected.
CallExitsUnseen(a, ok) ==
    \/ term[a] /\ Ends(a, "failure")
    \/ /\ ~term[a]
       /\ Goto(a, "batch")
       /\ task' = [task EXCEPT ![a] = @ + 1]
       /\ outcome' = [outcome EXCEPT ![a] = FALSE]
       /\ UNCHANGED <<failed, exit, restarts, term>>

\* batch.sh collects the call it waited for; after TERM it then exits 143.
CallExits(a, ok) ==
    \/ term[a] /\ Ends(a, "failure")
    \/ /\ ~term[a]
       /\ Goto(a, "batch")
       /\ task' = [task EXCEPT ![a] = @ + 1]
       /\ failed' = [failed EXCEPT ![a] = @ \/ ~ok]
       /\ outcome' = [outcome EXCEPT ![a] = FALSE]
       /\ UNCHANGED <<exit, restarts, term>>

-----------------------------------------------------------------------------
(* call.sh                                                                   *)

CallStart(a) ==
    /\ pc[a] = "call"
    /\ progress' = Put(progress, task[a], "running")
    /\ Goto(a, "run")
    /\ UNCHANGED <<task, failed, restarts, term, outcome, exit, result, archived,
                   index, ready, lost>>

\* The solver has ended.  A call interrupted by TERM, or one whose limiter had
\* to be killed (worker-error), is not complete; every other status is.
CallReturns(a) ==
    /\ pc[a] = "run"
    /\ \E complete \in BOOLEAN :
         /\ complete => ~term[a]
         /\ outcome' = [outcome EXCEPT ![a] = complete]
    /\ Goto(a, "archive")
    /\ UNCHANGED <<task, failed, restarts, term, exit, fileVars, lost>>

\* Mutant: the archive keeps its hidden temporary name.
CallArchiveHidden(a) ==
    /\ pc[a] = "archive"
    /\ Goto(a, "result")
    /\ UNCHANGED <<task, failed, restarts, term, outcome, exit, fileVars, lost>>

CallArchive(a) ==
    /\ pc[a] = "archive"
    /\ archived' = archived \cup {<<a, task[a]>>}
    /\ Goto(a, "result")
    /\ UNCHANGED <<task, failed, restarts, term, outcome, exit, result, index,
                   ready, progress, lost>>

\* Mutant: the index is updated before the result file.
CallResultIndexFirst(a) ==
    /\ pc[a] = "result"
    /\ index' = Put(index, task[a], ThisRow(a))
    /\ Goto(a, "index")
    /\ UNCHANGED <<task, failed, restarts, term, outcome, exit, archived, result,
                   ready, progress, lost>>

CallResult(a) ==
    /\ pc[a] = "result"
    /\ result' = Put(result, task[a], ThisRow(a))
    /\ Goto(a, "index")
    /\ UNCHANGED <<task, failed, restarts, term, outcome, exit, archived, index,
                   ready, progress, lost>>

CallIndex(a) ==
    /\ pc[a] = "index"
    /\ index' = Put(index, task[a], ThisRow(a))
    /\ Goto(a, "finish")
    /\ UNCHANGED <<task, failed, restarts, term, outcome, exit, result, archived,
                   ready, progress, lost>>

\* Mutant: a failed index update leaves the index marked as usable.
CallIndexFailsQuietly(a) ==
    /\ "write" \in Faults
    /\ pc[a] = "index"
    /\ Goto(a, "finish")
    /\ UNCHANGED <<task, failed, restarts, term, outcome, exit, fileVars, lost>>

\* The index cannot be written: the call goes on, and readers are sent back to
\* the result files.
CallIndexFails(a) ==
    /\ "write" \in Faults
    /\ pc[a] = "index"
    /\ ready' = FALSE
    /\ Goto(a, "finish")
    /\ UNCHANGED <<task, failed, restarts, term, outcome, exit, result, archived,
                   index, progress, lost>>

\* awk cannot read the index to its end.  The braces end with the code of printf,
\* so what awk has printed and the new row replace the index, and nobody is told.
CallIndexUnread(a) ==
    /\ "read" \in Faults
    /\ pc[a] = "index"
    /\ DOMAIN index # {}
    /\ \E kept \in SUBSET DOMAIN index :
          index' = Put([t \in kept |-> index[t]], task[a], ThisRow(a))
    /\ lost' = TRUE
    /\ Goto(a, "finish")
    /\ UNCHANGED <<task, failed, restarts, term, outcome, exit, result, archived,
                   ready, progress>>

CallFinish(a) ==
    /\ pc[a] = "finish"
    /\ progress' = Put(progress, task[a], IF outcome[a] THEN "complete" ELSE "incomplete")
    /\ CallExits(a, outcome[a])
    /\ UNCHANGED <<result, archived, index, ready, lost>>

\* Any other write fails: set -e ends the call where it is.
CallAborts(a) ==
    /\ "write" \in Faults
    /\ pc[a] \in {"call", "archive", "result", "finish"}
    /\ CallExits(a, FALSE)
    /\ UNCHANGED <<fileVars, lost>>

-----------------------------------------------------------------------------
(* SLURM                                                                     *)

Terminate(a) ==
    /\ pc[a] \in Live /\ ~term[a]
    /\ term' = [term EXCEPT ![a] = TRUE]
    /\ UNCHANGED <<pc, task, failed, restarts, outcome, exit, fileVars, lost>>

\* The node fails, or KILL follows TERM: nothing runs to its end.  --requeue
\* lets SLURM start the allocation again.
Kill(a) ==
    /\ "kill" \in Faults
    /\ pc[a] \in Live
    /\ \/ restarts[a] < RestartBound /\ Requeued(a)
       \/ Ends(a, "failure")
    /\ lost' = TRUE
    /\ UNCHANGED fileVars

-----------------------------------------------------------------------------
BatchStep(a) == \/ BatchSetup(a) \/ BatchSkips(a) \/ BatchPlaces(a)
                \/ BatchMisplaced(a) \/ BatchEnds(a) \/ BatchStops(a)
CallStep(a) == \/ CallStart(a) \/ CallReturns(a) \/ CallArchive(a) \/ CallResult(a)
               \/ CallIndex(a) \/ CallIndexFails(a) \/ CallIndexUnread(a)
               \/ CallFinish(a) \/ CallAborts(a)
SlurmStep(a) == Submit(a) \/ Terminate(a) \/ Kill(a)

Next == \E a \in Alloc : BatchStep(a) \/ CallStep(a) \/ SlurmStep(a)

Spec == Init /\ [][Next]_vars

\* An allocation's shell keeps running.  That a call ends is the 25 second
\* grace of the outer timeout; SLURM owes nobody an allocation or a signal.
Fairness == \A a \in Alloc : WF_vars(BatchStep(a) \/ CallStep(a))
FairSpec == Spec /\ Fairness

-----------------------------------------------------------------------------
(* Properties.                                                               *)

\* Every variable stays in its type; rows name runs that took place.
TypeOK ==
    /\ pc \in [Alloc -> {"idle", "ended"} \cup Live]
    /\ task \in [Alloc -> 1 .. T + 1]
    /\ failed \in [Alloc -> BOOLEAN]
    /\ restarts \in [Alloc -> 0 .. RestartBound]
    /\ term \in [Alloc -> BOOLEAN]
    /\ outcome \in [Alloc -> BOOLEAN]
    /\ exit \in [Alloc -> {"none", "success", "failure"}]
    /\ DOMAIN result \subseteq Pair /\ \A t \in DOMAIN result : result[t] \in Row
    /\ archived \subseteq Alloc \X Pair
    /\ DOMAIN index \subseteq Pair /\ \A t \in DOMAIN index : index[t] \in Row
    /\ ready \in BOOLEAN
    /\ DOMAIN progress \subseteq Pair
    /\ \A t \in DOMAIN progress : progress[t] \in {"running", "complete", "incomplete"}
    /\ lost \in BOOLEAN

\* A completed result is final: whatever is interrupted, requeued or resumed,
\* batch.sh and call.sh together never run or overwrite a completed pair.
Abstract == INSTANCE PairResults WITH
                saved <- DOMAIN result,
                completed <- {t \in DOMAIN result : result[t].complete}
KeepsCompleted == Abstract!Spec

\* The archive a result row names is there to be downloaded.
ResultHasArchive == \A t \in DOMAIN result : <<result[t].run, t>> \in archived

\* The index calls a pair complete only when its result file does.
IndexNeverAhead == \A t \in DOMAIN index : index[t].complete => Done(t)

\* A progress file calls a pair complete only when its result is saved.
ProgressNeverAhead == \A t \in DOMAIN progress : progress[t] = "complete" => Done(t)

\* Whatever is killed, interrupted or not written, neither Resume, which reads
\* the index, nor the monitor, which reads the progress files, ever takes an
\* unfinished pair for a finished one.
NothingAhead == IndexNeverAhead /\ ProgressNeverAhead

\* SLURM sees a batch succeed only when every pair has a complete result.
SuccessMeansComplete ==
    (\E a \in Alloc : exit[a] = "success") => \A t \in Pair : Done(t)

\* Between allocations a usable index lists exactly the saved rows.
IndexCurrent == ready /\ (\A a \in Alloc : pc[a] \notin Live) => index = result

\* ... and does so for as long as nothing was killed and no index was read in part:
\* TERM at any moment and failing writes do not separate the two.
IndexCurrentUnlessLost == ~lost => IndexCurrent

\* Every allocation ends, however often its placement fails.
AllocationsEnd == \A a \in Alloc : pc[a] = "setup" ~> pc[a] = "ended"
=============================================================================
