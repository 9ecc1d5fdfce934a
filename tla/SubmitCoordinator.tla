-------------------------- MODULE SubmitCoordinator --------------------------
(***************************************************************************)
(* submit_coordinator.py: the controllers of one user's jobs take turns at *)
(* sbatch under ~/slurmy/submit.lock.  Each attempt renews the job's lease, *)
(* drops leases older than 45 seconds, reads the queue, and submits one    *)
(* batch if the job is below its fair share and the user below the known   *)
(* ceiling.  An attempt is one step up to sbatch, because only the queue   *)
(* can change under the lock and squeue is read once; sbatch is another.   *)
(*                                                                         *)
(* Time is what the code compares: a lease or an observation is fresh or   *)
(* past its limit.                                                         *)
(***************************************************************************)
EXTENDS FairShare

CONSTANTS Job,          \* jobs: numbers, ordered as their names
          MaxRequested, \* largest --max-outstanding
          Limit,        \* the submission limit SLURM enforces
          MaxOther,     \* bound on the user's tasks outside Slurmy
          TurnCycle,    \* a multiple of every number of waiting jobs
          Faults        \* whether processes die and SLURM fails or shares its limit

ASSUME JobAssumption == Job \subseteq Nat /\ IsFiniteSet(Job)
ASSUME BoundAssumption == MaxRequested \in Nat \ {0} /\ Limit \in Nat \ {0}
                          /\ MaxOther \in Nat
ASSUME TurnAssumption == TurnCycle \in Nat \ {0}
                         /\ \A n \in 1 .. Cardinality(Job) : TurnCycle % n = 0
ASSUME FaultsAssumption == Faults \in BOOLEAN

VARIABLES
    requested,  \* MAX_OUTSTANDING of each job
    ctl,        \* what each job's controller is doing
    running,    \* tasks of each job that squeue lists
    other,      \* the user's other tasks
    lease,      \* ~/slurmy/submitters/<job>.json: none, fresh or old
    reported,   \* MaxSubmitJobs as last read with sacctmgr (0: not known)
    observed,   \* total at which SLURM last refused (0: never)
    observedAt, \* whether observed_at is within 300 seconds
    turn,       \* rotation of the extra slots, modulo TurnCycle: fair_targets uses
                \* its remainder by the number of waiting jobs only
    seen,       \* total in the snapshot of the attempt under way
    inflight,   \* jobs with an abandoned sbatch that SLURM may yet accept (one each)
    landed      \* auxiliary: such acceptances since the snapshot under way

vars == <<requested, ctl, running, other, lease, reported, observed, observedAt,
          turn, seen, inflight, landed>>

Leased == {j \in Job : lease[j] = "fresh"}
Total == other + SumOver(running, Job)

\* The known limits, and the ceiling taken from them; `stands` says whether the
\* observation is still within its five minutes.
Known(r, stands) == {v \in {r, IF stands THEN observed ELSE 0} : v > 0}

\* The slots the leased jobs share.
Available(names, r) ==
    IF Known(r, observedAt) # {}
    THEN Min(Known(r, observedAt)) - other
         - SumOver(running, Job \ names)
    ELSE SumOver(requested, names)
Demands(names) == [j \in names |-> requested[j]]
Target(j, names, r) == FairTargets(Demands(names), Available(names, r), turn)[j]

LockFree == \A j \in Job : ctl[j] # "sbatch"

-----------------------------------------------------------------------------
Init ==
    /\ requested \in [Job -> 1 .. MaxRequested]
    /\ ctl = [j \in Job |-> "none"]
    /\ running = [j \in Job |-> 0]
    /\ other = 0
    /\ lease = [j \in Job |-> "none"]
    /\ reported = 0
    /\ observed = 0
    /\ observedAt = FALSE
    /\ turn = 0
    /\ seen = 0
    /\ inflight = {}
    /\ landed = 0

Goto(j, at) == ctl' = [ctl EXCEPT ![j] = at]

\* remote_submit.sh reaches a batch it has to submit.
Start(j) ==
    /\ ctl[j] = "none"
    /\ Goto(j, "retry")
    /\ UNCHANGED <<requested, running, other, lease, reported, observed, observedAt,
                   turn, seen, inflight, landed>>

(* One attempt.  Renewing the own lease and dropping the old ones happens in *)
(* every attempt, also one that then cannot read the queue.                  *)
Renewed(j) == Leased \cup {j}
Lease(j) == lease' = [k \in Job |-> IF k \in Renewed(j) THEN "fresh" ELSE "none"]

\* The limit in submit-capacity.json, asked of sacctmgr every 300 seconds.
Reports == IF Faults THEN {reported, 0, Limit} ELSE {Limit}

\* Mutant: the limits are compared with what is running before the new task.
AdmittedOneMore(j, names, r) ==
    /\ running[j] <= Target(j, names, r)
    /\ Known(r, observedAt) # {} => Total < Min(Known(r, observedAt))

\* Mutant: a submission is tried at the ceiling itself.
AdmittedAtCeiling(j, names, r) ==
    /\ running[j] < Target(j, names, r)
    /\ Known(r, observedAt) # {} => Total <= Min(Known(r, observedAt))

\* The test before sbatch.
Admitted(j, names, r) ==
    /\ running[j] < Target(j, names, r)
    /\ Known(r, observedAt) # {} => Total < Min(Known(r, observedAt))

QueueUnknown(j) ==
    /\ Faults
    /\ ctl[j] = "retry" /\ LockFree
    /\ Lease(j)
    /\ UNCHANGED <<requested, ctl, running, other, reported, observed, observedAt,
                   turn, seen, inflight, landed>>

Waits(j) ==
    /\ ctl[j] = "retry" /\ LockFree
    /\ Lease(j)
    /\ reported' \in Reports
    /\ ~Admitted(j, Renewed(j), reported')
    /\ UNCHANGED <<requested, ctl, running, other, observed, observedAt, turn, seen,
                   inflight, landed>>

\* Mutant: the lock covers the queue snapshot but not sbatch.
ProceedsUnlocked(j) ==
    /\ ctl[j] = "retry"
    /\ Lease(j)
    /\ seen' = Total
    /\ landed' = 0
    /\ Goto(j, "sbatch")
    /\ reported' \in Reports
    /\ Admitted(j, Renewed(j), reported')
    /\ UNCHANGED <<requested, running, other, observed, observedAt, turn,
                   inflight>>

Proceeds(j) ==
    /\ ctl[j] = "retry" /\ LockFree
    /\ Lease(j)
    /\ seen' = Total
    /\ landed' = 0
    /\ Goto(j, "sbatch")
    /\ reported' \in Reports
    /\ Admitted(j, Renewed(j), reported')
    /\ UNCHANGED <<requested, running, other, observed, observedAt, turn,
                   inflight>>

\* Mutant: the turn does not move on.
AcceptedSameTurn(j) ==
    /\ ctl[j] = "sbatch"
    /\ Total < Limit
    /\ running' = [running EXCEPT ![j] = @ + 1]
    /\ seen' = 0
    /\ landed' = 0
    /\ Goto(j, "retry") \/ Goto(j, "release")
    /\ UNCHANGED <<requested, other, lease, reported, observed, observedAt, turn,
                   inflight>>

\* ACCEPTED: the controller turns to its next batch, or has submitted its last.
Accepted(j) ==
    /\ ctl[j] = "sbatch"
    /\ Total < Limit
    /\ running' = [running EXCEPT ![j] = @ + 1]
    /\ turn' = (turn + 1) % TurnCycle
    /\ seen' = 0
    /\ landed' = 0
    /\ Goto(j, "retry") \/ Goto(j, "release")
    /\ UNCHANGED <<requested, other, lease, reported, observed, observedAt,
                   inflight>>

\* Mutant: a refusal with an empty queue is taken for an observation.
RefusedAtZero(j) ==
    /\ ctl[j] = "sbatch"
    /\ Total >= Limit \/ Faults
    /\ observed' = IF observed > 0 THEN Min({seen, observed}) ELSE seen
    /\ observedAt' = TRUE
    /\ Goto(j, "retry")
    /\ seen' = 0
    /\ landed' = 0
    /\ UNCHANGED <<requested, running, other, lease, reported, turn, inflight>>

\* SLURM refuses with one of LIMIT_ERRORS: its own limit is reached, or with
\* Faults that of an account or QoS shared with others.
Refused(j) ==
    /\ ctl[j] = "sbatch"
    /\ Total >= Limit \/ Faults
    /\ \/ /\ seen = 0
          /\ Goto(j, "release")
          /\ UNCHANGED <<observed, observedAt>>
       \/ /\ seen > 0
          /\ observed' = IF observed > 0 THEN Min({seen, observed}) ELSE seen
          /\ observedAt' = TRUE
          /\ Goto(j, "retry")
    /\ seen' = 0
    /\ landed' = 0
    /\ UNCHANGED <<requested, running, other, lease, reported, turn, inflight>>

\* Any other error, or no answer within 60 seconds; SLURM may have accepted.
Unconfirmed(j) ==
    /\ Faults
    /\ ctl[j] = "sbatch"
    /\ \/ UNCHANGED <<running, inflight>>
       \/ Total < Limit /\ running' = [running EXCEPT ![j] = @ + 1] /\ UNCHANGED inflight
       \/ inflight' = inflight \cup {j} /\ UNCHANGED running
    /\ seen' = 0
    /\ landed' = 0
    /\ Goto(j, "release")
    /\ UNCHANGED <<requested, other, lease, reported, observed, observedAt, turn>>

\* finish_submit releases the lease.
Release(j) ==
    /\ ctl[j] = "release" /\ LockFree
    /\ lease' = [lease EXCEPT ![j] = "none"]
    /\ Goto(j, "none")
    /\ UNCHANGED <<requested, running, other, reported, observed, observedAt, turn,
                   seen, inflight, landed>>

\* SIGKILL: no release; the lease grows old.  The kernel drops submit.lock, but an
\* sbatch under way is a process of its own and goes on.
Killed(j) ==
    /\ Faults
    /\ ctl[j] # "none"
    /\ Goto(j, "none")
    /\ \/ ctl[j] # "sbatch" /\ UNCHANGED <<seen, inflight, landed>>
       \/ /\ ctl[j] = "sbatch"
          /\ seen' = 0
          /\ landed' = 0
          /\ inflight' \in {inflight, inflight \cup {j}}
    /\ UNCHANGED <<requested, running, other, lease, reported, observed, observedAt,
                   turn>>

-----------------------------------------------------------------------------
(* SLURM, the user and the clock                                             *)

\* slurmctld gets to an sbatch that nobody waits for any more.
Lands(j) ==
    /\ j \in inflight
    /\ inflight' = inflight \ {j}
    /\ IF Total < Limit
       THEN /\ running' = [running EXCEPT ![j] = @ + 1]
            /\ landed' = IF LockFree THEN 0 ELSE landed + 1
       ELSE UNCHANGED <<running, landed>>
    /\ UNCHANGED <<requested, ctl, other, lease, reported, observed, observedAt,
                   turn, seen>>

TaskEnds(j) ==
    /\ running[j] > 0
    /\ running' = [running EXCEPT ![j] = @ - 1]
    /\ UNCHANGED <<requested, ctl, other, lease, reported, observed, observedAt,
                   turn, seen, inflight, landed>>

\* The user's own sbatch, outside Slurmy.
OtherSubmits ==
    /\ other < MaxOther /\ Total < Limit
    /\ other' = other + 1
    /\ UNCHANGED <<requested, ctl, running, lease, reported, observed, observedAt,
                   turn, seen, inflight, landed>>

OtherEnds ==
    /\ other > 0
    /\ other' = other - 1
    /\ UNCHANGED <<requested, ctl, running, lease, reported, observed, observedAt,
                   turn, seen, inflight, landed>>

\* 45 seconds without an attempt of this job: its controller is gone, or (with
\* Faults) waits for the lock while the attempts of others take their time.
LeaseAges(j) ==
    /\ lease[j] = "fresh"
    /\ ctl[j] = "none" \/ (Faults /\ ctl[j] # "sbatch")
    /\ lease' = [lease EXCEPT ![j] = "old"]
    /\ UNCHANGED <<requested, ctl, running, other, reported, observed, observedAt,
                   turn, seen, inflight, landed>>

\* 300 seconds since the last refusal.
ObservationAges ==
    /\ observedAt
    /\ observedAt' = FALSE
    /\ UNCHANGED <<requested, ctl, running, other, lease, reported, observed, turn,
                   seen, inflight, landed>>

-----------------------------------------------------------------------------
Attempt(j) == QueueUnknown(j) \/ Waits(j) \/ Proceeds(j)
Answer(j) == Accepted(j) \/ Refused(j) \/ Unconfirmed(j)
Next == \/ \E j \in Job : \/ Start(j) \/ Attempt(j) \/ Answer(j)
                          \/ Release(j) \/ Killed(j)
                          \/ Lands(j) \/ TaskEnds(j) \/ LeaseAges(j)
        \/ OtherSubmits \/ OtherEnds \/ ObservationAges

Spec == Init /\ [][Next]_vars

(* Fairness.  A controller keeps trying, and one that is admitted again and   *)
(* again is not forever the one to come too late: the attempts of different  *)
(* controllers are five seconds of sleep apart and nothing synchronises them. *)
(* SLURM answers, tasks end, time passes.                                     *)
Fairness ==
    /\ \A j \in Job : /\ SF_vars(Proceeds(j))
                      /\ WF_vars(Answer(j))
                      /\ WF_vars(Release(j))
                      /\ WF_vars(TaskEnds(j))
                      /\ WF_vars(LeaseAges(j))
    /\ WF_vars(ObservationAges)
FairSpec == Spec /\ Fairness

-----------------------------------------------------------------------------
(* Properties.                                                               *)

\* Every variable stays in its type; an observed ceiling in force is positive,
\* as the code that takes the minimum of the known limits requires.
TypeOK ==
    /\ requested \in [Job -> 1 .. MaxRequested]
    /\ ctl \in [Job -> {"none", "retry", "sbatch", "release"}]
    /\ running \in [Job -> Nat]
    /\ other \in 0 .. MaxOther
    /\ lease \in [Job -> {"none", "fresh", "old"}]
    /\ reported \in {0, Limit}
    /\ observed \in 0 .. Limit
    /\ observedAt \in BOOLEAN
    /\ observedAt => observed > 0
    /\ turn \in 0 .. TurnCycle - 1
    /\ seen \in 0 .. Limit
    /\ inflight \subseteq Job
    /\ landed \in Nat

\* Simultaneous submitters never claim the same slot: while an attempt is at
\* sbatch, no other job of the user has added to the total it decided on,
\* except through an acceptance that an earlier attempt could not confirm.
OneClaimPerSlot ==
    \A j \in Job : ctl[j] = "sbatch" => Total - other <= seen + landed

\* A job never has more than --max-outstanding tasks queued or running.
MaxOutstandingKept == \A j \in Job : running[j] <= requested[j]

\* An attempt that goes on to sbatch leaves its job within the fair share of
\* what the ceiling leaves to the jobs with a live lease.
FairAdmission ==
    [][\A j \in Job : ctl[j] = "retry" /\ ctl'[j] = "sbatch" =>
         LET names == Leased'
             free == Min(Known(reported', observedAt)) - other
                     - SumOver(running, Job \ names)
         IN  Known(reported', observedAt) # {} =>
                 WithinFairShare(Demands(names), free, MaxRequested, running[j] + 1)]_vars

\* No slot is left idle by the division: when the user is below the ceiling and
\* a live submitter below its demand, the next attempt of some job is admitted.
WorkConserving ==
    (/\ \A j \in Job : lease[j] = "fresh" => ctl[j] = "retry"
     /\ \E j \in Leased : running[j] < requested[j]
     /\ Known(reported, observedAt) # {} => Total < Min(Known(reported, observedAt)))
    => \E j \in Leased : Admitted(j, Leased, reported)

\* While an observed ceiling is in force no attempt of any job repeats a total at
\* which SLURM refused: each further refusal within the five minutes comes below
\* it and lowers it, also when other tasks come and go between the attempts.
RefusalLowers ==
    [][\A j \in Job : Refused(j) /\ seen > 0 /\ observedAt => observed' < observed]_vars

\* Once the jobs that submit stay the same and tasks outside Slurmy leave them the
\* user's limit, each of them gets to sbatch again and again: the rotation of the
\* extra slots passes none over.
NoStarvation ==
    \A S \in SUBSET Job :
        <>[](other = 0 /\ {k \in Job : ctl[k] \in {"retry", "sbatch"}} = S)
            => \A j \in S : []<>(ctl[j] = "sbatch")
=============================================================================
