----------------------- MODULE SubmitCoordinatorProofs -----------------------
(***************************************************************************)
(* Every safety and action property of SubmitCoordinator, for any finite   *)
(* set of jobs, any demands and limit, with and without faults (only       *)
(* MaxOutstandingKept needs a system without faults).                      *)
(*                                                                         *)
(* The inductive invariant says what the lock gives an attempt at sbatch:  *)
(* it is alone, the total it saw still bounds what the jobs have queued,   *)
(* and it lies below an observed ceiling in force.  What the division of   *)
(* slots does comes from FairShareProofs.                                  *)
(***************************************************************************)
EXTENDS SubmitCoordinator, FairShareProofs

\* submit.lock is held across sbatch: one attempt at a time is there.
Mutex == \A j, k \in Job : ctl[j] = "sbatch" /\ ctl[k] = "sbatch" => j = k
\* SLURM keeps the user within its limit.
WithinLimit == Total <= Limit
\* An attempt at sbatch saw a total below the observed ceiling, if one is in force.
SeenBelow == \A j \in Job : ctl[j] = "sbatch" /\ observedAt => seen < observed

\* The inductive invariant,
IInv == TypeOK /\ WithinLimit /\ Mutex /\ OneClaimPerSlot /\ SeenBelow
\* and its part beyond the types.
Bounds == WithinLimit /\ Mutex /\ OneClaimPerSlot /\ SeenBelow

-----------------------------------------------------------------------------
(* Sums and limits.                                                          *)

\* The sum in Total is one of counts.
LEMMA Sums ==
    ASSUME TypeOK
    PROVE  /\ Weighs(running, Job) /\ DOMAIN running = Job
           /\ SumOver(running, Job) \in Nat /\ Total \in Nat /\ other \in Nat
           /\ Total = other + SumOver(running, Job)
<1>1. Weighs(running, Job) /\ DOMAIN running = Job
  BY JobAssumption DEF TypeOK, Weighs
<1>2. SumOver(running, Job) \in Nat
  BY <1>1, SumNat
<1>3. other \in Nat
  BY BoundAssumption DEF TypeOK
<1> QED
  BY <1>1, <1>2, <1>3 DEF Total

\* One task more adds one to the sum,
LEMMA OneMore ==
    ASSUME TypeOK, NEW j \in Job, running' = [running EXCEPT ![j] = @ + 1]
    PROVE  /\ running' \in [Job -> Nat]
           /\ SumOver(running', Job) = SumOver(running, Job) + 1
<1>1. /\ running[j] \in Nat /\ running'[j] = running[j] + 1 /\ running'[j] \in Nat
      /\ \A k \in Job \ {j} : running'[k] = running[k]
      /\ running' \in [Job -> Nat] /\ j \in Job
  BY DEF TypeOK
<1>2. SumOver(running', Job) = SumOver(running, Job) - running[j] + running'[j]
  <2>1. Weighs(running, Job)
    BY Sums
  <2> QED
    BY ONLY <1>1, <2>1, SumUpdate
<1> QED
  BY <1>1, <1>2, Sums

\* and one less takes one from it.
LEMMA OneLess ==
    ASSUME TypeOK, NEW j \in Job, running[j] > 0, running' = [running EXCEPT ![j] = @ - 1]
    PROVE  /\ running' \in [Job -> Nat]
           /\ SumOver(running', Job) = SumOver(running, Job) - 1
<1>1. /\ running[j] \in Nat /\ running'[j] = running[j] - 1 /\ running'[j] \in Nat
      /\ \A k \in Job \ {j} : running'[k] = running[k]
      /\ running' \in [Job -> Nat] /\ j \in Job
  BY DEF TypeOK
<1>2. SumOver(running', Job) = SumOver(running, Job) - running[j] + running'[j]
  <2>1. Weighs(running, Job)
    BY Sums
  <2> QED
    BY ONLY <1>1, <2>1, SumUpdate
<1> QED
  BY <1>1, <1>2, Sums

\* min(known) is one of the known limits and at most each of them.
LEMMA LowestKnown ==
    ASSUME NEW r \in Nat, observed \in Nat, NEW stands \in BOOLEAN, Known(r, stands) # {}
    PROVE  /\ Min(Known(r, stands)) \in Known(r, stands)
           /\ \A v \in Known(r, stands) : Min(Known(r, stands)) <= v
           /\ Known(r, stands) \subseteq Nat
<1> DEFINE K == Known(r, stands)
           o == IF stands THEN observed ELSE 0
<1>1. o \in Nat /\ K = {v \in {r, o} : v > 0}
  BY DEF Known
<1> HIDE DEF o
<1>2. \E x \in K : \A y \in K : x <= y
  BY <1>1 DEF K
<1>3. Min(K) \in K /\ \A y \in K : Min(K) <= y
  <2> HIDE DEF K
  <2> QED
    BY <1>2 DEF Min
<1> QED
  BY <1>1, <1>3

\* The total depends on the queue only.
LEMMA SameSum ==
    ASSUME running' = running, other' = other
    PROVE  Total' = Total /\ SumOver(running', Job) = SumOver(running, Job)
BY DEF Total

-----------------------------------------------------------------------------
(* The inductive invariant.                                                  *)

\* A step that changes neither the queue nor the attempt under way keeps the bounds.
LEMMA Calm ==
    ASSUME IInv, running' = running, other' = other,
           seen' = seen, landed' = landed, observed' = observed,
           observedAt' => observedAt,
           \A k \in Job : ctl'[k] = "sbatch" => ctl[k] = "sbatch"
    PROVE  Bounds'
<1>1. Total' = Total
  BY SameSum
<1>2. WithinLimit'
  BY <1>1 DEF IInv, WithinLimit
<1>3. Mutex'
  BY DEF IInv, Mutex
<1>4. OneClaimPerSlot'
  BY <1>1 DEF IInv, OneClaimPerSlot
<1>5. SeenBelow'
  BY DEF IInv, SeenBelow
<1> QED
  BY <1>2, <1>3, <1>4, <1>5 DEF Bounds

\* So does the answer to the attempt under way: nobody is at sbatch after it.
LEMMA Leaves ==
    ASSUME IInv, NEW j \in Job, ctl[j] = "sbatch", NEW at, at # "sbatch", Goto(j, at),
           WithinLimit'
    PROVE  Bounds'
<1>1. \A k \in Job : ctl'[k] # "sbatch"
  BY DEF IInv, TypeOK, Mutex, Goto
<1> QED
  BY <1>1 DEF Bounds, Mutex, OneClaimPerSlot, SeenBelow

\* Each action keeps the invariant.  Start: one more controller that retries.
LEMMA StartKeeps ==
    ASSUME IInv, NEW j \in Job, Start(j)
    PROVE  IInv'
<1>1. TypeOK'
  BY DEF IInv, TypeOK, Start, Goto
<1>2. \A k \in Job : ctl'[k] = "sbatch" => ctl[k] = "sbatch"
  BY DEF IInv, TypeOK, Start, Goto
<1>3. Bounds'
  BY <1>2, Calm DEF Start
<1> QED
  BY <1>1, <1>3 DEF IInv, Bounds

\* The leases that an attempt writes are leases,
LEMMA LeaseType ==
    ASSUME NEW j \in Job, Lease(j)
    PROVE  lease' \in [Job -> {"none", "fresh", "old"}]
BY DEF Lease

\* and the limit it is told is none or the user's.
LEMMA ReportType ==
    ASSUME TypeOK, reported' \in Reports
    PROVE  reported' \in {0, Limit}
BY DEF TypeOK, Reports

\* QueueUnknown: only leases change.
LEMMA QueueUnknownKeeps ==
    ASSUME IInv, NEW j \in Job, QueueUnknown(j)
    PROVE  IInv'
<1>1. TypeOK'
  BY LeaseType DEF IInv, TypeOK, QueueUnknown
<1>2. Bounds'
  BY Calm DEF QueueUnknown
<1> QED
  BY <1>1, <1>2 DEF IInv, Bounds

\* Waits: only leases and the reported limit change.
LEMMA WaitsKeeps ==
    ASSUME IInv, NEW j \in Job, Waits(j)
    PROVE  IInv'
<1>1. reported' \in {0, Limit} /\ lease' \in [Job -> {"none", "fresh", "old"}]
  BY LeaseType, ReportType DEF IInv, Waits
<1>2. TypeOK'
  BY <1>1 DEF IInv, TypeOK, Waits
<1>3. Bounds'
  BY Calm DEF Waits
<1> QED
  BY <1>2, <1>3 DEF IInv, Bounds

\* Proceeds: the attempt was alone at the lock, has just seen the total, and the test
\* before sbatch has put that below every known limit.
LEMMA ProceedsKeeps ==
    ASSUME IInv, NEW j \in Job, Proceeds(j)
    PROVE  IInv'
<1>1. reported' \in {0, Limit} /\ lease' \in [Job -> {"none", "fresh", "old"}]
  BY LeaseType, ReportType DEF IInv, Proceeds
<1>2. /\ Total \in Nat /\ Total <= Limit /\ Limit \in Nat /\ other \in Nat
      /\ SumOver(running, Job) \in Nat /\ Total = other + SumOver(running, Job)
  BY Sums, BoundAssumption DEF IInv, WithinLimit
<1>3. seen' = Total /\ landed' = 0 /\ Goto(j, "sbatch") /\ LockFree
  BY DEF Proceeds
<1>4. TypeOK'
  <2>1. seen' \in 0 .. Limit /\ landed' \in Nat
    BY <1>2, <1>3
  <2> QED
    BY <1>1, <1>3, <2>1 DEF IInv, TypeOK, Proceeds, Goto
<1>5. \A k \in Job : ctl'[k] = "sbatch" => k = j
  BY <1>3 DEF IInv, TypeOK, LockFree, Goto
<1>6. Total' = Total /\ other' = other
  BY SameSum DEF Proceeds
<1>7. WithinLimit' /\ Mutex'
  BY <1>2, <1>5, <1>6 DEF WithinLimit, Mutex
<1>8. OneClaimPerSlot'
  BY <1>2, <1>3, <1>6 DEF OneClaimPerSlot
<1>9. observedAt' => seen' < observed'
  <2> SUFFICES ASSUME observedAt' PROVE seen' < observed'
    OBVIOUS
  <2>1. /\ observedAt = TRUE /\ observed' = observed
        /\ observed \in Nat /\ observed > 0 /\ reported' \in Nat
    BY <1>1, <1>2 DEF IInv, TypeOK, Proceeds
  <2>2. observed \in Known(reported', observedAt)
    BY <2>1 DEF Known
  <2>3. Total < Min(Known(reported', observedAt))
    BY <2>2 DEF Proceeds, Admitted
  <2>4. /\ Min(Known(reported', observedAt)) <= observed
        /\ Min(Known(reported', observedAt)) \in Nat
    BY <2>1, <2>2, LowestKnown
  <2> DEFINE m == Min(Known(reported', observedAt))
  <2>5. /\ Total < m /\ m <= observed /\ m \in Nat
        /\ Total \in Nat /\ observed \in Nat
    BY <1>2, <2>1, <2>3, <2>4
  <2> HIDE DEF m
  <2>6. Total < observed
    BY ONLY <2>5
  <2> QED
    BY ONLY <1>3, <2>1, <2>6
<1>10. SeenBelow'
  BY <1>9 DEF SeenBelow
<1> QED
  BY <1>4, <1>7, <1>8, <1>10 DEF IInv

\* Accepted: one task more, within the limit, and nobody is left at sbatch.
LEMMA AcceptedKeeps ==
    ASSUME IInv, NEW j \in Job, Accepted(j)
    PROVE  IInv'
<1>1. /\ running' \in [Job -> Nat] /\ SumOver(running', Job) = SumOver(running, Job) + 1
      /\ Total < Limit /\ other' = other
  BY OneMore DEF IInv, Accepted
<1>2. WithinLimit'
  <2>1. Total' = Total + 1
    BY <1>1, Sums DEF IInv, Total
  <2> QED
    BY <1>1, <2>1, Sums, BoundAssumption DEF IInv, WithinLimit
<1>3. PICK at \in {"retry", "release"} : Goto(j, at)
  BY DEF Accepted
<1>4. turn' \in 0 .. TurnCycle - 1
  <2>1. turn \in Nat
    BY TurnAssumption DEF IInv, TypeOK
  <2>2. turn' = (turn + 1) % TurnCycle
    BY DEF Accepted
  <2>3. turn + 1 \in Int /\ TurnCycle \in Nat \ {0}
    BY <2>1, TurnAssumption
  <2> QED
    BY <2>2, <2>3, DivisionInt
<1>5. TypeOK'
  BY <1>1, <1>3, <1>4, BoundAssumption DEF IInv, TypeOK, Accepted, Goto
<1>6. Bounds'
  BY <1>2, <1>3, Leaves DEF Accepted
<1> QED
  BY <1>5, <1>6 DEF IInv, Bounds

\* Refused: the new observation is positive and at most the limit.
LEMMA RefusedKeeps ==
    ASSUME IInv, NEW j \in Job, Refused(j)
    PROVE  IInv'
<1>1. WithinLimit'
  BY SameSum DEF IInv, WithinLimit, Refused
<1>2. PICK at \in {"retry", "release"} : Goto(j, at)
  BY DEF Refused
<1>3. observed' \in 0 .. Limit /\ observedAt' \in BOOLEAN /\ (observedAt' => observed' > 0)
  <2>0. /\ seen \in 0 .. Limit /\ observed \in 0 .. Limit /\ Limit \in Nat
        /\ observedAt \in BOOLEAN /\ (observedAt => observed > 0)
    BY BoundAssumption DEF IInv, TypeOK
  <2>1. CASE UNCHANGED <<observed, observedAt>>
    BY <2>0, <2>1
  <2>2. CASE /\ seen > 0 /\ observedAt' = TRUE
             /\ observed' = IF observed > 0 THEN Min({seen, observed}) ELSE seen
    <3>1. Min({seen, observed}) = IF seen <= observed THEN seen ELSE observed
      BY <2>0, MinIs
    <3> QED
      BY <2>0, <2>2, <3>1
  <2> QED
    BY <2>1, <2>2 DEF Refused
<1>4. TypeOK'
  BY <1>2, <1>3, BoundAssumption DEF IInv, TypeOK, Refused, Goto
<1>5. Bounds'
  BY <1>1, <1>2, Leaves DEF Refused
<1> QED
  BY <1>4, <1>5 DEF IInv, Bounds

\* Unconfirmed: at most one task more, and nobody is left at sbatch.
LEMMA UnconfirmedKeeps ==
    ASSUME IInv, NEW j \in Job, Unconfirmed(j)
    PROVE  IInv'
<1>1. /\ running' \in [Job -> Nat] /\ other' = other
      /\ \/ running' = running
         \/ Total < Limit /\ SumOver(running', Job) = SumOver(running, Job) + 1
  BY OneMore DEF IInv, TypeOK, Unconfirmed
<1>2. WithinLimit'
  <2>1. CASE running' = running
    BY <1>1, <2>1, SameSum DEF IInv, WithinLimit
  <2>2. CASE Total < Limit /\ SumOver(running', Job) = SumOver(running, Job) + 1
    <3>1. Total' = Total + 1
      BY <1>1, <2>2, Sums DEF IInv, Total
    <3> QED
      BY <2>2, <3>1, Sums, BoundAssumption DEF IInv, WithinLimit
  <2> QED
    BY <1>1, <2>1, <2>2
<1>3. Goto(j, "release")
  BY DEF Unconfirmed
<1>4. inflight' \subseteq Job
  BY DEF Unconfirmed, IInv, TypeOK
<1>5. TypeOK'
  <2>1. /\ seen' = 0 /\ landed' = 0
        /\ UNCHANGED <<requested, other, lease, reported, observed, observedAt, turn>>
    BY DEF Unconfirmed
  <2>2. ctl' \in [Job -> {"none", "retry", "sbatch", "release"}]
    BY <1>3 DEF IInv, TypeOK, Goto
  <2>3. TypeOK
    BY DEF IInv
  <2>4. running' \in [Job -> Nat]
    BY <1>1
  <2> QED
    BY ONLY <1>4, <2>1, <2>2, <2>3, <2>4, BoundAssumption DEF TypeOK
<1>6. Bounds'
  BY <1>2, <1>3, Leaves DEF Unconfirmed
<1> QED
  BY <1>5, <1>6 DEF IInv, Bounds

\* Release: the controller was not at sbatch.
LEMMA ReleaseKeeps ==
    ASSUME IInv, NEW j \in Job, Release(j)
    PROVE  IInv'
<1>1. TypeOK'
  BY DEF IInv, TypeOK, Release, Goto
<1>2. \A k \in Job : ctl'[k] = "sbatch" => ctl[k] = "sbatch"
  BY DEF IInv, TypeOK, Release, Goto
<1>3. Bounds'
  BY <1>2, Calm DEF Release
<1> QED
  BY <1>1, <1>3 DEF IInv, Bounds

\* Killed: at any place, with or without an sbatch under way.
LEMMA KilledKeeps ==
    ASSUME IInv, NEW j \in Job, Killed(j)
    PROVE  IInv'
<1>1. TypeOK'
  BY BoundAssumption DEF IInv, TypeOK, Killed, Goto
<1>2. Goto(j, "none")
  BY DEF Killed
<1>3. CASE ctl[j] = "sbatch"
  <2>1. WithinLimit'
    BY SameSum DEF IInv, WithinLimit, Killed
  <2>2. Bounds'
    BY <1>2, <1>3, <2>1, Leaves
  <2> QED
    BY <1>1, <2>2 DEF IInv, Bounds
<1>4. CASE ctl[j] # "sbatch"
  <2>1. \A k \in Job : ctl'[k] = "sbatch" => ctl[k] = "sbatch"
    BY <1>2 DEF IInv, TypeOK, Goto
  <2>2. Bounds'
    BY <1>4, <2>1, Calm DEF Killed
  <2> QED
    BY <1>1, <2>2 DEF IInv, Bounds
<1> QED
  BY <1>3, <1>4

\* Lands: the task that comes after all is counted by `landed` for whoever is at sbatch.
LEMMA LandsKeeps ==
    ASSUME IInv, NEW j \in Job, Lands(j)
    PROVE  IInv'
<1>0. /\ TypeOK /\ other' = other /\ ctl' = ctl /\ seen' = seen
      /\ observed' = observed /\ observedAt' = observedAt
      /\ UNCHANGED <<requested, lease, reported, turn>>
      /\ inflight' \subseteq Job
  BY DEF IInv, TypeOK, Lands
<1>1. CASE /\ Total < Limit /\ running' = [running EXCEPT ![j] = @ + 1]
           /\ landed' = IF LockFree THEN 0 ELSE landed + 1
  <2>1. /\ running' \in [Job -> Nat]
        /\ SumOver(running', Job) = SumOver(running, Job) + 1
    BY <1>0, <1>1, OneMore
  <2>2. /\ Total' = Total + 1 /\ Total < Limit /\ Limit \in Nat
        /\ Total \in Nat /\ other \in Nat
    BY <1>0, <1>1, <2>1, Sums, BoundAssumption DEF Total
  <2>3. landed' \in Nat /\ (~LockFree => landed' = landed + 1)
    BY <1>0, <1>1 DEF TypeOK
  <2>4. TypeOK'
    BY ONLY <1>0, <2>1, <2>3 DEF TypeOK
  <2>5. WithinLimit'
    BY ONLY <2>2 DEF WithinLimit
  <2>6. Mutex' /\ SeenBelow'
    BY <1>0 DEF IInv, Mutex, SeenBelow
  <2>7. OneClaimPerSlot'
    <3> SUFFICES ASSUME NEW k \in Job, ctl'[k] = "sbatch"
                 PROVE  Total' - other' <= seen' + landed'
      BY DEF OneClaimPerSlot
    <3>1. ctl[k] = "sbatch" /\ ~LockFree
      BY <1>0 DEF LockFree
    <3>2. /\ Total - other <= seen + landed /\ seen \in Nat /\ landed \in Nat
          /\ landed' = landed + 1
      BY <1>0, <2>3, <3>1, BoundAssumption DEF IInv, OneClaimPerSlot, TypeOK
    <3> QED
      BY ONLY <1>0, <2>2, <3>2
  <2> QED
    BY <2>4, <2>5, <2>6, <2>7 DEF IInv
<1>2. CASE UNCHANGED <<running, landed>>
  <2>1. TypeOK'
    BY <1>0, <1>2 DEF TypeOK
  <2>2. Bounds'
    BY <1>0, <1>2, Calm
  <2> QED
    BY <2>1, <2>2 DEF IInv, Bounds
<1> QED
  BY <1>1, <1>2 DEF Lands

\* A step that leaves the jobs no more tasks, with the total within the limit, keeps
\* the bounds.
LEMMA FewerKeeps ==
    ASSUME IInv, UNCHANGED <<ctl, seen, landed, observed, observedAt>>,
           Total' \in Nat, other' \in Nat, Total' <= Limit,
           Total' - other' <= Total - other
    PROVE  Bounds'
<1>1. WithinLimit' /\ Mutex' /\ SeenBelow'
  BY DEF IInv, WithinLimit, Mutex, SeenBelow
<1>2. OneClaimPerSlot'
  <2> SUFFICES ASSUME NEW k \in Job, ctl'[k] = "sbatch"
               PROVE  Total' - other' <= seen' + landed'
    BY DEF OneClaimPerSlot
  <2>1. /\ Total - other <= seen + landed /\ seen \in Nat /\ landed \in Nat
        /\ Total \in Nat /\ other \in Nat
    BY Sums, BoundAssumption DEF IInv, OneClaimPerSlot, TypeOK
  <2>2. seen' = seen /\ landed' = landed
    OBVIOUS
  <2>3. \A t, n, o, p, s, l \in Nat :
          t - o <= s + l /\ n - p <= t - o => n - p <= s + l
    OBVIOUS
  <2>4. Total' - other' <= seen + landed
    BY <2>1, <2>3, Zenon
  <2> QED
    BY <2>2, <2>4
<1> QED
  BY <1>1, <1>2 DEF Bounds

\* TaskEnds: one task less.
LEMMA TaskEndsKeeps ==
    ASSUME IInv, NEW j \in Job, TaskEnds(j)
    PROVE  IInv'
<1>0. /\ TypeOK /\ other' = other
      /\ UNCHANGED <<requested, ctl, lease, reported, observed, observedAt, turn,
                     seen, inflight, landed>>
  BY DEF IInv, TaskEnds
<1>1. /\ running' \in [Job -> Nat]
      /\ SumOver(running', Job) = SumOver(running, Job) - 1
  BY <1>0, OneLess DEF TaskEnds
<1>2. TypeOK'
  BY ONLY <1>0, <1>1 DEF TypeOK
<1>3. /\ Total' = Total - 1 /\ Total \in Nat /\ other \in Nat /\ Total <= Limit
      /\ Limit \in Nat
  BY <1>0, <1>1, Sums, BoundAssumption DEF Total, IInv, WithinLimit
<1>4. Total' \in Nat
  <2>1. SumOver(running', Job) \in Nat
    <3>1. Weighs(running', Job)
      BY ONLY <1>1, JobAssumption DEF Weighs
    <3> QED
      BY ONLY <3>1, SumNat
  <2> QED
    BY ONLY <1>0, <1>3, <2>1 DEF Total
<1>5. Total' <= Limit /\ Total' - other' <= Total - other
  BY ONLY <1>0, <1>3
<1>6. Bounds'
  BY <1>0, <1>3, <1>4, <1>5, FewerKeeps
<1> QED
  BY <1>2, <1>6 DEF IInv, Bounds

\* OtherSubmits: the total grows, but not by a task of a job.
LEMMA OtherSubmitsKeeps ==
    ASSUME IInv, OtherSubmits
    PROVE  IInv'
<1>1. TypeOK'
  BY BoundAssumption DEF IInv, TypeOK, OtherSubmits
<1>2. /\ Total' = Total + 1 /\ other' = other + 1 /\ Total < Limit
      /\ Total \in Nat /\ other \in Nat /\ Limit \in Nat
  BY Sums, BoundAssumption DEF IInv, OtherSubmits, Total
<1>3. /\ Total' \in Nat /\ other' \in Nat /\ Total' <= Limit
      /\ Total' - other' <= Total - other
  BY ONLY <1>2
<1>4. Bounds'
  BY <1>3, FewerKeeps DEF OtherSubmits
<1> QED
  BY <1>1, <1>4 DEF IInv, Bounds

\* OtherEnds: the total shrinks, and the tasks of the jobs stay.
LEMMA OtherEndsKeeps ==
    ASSUME IInv, OtherEnds
    PROVE  IInv'
<1>1. TypeOK'
  BY BoundAssumption DEF IInv, TypeOK, OtherEnds
<1>2. /\ Total' = Total - 1 /\ other' = other - 1 /\ Total <= Limit /\ other > 0
      /\ Total \in Nat /\ other \in Nat /\ Limit \in Nat /\ other <= Total
  BY Sums, BoundAssumption DEF IInv, OtherEnds, Total, WithinLimit
<1>3. /\ Total' \in Nat /\ other' \in Nat /\ Total' <= Limit
      /\ Total' - other' <= Total - other
  BY ONLY <1>2
<1>4. Bounds'
  BY <1>3, FewerKeeps DEF OtherEnds
<1> QED
  BY <1>1, <1>4 DEF IInv, Bounds

\* LeaseAges: only a lease changes.
LEMMA LeaseAgesKeeps ==
    ASSUME IInv, NEW j \in Job, LeaseAges(j)
    PROVE  IInv'
<1>1. TypeOK'
  BY DEF IInv, TypeOK, LeaseAges
<1>2. Bounds'
  BY Calm DEF LeaseAges
<1> QED
  BY <1>1, <1>2 DEF IInv, Bounds

\* ObservationAges: no observed ceiling is in force after it.
LEMMA ObservationAgesKeeps ==
    ASSUME IInv, ObservationAges
    PROVE  IInv'
<1>1. TypeOK'
  BY DEF IInv, TypeOK, ObservationAges
<1>2. Bounds'
  BY Calm DEF ObservationAges
<1> QED
  BY <1>1, <1>2 DEF IInv, Bounds

\* A stuttering step changes nothing.
LEMMA StutterKeeps ==
    ASSUME IInv, UNCHANGED vars
    PROVE  IInv'
<1>1. TypeOK'
  BY DEF IInv, TypeOK, vars
<1>2. Bounds'
  BY Calm DEF vars
<1> QED
  BY <1>1, <1>2 DEF IInv, Bounds

\* The invariant holds when no controller has started,
LEMMA InitIInv ==
    ASSUME Init
    PROVE  IInv
<1>1. TypeOK
  <2>1. TurnCycle \in Nat \ {0}
    BY TurnAssumption
  <2>2. turn \in 0 .. TurnCycle - 1
    BY <2>1 DEF Init
  <2>3. other \in 0 .. MaxOther /\ observed \in 0 .. Limit /\ seen \in 0 .. Limit
    BY BoundAssumption DEF Init
  <2>4. /\ running \in [Job -> Nat]
        /\ ctl \in [Job -> {"none", "retry", "sbatch", "release"}]
        /\ lease \in [Job -> {"none", "fresh", "old"}]
    BY DEF Init
  <2>5. /\ reported \in {0, Limit} /\ observedAt = FALSE
        /\ inflight \subseteq Job /\ landed \in Nat
        /\ requested \in [Job -> 1 .. MaxRequested]
    BY DEF Init
  <2> QED
    BY ONLY <2>2, <2>3, <2>4, <2>5 DEF TypeOK
<1>2. SumOver(running, Job) = 0
  <2>1. IsFiniteSet(Job) /\ \A j \in Job : running[j] = 0
    BY JobAssumption DEF Init
  <2>2. SumOver(running, Job) = 0 * Cardinality(Job)
    BY <2>1, SumConstant
  <2>3. Cardinality(Job) \in Nat
    BY <2>1, FS_CardinalityType
  <2> QED
    BY <2>2, <2>3
<1>3. WithinLimit
  BY <1>2, BoundAssumption DEF WithinLimit, Total, Init
<1> QED
  BY <1>1, <1>3 DEF IInv, Init, Mutex, OneClaimPerSlot, SeenBelow

\* and every step keeps it.
LEMMA NextIInv ==
    ASSUME IInv, [Next]_vars
    PROVE  IInv'
<1>1. ASSUME NEW j \in Job,
             \/ Start(j) \/ Attempt(j) \/ Answer(j) \/ Release(j) \/ Killed(j)
             \/ Lands(j) \/ TaskEnds(j) \/ LeaseAges(j)
      PROVE  IInv'
  BY <1>1, StartKeeps, QueueUnknownKeeps, WaitsKeeps, ProceedsKeeps, AcceptedKeeps,
     RefusedKeeps, UnconfirmedKeeps, ReleaseKeeps, KilledKeeps, LandsKeeps,
     TaskEndsKeeps, LeaseAgesKeeps DEF Attempt, Answer
<1> QED
  BY <1>1, OtherSubmitsKeeps, OtherEndsKeeps, ObservationAgesKeeps, StutterKeeps DEF Next

\* The invariant of the coordinator: whatever controllers, SLURM, the user and the clock
\* do, at most one attempt is at sbatch, and what it decided on still bounds the queue.
THEOREM Invariance == Spec => []IInv
<1>1. Init => IInv
  BY InitIInv
<1>2. IInv /\ [Next]_vars => IInv'
  BY NextIInv
<1> QED
  BY <1>1, <1>2, PTL DEF Spec

-----------------------------------------------------------------------------
(* What follows from it.                                                     *)

\* The types of leases, limits and counts; in particular an observed ceiling in force is
\* positive, which the minimum of the known limits in main() relies on.
THEOREM TypeCorrect == Spec => []TypeOK
<1>1. IInv => TypeOK
  BY DEF IInv
<1> QED
  BY <1>1, Invariance, PTL

\* Two submitters never claim the same slot: what main() counted in its queue snapshot
\* bounds the jobs' tasks until its sbatch is answered, apart from acceptances of an
\* earlier sbatch that nobody could confirm.
THEOREM ClaimsAlways == Spec => []OneClaimPerSlot
<1>1. IInv => OneClaimPerSlot
  BY DEF IInv
<1> QED
  BY <1>1, Invariance, PTL

\* While an observed ceiling is in force, main() submits below it only, so a further
\* refusal lowers it.
THEOREM RefusalLowersAlways == Spec => RefusalLowers
<1> DEFINE Lowers ==
      \A j \in Job : Refused(j) /\ seen > 0 /\ observedAt => observed' < observed
<1>1. IInv => Lowers
  <2> SUFFICES ASSUME IInv, NEW j \in Job, Refused(j), seen > 0, observedAt
               PROVE  observed' < observed
    OBVIOUS
  <2>1. /\ seen < observed /\ seen \in Nat /\ observed \in Nat
    BY BoundAssumption DEF IInv, TypeOK, SeenBelow, Refused
  <2>2. Min({seen, observed}) = seen
    BY <2>1, MinIs
  <2>3. observed' = IF observed > 0 THEN Min({seen, observed}) ELSE seen
    <3>1. seen # 0
      BY <2>1
    <3> QED
      BY <3>1, Zenon DEF Refused
  <2> QED
    BY ONLY <2>1, <2>2, <2>3
<1>2. Spec => [][Lowers]_vars
  BY <1>1, Invariance, PTL
<1> QED
  BY <1>2 DEF RefusalLowers

-----------------------------------------------------------------------------
(* Admission and the division of slots.                                      *)

\* The demands that main() collects from the leases are demands in the sense of
\* FairShareProofs,
LEMMA DemandsOf ==
    ASSUME TypeOK, NEW names, names \subseteq Job
    PROVE  /\ Demanding(Demands(names)) /\ DOMAIN Demands(names) = names
           /\ \A k \in names : /\ Demands(names)[k] = requested[k]
                               /\ requested[k] \in Nat /\ requested[k] <= MaxRequested
<1>1. \A k \in names : /\ Demands(names)[k] = requested[k]
                       /\ requested[k] \in Nat /\ requested[k] <= MaxRequested
  BY BoundAssumption DEF TypeOK, Demands
<1>2. DOMAIN Demands(names) = names /\ IsFiniteSet(names) /\ names \subseteq Nat
  BY JobAssumption, FS_Subset DEF Demands
<1> QED
  BY <1>1, <1>2 DEF Demanding, Weighs

\* the capacity it computes is a number, perhaps negative,
LEMMA AvailableInt ==
    ASSUME TypeOK, NEW names, names \subseteq Job, NEW r \in {0, Limit}
    PROVE  Available(names, r) \in Int
<1>1. CASE Known(r, observedAt) # {}
  <2>1. Min(Known(r, observedAt)) \in Nat
    <3>1. r \in Nat /\ observed \in Nat /\ observedAt \in BOOLEAN
      BY BoundAssumption DEF TypeOK
    <3> QED
      BY <1>1, <3>1, LowestKnown
  <2>2. SumOver(running, Job \ names) \in Nat /\ other \in Nat
    <3>1. Weighs(running, Job \ names)
      BY Sums, WeighsSubset
    <3> QED
      BY <3>1, SumNat, Sums
  <2> QED
    BY <1>1, <2>1, <2>2 DEF Available
<1>2. CASE Known(r, observedAt) = {}
  <2>1. Weighs(requested, names)
    BY DemandsOf DEF Demanding, Weighs
  <2>2. SumOver(requested, names) \in Nat
    BY <2>1, SumNat
  <2> QED
    BY <1>2, <2>2 DEF Available
<1> QED
  BY <1>1, <1>2

\* and a job's target is at most what it asked for.
LEMMA TargetIs ==
    ASSUME TypeOK, NEW names, names \subseteq Job, NEW r \in {0, Limit}, NEW j \in names
    PROVE  Target(j, names, r) \in Nat /\ Target(j, names, r) <= requested[j]
<1>1. turn \in Int
  BY DEF TypeOK
<1> DEFINE d == Demands(names)
           c == Available(names, r)
<1>2. /\ Demanding(d) /\ c \in Int /\ j \in DOMAIN d /\ d[j] = requested[j]
      /\ Target(j, names, r) = FairTargets(d, c, turn)[j]
  BY DemandsOf, AvailableInt DEF Target
<1> HIDE DEF d, c
<1> QED
  BY <1>1, <1>2, TargetBounds

\* Only an admitted attempt brings a controller to sbatch.
LEMMA OnlyProceeds ==
    ASSUME IInv, [Next]_vars, NEW j \in Job, ctl[j] # "sbatch", ctl'[j] = "sbatch"
    PROVE  Proceeds(j)
<1>0. ctl \in [Job -> {"none", "retry", "sbatch", "release"}]
  BY DEF IInv, TypeOK
<1>1. \A k \in Job : \A at : Goto(k, at) => j = k /\ at = "sbatch"
  BY <1>0 DEF Goto
<1>2. ctl' # ctl
  OBVIOUS
<1>3. \A k \in Job : ~Start(k) /\ ~QueueUnknown(k) /\ ~Waits(k)
  BY <1>1, <1>2 DEF Start, QueueUnknown, Waits
<1>4. \A k \in Job : ~Accepted(k) /\ ~Refused(k) /\ ~Unconfirmed(k)
  BY <1>1, <1>2 DEF Accepted, Refused, Unconfirmed
<1>5. \A k \in Job : ~Release(k) /\ ~Killed(k)
  BY <1>1, <1>2 DEF Release, Killed
<1>6. \A k \in Job : ~Lands(k) /\ ~TaskEnds(k) /\ ~LeaseAges(k)
  BY <1>2 DEF Lands, TaskEnds, LeaseAges
<1>7. ~OtherSubmits /\ ~OtherEnds /\ ~ObservationAges /\ ~UNCHANGED vars
  BY <1>2 DEF OtherSubmits, OtherEnds, ObservationAges, vars
<1>8. PICK k \in Job : Proceeds(k)
  BY <1>3, <1>4, <1>5, <1>6, <1>7, Zenon DEF Next, Attempt, Answer
<1> QED
  BY <1>1, <1>8 DEF Proceeds

\* Without faults nothing is in flight unnoticed, and an attempt at sbatch has room
\* for its task.
Modest ==
    /\ inflight = {}
    /\ \A j \in Job : running[j] <= requested[j]
    /\ \A j \in Job : ctl[j] = "sbatch" => running[j] < requested[j]

\* A step keeps that: the attempt's target is at most its demand, and until it is
\* answered nothing else adds to the tasks of its job.
LEMMA NextModest ==
    ASSUME ~Faults, IInv, Modest, [Next]_vars
    PROVE  Modest'
<1>1. requested' = requested
  BY DEF Next, vars, Start, Attempt, Answer, QueueUnknown, Waits, Proceeds, Accepted,
     Refused, Unconfirmed, Release, Killed, Lands, TaskEnds, LeaseAges, OtherSubmits,
     OtherEnds, ObservationAges
<1>2. inflight' = {}
  BY DEF Modest, Next, vars, Start, Attempt, Answer, QueueUnknown, Waits, Proceeds,
     Accepted, Refused, Unconfirmed, Release, Killed, Lands, TaskEnds, LeaseAges,
     OtherSubmits, OtherEnds, ObservationAges
<1>3. \A j \in Job : running[j] \in Nat /\ requested[j] \in Nat
  BY BoundAssumption DEF IInv, TypeOK
<1>4. ASSUME NEW j \in Job
      PROVE  /\ running'[j] <= requested'[j]
             /\ ctl'[j] = "sbatch" => running'[j] < requested'[j]
  <2>1. CASE Accepted(j)
    <3>1. /\ running'[j] = running[j] + 1 /\ running[j] < requested[j]
          /\ ctl'[j] # "sbatch"
      BY <2>1 DEF Accepted, Goto, IInv, TypeOK, Modest
    <3> QED
      BY ONLY <1>1, <1>3, <3>1
  <2>2. CASE Proceeds(j)
    <3>1. running'[j] < requested[j]
      <4>1. reported' \in {0, Limit}
        BY <2>2, ReportType DEF Proceeds, IInv
      <4>2. Renewed(j) \subseteq Job /\ j \in Renewed(j)
        BY DEF Renewed, Leased
      <4> DEFINE t == Target(j, Renewed(j), reported')
      <4>3. running'[j] = running[j] /\ running[j] < t
        BY <2>2 DEF Proceeds, Admitted
      <4>4. t \in Nat /\ t <= requested[j]
        BY <4>1, <4>2, TargetIs DEF IInv
      <4> HIDE DEF t
      <4> QED
        BY ONLY <1>3, <4>3, <4>4
    <3> QED
      BY ONLY <1>1, <1>3, <2>2, <3>1 DEF Proceeds
  <2>3. CASE TaskEnds(j)
    <3>1. running'[j] = running[j] - 1 /\ ctl' = ctl
      BY <2>3 DEF TaskEnds, IInv, TypeOK
    <3> QED
      BY <1>1, <1>3, <3>1 DEF Modest
  <2>4. CASE ~Accepted(j) /\ ~Proceeds(j) /\ ~TaskEnds(j)
    <3>1. running'[j] = running[j]
      BY <2>4
      DEF IInv, TypeOK, Modest, Next, vars, Start, Attempt, Answer, QueueUnknown, Waits,
          Proceeds, Accepted, Refused, Unconfirmed, Release, Killed, Lands, TaskEnds,
          LeaseAges, OtherSubmits, OtherEnds, ObservationAges
    <3>2. ctl'[j] = "sbatch" => ctl[j] = "sbatch"
      BY <2>4, OnlyProceeds
    <3> QED
      BY <1>1, <3>1, <3>2 DEF Modest
  <2> QED
    BY <2>1, <2>2, <2>3, <2>4
<1> QED
  BY <1>2, <1>4 DEF Modest

\* Without crashes and lost answers a job never has more than --max-outstanding tasks
\* in the queue.
THEOREM MaxOutstanding ==
    ASSUME ~Faults
    PROVE  Spec => []MaxOutstandingKept
<1>1. Init => Modest
  BY BoundAssumption DEF Init, Modest
<1>2. IInv /\ Modest /\ [Next]_vars => Modest'
  BY NextModest
<1>3. Modest => MaxOutstandingKept
  BY DEF Modest, MaxOutstandingKept
<1> QED
  BY <1>1, <1>2, <1>3, Invariance, PTL DEF Spec

\* An attempt that is admitted leaves its job within its fair share of what the ceiling
\* leaves to the jobs with a live lease.
LEMMA ProceedsFairly ==
    ASSUME IInv, NEW j \in Job, Proceeds(j), Known(reported', observedAt) # {}
    PROVE  WithinFairShare(Demands(Leased'),
                           Min(Known(reported', observedAt)) - other
                               - SumOver(running, Job \ Leased'),
                           MaxRequested, running[j] + 1)
<1> DEFINE N == Renewed(j)
           d == Demands(N)
           c == Available(N, reported')
<1>1. N \subseteq Job /\ j \in N
  BY DEF Renewed, Leased
<1>2. Leased' = N
  <2>1. lease' = [k \in Job |-> IF k \in N THEN "fresh" ELSE "none"]
    BY DEF Proceeds, Lease
  <2> HIDE DEF N
  <2> QED
    BY <1>1, <2>1 DEF Leased
<1>3. /\ reported' \in {0, Limit} /\ turn \in Int
      /\ running[j] \in Nat /\ MaxRequested \in Nat
  BY ReportType, BoundAssumption DEF Proceeds, IInv, TypeOK
<1>4. /\ Demanding(d) /\ DOMAIN d = N /\ \A k \in DOMAIN d : d[k] <= MaxRequested
  BY <1>1, DemandsOf DEF IInv
<1>5. c \in Int
  BY <1>1, <1>3, AvailableInt DEF IInv
<1>6. running[j] < FairTargets(d, c, turn)[j]
  BY DEF Proceeds, Admitted, Target
<1>7. FairTargets(d, c, turn)[j] \in Nat
  <2> HIDE DEF c, d
  <2> QED
    BY <1>1, <1>3, <1>4, <1>5, TargetBounds
<1>8. c = Min(Known(reported', observedAt)) - other - SumOver(running, Job \ N)
  BY DEF Available
<1>9. WithinFairShare(d, c, MaxRequested, running[j] + 1)
  <2> HIDE DEF c, d, N
  <2>1. running[j] + 1 \in Nat \ {0} /\ running[j] + 1 <= FairTargets(d, c, turn)[j]
    BY <1>3, <1>6, <1>7
  <2> QED
    BY <1>1, <1>3, <1>4, <1>5, <2>1, FairTargetsFair
<1> QED
  BY <1>2, <1>8, <1>9

\* Every submission that main() lets through is within the max-min fair share of its
\* job, for any number of competing jobs.
THEOREM FairAdmissionAlways == Spec => FairAdmission
<1> DEFINE Fair ==
      \A j \in Job : ctl[j] = "retry" /\ ctl'[j] = "sbatch" =>
         LET names == Leased'
             free == Min(Known(reported', observedAt)) - other
                     - SumOver(running, Job \ names)
         IN  Known(reported', observedAt) # {} =>
                 WithinFairShare(Demands(names), free, MaxRequested, running[j] + 1)
<1>1. IInv /\ [Next]_vars => Fair
  BY OnlyProceeds, ProceedsFairly
<1>2. Spec => [][Fair]_vars
  BY <1>1, Invariance, PTL DEF Spec
<1> QED
  BY <1>2 DEF FairAdmission

\* If no leased job were below its target, the targets would sum to at most what these
\* jobs have running.  By ExactDivision they sum to the capacity, which is more while
\* the user is below the ceiling, or to all demands, which is more while some job is
\* below its own.
LEMMA SomeoneAdmitted ==
    ASSUME TypeOK,
           \E j \in Leased : running[j] < requested[j],
           Known(reported, observedAt) # {} => Total < Min(Known(reported, observedAt))
    PROVE  \E j \in Leased : running[j] < Target(j, Leased, reported)
<1> DEFINE N == Leased
           d == Demands(N)
           c == Available(N, reported)
           t == FairTargets(d, c, turn)
<1>1. N \subseteq Job /\ turn \in Int /\ reported \in {0, Limit}
  BY DEF Leased, TypeOK
<1>2. /\ Demanding(d) /\ DOMAIN d = N /\ Weighs(d, N)
      /\ \A k \in N : d[k] = requested[k] /\ d[k] \in Nat
  BY <1>1, DemandsOf DEF Demanding
<1>3. c \in Int
  BY <1>1, AvailableInt
<1>4. /\ \A k \in N : t[k] \in Nat /\ t[k] <= d[k]
      /\ SumOver(t, N) = Min({Max({0, c}), SumOver(d, N)})
  <2> HIDE DEF c, d
  <2> QED
    BY <1>1, <1>2, <1>3, TargetBounds, ExactDivision
<1>5. Weighs(t, N) /\ Weighs(running, N) /\ Weighs(running, Job \ N)
  <2>1. Weighs(t, N)
    BY <1>2, <1>4 DEF Weighs
  <2> QED
    BY <1>1, <2>1, Sums, WeighsSubset
<1>6. /\ SumOver(t, N) \in Nat /\ SumOver(d, N) \in Nat
      /\ SumOver(running, N) \in Nat /\ SumOver(running, Job \ N) \in Nat
  BY <1>2, <1>5, SumNat
<1> SUFFICES ASSUME \A k \in N : ~(running[k] < t[k]) PROVE FALSE
  BY DEF Target
<1>7. \A k \in N : t[k] <= running[k]
  BY <1>4, <1>5 DEF Weighs
<1>8. SumOver(t, N) <= SumOver(running, N)
  <2> HIDE DEF t, N
  <2> QED
    BY <1>5, <1>7, SumMonotone
<1>9. SumOver(t, N) < SumOver(d, N)
  <2>1. PICK x \in N : running[x] < requested[x]
    OBVIOUS
  <2>2. t[x] < d[x]
    <3>1. t[x] <= running[x] /\ running[x] < d[x]
      BY <1>2, <1>7, <2>1
    <3>2. t[x] \in Nat /\ d[x] \in Nat /\ running[x] \in Nat
      BY <1>2, <1>4, <1>5 DEF Weighs
    <3> HIDE DEF t, d
    <3> QED
      BY ONLY <3>1, <3>2
  <2> HIDE DEF t, d, N
  <2> QED
    BY <1>2, <1>4, <1>5, <2>2, SumStrict
<1>10. SumOver(t, N) = IF c > 0 THEN c ELSE 0
  <2> DEFINE s == Max({0, c})
             a == SumOver(t, N)
             b == SumOver(d, N)
  <2>1. s \in Nat /\ s = IF c > 0 THEN c ELSE 0
    <3> HIDE DEF c
    <3> QED
      BY <1>3, MaxIs
  <2>2. a = Min({s, b}) /\ a < b /\ a \in Nat /\ b \in Nat
    BY <1>4, <1>6, <1>9
  <2> HIDE DEF s, a, b
  <2>3. a = s
    BY <2>1, <2>2, MinIs
  <2> QED
    BY <2>1, <2>3 DEF a
<1>11. CASE Known(reported, observedAt) = {}
  <2>1. c = SumOver(requested, N)
    BY <1>11 DEF Available
  <2>2. SumOver(d, N) = SumOver(requested, N)
    <3> HIDE DEF d, N
    <3> QED
      BY <1>2, SumSame
  <2> DEFINE a == SumOver(t, N)
             b == SumOver(d, N)
  <2>3. c = b /\ a = (IF c > 0 THEN c ELSE 0) /\ a < b /\ a \in Nat /\ b \in Nat
    BY <1>6, <1>9, <1>10, <2>1, <2>2
  <2> HIDE DEF a, b, c
  <2> QED
    BY ONLY <2>3
<1>12. CASE Known(reported, observedAt) # {}
  <2> DEFINE m == Min(Known(reported, observedAt))
             a == SumOver(t, N)
             p == SumOver(running, N)
             q == SumOver(running, Job \ N)
  <2>1. c = m - other - q
    BY <1>12 DEF Available
  <2>2. m \in Nat
    <3>1. reported \in Nat /\ observed \in Nat /\ observedAt \in BOOLEAN
      BY BoundAssumption DEF TypeOK
    <3> QED
      BY <1>12, <3>1, LowestKnown
  <2>3. other + (p + q) < m /\ other \in Nat
    <3>1. SumOver(running, Job) = p + q
      BY <1>1, Sums, SumSplit
    <3> QED
      BY <1>12, <3>1, Sums
  <2>4. /\ a = (IF c > 0 THEN c ELSE 0) /\ a <= p /\ a \in Nat /\ p \in Nat /\ q \in Nat
    BY <1>6, <1>8, <1>10
  <2> HIDE DEF m, a, p, q, c
  <2> QED
    BY ONLY <2>1, <2>2, <2>3, <2>4
<1> QED
  BY <1>11, <1>12

\* The division leaves no slot idle: while the user is below the ceiling and a live
\* submitter below its demand, main() admits the next attempt of some job.
THEOREM WorkConservingAlways == Spec => []WorkConserving
<1>1. IInv => WorkConserving
  BY SomeoneAdmitted DEF IInv, WorkConserving, Admitted
<1> QED
  BY <1>1, Invariance, PTL

\* The model's turn, counted modulo TurnCycle, stands for the unbounded counter t of
\* submit-capacity.json: it gives every job the same target, and both advance alike.
THEOREM TurnModelled ==
    ASSUME TypeOK, NEW names, names \subseteq Job, NEW r \in {0, Limit}, NEW j \in names,
           NEW t \in Nat, turn = t % TurnCycle
    PROVE  /\ Target(j, names, r) = FairTargets(Demands(names), Available(names, r), t)[j]
           /\ (turn + 1) % TurnCycle = (t + 1) % TurnCycle
<1> DEFINE d == Demands(names)
           c == Available(names, r)
<1>1. Demanding(d) /\ DOMAIN d = names /\ c \in Int
  BY DemandsOf, AvailableInt
<1>2. \A n \in 1 .. Cardinality(names) : TurnCycle % n = 0
  <2>1. /\ Cardinality(names) <= Cardinality(Job)
        /\ Cardinality(names) \in Nat /\ Cardinality(Job) \in Nat
    BY JobAssumption, FS_Subset, FS_CardinalityType
  <2> QED
    BY <2>1, TurnAssumption
<1>3. Target(j, names, r) = FairTargets(d, c, t % TurnCycle)[j]
  BY DEF Target
<1>4. FairTargets(d, c, t)[j] = FairTargets(d, c, t % TurnCycle)[j]
  <2>1. /\ j \in DOMAIN d /\ t \in Int /\ TurnCycle \in Nat \ {0}
        /\ \A n \in 1 .. Cardinality(DOMAIN d) : TurnCycle % n = 0
    BY <1>1, <1>2, TurnAssumption
  <2> HIDE DEF d, c
  <2> QED
    BY <1>1, <2>1, TurnWraps, Zenon
<1>5. ((t % TurnCycle) + 1) % TurnCycle = (t + 1) % TurnCycle
  <2> DEFINE a == TurnCycle
             q == t \div a
             m == t % a
             p == (t + 1) \div a
             s == (t + 1) % a
  <2>1. /\ a \in Nat \ {0}
        /\ q \in Int /\ m \in Int /\ t = q * a + m
        /\ p \in Int /\ s \in 0 .. a - 1 /\ t + 1 = p * a + s
    <3>1. t \in Int /\ t + 1 \in Int
      OBVIOUS
    <3> QED
      BY <3>1, TurnAssumption, DivisionInt
  <2> HIDE DEF a, q, m, p, s
  <2>2. m + 1 = (p - q) * a + s /\ p - q \in Int /\ m + 1 \in Int
    BY <2>1
  <2>3. (m + 1) % a = s
    BY <2>1, <2>2, ModIs
  <2> QED
    BY <2>3 DEF m, s, a
<1> QED
  BY <1>3, <1>4, <1>5
=============================================================================
