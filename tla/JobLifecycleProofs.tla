------------------------- MODULE JobLifecycleProofs -------------------------
(***************************************************************************)
(* What JobLifecycle promises for every number of clients and batches.     *)
(*                                                                         *)
(* The argument: flock admits one controller past its lock (OneController); *)
(* that controller's count and loop index agree with submission.csv        *)
(* (LoopInSync); hence each row it appends repeats a recorded batch or is  *)
(* the next one (RecordedInterval), and the word `complete` is only        *)
(* written when the file names every batch.                                *)
(***************************************************************************)
EXTENDS JobLifecycle, FiniteSetTheorems, TLAPS

-----------------------------------------------------------------------------
(* The inductive invariant.                                                  *)

\* Points at which a controller has read submission.csv.
HasRead == {"select", "next", "check", "sbatch", "record", "publish"}

\* A client whose dispatcher has not launched has no controller.
NotYetLaunched ==
    \A p \in Client : pc[p] \notin {"dispatchWait", "ended"} => cpc[p] = "none"

OneController ==
    \A p, q \in Client : cpc[p] \in Submitting /\ cpc[q] \in Submitting => p = q

RecordedInterval == /\ Accepted \in Nat
                    /\ Recorded = 0 .. (Accepted - 1)

InSync(p) ==
    /\ cpc[p] \in HasRead => submitted[p] = Accepted /\ cur[p] <= Accepted
    /\ cpc[p] \notin HasRead => submitted[p] = 0 /\ cur[p] = 0
    /\ cpc[p] \in {"check", "sbatch", "record", "publish"} => cur[p] < N
    /\ cpc[p] = "publish" => cur[p] < Accepted
LoopInSync == \A p \in Client : InSync(p)

CountsNeverAhead == /\ StateNeverAhead
                    /\ \A p \in Client : saved[p] <= Accepted

LateOnlyInFlight ==
    /\ StopAdmitsAtMostOne
    /\ ~stopped => late = 0
    /\ \A p \in Client : cpc[p] = "sbatch" => late = 0

IInv == /\ TypeOK
        /\ NotYetLaunched
        /\ OneController
        /\ RecordedInterval
        /\ ContiguousPrefix
        /\ LoopInSync
        /\ CountsNeverAhead
        /\ CompleteMeansRecorded
        /\ LateOnlyInFlight

-----------------------------------------------------------------------------
(* Steps that change no file and no controller: a client moves on in its     *)
(* script.                                                                   *)

Launched == {"dispatchWait", "ended"}

QuietStep ==
    /\ UNCHANGED <<cpc, cur, submitted, wanted, stopped, context, rows, state,
                   live, done, marker, late>>
    /\ kind' \in [Client -> {"none"} \cup Kinds]
    /\ pc' \in [Client -> ClientAt]
    /\ saved' \in [Client -> Nat]
    /\ \A p \in Client : pc'[p] \notin Launched => pc[p] \notin Launched
    /\ \A p \in Client : saved'[p] \in {saved[p], 0, state.accepted}

LEMMA QuietMoves ==
  ASSUME TypeOK, NEW p \in Client
  PROVE  /\ \A k \in Kinds : Start(p, k) => QuietStep
         /\ ClientDies(p) => QuietStep
         /\ DispatchCheck(p) => QuietStep
         /\ StopQueue(p) \/ RecoverQueue(p) \/ ResumeQueue(p) => QuietStep
         /\ StopProbe(p) \/ RecoverProbe(p) \/ ResumeProbe(p) \/ DispatchProbe(p)
              => QuietStep
         /\ StopProbeEnds(p) \/ RecoverProbeEnds(p) \/ ResumeProbeEnds(p) => QuietStep
         /\ DispatchProbeEnds(p) \/ MonitorProbeEnds(p) => QuietStep
         /\ RecoverCheck(p) \/ ResumeCheck(p) \/ DispatchLock(p) \/ MonitorProbe(p)
              => QuietStep
<1> USE DEF QuietStep, Launched, Goto, TypeOK, ClientAt, ClientActive, Stopping,
            Recovering, Dispatching, clientVars, controllerVars
<1>1. \A k \in Kinds : Start(p, k) => QuietStep
  BY KindsAssumption DEF Start, Entry
<1>2. ClientDies(p) => QuietStep
  BY DEF ClientDies
<1>3. DispatchCheck(p) => QuietStep
  BY DEF DispatchCheck, SubmissionState
<1>4. StopQueue(p) \/ RecoverQueue(p) \/ ResumeQueue(p) => QuietStep
  BY DEF StopQueue, RecoverQueue, ResumeQueue, QueryQueue
<1>5. StopProbe(p) \/ RecoverProbe(p) \/ ResumeProbe(p) \/ DispatchProbe(p) => QuietStep
  BY DEF StopProbe, RecoverProbe, ResumeProbe, DispatchProbe, Probe
<1>6. /\ StopProbeEnds(p) \/ RecoverProbeEnds(p) \/ ResumeProbeEnds(p) => QuietStep
      /\ DispatchProbeEnds(p) \/ MonitorProbeEnds(p) => QuietStep
  BY DEF StopProbeEnds, RecoverProbeEnds, ResumeProbeEnds, DispatchProbeEnds,
         MonitorProbeEnds, ProbeEnds
<1>7. RecoverCheck(p) \/ ResumeCheck(p) \/ DispatchLock(p) \/ MonitorProbe(p) => QuietStep
  BY DEF RecoverCheck, ResumeCheck, DispatchLock, MonitorProbe
<1> QED BY <1>1, <1>2, <1>3, <1>4, <1>5, <1>6, <1>7

\* The cases of a step, for the proofs below: a quiet step, a client that
\* writes a file, a controller, SLURM.
FileStep(p) == \/ StopMark(p) \/ StopWrite(p) \/ RecoverMark(p) \/ ResumeClear(p)
               \/ DispatchLaunch(p) \/ DispatchWait(p)

LEMMA StepCases ==
  ASSUME TypeOK, Next
  PROVE  \/ QuietStep
         \/ \E p \in Client : FileStep(p) \/ ControllerStep(p) \/ ControllerDies(p)
         \/ \E b \in Batch : AllocationEnds(b)
<1>1. CASE \E b \in Batch : AllocationEnds(b)
  BY <1>1
<1>2. ASSUME NEW p \in Client,
             \/ \E k \in Kinds : Start(p, k)
             \/ ClientStep(p) \/ ClientDies(p) \/ ControllerStep(p) \/ ControllerDies(p)
      PROVE  QuietStep \/ FileStep(p) \/ ControllerStep(p) \/ ControllerDies(p)
  BY <1>2, QuietMoves DEF ClientStep, StopStep, RecoverStep, ResumeStep,
     DispatchStep, MonitorStep, FileStep
<1> QED BY <1>1, <1>2 DEF Next

-----------------------------------------------------------------------------
(* Types.                                                                    *)

LEMMA AcceptedNat ==
  ASSUME TypeOK, RecordedInterval
  PROVE  Accepted \in Nat
BY DEF RecordedInterval

LEMMA TypeOKFileStep ==
  ASSUME TypeOK, NEW p \in Client, FileStep(p)
  PROVE  TypeOK'
<1> USE DEF TypeOK, Goto, CGoto, ClientAt, ClientActive, Stopping, Recovering,
        Dispatching, ControllerAt, controllerVars, SubmissionState, StateWord
<1>1. CASE StopMark(p)
  BY <1>1 DEF StopMark
<1>2. CASE StopWrite(p)
  BY <1>2 DEF StopWrite
<1>3. CASE RecoverMark(p)
  BY <1>3 DEF RecoverMark
<1>4. CASE ResumeClear(p)
  BY <1>4 DEF ResumeClear
<1>5. CASE DispatchLaunch(p)
  BY <1>5 DEF DispatchLaunch
<1>6. CASE DispatchWait(p)
  BY <1>6 DEF DispatchWait
<1> QED BY <1>1, <1>2, <1>3, <1>4, <1>5, <1>6 DEF FileStep

LEMMA ControllerEndsType ==
  ASSUME TypeOK, NEW p \in Client, NEW how \in {"done", "failed"}, ControllerEnds(p, how)
  PROVE  /\ cpc' \in [Client -> ControllerAt]
         /\ cur' \in [Client -> 0 .. N]
         /\ submitted' \in [Client -> Nat]
         /\ wanted' \in [Client -> SUBSET Batch]
<1>1. cpc' \in [Client -> ControllerAt]
  BY DEF TypeOK, ControllerEnds, CGoto, ControllerAt, ControllerEnd
<1>2. cur' \in [Client -> 0 .. N]
  BY NAssumption DEF TypeOK, ControllerEnds
<1>3. submitted' \in [Client -> Nat]
  BY DEF TypeOK, ControllerEnds
<1>4. wanted' \in [Client -> SUBSET Batch]
  BY DEF TypeOK, ControllerEnds
<1> QED BY <1>1, <1>2, <1>3, <1>4

LEMMA Exit1Type ==
  ASSUME TypeOK, NEW p \in Client, Exit1(p)
  PROVE  /\ cpc' \in [Client -> ControllerAt]
         /\ cur' \in [Client -> 0 .. N]
         /\ submitted' \in [Client -> Nat]
         /\ wanted' \in [Client -> SUBSET Batch]
         /\ state' \in SubmissionState
<1>1. state' \in SubmissionState
  BY DEF TypeOK, Exit1, SubmissionState, StateWord
<1> QED BY <1>1, ControllerEndsType DEF Exit1

LEMMA TypeOKControllerStep ==
  ASSUME TypeOK, RecordedInterval, LoopInSync, NEW p \in Client,
         ControllerStep(p) \/ ControllerDies(p)
  PROVE  TypeOK'
<1> USE DEF TypeOK, CGoto, ControllerAt, Submitting, ControllerEnd, clientVars
<1>1. CASE ControllerLock(p)
  BY <1>1 DEF ControllerLock
<1>2. CASE ControllerInit(p)
  BY <1>2, Exit1Type DEF ControllerInit
<1>3. CASE ControllerPlan(p)
  BY <1>3, Exit1Type DEF ControllerPlan
<1>4. CASE ControllerRead(p)
  <2>1. CASE Exit1(p)
    BY <1>4, <2>1, Exit1Type DEF ControllerRead
  <2>2. CASE ContiguousPrefix
    <3>1. state' \in SubmissionState
      BY <1>4, <2>2, AcceptedNat DEF ControllerRead, SubmissionState, StateWord
    <3>2. submitted' \in [Client -> Nat]
      BY <1>4, <2>2, AcceptedNat DEF ControllerRead
    <3> QED BY <1>4, <2>2, <3>1, <3>2 DEF ControllerRead
  <2> QED BY <1>4, <2>1, <2>2 DEF ControllerRead
<1>5. CASE ControllerSelect(p)
  BY <1>5 DEF ControllerSelect
<1>6. CASE ControllerNext(p)
  <2>1. CASE cur[p] = N /\ ControllerEnds(p, "done")
             /\ state' = [word |-> "complete", accepted |-> submitted[p]]
    BY <1>6, <2>1, ControllerEndsType DEF ControllerNext, SubmissionState, StateWord
  <2>2. CASE Exit1(p)
    BY <1>6, <2>2, Exit1Type DEF ControllerNext
  <2>3. CASE cur[p] < N /\ cur' = [cur EXCEPT ![p] = @ + 1]
             /\ UNCHANGED <<cpc, submitted, wanted, state>>
    BY <1>6, <2>3, NAssumption DEF ControllerNext
  <2>4. CASE cpc' = [cpc EXCEPT ![p] = "check"] /\ UNCHANGED <<cur, submitted, wanted, state>>
    BY <1>6, <2>4 DEF ControllerNext
  <2> QED BY <1>6, <2>1, <2>2, <2>3, <2>4 DEF ControllerNext
<1>7. CASE ControllerCheck(p)
  BY <1>7, Exit1Type DEF ControllerCheck
<1>8. CASE ControllerWait(p)
  BY <1>8 DEF ControllerWait
<1>9. CASE ControllerAccept(p)
  <2>1. cur[p] \in Batch
    BY <1>9, NAssumption DEF ControllerAccept, LoopInSync, InSync, Batch
  <2>2. live' \in [Batch -> Nat]
    BY <1>9, <2>1 DEF ControllerAccept, Enqueue
  <2>3. late' \in Nat
    BY <1>9 DEF ControllerAccept, Enqueue
  <2> QED BY <1>9, <2>2, <2>3 DEF ControllerAccept
<1>10. CASE ControllerError(p)
  BY <1>10, Exit1Type DEF ControllerError, Enqueue
<1>11. CASE ControllerRecord(p)
  <2>1. cur[p] \in Batch
    BY <1>11, NAssumption DEF ControllerRecord, LoopInSync, InSync, Batch
  <2> QED BY <1>11, <2>1 DEF ControllerRecord
<1>12. CASE ControllerPublish(p)
  BY <1>12, NAssumption DEF ControllerPublish, LoopInSync, InSync, SubmissionState, StateWord
<1>13. CASE ControllerTerminated(p)
  BY <1>13, Exit1Type DEF ControllerTerminated
<1>14. CASE ControllerKilled(p)
  BY <1>14, ControllerEndsType DEF ControllerKilled
<1> QED BY <1>1, <1>2, <1>3, <1>4, <1>5, <1>6, <1>7, <1>8, <1>9, <1>10, <1>11,
           <1>12, <1>13, <1>14 DEF ControllerStep, ControllerDies

LEMMA TypeOKStep ==
  ASSUME TypeOK, RecordedInterval, LoopInSync, Next
  PROVE  TypeOK'
<1>1. CASE QuietStep
  BY <1>1 DEF QuietStep, TypeOK
<1>2. ASSUME NEW b \in Batch, AllocationEnds(b)
      PROVE  TypeOK'
  BY <1>2 DEF AllocationEnds, TypeOK, clientVars, controllerVars
<1> QED BY <1>1, <1>2, StepCases, TypeOKFileStep, TypeOKControllerStep

-----------------------------------------------------------------------------
(* The controller lock.                                                      *)

\* A controller moves only itself, and enters its guarded part only from
\* "start" when the lock is free.
LEMMA ControllerMoves ==
  ASSUME TypeOK, NEW p \in Client, ControllerStep(p) \/ ControllerDies(p)
  PROVE  /\ UNCHANGED clientVars
         /\ cpc[p] # "none"
         /\ cpc' = [cpc EXCEPT ![p] = cpc'[p]]
         /\ \/ cpc[p] \in Submitting
            \/ cpc[p] = "start" /\ ControllerLockFree
            \/ cpc'[p] \notin Submitting
<1> USE DEF TypeOK, CGoto, Submitting, Exit1, ControllerEnds, clientVars
<1>1. CASE \/ ControllerLock(p) \/ ControllerInit(p) \/ ControllerPlan(p)
           \/ ControllerRead(p) \/ ControllerSelect(p)
  BY <1>1 DEF ControllerLock, ControllerInit, ControllerPlan, ControllerRead,
              ControllerSelect
<1>2. CASE ControllerNext(p) \/ ControllerCheck(p) \/ ControllerWait(p)
  BY <1>2 DEF ControllerNext, ControllerCheck, ControllerWait
<1>3. CASE \/ ControllerAccept(p) \/ ControllerError(p) \/ ControllerRecord(p)
           \/ ControllerPublish(p)
  BY <1>3 DEF ControllerAccept, ControllerError, ControllerRecord, ControllerPublish
<1>4. CASE ControllerDies(p)
  BY <1>4 DEF ControllerDies, ControllerTerminated, ControllerKilled
<1> QED BY <1>1, <1>2, <1>3, <1>4 DEF ControllerStep

LEMMA OneControllerStep ==
  ASSUME TypeOK, OneController, Next
  PROVE  OneController'
<1> USE DEF TypeOK, OneController
<1>1. CASE QuietStep
  BY <1>1 DEF QuietStep
<1>2. ASSUME NEW p \in Client, FileStep(p)
      PROVE  OneController'
  BY <1>2 DEF FileStep, StopMark, StopWrite, RecoverMark, ResumeClear, CGoto,
              DispatchLaunch, DispatchWait, controllerVars, Submitting
<1>3. ASSUME NEW p \in Client, ControllerStep(p) \/ ControllerDies(p)
      PROVE  OneController'
  BY <1>3, ControllerMoves DEF ControllerLockFree, NoExclusiveHolder
<1>4. ASSUME NEW b \in Batch, AllocationEnds(b)
      PROVE  OneController'
  BY <1>4 DEF AllocationEnds, controllerVars
<1> QED BY <1>1, <1>2, <1>3, <1>4, StepCases

LEMMA NotYetLaunchedStep ==
  ASSUME TypeOK, NotYetLaunched, Next
  PROVE  NotYetLaunched'
<1> USE DEF TypeOK, NotYetLaunched
<1>1. CASE QuietStep
  BY <1>1 DEF QuietStep, Launched
<1>2. ASSUME NEW p \in Client, FileStep(p)
      PROVE  NotYetLaunched'
  BY <1>2 DEF FileStep, StopMark, StopWrite, RecoverMark, ResumeClear,
              DispatchLaunch, DispatchWait, controllerVars, Goto, CGoto
<1>3. ASSUME NEW p \in Client, ControllerStep(p) \/ ControllerDies(p)
      PROVE  NotYetLaunched'
  BY <1>3, ControllerMoves DEF clientVars
<1>4. ASSUME NEW b \in Batch, AllocationEnds(b)
      PROVE  NotYetLaunched'
  BY <1>4 DEF AllocationEnds, clientVars, controllerVars
<1> QED BY <1>1, <1>2, <1>3, <1>4, StepCases

-----------------------------------------------------------------------------
(* submission.csv.                                                           *)

LEMMA IntervalCardinality ==
  ASSUME NEW k \in Nat
  PROVE  Cardinality(0 .. (k - 1)) = k
BY FS_Interval

\* The row a controller appends repeats a recorded batch or is the next one.
LEMMA RecordedStep ==
  ASSUME TypeOK, RecordedInterval, ContiguousPrefix, LoopInSync,
         NEW p \in Client, ControllerRecord(p)
  PROVE  /\ RecordedInterval'
         /\ ContiguousPrefix'
         /\ cur[p] < Accepted => Accepted' = Accepted
         /\ cur[p] >= Accepted => Accepted' = Accepted + 1 /\ cur[p] = Accepted
<1>1. /\ cur[p] \in Nat /\ Accepted \in Nat
      /\ cur[p] <= Accepted /\ cur[p] \in Batch
  BY NAssumption DEF ControllerRecord, LoopInSync, InSync, TypeOK, RecordedInterval, HasRead, Batch
<1>2. /\ rows \in Seq(Batch) /\ rows' = Append(rows, cur[p])
      /\ Len(rows') = Len(rows) + 1 /\ Len(rows) \in Nat
      /\ \A i \in 1 .. Len(rows) : rows'[i] = rows[i]
      /\ rows'[Len(rows) + 1] = cur[p]
  BY <1>1 DEF ControllerRecord, TypeOK
<1>3. Recorded' = Recorded \cup {cur[p]}
  BY <1>2 DEF Recorded
<1>4. \A i \in 1 .. Len(rows) : {rows'[j] : j \in 1 .. (i - 1)} = RecordedBefore(i)
  BY <1>2 DEF RecordedBefore
<1>5. {rows'[j] : j \in 1 .. ((Len(rows) + 1) - 1)} = Recorded
  BY <1>2, (Len(rows) + 1) - 1 = Len(rows) DEF Recorded
<1>6. ContiguousPrefix' <=> cur[p] \in Recorded \/ cur[p] = Accepted
  <2>1. ContiguousPrefix' <=>
          \A i \in 1 .. (Len(rows) + 1) :
            \/ rows'[i] \in {rows'[j] : j \in 1 .. (i - 1)}
            \/ rows'[i] = Cardinality({rows'[j] : j \in 1 .. (i - 1)})
    BY <1>2 DEF ContiguousPrefix, RecordedBefore
  <2>2. \A i \in 1 .. Len(rows) :
            \/ rows'[i] \in {rows'[j] : j \in 1 .. (i - 1)}
            \/ rows'[i] = Cardinality({rows'[j] : j \in 1 .. (i - 1)})
    BY <1>2, <1>4 DEF ContiguousPrefix
  <2>3. \/ rows'[Len(rows) + 1] \in {rows'[j] : j \in 1 .. ((Len(rows) + 1) - 1)}
        \/ rows'[Len(rows) + 1] = Cardinality({rows'[j] : j \in 1 .. ((Len(rows) + 1) - 1)})
        <=> cur[p] \in Recorded \/ cur[p] = Accepted
    BY <1>2, <1>5 DEF Accepted
  <2>4. \A i \in 1 .. (Len(rows) + 1) : i \in 1 .. Len(rows) \/ i = Len(rows) + 1
    BY <1>2
  <2>5. Len(rows) + 1 \in 1 .. (Len(rows) + 1)
    BY <1>2
  <2> QED BY <2>1, <2>2, <2>3, <2>4, <2>5
<1>7. CASE cur[p] < Accepted
  <2>1. cur[p] \in Recorded
    BY <1>1, <1>7 DEF RecordedInterval
  <2>2. Recorded' = Recorded
    BY <1>3, <2>1
  <2>3. Accepted' = Accepted
    BY <2>2 DEF Accepted
  <2> QED BY <1>1, <1>6, <1>7, <2>1, <2>2, <2>3 DEF RecordedInterval
<1>8. CASE cur[p] = Accepted
  <2>1. Recorded' = 0 .. Accepted
    BY <1>1, <1>3, <1>8 DEF RecordedInterval
  <2>2. Cardinality(0 .. Accepted) = Accepted + 1
    BY <1>1, IntervalCardinality, Accepted + 1 \in Nat, (Accepted + 1) - 1 = Accepted
  <2>3. Accepted' = Accepted + 1
    BY <2>1, <2>2 DEF Accepted
  <2> QED BY <1>1, <1>6, <1>8, <2>1, <2>3 DEF RecordedInterval
<1> QED BY <1>1, <1>7, <1>8

\* Only ControllerRecord writes submission.csv.
LEMMA RowsMove ==
  ASSUME NEW p \in Client, ControllerStep(p) \/ ControllerDies(p)
  PROVE  ControllerRecord(p) \/ UNCHANGED rows
BY DEF ControllerStep, ControllerDies, ControllerLock, ControllerInit,
       ControllerPlan, ControllerRead, ControllerSelect, ControllerNext,
       ControllerCheck, ControllerWait, ControllerAccept, ControllerError,
       ControllerPublish, ControllerTerminated, ControllerKilled

LEMMA RowsKept ==
  ASSUME UNCHANGED rows
  PROVE  /\ Recorded' = Recorded
         /\ Accepted' = Accepted
         /\ RecordedInterval => RecordedInterval'
         /\ ContiguousPrefix => ContiguousPrefix'
BY DEF Recorded, Accepted, RecordedInterval, ContiguousPrefix, RecordedBefore

\* What a step does to submission.csv, whoever takes it.
LEMMA RowsStep ==
  ASSUME TypeOK, RecordedInterval, ContiguousPrefix, LoopInSync, Next
  PROVE  /\ RecordedInterval'
         /\ ContiguousPrefix'
         /\ Accepted \in Nat /\ Accepted' \in Nat /\ Accepted <= Accepted'
         /\ Recorded \subseteq Recorded'
<1>1. CASE UNCHANGED rows
  BY <1>1, RowsKept DEF RecordedInterval
<1>2. ASSUME NEW p \in Client, ControllerRecord(p)
      PROVE  /\ RecordedInterval' /\ ContiguousPrefix'
             /\ Accepted <= Accepted'
             /\ Recorded \subseteq Recorded'
  <2>1. Recorded \subseteq Recorded'
    <3>1. /\ Len(rows') = Len(rows) + 1 /\ Len(rows) \in Nat
          /\ \A i \in 1 .. Len(rows) : rows'[i] = rows[i]
      BY <1>2, NAssumption
         DEF ControllerRecord, TypeOK, LoopInSync, InSync, Batch, HasRead
    <3> QED BY <3>1 DEF Recorded
  <2>2. cur[p] \in Nat /\ Accepted \in Nat
    BY NAssumption DEF TypeOK, RecordedInterval
  <2> QED BY <1>2, <2>1, <2>2, RecordedStep
<1>3. \/ UNCHANGED rows
      \/ \E p \in Client : ControllerRecord(p)
  BY StepCases, RowsMove DEF QuietStep, FileStep, StopMark, StopWrite, RecoverMark,
     ResumeClear, DispatchLaunch, DispatchWait, AllocationEnds
<1> QED BY <1>1, <1>2, <1>3 DEF RecordedInterval

-----------------------------------------------------------------------------
(* The submission loop.                                                      *)

LEMMA OthersStay ==
  ASSUME TypeOK, NEW p \in Client, ControllerStep(p) \/ ControllerDies(p)
  PROVE  \A q \in Client \ {p} : /\ cpc'[q] = cpc[q]
                                 /\ cur'[q] = cur[q]
                                 /\ submitted'[q] = submitted[q]
<1> USE DEF TypeOK, CGoto, Exit1, ControllerEnds
<1>1. CASE \/ ControllerLock(p) \/ ControllerInit(p) \/ ControllerPlan(p)
           \/ ControllerRead(p) \/ ControllerSelect(p)
  BY <1>1 DEF ControllerLock, ControllerInit, ControllerPlan, ControllerRead,
              ControllerSelect
<1>2. CASE ControllerNext(p) \/ ControllerCheck(p) \/ ControllerWait(p)
  BY <1>2 DEF ControllerNext, ControllerCheck, ControllerWait
<1>3. CASE \/ ControllerAccept(p) \/ ControllerError(p) \/ ControllerRecord(p)
           \/ ControllerPublish(p)
  BY <1>3 DEF ControllerAccept, ControllerError, ControllerRecord, ControllerPublish
<1>4. CASE ControllerDies(p)
  BY <1>4 DEF ControllerDies, ControllerTerminated, ControllerKilled
<1> QED BY <1>1, <1>2, <1>3, <1>4 DEF ControllerStep

LEMMA EndedInSync ==
  ASSUME TypeOK, NEW p \in Client, NEW how \in {"done", "failed"}, ControllerEnds(p, how)
  PROVE  InSync(p)'
BY DEF ControllerEnds, CGoto, InSync, HasRead, TypeOK

LEMMA OwnLoop ==
  ASSUME TypeOK, RecordedInterval, ContiguousPrefix, LoopInSync,
         NEW p \in Client, ControllerStep(p) \/ ControllerDies(p)
  PROVE  InSync(p)'
<1> USE DEF TypeOK, CGoto, InSync, HasRead, LoopInSync
<1>0. Accepted \in Nat /\ N \in Nat \ {0}
  BY NAssumption DEF RecordedInterval
<1>1. CASE Exit1(p) \/ ControllerEnds(p, "done") \/ ControllerEnds(p, "failed")
  BY <1>1, EndedInSync DEF Exit1
<1>2. CASE ControllerLock(p)
  BY <1>2, RowsKept DEF ControllerLock
<1>3. CASE ControllerInit(p) /\ ~Exit1(p)
  BY <1>3, RowsKept DEF ControllerInit
<1>4. CASE ControllerPlan(p) /\ ~Exit1(p)
  BY <1>4, RowsKept DEF ControllerPlan
<1>5. CASE ControllerRead(p) /\ ~Exit1(p)
  BY <1>0, <1>5, RowsKept DEF ControllerRead
<1>6. CASE ControllerSelect(p)
  BY <1>6, RowsKept DEF ControllerSelect
<1>7. CASE ControllerNext(p) /\ ~Exit1(p) /\ ~ControllerEnds(p, "done")
  <2>1. /\ cpc[p] = "next" /\ submitted[p] = Accepted /\ cur[p] <= Accepted
        /\ cur[p] \in 0 .. N /\ cur[p] < N /\ Accepted' = Accepted
    BY <1>7, RowsKept DEF ControllerNext
  <2>2. CASE cur' = [cur EXCEPT ![p] = @ + 1] /\ Skipped(p) /\ UNCHANGED <<cpc, submitted>>
    BY <1>0, <2>1, <2>2 DEF Skipped
  <2>3. CASE cpc' = [cpc EXCEPT ![p] = "check"] /\ UNCHANGED <<cur, submitted>>
    BY <1>0, <2>1, <2>3
  <2> QED BY <1>7, <2>2, <2>3 DEF ControllerNext
<1>8. CASE ControllerCheck(p) /\ ~Exit1(p)
  BY <1>8, RowsKept DEF ControllerCheck
<1>9. CASE ControllerWait(p)
  BY <1>9, RowsKept DEF ControllerWait
<1>10. CASE ControllerAccept(p)
  BY <1>10, RowsKept DEF ControllerAccept
<1>11. CASE ControllerRecord(p)
  <2>1. /\ cpc[p] = "record" /\ submitted[p] = Accepted /\ cur[p] \in 0 .. N
        /\ cur[p] < N /\ cur[p] <= Accepted
    BY <1>11 DEF ControllerRecord
  <2>2. /\ cpc'[p] = "publish" /\ cur'[p] = cur[p]
        /\ submitted'[p] = IF cur[p] >= submitted[p] THEN submitted[p] + 1 ELSE submitted[p]
    BY <1>11 DEF ControllerRecord
  <2>3. /\ cur[p] < Accepted => Accepted' = Accepted
        /\ cur[p] >= Accepted => Accepted' = Accepted + 1 /\ cur[p] = Accepted
    BY <1>11, RecordedStep
  <2> QED BY <1>0, <2>1, <2>2, <2>3
<1>12. CASE ControllerPublish(p)
  BY <1>0, <1>12, RowsKept DEF ControllerPublish
<1> QED BY <1>1, <1>2, <1>3, <1>4, <1>5, <1>6, <1>7, <1>8, <1>9, <1>10, <1>11,
           <1>12 DEF ControllerStep, ControllerDies, ControllerError,
           ControllerTerminated, ControllerKilled

LEMMA LoopInSyncStep ==
  ASSUME TypeOK, NotYetLaunched, OneController, RecordedInterval, ContiguousPrefix,
         LoopInSync, Next
  PROVE  LoopInSync'
<1>1. CASE QuietStep
  BY <1>1, RowsKept DEF QuietStep, LoopInSync, InSync
<1>2. ASSUME NEW p \in Client, FileStep(p)
      PROVE  LoopInSync'
  <2>1. UNCHANGED rows /\ UNCHANGED <<cur, submitted>>
    BY <1>2 DEF FileStep, StopMark, StopWrite, RecoverMark, ResumeClear,
       DispatchLaunch, DispatchWait, controllerVars
  <2>2. \A q \in Client : \/ cpc'[q] = cpc[q]
                          \/ cpc[q] \notin HasRead /\ cpc'[q] = "start"
    BY <1>2 DEF FileStep, StopMark, StopWrite, RecoverMark, ResumeClear,
       DispatchLaunch, DispatchWait, controllerVars, CGoto, TypeOK, NotYetLaunched,
       HasRead
  <2> QED BY <2>1, <2>2, RowsKept DEF LoopInSync, InSync, HasRead
<1>3. ASSUME NEW p \in Client, ControllerStep(p) \/ ControllerDies(p)
      PROVE  LoopInSync'
  <2>1. InSync(p)'
    BY <1>3, OwnLoop
  <2>2. ASSUME NEW q \in Client \ {p}
        PROVE  InSync(q)'
    <3>1. cpc'[q] = cpc[q] /\ cur'[q] = cur[q] /\ submitted'[q] = submitted[q]
      BY <1>3, OthersStay
    <3>2. CASE UNCHANGED rows
      BY <3>1, <3>2, RowsKept DEF LoopInSync, InSync
    <3>3. CASE ControllerRecord(p)
      <4>1. cpc[q] \notin Submitting
        BY <3>3 DEF ControllerRecord, OneController, Submitting
      <4> QED BY <3>1, <4>1 DEF LoopInSync, InSync, HasRead, Submitting
    <3> QED BY <1>3, <3>2, <3>3, RowsMove
  <2> QED BY <2>1, <2>2 DEF LoopInSync
<1>4. ASSUME NEW b \in Batch, AllocationEnds(b)
      PROVE  LoopInSync'
  BY <1>4, RowsKept DEF AllocationEnds, controllerVars, LoopInSync, InSync
<1> QED BY <1>1, <1>2, <1>3, <1>4, StepCases

-----------------------------------------------------------------------------
(* submission.state.                                                         *)

\* Every value of submission.state a step may leave: the old one, one with a
\* count some script read or counted before, or a complete submission.
LEMMA StateStep ==
  ASSUME TypeOK, RecordedInterval, ContiguousPrefix, LoopInSync, CountsNeverAhead, Next
  PROVE  /\ state'.accepted <= Accepted
         /\ \A p \in Client : saved'[p] <= Accepted
         /\ state'.word = "complete" =>
              \/ state' = state
              \/ \E p \in Client : cpc[p] = "next" /\ cur[p] = N
<1> DEFINE Goal == /\ state'.accepted <= Accepted
                   /\ \A p \in Client : saved'[p] <= Accepted
                   /\ state'.word = "complete" =>
                        \/ state' = state
                        \/ \E p \in Client : cpc[p] = "next" /\ cur[p] = N
<1>0. /\ Accepted \in Nat /\ state.accepted <= Accepted
      /\ \A p \in Client : saved[p] <= Accepted
      /\ \A p \in Client : submitted[p] <= Accepted
  <2>1. Accepted \in Nat
    BY DEF RecordedInterval
  <2> QED BY <2>1 DEF CountsNeverAhead, StateNeverAhead, LoopInSync, InSync
<1>1. CASE QuietStep
  BY <1>0, <1>1 DEF QuietStep
<1>2. ASSUME NEW p \in Client, FileStep(p)
      PROVE  Goal
  <2>1. CASE StopMark(p) \/ RecoverMark(p) \/ ResumeClear(p)
    BY <1>0, <2>1 DEF StopMark, RecoverMark, ResumeClear
  <2>2. CASE StopWrite(p)
    BY <1>0, <2>2 DEF StopWrite
  <2>3. CASE DispatchLaunch(p)
    BY <1>0, <2>3 DEF DispatchLaunch
  <2>4. CASE DispatchWait(p)
    BY <1>0, <2>4 DEF DispatchWait, TypeOK
  <2> QED BY <1>2, <2>1, <2>2, <2>3, <2>4 DEF FileStep
<1>3. ASSUME NEW p \in Client, ControllerStep(p) \/ ControllerDies(p)
      PROVE  Goal
  <2>1. UNCHANGED saved
    BY <1>3, ControllerMoves DEF clientVars
  <2>2. CASE UNCHANGED state
    BY <1>0, <2>1, <2>2
  <2>3. CASE Exit1(p)
    BY <1>0, <2>1, <2>3 DEF Exit1
  <2>4. CASE ControllerRead(p) /\ state' = [word |-> "submitting", accepted |-> Accepted]
    BY <1>0, <2>1, <2>4
  <2>5. CASE /\ ControllerNext(p) /\ cur[p] = N
             /\ state' = [word |-> "complete", accepted |-> submitted[p]]
    BY <1>0, <2>1, <2>5 DEF ControllerNext
  <2>6. CASE ControllerPublish(p)
    BY <1>0, <2>1, <2>6 DEF ControllerPublish
  <2> QED BY <1>3, <2>2, <2>3, <2>4, <2>5, <2>6
          DEF ControllerStep, ControllerDies, ControllerLock, ControllerInit,
              ControllerPlan, ControllerRead, ControllerSelect, ControllerNext,
              ControllerCheck, ControllerWait, ControllerAccept, ControllerError,
              ControllerRecord, ControllerTerminated, ControllerKilled
<1>4. ASSUME NEW b \in Batch, AllocationEnds(b)
      PROVE  Goal
  BY <1>0, <1>4 DEF AllocationEnds, clientVars
<1> QED BY <1>1, <1>2, <1>3, <1>4, StepCases

LEMMA CountsNeverAheadStep ==
  ASSUME TypeOK, TypeOK', RecordedInterval, ContiguousPrefix, LoopInSync,
         CountsNeverAhead, Next
  PROVE  CountsNeverAhead'
<1>1. /\ state'.accepted \in Nat
      /\ \A p \in Client : saved'[p] \in Nat
  BY DEF TypeOK, SubmissionState
<1>2. Accepted \in Nat /\ Accepted' \in Nat /\ Accepted <= Accepted'
  BY RowsStep
<1>3. state'.accepted <= Accepted /\ \A p \in Client : saved'[p] <= Accepted
  BY StateStep
<1> QED BY <1>1, <1>2, <1>3 DEF CountsNeverAhead, StateNeverAhead

\* A loop that reached N has all batches behind it.
LEMMA LoopEndRecorded ==
  ASSUME TypeOK, RecordedInterval, LoopInSync,
         NEW p \in Client, cpc[p] = "next", cur[p] = N
  PROVE  Recorded = Batch
<1>1. N \in Nat \ {0} /\ Accepted \in Nat /\ N <= Accepted
  BY NAssumption DEF LoopInSync, InSync, HasRead, RecordedInterval
<1>2. Recorded \subseteq Batch
  BY DEF TypeOK, Recorded
<1>3. Accepted - 1 \in Batch
  BY <1>1, <1>2 DEF RecordedInterval
<1>4. Accepted = N
  BY <1>1, <1>3 DEF Batch
<1> QED BY <1>4 DEF RecordedInterval, Batch

LEMMA CompleteStep ==
  ASSUME TypeOK, TypeOK', RecordedInterval, ContiguousPrefix, LoopInSync,
         CountsNeverAhead, CompleteMeansRecorded, Next
  PROVE  CompleteMeansRecorded'
<1>1. Recorded' \subseteq Batch
  BY DEF TypeOK, Recorded
<1>2. Recorded \subseteq Recorded'
  BY RowsStep
<1>3. SUFFICES ASSUME state'.word = "complete" PROVE Recorded = Batch
  BY <1>1, <1>2 DEF CompleteMeansRecorded
<1>4. CASE state' = state
  BY <1>3, <1>4 DEF CompleteMeansRecorded
<1>5. CASE \E p \in Client : cpc[p] = "next" /\ cur[p] = N
  BY <1>5, LoopEndRecorded
<1> QED BY <1>3, <1>4, <1>5, StateStep

-----------------------------------------------------------------------------
(* The Stop marker.                                                          *)

\* What a controller's step does to the count of late acceptances.
LEMMA LateMoves ==
  ASSUME TypeOK, NEW p \in Client, ControllerStep(p) \/ ControllerDies(p)
  PROVE  /\ stopped' = stopped
         /\ \/ late' = late /\ cpc'[p] # "sbatch"
            \/ late' = late /\ ~stopped
            \/ cpc[p] = "sbatch" /\ cpc'[p] # "sbatch" /\ late' = IF stopped THEN late + 1 ELSE 0
<1>0. cpc \in [Client -> ControllerAt]
  BY DEF TypeOK
<1> USE DEF CGoto, Exit1, ControllerEnds
<1>1. CASE \/ ControllerLock(p) \/ ControllerInit(p) \/ ControllerPlan(p)
           \/ ControllerRead(p) \/ ControllerSelect(p)
  BY <1>0, <1>1 DEF ControllerLock, ControllerInit, ControllerPlan, ControllerRead,
              ControllerSelect
<1>2. CASE ControllerNext(p)
  BY <1>0, <1>2 DEF ControllerNext
<1>3. CASE ControllerCheck(p)
  BY <1>0, <1>3 DEF ControllerCheck
<1>4. CASE ControllerWait(p)
  BY <1>0, <1>4 DEF ControllerWait
<1>5. CASE ControllerAccept(p) \/ ControllerError(p)
  BY <1>0, <1>5 DEF ControllerAccept, ControllerError, Enqueue
<1>6. CASE ControllerRecord(p) \/ ControllerPublish(p)
  BY <1>0, <1>6 DEF ControllerRecord, ControllerPublish
<1>7. CASE ControllerDies(p)
  BY <1>0, <1>7 DEF ControllerDies, ControllerTerminated, ControllerKilled
<1> QED BY <1>1, <1>2, <1>3, <1>4, <1>5, <1>6, <1>7 DEF ControllerStep

LEMMA LateStep ==
  ASSUME TypeOK, NotYetLaunched, OneController, LateOnlyInFlight, Next
  PROVE  LateOnlyInFlight'
<1> USE DEF LateOnlyInFlight, StopAdmitsAtMostOne, TypeOK
<1>1. CASE QuietStep
  BY <1>1 DEF QuietStep
<1>2. ASSUME NEW p \in Client, FileStep(p)
      PROVE  LateOnlyInFlight'
  <2>1. CASE StopMark(p)
    BY <2>1 DEF StopMark, controllerVars
  <2>2. CASE RecoverMark(p)
    BY <2>2 DEF RecoverMark, controllerVars
  <2>3. CASE ResumeClear(p)
    BY <2>3 DEF ResumeClear, controllerVars
  <2>4. CASE StopWrite(p) \/ DispatchWait(p)
    BY <2>4 DEF StopWrite, DispatchWait, controllerVars
  <2>5. CASE DispatchLaunch(p)
    BY <2>5 DEF DispatchLaunch, CGoto
  <2> QED BY <1>2, <2>1, <2>2, <2>3, <2>4, <2>5 DEF FileStep
<1>3. ASSUME NEW p \in Client, ControllerStep(p) \/ ControllerDies(p)
      PROVE  LateOnlyInFlight'
  <2>1. \A q \in Client \ {p} : cpc'[q] = cpc[q]
    BY <1>3, OthersStay
  <2>2. /\ stopped' = stopped
        /\ \/ late' = late /\ cpc'[p] # "sbatch"
           \/ late' = late /\ ~stopped
           \/ cpc[p] = "sbatch" /\ cpc'[p] # "sbatch" /\ late' = IF stopped THEN late + 1 ELSE 0
    BY <1>3, LateMoves
  <2>3. CASE late' = late /\ (cpc'[p] # "sbatch" \/ ~stopped)
    BY <2>1, <2>2, <2>3
  <2>4. CASE cpc[p] = "sbatch" /\ cpc'[p] # "sbatch" /\ late' = IF stopped THEN late + 1 ELSE 0
    <3>1. \A q \in Client : cpc'[q] # "sbatch"
      BY <2>1, <2>4 DEF OneController, Submitting
    <3> QED BY <2>2, <2>4, <3>1
  <2> QED BY <2>2, <2>3, <2>4
<1>4. ASSUME NEW b \in Batch, AllocationEnds(b)
      PROVE  LateOnlyInFlight'
  BY <1>4 DEF AllocationEnds, controllerVars
<1> QED BY <1>1, <1>2, <1>3, <1>4, StepCases

-----------------------------------------------------------------------------
(* The theorems.                                                             *)

LEMMA InitIInv ==
  ASSUME Init
  PROVE  IInv
<1>1. TypeOK
  <2>1. /\ kind \in [Client -> {"none"} \cup Kinds]
        /\ pc \in [Client -> ClientAt]
        /\ saved \in [Client -> Nat]
        /\ cpc \in [Client -> ControllerAt]
    BY DEF Init, ClientAt, ControllerAt, ControllerEnd
  <2>2. /\ cur \in [Client -> 0 .. N]
        /\ submitted \in [Client -> Nat]
        /\ late \in Nat
    BY NAssumption DEF Init
  <2>3. wanted \in [Client -> SUBSET Batch] /\ done \in SUBSET Batch
    BY DEF Init
  <2>4. live \in [Batch -> Nat] /\ state \in SubmissionState
    BY DEF Init, SubmissionState, StateWord
  <2>5. rows \in Seq(Batch)
    BY DEF Init
  <2> QED BY <2>1, <2>2, <2>3, <2>4, <2>5 DEF Init, TypeOK
<1>2. Recorded = {} /\ Accepted = 0
  <2>1. Recorded = {}
    BY DEF Init, Recorded
  <2> QED BY <2>1, FS_EmptySet DEF Accepted
<1>3. RecordedInterval /\ ContiguousPrefix
  BY <1>2 DEF RecordedInterval, ContiguousPrefix, Init
<1>4. NotYetLaunched /\ OneController /\ LateOnlyInFlight /\ CompleteMeansRecorded
  BY NAssumption DEF Init, NotYetLaunched, OneController, LateOnlyInFlight,
     StopAdmitsAtMostOne, CompleteMeansRecorded, Submitting
<1>5. LoopInSync /\ CountsNeverAhead
  BY <1>2 DEF Init, LoopInSync, InSync, HasRead, CountsNeverAhead, StateNeverAhead
<1> QED BY <1>1, <1>3, <1>4, <1>5 DEF IInv

LEMMA StepIInv ==
  ASSUME IInv, [Next]_vars
  PROVE  IInv'
<1>1. CASE Next
  <2>1. TypeOK'
    BY <1>1, TypeOKStep DEF IInv
  <2>2. NotYetLaunched' /\ OneController'
    BY <1>1, NotYetLaunchedStep, OneControllerStep DEF IInv
  <2>3. RecordedInterval' /\ ContiguousPrefix' /\ LoopInSync'
    BY <1>1, RowsStep, LoopInSyncStep DEF IInv
  <2>4. CountsNeverAhead' /\ CompleteMeansRecorded'
    BY <1>1, <2>1, CountsNeverAheadStep, CompleteStep DEF IInv
  <2>5. LateOnlyInFlight'
    BY <1>1, LateStep DEF IInv
  <2> QED BY <2>1, <2>2, <2>3, <2>4, <2>5 DEF IInv
<1>2. CASE UNCHANGED vars
  <2>1. TypeOK' /\ NotYetLaunched' /\ OneController'
    BY <1>2 DEF vars, IInv, TypeOK, NotYetLaunched, OneController
  <2>2. RecordedInterval' /\ ContiguousPrefix' /\ Recorded' = Recorded /\ Accepted' = Accepted
    BY <1>2, RowsKept DEF vars, IInv
  <2>3. LoopInSync' /\ CountsNeverAhead' /\ CompleteMeansRecorded' /\ LateOnlyInFlight'
    BY <1>2, <2>2 DEF vars, IInv, LoopInSync, InSync, CountsNeverAhead, StateNeverAhead,
       CompleteMeansRecorded, LateOnlyInFlight, StopAdmitsAtMostOne
  <2> QED BY <2>1, <2>2, <2>3 DEF IInv
<1> QED BY <1>1, <1>2

\* The invariant every theorem below is read off.
THEOREM Invariance == Spec => []IInv
<1>1. Init => IInv
  BY InitIInv
<1>2. IInv /\ [Next]_vars => IInv'
  BY StepIInv
<1> QED BY <1>1, <1>2, PTL DEF Spec

\* For any number of clients and batches, every variable stays in its type:
\* submission.csv names planned batches only, and no script leaves its points.
THEOREM TypeCorrect == Spec => []TypeOK
<1>1. IInv => TypeOK
  BY DEF IInv
<1> QED BY <1>1, Invariance, PTL

\* The lock of remote_submit.sh admits one controller at a time.
THEOREM ControllerExclusion == Spec => []OneController
<1>1. IInv => OneController
  BY DEF IInv
<1> QED BY <1>1, Invariance, PTL

\* However often controllers crash and jobs are stopped, resumed and recovered,
\* submission.csv is a contiguous batch prefix (remote_submit.sh's own test).
THEOREM PrefixAlways == Spec => []AcceptedPrefix
<1>1. IInv => AcceptedPrefix
  BY DEF IInv, AcceptedPrefix
<1> QED BY <1>1, Invariance, PTL

\* remote_submit.sh writes `complete` only when every batch is on record, and
\* nothing that is written later takes a record away.
THEOREM CompleteAlways == Spec => []CompleteMeansRecorded
<1>1. IInv => CompleteMeansRecorded
  BY DEF IInv
<1> QED BY <1>1, Invariance, PTL

\* No script publishes an accepted count that submission.csv does not cover.
THEOREM StateAlways == Spec => []StateNeverAhead
<1>1. IInv => StateNeverAhead
  BY DEF IInv, CountsNeverAhead
<1> QED BY <1>1, Invariance, PTL

\* Behind a Stop marker at most the one sbatch already under way is accepted.
THEOREM StopAdmits == Spec => []StopAdmitsAtMostOne
<1>1. IInv => StopAdmitsAtMostOne
  BY DEF IInv, LateOnlyInFlight
<1> QED BY <1>1, Invariance, PTL

-----------------------------------------------------------------------------
(* One allocation per batch.  Without faults and without Resume or automatic *)
(* recovery the lock and the loop index alone prevent a second allocation.   *)

Undisturbed == ~Faults /\ "resume" \notin Kinds /\ "recover" \notin Kinds

\* A controller that submits is at the first batch not yet on record.
AtNextBatch ==
    \A p \in Client : /\ wanted[p] = {}
                      /\ cpc[p] \in {"check", "sbatch", "record"} => cur[p] >= submitted[p]

\* An allocation is on record, or its controller is about to record it.
Accounted(b) == \/ b \in Recorded
                \/ \E p \in Client : cpc[p] = "record" /\ cur[p] = b
EachAccounted ==
    \A b \in Batch : live[b] <= 1 /\ (live[b] > 0 => Accounted(b))

LEMMA AtNextBatchStep ==
  ASSUME Undisturbed, TypeOK, NotYetLaunched, AtNextBatch, Next
  PROVE  AtNextBatch'
<1> USE DEF AtNextBatch, TypeOK
<1>1. CASE QuietStep
  BY <1>1 DEF QuietStep
<1>2. ASSUME NEW p \in Client, FileStep(p)
      PROVE  AtNextBatch'
  BY <1>2 DEF FileStep, StopMark, StopWrite, RecoverMark, ResumeClear,
              DispatchLaunch, DispatchWait, controllerVars, CGoto
<1>3. ASSUME NEW p \in Client, ControllerStep(p)
      PROVE  AtNextBatch'
  <2>1. \A q \in Client \ {p} : /\ cpc'[q] = cpc[q]
                                /\ cur'[q] = cur[q]
                                /\ submitted'[q] = submitted[q]
    BY <1>3, OthersStay
  <2>2. CASE Exit1(p) \/ ControllerEnds(p, "done")
    BY <2>1, <2>2 DEF Exit1, ControllerEnds, CGoto
  <2>3. CASE ControllerSelect(p)
    BY <2>3 DEF ControllerSelect, CGoto, Undisturbed
  <2>4. CASE ControllerNext(p) /\ ~Exit1(p) /\ ~ControllerEnds(p, "done")
    <3>1. /\ submitted' = submitted /\ wanted' = wanted
          /\ wanted[p] = {} /\ cur[p] \in Nat /\ submitted[p] \in Nat
      BY <2>4, NAssumption DEF ControllerNext
    <3>2. CASE cur' = [cur EXCEPT ![p] = @ + 1] /\ UNCHANGED cpc /\ cpc[p] = "next"
      BY <2>1, <3>1, <3>2
    <3>3. CASE UNCHANGED cur /\ cpc' = [cpc EXCEPT ![p] = "check"] /\ ~Skipped(p)
      <4>1. cur[p] >= submitted[p]
        BY <3>1, <3>3 DEF Skipped
      <4> QED BY <3>1, <3>3, <4>1
    <3> QED BY <2>4, <3>2, <3>3 DEF ControllerNext, CGoto
  <2>5. CASE ControllerRecord(p) \/ ControllerPublish(p)
    BY <2>5 DEF ControllerRecord, ControllerPublish, CGoto
  <2>6. CASE /\ ~Exit1(p)
             /\ \/ ControllerLock(p) \/ ControllerInit(p) \/ ControllerPlan(p)
                \/ ControllerRead(p)
    BY <2>6 DEF ControllerLock, ControllerInit, ControllerPlan, ControllerRead, CGoto
  <2>7. CASE ~Exit1(p) /\ (ControllerCheck(p) \/ ControllerWait(p) \/ ControllerAccept(p))
    BY <2>7 DEF ControllerCheck, ControllerWait, ControllerAccept, CGoto
  <2> QED BY <1>3, <2>2, <2>3, <2>4, <2>5, <2>6, <2>7
          DEF ControllerStep, ControllerError, Undisturbed
<1>4. ASSUME NEW b \in Batch, AllocationEnds(b)
      PROVE  AtNextBatch'
  BY <1>4 DEF AllocationEnds, controllerVars
<1>5. \A p \in Client : ~ControllerDies(p)
  BY DEF ControllerDies, ControllerTerminated, ControllerKilled, Undisturbed
<1> QED BY <1>1, <1>2, <1>3, <1>4, <1>5, StepCases

\* The queue grows only by the batch of the controller that holds the lock.
LEMMA LiveMoves ==
  ASSUME Undisturbed, TypeOK, NEW p \in Client, ControllerStep(p)
  PROVE  \/ ControllerAccept(p)
         \/ ControllerRecord(p)
         \/ UNCHANGED <<rows, live>> /\ cpc[p] # "record"
BY DEF Undisturbed, ControllerStep, ControllerLock, ControllerInit, ControllerPlan,
       ControllerRead, ControllerSelect, ControllerNext, ControllerCheck,
       ControllerWait, ControllerError, ControllerPublish

LEMMA EachAccountedStep ==
  ASSUME Undisturbed, IInv, AtNextBatch, EachAccounted, Next
  PROVE  EachAccounted'
<1>0. /\ TypeOK /\ OneController /\ LoopInSync /\ NotYetLaunched
      /\ RecordedInterval /\ ContiguousPrefix
      /\ \A b \in Batch : live[b] \in Nat
  BY DEF IInv, TypeOK
<1>1. Recorded \subseteq Recorded'
  BY <1>0, RowsStep
<1>2. ASSUME UNCHANGED <<rows, live>>,
             \A q \in Client : cpc[q] = "record" => cpc'[q] = "record" /\ cur'[q] = cur[q]
      PROVE  EachAccounted'
  BY <1>1, <1>2 DEF EachAccounted, Accounted
<1>3. CASE QuietStep
  BY <1>2, <1>3 DEF QuietStep
<1>4. ASSUME NEW p \in Client, FileStep(p)
      PROVE  EachAccounted'
  BY <1>0, <1>2, <1>4 DEF FileStep, StopMark, StopWrite, RecoverMark, ResumeClear,
     DispatchLaunch, DispatchWait, controllerVars, CGoto, NotYetLaunched, TypeOK
<1>5. ASSUME NEW b \in Batch, AllocationEnds(b)
      PROVE  EachAccounted'
  <2>1. /\ UNCHANGED <<rows, cpc, cur>>
        /\ \A c \in Batch : live'[c] \in Nat /\ live'[c] <= live[c]
    BY <1>0, <1>5 DEF AllocationEnds, controllerVars, TypeOK
  <2> QED BY <1>0, <1>1, <2>1 DEF EachAccounted, Accounted
<1>6. ASSUME NEW p \in Client, ControllerStep(p)
      PROVE  EachAccounted'
  <2>1. \A q \in Client \ {p} : cpc'[q] = cpc[q] /\ cur'[q] = cur[q]
    BY <1>0, <1>6, OthersStay
  <2>2. CASE UNCHANGED <<rows, live>> /\ cpc[p] # "record"
    BY <1>2, <2>1, <2>2
  <2>3. CASE ControllerAccept(p)
    <3>1. /\ cpc[p] = "sbatch" /\ cur[p] \in Batch /\ cur[p] = Accepted
      BY <1>0, <2>3, NAssumption DEF ControllerAccept, LoopInSync, InSync, HasRead,
         AtNextBatch, RecordedInterval, Batch, TypeOK
    <3>2. cur[p] \notin Recorded
      BY <1>0, <3>1 DEF RecordedInterval
    <3>3. \A q \in Client : cpc[q] # "record"
      BY <1>0, <3>1 DEF OneController, Submitting
    <3>4. ~ Accounted(cur[p])
      BY <3>2, <3>3 DEF Accounted
    <3>5. live[cur[p]] = 0
      BY <1>0, <3>1, <3>4 DEF EachAccounted
    <3>6. /\ cpc'[p] = "record" /\ cur' = cur
          /\ live'[cur[p]] = 1
          /\ \A c \in Batch \ {cur[p]} : live'[c] = live[c]
      BY <1>0, <2>3, <3>1, <3>5 DEF ControllerAccept, Enqueue, CGoto, TypeOK
    <3>7. \A c \in Batch \ {cur[p]} : live[c] > 0 => c \in Recorded
      BY <3>3 DEF EachAccounted, Accounted
    <3> QED BY <1>1, <3>1, <3>6, <3>7 DEF EachAccounted, Accounted
  <2>4. CASE ControllerRecord(p)
    <3>1. /\ cpc[p] = "record" /\ live' = live /\ cur[p] \in Batch
          /\ rows' = Append(rows, cur[p])
      BY <1>0, <2>4, NAssumption DEF ControllerRecord, LoopInSync, InSync, Batch, TypeOK
    <3>2. cur[p] \in Recorded'
      <4>1. Len(rows') \in 1 .. Len(rows') /\ rows'[Len(rows')] = cur[p]
        BY <1>0, <3>1 DEF TypeOK
      <4> QED BY <4>1 DEF Recorded
    <3>3. \A q \in Client : cpc[q] = "record" => q = p
      BY <1>0, <3>1 DEF OneController, Submitting
    <3> QED BY <1>1, <3>1, <3>2, <3>3 DEF EachAccounted, Accounted
  <2> QED BY <1>0, <1>6, <2>2, <2>3, <2>4, LiveMoves
<1>7. \A p \in Client : ~ControllerDies(p)
  BY DEF ControllerDies, ControllerTerminated, ControllerKilled, Undisturbed
<1> QED BY <1>0, <1>3, <1>4, <1>5, <1>6, <1>7, StepCases

\* When nothing dies, SLURM's answers arrive and nobody resumes the job, no
\* number of competing dispatchers, Stops and monitor polls gets a batch two
\* allocations (remote_submit.sh's flock and its test of BATCH_ID).
THEOREM NoSecond ==
  ASSUME Undisturbed
  PROVE  Spec => []NoSecondAllocation
<1> DEFINE Inv == IInv /\ AtNextBatch /\ EachAccounted
<1>1. Init => Inv
  <2>1. Init => AtNextBatch
    BY DEF Init, AtNextBatch
  <2>2. Init => EachAccounted
    BY DEF Init, EachAccounted
  <2> QED BY <2>1, <2>2, InitIInv
<1>2. Inv /\ [Next]_vars => Inv'
  <2> SUFFICES ASSUME Inv, [Next]_vars
               PROVE  Inv'
    OBVIOUS
  <2>1. IInv'
    BY StepIInv
  <2>2. CASE Next
    BY <2>1, <2>2, AtNextBatchStep, EachAccountedStep DEF IInv
  <2>3. CASE UNCHANGED vars
    BY <2>1, <2>3, RowsKept DEF vars, AtNextBatch, EachAccounted, Accounted
  <2> QED BY <2>2, <2>3
<1>3. Inv => NoSecondAllocation
  BY DEF EachAccounted, NoSecondAllocation
<1> QED BY <1>1, <1>2, <1>3, PTL DEF Spec
=============================================================================
