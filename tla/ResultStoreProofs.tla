-------------------------- MODULE ResultStoreProofs --------------------------
(***************************************************************************)
(* What ResultStore promises for every number of pairs, allocations and    *)
(* requeues, and every fault.                                              *)
(*                                                                         *)
(* The argument: one allocation at a time runs the batch (OneLive), so the *)
(* pair it works at stays without a complete result from batch.sh's test   *)
(* until call.sh renames the result file (AtWork, a stable property of the *)
(* files while the call runs).  Hence a completed result is never replaced *)
(* (DoneKept), which carries every statement of the form `... is complete' *)
(* over each step, and a batch without a failed call has left only         *)
(* completed pairs behind (Behind).  Between the rename of the result and  *)
(* that of the index the two differ by the row under way (IndexMatches).   *)
(***************************************************************************)
EXTENDS ResultStore, TLAPS

-----------------------------------------------------------------------------
(* The inductive invariant.                                                  *)

\* Resume submits the batch only when nothing runs it.
OneLive == \A a, b \in Alloc : pc[a] \in Live /\ pc[b] \in Live => a = b

\* An allocation starts at the first pair.
Fresh == \A a \in Alloc : pc[a] \in {"idle", "setup"} => task[a] = 1

\* A call works at a pair without a complete result, until it saves its own.
AtWork ==
    \A a \in Alloc :
        /\ pc[a] \in Calling => task[a] \in Pair
        /\ pc[a] \in {"call", "run", "archive", "result"} => ~Done(task[a])
        /\ pc[a] = "result" => <<a, task[a]>> \in archived
        /\ pc[a] \in {"index", "finish"} =>
               task[a] \in DOMAIN result /\ result[task[a]] = ThisRow(a)

\* While no call has failed, every pair that batch.sh has passed is complete.
Behind ==
    \A a \in Alloc : pc[a] \in Live /\ ~failed[a] =>
        \A t \in Pair : t < task[a] => Done(t)

\* The index lacks at most the row whose call is about to list it.
IndexMatches ==
    ~lost /\ ready =>
        /\ (\A a \in Alloc : pc[a] # "index") => index = result
        /\ \A a \in Alloc : pc[a] = "index" => Put(index, task[a], ThisRow(a)) = result

IInv == /\ TypeOK
        /\ OneLive
        /\ Fresh
        /\ AtWork
        /\ Behind
        /\ ResultHasArchive
        /\ IndexNeverAhead
        /\ ProgressNeverAhead
        /\ SuccessMeansComplete
        /\ IndexMatches

-----------------------------------------------------------------------------
(* Rows.                                                                     *)

\* Putting a row replaces that of its pair and keeps the others.
LEMMA PutFacts ==
    ASSUME NEW rows, NEW t, NEW row
    PROVE  /\ DOMAIN Put(rows, t, row) = DOMAIN rows \cup {t}
           /\ Put(rows, t, row)[t] = row
           /\ \A u \in DOMAIN rows : u # t => Put(rows, t, row)[u] = rows[u]
BY DEF Put

LEMMA RowType ==
    ASSUME TypeOK, NEW a \in Alloc
    PROVE  /\ ThisRow(a) \in Row
           /\ ThisRow(a).run = a
           /\ ThisRow(a).complete = outcome[a]
BY DEF TypeOK, ThisRow, Row

\* The initial state is right.
LEMMA InitRight == Init => IInv
<1> SUFFICES ASSUME Init PROVE IInv
  OBVIOUS
<1> USE DEF Init
<1>1. TypeOK
  <2>1. 1 \in 1 .. T + 1 /\ 0 \in 0 .. RestartBound
    BY TAssumption, RestartAssumption
  <2>2. /\ DOMAIN result \subseteq Pair /\ \A t \in DOMAIN result : result[t] \in Row
        /\ DOMAIN index \subseteq Pair /\ \A t \in DOMAIN index : index[t] \in Row
        /\ DOMAIN progress \subseteq Pair
        /\ \A t \in DOMAIN progress : progress[t] \in {"running", "complete", "incomplete"}
    OBVIOUS
  <2>3. archived \subseteq Alloc \X Pair
    OBVIOUS
  <2> QED BY <2>1, <2>2, <2>3 DEF TypeOK
<1>2. OneLive /\ Fresh /\ AtWork /\ Behind
  BY DEF OneLive, Fresh, AtWork, Behind, Live, Calling
<1>3. ResultHasArchive /\ IndexNeverAhead /\ ProgressNeverAhead /\ SuccessMeansComplete
  BY DEF ResultHasArchive, IndexNeverAhead, ProgressNeverAhead, SuccessMeansComplete
<1>4. IndexMatches
  BY DEF IndexMatches
<1> QED BY <1>1, <1>2, <1>3, <1>4 DEF IInv

-----------------------------------------------------------------------------
(* The files: only these steps of call.sh touch them.                        *)

Files == <<result, archived, index, progress>>

\* What each of these steps does to the files and to its own allocation.
LEMMA FilesStep ==
    ASSUME IInv, [Next]_vars
    PROVE  \/ UNCHANGED Files
           \/ \E a \in Alloc : CallStart(a) \/ CallArchive(a) \/ CallResult(a)
                               \/ CallIndex(a) \/ CallIndexUnread(a) \/ CallFinish(a)
<1>1. CASE UNCHANGED vars
  BY <1>1 DEF vars, fileVars, Files
<1>2. CASE \E a \in Alloc : BatchStep(a)
  BY <1>2 DEF BatchStep, BatchSetup, BatchSkips, BatchPlaces, BatchMisplaced, BatchEnds, BatchStops,
              fileVars, Files
<1>3. CASE \E a \in Alloc : SlurmStep(a)
  BY <1>3 DEF SlurmStep, Submit, Terminate, Kill, fileVars, Files
<1>4. CASE \E a \in Alloc : CallStep(a)
  BY <1>4 DEF CallStep, CallReturns, CallIndexFails, CallIndexUnread, CallAborts, fileVars, Files
<1> QED BY <1>1, <1>2, <1>3, <1>4 DEF Next

\* A step that changes the result files saves the row of a pair without a
\* complete result.
LEMMA ResultStep ==
    ASSUME IInv, [Next]_vars
    PROVE  \/ result' = result
           \/ \E a \in Alloc : /\ CallResult(a)
                               /\ task[a] \in Pair
                               /\ ~Done(task[a])
                               /\ result' = Put(result, task[a], ThisRow(a))
<1>1. CASE UNCHANGED Files
  BY <1>1 DEF Files
<1>2. ASSUME NEW a \in Alloc, \/ CallStart(a) \/ CallArchive(a) \/ CallIndex(a)
                               \/ CallIndexUnread(a) \/ CallFinish(a)
      PROVE  result' = result
  BY <1>2 DEF CallStart, CallArchive, CallIndex, CallIndexUnread, CallFinish
<1>3. ASSUME NEW a \in Alloc, CallResult(a)
      PROVE  task[a] \in Pair /\ ~Done(task[a]) /\ result' = Put(result, task[a], ThisRow(a))
  BY <1>3 DEF CallResult, IInv, AtWork, Calling
<1> QED BY <1>1, <1>2, <1>3, FilesStep

\* Hence a completed result stays.
LEMMA DoneKept ==
    ASSUME IInv, [Next]_vars, NEW t, Done(t)
    PROVE  /\ Done(t)'
           /\ result'[t] = result[t]
           /\ t \in DOMAIN result'
<1>1. CASE result' = result
  BY <1>1 DEF Done
<1>2. ASSUME NEW a \in Alloc, ~Done(task[a]), result' = Put(result, task[a], ThisRow(a))
      PROVE  Done(t)' /\ result'[t] = result[t] /\ t \in DOMAIN result'
  <2>1. t # task[a]
    BY <1>2
  <2>2. t \in DOMAIN result
    BY DEF Done
  <2>3. LET rows == Put(result, task[a], ThisRow(a))
        IN  t \in DOMAIN rows /\ rows[t] = result[t]
    BY <2>1, <2>2 DEF Put
  <2>4. t \in DOMAIN result' /\ result'[t] = result[t]
    BY <1>2, <2>3
  <2> QED BY <2>4 DEF Done
<1> QED BY <1>1, <1>2, ResultStep DEF Done

-----------------------------------------------------------------------------
(* Types.                                                                    *)

ControlOK ==
    /\ pc \in [Alloc -> {"idle", "ended"} \cup Live]
    /\ task \in [Alloc -> 1 .. T + 1]
    /\ failed \in [Alloc -> BOOLEAN]
    /\ restarts \in [Alloc -> 0 .. RestartBound]
    /\ term \in [Alloc -> BOOLEAN]
    /\ outcome \in [Alloc -> BOOLEAN]
    /\ exit \in [Alloc -> {"none", "success", "failure"}]

RowsOK(rows) == DOMAIN rows \subseteq Pair /\ \A t \in DOMAIN rows : rows[t] \in Row

LEMMA EndsTyped ==
    ASSUME TypeOK, NEW a \in Alloc
    PROVE  /\ \A how \in {"success", "failure"} : Ends(a, how) => ControlOK'
           /\ restarts[a] < RestartBound /\ Requeued(a) => ControlOK'
<1>1. 1 \in 1 .. T + 1
  BY TAssumption
<1>2. ASSUME restarts[a] < RestartBound PROVE restarts[a] + 1 \in 0 .. RestartBound
  BY <1>2, RestartAssumption DEF TypeOK
<1>3. ASSUME NEW how \in {"success", "failure"}, Ends(a, how) PROVE ControlOK'
  <2>1. pc' = [pc EXCEPT ![a] = "ended"] /\ exit' = [exit EXCEPT ![a] = how] /\ restarts' = restarts
    BY <1>3 DEF Ends, Goto
  <2>2. Forgets(a)
    BY <1>3 DEF Ends
  <2> QED BY <1>1, <2>1, <2>2 DEF TypeOK, ControlOK, Forgets
<1>4. ASSUME restarts[a] < RestartBound, Requeued(a) PROVE ControlOK'
  <2>1. pc' = [pc EXCEPT ![a] = "setup"] /\ exit' = exit
        /\ restarts' = [restarts EXCEPT ![a] = @ + 1]
    BY <1>4 DEF Requeued, Goto
  <2>2. Forgets(a)
    BY <1>4 DEF Requeued
  <2> QED BY <1>1, <1>2, <1>4, <2>1, <2>2 DEF TypeOK, ControlOK, Live, Forgets
<1> QED BY <1>3, <1>4

\* A step of the batch moves its position only over a pair of the batch.
LEMMA BatchTyped ==
    ASSUME TypeOK, NEW a \in Alloc, BatchStep(a)
    PROVE  ControlOK'
<1>1. CASE BatchSetup(a)
  BY <1>1, EndsTyped DEF BatchSetup, Goto, TypeOK, ControlOK, Live
<1>2. CASE BatchSkips(a)
  <2>1. task[a] + 1 \in 1 .. T + 1
    BY <1>2, TAssumption DEF BatchSkips, TypeOK
  <2> QED BY <1>2, <2>1 DEF BatchSkips, TypeOK, ControlOK
<1>3. CASE BatchPlaces(a)
  BY <1>3 DEF BatchPlaces, Goto, TypeOK, ControlOK, Live, Calling
<1>4. CASE BatchMisplaced(a)
  <2>1. restarts[a] < PlacementRetries => restarts[a] < RestartBound
    BY RestartAssumption DEF TypeOK
  <2> QED BY <1>4, <2>1, EndsTyped DEF BatchMisplaced
<1>5. CASE BatchEnds(a)
  BY <1>5, EndsTyped DEF BatchEnds
<1>6. CASE BatchStops(a)
  BY <1>6, EndsTyped DEF BatchStops
<1> QED BY <1>1, <1>2, <1>3, <1>4, <1>5, <1>6 DEF BatchStep

LEMMA ExitsTyped ==
    ASSUME IInv, NEW a \in Alloc, pc[a] \in Calling, NEW ok \in BOOLEAN, CallExits(a, ok)
    PROVE  ControlOK'
<1> USE DEF IInv
<1>1. CASE Ends(a, "failure")
  BY <1>1, EndsTyped
<1>2. CASE ~Ends(a, "failure")
  <2>1. task[a] \in 1 .. T
    BY DEF AtWork, Pair
  <2>2. task[a] + 1 \in 1 .. T + 1
    BY <2>1, TAssumption
  <2>3. /\ pc' = [pc EXCEPT ![a] = "batch"] /\ task' = [task EXCEPT ![a] = @ + 1]
        /\ failed' = [failed EXCEPT ![a] = @ \/ ~ok] /\ outcome' = [outcome EXCEPT ![a] = FALSE]
        /\ UNCHANGED <<exit, restarts, term>>
    BY <1>2 DEF CallExits, Goto
  <2> QED BY <2>2, <2>3 DEF TypeOK, ControlOK, Live
<1> QED BY <1>1, <1>2

LEMMA CallTyped ==
    ASSUME IInv, NEW a \in Alloc, CallStep(a)
    PROVE  ControlOK'
<1> USE DEF IInv
<1>1. CASE CallStart(a)
  BY <1>1 DEF CallStart, Goto, TypeOK, ControlOK, Live, Calling
<1>2. CASE CallReturns(a)
  BY <1>2 DEF CallReturns, Goto, TypeOK, ControlOK, Live, Calling
<1>3. CASE CallArchive(a) \/ CallResult(a)
  BY <1>3 DEF CallArchive, CallResult, Goto, TypeOK, ControlOK, Live, Calling
<1>4. CASE CallIndex(a) \/ CallIndexFails(a) \/ CallIndexUnread(a)
  BY <1>4 DEF CallIndex, CallIndexFails, CallIndexUnread, Goto, TypeOK, ControlOK, Live, Calling
<1>5. CASE CallFinish(a)
  <2>1. outcome[a] \in BOOLEAN
    BY DEF TypeOK
  <2> QED BY <1>5, <2>1, ExitsTyped DEF CallFinish, Calling
<1>6. CASE CallAborts(a)
  BY <1>6, ExitsTyped DEF CallAborts, Calling
<1> QED BY <1>1, <1>2, <1>3, <1>4, <1>5, <1>6 DEF CallStep

LEMMA SlurmTyped ==
    ASSUME TypeOK, NEW a \in Alloc, SlurmStep(a)
    PROVE  ControlOK'
<1>1. CASE Submit(a)
  BY <1>1 DEF Submit, Goto, TypeOK, ControlOK, Live
<1>2. CASE Terminate(a)
  BY <1>2 DEF Terminate, TypeOK, ControlOK
<1>3. CASE Kill(a)
  BY <1>3, EndsTyped DEF Kill
<1> QED BY <1>1, <1>2, <1>3 DEF SlurmStep

LEMMA PutTyped ==
    ASSUME NEW rows, RowsOK(rows), NEW t \in Pair, NEW row \in Row
    PROVE  RowsOK(Put(rows, t, row))
BY DEF Put, RowsOK

ProgressOK == /\ DOMAIN progress \subseteq Pair
              /\ \A t \in DOMAIN progress : progress[t] \in {"running", "complete", "incomplete"}

LEMMA TypeStep == ASSUME IInv, [Next]_vars PROVE TypeOK'
<1> USE DEF IInv
<1>1. ControlOK'
  <2>1. CASE UNCHANGED vars
    BY <2>1 DEF vars, allocVars, TypeOK, ControlOK
  <2> QED BY <2>1, BatchTyped, CallTyped, SlurmTyped DEF Next
<1>2. RowsOK(result)'
  <2>1. RowsOK(result)
    BY DEF TypeOK, RowsOK
  <2>2. ASSUME NEW a \in Alloc, task[a] \in Pair PROVE RowsOK(Put(result, task[a], ThisRow(a)))
    BY <2>1, <2>2, PutTyped, RowType
  <2> QED BY <2>1, <2>2, ResultStep DEF RowsOK
<1>3. RowsOK(index)'
  <2>1. RowsOK(index)
    BY DEF TypeOK, RowsOK
  <2>2. ASSUME NEW a \in Alloc, CallIndex(a)
        PROVE  index' = Put(index, task[a], ThisRow(a)) /\ RowsOK(Put(index, task[a], ThisRow(a)))
    BY <2>1, <2>2, PutTyped, RowType DEF CallIndex, AtWork, Calling
  <2>3. ASSUME NEW a \in Alloc, CallIndexUnread(a) PROVE RowsOK(index')
    <3>1. PICK kept \in SUBSET DOMAIN index :
               index' = Put([t \in kept |-> index[t]], task[a], ThisRow(a))
      BY <2>3 DEF CallIndexUnread
    <3>2. RowsOK([t \in kept |-> index[t]])
      BY <2>1 DEF RowsOK
    <3> QED BY <2>3, <3>1, <3>2, PutTyped, RowType DEF CallIndexUnread, AtWork, Calling
  <2>4. index' = index \/ \E a \in Alloc : CallIndex(a) \/ CallIndexUnread(a)
    BY FilesStep DEF Files, CallStart, CallArchive, CallResult, CallFinish
  <2> QED BY <2>1, <2>2, <2>3, <2>4 DEF RowsOK
<1>4. ProgressOK'
  <2>1. ProgressOK
    BY DEF TypeOK, ProgressOK
  <2>2. ASSUME NEW a \in Alloc, CallStart(a) \/ CallFinish(a) PROVE ProgressOK'
    <3>1. task[a] \in Pair
      BY <2>2 DEF CallStart, CallFinish, AtWork, Calling
    <3>2. PICK state \in {"running", "complete", "incomplete"} : progress' = Put(progress, task[a], state)
      BY <2>2 DEF CallStart, CallFinish
    <3>3. LET files == Put(progress, task[a], state)
          IN  /\ DOMAIN files \subseteq Pair
              /\ \A t \in DOMAIN files : files[t] \in {"running", "complete", "incomplete"}
      BY <2>1, <3>1 DEF Put, ProgressOK
    <3> QED BY <3>2, <3>3 DEF ProgressOK
  <2>3. progress' = progress \/ \E a \in Alloc : CallStart(a) \/ CallFinish(a)
    BY FilesStep DEF Files, CallArchive, CallResult, CallIndex, CallIndexUnread
  <2> QED BY <2>1, <2>2, <2>3 DEF ProgressOK
<1>5. archived' \subseteq Alloc \X Pair
  <2>1. ASSUME NEW a \in Alloc, CallArchive(a) PROVE archived' \subseteq Alloc \X Pair
    BY <2>1 DEF CallArchive, AtWork, Calling, TypeOK
  <2>2. archived' = archived \/ \E a \in Alloc : CallArchive(a)
    BY FilesStep DEF Files, CallStart, CallResult, CallIndex, CallIndexUnread, CallFinish
  <2> QED BY <2>1, <2>2 DEF TypeOK
<1>6. ready' \in BOOLEAN /\ lost' \in BOOLEAN
  <2>1. CASE UNCHANGED vars
    BY <2>1 DEF vars, fileVars, TypeOK
  <2>2. ASSUME NEW a \in Alloc, BatchStep(a) PROVE UNCHANGED <<ready, lost>>
    BY <2>2 DEF BatchStep, BatchSetup, BatchSkips, BatchPlaces, BatchMisplaced, BatchEnds, BatchStops, fileVars
  <2>3. ASSUME NEW a \in Alloc, CallStep(a) PROVE ready' \in {ready, FALSE} /\ lost' \in {lost, TRUE}
    BY <2>3 DEF CallStep, CallStart, CallReturns, CallArchive, CallResult, CallIndex, CallIndexFails, CallIndexUnread,
                CallFinish, CallAborts, fileVars
  <2>4. ASSUME NEW a \in Alloc, SlurmStep(a) PROVE ready' = ready /\ lost' \in {lost, TRUE}
    BY <2>4 DEF SlurmStep, Submit, Terminate, Kill, fileVars
  <2> QED BY <2>1, <2>2, <2>3, <2>4 DEF Next, TypeOK
<1> QED BY <1>1, <1>2, <1>3, <1>4, <1>5, <1>6 DEF TypeOK, ControlOK, RowsOK, ProgressOK

-----------------------------------------------------------------------------
(* One allocation moves at a time, and the others do not run.                *)

Step(a) == BatchStep(a) \/ CallStep(a) \/ SlurmStep(a)

\* The steps of an allocation leave the variables of the others alone.
LEMMA OthersKeep ==
    ASSUME TypeOK, NEW a \in Alloc, Step(a), NEW b \in Alloc, b # a
    PROVE  pc'[b] = pc[b] /\ task'[b] = task[b] /\ exit'[b] = exit[b]
<1>1. ASSUME NEW how, Ends(a, how)
      PROVE  pc'[b] = pc[b] /\ task'[b] = task[b] /\ exit'[b] = exit[b]
  BY <1>1 DEF Ends, Forgets, Goto, TypeOK
<1>2. ASSUME Requeued(a)
      PROVE  pc'[b] = pc[b] /\ task'[b] = task[b] /\ exit'[b] = exit[b]
  BY <1>2 DEF Requeued, Forgets, Goto, TypeOK
<1>3. ASSUME NEW ok, CallExits(a, ok)
      PROVE  pc'[b] = pc[b] /\ task'[b] = task[b] /\ exit'[b] = exit[b]
  BY <1>1, <1>3 DEF CallExits, Goto, TypeOK
<1>4. CASE BatchStep(a)
  BY <1>1, <1>2, <1>4 DEF BatchStep, BatchSetup, BatchSkips, BatchPlaces, BatchMisplaced, BatchEnds,
                          BatchStops, Goto, TypeOK
<1>5. CASE CallStep(a)
  BY <1>3, <1>5 DEF CallStep, CallStart, CallReturns, CallArchive, CallResult, CallIndex, CallIndexFails, CallIndexUnread,
                    CallFinish, CallAborts, Goto, TypeOK
<1>6. CASE SlurmStep(a)
  BY <1>1, <1>2, <1>6 DEF SlurmStep, Submit, Terminate, Kill, Goto, TypeOK
<1> QED BY <1>4, <1>5, <1>6 DEF Step

\* An allocation moves when it runs, or is submitted when none does.
LEMMA Moves ==
    ASSUME NEW a \in Alloc, Step(a)
    PROVE  pc[a] \in Live \/ Submit(a)
BY DEF Step, BatchStep, BatchSetup, BatchSkips, BatchPlaces, BatchMisplaced, BatchEnds, BatchStops,
       CallStep, CallStart, CallReturns, CallArchive, CallResult, CallIndex, CallIndexFails, CallIndexUnread, CallFinish,
       CallAborts, SlurmStep, Terminate, Kill, Live, Calling

LEMMA Alone ==
    ASSUME IInv, NEW a \in Alloc, Step(a), NEW b \in Alloc, b # a
    PROVE  pc'[b] = pc[b] /\ pc'[b] \notin Live /\ task'[b] = task[b] /\ exit'[b] = exit[b]
<1>1. pc[b] \notin Live
  BY Moves DEF IInv, OneLive, Submit
<1> QED BY <1>1, OthersKeep DEF IInv

LEMMA OneLiveStep == ASSUME IInv, [Next]_vars PROVE OneLive'
<1>1. CASE UNCHANGED vars
  BY <1>1 DEF IInv, OneLive, vars, allocVars
<1>2. ASSUME NEW a \in Alloc, Step(a) PROVE OneLive'
  BY <1>2, Alone DEF OneLive
<1> QED BY <1>1, <1>2 DEF Next, Step

-----------------------------------------------------------------------------
(* What an allocation's own step leaves of it.                               *)

\* Its place, position and failure bit are kept or start again, or a call
\* comes to its next step.
LEMMA Ending ==
    ASSUME TypeOK, NEW a \in Alloc
    PROVE  /\ \A how : Ends(a, how) => pc'[a] = "ended" /\ exit'[a] = how
           /\ Requeued(a) => pc'[a] = "setup" /\ task'[a] = 1 /\ exit'[a] = exit[a]
BY DEF Ends, Requeued, Forgets, Goto, TypeOK

LEMMA Leaving ==
    ASSUME TypeOK, NEW a \in Alloc, NEW ok \in BOOLEAN, CallExits(a, ok)
    PROVE  \/ pc'[a] = "ended" /\ exit'[a] = "failure"
           \/ /\ pc'[a] = "batch" /\ exit'[a] = exit[a]
              /\ task'[a] = task[a] + 1
              /\ failed'[a] = (failed[a] \/ ~ok)
<1>1. CASE Ends(a, "failure")
  BY <1>1, Ending
<1>2. CASE ~Ends(a, "failure")
  BY <1>2 DEF CallExits, Goto, TypeOK
<1> QED BY <1>1, <1>2

\* The steps of batch.sh and of SLURM that lead into the batch.
LEMMA BatchMoves ==
    ASSUME TypeOK, NEW a \in Alloc, BatchStep(a)
    PROVE  /\ result' = result /\ archived' = archived
           /\ \/ pc'[a] = "ended"
              \/ pc'[a] = "setup" /\ task'[a] = 1
              \/ pc[a] = "setup" /\ pc'[a] = "batch" /\ task'[a] = task[a] /\ failed'[a] = failed[a]
              \/ /\ pc[a] = "batch" /\ pc'[a] = "batch" /\ failed'[a] = failed[a]
                 /\ Done(task[a]) /\ task'[a] = task[a] + 1
              \/ /\ pc[a] = "batch" /\ pc'[a] = "call" /\ failed'[a] = failed[a]
                 /\ task[a] <= T /\ ~Done(task[a]) /\ task'[a] = task[a]
<1>1. CASE BatchSetup(a)
  BY <1>1, Ending DEF BatchSetup, Goto, TypeOK, fileVars
<1>2. CASE BatchSkips(a)
  BY <1>2 DEF BatchSkips, TypeOK, fileVars
<1>3. CASE BatchPlaces(a)
  BY <1>3 DEF BatchPlaces, Goto, TypeOK, fileVars
<1>4. CASE BatchMisplaced(a) \/ BatchEnds(a) \/ BatchStops(a)
  BY <1>4, Ending DEF BatchMisplaced, BatchEnds, BatchStops, fileVars
<1> QED BY <1>1, <1>2, <1>3, <1>4 DEF BatchStep

LEMMA SlurmMoves ==
    ASSUME TypeOK, NEW a \in Alloc, SlurmStep(a)
    PROVE  /\ result' = result /\ archived' = archived
           /\ \/ pc'[a] = "ended"
              \/ pc'[a] = "setup" /\ task'[a] = 1
              \/ pc[a] = "idle" /\ pc'[a] = "setup" /\ task'[a] = task[a]
              \/ pc' = pc /\ task' = task /\ failed' = failed /\ outcome' = outcome
<1>1. CASE Submit(a)
  BY <1>1 DEF Submit, Goto, TypeOK, fileVars
<1>2. CASE Terminate(a)
  BY <1>2 DEF Terminate, fileVars
<1>3. CASE Kill(a)
  BY <1>3, Ending DEF Kill, fileVars
<1> QED BY <1>1, <1>2, <1>3 DEF SlurmStep

LEMMA FreshStep == ASSUME IInv, [Next]_vars PROVE Fresh'
<1> USE DEF IInv
<1>1. CASE UNCHANGED vars
  BY <1>1 DEF Fresh, vars, allocVars
<1>2. ASSUME NEW a \in Alloc, Step(a) PROVE Fresh'
  <2>1. ASSUME NEW b \in Alloc, b # a, pc'[b] \in {"idle", "setup"} PROVE task'[b] = 1
    BY <1>2, <2>1, Alone DEF Fresh
  <2>2. ASSUME pc'[a] \in {"idle", "setup"} PROVE task'[a] = 1
    <3>1. CASE BatchStep(a)
      BY <2>2, <3>1, BatchMoves
    <3>2. CASE SlurmStep(a)
      BY <2>2, <3>2, SlurmMoves DEF Fresh
    <3>3. CASE CallStep(a)
      <4>1. ASSUME NEW ok \in BOOLEAN, CallExits(a, ok) PROVE FALSE
        BY <2>2, <4>1, Leaving
      <4>2. outcome[a] \in BOOLEAN
        BY DEF TypeOK
      <4> QED BY <2>2, <3>3, <4>1, <4>2
              DEF CallStep, CallStart, CallReturns, CallArchive, CallResult, CallIndex, CallIndexFails, CallIndexUnread,
                  CallFinish, CallAborts, Goto, TypeOK
    <3> QED BY <1>2, <3>1, <3>2, <3>3 DEF Step
  <2> QED BY <2>1, <2>2 DEF Fresh
<1> QED BY <1>1, <1>2 DEF Next, Step

-----------------------------------------------------------------------------
(* The pair under way.                                                       *)

\* AtWork of one allocation.
Working(a) ==
    /\ pc[a] \in Calling => task[a] \in Pair
    /\ pc[a] \in {"call", "run", "archive", "result"} => ~Done(task[a])
    /\ pc[a] = "result" => <<a, task[a]>> \in archived
    /\ pc[a] \in {"index", "finish"} =>
           task[a] \in DOMAIN result /\ result[task[a]] = ThisRow(a)

LEMMA CallWorks == ASSUME IInv, NEW a \in Alloc, CallStep(a) PROVE Working(a)'
<1> USE DEF IInv
<1>0. Working(a)
  BY DEF AtWork, Working
<1>1. CASE CallStart(a) \/ CallReturns(a)
  <2>1. /\ pc'[a] \in {"run", "archive"} /\ task'[a] = task[a] /\ result' = result
        /\ pc[a] \in {"call", "run"}
    BY <1>1 DEF CallStart, CallReturns, Goto, TypeOK, fileVars
  <2> QED BY <1>0, <2>1 DEF Working, Calling, Done
<1>2. CASE CallArchive(a)
  <2>1. /\ pc'[a] = "result" /\ task'[a] = task[a] /\ result' = result
        /\ pc[a] = "archive" /\ <<a, task[a]>> \in archived'
    BY <1>2 DEF CallArchive, Goto, TypeOK
  <2> QED BY <1>0, <2>1 DEF Working, Calling, Done
<1>3. CASE CallResult(a)
  <2>1. /\ pc'[a] = "index" /\ task' = task /\ outcome' = outcome /\ pc[a] = "result"
        /\ result' = Put(result, task[a], ThisRow(a))
    BY <1>3 DEF CallResult, Goto, TypeOK
  <2>2. LET rows == Put(result, task[a], ThisRow(a))
        IN  task[a] \in DOMAIN rows /\ rows[task[a]] = ThisRow(a)
    BY DEF Put
  <2>3. task[a] \in Pair
    BY <1>0, <2>1 DEF Working, Calling
  <2>4. ThisRow(a)' = ThisRow(a)
    BY <2>1 DEF ThisRow
  <2> QED BY <2>1, <2>2, <2>3, <2>4 DEF Working
<1>4. CASE CallIndex(a) \/ CallIndexFails(a) \/ CallIndexUnread(a)
  <2>1. /\ pc'[a] = "finish" /\ task' = task /\ outcome' = outcome /\ result' = result
        /\ pc[a] = "index"
    BY <1>4 DEF CallIndex, CallIndexFails, CallIndexUnread, Goto, TypeOK
  <2>2. ThisRow(a)' = ThisRow(a)
    BY <2>1 DEF ThisRow
  <2> QED BY <1>0, <2>1, <2>2 DEF Working, Calling
<1>5. CASE CallFinish(a) \/ CallAborts(a)
  <2>1. outcome[a] \in BOOLEAN
    BY DEF TypeOK
  <2>2. PICK ok \in BOOLEAN : CallExits(a, ok)
    BY <1>5, <2>1 DEF CallFinish, CallAborts
  <2>3. pc'[a] \in {"ended", "batch"}
    BY <2>2, Leaving
  <2> QED BY <2>3 DEF Working, Calling
<1> QED BY <1>1, <1>2, <1>3, <1>4, <1>5 DEF CallStep

LEMMA AtWorkStep == ASSUME IInv, [Next]_vars PROVE AtWork'
<1> USE DEF IInv
<1>1. CASE UNCHANGED vars
  BY <1>1 DEF AtWork, vars, allocVars, fileVars, Done, ThisRow
<1>2. ASSUME NEW a \in Alloc, Step(a) PROVE AtWork'
  <2>1. ASSUME NEW b \in Alloc, b # a PROVE Working(b)'
    BY <1>2, <2>1, Alone DEF Working, Live, Calling
  <2>2. Working(a)'
    <3>1. Working(a)
      BY DEF AtWork, Working
    <3>2. CASE BatchStep(a)
      <4>1. ASSUME pc[a] = "batch", pc'[a] = "call", task[a] <= T, ~Done(task[a]), task'[a] = task[a]
            PROVE  Working(a)'
        <5>1. task[a] \in Pair
          BY <4>1, TAssumption DEF TypeOK, Pair
        <5>2. result' = result
          BY <3>2, BatchMoves
        <5> QED BY <4>1, <5>1, <5>2 DEF Working, Done
      <4>2. ASSUME pc'[a] \in {"ended", "setup", "batch"} PROVE Working(a)'
        BY <4>2 DEF Working, Calling
      <4> QED BY <3>2, <4>1, <4>2, BatchMoves
    <3>3. CASE SlurmStep(a)
      <4>1. ASSUME pc' = pc, task' = task, outcome' = outcome PROVE Working(a)'
        BY <3>1, <3>3, <4>1, SlurmMoves DEF Working, Done, ThisRow
      <4>2. ASSUME pc'[a] \in {"ended", "setup"} PROVE Working(a)'
        BY <4>2 DEF Working, Calling
      <4> QED BY <3>3, <4>1, <4>2, SlurmMoves
    <3> QED BY <1>2, <3>2, <3>3, CallWorks DEF Step
  <2> QED BY <2>1, <2>2 DEF AtWork, Working
<1> QED BY <1>1, <1>2 DEF Next, Step

-----------------------------------------------------------------------------
(* The pairs behind.                                                         *)

Passed(a) == pc[a] \in Live /\ ~failed[a] => \A t \in Pair : t < task[a] => Done(t)

\* Position and failure bit as they were; or one pair further, which is
\* complete unless the failure bit says otherwise.
LEMMA BehindMoves ==
    ASSUME IInv, NEW a \in Alloc, Step(a), pc'[a] \in Live, ~failed'[a]
    PROVE  \/ task'[a] = 1
           \/ pc[a] \in Live /\ ~failed[a] /\ task'[a] = task[a]
           \/ pc[a] \in Live /\ ~failed[a] /\ task'[a] = task[a] + 1 /\ Done(task[a])
<1> USE DEF IInv
<1>1. CASE BatchStep(a)
  BY <1>1, BatchMoves DEF Live, Calling
<1>2. CASE SlurmStep(a)
  BY <1>2, SlurmMoves DEF Live, Calling, Fresh
<1>3. CASE CallFinish(a)
  <2>1. outcome[a] \in BOOLEAN /\ CallExits(a, outcome[a]) /\ pc[a] = "finish"
    BY <1>3 DEF CallFinish, TypeOK
  <2>2. task'[a] = task[a] + 1 /\ ~failed[a] /\ outcome[a]
    BY <2>1, Leaving DEF Live, Calling
  <2>3. Done(task[a])
    BY <2>1, <2>2, RowType DEF AtWork, Done
  <2> QED BY <2>1, <2>2, <2>3 DEF Live, Calling
<1>4. CASE CallAborts(a)
  BY <1>4, Leaving DEF CallAborts, Live, Calling
<1>5. CASE CallStep(a) /\ ~CallFinish(a) /\ ~CallAborts(a)
  BY <1>5 DEF CallStep, CallStart, CallReturns, CallArchive, CallResult, CallIndex, CallIndexFails, CallIndexUnread, Live,
              Calling
<1> QED BY <1>1, <1>2, <1>3, <1>4, <1>5 DEF Step, CallStep

LEMMA BehindStep == ASSUME IInv, [Next]_vars PROVE Behind'
<1> USE DEF IInv
<1>1. CASE UNCHANGED vars
  BY <1>1 DEF Behind, vars, allocVars, fileVars, Done
<1>2. ASSUME NEW a \in Alloc, Step(a) PROVE Behind'
  <2>1. ASSUME NEW b \in Alloc, b # a PROVE Passed(b)'
    BY <1>2, <2>1, Alone DEF Passed
  <2>2. ASSUME pc'[a] \in Live, ~failed'[a], NEW t \in Pair, t < task'[a] PROVE Done(t)'
    <3>1. t \in Nat \ {0} /\ task[a] \in Nat
      BY TAssumption DEF Pair, TypeOK
    <3>2. Done(t)
      <4>1. ASSUME pc[a] \in Live, ~failed[a], t < task[a] PROVE Done(t)
        BY <4>1 DEF Behind
      <4>2. task'[a] # 1
        BY <2>2, <3>1
      <4>3. ASSUME task'[a] = task[a] + 1, Done(task[a]), ~(t < task[a]) PROVE Done(t)
        <5>1. t = task[a]
          BY <2>2, <3>1, <4>3
        <5> QED BY <4>3, <5>1
      <4> QED BY <1>2, <2>2, <4>1, <4>2, <4>3, BehindMoves
    <3> QED BY <1>2, <3>2, DoneKept DEF Next, Step
  <2>3. Passed(a)'
    BY <2>2 DEF Passed
  <2> QED BY <2>1, <2>3 DEF Behind, Passed
<1> QED BY <1>1, <1>2 DEF Next, Step

-----------------------------------------------------------------------------
(* What the files say.                                                       *)

LEMMA ArchiveStep == ASSUME IInv, [Next]_vars PROVE ResultHasArchive'
<1> USE DEF IInv
<1>1. archived \subseteq archived'
  <2>1. ASSUME NEW a \in Alloc, CallArchive(a) PROVE archived \subseteq archived'
    BY <2>1 DEF CallArchive
  <2> QED BY <2>1, FilesStep DEF Files, CallStart, CallResult, CallIndex, CallIndexUnread, CallFinish
<1>2. CASE result' = result
  BY <1>1, <1>2 DEF ResultHasArchive
<1>3. ASSUME NEW a \in Alloc, CallResult(a), result' = Put(result, task[a], ThisRow(a))
      PROVE  ResultHasArchive'
  <2> DEFINE rows == Put(result, task[a], ThisRow(a))
  <2>1. <<a, task[a]>> \in archived
    BY <1>3 DEF CallResult, AtWork
  <2>2. ASSUME NEW t \in DOMAIN rows PROVE <<rows[t].run, t>> \in archived
    <3>1. CASE t = task[a]
      BY <2>1, <3>1, RowType DEF Put
    <3>2. CASE t # task[a]
      BY <2>2, <3>2 DEF Put, ResultHasArchive
    <3> QED BY <3>1, <3>2
  <2>3. \A t \in DOMAIN rows : <<rows[t].run, t>> \in archived
    BY <2>2
  <2> HIDE DEF rows
  <2>4. result' = rows
    BY <1>3 DEF rows
  <2> QED BY <1>1, <2>3, <2>4 DEF ResultHasArchive
<1> QED BY <1>2, <1>3, ResultStep

LEMMA IndexStep == ASSUME IInv, [Next]_vars PROVE IndexNeverAhead'
<1> USE DEF IInv
<1>1. CASE index' = index
  BY <1>1, DoneKept DEF IndexNeverAhead
<1>2. ASSUME NEW a \in Alloc, NEW kept \in SUBSET DOMAIN index, pc[a] = "index",
             index' = Put([t \in kept |-> index[t]], task[a], ThisRow(a))
      PROVE  IndexNeverAhead'
  <2> DEFINE rows == Put([t \in kept |-> index[t]], task[a], ThisRow(a))
  <2>1. ASSUME NEW t \in DOMAIN rows, rows[t].complete PROVE Done(t)
    <3>1. CASE t = task[a]
      <4>1. t \in DOMAIN result /\ result[t] = ThisRow(a)
        BY <1>2, <3>1 DEF AtWork
      <4>2. rows[t] = ThisRow(a)
        BY <3>1 DEF Put
      <4> QED BY <2>1, <4>1, <4>2 DEF Done
    <3>2. CASE t # task[a]
      BY <2>1, <3>2 DEF Put, IndexNeverAhead
    <3> QED BY <3>1, <3>2
  <2>2. \A t \in DOMAIN rows : rows[t].complete => Done(t)
    BY <2>1
  <2> HIDE DEF rows
  <2>3. index' = rows
    BY <1>2 DEF rows
  <2> QED BY <2>2, <2>3, DoneKept DEF IndexNeverAhead
<1>3. ASSUME NEW a \in Alloc, CallIndex(a) PROVE IndexNeverAhead'
  <2>1. Put(index, task[a], ThisRow(a))
            = Put([t \in DOMAIN index |-> index[t]], task[a], ThisRow(a))
    BY DEF Put
  <2> QED BY <1>2, <1>3, <2>1 DEF CallIndex
<1>4. ASSUME NEW a \in Alloc, CallIndexUnread(a) PROVE IndexNeverAhead'
  BY <1>2, <1>4 DEF CallIndexUnread
<1> QED BY <1>1, <1>3, <1>4, FilesStep DEF Files, CallStart, CallArchive, CallResult, CallFinish

LEMMA ProgressStep == ASSUME IInv, [Next]_vars PROVE ProgressNeverAhead'
<1> USE DEF IInv
<1>1. CASE progress' = progress
  BY <1>1, DoneKept DEF ProgressNeverAhead
<1>2. ASSUME NEW a \in Alloc, CallStart(a) \/ CallFinish(a) PROVE ProgressNeverAhead'
  <2>1. PICK state : /\ progress' = Put(progress, task[a], state)
                     /\ state = "complete" => CallFinish(a) /\ outcome[a]
    BY <1>2 DEF CallStart, CallFinish
  <2> DEFINE files == Put(progress, task[a], state)
  <2>2. ASSUME NEW t \in DOMAIN files, files[t] = "complete" PROVE Done(t)
    <3>1. CASE t = task[a]
      <4>1. state = "complete"
        BY <2>2, <3>1 DEF Put
      <4>2. t \in DOMAIN result /\ result[t] = ThisRow(a) /\ outcome[a]
        BY <2>1, <3>1, <4>1 DEF CallFinish, AtWork
      <4> QED BY <4>2, RowType DEF Done
    <3>2. CASE t # task[a]
      BY <2>2, <3>2 DEF Put, ProgressNeverAhead
    <3> QED BY <3>1, <3>2
  <2>3. \A t \in DOMAIN files : files[t] = "complete" => Done(t)
    BY <2>2
  <2> HIDE DEF files
  <2>4. progress' = files
    BY <2>1 DEF files
  <2> QED BY <2>3, <2>4, DoneKept DEF ProgressNeverAhead
<1> QED BY <1>1, <1>2, FilesStep DEF Files, CallArchive, CallResult, CallIndex, CallIndexUnread

\* An allocation succeeds only by coming to the end of the batch.
LEMMA SuccessStep == ASSUME IInv, [Next]_vars PROVE SuccessMeansComplete'
<1> USE DEF IInv
<1>1. ASSUME NEW a \in Alloc, Step(a), exit'[a] = "success", exit[a] # "success", NEW t \in Pair
      PROVE  Done(t)
  <2>1. BatchEnds(a) /\ ~failed[a]
    <3>1. CASE BatchStep(a)
      BY <1>1, <3>1, Ending DEF BatchStep, BatchSetup, BatchSkips, BatchPlaces, BatchMisplaced, BatchEnds,
                                BatchStops
    <3>2. CASE SlurmStep(a)
      BY <1>1, <3>2, Ending DEF SlurmStep, Submit, Terminate, Kill
    <3>3. CASE CallStep(a)
      <4>1. outcome[a] \in BOOLEAN
        BY DEF TypeOK
      <4>2. ASSUME NEW ok \in BOOLEAN, CallExits(a, ok) PROVE FALSE
        BY <1>1, <4>2, Leaving
      <4> QED BY <1>1, <3>3, <4>1, <4>2
              DEF CallStep, CallStart, CallReturns, CallArchive, CallResult, CallIndex, CallIndexFails, CallIndexUnread,
                  CallFinish, CallAborts
    <3> QED BY <1>1, <3>1, <3>2, <3>3 DEF Step
  <2>2. t < task[a] /\ pc[a] \in Live
    BY <2>1, TAssumption DEF BatchEnds, Live, TypeOK, Pair
  <2> QED BY <2>1, <2>2 DEF Behind
<1>2. ASSUME NEW a \in Alloc, exit'[a] = "success", NEW t \in Pair PROVE Done(t)
  <2>1. CASE exit[a] = "success"
    BY <2>1 DEF SuccessMeansComplete
  <2>2. CASE exit[a] # "success"
    <3>1. CASE UNCHANGED vars
      BY <1>2, <2>2, <3>1 DEF vars, allocVars
    <3>2. ASSUME NEW b \in Alloc, Step(b) PROVE Done(t)
      BY <1>1, <1>2, <2>2, <3>2, Alone
    <3> QED BY <3>1, <3>2 DEF Next, Step
  <2> QED BY <2>1, <2>2
<1> QED BY <1>2, DoneKept DEF SuccessMeansComplete

-----------------------------------------------------------------------------
(* The index and the result files.                                           *)

\* A lost row and a withdrawn marker stay so.
LEMMA FlagsStep == ASSUME IInv, [Next]_vars PROVE (ready' => ready) /\ (lost => lost')
<1>1. CASE UNCHANGED vars
  BY <1>1 DEF vars, fileVars
<1>2. ASSUME NEW a \in Alloc, BatchStep(a) PROVE UNCHANGED <<ready, lost>>
  BY <1>2 DEF BatchStep, BatchSetup, BatchSkips, BatchPlaces, BatchMisplaced, BatchEnds, BatchStops, fileVars
<1>3. ASSUME NEW a \in Alloc, CallStep(a) PROVE ready' \in {ready, FALSE} /\ lost' \in {lost, TRUE}
  BY <1>3 DEF CallStep, CallStart, CallReturns, CallArchive, CallResult, CallIndex, CallIndexFails, CallIndexUnread,
              CallFinish, CallAborts, fileVars
<1>4. ASSUME NEW a \in Alloc, SlurmStep(a) PROVE ready' = ready /\ lost' \in {lost, TRUE}
  BY <1>4 DEF SlurmStep, Submit, Terminate, Kill, fileVars
<1> QED BY <1>1, <1>2, <1>3, <1>4 DEF Next, IInv, TypeOK

\* A step that leaves both alone enters or leaves the gap between them only
\* by a kill or a failed write.
LEMMA IndexMoves ==
    ASSUME IInv, NEW a \in Alloc, Step(a), ~CallResult(a), ~CallIndex(a), ~CallIndexUnread(a)
    PROVE  /\ index' = index /\ result' = result
           /\ \/ pc[a] # "index" /\ pc'[a] # "index"
              \/ pc' = pc /\ task' = task /\ outcome' = outcome
              \/ lost'
              \/ ~ready'
<1> USE DEF IInv
<1>1. CASE BatchStep(a)
  <2>1. pc[a] # "index" /\ index' = index
    BY <1>1 DEF BatchStep, BatchSetup, BatchSkips, BatchPlaces, BatchMisplaced, BatchEnds, BatchStops, fileVars
  <2> QED BY <1>1, <2>1, BatchMoves
<1>2. CASE CallStart(a) \/ CallReturns(a) \/ CallArchive(a)
  BY <1>2 DEF CallStart, CallReturns, CallArchive, Goto, TypeOK, fileVars
<1>3. CASE CallIndexFails(a)
  BY <1>3 DEF CallIndexFails
<1>4. CASE CallFinish(a) \/ CallAborts(a)
  <2>1. outcome[a] \in BOOLEAN
    BY DEF TypeOK
  <2>2. PICK ok \in BOOLEAN : CallExits(a, ok)
    BY <1>4, <2>1 DEF CallFinish, CallAborts
  <2>3. pc'[a] \in {"ended", "batch"}
    BY <2>2, Leaving
  <2> QED BY <1>4, <2>3 DEF CallFinish, CallAborts, fileVars
<1>5. CASE Submit(a) \/ Terminate(a)
  BY <1>5 DEF Submit, Terminate, Goto, TypeOK, fileVars
<1>6. CASE Kill(a)
  BY <1>6 DEF Kill, fileVars
<1> QED BY <1>1, <1>2, <1>3, <1>4, <1>5, <1>6 DEF Step, CallStep, SlurmStep

LEMMA MatchesStep == ASSUME IInv, [Next]_vars PROVE IndexMatches'
<1> USE DEF IInv
<1>1. CASE UNCHANGED vars
  BY <1>1 DEF IndexMatches, vars, allocVars, fileVars, ThisRow
<1>2. ASSUME NEW a \in Alloc, Step(a), ~lost', ready'
      PROVE  /\ (\A b \in Alloc : pc'[b] # "index") => index' = result'
             /\ \A b \in Alloc : pc'[b] = "index" => Put(index, task[b], ThisRow(b))' = result'
  <2>1. ~lost /\ ready
    BY <1>2, FlagsStep DEF Next, Step
  <2>2. \A b \in Alloc : b # a => pc[b] # "index" /\ pc'[b] # "index"
    BY <1>2, Alone DEF Live, Calling
  <2>3. CASE CallResult(a)
    <3>1. /\ pc[a] = "result" /\ pc'[a] = "index" /\ task' = task /\ outcome' = outcome
          /\ index' = index /\ result' = Put(result, task[a], ThisRow(a))
      BY <2>3 DEF CallResult, Goto, TypeOK
    <3>2. index = result
      BY <2>1, <2>2, <3>1 DEF IndexMatches
    <3>3. ThisRow(a)' = ThisRow(a)
      BY <3>1 DEF ThisRow
    <3> QED BY <2>2, <3>1, <3>2, <3>3
  <2>4. CASE CallIndex(a)
    <3>1. /\ pc[a] = "index" /\ pc'[a] = "finish"
          /\ index' = Put(index, task[a], ThisRow(a)) /\ result' = result
      BY <2>4 DEF CallIndex, Goto, TypeOK
    <3>2. Put(index, task[a], ThisRow(a)) = result
      BY <2>1, <3>1 DEF IndexMatches
    <3> QED BY <2>2, <3>1, <3>2
  <2>5. CASE ~CallResult(a) /\ ~CallIndex(a) /\ ~CallIndexUnread(a)
    <3>1. index' = index /\ result' = result
      BY <1>2, <2>5, IndexMoves
    <3>2. CASE pc[a] # "index" /\ pc'[a] # "index"
      BY <2>1, <2>2, <3>1, <3>2 DEF IndexMatches
    <3>3. CASE pc' = pc /\ task' = task /\ outcome' = outcome
      BY <2>1, <3>1, <3>3 DEF IndexMatches, ThisRow
    <3> QED BY <1>2, <2>5, <3>2, <3>3, IndexMoves
  <2>6. ~CallIndexUnread(a)
    BY <1>2 DEF CallIndexUnread
  <2> QED BY <2>3, <2>4, <2>5, <2>6
<1> QED BY <1>1, <1>2 DEF Next, Step, IndexMatches

-----------------------------------------------------------------------------
(* The theorems.                                                             *)

\* Every reachable state is right.
THEOREM Invariance == Spec => []IInv
<1>1. Init => IInv
  BY InitRight
<1>2. IInv /\ [Next]_vars => IInv'
  BY TypeStep, OneLiveStep, FreshStep, AtWorkStep, BehindStep, ArchiveStep, IndexStep, ProgressStep,
     SuccessStep, MatchesStep DEF IInv
<1> QED BY <1>1, <1>2, PTL DEF Spec

\* Every variable stays in its type, for any number of pairs and allocations.
THEOREM TypeCorrect == Spec => []TypeOK
<1>1. IInv => TypeOK
  BY DEF IInv
<1> QED BY <1>1, Invariance, PTL

\* The archive that a result row names is in results/: call.sh renames it
\* before it saves the row, and nothing removes it.
THEOREM ArchiveAlways == Spec => []ResultHasArchive
<1>1. IInv => ResultHasArchive
  BY DEF IInv
<1> QED BY <1>1, Invariance, PTL

\* Neither the index nor a progress file calls a pair complete before its
\* result is saved.
THEOREM NeverAhead == Spec => []NothingAhead
<1>1. IInv => NothingAhead
  BY DEF IInv, NothingAhead
<1> QED BY <1>1, Invariance, PTL

\* batch.sh exits with 0 only when every pair of the batch is complete.
THEOREM SuccessAlways == Spec => []SuccessMeansComplete
<1>1. IInv => SuccessMeansComplete
  BY DEF IInv
<1> QED BY <1>1, Invariance, PTL

\* Without a kill or a partial read, the index that Resume reads between allocations lists
\* exactly the saved rows, whatever is interrupted by TERM and whatever write
\* fails.
THEOREM IndexAlways == Spec => []IndexCurrentUnlessLost
<1>1. IInv => IndexCurrentUnlessLost
  BY DEF IInv, IndexMatches, IndexCurrentUnlessLost, IndexCurrent, Live, Calling
<1> QED BY <1>1, Invariance, PTL

\* batch.sh and call.sh implement PairResults: every step saves the row of a
\* pair without a complete result, or changes neither set of pairs.
THEOREM Implements == Spec => KeepsCompleted
<1> DEFINE done == {t \in DOMAIN result : result[t].complete}
<1>1. Init => Abstract!Init
  BY DEF Init, Abstract!Init
<1>2. ASSUME IInv, [Next]_vars
      PROVE  [Abstract!Next]_<<DOMAIN result, done>>
  <2>1. CASE result' = result
    BY <2>1
  <2>2. ASSUME NEW a \in Alloc, NEW u \in Pair, NEW complete \in BOOLEAN, ~Done(u),
               u = task[a], complete = outcome[a], result' = Put(result, task[a], ThisRow(a))
        PROVE  Abstract!Save(u, complete)
    <3> DEFINE rows == Put(result, task[a], ThisRow(a))
    <3>1. DOMAIN rows = DOMAIN result \cup {u}
      BY <2>2 DEF Put
    <3>2. u \notin done
      BY <2>2 DEF Done
    <3>3. rows[u].complete = complete
      BY <1>2, <2>2, RowType DEF Put, IInv
    <3>4. \A t \in DOMAIN result : t # u => rows[t] = result[t]
      BY <2>2 DEF Put
    <3> HIDE DEF rows
    <3>5. {t \in DOMAIN rows : rows[t].complete} = IF complete THEN done \cup {u} ELSE done
      BY <3>1, <3>2, <3>3, <3>4
    <3>6. result' = rows
      BY <2>2 DEF rows
    <3> QED BY <3>1, <3>2, <3>5, <3>6 DEF Abstract!Save
  <2>3. CASE \E a \in Alloc : task[a] \in Pair /\ ~Done(task[a])
                              /\ result' = Put(result, task[a], ThisRow(a))
    <3>1. PICK a \in Alloc : task[a] \in Pair /\ ~Done(task[a])
                             /\ result' = Put(result, task[a], ThisRow(a))
      BY <2>3
    <3>2. PICK u \in Pair : u = task[a]
      BY <3>1
    <3>3. outcome[a] \in BOOLEAN
      BY <1>2 DEF IInv, TypeOK
    <3>4. PICK complete \in BOOLEAN : complete = outcome[a]
      BY <3>3
    <3>5. ~Done(u)
      BY <3>1, <3>2
    <3>6. Abstract!Save(u, complete)
      BY <2>2, <3>1, <3>2, <3>4, <3>5
    <3> QED BY <3>6 DEF Abstract!Next
  <2> QED BY <1>2, <2>1, <2>3, ResultStep
<1>3. IInv /\ [Next]_vars => [Abstract!Next]_<<DOMAIN result, done>>
  BY <1>2
<1> QED BY <1>1, <1>3, Invariance, PTL DEF Spec, KeepsCompleted, Abstract!Spec
=============================================================================
