------------------------- MODULE WebOperationsProofs -------------------------
(***************************************************************************)
(* What WebOperations promises for every number of attempts and pairs.     *)
(*                                                                         *)
(* The argument.  Of two running operations, one is a Stop beside a        *)
(* download or a resume, or a delete that waits for the other (Paired).    *)
(* A successful Stop leaves nothing that could remove the marker: no       *)
(* resume, and no automatic one past its check (Halted).  Whatever may     *)
(* lead to an automatic resume (an entry of the watch, a candidate, an     *)
(* observation of work, work itself) needs a job that is known (Known).    *)
(* An observation never shows fewer results than were reported (Seen), so  *)
(* the attempts of an entry are at least the retries counted (Budget).     *)
(***************************************************************************)
EXTENDS WebOperations, TLAPS

-----------------------------------------------------------------------------
(* The inductive invariant.                                                  *)

Overtaken == Downloads \cup {"resume", "auto"}

\* o may run beside p, or waits for it.
Beside(o, p) ==
    \/ o.label = "stop" /\ p.label \in Overtaken
    \/ o.label = "delete" /\ p.label # "delete" /\ p.label \in o.deps

Paired == \A o, p \in running : o # p => Beside(o, p) \/ Beside(p, o)

\* Which operations have which steps.
Shaped ==
    \A o \in running :
        /\ o.step = 1 => o.label \in {"stop", "resume", "delete"}
        /\ o.step = 2 => o.label \in {"resume", "auto", "delete"}
        /\ o.step = 3 => o.label \in {"resume", "auto"}

\* Nothing is left that could undo a Stop.
Halted ==
    halt = "done" =>
        /\ job.exists => job.marker /\ ~job.active
        /\ \A o \in running : o.label # "resume" /\ (o.label = "auto" => o.step = 0)

\* What an automatic resume may come from.
Sources ==
    \/ job.active \/ job.state = "submitting"
    \/ entry # NoEntry
    \/ loader.pc = "candidate"
    \/ loader.pc = "fetched" /\ loader.seen.kind \in {"active", "submitting"}
    \/ click = "resume"
    \/ \E o \in running : o.label \in {"resume", "auto"}
Knows == Sources => known

\* Results are only ever added, and reported in order.
Seen ==
    /\ job.exists => reported <= job.completed
    /\ loader.pc = "fetched" /\ loader.seen.kind # "absent" =>
           /\ reported <= loader.seen.completed
           /\ job.exists => loader.seen.completed <= job.completed

\* The watch has counted every retry since the last new result.
Budget ==
    /\ blocked => entry = NoEntry
    /\ entry = NoEntry => blocked \/ tries = 0
    /\ entry # NoEntry =>
           /\ tries <= entry.attempts
           /\ entry.completed <= reported
           /\ entry.completed < reported => tries = 0
    /\ tries <= MaxAttempts

IInv == /\ TypeOK
        /\ Paired
        /\ Shaped
        /\ ShutdownQuiet
        /\ Halted
        /\ Knows
        /\ Seen
        /\ Budget

-----------------------------------------------------------------------------
(* The table of running operations.                                          *)

\* A step of an operation replaces it by itself at that step.
LEMMA ReplaceFacts ==
    ASSUME NEW op \in running, NEW step \in 0 .. 3, running \subseteq Operations
    PROVE  /\ Replace(op, step) \subseteq Operations
           /\ \A q \in Replace(op, step) :
                  \E o \in running : /\ q.label = o.label /\ q.deps = o.deps
                                     /\ q = o \/ (o = op /\ q.step = step)
<1> DEFINE moved == [op EXCEPT !.step = step]
<1>1. moved \in Operations /\ moved.label = op.label /\ moved.deps = op.deps /\ moved.step = step
  BY DEF Operations
<1>2. Replace(op, step) = (running \ {op}) \cup {moved}
  BY DEF Replace
<1> HIDE DEF moved
<1> QED BY <1>1, <1>2

\* An operation that ends leaves the others, which no longer wait for it.
LEMMA EndedFacts ==
    ASSUME NEW op \in running, running \subseteq Operations
    PROVE  /\ Ended(op) \subseteq Operations
           /\ \A q \in Ended(op) :
                  \E o \in running \ {op} : /\ q = [o EXCEPT !.deps = @ \ {op.label}]
                                            /\ q.label = o.label /\ q.step = o.step
                                            /\ q.deps = o.deps \ {op.label}
<1>1. ASSUME NEW o \in running \ {op}
      PROVE  LET q == [o EXCEPT !.deps = @ \ {op.label}]
             IN  /\ q \in Operations
                 /\ q.label = o.label /\ q.step = o.step /\ q.deps = o.deps \ {op.label}
  BY DEF Operations
<1>2. Ended(op) = {[o EXCEPT !.deps = @ \ {op.label}] : o \in running \ {op}}
  BY DEF Ended
<1> QED BY <1>1, <1>2

\* An operation that starts is at its first step.
LEMMA StartedFacts ==
    ASSUME NEW label \in Labels, running \subseteq Operations
    PROVE  /\ Started(label) \subseteq Operations
           /\ \A q \in Started(label) :
                  q \in running \/ (/\ q.label = label /\ q.step = 0
                                    /\ label = "delete" => q.deps = RunningLabels)
<1> DEFINE new == [label |-> label, step |-> 0,
                   deps |-> IF label = "delete" THEN RunningLabels ELSE {}]
<1>1. RunningLabels \subseteq Labels
  BY DEF RunningLabels, Operations
<1>2. new \in Operations /\ new.label = label /\ new.step = 0
  BY <1>1 DEF Operations
<1>3. label = "delete" => new.deps = RunningLabels
  OBVIOUS
<1>4. Started(label) = running \cup {new}
  BY DEF Started
<1> HIDE DEF new
<1> QED BY <1>2, <1>3, <1>4

\* What operation() answers while others run.
LEMMA AdmittedFacts ==
    ASSUME NEW label \in Labels, Admitted(label), NEW o \in running
    PROVE  /\ o.label # label
           /\ label \in {"stop", "delete"}
           /\ label = "stop" => o.label \in Overtaken
<1>1. o.label \in RunningLabels
  BY DEF RunningLabels
<1>2. CASE label = "delete"
  BY <1>1, <1>2 DEF Admitted, Joins
<1>3. CASE label = "stop"
  <2>1. RunningLabels \ (Downloads \cup {"resume", "auto"}) = {}
    BY <1>3 DEF Admitted, Conflicts
  <2> QED BY <1>1, <1>3, <2>1 DEF Overtaken, Admitted, Joins
<1>4. CASE label \notin {"delete", "stop"}
  <2>1. RunningLabels = {}
    BY <1>4 DEF Admitted, Conflicts
  <2> QED BY <1>1, <2>1
<1> QED BY <1>2, <1>3, <1>4

-----------------------------------------------------------------------------
(* How a step changes the table.                                             *)

Operates(op, step) ==
    /\ op \in running /\ step \in 1 .. 3 /\ OperationStep(op)
    /\ step = 1 => op.label \in {"stop", "resume", "delete"}
    /\ step = 2 => op.label \in {"resume", "auto", "delete"}
    /\ step = 3 => op.label \in {"resume", "auto"}
    /\ running' = Replace(op, step)

LEMMA OperationTable ==
    ASSUME IInv, NEW op \in running, OperationStep(op)
    PROVE  running' = Ended(op) \/ \E step \in 1 .. 3 : Operates(op, step)
<1> USE DEF IInv
<1>1. CASE OperationMarks(op)
  BY <1>1 DEF OperationMarks, Operates
<1>2. CASE OperationStops(op)
  <2>1. op.label \in {"stop", "resume", "delete"}
    BY <1>2 DEF OperationStops, Shaped
  <2>2. running' = Ended(op) \/ (op.label # "stop" /\ running' = Replace(op, 2))
    BY <1>2 DEF OperationStops
  <2> QED BY <2>1, <2>2 DEF Operates
<1>3. CASE RecoveryChecks(op)
  BY <1>3 DEF RecoveryChecks, Operates
<1>4. CASE ResumeUnmarks(op)
  BY <1>4 DEF ResumeUnmarks, Operates
<1>5. CASE ResumeDispatches(op) \/ DeleteRemoves(op) \/ OperationEnds(op)
  BY <1>5 DEF ResumeDispatches, DeleteRemoves, OperationEnds
<1> QED BY <1>1, <1>2, <1>3, <1>4, <1>5 DEF OperationStep

\* The other steps: two start an operation, the rest leave the table alone.
OtherStep ==
    \/ \E c \in Clicks : Click(c)
    \/ ClickEnds \/ Shutdown
    \/ LoaderFetches \/ LoaderObserves
    \/ HeartbeatFetches \/ HeartbeatChecks
    \/ IdleTimePasses \/ RetryTimePasses
    \/ JobProgresses \/ JobGoesIdle

LEMMA NextCases ==
    ASSUME [Next]_vars
    PROVE  \/ OtherStep \/ ClickStarts \/ LoaderRecovers
           \/ \E op \in running : OperationStep(op)
           \/ UNCHANGED vars
BY DEF Next, OtherStep

LEMMA OtherTable == ASSUME OtherStep PROVE running' = running
BY DEF OtherStep, Click, ClickEnds, Shutdown, LoaderFetches, LoaderObserves, HeartbeatFetches, HeartbeatChecks,
       IdleTimePasses, RetryTimePasses, JobProgresses, JobGoesIdle, web

LEMMA Table ==
    ASSUME IInv, [Next]_vars
    PROVE  \/ running' = running
           \/ \E op \in running : running' = Ended(op)
           \/ \E op \in running, step \in 1 .. 3 : Operates(op, step)
           \/ \E label \in Labels :
                  /\ Admitted(label) /\ running' = Started(label)
                  /\ (LoaderRecovers /\ label = "auto") \/ (ClickStarts /\ label = click)
<1>1. CASE UNCHANGED vars
  BY <1>1 DEF vars, web
<1>2. CASE ClickStarts
  BY <1>2 DEF ClickStarts, IInv, TypeOK, Clicks, NoClick
<1>3. CASE LoaderRecovers
  BY <1>3 DEF LoaderRecovers, Labels
<1> QED BY <1>1, <1>2, <1>3, NextCases, OtherTable, OperationTable

LEMMA RunningTyped == ASSUME IInv, [Next]_vars PROVE running' \subseteq Operations
<1>1. running \subseteq Operations
  BY DEF IInv, TypeOK
<1>2. \A op \in running, step \in 1 .. 3 : Operates(op, step) => Replace(op, step) \subseteq Operations
  BY <1>1, ReplaceFacts
<1> QED BY <1>1, <1>2, Table, EndedFacts, StartedFacts DEF Operates

LEMMA ShapedStep == ASSUME IInv, [Next]_vars PROVE Shaped'
<1> USE DEF IInv
<1>1. running \subseteq Operations
  BY DEF TypeOK
<1>2. CASE running' = running
  BY <1>2 DEF Shaped
<1>3. ASSUME NEW op \in running, running' = Ended(op) PROVE Shaped'
  BY <1>1, <1>3, EndedFacts DEF Shaped
<1>4. ASSUME NEW op \in running, NEW step \in 1 .. 3, Operates(op, step) PROVE Shaped'
  <2>1. step \in 0 .. 3
    OBVIOUS
  <2> QED BY <1>1, <1>4, <2>1, ReplaceFacts DEF Shaped, Operates
<1>5. ASSUME NEW label \in Labels, running' = Started(label) PROVE Shaped'
  BY <1>1, <1>5, StartedFacts DEF Shaped
<1> QED BY <1>2, <1>3, <1>4, <1>5, Table

LEMMA PairedStep == ASSUME IInv, [Next]_vars PROVE Paired'
<1> USE DEF IInv
<1>1. running \subseteq Operations
  BY DEF TypeOK
<1>2. CASE running' = running
  BY <1>2 DEF Paired
<1>3. ASSUME NEW op \in running, running' = Ended(op) PROVE Paired'
  <2> SUFFICES ASSUME NEW q \in running', NEW r \in running', q # r
               PROVE  Beside(q, r) \/ Beside(r, q)
    BY DEF Paired
  <2>1. PICK o \in running \ {op} : /\ q = [o EXCEPT !.deps = @ \ {op.label}]
                                    /\ q.label = o.label /\ q.deps = o.deps \ {op.label}
    BY <1>1, <1>3, EndedFacts
  <2>2. PICK p \in running \ {op} : /\ r = [p EXCEPT !.deps = @ \ {op.label}]
                                    /\ r.label = p.label /\ r.deps = p.deps \ {op.label}
    BY <1>1, <1>3, EndedFacts
  <2>3. o # p
    BY <2>1, <2>2
  <2>4. o.label # op.label /\ p.label # op.label
    BY DEF Paired, Beside, Overtaken, Downloads
  <2> QED BY <2>1, <2>2, <2>3, <2>4 DEF Paired, Beside
<1>4. ASSUME NEW op \in running, NEW step \in 1 .. 3, Operates(op, step) PROVE Paired'
  <2> SUFFICES ASSUME NEW q \in running', NEW r \in running', q # r
               PROVE  Beside(q, r) \/ Beside(r, q)
    BY DEF Paired
  <2> DEFINE moved == [op EXCEPT !.step = step]
  <2>1. moved.label = op.label /\ moved.deps = op.deps
    BY <1>1 DEF Operations
  <2>2. running' = (running \ {op}) \cup {moved}
    BY <1>4 DEF Operates, Replace
  <2> HIDE DEF moved
  <2>3. PICK o \in running : q.label = o.label /\ q.deps = o.deps /\ (q = o \/ (o = op /\ q = moved))
    BY <2>1, <2>2
  <2>4. PICK p \in running : r.label = p.label /\ r.deps = p.deps /\ (r = p \/ (p = op /\ r = moved))
    BY <2>1, <2>2
  <2>5. CASE o # p
    BY <2>3, <2>4, <2>5 DEF Paired, Beside
  <2>6. CASE o = p
    BY <2>2, <2>3, <2>4, <2>6
  <2> QED BY <2>5, <2>6
<1>5. ASSUME NEW label \in Labels, Admitted(label), running' = Started(label) PROVE Paired'
  <2> SUFFICES ASSUME NEW q \in running', NEW r \in running', q # r
               PROVE  Beside(q, r) \/ Beside(r, q)
    BY DEF Paired
  <2> DEFINE new == [label |-> label, step |-> 0,
                     deps |-> IF label = "delete" THEN RunningLabels ELSE {}]
  <2>1. running' = running \cup {new} /\ new.label = label
    BY <1>5 DEF Started
  <2>2. label = "delete" => new.deps = RunningLabels
    OBVIOUS
  <2> HIDE DEF new
  <2>3. ASSUME NEW o \in running PROVE Beside(new, o)
    <3>1. o.label \in RunningLabels
      BY DEF RunningLabels
    <3> QED BY <1>5, <2>1, <2>2, <3>1, AdmittedFacts DEF Beside
  <2> QED BY <2>1, <2>3 DEF Paired
<1> QED BY <1>2, <1>3, <1>4, <1>5, Table

-----------------------------------------------------------------------------
(* The job.                                                                  *)

\* What the updates of the job leave of it.
LEMMA MarkerFields ==
    ASSUME NEW j \in Jobs, NEW m \in BOOLEAN
    PROVE  LET k == [j EXCEPT !.marker = m]
           IN  /\ k \in Jobs /\ k.exists = j.exists /\ k.completed = j.completed
               /\ k.active = j.active /\ k.state = j.state /\ k.marker = m
BY DEF Jobs

LEMMA StateFields ==
    ASSUME NEW j \in Jobs, NEW a \in BOOLEAN, NEW s \in {"submitting", "failed", "stopped"}
    PROVE  LET k == [j EXCEPT !.active = a, !.state = s]
           IN  /\ k \in Jobs /\ k.exists = j.exists /\ k.completed = j.completed
               /\ k.active = a /\ k.state = s /\ k.marker = j.marker
BY DEF Jobs

LEMMA StoppedFields ==
    ASSUME NEW j \in Jobs
    PROVE  LET k == [j EXCEPT !.active = FALSE, !.state = "stopped", !.marker = TRUE]
           IN  /\ k \in Jobs /\ k.exists = j.exists /\ k.completed = j.completed
               /\ ~k.active /\ k.state = "stopped" /\ k.marker
BY DEF Jobs

\* What a step may make of the job: it never comes back, its results stay.
Successor(j) ==
    /\ j \in Jobs
    /\ j.exists => job.exists /\ job.completed <= j.completed

\* ... and only a resume that comes to its dispatch makes it work.
LEMMA JobMoves ==
    ASSUME IInv, [Next]_vars
    PROVE  /\ Successor(job')
           /\ job'.active \/ job'.state = "submitting" =>
                  \/ job.active \/ job.state = "submitting"
                  \/ \E op \in running : ResumeDispatches(op)
<1> USE DEF IInv
<1>0. job \in Jobs /\ job.completed \in Nat /\ Total \in Nat
  BY AttemptsAssumption DEF TypeOK, Jobs
<1>1. CASE job' = job
  BY <1>0, <1>1 DEF Successor
<1>2. CASE JobProgresses
  BY <1>0, <1>2 DEF JobProgresses, Jobs, Successor
<1>3. CASE JobGoesIdle
  <2>1. job.active
    BY <1>3 DEF JobGoesIdle
  <2>2. PICK s \in {"submitting", "failed"} : job' = [job EXCEPT !.active = FALSE, !.state = s]
    BY <1>3 DEF JobGoesIdle
  <2>3. s \in {"submitting", "failed", "stopped"} /\ FALSE \in BOOLEAN
    OBVIOUS
  <2>4. LET k == [job EXCEPT !.active = FALSE, !.state = s]
        IN  k \in Jobs /\ k.exists = job.exists /\ k.completed = job.completed
    BY <1>0, <2>3, StateFields
  <2>5. job' \in Jobs /\ job'.exists = job.exists /\ job'.completed = job.completed
    BY <2>2, <2>4
  <2> QED BY <1>0, <2>1, <2>5 DEF Successor
<1>4. ASSUME NEW op \in running, OperationStep(op)
      PROVE  /\ Successor(job')
             /\ job'.active \/ job'.state = "submitting" =>
                    job.active \/ job.state = "submitting" \/ ResumeDispatches(op)
  <2>1. CASE job' = job
    BY <1>0, <2>1 DEF Successor
  <2>2. CASE job' = [job EXCEPT !.marker = TRUE] \/ job' = [job EXCEPT !.marker = FALSE]
    <3>1. /\ job' \in Jobs /\ job'.exists = job.exists /\ job'.completed = job.completed
          /\ job'.active = job.active /\ job'.state = job.state
      BY <1>0, <2>2, MarkerFields
    <3> QED BY <1>0, <3>1 DEF Successor
  <2>3. CASE job' = [job EXCEPT !.active = FALSE, !.state = "stopped", !.marker = TRUE]
    <3>1. /\ job' \in Jobs /\ job'.exists = job.exists /\ job'.completed = job.completed
          /\ ~job'.active /\ job'.state = "stopped"
      BY <1>0, <2>3, StoppedFields
    <3> QED BY <1>0, <3>1 DEF Successor
  <2>4. CASE ResumeDispatches(op) /\ job' = [job EXCEPT !.active = TRUE, !.state = "submitting"]
    <3>1. job' \in Jobs /\ job'.exists = job.exists /\ job'.completed = job.completed
      BY <1>0, <2>4, StateFields
    <3> QED BY <1>0, <2>4, <3>1 DEF Successor
  <2>5. CASE DeleteRemoves(op)
    <3>1. NoJob \in Jobs /\ ~NoJob.exists /\ ~NoJob.active /\ NoJob.state # "submitting"
      BY <1>0 DEF NoJob, Jobs
    <3> QED BY <2>5, <3>1 DEF DeleteRemoves, Successor
  <2>6. \/ job' = job
        \/ job' = [job EXCEPT !.marker = TRUE] \/ job' = [job EXCEPT !.marker = FALSE]
        \/ job' = [job EXCEPT !.active = FALSE, !.state = "stopped", !.marker = TRUE]
        \/ ResumeDispatches(op) /\ job' = [job EXCEPT !.active = TRUE, !.state = "submitting"]
        \/ DeleteRemoves(op)
    BY <1>4 DEF OperationStep, OperationMarks, OperationStops, RecoveryChecks, ResumeUnmarks, ResumeDispatches,
                OperationEnds
  <2> QED BY <2>1, <2>2, <2>3, <2>4, <2>5, <2>6
<1>5. job' = job \/ JobProgresses \/ JobGoesIdle \/ \E op \in running : OperationStep(op)
  BY NextCases DEF OtherStep, Click, ClickStarts, ClickEnds, Shutdown, LoaderFetches, LoaderObserves,
                   LoaderRecovers, HeartbeatFetches, HeartbeatChecks, IdleTimePasses, RetryTimePasses, vars
<1> QED BY <1>1, <1>2, <1>3, <1>4, <1>5

-----------------------------------------------------------------------------
(* Shutdown.                                                                 *)

LEMMA ShutdownStep == ASSUME IInv, [Next]_vars PROVE ShutdownQuiet'
<1> USE DEF IInv
<1>1. CASE Shutdown
  BY <1>1 DEF Shutdown, ShutdownQuiet
<1>2. CASE ~Shutdown
  <2>1. shutdown' = shutdown
    <3>1. ASSUME NEW op \in running, OperationStep(op) PROVE shutdown' = shutdown
      BY <3>1 DEF OperationStep, OperationMarks, OperationStops, RecoveryChecks, ResumeUnmarks, ResumeDispatches,
                  DeleteRemoves, OperationEnds
    <3> QED BY <1>2, <3>1, NextCases
            DEF OtherStep, Click, ClickStarts, ClickEnds, LoaderFetches, LoaderObserves, LoaderRecovers,
                HeartbeatFetches, HeartbeatChecks, IdleTimePasses, RetryTimePasses, JobProgresses, JobGoesIdle,
                web, vars
  <2>2. shutdown => running' = {}
    <3> SUFFICES ASSUME shutdown PROVE running' = {}
      OBVIOUS
    <3>1. running = {}
      BY DEF ShutdownQuiet
    <3>2. ~\E label \in Labels : Admitted(label)
      BY DEF Admitted
    <3> QED BY <3>1, <3>2, Table
  <2> QED BY <2>1, <2>2 DEF ShutdownQuiet
<1> QED BY <1>1, <1>2

-----------------------------------------------------------------------------
(* Stop.                                                                     *)

\* The last Stop is reported done only when nothing of a resume runs.
LEMMA HaltMoves ==
    ASSUME IInv, [Next]_vars, halt' = "done", halt # "done"
    PROVE  \E op \in running :
               /\ running' = Ended(op)
               /\ {"resume", "auto"} \cap RunningLabels = {}
               /\ job'.marker /\ ~job'.active
<1> USE DEF IInv
<1>0. job \in Jobs
  BY DEF TypeOK
<1>1. ASSUME NEW op \in running, OperationStops(op)
      PROVE  /\ running' = Ended(op)
             /\ {"resume", "auto"} \cap RunningLabels = {}
             /\ job'.marker /\ ~job'.active
  <2>1. op.label = "stop" /\ {"resume", "auto"} \cap RunningLabels = {}
    BY <1>1 DEF OperationStops
  <2>2. running' = Ended(op)
    BY <1>1, <2>1 DEF OperationStops
  <2>3. job'.marker /\ ~job'.active
    BY <1>0, <1>1 DEF OperationStops, Jobs
  <2> QED BY <2>1, <2>2, <2>3
<1>2. ASSUME NEW op \in running, OperationStep(op), ~OperationStops(op) PROVE FALSE
  BY <1>2 DEF OperationStep, OperationMarks, RecoveryChecks, ResumeUnmarks, ResumeDispatches,
              DeleteRemoves, OperationEnds, history
<1>3. CASE OtherStep \/ ClickStarts \/ LoaderRecovers \/ UNCHANGED vars
  BY <1>3 DEF OtherStep, Click, ClickStarts, ClickEnds, Shutdown, LoaderFetches, LoaderObserves, LoaderRecovers,
              HeartbeatFetches, HeartbeatChecks, IdleTimePasses, RetryTimePasses, JobProgresses, JobGoesIdle,
              history, vars
<1> QED BY <1>1, <1>2, <1>3, NextCases

\* What a successful Stop has stopped stays so.
LEMMA MarkedStays ==
    ASSUME IInv, [Next]_vars, halt = "done", job.exists, job.marker, ~job.active
    PROVE  job'.exists => job'.marker /\ ~job'.active
<1> USE DEF IInv
<1>0. job \in Jobs
  BY DEF TypeOK
<1>1. ASSUME NEW op \in running, OperationStep(op) PROVE job'.exists => job'.marker /\ ~job'.active
  <2>0. op.label # "resume" /\ (op.label = "auto" => op.step = 0)
    BY DEF Halted
  <2>1. CASE OperationMarks(op) \/ RecoveryChecks(op)
    <3>1. job' = job \/ job' = [job EXCEPT !.marker = TRUE]
      BY <2>1 DEF OperationMarks, RecoveryChecks
    <3> QED BY <1>0, <3>1, MarkerFields
  <2>2. CASE OperationStops(op)
    BY <1>0, <2>2, StoppedFields DEF OperationStops
  <2>3. CASE ResumeUnmarks(op) \/ ResumeDispatches(op)
    BY <2>0, <2>3 DEF ResumeUnmarks, ResumeDispatches, Shaped
  <2>4. CASE DeleteRemoves(op)
    BY <2>4 DEF DeleteRemoves, NoJob
  <2>5. CASE OperationEnds(op)
    BY <2>5 DEF OperationEnds
  <2> QED BY <1>1, <2>1, <2>2, <2>3, <2>4, <2>5 DEF OperationStep
<1>2. ASSUME ~\E op \in running : OperationStep(op) PROVE job' = job
  BY <1>2, NextCases DEF OtherStep, Click, ClickStarts, ClickEnds, Shutdown, LoaderFetches, LoaderObserves,
                   LoaderRecovers, HeartbeatFetches, HeartbeatChecks, IdleTimePasses, RetryTimePasses,
                   JobProgresses, JobGoesIdle, vars
<1> QED BY <1>1, <1>2

\* No resume gets further: an automatic one finds the marker.
LEMMA NothingUndoes ==
    ASSUME IInv, [Next]_vars, halt = "done", halt' = "done", NEW q \in running'
    PROVE  q.label # "resume" /\ (q.label = "auto" => q.step = 0)
<1> USE DEF IInv
<1>0. running \subseteq Operations
  BY DEF TypeOK
<1>1. CASE running' = running
  BY <1>1 DEF Halted
<1>2. ASSUME NEW op \in running, running' = Ended(op)
      PROVE  q.label # "resume" /\ (q.label = "auto" => q.step = 0)
  BY <1>0, <1>2, EndedFacts DEF Halted
<1>3. ASSUME NEW op \in running, NEW step \in 1 .. 3, OperationStep(op), running' = Replace(op, step)
      PROVE  q.label # "resume" /\ (q.label = "auto" => q.step = 0)
  <2>1. step \in 0 .. 3
    OBVIOUS
  <2>2. PICK o \in running : q.label = o.label /\ (q = o \/ o = op)
    BY <1>0, <1>3, <2>1, ReplaceFacts
  <2>3. op.label = "auto" /\ running' # Ended(op) => FALSE
    <3> SUFFICES ASSUME op.label = "auto", running' # Ended(op) PROVE FALSE
      OBVIOUS
    <3>1. op.step = 0
      BY DEF Halted
    <3>2. RecoveryChecks(op)
      BY <1>3, <3>1 DEF OperationStep, OperationMarks, OperationStops, ResumeUnmarks, ResumeDispatches,
                        DeleteRemoves, OperationEnds
    <3>3. job.marker
      BY <3>2 DEF RecoveryChecks, Ready, Halted
    <3> QED BY <3>2, <3>3 DEF RecoveryChecks
  <2> QED BY <1>2, <2>2, <2>3 DEF Halted
<1>4. ASSUME NEW label \in Labels, running' = Started(label),
             (LoaderRecovers /\ label = "auto") \/ (ClickStarts /\ label = click)
      PROVE  q.label # "resume" /\ (q.label = "auto" => q.step = 0)
  <2>1. label # "resume"
    BY <1>4 DEF ClickStarts
  <2> QED BY <1>0, <1>4, <2>1, StartedFacts DEF Halted
<1> QED BY <1>1, <1>2, <1>3, <1>4, Table DEF Operates

LEMMA HaltedStep == ASSUME IInv, [Next]_vars PROVE Halted'
<1> USE DEF IInv
<1> SUFFICES ASSUME halt' = "done"
             PROVE  /\ job'.exists => job'.marker /\ ~job'.active
                    /\ \A q \in running' : q.label # "resume" /\ (q.label = "auto" => q.step = 0)
  BY DEF Halted
<1>1. CASE halt = "done"
  <2>1. job'.exists => job.exists
    BY JobMoves DEF Successor
  <2>2. job'.exists => job'.marker /\ ~job'.active
    BY <1>1, <2>1, MarkedStays DEF Halted
  <2> QED BY <1>1, <2>2, NothingUndoes
<1>2. CASE halt # "done"
  <2>1. PICK op \in running : /\ running' = Ended(op)
                              /\ {"resume", "auto"} \cap RunningLabels = {}
                              /\ job'.marker /\ ~job'.active
    BY <1>2, HaltMoves
  <2>2. \A o \in running : o.label # "resume" /\ o.label # "auto"
    BY <2>1 DEF RunningLabels
  <2>3. running \subseteq Operations
    BY DEF TypeOK
  <2> QED BY <2>1, <2>2, <2>3, EndedFacts
<1> QED BY <1>1, <1>2

-----------------------------------------------------------------------------
(* Entries of the watch.                                                     *)

LEMMA NewFacts ==
    ASSUME NEW n \in 0 .. Total
    PROVE  NewWatch(n) \in WatchEntries /\ NewWatch(n).completed = n /\ NewWatch(n).attempts = 0
BY AttemptsAssumption DEF NewWatch, WatchEntries

\* Only observe() touches the attempts and the count of an entry.
LEMMA EntryFacts ==
    ASSUME NEW e \in WatchEntries, NEW idle \in {"no", "new", "old"}, NEW wait \in BOOLEAN
    PROVE  /\ LET f == [e EXCEPT !.idle = idle]
              IN  f \in WatchEntries /\ f.completed = e.completed /\ f.attempts = e.attempts
           /\ LET f == [e EXCEPT !.wait = wait]
              IN  f \in WatchEntries /\ f.completed = e.completed /\ f.attempts = e.attempts
BY DEF WatchEntries

LEMMA IdleForFacts ==
    ASSUME NEW e \in WatchEntries
    PROVE  /\ IdleFor(e) \in WatchEntries
           /\ IdleFor(e).completed = e.completed /\ IdleFor(e).attempts = e.attempts
<1>1. (IF e.idle = "no" THEN "new" ELSE e.idle) \in {"no", "new", "old"}
  BY DEF WatchEntries
<1>2. IdleFor(e) = [e EXCEPT !.idle = IF e.idle = "no" THEN "new" ELSE e.idle]
  BY DEF IdleFor
<1> QED BY <1>1, <1>2 DEF WatchEntries

\* A retry counts itself.
LEMMA RetryFacts ==
    ASSUME NEW e \in WatchEntries, Due(e)
    PROVE  LET f == [e EXCEPT !.attempts = @ + 1, !.wait = TRUE, !.idle = "new"]
           IN  /\ f \in WatchEntries /\ f.completed = e.completed
               /\ f.attempts = e.attempts + 1 /\ f.attempts <= MaxAttempts
<1>1. e.attempts + 1 \in 0 .. MaxAttempts
  BY AttemptsAssumption DEF Due, WatchEntries
<1>2. e.attempts + 1 <= MaxAttempts
  BY AttemptsAssumption DEF Due, WatchEntries
<1>3. LET f == [e EXCEPT !.attempts = @ + 1, !.wait = TRUE, !.idle = "new"]
      IN  f \in WatchEntries /\ f.completed = e.completed /\ f.attempts = e.attempts + 1
  BY <1>1 DEF WatchEntries
<1> QED BY <1>2, <1>3

\* The entry after the counts of an observation that is not older than the
\* results reported: its attempts are renewed when the results are new.
LEMMA CountedFacts ==
    ASSUME TypeOK, Budget, ~blocked, NEW seen \in Observations, reported <= seen.completed
    PROVE  /\ Counted(seen) \in WatchEntries
           /\ Counted(seen).completed = seen.completed
           /\ seen.completed = reported => tries <= Counted(seen).attempts
<1>0. /\ reported \in Nat /\ tries \in Nat /\ seen.completed \in 0 .. Total /\ seen.completed \in Nat
      /\ Total \in Nat /\ MaxAttempts \in Nat
  BY AttemptsAssumption DEF TypeOK, Observations
<1>1. CASE entry = NoEntry
  <2>1. NewWatch(seen.completed) \in WatchEntries
        /\ NewWatch(seen.completed).completed = seen.completed
        /\ NewWatch(seen.completed).attempts = 0
    BY <1>0, NewFacts
  <2>2. Counted(seen) = NewWatch(seen.completed)
    BY <1>0, <1>1, <2>1 DEF Counted
  <2>3. tries = 0
    BY <1>1 DEF Budget
  <2> QED BY <2>1, <2>2, <2>3
<1>2. CASE entry # NoEntry
  <2>1. entry \in WatchEntries /\ entry.completed \in Nat /\ entry.attempts \in Nat
    BY <1>0, <1>2 DEF TypeOK, WatchEntries
  <2>2. CASE seen.completed > entry.completed
    <3>1. Counted(seen) = [entry EXCEPT !.completed = seen.completed, !.attempts = 0]
      BY <1>2, <2>2 DEF Counted
    <3>2. 0 \in 0 .. MaxAttempts
      BY <1>0
    <3>3. Counted(seen) \in WatchEntries /\ Counted(seen).completed = seen.completed
          /\ Counted(seen).attempts = 0
      BY <1>0, <2>1, <3>1, <3>2 DEF WatchEntries
    <3>4. seen.completed = reported => tries = 0
      BY <1>2, <2>1, <2>2 DEF Budget
    <3> QED BY <3>3, <3>4
  <2>3. CASE ~(seen.completed > entry.completed)
    <3>1. Counted(seen) = entry
      BY <1>2, <2>3 DEF Counted
    <3>2. entry.completed <= reported /\ tries <= entry.attempts
      BY <1>2 DEF Budget
    <3> QED BY <1>0, <2>1, <2>3, <3>1, <3>2
  <2> QED BY <2>2, <2>3
<1> QED BY <1>1, <1>2

-----------------------------------------------------------------------------
(* An observation reaches observe().                                         *)

\* The history of the retries after it.
LEMMA RecountFacts ==
    ASSUME TypeOK, NEW seen \in Observations, reported <= seen.completed,
           NEW dropped \in BOOLEAN, NEW retried \in BOOLEAN, Recount(seen, dropped, retried)
    PROVE  /\ reported' = seen.completed /\ tries' \in Nat /\ forgotten' \in BOOLEAN
           /\ dropped => tries' = 0
           /\ seen.completed > reported => tries' <= IF retried THEN 1 ELSE 0
           /\ tries' <= tries + IF retried THEN 1 ELSE 0
<1> DEFINE new == seen.completed > reported
           more == IF retried THEN 1 ELSE 0
<1>0. /\ reported \in Nat /\ tries \in Nat /\ seen.completed \in Nat /\ forgotten \in BOOLEAN
      /\ more \in {0, 1}
  BY AttemptsAssumption DEF TypeOK, Observations
<1>1. /\ reported' = IF new THEN seen.completed ELSE reported
      /\ forgotten' = (dropped \/ (forgotten /\ ~new))
      /\ tries' = IF forgotten' THEN 0 ELSE (IF new THEN 0 ELSE tries) + more
  BY DEF Recount
<1>2. reported' = seen.completed
  BY <1>0, <1>1
<1>3. forgotten' \in BOOLEAN /\ (dropped => forgotten')
  BY <1>0, <1>1
<1>4. tries' = 0 \/ tries' = more \/ (~new /\ tries' = tries + more)
  BY <1>0, <1>1
<1>5. dropped => tries' = 0
  BY <1>1, <1>3
<1>6. tries' \in Nat /\ tries' <= tries + more /\ (new => tries' <= more)
  BY <1>0, <1>4
<1> QED BY <1>2, <1>3, <1>5, <1>6

\* What observe() may leave behind.
ObservedRight(seen) ==
    /\ entry' \in WatchEntries \cup {NoEntry}
    /\ loader' \in {Idle, [pc |-> "candidate"]}
    /\ reported' \in 0 .. Total /\ tries' \in Nat /\ forgotten' \in BOOLEAN
    /\ entry = NoEntry /\ (entry' # NoEntry \/ loader'.pc = "candidate") => Watchable(seen)
    /\ reported' = reported \/ (seen.kind # "absent" /\ reported' = seen.completed)
    /\ blocked => entry' = entry
    /\ entry' = NoEntry => blocked \/ tries' = 0
    /\ entry' # NoEntry =>
           /\ tries' <= entry'.attempts
           /\ entry'.completed <= reported'
           /\ entry'.completed < reported' => tries' = 0
    /\ tries' <= MaxAttempts

LEMMA ObserveRight ==
    ASSUME IInv, loader.pc = "fetched", NEW seen \in Observations, loader.seen = seen, Observe(seen)
    PROVE  ObservedRight(seen)
<1> USE DEF IInv
<1> DEFINE e == Counted(seen)
<1>0. /\ reported \in Nat /\ tries \in Nat /\ seen.completed \in Nat /\ seen.completed \in 0 .. Total
      /\ Total \in Nat /\ MaxAttempts \in Nat /\ reported \in 0 .. Total /\ forgotten \in BOOLEAN
  BY AttemptsAssumption DEF TypeOK, Observations
<1>i. Idle.pc # "candidate"
  BY DEF Idle
<1>1. CASE /\ blocked \/ seen.kind = "absent" \/ (entry = NoEntry /\ ~Watchable(seen))
           /\ loader' = Idle /\ UNCHANGED <<entry, reported, tries, forgotten>>
  <2>1. entry \in WatchEntries \cup {NoEntry}
    BY DEF TypeOK
  <2> QED BY <1>0, <1>1, <1>i, <2>1 DEF ObservedRight, Budget
<1>a. CASE seen.kind # "absent" /\ ~blocked
  <2>0. reported <= seen.completed
    BY <1>a DEF Seen
  <2>1. /\ e \in WatchEntries /\ e.completed = seen.completed /\ e.attempts \in Nat
        /\ seen.completed = reported => tries <= e.attempts
    <3>1. /\ e \in WatchEntries /\ e.completed = seen.completed
          /\ seen.completed = reported => tries <= e.attempts
      BY <1>a, <2>0, CountedFacts
    <3> HIDE DEF e
    <3>2. e.attempts \in Nat
      BY <1>0, <3>1 DEF WatchEntries
    <3> QED BY <3>1, <3>2
  <2> HIDE DEF e
  <2>2. CASE /\ seen.kind = "stopped" \/ seen.completed = Total
             /\ entry' = NoEntry /\ loader' = Idle
             /\ Recount(seen, entry # NoEntry, FALSE)
    <3>1. /\ reported' = seen.completed /\ tries' \in Nat /\ forgotten' \in BOOLEAN
          /\ entry # NoEntry => tries' = 0
          /\ tries' <= tries + 0
      BY <2>0, <2>2, RecountFacts
    <3>2. tries' = 0
      BY <1>0, <1>a, <3>1 DEF Budget
    <3> QED BY <1>0, <1>a, <1>i, <2>2, <3>1, <3>2 DEF ObservedRight
  <2>3. ASSUME entry # NoEntry \/ Watchable(seen), loader' = Idle, Recount(seen, FALSE, FALSE),
               entry' = [e EXCEPT !.idle = "no"] \/ entry' = IdleFor(e)
        PROVE  ObservedRight(seen)
    <3>1. entry' \in WatchEntries /\ entry'.completed = e.completed /\ entry'.attempts = e.attempts
      <4>1. CASE entry' = [e EXCEPT !.idle = "no"]
        BY <2>1, <4>1 DEF WatchEntries
      <4>2. CASE entry' = IdleFor(e)
        BY <2>1, <4>2, IdleForFacts
      <4> QED BY <2>3, <4>1, <4>2
    <3>2. /\ reported' = seen.completed /\ tries' \in Nat /\ forgotten' \in BOOLEAN
          /\ seen.completed > reported => tries' <= 0
          /\ tries' <= tries + 0
      BY <2>0, <2>3, RecountFacts
    <3>3. tries' <= e.attempts /\ e.attempts <= MaxAttempts
      BY <1>0, <2>0, <2>1, <3>2 DEF WatchEntries
    <3>4. tries' <= MaxAttempts
      BY <1>0, <2>1, <3>2, <3>3
    <3>5. entry' # NoEntry
      BY <3>1, NoEntryAssumption
    <3> QED BY <1>0, <1>a, <2>1, <2>3, <3>1, <3>2, <3>3, <3>4, <3>5 DEF ObservedRight
  <2>4. ASSUME entry # NoEntry \/ Watchable(seen), loader' = [pc |-> "candidate"],
               Recount(seen, FALSE, TRUE), Due(e),
               entry' = [e EXCEPT !.attempts = @ + 1, !.wait = TRUE, !.idle = "new"]
        PROVE  ObservedRight(seen)
    <3>1. /\ entry' \in WatchEntries /\ entry'.completed = e.completed
          /\ entry'.attempts = e.attempts + 1 /\ entry'.attempts <= MaxAttempts
      BY <2>1, <2>4, RetryFacts
    <3>2. /\ reported' = seen.completed /\ tries' \in Nat /\ forgotten' \in BOOLEAN
          /\ seen.completed > reported => tries' <= 1
          /\ tries' <= tries + 1
      BY <2>0, <2>4, RecountFacts
    <3>3. tries' <= entry'.attempts
      BY <1>0, <2>0, <2>1, <3>1, <3>2
    <3>4. tries' <= MaxAttempts
      BY <1>0, <2>1, <3>1, <3>2, <3>3
    <3>5. entry' # NoEntry
      BY <3>1, NoEntryAssumption
    <3> QED BY <1>0, <1>a, <2>1, <2>4, <3>1, <3>2, <3>3, <3>4, <3>5 DEF ObservedRight
  <2>5. CASE ~(blocked \/ seen.kind = "absent" \/ (entry = NoEntry /\ ~Watchable(seen)))
    BY <2>2, <2>3, <2>4, <2>5 DEF Observe, e
  <2>6. CASE entry = NoEntry /\ ~Watchable(seen)
    BY <1>1, <2>2, <2>6 DEF Observe
  <2> QED BY <1>a, <2>5, <2>6
<1> QED BY <1>1, <1>a DEF Observe

\* The step of the loader: observe(), or the server is stopping.
LEMMA LoaderRight ==
    ASSUME IInv, LoaderObserves
    PROVE  /\ loader.pc = "fetched" /\ loader.seen \in Observations
           /\ ObservedRight(loader.seen)
<1> USE DEF IInv
<1>1. loader.pc = "fetched"
  BY DEF LoaderObserves
<1>2. loader.seen \in Observations
  BY <1>1 DEF TypeOK
<1>3. CASE Observe(loader.seen)
  BY <1>1, <1>2, <1>3, ObserveRight
<1>4. CASE loader' = Idle /\ UNCHANGED <<entry, reported, tries, forgotten>>
  <2>1. /\ entry \in WatchEntries \cup {NoEntry} /\ reported \in 0 .. Total /\ tries \in Nat
        /\ forgotten \in BOOLEAN /\ Idle.pc # "candidate"
    BY AttemptsAssumption DEF TypeOK, Idle
  <2> QED BY <1>1, <1>2, <1>4, <2>1 DEF ObservedRight, Budget
<1> QED BY <1>1, <1>2, <1>3, <1>4 DEF LoaderObserves

-----------------------------------------------------------------------------
(* The watch.                                                                *)

\* The same entry but for its idle and waiting times.
Renewed == /\ entry # NoEntry /\ entry' \in WatchEntries
           /\ entry'.completed = entry.completed /\ entry'.attempts = entry.attempts

LEMMA RenewedFacts ==
    ASSUME TypeOK, entry # NoEntry,
           \/ \E idle \in {"no", "old"} : entry' = [entry EXCEPT !.idle = idle]
           \/ entry' = [entry EXCEPT !.wait = FALSE]
           \/ entry' = IdleFor(entry)
    PROVE  Renewed
<1>1. entry \in WatchEntries
  BY DEF TypeOK
<1>2. ASSUME NEW idle \in {"no", "old"}, entry' = [entry EXCEPT !.idle = idle] PROVE Renewed
  BY <1>1, <1>2 DEF Renewed, WatchEntries
<1>3. CASE entry' = [entry EXCEPT !.wait = FALSE]
  BY <1>1, <1>3 DEF Renewed, WatchEntries
<1>4. CASE entry' = IdleFor(entry)
  BY <1>1, <1>4, IdleForFacts DEF Renewed
<1> QED BY <1>2, <1>3, <1>4

\* How the watch and the count of retries change, observe() aside.
LEMMA WatchMoves ==
    ASSUME IInv, [Next]_vars, ~LoaderObserves
    PROVE  /\ reported' = reported
           /\ \/ entry' = entry /\ blocked' = blocked /\ tries' = tries
              \/ Renewed /\ blocked' = blocked /\ tries' = tries
              \/ entry # NoEntry /\ entry' = NoEntry /\ blocked' = blocked /\ tries' = 0
              \/ entry' = NoEntry /\ blocked' = TRUE /\ tries' = tries
              \/ entry' = NewWatch(0) /\ blocked' = FALSE /\ tries' = 0 /\ known' = TRUE
<1> USE DEF IInv
<1>1. ASSUME NEW c \in Clicks, Click(c)
      PROVE  /\ reported' = reported
             /\ \/ entry' = entry /\ blocked' = blocked /\ tries' = tries
                \/ entry' = NoEntry /\ blocked' = TRUE /\ tries' = tries
                \/ entry' = NewWatch(0) /\ blocked' = FALSE /\ tries' = 0 /\ known' = TRUE
  BY <1>1 DEF Click, WatchStop, WatchResume, watch, history
<1>2. CASE HeartbeatChecks
  <2>1. reported' = reported /\ blocked' = blocked
    BY <1>2 DEF HeartbeatChecks
  <2>2. CASE /\ entry # NoEntry /\ UNCHANGED <<forgotten, tries>>
             /\ entry' = [entry EXCEPT !.idle = "no"] \/ entry' = IdleFor(entry)
    BY <2>1, <2>2, RenewedFacts
  <2> QED BY <1>2, <2>1, <2>2 DEF HeartbeatChecks
<1>3. CASE IdleTimePasses \/ RetryTimePasses
  <2>1. entry # NoEntry /\ UNCHANGED <<reported, blocked, tries>>
    BY <1>3 DEF IdleTimePasses, RetryTimePasses, history
  <2>2. Renewed
    BY <1>3, <2>1, RenewedFacts DEF IdleTimePasses, RetryTimePasses
  <2> QED BY <2>1, <2>2
<1>4. ASSUME NEW op \in running, OperationStep(op) PROVE UNCHANGED <<entry, blocked, tries, reported>>
  BY <1>4 DEF OperationStep, OperationMarks, OperationStops, RecoveryChecks, ResumeUnmarks, ResumeDispatches,
              DeleteRemoves, OperationEnds, watch, history
<1>5. CASE \/ ClickStarts \/ ClickEnds \/ Shutdown \/ LoaderFetches \/ LoaderRecovers \/ HeartbeatFetches
           \/ JobProgresses \/ JobGoesIdle \/ UNCHANGED vars
  BY <1>5 DEF ClickStarts, ClickEnds, Shutdown, LoaderFetches, LoaderRecovers, HeartbeatFetches, JobProgresses,
              JobGoesIdle, watch, history, vars
<1> QED BY <1>1, <1>2, <1>3, <1>4, <1>5, NextCases DEF OtherStep

LEMMA BudgetStep == ASSUME IInv, [Next]_vars PROVE Budget'
<1> USE DEF IInv
<1>0. reported \in Nat /\ tries \in Nat /\ MaxAttempts \in Nat
  BY AttemptsAssumption DEF TypeOK
<1>1. CASE LoaderObserves
  <2>1. blocked' = blocked
    BY <1>1 DEF LoaderObserves
  <2> QED BY <1>1, <2>1, LoaderRight DEF ObservedRight, Budget
<1>2. CASE ~LoaderObserves
  <2>1. CASE entry' = entry /\ blocked' = blocked /\ tries' = tries
    BY <1>2, <2>1, WatchMoves DEF Budget
  <2>2. CASE Renewed /\ blocked' = blocked /\ tries' = tries
    <3>1. reported' = reported /\ entry' # NoEntry
      BY <1>2, <2>2, WatchMoves, NoEntryAssumption DEF Renewed
    <3> QED BY <2>2, <3>1 DEF Budget, Renewed
  <2>3. CASE entry # NoEntry /\ entry' = NoEntry /\ blocked' = blocked /\ tries' = 0
    BY <1>0, <2>3 DEF Budget
  <2>4. CASE entry' = NoEntry /\ blocked' = TRUE /\ tries' = tries
    BY <2>4 DEF Budget
  <2>5. CASE entry' = NewWatch(0) /\ blocked' = FALSE /\ tries' = 0
    <3>1. 0 \in 0 .. Total
      BY AttemptsAssumption
    <3>2. NewWatch(0) \in WatchEntries /\ NewWatch(0).completed = 0 /\ NewWatch(0).attempts = 0
      BY <3>1, NewFacts
    <3>3. reported' = reported
      BY <1>2, WatchMoves
    <3> QED BY <1>0, <2>5, <3>2, <3>3, NoEntryAssumption DEF Budget
  <2> QED BY <1>2, <2>1, <2>2, <2>3, <2>4, <2>5, WatchMoves
<1> QED BY <1>1, <1>2

-----------------------------------------------------------------------------
(* The loader.                                                               *)

\* A collection reads the job as it is, or without the queue.
Fetched(active, available) ==
    /\ IF available THEN active = job.active ELSE active => job.active
    /\ loader' = [pc |-> "fetched", seen |-> Collected(active, available)]

LEMMA CollectedFacts ==
    ASSUME TypeOK, NEW active \in BOOLEAN, NEW available \in BOOLEAN, active => job.active
    PROVE  LET seen == Collected(active, available)
           IN  /\ seen \in Observations /\ seen.completed = job.completed
               /\ seen.kind # "absent" => job.exists
               /\ seen.kind \in {"active", "submitting"} => job.active \/ job.state = "submitting"
<1>0. job \in Jobs
  BY DEF TypeOK
<1> DEFINE kind == IF ~job.exists THEN "absent" ELSE IF active THEN "active" ELSE job.state
<1>1. /\ kind \in {"absent", "active", "stopped", "submitting", "failed"}
      /\ kind # "absent" => job.exists
      /\ kind \in {"active", "submitting"} => job.active \/ job.state = "submitting"
  BY <1>0 DEF Jobs
<1>2. Collected(active, available) = [kind |-> kind, queue |-> available, completed |-> job.completed]
  BY DEF Collected
<1>3. job.completed \in 0 .. Total
  BY <1>0 DEF Jobs
<1> HIDE DEF kind
<1> QED BY <1>1, <1>2, <1>3 DEF Observations

LEMMA LoaderMoves ==
    ASSUME IInv, [Next]_vars, ~LoaderObserves
    PROVE  \/ loader' = loader
           \/ loader' = Idle
           \/ \E active, available \in BOOLEAN : Fetched(active, available) /\ job' = job
<1>1. CASE LoaderFetches
  BY <1>1 DEF LoaderFetches, Fetched
<1>2. CASE LoaderRecovers
  BY <1>2 DEF LoaderRecovers
<1>3. ASSUME NEW op \in running, OperationStep(op) PROVE loader' = loader
  BY <1>3 DEF OperationStep, OperationMarks, OperationStops, RecoveryChecks, ResumeUnmarks, ResumeDispatches,
              DeleteRemoves, OperationEnds, monitors
<1>4. CASE ClickStarts \/ UNCHANGED vars
  BY <1>4 DEF ClickStarts, vars, monitors
<1>5. CASE OtherStep
  BY <1>1, <1>5 DEF OtherStep, Click, ClickEnds, Shutdown, HeartbeatFetches, HeartbeatChecks, IdleTimePasses,
                    RetryTimePasses, JobProgresses, JobGoesIdle, monitors
<1> QED BY <1>1, <1>2, <1>3, <1>4, <1>5, NextCases

LEMMA SeenStep == ASSUME IInv, [Next]_vars PROVE Seen'
<1> USE DEF IInv
<1>0. /\ reported \in Nat /\ job.completed \in Nat
      /\ job'.completed \in Nat
      /\ job'.exists => job.exists /\ job.completed <= job'.completed
  BY JobMoves, AttemptsAssumption DEF TypeOK, Jobs, Successor
<1>1. CASE LoaderObserves
  <2>1. loader.pc = "fetched" /\ loader.seen.completed \in Nat /\ ObservedRight(loader.seen)
    BY <1>1, LoaderRight, AttemptsAssumption DEF Observations
  <2>2. job'.exists => reported' <= job'.completed
    BY <1>0, <2>1 DEF ObservedRight, Seen
  <2>3. loader'.pc # "fetched"
    BY <2>1 DEF ObservedRight, Idle
  <2> QED BY <2>2, <2>3 DEF Seen
<1>2. CASE ~LoaderObserves
  <2>1. reported' = reported
    BY <1>2, WatchMoves
  <2>2. job'.exists => reported' <= job'.completed
    BY <1>0, <2>1 DEF Seen
  <2>3. CASE loader' = loader
    <3>1. loader.pc = "fetched" => loader.seen.completed \in Nat
      BY AttemptsAssumption DEF TypeOK, Observations
    <3> QED BY <1>0, <2>1, <2>2, <2>3, <3>1 DEF Seen
  <2>4. CASE loader' = Idle
    BY <2>2, <2>4 DEF Seen, Idle
  <2>5. ASSUME NEW active \in BOOLEAN, NEW available \in BOOLEAN, Fetched(active, available), job' = job
        PROVE  Seen'
    <3>1. active => job.active
      BY <2>5 DEF Fetched
    <3>2. LET seen == Collected(active, available)
          IN  seen.completed = job.completed /\ (seen.kind # "absent" => job.exists)
      BY <3>1, CollectedFacts
    <3>3. loader'.seen = Collected(active, available)
      BY <2>5 DEF Fetched
    <3> QED BY <1>0, <2>1, <2>2, <2>5, <3>2, <3>3 DEF Seen
  <2> QED BY <1>2, <2>3, <2>4, <2>5, LoaderMoves
<1> QED BY <1>1, <1>2

-----------------------------------------------------------------------------
(* Who may be resumed.                                                       *)

LEMMA KnownStays == ASSUME IInv, [Next]_vars, known PROVE known'
<1>1. ASSUME NEW op \in running, OperationStep(op) PROVE known' = known
  BY <1>1 DEF OperationStep, OperationMarks, OperationStops, RecoveryChecks, ResumeUnmarks, ResumeDispatches,
              DeleteRemoves, OperationEnds, history
<1> QED BY <1>1, NextCases
        DEF OtherStep, Click, ClickStarts, ClickEnds, Shutdown, LoaderFetches, LoaderObserves, LoaderRecovers,
            HeartbeatFetches, HeartbeatChecks, IdleTimePasses, RetryTimePasses, JobProgresses, JobGoesIdle,
            history, vars

LEMMA KnowsStep == ASSUME IInv, [Next]_vars PROVE Knows'
<1> USE DEF IInv
<1>1. ASSUME job'.active \/ job'.state = "submitting" PROVE Sources
  <2>1. ASSUME NEW op \in running, ResumeDispatches(op) PROVE op.label \in {"resume", "auto"}
    BY <2>1 DEF ResumeDispatches, Shaped
  <2> QED BY <1>1, <2>1, JobMoves DEF Sources
<1>2. ASSUME entry' # NoEntry \/ loader'.pc = "candidate" PROVE Sources \/ known'
  <2>1. CASE LoaderObserves
    <3>1. loader.pc = "fetched" /\ (entry = NoEntry => Watchable(loader.seen))
      BY <1>2, <2>1, LoaderRight DEF ObservedRight
    <3> QED BY <3>1 DEF Sources, Watchable
  <2>2. CASE ~LoaderObserves
    <3>1. ASSUME entry' # NoEntry PROVE Sources \/ known'
      BY <2>2, <3>1, WatchMoves DEF Sources, Renewed
    <3>2. ASSUME loader'.pc = "candidate" PROVE Sources
      BY <2>2, <3>2, LoaderMoves DEF Sources, Idle, Fetched
    <3> QED BY <1>2, <3>1, <3>2
  <2> QED BY <2>1, <2>2
<1>3. ASSUME loader'.pc = "fetched", loader'.seen.kind \in {"active", "submitting"} PROVE Sources
  <2>1. CASE LoaderObserves
    BY <1>3, <2>1, LoaderRight DEF ObservedRight, Idle
  <2>2. CASE loader' = loader
    BY <1>3, <2>2 DEF Sources
  <2>3. CASE loader' = Idle
    BY <1>3, <2>3 DEF Idle
  <2>4. ASSUME NEW active \in BOOLEAN, NEW available \in BOOLEAN, Fetched(active, available) PROVE Sources
    <3>1. active => job.active
      BY <2>4 DEF Fetched
    <3>2. Collected(active, available).kind \in {"active", "submitting"} =>
              job.active \/ job.state = "submitting"
      BY <3>1, CollectedFacts
    <3>3. loader'.seen = Collected(active, available)
      BY <2>4 DEF Fetched
    <3> QED BY <1>3, <3>2, <3>3 DEF Sources
  <2> QED BY <2>1, <2>2, <2>3, <2>4, LoaderMoves
<1>4. ASSUME click' = "resume" PROVE Sources \/ known'
  <2>1. ASSUME NEW c \in Clicks, Click(c) PROVE known'
    BY <1>4, <2>1 DEF Click
  <2>2. CASE ClickStarts \/ ClickEnds
    BY <1>4, <2>2 DEF ClickStarts, ClickEnds, NoClick
  <2>3. ASSUME NEW op \in running, OperationStep(op) PROVE click' = click
    BY <2>3 DEF OperationStep, OperationMarks, OperationStops, RecoveryChecks, ResumeUnmarks, ResumeDispatches,
                DeleteRemoves, OperationEnds
  <2>4. click' = click \/ (\E c \in Clicks : Click(c)) \/ ClickStarts \/ ClickEnds
    BY <2>3, NextCases
       DEF OtherStep, Shutdown, LoaderFetches, LoaderObserves, LoaderRecovers, HeartbeatFetches, HeartbeatChecks,
           IdleTimePasses, RetryTimePasses, JobProgresses, JobGoesIdle, web, vars
  <2> QED BY <1>4, <2>1, <2>2, <2>4 DEF Sources
<1>5. ASSUME NEW q \in running', q.label \in {"resume", "auto"} PROVE Sources
  <2>0. running \subseteq Operations
    BY DEF TypeOK
  <2>1. CASE running' = running
    BY <1>5, <2>1 DEF Sources
  <2>2. ASSUME NEW op \in running, running' = Ended(op) PROVE Sources
    BY <1>5, <2>0, <2>2, EndedFacts DEF Sources
  <2>3. ASSUME NEW op \in running, NEW step \in 1 .. 3, running' = Replace(op, step) PROVE Sources
    <3>1. step \in 0 .. 3
      OBVIOUS
    <3> QED BY <1>5, <2>0, <2>3, <3>1, ReplaceFacts DEF Sources
  <2>4. ASSUME NEW label \in Labels, running' = Started(label),
               (LoaderRecovers /\ label = "auto") \/ (ClickStarts /\ label = click)
        PROVE  Sources
    <3>1. q \in running \/ q.label = label
      BY <2>0, <2>4, StartedFacts
    <3>2. LoaderRecovers => loader.pc = "candidate"
      BY DEF LoaderRecovers
    <3>3. click # "auto"
      BY DEF TypeOK, Clicks, NoClick
    <3> QED BY <1>5, <2>4, <3>1, <3>2, <3>3 DEF Sources
  <2> QED BY <2>1, <2>2, <2>3, <2>4, Table DEF Operates
<1>6. Sources' => Sources \/ known'
  BY <1>1, <1>2, <1>3, <1>4, <1>5 DEF Sources
<1> QED BY <1>6, KnownStays DEF Knows

-----------------------------------------------------------------------------
(* Types.                                                                    *)

LoaderStates == [pc : {"idle", "candidate"}] \cup [pc : {"fetched"}, seen : Observations]
HeartbeatStates == [pc : {"idle", "verify"}] \cup [pc : {"fetched"}, row : Heartbeats]

LEMMA WatchTyped ==
    ASSUME IInv, [Next]_vars
    PROVE  /\ entry' \in WatchEntries \cup {NoEntry} /\ blocked' \in BOOLEAN
           /\ reported' \in 0 .. Total /\ tries' \in 0 .. MaxAttempts + 1
<1> USE DEF IInv
<1>0. /\ MaxAttempts \in Nat /\ tries \in Nat /\ reported \in 0 .. Total /\ blocked \in BOOLEAN
      /\ entry \in WatchEntries \cup {NoEntry} /\ tries \in 0 .. MaxAttempts + 1
  BY AttemptsAssumption DEF TypeOK
<1>1. CASE LoaderObserves
  <2>1. ObservedRight(loader.seen) /\ blocked' = blocked
    BY <1>1, LoaderRight DEF LoaderObserves
  <2> QED BY <1>0, <2>1 DEF ObservedRight
<1>2. CASE ~LoaderObserves
  <2>1. 0 \in 0 .. Total /\ 0 \in 0 .. MaxAttempts + 1
    BY AttemptsAssumption
  <2>2. NewWatch(0) \in WatchEntries
    BY <2>1, NewFacts
  <2> QED BY <1>0, <1>2, <2>1, <2>2, WatchMoves DEF Renewed
<1> QED BY <1>1, <1>2

LEMMA LoaderTyped == ASSUME IInv, [Next]_vars PROVE loader' \in LoaderStates
<1> USE DEF IInv
<1>1. CASE LoaderObserves
  BY <1>1, LoaderRight DEF ObservedRight, LoaderStates, Idle
<1>2. loader \in LoaderStates /\ Idle \in LoaderStates
  BY DEF TypeOK, LoaderStates, Idle
<1>3. ASSUME NEW active \in BOOLEAN, NEW available \in BOOLEAN, Fetched(active, available)
      PROVE  loader' \in LoaderStates
  <2>1. active => job.active
    BY <1>3 DEF Fetched
  <2>2. Collected(active, available) \in Observations
    BY <2>1, CollectedFacts
  <2> QED BY <1>3, <2>2 DEF Fetched, LoaderStates
<1> QED BY <1>1, <1>2, <1>3, LoaderMoves

LEMMA HeartbeatTyped == ASSUME IInv, [Next]_vars PROVE heartbeat' \in HeartbeatStates
<1> USE DEF IInv
<1>1. heartbeat \in HeartbeatStates /\ Idle \in HeartbeatStates
  BY DEF TypeOK, HeartbeatStates, Idle
<1>2. CASE HeartbeatFetches
  <2>1. PICK row \in Activity \cup {"unknown"} : heartbeat' = [pc |-> "fetched", row |-> row]
    BY <1>2 DEF HeartbeatFetches
  <2>2. row \in Heartbeats
    BY DEF Activity, Heartbeats
  <2> QED BY <2>1, <2>2 DEF HeartbeatStates
<1>3. CASE HeartbeatChecks
  <2>1. heartbeat' \in {Idle, [pc |-> "verify"]}
    BY <1>3 DEF HeartbeatChecks
  <2> QED BY <1>1, <2>1 DEF HeartbeatStates
<1>4. CASE LoaderFetches
  BY <1>1, <1>4 DEF LoaderFetches
<1>5. ASSUME NEW op \in running, OperationStep(op) PROVE heartbeat' = heartbeat
  BY <1>5 DEF OperationStep, OperationMarks, OperationStops, RecoveryChecks, ResumeUnmarks, ResumeDispatches,
              DeleteRemoves, OperationEnds, monitors
<1>6. CASE ClickStarts \/ LoaderRecovers \/ UNCHANGED vars
  BY <1>1, <1>6 DEF ClickStarts, LoaderRecovers, vars, monitors
<1>7. CASE OtherStep
  BY <1>1, <1>2, <1>3, <1>4, <1>7
     DEF OtherStep, Click, ClickEnds, Shutdown, LoaderObserves, IdleTimePasses, RetryTimePasses, JobProgresses,
         JobGoesIdle, monitors
<1> QED BY <1>1, <1>5, <1>6, <1>7, NextCases

LEMMA RestTyped ==
    ASSUME IInv, [Next]_vars
    PROVE  /\ click' \in Clicks \cup {NoClick} /\ shutdown' \in BOOLEAN /\ known' \in BOOLEAN
           /\ halt' \in {"none", "done", "raced"} /\ forgotten' \in BOOLEAN
<1> USE DEF IInv, TypeOK
<1>1. ASSUME NEW op \in running, OperationStep(op)
      PROVE  /\ UNCHANGED <<click, shutdown, known, forgotten>>
             /\ halt' \in {halt, "done", "raced"}
  BY <1>1 DEF OperationStep, OperationMarks, OperationStops, RecoveryChecks, ResumeUnmarks, ResumeDispatches,
              DeleteRemoves, OperationEnds, history
<1>2. ASSUME NEW c \in Clicks, Click(c)
      PROVE  /\ click' = c /\ shutdown' = shutdown /\ known' \in {known, TRUE}
             /\ halt' \in {halt, "none"} /\ forgotten' \in {forgotten, FALSE}
  BY <1>2 DEF Click, history
<1>3. CASE ClickStarts \/ ClickEnds \/ Shutdown
  BY <1>3 DEF ClickStarts, ClickEnds, Shutdown, history
<1>4. CASE LoaderObserves
  <2>1. forgotten' \in BOOLEAN
    BY <1>4, LoaderRight DEF ObservedRight
  <2> QED BY <1>4, <2>1 DEF LoaderObserves, web
<1>5. CASE \/ LoaderFetches \/ LoaderRecovers \/ HeartbeatFetches \/ HeartbeatChecks
           \/ IdleTimePasses \/ RetryTimePasses \/ JobProgresses \/ JobGoesIdle \/ UNCHANGED vars
  BY <1>5 DEF LoaderFetches, LoaderRecovers, HeartbeatFetches, HeartbeatChecks, IdleTimePasses, RetryTimePasses,
              JobProgresses, JobGoesIdle, web, history, vars
<1> QED BY <1>1, <1>2, <1>3, <1>4, <1>5, NextCases DEF OtherStep

LEMMA TypeStep == ASSUME IInv, [Next]_vars PROVE TypeOK'
BY RunningTyped, JobMoves, WatchTyped, LoaderTyped, HeartbeatTyped, RestTyped
   DEF TypeOK, Successor, LoaderStates, HeartbeatStates

-----------------------------------------------------------------------------
(* The theorems.                                                             *)

LEMMA InitRight == Init => IInv
<1> SUFFICES ASSUME Init PROVE IInv
  OBVIOUS
<1>0. /\ running = {} /\ entry = NoEntry /\ blocked = FALSE /\ click = NoClick /\ loader = Idle
      /\ heartbeat = Idle /\ shutdown = FALSE /\ reported = 0 /\ tries = 0
      /\ known = (job.state = "submitting") /\ halt = "none" /\ forgotten = FALSE
  BY DEF Init
<1>1. job \in Jobs /\ job.completed = 0 /\ (job.active => job.state = "submitting")
  <2>1. 0 \in 0 .. Total
    BY AttemptsAssumption
  <2>2. PICK a \in BOOLEAN, m \in BOOLEAN, s \in {"submitting", "failed", "stopped"} :
            /\ job = [exists |-> TRUE, active |-> a, marker |-> m, state |-> s, completed |-> 0]
            /\ a => s = "submitting"
    BY DEF Init
  <2> QED BY <2>1, <2>2 DEF Jobs
<1>2. TypeOK
  <2>1. 0 \in 0 .. Total /\ 0 \in 0 .. MaxAttempts + 1
    BY AttemptsAssumption
  <2>2. Idle \in LoaderStates /\ Idle \in HeartbeatStates
    BY DEF Idle, LoaderStates, HeartbeatStates
  <2> QED BY <1>0, <1>1, <2>1, <2>2 DEF TypeOK, LoaderStates, HeartbeatStates
<1>3. Paired /\ Shaped /\ ShutdownQuiet /\ Halted
  BY <1>0 DEF Paired, Shaped, ShutdownQuiet, Halted
<1>4. Knows
  BY <1>0, <1>1 DEF Knows, Sources, Idle, NoClick
<1>5. Seen /\ Budget
  BY <1>0, <1>1, AttemptsAssumption DEF Seen, Budget, Idle
<1> QED BY <1>2, <1>3, <1>4, <1>5 DEF IInv

\* Every reachable state is right.
THEOREM Invariance == Spec => []IInv
<1>1. IInv /\ [Next]_vars => IInv'
  BY TypeStep, PairedStep, ShapedStep, ShutdownStep, HaltedStep, KnowsStep, SeenStep, BudgetStep DEF IInv
<1> QED BY <1>1, InitRight, PTL DEF Spec

\* Every variable stays in its type, for any number of attempts and pairs.
THEOREM TypeCorrect == Spec => []TypeOK
<1>1. IInv => TypeOK
  BY DEF IInv
<1> QED BY <1>1, Invariance, PTL

\* Between two reports of new results observe() chooses a job for an automatic
\* resume at most max_attempts times, until a monitor drops its entry.
THEOREM BudgetAlways == Spec => []RetryBudget
<1>1. IInv => RetryBudget
  BY DEF IInv, Budget, RetryBudget
<1> QED BY <1>1, Invariance, PTL

\* What a Stop without a resume beside it has stopped stays so until a Resume
\* is clicked.
THEOREM StopAlways == Spec => []StopHolds
<1>1. IInv => StopHolds
  BY DEF IInv, Halted, StopHolds
<1> QED BY <1>1, Invariance, PTL

\* An automatic resume never runs for a job that has not worked while the app
\* ran and was not resumed here.
THEOREM RevivalNever == Spec => []NoRevival
<1>1. IInv => NoRevival
  BY DEF IInv, Knows, Sources, NoRevival, RunningLabels
<1> QED BY <1>1, Invariance, PTL

\* No operation runs once shutdown() has answered.
THEOREM ShutdownAlways == Spec => []ShutdownQuiet
<1>1. IInv => ShutdownQuiet
  BY DEF IInv
<1> QED BY <1>1, Invariance, PTL

\* Two subprocesses of one job run side by side only as a Stop beside a
\* download or a resume.
THEOREM OneAtATimeAlways == Spec => []OneAtATime
<1>1. IInv => OneAtATime
  <2> SUFFICES ASSUME IInv, NEW o \in running, NEW p \in running, o # p, o.deps = {}, p.deps = {}
               PROVE  \E y \in Downloads \cup {"resume", "auto"} : {o.label, p.label} = {"stop", y}
    BY DEF OneAtATime
  <2>1. CASE o.label = "stop" /\ p.label \in Overtaken
    BY <2>1 DEF Overtaken
  <2>2. CASE p.label = "stop" /\ o.label \in Overtaken
    BY <2>2 DEF Overtaken
  <2> QED BY <2>1, <2>2 DEF IInv, Paired, Beside
<1> QED BY <1>1, Invariance, PTL
=============================================================================
