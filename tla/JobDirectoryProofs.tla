------------------------- MODULE JobDirectoryProofs -------------------------
(***************************************************************************)
(* What JobDirectory promises for every number of clients, tries and       *)
(* launches.                                                               *)
(*                                                                         *)
(* The argument: one deletion script at a time is past the gate            *)
(* (GateExclusive).  From squeue to its marker it holds the controller's   *)
(* lock, so no controller does, and no allocation appears after squeue     *)
(* (LockKeepsOut).  A launch that is not yet at the lock when the removal  *)
(* begins, or looks at .stopped while it lasts, has overlapped it.  Without *)
(* such an overlap nobody writes behind rm's back once the directory is    *)
(* gone (NobodyBuilds), and the files vanish only under the marker.        *)
(***************************************************************************)
EXTENDS JobDirectory, TLAPS

-----------------------------------------------------------------------------
(* The inductive invariant.                                                  *)

GateExclusive == \A s, t \in scripts : InGate(s) /\ InGate(t) => s = t

\* Before it is published the job has no clients and no launch.
Unpublished ==
    upload.pc # "ended" =>
        /\ ~exists /\ launch = "none" /\ scripts = {} /\ ~queue
        /\ \A c \in Clients : clients[c].phase = "idle"

\* A controller holds the lock, unless its file was unlinked in an overlap.
HoldersHold == (Holds => lock = "launch" \/ crossed) /\ (lock = "launch" => Holds)

\* A deletion between its lock and its marker has the lock; one that removes
\* has no launch about to write, no allocation, and its marker.
LockKeepsOut ==
    \A s \in scripts :
        /\ s.pc \in {"queue", "mark"} => lock = "delete"
        /\ s.pc \in {"mark", "remove"} => ~queue \/ crossed
        /\ s.pc = "remove" => deleting /\ (crossed \/ (~Holds /\ launch \notin {"write", "open"}))
        /\ s.pc = "unmark" => ~exists \/ crossed

\* Nothing is created where the directory is gone.
NobodyBuilds == ~exists => crossed \/ (~Holds /\ launch # "open")

Safe == /\ GateExclusive
        /\ Unpublished
        /\ HoldersHold
        /\ LockKeepsOut
        /\ NobodyBuilds
        /\ PartialIsMarked
        /\ DeletedMeansGone
        /\ WorkKeepsInputs

IInv == TypeOK /\ Safe

-----------------------------------------------------------------------------
(* Types.                                                                    *)

ClientStates == [phase : {"idle", "stop", "delete", "deleted", "failed"}, attempt : Attempts]

\* What a try's code makes of a client: only the code 0 of a delete ends it as deleted.
LEMMA AfterFacts ==
    ASSUME NEW c \in ClientStates, NEW code
    PROVE  /\ After(c, code) \in ClientStates
           /\ After(c, code).phase = "deleted" => c.phase = "deleted" \/ (code = 0 /\ c.phase = "delete")
<1>1. CASE code = 0 /\ c.phase = "stop"
  <2>1. After(c, code) = [phase |-> "delete", attempt |-> 1]
    BY <1>1 DEF After
  <2> QED BY <2>1, AttemptsAssumption DEF ClientStates, Attempts
<1>2. CASE code = 0 /\ c.phase = "delete"
  <2>1. After(c, code) = [c EXCEPT !.phase = "deleted"]
    BY <1>2 DEF After
  <2> QED BY <2>1, <1>2 DEF ClientStates
<1>3. CASE ~(code = 0 /\ c.phase = "stop") /\ ~(code = 0 /\ c.phase = "delete")
  <2>1. CASE code \in {255, 75} /\ c.attempt < MaxAttempts
    <3>1. After(c, code) = [c EXCEPT !.attempt = @ + 1]
      BY <1>3, <2>1 DEF After
    <3>2. c.attempt + 1 \in Attempts
      BY <2>1, AttemptsAssumption DEF ClientStates, Attempts
    <3> QED BY <3>1, <3>2 DEF ClientStates
  <2>2. CASE ~(code \in {255, 75} /\ c.attempt < MaxAttempts)
    <3>1. After(c, code) = [c EXCEPT !.phase = "failed"]
      BY <1>3, <2>2 DEF After
    <3> QED BY <3>1 DEF ClientStates
  <2> QED BY <2>1, <2>2
<1> QED BY <1>1, <1>2, <1>3

\* A script that exits leaves well-typed scripts and clients.
LEMMA ExitsType ==
    ASSUME TypeOK, NEW s \in scripts, NEW code, Exits(s, code)
    PROVE  clients' \in [Clients -> ClientStates] /\ scripts' \subseteq Scripts
<1>1. s \in Scripts /\ s.client \in Clients
  BY DEF TypeOK, Scripts
<1>2. clients \in [Clients -> ClientStates]
  BY DEF TypeOK, ClientStates
<1>3. After(clients[s.client], code) \in ClientStates
  BY <1>1, <1>2, AfterFacts
<1> QED BY <1>1, <1>2, <1>3 DEF Exits, TypeOK

\* One that goes on keeps its client, its kind and its try.
LEMMA GoesType ==
    ASSUME TypeOK, NEW s \in scripts, s.kind = "delete",
           NEW pc \in {"gate", "guard", "lock", "queue", "mark", "remove", "unmark"}, Goes(s, pc)
    PROVE  /\ clients' \in [Clients -> ClientStates] /\ scripts' \subseteq Scripts
           /\ [s EXCEPT !.pc = pc].kind = "delete" /\ [s EXCEPT !.pc = pc].pc = pc
<1>1. s \in Scripts
  BY DEF TypeOK
<1>2. [s EXCEPT !.pc = pc] \in Scripts
  BY <1>1 DEF Scripts
<1> QED BY <1>1, <1>2 DEF Goes, TypeOK, ClientStates, Scripts

-----------------------------------------------------------------------------
(* The type invariant.                                                       *)

LEMMA TypeInit == Init => TypeOK
<1> SUFFICES ASSUME Init PROVE TypeOK
  OBVIOUS
<1>1. 1 \in Attempts /\ launches \in 0 .. MaxLaunches
  BY AttemptsAssumption DEF Init, Attempts
<1>2. upload \in [pc : {"prepare", "copy", "unpack", "publish", "ended"}, attempt : Attempts]
  BY <1>1 DEF Init
<1>3. clients \in [Clients -> [phase : {"idle", "stop", "delete", "deleted", "failed"}, attempt : Attempts]]
  BY <1>1 DEF Init
<1> QED BY <1>1, <1>2, <1>3 DEF Init, TypeOK, LaunchSteps

LEMMA UploadType ==
    ASSUME TypeOK, Prepare \/ Copy \/ Unpack \/ Publish \/ FinishDies
    PROVE  TypeOK'
<1> USE AttemptsAssumption DEF TypeOK, UploadTo, UploadFails, Attempts, directory, work, deletion
<1>1. CASE Prepare BY <1>1 DEF Prepare
<1>2. CASE Copy BY <1>2 DEF Copy
<1>3. CASE Unpack BY <1>3 DEF Unpack
<1>4. CASE Publish BY <1>4 DEF Publish, Files, LaunchSteps
<1>5. CASE FinishDies BY <1>5 DEF FinishDies
<1> QED BY <1>1, <1>2, <1>3, <1>4, <1>5

LaunchStep ==
    \/ LaunchBegins \/ LaunchUnmarks \/ LaunchFinds \/ LaunchProbes \/ LaunchLooks \/ LaunchWrites
    \/ LaunchOpens \/ LaunchFills \/ LaunchChecks \/ LaunchSubmits \/ LaunchEnds \/ AllocationEnds

LEMMA LaunchType ==
    ASSUME TypeOK, LaunchStep
    PROVE  TypeOK'
<1> USE AttemptsAssumption DEF TypeOK, LaunchSteps, Files, uploading, directory, deletion
<1>1. CASE LaunchBegins BY <1>1 DEF LaunchBegins
<1>2. CASE LaunchUnmarks BY <1>2 DEF LaunchUnmarks
<1>3. CASE LaunchFinds BY <1>3 DEF LaunchFinds
<1>4. CASE LaunchProbes BY <1>4 DEF LaunchProbes
<1>5. CASE LaunchLooks BY <1>5 DEF LaunchLooks
<1>6. CASE LaunchWrites BY <1>6 DEF LaunchWrites
<1>7. CASE LaunchOpens BY <1>7 DEF LaunchOpens
<1>8. CASE LaunchFills BY <1>8 DEF LaunchFills
<1>9. CASE LaunchChecks BY <1>9 DEF LaunchChecks
<1>10. CASE LaunchSubmits BY <1>10 DEF LaunchSubmits, Released, Holds
<1>11. CASE LaunchEnds BY <1>11 DEF LaunchEnds, Released, Holds
<1>12. CASE AllocationEnds BY <1>12 DEF AllocationEnds
<1> QED BY <1>1, <1>2, <1>3, <1>4, <1>5, <1>6, <1>7, <1>8, <1>9, <1>10, <1>11, <1>12 DEF LaunchStep

LEMMA ClientType ==
    ASSUME TypeOK, NEW c \in Clients, ClientBegins(c) \/ ClientTries(c) \/ ClientLoses(c)
    PROVE  TypeOK'
<1>1. clients \in [Clients -> ClientStates] /\ clients[c] \in ClientStates
  BY DEF TypeOK, ClientStates
<1>2. After(clients[c], 0) \in ClientStates /\ After(clients[c], 255) \in ClientStates
  BY <1>1, AfterFacts
<1>3. CASE ClientBegins(c)
  <2>1. [phase |-> "stop", attempt |-> 1] \in ClientStates
    BY AttemptsAssumption DEF ClientStates, Attempts
  <2> QED BY <1>1, <1>3, <2>1 DEF ClientBegins, TypeOK, ClientStates, uploading, directory, work
<1>4. CASE ClientLoses(c)
  BY <1>1, <1>2, <1>4 DEF ClientLoses, TypeOK, ClientStates, uploading, directory, work
<1>5. CASE ClientTries(c)
  <2>1. CASE exists
    <3> DEFINE new == [client |-> c, kind |-> clients[c].phase, attempt |-> clients[c].attempt,
                       pc |-> IF clients[c].phase = "stop" THEN "loop" ELSE "gate", todo |-> {}]
    <3>1. scripts' = scripts \cup {new} /\ clients' = clients /\ files' \subseteq files \cup {"marker"}
      BY <1>5, <2>1 DEF ClientTries
    <3>2. clients[c].attempt \in Attempts /\ clients[c].phase \in {"stop", "delete"}
      BY <1>1, <1>5 DEF ClientTries, ClientStates
    <3>3. new \in Scripts
      <4>1. CASE clients[c].phase = "stop" BY <4>1, <3>2 DEF Scripts
      <4>2. CASE clients[c].phase = "delete" BY <4>2, <3>2 DEF Scripts
      <4> QED BY <3>2, <4>1, <4>2
    <3> HIDE DEF new
    <3> QED BY <1>5, <2>1, <3>1, <3>3 DEF ClientTries, TypeOK, Files, uploading, work
  <2>2. CASE ~exists
    BY <1>1, <1>2, <1>5, <2>2 DEF ClientTries, TypeOK, ClientStates, uploading, work
  <2> QED BY <2>1, <2>2
<1> QED BY <1>3, <1>4, <1>5

LEMMA ScriptType ==
    ASSUME TypeOK, NEW s \in scripts, ScriptStep(s)
    PROVE  TypeOK'
<1>1. s \in Scripts
  BY DEF TypeOK
<1> USE DEF TypeOK, ClientStates, Files, uploading, directory, work, Unlocked
<1>2. CASE StopLoops(s)
  <2>1. clients' \in [Clients -> ClientStates] /\ scripts' \subseteq Scripts
    BY <1>2, ExitsType DEF StopLoops
  <2> QED BY <1>2, <2>1 DEF StopLoops
<1>3. CASE DeleteEnters(s)
  <2>1. clients' \in [Clients -> ClientStates] /\ scripts' \subseteq Scripts
    BY <1>3, ExitsType, GoesType DEF DeleteEnters
  <2> QED BY <1>3, <2>1 DEF DeleteEnters
<1>4. CASE DeleteGuards(s)
  <2>1. clients' \in [Clients -> ClientStates] /\ scripts' \subseteq Scripts
    BY <1>4, ExitsType, GoesType DEF DeleteGuards
  <2> QED BY <1>4, <2>1 DEF DeleteGuards
<1>5. CASE DeleteLocks(s)
  <2>1. clients' \in [Clients -> ClientStates] /\ scripts' \subseteq Scripts
    BY <1>5, ExitsType, GoesType DEF DeleteLocks
  <2> QED BY <1>5, <2>1 DEF DeleteLocks
<1>6. CASE DeleteConfirms(s)
  <2>1. clients' \in [Clients -> ClientStates] /\ scripts' \subseteq Scripts
    BY <1>6, ExitsType, GoesType DEF DeleteConfirms
  <2> QED BY <1>6, <2>1 DEF DeleteConfirms
<1>7. CASE DeleteMarks(s)
  <2>1. [s EXCEPT !.pc = "remove", !.todo = files] \in Scripts
    BY <1>1, <1>7 DEF DeleteMarks, Scripts
  <2> QED BY <1>7, <2>1 DEF DeleteMarks
<1>8. CASE DeleteUnlinks(s)
  <2>1. PICK f \in s.todo :
          /\ files' = files \ {f}
          /\ lock' = IF f = "lock" THEN "free" ELSE lock
          /\ scripts' = (scripts \ {s}) \cup {[s EXCEPT !.todo = @ \ {f}]}
    BY <1>8 DEF DeleteUnlinks
  <2>2. [s EXCEPT !.todo = @ \ {f}] \in Scripts
    BY <1>1, <1>8 DEF DeleteUnlinks, Scripts
  <2> QED BY <1>8, <2>1, <2>2 DEF DeleteUnlinks
<1>9. CASE DeleteRemoves(s)
  <2>1. clients' \in [Clients -> ClientStates] /\ scripts' \subseteq Scripts
    BY <1>9, ExitsType, GoesType DEF DeleteRemoves
  <2> QED BY <1>9, <2>1 DEF DeleteRemoves
<1>10. CASE DeleteUnmarks(s)
  <2>1. clients' \in [Clients -> ClientStates] /\ scripts' \subseteq Scripts
    BY <1>10, ExitsType DEF DeleteUnmarks
  <2> QED BY <1>10, <2>1 DEF DeleteUnmarks
<1>11. CASE ScriptDies(s)
  <2>1. clients' \in [Clients -> ClientStates] /\ scripts' \subseteq Scripts
    BY <1>11, ExitsType DEF ScriptDies
  <2> QED BY <1>11, <2>1 DEF ScriptDies
<1> QED BY <1>2, <1>3, <1>4, <1>5, <1>6, <1>7, <1>8, <1>9, <1>10, <1>11 DEF ScriptStep

LEMMA TypeStep ==
    ASSUME TypeOK, [Next]_vars
    PROVE  TypeOK'
<1>1. CASE UNCHANGED vars
  BY <1>1 DEF TypeOK, vars, uploading, directory, work, deletion
<1>2. CASE Next
  BY <1>2, UploadType, LaunchType, ClientType, ScriptType DEF Next, LaunchStep
<1> QED BY <1>1, <1>2

\* Every variable keeps its type: in particular no client tries more often than
\* it may, and no file is in a directory that is not there.
THEOREM TypeCorrect == Spec => []TypeOK
BY TypeInit, TypeStep, PTL DEF Spec

-----------------------------------------------------------------------------
(* The safety invariants.                                                    *)

LEMMA SafeInit == Init => Safe
BY DEF Init, Safe, GateExclusive, Unpublished, HoldersHold, LockKeepsOut, NobodyBuilds,
       PartialIsMarked, DeletedMeansGone, WorkKeepsInputs, Holds

LEMMA UploadSafe ==
    ASSUME IInv, Prepare \/ Copy \/ Unpack \/ Publish \/ FinishDies
    PROVE  Safe'
<1> USE DEF IInv, TypeOK, Safe, GateExclusive, Unpublished, HoldersHold, LockKeepsOut, NobodyBuilds,
            PartialIsMarked, DeletedMeansGone, WorkKeepsInputs, Holds, InGate,
            UploadTo, UploadFails, directory, work, deletion
<1>1. CASE Prepare BY <1>1 DEF Prepare
<1>2. CASE Copy BY <1>2 DEF Copy
<1>3. CASE Unpack BY <1>3 DEF Unpack
<1>4. CASE Publish BY <1>4 DEF Publish
<1>5. CASE FinishDies BY <1>5 DEF FinishDies
<1> QED BY <1>1, <1>2, <1>3, <1>4, <1>5

LEMMA LaunchSafe ==
    ASSUME IInv, LaunchStep
    PROVE  Safe'
<1> USE DEF IInv, TypeOK, Safe, GateExclusive, Unpublished, HoldersHold, LockKeepsOut, NobodyBuilds,
            PartialIsMarked, DeletedMeansGone, WorkKeepsInputs, Holds, InGate,
            uploading, directory, deletion
<1>1. CASE LaunchBegins BY <1>1 DEF LaunchBegins
<1>2. CASE LaunchUnmarks BY <1>2 DEF LaunchUnmarks
<1>3. CASE LaunchFinds BY <1>3 DEF LaunchFinds
<1>4. CASE LaunchProbes BY <1>4 DEF LaunchProbes
<1>5. CASE LaunchLooks BY <1>5 DEF LaunchLooks, Removing
<1>6. CASE LaunchWrites BY <1>6 DEF LaunchWrites
<1>7. CASE LaunchOpens BY <1>7 DEF LaunchOpens
<1>8. CASE LaunchFills BY <1>8 DEF LaunchFills
<1>9. CASE LaunchChecks BY <1>9 DEF LaunchChecks
<1>10. CASE LaunchSubmits BY <1>10 DEF LaunchSubmits, Released
<1>11. CASE LaunchEnds BY <1>11 DEF LaunchEnds, Released
<1>12. CASE AllocationEnds BY <1>12 DEF AllocationEnds
<1> QED BY <1>1, <1>2, <1>3, <1>4, <1>5, <1>6, <1>7, <1>8, <1>9, <1>10, <1>11, <1>12 DEF LaunchStep

LEMMA ClientSafe ==
    ASSUME IInv, NEW c \in Clients, ClientBegins(c) \/ ClientTries(c) \/ ClientLoses(c)
    PROVE  Safe'
<1>1. clients \in [Clients -> ClientStates] /\ clients[c] \in ClientStates
  BY DEF IInv, TypeOK, ClientStates
<1>2. clients[c].phase = "idle" => exists \/ ~ClientBegins(c)
  BY DEF ClientBegins
<1>3. upload.pc = "ended"
  BY DEF IInv, Safe, Unpublished, ClientBegins, ClientTries, ClientLoses
<1> USE DEF IInv, TypeOK, Safe, GateExclusive, Unpublished, HoldersHold, LockKeepsOut, NobodyBuilds,
            PartialIsMarked, DeletedMeansGone, WorkKeepsInputs, Holds, InGate,
            uploading, directory, work
<1>4. CASE ClientBegins(c)
  <2>1. \A d \in Clients : clients'[d].phase = "deleted" => clients[d].phase = "deleted"
    BY <1>1, <1>4 DEF ClientBegins
  <2> QED BY <1>3, <1>4, <2>1 DEF ClientBegins
<1>5. CASE ClientLoses(c)
  <2>1. \A d \in Clients : clients'[d].phase = "deleted" => clients[d].phase = "deleted"
    BY <1>1, <1>5, AfterFacts DEF ClientLoses
  <2> QED BY <1>3, <1>5, <2>1 DEF ClientLoses
<1>6. CASE ClientTries(c)
  <2>1. CASE exists
    <3> DEFINE new == [client |-> c, kind |-> clients[c].phase, attempt |-> clients[c].attempt,
                       pc |-> IF clients[c].phase = "stop" THEN "loop" ELSE "gate", todo |-> {}]
    <3>1. scripts' = scripts \cup {new} /\ clients' = clients /\ files \subseteq files'
      BY <1>6, <2>1 DEF ClientTries
    <3>2. new.pc \in {"loop", "gate"} /\ ~InGate(new)
      BY <1>6 DEF ClientTries
    <3> HIDE DEF new
    <3> QED BY <1>3, <1>6, <2>1, <3>1, <3>2 DEF ClientTries
  <2>2. CASE ~exists
    <3>1. ~queue \/ crossed
      BY <2>2
    <3> QED BY <1>3, <1>6, <2>2, <3>1 DEF ClientTries
  <2> QED BY <2>1, <2>2
<1> QED BY <1>4, <1>5, <1>6

\* A script that exits makes a client deleted only with the code 0 of a delete.
LEMMA ExitsDeletes ==
    ASSUME TypeOK, NEW s \in scripts, NEW code, Exits(s, code), code # 0 \/ s.kind = "stop",
           NEW d \in Clients, clients'[d].phase = "deleted"
    PROVE  clients[d].phase = "deleted"
<1>1. s.client \in Clients
  BY DEF TypeOK, Scripts
<1>2. clients \in [Clients -> ClientStates]
  BY DEF TypeOK, ClientStates
<1>3. CASE Attached(s)
  <2>1. clients' = [clients EXCEPT ![s.client] = After(@, code)] /\ clients[s.client].phase = s.kind
    BY <1>3 DEF Exits, Attached
  <2>2. After(clients[s.client], code).phase = "deleted" => clients[s.client].phase = "deleted"
    BY <1>1, <1>2, <2>1, AfterFacts
  <2> QED BY <1>1, <1>2, <2>1, <2>2
<1>4. CASE ~Attached(s)
  BY <1>4 DEF Exits
<1> QED BY <1>3, <1>4

\* The scripts after a step of s to pc: the others and one at pc.
LEMMA GoesFacts ==
    ASSUME TypeOK, NEW s \in scripts, s.kind = "delete",
           NEW pc \in {"guard", "lock", "queue", "mark", "remove", "unmark"}, Goes(s, pc)
    PROVE  /\ clients' = clients
           /\ \E t : scripts' = (scripts \ {s}) \cup {t} /\ InGate(t) /\ t.pc = pc
<1>1. [s EXCEPT !.pc = pc].kind = "delete" /\ [s EXCEPT !.pc = pc].pc = pc
  BY GoesType
<1>2. InGate([s EXCEPT !.pc = pc])
  BY <1>1 DEF InGate
<1> QED BY <1>1, <1>2 DEF Goes

LEMMA ScriptSafe ==
    ASSUME IInv, NEW s \in scripts, ScriptStep(s)
    PROVE  Safe'
<1>1. s \in Scripts /\ upload.pc = "ended"
  BY DEF IInv, TypeOK, Safe, Unpublished
<1>2. \A t \in scripts : t.kind = "stop" <=> t.pc = "loop"
  BY DEF IInv, TypeOK, Scripts
<1>3. \A t \in scripts : t.kind \in {"stop", "delete"}
  BY DEF IInv, TypeOK, Scripts
<1>4. ASSUME NEW code, Exits(s, code), code # 0 \/ s.kind = "stop"
      PROVE  \A d \in Clients : clients'[d].phase = "deleted" => clients[d].phase = "deleted"
  BY <1>4, ExitsDeletes DEF IInv
<1>5. ASSUME NEW code, Exits(s, code)
      PROVE  scripts' \subseteq scripts /\ s \notin scripts'
  BY <1>5 DEF Exits
\* When a script leaves the gate, nobody is left in it.
<1> DEFINE Deep(t) == t.pc \in {"queue", "mark", "remove", "unmark"}
<1>16. ASSUME NEW code, Exits(s, code), InGate(s)
       PROVE  \A r \in scripts' : ~InGate(r) /\ ~Deep(r)
  <2>1. \A r \in scripts : Deep(r) => InGate(r)
    BY <1>2, <1>3 DEF InGate
  <2> QED BY <1>5, <1>16, <2>1 DEF IInv, Safe, GateExclusive
<1>17. lock' \in {lock, Unlocked} => (lock' = "launch" <=> lock = "launch")
  BY DEF Unlocked
<1> USE DEF IInv, TypeOK, Safe, GateExclusive, Unpublished, HoldersHold, LockKeepsOut, NobodyBuilds,
            PartialIsMarked, DeletedMeansGone, WorkKeepsInputs, Holds, InGate,
            uploading, directory, work
<1>6. CASE StopLoops(s)
  <2>1. scripts' \subseteq scripts
    BY <1>5, <1>6 DEF StopLoops
  <2>2. \A d \in Clients : clients'[d].phase = "deleted" => clients[d].phase = "deleted"
    BY <1>4, <1>6 DEF StopLoops
  <2> QED BY <1>1, <1>6, <2>1, <2>2 DEF StopLoops
<1>7. CASE DeleteEnters(s)
  <2>1. CASE GateFree
    <3>1. PICK t : scripts' = (scripts \ {s}) \cup {t} /\ InGate(t) /\ t.pc = "guard"
      BY <1>7, <2>1, GoesFacts DEF DeleteEnters
    <3>2. clients' = clients
      BY <1>7, <2>1 DEF DeleteEnters, Goes
    <3> QED BY <1>1, <1>7, <2>1, <3>1, <3>2 DEF DeleteEnters, GateFree
  <2>2. CASE ~GateFree
    <3>1. Exits(s, 75)
      BY <1>7, <2>2 DEF DeleteEnters
    <3> QED BY <1>1, <1>4, <1>5, <1>7, <3>1 DEF DeleteEnters
  <2> QED BY <2>1, <2>2
<1>8. CASE DeleteGuards(s)
  <2>1. CASE Exits(s, 0) /\ ~exists /\ files' = files
    <3>1. ~queue \/ crossed
      BY <2>1
    <3> QED BY <1>1, <1>5, <1>8, <2>1, <3>1 DEF DeleteGuards
  <2>2. CASE Goes(s, "lock") /\ exists /\ files' = files \cup {"lock"}
    <3>1. PICK t : scripts' = (scripts \ {s}) \cup {t} /\ InGate(t) /\ t.pc = "lock"
      BY <1>8, <2>2, GoesFacts DEF DeleteGuards
    <3>2. clients' = clients /\ InGate(s)
      BY <1>8, <2>2 DEF DeleteGuards, Goes
    <3> QED BY <1>1, <1>8, <2>2, <3>1, <3>2 DEF DeleteGuards
  <2>3. CASE Exits(s, 2) /\ files' = files
    BY <1>1, <1>4, <1>5, <1>8, <2>3 DEF DeleteGuards
  <2> QED BY <1>8, <2>1, <2>2, <2>3 DEF DeleteGuards
<1>9. CASE DeleteLocks(s)
  <2>1. CASE lock = "free"
    <3>1. PICK t : scripts' = (scripts \ {s}) \cup {t} /\ InGate(t) /\ t.pc = "queue"
      BY <1>9, <2>1, GoesFacts DEF DeleteLocks
    <3>2. clients' = clients /\ InGate(s)
      BY <1>9, <2>1 DEF DeleteLocks, Goes
    <3> QED BY <1>1, <1>9, <2>1, <3>1, <3>2 DEF DeleteLocks
  <2>2. CASE lock # "free"
    BY <1>1, <1>4, <1>5, <1>9, <2>2 DEF DeleteLocks
  <2> QED BY <2>1, <2>2
<1>10. CASE DeleteConfirms(s)
  <2>1. CASE ~queue /\ Goes(s, "mark") /\ lock' = lock
    <3>1. PICK t : scripts' = (scripts \ {s}) \cup {t} /\ InGate(t) /\ t.pc = "mark"
      BY <1>10, <2>1, GoesFacts DEF DeleteConfirms
    <3>2. clients' = clients /\ InGate(s)
      BY <1>10, <2>1 DEF DeleteConfirms, Goes
    <3> QED BY <1>1, <1>10, <2>1, <3>1, <3>2 DEF DeleteConfirms
  <2>2. CASE Exits(s, 3) /\ lock' = Unlocked
    <3>1. InGate(s)
      BY <1>10 DEF DeleteConfirms
    <3> QED BY <1>1, <1>4, <1>10, <1>16, <1>17, <2>2, <3>1 DEF DeleteConfirms
  <2> QED BY <1>10, <2>1, <2>2 DEF DeleteConfirms
<1>11. CASE DeleteMarks(s)
  <2> DEFINE t == [s EXCEPT !.pc = "remove", !.todo = files]
  <2>1. scripts' = (scripts \ {s}) \cup {t} /\ t.pc = "remove" /\ InGate(t) /\ InGate(s)
    BY <1>1, <1>11 DEF DeleteMarks, Scripts
  <2>2. lock = "delete" /\ (~queue \/ crossed)
    BY <1>11 DEF DeleteMarks
  <2> HIDE DEF t
  <2> QED BY <1>1, <1>11, <2>1, <2>2 DEF DeleteMarks
<1>12. CASE DeleteUnlinks(s)
  <2>1. PICK f \in s.todo :
          /\ files' = files \ {f}
          /\ lock' = IF f = "lock" THEN "free" ELSE lock
          /\ scripts' = (scripts \ {s}) \cup {[s EXCEPT !.todo = @ \ {f}]}
    BY <1>12 DEF DeleteUnlinks
  <2> DEFINE t == [s EXCEPT !.todo = @ \ {f}]
  <2>2. scripts' = (scripts \ {s}) \cup {t} /\ t.pc = "remove" /\ InGate(t) /\ InGate(s)
    BY <1>1, <1>12, <2>1 DEF DeleteUnlinks, Scripts
  <2>3. deleting /\ (crossed \/ (~queue /\ ~Holds /\ launch \notin {"write", "open"}))
    BY <1>12 DEF DeleteUnlinks
  <2> HIDE DEF t
  <2>4. \A r \in scripts' : (InGate(r) \/ Deep(r)) => r = t
    BY <1>2, <1>3, <2>2
  <2>5. clients' = clients /\ exists' = exists /\ launch' = launch /\ queue' = queue
        /\ deleting' = deleting /\ crossed' = crossed /\ upload' = upload
    BY <1>12 DEF DeleteUnlinks
  <2>6. GateExclusive' /\ Unpublished' /\ LockKeepsOut' /\ NobodyBuilds'
    BY <1>1, <2>2, <2>3, <2>4, <2>5
  <2>7. HoldersHold'
    BY <2>1, <2>3, <2>5
  <2>8. PartialIsMarked' /\ DeletedMeansGone' /\ WorkKeepsInputs'
    BY <2>3, <2>5
  <2> QED BY <2>6, <2>7, <2>8
<1>13. CASE DeleteRemoves(s)
  <2>1. InGate(s) /\ (crossed \/ (~queue /\ ~Holds /\ launch \notin {"write", "open"}))
    BY <1>13 DEF DeleteRemoves
  <2>2. CASE files = {}
    <3>1. PICK t : scripts' = (scripts \ {s}) \cup {t} /\ InGate(t) /\ t.pc = "unmark"
      BY <1>13, <2>2, GoesFacts DEF DeleteRemoves
    <3>2. clients' = clients
      BY <1>13, <2>2 DEF DeleteRemoves, Goes
    <3> QED BY <1>1, <1>13, <2>1, <2>2, <3>1, <3>2 DEF DeleteRemoves
  <2>3. CASE files # {}
    BY <1>1, <1>4, <1>13, <1>16, <1>17, <2>1, <2>3 DEF DeleteRemoves
  <2> QED BY <2>2, <2>3
<1>14. CASE DeleteUnmarks(s)
  <2>1. InGate(s) /\ (~exists \/ crossed)
    BY <1>14 DEF DeleteUnmarks
  <2>2. ~queue \/ crossed
    BY <2>1
  <2> QED BY <1>1, <1>14, <1>16, <1>17, <2>1, <2>2 DEF DeleteUnmarks
<1>15. CASE ScriptDies(s)
  <2>1. Exits(s, 255)
    BY <1>15 DEF ScriptDies
  <2>2. \A d \in Clients : clients'[d].phase = "deleted" => clients[d].phase = "deleted"
    BY <1>4, <2>1
  <2>3. scripts' \subseteq scripts
    BY <1>5, <2>1
  <2>4. CASE InGate(s)
    <3>1. \A r \in scripts' : ~InGate(r) /\ ~Deep(r)
      BY <1>16, <2>1, <2>4
    <3>2. lock' = "launch" <=> lock = "launch"
      BY <1>15, <1>17 DEF ScriptDies
    <3> QED BY <1>1, <1>15, <2>2, <2>3, <3>1, <3>2 DEF ScriptDies
  <2>5. CASE ~InGate(s)
    <3>1. lock' = lock
      BY <1>15, <2>5 DEF ScriptDies
    <3> QED BY <1>1, <1>15, <2>2, <2>3, <3>1 DEF ScriptDies
  <2> QED BY <2>4, <2>5
<1> QED BY <1>6, <1>7, <1>8, <1>9, <1>10, <1>11, <1>12, <1>13, <1>14, <1>15 DEF ScriptStep

LEMMA Step ==
    ASSUME IInv, [Next]_vars
    PROVE  IInv'
<1>1. TypeOK'
  BY TypeStep DEF IInv
<1>2. CASE UNCHANGED vars
  BY <1>1, <1>2 DEF IInv, Safe, GateExclusive, Unpublished, HoldersHold, LockKeepsOut, NobodyBuilds,
       PartialIsMarked, DeletedMeansGone, WorkKeepsInputs, Holds, InGate,
       vars, uploading, directory, work, deletion
<1>3. CASE Next
  BY <1>1, <1>3, UploadSafe, LaunchSafe, ClientSafe, ScriptSafe DEF Next, LaunchStep, IInv
<1> QED BY <1>2, <1>3

\* The inductive invariant, for every number of clients, tries and launches.
THEOREM Invariance == Spec => []IInv
<1>1. Init => IInv
  BY TypeInit, SafeInit DEF IInv
<1> QED BY <1>1, Step, PTL DEF Spec

\* A directory that lost or lacks inputs carries the deletion marker.
THEOREM PartialAlways == Spec => []PartialIsMarked
<1>1. IInv => PartialIsMarked
  BY DEF IInv, Safe
<1> QED BY <1>1, Invariance, PTL

\* A delete that reported success left nothing behind, for good.
THEOREM DeletedAlways == Spec => []DeletedMeansGone
<1>1. IInv => DeletedMeansGone
  BY DEF IInv, Safe
<1> QED BY <1>1, Invariance, PTL

\* No allocation is left without the job's files.
THEOREM WorkAlways == Spec => []WorkKeepsInputs
<1>1. IInv => WorkKeepsInputs
  BY DEF IInv, Safe
<1> QED BY <1>1, Invariance, PTL

\* Removals exclude each other, because the gate does.
THEOREM RemovalExclusive == Spec => []OneRemoval
<1>1. IInv => OneRemoval
  <2> SUFFICES ASSUME IInv, NEW s \in scripts, NEW t \in scripts,
                      {s.pc, t.pc} \subseteq {"mark", "remove", "unmark"}
               PROVE  s = t
    BY DEF OneRemoval
  <2>1. s.kind = "delete" /\ t.kind = "delete"
    BY DEF IInv, TypeOK, Scripts
  <2> QED BY <2>1 DEF IInv, Safe, GateExclusive, InGate
<1> QED BY <1>1, Invariance, PTL
=============================================================================
