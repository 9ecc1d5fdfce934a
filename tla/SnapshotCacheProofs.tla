------------------------ MODULE SnapshotCacheProofs ------------------------
(***************************************************************************)
(* What SnapshotCache promises for every number of hosts, pages, requests  *)
(* and load threads, and for every limit.                                  *)
(*                                                                         *)
(* The argument: a load thread owns its key from the block that creates    *)
(* its Event to the one that pops it (PendingRight), so one thread at a    *)
(* time publishes for a key and publishes something newer than what is     *)
(* there (LoadNewer).  An entry is fresh only with a snapshot read after   *)
(* the last invalidation, or crossed (EntryHonest), and a request that     *)
(* still holds the entry's object holds the entry's value (SameObject).    *)
(***************************************************************************)
EXTENDS SnapshotCache, FiniteSetTheorems, TLAPS

-----------------------------------------------------------------------------
(* The inductive invariant.                                                  *)

\* The stored Event is the one of the thread that works on the key.
PendingRight ==
    /\ \A l \in Loads : load[l] # Free => pending[load[l].key] = l
    /\ \A k \in Keys : pending[k] # NoLoad => load[pending[k]] # Free /\ load[pending[k]].key = k

HasValue(k) == entries[k] # NoEntry /\ entries[k].value # NoValue

Current(v) == v.ver >= floor \/ v.crossed

EntryHonest == \A k \in Keys : HasValue(k) /\ entries[k].fresh => Current(entries[k].value)

LoadHonest == \A l \in Loads : load[l].pc = "loaded" => Current(load[l].value)

SameObject ==
    \A r \in Requests :
        request[r].pc \in {"waiting", "answered"} /\ request[r].same =>
            entries[request[r].key] # NoEntry /\ entries[request[r].key].value = request[r].value

NotAhead ==
    /\ \A k \in Keys : HasValue(k) => entries[k].value.ver <= version
    /\ \A l \in Loads : load[l].pc = "loaded" => load[l].value.ver <= version

LoadNewer ==
    \A l \in Loads : load[l].pc = "loaded" /\ HasValue(load[l].key) =>
        entries[load[l].key].value.ver <= load[l].value.ver

IInv == /\ TypeOK
        /\ PendingRight
        /\ PendingHasEntry
        /\ EntryHonest
        /\ LoadHonest
        /\ SameObject
        /\ NotAhead
        /\ LoadNewer
        /\ EntriesBounded

-----------------------------------------------------------------------------
(* Facts about the data.                                                     *)

\* A thread that is not free has a key; a loaded one also a snapshot.
LEMMA LoadFacts ==
    ASSUME NEW x \in LoadRecords
    PROVE  /\ x.pc \in {"free", "queued", "reading", "failed", "finishing", "loaded"}
           /\ x = Free <=> x.pc = "free"
           /\ x.pc # "free" => x.key \in Keys
           /\ x.pc = "loaded" => x.value \in Values /\ x = [pc |-> "loaded", key |-> x.key, value |-> x.value]
           /\ x.pc \in {"queued", "reading", "failed", "finishing"} => x = [pc |-> x.pc, key |-> x.key]
BY DEF LoadRecords, Free

LEMMA RequestFacts ==
    ASSUME NEW x \in RequestRecords
    PROVE  /\ x.pc \in {"idle", "raised", "waiting", "woken", "answered"}
           /\ x.pc \in {"waiting", "woken", "answered"} => x.key \in Keys
           /\ x.pc \in {"waiting", "answered"} => x.same \in BOOLEAN
           /\ x.pc = "waiting" =>
                /\ x.on \in Loads /\ x.value \in Values \cup {NoValue}
                /\ [x EXCEPT !.same = FALSE] \in RequestRecords
           /\ x.pc = "answered" => x.value \in Values /\ [x EXCEPT !.same = FALSE] \in RequestRecords
BY DEF RequestRecords

\* What EntryOf gives where there is no entry.
LEMMA EntryFacts ==
    ASSUME TypeOK, NEW k \in Keys
    PROVE  /\ EntryOf(k) \in Entries
           /\ EntryOf(k) # NoEntry
           /\ entries[k] # NoEntry => EntryOf(k) = entries[k]
           /\ entries[k] = NoEntry => EntryOf(k) = NewEntry
           /\ NewEntry \in Entries
           /\ NewEntry.value = NoValue /\ ~NewEntry.fresh /\ ~NewEntry.backoff
<1>1. NewEntry \in Entries /\ NewEntry.value = NoValue /\ ~NewEntry.fresh /\ ~NewEntry.backoff
  BY DEF NewEntry, Entries
<1>2. entries[k] \in Entries \cup {NoEntry}
  BY DEF TypeOK
<1>3. NewEntry # NoEntry
  BY <1>1, NoneAssumption
<1> QED BY <1>1, <1>2, <1>3 DEF EntryOf

LEMMA SupersededFacts ==
    ASSUME TypeOK, NEW K, NEW r \in Requests
    PROVE  /\ Superseded(K) \in [Requests -> RequestRecords]
           /\ Superseded(K)[r].pc = request[r].pc
           /\ Superseded(K)[r] = request[r] \/
              (/\ Superseded(K)[r] = [request[r] EXCEPT !.same = FALSE]
               /\ request[r].pc \in {"waiting", "answered"} /\ request[r].key \in K)
           /\ request[r].pc \in {"waiting", "answered"} /\ request[r].key \in K => ~Superseded(K)[r].same
<1>1. \A q \in Requests : request[q] \in RequestRecords
  BY DEF TypeOK
<1>2. Superseded(K) \in [Requests -> RequestRecords]
  BY <1>1, RequestFacts DEF Superseded
<1>3. request[r].pc \in {"waiting", "answered"} =>
        [request[r] EXCEPT !.same = FALSE].pc = request[r].pc /\ ~[request[r] EXCEPT !.same = FALSE].same
  BY <1>1 DEF RequestRecords
<1> QED BY <1>2, <1>3 DEF Superseded

-----------------------------------------------------------------------------
(* Types.                                                                    *)

LEMMA TypeInit == Init => TypeOK
BY LimitAssumption DEF Init, TypeOK, LoadRecords, RequestRecords, Free, Idle

\* What a request leaves: another request record at most.
LEMMA RequestType ==
    ASSUME TypeOK, NEW r \in Requests, WaitTimesOut(r) \/ Wake(r) \/ Leave(r)
    PROVE  TypeOK'
<1>1. request[r] \in RequestRecords
  BY DEF TypeOK
<1>2. UNCHANGED <<entries, pending, load, heartbeat, version, floor>>
  BY DEF WaitTimesOut, Wake, Leave, cluster
<1>3. \E x \in RequestRecords : request' = [request EXCEPT ![r] = x]
  <2>1. CASE WaitTimesOut(r)
    <3>1. request[r].pc = "waiting" /\ request[r].key \in Keys /\ request[r].same \in BOOLEAN
             /\ request[r].value \in Values \cup {NoValue}
      BY <2>1, <1>1, RequestFacts DEF WaitTimesOut
    <3>2. request[r].value # NoValue =>
             Answer(request[r].key, request[r].value, request[r].same) \in RequestRecords
      BY <3>1 DEF Answer, RequestRecords
    <3>3. Raised \in RequestRecords
      BY DEF Raised, RequestRecords
    <3>4. request' = [request EXCEPT ![r] =
             IF request[r].value # NoValue
             THEN Answer(request[r].key, request[r].value, request[r].same) ELSE Raised]
      BY <2>1, <1>1 DEF WaitTimesOut, TypeOK
    <3> QED BY <3>2, <3>3, <3>4
  <2>2. CASE Wake(r)
    <3> DEFINE k == request[r].key
    <3>1. k \in Keys
      BY <2>2, <1>1, RequestFacts DEF Wake
    <3>2. EntryOf(k).value # NoValue => Answer(k, EntryOf(k).value, TRUE) \in RequestRecords
      BY <3>1, EntryFacts DEF Answer, RequestRecords, Entries
    <3>3. Raised \in RequestRecords
      BY DEF Raised, RequestRecords
    <3>4. request' = [request EXCEPT ![r] =
             IF EntryOf(k).value # NoValue THEN Answer(k, EntryOf(k).value, TRUE) ELSE Raised]
      BY <2>2 DEF Wake
    <3> QED BY <3>2, <3>3, <3>4
  <2>3. CASE Leave(r)
    BY <2>3 DEF Leave, Idle, RequestRecords
  <2> QED BY <2>1, <2>2, <2>3
<1> QED BY <1>2, <1>3 DEF TypeOK

LEMMA GetType ==
    ASSUME TypeOK, NEW r \in Requests, NEW k \in Keys, NEW force \in BOOLEAN, Get(r, k, force)
    PROVE  TypeOK'
<1> DEFINE e == EntryOf(k)
<1>1. e \in Entries
  BY EntryFacts
<1>2. entries' = [entries EXCEPT ![k] = e] /\ UNCHANGED <<heartbeat, version, floor>>
  BY DEF Get, cluster
<1>3. e.value # NoValue => Answer(k, e.value, TRUE) \in RequestRecords
  BY <1>1 DEF Answer, RequestRecords, Entries
<1>4. Raised \in RequestRecords
  BY DEF Raised, RequestRecords
<1>5. \A l \in Loads :
         [pc |-> "waiting", key |-> k, on |-> l, value |-> e.value, same |-> TRUE] \in RequestRecords
  BY <1>1 DEF RequestRecords, Entries
<1>6. \A l \in Loads : [pc |-> "queued", key |-> k] \in LoadRecords
  BY DEF LoadRecords
<1>7. \E x \in RequestRecords : request' = [request EXCEPT ![r] = x]
  <2>1. CASE (e.value # NoValue /\ e.fresh /\ ~force) \/ (e.backoff /\ e.value # NoValue)
    BY <2>1, <1>3 DEF Get
  <2>2. CASE e.backoff /\ e.value = NoValue
    BY <2>2, <1>4 DEF Get
  <2>3. CASE ~(e.value # NoValue /\ e.fresh /\ ~force) /\ ~e.backoff
    BY <2>3, <1>3, <1>5 DEF Get
  <2> QED BY <2>1, <2>2, <2>3 DEF Get
<1>8. \/ UNCHANGED <<pending, load>>
      \/ \E l \in Loads : pending' = [pending EXCEPT ![k] = l]
            /\ load' = IF load[l] = Free THEN [load EXCEPT ![l] = [pc |-> "queued", key |-> k]] ELSE load
  BY DEF Get
<1>9. pending' \in [Keys -> Loads \cup {NoLoad}] /\ load' \in [Loads -> LoadRecords]
  BY <1>6, <1>8 DEF TypeOK
<1> QED BY <1>1, <1>2, <1>7, <1>9 DEF TypeOK

LEMMA LoadType ==
    ASSUME TypeOK, NEW l \in Loads, LoadStep(l)
    PROVE  TypeOK'
<1>1. load[l] \in LoadRecords
  BY DEF TypeOK
<1>2. UNCHANGED <<heartbeat, version, floor>>
  BY DEF LoadStep, LoadAcquires, LoadReads, LoadRaises, LoadPublishes, LoadRecordsError, LoadFinishes, cluster
<1>3. CASE LoadAcquires(l)
  <2>1. [load[l] EXCEPT !.pc = "reading"] \in LoadRecords
    BY <1>1, <1>3 DEF LoadAcquires, LoadRecords
  <2> QED BY <1>2, <1>3, <2>1 DEF LoadAcquires, TypeOK
<1>4. CASE LoadReads(l)
  <2>1. [pc |-> "loaded", key |-> load[l].key, value |-> [ver |-> version, crossed |-> FALSE]] \in LoadRecords
    BY <1>1, <1>4, LoadFacts DEF LoadReads, LoadRecords, Values, TypeOK
  <2> QED BY <1>2, <1>4, <2>1 DEF LoadReads, TypeOK
<1>5. CASE LoadRaises(l)
  <2>1. [load[l] EXCEPT !.pc = "failed"] \in LoadRecords
    BY <1>1, <1>5 DEF LoadRaises, LoadRecords
  <2> QED BY <1>2, <1>5, <2>1 DEF LoadRaises, TypeOK
<1>6. CASE LoadPublishes(l)
  <2> DEFINE k == load[l].key
  <2>1. k \in Keys /\ load[l].value \in Values
    BY <1>1, <1>6, LoadFacts DEF LoadPublishes
  <2>2. [NewEntry EXCEPT !.value = load[l].value, !.fresh = TRUE] \in Entries
    BY <2>1 DEF NewEntry, Entries
  <2>3. [pc |-> "finishing", key |-> k] \in LoadRecords
    BY <2>1 DEF LoadRecords
  <2>4. request' \in [Requests -> RequestRecords]
    <3>1. CASE Requests = {}
      BY <3>1, <1>6 DEF LoadPublishes, Superseded
    <3>2. CASE Requests # {}
      BY <3>2, <1>6, SupersededFacts DEF LoadPublishes
    <3> QED BY <3>1, <3>2
  <2> QED BY <1>2, <1>6, <2>2, <2>3, <2>4 DEF LoadPublishes, TypeOK
<1>7. CASE LoadRecordsError(l)
  <2>1. load[l].key \in Keys /\ [load[l] EXCEPT !.pc = "finishing"] \in LoadRecords
    BY <1>1, <1>7 DEF LoadRecordsError, LoadRecords
  <2>2. [EntryOf(load[l].key) EXCEPT !.error = TRUE, !.backoff = TRUE] \in Entries
    BY <2>1, EntryFacts DEF Entries
  <2> QED BY <1>2, <1>7, <2>1, <2>2 DEF LoadRecordsError, TypeOK
<1>8. CASE LoadFinishes(l)
  <2> DEFINE k == load[l].key
  <2>1. k \in Keys
    BY <1>1, <1>8, LoadFacts DEF LoadFinishes
  <2>2. PICK V \in Victims(k) :
           /\ pending' = [pending EXCEPT ![k] = NoLoad]
           /\ entries' = [v \in Keys |-> IF v \in V THEN NoEntry ELSE entries[v]]
           /\ load' = [load EXCEPT ![l] = Free]
           /\ request' = Woken(l, k, V)
    BY <1>8 DEF LoadFinishes
  <2>3. Woken(l, k, V) \in [Requests -> RequestRecords]
    <3>1. \A r \in Requests : Superseded(V)[r] \in RequestRecords
      BY SupersededFacts
    <3>2. [pc |-> "woken", key |-> k] \in RequestRecords
      BY <2>1 DEF RequestRecords
    <3> QED BY <3>1, <3>2 DEF Woken
  <2>4. Free \in LoadRecords
    BY DEF Free, LoadRecords
  <2> QED BY <1>2, <2>1, <2>2, <2>3, <2>4 DEF TypeOK
<1> QED BY <1>3, <1>4, <1>5, <1>6, <1>7, <1>8 DEF LoadStep

\* Heartbeats, operations and time.
LEMMA OtherType ==
    ASSUME TypeOK,
           \/ \E h \in Hosts : HeartbeatStarts(h) \/ HeartbeatEnds(h)
           \/ OperationActs \/ Invalidate
           \/ \E k \in Keys : EntryExpires(k) \/ BackoffEnds(k)
    PROVE  TypeOK'
<1>1. CASE \E h \in Hosts : HeartbeatStarts(h) \/ HeartbeatEnds(h)
  BY <1>1 DEF HeartbeatStarts, HeartbeatEnds, TypeOK
<1>2. CASE OperationActs
  BY <1>2, LimitAssumption DEF OperationActs, TypeOK
<1>3. CASE Invalidate
  <2>1. \A k \in Keys : Invalidated(entries[k]) \in Entries \cup {NoEntry}
    BY DEF TypeOK, Invalidated, Entries
  <2>2. ASSUME NEW l \in Loads, load[l].pc = "loaded"
        PROVE  [load[l] EXCEPT !.value.crossed = TRUE] \in LoadRecords
    <3>1. load[l] \in [pc : {"loaded"}, key : Keys, value : Values]
      BY <2>2 DEF TypeOK, LoadRecords
    <3>2. [load[l].value EXCEPT !.crossed = TRUE] \in Values
      BY <3>1 DEF Values
    <3>3. [load[l] EXCEPT !.value.crossed = TRUE] \in [pc : {"loaded"}, key : Keys, value : Values]
      BY <3>1, <3>2
    <3> QED BY <3>3 DEF LoadRecords
  <2> QED BY <1>3, <2>1, <2>2, LimitAssumption DEF Invalidate, TypeOK
<1>4. ASSUME NEW k \in Keys, EntryExpires(k) \/ BackoffEnds(k) PROVE TypeOK'
  <2>1. entries[k] \in Entries
    BY <1>4, EntryFacts DEF EntryExpires, BackoffEnds, TypeOK
  <2>2. [entries[k] EXCEPT !.fresh = FALSE] \in Entries /\ [entries[k] EXCEPT !.backoff = FALSE] \in Entries
    BY <2>1 DEF Entries
  <2> QED BY <1>4, <2>2 DEF EntryExpires, BackoffEnds, TypeOK, cluster
<1> QED BY <1>1, <1>2, <1>3, <1>4

LEMMA TypeStep == TypeOK /\ [Next]_vars => TypeOK'
<1>1. CASE UNCHANGED vars
  BY <1>1 DEF vars, cluster, TypeOK
<1>2. CASE Next
  BY <1>2, GetType, RequestType, LoadType, OtherType DEF Next
<1> QED BY <1>1, <1>2

-----------------------------------------------------------------------------
(* What the steps do to threads, Events and entries.                         *)

\* What a thread's steps do to load, pending and the entries.
LEMMA LoadEffect ==
    ASSUME TypeOK, NEW l \in Loads, LoadStep(l)
    PROVE  /\ load[l] # Free /\ load[l].key \in Keys
           /\ \/ /\ load'[l] # Free /\ load'[l].key = load[l].key
                 /\ pending' = pending
                 /\ \A k \in Keys : entries[k] # NoEntry => entries'[k] # NoEntry
              \/ /\ load'[l] = Free
                 /\ pending' = [pending EXCEPT ![load[l].key] = NoLoad]
                 /\ \A k \in Keys : pending[k] # NoLoad => entries'[k] = entries[k]
           /\ \A m \in Loads : m # l => load'[m] = load[m]
<1>1. load \in [Loads -> LoadRecords] /\ load[l] \in LoadRecords /\ load'[l] \in LoadRecords
  BY TypeStep DEF Next, TypeOK
<1>2. load[l].pc # "free"
  BY DEF LoadStep, LoadAcquires, LoadReads, LoadRaises, LoadPublishes, LoadRecordsError, LoadFinishes
<1>3. load[l] # Free /\ load[l].key \in Keys
  BY <1>1, <1>2, LoadFacts
<1>4. CASE LoadAcquires(l) \/ LoadReads(l) \/ LoadRaises(l)
  <2>1. load'[l].pc # "free" /\ load'[l].key = load[l].key
    BY <1>1, <1>4, LoadFacts DEF LoadAcquires, LoadReads, LoadRaises
  <2>2. load'[l] # Free
    BY <1>1, <2>1, LoadFacts
  <2> QED BY <1>1, <1>3, <1>4, <2>1, <2>2 DEF LoadAcquires, LoadReads, LoadRaises, TypeOK
<1>5. CASE LoadPublishes(l) \/ LoadRecordsError(l)
  <2>1. load'[l].pc # "free" /\ load'[l].key = load[l].key
    BY <1>1, <1>5, LoadFacts DEF LoadPublishes, LoadRecordsError
  <2>2. load'[l] # Free
    BY <1>1, <2>1, LoadFacts
  <2>3. \E e \in Entries : entries' = [entries EXCEPT ![load[l].key] = e]
    <3>1. EntryOf(load[l].key) \in Entries
      BY <1>3, EntryFacts
    <3>2. CASE LoadPublishes(l)
      <4>1. load[l].value \in Values
        BY <3>2, <1>1, LoadFacts DEF LoadPublishes
      <4>2. [NewEntry EXCEPT !.value = load[l].value, !.fresh = TRUE] \in Entries
        BY <4>1 DEF NewEntry, Entries
      <4> QED BY <3>2, <4>2 DEF LoadPublishes
    <3>3. CASE LoadRecordsError(l)
      <4>1. [EntryOf(load[l].key) EXCEPT !.error = TRUE, !.backoff = TRUE] \in Entries
        BY <3>1 DEF Entries
      <4> QED BY <3>3, <4>1 DEF LoadRecordsError
    <3> QED BY <1>5, <3>2, <3>3
  <2>4. \A k \in Keys : entries[k] # NoEntry => entries'[k] # NoEntry
    BY <2>3, NoneAssumption DEF TypeOK
  <2> QED BY <1>1, <1>3, <1>5, <2>1, <2>2, <2>4 DEF LoadPublishes, LoadRecordsError, TypeOK
<1>6. CASE LoadFinishes(l)
  BY <1>1, <1>3, <1>6 DEF LoadFinishes, Victims, Evictions, TypeOK
<1> QED BY <1>4, <1>5, <1>6 DEF LoadStep

\* What a request does to load, pending and the entries.
LEMMA GetEffect ==
    ASSUME TypeOK, NEW r \in Requests, NEW k \in Keys, NEW force \in BOOLEAN, Get(r, k, force)
    PROVE  /\ entries' = [entries EXCEPT ![k] = EntryOf(k)]
           /\ \/ UNCHANGED <<pending, load>>
              \/ \E l \in Loads :
                    /\ Joins(k, l)
                    /\ pending' = [pending EXCEPT ![k] = l]
                    /\ load' = IF load[l] = Free THEN [load EXCEPT ![l] = [pc |-> "queued", key |-> k]] ELSE load
           /\ pending = pending' => entries[k] # NoEntry \/ pending[k] # NoLoad
<1>1. EntryOf(k) \in Entries /\ (entries[k] = NoEntry => EntryOf(k).value = NoValue /\ ~EntryOf(k).backoff)
  BY EntryFacts
<1>2. entries' = [entries EXCEPT ![k] = EntryOf(k)]
  BY DEF Get
<1>3. CASE EntryOf(k).value # NoValue \/ EntryOf(k).backoff
  BY <1>1, <1>2, <1>3 DEF Get
<1>4. CASE EntryOf(k).value = NoValue /\ ~EntryOf(k).backoff
  <2>1. \E l \in Loads :
           /\ Joins(k, l)
           /\ pending' = [pending EXCEPT ![k] = l]
           /\ load' = IF load[l] = Free THEN [load EXCEPT ![l] = [pc |-> "queued", key |-> k]] ELSE load
    BY <1>4 DEF Get
  <2>2. pending = pending' => pending[k] # NoLoad
    BY <2>1, NoneAssumption DEF TypeOK
  <2> QED BY <1>2, <2>1, <2>2
<1> QED BY <1>3, <1>4

\* An invalidation keeps the threads and their keys.
LEMMA InvalidateEffect ==
    ASSUME TypeOK, Invalidate
    PROVE  /\ \A l \in Loads : /\ load'[l].pc = load[l].pc
                               /\ load[l] # Free => load'[l].key = load[l].key
                               /\ load[l].pc # "loaded" => load'[l] = load[l]
                               /\ load[l].pc = "loaded" => /\ load'[l].value.ver = load[l].value.ver
                                                           /\ load'[l].value.crossed
           /\ \A k \in Keys : entries'[k] = NoEntry <=> entries[k] = NoEntry
           /\ \A k \in Keys : entries[k] # NoEntry => /\ entries'[k].value = entries[k].value
                                                      /\ ~entries'[k].fresh
<1>1. ASSUME NEW l \in Loads, load[l].pc = "loaded"
      PROVE  /\ load'[l].pc = "loaded" /\ load'[l].key = load[l].key
             /\ load'[l].value.ver = load[l].value.ver /\ load'[l].value.crossed
  <2>1. load[l] \in [pc : {"loaded"}, key : Keys, value : Values]
    BY <1>1 DEF TypeOK, LoadRecords
  <2>2. load'[l] = [load[l] EXCEPT !.value.crossed = TRUE]
    BY <1>1 DEF Invalidate
  <2>3. load[l].value \in [ver : 0 .. MaxVersion, crossed : BOOLEAN]
    BY <2>1 DEF Values
  <2> QED BY <2>1, <2>2, <2>3
<1>2. \A l \in Loads : load[l].pc # "loaded" => load'[l] = load[l]
  BY DEF Invalidate
<1>3. ASSUME NEW k \in Keys
      PROVE  /\ entries'[k] = NoEntry <=> entries[k] = NoEntry
             /\ entries[k] # NoEntry => entries'[k].value = entries[k].value /\ ~entries'[k].fresh
  <2>1. entries'[k] = Invalidated(entries[k])
    BY DEF Invalidate
  <2>2. CASE entries[k] = NoEntry
    BY <2>1, <2>2 DEF Invalidated
  <2>3. CASE entries[k] # NoEntry
    <3>1. entries[k] \in Entries /\ entries'[k] = [entries[k] EXCEPT !.fresh = FALSE, !.backoff = FALSE]
      BY <2>1, <2>3 DEF Invalidated, TypeOK
    <3>2. entries'[k] \in Entries
      BY <3>1 DEF Entries
    <3> QED BY <2>3, <3>1, <3>2, NoneAssumption DEF Entries
  <2> QED BY <2>2, <2>3
<1> QED BY <1>1, <1>2, <1>3

\* The passing of time keeps the entries and their snapshots.
LEMMA TimeEffect ==
    ASSUME TypeOK, NEW k \in Keys, EntryExpires(k) \/ BackoffEnds(k)
    PROVE  /\ UNCHANGED <<pending, load, request, heartbeat, version, floor>>
           /\ \A j \in Keys : entries'[j] = NoEntry <=> entries[j] = NoEntry
           /\ \A j \in Keys : entries[j] # NoEntry => /\ entries'[j].value = entries[j].value
                                                      /\ entries'[j].fresh => entries[j].fresh
<1>1. entries[k] \in Entries
  BY EntryFacts DEF EntryExpires, BackoffEnds, TypeOK
<1>2. \/ entries' = [entries EXCEPT ![k] = [entries[k] EXCEPT !.fresh = FALSE]]
      \/ entries' = [entries EXCEPT ![k] = [entries[k] EXCEPT !.backoff = FALSE]]
  BY DEF EntryExpires, BackoffEnds, TypeOK
<1>3. [entries[k] EXCEPT !.fresh = FALSE] \in Entries /\ [entries[k] EXCEPT !.backoff = FALSE] \in Entries
  BY <1>1 DEF Entries
<1>4. entries'[k] \in Entries /\ entries'[k].value = entries[k].value /\ (entries'[k].fresh => entries[k].fresh)
  BY <1>1, <1>2, <1>3 DEF TypeOK, Entries
<1>5. \A j \in Keys : j # k => entries'[j] = entries[j]
  BY <1>2 DEF TypeOK
<1> QED BY <1>1, <1>4, <1>5, NoneAssumption DEF EntryExpires, BackoffEnds, cluster

-----------------------------------------------------------------------------
(* Who works on which key.                                                   *)

LEMMA PendingStep ==
    ASSUME TypeOK, TypeOK', PendingRight, PendingHasEntry, [Next]_vars
    PROVE  PendingRight' /\ PendingHasEntry'
<1> USE NoneAssumption
<1>0. /\ pending \in [Keys -> Loads \cup {NoLoad}] /\ load \in [Loads -> LoadRecords]
      /\ load' \in [Loads -> LoadRecords]
  BY DEF TypeOK
<1>1. ASSUME NEW r \in Requests, NEW k \in Keys, NEW force \in BOOLEAN, Get(r, k, force)
      PROVE  PendingRight' /\ PendingHasEntry'
  <2>1. \A j \in Keys : entries[j] # NoEntry => entries'[j] # NoEntry
    BY <1>1, GetEffect, EntryFacts DEF TypeOK
  <2>2. entries'[k] # NoEntry
    BY <1>1, GetEffect, EntryFacts DEF TypeOK
  <2>3. CASE UNCHANGED <<pending, load>>
    BY <2>1, <2>3 DEF PendingRight, PendingHasEntry, PendingKeys, Cached
  <2>4. ASSUME NEW l \in Loads, Joins(k, l), pending' = [pending EXCEPT ![k] = l],
               load' = IF load[l] = Free THEN [load EXCEPT ![l] = [pc |-> "queued", key |-> k]] ELSE load
        PROVE  PendingRight' /\ PendingHasEntry'
    <3>1. PendingHasEntry'
      BY <2>1, <2>2, <2>4, <1>0 DEF PendingHasEntry, PendingKeys, Cached
    <3>2. CASE pending[k] # NoLoad
      <4>1. l = pending[k] /\ load[l] # Free
        BY <2>4, <3>2 DEF Joins, PendingRight
      <4>2. pending' = pending /\ load' = load
        BY <2>4, <4>1, <1>0
      <4> QED BY <3>1, <4>2 DEF PendingRight
    <3>3. CASE pending[k] = NoLoad
      <4>1. load[l] = Free
        BY <2>4, <3>3 DEF Joins
      <4>2. load' = [load EXCEPT ![l] = [pc |-> "queued", key |-> k]]
        BY <2>4, <4>1
      <4>3. load'[l].pc = "queued" /\ load'[l].key = k /\ load'[l] # Free
        BY <4>2, <1>0 DEF Free
      <4>4. \A m \in Loads : m # l => load'[m] = load[m]
        BY <4>2, <1>0
      <4>5. \A j \in Keys : j # k /\ pending[j] # NoLoad => pending[j] # l
        BY <4>1 DEF PendingRight
      <4>6. \A m \in Loads : load[m] # Free => load[m].key # k
        BY <3>3 DEF PendingRight
      <4>7. \A m \in Loads : load'[m] # Free => pending'[load'[m].key] = m
        <5>1. ASSUME NEW m \in Loads, load'[m] # Free, m # l PROVE pending'[load'[m].key] = m
          BY <5>1, <4>4, <4>6, <2>4, <1>0 DEF PendingRight
        <5>2. pending'[load'[l].key] = l
          BY <4>3, <2>4, <1>0
        <5> QED BY <5>1, <5>2
      <4>8. \A j \in Keys : pending'[j] # NoLoad => load'[pending'[j]] # Free /\ load'[pending'[j]].key = j
        <5>1. ASSUME NEW j \in Keys, j # k, pending'[j] # NoLoad
              PROVE  load'[pending'[j]] # Free /\ load'[pending'[j]].key = j
          BY <5>1, <4>4, <4>5, <2>4, <1>0 DEF PendingRight
        <5>2. pending'[k] = l
          BY <2>4, <1>0
        <5> QED BY <5>1, <5>2, <4>3
      <4> QED BY <3>1, <4>7, <4>8 DEF PendingRight
    <3> QED BY <3>2, <3>3
  <2> QED BY <1>1, <2>3, <2>4, GetEffect
<1>2. ASSUME NEW r \in Requests, WaitTimesOut(r) \/ Wake(r) \/ Leave(r)
      PROVE  PendingRight' /\ PendingHasEntry'
  BY <1>2 DEF WaitTimesOut, Wake, Leave, PendingRight, PendingHasEntry, PendingKeys, Cached
<1>3. ASSUME NEW l \in Loads, LoadStep(l)
      PROVE  PendingRight' /\ PendingHasEntry'
  <2>1. load[l] # Free /\ load[l].key \in Keys /\ \A m \in Loads : m # l => load'[m] = load[m]
    BY <1>3, LoadEffect
  <2>2. pending[load[l].key] = l
    BY <2>1 DEF PendingRight
  <2>3. CASE /\ load'[l] # Free /\ load'[l].key = load[l].key
             /\ pending' = pending
             /\ \A k \in Keys : entries[k] # NoEntry => entries'[k] # NoEntry
    <3>1. PendingHasEntry'
      BY <2>3 DEF PendingHasEntry, PendingKeys, Cached
    <3>2. PendingRight'
      BY <2>1, <2>3, <1>0 DEF PendingRight
    <3> QED BY <3>1, <3>2
  <2>4. CASE /\ load'[l] = Free
             /\ pending' = [pending EXCEPT ![load[l].key] = NoLoad]
             /\ \A k \in Keys : pending[k] # NoLoad => entries'[k] = entries[k]
    <3>1. PendingHasEntry'
      BY <2>1, <2>4, <1>0 DEF PendingHasEntry, PendingKeys, Cached
    <3>2. \A m \in Loads : load'[m] # Free => pending'[load'[m].key] = m
      BY <2>1, <2>2, <2>4, <1>0, LoadFacts DEF PendingRight
    <3>3. \A k \in Keys : pending'[k] # NoLoad => load'[pending'[k]] # Free /\ load'[pending'[k]].key = k
      <4>1. \A k \in Keys : k # load[l].key => pending'[k] = pending[k] /\ pending[k] # l
        BY <2>1, <2>4, <1>0 DEF PendingRight
      <4>2. pending'[load[l].key] = NoLoad
        BY <2>1, <2>4, <1>0
      <4> QED BY <4>1, <4>2, <2>1, <1>0 DEF PendingRight
    <3> QED BY <3>1, <3>2, <3>3 DEF PendingRight
  <2> QED BY <1>3, <2>3, <2>4, LoadEffect
<1>4. CASE (\E h \in Hosts : HeartbeatStarts(h) \/ HeartbeatEnds(h)) \/ OperationActs
  BY <1>4 DEF HeartbeatStarts, HeartbeatEnds, OperationActs, PendingRight, PendingHasEntry, PendingKeys, Cached
<1>5. CASE Invalidate
  <2>1. \A l \in Loads : (load'[l] # Free <=> load[l] # Free) /\ (load[l] # Free => load'[l].key = load[l].key)
    BY <1>5, <1>0, InvalidateEffect, LoadFacts
  <2>2. PendingHasEntry'
    BY <1>5, InvalidateEffect DEF Invalidate, PendingHasEntry, PendingKeys, Cached
  <2> QED BY <1>5, <1>0, <2>1, <2>2 DEF Invalidate, PendingRight
<1>6. ASSUME NEW k \in Keys, EntryExpires(k) \/ BackoffEnds(k)
      PROVE  PendingRight' /\ PendingHasEntry'
  BY <1>6, TimeEffect DEF PendingRight, PendingHasEntry, PendingKeys, Cached
<1>7. CASE UNCHANGED vars
  BY <1>7 DEF vars, cluster, PendingRight, PendingHasEntry, PendingKeys, Cached
<1> QED BY <1>1, <1>2, <1>3, <1>4, <1>5, <1>6, <1>7 DEF Next

-----------------------------------------------------------------------------
(* Snapshots: only LoadPublishes gives an entry a new one.                   *)

Kept(k) ==
    /\ entries[k] # NoEntry /\ entries'[k] # NoEntry =>
         /\ entries'[k].value = entries[k].value
         /\ entries'[k].fresh => entries[k].fresh
    /\ entries[k] = NoEntry /\ entries'[k] # NoEntry => entries'[k].value = NoValue

LEMMA EntryEffect ==
    ASSUME TypeOK, [Next]_vars, \A l \in Loads : ~LoadPublishes(l), NEW k \in Keys
    PROVE  Kept(k)
<1> entries \in [Keys -> Entries \cup {NoEntry}]
  BY DEF TypeOK
<1>1. ASSUME NEW r \in Requests, NEW j \in Keys, NEW force \in BOOLEAN, Get(r, j, force)
      PROVE  Kept(k)
  <2>1. entries' = [entries EXCEPT ![j] = EntryOf(j)]
    BY <1>1, GetEffect
  <2> QED BY <2>1, EntryFacts DEF Kept
<1>2. ASSUME NEW l \in Loads, LoadStep(l)
      PROVE  Kept(k)
  <2>1. CASE LoadAcquires(l) \/ LoadReads(l) \/ LoadRaises(l)
    BY <2>1 DEF LoadAcquires, LoadReads, LoadRaises, Kept
  <2>2. CASE LoadRecordsError(l)
    <3>1. entries' = [entries EXCEPT ![load[l].key] =
                        [EntryOf(load[l].key) EXCEPT !.error = TRUE, !.backoff = TRUE]]
      BY <2>2 DEF LoadRecordsError
    <3>2. load[l].key \in Keys
      BY <1>2, LoadEffect
    <3>3. EntryOf(load[l].key) \in Entries
      BY <3>2, EntryFacts
    <3>4. [EntryOf(load[l].key) EXCEPT !.error = TRUE, !.backoff = TRUE].value = EntryOf(load[l].key).value
      BY <3>3 DEF Entries
    <3>5. [EntryOf(load[l].key) EXCEPT !.error = TRUE, !.backoff = TRUE].fresh = EntryOf(load[l].key).fresh
      BY <3>3 DEF Entries
    <3>6. CASE k = load[l].key
      BY <3>1, <3>2, <3>4, <3>5, <3>6, EntryFacts DEF Kept
    <3>7. CASE k # load[l].key
      BY <3>1, <3>7 DEF Kept
    <3> QED BY <3>6, <3>7
  <2>3. CASE LoadFinishes(l)
    BY <2>3 DEF LoadFinishes, Kept
  <2> QED BY <1>2, <2>1, <2>2, <2>3 DEF LoadStep
<1>3. CASE UNCHANGED entries
  BY <1>3 DEF Kept
<1>4. CASE Invalidate
  BY <1>4, InvalidateEffect DEF Kept
<1>5. ASSUME NEW j \in Keys, EntryExpires(j) \/ BackoffEnds(j)
      PROVE  Kept(k)
  BY <1>5, TimeEffect DEF Kept
<1> QED BY <1>1, <1>2, <1>3, <1>4, <1>5
        DEF Next, vars, WaitTimesOut, Wake, Leave, HeartbeatStarts, HeartbeatEnds, OperationActs

LEMMA PublishEffect ==
    ASSUME TypeOK, NEW l \in Loads, LoadPublishes(l)
    PROVE  /\ load[l].pc = "loaded" /\ load[l].key \in Keys /\ load[l].value \in Values
           /\ entries'[load[l].key] \in Entries
           /\ entries'[load[l].key].value = load[l].value
           /\ \A k \in Keys : k # load[l].key => entries'[k] = entries[k]
           /\ load'[l].pc = "finishing"
           /\ \A m \in Loads : m # l => load'[m] = load[m]
           /\ request' = Superseded({load[l].key})
           /\ UNCHANGED <<floor, version>>
<1>1. load[l] \in LoadRecords /\ load[l].pc = "loaded"
  BY DEF TypeOK, LoadPublishes
<1>2. load[l].key \in Keys /\ load[l].value \in Values
  BY <1>1, LoadFacts
<1>3. entries' = [entries EXCEPT ![load[l].key] = [NewEntry EXCEPT !.value = load[l].value, !.fresh = TRUE]]
  BY DEF LoadPublishes
<1>4. [NewEntry EXCEPT !.value = load[l].value, !.fresh = TRUE] \in Entries
  BY <1>2 DEF NewEntry, Entries
<1>5. [NewEntry EXCEPT !.value = load[l].value, !.fresh = TRUE].value = load[l].value
  BY DEF NewEntry
<1>6. load' = [load EXCEPT ![l] = [pc |-> "finishing", key |-> load[l].key]]
  BY DEF LoadPublishes
<1>7. load'[l].pc = "finishing" /\ \A m \in Loads : m # l => load'[m] = load[m]
  BY <1>6 DEF TypeOK
<1> QED BY <1>1, <1>2, <1>3, <1>4, <1>5, <1>7 DEF LoadPublishes, TypeOK, cluster

\* Which threads are loaded after a step, and with what.
LEMMA LoadedEffect ==
    ASSUME TypeOK, [Next]_vars, NEW l \in Loads, load'[l].pc = "loaded"
    PROVE  \/ load'[l] = load[l]
           \/ LoadReads(l) /\ load'[l].key = load[l].key /\ load'[l].value = [ver |-> version, crossed |-> FALSE]
           \/ /\ Invalidate /\ load[l].pc = "loaded" /\ load'[l].key = load[l].key
              /\ load'[l].value.ver = load[l].value.ver /\ load'[l].value.crossed
<1> load \in [Loads -> LoadRecords] /\ load[l] \in LoadRecords
  BY DEF TypeOK
<1>1. ASSUME NEW r \in Requests, NEW j \in Keys, NEW force \in BOOLEAN, Get(r, j, force)
      PROVE  load'[l] = load[l]
  BY <1>1, GetEffect
<1>2. ASSUME NEW m \in Loads, LoadStep(m), m # l
      PROVE  load'[l] = load[l]
  BY <1>2, LoadEffect
<1>3. ASSUME LoadStep(l)
      PROVE  LoadReads(l) /\ load'[l].key = load[l].key /\ load'[l].value = [ver |-> version, crossed |-> FALSE]
  <2>1. CASE LoadReads(l)
    BY <2>1 DEF LoadReads
  <2>2. ~LoadAcquires(l)
    BY LoadFacts DEF LoadAcquires
  <2>3. ~LoadRaises(l)
    BY LoadFacts DEF LoadRaises
  <2>4. ~LoadRecordsError(l)
    BY LoadFacts DEF LoadRecordsError
  <2>5. ~LoadPublishes(l)
    BY DEF LoadPublishes
  <2>6. ~LoadFinishes(l)
    BY DEF LoadFinishes, Free
  <2> QED BY <1>3, <2>1, <2>2, <2>3, <2>4, <2>5, <2>6 DEF LoadStep
<1>4. CASE UNCHANGED load
  BY <1>4
<1>5. CASE Invalidate
  BY <1>5, InvalidateEffect, LoadFacts
<1> QED BY <1>1, <1>2, <1>3, <1>4, <1>5
        DEF Next, vars, WaitTimesOut, Wake, Leave, HeartbeatStarts, HeartbeatEnds, OperationActs,
            EntryExpires, BackoffEnds

Snapshots == EntryHonest /\ LoadHonest /\ NotAhead /\ LoadNewer

LEMMA CounterEffect ==
    ASSUME TypeOK, [Next]_vars
    PROVE  /\ version \in Nat /\ floor \in Nat /\ floor <= version
           /\ version' \in Nat /\ version' >= version
           /\ ~Invalidate => floor' = floor
<1>1. version \in Nat /\ floor \in Nat /\ floor <= version
  BY LimitAssumption DEF TypeOK
<1>2. CASE UNCHANGED <<version, floor>>
  BY <1>1, <1>2
<1>3. CASE Invalidate
  BY <1>1, <1>3 DEF Invalidate
<1>4. CASE OperationActs
  BY <1>1, <1>4 DEF OperationActs
<1>5. ASSUME NEW l \in Loads, LoadStep(l) PROVE UNCHANGED <<version, floor>>
  BY <1>5 DEF LoadStep, LoadAcquires, LoadReads, LoadRaises, LoadPublishes, LoadRecordsError,
              LoadFinishes, cluster
<1> QED BY <1>2, <1>3, <1>4, <1>5
        DEF Next, vars, cluster, Get, WaitTimesOut, Wake, Leave, HeartbeatStarts, HeartbeatEnds,
            EntryExpires, BackoffEnds

\* A thread publishes what it read; no other thread works on its key.
LEMMA SnapshotsPublish ==
    ASSUME TypeOK, PendingRight, Snapshots, NEW l \in Loads, LoadPublishes(l)
    PROVE  Snapshots'
<1> DEFINE k == load[l].key
<1>1. load[l] # Free
  BY DEF LoadPublishes, Free
<1>2. ASSUME NEW m \in Loads, m # l, load'[m].pc = "loaded"
      PROVE  load'[m] = load[m] /\ load[m].key # k
  <2>1. load'[m] = load[m]
    BY <1>2, PublishEffect
  <2>2. load[m] # Free
    BY <1>2, <2>1 DEF Free
  <2> QED BY <1>1, <1>2, <2>1, <2>2 DEF PendingRight
<1>3. load'[l].pc # "loaded"
  BY PublishEffect
<1>4. EntryHonest'
  BY PublishEffect DEF Snapshots, EntryHonest, LoadHonest, HasValue, Current
<1>5. LoadHonest'
  BY <1>2, <1>3, PublishEffect DEF Snapshots, LoadHonest, Current
<1>6. NotAhead'
  BY <1>2, <1>3, PublishEffect DEF Snapshots, NotAhead, HasValue
<1>7. LoadNewer'
  <2>1. SUFFICES ASSUME NEW m \in Loads, load'[m].pc = "loaded", HasValue(load[m].key)'
                 PROVE  entries'[load'[m].key].value.ver <= load'[m].value.ver
    BY DEF LoadNewer, HasValue
  <2>2. load'[m] = load[m] /\ load[m].key # k
    BY <1>2, <1>3, <2>1
  <2>3. load[m].key \in Keys
    BY <2>1, <2>2, LoadFacts DEF TypeOK
  <2>4. entries'[load[m].key] = entries[load[m].key]
    BY <2>2, <2>3, PublishEffect
  <2> QED BY <2>1, <2>2, <2>4 DEF Snapshots, LoadNewer, HasValue
<1> QED BY <1>4, <1>5, <1>6, <1>7 DEF Snapshots

LEMMA SnapshotsStep ==
    ASSUME TypeOK, TypeOK', PendingRight, Snapshots, [Next]_vars
    PROVE  Snapshots'
<1>1. CASE \E l \in Loads : LoadPublishes(l)
  BY <1>1, SnapshotsPublish
<1>2. CASE \A l \in Loads : ~LoadPublishes(l)
  <2>1. \A k \in Keys : Kept(k)
    BY <1>2, EntryEffect
  <2>2. \A k \in Keys : HasValue(k)' => HasValue(k) /\ entries'[k].value = entries[k].value
    BY <2>1 DEF Kept, HasValue
  <2>3. EntryHonest'
    <3>1. SUFFICES ASSUME NEW k \in Keys, HasValue(k)', entries'[k].fresh
                   PROVE  Current(entries[k].value)'
      BY <2>2 DEF EntryHonest, Current
    <3>2. HasValue(k) /\ entries[k].fresh
      BY <3>1, <2>1, <2>2 DEF Kept, HasValue
    <3>3. ~Invalidate
      BY <3>1, <3>2, InvalidateEffect DEF HasValue
    <3>4. Current(entries[k].value)
      BY <3>2 DEF Snapshots, EntryHonest
    <3>5. entries'[k].value = entries[k].value /\ floor' = floor
      BY <3>1, <3>3, <2>2, CounterEffect
    <3> QED BY <3>1, <3>4, <3>5 DEF Current
  <2>4. LoadHonest'
    <3>1. SUFFICES ASSUME NEW l \in Loads, load'[l].pc = "loaded"
                   PROVE  load'[l].value.ver >= floor' \/ load'[l].value.crossed
      BY DEF LoadHonest, Current
    <3>2. CASE Invalidate
      BY <3>1, <3>2, InvalidateEffect
    <3>3. CASE ~Invalidate /\ load'[l] = load[l]
      BY <3>1, <3>3, CounterEffect DEF Snapshots, LoadHonest, Current
    <3>4. CASE ~Invalidate /\ load'[l].value = [ver |-> version, crossed |-> FALSE]
      BY <3>4, CounterEffect
    <3> QED BY <3>1, <3>2, <3>3, <3>4, LoadedEffect
  <2>5. NotAhead'
    <3>1. ASSUME NEW k \in Keys, HasValue(k)' PROVE entries'[k].value.ver <= version'
      <4>1. HasValue(k) /\ entries'[k].value = entries[k].value /\ entries[k].value.ver <= version
        BY <3>1, <2>2 DEF Snapshots, NotAhead
      <4>2. entries[k].value \in Values
        BY <4>1 DEF HasValue, TypeOK, Entries
      <4> QED BY <4>1, <4>2, CounterEffect DEF Values
    <3>2. ASSUME NEW l \in Loads, load'[l].pc = "loaded" PROVE load'[l].value.ver <= version'
      <4>1. load'[l].value.ver <= version
        <5>1. CASE load'[l] = load[l]
          BY <3>2, <5>1 DEF Snapshots, NotAhead
        <5>2. CASE load'[l].value = [ver |-> version, crossed |-> FALSE]
          BY <5>2, CounterEffect
        <5>3. CASE load[l].pc = "loaded" /\ load'[l].value.ver = load[l].value.ver
          BY <5>3 DEF Snapshots, NotAhead
        <5> QED BY <3>2, <5>1, <5>2, <5>3, LoadedEffect
      <4>2. load'[l].value \in Values
        BY <3>2, LoadFacts DEF TypeOK
      <4> QED BY <4>1, <4>2, CounterEffect DEF Values
    <3> QED BY <3>1, <3>2 DEF NotAhead
  <2>6. LoadNewer'
    <3>1. SUFFICES ASSUME NEW l \in Loads, load'[l].pc = "loaded", HasValue(load[l].key)'
                   PROVE  entries'[load'[l].key].value.ver <= load'[l].value.ver
      BY DEF LoadNewer, HasValue
    <3>2. load'[l].key \in Keys
      BY <3>1, LoadFacts DEF TypeOK
    <3>3. HasValue(load'[l].key) /\ entries'[load'[l].key].value = entries[load'[l].key].value
      BY <3>1, <3>2, <2>2 DEF HasValue
    <3>4. CASE load'[l] = load[l]
      BY <3>1, <3>3, <3>4 DEF Snapshots, LoadNewer
    <3>5. CASE load'[l].value = [ver |-> version, crossed |-> FALSE]
      BY <3>2, <3>3, <3>5 DEF Snapshots, NotAhead
    <3>6. CASE load[l].pc = "loaded" /\ load'[l].key = load[l].key /\ load'[l].value.ver = load[l].value.ver
      BY <3>3, <3>6 DEF Snapshots, LoadNewer
    <3> QED BY <3>1, <3>4, <3>5, <3>6, LoadedEffect
  <2> QED BY <2>3, <2>4, <2>5, <2>6 DEF Snapshots
<1> QED BY <1>1, <1>2

-----------------------------------------------------------------------------
(* Requests and the objects they hold.                                       *)

Holder(x) == x.pc \in {"waiting", "answered"} /\ x.same

\* A request that keeps its object, over a step that keeps it in the entry.
LEMMA HolderKeeps ==
    ASSUME TypeOK, SameObject, NEW r \in Requests, Holder(request[r]),
           request'[r].key = request[r].key, request'[r].value = request[r].value,
           Kept(request[r].key), entries'[request[r].key] # NoEntry
    PROVE  entries'[request'[r].key] # NoEntry /\ entries'[request'[r].key].value = request'[r].value
BY DEF SameObject, Holder, Kept

LEMMA SameObjectGet ==
    ASSUME TypeOK, SameObject, NEW r \in Requests, NEW k \in Keys, NEW force \in BOOLEAN, Get(r, k, force)
    PROVE  SameObject'
<1> DEFINE e == EntryOf(k)
<1>1. /\ entries' = [entries EXCEPT ![k] = e] /\ e # NoEntry
      /\ entries[k] # NoEntry => e = entries[k]
  BY EntryFacts, GetEffect
<1>2. /\ \A q \in Requests : q # r => request'[q] = request[q]
      /\ Holder(request'[r]) => request'[r].key = k /\ request'[r].value = e.value
  <2>1. CASE e.value # NoValue /\ request' = [request EXCEPT ![r] = Answer(k, e.value, TRUE)]
    BY <2>1 DEF TypeOK, Answer
  <2>2. CASE request' = [request EXCEPT ![r] = Raised]
    BY <2>2 DEF TypeOK, Raised, Holder
  <2>3. CASE \E l \in Loads : request' = [request EXCEPT ![r] =
                [pc |-> "waiting", key |-> k, on |-> l, value |-> e.value, same |-> TRUE]]
    BY <2>3 DEF TypeOK
  <2> QED BY <2>1, <2>2, <2>3 DEF Get
<1>3. ASSUME NEW q \in Requests, Holder(request'[q])
      PROVE  entries'[request'[q].key] # NoEntry /\ entries'[request'[q].key].value = request'[q].value
  <2>1. CASE q = r
    BY <1>1, <1>2, <1>3, <2>1 DEF TypeOK
  <2>2. CASE q # r
    <3>1. request'[q] = request[q] /\ request[q].key \in Keys
      BY <1>2, <1>3, <2>2, RequestFacts DEF Holder, TypeOK
    <3>2. entries[request[q].key] # NoEntry /\ entries[request[q].key].value = request[q].value
      BY <1>3, <3>1 DEF SameObject, Holder
    <3> QED BY <1>1, <3>1, <3>2 DEF TypeOK
  <2> QED BY <2>1, <2>2
<1> QED BY <1>3 DEF SameObject, Holder

LEMMA SameObjectRequest ==
    ASSUME TypeOK, SameObject, NEW r \in Requests, WaitTimesOut(r) \/ Wake(r) \/ Leave(r)
    PROVE  SameObject'
<1>1. UNCHANGED entries /\ request[r] \in RequestRecords
  BY DEF WaitTimesOut, Wake, Leave, TypeOK
<1>2. /\ \A q \in Requests : q # r => request'[q] = request[q]
      /\ Holder(request'[r]) =>
            /\ entries[request'[r].key] # NoEntry
            /\ entries[request'[r].key].value = request'[r].value
  <2>1. CASE WaitTimesOut(r)
    <3>1. request'[r] = IF request[r].value # NoValue
                        THEN Answer(request[r].key, request[r].value, request[r].same) ELSE Raised
      BY <2>1 DEF WaitTimesOut, TypeOK
    <3>2. request[r].pc = "waiting" /\ \A q \in Requests : q # r => request'[q] = request[q]
      BY <2>1 DEF WaitTimesOut, TypeOK
    <3> QED BY <3>1, <3>2 DEF SameObject, Holder, Answer, Raised
  <2>2. CASE Wake(r)
    <3> DEFINE k == request[r].key
    <3>1. k \in Keys
      BY <2>2, <1>1, RequestFacts DEF Wake
    <3>2. /\ request'[r] = IF EntryOf(k).value # NoValue THEN Answer(k, EntryOf(k).value, TRUE) ELSE Raised
          /\ \A q \in Requests : q # r => request'[q] = request[q]
      BY <2>2 DEF Wake, TypeOK
    <3> QED BY <3>1, <3>2, EntryFacts DEF Holder, Answer, Raised
  <2>3. CASE Leave(r)
    BY <2>3 DEF Leave, TypeOK, Holder, Idle
  <2> QED BY <2>1, <2>2, <2>3
<1> QED BY <1>1, <1>2 DEF SameObject, Holder

LEMMA SameObjectLoad ==
    ASSUME TypeOK, SameObject, [Next]_vars, NEW l \in Loads, LoadStep(l)
    PROVE  SameObject'
<1> DEFINE k == load[l].key
<1>1. SUFFICES ASSUME NEW r \in Requests, Holder(request'[r])
               PROVE  entries'[request'[r].key] # NoEntry /\ entries'[request'[r].key].value = request'[r].value
  BY DEF SameObject, Holder
<1>2. k \in Keys
  BY LoadEffect
<1>3. CASE LoadAcquires(l) \/ LoadReads(l) \/ LoadRaises(l)
  BY <1>1, <1>3 DEF LoadAcquires, LoadReads, LoadRaises, SameObject, Holder
<1>4. CASE LoadPublishes(l)
  <2>1. request'[r] = Superseded({k})[r]
    BY <1>4, PublishEffect
  <2>2. request'[r] = request[r] /\ request[r].key # k
    <3>1. Holder(Superseded({k})[r])
      BY <1>1, <2>1
    <3>2. Superseded({k})[r] = request[r] /\ request[r].key # k
      BY <3>1, SupersededFacts DEF Holder
    <3> QED BY <2>1, <3>2
  <2>3. request[r].key \in Keys
    BY <1>1, <2>2, RequestFacts DEF Holder, TypeOK
  <2>4. entries'[request[r].key] = entries[request[r].key]
    BY <1>4, <2>2, <2>3, PublishEffect
  <2> QED BY <1>1, <2>2, <2>4 DEF SameObject, Holder
<1>5. CASE LoadRecordsError(l)
  <2>1. request'[r] = request[r] /\ request[r].key \in Keys
    BY <1>1, <1>5, RequestFacts DEF LoadRecordsError, Holder, TypeOK
  <2>2. entries[request[r].key] # NoEntry
    BY <1>1, <2>1 DEF SameObject, Holder
  <2>3. entries'[request[r].key] # NoEntry
    <3>1. load'[l].pc = "finishing"
      BY <1>5 DEF LoadRecordsError, TypeOK
    <3>2. load'[l] # Free
      BY <3>1 DEF Free
    <3> QED BY <2>1, <2>2, <3>2, LoadEffect
  <2>4. \A m \in Loads : ~LoadPublishes(m)
    <3>1. load'[l].pc = "finishing" /\ load[l].pc = "failed"
      BY <1>5 DEF LoadRecordsError, TypeOK
    <3> QED BY <3>1, PublishEffect
  <2> QED BY <1>1, <2>1, <2>3, <2>4, EntryEffect, HolderKeeps
<1>6. CASE LoadFinishes(l)
  <2>1. PICK V \in Victims(k) :
           /\ entries' = [v \in Keys |-> IF v \in V THEN NoEntry ELSE entries[v]]
           /\ request' = Woken(l, k, V)
    BY <1>6 DEF LoadFinishes
  <2>2. request'[r] = Superseded(V)[r]
    BY <1>1, <2>1 DEF Woken, Holder
  <2>3. Holder(Superseded(V)[r])
    BY <1>1, <2>2
  <2>4. Superseded(V)[r] = request[r] /\ request[r].key \notin V
    BY <2>3, SupersededFacts DEF Holder
  <2>5. request'[r] = request[r]
    BY <2>2, <2>4
  <2>6. request[r].key \in Keys
    BY <1>1, <2>5, RequestFacts DEF Holder, TypeOK
  <2> QED BY <1>1, <2>1, <2>4, <2>5, <2>6 DEF SameObject, Holder
<1> QED BY <1>3, <1>4, <1>5, <1>6 DEF LoadStep

LEMMA SameObjectStep ==
    ASSUME TypeOK, SameObject, [Next]_vars
    PROVE  SameObject'
<1>1. CASE UNCHANGED <<entries, request>>
  BY <1>1 DEF SameObject
<1>2. ASSUME UNCHANGED request,
             \A k \in Keys : entries[k] # NoEntry =>
                entries'[k] # NoEntry /\ entries'[k].value = entries[k].value
      PROVE  SameObject'
  <2>1. SUFFICES ASSUME NEW r \in Requests, Holder(request[r])
                 PROVE  entries'[request[r].key] # NoEntry /\ entries'[request[r].key].value = request[r].value
    BY <1>2 DEF SameObject, Holder
  <2>2. request[r].key \in Keys
    BY <2>1, RequestFacts DEF Holder, TypeOK
  <2> QED BY <1>2, <2>1, <2>2 DEF SameObject, Holder
<1>3. CASE Invalidate
  <2>1. UNCHANGED request
    BY <1>3 DEF Invalidate
  <2> QED BY <1>2, <1>3, <2>1, InvalidateEffect
<1>4. ASSUME NEW k \in Keys, EntryExpires(k) \/ BackoffEnds(k) PROVE SameObject'
  BY <1>2, <1>4, TimeEffect
<1> QED BY <1>1, <1>3, <1>4, SameObjectGet, SameObjectRequest, SameObjectLoad
        DEF Next, vars, HeartbeatStarts, HeartbeatEnds, OperationActs

-----------------------------------------------------------------------------
(* The size of the cache.                                                    *)

LEMMA MinMaxFacts ==
    ASSUME NEW a \in Int, NEW b \in Int
    PROVE  /\ Max({a, b}) = IF a >= b THEN a ELSE b
           /\ Min({a, b}) = IF a <= b THEN a ELSE b
<1>1. CASE a >= b
  <2>1. \A x \in {a, b} : (\A y \in {a, b} : x >= y) <=> x = a
    BY <1>1
  <2>2. \A x \in {a, b} : (\A y \in {a, b} : x =< y) <=> x = b
    BY <1>1
  <2> QED BY <1>1, <2>1, <2>2 DEF Max, Min
<1>2. CASE a < b
  <2>1. \A x \in {a, b} : (\A y \in {a, b} : x >= y) <=> x = b
    BY <1>2
  <2>2. \A x \in {a, b} : (\A y \in {a, b} : x =< y) <=> x = a
    BY <1>2
  <2> QED BY <1>2, <2>1, <2>2 DEF Max, Min
<1> QED BY <1>1, <1>2

LEMMA CachedFinite ==
    /\ IsFiniteSet(Cached) /\ IsFiniteSet(PendingKeys)
    /\ Cardinality(Cached) \in Nat /\ Cardinality(PendingKeys) \in Nat
<1>1. IsFiniteSet(Keys)
  BY KeysAssumption, FS_Product DEF Keys
<1>2. IsFiniteSet(Cached) /\ IsFiniteSet(PendingKeys)
  BY <1>1, FS_Subset DEF Cached, PendingKeys
<1> QED BY <1>2, FS_CardinalityType

\* An eviction stops at Limit entries or when only the load's own key and
\* keys with loads in flight are left.
LEMMA VictimsSuffice ==
    ASSUME NEW k \in Keys, NEW V \in Victims(k), pending[k] # NoLoad, entries[k] # NoEntry, EntriesBounded
    PROVE  Cardinality(Cached \ V) <= Limit + Cardinality(PendingKeys \ {k})
<1> DEFINE C == {v \in Cached \ {k} : pending[v] = NoLoad}
           n == Cardinality(Cached) - Limit
<1>1. IsFiniteSet(Cached) /\ Cardinality(Cached) \in Nat /\ n \in Int /\ Limit \in Nat \ {0}
  BY CachedFinite, LimitAssumption
<1>2. IsFiniteSet(C) /\ Cardinality(C) \in Nat
  BY <1>1, FS_Subset, FS_CardinalityType
<1>3. V \subseteq C /\ Cardinality(V) = Min({Cardinality(C), Max({n, 0})})
  BY DEF Victims, Evictions
<1>4. Cardinality(Cached \ V) = Cardinality(Cached) - Cardinality(V)
  <2>1. Cached \cap V = V
    BY <1>3
  <2> QED BY <1>1, <2>1, FS_Difference
<1>5. /\ IsFiniteSet(PendingKeys \ {k}) /\ Cardinality(PendingKeys \ {k}) \in Nat
      /\ Cardinality(PendingKeys \ {k}) = Cardinality(PendingKeys) - 1
  <2>1. k \in PendingKeys
    BY DEF PendingKeys
  <2>2. IsFiniteSet(PendingKeys \ {k})
    BY CachedFinite, FS_RemoveElement
  <2> QED BY <2>1, <2>2, CachedFinite, FS_RemoveElement, FS_CardinalityType
<1>6. Max({n, 0}) \in Int /\ Max({n, 0}) >= n /\ Max({n, 0}) >= 0
  BY <1>1, MinMaxFacts
<1>7. CASE Cardinality(V) = Max({n, 0})
  BY <1>1, <1>4, <1>5, <1>6, <1>7
<1>8. CASE Cardinality(V) = Cardinality(C)
  <2>1. V = C
    BY <1>2, <1>3, <1>8, FS_Subset
  <2>2. Cached \ V \subseteq (PendingKeys \ {k}) \cup {k}
    BY <2>1 DEF Cached, PendingKeys
  <2>3. Cardinality((PendingKeys \ {k}) \cup {k}) = Cardinality(PendingKeys \ {k}) + 1
           /\ IsFiniteSet((PendingKeys \ {k}) \cup {k})
    BY <1>5, FS_AddElement
  <2>4. Cardinality(Cached \ V) <= Cardinality((PendingKeys \ {k}) \cup {k})
    BY <2>2, <2>3, FS_Subset
  <2>5. Cardinality(Cached \ V) \in Nat
    BY <1>1, FS_Difference, FS_CardinalityType
  <2> QED BY <1>1, <1>5, <2>3, <2>4, <2>5
<1>9. Cardinality(V) = Cardinality(C) \/ Cardinality(V) = Max({n, 0})
  <2>1. \A a, b \in Int : Min({a, b}) = a \/ Min({a, b}) = b
    BY MinMaxFacts
  <2>2. Cardinality(C) \in Int
    BY <1>2
  <2> HIDE DEF C, n
  <2> QED BY <1>3, <1>6, <2>1, <2>2
<1> QED BY <1>7, <1>8, <1>9

LEMMA BoundedStep ==
    ASSUME TypeOK, PendingRight, PendingHasEntry, EntriesBounded, [Next]_vars
    PROVE  EntriesBounded'
<1> entries \in [Keys -> Entries \cup {NoEntry}] /\ pending \in [Keys -> Loads \cup {NoLoad}]
  BY DEF TypeOK
<1>1. ASSUME Cached' = Cached, PendingKeys' = PendingKeys
      PROVE  EntriesBounded'
  BY <1>1 DEF EntriesBounded
<1>2. ASSUME NEW r \in Requests, NEW k \in Keys, NEW force \in BOOLEAN, Get(r, k, force)
      PROVE  EntriesBounded'
  <2>1. /\ entries' = [entries EXCEPT ![k] = EntryOf(k)] /\ EntryOf(k) # NoEntry
        /\ entries[k] # NoEntry => EntryOf(k) = entries[k]
    BY <1>2, GetEffect, EntryFacts
  <2>2. Cached' = Cached \cup {k}
    BY <2>1 DEF Cached
  <2>3. CASE pending' = pending
    <3>1. k \in Cached
      BY <1>2, <2>3, GetEffect DEF PendingHasEntry, PendingKeys, Cached
    <3> QED BY <1>1, <2>2, <2>3, <3>1 DEF PendingKeys
  <2>4. ASSUME NEW l \in Loads, Joins(k, l), pending' = [pending EXCEPT ![k] = l], pending' # pending
        PROVE  EntriesBounded'
    <3>1. k \notin PendingKeys
      BY <2>4 DEF Joins, PendingKeys
    <3>2. PendingKeys' = PendingKeys \cup {k}
      BY <2>4, NoneAssumption DEF PendingKeys
    <3>3. Cardinality(PendingKeys \cup {k}) = Cardinality(PendingKeys) + 1
      BY <3>1, CachedFinite, FS_AddElement
    <3>4. Cardinality(Cached \cup {k}) \in {Cardinality(Cached), Cardinality(Cached) + 1}
      <4>1. CASE k \in Cached
        BY <4>1, CachedFinite, FS_AddElement
      <4>2. CASE k \notin Cached
        BY <4>2, CachedFinite, FS_AddElement
      <4> QED BY <4>1, <4>2
    <3>5. Cardinality(Cached \cup {k}) <= Cardinality(Cached) + 1 /\ Cardinality(Cached \cup {k}) \in Nat
      BY <3>4, CachedFinite
    <3> QED BY <2>2, <3>2, <3>3, <3>5, CachedFinite, LimitAssumption DEF EntriesBounded
  <2> QED BY <1>2, <2>3, <2>4, GetEffect
<1>3. ASSUME NEW l \in Loads, LoadStep(l)
      PROVE  EntriesBounded'
  <2> DEFINE k == load[l].key
  <2>1. k \in Keys /\ pending[k] # NoLoad /\ entries[k] # NoEntry
    <3>1. k \in Keys /\ pending[k] = l
      BY <1>3, LoadEffect DEF PendingRight
    <3> QED BY <3>1, NoneAssumption DEF PendingHasEntry, PendingKeys, Cached
  <2>2. CASE LoadAcquires(l) \/ LoadReads(l) \/ LoadRaises(l)
    BY <1>1, <2>2 DEF LoadAcquires, LoadReads, LoadRaises, Cached, PendingKeys
  <2>3. CASE LoadPublishes(l) \/ LoadRecordsError(l)
    <3>1. pending' = pending /\ \A j \in Keys : j # k => entries'[j] = entries[j]
      BY <2>3 DEF LoadPublishes, LoadRecordsError
    <3>2. entries'[k] # NoEntry
      <4>1. load'[l].pc = "finishing"
        BY <2>3, LoadFacts DEF LoadPublishes, LoadRecordsError, TypeOK
      <4>2. load'[l] # Free
        BY <4>1 DEF Free
      <4> QED BY <1>3, <2>1, <4>2, LoadEffect
    <3>3. \A j \in Keys : entries'[j] # NoEntry <=> entries[j] # NoEntry
      BY <2>1, <3>1, <3>2
    <3> QED BY <1>1, <3>1, <3>3 DEF Cached, PendingKeys
  <2>4. CASE LoadFinishes(l)
    <3>1. PICK V \in Victims(k) :
             /\ pending' = [pending EXCEPT ![k] = NoLoad]
             /\ entries' = [v \in Keys |-> IF v \in V THEN NoEntry ELSE entries[v]]
      BY <2>4 DEF LoadFinishes
    <3>2. Cached' = Cached \ V
      BY <3>1 DEF Cached
    <3>3. PendingKeys' = PendingKeys \ {k}
      BY <2>1, <3>1 DEF PendingKeys
    <3> QED BY <2>1, <3>2, <3>3, VictimsSuffice DEF EntriesBounded
  <2> QED BY <1>3, <2>2, <2>3, <2>4 DEF LoadStep
<1>4. CASE Invalidate
  BY <1>1, <1>4, InvalidateEffect DEF Invalidate, Cached, PendingKeys
<1>5. ASSUME NEW k \in Keys, EntryExpires(k) \/ BackoffEnds(k)
      PROVE  EntriesBounded'
  BY <1>1, <1>5, TimeEffect DEF Cached, PendingKeys
<1>6. CASE UNCHANGED <<entries, pending>>
  BY <1>1, <1>6 DEF Cached, PendingKeys
<1> QED BY <1>2, <1>3, <1>4, <1>5, <1>6
        DEF Next, vars, WaitTimesOut, Wake, Leave, HeartbeatStarts, HeartbeatEnds, OperationActs

-----------------------------------------------------------------------------
(* The theorems.                                                             *)

LEMMA InvInit == Init => IInv
<1> SUFFICES ASSUME Init PROVE IInv
  OBVIOUS
<1>1. TypeOK
  BY TypeInit
<1>2. Cached = {} /\ PendingKeys = {}
  BY DEF Init, Cached, PendingKeys
<1>3. EntriesBounded
  BY <1>2, FS_EmptySet, LimitAssumption DEF EntriesBounded
<1>4. \A l \in Loads : load[l] = Free /\ load[l].pc = "free"
  BY DEF Init, Free
<1>5. \A k \in Keys : entries[k] = NoEntry /\ pending[k] = NoLoad
  BY DEF Init
<1>6. \A r \in Requests : request[r].pc = "idle"
  BY DEF Init, Idle
<1> QED BY <1>1, <1>2, <1>3, <1>4, <1>5, <1>6
        DEF IInv, PendingRight, PendingHasEntry, EntryHonest, LoadHonest, SameObject, NotAhead, LoadNewer, HasValue

LEMMA InvStep == IInv /\ [Next]_vars => IInv'
<1> SUFFICES ASSUME IInv, [Next]_vars PROVE IInv'
  OBVIOUS
<1>1. TypeOK /\ PendingRight /\ PendingHasEntry /\ Snapshots /\ SameObject /\ EntriesBounded
  BY DEF IInv, Snapshots
<1>2. TypeOK'
  BY <1>1, TypeStep
<1>3. PendingRight' /\ PendingHasEntry'
  BY <1>1, <1>2, PendingStep
<1>4. Snapshots'
  BY <1>1, <1>2, SnapshotsStep
<1>5. SameObject'
  BY <1>1, SameObjectStep
<1>6. EntriesBounded'
  BY <1>1, BoundedStep
<1> QED BY <1>2, <1>3, <1>4, <1>5, <1>6 DEF IInv, Snapshots

\* The inductive invariant holds in every reachable state.
THEOREM Invariance == Spec => []IInv
BY InvInit, InvStep, PTL DEF Spec

\* The variables keep their types.
THEOREM TypeCorrect == Spec => []TypeOK
<1>1. IInv => TypeOK
  BY DEF IInv
<1> QED BY <1>1, Invariance, PTL

\* get() and load() refresh a key in one thread at a time, whatever forced
\* requests, failures and evictions come together.
THEOREM OneRefreshAlways == Spec => []OneRefresh
<1>1. IInv => OneRefresh
  BY DEF IInv, PendingRight, OneRefresh
<1> QED BY <1>1, Invariance, PTL

\* load() never evicts the entry of a key with a load in flight.
THEOREM PendingAlways == Spec => []PendingHasEntry
<1>1. IInv => PendingHasEntry
  BY DEF IInv
<1> QED BY <1>1, Invariance, PTL

\* The eviction loop of load() keeps the cache within its limit and the keys
\* in flight.
THEOREM BoundedAlways == Spec => []EntriesBounded
<1>1. IInv => EntriesBounded
  BY DEF IInv
<1> QED BY <1>1, Invariance, PTL

\* status() calls an answer current only when it is, or was published across
\* an invalidation.
THEOREM HonestAlways == Spec => []LabelHonest
<1>1. ASSUME IInv PROVE LabelHonest
  <2>1. SUFFICES ASSUME NEW r \in Requests, request[r].pc = "answered", ~Stale(r)
                 PROVE  request[r].value.ver >= floor \/ request[r].value.crossed
    BY DEF LabelHonest
  <2> DEFINE k == request[r].key
  <2>2. TypeOK /\ EntryHonest /\ SameObject
    BY <1>1 DEF IInv
  <2>3. k \in Keys /\ request[r].value \in Values
    BY <2>1, <2>2, RequestFacts DEF TypeOK
  <2>4. request[r].same /\ EntryOf(k).fresh
    BY <2>1 DEF Stale
  <2>5. entries[k] # NoEntry /\ entries[k].value = request[r].value
    BY <2>1, <2>2, <2>4 DEF SameObject
  <2>6. HasValue(k) /\ entries[k].fresh
    BY <2>2, <2>3, <2>4, <2>5, EntryFacts, NoneAssumption DEF HasValue
  <2> QED BY <2>2, <2>3, <2>5, <2>6 DEF EntryHonest, Current
<1> QED BY <1>1, Invariance, PTL

\* No step of any thread replaces the snapshot of an entry by an older one
\* or by none.
THEOREM NeverBack == Spec => NeverGoesBack
<1>1. ASSUME IInv, [Next]_vars
      PROVE \A k \in Keys :
              entries[k] # NoEntry /\ entries'[k] # NoEntry /\ entries[k].value # NoValue
                => /\ entries'[k].value # NoValue
                   /\ entries'[k].value.ver >= entries[k].value.ver
  <2>1. SUFFICES ASSUME NEW k \in Keys, entries[k] # NoEntry, entries'[k] # NoEntry, entries[k].value # NoValue
                 PROVE  entries'[k].value # NoValue /\ entries'[k].value.ver >= entries[k].value.ver
    OBVIOUS
  <2>2. TypeOK /\ LoadNewer
    BY <1>1 DEF IInv
  <2>3. entries[k].value \in Values
    BY <2>1, <2>2 DEF TypeOK, Entries
  <2>4. CASE \A l \in Loads : ~LoadPublishes(l)
    <3>1. Kept(k)
      BY <1>1, <2>2, <2>4, EntryEffect
    <3> QED BY <2>1, <2>3, <3>1 DEF Kept, Values
  <2>5. ASSUME NEW l \in Loads, LoadPublishes(l)
        PROVE  entries'[k].value # NoValue /\ entries'[k].value.ver >= entries[k].value.ver
    <3>1. CASE k = load[l].key
      <4>1. entries'[k].value = load[l].value /\ load[l].value \in Values /\ load[l].pc = "loaded"
        BY <2>2, <2>5, <3>1, PublishEffect
      <4>2. entries[k].value.ver <= load[l].value.ver
        BY <2>1, <2>2, <3>1, <4>1 DEF LoadNewer, HasValue
      <4> QED BY <2>3, <4>1, <4>2, NoneAssumption DEF Values
    <3>2. CASE k # load[l].key
      <4>1. entries'[k] = entries[k]
        BY <2>1, <2>2, <2>5, <3>2, PublishEffect
      <4> QED BY <2>1, <2>3, <4>1 DEF Values
    <3> QED BY <3>1, <3>2
  <2> QED BY <2>4, <2>5
<1>2. IInv /\ [Next]_vars =>
        [\A k \in Keys :
              entries[k] # NoEntry /\ entries'[k] # NoEntry /\ entries[k].value # NoValue
                => /\ entries'[k].value # NoValue
                   /\ entries'[k].value.ver >= entries[k].value.ver]_vars
  BY <1>1
<1> QED BY <1>2, Invariance, PTL DEF Spec, NeverGoesBack
============================================================================
