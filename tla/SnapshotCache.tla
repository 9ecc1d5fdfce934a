--------------------------- MODULE SnapshotCache ---------------------------
(***************************************************************************)
(* The cache that serves cluster snapshots to the web pages                *)
(* (web-app/slurmy_web/snapshot_cache.py).  A key is a host and a page     *)
(* (the job list or one job).  Requests read or join a load; a load is a   *)
(* thread that waits for its host's lock, reads the cluster, publishes and *)
(* wakes its waiters; heartbeats take the host lock without waiting.       *)
(* Operations change the cluster and then invalidate the cache.            *)
(*                                                                         *)
(* Every `with self.lock' block is one step.  Time appears as the tests    *)
(* the code makes: an entry is fresh (now - time < ttl) or not, and in     *)
(* backoff (now < retry) or not.  A snapshot is represented by the number  *)
(* of operations the cluster had seen when it was read.                    *)
(***************************************************************************)
EXTENDS Integers, FiniteSetsExt

CONSTANTS
    Hosts,       \* SSH hosts
    Pages,       \* the detail argument of snapshot(): the job list, or a job
    Requests,    \* request threads
    Loads,       \* load threads that may exist at a time (a bound)
    Limit,       \* SnapshotCache.limit, 32 in the code
    MaxVersion,  \* operations that change the cluster (a bound)
    NoEntry, NoLoad, NoValue   \* Python's missing keys and None

ASSUME LimitAssumption == Limit \in Nat \ {0} /\ MaxVersion \in Nat
ASSUME KeysAssumption == IsFiniteSet(Hosts) /\ IsFiniteSet(Pages)

VARIABLES
    entries,     \* self.entries; NoEntry for an absent key
    pending,     \* self.pending: the load whose Event is stored, or NoLoad
    load,        \* the load threads
    request,     \* the requests
    heartbeat,   \* hosts whose lock try_host_call holds
    version,     \* operations that have changed the cluster
    floor        \* version at the last invalidate(); history

cluster == <<heartbeat, version, floor>>
vars == <<entries, pending, load, request, cluster>>

Keys == Hosts \X Pages
Host(k) == k[1]

\* A snapshot: when it was read, and whether an invalidation came between
\* reading and publishing it (crossed only records history).
Values == [ver : 0 .. MaxVersion, crossed : BOOLEAN]
Entries == [value : Values \cup {NoValue}, fresh : BOOLEAN, backoff : BOOLEAN, error : BOOLEAN]
LoadRecords == [pc : {"free"}] \cup
               [pc : {"queued", "reading", "failed", "finishing"}, key : Keys] \cup
               [pc : {"loaded"}, key : Keys, value : Values]
ASSUME NoneAssumption == NoEntry \notin Entries /\ NoLoad \notin Loads /\ NoValue \notin Values

\* same: the object held is still the one in the entry (Python's `is').
RequestRecords == [pc : {"idle", "raised"}] \cup
                  [pc : {"waiting"}, key : Keys, on : Loads, value : Values \cup {NoValue}, same : BOOLEAN] \cup
                  [pc : {"woken"}, key : Keys] \cup
                  [pc : {"answered"}, key : Keys, value : Values, same : BOOLEAN]

TypeOK ==
    /\ entries \in [Keys -> Entries \cup {NoEntry}]
    /\ pending \in [Keys -> Loads \cup {NoLoad}]
    /\ load \in [Loads -> LoadRecords]
    /\ request \in [Requests -> RequestRecords]
    /\ heartbeat \subseteq Hosts
    /\ version \in 0 .. MaxVersion
    /\ floor \in 0 .. version

Cached == {k \in Keys : entries[k] # NoEntry}
PendingKeys == {k \in Keys : pending[k] # NoLoad}
NewEntry == [value |-> NoValue, fresh |-> FALSE, backoff |-> FALSE, error |-> FALSE]
EntryOf(k) == IF entries[k] = NoEntry THEN NewEntry ELSE entries[k]
Idle == [pc |-> "idle"]
Raised == [pc |-> "raised"]
Free == [pc |-> "free"]

Init ==
    /\ entries = [k \in Keys |-> NoEntry]
    /\ pending = [k \in Keys |-> NoLoad]
    /\ load = [l \in Loads |-> Free]
    /\ request = [r \in Requests |-> Idle]
    /\ heartbeat = {} /\ version = 0 /\ floor = 0

----------------------------------------------------------------------------
(* Requests: get() *)

Answer(k, v, same) == [pc |-> "answered", key |-> k, value |-> v, same |-> same]

\* The requests, once the entries of the keys in K hold other objects.
Superseded(K) ==
    [r \in Requests |->
        IF request[r].pc \in {"waiting", "answered"} /\ request[r].key \in K
        THEN [request[r] EXCEPT !.same = FALSE] ELSE request[r]]

\* Mutant: the test for a pending load is forgotten.
JoinsNever(k, l) == load[l] = Free

\* The load whose Event the request uses: the pending one, or a new one.
Joins(k, l) == IF pending[k] # NoLoad THEN l = pending[k] ELSE load[l] = Free

\* A saved value that is young enough or may not be refreshed yet; an error
\* in backoff; or a load, which a forced or first request waits for.
Get(r, k, force) ==
    LET e == EntryOf(k)
        young == e.value # NoValue /\ e.fresh /\ ~force
    IN
    /\ request[r] = Idle
    /\ entries' = [entries EXCEPT ![k] = e]
    /\ \/ /\ young \/ (e.backoff /\ e.value # NoValue)
          /\ request' = [request EXCEPT ![r] = Answer(k, e.value, TRUE)]
          /\ UNCHANGED <<pending, load>>
       \/ /\ e.backoff /\ e.value = NoValue
          /\ request' = [request EXCEPT ![r] = Raised]
          /\ UNCHANGED <<pending, load>>
       \/ /\ ~young /\ ~e.backoff
          /\ \E l \in Loads :
                /\ Joins(k, l)
                /\ pending' = [pending EXCEPT ![k] = l]
                /\ load' = IF load[l] = Free
                           THEN [load EXCEPT ![l] = [pc |-> "queued", key |-> k]] ELSE load
                /\ request' = [request EXCEPT ![r] =
                       IF e.value # NoValue /\ ~force
                       THEN Answer(k, e.value, TRUE)
                       ELSE [pc |-> "waiting", key |-> k, on |-> l, value |-> e.value, same |-> TRUE]]
    /\ UNCHANGED cluster

\* Mutant: the saved value is returned without asking whether there is one.
WaitTimesOutBlindly(r) ==
    /\ request[r].pc = "waiting"
    /\ request' = [request EXCEPT ![r] = Answer(@.key, @.value, @.same)]
    /\ UNCHANGED <<entries, pending, load, cluster>>

\* pending.wait() ran into its timeout: the saved value, or an error.
WaitTimesOut(r) ==
    /\ request[r].pc = "waiting"
    /\ request' = [request EXCEPT ![r] =
           IF @.value # NoValue THEN Answer(@.key, @.value, @.same) ELSE Raised]
    /\ UNCHANGED <<entries, pending, load, cluster>>

\* The Event was set: read the entry again, which may be evicted by now.
Wake(r) ==
    /\ request[r].pc = "woken"
    /\ LET k == request[r].key IN
       request' = [request EXCEPT ![r] =
           IF EntryOf(k).value # NoValue THEN Answer(k, EntryOf(k).value, TRUE) ELSE Raised]
    /\ UNCHANGED <<entries, pending, load, cluster>>

Leave(r) ==
    /\ request[r].pc \in {"answered", "raised"}
    /\ request' = [request EXCEPT ![r] = Idle]
    /\ UNCHANGED <<entries, pending, load, cluster>>

\* Mutant: the identity of the value is not compared.
StaleByEntry(r) ==
    LET k == request[r].key IN
    pending[k] # NoLoad \/ EntryOf(k).error \/ ~EntryOf(k).fresh

\* status(key, value): what is shown beside an answer, now.
Stale(r) ==
    LET k == request[r].key IN
    ~request[r].same \/ pending[k] # NoLoad \/ EntryOf(k).error \/ ~EntryOf(k).fresh

----------------------------------------------------------------------------
(* Load threads: load() *)

HostLockFree(h) ==
    /\ h \notin heartbeat
    /\ \A l \in Loads : load[l].pc = "reading" => Host(load[l].key) # h

LoadAcquires(l) ==
    /\ load[l].pc = "queued"
    /\ HostLockFree(Host(load[l].key))
    /\ load' = [load EXCEPT ![l].pc = "reading"]
    /\ UNCHANGED <<entries, pending, request, cluster>>

\* loader() has read the cluster, or raised; the host lock is released.
LoadReads(l) ==
    /\ load[l].pc = "reading"
    /\ load' = [load EXCEPT ![l] = [pc |-> "loaded", key |-> @.key,
                                    value |-> [ver |-> version, crossed |-> FALSE]]]
    /\ UNCHANGED <<entries, pending, request, cluster>>

LoadRaises(l) ==
    /\ load[l].pc = "reading"
    /\ load' = [load EXCEPT ![l].pc = "failed"]
    /\ UNCHANGED <<entries, pending, request, cluster>>

LoadPublishes(l) ==
    /\ load[l].pc = "loaded"
    /\ LET k == load[l].key IN
       /\ entries' = [entries EXCEPT ![k] = [NewEntry EXCEPT !.value = load[l].value, !.fresh = TRUE]]
       /\ request' = Superseded({k})
       /\ load' = [load EXCEPT ![l] = [pc |-> "finishing", key |-> k]]
    /\ UNCHANGED <<pending, cluster>>

\* Mutant: a failed load forgets the saved value.
LoadRecordsErrorOnly(l) ==
    /\ load[l].pc = "failed"
    /\ entries' = [entries EXCEPT ![load[l].key] = [NewEntry EXCEPT !.error = TRUE, !.backoff = TRUE]]
    /\ load' = [load EXCEPT ![l].pc = "finishing"]
    /\ UNCHANGED <<pending, request, cluster>>

\* A failure keeps the saved value and starts the backoff.
LoadRecordsError(l) ==
    /\ load[l].pc = "failed"
    /\ LET k == load[l].key IN
       entries' = [entries EXCEPT ![k] = [EntryOf(k) EXCEPT !.error = TRUE, !.backoff = TRUE]]
    /\ load' = [load EXCEPT ![l].pc = "finishing"]
    /\ UNCHANGED <<pending, request, cluster>>

\* What is evicted when n entries are too many and C may go.
Evictions(n, C) == {V \in SUBSET C : Cardinality(V) = Min({Cardinality(C), Max({n, 0})})}

\* Mutant: keys with a load in flight are evicted too.
VictimsPending(k) == Evictions(Cardinality(Cached) - Limit, Cached \ {k})

\* Mutant: the entry of the load itself is not counted.
VictimsUncounted(k) ==
    Evictions(Cardinality(Cached \ {k}) - Limit, {v \in Cached \ {k} : pending[v] = NoLoad})

\* The keys evicted by a load of k: any other keys without a pending load,
\* until Limit entries remain or nobody is left to evict.
Victims(k) ==
    Evictions(Cardinality(Cached) - Limit, {v \in Cached \ {k} : pending[v] = NoLoad})

\* The waiters of load l on key k are woken when the keys in V are evicted.
Woken(l, k, V) ==
    [r \in Requests |-> IF request[r].pc = "waiting" /\ request[r].on = l
                        THEN [pc |-> "woken", key |-> k] ELSE Superseded(V)[r]]

\* Mutant: a failed load leaves its Event pending and unset.
LoadFinishesValue(l) ==
    /\ load[l].pc = "finishing" /\ ~EntryOf(load[l].key).error
    /\ LET k == load[l].key IN
       \E V \in Victims(k) :
           /\ pending' = [pending EXCEPT ![k] = NoLoad]
           /\ entries' = [v \in Keys |-> IF v \in V THEN NoEntry ELSE entries[v]]
           /\ load' = [load EXCEPT ![l] = Free]
           /\ request' = Woken(l, k, V)
    /\ UNCHANGED cluster

\* The finally block: pop the Event, evict, wake the waiters.
LoadFinishes(l) ==
    /\ load[l].pc = "finishing"
    /\ LET k == load[l].key IN
       \E V \in Victims(k) :
           /\ pending' = [pending EXCEPT ![k] = NoLoad]
           /\ entries' = [v \in Keys |-> IF v \in V THEN NoEntry ELSE entries[v]]
           /\ load' = [load EXCEPT ![l] = Free]
           /\ request' = Woken(l, k, V)
    /\ UNCHANGED cluster

LoadStep(l) ==
    \/ LoadAcquires(l) \/ LoadReads(l) \/ LoadRaises(l)
    \/ LoadPublishes(l) \/ LoadRecordsError(l) \/ LoadFinishes(l)

----------------------------------------------------------------------------
(* Heartbeats, operations and time *)

\* try_host_call: skipped while the host is being read, and possibly when
\* an entry is recent (its 20 seconds are unrelated to the entries' ttl).
HeartbeatStarts(h) ==
    /\ HostLockFree(h)
    /\ heartbeat' = heartbeat \cup {h}
    /\ UNCHANGED <<entries, pending, load, request, version, floor>>

HeartbeatEnds(h) ==
    /\ h \in heartbeat
    /\ heartbeat' = heartbeat \ {h}
    /\ UNCHANGED <<entries, pending, load, request, version, floor>>

\* A running operation changes the cluster; it invalidates when it ends.
OperationActs ==
    /\ version < MaxVersion
    /\ version' = version + 1
    /\ UNCHANGED <<entries, pending, load, request, heartbeat, floor>>

Invalidated(e) == IF e = NoEntry THEN e ELSE [e EXCEPT !.fresh = FALSE, !.backoff = FALSE]

\* Snapshots that are read and not yet published cross the invalidation.
Invalidate ==
    /\ floor < version
    /\ floor' = version
    /\ entries' = [k \in Keys |-> Invalidated(entries[k])]
    /\ load' = [l \in Loads |-> IF load[l].pc = "loaded"
                                THEN [load[l] EXCEPT !.value.crossed = TRUE] ELSE load[l]]
    /\ UNCHANGED <<pending, request, heartbeat, version>>

EntryExpires(k) ==
    /\ EntryOf(k).fresh
    /\ entries' = [entries EXCEPT ![k].fresh = FALSE]
    /\ UNCHANGED <<pending, load, request, cluster>>

BackoffEnds(k) ==
    /\ EntryOf(k).backoff
    /\ entries' = [entries EXCEPT ![k].backoff = FALSE]
    /\ UNCHANGED <<pending, load, request, cluster>>

Next ==
    \/ \E r \in Requests, k \in Keys, force \in BOOLEAN : Get(r, k, force)
    \/ \E r \in Requests : WaitTimesOut(r) \/ Wake(r) \/ Leave(r)
    \/ \E l \in Loads : LoadStep(l)
    \/ \E h \in Hosts : HeartbeatStarts(h) \/ HeartbeatEnds(h)
    \/ OperationActs \/ Invalidate
    \/ \E k \in Keys : EntryExpires(k) \/ BackoffEnds(k)

\* Load threads run, SSH calls end in an answer or an error, and a load that
\* waits for a lock which is released again and again gets it.
Fairness ==
    /\ \A l \in Loads : WF_vars(LoadStep(l)) /\ SF_vars(LoadAcquires(l))
    /\ \A h \in Hosts : WF_vars(HeartbeatEnds(h))

Spec == Init /\ [][Next]_vars /\ Fairness

----------------------------------------------------------------------------
(* Properties *)

\* An answer that status() would call current at this moment was read after
\* the last operation had invalidated the cache.  The one exception is a
\* snapshot that was read before the invalidation and published after it:
\* get() stamps it with the time of publication.
LabelHonest ==
    \A r \in Requests :
        request[r].pc = "answered" /\ ~Stale(r) =>
            request[r].value.ver >= floor \/ request[r].value.crossed

\* "Refreshing once per key": no two load threads work on the same key,
\* and the Event that a new request joins is the one of the running load,
\* up to the block in which that load wakes its waiters.
OneRefresh ==
    /\ \A l, m \in Loads : l # m /\ load[l] # Free /\ load[m] # Free => load[l].key # load[m].key
    /\ \A l \in Loads : load[l] # Free => pending[load[l].key] = l

\* The cache exceeds its limit only by the keys whose loads are in flight,
\* whatever requests, failures and evictions come together.
EntriesBounded == Cardinality(Cached) <= Limit + Cardinality(PendingKeys)

\* An entry stays while its load is in flight, so a failing load finds the
\* entry with its retry time and the saved value is not lost (a failure
\* after eviction would leave an entry without a time).
PendingHasEntry == PendingKeys \subseteq Cached

\* Pages never go back in time: while an entry exists, its snapshot is only
\* replaced by one read later, and a failed load takes nothing away.
NeverGoesBack ==
    [][\A k \in Keys :
          entries[k] # NoEntry /\ entries'[k] # NoEntry /\ entries[k].value # NoValue
            => /\ entries'[k].value # NoValue
               /\ entries'[k].value.ver >= entries[k].value.ver]_vars

\* A refresh that was started ends, whether the collection succeeds or not,
\* and everyone who waits for it is woken or gives up: no key stays pending.
RefreshEnds == \A k \in Keys : pending[k] # NoLoad ~> pending[k] = NoLoad
============================================================================
