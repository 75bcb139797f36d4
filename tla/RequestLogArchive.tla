------------------------- MODULE RequestLogArchive --------------------------
(***************************************************************************)
(* The life of request log entries: written to the hot database, moved in    *)
(* batches to one archive database per month, and dropped with the month's   *)
(* file. The two databases share no transaction. Both run with WAL,          *)
(* synchronous=NORMAL and no automatic checkpoint: a commit survives a crash *)
(* of the process but reaches stable storage only with a checkpoint. A power *)
(* failure brings a database back as of some commit since its last one.      *)
(***************************************************************************)
EXTENDS Integers, FiniteSets

CONSTANTS
    Logs,
    ArchiveSettings,    \* values WDAPM_REQUEST_LOG_ARCHIVE_ENABLED may have,
                        \* one after the other: a restart may change it
    HotRetention,       \* age at which an entry may leave the hot database
    Retention,          \* age at which an archive may go; 0 for never
    BatchSize,          \* WDAPM_REQUEST_LOG_ARCHIVE_BATCH_SIZE
    LimitCeiling,       \* the upper end of normalize_limit, 500 in the code
    MaxSize,            \* archive_max_bytes, in entries; 0 for no limit
    MonthLength,        \* length of a month in units of the clock
    MaxTime,            \* bound: the clock stops here
    MaxOutages          \* bound: number of power failures

ASSUME ArchiveAssumption ==
    /\ IsFiniteSet(Logs) /\ ArchiveSettings \subseteq BOOLEAN
    /\ {HotRetention, Retention, MaxSize, MaxTime, MaxOutages} \subseteq Nat
    /\ BatchSize \in Int /\ {LimitCeiling, MonthLength} \subseteq Nat \ {0}

VARIABLES
    now,
    created,        \* the column created_at, Never before the entry is written
    hot,            \* entries in table request_logs
    recoverable,    \* contents of that table a power failure may bring back
    archived,       \* entries in the archive files
    synced,         \* those whose file has been checkpointed since
    pass,           \* the maintenance task: the rest of its batch and the
                    \* month's entries it is moving
    retired,        \* history: entries whose last safe copy retention removed
    outages

vars == <<now, created, hot, recoverable, archived, synced, pass, retired, outages>>

Never == -1
Pass == [pc : {"idle", "copy", "sync", "delete", "prune"},
         batch : SUBSET Logs, group : SUBSET Logs]

Idle == [pc |-> "idle", batch |-> {}, group |-> {}]
Pruning == [pc |-> "prune", batch |-> {}, group |-> {}]

MonthAt(t) == t \div MonthLength
Month(l) == MonthAt(created[l])
LastMonth == MonthAt(MaxTime)

Init ==
    /\ now = 0 /\ created = [l \in Logs |-> Never]
    /\ hot = {} /\ recoverable = {{}}
    /\ archived = {} /\ synced = {}
    /\ pass = Idle /\ retired = {} /\ outages = 0

(***************************************************************************)
(* Around the maintenance task                                             *)
(***************************************************************************)
Insert(l) ==
    /\ created[l] = Never
    /\ created' = [created EXCEPT ![l] = now]
    /\ hot' = hot \cup {l}
    /\ recoverable' = recoverable \cup {hot'}
    /\ UNCHANGED <<now, archived, synced, pass, retired, outages>>

Tick ==
    /\ now < MaxTime
    /\ now' = now + 1
    /\ UNCHANGED <<created, hot, recoverable, archived, synced, pass, retired, outages>>

\* One of the checkpoints of the SQLite maintenance task, passive or truncating.
Checkpoint ==
    /\ recoverable' = {hot}
    /\ UNCHANGED <<now, created, hot, archived, synced, pass, retired, outages>>

(***************************************************************************)
(* The maintenance task                                                    *)
(***************************************************************************)
\* where created_at < datetime('now', '-N hours')
Expired == {l \in hot : created[l] < now - HotRetention}

\* normalize_limit
PassLimit == IF BatchSize < 1 THEN 1
             ELSE IF BatchSize > LimitCeiling THEN LimitCeiling ELSE BatchSize

\* What "order by created_at asc, id asc limit ?" may return; the ids of
\* entries of one second may be in any order.
Batches ==
    {b \in SUBSET Expired :
        /\ Cardinality(b) = PassLimit \/ (b = Expired /\ Cardinality(b) < PassLimit)
        /\ \A l \in b, k \in Expired \ b : created[l] =< created[k]}

\* The entries of the first month in the batch are moved together.
StartGroup(b) ==
    IF b = {} THEN Pruning
    ELSE [pc |-> "copy", batch |-> b,
          group |-> {l \in b : \A k \in b : Month(l) =< Month(k)}]

\* With archiving the batch is listed, to be moved.
StartRound ==
    /\ TRUE \in ArchiveSettings /\ pass.pc = "idle"
    /\ \E b \in Batches : pass' = StartGroup(b)
    /\ UNCHANGED <<now, created, hot, recoverable, archived, synced, retired, outages>>

\* Without, it is deleted outright.
PruneRows ==
    /\ FALSE \in ArchiveSettings /\ pass.pc = "idle"
    /\ \E b \in Batches :
         /\ hot' = hot \ b
         /\ recoverable' = recoverable \cup {hot'}
         /\ retired' = retired \cup b
    /\ pass' = Pruning
    /\ UNCHANGED <<now, created, archived, synced, outages>>

\* Mutant: a plain insert, which an entry that is already archived fails.
CopyAnew ==
    /\ pass.pc = "copy" /\ pass.group \cap archived = {}
    /\ archived' = archived \cup pass.group
    /\ pass' = [pass EXCEPT !.pc = "sync"]
    /\ UNCHANGED <<now, created, hot, recoverable, synced, retired, outages>>

\* One transaction of "insert or ignore" into the month's file.
Copy ==
    /\ pass.pc = "copy"
    /\ archived' = archived \cup pass.group
    /\ pass' = [pass EXCEPT !.pc = "sync"]
    /\ UNCHANGED <<now, created, hot, recoverable, synced, retired, outages>>

\* Mutant: the archive is left to be checkpointed some other time.
SyncLater ==
    /\ pass.pc = "sync"
    /\ pass' = [pass EXCEPT !.pc = "delete"]
    /\ UNCHANGED <<now, created, hot, recoverable, archived, synced, retired, outages>>

\* pragma wal_checkpoint on the month's file, whatever wrote its entries.
Sync ==
    /\ pass.pc = "sync"
    /\ synced' = synced \cup {l \in archived : \E k \in pass.group : Month(l) = Month(k)}
    /\ pass' = [pass EXCEPT !.pc = "delete"]
    /\ UNCHANGED <<now, created, hot, recoverable, archived, retired, outages>>

Delete ==
    /\ pass.pc = "delete"
    /\ hot' = hot \ pass.group
    /\ recoverable' = recoverable \cup {hot'}
    /\ pass' = StartGroup(pass.batch \ pass.group)
    /\ UNCHANGED <<now, created, archived, synced, retired, outages>>

\* Mutant: the rest of the batch survives an error.
FailAndRemember ==
    /\ pass.pc \in {"idle", "copy", "sync", "delete"}
    /\ pass' = [pass EXCEPT !.pc = "prune"]
    /\ UNCHANGED <<now, created, hot, recoverable, archived, synced, retired, outages>>

\* A statement fails: the round is abandoned, but files are pruned all the same.
Fail ==
    /\ pass.pc \in {"idle", "copy", "sync", "delete"}
    /\ pass' = Pruning
    /\ UNCHANGED <<now, created, hot, recoverable, archived, synced, retired, outages>>

(***************************************************************************)
(* prune_archive_files                                                     *)
(***************************************************************************)
Files == {Month(l) : l \in archived}

\* Mutant: the month the cutoff falls in goes as well.
ExpiredMonthInclusive(m) == Retention > 0 /\ Retention =< now /\ m =< MonthAt(now - Retention)

\* month < archive_cutoff_month(retention_days)
ExpiredMonth(m) == Retention > 0 /\ Retention =< now /\ m < MonthAt(now - Retention)

\* The size of a set of files: metadata.len() of the main file, which grows with
\* checkpoints only.
Exceeds(entries) == MaxSize > 0 /\ Cardinality(entries) > MaxSize

\* Mutant: a file's size is taken off before it is compared with the limit.
VisitTooLate(gone, m) ==
    IF m \in Files /\ (ExpiredMonth(m) \/ Exceeds({l \in synced : Month(l) \notin gone \cup {m}}))
    THEN gone \cup {m} ELSE gone

\* A file goes if its month has expired or if what is left exceeds the limit.
Visit(gone, m) ==
    IF m \in Files /\ (ExpiredMonth(m) \/ Exceeds({l \in synced : Month(l) \notin gone}))
    THEN gone \cup {m} ELSE gone

\* The files are visited from the oldest.
Doomed ==
    LET gone[m \in -1..LastMonth] == IF m = -1 THEN {} ELSE Visit(gone[m - 1], m)
    IN  gone[LastMonth]

\* Files of months in D are gone with their entries. Those that had been safe
\* by this copy alone are given up.
Drop(D) ==
    LET entries == {l \in archived : Month(l) \in D}
    IN  /\ archived' = archived \ entries
        /\ synced' = synced \ entries
        /\ retired' = retired \cup {l \in entries \cap synced : \E h \in recoverable : l \notin h}

PruneFiles ==
    /\ pass.pc = "prune"
    /\ Drop(Doomed)
    /\ pass' = Idle
    /\ UNCHANGED <<now, created, hot, recoverable, outages>>

\* remove_file fails: the files after it are left for the next round.
PruneFails ==
    /\ pass.pc = "prune"
    /\ \E d \in Doomed : Drop({m \in Doomed : m < d})
    /\ pass' = Idle
    /\ UNCHANGED <<now, created, hot, recoverable, outages>>

(***************************************************************************)
(* Failures of the whole                                                   *)
(***************************************************************************)
\* The process dies; what is committed stays.
Restart ==
    /\ pass.pc # "idle"
    /\ pass' = Idle
    /\ UNCHANGED <<now, created, hot, recoverable, archived, synced, retired, outages>>

PowerFailure ==
    /\ outages < MaxOutages
    /\ outages' = outages + 1
    /\ hot' \in recoverable
    /\ recoverable' = {hot'}
    /\ archived' \in SUBSET archived /\ synced \subseteq archived'
    /\ synced' = archived'
    /\ pass' = Idle
    /\ UNCHANGED <<now, created, retired>>

Next ==
    \/ \E l \in Logs : Insert(l)
    \/ Tick \/ Checkpoint
    \/ StartRound \/ PruneRows \/ Copy \/ Sync \/ Delete \/ Fail
    \/ PruneFiles \/ PruneFails
    \/ Restart \/ PowerFailure

Spec == Init /\ [][Next]_vars

\* The timer and the task keep running, rounds with archiving among theirs, and
\* no statement fails for ever.
Fairness ==
    /\ WF_vars(Tick) /\ WF_vars(PruneFiles)
    /\ SF_vars(StartRound) /\ SF_vars(Copy) /\ SF_vars(Sync) /\ SF_vars(Delete)

FairSpec == Spec /\ Fairness

-----------------------------------------------------------------------------
\* The round's batch belongs to a round that is under way, its group is part
\* of it, and nothing is checkpointed that is not there.
TypeOK ==
    /\ now \in 0..MaxTime /\ outages \in 0..MaxOutages
    /\ created \in [Logs -> {Never} \cup 0..MaxTime]
    /\ recoverable \subseteq SUBSET Logs /\ hot \in recoverable
    /\ archived \subseteq Logs /\ synced \subseteq archived /\ retired \subseteq Logs
    /\ pass \in Pass
    /\ pass.group \subseteq pass.batch
    /\ pass.pc \in {"idle", "prune"} => pass.batch = {}

\* Entries that a power failure would leave in one of the databases.
Durable == synced \cup {l \in Logs : \A h \in recoverable : l \in h}

Keeping == INSTANCE LogKeeping WITH present <- (hot \cup archived) \ retired,
                                    safe <- Durable \ retired

\* Moving entries between two databases with no common transaction loses none,
\* not even when the process or the power fails between any two statements.
KeepsLogs == Keeping!Spec

\* Retention is not hasty: what it removes from the hot database without a copy
\* is older than the hot retention, and what it removes from the archive is older
\* than the configured period or in a file from which on the size limit is passed.
RetiredInTime ==
    [][\A l \in retired' \ retired :
         IF pass.pc = "idle" THEN created[l] < now - HotRetention
         ELSE \/ Retention > 0 /\ created[l] < now - Retention
              \/ (/\ MaxSize > 0
                  /\ Cardinality({k \in synced : Month(k) >= Month(l)}) > MaxSize)]_vars

\* A round that prunes without error leaves the archive within both limits.
ArchiveWithinLimits ==
    [][PruneFiles =>
         /\ MaxSize > 0 => Cardinality(synced') =< MaxSize
         /\ \A l \in archived' : ~ExpiredMonth(Month(l))]_vars

\* However often rounds fail, an entry past the hot retention leaves the hot
\* database.
ExpiredLeave == \A l \in Logs : l \in Expired ~> l \notin hot

=============================================================================
