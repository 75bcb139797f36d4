---------------------- MODULE RequestLogArchiveProofs -----------------------
(***************************************************************************)
(* The request log keeps what it has written, for any number of entries,    *)
(* any retention and any number of failures; it retires no entry too early  *)
(* and stays within its limits. The month its files are dropped by is that  *)
(* of the Gregorian calendar, on every day from 1970 on, not only in the    *)
(* years of a run.                                                          *)
(***************************************************************************)
EXTENDS MCArchive, FiniteSetTheorems, WellFoundedInduction, TLAPS

(***************************************************************************)
(* The inductive invariant. An entry leaves the hot table only after its    *)
(* archive file was checkpointed, and what an archive holds beyond its last *)
(* checkpoint is still in the hot table, unless retention has taken it.     *)
(***************************************************************************)
Moved ==
    /\ \A h \in recoverable : h \subseteq hot \cup synced \cup retired
    /\ archived \subseteq synced \cup hot \cup retired
    /\ pass.batch \subseteq hot
    /\ pass.pc = "sync" => pass.group \subseteq archived
    /\ pass.pc = "delete" => pass.group \subseteq synced

IInv == TypeOK /\ Moved

\* What StartGroup makes of a batch is a round's state that fits it.
LEMMA GroupFits ==
    ASSUME NEW b \in SUBSET Logs
    PROVE  /\ StartGroup(b) \in Pass
           /\ StartGroup(b).batch \subseteq b
           /\ StartGroup(b).group \subseteq StartGroup(b).batch
           /\ StartGroup(b).pc \in {"copy", "prune"}
           /\ StartGroup(b).pc = "prune" => StartGroup(b).batch = {}
<1>1. CASE b = {}
    BY <1>1 DEF StartGroup, Pruning, Pass
<1>2. CASE b # {}
    <2> DEFINE g == {l \in b : \A k \in b : Month(l) =< Month(k)}
    <2>1. g \subseteq b OBVIOUS
    <2>2. StartGroup(b) = [pc |-> "copy", batch |-> b, group |-> g]
        BY <1>2 DEF StartGroup
    <2> HIDE DEF g
    <2> QED BY <2>1, <2>2 DEF Pass
<1> QED BY <1>1, <1>2

LEMMA Batched == ASSUME TypeOK, NEW b \in Batches PROVE b \subseteq hot /\ b \subseteq Logs
BY DEF TypeOK, Batches, Expired

\* Dropping files keeps the invariant, and is a retirement to LogKeeping.
LEMMA Dropping ==
    ASSUME IInv, NEW D, Drop(D), pass.pc = "prune", pass' = Idle,
           UNCHANGED <<now, created, hot, recoverable, outages>>
    PROVE  IInv' /\ \E S \in SUBSET Logs : Keeping!Retire(S)
<1> DEFINE entries == {l \in archived : Month(l) \in D}
           S == {l \in entries \cap synced : \E h \in recoverable : l \notin h}
<1>1. /\ archived' = archived \ entries /\ synced' = synced \ entries
      /\ retired' = retired \cup S
    BY DEF Drop
<1>2. entries \subseteq archived /\ S \subseteq entries \cap synced
    OBVIOUS
<1>3. \A l \in entries \cap synced : l \notin S => \A h \in recoverable : l \in h
    OBVIOUS
<1>4. \A l \in S : \E h \in recoverable : l \notin h
    OBVIOUS
<1> HIDE DEF entries, S
<1>5. TypeOK'
    BY <1>1, <1>2 DEF IInv, TypeOK, Pass, Idle
<1>6. Moved'
    <2>1. \A h \in recoverable' : h \subseteq hot' \cup synced' \cup retired'
        BY <1>1, <1>2, <1>3 DEF IInv, TypeOK, Moved
    <2>2. archived' \subseteq synced' \cup hot' \cup retired'
        BY <1>1 DEF IInv, Moved
    <2> QED BY <2>1, <2>2 DEF Moved, Idle
<1>7. ((hot \cup archived) \ retired)' = ((hot \cup archived) \ retired) \ S
    BY <1>1, <1>2, <1>3 DEF IInv, TypeOK, Moved
<1>8. (Durable \ retired)' = (Durable \ retired) \ S
    BY <1>1, <1>2, <1>3, <1>4 DEF Durable, IInv, TypeOK
<1>9. S \in SUBSET Logs
    BY <1>2 DEF IInv, TypeOK
<1> QED BY <1>5, <1>6, <1>7, <1>8, <1>9 DEF IInv, Keeping!Retire

LEMMA Initially == Init => IInv /\ Keeping!Init
<1> SUFFICES ASSUME Init PROVE IInv /\ Keeping!Init
    OBVIOUS
<1>1. IInv
    BY ArchiveAssumption DEF Init, IInv, TypeOK, Moved, Pass, Idle
<1>2. Keeping!Init
    BY DEF Init, Keeping!Init, Durable
<1> QED BY <1>1, <1>2

(***************************************************************************)
(* Every step keeps the invariant and is a step of LogKeeping, or nothing   *)
(* that LogKeeping sees.                                                    *)
(***************************************************************************)
LEMMA Stepwise ==
    ASSUME IInv, [Next]_vars
    PROVE  IInv' /\ [Keeping!Next]_Keeping!vars
<1> USE DEF IInv
<1> DEFINE Unseen == UNCHANGED <<(hot \cup archived) \ retired, Durable \ retired>>
<1>1. ASSUME NEW l \in Logs, Insert(l) PROVE IInv' /\ [Keeping!Next]_Keeping!vars
    <2>1. TypeOK' /\ Moved'
        BY <1>1 DEF Insert, TypeOK, Moved, Pass
    <2>2. Durable' = Durable
        BY <1>1 DEF Insert, TypeOK, Durable
    <2>3. l \in retired => UNCHANGED Keeping!vars
        BY <1>1, <2>2 DEF Insert, Keeping!vars
    <2>4. l \notin retired => Keeping!Write(l)
        BY <1>1, <2>2 DEF Insert, Keeping!Write
    <2> QED BY <2>1, <2>3, <2>4 DEF Keeping!Next
<1>2. CASE Tick
    BY <1>2, ArchiveAssumption DEF Tick, TypeOK, Moved, Pass, Durable, Keeping!vars
<1>3. CASE Checkpoint
    <2>1. TypeOK' /\ Moved'
        BY <1>3 DEF Checkpoint, TypeOK, Moved, Pass
    <2>2. Keeping!Secure
        BY <1>3 DEF Checkpoint, TypeOK, Durable, Keeping!Secure
    <2> QED BY <2>1, <2>2 DEF Keeping!Next
<1>4. CASE StartRound
    <2>1. PICK b \in Batches : pass' = StartGroup(b)
        BY <1>4 DEF StartRound
    <2>2. b \subseteq hot /\ b \subseteq Logs
        BY Batched
    <2>3. UNCHANGED <<now, created, hot, recoverable, archived, synced, retired, outages>>
        BY <1>4 DEF StartRound
    <2>4. TypeOK' /\ Moved'
        BY <2>1, <2>2, <2>3, GroupFits DEF TypeOK, Moved
    <2> QED BY <2>3, <2>4 DEF Durable, Keeping!vars
<1>14. CASE PruneRows
    <2>1. PICK b \in Batches :
             /\ hot' = hot \ b /\ recoverable' = recoverable \cup {hot'}
             /\ retired' = retired \cup b
        BY <1>14 DEF PruneRows
    <2>2. b \subseteq hot /\ b \subseteq Logs
        BY Batched
    <2>3. pass' = Pruning /\ UNCHANGED <<now, created, archived, synced, outages>>
        BY <1>14 DEF PruneRows
    <2>4. TypeOK' /\ Moved'
        BY <2>1, <2>2, <2>3 DEF TypeOK, Moved, Pruning, Pass
    <2>5. Keeping!Retire(b)
        BY <2>1, <2>2, <2>3 DEF TypeOK, Durable, Keeping!Retire
    <2> QED BY <2>2, <2>4, <2>5 DEF Keeping!Next
<1>5. CASE Copy
    <2>1. TypeOK' /\ Moved'
        BY <1>5 DEF Copy, TypeOK, Moved, Pass
    <2>2. (hot \cup archived)' = hot \cup archived
        BY <1>5 DEF Copy, TypeOK, Moved
    <2> QED BY <1>5, <2>1, <2>2 DEF Copy, Durable, Keeping!vars
<1>6. CASE Sync
    <2>1. pass.group \subseteq synced' /\ synced \subseteq synced' /\ synced' \subseteq archived
        BY <1>6 DEF Sync, TypeOK, Moved
    <2>2. TypeOK' /\ Moved'
        BY <1>6, <2>1 DEF Sync, TypeOK, Moved, Pass
    <2>3. Keeping!Secure
        BY <1>6, <2>1 DEF Sync, TypeOK, Durable, Keeping!Secure
    <2> QED BY <2>2, <2>3 DEF Keeping!Next
<1>7. CASE Delete
    <2>1. /\ pass.group \subseteq synced /\ hot' = hot \ pass.group
          /\ recoverable' = recoverable \cup {hot'}
          /\ pass' = StartGroup(pass.batch \ pass.group)
          /\ UNCHANGED <<now, created, archived, synced, retired, outages>>
        BY <1>7 DEF Delete, Moved
    <2>2. pass.batch \ pass.group \in SUBSET Logs /\ pass.batch \ pass.group \subseteq hot'
        BY <2>1 DEF TypeOK, Moved, Pass
    <2>3. TypeOK' /\ Moved'
        BY <2>1, <2>2, GroupFits DEF TypeOK, Moved
    <2>4. Unseen
        BY <2>1 DEF TypeOK, Durable
    <2> QED BY <2>3, <2>4 DEF Keeping!vars
<1>8. CASE Fail
    BY <1>8 DEF Fail, Pruning, TypeOK, Moved, Pass, Durable, Keeping!vars
<1>9. CASE PruneFiles
    BY <1>9, Dropping DEF PruneFiles, Keeping!Next
<1>10. CASE PruneFails
    <2>1. PICK d \in Doomed : Drop({m \in Doomed : m < d})
        BY <1>10 DEF PruneFails
    <2> QED BY <1>10, <2>1, Dropping DEF PruneFails, Keeping!Next
<1>11. CASE Restart
    BY <1>11 DEF Restart, Idle, TypeOK, Moved, Pass, Durable, Keeping!vars
<1>12. CASE PowerFailure
    <2>1. TypeOK' /\ Moved'
        BY <1>12, ArchiveAssumption DEF PowerFailure, Idle, TypeOK, Moved, Pass
    <2>2. Durable' = hot' \cup archived'
        BY <1>12 DEF PowerFailure, TypeOK, Durable
    <2>3. Keeping!PowerFailure
        BY <1>12, <2>2 DEF PowerFailure, TypeOK, Moved, Durable, Keeping!PowerFailure
    <2> QED BY <2>1, <2>3 DEF Keeping!Next
<1>13. CASE UNCHANGED vars
    BY <1>13 DEF vars, TypeOK, Moved, Pass, Durable, Keeping!vars
<1> QED
    BY <1>1, <1>2, <1>3, <1>4, <1>5, <1>6, <1>7, <1>8, <1>9, <1>10, <1>11, <1>12, <1>13, <1>14
    DEF Next

\* The type invariant of the archive holds for every instance: a round's batch
\* and group fit each other, and files hold at least what was checkpointed.
THEOREM Typing == Spec => []TypeOK
<1>1. Spec => []IInv
    BY Initially, Stepwise, PTL DEF Spec
<1> QED BY <1>1, PTL DEF IInv

\* Moving entries from the hot database to the monthly archives, in two
\* transactions, and pruning the archives, implements LogKeeping: nothing is
\* lost that retention has not taken.
THEOREM NothingIsLost == Spec => KeepsLogs
<1>1. Spec => []IInv
    BY Initially, Stepwise, PTL DEF Spec
<1> QED BY <1>1, Initially, Stepwise, PTL DEF Spec, KeepsLogs, Keeping!Spec

(***************************************************************************)
(* What prune_archive_files removes. The loop takes the size of each file it *)
(* removes off the total, so whether a file goes depends on those before it; *)
(* it comes to this: a file goes if its month has expired, or if the entries *)
(* from its month on are more than the limit. The loop's recursion has one    *)
(* solution only, since the first month at which another one differed would  *)
(* follow a month at which it does not.                                       *)
(***************************************************************************)
\* A set of numbers that is not empty has a least one.
LEMMA Least ==
    ASSUME NEW S \in SUBSET Nat, S # {}
    PROVE  \E x \in S : \A y \in S : x =< y
<1>1. IsWellFoundedOn(OpToRel(<, Nat), Nat)
    BY NatLessThanWellFounded, Zenon
<1>2. PICK x \in S : \A y \in S : ~ (<<y, x>> \in OpToRel(<, Nat))
    BY <1>1, WFMin, Zenon
<1>3. \A y \in S : ~ (y < x)
    BY <1>2 DEF OpToRel
<1> QED BY <1>3

\* Division by a month's length keeps the order of times.
LEMMA Division ==
    ASSUME NEW x \in Int, NEW y \in Int, x =< y, NEW n \in Nat \ {0}
    PROVE  x \div n \in Int /\ x \div n =< y \div n /\ (0 =< x => 0 =< x \div n)
OBVIOUS

\* Whatever is stored anywhere has been written.
Dated ==
    /\ \A l \in archived : created[l] # Never
    /\ \A h \in recoverable : \A l \in h : created[l] # Never

\* The checkpointed entries from month m on.
From(m) == {l \in synced : Month(l) >= m}

\* The files up to month m which prune_archive_files should remove.
UpTo(m) == {k \in Files : k =< m /\ (ExpiredMonth(k) \/ Exceeds(From(k)))}

\* Every archived entry belongs to a month of the model's calendar.
LEMMA Calendar ==
    ASSUME TypeOK, Dated
    PROVE  /\ LastMonth \in Nat
           /\ \A l \in archived : Month(l) \in 0..LastMonth
           /\ Files \subseteq 0..LastMonth
           /\ IsFiniteSet(synced)
<1>1. MaxTime \in Nat /\ MonthLength \in Nat \ {0}
    BY ArchiveAssumption
<1>2. LastMonth \in Nat
    BY <1>1, Division DEF LastMonth, MonthAt
<1>3. ASSUME NEW l \in archived PROVE Month(l) \in 0..LastMonth
    <2>1. created[l] \in 0..MaxTime
        BY <1>3 DEF TypeOK, Dated, Never
    <2> QED BY <1>1, <1>2, <2>1, Division DEF LastMonth, MonthAt, Month
<1>4. IsFiniteSet(synced)
    BY ArchiveAssumption, FS_Subset DEF TypeOK
<1> QED BY <1>2, <1>3, <1>4 DEF Files

LEMMA Smaller ==
    ASSUME NEW A, NEW B, A \subseteq B, IsFiniteSet(B), Exceeds(A)
    PROVE  Exceeds(B)
<1>1. Cardinality(A) =< Cardinality(B) /\ Cardinality(A) \in Nat /\ Cardinality(B) \in Nat
    BY FS_Subset, FS_CardinalityType
<1> QED BY <1>1, ArchiveAssumption DEF Exceeds

\* Once the files before m that exceed the limit are gone, what is left is as
\* much as the limit says of the entries from m on.
LEMMA LeftFits ==
    ASSUME TypeOK, Dated, NEW m \in Int,
           ~Exceeds(From(m)) 
    PROVE  ~Exceeds({l \in synced : Month(l) \notin UpTo(m - 1)})
<1> DEFINE left == {l \in synced : Month(l) \notin UpTo(m - 1)}
           months == {Month(l) : l \in left}
<1>1. IsFiniteSet(synced) /\ synced \subseteq archived /\ \A l \in synced : Month(l) \in Nat
    BY Calendar DEF TypeOK
<1>2. CASE left = {}
    <2>1. Cardinality({}) = 0 /\ MaxSize \in Nat
        BY FS_EmptySet, ArchiveAssumption
    <2>2. ~Exceeds({})
        BY <2>1 DEF Exceeds
    <2> QED BY <1>2, <2>2
<1>3. CASE left # {}
    <2>1. months \in SUBSET Nat /\ months # {}
        BY <1>1, <1>3
    <2>2. PICK k \in months : \A y \in months : k =< y
        BY <2>1, Least
    <2>3. left \subseteq From(k)
        BY <2>2 DEF From
    <2>4. IsFiniteSet(From(k))
        BY <1>1, FS_Subset DEF From
    <2>5. k \in Files /\ k \notin UpTo(m - 1) /\ k \in Nat
        BY <1>1, <2>1 DEF Files
    <2>6. k < m => ~Exceeds(From(k))
        BY <2>5 DEF UpTo
    <2>7. m =< k => left \subseteq From(m)
        BY <1>1, <2>3, <2>5 DEF From
    <2>8. IsFiniteSet(From(m))
        BY <1>1, FS_Subset DEF From
    <2>9. ~Exceeds(left)
        <3> HIDE DEF left, months
        <3>1. CASE k < m
            BY <3>1, <2>3, <2>4, <2>6, Smaller
        <3>2. CASE m =< k
            BY <3>2, <2>7, <2>8, Smaller
        <3> QED BY <3>1, <3>2, <2>5
    <2> QED BY <2>9
<1> QED BY <1>2, <1>3

\* A visit to the next file goes on as it should.
LEMMA VisitNext ==
    ASSUME TypeOK, Dated, NEW m \in Nat
    PROVE  Visit(UpTo(m - 1), m) = UpTo(m)
<1> DEFINE left == {l \in synced : Month(l) \notin UpTo(m - 1)}
<1>1. IsFiniteSet(synced) /\ Files \subseteq Nat /\ \A l \in synced : Month(l) \in Nat
    BY Calendar DEF TypeOK
<1>2. From(m) \subseteq left /\ IsFiniteSet(left)
    <2>1. IsFiniteSet(left)
        BY <1>1, FS_Subset
    <2>2. \A k \in UpTo(m - 1) : k \in Nat /\ k =< m - 1
        BY <1>1 DEF UpTo
    <2> QED BY <1>1, <2>1, <2>2 DEF From
<1>3. Exceeds(left) <=> Exceeds(From(m))
    <2> HIDE DEF left
    <2>1. Exceeds(From(m)) => Exceeds(left)
        BY <1>2, Smaller
    <2>2. ~Exceeds(From(m)) => ~Exceeds(left)
        BY LeftFits DEF left
    <2> QED BY <2>1, <2>2
<1>4. Visit(UpTo(m - 1), m) = IF m \in Files /\ (ExpiredMonth(m) \/ Exceeds(From(m)))
                              THEN UpTo(m - 1) \cup {m} ELSE UpTo(m - 1)
    BY <1>3 DEF Visit
<1>5. UpTo(m) = IF m \in Files /\ (ExpiredMonth(m) \/ Exceeds(From(m)))
                THEN UpTo(m - 1) \cup {m} ELSE UpTo(m - 1)
    <2>1. \A k \in Files : k =< m <=> k =< m - 1 \/ k = m
        BY <1>1
    <2> DEFINE bad(k) == ExpiredMonth(k) \/ Exceeds(From(k))
    <2>2. /\ UpTo(m) = {k \in Files : k =< m /\ bad(k)}
          /\ UpTo(m - 1) = {k \in Files : k =< m - 1 /\ bad(k)}
        BY DEF UpTo
    <2> HIDE DEF bad
    <2>3. UpTo(m) = IF m \in Files /\ bad(m) THEN UpTo(m - 1) \cup {m} ELSE UpTo(m - 1)
        BY <2>1, <2>2
    <2> QED BY <2>3 DEF bad
<1> QED BY <1>4, <1>5

\* The loop over the files amounts to a condition on each file by itself.
LEMMA DoomedIs ==
    ASSUME TypeOK, Dated
    PROVE  Doomed = UpTo(LastMonth)
<1> DEFINE Follows(f) == f = [m \in -1..LastMonth |-> IF m = -1 THEN {} ELSE Visit(f[m - 1], m)]
           closed == [m \in -1..LastMonth |-> UpTo(m)]
           gone == CHOOSE f : Follows(f)
<1>1. LastMonth \in Nat /\ Files \subseteq Nat
    BY Calendar
<1>2. UpTo(-1) = {}
    <2>1. \A k \in Files : ~ (k =< -1)
        BY <1>1
    <2> QED BY <2>1 DEF UpTo
<1>3. Follows(closed)
    <2>1. \A m \in -1..LastMonth : m # -1 => m \in Nat /\ closed[m - 1] = UpTo(m - 1)
        BY <1>1
    <2>2. \A m \in -1..LastMonth : UpTo(m) = IF m = -1 THEN {} ELSE Visit(closed[m - 1], m)
        BY <2>1, <1>2, VisitNext
    <2> QED BY <2>2
<1>4. Follows(gone)
    <2> HIDE DEF Follows, closed
    <2> QED BY <1>3
<1>5. \A m \in -1..LastMonth : gone[m] = IF m = -1 THEN {} ELSE Visit(gone[m - 1], m)
    <2> HIDE DEF gone
    <2> QED BY <1>4
<1>6. Doomed = gone[LastMonth]
    BY DEF Doomed, LastMonth
<1> HIDE DEF gone, closed, Follows
<1> DEFINE wrong == {m \in 0..LastMonth : gone[m] # UpTo(m)}
<1>7. wrong = {}
    <2> SUFFICES ASSUME wrong # {} PROVE FALSE
        OBVIOUS
    <2>0. wrong \in SUBSET Nat
        BY <1>1
    <2>1. PICK m \in wrong : \A k \in wrong : m =< k
        BY <2>0, Least
    <2>2. m \in Nat /\ m =< LastMonth /\ gone[m] # UpTo(m)
        BY <1>1, <2>1
    <2>3. gone[m] = Visit(gone[m - 1], m)
        BY <1>1, <1>5, <2>2
    <2>4. m - 1 \notin wrong
        BY <2>1, <2>2
    <2>5. gone[m - 1] = UpTo(m - 1)
        <3>1. CASE m = 0
            BY <3>1, <1>1, <1>2, <1>5
        <3>2. CASE m # 0
            BY <3>2, <1>1, <2>2, <2>4
        <3> QED BY <3>1, <3>2
    <2> QED BY <2>2, <2>3, <2>5, VisitNext
<1> QED BY <1>1, <1>6, <1>7

\* Only what has been written is stored, by every step.
LEMMA StaysDated == ASSUME IInv, Dated, [Next]_vars PROVE Dated'
<1> USE DEF IInv
<1>1. ASSUME NEW l \in Logs, Insert(l) PROVE Dated'
    <2>1. now # Never
        BY DEF TypeOK, Never
    <2>2. \A k \in Logs : created[k] # Never => created'[k] # Never
        BY <1>1, <2>1 DEF Insert, TypeOK
    <2>3. created'[l] # Never /\ hot \in recoverable
        BY <1>1, <2>1 DEF Insert, TypeOK
    <2>4. archived' = archived /\ recoverable' = recoverable \cup {hot \cup {l}}
        BY <1>1 DEF Insert
    <2> QED BY <2>2, <2>3, <2>4 DEF Dated, TypeOK
<1>2. CASE Tick \/ StartRound \/ Sync \/ Fail \/ Restart \/ UNCHANGED vars
    BY <1>2 DEF Tick, StartRound, Sync, Fail, Restart, vars, Dated
<1>3. CASE Checkpoint
    BY <1>3 DEF Checkpoint, TypeOK, Dated
<1>4. CASE PruneRows
    <2>1. PICK b \in Batches : hot' = hot \ b /\ recoverable' = recoverable \cup {hot'}
        BY <1>4 DEF PruneRows
    <2> QED BY <1>4, <2>1 DEF PruneRows, TypeOK, Dated
<1>5. CASE Copy
    <2>1. pass.group \subseteq hot /\ hot \in recoverable
        BY DEF TypeOK, Moved
    <2> QED BY <1>5, <2>1 DEF Copy, Dated
<1>6. CASE Delete
    BY <1>6 DEF Delete, TypeOK, Dated
<1>7. CASE PruneFiles
    BY <1>7 DEF PruneFiles, Drop, Dated
<1>8. CASE PruneFails
    BY <1>8 DEF PruneFails, Drop, Dated
<1>9. CASE PowerFailure
    BY <1>9 DEF PowerFailure, Dated
<1> QED BY <1>1, <1>2, <1>3, <1>4, <1>5, <1>6, <1>7, <1>8, <1>9 DEF Next

LEMMA DatedAlways == Spec => [](IInv /\ Dated)
<1>1. Init => Dated
    BY DEF Init, Dated
<1> QED BY <1>1, Initially, Stepwise, StaysDated, PTL DEF Spec

\* Whatever is dropped with the files is of a month that had to go.
LEMMA DroppedInTime ==
    ASSUME TypeOK, Dated, NEW D \in SUBSET Doomed, Drop(D), NEW l \in retired' \ retired
    PROVE  \/ Retention > 0 /\ created[l] < now - Retention
           \/ Exceeds(From(Month(l)))
<1>1. l \in archived /\ Month(l) \in UpTo(LastMonth)
    BY DoomedIs DEF Drop
<1>2. CASE ExpiredMonth(Month(l))
    <2>1. /\ MonthLength \in Nat \ {0} /\ Retention \in Nat /\ now \in Int
          /\ created[l] \in Int
        BY <1>1, ArchiveAssumption DEF TypeOK, Never
    <2>2. Retention > 0 /\ MonthAt(created[l]) < MonthAt(now - Retention)
        BY <1>2 DEF ExpiredMonth, Month
    <2>3. ~ (now - Retention =< created[l])
        BY <2>1, <2>2, Division DEF MonthAt
    <2> QED BY <2>1, <2>2, <2>3
<1>3. CASE Exceeds(From(Month(l)))
    BY <1>3
<1> QED BY <1>1, <1>2, <1>3 DEF UpTo

\* Retention takes nothing before its time: rows that leave the hot database
\* without a copy are past the hot retention, and archived entries are past the
\* archive's retention or in a file from which on the size limit is passed.
THEOREM NothingTooEarly == Spec => RetiredInTime
<1> DEFINE Due(l) == IF pass.pc = "idle" THEN created[l] < now - HotRetention
                     ELSE \/ Retention > 0 /\ created[l] < now - Retention
                          \/ (/\ MaxSize > 0
                              /\ Cardinality({k \in synced : Month(k) >= Month(l)}) > MaxSize)
           InTime == \A l \in retired' \ retired : Due(l)
<1>1. ASSUME IInv, Dated, [Next]_vars PROVE InTime
    <2>1. CASE PruneRows
        <3>1. PICK b \in Batches : retired' = retired \cup b
            BY <2>1 DEF PruneRows
        <3>2. \A l \in b : created[l] < now - HotRetention
            BY DEF Batches, Expired
        <3> QED BY <2>1, <3>1, <3>2 DEF PruneRows
    <2>2. ASSUME NEW D \in SUBSET Doomed, Drop(D), pass.pc = "prune" PROVE InTime
        <3> TAKE l \in retired' \ retired
        <3>1. \/ Retention > 0 /\ created[l] < now - Retention
              \/ Exceeds(From(Month(l)))
            BY <1>1, <2>2, DroppedInTime DEF IInv
        <3> QED BY <2>2, <3>1 DEF Exceeds, From
    <2>3. CASE PruneFiles
        BY <2>2, <2>3 DEF PruneFiles
    <2>4. CASE PruneFails
        <3>1. PICK d \in Doomed : Drop({m \in Doomed : m < d})
            BY <2>4 DEF PruneFails
        <3>2. {m \in Doomed : m < d} \in SUBSET Doomed
            OBVIOUS
        <3> HIDE DEF InTime
        <3> QED BY <2>2, <2>4, <3>1, <3>2 DEF PruneFails
    <2>5. CASE \/ \E l \in Logs : Insert(l)
               \/ Tick \/ Checkpoint \/ StartRound \/ Copy \/ Sync \/ Delete \/ Fail
               \/ Restart \/ PowerFailure \/ UNCHANGED vars
        <3>1. retired' = retired
            BY <2>5 DEF Insert, Tick, Checkpoint, StartRound, Copy, Sync, Delete, Fail,
                        Restart, PowerFailure, vars
        <3> QED BY <3>1
    <2> HIDE DEF InTime
    <2> QED BY <1>1, <2>1, <2>3, <2>4, <2>5 DEF Next
<1>2. IInv /\ Dated /\ [Next]_vars => [InTime]_vars
    BY <1>1
<1> QED BY <1>2, DatedAlways, PTL DEF Spec, RetiredInTime

\* A round whose removals all succeed leaves no file of an expired month and no
\* more than the size limit allows.
THEOREM LimitsAreKept == Spec => ArchiveWithinLimits
<1> DEFINE Within == PruneFiles =>
                        /\ MaxSize > 0 => Cardinality(synced') =< MaxSize
                        /\ \A l \in archived' : ~ExpiredMonth(Month(l))
<1>1. ASSUME IInv, Dated, PruneFiles
      PROVE  /\ MaxSize > 0 => Cardinality(synced') =< MaxSize
             /\ \A l \in archived' : ~ExpiredMonth(Month(l))
    <2>1. /\ TypeOK /\ LastMonth \in Nat /\ IsFiniteSet(synced) /\ synced \subseteq archived
          /\ \A l \in archived : Month(l) \in 0..LastMonth
        BY <1>1, Calendar DEF IInv, TypeOK
    <2>2. /\ archived' = {l \in archived : Month(l) \notin UpTo(LastMonth)}
          /\ synced' = {l \in synced : Month(l) \notin UpTo(LastMonth)}
        BY <1>1, <2>1, DoomedIs DEF PruneFiles, Drop
    <2>3. ~Exceeds(From(LastMonth + 1))
        <3>1. From(LastMonth + 1) = {}
            BY <2>1 DEF From
        <3>2. Cardinality({}) = 0 /\ MaxSize \in Nat
            BY FS_EmptySet, ArchiveAssumption
        <3> QED BY <3>1, <3>2 DEF Exceeds
    <2>4. ~Exceeds(synced')
        <3>1. LastMonth + 1 \in Int /\ (LastMonth + 1) - 1 = LastMonth
            BY <2>1
        <3> QED BY <1>1, <2>1, <2>2, <2>3, <3>1, LeftFits
    <2>5. Cardinality(synced') \in Nat /\ MaxSize \in Nat
        BY <2>1, <2>2, FS_Subset, FS_CardinalityType, ArchiveAssumption
    <2>6. ASSUME NEW l \in archived' PROVE ~ExpiredMonth(Month(l))
        BY <2>1, <2>2 DEF UpTo, Files
    <2> QED BY <2>4, <2>5, <2>6 DEF Exceeds
<1>2. IInv /\ Dated => Within
    BY <1>1
<1> QED BY <1>2, DatedAlways, PTL DEF Spec, ArchiveWithinLimits

(***************************************************************************)
(* The calendar: the number of the first day of a month, which is defined    *)
(* by counting, in closed form.                                              *)
(***************************************************************************)
\* The leap years from year 1 to y, by the Gregorian rule.
Leaps(y) == y \div 4 - y \div 100 + y \div 400

LEMMA LeapStep ==
    ASSUME NEW y \in Nat
    PROVE  Leaps(y) = Leaps(y - 1) + (IF Leap(y) THEN 1 ELSE 0)
<1>1. y \div 4 = (y - 1) \div 4 + (IF y % 4 = 0 THEN 1 ELSE 0)
    OBVIOUS
<1>2. y \div 100 = (y - 1) \div 100 + (IF y % 100 = 0 THEN 1 ELSE 0)
    OBVIOUS
<1>3. y \div 400 = (y - 1) \div 400 + (IF y % 400 = 0 THEN 1 ELSE 0)
    OBVIOUS
<1>4. (y % 400 = 0 => y % 100 = 0) /\ (y % 100 = 0 => y % 4 = 0)
    OBVIOUS
<1> QED BY <1>1, <1>2, <1>3, <1>4 DEF Leap, Leaps

\* Counting leap years amounts to the rule: no first year can be the one where the
\* two part.
LEMMA NewYearIs ==
    ASSUME NEW y \in Nat, y >= 1970
    PROVE  NewYear(y) = 365 * (y - 1970) + Leaps(y - 1) - 477
<1> DEFINE leaps(z) == Leaps(z - 1) - 477
           years(z) == {x \in 1970 .. (z - 1) : Leap(x)}
           wrong == {z \in Nat :
                       z >= 1970 /\ ~ (IsFiniteSet(years(z)) /\ Cardinality(years(z)) = leaps(z))}
<1>1. /\ wrong \in SUBSET Nat
      /\ \A z \in wrong :
           z >= 1970 /\ ~ (IsFiniteSet(years(z)) /\ Cardinality(years(z)) = leaps(z))
      /\ \A z \in Nat : z >= 1970 /\ z \notin wrong =>
           IsFiniteSet(years(z)) /\ Cardinality(years(z)) = leaps(z)
    <2> HIDE DEF years, leaps
    <2> QED OBVIOUS
<1> HIDE DEF wrong
<1>2. wrong = {}
    <2> SUFFICES ASSUME wrong # {} PROVE FALSE
        OBVIOUS
    <2>2. PICK z \in wrong : \A x \in wrong : z =< x
        <3> HIDE DEF years, leaps
        <3> QED BY <1>1, Least
    <2>3. z # 1970
        <3>1. years(1970) = {}
            OBVIOUS
        <3>2. leaps(1970) = 0
            BY DEF Leaps
        <3> HIDE DEF years, leaps
        <3> QED BY <1>1, <3>1, <3>2, FS_EmptySet
    <2>4. z - 1 \in Nat /\ z - 1 >= 1970 /\ z - 1 \notin wrong
        <3> HIDE DEF years, leaps
        <3> QED BY <1>1, <2>2, <2>3
    <2>5. IsFiniteSet(years(z - 1)) /\ Cardinality(years(z - 1)) = leaps(z - 1)
        <3> HIDE DEF years, leaps
        <3> QED BY <1>1, <2>4
    <2>6. years(z) = years(z - 1) \cup (IF Leap(z - 1) THEN {z - 1} ELSE {})
        BY <2>4
    <2>7. z - 1 \notin years(z - 1)
        BY <2>4
    <2>8. leaps(z) = leaps(z - 1) + (IF Leap(z - 1) THEN 1 ELSE 0)
        <3>1. Leaps(z - 1) = Leaps((z - 1) - 1) + (IF Leap(z - 1) THEN 1 ELSE 0)
            BY <2>4, LeapStep
        <3>2. Leaps((z - 1) - 1) \in Int
            BY <2>4 DEF Leaps
        <3> QED BY <3>1, <3>2
    <2> HIDE DEF years, leaps
    <2>9. IsFiniteSet(years(z)) /\ Cardinality(years(z)) = leaps(z)
        <3>1. CASE Leap(z - 1)
            BY <3>1, <2>5, <2>6, <2>7, <2>8, FS_AddElement
        <3>2. CASE ~Leap(z - 1)
            <4>1. leaps(z - 1) \in Int
                BY <2>4 DEF leaps, Leaps
            <4>2. years(z) = years(z - 1)
                BY <3>2, <2>6
            <4>3. leaps(z) = leaps(z - 1)
                BY <3>2, <2>8, <4>1
            <4> QED BY <4>2, <4>3, <2>5
        <3> QED BY <3>1, <3>2
    <2> QED BY <1>1, <2>2, <2>9
<1>3. NewYear(y) = 365 * (y - 1970) + Cardinality(years(y))
    BY DEF NewYear
<1>4. Cardinality(years(y)) = leaps(y)
    <2> HIDE DEF years, leaps
    <2> QED BY <1>1, <1>2
<1> HIDE DEF years
<1> QED BY <1>3, <1>4

\* The year as it is counted by the code, from the first of March.
MarchYear(y, m) == IF m =< 2 THEN y - 1 ELSE y
MonthOfMarchYear(m) == IF m =< 2 THEN m + 9 ELSE m - 3

\* The days of a calendar year before the first of a month.
Before(y, m) ==
    (153 * MonthOfMarchYear(m) + 2) \div 5
      + (IF m =< 2 THEN -306 ELSE 59) + (IF m > 2 /\ Leap(y) THEN 1 ELSE 0)

\* Counting the days of the months before m amounts to the fifths of 153 days.
LEMMA FirstOfIs ==
    ASSUME NEW y \in Nat, NEW m \in 1 .. 12
    PROVE  FirstOf(y, m) = NewYear(y) + Before(y, m)
<1> DEFINE dates(k) == {date \in (1 .. (k - 1)) \X (1 .. 31) : date[2] =< DaysIn(y, date[1])}
           Counted(k) == IsFiniteSet(dates(k)) /\ Cardinality(dates(k)) = Before(y, k)
<1>1. Counted(1)
    <2>1. dates(1) = {}
        OBVIOUS
    <2>2. Before(y, 1) = 0
        BY DEF Before, MonthOfMarchYear
    <2> HIDE DEF dates
    <2> QED BY <2>1, <2>2, FS_EmptySet
<1>2. ASSUME NEW k \in 1 .. 11, Counted(k) PROVE Counted(k + 1)
    <2> DEFINE new == {k} \X (1 .. DaysIn(y, k))
    <2>1. DaysIn(y, k) \in 28 .. 31
        BY DEF DaysIn
    <2>2. IsFiniteSet(new) /\ Cardinality(new) = DaysIn(y, k)
        <3>1. IsFiniteSet({k}) /\ Cardinality({k}) = 1
            BY FS_Singleton
        <3>2. IsFiniteSet(1 .. DaysIn(y, k)) /\ Cardinality(1 .. DaysIn(y, k)) = DaysIn(y, k)
            <4> DEFINE n == DaysIn(y, k)
            <4>1. n \in Int /\ 1 =< n
                BY <2>1
            <4> HIDE DEF n
            <4>2. IsFiniteSet(1 .. n) /\ Cardinality(1 .. n) = n
                BY <4>1, FS_Interval
            <4> QED BY <4>2 DEF n
        <3>3. /\ IsFiniteSet(new)
              /\ Cardinality(new) = Cardinality({k}) * Cardinality(1 .. DaysIn(y, k))
            BY <3>1, <3>2, FS_Product
        <3>4. 1 * DaysIn(y, k) = DaysIn(y, k)
            BY <2>1
        <3> QED BY <3>1, <3>2, <3>3, <3>4
    <2>3. dates(k + 1) = dates(k) \cup new
        <3>1. \A i \in 1 .. k : i \in 1 .. (k - 1) \/ i = k
            OBVIOUS
        <3>2. 1 .. ((k + 1) - 1) = 1 .. k /\ 1 .. (k - 1) \subseteq 1 .. k /\ k \in 1 .. k
            OBVIOUS
        <3>3. \A d \in 1 .. 31 : d =< DaysIn(y, k) <=> d \in 1 .. DaysIn(y, k)
            BY <2>1
        <3>4. 1 .. DaysIn(y, k) \subseteq 1 .. 31
            BY <2>1
        <3> QED BY <3>1, <3>2, <3>3, <3>4
    <2>4. dates(k) \cap new = {}
        OBVIOUS
    <2>5. Before(y, k + 1) = Before(y, k) + DaysIn(y, k) /\ Before(y, k) \in Nat
        BY DEF Before, DaysIn, MonthOfMarchYear
    <2> HIDE DEF dates, new
    <2>6. Cardinality({}) = 0
        BY FS_EmptySet
    <2>7. /\ IsFiniteSet(dates(k) \cup new)
          /\ Cardinality(dates(k) \cup new)
               = Cardinality(dates(k)) + Cardinality(new) - Cardinality({})
        BY <1>2, <2>2, <2>4, FS_Union
    <2>8. Cardinality(dates(k)) + Cardinality(new) - Cardinality({}) = Before(y, k) + DaysIn(y, k)
        BY <1>2, <2>1, <2>2, <2>5, <2>6
    <2> QED BY <2>3, <2>5, <2>7, <2>8
<1> HIDE DEF Counted
<1>3. Counted(2) /\ Counted(3) /\ Counted(4)
    BY <1>1, <1>2
<1>4. Counted(5) /\ Counted(6) /\ Counted(7)
    BY <1>2, <1>3
<1>5. Counted(8) /\ Counted(9) /\ Counted(10)
    BY <1>2, <1>4
<1>6. Counted(11) /\ Counted(12)
    BY <1>2, <1>5
<1>7. Counted(m)
    BY <1>1, <1>3, <1>4, <1>5, <1>6
<1> QED BY <1>7 DEF Counted, FirstOf

\* Days since the first of March of year 0.
LEMMA DayNumber ==
    ASSUME NEW y \in Nat, y >= 1970, NEW m \in 1 .. 12
    PROVE  FirstOf(y, m) + 719468
             = 365 * MarchYear(y, m) + Leaps(MarchYear(y, m))
                 + (153 * MonthOfMarchYear(m) + 2) \div 5
<1>1. FirstOf(y, m) = 365 * (y - 1970) + Leaps(y - 1) - 477 + Before(y, m)
    BY NewYearIs, FirstOfIs
<1>2. Leaps(y) = Leaps(y - 1) + (IF Leap(y) THEN 1 ELSE 0)
    BY LeapStep
<1>3. Leaps(y - 1) \in Int /\ Leaps(y) \in Int
    BY DEF Leaps
<1> QED BY <1>1, <1>2, <1>3, SMT DEF Before, MarchYear, MonthOfMarchYear

(***************************************************************************)
(* The arithmetic on that number                                            *)
(***************************************************************************)
\* A year as its era, century, group of four years and place in it.
LEMMA Decomposed ==
    ASSUME NEW Y \in Nat
    PROVE  \E e \in Nat, c \in 0 .. 3, q \in 0 .. 24, r \in 0 .. 3 :
             /\ Y = 400 * e + 100 * c + 4 * q + r
             /\ Leaps(Y) = 97 * e + 24 * c + q
<1>1. PICK e \in Nat, a \in Nat : Y = 400 * e + a /\ a < 400
    <2>1. Y \div 400 \in Nat /\ Y - 400 * (Y \div 400) \in 0 .. 399
        BY SMT
    <2>2. PICK i \in Nat, j \in 0 .. 399 : j = Y - 400 * i
        BY <2>1
    <2>3. Y = 400 * i + j /\ j \in Nat /\ j < 400
        BY <2>2, SMT
    <2> QED BY <2>3
<1>2. PICK c \in Nat, b \in Nat : a = 100 * c + b /\ b < 100
    <2>1. a \div 100 \in Nat /\ a - 100 * (a \div 100) \in 0 .. 99
        BY SMT
    <2>2. PICK i \in Nat, j \in 0 .. 99 : j = a - 100 * i
        BY <2>1
    <2>3. a = 100 * i + j /\ j \in Nat /\ j < 100
        BY <2>2, SMT
    <2> QED BY <2>3
<1>3. PICK q \in Nat, r \in Nat : b = 4 * q + r /\ r < 4
    <2>1. b \div 4 \in Nat /\ b - 4 * (b \div 4) \in 0 .. 3
        BY SMT
    <2>2. PICK i \in Nat, j \in 0 .. 3 : j = b - 4 * i
        BY <2>1
    <2>3. b = 4 * i + j /\ j \in Nat /\ j < 4
        BY <2>2, SMT
    <2> QED BY <2>3
<1>4. c \in 0 .. 3 /\ q \in 0 .. 24 /\ r \in 0 .. 3
    BY <1>1, <1>2, <1>3, SMT
<1>5. Y = 400 * e + 100 * c + 4 * q + r
    BY <1>1, <1>2, <1>3, SMT
<1>6. Leaps(Y) = 97 * e + 24 * c + q
    <2>1. Y \div 4 = 100 * e + 25 * c + q
        BY <1>3, <1>5, SMT
    <2>2. Y \div 100 = 4 * e + c
        BY <1>4, <1>5, SMT
    <2>3. Y \div 400 = e
        BY <1>4, <1>5, SMT
    <2> QED BY <2>1, <2>2, <2>3, SMT DEF Leaps
<1> QED BY <1>4, <1>5, <1>6

\* The era, the year within it and the day within the year, from the day's number:
\* the code's divisions by 1460, 36 524 and 146 096 undo the leap years.
LEMMA DayFound ==
    ASSUME NEW Y \in Nat, NEW n \in Int,
           n + 719468 - 365 * Y - Leaps(Y) \in 0 .. 365,
           n + 719468 - 365 * Y - Leaps(Y) = 365 => Leap(Y + 1)
    PROVE  /\ YearOfEra(DayOfEra(n)) \in Int /\ Era(n) \in Int
           /\ YearOfEra(DayOfEra(n)) + Era(n) * 400 = Y
           /\ LET yoe == YearOfEra(DayOfEra(n))
              IN  DayOfEra(n) - (365 * yoe + yoe \div 4 - yoe \div 100)
                    = n + 719468 - 365 * Y - Leaps(Y)
<1>0. PICK doy \in 0 .. 365 :
            doy = n + 719468 - 365 * Y - Leaps(Y) /\ (doy = 365 => Leap(Y + 1))
    BY SMT
<1>1. PICK e \in Nat, c \in 0 .. 3, q \in 0 .. 24, r \in 0 .. 3 :
            Y = 400 * e + 100 * c + 4 * q + r /\ Leaps(Y) = 97 * e + 24 * c + q
    BY Decomposed, SMT
<1>2. PICK doe \in Int : doe = 36524 * c + 1461 * q + 365 * r + doy
    BY SMT
<1>3. PICK yoe \in Nat : yoe = 100 * c + 4 * q + r
    BY SMT
<1>4. n + 719468 = 146097 * e + doe
    BY <1>0, <1>1, <1>2, SMT
<1>5. doy = 365 => r = 3 /\ (q # 24 \/ c = 3)
    <2> SUFFICES ASSUME doy = 365 PROVE r = 3 /\ (q # 24 \/ c = 3)
        BY SMT
    <2>1. (Y + 1) % 4 = 0 /\ ((Y + 1) % 100 # 0 \/ (Y + 1) % 400 = 0)
        BY <1>0, SMT DEF Leap
    <2>2. r = 3
        BY <1>1, <2>1, SMT
    <2>3. q = 24 => (Y + 1) % 100 = 0
        BY <1>1, <2>2, SMT
    <2>4. q = 24 /\ (Y + 1) % 400 = 0 => c = 3
        BY <1>1, <2>2, SMT
    <2> QED BY <2>1, <2>2, <2>3, <2>4, SMT
<1>6. doe >= 0 /\ doe =< 146096
    BY <1>2, SMT
<1>7. YearOfEra(doe) = yoe
    <2>1. CASE c = 0
        BY <1>2, <1>3, <1>5, <2>1, SMT DEF YearOfEra
    <2>2. CASE c = 1
        BY <1>2, <1>3, <1>5, <2>2, SMT DEF YearOfEra
    <2>3. CASE c = 2
        BY <1>2, <1>3, <1>5, <2>3, SMT DEF YearOfEra
    <2>4. CASE c = 3
        BY <1>2, <1>3, <1>5, <2>4, SMT DEF YearOfEra
    <2> QED BY <2>1, <2>2, <2>3, <2>4, SMT
<1>8. doe - (365 * yoe + yoe \div 4 - yoe \div 100) = doy
    <2>1. yoe \div 4 = 25 * c + q /\ yoe \div 100 = c
        BY <1>3, SMT
    <2> QED BY <1>2, <1>3, <2>1, SMT
<1>9. yoe + e * 400 = Y
    BY <1>1, <1>3, SMT
<1>10. Era(n) = e /\ DayOfEra(n) = doe
    <2>1. PICK N \in Int : N = n + 719468
        BY SMT
    <2>2. N \div 146097 = e
        BY <1>4, <1>6, <2>1, SMT
    <2>3. Era(n) = N \div 146097 /\ DayOfEra(n) = N - Era(n) * 146097
        BY <2>1, SMT DEF Era, DayOfEra
    <2> QED BY <1>4, <2>1, <2>2, <2>3, SMT
<1> QED BY <1>0, <1>7, <1>8, <1>9, <1>10, SMT

\* A day of a month of a year from 1970 on is taken to be what it is.
LEMMA EveryDay ==
    ASSUME NEW y \in Nat, y >= 1970, NEW m \in 1 .. 12, NEW n \in Int,
           FirstOf(y, m) =< n, n < FirstOf(y, m) + DaysIn(y, m)
    PROVE  Cutoff(n) = [year |-> y, month |-> m]
<1>1. FirstOf(y, m) \in Int
    BY NewYearIs, FirstOfIs, SMT DEF Leaps, Before, MonthOfMarchYear
<1>2. PICK d \in Nat : n = FirstOf(y, m) + d /\ d < DaysIn(y, m)
    <2>1. DaysIn(y, m) \in Nat
        BY DEF DaysIn
    <2>2. n - FirstOf(y, m) \in Nat /\ n = FirstOf(y, m) + (n - FirstOf(y, m))
        BY <1>1, SMT
    <2>3. n - FirstOf(y, m) < DaysIn(y, m)
        BY <1>1, <2>1, SMT
    <2> QED BY <2>2, <2>3
<1>3. /\ d \in 0 .. 30 /\ (m = 2 => d =< 28) /\ (m \in {4, 6, 9, 11} => d =< 29)
      /\ m = 2 /\ d = 28 => Leap(y)
    BY <1>2, SMT DEF DaysIn
<1>4. PICK mp \in 0 .. 11 : mp = MonthOfMarchYear(m)
    BY DEF MonthOfMarchYear
<1>5. PICK doy \in Int : doy = (153 * mp + 2) \div 5 + d
    BY SMT
<1>6. (5 * doy + 2) \div 153 = mp /\ doy \in 0 .. 365 /\ (doy = 365 => m = 2 /\ d = 28)
    <2>1. CASE m \in {1, 2, 3}
        BY <1>3, <1>4, <1>5, <2>1, SMT DEF MonthOfMarchYear
    <2>2. CASE m \in {4, 5, 6}
        BY <1>3, <1>4, <1>5, <2>2, SMT DEF MonthOfMarchYear
    <2>3. CASE m \in {7, 8, 9}
        BY <1>3, <1>4, <1>5, <2>3, SMT DEF MonthOfMarchYear
    <2>4. CASE m \in {10, 11, 12}
        BY <1>3, <1>4, <1>5, <2>4, SMT DEF MonthOfMarchYear
    <2> QED BY <2>1, <2>2, <2>3, <2>4, SMT
<1>7. PICK Y \in Nat : Y = MarchYear(y, m)
    BY DEF MarchYear
<1>8. n + 719468 - 365 * Y - Leaps(Y) = doy
    <2>1. FirstOf(y, m) + 719468 = 365 * Y + Leaps(Y) + (153 * mp + 2) \div 5
        BY <1>4, <1>7, DayNumber, SMT
    <2>2. Leaps(Y) \in Int
        BY DEF Leaps
    <2> QED BY <1>1, <1>2, <1>5, <2>1, <2>2, SMT
<1>9. doy = 365 => Leap(Y + 1)
    <2>1. m = 2 => Y + 1 = y
        BY <1>7, SMT DEF MarchYear
    <2> QED BY <1>3, <1>6, <2>1, SMT
<1> DEFINE yoe == YearOfEra(DayOfEra(n))
<1>10. /\ yoe \in Int /\ Era(n) \in Int /\ yoe + Era(n) * 400 = Y
       /\ DayOfEra(n) - (365 * yoe + yoe \div 4 - yoe \div 100) = doy
    <2>1. n + 719468 - 365 * Y - Leaps(Y) \in 0 .. 365
        BY <1>6, <1>8, SMT
    <2>2. n + 719468 - 365 * Y - Leaps(Y) = 365 => Leap(Y + 1)
        BY <1>8, <1>9, SMT
    <2>3. /\ yoe \in Int /\ Era(n) \in Int /\ yoe + Era(n) * 400 = Y
          /\ DayOfEra(n) - (365 * yoe + yoe \div 4 - yoe \div 100)
               = n + 719468 - 365 * Y - Leaps(Y)
        BY <2>1, <2>2, DayFound, SMT
    <2> QED BY <1>8, <2>3, SMT
<1>11. MonthIn(DayOfEra(n)) = m
    <2>1. MonthIn(DayOfEra(n)) = IF mp < 10 THEN mp + 3 ELSE mp - 9
        BY <1>6, <1>10, SMT DEF MonthIn
    <2> QED BY <1>4, <2>1, SMT DEF MonthOfMarchYear
<1>12. Y + (IF m =< 2 THEN 1 ELSE 0) = y
    BY <1>7, SMT DEF MarchYear
<1>13. Cutoff(n) = [year |-> (yoe + Era(n) * 400)
                               + (IF MonthIn(DayOfEra(n)) =< 2 THEN 1 ELSE 0),
                    month |-> MonthIn(DayOfEra(n))]
    BY SMT DEF Cutoff
<1> HIDE DEF yoe
<1> QED BY <1>10, <1>11, <1>12, <1>13, SMT

\* The month that archive_cutoff_month yields is the Gregorian calendar's, on every
\* day of every year from 1970 on.
THEOREM MonthsAreTheCalendars == Misplaced = {}
<1>1. ASSUME NEW y \in Years, NEW m \in 1 .. 12,
             NEW n \in FirstOf(y, m) .. (FirstOf(y, m) + DaysIn(y, m) - 1)
      PROVE  Cutoff(n) = [year |-> y, month |-> m]
    <2>1. y \in Nat /\ y >= 1970
        BY CutoffAssumption
    <2>2. FirstOf(y, m) \in Int /\ DaysIn(y, m) \in Int
        BY <2>1, NewYearIs, FirstOfIs DEF Leaps, Before, MonthOfMarchYear, DaysIn
    <2>3. n \in Int /\ FirstOf(y, m) =< n /\ n < FirstOf(y, m) + DaysIn(y, m)
        BY <2>2, SMT
    <2> QED BY <2>1, <2>3, EveryDay
<1> QED BY <1>1 DEF Misplaced

\* So no archive is dropped a month early or kept a month too long.
THEOREM MonthIsRight == Spec => []CutoffIsTheMonth
<1>1. CutoffIsTheMonth
    BY MonthsAreTheCalendars DEF CutoffIsTheMonth
<1> QED BY <1>1, PTL

\* 400 years on, the month is the same and the year is 400 larger.
THEOREM ErasAreAlike ==
    \A n \in Nat : /\ Cutoff(n + 146097).month = Cutoff(n).month
                   /\ Cutoff(n + 146097).year = Cutoff(n).year + 400
<1> SUFFICES ASSUME NEW n \in Nat
             PROVE  /\ Cutoff(n + 146097).month = Cutoff(n).month
                    /\ Cutoff(n + 146097).year = Cutoff(n).year + 400
    OBVIOUS
<1>1. Era(n) \in Int /\ DayOfEra(n) \in Int
    BY DEF Era, DayOfEra
<1>2. Era(n + 146097) = Era(n) + 1
    BY DEF Era
<1>3. DayOfEra(n + 146097) = DayOfEra(n)
    BY <1>1, <1>2 DEF DayOfEra
<1>4. YearOfEra(DayOfEra(n)) \in Int
    BY <1>1 DEF YearOfEra
<1>5. Cutoff(n + 146097).month = Cutoff(n).month
    BY <1>3 DEF Cutoff
<1>6. Cutoff(n + 146097).year = Cutoff(n).year + 400
    <2> DEFINE late == IF MonthIn(DayOfEra(n)) =< 2 THEN 1 ELSE 0
    <2>1. Cutoff(n).year = (YearOfEra(DayOfEra(n)) + Era(n) * 400) + late
        BY DEF Cutoff
    <2>2. Cutoff(n + 146097).year = (YearOfEra(DayOfEra(n)) + (Era(n) + 1) * 400) + late
        BY <1>2, <1>3 DEF Cutoff
    <2>3. late \in Int
        OBVIOUS
    <2> QED BY <1>1, <1>4, <2>1, <2>2, <2>3
<1> QED BY <1>5, <1>6

=============================================================================
