-------------------------- MODULE PlatformKeysProofs --------------------------
(* Proofs about PlatformKeys, for any keys, requests and quotas. *)
EXTENDS PlatformKeys, FiniteSetTheorems, TLAPS

USE DEF Valid, WithinQuota

\* The shapes of rows, calls and pending updates are kept by every step of
\* authorize and of the console.
THEOREM Typing == Spec => []TypeOK
<1>1. Init => TypeOK
  BY DEF Init, TypeOK, Call
<1>2. TypeOK /\ [Next]_vars => TypeOK'
  <2> SUFFICES ASSUME TypeOK, [Next]_vars PROVE TypeOK'
    OBVIOUS
  <2> USE PlatformKeysAssumption DEF TypeOK, Call, Update
  <2>1. ASSUME NEW r \in Requests, NEW k \in Keys, FindKey(r, k) PROVE TypeOK'
    BY <2>1 DEF FindKey
  <2>2. ASSUME NEW r \in Requests, Increment(r) PROVE TypeOK'
    <3>1. PICK k \in call[r].keys :
             IF Valid(k) /\ WithinQuota(k)
             THEN /\ count' = [count EXCEPT ![k] = @ + 1]
                  /\ call' = [call EXCEPT ![r].pc = "admitted"]
             ELSE /\ call' = [call EXCEPT ![r].pc = "quota_exceeded"]
                  /\ UNCHANGED count
      BY <2>2 DEF Increment
    <3> QED
      BY <2>2, <3>1 DEF Increment
  <2>3. ASSUME NEW k \in Keys, NEW q \in Quotas, CreateKey(k, q) PROVE TypeOK'
    BY <2>3 DEF CreateKey
  <2>4. ASSUME NEW k \in Keys, NEW q \in Quotas, NEW b \in BOOLEAN, ReadKey(k, q, b)
        PROVE TypeOK'
    <3>1. [id |-> updates, key |-> k, quota |-> IF b THEN quota[k] ELSE q] \in Update
      BY DEF Update
    <3> QED
      BY <2>4, <3>1 DEF ReadKey
  <2>5. ASSUME NEW k \in Keys, RevokeKey(k) PROVE TypeOK'
    BY <2>5 DEF RevokeKey
  <2>6. ASSUME NEW u \in update, WriteKey(u) PROVE TypeOK'
    BY <2>6 DEF WriteKey, Raised
  <2>7. CASE UNCHANGED vars
    BY <2>7 DEF vars
  <2> QED
    BY <2>1, <2>2, <2>3, <2>4, <2>5, <2>6, <2>7 DEF Next, Idle
<1> QED
  BY <1>1, <1>2, PTL DEF Spec

\* However many requests race for the last unit of a quota, and whatever the
\* console does between a lookup and its increment, a key that always had a
\* limit is never charged beyond the largest limit it had.
\* The limit in force must be known to lie below the largest one, which is why
\* Ceiling is needed; keys not yet issued have been charged nothing.
Ceiling ==
    \A k \in Keys :
        /\ k \notin issued => count[k] = 0 /\ ceiling[k] = 0
        /\ k \in issued /\ ceiling[k] # 0 => quota[k] # 0 /\ quota[k] <= ceiling[k]

\* However many requests race on a key, its counter never passes the largest limit
\* the key has had.
THEOREM QuotaSafety == Spec => []QuotaNeverOverrun
<1> DEFINE IInv == Ceiling /\ QuotaNeverOverrun
<1>1. Init => IInv
  BY DEF Init, Ceiling, QuotaNeverOverrun
<1>2. TypeOK /\ IInv /\ [Next]_vars => IInv'
  <2> SUFFICES ASSUME TypeOK, IInv, [Next]_vars PROVE IInv'
    OBVIOUS
  <2> USE PlatformKeysAssumption DEF TypeOK, Ceiling, QuotaNeverOverrun
  <2>1. ASSUME NEW r \in Requests, NEW k \in Keys, FindKey(r, k) PROVE IInv'
    BY <2>1 DEF FindKey
  <2>2. ASSUME NEW r \in Requests, Increment(r) PROVE IInv'
    BY <2>2 DEF Increment, Call
  <2>3. ASSUME NEW k \in Keys, NEW q \in Quotas, CreateKey(k, q) PROVE IInv'
    BY <2>3 DEF CreateKey
  <2>4. ASSUME NEW k \in Keys, NEW q \in Quotas, NEW b \in BOOLEAN, ReadKey(k, q, b)
        PROVE IInv'
    BY <2>4 DEF ReadKey
  <2>5. ASSUME NEW k \in Keys, RevokeKey(k) PROVE IInv'
    BY <2>5 DEF RevokeKey
  <2>6. ASSUME NEW u \in update, WriteKey(u) PROVE IInv'
    BY <2>6 DEF WriteKey, Raised, Update
  <2>7. CASE UNCHANGED vars
    BY <2>7 DEF vars
  <2> QED
    BY <2>1, <2>2, <2>3, <2>4, <2>5, <2>6, <2>7 DEF Next, Idle
<1> QED
  BY <1>1, <1>2, Typing, PTL DEF Spec

\* The counter of a key is the number of requests admitted with it: a request
\* looks up one key, and only its own increment admits it.
OneKeyEach == \A r \in Requests : \A x, y \in call[r].keys : x = y

\* A key's counter is the number of requests authorize admitted with it.
THEOREM ExactCharge == Spec => []ChargedOnce
<1> DEFINE IInv == OneKeyEach /\ ChargedOnce
<1>1. Init => IInv
  <2> SUFFICES ASSUME Init PROVE IInv
    OBVIOUS
  <2>1. \A k \in Keys : Admitted(k) = {}
    BY DEF Init, Admitted
  <2> QED
    BY <2>1, FS_EmptySet DEF Init, OneKeyEach, ChargedOnce
<1>2. TypeOK /\ IInv /\ [Next]_vars => IInv'
  <2> SUFFICES ASSUME TypeOK, IInv, [Next]_vars PROVE IInv'
    OBVIOUS
  <2>0. /\ call \in [Requests -> Call] /\ count \in [Keys -> Nat]
        /\ OneKeyEach /\ ChargedOnce
    BY DEF TypeOK
  <2>1. ASSUME UNCHANGED count, OneKeyEach', \A k \in Keys : Admitted(k)' = Admitted(k)
        PROVE  IInv'
    BY <2>0, <2>1 DEF ChargedOnce
  <2>2. ASSUME NEW r \in Requests, NEW k \in Keys, FindKey(r, k) PROVE IInv'
    <3>1. OneKeyEach'
      BY <2>0, <2>2 DEF FindKey, OneKeyEach, Call
    <3>2. \A x \in Keys : Admitted(x)' = Admitted(x)
      BY <2>0, <2>2 DEF FindKey, Admitted, Call
    <3> QED
      BY <2>1, <2>2, <3>1, <3>2 DEF FindKey
  <2>3. ASSUME NEW r \in Requests, Increment(r) PROVE IInv'
    <3>1. PICK k \in call[r].keys :
             IF Valid(k) /\ WithinQuota(k)
             THEN /\ count' = [count EXCEPT ![k] = @ + 1]
                  /\ call' = [call EXCEPT ![r].pc = "admitted"]
             ELSE /\ call' = [call EXCEPT ![r].pc = "quota_exceeded"]
                  /\ UNCHANGED count
      BY <2>3 DEF Increment
    <3>2. k \in Keys /\ call[r].pc = "found" /\ \A x \in call[r].keys : x = k
      BY <2>0, <2>3 DEF Increment, Call, OneKeyEach
    <3>3. CASE Valid(k) /\ WithinQuota(k)
      <4>1. /\ call' = [call EXCEPT ![r].pc = "admitted"]
            /\ count' = [count EXCEPT ![k] = @ + 1]
        BY <3>1, <3>3
      <4>2. OneKeyEach'
        BY <2>0, <4>1 DEF OneKeyEach, Call
      <4>3. /\ Admitted(k)' = Admitted(k) \cup {r} /\ r \notin Admitted(k)
            /\ \A x \in Keys : x # k => Admitted(x)' = Admitted(x)
        BY <2>0, <3>2, <4>1 DEF Admitted, Call
      <4>4. IsFiniteSet(Admitted(k))
        BY PlatformKeysAssumption, FS_Subset DEF Admitted
      <4>5. Cardinality(Admitted(k)') = Cardinality(Admitted(k)) + 1
        BY <4>3, <4>4, FS_AddElement
      <4> QED
        BY <2>0, <3>2, <4>1, <4>2, <4>3, <4>5 DEF ChargedOnce
    <3>4. CASE ~(Valid(k) /\ WithinQuota(k))
      <4>1. call' = [call EXCEPT ![r].pc = "quota_exceeded"] /\ UNCHANGED count
        BY <3>1, <3>4
      <4>2. OneKeyEach' /\ \A x \in Keys : Admitted(x)' = Admitted(x)
        BY <2>0, <3>2, <4>1 DEF OneKeyEach, Admitted, Call
      <4> QED
        BY <2>1, <4>1, <4>2
    <3> QED
      BY <3>3, <3>4
  <2>4. CASE UNCHANGED <<call, count>>
    BY <2>0, <2>1, <2>4 DEF OneKeyEach, Admitted
  <2> QED
    BY <2>2, <2>3, <2>4 DEF Next, CreateKey, ReadKey, WriteKey, RevokeKey, Idle, vars
<1> QED
  BY <1>1, <1>2, Typing, PTL DEF Spec

-----------------------------------------------------------------------------
\* Quotas come from the console's requests only, also when an update that left
\* the quota out writes back the one it read.
QuotasAsked ==
    /\ \A k \in issued : quota[k] \in Quotas
    /\ \A u \in update : u.quota \in Quotas

\* authorize's two statements, whatever happens between them, are one atomic
\* admission decided on the key as it is when it is charged.
THEOREM TwoStatementsAsOne == Spec => AdmissionIsAtomic
<1>1. Init => QuotasAsked /\ Atomic!Init
  BY DEF Init, QuotasAsked, Atomic!Init
<1>2. TypeOK /\ QuotasAsked /\ [Next]_vars => QuotasAsked' /\ [Atomic!Next]_(Atomic!vars)
  <2> SUFFICES ASSUME TypeOK, QuotasAsked, [Next]_vars
               PROVE  QuotasAsked' /\ [Atomic!Next]_(Atomic!vars)
    OBVIOUS
  <2> USE DEF TypeOK, QuotasAsked, Atomic!Valid, Atomic!WithinQuota
  <2>1. ASSUME NEW r \in Requests, Increment(r)
        PROVE  QuotasAsked' /\ [Atomic!Next]_(Atomic!vars)
    <3>1. PICK k \in call[r].keys :
             IF Valid(k) /\ WithinQuota(k)
             THEN /\ count' = [count EXCEPT ![k] = @ + 1]
                  /\ call' = [call EXCEPT ![r].pc = "admitted"]
             ELSE /\ call' = [call EXCEPT ![r].pc = "quota_exceeded"]
                  /\ UNCHANGED count
      BY <2>1 DEF Increment
    <3>2. k \in Keys
      BY DEF Call
    <3>3. UNCHANGED <<issued, revoked, quota, update>>
      BY <2>1 DEF Increment
    <3>4. CASE Valid(k) /\ WithinQuota(k)
      <4>1. Atomic!Admit(k)
        BY <3>1, <3>3, <3>4 DEF Atomic!Admit
      <4> QED
        BY <3>2, <3>3, <4>1 DEF Atomic!Next
    <3>5. CASE ~(Valid(k) /\ WithinQuota(k))
      BY <3>1, <3>3, <3>5 DEF Atomic!vars
    <3> QED
      BY <3>4, <3>5
  <2>2. ASSUME NEW k \in Keys, NEW q \in Quotas, CreateKey(k, q)
        PROVE  QuotasAsked' /\ [Atomic!Next]_(Atomic!vars)
    <3>1. Atomic!Issue(k, q)
      BY <2>2 DEF CreateKey, Atomic!Issue
    <3>2. QuotasAsked'
      BY <2>2 DEF CreateKey
    <3> QED
      BY <3>1, <3>2 DEF Atomic!Next
  <2>3. ASSUME NEW k \in Keys, NEW q \in Quotas, NEW b \in BOOLEAN, ReadKey(k, q, b)
        PROVE  QuotasAsked' /\ [Atomic!Next]_(Atomic!vars)
    BY <2>3 DEF ReadKey, Atomic!vars
  <2>4. ASSUME NEW k \in Keys, RevokeKey(k)
        PROVE  QuotasAsked' /\ [Atomic!Next]_(Atomic!vars)
    <3>1. Atomic!Revoke(k)
      BY <2>4 DEF RevokeKey, Atomic!Revoke
    <3> QED
      BY <2>4, <3>1 DEF RevokeKey, Atomic!Next
  <2>5. ASSUME NEW u \in update, WriteKey(u)
        PROVE  QuotasAsked' /\ [Atomic!Next]_(Atomic!vars)
    <3>1. u.key \in Keys /\ u.quota \in Quotas
      BY DEF Update
    <3>2. QuotasAsked'
      BY <2>5, <3>1 DEF WriteKey
    <3>3. CASE Valid(u.key)
      <4>1. Atomic!SetQuota(u.key, u.quota)
        BY <2>5, <3>3 DEF WriteKey, Atomic!SetQuota
      <4> QED
        BY <3>1, <3>2, <4>1 DEF Atomic!Next
    <3>4. CASE ~Valid(u.key)
      BY <2>5, <3>2, <3>4 DEF WriteKey, Atomic!vars
    <3> QED
      BY <3>3, <3>4
  <2>6. CASE UNCHANGED <<issued, revoked, quota, count, update>>
    BY <2>6 DEF Atomic!vars
  <2> QED
    BY <2>1, <2>2, <2>3, <2>4, <2>5, <2>6 DEF Next, FindKey, Idle, vars
<1> QED
  BY <1>1, <1>2, Typing, PTL DEF Spec, AdmissionIsAtomic, Atomic!Spec

=============================================================================
