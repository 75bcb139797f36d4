------------------------- MODULE AdminConsoleProofs -------------------------
(***************************************************************************)
(* Proofs about AdminConsole, for any handlers, passwords, accounts, tokens,  *)
(* master keys and mishaps.                                                   *)
(***************************************************************************)
EXTENDS AdminConsole, FiniteSetTheorems, TLAPS

USE AdminSessionsAssumption, MasterKeyAssumption

\* One step for each action, with what it leaves alone.
LEMMA Steps ==
    ASSUME [Next]_vars
    PROVE  \/ \E h \in Calls : /\ Serving /\ UNCHANGED <<keyVars, tables>>
                               /\ \/ \E p \in Passwords : SetupReads(h, p) \/ LoginReads(h, p)
                                  \/ \E t \in Tokens : CheckReadsHash(h, t)
           \/ \E h \in Calls : /\ UNCHANGED <<keyVars, tables>>
                               /\ \/ SetupStores(h) \/ SetupAddsTenant(h) \/ StoreSession(h)
                                  \/ CheckReadsExpiry(h) \/ StatementFails(h)
           \/ \E h \in Calls, a \in Accounts :
                 CreateAccount(h, a) \/ UpdateAccount(h, a) \/ DeleteAccount(h, a)
           \/ \E h \in Calls : OnlyReads(h) \/ ReadBack(h) \/ ReadBackFails(h) \/ Audit(h)
           \/ Crash \/ Boots
           \/ /\ WriteBack \/ ChangeEnvironment \/ RemoveBrokenFile
              /\ UNCHANGED <<sessionVars, tables>>
           \/ Tick /\ UNCHANGED <<keyVars, tables>>
           \/ UNCHANGED vars
BY DEF Next, Signs, SignsIn, Continues, GoesOn, Fails, Surroundings

\* What a handler holds when it has read the password or a token.
Holding(pc, word) == [NoCall EXCEPT !.pc = pc, !.password = word]
Checking(t, matches) == [NoCall EXCEPT !.pc = "expiry", !.token = {t}, !.matches = matches]
At(c, pc) == [c EXCEPT !.pc = pc]

\* An idle handler.
LEMMA NoCallFields == NoCall \in Call /\ NoCall.pc = "idle"
BY DEF NoCall, Call

\* A handler that has read the password.
LEMMA HoldingFields ==
    ASSUME NEW pc \in {"hash", "session"}, NEW word \in SUBSET Passwords
    PROVE  LET c == Holding(pc, word)
           IN  c \in Call /\ c.pc = pc /\ c.password = word
BY DEF Holding, NoCall, Call

\* A handler that has compared a token.
LEMMA CheckingFields ==
    ASSUME NEW t \in Tokens, NEW matches \in BOOLEAN
    PROVE  Checking(t, matches) \in Call /\ Checking(t, matches).pc = "expiry"
BY DEF Checking, NoCall, Call

\* A handler that goes on to its next statement.
LEMMA AtFields ==
    ASSUME NEW c \in Call, NEW pc \in {"tenant", "session", "write", "summary", "audit"}
    PROVE  At(c, pc) \in Call /\ At(c, pc).pc = pc /\ At(c, pc).password = c.password
BY DEF At, Call

\* Setup stores the password without the blanks around it.
LEMMA TrimmedIsPassword == \A p \in Passwords : Trimmed(p) \in Passwords
BY DEF Trimmed, Passwords

\* What each action makes of the handler it is about.
LEMMA SetupReading ==
    ASSUME NEW h \in Calls, NEW p \in Passwords, SetupReads(h, p)
    PROVE  \E c \in Call : /\ call' = [call EXCEPT ![h] = c] /\ c.pc = "hash"
                           /\ c.password # {} /\ c.password \subseteq Passwords
<1> DEFINE word == {Trimmed(p)}
           c == Holding("hash", word)
<1>1. word \in SUBSET Passwords /\ word # {}
  BY TrimmedIsPassword
<1>2. call' = [call EXCEPT ![h] = c]
  BY DEF SetupReads, Holding
<1> HIDE DEF word
<1>3. c \in Call /\ c.pc = "hash" /\ c.password = word
  BY <1>1, HoldingFields
<1> HIDE DEF c
<1> QED
  BY <1>1, <1>2, <1>3

\* A login that found the password holds it.
LEMMA LoginReading ==
    ASSUME NEW h \in Calls, NEW p \in Passwords, LoginReads(h, p)
    PROVE  \E c \in Call : /\ call' = [call EXCEPT ![h] = c] /\ c.pc = "session"
                           /\ c.password = password /\ password # {}
<1> DEFINE word == {p}
           c == Holding("session", word)
<1>1. word \in SUBSET Passwords /\ word # {} /\ password = word
  BY DEF LoginReads
<1>2. call' = [call EXCEPT ![h] = c]
  BY DEF LoginReads, Holding
<1> HIDE DEF word
<1>3. c \in Call /\ c.pc = "session" /\ c.password = word
  BY <1>1, HoldingFields
<1> HIDE DEF c
<1> QED
  BY <1>1, <1>2, <1>3

\* A check that has read the hash is about to read the expiry.
LEMMA HashReading ==
    ASSUME NEW h \in Calls, NEW t \in Tokens, CheckReadsHash(h, t)
    PROVE  \E c \in Call : call' = [call EXCEPT ![h] = c] /\ c.pc = "expiry"
<1> DEFINE b == session = {t}
           c == Checking(t, b)
<1>1. b \in BOOLEAN
  OBVIOUS
<1>2. call' = [call EXCEPT ![h] = c]
  BY DEF CheckReadsHash, Checking
<1> HIDE DEF b
<1>3. c \in Call /\ c.pc = "expiry"
  BY <1>1, CheckingFields
<1> HIDE DEF c
<1> QED
  BY <1>2, <1>3

\* A setup goes on with the password it began with.
LEMMA SettingUpGoesOn ==
    ASSUME call \in [Calls -> Call], NEW h \in Calls, SetupStores(h) \/ SetupAddsTenant(h)
    PROVE  \E c \in Call : /\ call' = [call EXCEPT ![h] = c]
                           /\ c.password = call[h].password
                           /\ SetupStores(h) => c.pc = "tenant"
                           /\ SetupAddsTenant(h) => c.pc = "session"
<1>1. call[h] \in Call
  OBVIOUS
<1>2. CASE SetupStores(h)
  <2> DEFINE c == At(call[h], "tenant")
  <2>1. call' = [call EXCEPT ![h] = c] /\ ~SetupAddsTenant(h)
    BY <1>2 DEF SetupStores, SetupAddsTenant, At
  <2>2. c \in Call /\ c.pc = "tenant" /\ c.password = call[h].password
    BY <1>1, AtFields
  <2> HIDE DEF c
  <2> QED
    BY <2>1, <2>2
<1>3. CASE SetupAddsTenant(h)
  <2> DEFINE c == At(call[h], "session")
  <2>1. call' = [call EXCEPT ![h] = c] /\ ~SetupStores(h)
    BY <1>3 DEF SetupStores, SetupAddsTenant, At
  <2>2. c \in Call /\ c.pc = "session" /\ c.password = call[h].password
    BY <1>1, AtFields
  <2> HIDE DEF c
  <2> QED
    BY <2>1, <2>2
<1> QED
  BY <1>2, <1>3

\* A check that admits has found the expiry in the future.
LEMMA ExpiryReading ==
    ASSUME call \in [Calls -> Call], NEW h \in Calls, CheckReadsExpiry(h)
    PROVE  \E c \in Call : /\ call' = [call EXCEPT ![h] = c]
                           /\ \/ c = NoCall
                              \/ c.pc = "write" /\ now <= until
<1>1. call[h] \in Call
  OBVIOUS
<1> DEFINE c == At(call[h], "write")
<1>2. \/ call' = [call EXCEPT ![h] = NoCall]
      \/ call' = [call EXCEPT ![h] = c] /\ now <= until
  BY DEF CheckReadsExpiry, At
<1>3. c \in Call /\ c.pc = "write"
  BY <1>1, AtFields
<1> HIDE DEF c
<1> QED
  BY <1>2, <1>3, NoCallFields

\* A handler that changed a row reads it back or goes to the audit log.
LEMMA Changing ==
    ASSUME NEW h \in Calls, NEW action, NEW a, ToBeAudited(h, action, a)
    PROVE  \E c \in Call : call' = [call EXCEPT ![h] = c] /\ c.pc \in {"summary", "audit"}
<1> DEFINE pc == IF action = "delete" THEN "audit" ELSE "summary"
           c == At(NoCall, pc)
<1>1. call' = [call EXCEPT ![h] = c]
  BY DEF ToBeAudited, At
<1>2. c \in Call /\ c.pc \in {"summary", "audit"}
  BY NoCallFields, AtFields
<1> HIDE DEF c
<1> QED
  BY <1>1, <1>2

\* A handler that has read its row back goes to the audit log.
LEMMA ReadingBack ==
    ASSUME call \in [Calls -> Call], NEW h \in Calls, ReadBack(h)
    PROVE  \E c \in Call : call' = [call EXCEPT ![h] = c] /\ c.pc = "audit"
<1> DEFINE c == At(call[h], "audit")
<1>1. call' = [call EXCEPT ![h] = c]
  BY DEF ReadBack, At
<1>2. c \in Call /\ c.pc = "audit"
  BY AtFields
<1> HIDE DEF c
<1> QED
  BY <1>1, <1>2

\* A key is only generated while there is room for it.
Room == process = "writing" => generated < MaxKeys

\* Between creating the key file and filling it no other key is generated.
LEMMA RoomAlways == Spec => []Room
<1>1. Init => Room
  BY DEF Init, KeyInit, Room
<1>2. Room /\ [Next]_vars => Room'
  <2> SUFFICES ASSUME Room, [Next]_vars PROVE Room'
    OBVIOUS
  <2>1. CASE UNCHANGED keyVars
    BY <2>1 DEF keyVars, Room
  <2>2. CASE Crash
    BY <2>2 DEF Crash, ProcessDies, LosePower, Room
  <2>3. CASE Boots
    BY <2>3 DEF Boots, Boot, BootFromEnvironment, BootFromFile, CreateFile, WriteFile,
       StartsWith, Room
  <2>4. CASE WriteBack \/ ChangeEnvironment \/ RemoveBrokenFile
    BY <2>4 DEF WriteBack, ChangeEnvironment, RemoveBrokenFile, Room
  <2> QED
    BY Steps, <2>1, <2>2, <2>3, <2>4 DEF CreateAccount, UpdateAccount, DeleteAccount,
       ToBeAudited, OnlyReads, ReadBack, ReadBackFails, Audit, Finish, vars
<1> QED
  BY <1>1, <1>2, PTL DEF Spec

\* Each step of the key's part keeps its types.
LEMMA KeyTypes ==
    ASSUME KeyTypeOK, Room, Boot \/ ProcessDies \/ LosePower \/ WriteBack \/ ChangeEnvironment
                        \/ RemoveBrokenFile \/ UNCHANGED keyVars
    PROVE  KeyTypeOK'
<1> USE DEF KeyTypeOK, Files, FileWith, MasterKeys, OperatorsKey
<1>1. CASE BootFromEnvironment
  BY <1>1 DEF BootFromEnvironment, StartsWith
<1>2. CASE BootFromFile
  <2>1. file.key \subseteq MasterKeys
    BY DEF NoFile, BrokenFile
  <2> QED
    BY <1>2, <2>1 DEF BootFromFile, StartsWith
<1>3. CASE CreateFile
  BY <1>3 DEF CreateFile
<1>4. CASE WriteFile
  <2>1. generated + 1 \in 1 .. MaxKeys
    BY <1>4 DEF WriteFile, Room
  <2>2. file' \in Files /\ inUse' \subseteq MasterKeys
    <3>1. generated' \in MasterKeys /\ file' = FileWith(generated') /\ inUse' = {generated'}
      BY <1>4, <2>1 DEF WriteFile
    <3> QED
      BY <3>1
  <2> QED
    BY <1>4, <2>1, <2>2 DEF WriteFile
<1>5. CASE ProcessDies
  BY <1>5 DEF ProcessDies
<1>6. CASE LosePower
  BY <1>6 DEF LosePower
<1>7. CASE WriteBack
  BY <1>7 DEF WriteBack
<1>8. CASE ChangeEnvironment
  BY <1>8 DEF ChangeEnvironment
<1>9. CASE RemoveBrokenFile
  BY <1>9 DEF RemoveBrokenFile
<1>10. CASE UNCHANGED keyVars
  BY <1>10 DEF keyVars
<1> QED
  BY <1>1, <1>2, <1>3, <1>4, <1>5, <1>6, <1>7, <1>8, <1>9, <1>10 DEF Boot

\* Shapes of the settings, the key file, the tables and the locals; handlers run
\* only while the service is up.
THEOREM Typing == Spec => []TypeOK
<1>1. Init => TypeOK
  <2> SUFFICES ASSUME Init PROVE TypeOK
    OBVIOUS
  <2>1. SessionTypeOK
    <3>1. call \in [Calls -> Call]
      BY NoCallFields DEF Init, SessionInit
    <3>2. expiry \in Seq(Nat) /\ Len(expiry) = 0
      BY DEF Init, SessionInit
    <3>3. Len(expiry) <= MaxTokens /\ until \in Nat /\ now \in 0 .. MaxTime
      BY <3>2 DEF Init, SessionInit
    <3> QED
      BY <3>1, <3>2, <3>3 DEF Init, SessionInit, SessionTypeOK
  <2>2. KeyTypeOK
    <3>1. file \in Files
      BY DEF Init, KeyInit, Files
    <3>2. generated \in 0 .. MaxKeys
      BY DEF Init, KeyInit
    <3> QED
      BY <3>1, <3>2 DEF Init, KeyInit, KeyTypeOK
  <2>3. /\ rows \in [Accounts -> SUBSET MasterKeys] /\ changed \in [Calls -> SUBSET Change]
        /\ trail \in [Accounts -> Int] /\ unrecorded \in BOOLEAN
    <3>1. rows \in [Accounts -> SUBSET MasterKeys]
      BY DEF Init
    <3>2. changed \in [Calls -> SUBSET Change]
      BY DEF Init
    <3>3. trail \in [Accounts -> Int]
      BY DEF Init, NoTrail
    <3>4. unrecorded \in BOOLEAN
      BY DEF Init
    <3> QED
      BY <3>1, <3>2, <3>3, <3>4
  <2>4. \A h \in Calls : call[h] = NoCall
    BY DEF Init, SessionInit
  <2> QED
    BY <2>1, <2>2, <2>3, <2>4 DEF TypeOK
<1>2. TypeOK /\ Room /\ [Next]_vars => TypeOK'
  <2> SUFFICES ASSUME TypeOK, Room, [Next]_vars PROVE TypeOK'
    OBVIOUS
  <2>c. call \in [Calls -> Call]
    BY DEF TypeOK, SessionTypeOK
  <2>s. ASSUME NEW h \in Calls, call[h].pc # "idle" PROVE Serving
    BY <2>s, NoCallFields DEF TypeOK
  <2>r. ASSUME Serving, UNCHANGED <<keyVars, tables>>, SessionTypeOK' PROVE TypeOK'
    BY <2>r DEF TypeOK, KeyTypeOK, keyVars, tables, Serving
  <2>1. ASSUME NEW h \in Calls, NEW p \in Passwords, Serving, UNCHANGED <<keyVars, tables>>,
               SetupReads(h, p) \/ LoginReads(h, p)
        PROVE  TypeOK'
    <3>1. \E c \in Call : call' = [call EXCEPT ![h] = c]
      BY <2>1, SetupReading, LoginReading
    <3>2. call' \in [Calls -> Call]
      BY <2>c, <3>1
    <3>3. SessionTypeOK'
      BY <2>1, <3>2 DEF SetupReads, LoginReads, TypeOK, SessionTypeOK
    <3> QED
      BY <2>1, <2>r, <3>3
  <2>2. ASSUME NEW h \in Calls, NEW t \in Tokens, Serving, UNCHANGED <<keyVars, tables>>,
               CheckReadsHash(h, t)
        PROVE  TypeOK'
    <3>1. \E c \in Call : call' = [call EXCEPT ![h] = c]
      BY <2>2, HashReading
    <3>2. call' \in [Calls -> Call]
      BY <2>c, <3>1
    <3>3. SessionTypeOK'
      BY <2>2, <3>2 DEF CheckReadsHash, TypeOK, SessionTypeOK
    <3> QED
      BY <2>2, <2>r, <3>3
  <2>3. ASSUME NEW h \in Calls, UNCHANGED <<keyVars, tables>>, SetupStores(h) \/ SetupAddsTenant(h)
        PROVE  TypeOK'
    <3>1. \E c \in Call : call' = [call EXCEPT ![h] = c]
      BY <2>c, <2>3, SettingUpGoesOn
    <3>2. call' \in [Calls -> Call]
      BY <2>c, <3>1
    <3>3. call[h].password \subseteq Passwords
      BY <2>c DEF Call
    <3>4. SessionTypeOK'
      BY <2>3, <3>2, <3>3 DEF SetupStores, SetupAddsTenant, TypeOK, SessionTypeOK
    <3> QED
      BY <2>3, <2>s, <2>r, <3>4 DEF SetupStores, SetupAddsTenant
  <2>4. ASSUME NEW h \in Calls, UNCHANGED <<keyVars, tables>>, StoreSession(h)
        PROVE  TypeOK'
    <3>1. call' \in [Calls -> Call]
      BY <2>c, <2>4, NoCallFields DEF StoreSession
    <3>2. call[h].password \subseteq Passwords /\ call[h].pc = "session"
      BY <2>c, <2>4 DEF Call, StoreSession
    <3>3. now + Lifetime \in Nat /\ until' = now + Lifetime
      BY <2>4 DEF StoreSession, TypeOK, SessionTypeOK
    <3>4. expiry' \in Seq(Nat) /\ Len(expiry') <= MaxTokens
      BY <2>4, <3>3 DEF StoreSession, TypeOK, SessionTypeOK, Tokens
    <3>5. session' \subseteq Tokens
      BY <2>4 DEF StoreSession
    <3>6. SessionTypeOK'
      BY <2>4, <3>1, <3>2, <3>3, <3>4, <3>5 DEF StoreSession, TypeOK, SessionTypeOK
    <3> QED
      BY <2>4, <2>s, <2>r, <3>2, <3>6
  <2>5. ASSUME NEW h \in Calls, UNCHANGED <<keyVars, tables>>, CheckReadsExpiry(h)
        PROVE  TypeOK'
    <3>1. \E c \in Call : call' = [call EXCEPT ![h] = c]
      BY <2>c, <2>5, ExpiryReading
    <3>2. call' \in [Calls -> Call] /\ call[h].pc = "expiry"
      BY <2>c, <2>5, <3>1 DEF CheckReadsExpiry
    <3>3. SessionTypeOK'
      BY <2>5, <3>2 DEF CheckReadsExpiry, TypeOK, SessionTypeOK
    <3> QED
      BY <2>5, <2>s, <2>r, <3>2, <3>3
  <2>6. ASSUME NEW h \in Calls, UNCHANGED <<keyVars, tables>>, StatementFails(h)
        PROVE  TypeOK'
    <3>1. call' \in [Calls -> Call] /\ call[h].pc # "idle"
      BY <2>c, <2>6, NoCallFields DEF StatementFails
    <3>2. SessionTypeOK'
      BY <2>6, <3>1 DEF StatementFails, TypeOK, SessionTypeOK
    <3> QED
      BY <2>6, <2>s, <2>r, <3>1, <3>2
  <2>7. ASSUME NEW h \in Calls, NEW a \in Accounts,
               CreateAccount(h, a) \/ UpdateAccount(h, a) \/ DeleteAccount(h, a)
        PROVE  TypeOK'
    <3>1. PICK action \in {"create", "update", "delete"} : ToBeAudited(h, action, a)
      BY <2>7 DEF CreateAccount, UpdateAccount, DeleteAccount
    <3>2. \E c \in Call : call' = [call EXCEPT ![h] = c]
      BY <3>1, Changing
    <3>3. call' \in [Calls -> Call] /\ call[h].pc = "write"
      BY <2>c, <3>1, <3>2 DEF ToBeAudited
    <3>4. SessionTypeOK'
      BY <3>1, <3>3 DEF ToBeAudited, TypeOK, SessionTypeOK
    <3>5. [action |-> action, row |-> a] \in Change
      BY DEF Change
    <3>6. changed' \in [Calls -> SUBSET Change]
      BY <3>1, <3>5 DEF ToBeAudited, TypeOK
    <3>7. rows' \in [Accounts -> SUBSET MasterKeys]
      BY <2>7 DEF CreateAccount, UpdateAccount, DeleteAccount, TypeOK, KeyTypeOK
    <3>8. KeyTypeOK' /\ trail' \in [Accounts -> Int] /\ unrecorded' \in BOOLEAN
      BY <3>1, KeyTypes DEF ToBeAudited, TypeOK
    <3>9. Serving'
      BY <2>s, <3>1, <3>3 DEF ToBeAudited, keyVars, Serving
    <3> QED
      BY <3>4, <3>6, <3>7, <3>8, <3>9 DEF TypeOK
  <2>8. ASSUME NEW h \in Calls, OnlyReads(h) PROVE TypeOK'
    <3>1. call' \in [Calls -> Call] /\ call[h].pc = "write"
      BY <2>c, <2>8, NoCallFields DEF OnlyReads
    <3>2. SessionTypeOK'
      BY <2>8, <3>1 DEF OnlyReads, TypeOK, SessionTypeOK
    <3> QED
      BY <2>8, <2>s, <2>r, <3>1, <3>2 DEF OnlyReads
  <2>9. ASSUME NEW h \in Calls, ReadBackFails(h) \/ Audit(h) PROVE TypeOK'
    <3> USE DEF Finish, ReadBackFails
    <3>1. call' \in [Calls -> Call] /\ call[h].pc \in {"summary", "audit"}
      BY <2>c, <2>9, NoCallFields DEF Audit
    <3>2. SessionTypeOK'
      BY <2>9, <3>1 DEF Audit, TypeOK, SessionTypeOK
    <3>3. changed' \in [Calls -> SUBSET Change]
      BY <2>9 DEF Audit, TypeOK
    <3>4. NoTrail \in [Accounts -> Int]
      BY DEF NoTrail
    <3>5. trail' \in [Accounts -> Int] /\ unrecorded' \in BOOLEAN
      <4>1. ASSUME NEW c \in changed[h], trail' = [trail EXCEPT ![c.row] = @ + EntryFor(c)]
            PROVE  trail' \in [Accounts -> Int]
        <5>1. EntryFor(c) \in Int
          BY DEF EntryFor
        <5>2. trail \in [Accounts -> Int]
          BY DEF TypeOK
        <5>3. trail' = [trail EXCEPT ![c.row] = trail[c.row] + EntryFor(c)]
          BY <4>1
        <5>4. c.row \in Accounts
          BY <2>9 DEF TypeOK, Change
        <5>5. trail[c.row] + EntryFor(c) \in Int
          BY <5>1, <5>2, <5>4
        <5> QED
          BY <5>2, <5>3, <5>5
      <4>2. unrecorded \in BOOLEAN /\ trail \in [Accounts -> Int]
        BY DEF TypeOK
      <4> QED
        BY <2>9, <3>4, <4>1, <4>2 DEF Audit
    <3>6. KeyTypeOK' /\ rows' \in [Accounts -> SUBSET MasterKeys]
      BY <2>9, KeyTypes DEF Audit, TypeOK
    <3>7. Serving'
      BY <2>9, <2>s, <3>1 DEF Audit, keyVars, Serving
    <3> QED
      BY <3>2, <3>3, <3>5, <3>6, <3>7 DEF TypeOK
  <2>14. ASSUME NEW h \in Calls, ReadBack(h) PROVE TypeOK'
    <3>1. call' \in [Calls -> Call] /\ call[h].pc = "summary"
      BY <2>c, <2>14, ReadingBack DEF ReadBack
    <3>2. SessionTypeOK'
      BY <2>14, <3>1 DEF ReadBack, TypeOK, SessionTypeOK
    <3> QED
      BY <2>14, <2>s, <2>r, <3>1, <3>2, NoCallFields DEF ReadBack
  <2>10. ASSUME Crash PROVE TypeOK'
    <3>1. call' = [h \in Calls |-> NoCall]
      BY <2>10 DEF Crash, HandlersDie
    <3>2. call' \in [Calls -> Call] /\ \A h \in Calls : call'[h] = NoCall
      BY <3>1, NoCallFields
    <3>3. SessionTypeOK'
      BY <2>10, <3>2 DEF Crash, HandlersDie, TypeOK, SessionTypeOK
    <3>4. KeyTypeOK'
      BY <2>10, KeyTypes DEF Crash, TypeOK
    <3>5. changed' \in [Calls -> SUBSET Change] /\ rows' = rows
      BY <2>10 DEF Crash
    <3>6. NoTrail \in [Accounts -> Int]
      BY DEF NoTrail
    <3>7. trail \in [Accounts -> Int] /\ unrecorded \in BOOLEAN
      BY DEF TypeOK
    <3>8. trail' \in [Accounts -> Int] /\ unrecorded' \in BOOLEAN
      BY <2>10, <3>6, <3>7 DEF Crash
    <3> QED
      BY <3>2, <3>3, <3>4, <3>5, <3>8 DEF TypeOK
  <2>11. ASSUME Boots \/ /\ WriteBack \/ ChangeEnvironment \/ RemoveBrokenFile
                         /\ UNCHANGED <<sessionVars, tables>>
         PROVE  TypeOK'
    <3>1. KeyTypeOK'
      BY <2>11, KeyTypes DEF Boots, TypeOK
    <3>2. UNCHANGED <<sessionVars, tables>>
      BY <2>11 DEF Boots
    <3>3. SessionTypeOK'
      BY <3>2 DEF sessionVars, TypeOK, SessionTypeOK
    <3>4. Serving => Serving'
      BY <2>11 DEF Boots, Boot, BootFromEnvironment, BootFromFile, CreateFile, WriteFile,
         StartsWith, WriteBack, ChangeEnvironment, RemoveBrokenFile, Serving
    <3> QED
      BY <3>1, <3>2, <3>3, <3>4 DEF TypeOK, sessionVars, tables
  <2>12. ASSUME Tick, UNCHANGED <<keyVars, tables>> PROVE TypeOK'
    <3>1. SessionTypeOK' /\ UNCHANGED call
      BY <2>12 DEF Tick, TypeOK, SessionTypeOK
    <3>2. KeyTypeOK'
      BY <2>12, KeyTypes DEF TypeOK
    <3> QED
      BY <2>12, <3>1, <3>2 DEF TypeOK, keyVars, tables, Serving
  <2>13. CASE UNCHANGED vars
    <3>1. SessionTypeOK'
      BY <2>13 DEF vars, sessionVars, TypeOK, SessionTypeOK
    <3>2. KeyTypeOK'
      BY <2>13, KeyTypes DEF TypeOK, vars
    <3> QED
      BY <2>13, <3>1, <3>2 DEF vars, TypeOK, sessionVars, keyVars, tables, Serving
  <2> QED
    BY Steps, <2>1, <2>2, <2>3, <2>4, <2>5, <2>6, <2>7, <2>8, <2>9, <2>10, <2>11, <2>12, <2>13,
       <2>14
<1> QED
  BY <1>1, <1>2, RoomAlways, PTL DEF Spec

\* What a step may do to the password, the session and the handlers on their way
\* to one: all other steps leave these alone or end handlers.
LEMMA SessionSteps ==
    ASSUME TypeOK, [Next]_vars
    PROVE  \/ \E h \in Calls, p \in Passwords : SetupReads(h, p) \/ LoginReads(h, p)
           \/ \E h \in Calls : SetupStores(h) \/ SetupAddsTenant(h) \/ StoreSession(h)
           \/ \E h \in Calls, c \in Call :
                 /\ call' = [call EXCEPT ![h] = c]
                 /\ c.pc \in {"idle", "expiry", "write", "summary", "audit"}
                 /\ call[h].pc = "expiry" /\ c.pc = "write" => now <= until
                 /\ (cut => cut') /\ (call[h].pc = "tenant" => cut')
                 /\ UNCHANGED <<password, tenant, session, until, expiry, overlapped, knows>>
           \/ HandlersDie
           \/ UNCHANGED <<password, tenant, session, until, expiry, call, cut, overlapped, knows>>
<1> DEFINE Else == \E h \in Calls, c \in Call :
              /\ call' = [call EXCEPT ![h] = c]
              /\ c.pc \in {"idle", "expiry", "write", "summary", "audit"}
              /\ call[h].pc = "expiry" /\ c.pc = "write" => now <= until
              /\ (cut => cut') /\ (call[h].pc = "tenant" => cut')
              /\ UNCHANGED <<password, tenant, session, until, expiry, overlapped, knows>>
           Same == UNCHANGED <<password, tenant, session, until, expiry, call, cut, overlapped,
                               knows>>
<1>c. call \in [Calls -> Call]
  BY DEF TypeOK, SessionTypeOK
<1>1. ASSUME NEW h \in Calls, NEW t \in Tokens, CheckReadsHash(h, t) PROVE Else
  <2>1. PICK c \in Call : call' = [call EXCEPT ![h] = c] /\ c.pc = "expiry"
    BY <1>1, HashReading
  <2> QED
    BY <1>1, <2>1 DEF CheckReadsHash
<1>2. ASSUME NEW h \in Calls, CheckReadsExpiry(h) PROVE Else
  <2>1. PICK c \in Call : /\ call' = [call EXCEPT ![h] = c]
                          /\ \/ c = NoCall
                             \/ c.pc = "write" /\ now <= until
    BY <1>c, <1>2, ExpiryReading
  <2>2. c.pc \in {"idle", "write"} /\ (c.pc = "write" => now <= until)
    BY <2>1, NoCallFields
  <2> QED
    BY <1>2, <2>1, <2>2 DEF CheckReadsExpiry
<1>3. ASSUME NEW h \in Calls, StatementFails(h) PROVE Else
  BY <1>3, NoCallFields DEF StatementFails
<1>4. ASSUME NEW h \in Calls, NEW a \in Accounts,
             CreateAccount(h, a) \/ UpdateAccount(h, a) \/ DeleteAccount(h, a)
      PROVE  Else
  <2>1. PICK action : ToBeAudited(h, action, a)
    BY <1>4 DEF CreateAccount, UpdateAccount, DeleteAccount
  <2>2. PICK c \in Call : call' = [call EXCEPT ![h] = c] /\ c.pc \in {"summary", "audit"}
    BY <2>1, Changing
  <2> QED
    BY <2>1, <2>2 DEF ToBeAudited
<1>5. ASSUME NEW h \in Calls, OnlyReads(h) \/ ReadBackFails(h) \/ Audit(h) PROVE Else
  BY <1>5, NoCallFields DEF OnlyReads, ReadBackFails, Audit, Finish
<1>7. ASSUME NEW h \in Calls, ReadBack(h) PROVE Else
  <2>1. PICK c \in Call : call' = [call EXCEPT ![h] = c] /\ c.pc = "audit"
    BY <1>c, <1>7, ReadingBack
  <2> QED
    BY <1>7, <2>1 DEF ReadBack
<1>6. ASSUME UNCHANGED sessionVars \/ Tick PROVE Same
  BY <1>6 DEF sessionVars, Tick
<1> QED
  BY Steps, <1>1, <1>2, <1>3, <1>4, <1>5, <1>6, <1>7 DEF Crash, Boots, vars

\* A call's handler is the only one that a step of it moves.
LEMMA OneMoves ==
    ASSUME TypeOK, NEW h \in Calls, NEW c \in Call, call' = [call EXCEPT ![h] = c]
    PROVE  \A g \in Calls : call'[g] = IF g = h THEN c ELSE call[g]
BY DEF TypeOK, SessionTypeOK

\* However setups, failures and crashes interleave, a password without the tenant
\* is left behind only by a setup that was cut off.
THEOREM SetupCompletes == Spec => []SetupIsWhole
<1>1. Init => SetupIsWhole
  BY DEF Init, SessionInit, SetupIsWhole
<1>2. TypeOK /\ SetupIsWhole /\ [Next]_vars => SetupIsWhole'
  <2> SUFFICES ASSUME TypeOK, SetupIsWhole, [Next]_vars PROVE SetupIsWhole'
    OBVIOUS
  <2> USE DEF SetupIsWhole
  <2>c. call \in [Calls -> Call]
    BY DEF TypeOK, SessionTypeOK
  <2>1. ASSUME NEW h \in Calls, NEW p \in Passwords, SetupReads(h, p) \/ LoginReads(h, p)
        PROVE  SetupIsWhole'
    <3>1. PICK c \in Call : call' = [call EXCEPT ![h] = c]
      BY <2>1, SetupReading, LoginReading
    <3>2. call[h].pc = "idle" /\ UNCHANGED <<password, tenant, cut>>
      BY <2>1 DEF SetupReads, LoginReads
    <3> QED
      BY <3>1, <3>2, OneMoves
  <2>2. ASSUME NEW h \in Calls, SetupStores(h) \/ SetupAddsTenant(h) PROVE SetupIsWhole'
    <3>1. PICK c \in Call : /\ call' = [call EXCEPT ![h] = c]
                            /\ SetupStores(h) => c.pc = "tenant"
      BY <2>c, <2>2, SettingUpGoesOn
    <3>2. call'[h] = c
      BY <3>1, OneMoves
    <3>3. SetupAddsTenant(h) => tenant'
      BY DEF SetupAddsTenant
    <3> QED
      BY <2>2, <3>1, <3>2, <3>3
  <2>3. ASSUME NEW h \in Calls, StoreSession(h) PROVE SetupIsWhole'
    <3>1. call' = [call EXCEPT ![h] = NoCall] /\ call[h].pc = "session"
          /\ UNCHANGED <<password, tenant, cut>>
      BY <2>3 DEF StoreSession
    <3> QED
      BY <3>1, OneMoves, NoCallFields
  <2>4. ASSUME NEW h \in Calls, NEW c \in Call, call' = [call EXCEPT ![h] = c],
               cut => cut', call[h].pc = "tenant" => cut', UNCHANGED <<password, tenant>>
        PROVE  SetupIsWhole'
    BY <2>4, OneMoves
  <2>5. CASE HandlersDie
    BY <2>5 DEF HandlersDie
  <2>6. CASE UNCHANGED <<password, tenant, session, until, expiry, call, cut, overlapped, knows>>
    BY <2>6
  <2> QED
    BY SessionSteps, <2>1, <2>2, <2>3, <2>4, <2>5, <2>6
<1> QED
  BY <1>1, <1>2, Typing, PTL DEF Spec

\* Without an overlap one setup runs at a time and meets no password; whoever is on
\* the way to a session holds the password in force.
HoldThePassword ==
    ~overlapped =>
        /\ \A g, h \in Calls : SettingUp(g) /\ SettingUp(h) => g = h
        /\ \A h \in Calls : call[h].pc = "hash" => password = {}
        /\ \A h \in Calls : call[h].pc \in {"tenant", "session"} => call[h].password = password
        /\ \A h \in Calls : call[h].pc \in {"hash", "tenant", "session"} => call[h].password # {}
        /\ password = {} => session = {}

\* Setups and logins in any order and cut off anywhere leave the session with
\* somebody who knows the password, unless two first setups overlapped.
THEOREM PasswordAndSession == Spec => []SessionKnowsPassword
<1> DEFINE IInv == HoldThePassword /\ SessionKnowsPassword
<1>1. Init => IInv
  BY NoCallFields DEF Init, SessionInit, HoldThePassword, SessionKnowsPassword, SettingUp
<1>2. TypeOK /\ IInv /\ [Next]_vars => IInv'
  <2> SUFFICES ASSUME TypeOK, IInv, [Next]_vars PROVE IInv'
    OBVIOUS
  <2>c. call \in [Calls -> Call]
    BY DEF TypeOK, SessionTypeOK
  <2> USE DEF HoldThePassword, SessionKnowsPassword, SettingUp
  <2>1. ASSUME NEW h \in Calls, NEW p \in Passwords, SetupReads(h, p) PROVE IInv'
    <3>1. PICK c \in Call : call' = [call EXCEPT ![h] = c] /\ c.pc = "hash" /\ c.password # {}
      BY <2>1, SetupReading
    <3>2. /\ call[h].pc = "idle" /\ password = {} /\ UNCHANGED <<password, session, knows>>
          /\ ~overlapped' => ~overlapped /\ \A g \in Calls : ~SettingUp(g)
      BY <2>1 DEF SetupReads
    <3>3. \A g \in Calls : call'[g] = IF g = h THEN c ELSE call[g]
      BY <3>1, OneMoves
    <3> QED
      BY <3>1, <3>2, <3>3
  <2>2. ASSUME NEW h \in Calls, NEW p \in Passwords, LoginReads(h, p) PROVE IInv'
    <3>1. PICK c \in Call : /\ call' = [call EXCEPT ![h] = c] /\ c.pc = "session"
                            /\ c.password = password /\ password # {}
      BY <2>2, LoginReading
    <3>2. UNCHANGED <<password, session, knows, overlapped>>
      BY <2>2 DEF LoginReads
    <3>3. \A g \in Calls : call'[g] = IF g = h THEN c ELSE call[g]
      BY <3>1, OneMoves
    <3> QED
      BY <3>1, <3>2, <3>3
  <2>3. ASSUME NEW h \in Calls, SetupStores(h) PROVE IInv'
    <3>1. PICK c \in Call : /\ call' = [call EXCEPT ![h] = c] /\ c.pc = "tenant"
                            /\ c.password = call[h].password
      BY <2>c, <2>3, SettingUpGoesOn
    <3>2. /\ call[h].pc = "hash" /\ password' = call[h].password
          /\ UNCHANGED <<session, knows, overlapped>>
      BY <2>3 DEF SetupStores
    <3>3. \A g \in Calls : call'[g] = IF g = h THEN c ELSE call[g]
      BY <3>1, OneMoves
    <3> QED
      BY <3>1, <3>2, <3>3
  <2>4. ASSUME NEW h \in Calls, SetupAddsTenant(h) PROVE IInv'
    <3>1. PICK c \in Call : /\ call' = [call EXCEPT ![h] = c] /\ c.pc = "session"
                            /\ c.password = call[h].password
      BY <2>c, <2>4, SettingUpGoesOn
    <3>2. call[h].pc = "tenant" /\ UNCHANGED <<password, session, knows, overlapped>>
      BY <2>4 DEF SetupAddsTenant
    <3>3. \A g \in Calls : call'[g] = IF g = h THEN c ELSE call[g]
      BY <3>1, OneMoves
    <3> QED
      BY <3>1, <3>2, <3>3
  <2>5. ASSUME NEW h \in Calls, StoreSession(h) PROVE IInv'
    <3>1. /\ call[h].pc = "session" /\ call' = [call EXCEPT ![h] = NoCall]
          /\ knows' = call[h].password /\ UNCHANGED <<password, overlapped>>
      BY <2>5 DEF StoreSession
    <3>2. \A g \in Calls : call'[g] = IF g = h THEN NoCall ELSE call[g]
      BY <3>1, OneMoves, NoCallFields
    <3> QED
      BY <3>1, <3>2, NoCallFields
  <2>6. ASSUME NEW h \in Calls, NEW c \in Call, call' = [call EXCEPT ![h] = c],
               c.pc \in {"idle", "expiry", "write", "summary", "audit"},
               UNCHANGED <<password, session, overlapped, knows>>
        PROVE  IInv'
    <3>1. \A g \in Calls : call'[g] = IF g = h THEN c ELSE call[g]
      BY <2>6, OneMoves
    <3> QED
      BY <2>6, <3>1
  <2>7. CASE HandlersDie
    <3>1. \A g \in Calls : call'[g] = NoCall
      BY <2>7 DEF HandlersDie
    <3> QED
      BY <2>7, <3>1, NoCallFields DEF HandlersDie
  <2>8. CASE UNCHANGED <<password, tenant, session, until, expiry, call, cut, overlapped, knows>>
    BY <2>8
  <2> QED
    BY SessionSteps, <2>1, <2>2, <2>3, <2>4, <2>5, <2>6, <2>7, <2>8
<1> QED
  BY <1>1, <1>2, Typing, PTL DEF Spec

\* The session in force is a token that was issued, with the expiry it was issued with.
InForce == \A t \in Tokens : session = {t} => t \in DOMAIN expiry /\ expiry[t] = until

\* The expiry that a check reads belongs to the session of that moment.
LEMMA InForceAlways == Spec => []InForce
<1>1. Init => InForce
  BY DEF Init, SessionInit, InForce
<1>2. TypeOK /\ InForce /\ [Next]_vars => InForce'
  <2> SUFFICES ASSUME TypeOK, InForce, [Next]_vars PROVE InForce'
    OBVIOUS
  <2>1. CASE UNCHANGED <<session, until, expiry>>
    BY <2>1 DEF InForce
  <2>2. ASSUME NEW h \in Calls, StoreSession(h) PROVE InForce'
    <3> DEFINE token == Len(expiry) + 1
    <3>1. /\ expiry \in Seq(Nat) /\ now + Lifetime \in Nat
      BY DEF TypeOK, SessionTypeOK
    <3>2. session' = {token} /\ until' = now + Lifetime /\ expiry' = Append(expiry, now + Lifetime)
      BY <2>2 DEF StoreSession
    <3>3. token \in DOMAIN expiry' /\ expiry'[token] = now + Lifetime
      BY <3>1, <3>2
    <3> HIDE DEF token
    <3> QED
      BY <3>2, <3>3 DEF InForce
  <2> QED
    BY SessionSteps, <2>1, <2>2 DEF SetupReads, LoginReads, SetupStores, SetupAddsTenant,
       HandlersDie
<1> QED
  BY <1>1, <1>2, Typing, PTL DEF Spec

\* However logins come between the two reads of a check, a token that has expired is
\* refused unless a login has replaced it.
THEOREM NoExpiredToken == Spec => ExpiredIsRefused
<1> DEFINE Refused == \A h \in Calls, t \in Tokens :
              call[h].pc = "expiry" /\ call'[h].pc = "write" /\ t \in call[h].token
                 => now <= expiry[t] \/ session # {t}
<1>1. TypeOK /\ InForce /\ [Next]_vars => [Refused]_vars
  <2> SUFFICES ASSUME TypeOK, InForce, [Next]_vars, NEW h \in Calls, NEW t \in Tokens,
                      call[h].pc = "expiry", call'[h].pc = "write", session = {t}
               PROVE  now <= expiry[t]
    OBVIOUS
  <2>c. call \in [Calls -> Call]
    BY DEF TypeOK, SessionTypeOK
  <2>1. now <= until
    <3>1. ASSUME NEW g \in Calls, NEW p \in Passwords, SetupReads(g, p) \/ LoginReads(g, p)
          PROVE  FALSE
      <4>1. PICK c \in Call : call' = [call EXCEPT ![g] = c] /\ c.pc \in {"hash", "session"}
        BY <3>1, SetupReading, LoginReading
      <4> QED
        BY <4>1, OneMoves
    <3>2. ASSUME NEW g \in Calls, SetupStores(g) \/ SetupAddsTenant(g) PROVE FALSE
      <4>1. PICK c \in Call : call' = [call EXCEPT ![g] = c] /\ c.pc \in {"tenant", "session"}
        BY <2>c, <3>2, SettingUpGoesOn
      <4> QED
        BY <4>1, OneMoves
    <3>3. ASSUME NEW g \in Calls, StoreSession(g) PROVE FALSE
      <4>1. call' = [call EXCEPT ![g] = NoCall]
        BY <3>3 DEF StoreSession
      <4> QED
        BY <4>1, OneMoves, NoCallFields
    <3>4. ASSUME NEW g \in Calls, NEW c \in Call, call' = [call EXCEPT ![g] = c],
                 call[g].pc = "expiry" /\ c.pc = "write" => now <= until
          PROVE  now <= until
      BY <3>4, OneMoves
    <3>5. ~HandlersDie
      BY NoCallFields DEF HandlersDie
    <3>6. ~UNCHANGED call
      OBVIOUS
    <3> QED
      BY SessionSteps, <3>1, <3>2, <3>3, <3>4, <3>5, <3>6
  <2> QED
    BY <2>1 DEF InForce
<1> QED
  BY <1>1, Typing, InForceAlways, PTL DEF Spec, ExpiredIsRefused

\* The key that a start-up would find.
KeptKey == IF env # {} THEN env ELSE file.key

\* A running service has a key, and so long as nobody took the kept one away, it is
\* the kept one and every row is under it. While the file is being written there is
\* none, and hence no row.
KeyInForce ==
    /\ Serving => inUse # {}
    /\ process = "writing" => env = {} /\ file = BrokenFile
    /\ ~swapped /\ ~undone =>
          /\ \A a \in Accounts : rows[a] \subseteq KeptKey
          /\ Serving => inUse = KeptKey

\* A step is about a row, the key or neither.
LEMMA KeySteps ==
    ASSUME [Next]_vars
    PROVE  \/ \E h \in Calls, a \in Accounts :
                 CreateAccount(h, a) \/ UpdateAccount(h, a) \/ DeleteAccount(h, a)
           \/ /\ Boot \/ ProcessDies \/ LosePower \/ WriteBack \/ ChangeEnvironment
                 \/ RemoveBrokenFile
              /\ UNCHANGED rows
           \/ UNCHANGED <<keyVars, rows>>
BY Steps DEF Crash, Boots, OnlyReads, ReadBack, ReadBackFails, Audit, Finish, vars, tables

\* The key file in its three forms.
LEMMA FileKeys ==
    /\ NoFile.key = {} /\ ~NoFile.exists /\ BrokenFile.key = {} /\ BrokenFile.exists
    /\ \A k : FileWith(k).key = {k} /\ FileWith(k).exists
BY DEF NoFile, BrokenFile, FileWith

\* The invariant about the key is kept by every step.
LEMMA KeyInForceAlways == Spec => []KeyInForce
<1>1. Init => KeyInForce
  BY FileKeys DEF Init, KeyInit, KeyInForce, KeptKey, Serving
<1>2. TypeOK /\ KeyInForce /\ [Next]_vars => KeyInForce'
  <2> SUFFICES ASSUME TypeOK, KeyInForce, [Next]_vars PROVE KeyInForce'
    OBVIOUS
  <2>f. \/ file = NoFile \/ file = BrokenFile
        \/ \E k : file = FileWith(k)
    BY DEF TypeOK, KeyTypeOK, Files
  <2> USE FileKeys DEF KeyInForce, KeptKey, Serving
  <2>1. ASSUME NEW h \in Calls, NEW a \in Accounts,
               CreateAccount(h, a) \/ UpdateAccount(h, a) \/ DeleteAccount(h, a)
        PROVE  KeyInForce'
    <3>1. call[h].pc = "write" /\ UNCHANGED keyVars
      BY <2>1 DEF CreateAccount, UpdateAccount, DeleteAccount, ToBeAudited
    <3>2. Serving
      BY <3>1, NoCallFields DEF TypeOK
    <3>3. rows' = [rows EXCEPT ![a] = inUse] \/ rows' = [rows EXCEPT ![a] = {}]
      BY <2>1 DEF CreateAccount, UpdateAccount, DeleteAccount
    <3>4. \A b \in Accounts : rows'[b] = rows[b] \/ rows'[b] = inUse \/ rows'[b] = {}
      BY <3>3 DEF TypeOK
    <3> QED
      BY <3>1, <3>2, <3>4 DEF keyVars
  <2>2. CASE BootFromEnvironment /\ UNCHANGED rows
    BY <2>2 DEF BootFromEnvironment, StartsWith
  <2>3. CASE BootFromFile /\ UNCHANGED rows
    BY <2>3 DEF BootFromFile, StartsWith
  <2>4. CASE CreateFile /\ UNCHANGED rows
    <3>1. file = NoFile
      BY <2>4, <2>f DEF CreateFile
    <3> QED
      BY <2>4, <3>1 DEF CreateFile
  <2>5. CASE WriteFile /\ UNCHANGED rows
    <3>1. env = {} /\ file.key = {}
      BY <2>5 DEF WriteFile
    <3> QED
      BY <2>5, <3>1 DEF WriteFile
  <2>6. CASE ProcessDies /\ UNCHANGED rows
    BY <2>6 DEF ProcessDies
  <2>7. CASE LosePower /\ UNCHANGED rows
    BY <2>7 DEF LosePower
  <2>8. CASE WriteBack /\ UNCHANGED rows
    BY <2>8 DEF WriteBack
  <2>9. CASE ChangeEnvironment /\ UNCHANGED rows
    BY <2>9 DEF ChangeEnvironment
  <2>10. CASE RemoveBrokenFile /\ UNCHANGED rows
    BY <2>10 DEF RemoveBrokenFile
  <2>11. CASE UNCHANGED <<keyVars, rows>>
    BY <2>11 DEF keyVars
  <2> QED
    BY KeySteps, <2>1, <2>2, <2>3, <2>4, <2>5, <2>6, <2>7, <2>8, <2>9, <2>10, <2>11 DEF Boot
<1> QED
  BY <1>1, <1>2, Typing, PTL DEF Spec

\* Through any crash and at any point of start-up every stored credential can be
\* decrypted, unless the environment was changed or a power failure took the file.
THEOREM CredentialsStayOpen == Spec => []CredentialsOpen
<1>1. KeyInForce => CredentialsOpen
  BY DEF KeyInForce, CredentialsOpen
<1> QED
  BY <1>1, KeyInForceAlways, PTL

\* What a handler notes about its change.
Note(action, a) == [action |-> action, row |-> a]

\* The handlers whose change of a row has no entry yet, by what they changed.
Pending(owed, action, a) == {h \in Calls : Note(action, a) \in owed[h]}

\* An action and a row are told apart by either.
LEMMA ChangesDiffer ==
    \A x, y, a, b : Note(x, a) = Note(y, b) <=> x = y /\ a = b
<1> SUFFICES ASSUME NEW x, NEW y, NEW a, NEW b,
                    Note(x, a) = Note(y, b)
             PROVE  x = y /\ a = b
  OBVIOUS
<1>1. Note(x, a).action = x /\ Note(x, a).row = a
  BY DEF Note
<1>2. Note(y, b).action = y /\ Note(y, b).row = b
  BY DEF Note
<1> QED
  BY <1>1, <1>2

\* Pending changes can be counted.
LEMMA PendingIsFinite ==
    \A owed, x, a : IsFiniteSet(Pending(owed, x, a)) /\ Cardinality(Pending(owed, x, a)) \in Nat
<1> SUFFICES ASSUME NEW owed, NEW x, NEW a
             PROVE  IsFiniteSet(Pending(owed, x, a)) /\ Cardinality(Pending(owed, x, a)) \in Nat
  OBVIOUS
<1>1. Pending(owed, x, a) \subseteq Calls
  BY DEF Pending
<1>2. IsFiniteSet(Pending(owed, x, a))
  BY <1>1, FS_Subset
<1> QED
  BY <1>2, FS_CardinalityType

\* The notes before and after a handler notes a change, or after and before it has
\* its entry.
Noted(without, with, h, x, a) ==
    /\ without[h] = {} /\ with[h] = {Note(x, a)}
    /\ \A g \in Calls : g # h => with[g] = without[g]

\* A note counts once, and for its own change only.
LEMMA NotedOnce ==
    ASSUME NEW without, NEW with, NEW h \in Calls, NEW x, NEW a, Noted(without, with, h, x, a)
    PROVE  /\ Cardinality(Pending(with, x, a)) = Cardinality(Pending(without, x, a)) + 1
           /\ \A y, b : y # x \/ b # a => Pending(with, y, b) = Pending(without, y, b)
<1>1. Pending(with, x, a) = Pending(without, x, a) \cup {h} /\ h \notin Pending(without, x, a)
  BY DEF Noted, Pending
<1>2. IsFiniteSet(Pending(without, x, a))
  BY PendingIsFinite
<1>3. Cardinality(Pending(with, x, a)) = Cardinality(Pending(without, x, a)) + 1
  BY <1>1, <1>2, FS_AddElement
<1>4. ASSUME NEW y, NEW b, y # x \/ b # a PROVE Pending(with, y, b) = Pending(without, y, b)
  <2>1. Note(y, b) \notin {Note(x, a)}
    BY <1>4, ChangesDiffer
  <2> QED
    BY <2>1 DEF Noted, Pending
<1> QED
  BY <1>3, <1>4

\* Exactly the handlers on their way to the audit log owe an entry, of one change
\* each. With the entries that are owed, those that are there account for every row.
Owed ==
    \A h \in Calls : IF call[h].pc \in {"summary", "audit"}
                     THEN \E c \in Change : changed[h] = {c} ELSE changed[h] = {}
Present(a) == IF rows[a] = {} THEN 0 ELSE 1
Balanced ==
    ~unrecorded => \A a \in Accounts :
        (trail[a] + Cardinality(Pending(changed, "create", a)))
           - Cardinality(Pending(changed, "delete", a)) = Present(a)

\* What a step may do to the rows, the entries and the handlers that owe one.
LEMMA TrailSteps ==
    ASSUME TypeOK, [Next]_vars
    PROVE  \/ \E h \in Calls, a \in Accounts :
                 CreateAccount(h, a) \/ UpdateAccount(h, a) \/ DeleteAccount(h, a)
           \/ \E h \in Calls : ReadBackFails(h) \/ Audit(h)
           \/ Crash
           \/ \E h \in Calls, c \in Call :
                 /\ call' = [call EXCEPT ![h] = c] /\ UNCHANGED tables
                 /\ (call[h].pc \in {"summary", "audit"}) <=> (c.pc \in {"summary", "audit"})
           \/ UNCHANGED <<call, tables>>
<1> DEFINE Else == \E h \in Calls, c \in Call :
              /\ call' = [call EXCEPT ![h] = c] /\ UNCHANGED tables
              /\ (call[h].pc \in {"summary", "audit"}) <=> (c.pc \in {"summary", "audit"})
<1>c. call \in [Calls -> Call]
  BY DEF TypeOK, SessionTypeOK
<1>1. ASSUME NEW h \in Calls, NEW p \in Passwords, SetupReads(h, p) \/ LoginReads(h, p),
             UNCHANGED tables
      PROVE  Else
  <2>1. PICK c \in Call : call' = [call EXCEPT ![h] = c] /\ c.pc \in {"hash", "session"}
    BY <1>1, SetupReading, LoginReading
  <2> QED
    BY <1>1, <2>1 DEF SetupReads, LoginReads
<1>2. ASSUME NEW h \in Calls, NEW t \in Tokens, CheckReadsHash(h, t), UNCHANGED tables
      PROVE  Else
  <2>1. PICK c \in Call : call' = [call EXCEPT ![h] = c] /\ c.pc = "expiry"
    BY <1>2, HashReading
  <2> QED
    BY <1>2, <2>1 DEF CheckReadsHash
<1>3. ASSUME NEW h \in Calls, SetupStores(h) \/ SetupAddsTenant(h), UNCHANGED tables
      PROVE  Else
  <2>1. PICK c \in Call : call' = [call EXCEPT ![h] = c] /\ c.pc \in {"tenant", "session"}
    BY <1>c, <1>3, SettingUpGoesOn
  <2> QED
    BY <1>3, <2>1 DEF SetupStores, SetupAddsTenant
<1>4. ASSUME NEW h \in Calls, CheckReadsExpiry(h), UNCHANGED tables PROVE Else
  <2>1. PICK c \in Call : /\ call' = [call EXCEPT ![h] = c]
                          /\ \/ c = NoCall
                             \/ c.pc = "write" /\ now <= until
    BY <1>c, <1>4, ExpiryReading
  <2> QED
    BY <1>4, <2>1, NoCallFields DEF CheckReadsExpiry
<1>5. ASSUME NEW h \in Calls, StoreSession(h) \/ StatementFails(h) \/ OnlyReads(h),
             UNCHANGED tables
      PROVE  Else
  BY <1>5, NoCallFields DEF StoreSession, StatementFails, OnlyReads
<1>6. UNCHANGED sessionVars \/ Tick => UNCHANGED call
  BY DEF sessionVars, Tick
<1>7. ASSUME NEW h \in Calls, ReadBack(h) PROVE Else
  <2>1. PICK c \in Call : call' = [call EXCEPT ![h] = c] /\ c.pc = "audit"
    BY <1>c, <1>7, ReadingBack
  <2> QED
    BY <1>7, <2>1 DEF ReadBack
<1> QED
  BY Steps, <1>1, <1>2, <1>3, <1>4, <1>5, <1>6, <1>7 DEF OnlyReads, Boots, vars

\* Every step keeps the account of the rows.
LEMMA BalancedAlways == Spec => [](Owed /\ Balanced)
<1> DEFINE IInv == Owed /\ Balanced
<1>1. Init => IInv
  <2> SUFFICES ASSUME Init PROVE IInv
    OBVIOUS
  <2>1. \A h \in Calls : changed[h] = {} /\ call[h].pc = "idle"
    BY NoCallFields DEF Init, SessionInit
  <2>2. \A x, a : Pending(changed, x, a) = {}
    BY <2>1 DEF Pending
  <2>3. \A x, a : Cardinality(Pending(changed, x, a)) = 0
    BY <2>2, FS_EmptySet
  <2>4. Owed
    BY <2>1 DEF Owed
  <2>5. \A a \in Accounts : trail[a] = 0 /\ Present(a) = 0
    BY DEF Init, NoTrail, Present
  <2>6. Balanced
    BY <2>3, <2>5 DEF Balanced
  <2> QED
    BY <2>4, <2>6
<1>2. TypeOK /\ KeyInForce /\ IInv /\ [Next]_vars => IInv'
  <2> SUFFICES ASSUME TypeOK, KeyInForce, IInv, [Next]_vars PROVE IInv'
    OBVIOUS
  <2>t. trail \in [Accounts -> Int] /\ \A x, a : Cardinality(Pending(changed, x, a)) \in Nat
    BY PendingIsFinite DEF TypeOK
  <2>1. ASSUME NEW h \in Calls, NEW a \in Accounts, NEW x \in {"create", "update", "delete"},
               ToBeAudited(h, x, a), rows' \in [Accounts -> SUBSET MasterKeys],
               \A b \in Accounts : b # a => rows'[b] = rows[b],
               x = "create" => rows[a] = {} /\ rows'[a] # {},
               x = "update" => rows'[a] = rows[a],
               x = "delete" => rows[a] # {} /\ rows'[a] = {}
        PROVE  IInv'
    <3>1. call[h].pc = "write" /\ UNCHANGED <<trail, unrecorded>>
      BY <2>1 DEF ToBeAudited
    <3>2. changed[h] = {} /\ changed' = [changed EXCEPT ![h] = {Note(x, a)}]
      BY <2>1, <3>1 DEF ToBeAudited, Owed, Note
    <3>3. PICK c \in Call : call' = [call EXCEPT ![h] = c] /\ c.pc \in {"summary", "audit"}
      BY <2>1, Changing
    <3>4. Owed'
      <4>1. \A g \in Calls : call'[g] = IF g = h THEN c ELSE call[g]
        BY <3>3, OneMoves
      <4>2. \A g \in Calls : changed'[g] = IF g = h THEN {Note(x, a)} ELSE changed[g]
        BY <3>2 DEF TypeOK
      <4>3. Note(x, a) \in Change
        BY DEF Change, Note
      <4> QED
        BY <3>3, <4>1, <4>2, <4>3 DEF Owed
    <3>5. /\ Cardinality(Pending(changed', x, a)) = Cardinality(Pending(changed, x, a)) + 1
          /\ \A y, b : y # x \/ b # a => Pending(changed', y, b) = Pending(changed, y, b)
      <4>1. Noted(changed, changed', h, x, a)
        BY <3>2 DEF Noted, TypeOK
      <4> QED
        BY <4>1, NotedOnce
    <3>6. ASSUME ~unrecorded', NEW b \in Accounts
          PROVE  (trail'[b] + Cardinality(Pending(changed', "create", b)))
                    - Cardinality(Pending(changed', "delete", b)) = Present(b)'
      <4> DEFINE made(owed) == Cardinality(Pending(owed, "create", b))
                 gone(owed) == Cardinality(Pending(owed, "delete", b))
      <4>1. trail'[b] = trail[b] /\ trail[b] \in Int
        BY <2>t, <3>1
      <4>2. (trail[b] + made(changed)) - gone(changed) = Present(b)
        BY <3>1, <3>6 DEF Balanced
      <4>3. made(changed) \in Nat /\ gone(changed) \in Nat
        BY <2>t
      <4>4. CASE b # a \/ x = "update"
        <5>1. made(changed') = made(changed) /\ gone(changed') = gone(changed)
          BY <3>5, <4>4
        <5>2. Present(b)' = Present(b)
          BY <2>1, <4>4 DEF Present
        <5> HIDE DEF made, gone
        <5>3. (trail'[b] + made(changed')) - gone(changed') = Present(b)'
          BY <4>1, <4>2, <5>1, <5>2
        <5> QED
          BY <5>3 DEF made, gone
      <4>5. CASE b = a /\ x = "create"
        <5>1. made(changed') = made(changed) + 1 /\ gone(changed') = gone(changed)
          BY <3>5, <4>5
        <5>2. Present(b)' = 1 /\ Present(b) = 0
          BY <2>1, <4>5 DEF Present
        <5> HIDE DEF made, gone
        <5>3. (trail'[b] + made(changed')) - gone(changed') = Present(b)'
          BY <4>1, <4>2, <4>3, <5>1, <5>2
        <5> QED
          BY <5>3 DEF made, gone
      <4>6. CASE b = a /\ x = "delete"
        <5>1. made(changed') = made(changed) /\ gone(changed') = gone(changed) + 1
          BY <3>5, <4>6
        <5>2. Present(b)' = 0 /\ Present(b) = 1
          BY <2>1, <4>6 DEF Present
        <5> HIDE DEF made, gone
        <5>3. (trail'[b] + made(changed')) - gone(changed') = Present(b)'
          BY <4>1, <4>2, <4>3, <5>1, <5>2
        <5> QED
          BY <5>3 DEF made, gone
      <4> QED
        BY <4>4, <4>5, <4>6
    <3> QED
      BY <3>4, <3>6 DEF Balanced
  <2>2. ASSUME NEW h \in Calls, NEW a \in Accounts,
               CreateAccount(h, a) \/ UpdateAccount(h, a) \/ DeleteAccount(h, a)
        PROVE  IInv'
    <3>1. rows \in [Accounts -> SUBSET MasterKeys] /\ inUse \subseteq MasterKeys
      BY DEF TypeOK, KeyTypeOK
    <3>2. CASE CreateAccount(h, a)
      <4>1. call[h].pc = "write"
        BY <3>2 DEF CreateAccount, ToBeAudited
      <4>2. inUse # {}
        BY <4>1, NoCallFields DEF TypeOK, KeyInForce
      <4> QED
        BY <2>1, <3>1, <3>2, <4>2 DEF CreateAccount
    <3>3. CASE UpdateAccount(h, a)
      BY <2>1, <3>1, <3>3 DEF UpdateAccount
    <3>4. CASE DeleteAccount(h, a)
      BY <2>1, <3>1, <3>4 DEF DeleteAccount
    <3> QED
      BY <2>2, <3>2, <3>3, <3>4
  <2>3. ASSUME NEW h \in Calls, ReadBackFails(h) \/ Audit(h) PROVE IInv'
    <3> USE DEF Finish, ReadBackFails
    <3>1. PICK c \in Change : changed[h] = {c}
      BY <2>3 DEF Audit, Owed
    <3>2. /\ call' = [call EXCEPT ![h] = NoCall] /\ changed' = [changed EXCEPT ![h] = {}]
          /\ UNCHANGED rows
      BY <2>3 DEF Audit
    <3>3. Owed'
      <4>1. \A g \in Calls : call'[g] = IF g = h THEN NoCall ELSE call[g]
        BY <3>2, OneMoves, NoCallFields
      <4>2. \A g \in Calls : changed'[g] = IF g = h THEN {} ELSE changed[g]
        BY <3>2 DEF TypeOK
      <4> QED
        BY <4>1, <4>2, NoCallFields DEF Owed
    <3>4. ASSUME ~unrecorded' PROVE Balanced'
      <4>1. ~unrecorded /\ trail' = [trail EXCEPT ![c.row] = trail[c.row] + EntryFor(c)]
        BY <2>3, <3>1, <3>4 DEF Audit
      <4>2. /\ c.row \in Accounts /\ c.action \in {"create", "update", "delete"}
            /\ c = Note(c.action, c.row)
        BY DEF Change, Note
      <4>3. /\ Cardinality(Pending(changed, c.action, c.row)) =
                  Cardinality(Pending(changed', c.action, c.row)) + 1
            /\ \A y, b : y # c.action \/ b # c.row
                  => Pending(changed, y, b) = Pending(changed', y, b)
        <5>1. Noted(changed', changed, h, c.action, c.row)
          BY <3>1, <3>2, <4>2 DEF Noted, TypeOK
        <5> QED
          BY <5>1, NotedOnce
      <4>4. /\ c.action = "create" => EntryFor(c) = 1
            /\ c.action = "delete" => EntryFor(c) = -1
            /\ c.action = "update" => EntryFor(c) = 0
        BY DEF EntryFor
      <4>5. ASSUME NEW b \in Accounts
            PROVE  (trail'[b] + Cardinality(Pending(changed', "create", b)))
                      - Cardinality(Pending(changed', "delete", b)) = Present(b)'
        <5> DEFINE made(owed) == Cardinality(Pending(owed, "create", b))
                   gone(owed) == Cardinality(Pending(owed, "delete", b))
        <5>1. trail[b] \in Int /\ trail'[b] = IF b = c.row THEN trail[b] + EntryFor(c) ELSE trail[b]
          BY <2>t, <4>1
        <5>2. (trail[b] + made(changed)) - gone(changed) = Present(b)
          BY <4>1 DEF Balanced
        <5>3. /\ made(changed) \in Nat /\ gone(changed) \in Nat
              /\ made(changed') \in Nat /\ gone(changed') \in Nat
          BY PendingIsFinite
        <5>4. Present(b)' = Present(b)
          BY <3>2 DEF Present
        <5>5. CASE b # c.row \/ c.action = "update"
          <6>1. made(changed') = made(changed) /\ gone(changed') = gone(changed)
            BY <4>3, <5>5
          <6>2. trail'[b] = trail[b]
            BY <4>4, <5>1, <5>5
          <6> QED
            BY <5>2, <5>4, <6>1, <6>2
        <5>6. CASE b = c.row /\ c.action = "create"
          <6>1. made(changed) = made(changed') + 1 /\ gone(changed') = gone(changed)
            BY <4>3, <5>6
          <6>2. trail'[b] = trail[b] + 1
            BY <4>4, <5>1, <5>6
          <6> HIDE DEF made, gone
          <6>3. (trail'[b] + made(changed')) - gone(changed') = Present(b)'
            BY <5>1, <5>2, <5>3, <5>4, <6>1, <6>2
          <6> QED
            BY <6>3 DEF made, gone
        <5>7. CASE b = c.row /\ c.action = "delete"
          <6>1. made(changed') = made(changed) /\ gone(changed) = gone(changed') + 1
            BY <4>3, <5>7
          <6>2. trail'[b] = trail[b] - 1
            BY <4>4, <5>1, <5>7
          <6> HIDE DEF made, gone
          <6>3. (trail'[b] + made(changed')) - gone(changed') = Present(b)'
            BY <5>1, <5>2, <5>3, <5>4, <6>1, <6>2
          <6> QED
            BY <6>3 DEF made, gone
        <5> QED
          BY <4>2, <5>5, <5>6, <5>7
      <4> QED
        BY <4>5 DEF Balanced
    <3> QED
      BY <3>3, <3>4 DEF Balanced
  <2>4. ASSUME Crash PROVE IInv'
    <3>1. \A g \in Calls : call'[g] = NoCall /\ changed'[g] = {}
      BY <2>4 DEF Crash, HandlersDie
    <3>2. Owed'
      BY <3>1, NoCallFields DEF Owed
    <3>3. ASSUME ~unrecorded' PROVE Balanced'
      <4>1. UNCHANGED <<unrecorded, trail, rows>> /\ \A g \in Calls : changed[g] = {}
        BY <2>4, <3>3 DEF Crash
      <4>2. \A x, b : Pending(changed', x, b) = Pending(changed, x, b)
        BY <3>1, <4>1 DEF Pending
      <4> QED
        BY <4>1, <4>2 DEF Balanced, Present
    <3> QED
      BY <3>2, <3>3 DEF Balanced
  <2>5. ASSUME UNCHANGED tables PROVE Balanced'
    BY <2>5 DEF tables, Balanced, Present, Pending
  <2>6. ASSUME NEW h \in Calls, NEW c \in Call, call' = [call EXCEPT ![h] = c], UNCHANGED tables,
               (call[h].pc \in {"summary", "audit"}) <=> (c.pc \in {"summary", "audit"})
        PROVE  IInv'
    <3>1. \A g \in Calls : call'[g] = IF g = h THEN c ELSE call[g]
      BY <2>6, OneMoves
    <3>2. Owed'
      BY <2>6, <3>1 DEF Owed, tables
    <3> QED
      BY <2>5, <2>6, <3>2
  <2>7. ASSUME UNCHANGED <<call, tables>> PROVE IInv'
    BY <2>5, <2>7 DEF Owed, tables
  <2> QED
    BY TrailSteps, <2>2, <2>3, <2>4, <2>6, <2>7
<1> QED
  BY <1>1, <1>2, Typing, KeyInForceAlways, PTL DEF Spec

\* Whichever changes race, fail or are cut off: as long as no entry was lost, the
\* audit log accounts for every row as soon as nobody owes it one.
THEOREM TrailAndRowsAgree == Spec => []TrailExplainsRows
<1>1. TypeOK /\ Balanced => TrailExplainsRows
  <2> SUFFICES ASSUME TypeOK, Balanced, ~unrecorded, \A h \in Calls : changed[h] = {},
                      NEW a \in Accounts
               PROVE  trail[a] = IF rows[a] = {} THEN 0 ELSE 1
    BY DEF TrailExplainsRows
  <2>1. \A x : Pending(changed, x, a) = {}
    BY DEF Pending
  <2>2. \A x : Cardinality(Pending(changed, x, a)) = 0
    BY <2>1, FS_EmptySet
  <2>3. trail[a] \in Int
    BY DEF TypeOK
  <2> QED
    BY <2>2, <2>3 DEF Balanced, Present
<1> QED
  BY <1>1, Typing, BalancedAlways, PTL

=============================================================================
