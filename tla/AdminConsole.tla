---------------------------- MODULE AdminConsole ----------------------------
(***************************************************************************)
(* The admin API as one service: operators sign in (AdminSessions), the       *)
(* process runs under a master key (MasterKey), and admitted handlers create, *)
(* change and delete rows whose credentials are encrypted under that key,     *)
(* each followed by an entry in the audit log.                                *)
(***************************************************************************)
EXTENDS AdminSessions, MasterKey, Integers

CONSTANT Accounts   \* provider accounts that operators may create

VARIABLES
    rows,           \* the master key each stored credential is encrypted under
    changed,        \* each handler's change that has no audit entry yet
    trail,          \* admin_audit_logs: each row's creations less its deletions,
                    \* counted as long as no entry is missing
    unrecorded      \* history: a change whose audit entry was not written

tables == <<rows, changed, trail, unrecorded>>
vars == <<sessionVars, keyVars, tables>>

Change == [action : {"create", "update", "delete"}, row : Accounts]
NoTrail == [a \in Accounts |-> 0]

Init ==
    /\ SessionInit /\ KeyInit
    /\ rows = [a \in Accounts |-> {}] /\ changed = [h \in Calls |-> {}]
    /\ trail = NoTrail /\ unrecorded = FALSE

\* What is left to do when the handler's own statement is through: the answer to a
\* creation or an update is read back before the entry is written.
ToBeAudited(h, action, a) ==
    /\ call[h].pc = "write"
    /\ call' = [call EXCEPT ![h] = [NoCall EXCEPT
                  !.pc = IF action = "delete" THEN "audit" ELSE "summary"]]
    /\ changed' = [changed EXCEPT ![h] = {[action |-> action, row |-> a]}]
    /\ UNCHANGED <<password, tenant, session, until, now, expiry, cut, overlapped, knows>>
    /\ UNCHANGED <<keyVars, trail, unrecorded>>

\* Account and credential are inserted in one transaction.
CreateAccount(h, a) ==
    /\ rows[a] = {} /\ rows' = [rows EXCEPT ![a] = inUse]
    /\ ToBeAudited(h, "create", a)

\* The row is read, and with it the old credential decrypted, before a new one is
\* written.
UpdateAccount(h, a) ==
    /\ rows[a] # {} /\ rows[a] = inUse
    /\ rows' = [rows EXCEPT ![a] = inUse] /\ ToBeAudited(h, "update", a)

\* Mutant: a deletion that found no row counts as one.
DeleteAnything(h, a) ==
    /\ rows' = [rows EXCEPT ![a] = {}] /\ ToBeAudited(h, "delete", a)

DeleteAccount(h, a) ==
    /\ rows[a] # {} /\ rows' = [rows EXCEPT ![a] = {}] /\ ToBeAudited(h, "delete", a)

\* A handler that only lists, or that refuses what it was asked for.
OnlyReads(h) ==
    /\ call[h].pc = "write" /\ call' = [call EXCEPT ![h] = NoCall]
    /\ UNCHANGED <<password, tenant, session, until, now, expiry, cut, overlapped, knows>>
    /\ UNCHANGED <<keyVars, tables>>

EntryFor(c) == CASE c.action = "create" -> 1 [] c.action = "delete" -> -1 [] OTHER -> 0

\* The handler ends with its change.
Finish(h) ==
    /\ call' = [call EXCEPT ![h] = NoCall] /\ changed' = [changed EXCEPT ![h] = {}]
    /\ UNCHANGED <<password, tenant, session, until, now, expiry, cut, overlapped, knows>>
    /\ UNCHANGED <<keyVars, rows>>

\* list_provider_accounts finds the row.
ReadBack(h) ==
    /\ call[h].pc = "summary" /\ \E c \in changed[h] : rows[c.row] # {}
    /\ call' = [call EXCEPT ![h].pc = "audit"]
    /\ UNCHANGED <<password, tenant, session, until, now, expiry, cut, overlapped, knows>>
    /\ UNCHANGED <<keyVars, tables>>

\* It fails, or another handler has deleted the row by now: the `?` leaves and the
\* change has no entry.
ReadBackFails(h) ==
    call[h].pc = "summary" /\ unrecorded' = TRUE /\ trail' = NoTrail /\ Finish(h)

\* emit_audit: an entry that cannot be inserted is logged and forgotten.
Audit(h) ==
    /\ call[h].pc = "audit" /\ Finish(h)
    /\ \/ /\ \E c \in changed[h] :
               trail' = IF unrecorded THEN trail ELSE [trail EXCEPT ![c.row] = @ + EntryFor(c)]
          /\ UNCHANGED unrecorded
       \/ unrecorded' = TRUE /\ trail' = NoTrail

\* The process ends, and its handlers with it; commits stay.
Crash ==
    /\ ProcessDies \/ LosePower
    /\ HandlersDie /\ changed' = [h \in Calls |-> {}]
    /\ IF \E h \in Calls : changed[h] # {} THEN unrecorded' = TRUE /\ trail' = NoTrail
                                           ELSE UNCHANGED <<unrecorded, trail>>
    /\ UNCHANGED rows

\* Mutant: the listener is open before the start-up is through.
SignsEarly(h) == SignsIn(h) /\ UNCHANGED <<keyVars, tables>>

Signs(h) == Serving /\ SignsIn(h) /\ UNCHANGED <<keyVars, tables>>
Continues(h) ==
    \/ GoesOn(h) /\ UNCHANGED <<keyVars, tables>>
    \/ \E a \in Accounts : CreateAccount(h, a) \/ UpdateAccount(h, a) \/ DeleteAccount(h, a)
    \/ OnlyReads(h) \/ ReadBack(h) \/ ReadBackFails(h) \/ Audit(h)
Fails(h) == StatementFails(h) /\ UNCHANGED <<keyVars, tables>>
Boots == Boot /\ UNCHANGED <<sessionVars, tables>>
Surroundings ==
    \/ (WriteBack \/ ChangeEnvironment \/ RemoveBrokenFile) /\ UNCHANGED <<sessionVars, tables>>
    \/ Tick /\ UNCHANGED <<keyVars, tables>>

Next ==
    \/ \E h \in Calls : Signs(h) \/ Continues(h) \/ Fails(h)
    \/ Boots \/ Crash \/ Surroundings

\* Handlers that were started run on.
Fairness == \A h \in Calls : WF_vars(Continues(h))

Spec == Init /\ [][Next]_vars /\ Fairness

-----------------------------------------------------------------------------
(* Properties.                                                             *)

\* Shapes of rows and locals; handlers run only while the service is up.
TypeOK ==
    /\ SessionTypeOK /\ KeyTypeOK
    /\ rows \in [Accounts -> SUBSET MasterKeys] /\ changed \in [Calls -> SUBSET Change]
    /\ trail \in [Accounts -> Int] /\ unrecorded \in BOOLEAN
    /\ Serving \/ \A h \in Calls : call[h] = NoCall

\* Whoever holds the session knows the password: after setups and logins in any
\* order the two go together, unless two first setups ran into each other.
SessionKnowsPassword == session = {} \/ overlapped \/ knows = password

\* A password without the tenant that platform keys belong to, which setup would
\* refuse to complete later, is left behind only by a setup that was cut off.
SetupIsWhole ==
    \/ password = {} \/ tenant \/ cut
    \/ \E h \in Calls : call[h].pc = "tenant"

\* Every stored credential can be decrypted, through any crash and at any point of
\* start-up, unless the operator changed the environment or a power failure undid
\* the key file: no row is written under a key that is not kept.
CredentialsOpen ==
    Serving /\ ~swapped /\ ~undone => \A a \in Accounts : rows[a] \subseteq inUse

\* The audit log explains the table: with no change in progress and none whose
\* entry was lost, an account is there when its creations outnumber its deletions.
TrailExplainsRows ==
    ~unrecorded /\ (\A h \in Calls : changed[h] = {}) =>
        \A a \in Accounts : trail[a] = IF rows[a] = {} THEN 0 ELSE 1

\* A token is never admitted after it expired, except when a login replaces it
\* between the two reads of its check.
ExpiredIsRefused ==
    [][\A h \in Calls, t \in Tokens :
         call[h].pc = "expiry" /\ call'[h].pc = "write" /\ t \in call[h].token
            => now <= expiry[t] \/ session # {t}]_vars

Superseded(t) == t \in DOMAIN expiry /\ session # {t}

\* A login ends the session before it: when the checks that were under way are
\* over, no handler acts for the old token any more.
LoginEndsSession ==
    \A t \in Tokens :
        Superseded(t) ~> [](\A h \in Calls : call[h].pc = "write" => t \notin call[h].token)

=============================================================================
