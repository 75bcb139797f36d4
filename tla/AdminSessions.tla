---------------------------- MODULE AdminSessions ----------------------------
(***************************************************************************)
(* The console's password and its one session. Setting the password up,      *)
(* logging in and checking a token are handlers of several statements each,   *)
(* so that handlers meet between them; a failed statement or the end of the   *)
(* process may end a handler half-way.                                        *)
(***************************************************************************)
EXTENDS Naturals, Sequences, FiniteSets

CONSTANTS
    Calls,          \* handlers that may run at the same time
    Words,          \* what operators choose as passwords, apart from blanks
    Lifetime,       \* ADMIN_SESSION_TTL_SECONDS, in units of the clock
    MaxTime,        \* bound: the clock
    MaxTokens       \* bound: tokens that are issued

ASSUME AdminSessionsAssumption ==
    Lifetime \in Nat /\ MaxTime \in Nat /\ MaxTokens \in Nat /\ IsFiniteSet(Calls)

VARIABLES
    password,       \* admin_password_hash: at most one password
    tenant,         \* whether the default tenant has a row
    session,        \* session_token_hash: at most one token
    until,          \* session_expires_at
    now,            \* the clock
    expiry,         \* history: when each token that was issued expires
    call,           \* each handler's place and what it has read
    cut,            \* history: a setup ended between its statements
    overlapped,     \* history: a setup began while another was under way
    knows           \* history: the password behind the session in force

sessionVars == <<password, tenant, session, until, now, expiry, call, cut, overlapped, knows>>

Passwords == [word : Words, padded : BOOLEAN]
Tokens == 1 .. MaxTokens
Call == [pc : {"idle", "hash", "tenant", "session", "expiry", "write", "summary", "audit"},
         password : SUBSET Passwords, token : SUBSET Tokens, matches : BOOLEAN]

NoCall == [pc |-> "idle", password |-> {}, token |-> {}, matches |-> FALSE]

\* str::trim, which only setup applies.
Trimmed(p) == [p EXCEPT !.padded = FALSE]

SessionInit ==
    /\ password = {} /\ tenant = FALSE /\ session = {} /\ until = 0 /\ now = 0
    /\ expiry = <<>> /\ call = [h \in Calls |-> NoCall]
    /\ cut = FALSE /\ overlapped = FALSE /\ knows = {}

SessionTypeOK ==
    /\ password \subseteq Passwords /\ knows \subseteq Passwords
    /\ tenant \in BOOLEAN /\ cut \in BOOLEAN /\ overlapped \in BOOLEAN
    /\ session \subseteq Tokens /\ until \in Nat /\ now \in 0 .. MaxTime
    /\ expiry \in Seq(Nat) /\ Len(expiry) <= MaxTokens
    /\ call \in [Calls -> Call]

SettingUp(h) == call[h].pc \in {"hash", "tenant"}

\* Mutant: setup does not look for a password.
SetupReadsNothing(h, p) ==
    /\ call[h].pc = "idle"
    /\ call' = [call EXCEPT ![h] = [NoCall EXCEPT !.pc = "hash", !.password = {Trimmed(p)}]]
    /\ overlapped' = (overlapped \/ \E g \in Calls : call[g].pc = "hash")
    /\ UNCHANGED <<password, tenant, session, until, now, expiry, cut, knows>>

\* auth_setup refuses once there is a password, and hashes the new one.
SetupReads(h, p) ==
    /\ call[h].pc = "idle" /\ password = {}
    /\ call' = [call EXCEPT ![h] = [NoCall EXCEPT !.pc = "hash", !.password = {Trimmed(p)}]]
    /\ overlapped' = (overlapped \/ \E g \in Calls : SettingUp(g))
    /\ UNCHANGED <<password, tenant, session, until, now, expiry, cut, knows>>

\* Mutant: the tenant is left for later.
SetupStoresOnly(h) ==
    /\ call[h].pc = "hash" /\ password' = call[h].password
    /\ call' = [call EXCEPT ![h].pc = "session"]
    /\ UNCHANGED <<tenant, session, until, now, expiry, cut, overlapped, knows>>

SetupStores(h) ==
    /\ call[h].pc = "hash" /\ password' = call[h].password
    /\ call' = [call EXCEPT ![h].pc = "tenant"]
    /\ UNCHANGED <<tenant, session, until, now, expiry, cut, overlapped, knows>>

SetupAddsTenant(h) ==
    /\ call[h].pc = "tenant" /\ tenant' = TRUE
    /\ call' = [call EXCEPT ![h].pc = "session"]
    /\ UNCHANGED <<password, session, until, now, expiry, cut, overlapped, knows>>

LoginReads(h, p) ==
    /\ call[h].pc = "idle" /\ password = {p}
    /\ call' = [call EXCEPT ![h] = [NoCall EXCEPT !.pc = "session", !.password = {p}]]
    /\ UNCHANGED <<password, tenant, session, until, now, expiry, cut, overlapped, knows>>

\* set_admin_session replaces hash and expiry in one transaction.
StoreSession(h) ==
    LET token == Len(expiry) + 1 IN
    /\ call[h].pc = "session" /\ token \in Tokens
    /\ session' = {token} /\ until' = now + Lifetime
    /\ expiry' = Append(expiry, now + Lifetime) /\ knows' = call[h].password
    /\ call' = [call EXCEPT ![h] = NoCall]
    /\ UNCHANGED <<password, tenant, now, cut, overlapped>>

\* Mutant: any token that was ever issued will do.
CheckTrustsToken(h, t) ==
    /\ call[h].pc = "idle" /\ t \in DOMAIN expiry
    /\ call' = [call EXCEPT ![h] = [NoCall EXCEPT !.pc = "expiry", !.token = {t},
                                                  !.matches = TRUE]]
    /\ UNCHANGED <<password, tenant, session, until, now, expiry, cut, overlapped, knows>>

\* authorize_with_identity reads the hash ...
CheckReadsHash(h, t) ==
    /\ call[h].pc = "idle" /\ t \in DOMAIN expiry
    /\ call' = [call EXCEPT ![h] = [NoCall EXCEPT !.pc = "expiry", !.token = {t},
                                                  !.matches = (session = {t})]]
    /\ UNCHANGED <<password, tenant, session, until, now, expiry, cut, overlapped, knows>>

\* Mutant: the expiry is not looked at.
CheckIgnoresExpiry(h) ==
    /\ call[h].pc = "expiry"
    /\ call' = [call EXCEPT ![h] = IF @.matches THEN [@ EXCEPT !.pc = "write"] ELSE NoCall]
    /\ UNCHANGED <<password, tenant, session, until, now, expiry, cut, overlapped, knows>>

\* ... and, in a statement of its own, the expiry.
CheckReadsExpiry(h) ==
    /\ call[h].pc = "expiry"
    /\ call' = [call EXCEPT ![h] = IF @.matches /\ now <= until
                                   THEN [@ EXCEPT !.pc = "write"] ELSE NoCall]
    /\ UNCHANGED <<password, tenant, session, until, now, expiry, cut, overlapped, knows>>

\* An error of any of these statements is the handler's answer.
StatementFails(h) ==
    /\ call[h].pc \in {"hash", "tenant", "session", "expiry", "write"}
    /\ call' = [call EXCEPT ![h] = NoCall] /\ cut' = (cut \/ call[h].pc = "tenant")
    /\ UNCHANGED <<password, tenant, session, until, now, expiry, overlapped, knows>>

HandlersDie ==
    /\ call' = [h \in Calls |-> NoCall]
    /\ cut' = (cut \/ \E h \in Calls : call[h].pc = "tenant")
    /\ UNCHANGED <<password, tenant, session, until, now, expiry, overlapped, knows>>

Tick ==
    /\ now < MaxTime /\ now' = now + 1
    /\ UNCHANGED <<password, tenant, session, until, expiry, call, cut, overlapped, knows>>

\* A handler that signs an operator in, or checks its token.
SignsIn(h) ==
    \/ \E p \in Passwords : SetupReads(h, p) \/ LoginReads(h, p)
    \/ \E t \in Tokens : CheckReadsHash(h, t)
GoesOn(h) == SetupStores(h) \/ SetupAddsTenant(h) \/ StoreSession(h) \/ CheckReadsExpiry(h)

=============================================================================
