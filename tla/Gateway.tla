------------------------------- MODULE Gateway -------------------------------
(***************************************************************************)
(* proxy_request of the gateway crate: one client request is tried on up to *)
(* MaxRetries + 1 routes, a route being a provider account and an egress    *)
(* (a proxy or the host's own address).  Requests run concurrently and meet *)
(* in the health rows of accounts and proxies, which the operator's console *)
(* edits at the same time.  An action is one write to a health row with the *)
(* local steps after it, or the reads that choose a route.                  *)
(*                                                                         *)
(* The rotation among equally good accounts and proxies (last_used_at and   *)
(* the scheduler's two cursors) is a free choice here, and accounts have    *)
(* the weight they are created with.  Statements are assumed to succeed: a  *)
(* storage error is logged by the code and changes nothing here.            *)
(***************************************************************************)
EXTENDS Health, Sequences, FiniteSets

CONSTANTS
    Accounts, Proxies, Requests,
    Direct,         \* egress without a proxy
    NoAccount,      \* no account chosen yet
    Keyless,        \* accounts whose api_key is blank
    Malformed,      \* proxies whose proxy_url the HTTP client refuses
    Listed,         \* accounts that exist at start-up
    Bindings,       \* account_proxy_bindings at start-up
    MaxRetries,     \* SchedulerConfig.max_retries (2 in the code)
    MaxNow,         \* bound: how far the clock runs
    MaxEdits        \* bound: how many statements the console issues

Egress == Proxies \cup {Direct}

ASSUME GatewayAssumption ==
    /\ Direct \notin Proxies /\ NoAccount \notin Accounts
    /\ Keyless \subseteq Accounts /\ Listed \subseteq Accounts
    /\ Malformed \subseteq Proxies /\ Bindings \subseteq Accounts \X Proxies
    /\ MaxRetries \in Nat /\ MaxNow \in Nat /\ MaxEdits \in Nat
    /\ IsFiniteSet(Requests)

\* What an exchange with the upstream can come to, by what classify_response
\* and the transport make of it: any other status; 429 (402); 401 or 403; 5xx;
\* no response at all.
Response == {"ok", "limited", "denied", "server_error"}
Outcome == Response \cup {"transport"}
Retryable(out) == out \in {"limited", "server_error"}
Failing(out) == out # "ok"

Try == [acc : Accounts, px : Egress, out : Outcome]

Answer == {"none", "response", "transport_error", "last_error", "no_route",
           "bad_route", "internal"}

VARIABLES
    now,        \* the database's clock
    live,       \* ids that have a row in provider_accounts
    account,    \* their health columns
    proxy,      \* health columns of egress_proxies
    bound,      \* account_proxy_bindings
    req,        \* the local state of each proxy_request
    edit,       \* read-but-not-yet-written console updates (at most one)
    edits,      \* statements the console has issued
    denied      \* history: accounts refused with 401/403 and not edited since

vars == <<now, live, account, proxy, bound, req, edit, edits, denied>>
console == <<edit, edits>>

\* excluded_account_ids, excluded_routes and last_retryable_response are
\* exAcc, exRoute and deferred; fails and pxFails are the consecutive_failures
\* of the cloned account and proxy; tries is history.
Request ==
    [pc : {"arrived", "select", "send", "proxy", "done"},
     attempt : 0..MaxRetries, pinned : BOOLEAN, needsKey : BOOLEAN,
     acc : Accounts \cup {NoAccount}, px : Egress, out : Outcome,
     fails : Nat, pxFails : Nat,
     exAcc : SUBSET Accounts, exRoute : SUBSET (Accounts \X Egress),
     deferred : SUBSET Try, tries : Seq(Try), log : Seq(Try), ans : Answer]

Edit == [target : Accounts \cup Proxies, seen : Row]

Arrived ==
    [pc |-> "arrived", attempt |-> 0, pinned |-> FALSE, needsKey |-> FALSE,
     acc |-> NoAccount, px |-> Direct, out |-> "ok", fails |-> 0, pxFails |-> 0,
     exAcc |-> {}, exRoute |-> {}, deferred |-> {}, tries |-> <<>>,
     log |-> <<>>, ans |-> "none"]

Init ==
    /\ now = 0 /\ live = Listed /\ bound = Bindings
    /\ account = [a \in Accounts |-> FreshRow(TRUE)]
    /\ proxy = [p \in Proxies |-> FreshRow(TRUE)]
    /\ req = [r \in Requests |-> Arrived]
    /\ edit = {} /\ edits = 0 /\ denied = {}

-----------------------------------------------------------------------------
\* An UPDATE ... where id = a changes nothing once the row is gone.
WriteAccount(a, row) ==
    account' = IF a \in live THEN [account EXCEPT ![a] = row] ELSE account

\* record_provider_account_outcome.
OutcomeRow(row, out, seenFailures) ==
    CASE out = "limited" -> Cooldown(row, now, seenFailures)
      [] out = "denied" -> Disable(row, now)
      [] out = "server_error" -> Failure(row, now)
      [] OTHER -> Success(row)

CurrentTry(q) == [acc |-> q.acc, px |-> q.px, out |-> q.out]

\* Mutant: one attempt too many.
MayRetryOnceMore(q) == q.attempt <= MaxRetries

MayRetry(q) == q.attempt < MaxRetries

\* A request whose database writes for this exchange are over: it returns its
\* answer (logging a final transport error), or goes round the loop again.
Leave(q) ==
    IF q.ans = "none"
    THEN [q EXCEPT !.pc = IF q.pinned THEN "send" ELSE "select", !.attempt = @ + 1]
    ELSE [q EXCEPT !.pc = "done",
                   !.log = IF q.ans = "transport_error"
                           THEN Append(q.log, CurrentTry(q)) ELSE q.log]

\* The account's outcome is written: the proxy's, if there is one, is next.
AfterAccount(q) == IF q.px = Direct THEN Leave(q) ELSE [q EXCEPT !.pc = "proxy"]

-----------------------------------------------------------------------------
RoutableAccounts == {a \in live : Routable(account[a], now)}

\* resolve_pinned_async_route found a job that was submitted over <<a, e>>.
\* The account and the proxy are taken as they are, usable or not; crawl routes
\* need a key, so no job belongs to an account without one.
ResolvePinned(r, a, e) ==
    /\ req[r].pc = "arrived" /\ a \notin Keyless
    /\ req' = [req EXCEPT ![r] =
                 IF a \in live
                 THEN [@ EXCEPT !.pc = "send", !.pinned = TRUE, !.acc = a, !.px = e,
                                !.fails = account[a].failures,
                                !.pxFails = IF e = Direct THEN 0 ELSE proxy[e].failures]
                 ELSE [@ EXCEPT !.pc = "done", !.ans = "bad_route"]]
    /\ UNCHANGED <<now, live, account, proxy, bound, console, denied>>

\* No tracked job: route_incompatible_account_ids lists, among the accounts
\* routable now, those that cannot serve the requested upstream route.
ResolveUnpinned(r, needsKey) ==
    /\ req[r].pc = "arrived"
    /\ req' = [req EXCEPT ![r].pc = "select", ![r].needsKey = needsKey,
                          ![r].exAcc = IF needsKey THEN RoutableAccounts \cap Keyless
                                       ELSE {}]
    /\ UNCHANGED <<now, live, account, proxy, bound, console, denied>>

-----------------------------------------------------------------------------
\* Mutant: routes that failed are offered again.
EgressesAgain(q, a) ==
    LET usable == {p \in Proxies : <<a, p>> \in bound /\ Routable(proxy[p], now)}
    IN  IF usable # {} THEN usable ELSE {Direct}

\* Mutant: a bound account is never reached directly.
EgressesWithoutFallback(q, a) ==
    IF \E p \in Proxies : <<a, p>> \in bound
    THEN {p \in Proxies : /\ <<a, p>> \in bound /\ Routable(proxy[p], now)
                          /\ <<a, p>> \notin q.exRoute}
    ELSE {e \in {Direct} : <<a, e>> \notin q.exRoute}

\* Mutant: an account reached directly once is not looked at again.
EgressesUntilDirect(q, a) ==
    LET usable == {p \in Proxies : /\ <<a, p>> \in bound
                                   /\ Routable(proxy[p], now)
                                   /\ <<a, p>> \notin q.exRoute}
    IN  IF <<a, Direct>> \in q.exRoute THEN {}
        ELSE IF usable # {} THEN usable ELSE {Direct}

\* The egresses select_route_excluding would choose from for account a: its
\* bound proxies that are routable and not excluded, else the direct one.
EgressesOf(q, a) ==
    LET usable == {p \in Proxies : /\ <<a, p>> \in bound
                                   /\ Routable(proxy[p], now)
                                   /\ <<a, p>> \notin q.exRoute}
    IN  IF usable # {} THEN usable
        ELSE {e \in {Direct} : <<a, e>> \notin q.exRoute}

\* Accounts with an egress left, the least penalised first.  Weights are all
\* 100 and the penalty per effective failure is constant.
Candidates(q) ==
    {a \in RoutableAccounts \ q.exAcc : EgressesOf(q, a) # {}}

Preferred(q) ==
    {a \in Candidates(q) : \A b \in Candidates(q) :
        EffectiveFailures(account[a], now) <= EffectiveFailures(account[b], now)}

SelectRoute(r, a, e) ==
    /\ req[r].pc = "select"
    /\ a \in Preferred(req[r]) /\ e \in EgressesOf(req[r], a)
    /\ req' = [req EXCEPT ![r].pc = "send", ![r].acc = a, ![r].px = e,
                          ![r].fails = account[a].failures,
                          ![r].pxFails = IF e = Direct THEN 0 ELSE proxy[e].failures]
    /\ UNCHANGED <<now, live, account, proxy, bound, console, denied>>

\* Mutant: the request waits for an account to come back into rotation.
NoRouteWaits(r) ==
    req[r].pc = "select" /\ Candidates(req[r]) = {} /\ req[r].deferred = {} /\ UNCHANGED vars

\* NoAvailableAccount with nothing to fall back on: the first attempt returns
\* the scheduler's error, a later one the last transport error, unlogged.
NoRoute(r) ==
    /\ req[r].pc = "select" /\ Candidates(req[r]) = {} /\ req[r].deferred = {}
    /\ req' = [req EXCEPT ![r].pc = "done",
                          ![r].ans = IF req[r].attempt = 0 THEN "no_route"
                                     ELSE "last_error"]
    /\ UNCHANGED <<now, live, account, proxy, bound, console, denied>>

\* Mutant: the outcome of the kept response is recorded once more.
FinalizeDeferredAgain(r) ==
    LET q == req[r]
    IN  /\ q.pc = "select" /\ Candidates(q) = {}
        /\ \E t \in q.deferred :
             /\ WriteAccount(t.acc, OutcomeRow(account[t.acc], t.out, q.fails))
             /\ req' = [req EXCEPT ![r] = AfterAccount(
                          [q EXCEPT !.acc = t.acc, !.px = t.px, !.out = t.out,
                                    !.deferred = {}, !.ans = "response",
                                    !.log = Append(q.log, t)])]
        /\ UNCHANGED <<now, live, proxy, bound, console, denied>>

\* Mutant: the kept response is delivered under the last route instead of its own.
FinalizeDeferredMislaid(r) ==
    LET q == req[r]
    IN  /\ q.pc = "select" /\ Candidates(q) = {} /\ q.deferred # {}
        /\ req' = [req EXCEPT ![r] = AfterAccount(
                     [q EXCEPT !.deferred = {}, !.ans = "response",
                               !.log = Append(q.log, CurrentTry(q))])]
        /\ UNCHANGED <<now, live, account, proxy, bound, console, denied>>

\* NoAvailableAccount after a retryable response: finalize_upstream_response
\* delivers and logs that response, whose account outcome is already recorded.
FinalizeDeferred(r) ==
    LET q == req[r]
    IN  /\ q.pc = "select" /\ Candidates(q) = {}
        /\ \E t \in q.deferred :
             req' = [req EXCEPT ![r] = AfterAccount(
                       [q EXCEPT !.acc = t.acc, !.px = t.px, !.out = t.out,
                                 !.deferred = {}, !.ans = "response",
                                 !.log = Append(q.log, t)])]
        /\ UNCHANGED <<now, live, account, proxy, bound, console, denied>>

-----------------------------------------------------------------------------
\* client_for refuses the proxy's url: the `?` leaves with no retry and no log.
\* (The `?` of build_upstream_request before it would leave in the same way; it
\* fails only if a body that has just been parsed cannot be serialized.)
ClientFails(r) ==
    /\ req[r].pc = "send" /\ req[r].px \in Malformed
    /\ req' = [req EXCEPT ![r].pc = "done", ![r].ans = "internal"]
    /\ UNCHANGED <<now, live, account, proxy, bound, console, denied>>

\* forward_request fails; the account's failure is written.
TransportFails(r) ==
    LET q == req[r]
        t == [acc |-> q.acc, px |-> q.px, out |-> "transport"]
        retry == MayRetry(q)
    IN  /\ q.pc = "send" /\ q.px \notin Malformed
        /\ WriteAccount(q.acc, Failure(account[q.acc], now))
        /\ req' = [req EXCEPT ![r] = AfterAccount(
                     [q EXCEPT !.out = "transport", !.tries = Append(q.tries, t),
                               !.exRoute = IF retry /\ ~q.pinned
                                           THEN q.exRoute \cup {<<q.acc, q.px>>}
                                           ELSE q.exRoute,
                               !.ans = IF retry THEN "none" ELSE "transport_error"])]
        /\ UNCHANGED <<now, live, proxy, bound, console, denied>>

\* forward_request returns a response.  A retryable one before the last attempt
\* is kept aside and its account excluded; any other is logged and delivered.
Responds(r, out) ==
    LET q == req[r]
        t == [acc |-> q.acc, px |-> q.px, out |-> out]
        retry == Retryable(out) /\ MayRetry(q)
    IN  /\ q.pc = "send" /\ q.px \notin Malformed
        /\ WriteAccount(q.acc, OutcomeRow(account[q.acc], out, q.fails))
        /\ denied' = IF out = "denied" /\ q.acc \in live
                     THEN denied \cup {q.acc} ELSE denied
        /\ req' = [req EXCEPT ![r] = AfterAccount(
                     IF retry
                     THEN [q EXCEPT !.out = out, !.tries = Append(q.tries, t),
                                    !.deferred = {t},
                                    !.exAcc = IF q.pinned THEN q.exAcc
                                              ELSE q.exAcc \cup {q.acc}]
                     ELSE [q EXCEPT !.out = out, !.tries = Append(q.tries, t),
                                    !.log = Append(q.log, t), !.ans = "response"])]
        /\ UNCHANGED <<now, live, proxy, bound, console>>

\* The proxy's outcome: a cooldown after a transport error, else a recovery.
RecordProxy(r) ==
    LET q == req[r]
    IN  /\ q.pc = "proxy"
        /\ proxy' = [proxy EXCEPT ![q.px] =
                       IF q.out = "transport" THEN ProxyCooldown(@, now, q.pxFails)
                       ELSE Success(@)]
        /\ req' = [req EXCEPT ![r] = Leave(@)]
        /\ UNCHANGED <<now, live, account, bound, console, denied>>

-----------------------------------------------------------------------------
\* The console.  Each of its statements counts against the bound.
MayEdit == edits < MaxEdits /\ edits' = edits + 1

AdminSetEnabled(a, enabled) ==
    /\ a \in live /\ MayEdit
    /\ account' = [account EXCEPT ![a] = SetEnabled(@, enabled)]
    /\ denied' = denied \ {a}
    /\ UNCHANGED <<now, live, proxy, bound, req, edit>>

AdminCreate(a, enabled) ==
    /\ a \in Accounts \ live /\ MayEdit
    /\ live' = live \cup {a}
    /\ account' = [account EXCEPT ![a] = FreshRow(enabled)]
    /\ UNCHANGED <<now, proxy, bound, req, edit, denied>>

\* The bindings go with the account (on delete cascade).
AdminDelete(a) ==
    /\ a \in live /\ MayEdit
    /\ live' = live \ {a}
    /\ bound' = {b \in bound : b[1] # a}
    /\ denied' = denied \ {a}
    /\ UNCHANGED <<now, account, proxy, req, edit>>

AdminBind(a, p) ==
    /\ a \in live /\ MayEdit
    /\ bound' = bound \cup {<<a, p>>}
    /\ UNCHANGED <<now, live, account, proxy, req, edit, denied>>

\* update_provider_account and update_egress_proxy read the row ...
AdminReadAccount(a) ==
    /\ a \in live /\ edit = {} /\ edits < MaxEdits
    /\ edit' = {[target |-> a, seen |-> account[a]]}
    /\ UNCHANGED <<now, live, account, proxy, bound, req, edits, denied>>

AdminReadProxy(p) ==
    /\ edit = {} /\ edits < MaxEdits
    /\ edit' = {[target |-> p, seen |-> proxy[p]]}
    /\ UNCHANGED <<now, live, account, proxy, bound, req, edits, denied>>

\* ... and write it later; enabled is TRUE, FALSE or left out ("keep").
UpdatedRow(row, seen, enabled) ==
    IF enabled = "keep" THEN PutBack(row, seen) ELSE SetEnabled(row, enabled = "on")

AdminWrite(enabled) ==
    \E u \in edit :
        /\ MayEdit /\ edit' = {}
        /\ IF u.target \in Accounts
           THEN /\ WriteAccount(u.target, UpdatedRow(account[u.target], u.seen, enabled))
                /\ denied' = denied \ {u.target}
                /\ UNCHANGED proxy
           ELSE /\ proxy' = [proxy EXCEPT ![u.target] = UpdatedRow(@, u.seen, enabled)]
                /\ UNCHANGED <<account, denied>>
        /\ UNCHANGED <<now, live, bound, req>>

Tick ==
    /\ now < MaxNow /\ now' = now + 1
    /\ UNCHANGED <<live, account, proxy, bound, req, console, denied>>

\* Every client has its answer; the service idles.
Idle == (\A r \in Requests : req[r].pc = "done") /\ UNCHANGED vars

-----------------------------------------------------------------------------
Admin ==
    \/ \E a \in Accounts, b \in BOOLEAN : AdminSetEnabled(a, b) \/ AdminCreate(a, b)
    \/ \E a \in Accounts : AdminDelete(a) \/ AdminReadAccount(a)
    \/ \E a \in Accounts, p \in Proxies : AdminBind(a, p)
    \/ \E p \in Proxies : AdminReadProxy(p)
    \/ \E enabled \in {"keep", "on", "off"} : AdminWrite(enabled)

Start(r) ==
    \/ \E a \in Accounts, e \in Egress : ResolvePinned(r, a, e)
    \/ \E needsKey \in BOOLEAN : ResolveUnpinned(r, needsKey)

Step(r) ==
    \/ \E a \in Accounts, e \in Egress : SelectRoute(r, a, e)
    \/ NoRoute(r)
    \/ FinalizeDeferred(r)
    \/ ClientFails(r)
    \/ TransportFails(r)
    \/ \E out \in Response : Responds(r, out)
    \/ RecordProxy(r)

Next == (\E r \in Requests : Start(r) \/ Step(r)) \/ Admin \/ Tick \/ Idle

\* A request task is run by the async runtime until it ends, and the client's
\* 60 s timeout ends every exchange with the upstream.
Spec == Init /\ [][Next]_vars /\ \A r \in Requests : WF_vars(Step(r))

-----------------------------------------------------------------------------
(* Properties.                                                             *)

\* The state is made of rows, requests and edits of the shapes above.
TypeOK ==
    /\ now \in Nat /\ live \subseteq Accounts /\ bound \subseteq Accounts \X Proxies
    /\ account \in [Accounts -> Row] /\ proxy \in [Proxies -> Row]
    /\ req \in [Requests -> Request]
    /\ edit \subseteq Edit /\ edits \in Nat /\ denied \subseteq Accounts

\* Retries move on: an unpinned request never goes back to an account that
\* answered it with a retryable response, nor to a route over which the
\* transport failed, whatever the console and other requests did meanwhile.
NoRouteTriedTwice ==
    \A r \in Requests : ~req[r].pinned =>
        \A i, j \in DOMAIN req[r].tries : i < j =>
            LET s == req[r].tries[i]
                t == req[r].tries[j]
            IN  IF s.out = "transport" THEN <<s.acc, s.px>> # <<t.acc, t.px>>
                ELSE s.acc # t.acc

\* Every failure an account's row counts is a failed exchange somebody had with
\* it: no path through the retry loop (a response kept aside and delivered
\* later, above all) counts one exchange twice.
FailuresAccountedFor ==
    \A a \in live :
        account[a].failures <=
            Cardinality({x \in Requests \X (1..(MaxRetries + 1)) :
                /\ x[2] \in DOMAIN req[x[1]].tries
                /\ req[x[1]].tries[x[2]].acc = a
                /\ Failing(req[x[1]].tries[x[2]].out)})

ResponsesTo(q) == {i \in DOMAIN q.tries : q.tries[i].out # "transport"}

\* What the client is told agrees with what is logged and with what happened:
\* a delivered response is the latest one any route gave and is logged once
\* under that route; a final transport error is the last exchange; and a
\* request that ends for want of a route had no response to deliver.
LogsWhatItAnswers ==
    \A r \in Requests : req[r].pc = "done" =>
        LET q == req[r]
        IN  CASE q.ans = "response" ->
                   \E i \in ResponsesTo(q) : /\ \A j \in ResponsesTo(q) : j <= i
                                            /\ q.log = <<q.tries[i]>>
              [] q.ans = "transport_error" -> q.log = <<q.tries[Len(q.tries)]>>
              [] q.ans = "last_error" -> q.log = <<>> /\ ResponsesTo(q) = {} /\ q.tries # <<>>
              [] OTHER -> q.log = <<>>

\* An account the upstream refused (401 or 403) stays out of rotation until the
\* console writes its row, although requests already in flight on it go on to
\* record successes, cooldowns and failures in that row.
DeniedStaysOut == \A a \in denied : ~Routable(account[a], now)

\* Why a request may not use account a any more: it has known since it arrived
\* that they are incompatible; a gave it a retryable answer; or the transport
\* failed over every route a has now, that is each bound proxy in rotation and
\* the direct one (which the scheduler takes when no such proxy is left).
UsedUp(q, a) ==
    \/ q.needsKey /\ a \in Keyless
    \/ \E i \in DOMAIN q.tries : q.tries[i].acc = a /\ Retryable(q.tries[i].out)
    \/ \A e \in {p \in Proxies : <<a, p>> \in bound /\ Routable(proxy[p], now)} \cup {Direct} :
         \E i \in DOMAIN q.tries : q.tries[i] = [acc |-> a, px |-> e, out |-> "transport"]

\* Failover is complete: an unpinned request stops looking for a route only
\* when every account in rotation is used up for it.  A proxy that has come back
\* into rotation, or has been bound, since an account was tried directly is one
\* more route to try.
GivesUpOnlyWhenExhausted ==
    [][\A r \in Requests :
         req[r].pc = "select" /\ req'[r].pc # "select" /\ req'[r].pc # "send" =>
           \A a \in RoutableAccounts : UsedUp(req[r], a)]_vars

\* A request that has been taken up is eventually answered, whatever the
\* upstream, the other requests and the console do.
Answered ==
    \A r \in Requests : (req[r].pc # "arrived") ~> (req[r].pc = "done")

\* What the scheduler logs when it selects the direct egress
\* ("reason:no_proxy_binding"): the account has no proxy bound to it.
DirectMeansUnbound ==
    [][\A r \in Requests :
         req[r].pc = "select" /\ req'[r].pc = "send" /\ req'[r].px = Direct =>
           \A p \in Proxies : <<req'[r].acc, p>> \notin bound]_vars

\* What route_incompatible_account_ids is for: a request whose upstream route
\* needs a key is never forwarded with an account that has none.
CompatibleAccountsOnly ==
    \A r \in Requests :
        req[r].pc = "send" /\ ~req[r].pinned /\ req[r].needsKey => req[r].acc \notin Keyless

=============================================================================
