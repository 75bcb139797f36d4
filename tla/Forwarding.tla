----------------------------- MODULE Forwarding -----------------------------
(***************************************************************************)
(* What leaves the host for one request, and through which client: the       *)
(* platform key is taken out of the places the provider's own clients use    *)
(* (and left in the others), each attempt puts the selected account's        *)
(* credential and, for a crawl, a fresh webhook secret into a copy of what   *)
(* is left, and sends it with the HTTP client of its egress. Requests share  *)
(* the pool of clients, and upstream jobs report by their secret.            *)
(* Which account and egress an attempt gets is free here (see Gateway).      *)
(***************************************************************************)
EXTENDS Naturals, FiniteSets

CONSTANTS
    Requests,
    PlatformKeys,   \* credentials that clients present
    ClientKey,      \* whichever of them is where a client put it
    Accounts,
    Keyless,        \* accounts without an api key
    Egresses,       \* proxy urls, and the host's own address
    MaxTries        \* attempts of a request, 1 + max_retries

ASSUME ForwardingAssumption ==
    /\ Keyless \subseteq Accounts /\ ClientKey \notin Accounts
    /\ MaxTries \in Nat \ {0} /\ Egresses # {}

VARIABLES
    req,        \* locals of proxy_request
    pool,       \* ClientPool: at most one client for each egress
    crawls,     \* jobs the upstream has accepted, with the secret it was told
    rows,       \* provider_async_jobs: jobs with the secret they are found by
    settled     \* history: row and job of each webhook that settled a row

vars == <<req, pool, crawls, rows, settled>>

Providers == {"exa", "tavily", "firecrawl", "jina"}
Attempts == Requests \X (1 .. MaxTries)
Places == {"bearer", "x-api-key", "api_key"}
Client == [builder : Requests, via : Egresses]
Job == [job : Attempts, secret : Attempts]

Request == [pc : {"new", "select", "build", "send", "answer", "done"},
            provider : Providers, crawl : BOOLEAN, bodyKey : BOOLEAN,
            left : SUBSET Places, tries : 0 .. MaxTries,
            account : SUBSET Accounts, egress : Egresses, client : SUBSET Client,
            sent : [Places -> SUBSET (Accounts \cup {ClientKey})], accepted : BOOLEAN]
NewRequest == [pc |-> "new", provider |-> "exa", crawl |-> FALSE, bodyKey |-> FALSE,
               left |-> {}, tries |-> 0, account |-> {}, egress |-> CHOOSE e \in Egresses : TRUE,
               client |-> {}, sent |-> [p \in Places |-> {}], accepted |-> FALSE]

\* What is left of a request that has returned.
Ended == [NewRequest EXCEPT !.pc = "done"]

Init ==
    /\ req = [r \in Requests |-> NewRequest] /\ pool = [e \in Egresses |-> {}]
    /\ crawls = {} /\ rows = {} /\ settled = {}

\* Where a provider's clients may put the platform key: it is looked for, and
\* taken out, there and nowhere else.
AcceptedPlaces(provider) ==
    {"bearer"} \cup (CASE provider = "exa" -> {"x-api-key"}
                       [] provider = "tavily" -> {"api_key"} [] OTHER -> {})

Presented(provider, given) == {given[p] : p \in DOMAIN given \cap AcceptedPlaces(provider)}

\* Mutant: with the key found in the header, the other places are left alone.
FirstPlaceOnly(provider, given) ==
    IF "bearer" \in DOMAIN given THEN DOMAIN given \ {"bearer"}
    ELSE DOMAIN given \ AcceptedPlaces(provider)

\* The places in which extract_platform_credential leaves what the client put:
\* a key in a place of some other provider stays in the request.
Remainder(provider, given) == DOMAIN given \ AcceptedPlaces(provider)

\* Just one key has to be presented, in one of the places or in several, and
\* authorize has to admit it. An emptied api_key stays in the body.
Arrive(r, provider, crawl, given, admitted) ==
    /\ req[r].pc = "new"
    /\ crawl => provider = "firecrawl"
    /\ req' = [req EXCEPT ![r] =
                 IF admitted /\ Cardinality(Presented(provider, given)) = 1
                 THEN [@ EXCEPT !.pc = "select", !.provider = provider, !.crawl = crawl,
                                !.bodyKey = provider = "tavily" /\ "api_key" \in DOMAIN given,
                                !.left = Remainder(provider, given)]
                 ELSE Ended]
    /\ UNCHANGED <<pool, crawls, rows, settled>>

\* Only accounts of Firecrawl and Jina may be without a key. (An account here
\* stands for one of whichever provider the request is for.)
Permitted(r, a) == a \notin Keyless \/ req[r].provider \in {"firecrawl", "jina"}

\* The next attempt; client_for looks for a client under the read lock first.
Select(r, a, e) ==
    /\ req[r].pc = "select" /\ Permitted(r, a)
    /\ req' = [req EXCEPT ![r] = [@ EXCEPT
                  !.tries = req[r].tries + 1, !.account = {a}, !.egress = e, !.client = pool[e],
                  !.pc = IF pool[e] = {} THEN "build" ELSE "send"]]
    /\ UNCHANGED <<pool, crawls, rows, settled>>

\* What a request builds for itself, outside the locks.
NewClient(r) == [builder |-> r, via |-> req[r].egress]

\* Mutant: a client that was put in meanwhile is replaced.
InsertOver(r) ==
    /\ req[r].pc = "build"
    /\ pool' = [pool EXCEPT ![req[r].egress] = {NewClient(r)}]
    /\ req' = [req EXCEPT ![r] = [@ EXCEPT !.client = {NewClient(r)}, !.pc = "send"]]
    /\ UNCHANGED <<crawls, rows, settled>>

\* Under the write lock: the new client is dropped if there is one by now.
Insert(r) ==
    LET e == req[r].egress
        client == IF pool[e] = {} THEN {NewClient(r)} ELSE pool[e]
    IN  /\ req[r].pc = "build" /\ pool' = [pool EXCEPT ![e] = client]
        /\ req' = [req EXCEPT ![r] = [@ EXCEPT !.client = client, !.pc = "send"]]
        /\ UNCHANGED <<crawls, rows, settled>>

\* Mutant: a request has one secret for all its attempts.
SecretOfRequest(r) == <<r, 1>>

\* Every attempt at a crawl tells the upstream a secret of its own.
SecretOf(r) == <<r, req[r].tries>>

\* Where the upstream expects its own key.
AuthPlace(provider) == IF provider = "exa" THEN "x-api-key" ELSE "bearer"

\* A header or bearer with the account's key, if it has one.
HeaderCredential(r) == req[r].account \ Keyless

\* Mutant: a body that an earlier attempt has put a key into keeps it.
BodyCredentialOnce(r) ==
    IF req[r].sent["api_key"] = {} THEN req[r].account ELSE req[r].sent["api_key"]

\* replace_body_api_key: in Tavily's body the account's key takes the place of the
\* emptied one; each attempt starts from the body as it was extracted.
BodyCredential(r) == req[r].account

\* What each place of the upstream request holds. The authorization header of the
\* client is never copied; a header is added to those that are.
Outgoing(r) ==
    [p \in Places |->
        IF p = "api_key" /\ req[r].bodyKey THEN BodyCredential(r)
        ELSE (IF p \in req[r].left \ {"bearer"} THEN {ClientKey} ELSE {})
               \cup (IF p = AuthPlace(req[r].provider) THEN HeaderCredential(r) ELSE {})]

\* The request leaves, and the upstream may accept it as a crawl.
Send(r, accepted) ==
    /\ req[r].pc = "send"
    /\ accepted => req[r].crawl
    /\ req' = [req EXCEPT ![r] = [@ EXCEPT
                  !.pc = "answer", !.accepted = accepted, !.sent = Outgoing(r)]]
    /\ crawls' = IF accepted
                 THEN crawls \cup {[job |-> <<r, req[r].tries>>, secret |-> SecretOf(r)]}
                 ELSE crawls
    /\ UNCHANGED <<pool, rows, settled>>

\* An answer that counts ends the request, and a job it announces gets its row.
Deliver(r) ==
    /\ req[r].pc = "answer" /\ req' = [req EXCEPT ![r] = Ended]
    /\ rows' = IF req[r].accepted
               THEN rows \cup {[job |-> <<r, req[r].tries>>, secret |-> SecretOf(r)]}
               ELSE rows
    /\ UNCHANGED <<pool, crawls, settled>>

\* The loop goes round: the locals of its body are gone.
NextAttempt(q) ==
    [q EXCEPT !.pc = "select", !.account = {}, !.egress = NewRequest.egress,
              !.client = {}, !.accepted = FALSE]

\* Mutant: one attempt more than there is room for.
TryOnceMore(r) ==
    /\ req[r].pc = "answer"
    /\ req' = [req EXCEPT ![r] = IF @.tries <= MaxTries THEN NextAttempt(@) ELSE Ended]
    /\ UNCHANGED <<pool, crawls, rows, settled>>

\* The answer is lost, or asks for a retry. A crawl whose acceptance got lost is
\* then sent once more.
TryAgain(r) ==
    /\ req[r].pc = "answer"
    /\ req' = [req EXCEPT ![r] = IF @.tries < MaxTries THEN NextAttempt(@) ELSE Ended]
    /\ UNCHANGED <<pool, crawls, rows, settled>>

Open(row) == \A s \in settled : s[1] # row.job

\* The upstream reports the end of a job: the row is found by the secret alone, and
\* settled unless it is already.
Webhook(c) ==
    /\ settled' = settled \cup
         {<<row.job, c.job>> : row \in {x \in rows : x.secret = c.secret /\ Open(x)}}
    /\ UNCHANGED <<req, pool, crawls, rows>>

Given == UNION {[places -> PlatformKeys] : places \in SUBSET Places}

Next ==
    \/ \E r \in Requests :
         \/ \E provider \in Providers, crawl, admitted \in BOOLEAN, given \in Given :
              Arrive(r, provider, crawl, given, admitted)
         \/ \E a \in Accounts, e \in Egresses : Select(r, a, e)
         \/ Insert(r) \/ (\E accepted \in BOOLEAN : Send(r, accepted))
         \/ Deliver(r) \/ TryAgain(r)
    \/ \E c \in crawls : Webhook(c)

Spec == Init /\ [][Next]_vars

-----------------------------------------------------------------------------
(* Properties.                                                             *)

\* Shapes of the locals, of the pool and of the tables.
TypeOK ==
    /\ req \in [Requests -> Request] /\ pool \in [Egresses -> SUBSET Client]
    /\ crawls \subseteq Job /\ rows \subseteq Job /\ settled \subseteq Attempts \X Attempts

\* In the places that the clients of a provider may use, and the upstream may read,
\* nothing of a platform key is left for the attempts or for the log, however many of
\* them a client fills: an attempt has only the key of its own account there, whatever
\* earlier attempts put in, and has it where the upstream expects it. No account's key
\* gets into any other place. (What a client puts there is forwarded as it is.)
CredentialsStayApart ==
    \A r \in Requests :
        LET accepted == AcceptedPlaces(req[r].provider)
            own == req[r].account \ Keyless
        IN  /\ req[r].left \cap accepted = {}
            /\ req[r].pc = "answer" =>
                 /\ req[r].sent[AuthPlace(req[r].provider)] = own
                 /\ \A p \in accepted : req[r].sent[p] \subseteq own
                 /\ \A p \in Places \ accepted : req[r].sent[p] \cap Accounts = {}

\* Requests that build a client for the same egress at once end up with one, the
\* one in the pool, and it leads through that egress.
OneClientPerEgress ==
    \A r \in Requests : req[r].pc \in {"send", "answer"} =>
        /\ req[r].client = pool[req[r].egress] /\ Cardinality(req[r].client) = 1
        /\ \A client \in req[r].client : client.via = req[r].egress

\* A webhook settles the row of its own job or none: the report of a crawl that was
\* repeated because its acceptance got lost does not settle the repetition.
WebhooksFindTheirJob == \A s \in settled : s[1] = s[2]

=============================================================================
