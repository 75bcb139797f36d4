-------------------------- MODULE ForwardingProofs --------------------------
(***************************************************************************)
(* Proofs about Forwarding, for any number of requests, attempts, keys,      *)
(* accounts and egresses.                                                    *)
(***************************************************************************)
EXTENDS Forwarding, FiniteSetTheorems, TLAPS

USE ForwardingAssumption

\* One step for each action, named for use in the proofs below.
LEMMA Steps ==
    ASSUME [Next]_vars
    PROVE  \/ \E r \in Requests, provider \in Providers, crawl, admitted \in BOOLEAN,
                given \in Given : Arrive(r, provider, crawl, given, admitted)
           \/ \E r \in Requests, a \in Accounts, e \in Egresses : Select(r, a, e)
           \/ \E r \in Requests : Insert(r)
           \/ \E r \in Requests, accepted \in BOOLEAN : Send(r, accepted)
           \/ \E r \in Requests : Deliver(r) \/ TryAgain(r)
           \/ \E c \in crawls : Webhook(c)
           \/ UNCHANGED vars
BY DEF Next

\* What is left lies in places that no client of the provider uses.
LEMMA ForeignPlaces ==
    ASSUME NEW provider \in Providers, NEW given \in Given
    PROVE  /\ Remainder(provider, given) \in SUBSET Places
           /\ Remainder(provider, given) \cap AcceptedPlaces(provider) = {}
BY DEF Given, Remainder

\* A request that has not come yet, and one that has returned, hold nothing.
LEMMA EmptyFields ==
    /\ NewRequest \in Request /\ NewRequest.egress \in Egresses /\ NewRequest.pc = "new"
    /\ NewRequest.tries = 0 /\ NewRequest.left = {} /\ NewRequest.bodyKey = FALSE
    /\ Ended \in Request /\ Ended.pc = "done" /\ Ended.tries = 0 /\ Ended.left = {}
    /\ Ended.bodyKey = FALSE
<1>1. (CHOOSE e \in Egresses : TRUE) \in Egresses
  OBVIOUS
<1>2. /\ NewRequest \in Request /\ NewRequest.egress \in Egresses /\ NewRequest.pc = "new"
      /\ NewRequest.tries = 0 /\ NewRequest.left = {} /\ NewRequest.bodyKey = FALSE
  BY <1>1 DEF NewRequest, Request, Providers, Places
<1> QED
  BY <1>2 DEF Ended, Request

\* The updates of the locals, and what each makes of a record of them.
Admitted(q, provider, crawl, b, left) ==
    [q EXCEPT !.pc = "select", !.provider = provider, !.crawl = crawl,
              !.bodyKey = b, !.left = left]
Selected(q, a, e, c) ==
    [q EXCEPT !.tries = q.tries + 1, !.account = {a}, !.egress = e, !.client = c,
              !.pc = IF c = {} THEN "build" ELSE "send"]
Served(q, c) == [q EXCEPT !.client = c, !.pc = "send"]
SentOff(q, accepted, sent) == [q EXCEPT !.pc = "answer", !.accepted = accepted, !.sent = sent]

\* An admitted request is of its provider and keeps its count.
LEMMA AdmittedFields ==
    ASSUME NEW q \in Request, NEW provider \in Providers, NEW crawl \in BOOLEAN,
           NEW b \in BOOLEAN, NEW left \in SUBSET Places
    PROVE  LET s == Admitted(q, provider, crawl, b, left)
           IN  /\ s \in Request /\ s.pc = "select" /\ s.provider = provider
               /\ s.bodyKey = b /\ s.left = left /\ s.tries = q.tries
BY DEF Request, Admitted

\* The next attempt keeps the count and what the client sent.
LEMMA NextFields ==
    ASSUME NEW q \in Request
    PROVE  LET s == NextAttempt(q)
           IN  /\ s \in Request /\ s.pc = "select" /\ s.left = q.left /\ s.tries = q.tries
               /\ s.bodyKey = q.bodyKey /\ s.provider = q.provider
BY EmptyFields DEF Request, NextAttempt

\* A selected route counts an attempt and leaves the rest of the request alone.
LEMMA SelectedFields ==
    ASSUME NEW q \in Request, NEW a \in Accounts, NEW e \in Egresses, NEW c \in SUBSET Client,
           q.tries < MaxTries
    PROVE  LET s == Selected(q, a, e, c)
           IN  /\ s \in Request /\ s.tries = q.tries + 1 /\ s.account = {a} /\ s.egress = e
               /\ s.client = c /\ s.pc \in {"build", "send"} /\ (s.pc = "send" => c # {})
               /\ s.left = q.left /\ s.bodyKey = q.bodyKey /\ s.provider = q.provider
<1>1. PICK t \in 0 .. MaxTries : t = q.tries + 1
  BY DEF Request
<1> DEFINE s == [q EXCEPT !.tries = t, !.account = {a}, !.egress = e, !.client = c,
                          !.pc = IF c = {} THEN "build" ELSE "send"]
<1>2. /\ s \in Request /\ s.tries = t /\ s.account = {a} /\ s.egress = e
      /\ s.client = c /\ s.pc \in {"build", "send"} /\ (s.pc = "send" => c # {})
      /\ s.left = q.left /\ s.bodyKey = q.bodyKey /\ s.provider = q.provider
  BY DEF Request
<1>3. Selected(q, a, e, c) = s
  BY <1>1 DEF Selected
<1> HIDE DEF s
<1> QED
  BY <1>1, <1>2, <1>3

\* A request that gets a client keeps everything else.
LEMMA ServedFields ==
    ASSUME NEW q \in Request, NEW c \in SUBSET Client
    PROVE  LET s == Served(q, c)
           IN  /\ s \in Request /\ s.client = c /\ s.pc = "send" /\ s.egress = q.egress
               /\ s.tries = q.tries /\ s.account = q.account /\ s.left = q.left
               /\ s.bodyKey = q.bodyKey /\ s.provider = q.provider
BY DEF Request, Served

\* A request that has been sent keeps its route and its client.
LEMMA SentOffFields ==
    ASSUME NEW q \in Request, NEW accepted \in BOOLEAN,
           NEW sent \in [Places -> SUBSET (Accounts \cup {ClientKey})]
    PROVE  LET s == SentOff(q, accepted, sent)
           IN  /\ s \in Request /\ s.pc = "answer" /\ s.sent = sent /\ s.egress = q.egress
               /\ s.tries = q.tries /\ s.client = q.client /\ s.account = q.account
               /\ s.left = q.left /\ s.bodyKey = q.bodyKey /\ s.provider = q.provider
BY DEF Request, SentOff


\* What each action makes of the request it is about.
LEMMA Arrives ==
    ASSUME TypeOK, NEW r \in Requests, NEW provider \in Providers, NEW crawl \in BOOLEAN,
           NEW admitted \in BOOLEAN, NEW given \in Given,
           Arrive(r, provider, crawl, given, admitted)
    PROVE  \E q \in Request :
              /\ req' = [req EXCEPT ![r] = q] /\ q.tries \in {0, req[r].tries}
              /\ q.pc \in {"select", "done"} /\ (q.bodyKey => q.provider = "tavily")
              /\ q.left \cap AcceptedPlaces(q.provider) = {}
<1> DEFINE b == provider = "tavily" /\ "api_key" \in DOMAIN given
           s == Admitted(req[r], provider, crawl, b, Remainder(provider, given))
<1>1. req[r] \in Request
  BY DEF TypeOK
<1>2. CASE req' = [req EXCEPT ![r] = Ended]
  BY <1>2, EmptyFields
<1>3. CASE req' = [req EXCEPT ![r] = s]
  <2>1. b \in BOOLEAN /\ (b => provider = "tavily")
    OBVIOUS
  <2> HIDE DEF b
  <2>2. /\ s \in Request /\ s.pc = "select" /\ s.provider = provider /\ s.bodyKey = b
        /\ s.left = Remainder(provider, given) /\ s.tries = req[r].tries
    BY <1>1, <2>1, ForeignPlaces, AdmittedFields
  <2>3. s.left \cap AcceptedPlaces(s.provider) = {}
    BY <2>2, ForeignPlaces
  <2> HIDE DEF s
  <2> QED
    BY <1>3, <2>1, <2>2, <2>3
<1> QED
  BY <1>2, <1>3 DEF Arrive, Admitted

\* The attempt that Select begins.
LEMMA Selects ==
    ASSUME TypeOK, NEW r \in Requests, NEW a \in Accounts, NEW e \in Egresses, Select(r, a, e),
           req[r].tries < MaxTries
    PROVE  \E q \in Request :
              /\ req' = [req EXCEPT ![r] = q] /\ q.tries = req[r].tries + 1
              /\ q.account = {a} /\ q.egress = e /\ q.client = pool[e]
              /\ q.pc \in {"build", "send"} /\ (q.pc = "send" => pool[e] # {})
              /\ q.left = req[r].left /\ q.bodyKey = req[r].bodyKey
              /\ q.provider = req[r].provider
<1> DEFINE s == Selected(req[r], a, e, pool[e])
<1>1. req[r] \in Request /\ pool[e] \in SUBSET Client
  BY DEF TypeOK
<1>2. req' = [req EXCEPT ![r] = s]
  BY DEF Select, Selected
<1>3. /\ s \in Request /\ s.tries = req[r].tries + 1 /\ s.account = {a} /\ s.egress = e
      /\ s.client = pool[e] /\ s.pc \in {"build", "send"} /\ (s.pc = "send" => pool[e] # {})
      /\ s.left = req[r].left /\ s.bodyKey = req[r].bodyKey /\ s.provider = req[r].provider
  BY <1>1, SelectedFields
<1> HIDE DEF s
<1> QED
  BY <1>2, <1>3

\* The client that Insert gives out is the one of the pool.
LEMMA Inserts ==
    ASSUME TypeOK, NEW r \in Requests, Insert(r), req[r].tries \in 1 .. MaxTries
    PROVE  \E q \in Request :
              /\ req' = [req EXCEPT ![r] = q] /\ q.pc = "send"
              /\ pool' = [pool EXCEPT ![q.egress] = q.client]
              /\ \/ q.client = pool[q.egress] /\ q.client # {}
                 \/ /\ pool[q.egress] = {}
                    /\ \E c \in Client : q.client = {c} /\ c.via = q.egress
              /\ q.egress = req[r].egress /\ q.tries = req[r].tries
              /\ q.account = req[r].account /\ q.left = req[r].left
              /\ q.bodyKey = req[r].bodyKey /\ q.provider = req[r].provider
<1>1. req[r] \in Request /\ req[r].egress \in Egresses
  BY DEF TypeOK, Request
<1>2. pool[req[r].egress] \in SUBSET Client
  BY <1>1 DEF TypeOK
<1>3. NewClient(r) \in Client /\ NewClient(r).via = req[r].egress
  BY <1>1 DEF NewClient, Client
<1>4. PICK c \in SUBSET Client :
         /\ pool' = [pool EXCEPT ![req[r].egress] = c]
         /\ req' = [req EXCEPT ![r] = Served(req[r], c)]
         /\ \/ c = pool[req[r].egress] /\ c # {}
            \/ pool[req[r].egress] = {} /\ c = {NewClient(r)}
  BY <1>2, <1>3 DEF Insert, Served
<1> DEFINE s == Served(req[r], c)
<1>5. /\ s \in Request /\ s.client = c /\ s.pc = "send" /\ s.egress = req[r].egress
      /\ s.tries = req[r].tries /\ s.account = req[r].account /\ s.left = req[r].left
      /\ s.bodyKey = req[r].bodyKey /\ s.provider = req[r].provider
  BY <1>1, ServedFields
<1> HIDE DEF s
<1>6. req' = [req EXCEPT ![r] = s]
  BY <1>4 DEF s
<1> QED
  BY <1>3, <1>4, <1>5, <1>6

\* What Send puts into the request.
LEMMA Sends ==
    ASSUME TypeOK, NEW r \in Requests, NEW accepted \in BOOLEAN, Send(r, accepted)
    PROVE  \E q \in Request :
              /\ req' = [req EXCEPT ![r] = q] /\ q.pc = "answer" /\ q.sent = Outgoing(r)
              /\ q.egress = req[r].egress /\ q.tries = req[r].tries /\ q.client = req[r].client
              /\ q.account = req[r].account /\ q.left = req[r].left
              /\ q.bodyKey = req[r].bodyKey /\ q.provider = req[r].provider
<1>1. req[r] \in Request
  BY DEF TypeOK
<1>2. Outgoing(r) \in [Places -> SUBSET (Accounts \cup {ClientKey})]
  <2>1. req[r].account \subseteq Accounts
    BY <1>1 DEF Request
  <2> QED
    BY <2>1 DEF Outgoing, HeaderCredential, BodyCredential
<1> DEFINE s == SentOff(req[r], accepted, Outgoing(r))
<1>4. req' = [req EXCEPT ![r] = s]
  BY DEF Send, SentOff
<1>5. /\ s \in Request /\ s.pc = "answer" /\ s.sent = Outgoing(r) /\ s.egress = req[r].egress
      /\ s.tries = req[r].tries /\ s.client = req[r].client /\ s.account = req[r].account
      /\ s.left = req[r].left /\ s.bodyKey = req[r].bodyKey /\ s.provider = req[r].provider
  BY <1>1, <1>2, SentOffFields
<1> HIDE DEF s
<1> QED
  BY <1>4, <1>5

\* An answered request is done or looks for a route again.
LEMMA Leaves ==
    ASSUME TypeOK, NEW r \in Requests, Deliver(r) \/ TryAgain(r)
    PROVE  \/ req' = [req EXCEPT ![r] = Ended]
           \/ \E q \in Request :
                /\ req' = [req EXCEPT ![r] = q] /\ q.pc = "select" /\ req[r].tries < MaxTries
                /\ q.tries = req[r].tries /\ q.left = req[r].left
                /\ q.bodyKey = req[r].bodyKey /\ q.provider = req[r].provider
<1>1. req[r] \in Request
  BY DEF TypeOK
<1>2. CASE req[r].tries < MaxTries /\ req' = [req EXCEPT ![r] = NextAttempt(req[r])]
  <2> DEFINE s == NextAttempt(req[r])
  <2>1. /\ s \in Request /\ s.pc = "select" /\ s.left = req[r].left /\ s.tries = req[r].tries
        /\ s.bodyKey = req[r].bodyKey /\ s.provider = req[r].provider
    BY <1>1, NextFields
  <2> HIDE DEF s
  <2> QED
    BY <1>2, <2>1 DEF s
<1> QED
  BY <1>2 DEF Deliver, TryAgain

\* A request that looks for a route has an attempt left, and one that is in an
\* attempt has counted it.
Counted ==
    \A r \in Requests :
        /\ req[r].pc = "new" => req[r].tries = 0
        /\ req[r].pc = "select" => req[r].tries < MaxTries
        /\ req[r].pc \in {"build", "send", "answer"} => req[r].tries \in 1 .. MaxTries

\* The same with the types: the count has room whenever it is raised.
LEMMA CountedAlways == Spec => [](TypeOK /\ Counted)
<1> DEFINE IInv == TypeOK /\ Counted
<1>1. Init => IInv
  <2> SUFFICES ASSUME Init PROVE IInv
    OBVIOUS
  <2> QED
    BY EmptyFields DEF Init, TypeOK, Counted
<1>2. IInv /\ [Next]_vars => IInv'
  <2> SUFFICES ASSUME IInv, [Next]_vars PROVE IInv'
    OBVIOUS
  <2>0. \A r \in Requests : req[r] \in Request
    BY DEF TypeOK
  <2>t. \A r \in Requests : req[r].tries \in Nat
    BY <2>0 DEF Request
  <2>r. ASSUME NEW r \in Requests, NEW q \in Request, req' = [req EXCEPT ![r] = q],
               q.pc = "new" => q.tries = 0, q.pc = "select" => q.tries < MaxTries,
               q.pc \in {"build", "send", "answer"} => q.tries \in 1 .. MaxTries
        PROVE  req' \in [Requests -> Request] /\ Counted'
    BY <2>r DEF TypeOK, Counted
  <2>1. ASSUME NEW r \in Requests, NEW provider \in Providers, NEW crawl \in BOOLEAN,
               NEW admitted \in BOOLEAN, NEW given \in Given,
               Arrive(r, provider, crawl, given, admitted)
        PROVE  IInv'
    <3>1. req[r].tries = 0 /\ UNCHANGED <<pool, crawls, rows, settled>>
      BY <2>1 DEF Arrive, Counted
    <3>2. PICK q \in Request :
             req' = [req EXCEPT ![r] = q] /\ q.tries = 0 /\ q.pc \in {"select", "done"}
      BY <2>1, <3>1, Arrives
    <3>3. q.tries < MaxTries
      BY <3>2
    <3> QED
      BY <2>r, <3>1, <3>2, <3>3 DEF TypeOK
  <2>2. ASSUME NEW r \in Requests, NEW a \in Accounts, NEW e \in Egresses, Select(r, a, e)
        PROVE  IInv'
    <3>1. req[r].tries < MaxTries /\ UNCHANGED <<pool, crawls, rows, settled>>
      BY <2>2 DEF Select, Counted
    <3>2. PICK q \in Request : /\ req' = [req EXCEPT ![r] = q] /\ q.tries = req[r].tries + 1
                               /\ q.pc \in {"build", "send"}
      BY <2>2, <3>1, Selects
    <3>3. q.tries \in 1 .. MaxTries
      BY <2>t, <3>1, <3>2
    <3> QED
      BY <2>r, <3>1, <3>2, <3>3 DEF TypeOK
  <2>3. ASSUME NEW r \in Requests, Insert(r) PROVE IInv'
    <3>1. req[r].tries \in 1 .. MaxTries /\ UNCHANGED <<crawls, rows, settled>>
      BY <2>3 DEF Insert, Counted
    <3>2. PICK q \in Request : /\ req' = [req EXCEPT ![r] = q] /\ q.pc = "send"
                               /\ q.tries = req[r].tries
                               /\ pool' = [pool EXCEPT ![q.egress] = q.client]
      BY <2>3, <3>1, Inserts
    <3>3. q.client \in SUBSET Client
      BY DEF Request
    <3>4. pool' \in [Egresses -> SUBSET Client]
      BY <3>2, <3>3 DEF TypeOK
    <3> QED
      BY <2>r, <3>1, <3>2, <3>4 DEF TypeOK
  <2>4. ASSUME NEW r \in Requests, NEW accepted \in BOOLEAN, Send(r, accepted) PROVE IInv'
    <3>1. req[r].tries \in 1 .. MaxTries /\ UNCHANGED <<pool, rows, settled>>
      BY <2>4 DEF Send, Counted
    <3>2. PICK q \in Request : /\ req' = [req EXCEPT ![r] = q] /\ q.pc = "answer"
                               /\ q.tries = req[r].tries
      BY <2>4, Sends
    <3>3. [job |-> <<r, req[r].tries>>, secret |-> SecretOf(r)] \in Job
      BY <3>1 DEF SecretOf, Job, Attempts
    <3>4. crawls' \subseteq Job
      BY <2>4, <3>3 DEF Send, TypeOK
    <3> QED
      BY <2>r, <3>1, <3>2, <3>4 DEF TypeOK
  <2>5. ASSUME NEW r \in Requests, Deliver(r) \/ TryAgain(r) PROVE IInv'
    <3>1. req[r].tries \in 1 .. MaxTries /\ UNCHANGED <<pool, crawls, settled>>
      BY <2>5 DEF Deliver, TryAgain, Counted
    <3>2. PICK q \in Request : /\ req' = [req EXCEPT ![r] = q] /\ q.pc \in {"select", "done"}
                               /\ q.pc = "select" => q.tries < MaxTries
      BY <2>5, Leaves, EmptyFields
    <3>3. [job |-> <<r, req[r].tries>>, secret |-> SecretOf(r)] \in Job
      BY <3>1 DEF SecretOf, Job, Attempts
    <3>4. rows' \subseteq Job
      BY <2>5, <3>3 DEF Deliver, TryAgain, TypeOK
    <3> QED
      BY <2>r, <3>1, <3>2, <3>4 DEF TypeOK
  <2>6. ASSUME NEW c \in crawls, Webhook(c) PROVE IInv'
    <3>1. settled' \subseteq Attempts \X Attempts
      BY <2>6 DEF Webhook, Job, TypeOK
    <3> QED
      BY <2>6, <3>1 DEF Webhook, TypeOK, Counted
  <2>7. CASE UNCHANGED vars
    BY <2>7 DEF vars, TypeOK, Counted
  <2> QED
    BY Steps, <2>1, <2>2, <2>3, <2>4, <2>5, <2>6, <2>7
<1> QED
  BY <1>1, <1>2, PTL DEF Spec

\* Shapes of the locals, of the pool and of the tables; in particular no request
\* makes more attempts than it may.
THEOREM Typing == Spec => []TypeOK
BY CountedAlways, PTL

\* Where a key can come from in an attempt: a body has one to be replaced only for
\* a provider whose accounts all have keys.
KeysInPlace ==
    \A r \in Requests :
        /\ req[r].bodyKey => req[r].provider = "tavily"
        /\ req[r].pc \in {"build", "send", "answer"} /\ req[r].provider = "tavily"
              => req[r].account \cap Keyless = {}

\* What CredentialsStayApart says of one upstream request.
Apart(provider, account, sent) ==
    /\ sent[AuthPlace(provider)] = account \ Keyless
    /\ \A p \in AcceptedPlaces(provider) : sent[p] \subseteq account \ Keyless
    /\ \A p \in Places \ AcceptedPlaces(provider) : sent[p] \cap Accounts = {}

\* What Outgoing puts together, when the places of the provider are empty.
LEMMA OutgoingApart ==
    ASSUME TypeOK, NEW r \in Requests, req[r].bodyKey => req[r].provider = "tavily",
           req[r].left \cap AcceptedPlaces(req[r].provider) = {},
           req[r].provider = "tavily" => req[r].account \cap Keyless = {}
    PROVE  Apart(req[r].provider, req[r].account, Outgoing(r))
<1> DEFINE provider == req[r].provider
<1>1. provider \in Providers /\ AuthPlace(provider) \in {"bearer", "x-api-key"}
  BY DEF TypeOK, Request, AuthPlace
<1>2. AuthPlace(provider) \in AcceptedPlaces(provider) /\ AuthPlace(provider) \in Places
  BY DEF AuthPlace, AcceptedPlaces, Places
<1>3. AcceptedPlaces(provider) \subseteq Places
  BY <1>1 DEF AcceptedPlaces, Providers, Places
<1>4. ASSUME NEW p \in AcceptedPlaces(provider) PROVE Outgoing(r)[p] \subseteq req[r].account \ Keyless
  BY <1>3, <1>4 DEF Outgoing, HeaderCredential, BodyCredential
<1>5. Outgoing(r)[AuthPlace(provider)] = req[r].account \ Keyless
  <2>1. AuthPlace(provider) # "api_key" /\ AuthPlace(provider) \notin req[r].left
    BY <1>1, <1>2
  <2> QED
    BY <1>2, <2>1 DEF Outgoing, HeaderCredential
<1>6. ASSUME NEW p \in Places \ AcceptedPlaces(provider) PROVE Outgoing(r)[p] \cap Accounts = {}
  <2>1. p # AuthPlace(provider)
    BY <1>2, <1>6
  <2>2. ~(p = "api_key" /\ req[r].bodyKey)
    BY <1>6 DEF AcceptedPlaces
  <2>3. Outgoing(r)[p] \subseteq {ClientKey}
    BY <2>1, <2>2 DEF Outgoing
  <2> QED
    BY <2>3
<1> QED
  BY <1>4, <1>5, <1>6 DEF Apart

\* Whatever clients put wherever their provider's clients may, and however often a
\* request is tried with whichever accounts, each attempt has the key of its own
\* account there and nothing else, and that key nowhere else.
THEOREM EveryKeyInItsPlace == Spec => []CredentialsStayApart
<1> DEFINE IInv == KeysInPlace /\ CredentialsStayApart
<1>1. Init => IInv
  BY EmptyFields DEF Init, KeysInPlace, CredentialsStayApart
<1>2. TypeOK /\ Counted /\ IInv /\ [Next]_vars => IInv'
  <2> SUFFICES ASSUME TypeOK, Counted, IInv, [Next]_vars PROVE IInv'
    OBVIOUS
  <2>r. ASSUME NEW r \in Requests, NEW q \in Request, req' = [req EXCEPT ![r] = q],
               q.bodyKey => q.provider = "tavily",
               q.pc \in {"build", "send", "answer"} /\ q.provider = "tavily"
                  => q.account \cap Keyless = {},
               q.left \cap AcceptedPlaces(q.provider) = {},
               q.pc = "answer" => Apart(q.provider, q.account, q.sent)
        PROVE  IInv'
    <3>1. \A s \in Requests : req'[s] = IF s = r THEN q ELSE req[s]
      BY <2>r DEF TypeOK
    <3>2. KeysInPlace'
      BY <2>r, <3>1 DEF KeysInPlace
    <3>3. ASSUME NEW s \in Requests
          PROVE  /\ req'[s].left \cap AcceptedPlaces(req'[s].provider) = {}
                 /\ req'[s].pc = "answer"
                      => Apart(req'[s].provider, req'[s].account, req'[s].sent)
      BY <2>r, <3>1 DEF CredentialsStayApart, Apart
    <3> QED
      BY <3>2, <3>3 DEF CredentialsStayApart, Apart
  <2>0. ASSUME NEW r \in Requests
        PROVE  /\ req[r].left \cap AcceptedPlaces(req[r].provider) = {}
               /\ req[r].bodyKey => req[r].provider = "tavily"
               /\ req[r].pc \in {"build", "send", "answer"} /\ req[r].provider = "tavily"
                     => req[r].account \cap Keyless = {}
    BY DEF KeysInPlace, CredentialsStayApart
  <2>1. ASSUME NEW r \in Requests, NEW provider \in Providers, NEW crawl \in BOOLEAN,
               NEW admitted \in BOOLEAN, NEW given \in Given,
               Arrive(r, provider, crawl, given, admitted)
        PROVE  IInv'
    <3>1. PICK q \in Request : /\ req' = [req EXCEPT ![r] = q] /\ q.pc \in {"select", "done"}
                               /\ q.left \cap AcceptedPlaces(q.provider) = {}
                               /\ (q.bodyKey => q.provider = "tavily")
      BY <2>1, Arrives
    <3> QED
      BY <2>r, <3>1
  <2>2. ASSUME NEW r \in Requests, NEW a \in Accounts, NEW e \in Egresses, Select(r, a, e)
        PROVE  IInv'
    <3>1. req[r].provider = "tavily" => {a} \cap Keyless = {}
      BY <2>2 DEF Select, Permitted
    <3>2. req[r].tries < MaxTries
      BY <2>2 DEF Select, Counted
    <3>3. PICK q \in Request : /\ req' = [req EXCEPT ![r] = q] /\ q.pc \in {"build", "send"}
                               /\ q.account = {a} /\ q.left = req[r].left
                               /\ q.bodyKey = req[r].bodyKey /\ q.provider = req[r].provider
      BY <2>2, <3>2, Selects
    <3> QED
      BY <2>0, <2>r, <3>1, <3>3
  <2>3. ASSUME NEW r \in Requests, Insert(r) PROVE IInv'
    <3>1. req[r].tries \in 1 .. MaxTries /\ req[r].pc = "build"
      BY <2>3 DEF Insert, Counted
    <3>2. PICK q \in Request : /\ req' = [req EXCEPT ![r] = q] /\ q.pc = "send"
                               /\ q.account = req[r].account /\ q.left = req[r].left
                               /\ q.bodyKey = req[r].bodyKey /\ q.provider = req[r].provider
      BY <2>3, <3>1, Inserts
    <3> QED
      BY <2>0, <2>r, <3>1, <3>2
  <2>4. ASSUME NEW r \in Requests, NEW accepted \in BOOLEAN, Send(r, accepted) PROVE IInv'
    <3>1. req[r].pc = "send"
      BY <2>4 DEF Send
    <3>2. Apart(req[r].provider, req[r].account, Outgoing(r))
      BY <2>0, <3>1, OutgoingApart
    <3>3. PICK q \in Request : /\ req' = [req EXCEPT ![r] = q] /\ q.pc = "answer"
                               /\ q.sent = Outgoing(r)
                               /\ q.account = req[r].account /\ q.left = req[r].left
                               /\ q.bodyKey = req[r].bodyKey /\ q.provider = req[r].provider
      BY <2>4, Sends
    <3> QED
      BY <2>0, <2>r, <3>1, <3>2, <3>3
  <2>5. ASSUME NEW r \in Requests, Deliver(r) \/ TryAgain(r) PROVE IInv'
    <3>1. CASE req' = [req EXCEPT ![r] = Ended]
      BY <2>r, <3>1, EmptyFields
    <3>2. ASSUME NEW q \in Request, req' = [req EXCEPT ![r] = q], q.pc = "select",
                 q.left = req[r].left, q.bodyKey = req[r].bodyKey, q.provider = req[r].provider
          PROVE  IInv'
      BY <2>0, <2>r, <3>2
    <3> QED
      BY <2>5, <3>1, <3>2, Leaves
  <2>6. ASSUME NEW c \in crawls, Webhook(c) PROVE IInv'
    BY <2>6 DEF Webhook, KeysInPlace, CredentialsStayApart
  <2>7. CASE UNCHANGED vars
    BY <2>7 DEF vars, KeysInPlace, CredentialsStayApart
  <2> QED
    BY Steps, <2>1, <2>2, <2>3, <2>4, <2>5, <2>6, <2>7
<1> QED
  BY <1>1, <1>2, CountedAlways, PTL DEF Spec

\* At most one client for an egress, and it leads there; whoever has a client has
\* the one in the pool.
Pooled ==
    \A e \in Egresses : pool[e] = {} \/ \E c \in Client : pool[e] = {c} /\ c.via = e
Shared ==
    \A r \in Requests : req[r].pc \in {"send", "answer"} =>
        req[r].client = pool[req[r].egress] /\ req[r].client # {}

\* Any number of requests that build clients for the same egress at once share one.
THEOREM ClientsAreShared == Spec => []OneClientPerEgress
<1> DEFINE IInv == Pooled /\ Shared
<1>1. Init => IInv
  BY EmptyFields DEF Init, Pooled, Shared
<1>2. TypeOK /\ Counted /\ IInv /\ [Next]_vars => IInv'
  <2> SUFFICES ASSUME TypeOK, Counted, IInv, [Next]_vars PROVE IInv'
    OBVIOUS
  <2>e. ASSUME NEW r \in Requests PROVE req[r] \in Request /\ req[r].egress \in Egresses
    BY DEF TypeOK, Request
  <2>r. ASSUME NEW r \in Requests, NEW q \in Request, req' = [req EXCEPT ![r] = q],
               UNCHANGED pool,
               q.pc \in {"send", "answer"} => q.client = pool[q.egress] /\ q.client # {}
        PROVE  IInv'
    BY <2>r DEF TypeOK, Pooled, Shared
  <2>1. ASSUME NEW r \in Requests, NEW provider \in Providers, NEW crawl \in BOOLEAN,
               NEW admitted \in BOOLEAN, NEW given \in Given,
               Arrive(r, provider, crawl, given, admitted)
        PROVE  IInv'
    <3>1. PICK q \in Request : req' = [req EXCEPT ![r] = q] /\ q.pc \in {"select", "done"}
      BY <2>1, Arrives
    <3>2. UNCHANGED pool
      BY <2>1 DEF Arrive
    <3> QED
      BY <2>r, <3>1, <3>2
  <2>2. ASSUME NEW r \in Requests, NEW a \in Accounts, NEW e \in Egresses, Select(r, a, e)
        PROVE  IInv'
    <3>1. req[r].tries < MaxTries /\ UNCHANGED pool
      BY <2>2 DEF Select, Counted
    <3>2. PICK q \in Request : /\ req' = [req EXCEPT ![r] = q] /\ q.egress = e
                               /\ q.client = pool[e] /\ q.pc \in {"build", "send"}
                               /\ (q.pc = "send" => pool[e] # {})
      BY <2>2, <3>1, Selects
    <3> QED
      BY <2>r, <3>1, <3>2
  <2>3. ASSUME NEW r \in Requests, Insert(r) PROVE IInv'
    <3>1. req[r].tries \in 1 .. MaxTries
      BY <2>3 DEF Insert, Counted
    <3>2. PICK q \in Request :
             /\ req' = [req EXCEPT ![r] = q] /\ q.egress = req[r].egress
             /\ pool' = [pool EXCEPT ![q.egress] = q.client]
             /\ \/ q.client = pool[q.egress] /\ q.client # {}
                \/ pool[q.egress] = {} /\ \E c \in Client : q.client = {c} /\ c.via = q.egress
      BY <2>3, <3>1, Inserts
    <3>3. q.egress \in Egresses
      BY <2>e, <3>2
    <3>4. \A e \in Egresses : pool'[e] = IF e = q.egress THEN q.client ELSE pool[e]
      BY <3>2 DEF TypeOK
    <3>5. \E c \in Client : q.client = {c} /\ c.via = q.egress
      BY <3>2, <3>3 DEF Pooled
    <3>6. Pooled'
      BY <3>4, <3>5 DEF Pooled
    <3>7. \A e \in Egresses : pool[e] # {} => pool'[e] = pool[e]
      BY <3>2, <3>4
    <3>8. ASSUME NEW s \in Requests, req'[s].pc \in {"send", "answer"}
          PROVE  req'[s].client = pool'[req'[s].egress] /\ req'[s].client # {}
      <4>1. CASE s = r
        <5>1. req'[s] = q
          BY <3>2, <4>1 DEF TypeOK
        <5> QED
          BY <3>3, <3>4, <3>5, <5>1
      <4>2. CASE s # r
        <5>1. req'[s] = req[s]
          BY <3>2, <4>2 DEF TypeOK
        <5>2. req[s].client = pool[req[s].egress] /\ req[s].client # {}
          BY <3>8, <5>1 DEF Shared
        <5> QED
          BY <2>e, <3>7, <5>1, <5>2
      <4> QED
        BY <4>1, <4>2
    <3> QED
      BY <3>6, <3>8 DEF Shared
  <2>4. ASSUME NEW r \in Requests, NEW accepted \in BOOLEAN, Send(r, accepted) PROVE IInv'
    <3>1. req[r].pc = "send" /\ UNCHANGED pool
      BY <2>4 DEF Send
    <3>2. PICK q \in Request : /\ req' = [req EXCEPT ![r] = q]
                               /\ q.egress = req[r].egress /\ q.client = req[r].client
      BY <2>4, Sends
    <3>3. req[r].client = pool[req[r].egress] /\ req[r].client # {}
      BY <3>1 DEF Shared
    <3> QED
      BY <2>r, <3>1, <3>2, <3>3
  <2>5. ASSUME NEW r \in Requests, Deliver(r) \/ TryAgain(r) PROVE IInv'
    <3>1. PICK q \in Request : req' = [req EXCEPT ![r] = q] /\ q.pc \in {"select", "done"}
      BY <2>5, Leaves, EmptyFields
    <3>2. UNCHANGED pool
      BY <2>5 DEF Deliver, TryAgain
    <3> QED
      BY <2>r, <3>1, <3>2
  <2>6. ASSUME NEW c \in crawls, Webhook(c) PROVE IInv'
    BY <2>6 DEF Webhook, Pooled, Shared
  <2>7. CASE UNCHANGED vars
    BY <2>7 DEF vars, Pooled, Shared
  <2> QED
    BY Steps, <2>1, <2>2, <2>3, <2>4, <2>5, <2>6, <2>7
<1>3. TypeOK /\ IInv => OneClientPerEgress
  <2> SUFFICES ASSUME TypeOK, IInv, NEW r \in Requests, req[r].pc \in {"send", "answer"}
               PROVE  /\ req[r].client = pool[req[r].egress] /\ Cardinality(req[r].client) = 1
                      /\ \A client \in req[r].client : client.via = req[r].egress
    BY DEF OneClientPerEgress
  <2>1. req[r].egress \in Egresses
    BY DEF TypeOK, Request
  <2>2. req[r].client = pool[req[r].egress] /\ req[r].client # {}
    BY DEF Shared
  <2>3. PICK c \in Client : req[r].client = {c} /\ c.via = req[r].egress
    BY <2>1, <2>2 DEF Pooled
  <2>4. Cardinality({c}) = 1
    BY FS_Singleton
  <2> QED
    BY <2>2, <2>3, <2>4
<1> QED
  BY <1>1, <1>2, <1>3, CountedAlways, PTL DEF Spec

\* The upstream knows each job by the secret of the very attempt it accepted.
OwnSecrets == \A j \in crawls \cup rows : j.job = j.secret

\* However often a crawl is repeated and in whichever order webhooks, answers and
\* rows come, no row is settled by another job's webhook.
THEOREM OwnWebhooksOnly == Spec => []WebhooksFindTheirJob
<1> DEFINE IInv == OwnSecrets /\ WebhooksFindTheirJob
<1>1. Init => IInv
  BY DEF Init, OwnSecrets, WebhooksFindTheirJob
<1>2. IInv /\ [Next]_vars => IInv'
  <2> SUFFICES ASSUME IInv, [Next]_vars PROVE IInv'
    OBVIOUS
  <2>0. CASE UNCHANGED <<crawls, rows, settled>>
    BY <2>0 DEF OwnSecrets, WebhooksFindTheirJob
  <2>s. ASSUME NEW r PROVE [job |-> <<r, req[r].tries>>, secret |-> SecretOf(r)].job
                             = [job |-> <<r, req[r].tries>>, secret |-> SecretOf(r)].secret
    BY DEF SecretOf
  <2>1. ASSUME NEW r \in Requests, NEW accepted \in BOOLEAN, Send(r, accepted) PROVE IInv'
    BY <2>1, <2>s DEF Send, OwnSecrets, WebhooksFindTheirJob
  <2>2. ASSUME NEW r \in Requests, Deliver(r) PROVE IInv'
    BY <2>2, <2>s DEF Deliver, OwnSecrets, WebhooksFindTheirJob
  <2>3. ASSUME NEW c \in crawls, Webhook(c) PROVE IInv'
    <3>1. \A s \in settled' : s[1] = s[2]
      BY <2>3 DEF Webhook, OwnSecrets, WebhooksFindTheirJob
    <3> QED
      BY <2>3, <3>1 DEF Webhook, OwnSecrets, WebhooksFindTheirJob
  <2> QED
    BY Steps, <2>0, <2>1, <2>2, <2>3 DEF Arrive, Select, Insert, TryAgain, vars
<1> QED
  BY <1>1, <1>2, PTL DEF Spec

=============================================================================
