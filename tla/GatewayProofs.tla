----------------------------- MODULE GatewayProofs -----------------------------
(* Proofs about Gateway, for any accounts, proxies, requests and retry limit. *)
EXTENDS Gateway, FiniteSetTheorems, WellFoundedInduction, TLAPS

USE GatewayAssumption, DecayWindowAssumption

-----------------------------------------------------------------------------
(* What the row operators keep.                                            *)

LEMMA CooldownTicksNat ==
    ASSUME NEW f \in Nat PROVE CooldownTicks(f) \in Nat
BY DEF CooldownTicks

\* Every statement that records an outcome, and every edit, leaves a row.
LEMMA RowsStayRows ==
    ASSUME NEW row \in Row, NEW seen \in Row, NEW t \in Nat, NEW f \in Nat,
           NEW b \in BOOLEAN
    PROVE  /\ Success(row) \in Row /\ Cooldown(row, t, f) \in Row
           /\ ProxyCooldown(row, t, f) \in Row /\ Disable(row, t) \in Row
           /\ Failure(row, t) \in Row /\ SetEnabled(row, b) \in Row
           /\ PutBack(row, seen) \in Row /\ FreshRow(b) \in Row
<1> USE DEF Row, Timestamp, Status, Never
<1>0. row.failures + 1 \in Nat
  OBVIOUS
<1>1. t + CooldownTicks(f) \in Nat
  BY CooldownTicksNat
<1>2. Cooldown(row, t, f) \in Row
  BY <1>1, <1>0 DEF Cooldown
<1>3. ProxyCooldown(row, t, f) \in Row
  BY <1>2 DEF ProxyCooldown
<1>4. Success(row) \in Row /\ Disable(row, t) \in Row /\ Failure(row, t) \in Row
  BY <1>0 DEF Success, Disable, Failure
<1>5. SetEnabled(row, b) \in Row /\ PutBack(row, seen) \in Row /\ FreshRow(b) \in Row
  BY DEF SetEnabled, PutBack, FreshRow
<1> QED
  BY <1>2, <1>3, <1>4, <1>5

LEMMA OutcomeRowType ==
    ASSUME NEW row \in Row, NEW out \in Response, NEW f \in Nat, now \in Nat
    PROVE  OutcomeRow(row, out, f) \in Row
BY RowsStayRows DEF OutcomeRow, Response

-----------------------------------------------------------------------------
(* Type correctness.                                                       *)

\* A request past its selection has an account, and one that will go round the
\* loop again after its proxy's outcome has an attempt left.  Without these
\* the retry counter and the recorded tries could leave their types.
Sound(q) ==
    /\ q.pc \in {"send", "proxy"} => q.acc \in Accounts
    /\ q.pc = "proxy" /\ q.ans = "none" => q.attempt < MaxRetries

LEMMA TryType ==
    ASSUME NEW q \in Request, q.acc \in Accounts, NEW out \in Outcome
    PROVE  [acc |-> q.acc, px |-> q.px, out |-> out] \in Try
BY DEF Request, Try

LEMMA LeaveTyped ==
    ASSUME NEW q \in Request, q.acc \in Accounts,
           q.ans = "none" => q.attempt < MaxRetries
    PROVE  Leave(q) \in Request /\ Sound(Leave(q))
<1>1. CurrentTry(q) \in Try
  BY DEF CurrentTry, Request, Try
<1>2. CASE q.ans = "none"
  <2>1. q.attempt + 1 \in 0..MaxRetries
    BY <1>2 DEF Request
  <2> QED
    BY <1>2, <2>1 DEF Leave, Request, Sound
<1>3. CASE q.ans # "none"
  <2>1. Append(q.log, CurrentTry(q)) \in Seq(Try)
    BY <1>1 DEF Request
  <2> QED
    BY <1>3, <2>1 DEF Leave, Request, Sound
<1> QED
  BY <1>2, <1>3

LEMMA AfterAccountTyped ==
    ASSUME NEW q \in Request, q.acc \in Accounts,
           q.ans = "none" => q.attempt < MaxRetries
    PROVE  AfterAccount(q) \in Request /\ Sound(AfterAccount(q))
<1>1. CASE q.px = Direct
  BY <1>1, LeaveTyped DEF AfterAccount
<1>2. CASE q.px # Direct
  BY <1>2 DEF AfterAccount, Request, Sound
<1> QED
  BY <1>1, <1>2

WellFormed == TypeOK /\ \A r \in Requests : Sound(req[r])

\* One request's step leaves the others alone.
LEMMA OneRequest ==
    ASSUME WellFormed, NEW r \in Requests, NEW q \in Request, Sound(q),
           req' = [req EXCEPT ![r] = q],
           account' \in [Accounts -> Row], proxy' \in [Proxies -> Row],
           denied' \subseteq Accounts, UNCHANGED <<now, live, bound, edit, edits>>
    PROVE  WellFormed'
BY DEF WellFormed, TypeOK

LEMMA WriteAccountType ==
    ASSUME TypeOK, NEW a \in Accounts, NEW row \in Row, WriteAccount(a, row)
    PROVE  account' \in [Accounts -> Row]
BY DEF WriteAccount, TypeOK

LEMMA WellFormedRequests ==
    ASSUME WellFormed, NEW r \in Requests, Start(r) \/ Step(r)
    PROVE  WellFormed'
<1>0. /\ TypeOK /\ req[r] \in Request /\ Sound(req[r])
      /\ now \in Nat /\ live \subseteq Accounts /\ denied \subseteq Accounts
      /\ req \in [Requests -> Request]
      /\ account \in [Accounts -> Row] /\ proxy \in [Proxies -> Row]
  BY DEF WellFormed, TypeOK
<1> USE <1>0
<1>1. ASSUME NEW a \in Accounts, NEW e \in Egress, ResolvePinned(r, a, e)
      PROVE  WellFormed'
  <2> DEFINE q == IF a \in live
                  THEN [req[r] EXCEPT !.pc = "send", !.pinned = TRUE, !.acc = a, !.px = e,
                                !.fails = account[a].failures,
                                !.pxFails = IF e = Direct THEN 0 ELSE proxy[e].failures]
                  ELSE [req[r] EXCEPT !.pc = "done", !.ans = "bad_route"]
  <2>1. account[a].failures \in Nat /\ (e # Direct => proxy[e].failures \in Nat)
    BY DEF Row, Egress
  <2>2. q \in Request /\ Sound(q)
    BY <2>1 DEF Request, Sound, Answer
  <2>3. req' = [req EXCEPT ![r] = q]
    BY <1>1 DEF ResolvePinned
  <2>4. /\ account' \in [Accounts -> Row] /\ proxy' \in [Proxies -> Row]
        /\ denied' \subseteq Accounts /\ UNCHANGED <<now, live, bound, edit, edits>>
    BY <1>1 DEF ResolvePinned, console
  <2> QED
    BY <2>2, <2>3, <2>4, OneRequest
<1>2. ASSUME NEW b \in BOOLEAN, ResolveUnpinned(r, b) PROVE WellFormed'
  <2> DEFINE q == [req[r] EXCEPT !.pc = "select", !.needsKey = b,
                     !.exAcc = IF b THEN RoutableAccounts \cap Keyless ELSE {}]
  <2>1. q \in Request /\ Sound(q)
    BY DEF Request, Sound, RoutableAccounts
  <2>2. req' = [req EXCEPT ![r] = q]
    BY <1>2 DEF ResolveUnpinned
  <2>3. /\ account' \in [Accounts -> Row] /\ proxy' \in [Proxies -> Row]
        /\ denied' \subseteq Accounts /\ UNCHANGED <<now, live, bound, edit, edits>>
    BY <1>2 DEF ResolveUnpinned, console
  <2> QED
    BY <2>1, <2>2, <2>3, OneRequest
<1>3. ASSUME NEW a \in Accounts, NEW e \in Egress, SelectRoute(r, a, e)
      PROVE  WellFormed'
  <2> DEFINE q == [req[r] EXCEPT !.pc = "send", !.acc = a, !.px = e,
                     !.fails = account[a].failures,
                     !.pxFails = IF e = Direct THEN 0 ELSE proxy[e].failures]
  <2>1. account[a].failures \in Nat /\ (e # Direct => proxy[e].failures \in Nat)
    BY DEF Row, Egress
  <2>2. q \in Request /\ Sound(q)
    BY <2>1 DEF Request, Sound
  <2>3. req' = [req EXCEPT ![r] = q]
    BY <1>3 DEF SelectRoute
  <2>4. /\ account' \in [Accounts -> Row] /\ proxy' \in [Proxies -> Row]
        /\ denied' \subseteq Accounts /\ UNCHANGED <<now, live, bound, edit, edits>>
    BY <1>3 DEF SelectRoute, console
  <2> QED
    BY <2>2, <2>3, <2>4, OneRequest
<1>4. CASE NoRoute(r)
  <2> DEFINE q == [req[r] EXCEPT !.pc = "done",
                     !.ans = IF req[r].attempt = 0 THEN "no_route" ELSE "last_error"]
  <2>1. q \in Request /\ Sound(q)
    BY DEF Request, Sound, Answer
  <2>2. req' = [req EXCEPT ![r] = q]
    BY <1>4 DEF NoRoute
  <2>3. /\ account' \in [Accounts -> Row] /\ proxy' \in [Proxies -> Row]
        /\ denied' \subseteq Accounts /\ UNCHANGED <<now, live, bound, edit, edits>>
    BY <1>4 DEF NoRoute, console
  <2> QED
    BY <2>1, <2>2, <2>3, OneRequest
<1>5. CASE FinalizeDeferred(r)
  <2> DEFINE p(t) == [req[r] EXCEPT !.acc = t.acc, !.px = t.px, !.out = t.out,
                        !.deferred = {}, !.ans = "response",
                        !.log = Append(req[r].log, t)]
  <2>1. PICK t \in req[r].deferred : req' = [req EXCEPT ![r] = AfterAccount(p(t))]
    BY <1>5 DEF FinalizeDeferred
  <2>2. t \in Try /\ Append(req[r].log, t) \in Seq(Try)
    BY DEF Request
  <2>3. p(t) \in Request /\ p(t).acc \in Accounts /\ p(t).ans # "none"
    <3>1. t.acc \in Accounts /\ t.px \in Egress /\ t.out \in Outcome
      BY <2>2 DEF Try
    <3> QED
      BY <2>2, <3>1 DEF Request, Answer
  <2>4. AfterAccount(p(t)) \in Request /\ Sound(AfterAccount(p(t)))
    <3> HIDE DEF p
    <3> QED
      BY <2>3, AfterAccountTyped
  <2>5. /\ account' \in [Accounts -> Row] /\ proxy' \in [Proxies -> Row]
        /\ denied' \subseteq Accounts /\ UNCHANGED <<now, live, bound, edit, edits>>
    BY <1>5 DEF FinalizeDeferred, console
  <2> QED
    BY <2>4, <2>1, <2>5, OneRequest
<1>6. CASE ClientFails(r)
  <2> DEFINE q == [req[r] EXCEPT !.pc = "done", !.ans = "internal"]
  <2>1. q \in Request /\ Sound(q)
    BY DEF Request, Sound, Answer
  <2>2. req' = [req EXCEPT ![r] = q]
    BY <1>6 DEF ClientFails
  <2>3. /\ account' \in [Accounts -> Row] /\ proxy' \in [Proxies -> Row]
        /\ denied' \subseteq Accounts /\ UNCHANGED <<now, live, bound, edit, edits>>
    BY <1>6 DEF ClientFails, console
  <2> QED
    BY <2>1, <2>2, <2>3, OneRequest
<1>7. CASE TransportFails(r)
  <2> DEFINE t == [acc |-> req[r].acc, px |-> req[r].px, out |-> "transport"]
             retry == MayRetry(req[r])
             p == [req[r] EXCEPT !.out = "transport", !.tries = Append(req[r].tries, t),
                     !.exRoute = IF retry /\ ~req[r].pinned
                                 THEN req[r].exRoute \cup {<<req[r].acc, req[r].px>>}
                                 ELSE req[r].exRoute,
                     !.ans = IF retry THEN "none" ELSE "transport_error"]
  <2>1. req[r].acc \in Accounts /\ req[r] \in Request /\ account[req[r].acc] \in Row
    BY <1>7 DEF TransportFails, Sound
  <2>2. t \in Try /\ Append(req[r].tries, t) \in Seq(Try)
    BY <2>1 DEF Request, Try, Outcome
  <2>3. p \in Request /\ p.acc \in Accounts /\ (p.ans = "none" => p.attempt < MaxRetries)
    <3>1. (IF retry /\ ~req[r].pinned THEN req[r].exRoute \cup {<<req[r].acc, req[r].px>>}
           ELSE req[r].exRoute) \in SUBSET (Accounts \X Egress)
      BY <2>1 DEF Request
    <3> QED
      BY <2>1, <2>2, <3>1 DEF Request, Answer, Outcome, MayRetry
  <2>4. AfterAccount(p) \in Request /\ Sound(AfterAccount(p))
    <3> HIDE DEF p
    <3> QED
      BY <2>3, AfterAccountTyped
  <2>5. account' \in [Accounts -> Row]
    BY <1>7, <2>1, RowsStayRows, WriteAccountType DEF TransportFails
  <2>6. req' = [req EXCEPT ![r] = AfterAccount(p)]
    BY <1>7 DEF TransportFails
  <2>7. /\ account' \in [Accounts -> Row] /\ proxy' \in [Proxies -> Row]
        /\ denied' \subseteq Accounts /\ UNCHANGED <<now, live, bound, edit, edits>>
    BY <1>7, <2>5 DEF TransportFails, console
  <2> HIDE DEF p
  <2> QED
    BY <2>4, <2>6, <2>7, OneRequest
<1>8. ASSUME NEW out \in Response, Responds(r, out) PROVE WellFormed'
  <2> DEFINE t == [acc |-> req[r].acc, px |-> req[r].px, out |-> out]
             retry == Retryable(out) /\ MayRetry(req[r])
             p == IF retry
                  THEN [req[r] EXCEPT !.out = out, !.tries = Append(req[r].tries, t), !.deferred = {t},
                          !.exAcc = IF req[r].pinned THEN req[r].exAcc
                                    ELSE req[r].exAcc \cup {req[r].acc}]
                  ELSE [req[r] EXCEPT !.out = out, !.tries = Append(req[r].tries, t),
                          !.log = Append(req[r].log, t), !.ans = "response"]
  <2>1. req[r].acc \in Accounts /\ req[r] \in Request /\ account[req[r].acc] \in Row
    BY <1>8 DEF Responds, Sound
  <2>2. /\ t \in Try /\ Append(req[r].tries, t) \in Seq(Try)
        /\ Append(req[r].log, t) \in Seq(Try) /\ out \in Outcome
    BY <2>1 DEF Request, Try, Outcome
  <2>3. p \in Request /\ p.acc \in Accounts /\ (p.ans = "none" => p.attempt < MaxRetries)
    <3>1. CASE retry
      BY <2>1, <2>2, <3>1 DEF Request, MayRetry
    <3>2. CASE ~retry
      BY <2>1, <2>2, <3>2 DEF Request, Answer
    <3> QED
      BY <3>1, <3>2
  <2>4. AfterAccount(p) \in Request /\ Sound(AfterAccount(p))
    <3> HIDE DEF p
    <3> QED
      BY <2>3, AfterAccountTyped
  <2>5. req[r].fails \in Nat
    BY <2>1 DEF Request
  <2>6. account' \in [Accounts -> Row]
    BY <1>8, <2>1, <2>5, OutcomeRowType, WriteAccountType DEF Responds
  <2>7. denied' \subseteq Accounts
    BY <1>8, <2>1 DEF Responds
  <2>8. req' = [req EXCEPT ![r] = AfterAccount(p)]
    BY <1>8 DEF Responds
  <2>9. /\ account' \in [Accounts -> Row] /\ proxy' \in [Proxies -> Row]
        /\ denied' \subseteq Accounts /\ UNCHANGED <<now, live, bound, edit, edits>>
    BY <1>8, <2>6, <2>7 DEF Responds, console
  <2> HIDE DEF p
  <2> QED
    BY <2>4, <2>8, <2>9, OneRequest
<1>9. CASE RecordProxy(r)
  <2>1. req[r].acc \in Accounts /\ (req[r].ans = "none" => req[r].attempt < MaxRetries)
    BY <1>9 DEF RecordProxy, Sound
  <2>2. Leave(req[r]) \in Request /\ Sound(Leave(req[r]))
    BY <2>1, LeaveTyped
  <2>3. proxy' \in [Proxies -> Row]
    <3>1. CASE req[r].px \in Proxies
      <4>1. /\ Success(proxy[req[r].px]) \in Row
            /\ ProxyCooldown(proxy[req[r].px], now, req[r].pxFails) \in Row
        BY <3>1, RowsStayRows DEF Request
      <4> QED
        BY <1>9, <4>1 DEF RecordProxy
    <3>2. CASE req[r].px \notin Proxies
      BY <1>9, <3>2 DEF RecordProxy
    <3> QED
      BY <3>1, <3>2
  <2>4. req' = [req EXCEPT ![r] = Leave(req[r])]
    BY <1>9 DEF RecordProxy
  <2>5. /\ account' \in [Accounts -> Row] /\ proxy' \in [Proxies -> Row]
        /\ denied' \subseteq Accounts /\ UNCHANGED <<now, live, bound, edit, edits>>
    BY <1>9, <2>3 DEF RecordProxy, console
  <2> QED
    BY <2>2, <2>4, <2>5, OneRequest
<1> QED
  BY <1>1, <1>2, <1>3, <1>4, <1>5, <1>6, <1>7, <1>8, <1>9 DEF Start, Step

LEMMA WellFormedConsole ==
    ASSUME WellFormed, Admin PROVE WellFormed'
<1> USE DEF WellFormed, TypeOK
<1>1. ASSUME NEW a \in Accounts, NEW b \in BOOLEAN, AdminSetEnabled(a, b)
      PROVE  WellFormed'
  <2>1. SetEnabled(account[a], b) \in Row
    BY RowsStayRows
  <2> QED
    BY <1>1, <2>1 DEF AdminSetEnabled, MayEdit
<1>2. ASSUME NEW a \in Accounts, NEW b \in BOOLEAN, AdminCreate(a, b)
      PROVE  WellFormed'
  <2>1. FreshRow(b) \in Row
    BY RowsStayRows
  <2> QED
    BY <1>2, <2>1 DEF AdminCreate, MayEdit
<1>3. ASSUME NEW a \in Accounts, AdminDelete(a) PROVE WellFormed'
  BY <1>3 DEF AdminDelete, MayEdit
<1>4. ASSUME NEW a \in Accounts, NEW p \in Proxies, AdminBind(a, p) PROVE WellFormed'
  BY <1>4 DEF AdminBind, MayEdit
<1>5. ASSUME NEW a \in Accounts, AdminReadAccount(a) PROVE WellFormed'
  BY <1>5 DEF AdminReadAccount, Edit
<1>6. ASSUME NEW p \in Proxies, AdminReadProxy(p) PROVE WellFormed'
  BY <1>6 DEF AdminReadProxy, Edit
<1>7. ASSUME NEW enabled \in {"keep", "on", "off"}, AdminWrite(enabled)
      PROVE  WellFormed'
  <2>1. PICK u \in edit :
          /\ MayEdit /\ edit' = {}
          /\ IF u.target \in Accounts
             THEN /\ WriteAccount(u.target, UpdatedRow(account[u.target], u.seen, enabled))
                  /\ denied' = denied \ {u.target}
                  /\ UNCHANGED proxy
             ELSE /\ proxy' = [proxy EXCEPT ![u.target] =
                                 UpdatedRow(proxy[u.target], u.seen, enabled)]
                  /\ UNCHANGED <<account, denied>>
          /\ UNCHANGED <<now, live, bound, req>>
    BY <1>7 DEF AdminWrite
  <2>2. u.target \in Accounts \cup Proxies /\ u.seen \in Row
    BY DEF Edit
  <2>3. ASSUME NEW row \in Row PROVE UpdatedRow(row, u.seen, enabled) \in Row
    BY <2>2, RowsStayRows DEF UpdatedRow
  <2>4. CASE u.target \in Accounts
    BY <2>1, <2>3, <2>4 DEF WriteAccount, MayEdit
  <2>5. CASE u.target \notin Accounts
    BY <2>1, <2>2, <2>3, <2>5 DEF MayEdit
  <2> QED
    BY <2>4, <2>5
<1> QED
  BY <1>1, <1>2, <1>3, <1>4, <1>5, <1>6, <1>7 DEF Admin

LEMMA WellFormedAlways == Spec => []WellFormed
<1>1. Init => WellFormed
  <2> SUFFICES ASSUME Init PROVE WellFormed
    OBVIOUS
  <2>1. FreshRow(TRUE) \in Row
    BY DEF FreshRow, Row, Timestamp, Status, Never
  <2>2. Arrived \in Request /\ Sound(Arrived)
    BY DEF Arrived, Request, Sound, Egress, Outcome, Response, Answer
  <2> QED
    BY <2>1, <2>2 DEF Init, WellFormed, TypeOK
<1>2. WellFormed /\ [Next]_vars => WellFormed'
  <2> SUFFICES ASSUME WellFormed, [Next]_vars PROVE WellFormed'
    OBVIOUS
  <2>1. CASE Tick
    BY <2>1 DEF Tick, WellFormed, TypeOK, console
  <2>2. CASE UNCHANGED vars
    BY <2>2 DEF vars, console, WellFormed, TypeOK
  <2> QED
    BY <2>1, <2>2, WellFormedRequests, WellFormedConsole DEF Next, Idle
<1> QED
  BY <1>1, <1>2, PTL DEF Spec

\* Rows, requests and pending edits keep their shapes under every interleaving
\* of requests and console statements; the retry counter never passes the limit.
THEOREM Typing == Spec => []TypeOK
BY WellFormedAlways, PTL DEF WellFormed

-----------------------------------------------------------------------------
(* A refused account stays out of rotation.                                *)

\* `enabled` is what keeps it out: no recorded outcome sets that column, while
\* a success in flight makes the status active again.
Barred == \A a \in denied : a \in live /\ ~account[a].enabled

LEMMA OutcomesKeepEnabled ==
    ASSUME NEW row \in Row, NEW out \in Response, NEW f \in Nat, ~row.enabled
    PROVE  ~OutcomeRow(row, out, f).enabled /\ ~Failure(row, now).enabled
BY DEF OutcomeRow, Failure, Cooldown, Disable, Success, Row

\* Whatever requests in flight record in its row, an account the upstream
\* refused is not selected again until the console writes the row.
THEOREM RefusedStaysOut == Spec => []DeniedStaysOut
<1>1. Init => Barred
  BY DEF Init, Barred
<1>2. WellFormed /\ Barred /\ [Next]_vars => Barred'
  <2> SUFFICES ASSUME WellFormed, Barred, [Next]_vars PROVE Barred'
    OBVIOUS
  <2>0. /\ account \in [Accounts -> Row] /\ live \subseteq Accounts
        /\ denied \subseteq Accounts /\ edit \subseteq Edit
        /\ req \in [Requests -> Request] /\ \A r \in Requests : Sound(req[r])
    BY DEF WellFormed, TypeOK
  <2> USE <2>0 DEF Barred
  <2>1. ASSUME NEW r \in Requests, TransportFails(r) PROVE Barred'
    <3>1. req[r].acc \in Accounts
      BY <2>1 DEF TransportFails, Sound
    <3> QED
      BY <2>1, <3>1 DEF TransportFails, WriteAccount, Failure, Row
  <2>2. ASSUME NEW r \in Requests, NEW out \in Response, Responds(r, out) PROVE Barred'
    <3>1. req[r].acc \in Accounts /\ req[r].fails \in Nat
      BY <2>2 DEF Responds, Sound, Request
    <3>2. /\ WriteAccount(req[r].acc, OutcomeRow(account[req[r].acc], out, req[r].fails))
          /\ denied' = IF out = "denied" /\ req[r].acc \in live
                       THEN denied \cup {req[r].acc} ELSE denied
          /\ live' = live
      BY <2>2 DEF Responds
    <3>3. CASE out = "denied"
      <4>1. ~OutcomeRow(account[req[r].acc], out, req[r].fails).enabled
        BY <3>1, <3>3 DEF OutcomeRow, Disable, Row
      <4> QED
        BY <3>1, <3>2, <4>1, <3>3 DEF WriteAccount
    <3>4. CASE out # "denied"
      <4>1. ~account[req[r].acc].enabled =>
              ~OutcomeRow(account[req[r].acc], out, req[r].fails).enabled
        BY <3>1, OutcomesKeepEnabled
      <4> QED
        BY <3>1, <3>2, <3>4, <4>1 DEF WriteAccount
    <3> QED
      BY <3>3, <3>4
  <2>3. ASSUME NEW r \in Requests, Start(r) \/ Step(r), UNCHANGED <<live, account, denied>>
        PROVE  Barred'
    BY <2>3
  <2>4. ASSUME NEW r \in Requests, Start(r) \/ Step(r) PROVE Barred'
    BY <2>1, <2>2, <2>4, <2>3 DEF Start, Step, ResolvePinned, ResolveUnpinned, SelectRoute,
       NoRoute, FinalizeDeferred, ClientFails, RecordProxy
  <2>5. CASE Admin
    <3>1. ASSUME NEW a \in Accounts, NEW b \in BOOLEAN,
                 AdminSetEnabled(a, b) \/ AdminCreate(a, b)
          PROVE  Barred'
      BY <3>1 DEF AdminSetEnabled, AdminCreate
    <3>2. ASSUME NEW a \in Accounts, AdminDelete(a) \/ AdminReadAccount(a)
          PROVE  Barred'
      BY <3>2 DEF AdminDelete, AdminReadAccount
    <3>3. ASSUME NEW enabled \in {"keep", "on", "off"}, AdminWrite(enabled) PROVE Barred'
      BY <3>3 DEF AdminWrite, WriteAccount
    <3> QED
      BY <2>5, <3>1, <3>2, <3>3 DEF Admin, AdminBind, AdminReadProxy
  <2> QED
    BY <2>4, <2>5 DEF Next, Tick, Idle, vars
<1>3. Barred => DeniedStaysOut
  BY DEF Barred, DeniedStaysOut, Routable
<1> QED
  BY <1>1, <1>2, <1>3, WellFormedAlways, PTL DEF Spec

-----------------------------------------------------------------------------
(* No route is tried twice.                                                *)

\* Going from s to t is going on to another account or, after a transport
\* error, at least to another route.
Apart(s, t) == IF s.out = "transport" THEN <<s.acc, s.px>> # <<t.acc, t.px>>
               ELSE s.acc # t.acc

NoRepeat(tries) == \A i, j \in DOMAIN tries : i < j => Apart(tries[i], tries[j])

\* The exclusions that keep a request from going back to s.
Shut(q, s) == IF s.out = "transport" THEN <<s.acc, s.px>> \in q.exRoute
              ELSE s.acc \in q.exAcc

\* The strengthening: while an unpinned request may still go on, everything it
\* has tried is excluded, and what it is about to try is not.
MovesOn(q) ==
    ~q.pinned =>
        /\ NoRepeat(q.tries)
        /\ q.pc = "arrived" => q.tries = <<>>
        /\ q.pc = "send" => q.acc \notin q.exAcc /\ <<q.acc, q.px>> \notin q.exRoute
        /\ q.pc \in {"select", "send"} \/ (q.pc = "proxy" /\ q.ans = "none") =>
             \A i \in DOMAIN q.tries : Shut(q, q.tries[i])

LEMMA AppendApart ==
    ASSUME NEW s \in Seq(Try), NEW t \in Try, NoRepeat(s),
           \A i \in DOMAIN s : Apart(s[i], t)
    PROVE  NoRepeat(Append(s, t))
<1>1. /\ DOMAIN s = 1..Len(s) /\ Len(s) \in Nat
      /\ DOMAIN Append(s, t) = 1..(Len(s) + 1)
      /\ Append(s, t)[Len(s) + 1] = t
      /\ \A i \in 1..Len(s) : Append(s, t)[i] = s[i]
  OBVIOUS
<1> SUFFICES ASSUME NEW i \in 1..(Len(s) + 1), NEW j \in 1..(Len(s) + 1), i < j
             PROVE  Apart(Append(s, t)[i], Append(s, t)[j])
  BY <1>1 DEF NoRepeat
<1>2. CASE j = Len(s) + 1
  BY <1>1, <1>2
<1>3. CASE j # Len(s) + 1
  BY <1>1, <1>3 DEF NoRepeat
<1> QED
  BY <1>2, <1>3

LEMMA LeaveFields ==
    ASSUME NEW q \in Request
    PROVE  /\ Leave(q).tries = q.tries /\ Leave(q).pinned = q.pinned
           /\ Leave(q).exAcc = q.exAcc /\ Leave(q).exRoute = q.exRoute
           /\ q.ans # "none" => Leave(q).pc = "done"
           /\ ~q.pinned => Leave(q).pc \in {"select", "done"}
BY DEF Leave, Request

LEMMA AfterAccountFields ==
    ASSUME NEW q \in Request
    PROVE  /\ AfterAccount(q).tries = q.tries /\ AfterAccount(q).pinned = q.pinned
           /\ AfterAccount(q).exAcc = q.exAcc /\ AfterAccount(q).exRoute = q.exRoute
           /\ q.ans # "none" =>
                \/ AfterAccount(q).pc = "done"
                \/ AfterAccount(q).pc = "proxy" /\ AfterAccount(q).ans = q.ans
           /\ ~q.pinned => AfterAccount(q).pc \in {"select", "proxy", "done"}
<1>1. CASE q.px = Direct
  <2>1. AfterAccount(q) = Leave(q)
    BY <1>1 DEF AfterAccount
  <2> QED
    BY <2>1, LeaveFields
<1>2. CASE q.px # Direct
  BY <1>2 DEF AfterAccount, Request
<1> QED
  BY <1>1, <1>2

\* An exchange is over: what was tried is apart from all before it, and if the
\* request may go on it is excluded along with them.
LEMMA ExchangeMovesOn ==
    ASSUME NEW q \in Request, MovesOn(q), q.pc = "send",
           NEW p \in Request, NEW t \in Try, t.acc = q.acc, t.px = q.px,
           p.tries = Append(q.tries, t), p.pinned = q.pinned,
           q.exAcc \subseteq p.exAcc, q.exRoute \subseteq p.exRoute,
           ~q.pinned /\ p.ans = "none" => Shut(p, t)
    PROVE  MovesOn(AfterAccount(p))
<1> SUFFICES ASSUME ~q.pinned PROVE MovesOn(AfterAccount(p))
  BY AfterAccountFields DEF MovesOn
<1>1. /\ NoRepeat(q.tries) /\ q.tries \in Seq(Try)
      /\ q.acc \notin q.exAcc /\ <<q.acc, q.px>> \notin q.exRoute
      /\ \A i \in DOMAIN q.tries : Shut(q, q.tries[i])
  BY DEF MovesOn, Request
<1>2. \A i \in DOMAIN q.tries : Apart(q.tries[i], t)
  BY <1>1 DEF Shut, Apart
<1>3. NoRepeat(p.tries)
  BY <1>1, <1>2, AppendApart
<1>4. p.ans = "none" => \A i \in DOMAIN p.tries : Shut(p, p.tries[i])
  <2>1. /\ DOMAIN p.tries = 1..(Len(q.tries) + 1) /\ p.tries[Len(q.tries) + 1] = t
        /\ DOMAIN q.tries = 1..Len(q.tries) /\ Len(q.tries) \in Nat
        /\ \A i \in 1..Len(q.tries) : p.tries[i] = q.tries[i]
    BY <1>1
  <2>2. \A i \in DOMAIN q.tries : Shut(p, p.tries[i])
    BY <1>1, <2>1 DEF Shut
  <2> QED
    BY <2>1, <2>2
<1> DEFINE n == AfterAccount(p)
<1>5. /\ n.tries = p.tries /\ n.exAcc = p.exAcc /\ n.exRoute = p.exRoute
      /\ n.pc \in {"select", "proxy", "done"}
      /\ p.ans # "none" => n.pc = "done" \/ (n.pc = "proxy" /\ n.ans = p.ans)
  BY AfterAccountFields
<1> HIDE DEF n
<1>6. MovesOn(n)
  BY <1>3, <1>4, <1>5 DEF MovesOn, Shut
<1> QED
  BY <1>6 DEF n

\* An unpinned request never goes back to an account that answered it with a
\* retryable response, nor to a route over which the transport failed, however
\* many accounts and proxies there are and whoever edits them meanwhile.
THEOREM MovesOnToOtherRoutes == Spec => []NoRouteTriedTwice
<1> DEFINE IInv == \A r \in Requests : MovesOn(req[r])
<1>1. Init => IInv
  BY DEF Init, Arrived, MovesOn, NoRepeat
<1>2. WellFormed /\ IInv /\ [Next]_vars => IInv'
  <2> SUFFICES ASSUME WellFormed, IInv, [Next]_vars PROVE IInv'
    OBVIOUS
  <2>0. /\ req \in [Requests -> Request] /\ \A r \in Requests : Sound(req[r])
    BY DEF WellFormed, TypeOK
  <2> USE <2>0
  <2>1. ASSUME NEW r \in Requests, NEW q, MovesOn(q), req' = [req EXCEPT ![r] = q]
        PROVE  IInv'
    BY <2>1
  <2>2. ASSUME NEW r \in Requests, NEW a \in Accounts, NEW e \in Egress,
               ResolvePinned(r, a, e)
        PROVE  MovesOn(req'[r])
    BY <2>2 DEF ResolvePinned, MovesOn, Request
  <2>3. ASSUME NEW r \in Requests, NEW b \in BOOLEAN, ResolveUnpinned(r, b)
        PROVE  MovesOn(req'[r])
    <3>1. req'[r].tries = req[r].tries /\ req'[r].pinned = req[r].pinned
          /\ req'[r].pc = "select" /\ req[r].pc = "arrived"
      BY <2>3 DEF ResolveUnpinned, Request
    <3> SUFFICES ASSUME ~req'[r].pinned PROVE MovesOn(req'[r])
      BY DEF MovesOn
    <3>2. MovesOn(req[r]) /\ ~req[r].pinned
      BY <3>1
    <3>3. req'[r].tries = <<>>
      BY <3>1, <3>2 DEF MovesOn
    <3>4. DOMAIN req'[r].tries = {}
      BY <3>3
    <3> QED
      BY <3>1, <3>4 DEF MovesOn, NoRepeat
  <2>4. ASSUME NEW r \in Requests, NEW a \in Accounts, NEW e \in Egress,
               SelectRoute(r, a, e)
        PROVE  MovesOn(req'[r])
    <3>1. a \notin req[r].exAcc /\ <<a, e>> \notin req[r].exRoute
      BY <2>4 DEF SelectRoute, Preferred, Candidates, EgressesOf
    <3>2. /\ req'[r].acc = a /\ req'[r].px = e /\ req'[r].tries = req[r].tries
          /\ req'[r].exAcc = req[r].exAcc /\ req'[r].exRoute = req[r].exRoute
          /\ req'[r].pinned = req[r].pinned /\ req'[r].pc = "send"
          /\ req[r].pc = "select"
      BY <2>4 DEF SelectRoute, Request
    <3> QED
      BY <3>1, <3>2 DEF MovesOn, Shut
  <2>5. ASSUME NEW r \in Requests, NoRoute(r) \/ ClientFails(r) PROVE MovesOn(req'[r])
    <3>1. req'[r].tries = req[r].tries /\ req'[r].pinned = req[r].pinned
          /\ req'[r].pc = "done"
      BY <2>5 DEF NoRoute, ClientFails, Request
    <3> QED
      BY <3>1 DEF MovesOn
  <2>6. ASSUME NEW r \in Requests, FinalizeDeferred(r) PROVE MovesOn(req'[r])
    <3> DEFINE p(t) == [req[r] EXCEPT !.acc = t.acc, !.px = t.px, !.out = t.out,
                          !.deferred = {}, !.ans = "response",
                          !.log = Append(req[r].log, t)]
    <3>1. PICK t \in req[r].deferred : req' = [req EXCEPT ![r] = AfterAccount(p(t))]
      BY <2>6 DEF FinalizeDeferred
    <3>2. req[r] \in Request /\ t \in Try /\ Append(req[r].log, t) \in Seq(Try)
      BY DEF Request
    <3>3. /\ p(t) \in Request /\ p(t).ans # "none" /\ p(t).tries = req[r].tries
          /\ p(t).pinned = req[r].pinned
      <4>1. t.acc \in Accounts /\ t.px \in Egress /\ t.out \in Outcome
        BY <3>2 DEF Try
      <4>2. p(t) \in Request
        BY <3>2, <4>1 DEF Request, Answer
      <4>3. p(t).ans # "none" /\ p(t).tries = req[r].tries /\ p(t).pinned = req[r].pinned
        BY <3>2 DEF Request
      <4> QED
        BY <4>2, <4>3
    <3> HIDE DEF p
    <3>4. /\ req'[r].tries = req[r].tries /\ req'[r].pinned = req[r].pinned
          /\ req'[r].pc = "done" \/ (req'[r].pc = "proxy" /\ req'[r].ans # "none")
      BY <3>1, <3>3, AfterAccountFields
    <3> QED
      BY <3>4 DEF MovesOn
  <2>7. ASSUME NEW r \in Requests, TransportFails(r) PROVE MovesOn(req'[r])
    <3> DEFINE q == req[r]
               t == [acc |-> q.acc, px |-> q.px, out |-> "transport"]
               retry == MayRetry(q)
               p == [q EXCEPT !.out = "transport", !.tries = Append(q.tries, t),
                       !.exRoute = IF retry /\ ~q.pinned
                                   THEN q.exRoute \cup {<<q.acc, q.px>>} ELSE q.exRoute,
                       !.ans = IF retry THEN "none" ELSE "transport_error"]
    <3>1. q.acc \in Accounts /\ q \in Request /\ q.pc = "send"
      BY <2>7 DEF TransportFails, Sound
    <3>2. t \in Try /\ Append(q.tries, t) \in Seq(Try)
      BY <3>1 DEF Request, Try, Outcome
    <3>3. p \in Request
      <4>1. (IF retry /\ ~q.pinned THEN q.exRoute \cup {<<q.acc, q.px>>}
             ELSE q.exRoute) \in SUBSET (Accounts \X Egress)
        BY <3>1 DEF Request
      <4> QED
        BY <3>1, <3>2, <4>1 DEF Request, Answer, Outcome
    <3>4. /\ p.tries = Append(q.tries, t) /\ p.pinned = q.pinned /\ p.exAcc = q.exAcc
          /\ q.exRoute \subseteq p.exRoute
          /\ ~q.pinned /\ p.ans = "none" => <<q.acc, q.px>> \in p.exRoute
      BY <3>1 DEF Request
    <3>5. req' = [req EXCEPT ![r] = AfterAccount(p)]
      BY <2>7 DEF TransportFails
    <3>6. t.acc = q.acc /\ t.px = q.px /\ t.out = "transport" /\ MovesOn(q)
      OBVIOUS
    <3> HIDE DEF q, t, retry, p
    <3>7. ~q.pinned /\ p.ans = "none" => Shut(p, t)
      BY <3>4, <3>6 DEF Shut
    <3>8. MovesOn(AfterAccount(p))
      BY <3>1, <3>2, <3>3, <3>4, <3>6, <3>7, ExchangeMovesOn
    <3> QED
      BY <3>5, <3>8
  <2>8. ASSUME NEW r \in Requests, NEW out \in Response, Responds(r, out)
        PROVE  MovesOn(req'[r])
    <3> DEFINE q == req[r]
               t == [acc |-> q.acc, px |-> q.px, out |-> out]
               retry == Retryable(out) /\ MayRetry(q)
               kept == [q EXCEPT !.out = out, !.tries = Append(q.tries, t),
                          !.deferred = {t},
                          !.exAcc = IF q.pinned THEN q.exAcc ELSE q.exAcc \cup {q.acc}]
               final == [q EXCEPT !.out = out, !.tries = Append(q.tries, t),
                           !.log = Append(q.log, t), !.ans = "response"]
               p == IF retry THEN kept ELSE final
    <3>1. q.acc \in Accounts /\ q \in Request /\ q.pc = "send"
      BY <2>8 DEF Responds, Sound
    <3>2. /\ t \in Try /\ Append(q.tries, t) \in Seq(Try)
          /\ Append(q.log, t) \in Seq(Try) /\ out \in Outcome
      BY <3>1 DEF Request, Try, Outcome
    <3>3. kept \in Request /\ final \in Request
      <4>1. kept \in Request
        BY <3>1, <3>2 DEF Request
      <4>2. final \in Request
        BY <3>1, <3>2 DEF Request, Answer
      <4> QED
        BY <4>1, <4>2
    <3>4. /\ kept.tries = Append(q.tries, t) /\ kept.pinned = q.pinned
          /\ kept.exRoute = q.exRoute /\ q.exAcc \subseteq kept.exAcc
          /\ ~q.pinned => q.acc \in kept.exAcc
      BY <3>1 DEF Request
    <3>5. /\ final.tries = Append(q.tries, t) /\ final.pinned = q.pinned
          /\ final.exRoute = q.exRoute /\ final.exAcc = q.exAcc /\ final.ans = "response"
      BY <3>1 DEF Request
    <3>6. req' = [req EXCEPT ![r] = AfterAccount(p)]
      BY <2>8 DEF Responds
    <3>7. t.acc = q.acc /\ t.px = q.px /\ t.out # "transport" /\ MovesOn(q)
      BY DEF Response
    <3> HIDE DEF q, t, kept, final, retry
    <3>8. ~q.pinned /\ p.ans = "none" => Shut(p, t)
      BY <3>4, <3>5, <3>7 DEF Shut
    <3>9. /\ p \in Request /\ p.tries = Append(q.tries, t) /\ p.pinned = q.pinned
          /\ q.exAcc \subseteq p.exAcc /\ q.exRoute \subseteq p.exRoute
      BY <3>3, <3>4, <3>5
    <3> HIDE DEF p
    <3>10. MovesOn(AfterAccount(p))
      BY <3>1, <3>2, <3>7, <3>8, <3>9, ExchangeMovesOn
    <3> QED
      BY <3>6, <3>10
  <2>9. ASSUME NEW r \in Requests, RecordProxy(r) PROVE MovesOn(req'[r])
    <3>1. req' = [req EXCEPT ![r] = Leave(req[r])] /\ req[r].pc = "proxy"
      BY <2>9 DEF RecordProxy
    <3>2. /\ req'[r].tries = req[r].tries /\ req'[r].pinned = req[r].pinned
          /\ req'[r].exAcc = req[r].exAcc /\ req'[r].exRoute = req[r].exRoute
          /\ req[r].ans # "none" => req'[r].pc = "done"
          /\ ~req[r].pinned => req'[r].pc \in {"select", "done"}
      BY <3>1, LeaveFields
    <3> SUFFICES ASSUME ~req'[r].pinned PROVE MovesOn(req'[r])
      BY DEF MovesOn
    <3>3. MovesOn(req[r]) /\ ~req[r].pinned /\ req'[r].pc \in {"select", "done"}
      BY <3>2
    <3>4. CASE req[r].ans = "none"
      <4>1. NoRepeat(req[r].tries) /\ \A i \in DOMAIN req[r].tries : Shut(req[r], req[r].tries[i])
        BY <3>1, <3>3, <3>4 DEF MovesOn
      <4> QED
        BY <3>2, <3>3, <4>1 DEF MovesOn, Shut
    <3>5. CASE req[r].ans # "none"
      BY <3>2, <3>3, <3>5 DEF MovesOn
    <3> QED
      BY <3>4, <3>5
  <2>10. ASSUME NEW r \in Requests, Start(r) \/ Step(r)
         PROVE  \A s \in Requests : s # r => req'[s] = req[s]
    BY <2>10 DEF Start, Step, ResolvePinned, ResolveUnpinned, SelectRoute, NoRoute,
       FinalizeDeferred, ClientFails, TransportFails, Responds, RecordProxy
  <2>11. ASSUME NEW r \in Requests, Start(r) \/ Step(r) PROVE MovesOn(req'[r])
    BY <2>2, <2>3, <2>4, <2>5, <2>6, <2>7, <2>8, <2>9, <2>11 DEF Start, Step
  <2>12. CASE Admin
    BY <2>12 DEF Admin, AdminSetEnabled, AdminCreate, AdminDelete, AdminReadAccount,
       AdminBind, AdminReadProxy, AdminWrite
  <2> QED
    BY <2>10, <2>11, <2>12 DEF Next, Tick, Idle, vars
<1>3. IInv => NoRouteTriedTwice
  BY DEF MovesOn, NoRepeat, Apart, NoRouteTriedTwice
<1> QED
  BY <1>1, <1>2, <1>3, WellFormedAlways, PTL DEF Spec

-----------------------------------------------------------------------------
(* What is answered is what is logged.                                     *)

\* t is the latest response a request was given.
Latest(q, t) ==
    \E i \in ResponsesTo(q) : (\A j \in ResponsesTo(q) : j <= i) /\ t = q.tries[i]

\* The response kept aside is the latest one, and one is kept if there was any.
Kept(q) ==
    /\ ResponsesTo(q) # {} => q.deferred # {}
    /\ \A t \in q.deferred : Latest(q, t)

\* The property for one request.
Told(q) ==
    CASE q.ans = "response" ->
           \E i \in ResponsesTo(q) : /\ \A j \in ResponsesTo(q) : j <= i
                                    /\ q.log = <<q.tries[i]>>
      [] q.ans = "transport_error" -> q.log = <<q.tries[Len(q.tries)]>>
      [] q.ans = "last_error" -> q.log = <<>> /\ ResponsesTo(q) = {} /\ q.tries # <<>>
      [] OTHER -> q.log = <<>>

\* An exchange is over and its outcome is being recorded.
Closing(q) ==
    /\ q.ans \in {"none", "response", "transport_error"} /\ q.tries # <<>>
    /\ q.ans = "none" => q.log = <<>> /\ Kept(q)
    /\ q.ans = "response" => \E t \in Try : q.log = <<t>> /\ Latest(q, t)
    /\ q.ans = "transport_error" => /\ q.log = <<>>
                                    /\ CurrentTry(q) = q.tries[Len(q.tries)]

\* The strengthening: before the answer nothing is logged, the response that might
\* be delivered later is the latest, and whoever makes another attempt has tried.
Agrees(q) ==
    /\ q.pc \in {"arrived", "select", "send"} =>
         q.ans = "none" /\ q.log = <<>> /\ Kept(q) /\ (q.attempt # 0 => q.tries # <<>>)
    /\ q.pc = "proxy" => Closing(q)
    /\ q.pc = "done" => Told(q)

\* The next exchange comes last among the tries.
LEMMA AppendTry ==
    ASSUME NEW s \in Seq(Try), NEW t \in Try
    PROVE  /\ Len(s) \in Nat /\ DOMAIN s = 1..Len(s)
           /\ Append(s, t) # <<>> /\ Len(Append(s, t)) = Len(s) + 1
           /\ DOMAIN Append(s, t) = 1..(Len(s) + 1) /\ Append(s, t)[Len(s) + 1] = t
           /\ \A i \in 1..Len(s) : Append(s, t)[i] = s[i]
OBVIOUS

\* A transport error is no response: the latest one stays the latest.
LEMMA NoNewResponse ==
    ASSUME NEW q \in Request, NEW p \in Request, NEW t \in Try, t.out = "transport",
           p.tries = Append(q.tries, t), p.deferred = q.deferred, Kept(q)
    PROVE  Kept(p)
<1>1. q.tries \in Seq(Try)
  BY DEF Request
<1>2. ResponsesTo(p) = ResponsesTo(q) /\ \A i \in ResponsesTo(q) : p.tries[i] = q.tries[i]
  BY <1>1, AppendTry DEF ResponsesTo
<1> QED
  BY <1>2 DEF Kept, Latest

\* A response that has just come is the latest.
LEMMA NewResponse ==
    ASSUME NEW q \in Request, NEW p \in Request, NEW t \in Try, t.out # "transport",
           p.tries = Append(q.tries, t)
    PROVE  Latest(p, t)
<1>1. q.tries \in Seq(Try)
  BY DEF Request
<1>2. /\ Len(q.tries) + 1 \in ResponsesTo(p) /\ p.tries[Len(q.tries) + 1] = t
      /\ \A j \in ResponsesTo(p) : j <= Len(q.tries) + 1
  BY <1>1, AppendTry DEF ResponsesTo
<1> QED
  BY <1>2 DEF Latest

\* Leaving an exchange, with or without an answer.
LEMMA LeaveAgrees ==
    ASSUME NEW q \in Request, q.acc \in Accounts, Closing(q)
    PROVE  Agrees(Leave(q))
<1>1. CASE q.ans = "none"
  <2> DEFINE n == [q EXCEPT !.pc = IF q.pinned THEN "send" ELSE "select",
                            !.attempt = q.attempt + 1]
  <2>1. Leave(q) = n
    BY <1>1 DEF Leave
  <2>2. /\ n.pc \in {"send", "select"} /\ n.ans = q.ans /\ n.log = q.log
        /\ n.tries = q.tries /\ n.deferred = q.deferred
    BY DEF Request
  <2> HIDE DEF n
  <2>3. Agrees(n)
    BY <1>1, <2>2 DEF Agrees, Closing, Kept, Latest, ResponsesTo
  <2> QED
    BY <2>1, <2>3
<1>2. CASE q.ans = "response"
  <2> DEFINE n == [q EXCEPT !.pc = "done", !.log = q.log]
  <2>1. Leave(q) = n
    BY <1>2 DEF Leave
  <2>2. n.pc = "done" /\ n.ans = "response" /\ n.log = q.log /\ n.tries = q.tries
    BY <1>2 DEF Request
  <2> HIDE DEF n
  <2>3. Told(n)
    BY <1>2, <2>2 DEF Closing, Told, Latest, ResponsesTo
  <2>4. Agrees(n)
    BY <2>2, <2>3 DEF Agrees
  <2> QED
    BY <2>1, <2>4
<1>3. CASE q.ans = "transport_error"
  <2> DEFINE n == [q EXCEPT !.pc = "done", !.log = Append(q.log, CurrentTry(q))]
  <2>1. Leave(q) = n
    BY <1>3 DEF Leave
  <2>2. n.pc = "done" /\ n.ans = q.ans /\ n.tries = q.tries /\ n.log = <<CurrentTry(q)>>
    <3>1. q.log = <<>> /\ CurrentTry(q) \in Try
      BY <1>3 DEF Closing, CurrentTry, Request, Try
    <3>2. Append(q.log, CurrentTry(q)) = <<CurrentTry(q)>>
      BY <3>1
    <3> QED
      BY <3>2 DEF Request
  <2> HIDE DEF n
  <2>3. Agrees(n)
    BY <1>3, <2>2 DEF Closing, Agrees, Told
  <2> QED
    BY <2>1, <2>3
<1> QED
  BY <1>1, <1>2, <1>3 DEF Closing

LEMMA AfterAccountAgrees ==
    ASSUME NEW q \in Request, q.acc \in Accounts, Closing(q)
    PROVE  Agrees(AfterAccount(q))
<1>1. CASE q.px = Direct
  BY <1>1, LeaveAgrees DEF AfterAccount
<1>2. CASE q.px # Direct
  <2> DEFINE n == [q EXCEPT !.pc = "proxy"]
  <2>1. AfterAccount(q) = n
    BY <1>2 DEF AfterAccount
  <2>2. /\ n.pc = "proxy" /\ n.ans = q.ans /\ n.log = q.log /\ n.tries = q.tries
        /\ n.deferred = q.deferred /\ n.acc = q.acc /\ n.px = q.px /\ n.out = q.out
    BY DEF Request
  <2> HIDE DEF n
  <2>3. Closing(n)
    BY <2>2 DEF Closing, Kept, Latest, ResponsesTo, CurrentTry
  <2>4. Agrees(n)
    BY <2>2, <2>3 DEF Agrees
  <2> QED
    BY <2>1, <2>4
<1> QED
  BY <1>1, <1>2

\* Whatever the upstreams answer, and whichever of the three exits of the loop a
\* request takes, what it logs is what the client was told.
THEOREM AnsweredAsLogged == Spec => []LogsWhatItAnswers
<1> DEFINE IInv == \A r \in Requests : Agrees(req[r])
<1>1. Init => IInv
  <2>1. Agrees(Arrived)
    BY DEF Arrived, Agrees, Kept, ResponsesTo
  <2> QED
    BY <2>1 DEF Init
<1>2. WellFormed /\ IInv /\ [Next]_vars => IInv'
  <2> SUFFICES ASSUME WellFormed, IInv, [Next]_vars PROVE IInv'
    OBVIOUS
  <2>0. req \in [Requests -> Request] /\ \A r \in Requests : Sound(req[r])
    BY DEF WellFormed, TypeOK
  <2>1. ASSUME NEW r \in Requests, NEW q, Agrees(q), req' = [req EXCEPT ![r] = q]
        PROVE  IInv'
    BY <2>0, <2>1
  <2>2. ASSUME NEW r \in Requests, NEW p \in Request, p.acc \in Accounts, Closing(p),
               req' = [req EXCEPT ![r] = AfterAccount(p)]
        PROVE  IInv'
    BY <2>1, <2>2, AfterAccountAgrees
  <2>3. ASSUME NEW r \in Requests, NEW a \in Accounts, NEW e \in Egress,
               ResolvePinned(r, a, e)
        PROVE  Agrees(req'[r])
    <3>1. /\ req[r].pc = "arrived" /\ Agrees(req[r])
          /\ req'[r].log = req[r].log /\ req'[r].tries = req[r].tries
          /\ req'[r].deferred = req[r].deferred /\ req'[r].attempt = req[r].attempt
          /\ \/ req'[r].pc = "send" /\ req'[r].ans = req[r].ans
             \/ req'[r].pc = "done" /\ req'[r].ans = "bad_route"
      BY <2>0, <2>3 DEF ResolvePinned, Request
    <3> QED
      BY <3>1 DEF Agrees, Kept, Latest, ResponsesTo, Told
  <2>4. ASSUME NEW r \in Requests, NEW b \in BOOLEAN, ResolveUnpinned(r, b)
        PROVE  Agrees(req'[r])
    <3>1. /\ req[r].pc = "arrived" /\ Agrees(req[r]) /\ req'[r].pc = "select"
          /\ req'[r].log = req[r].log /\ req'[r].tries = req[r].tries
          /\ req'[r].deferred = req[r].deferred /\ req'[r].attempt = req[r].attempt
          /\ req'[r].ans = req[r].ans
      BY <2>0, <2>4 DEF ResolveUnpinned, Request
    <3> QED
      BY <3>1 DEF Agrees, Kept, Latest, ResponsesTo
  <2>5. ASSUME NEW r \in Requests, NEW a \in Accounts, NEW e \in Egress,
               SelectRoute(r, a, e)
        PROVE  Agrees(req'[r])
    <3>1. /\ req[r].pc = "select" /\ Agrees(req[r]) /\ req'[r].pc = "send"
          /\ req'[r].log = req[r].log /\ req'[r].tries = req[r].tries
          /\ req'[r].deferred = req[r].deferred /\ req'[r].attempt = req[r].attempt
          /\ req'[r].ans = req[r].ans
      BY <2>0, <2>5 DEF SelectRoute, Request
    <3> QED
      BY <3>1 DEF Agrees, Kept, Latest, ResponsesTo
  <2>6. ASSUME NEW r \in Requests, NoRoute(r) PROVE Agrees(req'[r])
    <3>1. /\ req[r].pc = "select" /\ Agrees(req[r]) /\ req[r].deferred = {}
          /\ req'[r].pc = "done" /\ req'[r].log = req[r].log
          /\ req'[r].tries = req[r].tries
          /\ req'[r].ans = IF req[r].attempt = 0 THEN "no_route" ELSE "last_error"
      BY <2>0, <2>6 DEF NoRoute, Request
    <3> QED
      BY <3>1 DEF Agrees, Kept, ResponsesTo, Told
  <2>7. ASSUME NEW r \in Requests, ClientFails(r) PROVE Agrees(req'[r])
    <3>1. /\ req[r].pc = "send" /\ Agrees(req[r])
          /\ req'[r].pc = "done" /\ req'[r].log = req[r].log /\ req'[r].ans = "internal"
      BY <2>0, <2>7 DEF ClientFails, Request
    <3> QED
      BY <3>1 DEF Agrees, Told
  <2>8. ASSUME NEW r \in Requests, FinalizeDeferred(r) PROVE IInv'
    <3> DEFINE q == req[r]
               p(t) == [q EXCEPT !.acc = t.acc, !.px = t.px, !.out = t.out,
                          !.deferred = {}, !.ans = "response", !.log = Append(q.log, t)]
    <3>1. PICK t \in q.deferred : req' = [req EXCEPT ![r] = AfterAccount(p(t))]
      BY <2>8 DEF FinalizeDeferred
    <3>2. q \in Request /\ t \in Try /\ q.pc = "select" /\ Agrees(q)
      BY <2>0, <2>8 DEF FinalizeDeferred, Request
    <3>3. q.log = <<>> /\ Latest(q, t)
      BY <3>1, <3>2 DEF Agrees, Kept
    <3>4. p(t) \in Request /\ p(t).ans = "response" /\ p(t).tries = q.tries
          /\ p(t).log = <<t>> /\ p(t).acc \in Accounts
      <4>1. t.acc \in Accounts /\ t.px \in Egress /\ t.out \in Outcome
        BY <3>2 DEF Try
      <4>2. Append(q.log, t) = <<t>> /\ <<t>> \in Seq(Try)
        BY <3>2, <3>3
      <4> QED
        BY <3>2, <4>1, <4>2 DEF Request, Answer
    <3>5. q.tries # <<>>
      BY <3>3 DEF Latest, ResponsesTo
    <3> HIDE DEF p
    <3>6. Closing(p(t))
      BY <3>2, <3>3, <3>4, <3>5 DEF Closing, Latest, ResponsesTo
    <3> QED
      BY <2>2, <3>1, <3>4, <3>6
  <2>9. ASSUME NEW r \in Requests, TransportFails(r) PROVE IInv'
    <3> DEFINE q == req[r]
               t == [acc |-> q.acc, px |-> q.px, out |-> "transport"]
               retry == MayRetry(q)
               p == [q EXCEPT !.out = "transport", !.tries = Append(q.tries, t),
                       !.exRoute = IF retry /\ ~q.pinned
                                   THEN q.exRoute \cup {<<q.acc, q.px>>} ELSE q.exRoute,
                       !.ans = IF retry THEN "none" ELSE "transport_error"]
    <3>1. q.acc \in Accounts /\ q \in Request /\ q.pc = "send" /\ Agrees(q)
      BY <2>0, <2>9 DEF TransportFails, Sound
    <3>2. t \in Try /\ Append(q.tries, t) \in Seq(Try) /\ t.out = "transport"
      BY <3>1 DEF Request, Try, Outcome
    <3>3. p \in Request
      <4>1. (IF retry /\ ~q.pinned THEN q.exRoute \cup {<<q.acc, q.px>>}
             ELSE q.exRoute) \in SUBSET (Accounts \X Egress)
        BY <3>1 DEF Request
      <4> QED
        BY <3>1, <3>2, <4>1 DEF Request, Answer, Outcome
    <3>4. /\ p.tries = Append(q.tries, t) /\ p.deferred = q.deferred /\ p.log = q.log
          /\ p.ans \in {"none", "transport_error"} /\ CurrentTry(p) = t
          /\ p.acc \in Accounts
      BY <3>1 DEF Request, CurrentTry
    <3>5. req' = [req EXCEPT ![r] = AfterAccount(p)]
      BY <2>9 DEF TransportFails
    <3> HIDE DEF q, t, retry, p
    <3>6. Kept(q) /\ q.log = <<>> /\ q.tries \in Seq(Try)
      BY <3>1 DEF Agrees, Request
    <3>7. p.tries # <<>> /\ p.tries[Len(p.tries)] = t
      BY <3>2, <3>4, <3>6, AppendTry
    <3>8. Kept(p)
      BY <3>1, <3>2, <3>3, <3>4, <3>6, NoNewResponse
    <3>9. Closing(p)
      BY <3>4, <3>6, <3>7, <3>8 DEF Closing
    <3> QED
      BY <2>2, <3>3, <3>4, <3>5, <3>9
  <2>10. ASSUME NEW r \in Requests, NEW out \in Response, Responds(r, out) PROVE IInv'
    <3> DEFINE q == req[r]
               t == [acc |-> q.acc, px |-> q.px, out |-> out]
               retry == Retryable(out) /\ MayRetry(q)
               kept == [q EXCEPT !.out = out, !.tries = Append(q.tries, t),
                          !.deferred = {t},
                          !.exAcc = IF q.pinned THEN q.exAcc ELSE q.exAcc \cup {q.acc}]
               final == [q EXCEPT !.out = out, !.tries = Append(q.tries, t),
                           !.log = Append(q.log, t), !.ans = "response"]
               p == IF retry THEN kept ELSE final
    <3>1. q.acc \in Accounts /\ q \in Request /\ q.pc = "send" /\ Agrees(q)
      BY <2>0, <2>10 DEF Responds, Sound
    <3>2. /\ t \in Try /\ Append(q.tries, t) \in Seq(Try) /\ out \in Outcome
          /\ Append(q.log, t) \in Seq(Try) /\ t.out # "transport"
      BY <3>1 DEF Request, Try, Outcome, Response
    <3>3. kept \in Request /\ final \in Request
      <4>1. kept \in Request
        BY <3>1, <3>2 DEF Request
      <4>2. final \in Request
        BY <3>1, <3>2 DEF Request, Answer
      <4> QED
        BY <4>1, <4>2
    <3>4. /\ kept.tries = Append(q.tries, t) /\ kept.deferred = {t}
          /\ kept.log = q.log /\ kept.ans = q.ans /\ kept.acc \in Accounts
      BY <3>1 DEF Request
    <3>5. /\ final.tries = Append(q.tries, t) /\ final.log = Append(q.log, t)
          /\ final.ans = "response" /\ final.acc \in Accounts
      BY <3>1 DEF Request
    <3>6. req' = [req EXCEPT ![r] = AfterAccount(p)]
      BY <2>10 DEF Responds
    <3> HIDE DEF q, t, kept, final, retry
    <3>7. q.ans = "none" /\ q.log = <<>> /\ q.tries \in Seq(Try)
      BY <3>1 DEF Agrees, Request
    <3>8. Append(q.tries, t) # <<>> /\ Append(q.log, t) = <<t>>
      BY <3>2, <3>7, AppendTry
    <3>9. Latest(kept, t) /\ Latest(final, t)
      BY <3>1, <3>2, <3>3, <3>4, <3>5, NewResponse
    <3>10. Closing(kept)
      BY <3>4, <3>7, <3>8, <3>9 DEF Closing, Kept
    <3>11. Closing(final)
      BY <3>2, <3>5, <3>8, <3>9 DEF Closing
    <3> QED
      BY <2>2, <3>3, <3>4, <3>5, <3>6, <3>10, <3>11
  <2>11. ASSUME NEW r \in Requests, RecordProxy(r) PROVE IInv'
    <3>1. /\ Closing(req[r]) /\ req[r] \in Request /\ req[r].acc \in Accounts
          /\ req' = [req EXCEPT ![r] = Leave(req[r])]
      BY <2>0, <2>11 DEF RecordProxy, Agrees, Sound
    <3> QED
      BY <2>1, <3>1, LeaveAgrees
  <2>12. ASSUME NEW r \in Requests, Start(r) \/ Step(r), Agrees(req'[r]),
                \E q : req' = [req EXCEPT ![r] = q]
         PROVE  IInv'
    <3>1. PICK q : req' = [req EXCEPT ![r] = q]
      BY <2>12
    <3>2. req'[r] = q
      BY <2>0, <3>1
    <3> QED
      BY <2>1, <2>12, <3>1, <3>2
  <2>13. ASSUME NEW r \in Requests, Start(r) \/ Step(r) PROVE IInv'
    <3>1. CASE \/ \E a \in Accounts, e \in Egress : ResolvePinned(r, a, e) \/ SelectRoute(r, a, e)
               \/ \E b \in BOOLEAN : ResolveUnpinned(r, b)
               \/ NoRoute(r) \/ ClientFails(r)
      <4>1. \E q : req' = [req EXCEPT ![r] = q]
        BY <3>1 DEF ResolvePinned, SelectRoute, ResolveUnpinned, NoRoute, ClientFails
      <4>2. Agrees(req'[r])
        BY <3>1, <2>3, <2>4, <2>5, <2>6, <2>7
      <4> QED
        BY <2>12, <2>13, <4>1, <4>2
    <3> QED
      BY <2>8, <2>9, <2>10, <2>11, <2>13, <3>1 DEF Start, Step
  <2>14. CASE UNCHANGED req
    BY <2>14
  <2>15. Admin \/ Tick \/ Idle \/ UNCHANGED vars => UNCHANGED req
    BY DEF Admin, AdminSetEnabled, AdminCreate, AdminDelete, AdminBind, AdminReadAccount,
       AdminReadProxy, AdminWrite, Tick, Idle, vars
  <2> QED
    BY <2>13, <2>14, <2>15 DEF Next
<1>3. IInv => LogsWhatItAnswers
  BY DEF Agrees, Told, LogsWhatItAnswers
<1> QED
  BY <1>1, <1>2, <1>3, WellFormedAlways, PTL DEF Spec

-----------------------------------------------------------------------------
(* Every failure counted is a failed exchange.                             *)

\* The failed exchanges with an account.
Slots == Requests \X (1..(MaxRetries + 1))
FailedAt(a) ==
    {x \in Slots : /\ x[2] \in DOMAIN req[x[1]].tries
                   /\ req[x[1]].tries[x[2]].acc = a
                   /\ Failing(req[x[1]].tries[x[2]].out)}

\* No more than the attempts were tried; a request at its exchange has room for it.
Room(q) ==
    /\ Len(q.tries) <= MaxRetries + 1
    /\ q.pc \in {"arrived", "select", "send"} => q.ans = "none" /\ Len(q.tries) <= q.attempt
    /\ q.pc = "proxy" /\ q.ans = "none" => Len(q.tries) <= q.attempt + 1

Counted == \A a \in Accounts : account[a].failures <= Cardinality(FailedAt(a))

LEMMA SlotsFinite ==
    /\ IsFiniteSet(Slots)
    /\ \A a : IsFiniteSet(FailedAt(a)) /\ Cardinality(FailedAt(a)) \in Nat
<1>1. IsFiniteSet(1..(MaxRetries + 1))
  BY FS_Interval
<1>2. IsFiniteSet(Slots)
  BY <1>1, FS_Product DEF Slots
<1>3. ASSUME NEW a PROVE IsFiniteSet(FailedAt(a))
  <2>1. FailedAt(a) \in SUBSET Slots
    BY DEF FailedAt
  <2> HIDE DEF FailedAt
  <2> QED
    BY <1>2, <2>1, FS_Subset
<1> QED
  BY <1>2, <1>3, FS_CardinalityType

\* One more failed exchange with an account raises its count by one.
LEMMA OneMoreFails ==
    ASSUME NEW S, NEW T, IsFiniteSet(S), IsFiniteSet(T), S \subseteq T
    PROVE  /\ Cardinality(S) <= Cardinality(T)
           /\ \A x \in T : x \notin S => Cardinality(S) + 1 <= Cardinality(T)
<1>1. Cardinality(S) <= Cardinality(T)
  BY FS_Subset
<1>2. ASSUME NEW x \in T, x \notin S PROVE Cardinality(S) + 1 <= Cardinality(T)
  <2>1. Cardinality(S \cup {x}) = Cardinality(S) + 1 /\ IsFiniteSet(S \cup {x})
    BY <1>2, FS_AddElement
  <2>2. S \cup {x} \in SUBSET T
    BY <1>2
  <2> QED
    BY <2>1, <2>2, FS_Subset
<1> QED
  BY <1>1, <1>2

\* No outcome but a failing one raises the count, and none by more than one.
LEMMA OutcomesCount ==
    ASSUME NEW row \in Row, NEW out \in Response, NEW f \in Nat
    PROVE  /\ OutcomeRow(row, out, f).failures <=
                row.failures + (IF Failing(out) THEN 1 ELSE 0)
           /\ Failure(row, now).failures = row.failures + 1
BY DEF OutcomeRow, Success, Cooldown, Disable, Failure, Failing, Response, Row

\* Leaving an exchange keeps what was tried.
LEMMA LeaveRoom ==
    ASSUME NEW q \in Request, Len(q.tries) <= MaxRetries + 1,
           q.ans = "none" => Len(q.tries) <= q.attempt + 1
    PROVE  /\ Room(Leave(q)) /\ Leave(q).tries = q.tries
           /\ Room(AfterAccount(q)) /\ AfterAccount(q).tries = q.tries
<1>1. Room(Leave(q)) /\ Leave(q).tries = q.tries
  <2>1. CASE q.ans = "none"
    <3> DEFINE n == [q EXCEPT !.pc = IF q.pinned THEN "send" ELSE "select",
                              !.attempt = q.attempt + 1]
    <3>1. Leave(q) = n
      BY <2>1 DEF Leave
    <3>2. /\ n.pc \in {"send", "select"} /\ n.ans = q.ans /\ n.tries = q.tries
          /\ n.attempt = q.attempt + 1
      BY DEF Request
    <3> HIDE DEF n
    <3> QED
      BY <2>1, <3>1, <3>2 DEF Room
  <2>2. CASE q.ans # "none"
    <3>1. Leave(q).pc = "done" /\ Leave(q).tries = q.tries
      BY <2>2, LeaveFields
    <3> QED
      BY <3>1 DEF Room
  <2> QED
    BY <2>1, <2>2
<1>2. CASE q.px = Direct
  BY <1>1, <1>2 DEF AfterAccount
<1>3. CASE q.px # Direct
  <2> DEFINE n == [q EXCEPT !.pc = "proxy"]
  <2>1. AfterAccount(q) = n
    BY <1>3 DEF AfterAccount
  <2>2. /\ n.pc = "proxy" /\ n.ans = q.ans /\ n.tries = q.tries /\ n.attempt = q.attempt
    BY DEF Request
  <2> HIDE DEF n
  <2> QED
    BY <1>1, <2>1, <2>2 DEF Room
<1> QED
  BY <1>1, <1>2, <1>3

\* A step that ends an exchange: the try is new, and it alone may raise the count of
\* its account.
LEMMA ExchangeCounts ==
    ASSUME WellFormed, Counted, \A g \in Requests : Room(req[g]),
           NEW r \in Requests, req[r].pc = "send", NEW p \in Request, NEW t \in Try,
           p.tries = Append(req[r].tries, t), p.attempt = req[r].attempt,
           req' = [req EXCEPT ![r] = AfterAccount(p)],
           NEW row \in Row, WriteAccount(t.acc, row),
           row.failures <= account[t.acc].failures + (IF Failing(t.out) THEN 1 ELSE 0)
    PROVE  Counted' /\ \A g \in Requests : Room(req'[g])
<1> DEFINE q == req[r]
           n == AfterAccount(p)
           T(a) == {x \in Slots : /\ x[2] \in DOMAIN req'[x[1]].tries
                                  /\ req'[x[1]].tries[x[2]].acc = a
                                  /\ Failing(req'[x[1]].tries[x[2]].out)}
<1>1. /\ req \in [Requests -> Request] /\ account \in [Accounts -> Row] /\ q \in Request
      /\ t.acc \in Accounts
  BY DEF WellFormed, TypeOK, Try
<1>2. /\ q.tries \in Seq(Try) /\ q.attempt \in 0..MaxRetries /\ Len(q.tries) <= q.attempt
  BY <1>1 DEF Request, Room
<1>3. /\ Len(p.tries) = Len(q.tries) + 1 /\ DOMAIN p.tries = 1..(Len(q.tries) + 1)
      /\ DOMAIN q.tries = 1..Len(q.tries) /\ Len(q.tries) \in Nat
      /\ p.tries[Len(q.tries) + 1] = t /\ \A i \in 1..Len(q.tries) : p.tries[i] = q.tries[i]
  BY <1>2, AppendTry
<1>4. Len(p.tries) <= p.attempt + 1 /\ Len(p.tries) <= MaxRetries + 1
  BY <1>2, <1>3
<1>5. Room(n) /\ n.tries = p.tries
  BY <1>4, LeaveRoom
<1>6. \A g \in Requests : req'[g] = IF g = r THEN n ELSE req[g]
  BY <1>1
<1> HIDE DEF n
<1>7. \A g \in Requests : Room(req'[g])
  BY <1>5, <1>6
<1>8. ASSUME NEW a \in Accounts PROVE FailedAt(a) \subseteq T(a)
  BY <1>3, <1>5, <1>6 DEF FailedAt, Slots
<1>9. Failing(t.out) => <<r, Len(q.tries) + 1>> \in T(t.acc) \ FailedAt(t.acc)
  <2>1. <<r, Len(q.tries) + 1>> \in Slots
    BY <1>2, <1>3 DEF Slots
  <2>2. Len(q.tries) + 1 \notin DOMAIN q.tries
    BY <1>3
  <2> QED
    BY <1>3, <1>5, <1>6, <2>1, <2>2 DEF FailedAt
<1>10. \A a : (FailedAt(a))' = T(a)
  BY DEF FailedAt, Slots
<1>11. \A a : IsFiniteSet(T(a)) /\ Cardinality(T(a)) \in Nat
  <2>1. ASSUME NEW a PROVE IsFiniteSet(T(a))
    <3>1. T(a) \in SUBSET Slots
      OBVIOUS
    <3> HIDE DEF T
    <3> QED
      BY <3>1, SlotsFinite, FS_Subset
  <2> HIDE DEF T
  <2> QED
    BY <2>1, FS_CardinalityType
<1> HIDE DEF T
<1>12. ASSUME NEW a \in Accounts PROVE account'[a].failures <= Cardinality(T(a))
  <2>1. /\ account[a].failures <= Cardinality(FailedAt(a)) /\ account[a].failures \in Nat
        /\ Cardinality(FailedAt(a)) \in Nat /\ Cardinality(T(a)) \in Nat
        /\ row.failures \in Nat
    BY <1>1, <1>11, SlotsFinite DEF Counted, Row
  <2>2. Cardinality(FailedAt(a)) <= Cardinality(T(a))
    BY <1>8, <1>11, SlotsFinite, OneMoreFails
  <2>3. CASE account'[a] = account[a]
    BY <2>1, <2>2, <2>3
  <2>4. CASE a = t.acc /\ account'[a] = row
    <3>1. CASE Failing(t.out)
      <4>1. Cardinality(FailedAt(a)) + 1 <= Cardinality(T(a))
        BY <1>8, <1>9, <1>11, <2>4, <3>1, SlotsFinite, OneMoreFails
      <4> QED
        BY <2>1, <2>4, <3>1, <4>1
    <3>2. CASE ~Failing(t.out)
      BY <2>1, <2>2, <2>4, <3>2
    <3> QED
      BY <3>1, <3>2
  <2> QED
    BY <1>1, <2>3, <2>4 DEF WriteAccount
<1> QED
  BY <1>7, <1>10, <1>12 DEF Counted

\* A row never counts more failures than exchanges with that account have failed,
\* whatever requests and console write in whichever order.
THEOREM FailuresAreReal == Spec => []FailuresAccountedFor
<1> DEFINE Rooms == \A r \in Requests : Room(req[r])
           IInv == Counted /\ Rooms
<1>1. Init => IInv
  <2> SUFFICES ASSUME Init PROVE IInv
    OBVIOUS
  <2>1. \A a \in Accounts : account[a].failures = 0
    BY DEF Init, FreshRow
  <2>2. Room(Arrived)
    BY DEF Room, Arrived
  <2>3. Counted
    BY <2>1, SlotsFinite DEF Counted
  <2> QED
    BY <2>2, <2>3 DEF Init
<1>2. WellFormed /\ IInv /\ [Next]_vars => IInv'
  <2> SUFFICES ASSUME WellFormed, IInv, [Next]_vars PROVE IInv'
    OBVIOUS
  <2>0. /\ req \in [Requests -> Request] /\ \A r \in Requests : Sound(req[r])
        /\ account \in [Accounts -> Row]
    BY DEF WellFormed, TypeOK
  <2>1. ASSUME NEW r \in Requests, NEW q, Room(q), q.tries = req[r].tries,
               req' = [req EXCEPT ![r] = q], account' = account
        PROVE  IInv'
    <3>1. \A g \in Requests : /\ req'[g].tries = req[g].tries
                              /\ Room(req'[g])
      BY <2>0, <2>1
    <3>2. \A a : FailedAt(a)' = FailedAt(a)
      BY <3>1 DEF FailedAt, Slots
    <3> QED
      BY <2>1, <3>1, <3>2 DEF Counted
  <2>2. ASSUME NEW r \in Requests,
               \/ \E a \in Accounts, e \in Egress : ResolvePinned(r, a, e) \/ SelectRoute(r, a, e)
               \/ \E b \in BOOLEAN : ResolveUnpinned(r, b)
               \/ NoRoute(r) \/ ClientFails(r)
        PROVE  IInv'
    <3>1. PICK q : req' = [req EXCEPT ![r] = q]
      BY <2>2 DEF ResolvePinned, SelectRoute, ResolveUnpinned, NoRoute, ClientFails
    <3>2. q = req'[r] /\ Room(req[r]) /\ req[r] \in Request
      BY <2>0, <3>1
    <3>3. account' = account
      BY <2>2 DEF ResolvePinned, SelectRoute, ResolveUnpinned, NoRoute, ClientFails
    <3>4. /\ req[r].pc \in {"arrived", "select", "send"} /\ q.tries = req[r].tries
          /\ q.attempt = req[r].attempt
          /\ q.pc = "done" \/ (q.pc \in {"select", "send"} /\ q.ans = req[r].ans)
      <4>1. ASSUME NEW a \in Accounts, NEW e \in Egress, ResolvePinned(r, a, e) PROVE <3>4
        BY <2>0, <3>2, <4>1 DEF ResolvePinned, Request
      <4>2. ASSUME NEW a \in Accounts, NEW e \in Egress, SelectRoute(r, a, e) PROVE <3>4
        BY <2>0, <3>2, <4>2 DEF SelectRoute, Request
      <4>3. ASSUME NEW b \in BOOLEAN, ResolveUnpinned(r, b) PROVE <3>4
        BY <2>0, <3>2, <4>3 DEF ResolveUnpinned, Request
      <4>4. CASE NoRoute(r) \/ ClientFails(r)
        BY <2>0, <3>2, <4>4 DEF NoRoute, ClientFails, Request
      <4> QED
        BY <2>2, <4>1, <4>2, <4>3, <4>4
    <3>5. Room(q)
      BY <3>2, <3>4 DEF Room
    <3> QED
      BY <2>1, <3>1, <3>3, <3>4, <3>5
  <2>3. ASSUME NEW r \in Requests, FinalizeDeferred(r) PROVE IInv'
    <3> DEFINE q == req[r]
               p(t) == [q EXCEPT !.acc = t.acc, !.px = t.px, !.out = t.out,
                          !.deferred = {}, !.ans = "response", !.log = Append(q.log, t)]
    <3>1. PICK t \in q.deferred : /\ req' = [req EXCEPT ![r] = AfterAccount(p(t))]
                                  /\ account' = account
      BY <2>3 DEF FinalizeDeferred
    <3>2. q \in Request /\ t \in Try /\ Room(q)
      BY <2>0 DEF Request
    <3>3. p(t) \in Request /\ p(t).ans = "response" /\ p(t).tries = q.tries
      <4>1. t.acc \in Accounts /\ t.px \in Egress /\ t.out \in Outcome
        BY <3>2 DEF Try
      <4>2. Append(q.log, t) \in Seq(Try)
        BY <3>2 DEF Request
      <4> QED
        BY <3>2, <4>1, <4>2 DEF Request, Answer
    <3> HIDE DEF p
    <3>4. Room(AfterAccount(p(t))) /\ AfterAccount(p(t)).tries = q.tries
      BY <3>2, <3>3, LeaveRoom DEF Room
    <3> QED
      BY <2>1, <3>1, <3>4
  <2>4. ASSUME NEW r \in Requests, TransportFails(r) PROVE IInv'
    <3> DEFINE q == req[r]
               t == [acc |-> q.acc, px |-> q.px, out |-> "transport"]
               retry == MayRetry(q)
               p == [q EXCEPT !.out = "transport", !.tries = Append(q.tries, t),
                       !.exRoute = IF retry /\ ~q.pinned
                                   THEN q.exRoute \cup {<<q.acc, q.px>>} ELSE q.exRoute,
                       !.ans = IF retry THEN "none" ELSE "transport_error"]
               row == Failure(account[q.acc], now)
    <3>1. q.acc \in Accounts /\ q \in Request /\ q.pc = "send" /\ account[q.acc] \in Row
      BY <2>0, <2>4 DEF TransportFails, Sound
    <3>2. t \in Try /\ Append(q.tries, t) \in Seq(Try) /\ t.out = "transport" /\ t.acc = q.acc
      BY <3>1 DEF Request, Try, Outcome
    <3>3. p \in Request
      <4>1. (IF retry /\ ~q.pinned THEN q.exRoute \cup {<<q.acc, q.px>>}
             ELSE q.exRoute) \in SUBSET (Accounts \X Egress)
        BY <3>1 DEF Request
      <4> QED
        BY <3>1, <3>2, <4>1 DEF Request, Answer, Outcome
    <3>4. p.tries = Append(q.tries, t) /\ p.attempt = q.attempt
      BY <3>1 DEF Request
    <3>5. req' = [req EXCEPT ![r] = AfterAccount(p)] /\ WriteAccount(t.acc, row)
      BY <2>4 DEF TransportFails
    <3>6. row \in Row /\ row.failures <= account[t.acc].failures + (IF Failing(t.out) THEN 1 ELSE 0)
      <4>1. row \in Row /\ now \in Nat
        BY <3>1, RowsStayRows DEF WellFormed, TypeOK
      <4>2. row.failures = account[q.acc].failures + 1 /\ account[q.acc].failures \in Nat
        BY <3>1 DEF Failure, Row
      <4>3. Failing(t.out)
        BY DEF Failing
      <4> QED
        BY <4>1, <4>2, <4>3
    <3> HIDE DEF t, retry, p, row
    <3> QED
      BY <3>1, <3>2, <3>3, <3>4, <3>5, <3>6, ExchangeCounts
  <2>5. ASSUME NEW r \in Requests, NEW out \in Response, Responds(r, out) PROVE IInv'
    <3> DEFINE q == req[r]
               t == [acc |-> q.acc, px |-> q.px, out |-> out]
               retry == Retryable(out) /\ MayRetry(q)
               kept == [q EXCEPT !.out = out, !.tries = Append(q.tries, t),
                          !.deferred = {t},
                          !.exAcc = IF q.pinned THEN q.exAcc ELSE q.exAcc \cup {q.acc}]
               final == [q EXCEPT !.out = out, !.tries = Append(q.tries, t),
                           !.log = Append(q.log, t), !.ans = "response"]
               p == IF retry THEN kept ELSE final
               row == OutcomeRow(account[q.acc], out, q.fails)
    <3>1. /\ q.acc \in Accounts /\ q \in Request /\ q.pc = "send" /\ account[q.acc] \in Row
          /\ q.fails \in Nat /\ now \in Nat
      BY <2>0, <2>5 DEF Responds, Sound, Request, WellFormed, TypeOK
    <3>2. /\ t \in Try /\ Append(q.tries, t) \in Seq(Try) /\ out \in Outcome
          /\ Append(q.log, t) \in Seq(Try) /\ t.acc = q.acc /\ t.out = out
      BY <3>1 DEF Request, Try, Outcome, Response
    <3>3. /\ kept \in Request /\ kept.tries = Append(q.tries, t) /\ kept.attempt = q.attempt
      BY <3>1, <3>2 DEF Request
    <3>4. /\ final \in Request /\ final.tries = Append(q.tries, t)
          /\ final.attempt = q.attempt
      BY <3>1, <3>2 DEF Request, Answer
    <3>5. req' = [req EXCEPT ![r] = AfterAccount(p)] /\ WriteAccount(t.acc, row)
      BY <2>5 DEF Responds
    <3>6. row \in Row
      BY <3>1, OutcomeRowType
    <3>7. row.failures <= account[t.acc].failures + (IF Failing(t.out) THEN 1 ELSE 0)
      BY <3>1, OutcomesCount
    <3> HIDE DEF t, retry, kept, final, row
    <3> QED
      BY <3>1, <3>2, <3>3, <3>4, <3>5, <3>6, <3>7, ExchangeCounts
  <2>6. ASSUME NEW r \in Requests, RecordProxy(r) PROVE IInv'
    <3>1. /\ req[r] \in Request /\ Room(req[r]) /\ req[r].pc = "proxy"
          /\ req' = [req EXCEPT ![r] = Leave(req[r])] /\ account' = account
      BY <2>0, <2>6 DEF RecordProxy
    <3>2. Room(Leave(req[r])) /\ Leave(req[r]).tries = req[r].tries
      BY <3>1, LeaveRoom DEF Room
    <3> QED
      BY <2>1, <3>1, <3>2
  <2>7. ASSUME req' = req, \A a \in Accounts : account'[a].failures \in {0, account[a].failures}
        PROVE  IInv'
    <3>1. \A a : FailedAt(a)' = FailedAt(a)
      BY <2>7 DEF FailedAt, Slots
    <3> QED
      BY <2>7, <3>1, SlotsFinite DEF Counted
  <2>8. CASE Admin
    <3>1. req' = req
      BY <2>8 DEF Admin, AdminSetEnabled, AdminCreate, AdminDelete, AdminBind,
         AdminReadAccount, AdminReadProxy, AdminWrite
    <3>2. CASE account' = account
      BY <2>7, <3>1, <3>2
    <3>3. ASSUME NEW a \in Accounts, NEW b \in BOOLEAN,
                 AdminSetEnabled(a, b) \/ AdminCreate(a, b)
          PROVE  IInv'
      <4> DEFINE set == SetEnabled(account[a], b)
                 new == FreshRow(b)
      <4>0. set.failures = account[a].failures /\ new.failures = 0
        BY <2>0 DEF SetEnabled, FreshRow, Row
      <4>2. account' = [account EXCEPT ![a] = set] \/ account' = [account EXCEPT ![a] = new]
        BY <3>3 DEF AdminSetEnabled, AdminCreate
      <4> HIDE DEF set, new
      <4>1. \A c \in Accounts : account'[c].failures \in {0, account[c].failures}
        BY <2>0, <4>0, <4>2
      <4> QED
        BY <2>7, <3>1, <4>1
    <3>4. ASSUME NEW enabled \in {"keep", "on", "off"}, AdminWrite(enabled) PROVE IInv'
      <4>1. PICK u : \/ account' = account
                     \/ WriteAccount(u.target, UpdatedRow(account[u.target], u.seen, enabled))
        BY <3>4 DEF AdminWrite
      <4>2. \A c \in Accounts : account'[c].failures \in {0, account[c].failures}
        <5> DEFINE row == UpdatedRow(account[u.target], u.seen, enabled)
        <5>1. CASE account' = [account EXCEPT ![u.target] = row] /\ u.target \in Accounts
          <6>1. row.failures = account[u.target].failures
            BY <2>0, <5>1 DEF UpdatedRow, SetEnabled, PutBack, Row
          <6> HIDE DEF row
          <6> QED
            BY <2>0, <5>1, <6>1
        <5>2. CASE account' = account
          BY <5>2
        <5> QED
          BY <2>0, <4>1, <5>1, <5>2 DEF WriteAccount
      <4> QED
        BY <2>7, <3>1, <4>2
    <3> QED
      BY <2>8, <3>2, <3>3, <3>4 DEF Admin, AdminDelete, AdminBind, AdminReadAccount,
         AdminReadProxy
  <2>9. CASE Tick \/ Idle \/ UNCHANGED vars
    BY <2>7, <2>9 DEF Tick, Idle, vars
  <2> QED
    BY <2>2, <2>3, <2>4, <2>5, <2>6, <2>8, <2>9 DEF Next, Start, Step
<1>3. WellFormed /\ Counted => FailuresAccountedFor
  BY DEF WellFormed, TypeOK, Counted, FailedAt, Slots, FailuresAccountedFor
<1> QED
  BY <1>1, <1>2, <1>3, WellFormedAlways, PTL DEF Spec

-----------------------------------------------------------------------------
(* Failover is complete.                                                   *)

\* Nothing is excluded but for what the request knew on arrival or has tried.
Excluded(q) ==
    /\ \A a \in q.exAcc : \/ q.needsKey /\ a \in Keyless
                          \/ \E i \in DOMAIN q.tries :
                               q.tries[i].acc = a /\ Retryable(q.tries[i].out)
    /\ \A a \in Accounts, e \in Egress : <<a, e>> \in q.exRoute =>
         \E i \in DOMAIN q.tries : q.tries[i] = [acc |-> a, px |-> e, out |-> "transport"]

\* Leaving an exchange changes none of what the exclusions are about.
LEMMA ExclusionsStay ==
    ASSUME NEW q \in Request, Excluded(q)
    PROVE  Excluded(Leave(q)) /\ Excluded(AfterAccount(q))
<1>1. /\ Leave(q).needsKey = q.needsKey /\ Leave(q).exAcc = q.exAcc
      /\ Leave(q).exRoute = q.exRoute /\ Leave(q).tries = q.tries
  BY DEF Leave, Request
<1>2. CASE q.px = Direct
  BY <1>1, <1>2 DEF AfterAccount, Excluded
<1>3. CASE q.px # Direct
  <2> DEFINE n == [q EXCEPT !.pc = "proxy"]
  <2>1. AfterAccount(q) = n
    BY <1>3 DEF AfterAccount
  <2>2. /\ n.needsKey = q.needsKey /\ n.exAcc = q.exAcc
        /\ n.exRoute = q.exRoute /\ n.tries = q.tries
    BY DEF Request
  <2> HIDE DEF n
  <2> QED
    BY <1>1, <2>1, <2>2 DEF Excluded
<1> QED
  BY <1>2, <1>3

\* An exchange excludes its account after a retryable answer, or its route.
LEMMA ExchangeExcludes ==
    ASSUME NEW q \in Request, Excluded(q), NEW p \in Request, NEW t \in Try,
           p.tries = Append(q.tries, t), p.needsKey = q.needsKey,
           \A a \in p.exAcc : a \in q.exAcc \/ (a = t.acc /\ Retryable(t.out)),
           \A x \in p.exRoute :
              x \in q.exRoute \/ (x = <<t.acc, t.px>> /\ t.out = "transport")
    PROVE  Excluded(AfterAccount(p))
<1>1. q.tries \in Seq(Try)
  BY DEF Request
<1>2. /\ \A i \in DOMAIN q.tries : i \in DOMAIN p.tries /\ p.tries[i] = q.tries[i]
      /\ \E i \in DOMAIN p.tries : p.tries[i] = t
  <2>1. Len(q.tries) + 1 \in DOMAIN p.tries /\ p.tries[Len(q.tries) + 1] = t
    BY <1>1, AppendTry
  <2> QED
    BY <1>1, <2>1, AppendTry
<1>3. ASSUME NEW a \in p.exAcc
      PROVE  \/ p.needsKey /\ a \in Keyless
             \/ \E i \in DOMAIN p.tries : p.tries[i].acc = a /\ Retryable(p.tries[i].out)
  BY <1>2 DEF Excluded
<1>4. ASSUME NEW a \in Accounts, NEW e \in Egress, <<a, e>> \in p.exRoute
      PROVE  \E i \in DOMAIN p.tries : p.tries[i] = [acc |-> a, px |-> e, out |-> "transport"]
  <2>1. <<a, e>> \in q.exRoute \/ t = [acc |-> a, px |-> e, out |-> "transport"]
    BY <1>4 DEF Try
  <2> QED
    BY <1>2, <2>1 DEF Excluded
<1>5. Excluded(p)
  BY <1>3, <1>4 DEF Excluded
<1> QED
  BY <1>5, ExclusionsStay

LEMMA ExcludedAlways == Spec => [](\A r \in Requests : Excluded(req[r]))
<1> DEFINE IInv == \A r \in Requests : Excluded(req[r])
<1>1. Init => IInv
  BY DEF Init, Arrived, Excluded
<1>2. WellFormed /\ IInv /\ [Next]_vars => IInv'
  <2> SUFFICES ASSUME WellFormed, IInv, [Next]_vars PROVE IInv'
    OBVIOUS
  <2>0. /\ req \in [Requests -> Request] /\ \A r \in Requests : Sound(req[r])
    BY DEF WellFormed, TypeOK
  <2>1. ASSUME NEW r \in Requests, NEW q, Excluded(q), req' = [req EXCEPT ![r] = q]
        PROVE  IInv'
    BY <2>0, <2>1
  <2>2. ASSUME NEW r \in Requests, NEW q, req' = [req EXCEPT ![r] = q],
               q.needsKey = req[r].needsKey, q.exAcc = req[r].exAcc,
               q.exRoute = req[r].exRoute, q.tries = req[r].tries
        PROVE  IInv'
    BY <2>1, <2>2 DEF Excluded
  <2>3. ASSUME NEW r \in Requests, NEW a \in Accounts, NEW e \in Egress,
               ResolvePinned(r, a, e)
        PROVE  IInv'
    <3> DEFINE q == IF a \in live
                    THEN [req[r] EXCEPT !.pc = "send", !.pinned = TRUE, !.acc = a, !.px = e,
                                !.fails = account[a].failures,
                                !.pxFails = IF e = Direct THEN 0 ELSE proxy[e].failures]
                    ELSE [req[r] EXCEPT !.pc = "done", !.ans = "bad_route"]
    <3>1. req' = [req EXCEPT ![r] = q]
      BY <2>3 DEF ResolvePinned
    <3>2. /\ q.needsKey = req[r].needsKey /\ q.exAcc = req[r].exAcc
          /\ q.exRoute = req[r].exRoute /\ q.tries = req[r].tries
      BY <2>0 DEF Request
    <3> HIDE DEF q
    <3> QED
      BY <2>2, <3>1, <3>2
  <2>4. ASSUME NEW r \in Requests, NEW b \in BOOLEAN, ResolveUnpinned(r, b) PROVE IInv'
    <3> DEFINE q == [req[r] EXCEPT !.pc = "select", !.needsKey = b,
                       !.exAcc = IF b THEN RoutableAccounts \cap Keyless ELSE {}]
    <3>1. req' = [req EXCEPT ![r] = q]
      BY <2>4 DEF ResolveUnpinned
    <3>2. /\ q.needsKey = b /\ q.exAcc = (IF b THEN RoutableAccounts \cap Keyless ELSE {})
          /\ q.exRoute = req[r].exRoute /\ q.tries = req[r].tries
      BY <2>0 DEF Request
    <3> HIDE DEF q
    <3>3. Excluded(q)
      BY <3>2 DEF Excluded
    <3> QED
      BY <2>1, <3>1, <3>3
  <2>5. ASSUME NEW r \in Requests, NEW a \in Accounts, NEW e \in Egress,
               SelectRoute(r, a, e)
        PROVE  IInv'
    <3> DEFINE q == [req[r] EXCEPT !.pc = "send", !.acc = a, !.px = e,
                       !.fails = account[a].failures,
                       !.pxFails = IF e = Direct THEN 0 ELSE proxy[e].failures]
    <3>1. req' = [req EXCEPT ![r] = q]
      BY <2>5 DEF SelectRoute
    <3>2. /\ q.needsKey = req[r].needsKey /\ q.exAcc = req[r].exAcc
          /\ q.exRoute = req[r].exRoute /\ q.tries = req[r].tries
      BY <2>0 DEF Request
    <3> HIDE DEF q
    <3> QED
      BY <2>2, <3>1, <3>2
  <2>6. ASSUME NEW r \in Requests, NEW ans \in Answer,
               req' = [req EXCEPT ![r] = [req[r] EXCEPT !.pc = "done", !.ans = ans]]
        PROVE  IInv'
    <3> DEFINE q == [req[r] EXCEPT !.pc = "done", !.ans = ans]
    <3>1. /\ q.needsKey = req[r].needsKey /\ q.exAcc = req[r].exAcc
          /\ q.exRoute = req[r].exRoute /\ q.tries = req[r].tries
      BY <2>0 DEF Request
    <3>2. req' = [req EXCEPT ![r] = q]
      BY <2>6
    <3> HIDE DEF q
    <3> QED
      BY <2>2, <3>1, <3>2
  <2>7. ASSUME NEW r \in Requests, FinalizeDeferred(r) PROVE IInv'
    <3> DEFINE q == req[r]
               p(t) == [q EXCEPT !.acc = t.acc, !.px = t.px, !.out = t.out,
                          !.deferred = {}, !.ans = "response", !.log = Append(q.log, t)]
    <3>1. PICK t \in q.deferred : req' = [req EXCEPT ![r] = AfterAccount(p(t))]
      BY <2>7 DEF FinalizeDeferred
    <3>2. q \in Request /\ t \in Try /\ Excluded(q)
      BY <2>0 DEF Request
    <3>3. /\ p(t) \in Request /\ p(t).tries = q.tries /\ p(t).needsKey = q.needsKey
          /\ p(t).exAcc = q.exAcc /\ p(t).exRoute = q.exRoute
      <4>1. t.acc \in Accounts /\ t.px \in Egress /\ t.out \in Outcome
        BY <3>2 DEF Try
      <4>2. Append(q.log, t) \in Seq(Try)
        BY <3>2 DEF Request
      <4> QED
        BY <3>2, <4>1, <4>2 DEF Request, Answer
    <3> HIDE DEF p
    <3>4. Excluded(AfterAccount(p(t)))
      BY <3>2, <3>3, ExclusionsStay DEF Excluded
    <3> QED
      BY <2>1, <3>1, <3>4
  <2>8. ASSUME NEW r \in Requests, TransportFails(r) PROVE IInv'
    <3> DEFINE q == req[r]
               t == [acc |-> q.acc, px |-> q.px, out |-> "transport"]
               retry == MayRetry(q)
               shut == IF retry /\ ~q.pinned
                       THEN q.exRoute \cup {<<q.acc, q.px>>} ELSE q.exRoute
               p == [q EXCEPT !.out = "transport", !.tries = Append(q.tries, t),
                       !.exRoute = shut, !.ans = IF retry THEN "none" ELSE "transport_error"]
    <3>1. q.acc \in Accounts /\ q \in Request /\ Excluded(q)
      BY <2>0, <2>8 DEF TransportFails, Sound
    <3>2. t \in Try /\ Append(q.tries, t) \in Seq(Try)
      BY <3>1 DEF Request, Try, Outcome
    <3>3. /\ shut \in SUBSET (Accounts \X Egress)
          /\ \A x \in shut : x \in q.exRoute \/ (x = <<t.acc, t.px>> /\ t.out = "transport")
      BY <3>1 DEF Request
    <3>5. req' = [req EXCEPT ![r] = AfterAccount(p)]
      BY <2>8 DEF TransportFails
    <3> HIDE DEF t, shut, retry
    <3>4. /\ p \in Request /\ p.tries = Append(q.tries, t) /\ p.needsKey = q.needsKey
          /\ p.exAcc = q.exAcc /\ p.exRoute = shut
      BY <3>1, <3>2, <3>3 DEF Request, Answer, Outcome
    <3> HIDE DEF q, p
    <3>6. Excluded(AfterAccount(p))
      BY <3>1, <3>2, <3>3, <3>4, ExchangeExcludes
    <3> QED
      BY <2>1, <3>5, <3>6
  <2>9. ASSUME NEW r \in Requests, NEW out \in Response, Responds(r, out) PROVE IInv'
    <3> DEFINE q == req[r]
               t == [acc |-> q.acc, px |-> q.px, out |-> out]
               retry == Retryable(out) /\ MayRetry(q)
               kept == [q EXCEPT !.out = out, !.tries = Append(q.tries, t),
                          !.deferred = {t},
                          !.exAcc = IF q.pinned THEN q.exAcc ELSE q.exAcc \cup {q.acc}]
               final == [q EXCEPT !.out = out, !.tries = Append(q.tries, t),
                           !.log = Append(q.log, t), !.ans = "response"]
               p == IF retry THEN kept ELSE final
    <3>1. q.acc \in Accounts /\ q \in Request /\ Excluded(q)
      BY <2>0, <2>9 DEF Responds, Sound
    <3>2. /\ t \in Try /\ Append(q.tries, t) \in Seq(Try) /\ out \in Outcome
          /\ Append(q.log, t) \in Seq(Try) /\ t.acc = q.acc /\ t.out = out
      BY <3>1 DEF Request, Try, Outcome
    <3>3. /\ kept \in Request /\ kept.tries = Append(q.tries, t)
          /\ kept.needsKey = q.needsKey /\ kept.exRoute = q.exRoute
          /\ \A a \in kept.exAcc : a \in q.exAcc \/ a = t.acc
      BY <3>1, <3>2 DEF Request
    <3>4. /\ final \in Request /\ final.tries = Append(q.tries, t)
          /\ final.needsKey = q.needsKey /\ final.exRoute = q.exRoute
          /\ final.exAcc = q.exAcc
      BY <3>1, <3>2 DEF Request, Answer
    <3>5. req' = [req EXCEPT ![r] = AfterAccount(p)]
      BY <2>9 DEF Responds
    <3>6. retry => Retryable(t.out)
      BY <3>2
    <3> HIDE DEF q, t, retry, kept, final
    <3>7. Excluded(AfterAccount(p))
      <4>1. CASE retry
        BY <3>1, <3>2, <3>3, <3>6, <4>1, ExchangeExcludes
      <4>2. CASE ~retry
        BY <3>1, <3>2, <3>4, <4>2, ExchangeExcludes
      <4> QED
        BY <4>1, <4>2
    <3> QED
      BY <2>1, <3>5, <3>7
  <2>10. ASSUME NEW r \in Requests, RecordProxy(r) PROVE IInv'
    <3>1. /\ req[r] \in Request /\ Excluded(req[r])
          /\ req' = [req EXCEPT ![r] = Leave(req[r])]
      BY <2>0, <2>10 DEF RecordProxy
    <3> QED
      BY <2>1, <3>1, ExclusionsStay
  <2>11. ASSUME NEW r \in Requests, NoRoute(r) \/ ClientFails(r) PROVE IInv'
    <3>1. \E ans \in Answer :
             req' = [req EXCEPT ![r] = [req[r] EXCEPT !.pc = "done", !.ans = ans]]
      BY <2>11 DEF NoRoute, ClientFails, Answer
    <3> QED
      BY <2>6, <3>1
  <2>12. Admin \/ Tick \/ Idle \/ UNCHANGED vars => UNCHANGED req
    BY DEF Admin, AdminSetEnabled, AdminCreate, AdminDelete, AdminBind, AdminReadAccount,
       AdminReadProxy, AdminWrite, Tick, Idle, vars
  <2> QED
    BY <2>3, <2>4, <2>5, <2>7, <2>8, <2>9, <2>10, <2>11, <2>12 DEF Next, Start, Step
<1> QED
  BY <1>1, <1>2, WellFormedAlways, PTL DEF Spec

\* A request stops looking for a route only when each account in rotation cannot
\* serve it, has answered it, or has failed it over every proxy of its own now in
\* rotation and directly, however rows and bindings changed between its attempts.
THEOREM FailoverIsComplete == Spec => GivesUpOnlyWhenExhausted
<1> DEFINE Ends(r) == req[r].pc = "select" /\ req'[r].pc # "select" /\ req'[r].pc # "send"
           Exhausted(r) == \A a \in RoutableAccounts : UsedUp(req[r], a)
<1>1. WellFormed /\ (\A r \in Requests : Excluded(req[r])) /\ [Next]_vars
        => [\A r \in Requests : Ends(r) => Exhausted(r)]_vars
  <2> SUFFICES ASSUME WellFormed, \A r \in Requests : Excluded(req[r]), Next,
                      NEW r \in Requests, Ends(r)
               PROVE  Exhausted(r)
    OBVIOUS
  <2>0. req \in [Requests -> Request] /\ live \subseteq Accounts
    BY DEF WellFormed, TypeOK
  <2>1. Candidates(req[r]) = {}
    <3>1. PICK g \in Requests : Start(g) \/ Step(g)
      <4>1. Admin \/ Tick \/ Idle => UNCHANGED req
        BY DEF Admin, AdminSetEnabled, AdminCreate, AdminDelete, AdminBind,
           AdminReadAccount, AdminReadProxy, AdminWrite, Tick, Idle, vars
      <4> QED
        BY <4>1 DEF Next
    <3>2. g = r
      <4>1. \E q : req' = [req EXCEPT ![g] = q]
        BY <3>1 DEF Start, Step, ResolvePinned, ResolveUnpinned, SelectRoute, NoRoute,
           FinalizeDeferred, ClientFails, TransportFails, Responds, RecordProxy
      <4> QED
        BY <2>0, <4>1
    <3>3. ASSUME NEW a \in Accounts, NEW e \in Egress, SelectRoute(r, a, e) PROVE FALSE
      BY <2>0, <3>3 DEF SelectRoute
    <3> QED
      BY <3>1, <3>2, <3>3 DEF Start, Step, ResolvePinned, ResolveUnpinned, NoRoute,
         FinalizeDeferred, ClientFails, TransportFails, Responds, RecordProxy
  <2>2. ASSUME NEW a \in RoutableAccounts
        PROVE  UsedUp(req[r], a)
    <3>1. a \in Accounts
      BY <2>0 DEF RoutableAccounts
    <3>2. CASE a \in req[r].exAcc
      BY <3>2 DEF Excluded, UsedUp
    <3>3. CASE EgressesOf(req[r], a) = {}
      <4> DEFINE open == {p \in Proxies : <<a, p>> \in bound /\ Routable(proxy[p], now)}
      <4>1. {p \in Proxies : /\ <<a, p>> \in bound /\ Routable(proxy[p], now)
                             /\ <<a, p>> \notin req[r].exRoute} = {}
        BY <3>3 DEF EgressesOf
      <4>2. <<a, Direct>> \in req[r].exRoute
        BY <3>3 DEF EgressesOf
      <4>3. \A e \in open \cup {Direct} : <<a, e>> \in req[r].exRoute
        BY <4>1, <4>2
      <4>4. \A e \in open \cup {Direct} : \E i \in DOMAIN req[r].tries :
               req[r].tries[i] = [acc |-> a, px |-> e, out |-> "transport"]
        BY <3>1, <4>3 DEF Excluded, Egress
      <4> QED
        BY <4>4 DEF UsedUp
    <3> QED
      BY <2>1, <3>2, <3>3 DEF Candidates
  <2> QED
    BY <2>2
<1> QED
  BY <1>1, WellFormedAlways, ExcludedAlways, PTL DEF Spec, GivesUpOnlyWhenExhausted


-----------------------------------------------------------------------------
(* A request has an end: what its being answered in time rests on. Every     *)
(* change of its state uses up one of a number of steps known in advance,    *)
(* and until it is answered there is a step for it to take.                  *)

Stage(pc) == CASE pc = "arrived" -> 4 [] pc = "select" -> 3 [] pc = "send" -> 2
               [] pc = "proxy" -> 1 [] pc = "done" -> 0

StepsLeft(q) == IF q.pc = "done" THEN 0 ELSE 4 * (MaxRetries - q.attempt) + Stage(q.pc)

LEMMA StepsLeftType ==
    ASSUME NEW q \in Request
    PROVE  StepsLeft(q) \in 0..(4 * (MaxRetries + 1))
<1>1. q.attempt \in 0..MaxRetries /\ Stage(q.pc) \in 0..4
  BY DEF Request, Stage
<1> QED
  BY <1>1 DEF StepsLeft

\* Going round the loop costs an attempt, which is worth more than all that is
\* gained by being back at its start.
LEMMA LeaveNearer ==
    ASSUME NEW q \in Request, q.pc \in {"select", "send", "proxy"},
           q.ans = "none" => q.attempt < MaxRetries
    PROVE  StepsLeft(Leave(q)) < 4 * (MaxRetries - q.attempt) + 1
<1>1. q.attempt \in 0..MaxRetries
  BY DEF Request
<1>2. CASE q.ans = "none"
  <2>1. Leave(q).attempt = q.attempt + 1 /\ Leave(q).pc \in {"select", "send"}
    BY <1>2 DEF Leave, Request
  <2> QED
    BY <1>1, <2>1 DEF StepsLeft, Stage
<1>3. CASE q.ans # "none"
  <2>1. Leave(q).pc = "done"
    BY <1>3 DEF Leave, Request
  <2> QED
    BY <1>1, <2>1 DEF StepsLeft
<1> QED
  BY <1>2, <1>3

LEMMA AfterAccountNearer ==
    ASSUME NEW q \in Request, q.pc \in {"select", "send"},
           q.ans = "none" => q.attempt < MaxRetries
    PROVE  StepsLeft(AfterAccount(q)) < StepsLeft(q)
<1>1. q.attempt \in 0..MaxRetries
  BY DEF Request
<1>2. StepsLeft(q) >= 4 * (MaxRetries - q.attempt) + 2
  BY <1>1 DEF StepsLeft, Stage
<1>3. CASE q.px = Direct
  <2>1. AfterAccount(q) = Leave(q)
    BY <1>3 DEF AfterAccount
  <2>2. StepsLeft(Leave(q)) \in Int /\ StepsLeft(q) \in Int
    <3>1. Leave(q).attempt \in Int /\ Leave(q).pc \in {"select", "send", "done"}
      BY <1>1 DEF Leave, Request
    <3> QED
      BY <1>1, <3>1 DEF StepsLeft, Stage
  <2> QED
    BY <1>1, <1>2, <2>1, <2>2, LeaveNearer
<1>4. CASE q.px # Direct
  <2>1. AfterAccount(q).attempt = q.attempt /\ AfterAccount(q).pc = "proxy"
    BY <1>4 DEF AfterAccount, Request
  <2>2. StepsLeft(AfterAccount(q)) = 4 * (MaxRetries - q.attempt) + 1
    BY <2>1 DEF StepsLeft, Stage
  <2> QED
    BY <1>1, <1>2, <2>2, StepsLeftType
<1> QED
  BY <1>3, <1>4

\* A request's own steps bring it nearer to its end.
LEMMA StepsAreUsedUp ==
    ASSUME WellFormed, NEW r \in Requests, Start(r) \/ Step(r)
    PROVE  StepsLeft(req'[r]) < StepsLeft(req[r])
<1>0. /\ req \in [Requests -> Request] /\ req[r] \in Request /\ Sound(req[r])
      /\ req[r].attempt \in 0..MaxRetries
  BY DEF WellFormed, TypeOK, Request
<1> USE <1>0
<1> DEFINE q == req[r]
<1>1. ASSUME NEW a \in Accounts, NEW e \in Egress, ResolvePinned(r, a, e)
      PROVE  StepsLeft(req'[r]) < StepsLeft(q)
  <2>1. q.pc = "arrived" /\ req'[r].attempt = q.attempt /\ req'[r].pc \in {"send", "done"}
    BY <1>1 DEF ResolvePinned, Request
  <2> QED
    BY <2>1 DEF StepsLeft, Stage
<1>2. ASSUME NEW needsKey \in BOOLEAN, ResolveUnpinned(r, needsKey)
      PROVE  StepsLeft(req'[r]) < StepsLeft(q)
  <2>1. q.pc = "arrived" /\ req'[r].attempt = q.attempt /\ req'[r].pc = "select"
    BY <1>2 DEF ResolveUnpinned, Request
  <2> QED
    BY <2>1 DEF StepsLeft, Stage
<1>3. ASSUME NEW a \in Accounts, NEW e \in Egress, SelectRoute(r, a, e)
      PROVE  StepsLeft(req'[r]) < StepsLeft(q)
  <2>1. q.pc = "select" /\ req'[r].attempt = q.attempt /\ req'[r].pc = "send"
    BY <1>3 DEF SelectRoute, Request
  <2> QED
    BY <2>1 DEF StepsLeft, Stage
<1>4. ASSUME NoRoute(r) \/ ClientFails(r)
      PROVE  StepsLeft(req'[r]) < StepsLeft(q)
  <2>1. q.pc \in {"select", "send"} /\ req'[r].attempt = q.attempt /\ req'[r].pc = "done"
    BY <1>4 DEF NoRoute, ClientFails, Request
  <2> QED
    BY <2>1 DEF StepsLeft, Stage
<1>5. ASSUME FinalizeDeferred(r) PROVE StepsLeft(req'[r]) < StepsLeft(q)
  <2>1. PICK t \in q.deferred :
          req' = [req EXCEPT ![r] = AfterAccount(
                    [q EXCEPT !.acc = t.acc, !.px = t.px, !.out = t.out, !.deferred = {},
                              !.ans = "response", !.log = Append(q.log, t)])]
    BY <1>5 DEF FinalizeDeferred
  <2> DEFINE p == [q EXCEPT !.acc = t.acc, !.px = t.px, !.out = t.out, !.deferred = {},
                            !.ans = "response", !.log = Append(q.log, t)]
  <2>2. p \in Request /\ p.pc = "select" /\ p.attempt = q.attempt /\ p.ans = "response"
    <3>1. t \in Try /\ q.log \in Seq(Try) /\ q.deferred \in SUBSET Try /\ q.pc = "select"
      BY <1>5 DEF FinalizeDeferred, Request
    <3>2. /\ t.acc \in Accounts \cup {NoAccount} /\ t.px \in Egress /\ t.out \in Outcome
          /\ Append(q.log, t) \in Seq(Try)
      BY <3>1 DEF Try
    <3> QED
      BY <3>1, <3>2 DEF Request, Answer
  <2>3. StepsLeft(p) = StepsLeft(q)
    BY <1>5, <2>2 DEF StepsLeft, FinalizeDeferred
  <2>4. req'[r] = AfterAccount(p)
    BY <2>1
  <2> HIDE DEF p
  <2> QED
    BY <2>2, <2>3, <2>4, AfterAccountNearer
<1>6. ASSUME TransportFails(r) PROVE StepsLeft(req'[r]) < StepsLeft(q)
  <2> DEFINE t == [acc |-> q.acc, px |-> q.px, out |-> "transport"]
             p == [q EXCEPT !.out = "transport", !.tries = Append(q.tries, t),
                            !.exRoute = IF MayRetry(q) /\ ~q.pinned
                                        THEN q.exRoute \cup {<<q.acc, q.px>>}
                                        ELSE q.exRoute,
                            !.ans = IF MayRetry(q) THEN "none" ELSE "transport_error"]
  <2>1. q.pc = "send" /\ q.acc \in Accounts /\ t \in Try
    BY <1>6 DEF TransportFails, Sound, Request, Try, Outcome
  <2>2. p \in Request
    <3>1. Append(q.tries, t) \in Seq(Try) /\ <<q.acc, q.px>> \in Accounts \X Egress
      BY <2>1 DEF Request
    <3> HIDE DEF t
    <3> QED
      BY <3>1 DEF Request, Outcome, Answer
  <2>3. p.pc = "send" /\ p.attempt = q.attempt /\ (p.ans = "none" => MayRetry(q))
    BY <2>1 DEF Request
  <2>4. req'[r] = AfterAccount(p)
    BY <1>6 DEF TransportFails
  <2> HIDE DEF p
  <2>5. StepsLeft(p) = StepsLeft(q)
    BY <2>1, <2>3 DEF StepsLeft
  <2> QED
    BY <2>2, <2>3, <2>4, <2>5, AfterAccountNearer DEF MayRetry
<1>7. ASSUME NEW out \in Response, Responds(r, out) PROVE StepsLeft(req'[r]) < StepsLeft(q)
  <2> DEFINE t == [acc |-> q.acc, px |-> q.px, out |-> out]
             retry == Retryable(out) /\ MayRetry(q)
             p == IF retry
                  THEN [q EXCEPT !.out = out, !.tries = Append(q.tries, t), !.deferred = {t},
                                 !.exAcc = IF q.pinned THEN q.exAcc ELSE q.exAcc \cup {q.acc}]
                  ELSE [q EXCEPT !.out = out, !.tries = Append(q.tries, t),
                                 !.log = Append(q.log, t), !.ans = "response"]
  <2>1. q.pc = "send" /\ q.acc \in Accounts /\ t \in Try /\ out \in Outcome
    BY <1>7 DEF Responds, Sound, Request, Try, Outcome
  <2>2. p \in Request
    <3>1. Append(q.tries, t) \in Seq(Try) /\ Append(q.log, t) \in Seq(Try)
      BY <2>1 DEF Request
    <3> HIDE DEF t, retry
    <3> QED
      BY <2>1, <3>1 DEF Request, Answer
  <2>3. p.pc = "send" /\ p.attempt = q.attempt /\ (p.ans = "none" => MayRetry(q))
    BY <2>1 DEF Request
  <2>4. req'[r] = AfterAccount(p)
    BY <1>7 DEF Responds
  <2> HIDE DEF p
  <2>5. StepsLeft(p) = StepsLeft(q)
    BY <2>1, <2>3 DEF StepsLeft
  <2> QED
    BY <2>2, <2>3, <2>4, <2>5, AfterAccountNearer DEF MayRetry
<1>8. ASSUME RecordProxy(r) PROVE StepsLeft(req'[r]) < StepsLeft(q)
  <2>1. q.pc = "proxy" /\ req'[r] = Leave(q) /\ (q.ans = "none" => q.attempt < MaxRetries)
    BY <1>8 DEF RecordProxy, Sound
  <2>2. StepsLeft(q) = 4 * (MaxRetries - q.attempt) + 1
    BY <2>1 DEF StepsLeft, Stage
  <2> QED
    BY <2>1, <2>2, LeaveNearer
<1> QED
  BY <1>1, <1>2, <1>3, <1>4, <1>5, <1>6, <1>7, <1>8 DEF Start, Step

\* Whoever moves a request, it is nearer to its end: proxy_request changes its state
\* at most 4 (MaxRetries + 1) times, whatever upstreams, console and other requests do.
THEOREM EveryStepCounts ==
    Spec => [][\A r \in Requests :
                 req'[r] # req[r] => StepsLeft(req'[r]) < StepsLeft(req[r])]_vars
<1>1. WellFormed /\ [Next]_vars
        => [\A r \in Requests : req'[r] # req[r] => StepsLeft(req'[r]) < StepsLeft(req[r])]_vars
  <2> SUFFICES ASSUME WellFormed, Next, NEW r \in Requests, req'[r] # req[r]
               PROVE  StepsLeft(req'[r]) < StepsLeft(req[r])
    OBVIOUS
  <2>1. PICK g \in Requests : Start(g) \/ Step(g)
    <3>1. Admin \/ Tick \/ Idle => UNCHANGED req
      BY DEF Admin, AdminSetEnabled, AdminCreate, AdminDelete, AdminBind,
         AdminReadAccount, AdminReadProxy, AdminWrite, Tick, Idle, vars
    <3> QED
      BY <3>1 DEF Next
  <2>2. g = r
    <3>1. \E q : req' = [req EXCEPT ![g] = q]
      BY <2>1 DEF Start, Step, ResolvePinned, ResolveUnpinned, SelectRoute, NoRoute,
         FinalizeDeferred, ClientFails, TransportFails, Responds, RecordProxy
    <3> QED
      BY <3>1 DEF WellFormed, TypeOK
  <2> QED
    BY <2>1, <2>2, StepsAreUsedUp
<1> QED
  BY <1>1, WellFormedAlways, PTL DEF Spec

\* The guards of the steps of a request, one of which is to hold. A selection
\* needs an account no worse than any other, so there has to be a best one.
Able(r) ==
    \/ /\ req[r].pc = "select"
       /\ \/ \E a \in Accounts, e \in Egress : a \in Preferred(req[r]) /\ e \in EgressesOf(req[r], a)
          \/ Candidates(req[r]) = {}
    \/ req[r].pc \in {"send", "proxy"}

LEMMA PenaltyType ==
    ASSUME NEW row \in Row, NEW t \in Nat
    PROVE  EffectiveFailures(row, t) \in Nat
<1> DEFINE elapsed == IF row.last_failure = Never THEN 0 ELSE t - row.last_failure
<1>1. elapsed \in Int /\ row.failures \in Nat
  BY DEF Row, Timestamp, Never
<1> HIDE DEF elapsed
<1>2. ASSUME elapsed < DecayWindow
      PROVE  (row.failures * (DecayWindow - elapsed) + DecayWindow - 1) \div DecayWindow \in Nat
  <2>1. DecayWindow - elapsed \in Nat
    BY <1>1, <1>2
  <2>2. \A x, y \in Nat : x * y \in Nat
    OBVIOUS
  <2>3. row.failures * (DecayWindow - elapsed) \in Nat
    BY <1>1, <2>1, <2>2
  <2>4. \A x \in Nat, d \in Nat \ {0} : x \div d \in Nat
    OBVIOUS
  <2>5. row.failures * (DecayWindow - elapsed) + DecayWindow - 1 \in Nat
    BY <2>3
  <2> QED
    BY <2>4, <2>5
<1>3. EffectiveFailures(row, t) =
        IF elapsed >= DecayWindow THEN 0
        ELSE (row.failures * (DecayWindow - elapsed) + DecayWindow - 1) \div DecayWindow
  BY DEF EffectiveFailures, elapsed
<1> QED
  BY <1>1, <1>2, <1>3

\* A set of numbers has a least one.
LEMMA LeastExists ==
    ASSUME NEW S \in SUBSET Nat, S # {}
    PROVE  \E x \in S : \A y \in S : x =< y
<1>1. IsWellFoundedOn(OpToRel(<, Nat), Nat)
    BY NatLessThanWellFounded, Zenon
<1>2. PICK x \in S : \A y \in S : ~ (<<y, x>> \in OpToRel(<, Nat))
    BY <1>1, WFMin, Zenon
<1>3. \A y \in S : ~ (y < x)
    BY <1>2 DEF OpToRel
<1> QED BY <1>3

\* Among candidates there is one the scheduler prefers.
LEMMA SomePreferred ==
    ASSUME TypeOK, NEW q, Candidates(q) # {}
    PROVE  \E a \in Candidates(q) : a \in Preferred(q)
<1> DEFINE penalty(a) == EffectiveFailures(account[a], now)
           penalties == {penalty(a) : a \in Candidates(q)}
<1>1. Candidates(q) \subseteq Accounts
  BY DEF Candidates, RoutableAccounts, TypeOK
<1>2. \A a \in Candidates(q) : penalty(a) \in Nat
  BY <1>1, PenaltyType DEF TypeOK
<1> HIDE DEF penalty
<1>3. penalties \subseteq Nat /\ penalties # {}
  BY <1>2
<1>4. PICK least \in penalties : \A n \in penalties : least =< n
  BY <1>3, LeastExists
<1>5. PICK a \in Candidates(q) : penalty(a) = least
  OBVIOUS
<1>6. \A b \in Candidates(q) : penalty(a) =< penalty(b)
  BY <1>4, <1>5
<1> QED
  BY <1>5, <1>6 DEF Preferred, penalty

\* As long as a request has not been answered its guards let it go on: whatever
\* the rows say, the scheduler finds a route or the request is at its end.
THEOREM NeverStuck ==
    Spec => [](\A r \in Requests : req[r].pc \notin {"arrived", "done"} => Able(r))
<1>1. WellFormed => \A r \in Requests : req[r].pc \notin {"arrived", "done"} => Able(r)
  <2> SUFFICES ASSUME WellFormed, NEW r \in Requests, req[r].pc \notin {"arrived", "done"}
               PROVE  Able(r)
    OBVIOUS
  <2>1. req[r].pc \in {"select", "send", "proxy"} /\ TypeOK
    BY DEF WellFormed, TypeOK, Request
  <2>2. ASSUME Candidates(req[r]) # {}
        PROVE  \E a \in Accounts, e \in Egress : a \in Preferred(req[r]) /\ e \in EgressesOf(req[r], a)
    <3>1. PICK a \in Candidates(req[r]) : a \in Preferred(req[r])
      BY <2>1, <2>2, SomePreferred
    <3>2. a \in Accounts /\ EgressesOf(req[r], a) # {}
      BY <2>1 DEF Candidates, RoutableAccounts, TypeOK
    <3>3. EgressesOf(req[r], a) \subseteq Egress
      BY DEF EgressesOf, Egress
    <3> QED
      BY <3>1, <3>2, <3>3
  <2> QED
    BY <2>1, <2>2 DEF Able
<1> QED
  BY <1>1, WellFormedAlways, PTL

=============================================================================
