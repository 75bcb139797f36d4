---------------------------- MODULE AsyncJobsProofs ----------------------------
(***************************************************************************)
(* The asynchronous jobs, for any number of jobs, submissions, pollers,     *)
(* restarts and any capacity of queue and batch: AsyncJobs implements       *)
(* JobLifecycle (the mapping is the identity on upstream and record), its   *)
(* rows and lists have their types, and no accepted job is forgotten.       *)
(***************************************************************************)
EXTENDS AsyncJobs, SequenceTheorems, TLAPS

States == {"pending", "running"} \cup {"completed", "failed", "cancelled"}

\* The part of the type invariant the refinement needs.
Shapes ==
    /\ upstream \in [Jobs -> {Untracked, "running"} \cup Terminal]
    /\ record \in [Jobs -> {Untracked} \cup States]
    /\ poller = [w \in Pollers |-> poller[w]]
    /\ \A w \in Pollers :
         /\ poller[w] = [batch |-> poller[w].batch, write |-> poller[w].write]
         /\ poller[w].write \in {"none", "defer"} \cup States
    /\ owner \in [Jobs -> SUBSET Accounts]
    /\ sub \in [Submissions -> Submission] /\ hook \subseteq Hook

\* The strengthening: whatever is on its way to a row was true of the provider
\* when it was learned and, an ended job staying ended, still is.
Faithful ==
    /\ \A s \in Submissions : \A j \in sub[s].job : upstream[j] # Untracked
    /\ \A j \in Jobs : record[j] # Untracked => upstream[j] # Untracked
    /\ \A j \in Jobs : owner[j] # {} => record[j] # Untracked
    /\ \A w \in Pollers : poller[w].write # "none" => Head(poller[w].batch) \in Jobs
    /\ \A w \in Pollers : poller[w].write \in Terminal =>
         upstream[Head(poller[w].batch)] = poller[w].write
    /\ \A h \in hook : upstream[h.job] = h.state

IInv == Shapes /\ Faithful

USE AsyncJobsAssumption DEF Terminal, Open, Lifecycle!Terminal, Lifecycle!Open, States

\* Writing a row whose update is faithful is a step of the abstract life, and
\* touches no other row.
LEMMA UpdateRowRefines ==
    ASSUME Shapes, NEW j \in Jobs, NEW write \in {"defer"} \cup States,
           write \in Terminal => upstream[j] = write,
           UpdateRow(j, write), UNCHANGED upstream
    PROVE  /\ [Lifecycle!Next]_(Lifecycle!vars)
           /\ record' \in [Jobs -> {Untracked} \cup States]
           /\ \A k \in Jobs : record[k] # Untracked <=> record'[k] # Untracked
<1> USE DEF Shapes
<1>1. CASE record[j] \in Open
  <2> DEFINE new == IF write = "defer" THEN "running" ELSE write
  <2>1. record' = [record EXCEPT ![j] = new] /\ new \in States
    BY <1>1 DEF UpdateRow
  <2>2. new \in Open => Lifecycle!Progress(j)
    BY <1>1, <2>1 DEF Lifecycle!Progress
  <2>3. new \in Terminal => Lifecycle!Settle(j)
    BY <1>1, <2>1 DEF Lifecycle!Settle
  <2>4. Lifecycle!Next
    BY <2>1, <2>2, <2>3 DEF Lifecycle!Next
  <2> QED
    BY <1>1, <2>1, <2>4
<1>2. CASE record[j] \notin Open
  BY <1>2 DEF UpdateRow, Lifecycle!vars
<1> QED
  BY <1>1, <1>2

\* The jobs known from an earlier run have ended, and their rows are open or
\* follow them.
LEMMA InitFaithful == Init => IInv /\ Lifecycle!Init
<1> SUFFICES ASSUME Init PROVE IInv /\ Lifecycle!Init
  OBVIOUS
<1>1. PICK past \in Pasts, a \in Accounts : Init!(past, a)
  BY DEF Init
<1> DEFINE known == UNION {past.made[s] : s \in Submissions}
<1>2. past.made \in [Submissions -> {{}} \cup {{j} : j \in Jobs}]
  BY PastsAssumption DEF Past
<1>3. /\ upstream = [j \in Jobs |-> IF j \in known THEN "completed" ELSE Untracked]
      /\ record = [j \in Jobs |-> IF j \notin known THEN Untracked
                                  ELSE IF j \in past.open THEN "pending" ELSE "completed"]
      /\ owner = [j \in Jobs |-> IF j \in known \ past.orphaned THEN {a} ELSE {}]
      /\ hook = {} /\ poller = [w \in Pollers |-> IdlePoller]
  BY <1>1
<1>4. sub = [s \in Submissions |->
              IF past.made[s] = {} THEN [pc |-> "idle", job |-> {}, acc |-> {}]
              ELSE [pc |-> "done", job |-> past.made[s], acc |-> {a}]]
  BY <1>1
<1>5. sub \in [Submissions -> Submission]
  BY <1>2, <1>4 DEF Submission
<1>6. \A s \in Submissions : \A j \in sub[s].job : j \in Jobs /\ j \in known
  BY <1>2, <1>4
<1> HIDE DEF known
<1>7. Shapes
  BY <1>3, <1>5 DEF Shapes, IdlePoller
<1>8. Faithful
  BY <1>3, <1>6 DEF Faithful, IdlePoller
<1>9. Lifecycle!Init
  BY <1>3 DEF Lifecycle!Init
<1> QED
  BY <1>7, <1>8, <1>9 DEF IInv

Places == {"idle", "accepted", "unknown", "queued", "writing", "direct", "logged",
           "done", "lost"}

\* Moving a submission on changes nothing but its place.
LEMMA MovingOn ==
    ASSUME NEW f \in [Submissions -> Submission], NEW s, NEW pc \in Places
    PROVE  /\ [f EXCEPT ![s].pc = pc] \in [Submissions -> Submission]
           /\ \A t \in Submissions : /\ [f EXCEPT ![s].pc = pc][t].job = f[t].job
                                     /\ [f EXCEPT ![s].pc = pc][t].acc = f[t].acc
                                     /\ [f EXCEPT ![s].pc = pc][t].pc = IF t = s THEN pc ELSE f[t].pc
<1> DEFINE g == [f EXCEPT ![s].pc = pc]
<1>1. \A t \in Submissions : g[t] = IF t = s THEN [f[t] EXCEPT !.pc = pc] ELSE f[t]
  OBVIOUS
<1>2. ASSUME NEW x \in Submission
      PROVE  /\ [x EXCEPT !.pc = pc] \in Submission
             /\ [x EXCEPT !.pc = pc].job = x.job /\ [x EXCEPT !.pc = pc].acc = x.acc
             /\ [x EXCEPT !.pc = pc].pc = pc
  BY DEF Submission, Places
<1>3. \A t \in Submissions : f[t] \in Submission
  OBVIOUS
<1>4. \A t \in Submissions : /\ g[t] \in Submission /\ g[t].job = f[t].job /\ g[t].acc = f[t].acc
                             /\ g[t].pc = IF t = s THEN pc ELSE f[t].pc
  BY <1>1, <1>2, <1>3
<1>5. g = [t \in Submissions |-> g[t]]
  OBVIOUS
<1> HIDE DEF g
<1>6. g \in [Submissions -> Submission]
  BY <1>4, <1>5
<1> QED
  BY <1>4, <1>6 DEF g

\* What each step has to keep and to map to.
Goal == IInv' /\ [Lifecycle!Next]_(Lifecycle!vars)

\* Submission: from the provider's answer to the row.
LEMMA SubmissionSteps ==
    ASSUME IInv, NEW s \in Submissions,
           Persist(s) \/ \E j \in Jobs, a \in Accounts : Accept(s, j, a)
    PROVE  Goal
<1> USE DEF IInv, Shapes, Goal
<1>1. ASSUME NEW j \in Jobs, NEW a \in Accounts, Accept(s, j, a) PROVE Goal
  <2>1. /\ sub' \in [Submissions -> Submission]
        /\ upstream' \in [Jobs -> {Untracked, "running"} \cup Terminal]
    BY <1>1 DEF Accept, Submission
  <2>2. \A k \in Jobs : /\ upstream[k] # Untracked => upstream'[k] # Untracked
                        /\ upstream[k] \in Terminal => upstream'[k] = upstream[k]
    BY <1>1 DEF Accept
  <2>3. Faithful'
    BY <1>1, <2>1, <2>2 DEF Accept, Faithful, table, Hook, Submission
  <2>4. CASE upstream[j] = Untracked
    <3>1. Lifecycle!Upstream(j)
      BY <1>1, <2>4 DEF Accept, Lifecycle!Upstream, table
    <3> QED
      BY <1>1, <2>1, <2>3, <3>1 DEF Accept, Lifecycle!Next, table
  <2>5. CASE upstream[j] = "running"
    <3>1. UNCHANGED Lifecycle!vars
      BY <1>1, <2>5 DEF Accept, Lifecycle!vars, table
    <3> QED
      BY <1>1, <2>1, <2>3, <3>1 DEF Accept, table
  <2> QED
    BY <1>1, <2>4, <2>5 DEF Accept
<1>2. CASE LookUp(s) \/ Enqueue(s) \/ InsertLog(s)
  <2>1. /\ sub' \in [Submissions -> Submission]
        /\ \A t \in Submissions : sub'[t].job = sub[t].job
        /\ UNCHANGED <<upstream, record, owner, poller, hook>>
    <3>1. PICK pc \in Places : sub' = [sub EXCEPT ![s].pc = pc]
      BY <1>2 DEF LookUp, Enqueue, InsertLog, Places
    <3>2. UNCHANGED <<upstream, record, owner, poller, hook>>
      BY <1>2 DEF LookUp, Enqueue, InsertLog, table
    <3> QED
      BY <3>1, <3>2, MovingOn
  <2> QED
    BY <2>1 DEF Faithful, Lifecycle!vars
<1>3. CASE InsertJob(s)
  <2>1. PICK j \in sub[s].job :
         IF record[j] = Untracked /\ sub[s].acc \subseteq live
         THEN /\ record' = [record EXCEPT ![j] = "pending"]
              /\ owner' = [owner EXCEPT ![j] = sub[s].acc]
              /\ due' = Append(due, j)
              /\ sub' = [sub EXCEPT ![s].pc = "done"]
         ELSE /\ sub' = [sub EXCEPT ![s].pc = IF record[j] = Untracked THEN "lost" ELSE "done"]
              /\ UNCHANGED table
    BY <1>3 DEF InsertJob
  <2>2. /\ j \in Jobs /\ sub[s].acc \in SUBSET Accounts
        /\ sub' \in [Submissions -> Submission]
        /\ \A t \in Submissions : sub'[t].job = sub[t].job
        /\ UNCHANGED <<upstream, poller, hook>>
    <3>1. PICK pc \in Places : sub' = [sub EXCEPT ![s].pc = pc]
      BY <2>1 DEF Places
    <3>2. UNCHANGED <<upstream, poller, hook>>
      BY <1>3 DEF InsertJob
    <3>3. sub[s] \in Submission
      OBVIOUS
    <3>4. j \in Jobs /\ sub[s].acc \in SUBSET Accounts
      BY <3>3 DEF Submission
    <3> QED
      BY <3>1, <3>2, <3>4, MovingOn
  <2>3. upstream[j] # Untracked
    BY DEF Faithful
  <2>4. CASE record[j] = Untracked /\ sub[s].acc \subseteq live
    <3>1. Lifecycle!Track(j)
      BY <2>1, <2>2, <2>3, <2>4 DEF Lifecycle!Track
    <3>2. Faithful'
      BY <2>1, <2>2, <2>3, <2>4 DEF Faithful
    <3> QED
      BY <2>1, <2>2, <2>4, <3>1, <3>2 DEF Lifecycle!Next
  <2>5. CASE ~(record[j] = Untracked /\ sub[s].acc \subseteq live)
    <3>1. UNCHANGED table
      BY <2>1, <2>5
    <3> QED
      BY <2>2, <3>1 DEF table, Faithful, Lifecycle!vars
  <2> QED
    BY <2>4, <2>5
<1> QED
  BY <1>1, <1>2, <1>3 DEF Persist

\* Settlement: the pollers and the webhook.
LEMMA SettlementSteps ==
    ASSUME IInv,
           \/ \E w \in Pollers : Scan(w) \/ Apply(w)
                                 \/ \E j \in Jobs, x \in PollAnswer : Poll(w, j, x)
           \/ \E j \in Jobs : BecomesDue(j) \/ HookFinds(j)
           \/ \E h \in hook : HookSettles(h)
    PROVE  Goal
<1> USE DEF IInv, Goal
<1>1. ASSUME NEW w \in Pollers, Scan(w) PROVE Goal
  <2>1. poller[w].write = "none"
    BY <1>1 DEF Scan, IdlePoller
  <2>2. /\ UNCHANGED <<upstream, record, owner, sub, hook>>
        /\ \A v \in Pollers : v # w => poller'[v] = poller[v]
        /\ poller' = [v \in Pollers |-> poller'[v]]
        /\ poller'[w] = [batch |-> poller'[w].batch, write |-> "none"]
    BY <1>1, <2>1 DEF Scan, Shapes, table, memory
  <2>3. Shapes'
    BY <2>2 DEF Shapes
  <2>4. Faithful'
    BY <2>2 DEF Faithful
  <2> QED
    BY <2>2, <2>3, <2>4 DEF Lifecycle!vars
<1>2. ASSUME NEW w \in Pollers, NEW j \in Jobs, NEW x \in PollAnswer, Poll(w, j, x)
      PROVE  Goal
  <2>1. /\ UNCHANGED <<upstream, record, owner, sub, hook>>
        /\ \A v \in Pollers : v # w => poller'[v] = poller[v]
        /\ poller' = [v \in Pollers |-> poller'[v]]
        /\ poller'[w] = [batch |-> poller'[w].batch, write |-> poller'[w].write]
    BY <1>2 DEF Poll, Shapes, table, memory
  <2>2. \/ poller'[w].write = "none"
        \/ poller'[w].write = "defer" /\ poller'[w].batch = poller[w].batch
        \/ /\ owner[j] # {} /\ poller'[w].batch = poller[w].batch
           /\ poller'[w].write = WriteFor(j, x)
    BY <1>2 DEF Poll, Shapes
  <2>3. j = Head(poller[w].batch)
    BY <1>2 DEF Poll
  <2>4. owner[j] # {} =>
          /\ WriteFor(j, x) \in {"defer"} \cup States
          /\ WriteFor(j, x) \in Terminal => upstream[j] = WriteFor(j, x)
    BY DEF WriteFor, Shapes, Faithful
  <2>5. /\ poller'[w].write \in {"none", "defer"} \cup States
        /\ poller'[w].write # "none" => Head(poller'[w].batch) = j
        /\ poller'[w].write \in Terminal => upstream[j] = poller'[w].write
    BY <2>2, <2>3, <2>4
  <2> QED
    BY <2>1, <2>5 DEF Shapes, Faithful, Lifecycle!vars
<1>3. ASSUME NEW w \in Pollers, Apply(w) PROVE Goal
  <2> DEFINE j == Head(poller[w].batch)
  <2>1. /\ j \in Jobs /\ poller[w].write \in {"defer"} \cup States
        /\ poller[w].write \in Terminal => upstream[j] = poller[w].write
    BY <1>3 DEF Apply, Shapes, Faithful
  <2>2. /\ UpdateRow(j, poller[w].write) /\ UNCHANGED <<upstream, owner, sub, hook>>
        /\ \A v \in Pollers : v # w => poller'[v] = poller[v]
        /\ poller' = [v \in Pollers |-> poller'[v]]
        /\ poller'[w] = [batch |-> poller'[w].batch, write |-> "none"]
    BY <1>3 DEF Apply, Shapes, memory
  <2> HIDE DEF j
  <2>3. /\ [Lifecycle!Next]_(Lifecycle!vars)
        /\ record' \in [Jobs -> {Untracked} \cup States]
        /\ \A k \in Jobs : record[k] # Untracked <=> record'[k] # Untracked
    BY <2>1, <2>2, UpdateRowRefines
  <2> QED
    BY <2>2, <2>3 DEF Shapes, Faithful
<1>4. ASSUME NEW j \in Jobs, BecomesDue(j) PROVE Goal
  BY <1>4 DEF BecomesDue, memory, Shapes, Faithful, Lifecycle!vars
<1>5. ASSUME NEW j \in Jobs, HookFinds(j) PROVE Goal
  BY <1>5 DEF HookFinds, table, memory, Hook, Shapes, Faithful, Lifecycle!vars
<1>6. ASSUME NEW h \in hook, HookSettles(h) PROVE Goal
  <2>1. /\ h.job \in Jobs /\ h.state \in Terminal /\ upstream[h.job] = h.state
        /\ UpdateRow(h.job, h.state) /\ UNCHANGED <<upstream, owner, sub, poller>>
        /\ hook' \subseteq hook
    BY <1>6 DEF HookSettles, memory, Shapes, Faithful, Hook
  <2>2. /\ [Lifecycle!Next]_(Lifecycle!vars)
        /\ record' \in [Jobs -> {Untracked} \cup States]
        /\ \A k \in Jobs : record[k] # Untracked <=> record'[k] # Untracked
    BY <2>1, UpdateRowRefines
  <2> QED
    BY <2>1, <2>2 DEF Shapes, Faithful
<1> QED
  BY <1>1, <1>2, <1>3, <1>4, <1>5, <1>6

\* The provider, the console, the writer's queue and the process.
LEMMA OtherSteps ==
    ASSUME IInv,
           \/ Receive \/ Crash \/ Idle
           \/ \E j \in Jobs, t \in Terminal : UpstreamEnds(j, t)
           \/ \E a \in Accounts : DeleteAccount(a)
           \/ UNCHANGED vars
    PROVE  Goal
<1> USE DEF IInv, Shapes, Goal
<1>1. CASE Receive
  <2>1. /\ sub' \in [Submissions -> Submission]
        /\ \A s \in Submissions : sub'[s].job = sub[s].job
        /\ UNCHANGED <<upstream, record, owner, poller, hook>>
    <3>1. ASSUME NEW s, sub' = [sub EXCEPT ![s].pc = "writing"]
          PROVE  /\ sub' \in [Submissions -> Submission]
                 /\ \A t \in Submissions : sub'[t].job = sub[t].job
      <4>1. "writing" \in Places
        BY DEF Places
      <4> QED
        BY <3>1, <4>1, MovingOn
    <3>2. /\ sub' = [sub EXCEPT ![Head(queue)].pc = "writing"]
          /\ UNCHANGED <<upstream, record, owner, poller, hook>>
      BY <1>1 DEF Receive, table
    <3> QED
      BY <3>1, <3>2
  <2> QED
    BY <2>1 DEF Faithful, Lifecycle!vars
<1>2. CASE Crash
  <2>1. /\ sub' \in [Submissions -> Submission]
        /\ \A s \in Submissions : sub'[s].job = sub[s].job
        /\ poller' = [w \in Pollers |-> IdlePoller] /\ hook' = {}
        /\ UNCHANGED <<upstream, record, owner>>
    <3>1. ASSUME NEW t \in Submissions
          PROVE  sub'[t] \in Submission /\ sub'[t].job = sub[t].job
      <4>1. sub[t] \in Submission
        OBVIOUS
      <4>2. sub'[t] = IF sub[t].pc \in {"idle", "done"} THEN sub[t]
                      ELSE [sub[t] EXCEPT !.pc = "lost"]
        BY <1>2 DEF Crash
      <4> QED
        BY <4>1, <4>2 DEF Submission
    <3>2. sub' = [t \in Submissions |-> sub'[t]]
      BY <1>2 DEF Crash
    <3>3. /\ poller' = [w \in Pollers |-> IdlePoller] /\ hook' = {}
          /\ UNCHANGED <<upstream, record, owner>>
      BY <1>2 DEF Crash, table
    <3> QED
      BY <3>1, <3>2, <3>3
  <2> QED
    BY <2>1 DEF Faithful, IdlePoller, Lifecycle!vars
<1>3. ASSUME NEW j \in Jobs, NEW t \in Terminal, UpstreamEnds(j, t) PROVE Goal
  <2>1. Lifecycle!Upstream(j)
    BY <1>3 DEF UpstreamEnds, Lifecycle!Upstream, table
  <2>2. /\ upstream' \in [Jobs -> {Untracked, "running"} \cup Terminal]
        /\ UNCHANGED <<record, owner, sub, poller, hook>>
    BY <1>3 DEF UpstreamEnds, table, memory
  <2>3. Faithful'
    <3>0. \A k \in Jobs : /\ upstream[k] # Untracked => upstream'[k] # Untracked
                          /\ upstream[k] \in Terminal => upstream'[k] = upstream[k]
      BY <1>3 DEF UpstreamEnds
    <3>1. ASSUME NEW s \in Submissions, NEW k \in sub[s].job PROVE upstream'[k] # Untracked
      <4>1. k \in Jobs
        BY DEF Submission
      <4> QED
        BY <4>1, <3>0 DEF Faithful
    <3>2. ASSUME NEW w \in Pollers, poller[w].write \in Terminal
          PROVE  upstream'[Head(poller[w].batch)] = poller[w].write
      BY <3>0, <3>2 DEF Faithful
    <3>3. ASSUME NEW h \in hook PROVE upstream'[h.job] = h.state
      <4>1. h.job \in Jobs /\ h.state \in Terminal /\ upstream[h.job] = h.state
        BY DEF Hook, Faithful
      <4> QED
        BY <4>1, <3>0
    <3>4. ASSUME NEW k \in Jobs, record[k] # Untracked PROVE upstream'[k] # Untracked
      BY <3>0, <3>4 DEF Faithful
    <3> HIDE DEF Shapes
    <3> QED
      BY <2>2, <3>1, <3>2, <3>3, <3>4 DEF Faithful
  <2> QED
    BY <2>1, <2>2, <2>3 DEF Lifecycle!Next
<1>4. ASSUME NEW a \in Accounts, DeleteAccount(a) PROVE Goal
  BY <1>4 DEF DeleteAccount, memory, Faithful, Lifecycle!vars
<1>5. CASE UNCHANGED vars
  BY <1>5 DEF vars, table, memory, Faithful, Lifecycle!vars
<1> QED
  BY <1>1, <1>2, <1>3, <1>4, <1>5 DEF Idle

\* Whatever pollers, console runs, webhooks, account deletions and restarts do
\* at the same time, a job's row opens only for a job the provider accepted and
\* is settled once, in the state the provider ended it in.
THEOREM JobsAreSettledOnce == Spec => SettledOnce
<1>1. Init => IInv /\ Lifecycle!Init
  BY InitFaithful
<1>2. IInv /\ [Next]_vars => IInv' /\ [Lifecycle!Next]_(Lifecycle!vars)
  <2> SUFFICES ASSUME IInv, [Next]_vars PROVE Goal
    BY DEF Goal
  <2> QED
    BY SubmissionSteps, SettlementSteps, OtherSteps DEF Next, Reconcile
<1> QED
  BY <1>1, <1>2, PTL DEF Spec, SettledOnce, Lifecycle!Spec

-----------------------------------------------------------------------------
(* Sequences without repetition: taking an element out, putting one at the  *)
(* end, taking the first.                                                   *)

LEMMA Removal ==
    ASSUME NEW S, NEW s \in Seq(S), IsInjective(s), NEW e
    PROVE  /\ RemoveFirst(s, e) \in Seq(S) /\ IsInjective(RemoveFirst(s, e))
           /\ ToSet(RemoveFirst(s, e)) = ToSet(s) \ {e}
<1> DEFINE t == RemoveFirst(s, e)
<1>1. CASE ~\E i \in 1..Len(s) : s[i] = e
  <2>1. t = s
    BY <1>1 DEF RemoveFirst
  <2> QED
    BY <1>1, <2>1 DEF ToSet
<1>2. ASSUME NEW i \in 1..Len(s), s[i] = e
      PROVE  t \in Seq(S) /\ IsInjective(t) /\ ToSet(t) = ToSet(s) \ {e}
  <2>1. {k \in 1..Len(s) : s[k] = e} = {i}
    BY <1>2 DEF IsInjective
  <2>2. SelectInSeq(s, LAMBDA v : v = e) = i
    BY <2>1 DEF SelectInSeq, Min
  <2>3. t = SubSeq(s, 1, i - 1) \o SubSeq(s, i + 1, Len(s))
    BY <1>2, <2>2 DEF RemoveFirst, RemoveAt
  <2> DEFINE a == SubSeq(s, 1, i - 1)
             b == SubSeq(s, i + 1, Len(s))
  <2>4. /\ a \in Seq(S) /\ Len(a) = i - 1 /\ \A k \in 1..(i - 1) : a[k] = s[k]
        /\ b \in Seq(S) /\ Len(b) = Len(s) - i /\ \A k \in 1..(Len(s) - i) : b[k] = s[i + k]
    OBVIOUS
  <2> HIDE DEF a, b
  <2>5. /\ a \o b \in Seq(S) /\ Len(a \o b) = Len(s) - 1
        /\ \A k \in 1..(Len(s) - 1) : (a \o b)[k] = IF k < i THEN s[k] ELSE s[k + 1]
    <3>1. Len(s) \in Nat /\ i \in Nat /\ 1 =< i /\ i =< Len(s)
      OBVIOUS
    <3>2. /\ a \o b \in Seq(S) /\ Len(a \o b) = Len(a) + Len(b)
          /\ \A k \in 1..(Len(a) + Len(b)) :
               (a \o b)[k] = IF k =< Len(a) THEN a[k] ELSE b[k - Len(a)]
      BY <2>4, ConcatProperties
    <3>3. ASSUME NEW k \in 1..(Len(s) - 1)
          PROVE  (a \o b)[k] = IF k < i THEN s[k] ELSE s[k + 1]
      <4>1. CASE k < i
        BY <2>4, <3>1, <3>2, <4>1
      <4>2. CASE k >= i
        <5>1. (a \o b)[k] = b[k - (i - 1)] /\ k - (i - 1) \in 1..(Len(s) - i)
          BY <2>4, <3>1, <3>2, <4>2
        <5>2. i + (k - (i - 1)) = k + 1
          BY <3>1
        <5> QED
          BY <2>4, <3>1, <4>2, <5>1, <5>2
      <4> QED
        <5>1. k < i \/ k >= i
          BY <3>1
        <5> QED
          BY <4>1, <4>2, <5>1
    <3> QED
      BY <2>4, <3>1, <3>2, <3>3
  <2>6. t = a \o b
    BY <2>3 DEF a, b
  <2> HIDE DEF t
  <2>7. t \in Seq(S) /\ Len(t) = Len(s) - 1 /\ DOMAIN t = 1..(Len(s) - 1)
    BY <2>5, <2>6
  <2>8. \A k \in DOMAIN t : t[k] = IF k < i THEN s[k] ELSE s[k + 1]
    BY <2>5, <2>6, <2>7
  <2>9. IsInjective(t)
    BY <2>7, <2>8 DEF IsInjective
  <2>10. ToSet(t) = ToSet(s) \ {e}
    <3>1. ASSUME NEW x \in ToSet(t) PROVE x \in ToSet(s) \ {e}
      <4>1. PICK k \in DOMAIN t : x = t[k]
        BY <3>1 DEF ToSet
      <4> DEFINE m == IF k < i THEN k ELSE k + 1
      <4>2. m \in DOMAIN s /\ m # i /\ x = s[m]
        BY <2>7, <2>8, <4>1
      <4> QED
        BY <1>2, <4>2 DEF ToSet, IsInjective
    <3>2. ASSUME NEW x \in ToSet(s) \ {e} PROVE x \in ToSet(t)
      <4>1. PICK k \in DOMAIN s : x = s[k]
        BY <3>2 DEF ToSet
      <4> DEFINE m == IF k < i THEN k ELSE k - 1
      <4>2. m \in DOMAIN t /\ x = t[m]
        BY <1>2, <2>7, <2>8, <3>2, <4>1
      <4> QED
        BY <4>2 DEF ToSet
    <3> QED
      BY <3>1, <3>2
  <2> QED
    BY <2>7, <2>9, <2>10
<1> QED
  BY <1>1, <1>2

LEMMA Adding ==
    ASSUME NEW S, NEW s \in Seq(S), IsInjective(s), NEW e \in S
    PROVE  /\ Append(s, e) \in Seq(S) /\ Len(Append(s, e)) = Len(s) + 1
           /\ ToSet(Append(s, e)) = ToSet(s) \cup {e}
           /\ e \notin ToSet(s) => IsInjective(Append(s, e))
<1> DEFINE t == Append(s, e)
<1>1. /\ t \in Seq(S) /\ DOMAIN t = 1..(Len(s) + 1) /\ Len(t) = Len(s) + 1
      /\ DOMAIN s = 1..Len(s) /\ Len(s) \in Nat
      /\ \A i \in DOMAIN s : t[i] = s[i]
      /\ t[Len(s) + 1] = e
  OBVIOUS
<1> HIDE DEF t
<1>2. DOMAIN t = DOMAIN s \cup {Len(s) + 1}
  BY <1>1
<1>3. ToSet(t) = ToSet(s) \cup {e}
  <2>1. ToSet(t) \subseteq ToSet(s) \cup {e}
    BY <1>1, <1>2 DEF ToSet
  <2>2. ToSet(s) \cup {e} \subseteq ToSet(t)
    BY <1>1, <1>2 DEF ToSet
  <2> QED
    BY <2>1, <2>2
<1>4. e \notin ToSet(s) => IsInjective(t)
  BY <1>1, <1>2 DEF ToSet, IsInjective
<1> QED
  BY <1>1, <1>3, <1>4 DEF t

LEMMA Taking ==
    ASSUME NEW S, NEW s \in Seq(S), IsInjective(s), s # <<>>
    PROVE  /\ Tail(s) \in Seq(S) /\ Len(Tail(s)) = Len(s) - 1 /\ IsInjective(Tail(s))
           /\ ToSet(Tail(s)) = ToSet(s) \ {Head(s)} /\ Head(s) \in S
<1> DEFINE t == Tail(s)
<1>1. /\ t \in Seq(S) /\ Len(t) = Len(s) - 1 /\ Len(s) \in Nat /\ Len(s) >= 1
      /\ DOMAIN t = 1..(Len(s) - 1) /\ DOMAIN s = 1..Len(s)
      /\ \A i \in DOMAIN t : t[i] = s[i + 1]
      /\ Head(s) = s[1] /\ Head(s) \in S
  OBVIOUS
<1> HIDE DEF t
<1>2. IsInjective(t)
  BY <1>1 DEF IsInjective
<1>3. ToSet(t) \subseteq ToSet(s) \ {Head(s)}
  <2>1. ASSUME NEW i \in DOMAIN t PROVE t[i] \in ToSet(s) \ {Head(s)}
    BY <1>1 DEF ToSet, IsInjective
  <2> QED
    BY <2>1 DEF ToSet
<1>4. ToSet(s) \ {Head(s)} \subseteq ToSet(t)
  <2>1. ASSUME NEW i \in DOMAIN s, s[i] # Head(s) PROVE s[i] \in ToSet(t)
    <3>1. i - 1 \in DOMAIN t /\ t[i - 1] = s[i]
      BY <1>1, <2>1
    <3> QED
      BY <3>1 DEF ToSet
  <2> QED
    BY <2>1 DEF ToSet
<1> QED
  BY <1>1, <1>2, <1>3, <1>4 DEF t
-----------------------------------------------------------------------------
(* Types of what IInv leaves open, and the due list.                       *)

Statuses == {"active", "cooldown", "disabled"}

Columns ==
    /\ live \subseteq Accounts /\ status \in [Accounts -> Statuses]
    /\ crashes \in Nat

\* The list of due jobs has each open job at most once and no other.
Listed == due \in Seq(Jobs) /\ IsInjective(due) /\ \A j \in ToSet(due) : record[j] \in Open

\* A poller writes to the first job of its batch only while there is one.
Batches ==
    \A w \in Pollers :
      /\ poller[w].batch \in Seq(Jobs)
      /\ poller[w].write # "none" => poller[w].batch # <<>>

LEMMA ColumnsKept ==
    ASSUME IInv, Columns, [Next]_vars
    PROVE  Columns'
<1> USE DEF Columns
<1>2. ASSUME NEW w \in Pollers, NEW j \in Jobs, NEW x \in PollAnswer, Poll(w, j, x)
      PROVE  Columns'
  <2>1. /\ UNCHANGED <<live, crashes>>
        /\ \/ UNCHANGED status
           \/ status' = [a \in Accounts |->
                 IF a \in owner[j] THEN StatusAfter(status[a], x) ELSE status[a]]
    BY <1>2 DEF Poll, table
  <2>2. \A a \in Accounts : StatusAfter(status[a], x) \in Statuses
    BY DEF StatusAfter, Statuses
  <2> QED
    BY <2>1, <2>2
<1>3. ASSUME NEW a \in Accounts, DeleteAccount(a) PROVE Columns'
  BY <1>3 DEF DeleteAccount
<1>4. CASE Crash
  BY <1>4 DEF Crash, table
<1>5. ASSUME \/ \E s \in Submissions : LookUp(s) \/ Enqueue(s) \/ InsertLog(s) \/ InsertJob(s)
             \/ \E s \in Submissions, j \in Jobs, a \in Accounts : Accept(s, j, a)
             \/ \E j \in Jobs, t \in Terminal : UpstreamEnds(j, t)
             \/ \E j \in Jobs : BecomesDue(j) \/ HookFinds(j)
             \/ \E w \in Pollers : Scan(w) \/ Apply(w)
             \/ \E h \in hook : HookSettles(h)
             \/ Receive \/ Idle \/ UNCHANGED vars
      PROVE  UNCHANGED <<live, status, crashes>>
  BY <1>5 DEF LookUp, Enqueue, InsertLog, InsertJob, Accept, UpstreamEnds, BecomesDue, HookFinds, Scan,
              Apply, HookSettles, Receive, Idle, vars, table
<1>6. CASE UNCHANGED <<live, status, crashes>>
  BY <1>6
<1> HIDE DEF Columns
<1> QED
  BY <1>2, <1>3, <1>4, <1>5, <1>6 DEF Next, Persist, Reconcile

\* An update takes a job off the list, whatever it writes.
LEMMA UpdateRowUnlists ==
    ASSUME Shapes, Listed, NEW j \in Jobs, NEW write \in {"defer"} \cup States,
           UpdateRow(j, write)
    PROVE  Listed'
<1>1. CASE record[j] \in Open
  <2>1. due' = RemoveFirst(due, j) /\ \A k \in Jobs : k # j => record'[k] = record[k]
    BY <1>1 DEF UpdateRow, Shapes
  <2>2. /\ due' \in Seq(Jobs) /\ IsInjective(due') /\ ToSet(due') = ToSet(due) \ {j}
    BY <2>1, Removal DEF Listed
  <2>3. ToSet(due) \subseteq Jobs
    BY DEF Listed, ToSet
  <2> QED
    BY <2>1, <2>2, <2>3 DEF Listed
<1>2. CASE record[j] \notin Open
  BY <1>2 DEF UpdateRow, Listed
<1> QED
  BY <1>1, <1>2

LEMMA ListedKept ==
    ASSUME IInv, Listed, [Next]_vars
    PROVE  Listed'
<1>0. Shapes /\ Faithful
  BY DEF IInv
<1>1. ASSUME NEW s \in Submissions, InsertJob(s) PROVE Listed'
  <2>1. sub[s].job \subseteq Jobs
    BY <1>0 DEF Shapes, Submission
  <2>2. CASE UNCHANGED <<record, due>>
    BY <2>2 DEF Listed
  <2>3. ASSUME NEW j \in sub[s].job, record[j] = Untracked, due' = Append(due, j),
               record' = [record EXCEPT ![j] = "pending"]
        PROVE  Listed'
    <3>1. j \in Jobs /\ j \notin ToSet(due)
      BY <2>1, <2>3 DEF Listed
    <3>2. due' \in Seq(Jobs) /\ IsInjective(due') /\ ToSet(due') = ToSet(due) \cup {j}
      BY <2>3, <3>1, Adding DEF Listed
    <3>3. record'[j] = "pending" /\ \A k \in Jobs : k # j => record'[k] = record[k]
      BY <1>0, <2>3, <3>1 DEF Shapes
    <3>4. ToSet(due) \subseteq Jobs
      BY DEF Listed, ToSet
    <3> QED
      BY <3>2, <3>3, <3>4 DEF Listed
  <2> QED
    BY <1>1, <2>2, <2>3 DEF InsertJob, table
<1>2. ASSUME NEW j \in Jobs, BecomesDue(j) PROVE Listed'
  <2>1. j \notin ToSet(due) /\ record[j] \in Open /\ due' = Append(due, j) /\ UNCHANGED record
    BY <1>2 DEF BecomesDue, Contains, ToSet, Listed
  <2>2. due' \in Seq(Jobs) /\ IsInjective(due') /\ ToSet(due') = ToSet(due) \cup {j}
    BY <2>1, Adding DEF Listed
  <2> QED
    BY <2>1, <2>2 DEF Listed
<1>3. ASSUME NEW w \in Pollers, Apply(w) PROVE Listed'
  <2>1. /\ Head(poller[w].batch) \in Jobs /\ poller[w].write \in {"defer"} \cup States
        /\ UpdateRow(Head(poller[w].batch), poller[w].write)
    BY <1>0, <1>3 DEF Apply, Shapes, Faithful
  <2> QED
    BY <1>0, <2>1, UpdateRowUnlists
<1>4. ASSUME NEW h \in hook, HookSettles(h) PROVE Listed'
  <2>1. h.job \in Jobs /\ h.state \in Terminal /\ UpdateRow(h.job, h.state)
    BY <1>0, <1>4 DEF HookSettles, Shapes, Hook
  <2> QED
    BY <1>0, <2>1, UpdateRowUnlists
<1>5. ASSUME \/ \E s \in Submissions : LookUp(s) \/ Enqueue(s) \/ InsertLog(s)
             \/ \E s \in Submissions, j \in Jobs, a \in Accounts : Accept(s, j, a)
             \/ \E j \in Jobs, t \in Terminal : UpstreamEnds(j, t)
             \/ \E j \in Jobs : HookFinds(j)
             \/ \E w \in Pollers : Scan(w) \/ \E j \in Jobs, x \in PollAnswer : Poll(w, j, x)
             \/ \E a \in Accounts : DeleteAccount(a)
             \/ Receive \/ Crash \/ Idle \/ UNCHANGED vars
      PROVE  UNCHANGED <<record, due>>
  BY <1>5 DEF LookUp, Enqueue, InsertLog, Accept, UpstreamEnds, HookFinds, Scan, Poll,
              DeleteAccount, Receive, Crash, Idle, vars, table
<1>6. CASE UNCHANGED <<record, due>>
  BY <1>6 DEF Listed
<1> QED
  BY <1>1, <1>2, <1>3, <1>4, <1>5, <1>6 DEF Next, Reconcile, Persist

LEMMA BatchesKept ==
    ASSUME IInv, Listed, Batches, [Next]_vars
    PROVE  Batches'
<1>0. /\ poller = [w \in Pollers |-> poller[w]]
      /\ \A w \in Pollers : poller[w] = [batch |-> poller[w].batch, write |-> poller[w].write]
  BY DEF IInv, Shapes
<1>1. ASSUME NEW w \in Pollers, Scan(w) PROVE Batches'
  <2> DEFINE n == IF Len(due) < BatchLimit THEN Len(due) ELSE BatchLimit
  <2>1. n \in 0..Len(due) /\ SubSeq(due, 1, n) \in Seq(Jobs)
    BY DEF Listed
  <2>2. /\ poller'[w].batch = SubSeq(due, 1, n) /\ poller'[w].write = "none"
        /\ \A v \in Pollers : v # w => poller'[v] = poller[v]
    BY <1>0, <1>1 DEF Scan
  <2> HIDE DEF n
  <2> QED
    BY <2>1, <2>2 DEF Batches
<1>2. ASSUME NEW w \in Pollers, NEW j \in Jobs, NEW x \in PollAnswer, Poll(w, j, x)
      PROVE  Batches'
  <2>1. /\ poller[w].batch # <<>>
        /\ \A v \in Pollers : v # w => poller'[v] = poller[v]
        /\ \/ poller'[w].batch = poller[w].batch
           \/ poller'[w].batch = Tail(poller[w].batch) /\ poller'[w].write = poller[w].write
        /\ poller[w].write = "none"
    <3>1. poller[w].batch # <<>> /\ poller[w].write = "none"
      BY <1>2 DEF Poll
    <3>2. CASE owner[j] # {} /\ x = "unusable"
      <4>1. poller' = [poller EXCEPT ![w] = [poller[w] EXCEPT !.batch = Tail(@)]]
        BY <1>2, <3>2 DEF Poll
      <4> DEFINE p == [poller[w] EXCEPT !.batch = Tail(poller[w].batch)]
      <4>2. p.batch = Tail(poller[w].batch) /\ p.write = poller[w].write
        BY <1>0
      <4>3. poller'[w] = p /\ \A v \in Pollers : v # w => poller'[v] = poller[v]
        BY <1>0, <4>1 DEF p
      <4> HIDE DEF p
      <4> QED
        BY <3>1, <4>2, <4>3
    <3>3. CASE ~(owner[j] # {} /\ x = "unusable")
      <4>1. \E new : poller' = [poller EXCEPT ![w].write = new]
        BY <1>2, <3>3 DEF Poll
      <4> QED
        BY <1>0, <3>1, <4>1
    <3> QED
      BY <3>2, <3>3
  <2>2. Tail(poller[w].batch) \in Seq(Jobs)
    BY <2>1 DEF Batches
  <2> QED
    BY <2>1, <2>2 DEF Batches
<1>3. ASSUME NEW w \in Pollers, Apply(w) PROVE Batches'
  <2>1. /\ poller[w].write # "none"
        /\ \A v \in Pollers : v # w => poller'[v] = poller[v]
        /\ poller'[w].batch = Tail(poller[w].batch) /\ poller'[w].write = "none"
    BY <1>0, <1>3 DEF Apply
  <2>2. Tail(poller[w].batch) \in Seq(Jobs)
    BY <2>1 DEF Batches
  <2> QED
    BY <2>1, <2>2 DEF Batches
<1>4. CASE Crash
  <2>1. \A w \in Pollers : poller'[w].batch = <<>> /\ poller'[w].write = "none"
    BY <1>4 DEF Crash, IdlePoller
  <2>2. <<>> \in Seq(Jobs)
    BY EmptySeq
  <2> QED
    BY <2>1, <2>2 DEF Batches
<1>5. ASSUME \/ \E s \in Submissions : Persist(s)
             \/ \E s \in Submissions, j \in Jobs, a \in Accounts : Accept(s, j, a)
             \/ \E j \in Jobs, t \in Terminal : UpstreamEnds(j, t)
             \/ \E j \in Jobs : BecomesDue(j) \/ HookFinds(j)
             \/ \E h \in hook : HookSettles(h)
             \/ \E a \in Accounts : DeleteAccount(a)
             \/ Receive \/ Idle \/ UNCHANGED vars
      PROVE  UNCHANGED poller
  BY <1>5 DEF Persist, LookUp, Enqueue, InsertLog, InsertJob, Accept, UpstreamEnds, BecomesDue,
              HookFinds, HookSettles, DeleteAccount, Receive, Idle, vars
<1>6. CASE UNCHANGED poller
  BY <1>6 DEF Batches
<1> QED
  BY <1>1, <1>2, <1>3, <1>4, <1>5, <1>6 DEF Next, Reconcile


-----------------------------------------------------------------------------
(* The bundles on their way.                                               *)

\* A submission is queued exactly while it is in the queue, once; the writer
\* holds what it is writing; a submission made one job at most.
Carried ==
    /\ queue \in Seq(Submissions) /\ IsInjective(queue) /\ Len(queue) <= QueueCapacity
    /\ writer \subseteq Submissions
    /\ \A s \in Submissions :
         /\ sub[s].pc = "queued" <=> s \in ToSet(queue)
         /\ sub[s].pc = "writing" => s \in writer
         /\ \A j, k \in sub[s].job : j = k

\* What a submission may rely on when it is over.
Accounted(s) ==
    /\ sub[s].pc = "done" => \A j \in sub[s].job : record[j] # Untracked
    /\ sub[s].pc = "lost" => crashes > 0 \/ ~(sub[s].acc \subseteq live)

AllAccounted == \A s \in Submissions : Accounted(s)

\* A job once tracked stays tracked: the abstract life has no step back.
LEMMA TrackedStays ==
    ASSUME IInv, [Next]_vars
    PROVE  IInv' /\ \A j \in Jobs : record[j] # Untracked => record'[j] # Untracked
<1>1. Goal
  BY SubmissionSteps, SettlementSteps, OtherSteps DEF Next, Reconcile
<1>2. record \in [Jobs -> {Untracked} \cup States]
  BY DEF IInv, Shapes
<1>3. ASSUME NEW k \in Jobs, Lifecycle!Upstream(k) \/ Lifecycle!Track(k)
                             \/ Lifecycle!Progress(k) \/ Lifecycle!Settle(k)
      PROVE  \A j \in Jobs : record[j] # Untracked => record'[j] # Untracked
  BY <1>2, <1>3 DEF Lifecycle!Upstream, Lifecycle!Track, Lifecycle!Progress, Lifecycle!Settle
<1> QED
  BY <1>1, <1>3 DEF Goal, Lifecycle!Next, Lifecycle!vars

\* Accounts only go, and restarts only add up.
LEMMA GoneStaysGone ==
    ASSUME Columns, [Next]_vars
    PROVE  live' \subseteq live /\ crashes' \in Nat /\ crashes' >= crashes
<1>1. ASSUME NEW a \in Accounts, DeleteAccount(a)
      PROVE  live' \subseteq live /\ crashes' = crashes
  BY <1>1 DEF DeleteAccount
<1>2. CASE Crash
  BY <1>2 DEF Crash, Columns
<1>3. ASSUME \/ \E s \in Submissions : Persist(s)
             \/ \E s \in Submissions, j \in Jobs, a \in Accounts : Accept(s, j, a)
             \/ \E j \in Jobs, t \in Terminal : UpstreamEnds(j, t)
             \/ \E j \in Jobs : BecomesDue(j) \/ HookFinds(j)
             \/ \E w \in Pollers : \/ Scan(w) \/ Apply(w)
                                   \/ \E j \in Jobs, x \in PollAnswer : Poll(w, j, x)
             \/ \E h \in hook : HookSettles(h)
             \/ Receive \/ Idle \/ UNCHANGED vars
      PROVE  UNCHANGED <<live, crashes>>
  BY <1>3 DEF Persist, LookUp, Enqueue, InsertLog, InsertJob, Accept, UpstreamEnds, BecomesDue,
              HookFinds, Scan, Apply, Poll, HookSettles, Receive, Idle, vars
<1>4. crashes \in Nat
  BY DEF Columns
<1> QED
  BY <1>1, <1>2, <1>3, <1>4 DEF Next, Reconcile

\* A submission that does not move stays accounted for.
LEMMA AccountedStays ==
    ASSUME IInv, Columns, [Next]_vars, NEW s \in Submissions, Accounted(s),
           sub'[s].pc = sub[s].pc, sub'[s].job = sub[s].job, sub'[s].acc = sub[s].acc
    PROVE  Accounted(s)'
<1>1. sub[s].job \subseteq Jobs
  BY DEF IInv, Shapes, Submission
<1>2. crashes \in Nat
  BY DEF Columns
<1> QED
  BY <1>1, <1>2, TrackedStays, GoneStaysGone DEF Accounted

LEMMA AccountedFor ==
    ASSUME IInv, Columns, Carried, AllAccounted, [Next]_vars
    PROVE  AllAccounted'
<1> USE DEF AllAccounted
<1>0. /\ sub \in [Submissions -> Submission]
      /\ \A s \in Submissions : sub[s].job \subseteq Jobs /\ sub[s].acc \subseteq Accounts
      /\ record \in [Jobs -> {Untracked} \cup States] /\ crashes \in Nat
  BY DEF IInv, Shapes, Submission, Columns
<1>1. ASSUME NEW s \in Submissions, NEW pc \in Places, sub' = [sub EXCEPT ![s].pc = pc],
             Accounted(s)'
      PROVE  AllAccounted'
  <2>1. ASSUME NEW t \in Submissions, t # s PROVE Accounted(t)'
    <3>1. sub'[t].pc = sub[t].pc /\ sub'[t].job = sub[t].job /\ sub'[t].acc = sub[t].acc
      BY <1>0, <1>1, <2>1, MovingOn
    <3> QED
      BY <3>1, AccountedStays
  <2> QED
    BY <1>1, <2>1
<1>2. ASSUME NEW s \in Submissions, NEW j \in Jobs, NEW a \in Accounts, Accept(s, j, a)
      PROVE  AllAccounted'
  <2>1. ASSUME NEW t \in Submissions, t # s PROVE Accounted(t)'
    <3>1. sub'[t] = sub[t]
      BY <1>0, <1>2, <2>1 DEF Accept
    <3> QED
      BY <3>1, AccountedStays
  <2>2. sub'[s].pc = "accepted"
    BY <1>0, <1>2 DEF Accept
  <2> QED
    BY <2>1, <2>2 DEF Accounted
<1>3. ASSUME NEW s \in Submissions, LookUp(s) PROVE AllAccounted'
  <2> DEFINE pc == IF \E j \in sub[s].job : record[j] # Untracked THEN "done" ELSE "unknown"
  <2>1. pc \in Places /\ sub' = [sub EXCEPT ![s].pc = pc] /\ record' = record
    BY <1>3 DEF LookUp, Places, table
  <2>2. sub'[s].pc = pc /\ sub'[s].job = sub[s].job
    BY <1>0, <2>1, MovingOn
  <2>3. Accounted(s)'
    BY <2>1, <2>2 DEF Accounted, Carried
  <2> HIDE DEF pc
  <2> QED
    BY <1>1, <2>1, <2>3
<1>4. ASSUME NEW s \in Submissions, Enqueue(s) PROVE AllAccounted'
  <2>1. PICK pc \in {"queued", "direct"} : sub' = [sub EXCEPT ![s].pc = pc]
    BY <1>4 DEF Enqueue
  <2>2. pc \in Places /\ sub'[s].pc = pc
    BY <1>0, <2>1, MovingOn DEF Places
  <2>3. Accounted(s)'
    BY <2>1, <2>2 DEF Accounted
  <2> QED
    BY <1>1, <2>1, <2>2, <2>3
<1>5. ASSUME NEW s \in Submissions, InsertLog(s) PROVE AllAccounted'
  <2> DEFINE pc == IF sub[s].acc \subseteq live THEN "logged" ELSE "lost"
  <2>1. pc \in Places /\ sub' = [sub EXCEPT ![s].pc = pc] /\ live' = live
    BY <1>5 DEF InsertLog, Places
  <2>2. sub'[s].pc = pc /\ sub'[s].acc = sub[s].acc
    BY <1>0, <2>1, MovingOn
  <2>3. Accounted(s)'
    BY <2>1, <2>2 DEF Accounted
  <2> HIDE DEF pc
  <2> QED
    BY <1>1, <2>1, <2>3
<1>6. ASSUME NEW s \in Submissions, InsertJob(s) PROVE AllAccounted'
  <2>1. PICK j \in sub[s].job :
         IF record[j] = Untracked /\ sub[s].acc \subseteq live
         THEN /\ record' = [record EXCEPT ![j] = "pending"]
              /\ sub' = [sub EXCEPT ![s].pc = "done"]
         ELSE /\ sub' = [sub EXCEPT ![s].pc = IF record[j] = Untracked THEN "lost" ELSE "done"]
              /\ UNCHANGED record
    BY <1>6 DEF InsertJob, table
  <2>2. live' = live
    BY <1>6 DEF InsertJob
  <2>3. j \in Jobs /\ \A k \in sub[s].job : k = j
    BY <1>0 DEF Carried
  <2>4. CASE record[j] = Untracked /\ ~(sub[s].acc \subseteq live)
    <3>1. sub' = [sub EXCEPT ![s].pc = "lost"] /\ "lost" \in Places
      BY <2>1, <2>4 DEF Places
    <3>2. sub'[s].pc = "lost" /\ sub'[s].acc = sub[s].acc
      BY <1>0, <3>1, MovingOn
    <3>3. Accounted(s)'
      BY <2>2, <2>4, <3>2 DEF Accounted
    <3> QED
      BY <1>1, <3>1, <3>3
  <2>5. CASE record[j] # Untracked \/ sub[s].acc \subseteq live
    <3>1. sub' = [sub EXCEPT ![s].pc = "done"] /\ "done" \in Places /\ record'[j] # Untracked
      BY <1>0, <2>1, <2>3, <2>5 DEF Places
    <3>2. sub'[s].pc = "done" /\ sub'[s].job = sub[s].job
      BY <1>0, <3>1, MovingOn
    <3>3. Accounted(s)'
      BY <2>3, <3>1, <3>2 DEF Accounted
    <3> QED
      BY <1>1, <3>1, <3>3
  <2> QED
    BY <2>4, <2>5
<1>7. CASE Receive
  <2>1. Head(queue) \in Submissions /\ sub' = [sub EXCEPT ![Head(queue)].pc = "writing"]
    BY <1>7, Taking DEF Receive, Carried
  <2>2. PICK s \in Submissions : sub' = [sub EXCEPT ![s].pc = "writing"]
    BY <2>1
  <2>3. "writing" \in Places
    BY DEF Places
  <2>4. sub'[s].pc = "writing"
    BY <1>0, <2>2, <2>3, MovingOn
  <2>5. Accounted(s)'
    BY <2>4 DEF Accounted
  <2> QED
    BY <1>1, <2>2, <2>3, <2>5
<1>8. CASE Crash
  <2>1. crashes' > 0
    BY <1>0, <1>8 DEF Crash
  <2>2. ASSUME NEW s \in Submissions PROVE Accounted(s)'
    <3>1. sub'[s] = IF sub[s].pc \in {"idle", "done"} THEN sub[s]
                    ELSE [sub[s] EXCEPT !.pc = "lost"]
      BY <1>8 DEF Crash
    <3>2. CASE sub'[s] = sub[s]
      BY <3>2, AccountedStays
    <3>3. CASE sub'[s] = [sub[s] EXCEPT !.pc = "lost"]
      <4>1. sub[s] \in Submission
        BY <1>0
      <4>2. sub'[s].pc = "lost"
        BY <3>3, <4>1 DEF Submission
      <4> QED
        BY <2>1, <4>2 DEF Accounted
    <3> QED
      BY <3>1, <3>2, <3>3
  <2> QED
    BY <2>2
<1>9. ASSUME \/ \E j \in Jobs, t \in Terminal : UpstreamEnds(j, t)
             \/ \E j \in Jobs : BecomesDue(j) \/ HookFinds(j)
             \/ \E w \in Pollers : \/ Scan(w) \/ Apply(w)
                                   \/ \E j \in Jobs, x \in PollAnswer : Poll(w, j, x)
             \/ \E h \in hook : HookSettles(h)
             \/ \E a \in Accounts : DeleteAccount(a)
             \/ Idle \/ UNCHANGED vars
      PROVE  UNCHANGED <<sub, queue, writer>>
  BY <1>9 DEF UpstreamEnds, BecomesDue, HookFinds, Scan, Apply, Poll, HookSettles,
              DeleteAccount, Idle, vars, memory
<1>10. CASE UNCHANGED <<sub, queue, writer>>
  BY <1>10, AccountedStays
<1> HIDE DEF AllAccounted
<1> QED
  BY <1>2, <1>3, <1>4, <1>5, <1>6, <1>7, <1>8, <1>9, <1>10 DEF Next, Reconcile, Persist

\* The queue and the writer follow their bundles.
LEMMA CarriedKept ==
    ASSUME IInv, Carried, [Next]_vars
    PROVE  Carried'
<1> USE DEF Carried
<1>0. /\ sub \in [Submissions -> Submission]
      /\ <<>> \in Seq(Submissions) /\ IsInjective(<<>>) /\ ToSet(<<>>) = {} /\ Len(<<>>) = 0
  BY DEF IInv, Shapes, IsInjective, ToSet
<1>1. ASSUME NEW s \in Submissions, NEW pc \in Places \ {"queued", "writing"},
             sub' = [sub EXCEPT ![s].pc = pc], sub[s].pc # "queued",
             queue' = queue, writer' \in {writer, writer \ {s}}
      PROVE  Carried'
  <2>1. \A t \in Submissions : /\ sub'[t].job = sub[t].job
                               /\ sub'[t].pc = IF t = s THEN pc ELSE sub[t].pc
    BY <1>0, <1>1, MovingOn
  <2> QED
    BY <1>1, <2>1
<1>2. ASSUME NEW s \in Submissions, NEW j \in Jobs, NEW a \in Accounts, Accept(s, j, a)
      PROVE  Carried'
  <2>1. /\ sub[s].pc = "idle" /\ sub'[s].pc = "accepted" /\ sub'[s].job = {j}
        /\ \A t \in Submissions : t # s => sub'[t] = sub[t]
        /\ UNCHANGED <<queue, writer>>
    BY <1>0, <1>2 DEF Accept
  <2> QED
    BY <2>1
<1>3. ASSUME NEW s \in Submissions, LookUp(s) \/ InsertLog(s) \/ InsertJob(s) PROVE Carried'
  <2>1. /\ sub[s].pc # "queued" /\ queue' = queue /\ writer' \in {writer, writer \ {s}}
        /\ \E pc \in Places \ {"queued", "writing"} : sub' = [sub EXCEPT ![s].pc = pc]
    BY <1>3 DEF LookUp, InsertLog, InsertJob, Places
  <2> QED
    BY <1>1, <2>1
<1>4. ASSUME NEW s \in Submissions, Enqueue(s) PROVE Carried'
  <2>1. CASE Len(queue) < QueueCapacity
    <3>1. /\ sub[s].pc = "unknown" /\ queue' = Append(queue, s) /\ writer' = writer
          /\ sub' = [sub EXCEPT ![s].pc = "queued"] /\ "queued" \in Places
      BY <1>4, <2>1 DEF Enqueue, Places
    <3>2. \A t \in Submissions : /\ sub'[t].job = sub[t].job
                                 /\ sub'[t].pc = IF t = s THEN "queued" ELSE sub[t].pc
      BY <1>0, <3>1, MovingOn
    <3>3. /\ queue' \in Seq(Submissions) /\ IsInjective(queue') /\ ToSet(queue') = ToSet(queue) \cup {s}
          /\ Len(queue') = Len(queue) + 1
      BY <3>1, Adding
    <3>4. Len(queue') =< QueueCapacity
      BY <2>1, <3>3
    <3> QED
      BY <3>1, <3>2, <3>3, <3>4
  <2>2. CASE ~(Len(queue) < QueueCapacity)
    <3>1. /\ sub[s].pc = "unknown" /\ queue' = queue /\ writer' = writer
          /\ sub' = [sub EXCEPT ![s].pc = "direct"] /\ "direct" \in Places \ {"queued", "writing"}
      BY <1>4, <2>2 DEF Enqueue, Places
    <3> QED
      BY <1>1, <3>1
  <2> QED
    BY <2>1, <2>2
<1>5. CASE Receive
  <2>1. /\ queue # <<>> /\ writer = {} /\ writer' = {Head(queue)} /\ queue' = Tail(queue)
        /\ sub' = [sub EXCEPT ![Head(queue)].pc = "writing"] /\ "writing" \in Places
    BY <1>5 DEF Receive, Places
  <2>2. /\ queue' \in Seq(Submissions) /\ IsInjective(queue') /\ Len(queue') = Len(queue) - 1
        /\ ToSet(queue') = ToSet(queue) \ {Head(queue)} /\ Head(queue) \in Submissions
    BY <2>1, Taking
  <2>3. PICK s \in Submissions : s = Head(queue)
    BY <2>2
  <2>4. \A t \in Submissions : /\ sub'[t].job = sub[t].job
                               /\ sub'[t].pc = IF t = s THEN "writing" ELSE sub[t].pc
    BY <1>0, <2>1, <2>3, MovingOn
  <2>5. Len(queue') =< QueueCapacity
    BY <2>2
  <2> QED
    BY <2>1, <2>2, <2>3, <2>4, <2>5
<1>6. CASE Crash
  <2>1. ASSUME NEW s \in Submissions
        PROVE  sub'[s].pc \in {"idle", "done", "lost"} /\ sub'[s].job = sub[s].job
    <3>1. sub'[s] = IF sub[s].pc \in {"idle", "done"} THEN sub[s]
                    ELSE [sub[s] EXCEPT !.pc = "lost"]
      BY <1>6 DEF Crash
    <3>2. sub[s] \in Submission
      BY <1>0
    <3> QED
      BY <3>1, <3>2 DEF Submission
  <2>2. queue' = <<>> /\ writer' = {}
    BY <1>6 DEF Crash
  <2> QED
    BY <1>0, <2>1, <2>2
<1>7. ASSUME \/ \E j \in Jobs, t \in Terminal : UpstreamEnds(j, t)
             \/ \E j \in Jobs : BecomesDue(j) \/ HookFinds(j)
             \/ \E w \in Pollers : \/ Scan(w) \/ Apply(w)
                                   \/ \E j \in Jobs, x \in PollAnswer : Poll(w, j, x)
             \/ \E h \in hook : HookSettles(h)
             \/ \E a \in Accounts : DeleteAccount(a)
             \/ Idle \/ UNCHANGED vars
      PROVE  UNCHANGED <<sub, queue, writer>>
  BY <1>7 DEF UpstreamEnds, BecomesDue, HookFinds, Scan, Apply, Poll, HookSettles,
              DeleteAccount, Idle, vars, memory
<1>8. CASE UNCHANGED <<sub, queue, writer>>
  BY <1>8
<1> HIDE DEF Carried
<1> QED
  BY <1>2, <1>3, <1>4, <1>5, <1>6, <1>7, <1>8 DEF Next, Reconcile, Persist

FullInv == IInv /\ Columns /\ Listed /\ Batches /\ Carried /\ AllAccounted

LEMMA FullInvariant == Spec => []FullInv
<1>1. Init => FullInv
  <2> SUFFICES ASSUME Init PROVE FullInv
    OBVIOUS
  <2>1. <<>> \in Seq(Jobs) /\ <<>> \in Seq(Submissions) /\ Len(<<>>) = 0
        /\ IsInjective(<<>>) /\ ToSet(<<>>) = {}
    BY DEF IsInjective, ToSet
  <2>2. PICK past \in Pasts, a \in Accounts : Init!(past, a)
    BY DEF Init
  <2>3. Columns /\ Listed /\ Batches
    BY <2>1, <2>2 DEF Columns, Statuses, Listed, Batches, IdlePoller
  <2>4. queue = <<>> /\ writer = {}
    BY <2>2
  <2>5. ASSUME NEW s \in Submissions
        PROVE  /\ sub[s].pc \in {"idle", "done"}
               /\ sub[s].pc = "done" => \A j \in sub[s].job : record[j] # Untracked
               /\ \A j, k \in sub[s].job : j = k
    <3>1. past.made \in [Submissions -> {{}} \cup {{j} : j \in Jobs}]
      BY PastsAssumption DEF Past
    <3>2. \A j \in past.made[s] : j \in Jobs /\ record[j] # Untracked
      BY <2>2, <3>1
    <3>3. sub[s] = IF past.made[s] = {} THEN [pc |-> "idle", job |-> {}, acc |-> {}]
                   ELSE [pc |-> "done", job |-> past.made[s], acc |-> {a}]
      BY <2>2
    <3> QED
      BY <3>1, <3>2, <3>3
  <2>6. Carried /\ AllAccounted
    BY <2>1, <2>4, <2>5 DEF Carried, AllAccounted, Accounted
  <2> QED
    BY <2>3, <2>6, InitFaithful DEF FullInv
<1>2. FullInv /\ [Next]_vars => FullInv'
  BY TrackedStays, ColumnsKept, ListedKept, BatchesKept, CarriedKept, AccountedFor DEF FullInv
<1> QED
  BY <1>1, <1>2, PTL DEF Spec

\* Shapes of rows, bundles and batches; the queue never exceeds its capacity; and
\* the list of due jobs has an open job at most once and a settled one never.
THEOREM JobTypes == Spec => []TypeOK
<1>1. FullInv => TypeOK
  <2> SUFFICES ASSUME FullInv PROVE TypeOK
    OBVIOUS
  <2>1. poller \in [Pollers -> Poller]
    <3>1. ASSUME NEW w \in Pollers PROVE poller[w] \in Poller
      BY DEF FullInv, IInv, Shapes, Batches, Poller
    <3>2. poller = [w \in Pollers |-> poller[w]]
      BY DEF FullInv, IInv, Shapes
    <3> QED
      BY <3>1, <3>2
  <2> QED
    BY <2>1 DEF FullInv, IInv, Shapes, Columns, Statuses, Listed, Carried, TypeOK
<1> QED
  BY <1>1, FullInvariant, PTL

\* No accepted job falls between the lookup, the queue, the fallback and the
\* writer, for any capacity of the queue: a submission that is done has its job
\* tracked, one that waits is where it will be found, and one is given up only
\* after a restart or with the account that made it.
THEOREM NothingForgotten == Spec => []AcceptedNotForgotten
<1>1. FullInv => AcceptedNotForgotten
  BY DEF FullInv, Carried, AllAccounted, Accounted, AcceptedNotForgotten, Contains, ToSet
<1> QED
  BY <1>1, FullInvariant, PTL

=============================================================================
