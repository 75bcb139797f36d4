------------------------------ MODULE AsyncJobs ------------------------------
(***************************************************************************)
(* Firecrawl's asynchronous jobs, from the response that announces one to   *)
(* its settlement.  The request task that got the response looks the job up *)
(* and hands a bundle (a request log and the job) to the persistence queue, *)
(* or writes it itself when the queue is full; one writer task drains the   *)
(* queue; the background reconciler and reconciliations started from the    *)
(* console poll due jobs one after the other; the provider's webhook may    *)
(* settle a job at any time.  A restart loses what is in memory.            *)
(*                                                                         *)
(* next_poll_at is abstracted to the order in which jobs become due, the    *)
(* order list_due_provider_async_jobs sorts by.  Accounts are reduced to    *)
(* their status column and jobs are polled without a proxy: a proxy's row   *)
(* is written next to the account's and read by nothing here.               *)
(***************************************************************************)
EXTENDS Naturals, Sequences, FiniteSets, SequencesExt

CONSTANTS
    Jobs,           \* upstream job ids
    Submissions,    \* client requests that submit a job
    Accounts,
    Pollers,        \* runs of reconcile_firecrawl_jobs that may overlap
    Untracked,
    QueueCapacity,  \* request_log_writer_capacity
    BatchLimit,     \* jobs a reconciliation takes on
    Unpollable,     \* jobs bound to a proxy no HTTP client can be built for
    Pasts,          \* what may have happened before the history begins
    MaxCrashes      \* bound: restarts of the process

ASSUME AsyncJobsAssumption ==
    /\ QueueCapacity \in Nat \ {0} /\ BatchLimit \in Nat \ {0} /\ MaxCrashes \in Nat
    /\ Unpollable \subseteq Jobs
    /\ Untracked \notin {"pending", "running", "completed", "failed", "cancelled"}

VARIABLES
    upstream,   \* the provider's own state of each job
    live,       \* accounts that have a row
    status,     \* their status column
    record,     \* state column of each job's row; Untracked if there is none
    owner,      \* its provider_account_id: {} if null
    due,        \* open jobs whose next_poll_at has passed, the oldest first
    sub,        \* each submission's request task and bundle
    queue,      \* persistence_tx: bundles waiting for the writer
    writer,     \* the bundle the writer has taken from the queue
    poller,     \* what each reconciliation has still to do
    hook,       \* webhook calls that found their job open
    crashes

table == <<record, owner, due>>
memory == <<sub, queue, writer>>
vars == <<upstream, live, status, table, memory, poller, hook, crashes>>

Lifecycle == INSTANCE JobLifecycle
Terminal == Lifecycle!Terminal
Open == Lifecycle!Open

Submission ==
    [pc : {"idle", "accepted", "unknown", "queued", "writing", "direct", "logged",
           "done", "lost"},
     job : SUBSET Jobs, acc : SUBSET Accounts]

\* write is the row update the poll of the batch's first job has come to.
Poller == [batch : Seq(Jobs), write : {"none", "defer"} \cup Open \cup Terminal]
IdlePoller == [batch |-> <<>>, write |-> "none"]

Hook == [job : Jobs, state : Terminal]

\* In an earlier run of the process some submissions were made, each of a job
\* that the provider has brought to its end since.  Some of these jobs are still
\* open here, and the account of some has been deleted.
Past == [made : [Submissions -> {{}} \cup {{j} : j \in Jobs}],
         open : SUBSET Jobs, orphaned : SUBSET Jobs]

ASSUME PastsAssumption == Pasts \subseteq Past

Init ==
    \E past \in Pasts, a \in Accounts :
        LET known == UNION {past.made[s] : s \in Submissions}
        IN  /\ upstream = [j \in Jobs |-> IF j \in known THEN "completed" ELSE Untracked]
            /\ record = [j \in Jobs |-> IF j \notin known THEN Untracked
                                        ELSE IF j \in past.open THEN "pending"
                                        ELSE "completed"]
            /\ owner = [j \in Jobs |-> IF j \in known \ past.orphaned THEN {a} ELSE {}]
            /\ sub = [s \in Submissions |->
                        IF past.made[s] = {} THEN [pc |-> "idle", job |-> {}, acc |-> {}]
                        ELSE [pc |-> "done", job |-> past.made[s], acc |-> {a}]]
            /\ live = Accounts /\ status = [b \in Accounts |-> "active"]
            /\ due = <<>> /\ queue = <<>> /\ writer = {} /\ hook = {} /\ crashes = 0
            /\ poller = [w \in Pollers |-> IdlePoller]

-----------------------------------------------------------------------------
(* Submission and persistence.                                             *)

\* The provider answers 2xx with a job id: a new one, or that of a job it still
\* runs (a repeated submission).
Accept(s, j, a) ==
    /\ sub[s].pc = "idle" /\ a \in live
    /\ upstream[j] \in {Untracked, "running"}
    /\ upstream' = [upstream EXCEPT ![j] = "running"]
    /\ sub' = [sub EXCEPT ![s] = [pc |-> "accepted", job |-> {j}, acc |-> {a}]]
    /\ UNCHANGED <<live, status, table, queue, writer, poller, hook, crashes>>

UpstreamEnds(j, t) ==
    /\ upstream[j] = "running"
    /\ upstream' = [upstream EXCEPT ![j] = t]
    /\ UNCHANGED <<live, status, table, memory, poller, hook, crashes>>

\* finalize_upstream_response: a job that is tracked already is left alone.
LookUp(s) ==
    /\ sub[s].pc = "accepted"
    /\ sub' = [sub EXCEPT ![s].pc =
                 IF \E j \in sub[s].job : record[j] # Untracked THEN "done" ELSE "unknown"]
    /\ UNCHANGED <<upstream, live, status, table, queue, writer, poller, hook, crashes>>

\* Mutant: a full queue drops the bundle.
EnqueueOrDrop(s) ==
    /\ sub[s].pc = "unknown"
    /\ IF Len(queue) < QueueCapacity
       THEN queue' = Append(queue, s) /\ sub' = [sub EXCEPT ![s].pc = "queued"]
       ELSE sub' = [sub EXCEPT ![s].pc = "lost"] /\ UNCHANGED queue
    /\ UNCHANGED <<upstream, live, status, table, writer, poller, hook, crashes>>

\* enqueue_persistence: try_send, or the fallback to a synchronous write.
Enqueue(s) ==
    /\ sub[s].pc = "unknown"
    /\ IF Len(queue) < QueueCapacity
       THEN queue' = Append(queue, s) /\ sub' = [sub EXCEPT ![s].pc = "queued"]
       ELSE sub' = [sub EXCEPT ![s].pc = "direct"] /\ UNCHANGED queue
    /\ UNCHANGED <<upstream, live, status, table, writer, poller, hook, crashes>>

Receive ==
    /\ queue # <<>> /\ writer = {}
    /\ writer' = {Head(queue)} /\ queue' = Tail(queue)
    /\ sub' = [sub EXCEPT ![Head(queue)].pc = "writing"]
    /\ UNCHANGED <<upstream, live, status, table, poller, hook, crashes>>

\* Mutant: a log that cannot be inserted is tried again and again.
InsertLogInsists(s) ==
    /\ sub[s].pc \in {"writing", "direct"}
    /\ sub' = [sub EXCEPT ![s].pc = IF sub[s].acc \subseteq live THEN "logged" ELSE @]
    /\ UNCHANGED <<upstream, live, status, table, queue, writer, poller, hook, crashes>>

\* persist_bundle, the log first.  Both rows refer to the account: if it has
\* been deleted meanwhile the insert fails and the bundle is dropped.
InsertLog(s) ==
    /\ sub[s].pc \in {"writing", "direct"}
    /\ IF sub[s].acc \subseteq live
       THEN sub' = [sub EXCEPT ![s].pc = "logged"] /\ UNCHANGED writer
       ELSE sub' = [sub EXCEPT ![s].pc = "lost"] /\ writer' = writer \ {s}
    /\ UNCHANGED <<upstream, live, status, table, queue, poller, hook, crashes>>

\* A second row for the same upstream id fails on the unique index.
InsertJob(s) ==
    /\ sub[s].pc = "logged" /\ writer' = writer \ {s}
    /\ \E j \in sub[s].job :
         IF record[j] = Untracked /\ sub[s].acc \subseteq live
         THEN /\ record' = [record EXCEPT ![j] = "pending"]
              /\ owner' = [owner EXCEPT ![j] = sub[s].acc]
              /\ due' = Append(due, j)
              /\ sub' = [sub EXCEPT ![s].pc = "done"]
         ELSE /\ sub' = [sub EXCEPT ![s].pc = IF record[j] = Untracked THEN "lost" ELSE "done"]
              /\ UNCHANGED table
    /\ UNCHANGED <<upstream, live, status, queue, poller, hook, crashes>>

-----------------------------------------------------------------------------
(* Settlement.                                                             *)

\* Mutant: any update overwrites the state.
UpdateRowAlways(j, write) ==
    /\ record' = [record EXCEPT ![j] = IF write = "defer" THEN "running" ELSE write]
    /\ due' = RemoveFirst(due, j)

\* Mutant: next_poll_at is left as it was.
UpdateRowStaysDue(j, write) ==
    /\ record' = IF record[j] \in Open
                 THEN [record EXCEPT ![j] = IF write = "defer" THEN "running" ELSE write]
                 ELSE record
    /\ UNCHANGED due

\* update_provider_async_job: does nothing to a row in a terminal state.  A
\* deferred job is marked running; only a terminal one is never due again.
UpdateRow(j, write) ==
    IF record[j] \in Open
    THEN /\ record' = [record EXCEPT ![j] = IF write = "defer" THEN "running" ELSE write]
         /\ due' = RemoveFirst(due, j)
    ELSE UNCHANGED <<record, due>>

\* next_poll_at passes.
BecomesDue(j) ==
    /\ record[j] \in Open /\ ~Contains(due, j)
    /\ due' = Append(due, j)
    /\ UNCHANGED <<upstream, live, status, record, owner, memory, poller, hook, crashes>>

\* Mutant: the jobs that became due last come first.
ScanLatest(w) ==
    /\ poller[w] = IdlePoller /\ due # <<>>
    /\ poller' = [poller EXCEPT ![w] =
         [batch |-> SubSeq(Reverse(due), 1, IF Len(due) < BatchLimit THEN Len(due) ELSE BatchLimit),
          write |-> "none"]]
    /\ UNCHANGED <<upstream, live, status, table, memory, hook, crashes>>

\* reconcile_firecrawl_jobs lists due jobs, the oldest first, up to its limit.
Scan(w) ==
    /\ poller[w] = IdlePoller /\ due # <<>>
    /\ poller' = [poller EXCEPT ![w] =
         [batch |-> SubSeq(due, 1, IF Len(due) < BatchLimit THEN Len(due) ELSE BatchLimit),
          write |-> "none"]]
    /\ UNCHANGED <<upstream, live, status, table, memory, hook, crashes>>

\* What a poll can get: no response, 401/403, 402/429, 5xx, an unreadable body,
\* a body without a status or with one nobody knows, the job's status;
\* "unusable" is an error before the poll is sent, which leaves with `?`.
PollAnswer == {"unreachable", "denied", "limited", "server_error", "garbled",
               "silent", "novel", "status", "unusable"}

WriteFor(j, answer) ==
    CASE answer = "status" -> upstream[j]
      [] answer = "silent" -> "running"
      [] answer = "novel" -> "pending"
      [] OTHER -> "defer"

StatusAfter(old, answer) ==
    CASE answer = "denied" -> "disabled"
      [] answer = "limited" -> "cooldown"
      [] answer \in {"garbled", "silent", "novel", "status"} -> "active"
      [] OTHER -> old

\* Mutant: an error ends the whole reconciliation, not just the job's turn.
PollAbandonsBatch(w, j, answer) ==
    /\ poller[w].write = "none" /\ poller[w].batch # <<>> /\ j = Head(poller[w].batch)
    /\ owner[j] # {} => ((answer = "unusable") <=> (j \in Unpollable))
    /\ poller' = [poller EXCEPT ![w] =
         IF owner[j] # {} /\ answer = "unusable" THEN IdlePoller
         ELSE [@ EXCEPT !.write = IF owner[j] = {} THEN "defer" ELSE WriteFor(j, answer)]]
    /\ UNCHANGED <<upstream, live, status, table, memory, hook, crashes>>

\* reconcile_firecrawl_job up to its update of the job's row, for the next job
\* of the batch; without an account there is nothing to poll with.
Poll(w, j, answer) ==
    /\ poller[w].write = "none" /\ poller[w].batch # <<>> /\ j = Head(poller[w].batch)
    /\ IF owner[j] = {}
       THEN /\ poller' = [poller EXCEPT ![w].write = "defer"]
            /\ UNCHANGED status
       ELSE /\ (answer = "unusable") <=> (j \in Unpollable)
            /\ poller' = [poller EXCEPT ![w] =
                 IF answer = "unusable" THEN [poller[w] EXCEPT !.batch = Tail(@)]
                 ELSE [poller[w] EXCEPT !.write = WriteFor(j, answer)]]
            /\ status' = [a \in Accounts |->
                 IF a \in owner[j] THEN StatusAfter(status[a], answer) ELSE status[a]]
    /\ UNCHANGED <<upstream, live, table, memory, hook, crashes>>

\* defer_job, the progress update, or finalize_job.
Apply(w) ==
    /\ poller[w].write # "none"
    /\ UpdateRow(Head(poller[w].batch), poller[w].write)
    /\ poller' = [poller EXCEPT ![w] = [batch |-> Tail(@.batch), write |-> "none"]]
    /\ UNCHANGED <<upstream, live, status, owner, memory, hook, crashes>>

\* webhook_firecrawl for the end of a job: delivered any number of times, or
\* never.  A call that finds no row, or a settled one, changes nothing.
HookFinds(j) ==
    /\ upstream[j] \in Terminal /\ record[j] \in Open
    /\ hook' = hook \cup {[job |-> j, state |-> upstream[j]]}
    /\ UNCHANGED <<upstream, live, status, table, memory, poller, crashes>>

\* settle_async_job.
HookSettles(h) ==
    /\ h \in hook /\ hook' = hook \ {h}
    /\ UpdateRow(h.job, h.state)
    /\ UNCHANGED <<upstream, live, status, owner, memory, poller, crashes>>

-----------------------------------------------------------------------------
(* The console and the process.                                            *)

\* Deleting an account nulls provider_account_id (on delete set null).
DeleteAccount(a) ==
    /\ a \in live /\ live' = live \ {a}
    /\ owner' = [j \in Jobs |-> owner[j] \ {a}]
    /\ UNCHANGED <<upstream, status, record, due, memory, poller, hook, crashes>>

\* The process stops, in whatever way (nothing is drained at exit), and starts.
Crash ==
    /\ crashes < MaxCrashes /\ crashes' = crashes + 1
    /\ sub' = [s \in Submissions |->
                 IF sub[s].pc \in {"idle", "done"} THEN sub[s]
                 ELSE [sub[s] EXCEPT !.pc = "lost"]]
    /\ queue' = <<>> /\ writer' = {} /\ hook' = {}
    /\ poller' = [w \in Pollers |-> IdlePoller]
    /\ UNCHANGED <<upstream, live, status, table>>

Persist(s) == LookUp(s) \/ Enqueue(s) \/ InsertLog(s) \/ InsertJob(s)

Reconcile(w) ==
    Scan(w) \/ Apply(w) \/ \E j \in Jobs, x \in PollAnswer : Poll(w, j, x)

\* No submission is on its way and nothing is left to poll.
Idle ==
    /\ \A s \in Submissions : sub[s].pc \in {"idle", "done", "lost"}
    /\ \A j \in Jobs : record[j] \notin Open
    /\ UNCHANGED vars

Next ==
    \/ \E s \in Submissions : Persist(s) \/ \E j \in Jobs, a \in Accounts : Accept(s, j, a)
    \/ Receive
    \/ \E j \in Jobs : BecomesDue(j) \/ HookFinds(j) \/ \E t \in Terminal : UpstreamEnds(j, t)
    \/ \E w \in Pollers : Reconcile(w)
    \/ \E h \in hook : HookSettles(h)
    \/ \E a \in Accounts : DeleteAccount(a)
    \/ Crash \/ Idle

\* Tasks run, the reconcilers' timers tick, and a poll that is sent for ever is
\* sometimes answered with the job's status.  Nothing is assumed of webhooks.
Fairness ==
    /\ \A s \in Submissions : WF_vars(Persist(s))
    /\ WF_vars(Receive)
    /\ \A j \in Jobs : WF_vars(BecomesDue(j))
    /\ \A w \in Pollers :
         /\ WF_vars(Reconcile(w))
         /\ \A j \in Jobs \ Unpollable : SF_vars(Poll(w, j, "status"))

Spec == Init /\ [][Next]_vars /\ Fairness

-----------------------------------------------------------------------------
(* Properties.                                                             *)

\* Shapes of rows, bundles and batches; the queue respects its capacity, and a job
\* is due at most once, and only while it is open: a settled job never comes back
\* to the list.
TypeOK ==
    /\ upstream \in [Jobs -> {Untracked, "running"} \cup Terminal]
    /\ live \subseteq Accounts
    /\ status \in [Accounts -> {"active", "cooldown", "disabled"}]
    /\ record \in [Jobs -> {Untracked} \cup Open \cup Terminal]
    /\ owner \in [Jobs -> SUBSET Accounts]
    /\ due \in Seq(Jobs) /\ IsInjective(due) /\ \A j \in ToSet(due) : record[j] \in Open
    /\ sub \in [Submissions -> Submission]
    /\ queue \in Seq(Submissions) /\ Len(queue) <= QueueCapacity
    /\ writer \subseteq Submissions
    /\ poller \in [Pollers -> Poller] /\ hook \subseteq Hook /\ crashes \in Nat

\* Whatever pollers, console runs and webhooks do at the same time, a job's row
\* only opens for a job the provider accepted, is settled once, in the state
\* the provider ended it in, and never changes after that.
SettledOnce == Lifecycle!Spec

\* No accepted job falls between the lookup, the queue, the fallback and the
\* writer: if its request is done the job has a row, if it is waiting it is in
\* the queue or with the writer, and it is given up only after a restart or
\* when the account that submitted it has been deleted.
AcceptedNotForgotten ==
    \A s \in Submissions :
        /\ sub[s].pc = "done" => \A j \in sub[s].job : record[j] # Untracked
        /\ sub[s].pc = "queued" => Contains(queue, s)
        /\ sub[s].pc = "writing" => s \in writer
        /\ sub[s].pc = "lost" => crashes > 0 \/ ~(sub[s].acc \subseteq live)

\* Every accepted submission is decided: the writer is never stuck.
BundlesDecided ==
    \A s \in Submissions : (sub[s].pc = "accepted") ~> (sub[s].pc \in {"done", "lost"})

\* A tracked job the provider has ended is eventually settled even if every
\* webhook for it is lost or came before its row did, provided its account
\* is not deleted and it can be polled at all: it starves neither behind more due
\* jobs than a batch takes, some of which are deferred for ever, nor behind those
\* whose poll always fails with an error and leaves them due, as long as these are
\* fewer than a batch takes (as many would fill every batch).
TrackedIsSettled ==
    Cardinality(Unpollable) < BatchLimit =>
        \A j \in Jobs \ Unpollable :
            (record[j] \in Open /\ upstream[j] \in Terminal)
                ~> (record[j] \in Terminal \/ owner[j] = {})

=============================================================================
