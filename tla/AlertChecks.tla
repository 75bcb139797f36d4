----------------------------- MODULE AlertChecks ----------------------------
(***************************************************************************)
(* The background alert checker: at every interval it lists the enabled      *)
(* rules and takes them one by one; a rule that was not triggered lately and *)
(* whose condition holds is posted to its webhook, and only a delivery that  *)
(* succeeded silences it for a while. Operators edit rules meanwhile.        *)
(*                                                                         *)
(* Times are kept as ages: how long ago a thing happened, no longer than it  *)
(* matters. The unit is the longest a webhook call can take.                 *)
(***************************************************************************)
EXTENDS Integers, Sequences, FiniteSets

CONSTANTS
    Rules, Accounts,
    AccountRules,   \* rules of kind account_disabled
    Threshold,      \* their threshold_value
    Interval,       \* WDAPM_ALERT_CHECK_INTERVAL_SECONDS
    Lookback,       \* how recently an account must have been disabled to count
    Window,         \* ALERT_RETRIGGER_WINDOW_SECONDS
    DeadEndpoints,  \* rules whose webhook never answers with success
    MayFail,        \* whether queries, updates and deliveries may fail
    MaxEdits, MaxCrashes    \* bounds

ASSUME AlertAssumption ==
    /\ IsFiniteSet(Rules) /\ AccountRules \subseteq Rules /\ DeadEndpoints \subseteq Rules
    /\ {Threshold, Interval, Window} \subseteq Nat \ {0}
    /\ {Lookback, MaxEdits, MaxCrashes} \subseteq Nat /\ MayFail \in BOOLEAN

VARIABLES
    row,        \* each rule's row in alert_rules: absent, or on or off
    table,      \* the rules that were ever created, in the order of their rows
    age,        \* time since last_triggered_at; Window if null or long ago
    edits,      \* console updates that have read the row and not yet written
    disabled,   \* time since each account was disabled by a refusal
    standing,   \* rules of other kinds whose condition holds now
    phase, due, \* the timer: time since its last tick, and a tick not yet taken
    check,      \* the pass: what is left of its list, the rule at hand
    edited, crashed,    \* counters for the bounds
    quiet,      \* history: time since the last acknowledged delivery
    unmarked,   \* history: rules whose last delivery could not be recorded
    reported    \* history: disabled accounts that a delivered alert counted

timer == <<phase, due>>
history == <<quiet, unmarked, reported>>
vars == <<row, table, age, edits, disabled, standing, timer, check, edited, crashed, history>>

NotDisabled == -1
Horizon == Lookback + Cardinality(Rules) + 1
Older(n, limit) == IF n < limit THEN n + 1 ELSE n

Check == [pc : {"idle", "next", "deliver", "mark"},
          todo : SUBSET Rules, ripe : SUBSET Rules,
          rule : SUBSET Rules, counted : SUBSET Accounts,
          elapsed : 0..Cardinality(Rules), slow : BOOLEAN]
Idle == [pc |-> "idle", todo |-> {}, ripe |-> {}, rule |-> {}, counted |-> {},
         elapsed |-> 0, slow |-> FALSE]

Init ==
    /\ row = [r \in Rules |-> "never"] /\ table = <<>>
    /\ age = [r \in Rules |-> Window]
    /\ edits = {} /\ disabled = [a \in Accounts |-> NotDisabled] /\ standing = {}
    /\ phase = 0 /\ due = TRUE /\ check = Idle
    /\ edited = 0 /\ crashed = 0
    /\ quiet = [r \in Rules |-> Window] /\ unmarked = {} /\ reported = {}

(***************************************************************************)
(* Surroundings                                                            *)
(***************************************************************************)
\* Time passes between two passes and while a webhook is called; everything
\* else is quick.
Tick ==
    /\ \/ check.pc = "idle" /\ ~due
       \/ check.pc = "deliver" /\ ~check.slow
    /\ phase' = (phase + 1) % Interval
    /\ due' = (due \/ phase' = 0)
    /\ check' = IF check.pc = "idle" THEN check
                ELSE [check EXCEPT !.slow = TRUE, !.elapsed = @ + 1]
    /\ age' = [r \in Rules |-> Older(age[r], Window)]
    /\ quiet' = [r \in Rules |-> Older(quiet[r], Window)]
    /\ disabled' = [a \in Accounts |-> IF disabled[a] = NotDisabled THEN NotDisabled
                                       ELSE Older(disabled[a], Horizon)]
    /\ UNCHANGED <<row, table, edits, standing, edited, crashed, unmarked, reported>>

\* record_provider_account_disabled, which a late refusal of another request may
\* repeat, and an operator who enables the account again.
AccountChanges(a) ==
    /\ \/ /\ disabled' = [disabled EXCEPT ![a] = 0]
          /\ UNCHANGED reported
       \/ /\ disabled[a] # NotDisabled
          /\ disabled' = [disabled EXCEPT ![a] = NotDisabled]
          /\ reported' = reported \ {a}
    /\ UNCHANGED <<row, table, age, edits, standing, timer, check, edited, crashed, quiet, unmarked>>

ConditionChanges(r) ==
    /\ r \notin AccountRules
    /\ \/ standing' = standing \cup {r}
       \/ standing' = standing \ {r}
    /\ UNCHANGED <<row, table, age, edits, disabled, timer, check, edited, crashed, history>>

CreateRule(r, state) ==
    /\ row[r] = "never"
    /\ row' = [row EXCEPT ![r] = state]
    /\ table' = Append(table, r)
    /\ UNCHANGED <<age, edits, disabled, standing, timer, check, edited, crashed, history>>

DeleteRule(r) ==
    /\ row[r] \in {"on", "off"} /\ edited < MaxEdits
    /\ row' = [row EXCEPT ![r] = "deleted"]
    /\ edited' = edited + 1
    /\ UNCHANGED <<table, age, edits, disabled, standing, timer, check, crashed, history>>

\* update_alert_rule: what the operator does not set is written back as read.
ReadRule(r, state) ==
    /\ row[r] \in {"on", "off"} /\ edited < MaxEdits
    /\ edited' = edited + 1
    /\ edits' = edits \cup {[id |-> edited, rule |-> r, state |-> state]}
    /\ UNCHANGED <<row, table, age, disabled, standing, timer, check, crashed, history>>

WriteRule(e) ==
    /\ row' = IF row[e.rule] \in {"on", "off"} THEN [row EXCEPT ![e.rule] = e.state] ELSE row
    /\ edits' = edits \ {e}
    /\ UNCHANGED <<table, age, disabled, standing, timer, check, edited, crashed, history>>

(***************************************************************************)
(* check_alerts                                                            *)
(***************************************************************************)
\* Mutant: the window is cut short.
ShouldTriggerEarly(r) == age[r] >= Window - 1

\* should_trigger_alert, on the row as listed and the time of the pass
ShouldTrigger(r) == age[r] >= Window

\* list_enabled_alert_rules
EnabledRules == {r \in Rules : row[r] = "on"}

\* The list asks for no order and has that of the rows.
Precedes(r, q) == \E i, j \in DOMAIN table : i < j /\ table[i] = r /\ table[j] = q
IsNext(r) == check.pc = "next" /\ r \in check.todo /\ \A q \in check.todo \ {r} : Precedes(r, q)

StartPass ==
    /\ due /\ check.pc = "idle"
    /\ due' = FALSE
    /\ \/ check' = [check EXCEPT !.pc = "next", !.todo = EnabledRules,
                        !.ripe = {r \in EnabledRules : ShouldTrigger(r)}]
       \/ MayFail /\ UNCHANGED check
    /\ UNCHANGED <<row, table, age, edits, disabled, standing, phase, edited, crashed, history>>

EndPass ==
    /\ check.pc = "next" /\ check.todo = {}
    /\ check' = Idle
    /\ UNCHANGED <<row, table, age, edits, disabled, standing, timer, edited, crashed, history>>

\* count_recently_disabled_accounts since Lookback before the pass began
Counted == {a \in Accounts : disabled[a] # NotDisabled /\ disabled[a] =< Lookback + check.elapsed}

Holds(r) == IF r \in AccountRules THEN Cardinality(Counted) >= Threshold ELSE r \in standing

SkipRule(r) ==
    /\ IsNext(r) /\ (r \notin check.ripe \/ ~Holds(r))
    /\ check' = [check EXCEPT !.todo = @ \ {r}, !.ripe = @ \ {r}]
    /\ UNCHANGED <<row, table, age, edits, disabled, standing, timer, edited, crashed, history>>

FireRule(r) ==
    /\ IsNext(r) /\ r \in check.ripe /\ Holds(r)
    /\ check' = [check EXCEPT !.pc = "deliver", !.todo = @ \ {r}, !.ripe = @ \ {r},
                     !.rule = {r}, !.counted = IF r \in AccountRules THEN Counted ELSE {}]
    /\ UNCHANGED <<row, table, age, edits, disabled, standing, timer, edited, crashed, history>>

\* Mutant: an error forgets the pass only in part.
QueryFailsQuietly ==
    /\ MayFail /\ \E r \in check.ripe : IsNext(r)
    /\ check' = [check EXCEPT !.pc = "idle"]
    /\ UNCHANGED <<row, table, age, edits, disabled, standing, timer, edited, crashed, history>>

\* An error of a condition's query ends the pass.
QueryFails ==
    /\ MayFail /\ \E r \in check.ripe : IsNext(r)
    /\ check' = Idle
    /\ UNCHANGED <<row, table, age, edits, disabled, standing, timer, edited, crashed, history>>

Continue == [check EXCEPT !.pc = "next", !.rule = {}, !.counted = {}, !.slow = FALSE]

Delivered(r) ==
    /\ check.pc = "deliver" /\ r \in check.rule /\ r \notin DeadEndpoints
    /\ check' = [check EXCEPT !.pc = "mark"]
    /\ quiet' = [quiet EXCEPT ![r] = 0]
    /\ unmarked' = unmarked \cup {r}
    /\ reported' = reported \cup {a \in check.counted : disabled[a] # NotDisabled}
    /\ UNCHANGED <<row, table, age, edits, disabled, standing, timer, edited, crashed>>

\* Mutant: a failed delivery ends the pass.
NotDeliveredStops ==
    /\ check.pc = "deliver" /\ (MayFail \/ check.rule \subseteq DeadEndpoints)
    /\ check' = Idle
    /\ UNCHANGED <<row, table, age, edits, disabled, standing, timer, edited, crashed, history>>

\* Mutant: a failed delivery counts as triggered.
NotDeliveredCounts ==
    /\ check.pc = "deliver" /\ (MayFail \/ check.rule \subseteq DeadEndpoints)
    /\ check' = Continue
    /\ age' = [r \in Rules |-> IF r \in check.rule THEN 0 ELSE age[r]]
    /\ UNCHANGED <<row, table, edits, disabled, standing, timer, edited, crashed, history>>

\* Refused, or no answer: the rule stays ripe for the next pass.
NotDelivered ==
    /\ check.pc = "deliver" /\ (MayFail \/ check.rule \subseteq DeadEndpoints)
    /\ check' = Continue
    /\ UNCHANGED <<row, table, age, edits, disabled, standing, timer, edited, crashed, history>>

\* update_alert_rule_triggered, which writes nothing if the row is gone.
Mark(r) ==
    /\ check.pc = "mark" /\ r \in check.rule
    /\ age' = IF row[r] \in {"on", "off"} THEN [age EXCEPT ![r] = 0] ELSE age
    /\ unmarked' = unmarked \ {r}
    /\ check' = Continue
    /\ UNCHANGED <<row, table, edits, disabled, standing, timer, edited, crashed, quiet, reported>>

MarkFails ==
    /\ MayFail /\ check.pc = "mark"
    /\ check' = Continue
    /\ UNCHANGED <<row, table, age, edits, disabled, standing, timer, edited, crashed, history>>

\* After a restart the timer ticks at once.
Crash ==
    /\ crashed < MaxCrashes
    /\ crashed' = crashed + 1
    /\ phase' = 0 /\ due' = TRUE /\ check' = Idle
    /\ UNCHANGED <<row, table, age, edits, disabled, standing, edited, history>>

Next ==
    \/ Tick \/ Crash
    \/ \E a \in Accounts : AccountChanges(a)
    \/ \E r \in Rules :
         \/ ConditionChanges(r) \/ DeleteRule(r)
         \/ \E state \in {"on", "off"} : CreateRule(r, state) \/ ReadRule(r, state)
         \/ SkipRule(r) \/ FireRule(r) \/ Delivered(r) \/ Mark(r)
    \/ \E e \in edits : WriteRule(e)
    \/ StartPass \/ EndPass \/ QueryFails \/ NotDelivered \/ MarkFails

Spec == Init /\ [][Next]_vars

\* The clock and the task run; a query, an update or a webhook that is not
\* dead does not fail for ever.
Fairness ==
    /\ WF_vars(Tick) /\ WF_vars(EndPass)
    /\ WF_vars(NotDelivered) /\ WF_vars(MarkFails \/ \E r \in Rules : Mark(r))
    /\ SF_vars(StartPass /\ check'.pc = "next") /\ SF_vars(\E r \in Rules : SkipRule(r))
    /\ \A r \in Rules : SF_vars(FireRule(r)) /\ SF_vars(Delivered(r))

FairSpec == Spec /\ Fairness

-----------------------------------------------------------------------------
\* Types, and that a pass which is over leaves nothing behind. The table has one
\* row for each rule created, and a pass never takes longer than the ages tell
\* apart: no rule comes up twice in it.
TypeOK ==
    /\ row \in [Rules -> {"never", "on", "off", "deleted"}]
    /\ table \in Seq(Rules)
    /\ \A r \in Rules : row[r] # "never" <=> \E i \in DOMAIN table : table[i] = r
    /\ \A i, j \in DOMAIN table : table[i] = table[j] => i = j
    /\ age \in [Rules -> 0..Window] /\ quiet \in [Rules -> 0..Window]
    /\ \A e \in edits : e.rule \in Rules /\ e.state \in {"on", "off"}
    /\ disabled \in [Accounts -> {NotDisabled} \cup 0..Horizon]
    /\ standing \subseteq Rules \ AccountRules
    /\ phase \in 0..(Interval - 1) /\ due \in BOOLEAN
    /\ check \in Check /\ (check.pc = "idle" => check = Idle)
    /\ unmarked \subseteq Rules /\ reported \subseteq Accounts

\* A webhook is not called again within the window of a delivery it has
\* acknowledged, unless that delivery could not be recorded: neither a slow
\* pass nor an edit of the rule brings the next call forward.
DeliveriesSpaced ==
    [][\A r \in Rules : FireRule(r) => quiet[r] >= Window \/ r \in unmarked]_vars

\* A rule falls silent only after its webhook has acknowledged a delivery, and
\* for no longer than the window from then.
SilenceIsEarned ==
    \A r \in Rules : quiet[r] =< age[r]

\* A condition that goes on is reported again and again, whatever other rules'
\* webhooks do.
StandingIsReported ==
    \A r \in Rules \ (AccountRules \cup DeadEndpoints) :
        <>[](row[r] = "on" /\ r \in standing) => []<>(quiet[r] = 0)

\* README: alert rules "continuously monitor the health status of accounts".
\* With a rule of threshold 1 in force and a webhook that answers, an account
\* that is refused by the upstream is reported sooner or later.
DisabledIsReported ==
    \A a \in Accounts :
        (disabled[a] = 0 /\ \E r \in AccountRules : row[r] = "on")
            ~> (a \in reported \/ disabled[a] = NotDisabled)

=============================================================================
