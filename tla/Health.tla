------------------------------- MODULE Health -------------------------------
(***************************************************************************)
(* The health columns of a row of provider_accounts or egress_proxies and  *)
(* what each UPDATE statement of StorageService makes of them.  A row is   *)
(* shared by every in-flight request, by the reconcilers and by the        *)
(* operator's console, and each writer issues its statement without        *)
(* looking at the row first: what the row says is the composition of these *)
(* operators in whatever order the statements commit.                      *)
(*                                                                         *)
(* Time is counted in ticks of one minute, the unit of the shortest        *)
(* cooldown; a NULL timestamp is Never, which lies before every tick.      *)
(***************************************************************************)
EXTENDS Integers

CONSTANT DecayWindow    \* failure_decay_window_secs, in ticks (10 in the code)

ASSUME DecayWindowAssumption == DecayWindow \in Nat \ {0}

Never == -1
Timestamp == Nat \cup {Never}
Status == {"active", "cooldown", "disabled"}

\* A proxy has no last_failure_at column: its field stays Never.
Row == [enabled : BOOLEAN, status : Status, cooldown_until : Timestamp,
        failures : Nat, last_failure : Timestamp]

\* A row as create_provider_account and create_egress_proxy insert it.
FreshRow(enabled) ==
    [enabled |-> enabled, status |-> IF enabled THEN "active" ELSE "disabled",
     cooldown_until |-> Never, failures |-> 0, last_failure |-> Never]

\* The WHERE clause of the two list_routable_... queries.
Routable(row, now) ==
    row.enabled /\ row.status # "disabled" /\ row.cooldown_until <= now

\* calculate_cooldown_seconds, in minutes: doubled per failure up to 2^4.
\* The random fifth more or less is left out: what a row may become does not
\* depend on when exactly a cooldown ends.
CooldownTicks(failures) ==
    <<1, 2, 4, 8, 16>>[1 + (IF failures < 4 THEN failures ELSE 4)]

\* Mutant: a success makes the whole row as good as new.
SuccessRenews(row) == FreshRow(TRUE)

\* record_..._success: everything but `enabled` is reset.
Success(row) ==
    [row EXCEPT !.status = "active", !.cooldown_until = Never,
                !.failures = 0, !.last_failure = Never]

\* record_provider_account_cooldown.  The length comes from the failure count
\* the caller read when it chose the row, the increment from the row itself.
Cooldown(row, now, seenFailures) ==
    [row EXCEPT !.status = "cooldown",
                !.cooldown_until = now + CooldownTicks(seenFailures),
                !.failures = @ + 1, !.last_failure = now]

\* record_egress_proxy_cooldown.
ProxyCooldown(row, now, seenFailures) ==
    [Cooldown(row, now, seenFailures) EXCEPT !.last_failure = Never]

\* record_provider_account_disabled.
Disable(row, now) ==
    [row EXCEPT !.enabled = FALSE, !.status = "disabled", !.cooldown_until = Never,
                !.failures = @ + 1, !.last_failure = now]

\* record_provider_account_failure.
Failure(row, now) == [row EXCEPT !.failures = @ + 1, !.last_failure = now]

\* set_provider_account_enabled, and an update that carries `enabled`.
SetEnabled(row, enabled) ==
    [row EXCEPT !.enabled = enabled, !.cooldown_until = Never,
                !.status = IF enabled THEN "active" ELSE "disabled"]

\* The write of update_provider_account or update_egress_proxy that carries no
\* `enabled`: it puts back the three columns as they were when it read the row.
PutBack(row, seen) ==
    [row EXCEPT !.enabled = seen.enabled, !.status = seen.status,
                !.cooldown_until = seen.cooldown_until]

\* effective_failures of the scheduler: linear decay, rounded up.
EffectiveFailures(row, now) ==
    LET elapsed == IF row.last_failure = Never THEN 0 ELSE now - row.last_failure
    IN  IF elapsed >= DecayWindow THEN 0
        ELSE (row.failures * (DecayWindow - elapsed) + DecayWindow - 1) \div DecayWindow

=============================================================================
