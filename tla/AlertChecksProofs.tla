------------------------- MODULE AlertChecksProofs --------------------------
(***************************************************************************)
(* The alert checker, for any rules, any timing and any failures: its types  *)
(* and the length of a pass; a rule is silent no longer than the window      *)
(* after a delivery that its webhook acknowledged; and a webhook that has    *)
(* acknowledged one is not called again within the window.                   *)
(***************************************************************************)
EXTENDS AlertChecks, FiniteSetTheorems, TLAPS

(***************************************************************************)
(* What keeps quiet from lagging behind age is that nothing takes time       *)
(* between an acknowledged delivery and its record, and that a pass has one  *)
(* rule at hand.                                                             *)
(***************************************************************************)
InHand ==
    /\ check.pc = "mark" => \E r \in Rules : check.rule = {r} /\ quiet[r] = 0
    /\ check.pc = "deliver" => \E r \in Rules : check.rule = {r}

\* A rule that is at hand is not in the rest of the list, and both are of rules
\* that have been created.
Lineup ==
    /\ check.ripe \subseteq check.todo /\ check.rule \cap check.todo = {}
    /\ \A r \in check.rule \cup check.todo : row[r] # "never"

\* Each webhook call takes at most a unit of time, and no rule has two in a pass.
Called == IF check.pc = "deliver" /\ ~check.slow THEN 1 ELSE 0
Paced == check.elapsed + Called + Cardinality(check.todo) =< Cardinality(Rules)

\* The two ages of a rule agree unless a delivery went unrecorded, so what was
\* ripe when it was listed has been quiet since.
Spaced ==
    /\ \A r \in Rules \ unmarked : row[r] # "deleted" => quiet[r] = age[r]
    /\ \A r \in check.ripe \ unmarked : quiet[r] >= Window

Typed == TypeOK /\ Paced /\ Lineup
IInv == Typed /\ InHand /\ SilenceIsEarned /\ Spaced

USE AlertAssumption

LEMMA OlderTogether ==
    ASSUME NEW n \in Nat, NEW m \in Nat, NEW limit \in Nat, n =< m, m =< limit
    PROVE  /\ Older(n, limit) =< Older(m, limit)
           /\ Older(n, limit) \in 0..limit /\ Older(m, limit) \in 0..limit
           /\ m = n => Older(m, limit) = Older(n, limit)
           /\ n >= limit => Older(n, limit) >= limit
BY DEF Older

\* The rest of the list is finite, shorter than the table, and one shorter
\* without a rule that is in it.
LEMMA Lists ==
    /\ Cardinality(Rules) \in Nat
    /\ \A s \in SUBSET Rules : /\ Cardinality(s) \in Nat /\ Cardinality(s) =< Cardinality(Rules)
                               /\ \A r \in s : Cardinality(s \ {r}) = Cardinality(s) - 1
<1>1. Cardinality(Rules) \in Nat
    BY FS_CardinalityType
<1>2. ASSUME NEW s \in SUBSET Rules
      PROVE  /\ Cardinality(s) \in Nat /\ Cardinality(s) =< Cardinality(Rules)
             /\ \A r \in s : Cardinality(s \ {r}) = Cardinality(s) - 1
    <2>1. IsFiniteSet(s) /\ Cardinality(s) =< Cardinality(Rules)
        BY FS_Subset
    <2> QED BY <2>1, FS_CardinalityType, FS_RemoveElement
<1> QED BY <1>1, <1>2

LEMMA TypedInit == Init => Typed
<1> SUFFICES ASSUME Init PROVE Typed
    OBVIOUS
<1>1. Cardinality({}) = 0 /\ Cardinality(Rules) \in Nat
    BY FS_EmptySet, Lists
<1>2. check \in Check /\ Paced /\ Lineup
    BY <1>1 DEF Init, Idle, Check, Paced, Called, Lineup
<1>3. Window \in 0..Window /\ Interval - 1 \in Nat
    OBVIOUS
<1>4. TypeOK
    BY <1>2, <1>3 DEF Init, TypeOK
<1> QED BY <1>2, <1>4 DEF Typed

\* A row more at the end of the table.
LEMMA RowMore ==
    ASSUME NEW s \in Seq(Rules), NEW r \in Rules
    PROVE  /\ Append(s, r) \in Seq(Rules)
           /\ \A q \in Rules : (\E i \in DOMAIN Append(s, r) : Append(s, r)[i] = q)
                                <=> (q = r \/ \E i \in DOMAIN s : s[i] = q)
           /\ (\A i, j \in DOMAIN s : s[i] = s[j] => i = j) /\ (\A i \in DOMAIN s : s[i] # r)
                => \A i, j \in DOMAIN Append(s, r) : Append(s, r)[i] = Append(s, r)[j] => i = j
<1> DEFINE t == Append(s, r)
<1>1. /\ t \in Seq(Rules) /\ DOMAIN t = 1..(Len(s) + 1)
      /\ DOMAIN s = 1..Len(s) /\ Len(s) \in Nat
      /\ \A i \in DOMAIN s : t[i] = s[i]
      /\ t[Len(s) + 1] = r
    OBVIOUS
<1> HIDE DEF t
<1>2. DOMAIN t = DOMAIN s \cup {Len(s) + 1}
    BY <1>1
<1>3. ASSUME NEW q \in Rules
      PROVE  (\E i \in DOMAIN t : t[i] = q) <=> (q = r \/ \E i \in DOMAIN s : s[i] = q)
    BY <1>1, <1>2
<1>4. (\A i, j \in DOMAIN s : s[i] = s[j] => i = j) /\ (\A i \in DOMAIN s : s[i] # r)
        => \A i, j \in DOMAIN t : t[i] = t[j] => i = j
    BY <1>1, <1>2
<1> QED BY <1>1, <1>3, <1>4 DEF t

\* The surroundings.
LEMMA TypedOutside ==
    ASSUME Typed,
           \/ \E a \in Accounts : AccountChanges(a)
           \/ \E r \in Rules : \/ ConditionChanges(r) \/ DeleteRule(r)
                               \/ \E state \in {"on", "off"} : CreateRule(r, state) \/ ReadRule(r, state)
           \/ \E e \in edits : WriteRule(e)
           \/ UNCHANGED vars
    PROVE  Typed'
<1> USE DEF Typed, TypeOK, Paced, Called, Lineup, history, timer
<1>1. ASSUME NEW a \in Accounts, AccountChanges(a) PROVE Typed'
    <2>1. 0 \in 0..Horizon
        BY Lists DEF Horizon
    <2>2. /\ disabled' = [disabled EXCEPT ![a] = 0] \/ disabled' = [disabled EXCEPT ![a] = NotDisabled]
          /\ reported' \subseteq reported
          /\ UNCHANGED <<row, table, age, edits, standing, phase, due, check, quiet, unmarked>>
        BY <1>1 DEF AccountChanges
    <2>3. disabled' \in [Accounts -> {NotDisabled} \cup 0..Horizon]
        BY <2>1, <2>2
    <2> QED BY <2>2, <2>3
<1>2. ASSUME NEW r \in Rules, ConditionChanges(r) PROVE Typed'
    BY <1>2 DEF ConditionChanges
<1>3. ASSUME NEW r \in Rules, DeleteRule(r) PROVE Typed'
    BY <1>3 DEF DeleteRule
<1>4. ASSUME NEW r \in Rules, NEW state \in {"on", "off"}, CreateRule(r, state) PROVE Typed'
    <2>1. /\ row' = [row EXCEPT ![r] = state] /\ row[r] = "never" /\ table' = Append(table, r)
          /\ UNCHANGED <<age, edits, disabled, standing, phase, due, check, quiet, unmarked, reported>>
        BY <1>4 DEF CreateRule
    <2>2. \A i \in DOMAIN table : table[i] # r
        BY <2>1
    <2>3. /\ table' \in Seq(Rules)
          /\ \A q \in Rules : (\E i \in DOMAIN table' : table'[i] = q)
                              <=> (q = r \/ \E i \in DOMAIN table : table[i] = q)
          /\ \A i, j \in DOMAIN table' : table'[i] = table'[j] => i = j
        <3>1. table \in Seq(Rules) /\ \A i, j \in DOMAIN table : table[i] = table[j] => i = j
            OBVIOUS
        <3> HIDE DEF Typed, TypeOK, Paced, Called, Lineup, history, timer
        <3>2. /\ Append(table, r) \in Seq(Rules)
              /\ \A q \in Rules : (\E i \in DOMAIN Append(table, r) : Append(table, r)[i] = q)
                                  <=> (q = r \/ \E i \in DOMAIN table : table[i] = q)
              /\ \A i, j \in DOMAIN Append(table, r) :
                   Append(table, r)[i] = Append(table, r)[j] => i = j
            BY <2>2, <3>1, RowMore, Zenon
        <3> QED BY <2>1, <3>2, Zenon
    <2>4. \A q \in Rules : row'[q] # "never" <=> \E i \in DOMAIN table' : table'[i] = q
        BY <2>1, <2>3
    <2>5. row' \in [Rules -> {"never", "on", "off", "deleted"}] /\ Lineup'
        BY <2>1
    <2>6. TypeOK'
        BY <2>1, <2>3, <2>4, <2>5
    <2>7. Paced'
        BY <2>1
    <2> HIDE DEF Lineup, TypeOK, Paced
    <2> QED BY <2>5, <2>6, <2>7
<1>5. ASSUME NEW r \in Rules, NEW state \in {"on", "off"}, ReadRule(r, state) PROVE Typed'
    BY <1>5 DEF ReadRule
<1>6. ASSUME NEW e \in edits, WriteRule(e) PROVE Typed'
    BY <1>6 DEF WriteRule
<1>7. CASE UNCHANGED vars
    BY <1>7 DEF vars
<1> HIDE DEF Typed, TypeOK, Paced, Called, Lineup, history, timer
<1> QED BY <1>1, <1>2, <1>3, <1>4, <1>5, <1>6, <1>7

\* A pass as a function of its fields, for updates of some of them.
Fields == {"pc", "todo", "ripe", "rule", "counted", "elapsed", "slow"}
Shape(c) == DOMAIN c = Fields /\ c = [f \in Fields |-> c[f]]
Fits(c) ==
    /\ c.pc \in {"idle", "next", "deliver", "mark"}
    /\ c.todo \in SUBSET Rules /\ c.ripe \in SUBSET Rules
    /\ c.rule \in SUBSET Rules /\ c.counted \in SUBSET Accounts
    /\ c.elapsed \in 0..Cardinality(Rules) /\ c.slow \in BOOLEAN

LEMMA Passes == \A c : c \in Check <=> Shape(c) /\ Fits(c)
<1>1. ASSUME NEW c \in Check PROVE Shape(c) /\ Fits(c)
    BY DEF Check, Shape, Fits, Fields
<1>2. ASSUME NEW c, Shape(c), Fits(c) PROVE c \in Check
    BY <1>2 DEF Check, Shape, Fits, Fields
<1> QED BY <1>1, <1>2

\* The pass, its timer and a restart.
LEMMA TypedTask ==
    ASSUME Typed, InHand,
           \/ Tick \/ Crash \/ StartPass \/ EndPass \/ QueryFails \/ NotDelivered \/ MarkFails
           \/ \E r \in Rules : SkipRule(r) \/ FireRule(r) \/ Delivered(r) \/ Mark(r)
    PROVE  Typed'
<1> USE DEF Typed, history, timer
<1>0. /\ Cardinality(Rules) \in Nat /\ Cardinality({}) = 0
      /\ \A s \in SUBSET Rules : /\ Cardinality(s) \in Nat /\ Cardinality(s) =< Cardinality(Rules)
                                 /\ \A r \in s : Cardinality(s \ {r}) = Cardinality(s) - 1
    BY Lists, FS_EmptySet
<1>c. Shape(check) /\ Fits(check)
    BY Passes DEF TypeOK
<1>1. CASE Tick
    <2>1. /\ Shape(check') /\ Fits(check') /\ Paced' /\ (check'.pc = "idle" => check' = Idle)
          /\ check'.todo = check.todo /\ check'.ripe = check.ripe /\ check'.rule = check.rule
        <3>1. CASE check.pc = "idle"
            <4>1. check' = check
                BY <1>1, <3>1 DEF Tick
            <4> QED BY <1>c, <4>1 DEF TypeOK, Paced, Called
        <3>2. CASE check.pc # "idle"
            <4>1. /\ check.pc = "deliver" /\ ~check.slow
                  /\ check' = [check EXCEPT !.slow = TRUE, !.elapsed = @ + 1]
                BY <1>1, <3>2 DEF Tick
            <4>2. /\ Shape(check') /\ check'.slow = TRUE /\ check'.elapsed = check.elapsed + 1
                  /\ check'.pc = check.pc /\ check'.todo = check.todo /\ check'.ripe = check.ripe
                  /\ check'.rule = check.rule /\ check'.counted = check.counted
                BY <1>c, <4>1 DEF Shape, Fields
            <4>3. check.elapsed \in Nat /\ Cardinality(check.todo) \in Nat
                BY <1>0, <1>c DEF Fits
            <4>4. check.elapsed + 1 + Cardinality(check.todo) =< Cardinality(Rules)
                BY <1>0, <4>1, <4>3 DEF Paced, Called
            <4>5. Fits(check') /\ Paced'
                BY <1>0, <1>c, <4>1, <4>2, <4>3, <4>4 DEF Fits, Paced, Called
            <4> QED BY <4>1, <4>2, <4>5
        <3> QED BY <3>1, <3>2
    <2>2. age' \in [Rules -> 0..Window] /\ quiet' \in [Rules -> 0..Window]
        BY <1>1, OlderTogether DEF Tick, TypeOK, Older
    <2>3. disabled' \in [Accounts -> {NotDisabled} \cup 0..Horizon]
        <3>1. Horizon \in Nat
            BY <1>0 DEF Horizon
        <3> QED BY <1>1, <3>1 DEF Tick, TypeOK, Older
    <2>4. phase' \in 0..(Interval - 1) /\ due' \in BOOLEAN
        <3>1. phase' = (phase + 1) % Interval /\ phase + 1 \in Nat /\ Interval \in Nat \ {0}
            BY <1>1 DEF Tick, TypeOK
        <3>2. phase' \in 0..(Interval - 1)
            BY <3>1
        <3> QED BY <1>1, <3>2 DEF Tick
    <2>5. UNCHANGED <<row, table, edits, standing, unmarked, reported>>
        BY <1>1 DEF Tick
    <2>6. TypeOK'
        BY Passes, <2>1, <2>2, <2>3, <2>4, <2>5 DEF TypeOK
    <2> QED BY <2>1, <2>5, <2>6 DEF Lineup
<1>2. CASE Crash \/ EndPass \/ QueryFails
    <2>1. /\ check' = Idle
          /\ UNCHANGED <<row, table, age, edits, disabled, standing, quiet, unmarked, reported>>
          /\ phase' \in 0..(Interval - 1) /\ due' \in BOOLEAN
        <3>1. 0 \in 0..(Interval - 1) /\ phase \in 0..(Interval - 1) /\ due \in BOOLEAN
            BY DEF TypeOK
        <3> QED BY <1>2, <3>1 DEF Crash, EndPass, QueryFails
    <2>2. Shape(check') /\ Fits(check') /\ Paced' /\ Lineup'
        BY <1>0, <2>1 DEF Idle, Paced, Called, Lineup, Shape, Fits, Fields
    <2>3. TypeOK'
        BY Passes, <2>1, <2>2 DEF TypeOK
    <2> QED BY <2>2, <2>3
<1>3. CASE StartPass
    <2> DEFINE ripe == {r \in EnabledRules : ShouldTrigger(r)}
    <2>1. /\ check.pc = "idle" /\ due' = FALSE
          /\ \/ check' = [check EXCEPT !.pc = "next", !.todo = EnabledRules, !.ripe = ripe]
             \/ UNCHANGED check
          /\ UNCHANGED <<row, table, age, edits, disabled, standing, phase, quiet, unmarked, reported>>
        BY <1>3 DEF StartPass
    <2>2. /\ check = Idle /\ EnabledRules \in SUBSET Rules /\ ripe \subseteq EnabledRules
          /\ \A r \in EnabledRules : row[r] # "never"
        BY <2>1 DEF TypeOK, EnabledRules
    <2> HIDE DEF ripe
    <2>3. \/ UNCHANGED check
          \/ /\ Shape(check') /\ check'.pc = "next" /\ check'.todo = EnabledRules /\ check'.ripe = ripe
             /\ check'.rule = {} /\ check'.counted = {} /\ check'.elapsed = 0 /\ check'.slow = FALSE
        BY <1>c, <2>1, <2>2 DEF Idle, Shape, Fields
    <2>4. /\ Shape(check') /\ Fits(check') /\ Paced' /\ Lineup'
          /\ check'.pc = "idle" => check' = Idle
        <3>1. CASE UNCHANGED check
            BY <1>c, <2>1, <2>2, <3>1 DEF Paced, Called, Lineup
        <3>2. CASE ~UNCHANGED check
            <4>1. Cardinality(EnabledRules) \in Nat /\ Cardinality(EnabledRules) =< Cardinality(Rules)
                BY <1>0, <2>2
            <4>2. Paced'
                BY <1>0, <2>3, <3>2, <4>1 DEF Paced, Called
            <4>3. Fits(check')
                <5>1. /\ check'.pc = "next" /\ check'.todo = EnabledRules /\ check'.ripe = ripe
                      /\ check'.rule = {} /\ check'.counted = {} /\ check'.elapsed = 0
                      /\ check'.slow = FALSE
                    BY <2>3, <3>2
                <5>2. ripe \in SUBSET Rules /\ EnabledRules \in SUBSET Rules
                    BY <2>2
                <5>3. 0 \in 0..Cardinality(Rules)
                    BY <1>0
                <5> QED BY <5>1, <5>2, <5>3, Zenon DEF Fits
            <4>4. Lineup'
                BY <2>1, <2>2, <2>3, <3>2 DEF Lineup
            <4> QED BY <2>3, <3>2, <4>2, <4>3, <4>4
        <3> QED BY <3>1, <3>2
    <2>5. TypeOK'
        BY Passes, <2>1, <2>4 DEF TypeOK
    <2> QED BY <2>4, <2>5
<1>4. ASSUME NEW r \in Rules, SkipRule(r) \/ FireRule(r) PROVE Typed'
    <2>1. /\ r \in check.todo /\ check.pc = "next"
          /\ \/ check' = [check EXCEPT !.todo = @ \ {r}, !.ripe = @ \ {r}]
             \/ \E c \in SUBSET Accounts :
                  check' = [check EXCEPT !.pc = "deliver", !.todo = @ \ {r}, !.ripe = @ \ {r},
                                !.rule = {r}, !.counted = c]
          /\ UNCHANGED <<row, table, age, edits, disabled, standing, phase, due, quiet, unmarked, reported>>
        BY <1>4 DEF SkipRule, FireRule, IsNext, Counted
    <2>2. /\ Shape(check') /\ check'.todo = check.todo \ {r} /\ check'.ripe = check.ripe \ {r}
          /\ check'.elapsed = check.elapsed /\ check'.slow = check.slow
          /\ \/ check'.pc = "next" /\ check'.rule = check.rule /\ check'.counted = check.counted
             \/ check'.pc = "deliver" /\ check'.rule = {r} /\ check'.counted \in SUBSET Accounts
        BY <1>c, <2>1 DEF Shape, Fields
    <2>3. Fits(check')
        BY <1>c, <2>2 DEF Fits
    <2>4. Lineup'
        BY <2>1, <2>2 DEF Lineup
    <2>5. Paced'
        <3>1. Called = 0 /\ (Called' = 0 \/ Called' = 1)
            <4>1. check.pc = "next"
                BY <2>1
            <4> QED BY <4>1 DEF Called
        <3>2. check.todo \in SUBSET Rules /\ r \in check.todo /\ check.elapsed \in Nat
            <4>1. r \in check.todo
                BY <2>1
            <4> QED BY <1>0, <1>c, <4>1 DEF Fits
        <3>3. /\ Cardinality(check.todo \ {r}) = Cardinality(check.todo) - 1
              /\ Cardinality(check.todo) \in Nat
            BY <1>0, <3>2
        <3> QED BY <1>0, <2>2, <3>1, <3>2, <3>3 DEF Paced
    <2>6. TypeOK'
        BY Passes, <2>1, <2>2, <2>3 DEF TypeOK
    <2> QED BY <2>4, <2>5, <2>6
<1>5. ASSUME NEW r \in Rules, Delivered(r) PROVE Typed'
    <2>1. /\ check.pc = "deliver" /\ check' = [check EXCEPT !.pc = "mark"]
          /\ quiet' = [quiet EXCEPT ![r] = 0] /\ unmarked' = unmarked \cup {r}
          /\ reported' \subseteq reported \cup check.counted
          /\ UNCHANGED <<row, table, age, edits, disabled, standing, phase, due>>
        BY <1>5 DEF Delivered
    <2>2. /\ Shape(check') /\ check'.pc = "mark" /\ check'.todo = check.todo
          /\ check'.ripe = check.ripe /\ check'.rule = check.rule /\ check'.counted = check.counted
          /\ check'.elapsed = check.elapsed /\ check'.slow = check.slow
        BY <1>c, <2>1 DEF Shape, Fields
    <2>3. Fits(check') /\ Lineup'
        BY <1>c, <2>1, <2>2 DEF Fits, Lineup
    <2>4. Paced'
        BY <1>0, <1>c, <2>2 DEF Fits, Paced, Called
    <2>5. quiet' \in [Rules -> 0..Window] /\ reported' \subseteq Accounts
        BY <1>c, <2>1 DEF TypeOK, Fits
    <2>6. TypeOK'
        BY Passes, <2>1, <2>2, <2>3, <2>5 DEF TypeOK
    <2> QED BY <2>3, <2>4, <2>6
<1>6. CASE NotDelivered \/ MarkFails \/ \E r \in Rules : Mark(r)
    <2>1. /\ check' = [check EXCEPT !.pc = "next", !.rule = {}, !.counted = {}, !.slow = FALSE]
          /\ age' = age \/ \E r \in Rules : age' = [age EXCEPT ![r] = 0]
          /\ unmarked' \subseteq unmarked
          /\ UNCHANGED <<row, table, edits, disabled, standing, phase, due, quiet, reported>>
        BY <1>6 DEF NotDelivered, MarkFails, Mark, Continue
    <2>2. /\ Shape(check') /\ check'.pc = "next" /\ check'.todo = check.todo
          /\ check'.ripe = check.ripe /\ check'.rule = {} /\ check'.counted = {}
          /\ check'.elapsed = check.elapsed /\ check'.slow = FALSE
        BY <1>c, <2>1 DEF Shape, Fields
    <2>3. Fits(check') /\ Lineup'
        BY <1>c, <2>1, <2>2 DEF Fits, Lineup
    <2>4. Paced'
        BY <1>0, <1>c, <2>2 DEF Fits, Paced, Called
    <2>5. age' \in [Rules -> 0..Window]
        BY <2>1 DEF TypeOK
    <2>6. TypeOK'
        BY Passes, <2>1, <2>2, <2>3, <2>5 DEF TypeOK
    <2> QED BY <2>3, <2>4, <2>6
<1> HIDE DEF Typed, history, timer
<1> QED BY <1>1, <1>2, <1>3, <1>4, <1>5, <1>6

\* What the checker remembers of its deliveries.
LEMMA SpacedStepwise ==
    ASSUME IInv, [Next]_vars
    PROVE  (InHand /\ SilenceIsEarned /\ Spaced)'
<1> DEFINE Goal == (InHand /\ SilenceIsEarned /\ Spaced)'
<1> SUFFICES Goal
    OBVIOUS
<1>a. Typed /\ InHand /\ SilenceIsEarned /\ Spaced
    BY DEF IInv
<1>b. /\ age \in [Rules -> 0..Window] /\ quiet \in [Rules -> 0..Window]
      /\ Shape(check) /\ Fits(check) /\ Lineup /\ (check.pc = "idle" => check = Idle)
      /\ row \in [Rules -> {"never", "on", "off", "deleted"}]
    BY <1>a, Passes DEF Typed, TypeOK
<1>1. CASE Tick
    <2>1. \/ check' = check
          \/ check' = [check EXCEPT !.slow = TRUE, !.elapsed = @ + 1]
        BY <1>1 DEF Tick
    <2>2. /\ check'.pc = check.pc /\ check'.rule = check.rule /\ check'.ripe = check.ripe
        BY <1>b, <2>1 DEF Shape, Fields
    <2>3. /\ check.pc # "mark" /\ UNCHANGED <<row, unmarked>>
          /\ \A r \in Rules : age'[r] = Older(age[r], Window) /\ quiet'[r] = Older(quiet[r], Window)
        BY <1>1 DEF Tick
    <2>4. \A r \in Rules : /\ quiet[r] \in Nat /\ age[r] \in Nat
                           /\ quiet[r] =< age[r] /\ age[r] =< Window
        BY <1>a, <1>b DEF SilenceIsEarned
    <2>5. \A r \in Rules : /\ quiet'[r] =< age'[r]
                           /\ quiet[r] = age[r] => quiet'[r] = age'[r]
                           /\ quiet[r] >= Window => quiet'[r] >= Window
        <3>1. ASSUME NEW r \in Rules
              PROVE  /\ quiet'[r] =< age'[r]
                     /\ quiet[r] = age[r] => quiet'[r] = age'[r]
                     /\ quiet[r] >= Window => quiet'[r] >= Window
            BY <2>3, <2>4 DEF Older
        <3> QED BY <3>1
    <2>6. check.ripe \subseteq Rules
        BY <1>b DEF Fits
    <2>7. InHand'
        BY <1>a, <2>2, <2>3 DEF InHand
    <2>8. Spaced'
        BY <1>a, <2>2, <2>3, <2>5, <2>6 DEF Spaced
    <2> QED BY <2>5, <2>7, <2>8 DEF SilenceIsEarned
<1>2. ASSUME NEW r \in Rules, Delivered(r) PROVE Goal
    <2>1. /\ check.rule = {r} /\ check' = [check EXCEPT !.pc = "mark"]
          /\ quiet' = [quiet EXCEPT ![r] = 0] /\ unmarked' = unmarked \cup {r}
          /\ UNCHANGED <<row, age>>
        BY <1>a, <1>2 DEF Delivered, InHand
    <2>2. check'.pc = "mark" /\ check'.rule = {r} /\ check'.ripe = check.ripe
        BY <1>b, <2>1 DEF Shape, Fields
    <2>3. quiet'[r] = 0 /\ \A q \in Rules : q # r => quiet'[q] = quiet[q]
        BY <1>b, <2>1
    <2>4. InHand'
        BY <2>2, <2>3 DEF InHand
    <2>5. SilenceIsEarned'
        BY <1>a, <1>b, <2>1, <2>3 DEF SilenceIsEarned
    <2>6. Spaced'
        BY <1>a, <1>b, <2>1, <2>2, <2>3 DEF Spaced, Fits
    <2> QED BY <2>4, <2>5, <2>6
<1>3. ASSUME NEW r \in Rules, Mark(r) PROVE Goal
    <2>1. /\ check.rule = {r} /\ quiet[r] = 0 /\ check' = Continue
          /\ unmarked' = unmarked \ {r} /\ UNCHANGED <<row, quiet>>
          /\ age' = IF row[r] \in {"on", "off"} THEN [age EXCEPT ![r] = 0] ELSE age
        BY <1>a, <1>3 DEF Mark, InHand
    <2>2. check'.pc = "next" /\ check'.ripe = check.ripe
        BY <1>b, <2>1 DEF Continue, Shape, Fields
    <2>3. r \notin check.ripe /\ row[r] # "never"
        BY <1>b, <2>1 DEF Lineup
    <2>4. /\ \A q \in Rules : q # r => age'[q] = age[q]
          /\ row[r] # "deleted" => age'[r] = 0
          /\ age'[r] \in {0, age[r]}
        BY <1>b, <2>1, <2>3
    <2>5. SilenceIsEarned'
        BY <1>a, <1>b, <2>1, <2>4 DEF SilenceIsEarned
    <2>6. Spaced'
        BY <1>a, <1>b, <2>1, <2>2, <2>3, <2>4 DEF Spaced
    <2> QED BY <2>2, <2>5, <2>6 DEF InHand
<1>4. CASE StartPass
    <2>1. /\ check = Idle /\ UNCHANGED <<row, age, quiet, unmarked>>
          /\ \/ check' = [check EXCEPT !.pc = "next", !.todo = EnabledRules,
                            !.ripe = {r \in EnabledRules : ShouldTrigger(r)}]
             \/ UNCHANGED check
        BY <1>b, <1>4 DEF StartPass, history
    <2>2. /\ check'.pc \in {"idle", "next"}
          /\ \A r \in check'.ripe : r \in Rules /\ row[r] = "on" /\ age[r] >= Window
        <3>1. CASE UNCHANGED check
            BY <2>1, <3>1 DEF Idle
        <3>2. CASE ~UNCHANGED check
            <4>1. check'.pc = "next" /\ check'.ripe = {r \in EnabledRules : ShouldTrigger(r)}
                BY <1>b, <2>1, <3>2 DEF Shape, Fields
            <4> QED BY <4>1 DEF EnabledRules, ShouldTrigger
        <3> QED BY <3>1, <3>2
    <2>3. Spaced'
        BY <1>a, <2>1, <2>2 DEF Spaced
    <2> QED BY <1>a, <2>1, <2>2, <2>3 DEF InHand, SilenceIsEarned
<1>5. CASE EndPass \/ QueryFails \/ Crash \/ NotDelivered \/ MarkFails
            \/ \E r \in Rules : SkipRule(r) \/ FireRule(r)
    <2>1. /\ UNCHANGED <<row, age, quiet, unmarked>>
          /\ \/ check' = Idle \/ check' = Continue
             \/ \E r \in Rules : \/ /\ check.pc = "next"
                                    /\ check' = [check EXCEPT !.todo = @ \ {r}, !.ripe = @ \ {r}]
                                 \/ \E c : check' = [check EXCEPT !.pc = "deliver", !.todo = @ \ {r},
                                              !.ripe = @ \ {r}, !.rule = {r}, !.counted = c]
        BY <1>5 DEF EndPass, QueryFails, Crash, NotDelivered, MarkFails, SkipRule, FireRule,
                    IsNext, history
    <2>2. /\ check'.ripe \subseteq check.ripe
          /\ \/ check'.pc \in {"idle", "next"}
             \/ check'.pc = "deliver" /\ \E r \in Rules : check'.rule = {r}
        <3>1. CASE check' = Idle
            BY <3>1 DEF Idle
        <3>2. CASE check' = Continue
            BY <1>b, <3>2 DEF Shape, Fields, Continue
        <3>3. ASSUME NEW r \in Rules, check.pc = "next",
                     check' = [check EXCEPT !.todo = @ \ {r}, !.ripe = @ \ {r}]
              PROVE  check'.ripe \subseteq check.ripe /\ check'.pc = "next"
            BY <1>b, <3>3 DEF Shape, Fields
        <3>4. ASSUME NEW r \in Rules, NEW c,
                     check' = [check EXCEPT !.pc = "deliver", !.todo = @ \ {r},
                                  !.ripe = @ \ {r}, !.rule = {r}, !.counted = c]
              PROVE  check'.ripe \subseteq check.ripe /\ check'.pc = "deliver" /\ check'.rule = {r}
            BY <1>b, <3>4 DEF Shape, Fields
        <3> QED BY <2>1, <3>1, <3>2, <3>3, <3>4
    <2>3. InHand'
        BY <2>2 DEF InHand
    <2> QED BY <1>a, <2>1, <2>2, <2>3 DEF SilenceIsEarned, Spaced
<1>6. ASSUME NEW r \in Rules, DeleteRule(r) PROVE Goal
    BY <1>a, <1>b, <1>6 DEF DeleteRule, history, InHand, SilenceIsEarned, Spaced
<1>7. ASSUME NEW r \in Rules, NEW state \in {"on", "off"}, CreateRule(r, state) PROVE Goal
    BY <1>a, <1>b, <1>7 DEF CreateRule, history, InHand, SilenceIsEarned, Spaced
<1>8. ASSUME NEW e \in edits, WriteRule(e) PROVE Goal
    BY <1>a, <1>b, <1>8 DEF WriteRule, history, InHand, SilenceIsEarned, Spaced
<1>9. CASE UNCHANGED <<row, age, check, quiet, unmarked>>
    BY <1>a, <1>9 DEF InHand, SilenceIsEarned, Spaced
<1>10. ASSUME \/ \E a \in Accounts : AccountChanges(a)
              \/ \E r \in Rules : \/ ConditionChanges(r)
                                  \/ \E state \in {"on", "off"} : ReadRule(r, state)
              \/ UNCHANGED vars
       PROVE  UNCHANGED <<row, age, check, quiet, unmarked>>
    BY <1>10 DEF AccountChanges, ConditionChanges, ReadRule, vars, history
<1> HIDE DEF Goal
<1>11. Goal
    <2>1. CASE \/ \E a \in Accounts : AccountChanges(a)
               \/ \E r \in Rules : \/ ConditionChanges(r)
                                   \/ \E state \in {"on", "off"} : ReadRule(r, state)
               \/ UNCHANGED vars
        BY <1>9, <1>10, <2>1
    <2>2. CASE \E r \in Rules : \/ DeleteRule(r) \/ SkipRule(r) \/ FireRule(r)
                               \/ Delivered(r) \/ Mark(r)
                               \/ \E state \in {"on", "off"} : CreateRule(r, state)
        BY <1>2, <1>3, <1>5, <1>6, <1>7, <2>2
    <2>3. CASE \/ Tick \/ Crash \/ StartPass \/ EndPass \/ QueryFails \/ NotDelivered \/ MarkFails
               \/ \E e \in edits : WriteRule(e)
        BY <1>1, <1>4, <1>5, <1>8, <2>3
    <2> QED BY <2>1, <2>2, <2>3 DEF Next
<1> QED BY <1>11

LEMMA Invariant == Spec => []IInv
<1>1. Init => IInv
    <2> SUFFICES ASSUME Init PROVE IInv
        OBVIOUS
    <2> QED BY TypedInit DEF IInv, Init, Idle, InHand, SilenceIsEarned, Spaced
<1>2. IInv /\ [Next]_vars => IInv'
    <2> SUFFICES ASSUME IInv, [Next]_vars PROVE IInv'
        OBVIOUS
    <2>1. Typed'
        BY TypedOutside, TypedTask DEF IInv, Next
    <2> QED BY <2>1, SpacedStepwise DEF IInv
<1> QED BY <1>1, <1>2, PTL DEF Spec

\* Types; the table has one row for each rule; and however slow the webhooks, a
\* pass is over before the ages it compares stop telling times apart.
THEOREM CheckerTypes == Spec => []TypeOK
BY Invariant, PTL DEF IInv, Typed

\* No rule is silenced by a delivery that failed, or for longer than the window
\* after one that was acknowledged.
THEOREM SilencedByDelivery == Spec => []SilenceIsEarned
BY Invariant, PTL DEF IInv

\* A webhook is called only if it has acknowledged nothing within the window, or
\* what it last acknowledged could not be recorded: no order of listing, slow
\* calls, edits and restarts brings the next call forward.
THEOREM WindowIsKept == Spec => DeliveriesSpaced
<1>1. IInv => \A r \in Rules : FireRule(r) => quiet[r] >= Window \/ r \in unmarked
    BY DEF IInv, Spaced, FireRule
<1> QED BY <1>1, Invariant, PTL DEF DeliveriesSpaced, Spec

=============================================================================
