--------------------------- MODULE RotationProofs ---------------------------
(***************************************************************************)
(* A bound on how long an account can be passed over, for any number of     *)
(* accounts and of requests that overlap. The cursor may miss an account for *)
(* three reasons: it has not come round to the account's place; a request    *)
(* still works with a list in which the account had another place; or the    *)
(* account moves, either forward, because one ahead of it was used, or to    *)
(* the end, because an earlier choice of it is recorded only now. Each can   *)
(* happen so many times before the next graver one has to.                   *)
(***************************************************************************)
EXTENDS Rotation, FiniteSetTheorems, TLAPS

R == Cardinality(Requests)

\* Requests that have chosen an account and not recorded it.
Pending(a) == {r \in Requests : a \in req[r].account}

\* Requests in whose list the account has another place than it has now.
Outdated(a) == {r \in Requests : req[r].pc = "listed" /\ req[r].list[a] # Place(a)}

\* Selections until the cursor comes to the account's place.
Ahead(a) == IF cursor =< Place(a) THEN Place(a) - cursor ELSE (Place(a) - cursor) + N

\* A number with four digits, the gravest first.
Value(k, p, s, d) == ((k * N + p) * (R + 1) + s) * N + d
Bound == ((R + 1) * N) * ((R + 1) * N)

Left(a) == Value(Cardinality(Pending(a)), Place(a), Cardinality(Outdated(a)), Ahead(a))

Shapes ==
    /\ used \in [Accounts -> Nat] /\ current \in BOOLEAN /\ cursor \in 0 .. (N - 1)
    /\ req \in [Requests -> [pc : {"idle", "listed", "chosen"}, list : [Accounts -> Nat],
                             account : SUBSET Accounts]]
    /\ waited \in [Accounts -> Nat]
    /\ \A r \in Requests : req[r].pc # "chosen" => req[r].account = {}
    /\ \A r \in Requests : req[r].pc = "listed" =>
         \A a, b \in Accounts : req[r].list[a] = req[r].list[b] => a = b

\* No account can wait longer than it has waited and has still to wait.
IInv == Shapes /\ \A a \in Accounts : waited[a] + Left(a) < Bound

(***************************************************************************)
(* Places                                                                  *)
(***************************************************************************)
LEMMA Finite ==
    /\ N \in Nat /\ 1 =< N /\ IsFiniteSet(Accounts) /\ Cardinality(Accounts) = N
    /\ IsFiniteSet(Requests) /\ R \in Nat
<1>1. N \in Nat /\ 1 =< N /\ IsFiniteSet(Requests)
    BY RotationAssumption
<1>2. IsFiniteSet(1 .. N) /\ Cardinality(1 .. N) = N
    BY <1>1, FS_Interval
<1> QED BY <1>1, <1>2, FS_CardinalityType DEF Accounts, R

\* An account's place is the number of those before it, of which it is none.
LEMMA Places ==
    ASSUME Shapes, NEW a \in Accounts
    PROVE  /\ IsFiniteSet({b \in Accounts : Before(b, a)})
           /\ Place(a) \in 0 .. (N - 1)
<1> DEFINE S == {b \in Accounts : Before(b, a)}
<1>1. S \subseteq Accounts \ {a}
    BY Finite DEF Shapes, Before, Accounts
<1>2. IsFiniteSet(Accounts \ {a}) /\ Cardinality(Accounts \ {a}) = N - 1
    BY Finite, FS_RemoveElement
<1>3. IsFiniteSet(S) /\ Cardinality(S) \in Nat /\ Cardinality(S) =< N - 1
    BY <1>1, <1>2, FS_Subset, FS_CardinalityType
<1> HIDE DEF S
<1>4. Cardinality(S) \in 0 .. (N - 1)
    BY <1>3, Finite
<1> QED BY <1>3, <1>4 DEF S, Place

\* No two accounts have the same place.
LEMMA PlacesDiffer ==
    ASSUME Shapes, NEW a \in Accounts, NEW b \in Accounts, Place(a) = Place(b)
    PROVE  a = b
<1>1. ASSUME NEW x \in Accounts, NEW y \in Accounts, Before(x, y) PROVE Place(x) < Place(y)
    <2> DEFINE S == {c \in Accounts : Before(c, x)}
               T == {c \in Accounts : Before(c, y)}
    <2>1. S \cup {x} \subseteq T
        BY <1>1 DEF Before, Shapes, Accounts
    <2>2. x \notin S
        BY Finite DEF Before, Shapes, Accounts
    <2>3. IsFiniteSet(S) /\ IsFiniteSet(T)
        BY Places
    <2> HIDE DEF S, T
    <2>4. Cardinality(S \cup {x}) = Cardinality(S) + 1 /\ IsFiniteSet(S \cup {x})
        BY <2>2, <2>3, FS_AddElement
    <2>5. Cardinality(S \cup {x}) =< Cardinality(T)
        BY <2>1, <2>3, FS_Subset
    <2>6. Cardinality(S) \in Nat /\ Cardinality(T) \in Nat
        BY <2>3, FS_CardinalityType
    <2>7. Place(x) = Cardinality(S) /\ Place(y) = Cardinality(T)
        BY DEF Place, S, T
    <2> QED BY <2>4, <2>5, <2>6, <2>7
<1>2. a # b => Before(a, b) \/ Before(b, a)
    BY Finite DEF Before, Shapes, Accounts
<1>3. Place(a) \in 0 .. (N - 1) /\ Place(b) \in 0 .. (N - 1)
    BY Places
<1> QED BY <1>1, <1>2, <1>3, Finite

\* Ranking seconds keeps their order.
LEMMA Ranking ==
    ASSUME NEW second \in [Accounts -> Nat]
    PROVE  /\ Ranked(second) \in [Accounts -> Nat]
           /\ \A a, b \in Accounts : Ranked(second)[a] < Ranked(second)[b] <=> second[a] < second[b]
<1> DEFINE Earlier(a) == {c \in Accounts : second[c] < second[a]}
<1>1. \A a \in Accounts : IsFiniteSet(Earlier(a)) /\ Cardinality(Earlier(a)) \in Nat
    <2> TAKE a \in Accounts
    <2>1. Earlier(a) \subseteq Accounts
        OBVIOUS
    <2> HIDE DEF Earlier
    <2> QED BY <2>1, Finite, FS_Subset, FS_CardinalityType
<1>2. \A a \in Accounts : Ranked(second)[a] = Cardinality(Earlier(a))
    BY DEF Ranked
<1>3. ASSUME NEW a \in Accounts, NEW b \in Accounts, second[a] < second[b]
      PROVE  Cardinality(Earlier(a)) < Cardinality(Earlier(b))
    <2>1. Earlier(a) \cup {a} \subseteq Earlier(b) /\ a \notin Earlier(a)
        BY <1>3
    <2> HIDE DEF Earlier
    <2>2. /\ IsFiniteSet(Earlier(a) \cup {a})
          /\ Cardinality(Earlier(a) \cup {a}) = Cardinality(Earlier(a)) + 1
        BY <1>1, <2>1, FS_AddElement
    <2>3. Cardinality(Earlier(a) \cup {a}) =< Cardinality(Earlier(b))
        BY <1>1, <2>1, FS_Subset
    <2> QED BY <1>1, <2>2, <2>3
<1>4. ASSUME NEW a \in Accounts, NEW b \in Accounts, ~ (second[a] < second[b])
      PROVE  Cardinality(Earlier(b)) =< Cardinality(Earlier(a))
    <2>1. Earlier(b) \subseteq Earlier(a)
        BY <1>4
    <2> HIDE DEF Earlier
    <2> QED BY <1>1, <2>1, FS_Subset
<1>5. Ranked(second) \in [Accounts -> Nat]
    <2>1. Ranked(second) = [a \in Accounts |-> Cardinality(Earlier(a))]
        BY DEF Ranked
    <2> HIDE DEF Earlier
    <2> QED BY <1>1, <2>1
<1> HIDE DEF Earlier
<1> QED BY <1>1, <1>2, <1>3, <1>4, <1>5

\* Recording the use of others brings an account forward or leaves it where it is.
LEMMA ForwardOnly ==
    ASSUME Shapes, NEW r \in Requests, Record(r)
    PROVE  /\ used' \in [Accounts -> Nat]
           /\ \A a \in Accounts : a \notin req[r].account =>
                {b \in Accounts : Before(b, a)}' \subseteq {b \in Accounts : Before(b, a)}
<1>1. PICK now \in 0 .. N :
         /\ \A a \in Accounts : used[a] =< now
         /\ used' = Ranked([a \in Accounts |-> IF a \in req[r].account THEN now ELSE used[a]])
    <2>1. PICK now \in 0 .. N :
             /\ \A a \in Accounts : IF current THEN used[a] =< now ELSE used[a] < now
             /\ used' = Ranked([a \in Accounts |-> IF a \in req[r].account THEN now ELSE used[a]])
        BY DEF Record
    <2>2. \A a \in Accounts : used[a] =< now
        BY <2>1, Finite DEF Shapes
    <2> QED BY <2>1, <2>2
<1> DEFINE second == [a \in Accounts |-> IF a \in req[r].account THEN now ELSE used[a]]
<1>2. second \in [Accounts -> Nat]
    BY Finite DEF Shapes
<1>3. used' = Ranked(second)
    BY <1>1
<1>4. /\ used' \in [Accounts -> Nat]
      /\ \A a, b \in Accounts : used'[a] < used'[b] <=> second[a] < second[b]
    <2> HIDE DEF second
    <2> QED BY <1>2, <1>3, Ranking
<1>5. ASSUME NEW a \in Accounts, a \notin req[r].account, NEW b \in Accounts, Before(b, a)'
      PROVE  Before(b, a)
    <2>1. second[a] = used[a] /\ (second[b] = used[b] \/ second[b] = now)
        BY <1>5
    <2>2. used[a] \in Nat /\ used[b] \in Nat /\ used[a] =< now /\ used[b] =< now /\ now \in Nat
        BY <1>1, Finite DEF Shapes
    <2>3. used'[b] < used'[a] \/ (used'[b] = used'[a] /\ b < a)
        BY <1>5 DEF Before
    <2>4. /\ used'[b] < used'[a] <=> second[b] < second[a]
          /\ used'[a] < used'[b] <=> second[a] < second[b]
          /\ used'[a] \in Nat /\ used'[b] \in Nat
        BY <1>4
    <2> HIDE DEF second
    <2>5. second[b] < second[a] \/ (second[b] = second[a] /\ b < a)
        BY <2>1, <2>2, <2>3, <2>4
    <2>6. used[b] < used[a] \/ (used[b] = used[a] /\ b < a)
        BY <2>1, <2>2, <2>5
    <2> QED BY <2>6 DEF Before
<1> QED BY <1>4, <1>5

(***************************************************************************)
(* What is left to wait for                                                *)
(***************************************************************************)
\* The digits are digits.
LEMMA Digits ==
    Shapes => \A a \in Accounts :
                /\ IsFiniteSet(Pending(a)) /\ Cardinality(Pending(a)) \in 0 .. R
                /\ IsFiniteSet(Outdated(a)) /\ Cardinality(Outdated(a)) \in 0 .. R
                /\ Place(a) \in 0 .. (N - 1)
                /\ Ahead(a) \in 0 .. (N - 1)
<1> SUFFICES ASSUME Shapes, NEW a \in Accounts
             PROVE  /\ IsFiniteSet(Pending(a)) /\ Cardinality(Pending(a)) \in 0 .. R
                    /\ IsFiniteSet(Outdated(a)) /\ Cardinality(Outdated(a)) \in 0 .. R
                    /\ Place(a) \in 0 .. (N - 1)
                    /\ Ahead(a) \in 0 .. (N - 1)
    OBVIOUS
<1>1. \A S \in SUBSET Requests : IsFiniteSet(S) /\ Cardinality(S) \in 0 .. R
    <2> TAKE S \in SUBSET Requests
    <2>1. IsFiniteSet(S) /\ Cardinality(S) \in Nat /\ Cardinality(S) =< R
        BY Finite, FS_Subset, FS_CardinalityType DEF R
    <2> QED BY <2>1, Finite
<1>2. Pending(a) \subseteq Requests /\ Outdated(a) \subseteq Requests
    BY DEF Pending, Outdated
<1>3. Place(a) \in 0 .. (N - 1)
    BY Places
<1>4. Ahead(a) \in 0 .. (N - 1)
    BY <1>3, Finite DEF Ahead, Shapes
<1> QED BY <1>1, <1>2, <1>3, <1>4

\* So are they after a step.
LEMMA DigitsNext ==
    (Shapes => \A a \in Accounts :
                 /\ IsFiniteSet(Pending(a)) /\ Cardinality(Pending(a)) \in 0 .. R
                 /\ IsFiniteSet(Outdated(a)) /\ Cardinality(Outdated(a)) \in 0 .. R
                 /\ Place(a) \in 0 .. (N - 1)
                 /\ Ahead(a) \in 0 .. (N - 1))'
BY Digits, PTL

LEMMA Radix ==
    ASSUME NEW b \in Nat, 1 =< b, NEW x \in Int, NEW y \in Int, x < y,
           NEW u \in 0 .. (b - 1), NEW v \in 0 .. (b - 1)
    PROVE  x * b + u < y * b + v
<1>1. (y - x - 1) * b >= 0
    <2>1. \A i \in Nat : i * b >= 0
        OBVIOUS
    <2> QED BY <2>1
<1>2. (y - x - 1) * b = y * b - x * b - b
    OBVIOUS
<1>3. x * b \in Int /\ y * b \in Int
    OBVIOUS
<1> QED BY <1>1, <1>2, <1>3

\* A number with less in its first digit that differs is less.
LEMMA Lexicographic ==
    ASSUME NEW k \in 0 .. R, NEW p \in 0 .. (N - 1), NEW s \in 0 .. R, NEW d \in 0 .. (N - 1),
           NEW i \in 0 .. R, NEW q \in 0 .. (N - 1), NEW t \in 0 .. R, NEW e \in 0 .. (N - 1)
    PROVE  /\ i < k => Value(i, q, t, e) < Value(k, p, s, d)
           /\ i = k /\ q < p => Value(i, q, t, e) < Value(k, p, s, d)
           /\ i = k /\ q = p /\ t < s => Value(i, q, t, e) < Value(k, p, s, d)
           /\ i = k /\ q = p /\ t = s /\ e < d => Value(i, q, t, e) < Value(k, p, s, d)
           /\ Value(k, p, s, d) \in Nat /\ Value(k, p, s, d) < Bound
<1> DEFINE X == k * N + p
           Y == i * N + q
           XX == X * (R + 1) + s
           YY == Y * (R + 1) + t
<1>1. N \in Nat /\ 1 =< N /\ R + 1 \in Nat /\ 1 =< R + 1 /\ (R + 1) - 1 = R
    BY Finite
<1>2. X \in Nat /\ Y \in Nat
    BY <1>1
<1>3. i < k => Y < X
    BY <1>1, Radix
<1>4. i = k /\ q < p => Y < X
    BY <1>1
<1> HIDE DEF X, Y
<1>5. XX \in Nat /\ YY \in Nat
    BY <1>1, <1>2
<1>6. Y < X => YY < XX
    BY <1>1, <1>2, Radix
<1>7. Y = X /\ t < s => YY < XX
    BY <1>1, <1>2
<1>8. X < (R + 1) * N
    <2>1. k < R + 1
        BY <1>1
    <2>2. k * N + p < (R + 1) * N + 0
        BY <1>1, <2>1, Radix
    <2> QED BY <1>1, <2>2 DEF X
<1>9. (R + 1) * N \in Nat
    BY <1>1
<1>10. XX < ((R + 1) * N) * (R + 1)
    <2>1. X * (R + 1) + s < ((R + 1) * N) * (R + 1) + 0
        BY <1>1, <1>2, <1>8, <1>9, Radix
    <2> QED BY <1>1, <1>9, <2>1
<1> HIDE DEF XX, YY
<1>11. Value(k, p, s, d) = XX * N + d /\ Value(i, q, t, e) = YY * N + e
    BY DEF Value, XX, YY, X, Y
<1>12. YY < XX => YY * N + e < XX * N + d
    BY <1>1, <1>5, Radix
<1>13. YY = XX /\ e < d => YY * N + e < XX * N + d
    BY <1>1, <1>5
<1>14. XX * N + d < Bound
    <2> DEFINE Z == ((R + 1) * N) * (R + 1)
    <2>1. Z \in Nat
        BY <1>1, <1>9
    <2>2. Bound = Z * N
        BY <1>1, <1>9 DEF Bound
    <2> HIDE DEF Z
    <2>3. XX * N + d < Z * N + 0
        BY <1>1, <1>5, <1>10, <2>1, Radix DEF Z
    <2>4. Z * N \in Nat
        BY <1>1, <2>1
    <2> QED BY <2>2, <2>3, <2>4
<1>15. XX * N + d \in Nat
    BY <1>1, <1>5
<1>16. i = k /\ q = p => Y = X
    BY DEF X, Y
<1>17. i = k /\ q = p /\ t = s => YY = XX
    BY <1>16 DEF XX, YY
<1> QED BY <1>3, <1>4, <1>6, <1>7, <1>11, <1>12, <1>13, <1>14, <1>15, <1>16, <1>17

\* What is left before a step and after it, compared digit by digit.
LEMMA Comparison ==
    ASSUME Shapes, Shapes', NEW a \in Accounts
    PROVE  /\ Cardinality(Pending(a))' < Cardinality(Pending(a)) => Left(a)' < Left(a)
           /\ Pending(a)' = Pending(a) =>
                /\ Place(a)' < Place(a) => Left(a)' < Left(a)
                /\ Place(a)' = Place(a) =>
                     /\ Cardinality(Outdated(a))' < Cardinality(Outdated(a)) => Left(a)' < Left(a)
                     /\ Outdated(a)' = Outdated(a) /\ Ahead(a)' < Ahead(a) => Left(a)' < Left(a)
           /\ Left(a) \in Nat /\ Left(a) < Bound
           /\ Left(a)' \in Nat /\ Left(a)' < Bound
<1> DEFINE k == Cardinality(Pending(a))
           s == Cardinality(Outdated(a))
           i == Cardinality(Pending(a)')
           t == Cardinality(Outdated(a)')
<1>1. k \in 0 .. R /\ Place(a) \in 0 .. (N - 1) /\ s \in 0 .. R /\ Ahead(a) \in 0 .. (N - 1)
    BY Digits
<1>2. i \in 0 .. R /\ Place(a)' \in 0 .. (N - 1) /\ t \in 0 .. R /\ Ahead(a)' \in 0 .. (N - 1)
    BY DigitsNext
<1>3. Left(a) = Value(k, Place(a), s, Ahead(a))
    BY DEF Left
<1>4. Left(a)' = Value(i, Place(a)', t, Ahead(a)')
    BY DEF Left, Value
<1>5. Pending(a)' = Pending(a) => i = k
    OBVIOUS
<1>6. Outdated(a)' = Outdated(a) => t = s
    OBVIOUS
<1>7. /\ Cardinality(Pending(a))' = i
      /\ Cardinality(Outdated(a))' = t
    OBVIOUS
<1> HIDE DEF k, s, i, t
<1>8. \A p \in 0 .. (N - 1), q \in 0 .. (N - 1), d \in 0 .. (N - 1), e \in 0 .. (N - 1) :
         /\ i < k => Value(i, q, t, e) < Value(k, p, s, d)
         /\ i = k /\ q < p => Value(i, q, t, e) < Value(k, p, s, d)
         /\ i = k /\ q = p /\ t < s => Value(i, q, t, e) < Value(k, p, s, d)
         /\ i = k /\ q = p /\ t = s /\ e < d => Value(i, q, t, e) < Value(k, p, s, d)
         /\ Value(k, p, s, d) \in Nat /\ Value(k, p, s, d) < Bound
         /\ Value(i, q, t, e) \in Nat /\ Value(i, q, t, e) < Bound
    <2> TAKE p \in 0 .. (N - 1), q \in 0 .. (N - 1), d \in 0 .. (N - 1), e \in 0 .. (N - 1)
    <2>1. k \in 0 .. R /\ s \in 0 .. R /\ i \in 0 .. R /\ t \in 0 .. R
        BY <1>1, <1>2
    <2>2. Value(i, q, t, e) \in Nat /\ Value(i, q, t, e) < Bound
        BY <2>1, Lexicographic
    <2> QED BY <2>1, <2>2, Lexicographic
<1>9. PICK p \in 0 .. (N - 1), q \in 0 .. (N - 1), d \in 0 .. (N - 1), e \in 0 .. (N - 1) :
         p = Place(a) /\ q = Place(a)' /\ d = Ahead(a) /\ e = Ahead(a)'
    BY <1>1, <1>2
<1>10. /\ Left(a) = Value(k, p, s, d)
       /\ Left(a)' = Value(i, q, t, e)
    BY <1>3, <1>4, <1>9
<1>11. /\ i < k => Left(a)' < Left(a)
       /\ i = k /\ q < p => Left(a)' < Left(a)
       /\ i = k /\ q = p /\ t < s => Left(a)' < Left(a)
       /\ i = k /\ q = p /\ t = s /\ e < d => Left(a)' < Left(a)
       /\ Left(a) \in Nat /\ Left(a) < Bound
       /\ Left(a)' \in Nat /\ Left(a)' < Bound
    BY <1>8, <1>10
<1> DEFINE kk == Cardinality(Pending(a))'
           ss == Cardinality(Outdated(a))'
<1>12. kk < Cardinality(Pending(a)) => i < k
    BY <1>7 DEF k
<1>13. ss < Cardinality(Outdated(a)) => t < s
    BY <1>7 DEF s
<1> QED BY <1>5, <1>6, <1>9, <1>11, <1>12, <1>13

(***************************************************************************)
(* The steps                                                               *)
(***************************************************************************)
LEMMA ShapesKept == ASSUME Shapes, [Next]_vars PROVE Shapes'
<1> USE DEF Shapes
<1>1. ASSUME NEW r \in Requests, List(r) PROVE Shapes'
    <2> DEFINE list == [a \in Accounts |-> Place(a)]
    <2>1. list \in [Accounts -> Nat]
        <3>1. \A a \in Accounts : Place(a) \in 0 .. (N - 1)
            BY Places
        <3> QED BY <3>1, Finite
    <2>2. \A a, b \in Accounts : list[a] = list[b] => a = b
        BY PlacesDiffer
    <2>3. req' = [req EXCEPT ![r] = [pc |-> "listed", list |-> list, account |-> {}]]
        BY <1>1 DEF List
    <2> HIDE DEF list
    <2> QED BY <1>1, <2>1, <2>2, <2>3 DEF List
<1>2. ASSUME NEW r \in Requests, Choose(r) PROVE Shapes'
    <2>1. cursor' \in 0 .. (N - 1)
        <3>1. cursor \in 0 .. (N - 1) /\ N \in Nat /\ 1 =< N
            BY Finite
        <3>2. cursor' = (cursor + 1) % N \/ cursor' = cursor
            BY <1>2 DEF Choose, After
        <3> QED BY <3>1, <3>2
    <2>2. PICK a \in Accounts :
             /\ req' = [req EXCEPT ![r].pc = "chosen", ![r].account = {a}]
             /\ waited' = [b \in Accounts |->
                              IF b = a THEN 0
                              ELSE IF waited[b] < LongestWait THEN waited[b] + 1 ELSE LongestWait]
        BY <1>2 DEF Choose
    <2>3. waited' \in [Accounts -> Nat]
        BY <2>2, RotationAssumption
    <2>4. req' \in [Requests -> [pc : {"idle", "listed", "chosen"}, list : [Accounts -> Nat],
                                 account : SUBSET Accounts]]
        <3> DEFINE Request == [pc : {"idle", "listed", "chosen"}, list : [Accounts -> Nat],
                               account : SUBSET Accounts]
                   mid == [req EXCEPT ![r].pc = "chosen"]
        <3>1. mid \in [Requests -> Request]
            OBVIOUS
        <3>2. req' = [mid EXCEPT ![r].account = {a}]
            BY <2>2
        <3>3. mid[r] \in Request /\ {a} \in SUBSET Accounts
            BY <3>1
        <3>4. [mid[r] EXCEPT !.account = {a}] \in Request
            BY <3>3
        <3> QED BY <3>1, <3>2, <3>4
    <2>5. /\ \A q \in Requests : req'[q].pc # "chosen" => req'[q].account = {}
          /\ \A q \in Requests : req'[q].pc = "listed" => req'[q].list = req[q].list /\ req[q].pc = "listed"
        BY <2>2
    <2>6. UNCHANGED <<used, current>>
        BY <1>2 DEF Choose
    <2> QED BY <2>1, <2>3, <2>4, <2>5, <2>6
<1>3. ASSUME NEW r \in Requests, Record(r) PROVE Shapes'
    <2>1. used' \in [Accounts -> Nat]
        BY <1>3, ForwardOnly
    <2>2. NoRequest \in [pc : {"idle", "listed", "chosen"}, list : [Accounts -> Nat],
                         account : SUBSET Accounts]
        BY DEF NoRequest
    <2>3. NoRequest.pc = "idle" /\ NoRequest.account = {}
        BY DEF NoRequest
    <2> QED BY <1>3, <2>1, <2>2, <2>3 DEF Record
<1>4. CASE NextSecond \/ UNCHANGED vars
    BY <1>4 DEF NextSecond, vars
<1> QED BY <1>1, <1>2, <1>3, <1>4 DEF Next

\* While used stays, so do the places.
LEMMA PlacesStay == ASSUME UNCHANGED used, NEW a \in Accounts PROVE Place(a)' = Place(a)
BY DEF Place, Before

\* A selection of another account brings an account nearer to its turn.
LEMMA Nearer ==
    ASSUME Shapes, Shapes', NEW r \in Requests, Choose(r),
           NEW c \in Accounts, req[r].list[c] = cursor % N,
           req' = [req EXCEPT ![r].pc = "chosen", ![r].account = {c}],
           NEW a \in Accounts, a # c
    PROVE  Left(a)' < Left(a)
<1>1. Place(a)' = Place(a)
    BY PlacesStay DEF Choose
<1>2. N > 1 /\ cursor % N = cursor /\ cursor' = IF cursor = N - 1 THEN 0 ELSE cursor + 1
    <2>1. N > 1
        BY Finite DEF Accounts
    <2>2. cursor' = (cursor + 1) % N
        BY <2>1 DEF Choose, After
    <2>3. cursor \in 0 .. (N - 1)
        BY DEF Shapes
    <2>4. cursor % N = cursor
        BY <2>1, <2>3, Finite
    <2>5. cursor = N - 1 => (cursor + 1) % N = 0
        BY <2>1, <2>3, Finite
    <2>6. cursor # N - 1 => (cursor + 1) % N = cursor + 1
        BY <2>1, <2>3, Finite
    <2> QED BY <2>1, <2>2, <2>4, <2>5, <2>6
<1>3. Pending(a)' = Pending(a)
    BY DEF Pending, Choose, Shapes
<1>4. CASE req[r].list[a] = Place(a)
    <2>1. Outdated(a)' = Outdated(a)
        BY <1>1, <1>4 DEF Outdated, Choose, Shapes
    <2>2. Place(a) # cursor
        BY <1>2, <1>4 DEF Choose, Shapes
    <2>3. Ahead(a)' < Ahead(a)
        <3>1. cursor \in 0 .. (N - 1) /\ Place(a) \in 0 .. (N - 1)
            BY Digits DEF Shapes
        <3>2. Ahead(a)' = IF cursor' =< Place(a) THEN Place(a) - cursor' ELSE (Place(a) - cursor') + N
            BY <1>1 DEF Ahead
        <3>3. CASE cursor = N - 1
            BY <1>2, <2>2, <3>1, <3>2, <3>3, Finite DEF Ahead
        <3>4. CASE cursor # N - 1
            BY <1>2, <2>2, <3>1, <3>2, <3>4, Finite DEF Ahead
        <3> QED BY <3>3, <3>4
    <2> QED BY <1>1, <1>3, <2>1, <2>3, Comparison
<1>5. CASE req[r].list[a] # Place(a)
    <2>1. Outdated(a)' = Outdated(a) \ {r} /\ r \in Outdated(a)
        BY <1>1, <1>5 DEF Outdated, Choose, Shapes
    <2>2. Cardinality(Outdated(a))' = Cardinality(Outdated(a)) - 1
        BY <2>1, Digits, FS_RemoveElement
    <2>3. Cardinality(Outdated(a))' < Cardinality(Outdated(a))
        BY <2>2, Digits, Finite
    <2> QED BY <1>1, <1>3, <2>3, Comparison
<1> QED BY <1>4, <1>5

\* No record of a use takes an account further from its turn: its own, which sends
\* it to the end, was on account.
LEMMA NoFurther ==
    ASSUME Shapes, Shapes', NEW r \in Requests, Record(r), NEW a \in Accounts
    PROVE  Left(a)' =< Left(a)
<1>1. req' = [req EXCEPT ![r] = NoRequest] /\ cursor' = cursor /\ req[r].pc = "chosen"
    BY DEF Record
<1>2. NoRequest.pc = "idle" /\ NoRequest.account = {}
    BY DEF NoRequest
<1>3. CASE a \in req[r].account
    <2>1. Pending(a)' = Pending(a) \ {r} /\ r \in Pending(a)
        BY <1>1, <1>2, <1>3 DEF Pending, Shapes
    <2>2. Cardinality(Pending(a))' = Cardinality(Pending(a)) - 1
        BY <2>1, Digits, FS_RemoveElement
    <2>3. Cardinality(Pending(a))' < Cardinality(Pending(a))
        BY <2>2, Digits, Finite
    <2>4. Left(a)' < Left(a)
        BY <2>3, Comparison
    <2> QED BY <2>4, Comparison
<1>4. CASE a \notin req[r].account
    <2>1. Pending(a)' = Pending(a)
        BY <1>1, <1>2, <1>4 DEF Pending, Shapes
    <2>2. Place(a)' =< Place(a)
        <3>1. {b \in Accounts : Before(b, a)}' \subseteq {b \in Accounts : Before(b, a)}
            BY <1>4, ForwardOnly
        <3>2. IsFiniteSet({b \in Accounts : Before(b, a)})
            BY Places
        <3> QED BY <3>1, <3>2, FS_Subset DEF Place
    <2>3. CASE Place(a)' < Place(a)
        <3>1. Left(a)' < Left(a)
            BY <2>1, <2>3, Comparison
        <3> QED BY <3>1, Comparison
    <2>4. CASE Place(a)' = Place(a)
        <3>1. Outdated(a)' = Outdated(a)
            BY <1>1, <1>2, <2>4 DEF Outdated, Shapes
        <3>2. Ahead(a)' = Ahead(a)
            BY <1>1, <2>4 DEF Ahead
        <3>3. Left(a)' = Left(a)
            BY <2>1, <2>4, <3>1, <3>2 DEF Left
        <3> QED BY <3>3, Comparison
    <2>5. Place(a) \in 0 .. (N - 1) /\ Place(a)' \in 0 .. (N - 1)
        BY Digits, DigitsNext
    <2> QED BY <2>2, <2>3, <2>4, <2>5, Finite
<1> QED BY <1>3, <1>4

\* The invariant is inductive, however far selections are counted.
LEMMA Stepwise == ASSUME IInv, [Next]_vars PROVE IInv'
<1>1. Shapes /\ Shapes'
    BY ShapesKept DEF IInv
<1>2. \A a \in Accounts : waited[a] \in Nat /\ Left(a) \in Nat /\ waited[a] + Left(a) < Bound
    BY <1>1, Comparison DEF IInv, Shapes
<1>3. \A a \in Accounts : waited'[a] \in Nat /\ Left(a)' \in Nat /\ Left(a)' < Bound
    BY <1>1, Comparison DEF Shapes
<1>4. Bound \in Int /\ LongestWait \in Int
    BY Finite, RotationAssumption DEF Bound
<1> SUFFICES ASSUME NEW a \in Accounts PROVE waited'[a] + Left(a)' < Bound
    BY <1>1 DEF IInv
<1>5. ASSUME NEW r \in Requests, List(r) PROVE waited'[a] + Left(a)' < Bound
    <2>1. Place(a)' = Place(a) /\ waited' = waited /\ cursor' = cursor
        BY <1>5, PlacesStay DEF List
    <2>2. /\ req[r].pc = "idle"
          /\ req' = [req EXCEPT ![r] = [pc |-> "listed", list |-> [b \in Accounts |-> Place(b)],
                                        account |-> {}]]
        BY <1>5 DEF List
    <2>3. Pending(a)' = Pending(a)
        BY <1>1, <2>2 DEF Pending, Shapes
    <2>4. Outdated(a)' = Outdated(a)
        BY <1>1, <2>1, <2>2 DEF Outdated, Shapes
    <2>5. Left(a)' = Left(a)
        BY <2>1, <2>3, <2>4 DEF Left, Ahead
    <2> QED BY <1>2, <2>1, <2>5
<1>6. ASSUME NEW r \in Requests, Choose(r) PROVE waited'[a] + Left(a)' < Bound
    <2>1. PICK c \in Accounts :
             /\ req[r].list[c] = cursor % N
             /\ req' = [req EXCEPT ![r].pc = "chosen", ![r].account = {c}]
             /\ waited' = [b \in Accounts |->
                              IF b = c THEN 0
                              ELSE IF waited[b] < LongestWait THEN waited[b] + 1 ELSE LongestWait]
        BY <1>6 DEF Choose
    <2>2. CASE a = c
        BY <1>3, <2>1, <2>2
    <2>3. CASE a # c
        <3>1. Left(a)' < Left(a)
            BY <1>1, <1>6, <2>1, <2>3, Nearer
        <3>2. waited'[a] =< waited[a] + 1
            BY <1>2, <1>4, <2>1, <2>3
        <3> QED BY <1>2, <1>3, <1>4, <3>1, <3>2
    <2> QED BY <2>2, <2>3
<1>7. ASSUME NEW r \in Requests, Record(r) PROVE waited'[a] + Left(a)' < Bound
    <2>1. Left(a)' =< Left(a)
        BY <1>1, <1>7, NoFurther
    <2>2. waited' = waited
        BY <1>7 DEF Record
    <2> QED BY <1>2, <1>3, <1>4, <2>1, <2>2
<1>8. CASE NextSecond \/ UNCHANGED vars
    <2>1. UNCHANGED <<used, cursor, req, waited>>
        BY <1>8 DEF NextSecond, vars
    <2>2. Left(a)' = Left(a)
        BY <2>1, PlacesStay DEF Left, Ahead, Pending, Outdated
    <2> QED BY <1>2, <2>1, <2>2
<1> QED BY <1>5, <1>6, <1>7, <1>8 DEF Next

LEMMA Initially == Init => IInv
<1> SUFFICES ASSUME Init PROVE IInv
    OBVIOUS
<1>1. Shapes
    <2>1. /\ NoRequest \in [pc : {"idle", "listed", "chosen"}, list : [Accounts -> Nat],
                            account : SUBSET Accounts]
          /\ NoRequest.pc = "idle" /\ NoRequest.account = {}
        BY DEF NoRequest
    <2>2. cursor \in 0 .. (N - 1)
        BY Finite DEF Init
    <2> QED BY <2>1, <2>2 DEF Init, Shapes
<1>2. \A a \in Accounts : waited[a] = 0 /\ Left(a) \in Nat /\ Left(a) < Bound
    BY <1>1, Digits, Lexicographic DEF Init, Left
<1> QED BY <1>1, <1>2 DEF IInv

\* However many accounts take turns and however many requests overlap, no account
\* is passed over as often as (N (R + 1))^2, with N accounts and R requests. The
\* hypothesis says no more than that the count goes that far.
THEOREM NobodyWaitsForEver ==
    ASSUME Bound =< LongestWait
    PROVE  Spec => []WaitIsBounded
<1>1. Spec => []IInv
    BY Initially, Stepwise, PTL DEF Spec
<1>2. IInv => WaitIsBounded
    <2> SUFFICES ASSUME IInv, NEW a \in Accounts PROVE waited[a] < LongestWait
        BY DEF WaitIsBounded
    <2>1. waited[a] \in Nat /\ Left(a) \in Nat /\ waited[a] + Left(a) < Bound
        BY Digits, Lexicographic DEF IInv, Shapes, Left
    <2>2. Bound \in Int /\ LongestWait \in Int
        BY Finite, RotationAssumption DEF Bound
    <2> QED BY <2>1, <2>2
<1> QED BY <1>1, <1>2, PTL

=============================================================================
