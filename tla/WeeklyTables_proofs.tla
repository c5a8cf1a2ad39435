------------------------- MODULE WeeklyTables_proofs -------------------------
(***************************************************************************)
(* Lemmas about the tables and the queries of WeeklyTables, for any batches *)
(* of rows, any order and any limit: what the first rows in an order are,   *)
(* what the newest week is, what a probe tells, and what the buckets of a   *)
(* history are.                                                            *)
(***************************************************************************)
EXTENDS WeeklyTables, FiniteSetTheorems, WellFoundedInduction, TLAPS

-----------------------------------------------------------------------------
(* Numbers, recursion and finite sets.                                     *)

\* A nonempty set of numbers has a least one.
LEMMA LeastNatural ==
    ASSUME NEW T, T \subseteq Nat, T # {} PROVE \E n \in T : \A m \in T : n <= m
<1>1. PICK R : R = OpToRel(<, Nat)
    OBVIOUS
<1>2. IsWellFoundedOn(R, Nat)
    BY <1>1, NatLessThanWellFounded
<1>3. PICK n \in T : \A m \in T : <<m, n>> \notin R
    BY <1>2, WFMin
<1>4. \A m \in Nat : m < n => <<m, n>> \in R
    BY <1>1 DEF OpToRel
<1>5. \A m \in T : ~(m < n)
    BY <1>3, <1>4, Zenon
<1> QED BY <1>3, <1>5

\* Induction, of a set.
LEMMA Inductive ==
    ASSUME NEW T, T \subseteq Nat, 0 \in T, \A n \in T : n + 1 \in T PROVE T = Nat
<1> SUFFICES ASSUME Nat \ T # {} PROVE FALSE
    OBVIOUS
<1>1. PICK n \in Nat \ T : \A m \in Nat \ T : n <= m
    BY LeastNatural
<1>2. n # 0 /\ n - 1 \in Nat /\ ~(n <= n - 1)
    BY <1>1
<1>3. n - 1 \in T
    BY <1>1, <1>2
<1> QED BY <1>1, <1>3

\* A step from one value of V to the next, and a function whose values follow by it.
StaysIn(V, step) == \A k \in Nat : \A v \in V : step[<<k, v>>] \in V
Follows(f, base, m, step) == f[0] = base /\ \A k \in 1 .. m : f[k] = step[<<k, f[k - 1]>>]

\* A function can be defined by recursion over 0 .. m.
LEMMA Recursion ==
    ASSUME NEW V, NEW base \in V, NEW m \in Nat, NEW step, StaysIn(V, step)
    PROVE  \E f \in [0 .. m -> V] : Follows(f, base, m, step)
<1> USE DEF StaysIn, Follows
<1> DEFINE Defined(f, n) == f[0] = base /\ \A k \in 1 .. n : f[k] = step[<<k, f[k - 1]>>]
           T == {n \in Nat : \E f \in [0 .. n -> V] : Defined(f, n)}
<1>1. 0 \in T
    <2>1. [k \in 0 .. 0 |-> base] \in [0 .. 0 -> V] /\ Defined([k \in 0 .. 0 |-> base], 0)
        OBVIOUS
    <2> QED BY <2>1
<1>2. ASSUME NEW n \in T PROVE n + 1 \in T
    <2>1. PICK f \in [0 .. n -> V] : Defined(f, n)
        BY <1>2
    <2> DEFINE g == [k \in 0 .. n + 1 |-> IF k = n + 1 THEN step[<<n + 1, f[n]>>] ELSE f[k]]
    <2>2. n \in Nat /\ n \in 0 .. n /\ n + 1 \in Nat
        OBVIOUS
    <2>3. step[<<n + 1, f[n]>>] \in V
        BY <2>1, <2>2
    <2>4. g \in [0 .. n + 1 -> V]
        BY <2>2, <2>3
    <2>5. g[0] = base
        BY <2>1, <2>2
    <2>6. ASSUME NEW k \in 1 .. n + 1 PROVE g[k] = step[<<k, g[k - 1]>>]
        <3>1. CASE k = n + 1
            BY <2>2, <3>1
        <3>2. CASE k # n + 1
            <4>1. k \in 1 .. n /\ k \in 0 .. n + 1 /\ k - 1 \in 0 .. n + 1 /\ k - 1 # n + 1
                BY <2>2, <3>2
            <4>2. g[k] = f[k] /\ g[k - 1] = f[k - 1]
                BY <3>2, <4>1
            <4> QED BY <2>1, <4>1, <4>2
        <3> QED BY <3>1, <3>2
    <2> QED BY <2>2, <2>4, <2>5, <2>6
<1>3. T = Nat
    <2> HIDE DEF T
    <2> T \subseteq Nat
        BY DEF T
    <2> QED BY <1>1, <1>2, Inductive
<1> QED BY <1>3

\* A finite set of integers has a greatest one.
LEMMA GreatestOfFinite ==
    ASSUME NEW S, IsFiniteSet(S), S # {}, S \subseteq Int
    PROVE  Max(S) \in S /\ \A y \in S : y <= Max(S)
<1> DEFINE Greatest(T) == \E x \in T : \A y \in T : x >= y
           Bad == {T \in FiniteSubsetsOf(S) : T # {} /\ ~Greatest(T)}
<1>1. Bad = {}
    <2>1. SUFFICES ASSUME Bad # {} PROVE FALSE
        OBVIOUS
    <2>2. IsWellFoundedOn(StrictSubsetOrdering(S), FiniteSubsetsOf(S))
        BY FS_StrictSubsetOrderingWellFounded
    <2>3. PICK T \in Bad : \A U \in Bad : <<U, T>> \notin StrictSubsetOrdering(S)
        <3>1. Bad \subseteq FiniteSubsetsOf(S)
            OBVIOUS
        <3> HIDE DEF Bad
        <3> QED BY <2>1, <2>2, <3>1, WFMin
    <2>4. T \subseteq S /\ IsFiniteSet(T) /\ T # {} /\ ~Greatest(T)
        BY <2>3 DEF FiniteSubsetsOf
    <2>5. PICK x \in T : TRUE
        BY <2>4
    <2>6. IsFiniteSet(T \ {x}) /\ T \ {x} \subseteq S
        BY <2>4, FS_RemoveElement
    <2>7. T \ {x} \notin Bad
        BY <2>3, <2>4, <2>5 DEF StrictSubsetOrdering
    <2>8. CASE T \ {x} = {}
        <3>1. Greatest(T)
            BY <2>4, <2>5, <2>8
        <3> QED BY <2>4, <3>1
    <2>9. CASE T \ {x} # {}
        <3>1. PICK z \in T \ {x} : \A y \in T \ {x} : z >= y
            BY <2>6, <2>7, <2>9 DEF FiniteSubsetsOf
        <3>2. Greatest(T)
            BY <2>4, <2>5, <3>1
        <3> QED BY <2>4, <3>2
    <2> QED BY <2>8, <2>9
<1>2. Greatest(S)
    BY <1>1 DEF FiniteSubsetsOf
<1> QED BY <1>2 DEF Max

\* The smaller of two numbers.
LEMMA SmallerOfTwo ==
    ASSUME NEW a \in Nat, NEW b \in Nat PROVE Min({a, b}) = IF a <= b THEN a ELSE b
<1> DEFINE c == IF a <= b THEN a ELSE b
<1>1. c \in {a, b} /\ \A y \in {a, b} : c <= y
    OBVIOUS
<1>2. \A x \in {a, b} : (\A y \in {a, b} : x <= y) => x = c
    OBVIOUS
<1> QED BY <1>1, <1>2 DEF Min

-----------------------------------------------------------------------------
(* The first rows in an order.                                             *)

\* The rows that no other comes before.
Leading(T, order) == {x \in T : \A z \in T : ~Precedes(order, z, x)}

\* One row more, in every way it can be.
OneMore(V, S, order) == UNION {{Append(s, x) : x \in Leading(S \ ToSet(s), order)} : s \in V}

\* How many rows a limit lets through.
Allowed(S, n) == IF n <= Cardinality(S) THEN n ELSE Cardinality(S)

\* The rows are taken one by one, each leading those that are left.
Takes(taken, S, order, n) ==
    /\ FirstInOrder(S, order, n) = taken[Allowed(S, n)]
    /\ taken[0] = {<<>>}
    /\ \A k \in 1 .. Allowed(S, n) : taken[k] = OneMore(taken[k - 1], S, order)

LEMMA TakenOneByOne ==
    ASSUME NEW S, IsFiniteSet(S), NEW order, NEW n \in Nat
    PROVE  \E taken \in [0 .. Allowed(S, n) -> SUBSET Seq(S)] : Takes(taken, S, order, n)
<1>1. PICK m \in Nat : m = Allowed(S, n) /\ m = Min({n, Cardinality(S)})
    BY FS_CardinalityType, SmallerOfTwo DEF Allowed
<1>2. PICK V : V = SUBSET Seq(S)
    OBVIOUS
<1> DEFINE Step(v) == OneMore(v, S, order)
           Rec(g) == [k \in 0 .. m |-> IF k = 0 THEN {<<>>} ELSE Step(g[k - 1])]
<1>3. {<<>>} \in V /\ \A v \in V : Step(v) \in V
    <2>1. ASSUME NEW s \in Seq(S), NEW x \in S PROVE Append(s, x) \in Seq(S)
        OBVIOUS
    <2> QED BY <1>2, <2>1 DEF Leading, OneMore
<1>4. PICK step : \A k \in Nat : \A v \in V : step[<<k, v>>] = Step(v)
    <2>1. \A k \in Nat : \A v \in V : [kv \in Nat \X V |-> Step(kv[2])][<<k, v>>] = Step(v)
        OBVIOUS
    <2> QED BY <2>1
<1>5. PICK f \in [0 .. m -> V] : f[0] = {<<>>} /\ \A k \in 1 .. m : f[k] = step[<<k, f[k - 1]>>]
    <2>1. StaysIn(V, step)
        BY <1>3, <1>4, Zenon DEF StaysIn
    <2>2. PICK base \in V : base = {<<>>}
        BY <1>3
    <2>3. \E f \in [0 .. m -> V] : Follows(f, base, m, step)
        BY <2>1, Recursion
    <2> QED BY <2>2, <2>3 DEF Follows
<1>6. \A k \in 1 .. m : f[k] = Step(f[k - 1])
    <2>1. \A k \in 1 .. m : k \in Nat /\ f[k - 1] \in V
        OBVIOUS
    <2> QED BY <1>4, <1>5, <2>1, Zenon
<1>7. f = Rec(f)
    <2>1. ASSUME NEW k \in 0 .. m PROVE f[k] = IF k = 0 THEN {<<>>} ELSE Step(f[k - 1])
        <3>1. k = 0 \/ k \in 1 .. m
            OBVIOUS
        <3> QED BY <1>5, <1>6, <3>1
    <2>2. f = [k \in 0 .. m |-> f[k]]
        OBVIOUS
    <2> QED BY <2>1, <2>2, Zenon
<1>8. PICK g : g = (CHOOSE h : h = Rec(h))
    OBVIOUS
<1>9. g = Rec(g)
    <2> HIDE DEF Rec
    <2> QED BY <1>7, <1>8
<1>10. FirstInOrder(S, order, n) = g[m]
    BY <1>1, <1>8 DEF FirstInOrder, Leading, OneMore
<1>11. g[0] = {<<>>} /\ \A k \in 1 .. m : g[k] = Step(g[k - 1])
    <2>1. \A k \in 0 .. m : g[k] = IF k = 0 THEN {<<>>} ELSE Step(g[k - 1])
        BY <1>9, Zenon
    <2>2. 0 \in 0 .. m /\ \A k \in 1 .. m : k \in 0 .. m /\ k # 0
        OBVIOUS
    <2> QED BY <2>1, <2>2, Zenon
<1>12. \A k \in 0 .. m : g[k] \in V
    <2> DEFINE T == {k \in Nat : k <= m => g[k] \in V}
    <2>1. 0 \in T
        BY <1>3, <1>11
    <2>2. ASSUME NEW k \in T PROVE k + 1 \in T
        <3>1. ASSUME k + 1 <= m PROVE g[k + 1] \in V
            <4>1. k + 1 \in 1 .. m /\ k <= m /\ (k + 1) - 1 = k
                BY <3>1
            <4>2. g[k + 1] = Step(g[k])
                BY <1>11, <4>1
            <4>3. g[k] \in V
                BY <4>1
            <4> QED BY <1>3, <4>2, <4>3, Zenon
        <3> QED BY <3>1
    <2>3. T = Nat
        <3> T \subseteq Nat
            OBVIOUS
        <3> HIDE DEF T
        <3> QED BY <2>1, <2>2, Inductive
    <2> QED BY <2>3
<1>13. g \in [0 .. m -> V]
    BY <1>9, <1>12
<1> QED BY <1>1, <1>2, <1>10, <1>11, <1>13 DEF Takes

\* What is taken: distinct rows, as many as the limit and the set allow, and none that was left
\* out or taken later comes before one of them.
LEMMA FirstAreFirst ==
    ASSUME NEW S, IsFiniteSet(S), NEW order, NEW n \in Nat, NEW s \in FirstInOrder(S, order, n)
    PROVE  /\ s \in Seq(S) /\ Len(s) = Allowed(S, n)
           /\ \A i, j \in DOMAIN s : s[i] = s[j] => i = j
           /\ \A i \in DOMAIN s : \A z \in S :
                 (\A j \in 1 .. i - 1 : s[j] # z) => ~Precedes(order, z, s[i])
<1> DEFINE Good(r, k) ==
              /\ r \in Seq(S) /\ Len(r) = k
              /\ \A i, j \in 1 .. k : r[i] = r[j] => i = j
              /\ \A i \in 1 .. k : \A z \in S :
                    (\A j \in 1 .. i - 1 : r[j] # z) => ~Precedes(order, z, r[i])
<1>1. PICK taken \in [0 .. Allowed(S, n) -> SUBSET Seq(S)] : Takes(taken, S, order, n)
    BY TakenOneByOne
<1> USE DEF Takes
<1>2. PICK m \in Nat : m = Allowed(S, n)
    BY FS_CardinalityType DEF Allowed
<1> DEFINE T == {k \in Nat : k <= m => \A r \in taken[k] : Good(r, k)}
<1>3. 0 \in T
    <2>1. \A r \in taken[0] : r = <<>>
        BY <1>1
    <2>2. Good(<<>>, 0)
        OBVIOUS
    <2> QED BY <2>1, <2>2
<1>4. ASSUME NEW k \in T PROVE k + 1 \in T
    <2> SUFFICES ASSUME k + 1 <= m, NEW r \in taken[k + 1] PROVE Good(r, k + 1)
        OBVIOUS
    <2>1. k + 1 \in 1 .. m /\ k \in 0 .. m /\ (k + 1) - 1 = k
        OBVIOUS
    <2>2. PICK q \in taken[k] : \E x \in Leading(S \ ToSet(q), order) : r = Append(q, x)
        BY <1>1, <1>2, <2>1 DEF OneMore
    <2>3. Good(q, k)
        BY <2>1, <2>2
    <2> PICK x \in Leading(S \ ToSet(q), order) : r = Append(q, x)
        BY <2>2
    <2>4. x \in S /\ (\A i \in 1 .. k : q[i] # x)
          /\ \A z \in S : (\A i \in 1 .. k : q[i] # z) => ~Precedes(order, z, x)
        BY <2>3 DEF Leading, ToSet
    <2>5. r \in Seq(S) /\ Len(r) = k + 1 /\ r[k + 1] = x /\ \A i \in 1 .. k : r[i] = q[i]
        BY <2>3, <2>4
    <2>6. ASSUME NEW i \in 1 .. k + 1, NEW j \in 1 .. k + 1, r[i] = r[j] PROVE i = j
        BY <2>3, <2>4, <2>5, <2>6
    <2>7. ASSUME NEW i \in 1 .. k + 1, NEW z \in S, \A j \in 1 .. i - 1 : r[j] # z
          PROVE  ~Precedes(order, z, r[i])
        <3>1. CASE i = k + 1
            <4>1. \A j \in 1 .. k : q[j] # z
                BY <2>5, <2>7, <3>1
            <4> QED BY <2>4, <2>5, <3>1, <4>1
        <3>2. CASE i # k + 1
            <4>1. i \in 1 .. k /\ \A j \in 1 .. i - 1 : j \in 1 .. k
                BY <3>2
            <4>2. \A j \in 1 .. i - 1 : q[j] # z
                BY <2>5, <2>7, <4>1
            <4> QED BY <2>3, <2>5, <4>1, <4>2
        <3> QED BY <3>1, <3>2
    <2> QED BY <2>5, <2>6, <2>7
<1>5. T = Nat
    <2> T \subseteq Nat
        OBVIOUS
    <2> HIDE DEF T
    <2> QED BY <1>3, <1>4, Inductive
<1>6. Good(s, m)
    BY <1>1, <1>2, <1>5
<1>7. DOMAIN s = 1 .. m
    BY <1>6
<1> QED BY <1>2, <1>6, <1>7

\* They are members of the set they are taken from.
LEMMA FirstAreMembers ==
    ASSUME NEW S, IsFiniteSet(S), NEW order, NEW n \in Nat, NEW s \in FirstInOrder(S, order, n),
           NEW i \in DOMAIN s
    PROVE  s[i] \in S
BY FirstAreFirst

\* Where every part of the set has a leading row, some rows are the first.
Rankable(S, order) == \A T \in SUBSET S : T # {} => Leading(T, order) # {}

LEMMA SomeAreFirst ==
    ASSUME NEW S, IsFiniteSet(S), NEW order, NEW n \in Nat, Rankable(S, order)
    PROVE  FirstInOrder(S, order, n) # {}
<1>1. PICK taken \in [0 .. Allowed(S, n) -> SUBSET Seq(S)] : Takes(taken, S, order, n)
    BY TakenOneByOne
<1> USE DEF Takes
<1>2. PICK m \in Nat : m = Allowed(S, n) /\ m <= Cardinality(S)
    BY FS_CardinalityType DEF Allowed
<1> DEFINE T == {k \in Nat : k <= m => \E s \in taken[k] : Len(s) = k}
<1>3. 0 \in T
    BY <1>1
<1>4. ASSUME NEW k \in T PROVE k + 1 \in T
    <2> SUFFICES ASSUME k + 1 <= m PROVE \E s \in taken[k + 1] : Len(s) = k + 1
        OBVIOUS
    <2>1. k + 1 \in 1 .. m /\ k \in 0 .. m /\ (k + 1) - 1 = k
        OBVIOUS
    <2>2. PICK s \in taken[k] : Len(s) = k
        OBVIOUS
    <2>3. s \in Seq(S)
        BY <1>2, <2>1
    <2>4. S \ ToSet(s) # {}
        <3>1. ToSet(s) \subseteq S /\ s \in Surjection(1 .. k, ToSet(s))
            BY <2>2, <2>3 DEF ToSet, Surjection
        <3>2. IsFiniteSet(1 .. k) /\ Cardinality(1 .. k) = k
            BY FS_Interval
        <3>3. Cardinality(ToSet(s)) <= k
            BY <3>1, <3>2, FS_Surjection
        <3>4. ToSet(s) # S
            BY <1>2, <3>3, FS_CardinalityType
        <3> QED BY <3>1, <3>4
    <2>5. PICK x : x \in Leading(S \ ToSet(s), order)
        BY <2>4 DEF Rankable
    <2>6. Append(s, x) \in taken[k + 1]
        BY <1>1, <1>2, <2>1, <2>5 DEF OneMore
    <2>7. Len(Append(s, x)) = k + 1
        BY <2>2, <2>3, <2>5 DEF Leading
    <2> QED BY <2>6, <2>7
<1>5. T = Nat
    <2> T \subseteq Nat
        OBVIOUS
    <2> HIDE DEF T
    <2> QED BY <1>3, <1>4, Inductive
<1> QED BY <1>1, <1>2, <1>5

-----------------------------------------------------------------------------
(* Weeks.                                                                  *)

\* Finitely many rows, each of a week.
AreWeekly(S) == IsFiniteSet(S) /\ \A x \in S : x.week \in Nat

LEMMA WeeklySubset == ASSUME NEW S, AreWeekly(S), NEW T, T \subseteq S PROVE AreWeekly(T)
BY FS_Subset DEF AreWeekly

\* The newest week is that of a row, and no row is newer.
LEMMA LatestIsNewest ==
    ASSUME NEW S, AreWeekly(S)
    PROVE  /\ LatestWeek(S) \in Nat
           /\ S # {} => \E x \in S : x.week = LatestWeek(S)
           /\ \A x \in S : x.week <= LatestWeek(S)
<1>1. CASE S = {}
    BY <1>1 DEF LatestWeek
<1>2. CASE S # {}
    <2> PICK W : W = {x.week : x \in S}
        OBVIOUS
    <2>1. [x \in S |-> x.week] \in Surjection(S, W)
        BY DEF Surjection
    <2>2. IsFiniteSet(W)
        BY <2>1, FS_Surjection DEF AreWeekly
    <2>3. W # {} /\ W \subseteq Nat /\ W \subseteq Int
        BY <1>2 DEF AreWeekly
    <2>4. Max(W) \in W /\ \A y \in W : y <= Max(W)
        BY <2>2, <2>3, GreatestOfFinite
    <2> QED BY <1>2, <2>3, <2>4 DEF LatestWeek
<1> QED BY <1>1, <1>2

\* More rows, a later newest week or the same.
LEMMA LatestGrows ==
    ASSUME NEW S, NEW T, AreWeekly(T), S \subseteq T PROVE LatestWeek(S) <= LatestWeek(T)
<1>1. AreWeekly(S)
    BY WeeklySubset
<1>2. CASE S = {}
    BY <1>2, LatestIsNewest DEF LatestWeek
<1>3. CASE S # {}
    BY <1>1, <1>3, LatestIsNewest
<1> QED BY <1>2, <1>3

\* An order that begins with the week.
NewestFirst(order) == 1 \in DOMAIN order /\ order[1] = Desc("week")
OldestFirst(order) == 1 \in DOMAIN order /\ order[1] = Asc("week")

LEMMA NewerPrecedes ==
    ASSUME NEW order, NewestFirst(order), NEW x, NEW y, x.week \in Nat, y.week \in Nat,
           x.week > y.week
    PROVE  Precedes(order, x, y)
<1>1. order[1][1] = "week" /\ order[1][2] = -1
    BY DEF NewestFirst, Desc
<1>2. (-1) * x.week < (-1) * y.week
    OBVIOUS
<1>3. \A j \in 1 .. 1 - 1 : x[order[j][1]] = y[order[j][1]]
    OBVIOUS
<1>4. order[1][2] * x[order[1][1]] < order[1][2] * y[order[1][1]]
    BY <1>1, <1>2
<1> QED BY <1>3, <1>4, Zenon DEF Precedes, NewestFirst

LEMMA OlderPrecedes ==
    ASSUME NEW order, OldestFirst(order), NEW x, NEW y, x.week \in Nat, y.week \in Nat,
           x.week < y.week
    PROVE  Precedes(order, x, y)
<1>1. order[1][1] = "week" /\ order[1][2] = 1
    BY DEF OldestFirst, Asc
<1>2. 1 * x.week < 1 * y.week
    OBVIOUS
<1>3. \A j \in 1 .. 1 - 1 : x[order[j][1]] = y[order[j][1]]
    OBVIOUS
<1> QED BY <1>1, <1>2, <1>3, Zenon DEF Precedes, OldestFirst

\* The newest rows exist.
LEMMA NewestExist ==
    ASSUME NEW S, AreWeekly(S), NEW n \in Nat
    PROVE  FirstInOrder(S, <<Desc("week")>>, n) # {}
<1>1. ASSUME NEW T \in SUBSET S, T # {} PROVE Leading(T, <<Desc("week")>>) # {}
    <2>1. PICK x \in T : \A z \in T : z.week <= x.week
        BY <1>1, WeeklySubset, LatestIsNewest DEF AreWeekly
    <2>2. PICK order : order = <<Desc("week")>>
        OBVIOUS
    <2>3. DOMAIN order = {1} /\ order[1][1] = "week" /\ order[1][2] = -1
        BY <2>2 DEF Desc
    <2>4. ASSUME NEW z \in T, Precedes(order, z, x) PROVE FALSE
        <3>1. z.week \in Nat /\ x.week \in Nat /\ z.week <= x.week
            BY <2>1 DEF AreWeekly
        <3>2. PICK i \in DOMAIN order :
                  order[i][2] * z[order[i][1]] < order[i][2] * x[order[i][1]]
            BY <2>4, Zenon DEF Precedes
        <3>3. i = 1
            BY <2>3
        <3>4. order[1][2] * z.week < order[1][2] * x.week
            BY <2>3, <3>2, <3>3, Zenon
        <3>5. (-1) * z.week < (-1) * x.week
            BY <2>3, <3>4, Zenon
        <3> QED BY <3>1, <3>5
    <2> QED BY <2>1, <2>2, <2>4 DEF Leading
<1> QED BY <1>1, SomeAreFirst DEF AreWeekly, Rankable

\* The first of them is of the newest week.
LEMMA FirstIsNewest ==
    ASSUME NEW S, AreWeekly(S), S # {}, NEW order, NewestFirst(order), NEW n \in Nat, n # 0,
           NEW s \in FirstInOrder(S, order, n)
    PROVE  1 \in DOMAIN s /\ s[1] \in S /\ s[1].week = LatestWeek(S)
<1>1. Cardinality(S) \in Nat /\ Cardinality(S) # 0
    BY FS_CardinalityType, FS_EmptySet DEF AreWeekly
<1>2. 1 \in DOMAIN s /\ s[1] \in S /\ \A z \in S : ~Precedes(order, z, s[1])
    BY <1>1, FirstAreFirst DEF Allowed, AreWeekly
<1>3. \A z \in S : ~(z.week > s[1].week)
    BY <1>2, NewerPrecedes DEF AreWeekly
<1>4. s[1].week <= LatestWeek(S) /\ LatestWeek(S) \in Nat /\ \E z \in S : z.week = LatestWeek(S)
    BY <1>2, LatestIsNewest
<1> QED BY <1>2, <1>3, <1>4 DEF AreWeekly

-----------------------------------------------------------------------------
(* Snapshots.                                                              *)

\* What was committed stays.
LEMMA RowsAtGrows ==
    ASSUME NEW A, NEW B, A \subseteq B, NEW t PROVE RowsAt(A, t) \subseteq RowsAt(B, t)
BY DEF RowsAt

\* A table of any snapshot is made of weekly rows; none is a missing parameter, and those of a
\* dated table have a week.
LEMMA TablesAreWeekly ==
    ASSUME NEW A, A \subseteq BatchId, NEW t \in Table
    PROVE  /\ AreWeekly(RowsAt(A, t)) /\ Omitted \notin RowsAt(A, t)
           /\ \A x \in RowsAt(A, t) : "week" \in DOMAIN x
           /\ t \in Dated => \A x \in RowsAt(A, t) : x.week # 0
<1>1. RowsAt(A, t) \subseteq RowsAt(BatchId, t)
    BY RowsAtGrows
<1>2. IsFiniteSet(RowsAt(A, t))
    BY <1>1, RowsAssumption, FS_Subset
<1>3. \A x \in RowsAt(A, t) : x.week \in Nat /\ "week" \in DOMAIN x
    BY TablesAssumption DEF RowsAt
<1>4. Omitted \notin RowsAt(A, t)
    BY <1>1, OmittedAssumption
<1>5. t \in Dated => \A x \in RowsAt(A, t) : x.week # 0
    BY <1>1, RowsAssumption
<1> QED BY <1>2, <1>3, <1>4, <1>5 DEF AreWeekly

-----------------------------------------------------------------------------
(* Histories.                                                              *)

\* The rows of a history are the first of what matched, and `truncated` says if any are missing.
IsHistory(rows, truncated, S, order) ==
    /\ rows \in Seq(S)
    /\ \A i, j \in DOMAIN rows : rows[i] = rows[j] => i = j
    /\ \A i \in DOMAIN rows : \A z \in S :
          (\A j \in 1 .. i - 1 : rows[j] # z) => ~Precedes(order, z, rows[i])
    /\ truncated \in BOOLEAN
    /\ truncated <=> Len(rows) < Cardinality(S)
    /\ ~truncated => \A z \in S : \E i \in DOMAIN rows : rows[i] = z

\* As many distinct members as there are, are all.
LEMMA AllAreTaken ==
    ASSUME NEW S, IsFiniteSet(S), NEW s \in Seq(S), Len(s) = Cardinality(S),
           \A i, j \in DOMAIN s : s[i] = s[j] => i = j
    PROVE  \A z \in S : \E i \in DOMAIN s : s[i] = z
<1>1. IsFiniteSet(1 .. Len(s)) /\ Cardinality(1 .. Len(s)) = Len(s)
    BY FS_Interval
<1>2. s \in Injection(1 .. Len(s), S)
    BY DEF Injection, IsInjective
<1>3. s \in Surjection(1 .. Len(s), S)
    BY <1>1, <1>2, FS_Injection
<1> QED BY <1>3 DEF Surjection

\* probe_limit and split_probe_rows: one row more than is sent tells whether there are more.
LEMMA ProbeIsHistory ==
    ASSUME NEW S, IsFiniteSet(S), NEW order, NEW limit \in Nat,
           NEW s \in FirstInOrder(S, order, ProbeLimit(limit))
    PROVE  IsHistory(SplitProbe(s, limit).rows, SplitProbe(s, limit).truncated, S, order)
<1> DEFINE n == IF Len(s) < limit THEN Len(s) ELSE limit
<1>1. limit + 1 \in Nat /\ Cardinality(S) \in Nat
    BY FS_CardinalityType
<1>2. /\ s \in Seq(S) /\ Len(s) = Allowed(S, limit + 1)
      /\ \A i, j \in DOMAIN s : s[i] = s[j] => i = j
      /\ \A i \in DOMAIN s : \A z \in S :
            (\A j \in 1 .. i - 1 : s[j] # z) => ~Precedes(order, z, s[i])
    BY <1>1, FirstAreFirst DEF ProbeLimit
<1>3. PICK rows : rows = SubSeq(s, 1, n)
    OBVIOUS
<1>4. rows \in Seq(S) /\ Len(rows) = n /\ n <= Len(s) /\ DOMAIN rows = 1 .. n /\ n \in Nat
      /\ \A i \in 1 .. n : rows[i] = s[i] /\ i \in DOMAIN s
    BY <1>2, <1>3
<1>5. (Len(s) > limit) <=> (n < Cardinality(S))
    BY <1>1, <1>2 DEF Allowed
<1>6. SplitProbe(s, limit).rows = rows /\ SplitProbe(s, limit).truncated = (Len(s) > limit)
    BY <1>3 DEF SplitProbe
<1>7. \A i, j \in DOMAIN rows : rows[i] = rows[j] => i = j
    BY <1>2, <1>4
<1>8. ASSUME NEW i \in DOMAIN rows, NEW z \in S, \A j \in 1 .. i - 1 : rows[j] # z
      PROVE  ~Precedes(order, z, rows[i])
    <2>1. \A j \in 1 .. i - 1 : j \in 1 .. n
        BY <1>4
    <2>2. \A j \in 1 .. i - 1 : s[j] # z
        BY <1>4, <1>8, <2>1
    <2> QED BY <1>2, <1>4, <2>2
<1>9. ~(Len(s) > limit) => \A z \in S : \E i \in DOMAIN rows : rows[i] = z
    <2>1. ~(Len(s) > limit) => n = Cardinality(S)
        BY <1>1, <1>2 DEF Allowed
    <2> HIDE DEF n
    <2> QED BY <1>4, <1>7, <2>1, AllAreTaken
<1>10. SplitProbe(s, limit).truncated \in BOOLEAN
    BY <1>6
<1> HIDE DEF n
<1> QED BY <1>4, <1>5, <1>6, <1>7, <1>8, <1>9, <1>10 DEF IsHistory

\* Where the newest come first, a row that is missing is no newer than those that are sent.
LEMMA OlderAreLost ==
    ASSUME NEW S, AreWeekly(S), NEW rows, NEW truncated, NEW order, NewestFirst(order),
           IsHistory(rows, truncated, S, order)
    PROVE  \A x \in S : \A i \in DOMAIN rows :
              x.week > rows[i].week => \E j \in DOMAIN rows : rows[j].week = x.week
<1> SUFFICES ASSUME NEW x \in S, NEW i \in DOMAIN rows, x.week > rows[i].week
             PROVE  \E j \in DOMAIN rows : rows[j].week = x.week
    OBVIOUS
<1>1. rows[i] \in S /\ i \in Nat /\ DOMAIN rows = 1 .. Len(rows) /\ Len(rows) \in Nat
    BY DEF IsHistory
<1>2. Precedes(order, x, rows[i])
    BY <1>1, NewerPrecedes DEF AreWeekly
<1>3. PICK j \in 1 .. i - 1 : rows[j] = x
    BY <1>2 DEF IsHistory
<1> QED BY <1>1, <1>3

\* Where the oldest come first, weeks follow each other in their order, and a row that is missing
\* is no older than the last that is sent.
LEMMA NewerAreLost ==
    ASSUME NEW S, AreWeekly(S), NEW rows, NEW truncated, NEW order, OldestFirst(order),
           IsHistory(rows, truncated, S, order)
    PROVE  /\ \A i, j \in DOMAIN rows : i <= j => rows[i].week <= rows[j].week
           /\ \A x \in S : \A i \in DOMAIN rows :
                 x.week < rows[i].week => \E j \in DOMAIN rows : rows[j] = x
<1>1. DOMAIN rows = 1 .. Len(rows) /\ Len(rows) \in Nat /\ \A i \in DOMAIN rows : rows[i] \in S
    BY DEF IsHistory
<1>2. ASSUME NEW i \in DOMAIN rows, NEW j \in DOMAIN rows, i <= j
      PROVE  rows[i].week <= rows[j].week
    <2>1. \A k \in 1 .. i - 1 : rows[k] # rows[j]
        BY <1>1, <1>2 DEF IsHistory
    <2>2. ~Precedes(order, rows[j], rows[i])
        BY <1>1, <2>1 DEF IsHistory
    <2>3. rows[i].week \in Nat /\ rows[j].week \in Nat
        BY <1>1 DEF AreWeekly
    <2>4. ~(rows[j].week < rows[i].week)
        BY <2>2, <2>3, OlderPrecedes
    <2> QED BY <2>3, <2>4
<1>3. ASSUME NEW x \in S, NEW i \in DOMAIN rows, x.week < rows[i].week
      PROVE  \E j \in DOMAIN rows : rows[j] = x
    <2>1. Precedes(order, x, rows[i])
        BY <1>1, <1>3, OlderPrecedes DEF AreWeekly
    <2>2. PICK j \in 1 .. i - 1 : rows[j] = x
        BY <2>1 DEF IsHistory
    <2> QED BY <1>1, <2>2
<1> QED BY <1>2, <1>3

-----------------------------------------------------------------------------
(* The buckets of a grouped history.                                       *)

Bucket == [week : Nat, count : Nat]

\* A row opens a bucket of its week, or is counted in the last one.
LEMMA CountedInABucket ==
    ASSUME NEW b \in Seq(Bucket), NEW w \in Nat
    PROVE  /\ Counted(b, w) \in Seq(Bucket)
           /\ b = <<>> \/ b[Len(b)].week # w =>
                 /\ Len(Counted(b, w)) = Len(b) + 1
                 /\ Counted(b, w)[Len(b) + 1] = [week |-> w, count |-> 1]
                 /\ \A i \in 1 .. Len(b) : Counted(b, w)[i] = b[i]
           /\ ~(b = <<>> \/ b[Len(b)].week # w) =>
                 /\ Len(b) # 0 /\ Len(Counted(b, w)) = Len(b)
                 /\ Counted(b, w)[Len(b)] = [week |-> w, count |-> b[Len(b)].count + 1]
                 /\ \A i \in 1 .. Len(b) - 1 : Counted(b, w)[i] = b[i]
<1>1. CASE b = <<>> \/ b[Len(b)].week # w
    <2>1. Counted(b, w) = Append(b, [week |-> w, count |-> 1])
        BY <1>1 DEF Counted, Last
    <2>2. [week |-> w, count |-> 1] \in Bucket
        BY DEF Bucket
    <2> QED BY <1>1, <2>1, <2>2
<1>2. CASE ~(b = <<>> \/ b[Len(b)].week # w)
    <2> DEFINE n == Len(b)
               new == [week |-> w, count |-> b[n].count + 1]
    <2>1. n \in Nat /\ n \in 1 .. n /\ b[n] \in Bucket /\ DOMAIN b = 1 .. n
        BY <1>2
    <2>2. [b[n] EXCEPT !.count = @ + 1] = new /\ new \in Bucket
        BY <1>2, <2>1 DEF Bucket
    <2>3. Counted(b, w) = [b EXCEPT ![n] = [b[n] EXCEPT !.count = @ + 1]]
        BY <1>2, Zenon DEF Counted, Last
    <2>4. Counted(b, w) = [b EXCEPT ![n] = new]
        BY <2>2, <2>3
    <2> HIDE DEF new
    <2>5. Counted(b, w) \in Seq(Bucket) /\ Len(Counted(b, w)) = n
        BY <2>1, <2>2, <2>4
    <2>6. Counted(b, w)[n] = new /\ \A i \in 1 .. n - 1 : Counted(b, w)[i] = b[i]
        BY <2>1, <2>4
    <2>7. new = [week |-> w, count |-> b[Len(b)].count + 1] /\ Len(b) # 0
        BY <2>1 DEF new
    <2> QED BY <1>2, <2>5, <2>6, <2>7
<1> QED BY <1>1, <1>2

\* The buckets are made row by row.
Grouped(grouped, rows) ==
    /\ grouped[0] = <<>>
    /\ \A k \in 1 .. Len(rows) : grouped[k] = Counted(grouped[k - 1], rows[k].week)

LEMMA GroupedRowByRow ==
    ASSUME NEW S, AreWeekly(S), NEW rows \in Seq(S)
    PROVE  \E grouped \in [0 .. Len(rows) -> Seq(Bucket)] :
              Grouped(grouped, rows) /\ GroupByWeek(rows) = grouped[Len(rows)]
<1>1. PICK m \in Nat : m = Len(rows)
    OBVIOUS
<1>2. PICK V : V = Seq(Bucket)
    OBVIOUS
<1>3. \A k \in 1 .. m : rows[k].week \in Nat
    BY <1>1 DEF AreWeekly
<1> DEFINE Rec(g) == [k \in 0 .. m |-> IF k = 0 THEN <<>> ELSE Counted(g[k - 1], rows[k].week)]
<1>4. <<>> \in V /\ \A v \in V : \A k \in 1 .. m : Counted(v, rows[k].week) \in V
    <2>1. \A v \in Seq(Bucket) : \A w \in Nat : Counted(v, w) \in Seq(Bucket)
        BY CountedInABucket
    <2>2. <<>> \in Seq(Bucket)
        OBVIOUS
    <2>3. \A v \in V : \A k \in 1 .. m : Counted(v, rows[k].week) \in V
        BY <1>2, <1>3, <2>1
    <2> QED BY <1>2, <2>2, <2>3
<1>5. PICK step : \A k \in Nat : \A v \in V :
          step[<<k, v>>] = IF k \in 1 .. m THEN Counted(v, rows[k].week) ELSE v
    <2> DEFINE fn == [kv \in Nat \X V |->
                        IF kv[1] \in 1 .. m THEN Counted(kv[2], rows[kv[1]].week) ELSE kv[2]]
    <2>1. \A k \in Nat : \A v \in V :
              fn[<<k, v>>] = IF k \in 1 .. m THEN Counted(v, rows[k].week) ELSE v
        OBVIOUS
    <2> HIDE DEF fn
    <2> QED BY <2>1
<1>6. PICK f \in [0 .. m -> V] : Follows(f, <<>>, m, step)
    <2>1. StaysIn(V, step)
        BY <1>4, <1>5 DEF StaysIn
    <2>2. PICK base \in V : base = <<>>
        BY <1>4
    <2>3. \E f \in [0 .. m -> V] : Follows(f, base, m, step)
        BY <2>1, Recursion
    <2> QED BY <2>2, <2>3
<1>7. f = Rec(f)
    <2>1. ASSUME NEW k \in 0 .. m
          PROVE  f[k] = IF k = 0 THEN <<>> ELSE Counted(f[k - 1], rows[k].week)
        <3>1. CASE k = 0
            BY <1>6, <3>1 DEF Follows
        <3>2. CASE k # 0
            <4>1. k \in 1 .. m /\ k \in Nat /\ f[k - 1] \in V
                BY <3>2
            <4>2. f[k] = step[<<k, f[k - 1]>>]
                BY <1>6, <4>1 DEF Follows
            <4> QED BY <1>5, <3>2, <4>1, <4>2
        <3> QED BY <3>1, <3>2
    <2>2. f = [k \in 0 .. m |-> f[k]]
        OBVIOUS
    <2> QED BY <2>1, <2>2, Zenon
<1>8. PICK g : g = (CHOOSE h : h = Rec(h))
    OBVIOUS
<1>9. g = Rec(g)
    <2> HIDE DEF Rec
    <2> QED BY <1>7, <1>8
<1>10. GroupByWeek(rows) = g[m]
    BY <1>1, <1>8 DEF GroupByWeek
<1>11. \A k \in 0 .. m : g[k] = IF k = 0 THEN <<>> ELSE Counted(g[k - 1], rows[k].week)
    BY <1>9, Zenon
<1>12. \A k \in 0 .. m : g[k] \in V
    <2> DEFINE T == {k \in Nat : k <= m => g[k] \in V}
    <2>1. 0 \in T
        BY <1>4, <1>11
    <2>2. ASSUME NEW k \in T PROVE k + 1 \in T
        <3>1. ASSUME k + 1 <= m PROVE g[k + 1] \in V
            <4>1. k + 1 \in 1 .. m /\ k + 1 \in 0 .. m /\ k + 1 # 0 /\ k <= m /\ (k + 1) - 1 = k
                BY <3>1
            <4>2. g[k + 1] = Counted(g[k], rows[k + 1].week) /\ g[k] \in V
                BY <1>11, <4>1
            <4> QED BY <1>4, <4>1, <4>2
        <3> QED BY <3>1
    <2>3. T = Nat
        <3> T \subseteq Nat
            OBVIOUS
        <3> HIDE DEF T
        <3> QED BY <2>1, <2>2, Inductive
    <2> QED BY <2>3
<1>13. g \in [0 .. m -> V]
    BY <1>9, <1>12
<1>14. Grouped(g, rows)
    BY <1>1, <1>11 DEF Grouped
<1> QED BY <1>1, <1>2, <1>10, <1>13, <1>14

\* How many of the first n rows are of a week.
OfWeek(rows, n, w) == {k \in 1 .. n : rows[k].week = w}

LEMMA OfWeekGrows ==
    ASSUME NEW rows, NEW n \in Nat, NEW w
    PROVE  /\ IsFiniteSet(OfWeek(rows, n, w))
           /\ Cardinality(OfWeek(rows, n, w)) \in Nat
           /\ Cardinality(OfWeek(rows, n + 1, w)) =
                 IF rows[n + 1].week = w THEN Cardinality(OfWeek(rows, n, w)) + 1
                 ELSE Cardinality(OfWeek(rows, n, w))
<1>1. IsFiniteSet(1 .. n) /\ OfWeek(rows, n, w) \subseteq 1 .. n
    BY FS_Interval DEF OfWeek
<1>2. IsFiniteSet(OfWeek(rows, n, w))
    BY <1>1, FS_Subset
<1>3. n + 1 \notin OfWeek(rows, n, w)
    BY DEF OfWeek
<1>4. OfWeek(rows, n + 1, w) =
          IF rows[n + 1].week = w THEN OfWeek(rows, n, w) \cup {n + 1} ELSE OfWeek(rows, n, w)
    <2>1. \A k : k \in 1 .. n + 1 <=> k \in 1 .. n \/ k = n + 1
        OBVIOUS
    <2> QED BY <2>1, Zenon DEF OfWeek
<1> QED BY <1>2, <1>3, <1>4, FS_AddElement, FS_CardinalityType

\* Of rows in the order of their weeks, each week has one bucket, with all rows of it.
LEMMA BucketsCount ==
    ASSUME NEW S, AreWeekly(S), NEW rows \in Seq(S),
           \A i, j \in DOMAIN rows : i <= j => rows[i].week <= rows[j].week
    PROVE  /\ GroupByWeek(rows) \in Seq(Bucket)
           /\ \A i, j \in DOMAIN GroupByWeek(rows) :
                 i < j => GroupByWeek(rows)[i].week < GroupByWeek(rows)[j].week
           /\ \A i \in DOMAIN GroupByWeek(rows) :
                 GroupByWeek(rows)[i].count =
                     Cardinality(OfWeek(rows, Len(rows), GroupByWeek(rows)[i].week))
           /\ GroupByWeek(rows) # <<>> =>
                 /\ rows # <<>>
                 /\ GroupByWeek(rows)[Len(GroupByWeek(rows))].week = rows[Len(rows)].week
<1> DEFINE Good(b, n) ==
              /\ b \in Seq(Bucket)
              /\ \A i, j \in 1 .. Len(b) : i < j => b[i].week < b[j].week
              /\ \A i \in 1 .. Len(b) : b[i].count = Cardinality(OfWeek(rows, n, b[i].week))
              /\ IF n = 0 THEN b = <<>> ELSE b # <<>> /\ b[Len(b)].week = rows[n].week
<1>1. PICK g \in [0 .. Len(rows) -> Seq(Bucket)] :
          Grouped(g, rows) /\ GroupByWeek(rows) = g[Len(rows)]
    BY GroupedRowByRow
<1>2. PICK m \in Nat : m = Len(rows) /\ DOMAIN rows = 1 .. m
    OBVIOUS
<1>3. \A k \in 1 .. m : rows[k].week \in Nat
    BY <1>2 DEF AreWeekly
<1> DEFINE T == {n \in Nat : n <= m => Good(g[n], n)}
<1>4. 0 \in T
    <2>1. Good(<<>>, 0)
        OBVIOUS
    <2> QED BY <1>1, <2>1 DEF Grouped
<1>5. ASSUME NEW n \in T PROVE n + 1 \in T
    <2> SUFFICES ASSUME n + 1 <= m PROVE Good(g[n + 1], n + 1)
        OBVIOUS
    <2>1. n \in Nat /\ n + 1 \in 1 .. m /\ (n + 1) - 1 = n /\ Good(g[n], n)
        OBVIOUS
    <2>2. PICK w \in Nat : w = rows[n + 1].week
        BY <1>3, <2>1
    <2>3. PICK b : b = g[n]
        OBVIOUS
    <2>4. PICK c : c = g[n + 1] /\ c = Counted(b, w)
        BY <1>1, <1>2, <2>1, <2>2, <2>3 DEF Grouped
    <2>5. /\ b \in Seq(Bucket)
          /\ \A i, j \in 1 .. Len(b) : i < j => b[i].week < b[j].week
          /\ \A i \in 1 .. Len(b) : b[i].count = Cardinality(OfWeek(rows, n, b[i].week))
          /\ IF n = 0 THEN b = <<>> ELSE b # <<>> /\ b[Len(b)].week = rows[n].week
        BY <2>1, <2>3
    <2>6. Len(b) \in Nat /\ \A i \in 1 .. Len(b) : b[i] \in Bucket /\ b[i].week \in Nat
        <3>1. b \in Seq(Bucket)
            BY <2>5
        <3>2. Len(b) \in Nat /\ \A i \in 1 .. Len(b) : b[i] \in Bucket
            BY <3>1
        <3>3. \A x \in Bucket : x.week \in Nat
            BY DEF Bucket
        <3> QED BY <3>2, <3>3
    <2>7. n # 0 => n \in 1 .. m /\ rows[n].week <= w /\ rows[n].week \in Nat
        <3>1. n \in Nat /\ n + 1 \in 1 .. m
            BY <2>1
        <3>2. n # 0 => n \in 1 .. m /\ n <= n + 1
            BY <3>1
        <3>3. n # 0 => rows[n].week <= rows[n + 1].week
            BY <1>2, <3>1, <3>2
        <3> QED BY <1>3, <2>2, <3>2, <3>3
    <2>8. CASE b = <<>> \/ b[Len(b)].week # w
        <3>1. /\ c \in Seq(Bucket) /\ Len(c) = Len(b) + 1
              /\ c[Len(b) + 1] = [week |-> w, count |-> 1]
              /\ \A i \in 1 .. Len(b) : c[i] = b[i]
            BY <2>4, <2>5, <2>8, CountedInABucket
        <3>2. c[Len(b) + 1].week = w /\ c[Len(b) + 1].count = 1
            BY <3>1
        <3>3. \A i \in 1 .. Len(b) : b[i].week < w
            <4>1. CASE n = 0
                BY <2>5, <4>1
            <4>2. CASE n # 0
                <5>1. b # <<>> /\ b[Len(b)].week < w
                    BY <2>2, <2>5, <2>7, <2>8, <4>2
                <5>2. \A i \in 1 .. Len(b) : i < Len(b) \/ i = Len(b)
                    BY <2>6
                <5>3. Len(b) \in 1 .. Len(b)
                    BY <2>5, <2>6, <5>1
                <5> QED BY <2>2, <2>5, <2>6, <5>1, <5>2, <5>3
            <4> QED BY <4>1, <4>2
        <3>4. ASSUME NEW i \in 1 .. Len(c), NEW j \in 1 .. Len(c), i < j
              PROVE  c[i].week < c[j].week
            <4>1. i \in 1 .. Len(b)
                BY <2>6, <3>1, <3>4
            <4>2. CASE j = Len(b) + 1
                BY <3>1, <3>2, <3>3, <4>1, <4>2
            <4>3. CASE j # Len(b) + 1
                <5>1. j \in 1 .. Len(b)
                    BY <2>6, <3>1, <4>3
                <5> QED BY <2>5, <3>1, <3>4, <4>1, <5>1
            <4> QED BY <4>2, <4>3
        <3>5. OfWeek(rows, n, w) = {}
            <4>1. ASSUME NEW k \in 1 .. n PROVE rows[k].week # w
                <5>1. n # 0 /\ k \in 1 .. m /\ n \in 1 .. m /\ k <= n
                    BY <2>1
                <5>2. rows[k].week <= rows[n].week /\ rows[k].week \in Nat
                    BY <1>2, <1>3, <5>1
                <5>3. b[Len(b)].week = rows[n].week /\ Len(b) \in 1 .. Len(b)
                    BY <2>5, <2>6, <5>1
                <5>4. rows[n].week < w /\ rows[n].week \in Nat
                    BY <2>7, <3>3, <5>1, <5>3
                <5> QED BY <2>2, <5>2, <5>4
            <4> QED BY <4>1 DEF OfWeek
        <3>6. ASSUME NEW i \in 1 .. Len(c)
              PROVE  c[i].count = Cardinality(OfWeek(rows, n + 1, c[i].week))
            <4>1. CASE i = Len(b) + 1
                <5>1. Cardinality(OfWeek(rows, n + 1, w)) = 1
                    <6>1. n \in Nat /\ rows[n + 1].week = w
                        BY <2>1, <2>2
                    <6>2. Cardinality(OfWeek(rows, n + 1, w)) = Cardinality(OfWeek(rows, n, w)) + 1
                        BY <6>1, OfWeekGrows
                    <6>3. Cardinality(OfWeek(rows, n, w)) = 0
                        BY <3>5, FS_EmptySet
                    <6> QED BY <6>2, <6>3
                <5> QED BY <3>2, <4>1, <5>1
            <4>2. CASE i # Len(b) + 1
                <5>1. i \in 1 .. Len(b)
                    BY <2>6, <3>1, <4>2
                <5>2. c[i] = b[i] /\ b[i].week # w
                    BY <2>2, <2>6, <3>1, <3>3, <5>1
                <5>3. Cardinality(OfWeek(rows, n + 1, b[i].week)) = Cardinality(OfWeek(rows, n, b[i].week))
                    <6>1. PICK v : v = b[i].week
                        OBVIOUS
                    <6>2. n \in Nat /\ rows[n + 1].week # v
                        BY <2>1, <2>2, <5>2, <6>1
                    <6>3. Cardinality(OfWeek(rows, n + 1, v)) = Cardinality(OfWeek(rows, n, v))
                        BY <6>2, OfWeekGrows
                    <6> QED BY <6>1, <6>3
                <5> QED BY <2>5, <5>1, <5>2, <5>3
            <4> QED BY <4>1, <4>2
        <3>7. c # <<>> /\ c[Len(c)].week = rows[n + 1].week
            BY <2>2, <2>6, <3>1, <3>2
        <3> QED BY <2>1, <2>4, <3>1, <3>4, <3>6, <3>7
    <2>9. CASE ~(b = <<>> \/ b[Len(b)].week # w)
        <3>1. /\ c \in Seq(Bucket) /\ Len(b) # 0 /\ Len(c) = Len(b)
              /\ c[Len(b)] = [week |-> w, count |-> b[Len(b)].count + 1]
              /\ \A i \in 1 .. Len(b) - 1 : c[i] = b[i]
            <4>1. b \in Seq(Bucket) /\ w \in Nat
                BY <2>2, <2>5
            <4>2. PICK d : d = Counted(b, w)
                OBVIOUS
            <4>3. d \in Seq(Bucket)
                BY <4>1, <4>2, CountedInABucket
            <4>4. /\ Len(b) # 0 /\ Len(d) = Len(b)
                  /\ d[Len(b)] = [week |-> w, count |-> b[Len(b)].count + 1]
                  /\ \A i \in 1 .. Len(b) - 1 : d[i] = b[i]
                BY <2>9, <4>1, <4>2, CountedInABucket
            <4>5. c = d
                BY <2>4, <4>2
            <4> QED BY <4>3, <4>4, <4>5
        <3>2. c[Len(b)].week = w /\ c[Len(b)].count = b[Len(b)].count + 1
              /\ b[Len(b)].week = w /\ Len(b) \in 1 .. Len(b)
            BY <2>6, <2>9, <3>1
        <3>3. \A i \in 1 .. Len(b) : c[i].week = b[i].week
            <4>1. \A i \in 1 .. Len(b) : i = Len(b) \/ i \in 1 .. Len(b) - 1
                BY <2>6
            <4> QED BY <3>1, <3>2, <4>1
        <3>4. \A i, j \in 1 .. Len(c) : i < j => c[i].week < c[j].week
            BY <2>5, <3>1, <3>3
        <3>5. ASSUME NEW i \in 1 .. Len(c)
              PROVE  c[i].count = Cardinality(OfWeek(rows, n + 1, c[i].week))
            <4>1. CASE i = Len(b)
                <5>1. Cardinality(OfWeek(rows, n + 1, w)) = Cardinality(OfWeek(rows, n, w)) + 1
                    <6>1. n \in Nat /\ rows[n + 1].week = w
                        BY <2>1, <2>2
                    <6> QED BY <6>1, OfWeekGrows
                <5> QED BY <2>5, <3>2, <4>1, <5>1
            <4>2. CASE i # Len(b)
                <5>1. i \in 1 .. Len(b) - 1 /\ i \in 1 .. Len(b) /\ i < Len(b)
                    BY <2>6, <3>1, <4>2
                <5>2. c[i] = b[i] /\ b[i].week < w
                    BY <2>5, <3>1, <3>2, <5>1
                <5>3. b[i].week # w
                    BY <2>2, <2>6, <5>1, <5>2
                <5>4. Cardinality(OfWeek(rows, n + 1, b[i].week)) = Cardinality(OfWeek(rows, n, b[i].week))
                    <6>1. PICK v : v = b[i].week
                        OBVIOUS
                    <6>2. n \in Nat /\ rows[n + 1].week # v
                        BY <2>1, <2>2, <5>3, <6>1
                    <6>3. Cardinality(OfWeek(rows, n + 1, v)) = Cardinality(OfWeek(rows, n, v))
                        BY <6>2, OfWeekGrows
                    <6> QED BY <6>1, <6>3
                <5> QED BY <2>5, <5>1, <5>2, <5>4
            <4> QED BY <4>1, <4>2
        <3>6. c # <<>> /\ c[Len(c)].week = rows[n + 1].week
            BY <2>2, <2>6, <3>1, <3>2
        <3> QED BY <2>1, <2>4, <3>1, <3>4, <3>5, <3>6
    <2> QED BY <2>8, <2>9
<1>6. T = Nat
    <2> T \subseteq Nat
        OBVIOUS
    <2> HIDE DEF T
    <2> QED BY <1>4, <1>5, Inductive
<1>7. PICK b : b = GroupByWeek(rows)
    OBVIOUS
<1>8. Good(b, m)
    BY <1>1, <1>2, <1>6, <1>7
<1>9. DOMAIN b = 1 .. Len(b)
    BY <1>8
<1>10. b # <<>> => rows # <<>>
    BY <1>2, <1>8
<1>11. b # <<>> => b[Len(b)].week = rows[Len(rows)].week
    BY <1>2, <1>8
<1> QED BY <1>2, <1>7, <1>8, <1>9, <1>10, <1>11
=============================================================================
