--------------------------- MODULE XPLeveling_proofs ---------------------------
(***************************************************************************)
(* Theorems about XPLeveling, for every curve, every worth of a reward,     *)
(* every number of journal entries, slots, deaths and loaded games.         *)
(***************************************************************************)
EXTENDS XPLeveling, FiniteSetTheorems, WellFoundedInduction, TLAPS

(***************************************************************************)
(* Induction.  The induction theorems of the library take a predicate; the  *)
(* minimum of a set under a well-founded relation, which takes a set, does  *)
(* as well.                                                                 *)
(***************************************************************************)

LT == OpToRel(<, Nat)

\* Every set of numbers that is not empty has a least one.
LEMMA Least == ASSUME NEW T \in SUBSET Nat, T # {} PROVE \E x \in T : \A y \in T : x <= y
<1>1. IsWellFoundedOn(LT, Nat)
  BY NatLessThanWellFounded DEF LT
<1>2. \A x, y \in Nat : <<x, y>> \in LT <=> x < y
  BY DEF LT, OpToRel
<1>3. PICK x \in T : \A y \in T : ~(<<y, x>> \in LT)
  BY <1>1, WFMin
<1> HIDE DEF LT
<1>4. ASSUME NEW y \in T PROVE x <= y
  <2>1. x \in Nat /\ y \in Nat
    OBVIOUS
  <2>2. ~(y < x)
    BY <1>2, <1>3, <2>1
  <2>3. QED
    BY <2>1, <2>2
<1>5. QED
  BY <1>4

\* A set that has the first level and, with a level, the next has all up to n.
LEMMA RangeInduction ==
    ASSUME NEW n \in Nat, NEW S, 1 \in S,
           \A i \in 1..n : i < n /\ i \in S => i + 1 \in S
    PROVE  1..n \subseteq S
<1> SUFFICES ASSUME (1..n) \ S # {} PROVE FALSE
  OBVIOUS
<1>1. PICK x \in (1..n) \ S : \A y \in (1..n) \ S : x <= y
  <2>1. (1..n) \ S \in SUBSET Nat
    OBVIOUS
  <2>2. QED
    BY <2>1, Least
<1>2. x # 1 /\ x - 1 \in 1..n /\ x - 1 < n
  OBVIOUS
<1>3. x - 1 \in S
  BY <1>1, <1>2
<1>4. (x - 1) + 1 \in S
  BY <1>2, <1>3
<1>5. (x - 1) + 1 = x
  OBVIOUS
<1>6. QED
  BY <1>4, <1>5

\* A set that has zero and, with a number, the next has every number.
LEMMA SetInduction == ASSUME NEW S, 0 \in S, \A n \in Nat : n \in S => n + 1 \in S PROVE Nat \subseteq S
<1> SUFFICES ASSUME Nat \ S # {} PROVE FALSE
  OBVIOUS
<1>1. PICK x \in Nat \ S : \A y \in Nat \ S : x <= y
  BY Least
<1>2. x # 0 /\ x - 1 \in Nat
  OBVIOUS
<1>3. x - 1 \in S
  BY <1>1, <1>2
<1>4. (x - 1) + 1 \in S
  BY <1>2, <1>3
<1>5. QED
  BY <1>4

\* A function by recursion exists: F[i] takes the value for i to that for i + 1.
LEMMA RecursionExists ==
    ASSUME NEW n \in Nat, NEW c \in Nat, NEW F \in [Nat -> [Nat -> Nat]]
    PROVE  \E h \in [1..n -> Nat] :
               \A i \in 1..n : h[i] = IF i = 1 THEN c ELSE F[i - 1][h[i - 1]]
<1> DEFINE Solves(m, h) == \A i \in 1..m : h[i] = IF i = 1 THEN c ELSE F[i - 1][h[i - 1]]
           S == {m \in Nat : \E h \in [1..m -> Nat] : Solves(m, h)}
<1>1. 0 \in S
  <2>1. [i \in 1..0 |-> 0] \in [1..0 -> Nat] /\ Solves(0, [i \in 1..0 |-> 0])
    OBVIOUS
  <2>2. QED
    BY <2>1
<1>2. ASSUME NEW m \in Nat, m \in S PROVE m + 1 \in S
  <2>1. PICK h \in [1..m -> Nat] : Solves(m, h)
    BY <1>2
  <2> DEFINE last == IF m = 0 THEN c ELSE F[m][h[m]]
             g == [i \in 1..(m + 1) |-> IF i = m + 1 THEN last ELSE h[i]]
  <2>2. last \in Nat
    <3>1. CASE m = 0
      BY <3>1
    <3>2. CASE m # 0
      <4>1. h[m] \in Nat
        BY <3>2
      <4>2. F[m] \in [Nat -> Nat]
        OBVIOUS
      <4>3. QED
        BY <3>2, <4>1, <4>2
    <3>3. QED
      BY <3>1, <3>2
  <2>3. g \in [1..(m + 1) -> Nat]
    <3> HIDE DEF last
    <3>1. ASSUME NEW i \in 1..(m + 1), i # m + 1 PROVE h[i] \in Nat
      <4>1. i \in 1..m
        BY <3>1
      <4>2. QED
        BY <4>1
    <3>2. QED
      BY <2>2, <3>1
  <2>4. Solves(m + 1, g)
    <3> SUFFICES ASSUME NEW i \in 1..(m + 1)
                 PROVE  g[i] = IF i = 1 THEN c ELSE F[i - 1][g[i - 1]]
      OBVIOUS
    <3>1. CASE i = m + 1
      <4>1. g[i] = last
        BY <3>1
      <4>2. CASE m = 0
        BY <3>1, <4>1, <4>2
      <4>3. CASE m # 0
        <5>1. i - 1 = m /\ i # 1 /\ m \in 1..(m + 1) /\ m # m + 1
          BY <3>1, <4>3
        <5>2. g[m] = h[m]
          BY <5>1
        <5>3. last = F[m][h[m]]
          BY <4>3
        <5> HIDE DEF g, last
        <5>4. QED
          BY <4>1, <5>1, <5>2, <5>3
      <4>4. QED
        BY <4>2, <4>3
    <3>2. CASE i # m + 1
      <4>1. i \in 1..m /\ g[i] = h[i]
        BY <3>2
      <4>2. h[i] = IF i = 1 THEN c ELSE F[i - 1][h[i - 1]]
        BY <2>1, <4>1
      <4>3. i # 1 => g[i - 1] = h[i - 1]
        BY <4>1
      <4> HIDE DEF g, last
      <4>4. QED
        BY <4>1, <4>2, <4>3
    <3>3. QED
      BY <3>1, <3>2
  <2>5. \E k \in [1..(m + 1) -> Nat] : Solves(m + 1, k)
    <3> HIDE DEF g, Solves
    <3>1. QED
      BY <2>3, <2>4
  <2>6. m + 1 \in Nat
    OBVIOUS
  <2>7. QED
    BY <2>5, <2>6
<1>3. Nat \subseteq S
  <2> HIDE DEF S
  <2>1. QED
    BY <1>1, <1>2, SetInduction
<1>4. n \in S
  <2> HIDE DEF S
  <2>1. QED
    BY <1>3
<1>5. QED
  BY <1>4

(***************************************************************************)
(* The curve.  A function defined by recursion is chosen among those that   *)
(* satisfy its equation, so each equation is used only after a function     *)
(* that satisfies it was shown to exist.                                    *)
(***************************************************************************)

LEMMA IncrementExists ==
    \E f \in [1..MaxLevel -> Nat] :
        f = [level \in 1..MaxLevel |->
                IF level = 1 THEN IncrementStart
                ELSE IF f[level - 1] < IncrementThreshold
                     THEN AtMost(IncrementThreshold, f[level - 1] + IncrementStep)
                     ELSE f[level - 1] + IncrementHighStep]
<1> DEFINE G == [x \in Nat |-> IF x < IncrementThreshold
                               THEN AtMost(IncrementThreshold, x + IncrementStep)
                               ELSE x + IncrementHighStep]
           F == [i \in Nat |-> G]
<1>1. G \in [Nat -> Nat]
  BY CurveAssumption DEF AtMost
<1>2. F \in [Nat -> [Nat -> Nat]]
  <2> HIDE DEF G
  <2>1. QED
    BY <1>1
<1>3. MaxLevel \in Nat /\ IncrementStart \in Nat
  BY CurveAssumption
<1>4. PICK f \in [1..MaxLevel -> Nat] :
          \A i \in 1..MaxLevel : f[i] = IF i = 1 THEN IncrementStart ELSE F[i - 1][f[i - 1]]
  <2> HIDE DEF F
  <2>1. QED
    BY <1>2, <1>3, RecursionExists
<1>5. ASSUME NEW i \in 1..MaxLevel, i # 1
      PROVE  f[i] = IF f[i - 1] < IncrementThreshold
                    THEN AtMost(IncrementThreshold, f[i - 1] + IncrementStep)
                    ELSE f[i - 1] + IncrementHighStep
  <2>1. i - 1 \in Nat /\ i - 1 \in 1..MaxLevel
    BY <1>3, <1>5
  <2>2. f[i - 1] \in Nat
    BY <2>1
  <2>3. f[i] = G[f[i - 1]]
    BY <1>4, <1>5, <2>1
  <2>4. QED
    BY <2>2, <2>3
<1>6. \A i \in 1..MaxLevel : i = 1 => f[i] = IncrementStart
  BY <1>4
<1> HIDE DEF F, G
<1>7. QED
  BY <1>5, <1>6

LEMMA IncrementIs ==
    /\ Increment = [level \in 1..MaxLevel |-> Increment[level]]
    /\ \A level \in 1..MaxLevel :
          Increment[level] =
              IF level = 1 THEN IncrementStart
              ELSE IF Increment[level - 1] < IncrementThreshold
                   THEN AtMost(IncrementThreshold, Increment[level - 1] + IncrementStep)
                   ELSE Increment[level - 1] + IncrementHighStep
BY IncrementExists DEF Increment

\* No increment is negative.
LEMMA IncrementNatural == \A level \in 1..MaxLevel : Increment[level] \in Nat
<1> DEFINE S == {i \in Nat : i \in 1..MaxLevel => Increment[i] \in Nat}
<1>1. 1 \in S
  BY IncrementIs, CurveAssumption
<1>2. ASSUME NEW i \in 1..MaxLevel, i < MaxLevel, i \in S PROVE i + 1 \in S
  <2>1. i + 1 \in 1..MaxLevel /\ i + 1 # 1 /\ (i + 1) - 1 = i /\ i + 1 \in Nat
    BY <1>2, CurveAssumption
  <2>2. Increment[i] \in Nat
    BY <1>2
  <2>3. Increment[i + 1] = IF Increment[i] < IncrementThreshold
                           THEN AtMost(IncrementThreshold, Increment[i] + IncrementStep)
                           ELSE Increment[i] + IncrementHighStep
    <3>1. Increment[i + 1] = IF Increment[(i + 1) - 1] < IncrementThreshold
                             THEN AtMost(IncrementThreshold, Increment[(i + 1) - 1] + IncrementStep)
                             ELSE Increment[(i + 1) - 1] + IncrementHighStep
      BY <2>1, IncrementIs
    <3>2. QED
      BY <2>1, <3>1
  <2>4. Increment[i + 1] \in Nat
    BY <2>2, <2>3, CurveAssumption DEF AtMost
  <2>5. QED
    BY <2>1, <2>4
<1>3. 1..MaxLevel \subseteq S
  <2> HIDE DEF S
  <2>1. QED
    BY <1>1, <1>2, RangeInduction, CurveAssumption
<1>4. QED
  BY <1>3

\* Sums: what Requirement and Threshold are.
LEMMA SumExists ==
    ASSUME NEW c \in Nat, NEW d, \A i \in 1..MaxLevel : d[i] \in Nat
    PROVE  \E f \in [1..MaxLevel -> Nat] :
               f = [level \in 1..MaxLevel |-> IF level = 1 THEN c ELSE f[level - 1] + d[level - 1]]
<1> DEFINE F == [i \in Nat |-> [x \in Nat |-> IF i \in 1..MaxLevel THEN x + d[i] ELSE x]]
<1>1. F \in [Nat -> [Nat -> Nat]]
  OBVIOUS
<1>2. PICK f \in [1..MaxLevel -> Nat] :
          \A i \in 1..MaxLevel : f[i] = IF i = 1 THEN c ELSE F[i - 1][f[i - 1]]
  <2> HIDE DEF F
  <2>1. MaxLevel \in Nat
    BY CurveAssumption
  <2>2. QED
    BY <1>1, <2>1, RecursionExists
<1>3. ASSUME NEW i \in 1..MaxLevel, i # 1 PROVE f[i] = f[i - 1] + d[i - 1]
  <2>1. i - 1 \in Nat /\ i - 1 \in 1..MaxLevel
    BY <1>3, CurveAssumption
  <2>2. f[i - 1] \in Nat
    BY <2>1
  <2>3. f[i] = F[i - 1][f[i - 1]]
    BY <1>2, <1>3
  <2>4. QED
    BY <2>1, <2>2, <2>3
<1>4. \A i \in 1..MaxLevel : i = 1 => f[i] = c
  BY <1>2
<1> HIDE DEF F
<1>5. QED
  BY <1>3, <1>4

\* No sum is negative.
LEMMA SumNatural ==
    ASSUME NEW c \in Nat, NEW d, \A i \in 1..MaxLevel : d[i] \in Nat,
           NEW f, \A i \in 1..MaxLevel : f[i] = IF i = 1 THEN c ELSE f[i - 1] + d[i - 1]
    PROVE  \A i \in 1..MaxLevel : f[i] \in Nat
<1> DEFINE S == {i \in Nat : i \in 1..MaxLevel => f[i] \in Nat}
<1>1. 1 \in S
  OBVIOUS
<1>2. ASSUME NEW i \in 1..MaxLevel, i < MaxLevel, i \in S PROVE i + 1 \in S
  <2>1. i + 1 \in 1..MaxLevel /\ i + 1 # 1 /\ (i + 1) - 1 = i /\ i + 1 \in Nat
    BY <1>2, CurveAssumption
  <2>2. f[i + 1] = f[(i + 1) - 1] + d[(i + 1) - 1]
    BY <2>1
  <2>3. f[i] \in Nat /\ d[i] \in Nat
    BY <1>2
  <2>4. f[i + 1] = f[i] + d[i]
    BY <2>1, <2>2
  <2>5. QED
    BY <2>1, <2>3, <2>4
<1>3. 1..MaxLevel \subseteq S
  <2> HIDE DEF S
  <2>1. QED
    BY <1>1, <1>2, RangeInduction, CurveAssumption
<1>4. QED
  BY <1>3

LEMMA RequirementIs ==
    \A level \in 1..MaxLevel :
        Requirement[level] = IF level = 1 THEN BaseXp
                             ELSE Requirement[level - 1] + Increment[level - 1]
<1>1. BaseXp \in Nat
  BY CurveAssumption
<1>2. \E f \in [1..MaxLevel -> Nat] :
          f = [level \in 1..MaxLevel |->
                  IF level = 1 THEN BaseXp ELSE f[level - 1] + Increment[level - 1]]
  BY <1>1, IncrementNatural, SumExists
<1>3. QED
  BY <1>2 DEF Requirement

\* No level is free.
LEMMA RequirementPositive == \A level \in 1..MaxLevel : Requirement[level] \in Nat \ {0}
<1> DEFINE S == {i \in Nat : i \in 1..MaxLevel => Requirement[i] \in Nat \ {0}}
<1>1. 1 \in S
  BY RequirementIs, CurveAssumption
<1>2. ASSUME NEW i \in 1..MaxLevel, i < MaxLevel, i \in S PROVE i + 1 \in S
  <2>1. i + 1 \in 1..MaxLevel /\ i + 1 # 1 /\ (i + 1) - 1 = i /\ i + 1 \in Nat
    BY <1>2, CurveAssumption
  <2>2. Requirement[i + 1] = Requirement[(i + 1) - 1] + Increment[(i + 1) - 1]
    BY <2>1, RequirementIs
  <2>3. Requirement[i] \in Nat \ {0} /\ Increment[i] \in Nat
    BY <1>2, IncrementNatural
  <2>4. Requirement[i + 1] = Requirement[i] + Increment[i]
    BY <2>1, <2>2
  <2>5. QED
    BY <2>1, <2>3, <2>4
<1>3. 1..MaxLevel \subseteq S
  <2> HIDE DEF S
  <2>1. QED
    BY <1>1, <1>2, RangeInduction, CurveAssumption
<1>4. QED
  BY <1>3

LEMMA ThresholdIs ==
    \A level \in 1..MaxLevel :
        Threshold[level] = IF level = 1 THEN 0
                           ELSE Threshold[level - 1] + xpRequirementForLevel(level - 1)
<1>1. \E f \in [1..MaxLevel -> Nat] :
          f = [level \in 1..MaxLevel |->
                  IF level = 1 THEN 0 ELSE f[level - 1] + xpRequirementForLevel(level - 1)]
  BY RequirementPositive, SumExists DEF xpRequirementForLevel
<1>2. QED
  BY <1>1 DEF Threshold

LEMMA ThresholdNatural == \A level \in 1..MaxLevel : Threshold[level] \in Nat
BY ThresholdIs, RequirementPositive, SumNatural DEF xpRequirementForLevel

\* From a level to the next it is the requirement of the level.
LEMMA ThresholdNext ==
    \A level \in 1..MaxLevel :
        level < MaxLevel => Threshold[level + 1] = Threshold[level] + Requirement[level]
<1> SUFFICES ASSUME NEW level \in 1..MaxLevel, level < MaxLevel
             PROVE  Threshold[level + 1] = Threshold[level] + Requirement[level]
  OBVIOUS
<1>1. level + 1 \in 1..MaxLevel /\ level + 1 # 1 /\ (level + 1) - 1 = level
  BY CurveAssumption
<1>2. Threshold[level + 1] = Threshold[(level + 1) - 1] + xpRequirementForLevel((level + 1) - 1)
  BY <1>1, ThresholdIs
<1>3. QED
  BY <1>1, <1>2 DEF xpRequirementForLevel

(***************************************************************************)
(* What rewards do to a player.                                             *)
(***************************************************************************)

\* The loop that banks experience ends at the level that the total buys.
LEMMA BankLevel ==
    ASSUME NEW low \in 1..MaxLevel, NEW total \in Nat, Threshold[low] =< total
    PROVE  \E l \in low..MaxLevel :
               Threshold[l] =< total /\ (l < MaxLevel => total < Threshold[l + 1])
<1> SUFFICES ASSUME \A l \in low..MaxLevel :
                        Threshold[l] =< total => l < MaxLevel /\ ~(total < Threshold[l + 1])
             PROVE  FALSE
  OBVIOUS
<1> DEFINE S == {i \in 1..MaxLevel : i < low \/ Threshold[i] =< total}
<1>1. 1 \in S
  BY CurveAssumption
<1>2. ASSUME NEW i \in 1..MaxLevel, i < MaxLevel, i \in S PROVE i + 1 \in S
  <2>1. i + 1 \in 1..MaxLevel
    BY <1>2, CurveAssumption
  <2>2. CASE i < low
    <3>1. i + 1 < low \/ i + 1 = low
      BY <2>2
    <3>2. QED
      BY <2>1, <3>1
  <2>3. CASE ~(i < low)
    <3>1. i \in low..MaxLevel /\ Threshold[i] =< total
      BY <1>2, <2>3
    <3>2. ~(total < Threshold[i + 1])
      BY <3>1
    <3>3. Threshold[i + 1] \in Nat
      BY <2>1, ThresholdNatural
    <3>4. QED
      BY <2>1, <3>2, <3>3
  <2>4. QED
    BY <2>2, <2>3
<1>3. 1..MaxLevel \subseteq S
  <2> HIDE DEF S
  <2>1. QED
    BY <1>1, <1>2, RangeInduction, CurveAssumption
<1>4. Threshold[MaxLevel] =< total
  BY <1>3, CurveAssumption
<1>5. QED
  BY <1>4, CurveAssumption

\* Bank keeps the total, takes the level it buys and pays for each level.
LEMMA BankResult ==
    ASSUME NEW p \in Player
    PROVE  \E l \in p.level..MaxLevel :
               /\ Threshold[l] =< Total(p)
               /\ l < MaxLevel => Total(p) < Threshold[l + 1]
               /\ Bank(p) = [p EXCEPT !.level = l, !.experience = Total(p) - Threshold[l],
                                      !.skillPoints = @ + PointsPerLevel * (l - p.level)]
<1> DEFINE l == CHOOSE i \in p.level..MaxLevel :
                    /\ Threshold[i] =< Total(p)
                    /\ i < MaxLevel => Total(p) < Threshold[i + 1]
<1>1. p.level \in 1..MaxLevel /\ p.experience \in Nat /\ Threshold[p.level] \in Nat
  BY ThresholdNatural DEF Player
<1>2. Total(p) \in Nat /\ Threshold[p.level] =< Total(p)
  BY <1>1 DEF Total
<1>3. \E i \in p.level..MaxLevel :
          Threshold[i] =< Total(p) /\ (i < MaxLevel => Total(p) < Threshold[i + 1])
  BY <1>1, <1>2, BankLevel
<1>4. /\ l \in p.level..MaxLevel
      /\ Threshold[l] =< Total(p)
      /\ l < MaxLevel => Total(p) < Threshold[l + 1]
  BY <1>3
<1>5. Bank(p) = [p EXCEPT !.level = l, !.experience = Total(p) - Threshold[l],
                          !.skillPoints = @ + PointsPerLevel * (l - p.level)]
  BY DEF Bank, Total
<1> HIDE DEF l
<1>6. QED
  BY <1>4, <1>5

\* No experience is left that would buy the next level.
Banked(p) == p.stale \/ p.experience < xpRequirementForLevel(p.level)

\* What neither rewards nor penalties change.
Kept(p, q) ==
    /\ q.skill = p.skill /\ q.from = p.from /\ q.learnt = p.learnt
    /\ q.dead = p.dead /\ q.died = p.died /\ q.stale = p.stale /\ q.slot = p.slot

SameKeys(p, q) == q.keys = p.keys /\ q.paid = p.paid /\ q.twice = p.twice

\* The player p has become q by rewards worth amount.
Earned(p, q, amount) ==
    /\ q \in Player
    /\ Kept(p, q)
    /\ p.level =< q.level
    /\ Total(q) = Total(p) + amount
    /\ q.skillPoints = p.skillPoints + PointsPerLevel * (q.level - p.level)
    /\ Banked(p) /\ q.level < MaxLevel => Banked(q)

LEMMA PointsNatural == \A d \in Nat : PointsPerLevel * d \in Nat
<1>1. \A m, d \in Nat : m * d \in Nat
  OBVIOUS
<1>2. QED
  BY <1>1, AmountsAssumption

LEMMA BankEarned ==
    ASSUME NEW p \in Player, NEW r \in Player, NEW amount \in Nat,
           Kept(p, r), r.level = p.level, r.skillPoints = p.skillPoints,
           r.experience = p.experience + amount
    PROVE  Earned(p, Bank(r), amount) /\ SameKeys(r, Bank(r))
<1>1. PICK l \in r.level..MaxLevel :
          /\ Threshold[l] =< Total(r)
          /\ l < MaxLevel => Total(r) < Threshold[l + 1]
          /\ Bank(r) = [r EXCEPT !.level = l, !.experience = Total(r) - Threshold[l],
                                 !.skillPoints = @ + PointsPerLevel * (l - r.level)]
  BY BankResult
<1> DEFINE q == Bank(r)
<1> HIDE DEF q
<1>2. q = [r EXCEPT !.level = l, !.experience = Total(r) - Threshold[l],
                    !.skillPoints = @ + PointsPerLevel * (l - r.level)]
  BY <1>1 DEF q
<1>3. /\ r.level \in 1..MaxLevel /\ r.experience \in Nat /\ r.skillPoints \in Nat
      /\ p.experience \in Nat
  BY DEF Player
<1>4. l \in 1..MaxLevel /\ r.level =< l /\ l - r.level \in Nat
  BY <1>3
<1>5. Threshold[l] \in Nat /\ Threshold[r.level] \in Nat
  BY <1>3, <1>4, ThresholdNatural
<1>6. Total(r) \in Nat
  BY <1>3, <1>5 DEF Total
<1>7. PointsPerLevel * (l - r.level) \in Nat
  BY <1>4, PointsNatural
<1>8. q \in Player
  <2>1. Total(r) - Threshold[l] \in Nat
    BY <1>1, <1>5, <1>6
  <2>2. r.skillPoints + PointsPerLevel * (l - r.level) \in Nat
    BY <1>3, <1>7
  <2>3. QED
    BY <1>2, <1>4, <2>1, <2>2 DEF Player
<1>9. /\ q.level = l
      /\ q.experience = Total(r) - Threshold[l]
      /\ q.skillPoints = r.skillPoints + PointsPerLevel * (l - r.level)
  BY <1>2 DEF Player
<1>10. Kept(r, q) /\ SameKeys(r, q)
  BY <1>2 DEF Player, Kept, SameKeys
<1>11. Kept(p, q)
  BY <1>10 DEF Kept
<1>12. Total(q) = Total(p) + amount
  <2>1. Total(q) = Total(r)
    BY <1>5, <1>6, <1>9 DEF Total
  <2>2. Total(r) = Total(p) + amount
    BY <1>3, <1>5 DEF Total
  <2>3. QED
    BY <2>1, <2>2
<1>13. q.level < MaxLevel => Banked(q)
  <2>1. SUFFICES ASSUME l < MaxLevel PROVE q.experience < Requirement[l]
    BY <1>9 DEF Banked, xpRequirementForLevel
  <2>2. Threshold[l + 1] = Threshold[l] + Requirement[l] /\ Requirement[l] \in Nat
    BY <1>4, <2>1, ThresholdNext, RequirementPositive
  <2>3. QED
    BY <1>1, <1>5, <1>6, <1>9, <2>1, <2>2
<1>14. QED
  BY <1>4, <1>8, <1>9, <1>10, <1>11, <1>12, <1>13 DEF Earned, q

\* The four kinds of keys.
LEMMA KeysDiffer ==
    /\ \A s \in 0..MaxSlot : Roll(s) \in Keys /\ Roll(s)[1] = "travel-roll-slot"
    /\ \A i \in Stages : Stage(i) \in Keys /\ Stage(i)[1] = "quest-stage"
    /\ Completion \in Keys /\ Completion[1] = "quest-complete"
    /\ TheftBlocked \in Keys /\ TheftBlocked[1] = "theft-reward-blocked"
    /\ \A k \in Keys : k[1] = "theft-reward-blocked" => k = TheftBlocked
    /\ \A k \in Keys : k[1] = "travel-roll-slot" => \E s \in 0..MaxSlot : k = Roll(s)
    /\ \A s, t \in 0..MaxSlot : Roll(s) = Roll(t) => s = t
BY DEF Keys, Roll, Stage, Completion, TheftBlocked

LEMMA PaidResult ==
    ASSUME NEW p \in Player, NEW key \in Keys
    PROVE  /\ Paid(p, key) \in Player
           /\ Kept(p, Paid(p, key))
           /\ Paid(p, key).level = p.level
           /\ Paid(p, key).experience = p.experience
           /\ Paid(p, key).skillPoints = p.skillPoints
           /\ Paid(p, key).keys = p.keys
           /\ Paid(p, key).paid = p.paid \cup {key}
           /\ Paid(p, key).twice <=> p.twice \/ key \in p.paid
<1> DEFINE q == Paid(p, key)
<1> PICK again \in BOOLEAN : again <=> p.twice \/ key \in p.paid
  OBVIOUS
<1>1. q = [p EXCEPT !.paid = @ \cup {key}, !.twice = again]
  <2>1. (p.twice \/ key \in p.paid) \in BOOLEAN
    OBVIOUS
  <2>2. (p.twice \/ key \in p.paid) = again
    BY <2>1
  <2>3. QED
    BY <2>2 DEF Paid
<1>2. p.paid \cup {key} \in SUBSET Keys
  BY DEF Player
<1> HIDE DEF q
<1>3. q \in Player
  BY <1>1, <1>2 DEF Player
<1>4. /\ q.level = p.level /\ q.experience = p.experience /\ q.skillPoints = p.skillPoints
      /\ q.keys = p.keys /\ q.paid = p.paid \cup {key} /\ q.twice = again
  BY <1>1 DEF Player
<1>5. Kept(p, q)
  BY <1>1 DEF Player, Kept
<1>6. QED
  BY <1>3, <1>4, <1>5 DEF q

\* What was paid for is remembered by a key, but for the slots of travel that are over.
PaidOnce(p) ==
    /\ ~p.twice
    /\ \A k \in p.paid : k \in p.keys \/ \E s \in 0..MaxSlot : s < p.slot /\ k = Roll(s)
    /\ \A s \in 0..MaxSlot : Roll(s) \in p.paid => s =< p.slot

LEMMA RewardedResult ==
    ASSUME NEW p \in Player, NEW amount \in Nat, NEW theft \in BOOLEAN
    PROVE  /\ Earned(p, Rewarded(p, amount, theft), amount)
           /\ PaidOnce(p) /\ (theft => TheftBlocked \notin p.keys)
                 => PaidOnce(Rewarded(p, amount, theft))
<1> DEFINE paid == IF theft THEN Paid(p, TheftBlocked)
                   ELSE [p EXCEPT !.paid = @ \ {TheftBlocked}]
           keys == Without(p.keys, "theft-reward-blocked")
                       \cup (IF theft THEN {TheftBlocked} ELSE {})
           r == [paid EXCEPT !.keys = Without(@, "theft-reward-blocked")
                                 \cup (IF theft THEN {TheftBlocked} ELSE {}),
                             !.experience = @ + amount]
<1>1. /\ paid \in Player /\ Kept(p, paid)
      /\ paid.level = p.level /\ paid.experience = p.experience
      /\ paid.skillPoints = p.skillPoints /\ paid.keys = p.keys
      /\ paid.paid = IF theft THEN p.paid \cup {TheftBlocked} ELSE p.paid \ {TheftBlocked}
      /\ paid.twice <=> p.twice \/ (theft /\ TheftBlocked \in p.paid)
  <2>1. CASE theft
    <3>1. paid = Paid(p, TheftBlocked)
      BY <2>1
    <3> HIDE DEF paid
    <3>2. QED
      BY <2>1, <3>1, PaidResult, KeysDiffer
  <2>2. CASE ~theft
    <3>1. paid = [p EXCEPT !.paid = @ \ {TheftBlocked}]
      BY <2>2
    <3> HIDE DEF paid
    <3>2. paid \in Player
      BY <3>1 DEF Player
    <3>3. /\ paid.level = p.level /\ paid.experience = p.experience
          /\ paid.skillPoints = p.skillPoints /\ paid.keys = p.keys
          /\ paid.paid = p.paid \ {TheftBlocked} /\ paid.twice = p.twice
      BY <3>1 DEF Player
    <3>4. Kept(p, paid)
      BY <3>1 DEF Player, Kept
    <3>5. QED
      BY <2>2, <3>2, <3>3, <3>4
  <2>3. QED
    BY <2>1, <2>2
<1> HIDE DEF paid
<1>2. keys \in SUBSET Keys
  BY KeysDiffer DEF Player, Without
<1>3. r = [paid EXCEPT !.keys = keys, !.experience = p.experience + amount]
  BY <1>1
<1> HIDE DEF r, keys
<1>4. p.experience + amount \in Nat
  BY DEF Player
<1>5. r \in Player
  BY <1>1, <1>2, <1>3, <1>4 DEF Player
<1>6. /\ r.level = p.level /\ r.experience = p.experience + amount
      /\ r.skillPoints = p.skillPoints /\ r.keys = keys
      /\ r.paid = paid.paid /\ r.twice = paid.twice
  BY <1>1, <1>3 DEF Player
<1>7. Kept(p, r)
  <2>1. Kept(paid, r)
    BY <1>1, <1>3 DEF Player, Kept
  <2>2. QED
    BY <1>1, <2>1 DEF Kept
<1>8. Rewarded(p, amount, theft) = Bank(r)
  BY DEF Rewarded, r, paid
<1>9. Earned(p, Bank(r), amount) /\ SameKeys(r, Bank(r))
  BY <1>5, <1>6, <1>7, BankEarned
<1>10. ASSUME PaidOnce(p), theft => TheftBlocked \notin p.keys
       PROVE  PaidOnce(Bank(r))
  <2> DEFINE q == Bank(r)
  <2>1. /\ q.keys = keys /\ q.slot = p.slot
        /\ q.paid = IF theft THEN p.paid \cup {TheftBlocked} ELSE p.paid \ {TheftBlocked}
        /\ q.twice <=> p.twice \/ (theft /\ TheftBlocked \in p.paid)
    BY <1>1, <1>6, <1>9 DEF SameKeys, Earned, Kept
  <2> HIDE DEF q
  <2>2. \A s \in 0..MaxSlot : Roll(s) # TheftBlocked
    BY KeysDiffer
  <2>3. p.paid \subseteq Keys
    BY DEF Player
  <2>4. TheftBlocked \in p.paid => TheftBlocked \in p.keys
    BY <1>10, <2>2 DEF PaidOnce
  <2>5. ~q.twice
    BY <1>10, <2>1, <2>4 DEF PaidOnce
  <2>6. ASSUME NEW k \in q.paid
        PROVE  k \in q.keys \/ \E s \in 0..MaxSlot : s < q.slot /\ k = Roll(s)
    <3>1. CASE k = TheftBlocked
      BY <2>1, <2>6, <3>1 DEF keys
    <3>2. CASE k # TheftBlocked
      <4>1. k \in p.paid /\ k \in Keys
        BY <2>1, <2>3, <2>6, <3>2
      <4>2. k[1] # "theft-reward-blocked"
        BY <3>2, <4>1, KeysDiffer
      <4>3. k \in p.keys => k \in q.keys
        BY <2>1, <4>2 DEF keys, Without
      <4>4. QED
        BY <1>10, <2>1, <4>1, <4>3 DEF PaidOnce
    <3>3. QED
      BY <3>1, <3>2
  <2>7. \A s \in 0..MaxSlot : Roll(s) \in q.paid => s =< q.slot
    BY <1>10, <2>1, <2>2 DEF PaidOnce
  <2>8. PaidOnce(q)
    BY <2>5, <2>6, <2>7 DEF PaidOnce
  <2>9. QED
    BY <2>8 DEF q
<1>11. QED
  BY <1>8, <1>9, <1>10

\* Nothing but keys and the journal has changed.
Alike(p, q) ==
    /\ Kept(p, q)
    /\ q.level = p.level /\ q.experience = p.experience /\ q.skillPoints = p.skillPoints

LEMMA AlikeEarned ==
    ASSUME NEW p \in Player, NEW r \in Player, NEW q \in Player, NEW amount \in Nat,
           \/ Alike(p, r) /\ Earned(r, q, amount)
           \/ Earned(p, r, amount) /\ Alike(r, q)
    PROVE  Earned(p, q, amount)
<1>1. Kept(p, q)
  BY DEF Alike, Earned, Kept
<1>2. p.level =< q.level
  BY DEF Alike, Earned
<1>3. Total(q) = Total(p) + amount
  BY DEF Alike, Earned, Total
<1>4. q.skillPoints = p.skillPoints + PointsPerLevel * (q.level - p.level)
  BY DEF Alike, Earned
<1>5. Banked(p) /\ q.level < MaxLevel => Banked(q)
  BY DEF Alike, Earned, Banked, Kept
<1>6. QED
  BY <1>1, <1>2, <1>3, <1>4, <1>5 DEF Earned

LEMMA NothingEarned == ASSUME NEW p \in Player PROVE Earned(p, p, 0) /\ Alike(p, p)
<1>1. p.level \in 1..MaxLevel /\ p.experience \in Nat /\ p.skillPoints \in Nat
  BY DEF Player
<1>2. Threshold[p.level] \in Nat
  BY <1>1, ThresholdNatural
<1>3. PointsPerLevel * (p.level - p.level) = 0
  BY <1>1, AmountsAssumption
<1>4. Total(p) = Total(p) + 0
  BY <1>1, <1>2 DEF Total
<1>5. Kept(p, p)
  BY DEF Kept
<1>6. QED
  BY <1>1, <1>3, <1>4, <1>5 DEF Earned, Alike

LEMMA AddExperienceResult ==
    ASSUME NEW p \in Player, NEW amount \in Nat, NEW theft \in BOOLEAN
    PROVE  /\ Earned(p, addExperience(p, amount, theft), amount)
           /\ PaidOnce(p) /\ (theft => TheftBlocked \notin p.keys)
                 => PaidOnce(addExperience(p, amount, theft))
<1>1. CASE amount = 0
  BY <1>1, NothingEarned DEF addExperience
<1>2. CASE amount # 0
  BY <1>2, RewardedResult DEF addExperience
<1>3. QED
  BY <1>1, <1>2

LEMMA QuestProgressResult ==
    ASSUME NEW p \in Player, NEW i \in Stages, NEW completed \in BOOLEAN
    PROVE  /\ \E amount \in Nat : Earned(p, awardQuestProgress(p, i, completed), amount)
           /\ PaidOnce(p) => PaidOnce(awardQuestProgress(p, i, completed))
<1> DEFINE stage == Stage(i) \notin p.keys
           completion == completed /\ Completion \notin p.keys
           first == IF stage THEN Paid(p, Stage(i)) ELSE p
           second == IF completion THEN Paid(first, Completion) ELSE first
           due == (IF stage THEN {Stage(i)} ELSE {}) \cup (IF completion THEN {Completion} ELSE {})
           third == [second EXCEPT !.keys = @ \cup due]
           amount == (IF stage THEN StageXp ELSE 0) + (IF completion THEN QuestXp ELSE 0)
<1>1. amount \in Nat
  BY AmountsAssumption
<1>2. /\ first \in Player /\ Alike(p, first) /\ first.keys = p.keys
      /\ first.paid = IF stage THEN p.paid \cup {Stage(i)} ELSE p.paid
      /\ first.twice <=> p.twice \/ (stage /\ Stage(i) \in p.paid)
  <2>1. CASE stage
    BY <2>1, PaidResult, KeysDiffer DEF Alike
  <2>2. CASE ~stage
    BY <2>2, NothingEarned
  <2>3. QED
    BY <2>1, <2>2
<1> HIDE DEF first
<1>3. /\ second \in Player /\ Alike(first, second) /\ second.keys = first.keys
      /\ second.paid = IF completion THEN first.paid \cup {Completion} ELSE first.paid
      /\ second.twice <=> first.twice \/ (completion /\ Completion \in first.paid)
  <2>1. CASE completion
    BY <1>2, <2>1, PaidResult, KeysDiffer DEF Alike
  <2>2. CASE ~completion
    BY <1>2, <2>2, NothingEarned
  <2>3. QED
    BY <2>1, <2>2
<1> HIDE DEF second
<1>4. due \in SUBSET Keys
  BY KeysDiffer
<1>5. third = [second EXCEPT !.keys = p.keys \cup due]
  BY <1>2, <1>3
<1> HIDE DEF third
<1>6. p.keys \cup due \in SUBSET Keys
  BY <1>4 DEF Player
<1>7. third \in Player
  BY <1>3, <1>5, <1>6 DEF Player
<1>8. Alike(second, third) /\ third.keys = p.keys \cup due
      /\ third.paid = second.paid /\ third.twice = second.twice
  BY <1>3, <1>5 DEF Player, Alike, Kept
<1>9. Alike(p, third)
  BY <1>2, <1>3, <1>8 DEF Alike, Kept
<1>10. awardQuestProgress(p, i, completed) = addExperience(third, amount, FALSE)
  BY DEF awardQuestProgress, third, second, first
<1>11. Earned(third, addExperience(third, amount, FALSE), amount)
       /\ (PaidOnce(third) => PaidOnce(addExperience(third, amount, FALSE)))
  BY <1>1, <1>7, AddExperienceResult
<1>12. Earned(p, addExperience(third, amount, FALSE), amount)
  <2>1. addExperience(third, amount, FALSE) \in Player
    BY <1>11 DEF Earned
  <2>2. QED
    BY <1>1, <1>7, <1>9, <1>11, <2>1, AlikeEarned
<1>13. ASSUME PaidOnce(p) PROVE PaidOnce(third)
  <2>1. \A s \in 0..MaxSlot : Roll(s) # Stage(i) /\ Roll(s) # Completion
    BY KeysDiffer
  <2>2. Stage(i) # Completion
    BY KeysDiffer
  <2>3. third.paid = p.paid \cup due
    BY <1>2, <1>3, <1>8
  <2>4. stage => Stage(i) \notin p.paid
    BY <1>13, <2>1 DEF PaidOnce
  <2>5. completion => Completion \notin first.paid
    BY <1>2, <1>13, <2>1, <2>2 DEF PaidOnce
  <2>6. ~third.twice
    BY <1>2, <1>3, <1>8, <1>13, <2>4, <2>5 DEF PaidOnce
  <2>7. third.slot = p.slot
    BY <1>9 DEF Alike, Kept
  <2>8. \A k \in third.paid : k \in third.keys \/ \E s \in 0..MaxSlot : s < third.slot /\ k = Roll(s)
    BY <1>8, <1>13, <2>3, <2>7 DEF PaidOnce
  <2>9. \A s \in 0..MaxSlot : Roll(s) \in third.paid => s =< third.slot
    BY <1>13, <2>1, <2>3, <2>7 DEF PaidOnce
  <2>10. QED
    BY <2>6, <2>8, <2>9 DEF PaidOnce
<1>14. QED
  BY <1>1, <1>10, <1>11, <1>12, <1>13

LEMMA TravelResult ==
    ASSUME NEW p \in Player, NEW q \in awardTravel(p)
    PROVE  /\ Earned(p, q, 0) \/ Earned(p, q, TravelXp)
           /\ PaidOnce(p) => PaidOnce(q)
<1>1. CASE Roll(p.slot) \in p.keys
  <2>1. q = p
    BY <1>1 DEF awardTravel
  <2>2. QED
    BY <2>1, NothingEarned
<1>2. CASE Roll(p.slot) \notin p.keys
  <2> DEFINE paid == Paid(p, Roll(p.slot))
             keys == Without(p.keys, "travel-roll-slot") \cup {Roll(p.slot)}
             rolled == [paid EXCEPT !.keys = Without(@, "travel-roll-slot") \cup {Roll(p.slot)}]
  <2>1. p.slot \in 0..MaxSlot /\ Roll(p.slot) \in Keys
    BY KeysDiffer DEF Player
  <2>2. /\ paid \in Player /\ Alike(p, paid) /\ paid.keys = p.keys
        /\ paid.paid = p.paid \cup {Roll(p.slot)}
        /\ paid.twice <=> p.twice \/ Roll(p.slot) \in p.paid
    BY <2>1, PaidResult DEF Alike
  <2>3. keys \in SUBSET Keys
    BY <2>1 DEF Player, Without
  <2>4. q = rolled \/ q = addExperience(rolled, TravelXp, FALSE)
    BY <1>2 DEF awardTravel
  <2> HIDE DEF paid
  <2>5. rolled = [paid EXCEPT !.keys = keys]
    BY <2>2
  <2> HIDE DEF rolled, keys
  <2>6. rolled \in Player
    BY <2>2, <2>3, <2>5 DEF Player
  <2>7. Alike(paid, rolled) /\ rolled.keys = keys
        /\ rolled.paid = paid.paid /\ rolled.twice = paid.twice
    BY <2>2, <2>5 DEF Player, Alike, Kept
  <2>8. Alike(p, rolled)
    BY <2>2, <2>7 DEF Alike, Kept
  <2>9. /\ Earned(rolled, addExperience(rolled, TravelXp, FALSE), TravelXp)
        /\ PaidOnce(rolled) => PaidOnce(addExperience(rolled, TravelXp, FALSE))
    BY <2>6, AddExperienceResult, AmountsAssumption
  <2>10. Earned(p, addExperience(rolled, TravelXp, FALSE), TravelXp)
    <3>1. addExperience(rolled, TravelXp, FALSE) \in Player
      BY <2>9 DEF Earned
    <3>2. QED
      BY <2>6, <2>8, <2>9, <3>1, AlikeEarned, AmountsAssumption
  <2>11. Earned(p, rolled, 0)
    BY <2>6, <2>8, NothingEarned, AlikeEarned
  <2>12. ASSUME PaidOnce(p) PROVE PaidOnce(rolled)
    <3>1. Roll(p.slot) \notin p.paid
      BY <1>2, <2>1, <2>12, KeysDiffer DEF PaidOnce
    <3>2. ~rolled.twice
      BY <2>2, <2>7, <2>12, <3>1 DEF PaidOnce
    <3>3. rolled.slot = p.slot
      BY <2>8 DEF Alike, Kept
    <3>4. rolled.paid = p.paid \cup {Roll(p.slot)}
      BY <2>2, <2>7
    <3>5. ASSUME NEW k \in rolled.paid
          PROVE  k \in rolled.keys \/ \E s \in 0..MaxSlot : s < rolled.slot /\ k = Roll(s)
      <4>1. CASE k = Roll(p.slot)
        BY <2>7, <4>1 DEF keys
      <4>2. CASE k # Roll(p.slot)
        <5>1. k \in p.paid /\ k \in Keys
          BY <3>4, <3>5, <4>2 DEF Player
        <5>2. CASE k[1] # "travel-roll-slot"
          BY <2>7, <2>12, <3>3, <5>1, <5>2 DEF PaidOnce, keys, Without
        <5>3. CASE k[1] = "travel-roll-slot"
          <6>1. PICK s \in 0..MaxSlot : k = Roll(s)
            BY <5>1, <5>3, KeysDiffer
          <6>2. s =< p.slot /\ s # p.slot
            BY <2>12, <4>2, <5>1, <6>1 DEF PaidOnce
          <6>3. s < rolled.slot
            BY <2>1, <3>3, <6>2
          <6>4. QED
            BY <6>1, <6>3
        <5>4. QED
          BY <5>2, <5>3
      <4>3. QED
        BY <4>1, <4>2
    <3>6. \A s \in 0..MaxSlot : Roll(s) \in rolled.paid => s =< rolled.slot
      BY <2>1, <2>12, <3>3, <3>4, KeysDiffer DEF PaidOnce
    <3>7. QED
      BY <3>2, <3>5, <3>6 DEF PaidOnce
  <2>13. QED
    BY <2>4, <2>9, <2>10, <2>11, <2>12
<1>3. QED
  BY <1>1, <1>2

(***************************************************************************)
(* What is left of the experience while a recovery runs.                    *)
(***************************************************************************)

LEMMA DivMonotone ==
    ASSUME NEW d \in Nat \ {0}, NEW a \in Int, NEW b \in Int, a =< b
    PROVE  a \div d =< b \div d
OBVIOUS

LEMMA DivExact == ASSUME NEW d \in Nat \ {0}, NEW x \in Nat PROVE (x * d + d - 1) \div d = x
OBVIOUS

LEMMA TimesMonotone == ASSUME NEW a \in Nat, NEW b \in Nat, NEW x \in Nat, a =< b PROVE x * a =< x * b
OBVIOUS

LEMMA TimesNatural == \A x, a \in Nat : x * a \in Nat
OBVIOUS

Recovery == [active : BOOLEAN, elapsed : 0..Duration, initialXp : Nat]

\* It is never negative, never more than at the beginning, and only becomes less.
LEMMA DrainedFalls ==
    ASSUME NEW r \in Recovery
    PROVE  /\ Drained(r) \in Nat
           /\ Drained(r) =< r.initialXp
           /\ \A s \in Recovery : s.initialXp = r.initialXp /\ r.elapsed =< s.elapsed
                                      => Drained(s) =< Drained(r)
<1>1. Duration \in Nat \ {0}
  BY TimesAssumption
<1>2. \A s \in Recovery : s.initialXp \in Nat /\ Duration - s.elapsed \in Nat
                          /\ Duration - s.elapsed =< Duration
  BY <1>1 DEF Recovery
<1>3. \A s \in Recovery : s.initialXp * (Duration - s.elapsed) \in Nat
  BY <1>2, TimesNatural
<1>4. Drained(r) \in Nat
  <2>1. 0 =< r.initialXp * (Duration - r.elapsed) + Duration - 1
    BY <1>1, <1>3
  <2>2. r.initialXp * (Duration - r.elapsed) + Duration - 1 \in Int
    BY <1>1, <1>3
  <2>3. 0 \div Duration =< Drained(r)
    BY <1>1, <2>1, <2>2, DivMonotone DEF Drained
  <2>4. 0 \div Duration = 0
    BY <1>1
  <2>5. Drained(r) \in Int
    BY <1>1, <2>2 DEF Drained
  <2>6. QED
    BY <2>3, <2>4, <2>5
<1>5. Drained(r) =< r.initialXp
  <2>1. r.initialXp * (Duration - r.elapsed) =< r.initialXp * Duration
    BY <1>1, <1>2, TimesMonotone
  <2>2. r.initialXp * Duration \in Nat
    BY <1>1, <1>2, TimesNatural
  <2>3. r.initialXp * (Duration - r.elapsed) + Duration - 1 =< r.initialXp * Duration + Duration - 1
    BY <1>1, <1>3, <2>1, <2>2
  <2>4. /\ r.initialXp * (Duration - r.elapsed) + Duration - 1 \in Int
        /\ r.initialXp * Duration + Duration - 1 \in Int
    BY <1>1, <1>3, <2>2
  <2>5. Drained(r) =< (r.initialXp * Duration + Duration - 1) \div Duration
    BY <1>1, <2>3, <2>4, DivMonotone DEF Drained
  <2>6. (r.initialXp * Duration + Duration - 1) \div Duration = r.initialXp
    BY <1>1, <1>2, DivExact
  <2>7. QED
    BY <2>5, <2>6
<1>6. ASSUME NEW s \in Recovery, s.initialXp = r.initialXp, r.elapsed =< s.elapsed
      PROVE  Drained(s) =< Drained(r)
  <2>1. Duration - s.elapsed =< Duration - r.elapsed
    BY <1>1, <1>6 DEF Recovery
  <2>2. s.initialXp * (Duration - s.elapsed) =< r.initialXp * (Duration - r.elapsed)
    BY <1>2, <1>6, <2>1, TimesMonotone
  <2>3. s.initialXp * (Duration - s.elapsed) + Duration - 1
            =< r.initialXp * (Duration - r.elapsed) + Duration - 1
    BY <1>1, <1>3, <2>2
  <2>4. /\ s.initialXp * (Duration - s.elapsed) + Duration - 1 \in Int
        /\ r.initialXp * (Duration - r.elapsed) + Duration - 1 \in Int
    BY <1>1, <1>3
  <2>5. QED
    BY <1>1, <2>3, <2>4, DivMonotone DEF Drained
<1>7. QED
  BY <1>4, <1>5, <1>6

(***************************************************************************)
(* What each action does to the player.                                     *)
(***************************************************************************)

\* The rewards that are nothing else.
Rewarding ==
    \/ awardSkillUse \/ awardSuccessfulTrade \/ awardCriticalHit \/ awardKill
    \/ awardSuccessfulTheft \/ changePlayerCell
    \/ \E i \in Stages : addEntry(i)

LEMMA AddEntryResult ==
    ASSUME TypeOK, NEW i \in Stages, addEntry(i)
    PROVE  /\ \E amount \in Nat : Earned(player, player', amount)
           /\ PaidOnce(player) => PaidOnce(player')
           /\ player'.level < MaxLevel
           /\ Same
<1> DEFINE finished == i \in Finishing \/ (player.finished /\ i \notin Restarting)
           completed == ~player.finished /\ finished
           begun == [player EXCEPT !.finished = finished]
           p == awardQuestProgress(begun, i, completed)
           q == [p EXCEPT !.journal = IF i \in Silent THEN @ ELSE @ \cup {i}]
<1>1. player \in Player /\ Becomes(q)
  BY DEF TypeOK, addEntry
<1>2. finished \in BOOLEAN /\ completed \in BOOLEAN
  OBVIOUS
<1> HIDE DEF finished, completed
<1>3. begun \in Player
  BY <1>1, <1>2 DEF Player
<1>4. Alike(player, begun) /\ SameKeys(player, begun)
  BY <1>1 DEF Player, Alike, Kept, SameKeys
<1> HIDE DEF begun
<1>5. PICK amount \in Nat : Earned(begun, p, amount)
  BY <1>2, <1>3, QuestProgressResult
<1>6. PaidOnce(begun) => PaidOnce(p)
  BY <1>2, <1>3, QuestProgressResult
<1>7. p \in Player
  BY <1>5 DEF Earned
<1> HIDE DEF p
<1>8. (IF i \in Silent THEN p.journal ELSE p.journal \cup {i}) \in SUBSET Stages
  BY <1>7 DEF Player
<1>9. q \in Player
  BY <1>7, <1>8 DEF Player
<1>10. Alike(p, q) /\ SameKeys(p, q)
  BY <1>7 DEF Player, Alike, Kept, SameKeys
<1> HIDE DEF q
<1>11. Earned(player, q, amount)
  <2>1. Earned(player, p, amount)
    BY <1>1, <1>3, <1>4, <1>5, <1>7, AlikeEarned
  <2>2. QED
    BY <1>1, <1>7, <1>9, <1>10, <2>1, AlikeEarned
<1>12. PaidOnce(player) => PaidOnce(begun)
  BY <1>4 DEF PaidOnce, Alike, Kept, SameKeys
<1>13. PaidOnce(p) => PaidOnce(q)
  BY <1>10 DEF PaidOnce, Alike, Kept, SameKeys
<1>14. player' = q /\ q.level < MaxLevel /\ Same
  BY <1>1 DEF Becomes
<1>15. QED
  BY <1>6, <1>11, <1>12, <1>13, <1>14

LEMMA RewardingResult ==
    ASSUME TypeOK, Rewarding
    PROVE  /\ \E amount \in Nat : Earned(player, player', amount)
           /\ PaidOnce(player) => PaidOnce(player')
           /\ player'.level < MaxLevel
           /\ Same
<1>1. player \in Player
  BY DEF TypeOK
<1>2. CASE \E xp \in ActionXp \cup KillXp : Becomes(addExperience(player, xp, FALSE))
  <2>1. PICK xp \in ActionXp \cup KillXp : Becomes(addExperience(player, xp, FALSE))
    BY <1>2
  <2>2. xp \in Nat
    BY <2>1, AmountsAssumption
  <2>3. QED
    BY <1>1, <2>1, <2>2, AddExperienceResult DEF Becomes
<1>3. CASE awardSuccessfulTheft
  BY <1>1, <1>3, AddExperienceResult, AmountsAssumption DEF awardSuccessfulTheft, Becomes
<1>4. CASE changePlayerCell
  <2>1. PICK p \in awardTravel(player) : Becomes(p)
    BY <1>4 DEF changePlayerCell
  <2>2. /\ Earned(player, p, 0) \/ Earned(player, p, TravelXp)
        /\ PaidOnce(player) => PaidOnce(p)
    BY <1>1, TravelResult
  <2>3. 0 \in Nat /\ TravelXp \in Nat
    BY AmountsAssumption
  <2>4. player' = p /\ p.level < MaxLevel /\ Same
    BY <2>1 DEF Becomes
  <2>5. QED
    BY <2>2, <2>3, <2>4
<1>5. CASE \E i \in Stages : addEntry(i)
  BY <1>5, AddEntryResult
<1>6. QED
  BY <1>2, <1>3, <1>4, <1>5
     DEF Rewarding, awardSkillUse, awardSuccessfulTrade, awardCriticalHit, awardKill

\* A book first rewards, then teaches.
LEMMA ReadResult ==
    ASSUME TypeOK, ActionRead
    PROVE  \E p \in Player :
              /\ Earned(player, p, BookXp)
              /\ PaidOnce(player) => PaidOnce(p)
              /\ player' = [p EXCEPT !.read = TRUE,
                                     !.skill = IF p.skill >= 90 THEN @ ELSE @ + 1,
                                     !.learnt = IF p.skill >= 90 THEN @ ELSE @ \cup {p.skill}]
              /\ player' \in Player
              /\ p.level < MaxLevel
              /\ Same
<1> DEFINE p == addExperience(player, BookXp, FALSE)
           q == IF p.skill >= 90 THEN p
                ELSE [p EXCEPT !.learnt = @ \cup {p.skill}, !.skill = @ + 1]
           r == [q EXCEPT !.read = TRUE]
<1>1. player \in Player /\ Becomes(r)
  BY DEF TypeOK, ActionRead
<1>2. Earned(player, p, BookXp) /\ (PaidOnce(player) => PaidOnce(p))
  BY <1>1, AddExperienceResult, AmountsAssumption
<1>3. p \in Player
  BY <1>2 DEF Earned
<1> HIDE DEF p
<1>4. p.skill \in Nat /\ p.learnt \in SUBSET (0..Cap)
  BY <1>3 DEF Player
<1> DEFINE skill == IF p.skill >= 90 THEN p.skill ELSE p.skill + 1
           learnt == IF p.skill >= 90 THEN p.learnt ELSE p.learnt \cup {p.skill}
<1>5. skill \in Nat /\ learnt \in SUBSET (0..Cap)
  BY <1>4 DEF Cap
<1>6. r = [p EXCEPT !.read = TRUE, !.skill = skill, !.learnt = learnt]
  <2>1. CASE p.skill >= 90
    BY <1>3, <2>1 DEF Player
  <2>2. CASE ~(p.skill >= 90)
    BY <1>3, <2>2 DEF Player
  <2>3. QED
    BY <2>1, <2>2
<1> HIDE DEF r
<1>7. r \in Player
  <2> HIDE DEF skill, learnt
  <2>1. QED
    BY <1>3, <1>5, <1>6 DEF Player
<1>8. r.level = p.level
  <2> HIDE DEF skill, learnt
  <2>1. QED
    BY <1>3, <1>6 DEF Player
<1>9. player' = r /\ r.level < MaxLevel /\ Same
  BY <1>1 DEF Becomes
<1>10. r = [p EXCEPT !.read = TRUE,
                     !.skill = IF p.skill >= 90 THEN @ ELSE @ + 1,
                     !.learnt = IF p.skill >= 90 THEN @ ELSE @ \cup {p.skill}]
  BY <1>6
<1>11. QED
  BY <1>2, <1>3, <1>7, <1>8, <1>9, <1>10

LEMMA CostBounds == \A n \in Nat : getSkillPointCost(n) \in 1..4
BY DEF getSkillPointCost

\* An attribute does not pass the cap, and progress is not overdrawn.
LEMMA SpendResult ==
    ASSUME TypeOK, spendSkillPoints
    PROVE  /\ player' \in Player
           /\ player.skill < Cap
           /\ player'.skill = player.skill + 1
           /\ player'.skillPoints = player.skillPoints - getSkillPointCost(player.skill)
           /\ player'.level = player.level /\ player'.experience = player.experience
           /\ player'.from = player.from /\ player'.learnt = player.learnt
           /\ player'.dead = player.dead /\ player'.died = player.died
           /\ player'.stale = player.stale /\ player'.slot = player.slot
           /\ SameKeys(player, player')
           /\ Same
<1> DEFINE skill == player.skill + 1
           points == player.skillPoints - getSkillPointCost(player.skill)
           p == [player EXCEPT !.skill = skill, !.skillPoints = points]
           progress == p.progress + AttributeGain
           gained == AtMost(progress \div 4, Cap - p.attribute)
           attribute == p.attribute + gained
           rest == IF attribute >= Cap THEN 0 ELSE progress - 4 * gained
           q == [p EXCEPT !.attribute = attribute, !.progress = rest]
<1>1. /\ player \in Player /\ Becomes(q) /\ player.skill < Cap
      /\ player.skillPoints >= getSkillPointCost(player.skill)
  BY DEF TypeOK, spendSkillPoints, Spend, addAttributeProgress
<1>2. player.skill \in Nat /\ player.skillPoints \in Nat
  BY <1>1 DEF Player
<1>3. skill \in Nat /\ points \in Nat
  BY <1>1, <1>2, CostBounds
<1> HIDE DEF skill, points
<1>4. p \in Player
  BY <1>1, <1>3 DEF Player
<1>5. /\ p.skill = skill /\ p.skillPoints = points
      /\ p.level = player.level /\ p.experience = player.experience
      /\ p.from = player.from /\ p.learnt = player.learnt
      /\ p.dead = player.dead /\ p.died = player.died
      /\ p.stale = player.stale /\ p.slot = player.slot
      /\ SameKeys(player, p)
  BY <1>1 DEF Player, SameKeys
<1> HIDE DEF p
<1>6. progress \in Nat /\ p.attribute \in 0..Cap
  BY <1>4, AmountsAssumption DEF Player
<1> HIDE DEF progress
<1>7. progress \div 4 \in Nat /\ 4 * (progress \div 4) =< progress
  BY <1>6
<1>8. gained \in Nat /\ gained =< progress \div 4 /\ gained =< Cap - p.attribute
  BY <1>6, <1>7 DEF AtMost, Cap
<1> HIDE DEF gained
<1>9. attribute \in 0..Cap /\ rest \in Nat
  BY <1>6, <1>7, <1>8 DEF Cap
<1> HIDE DEF attribute, rest
<1>10. q \in Player
  BY <1>4, <1>9 DEF Player
<1>11. /\ q.skill = p.skill /\ q.skillPoints = p.skillPoints
       /\ q.level = p.level /\ q.experience = p.experience
       /\ q.from = p.from /\ q.learnt = p.learnt
       /\ q.dead = p.dead /\ q.died = p.died
       /\ q.stale = p.stale /\ q.slot = p.slot
       /\ SameKeys(p, q)
  BY <1>4 DEF Player, SameKeys
<1>12. player' = q /\ Same
  BY <1>1 DEF Becomes
<1> HIDE DEF q
<1>13. QED
  BY <1>1, <1>5, <1>10, <1>11, <1>12 DEF SameKeys, skill, points

LEMMA LaterResult ==
    ASSUME TypeOK, Later
    PROVE  /\ player' \in Player
           /\ player.slot < MaxSlot
           /\ player' = [player EXCEPT !.slot = @ + 1]
           /\ Same
<1>1. player \in Player /\ player.slot \in 0..MaxSlot
  BY DEF TypeOK, Player
<1>2. player' = [player EXCEPT !.slot = player.slot + 1] /\ Same /\ player.slot < MaxSlot
  BY DEF Later, Becomes
<1>3. player.slot + 1 \in 0..MaxSlot
  BY <1>1, <1>2, TimesAssumption
<1>4. player' \in Player
  BY <1>1, <1>2, <1>3 DEF Player
<1>5. QED
  BY <1>2, <1>4

LEMMA JailResult ==
    ASSUME TypeOK, applyJailPenalty
    PROVE  /\ player' \in Player
           /\ player' = [player EXCEPT !.experience = (@ + 1) \div 2]
           /\ player'.experience =< player.experience
           /\ ~player.dead
           /\ Same
<1>1. player \in Player /\ player.experience \in Nat
  BY DEF TypeOK, Player
<1>2. /\ player' = [player EXCEPT !.experience = (player.experience + 1) \div 2]
      /\ Same /\ ~player.dead /\ player.experience > 0
  BY DEF applyJailPenalty, Becomes
<1>3. /\ (player.experience + 1) \div 2 \in Nat
      /\ (player.experience + 1) \div 2 =< player.experience
  BY <1>1, <1>2
<1>4. player' \in Player
  BY <1>1, <1>2, <1>3 DEF Player
<1>5. player'.experience = (player.experience + 1) \div 2
  BY <1>1, <1>2 DEF Player
<1>6. QED
  BY <1>2, <1>3, <1>4, <1>5

LEMMA DieResult ==
    ASSUME TypeOK, Die
    PROVE  /\ player' \in Player
           /\ player' = [player EXCEPT !.dead = TRUE,
                             !.died = [level |-> player.level, experience |-> player.experience]]
           /\ ~player.dead
           /\ UNCHANGED <<sDeathRecovery, mRespawnTimer, saved, loads, foreign>>
           /\ deaths' = deaths + 1 /\ deaths < MaxDeaths
<1>1. player \in Player
  BY DEF TypeOK
<1>2. [level |-> player.level, experience |-> player.experience]
          \in [level : 1..MaxLevel, experience : Nat]
  BY <1>1 DEF Player
<1>3. player' \in Player
  BY <1>1, <1>2 DEF Die, Player
<1>4. QED
  BY <1>3 DEF Die

LEMMA PotionResult ==
    ASSUME TypeOK, tryPotionRecovery
    PROVE  /\ player' \in Player
           /\ player' = [player EXCEPT !.potions = @ - 1, !.dead = FALSE, !.died = NotDead]
           /\ sDeathRecovery' = NoRecovery /\ foreign' = FALSE
           /\ UNCHANGED <<mRespawnTimer, saved, deaths, loads>>
<1>1. player \in Player /\ player.potions \in Nat
  BY DEF TypeOK, Player
<1>2. player.potions - 1 \in Nat
  BY <1>1 DEF tryPotionRecovery
<1>3. NotDead \in [level : 1..MaxLevel, experience : Nat]
  BY CurveAssumption DEF NotDead
<1>4. player' = [player EXCEPT !.potions = player.potions - 1, !.dead = FALSE, !.died = NotDead]
  BY DEF tryPotionRecovery
<1>5. player' \in Player
  BY <1>1, <1>2, <1>3, <1>4 DEF Player
<1>6. QED
  BY <1>5 DEF tryPotionRecovery

\* The recovery after this frame.
Advanced(r) == [beginDeathRecovery(r) EXCEPT !.elapsed = AtMost(Duration, @ + 1)]

LEMMA AdvancedResult ==
    ASSUME TypeOK
    PROVE  /\ Advanced(sDeathRecovery) \in Recovery
           /\ Advanced(sDeathRecovery).active
           /\ Advanced(sDeathRecovery).initialXp =
                  IF sDeathRecovery.active THEN sDeathRecovery.initialXp ELSE player.experience
           /\ sDeathRecovery.active => sDeathRecovery.elapsed =< Advanced(sDeathRecovery).elapsed
<1> DEFINE begun == beginDeathRecovery(sDeathRecovery)
<1>1. sDeathRecovery \in Recovery /\ player.experience \in Nat /\ Duration \in Nat
  BY TimesAssumption DEF TypeOK, Recovery, Player
<1>2. /\ begun \in Recovery /\ begun.active
      /\ begun.initialXp =
             IF sDeathRecovery.active THEN sDeathRecovery.initialXp ELSE player.experience
      /\ sDeathRecovery.active => begun = sDeathRecovery
  <2>1. CASE sDeathRecovery.active
    BY <1>1, <2>1 DEF beginDeathRecovery
  <2>2. CASE ~sDeathRecovery.active
    <3>1. begun = [active |-> TRUE, elapsed |-> 0, initialXp |-> player.experience]
      BY <2>2 DEF beginDeathRecovery
    <3> HIDE DEF begun
    <3>2. QED
      BY <1>1, <2>2, <3>1 DEF Recovery
  <2>3. QED
    BY <2>1, <2>2
<1> HIDE DEF begun
<1> DEFINE elapsed == AtMost(Duration, begun.elapsed + 1)
<1>3. begun.elapsed \in 0..Duration
  BY <1>2 DEF Recovery
<1>4. elapsed \in 0..Duration /\ begun.elapsed =< elapsed
  BY <1>1, <1>3 DEF AtMost
<1>5. Advanced(sDeathRecovery) = [begun EXCEPT !.elapsed = elapsed]
  BY DEF Advanced, begun
<1> HIDE DEF elapsed
<1> DEFINE r == Advanced(sDeathRecovery)
<1> HIDE DEF r
<1>6. r = [begun EXCEPT !.elapsed = elapsed]
  BY <1>5 DEF r
<1>7. r \in Recovery /\ r.active = begun.active /\ r.initialXp = begun.initialXp /\ r.elapsed = elapsed
  BY <1>2, <1>4, <1>6 DEF Recovery
<1>8. QED
  BY <1>2, <1>4, <1>7 DEF r

\* A frame drains experience, and the last one revives: by then all is drained.
LEMMA FrameResult ==
    ASSUME TypeOK, Frame
    PROVE  /\ player.dead /\ player' \in Player
           /\ UNCHANGED <<saved, deaths, loads>>
           /\ \/ /\ sDeathRecovery' = Advanced(sDeathRecovery)
                 /\ player' = [player EXCEPT !.experience = Drained(Advanced(sDeathRecovery)),
                                             !.stale = @ \/ foreign]
                 /\ mRespawnTimer' = AtMost(Patience, mRespawnTimer + 1)
                 /\ foreign' = foreign
              \/ /\ sDeathRecovery' = NoRecovery /\ mRespawnTimer' = 0 /\ foreign' = FALSE
                 /\ player'.level < MaxLevel
                 /\ \E revived \in Player :
                       /\ revived = [player EXCEPT !.experience = 0, !.stale = @ \/ foreign,
                                                   !.dead = FALSE, !.died = NotDead]
                       /\ PaidOnce(revived) => PaidOnce(player')
                       /\ Earned(revived, player', 0) \/ Earned(revived, player', TravelXp)
<1> DEFINE recovery == Advanced(sDeathRecovery)
<1> PICK stale \in BOOLEAN : stale <=> player.stale \/ foreign
  OBVIOUS
<1> DEFINE p == [player EXCEPT !.experience = Drained(recovery), !.stale = stale]
           revived == [player EXCEPT !.experience = 0, !.stale = stale,
                                     !.dead = FALSE, !.died = NotDead]
           ended == AtMost(Patience, mRespawnTimer + 1) >= getDeathRespawnDelay(p)
                        /\ recovery.elapsed >= Duration
<1>1. player \in Player /\ foreign \in BOOLEAN /\ player.dead
  BY DEF TypeOK, Frame
<1>2. stale = (player.stale \/ foreign)
  <2>1. (player.stale \/ foreign) \in BOOLEAN
    OBVIOUS
  <2>2. QED
    BY <2>1
<1>3. Drained(recovery) \in Nat
  BY AdvancedResult, DrainedFalls
<1>4. NotDead \in [level : 1..MaxLevel, experience : Nat]
  BY CurveAssumption DEF NotDead
<1>5. p = [player EXCEPT !.experience = Drained(recovery), !.stale = @ \/ foreign]
  BY <1>1, <1>2
<1>6. revived = [player EXCEPT !.experience = 0, !.stale = @ \/ foreign,
                               !.dead = FALSE, !.died = NotDead]
  BY <1>1, <1>2
<1>7. revived = [p EXCEPT !.dead = FALSE, !.experience = 0, !.died = NotDead]
  BY <1>1 DEF Player
<1>8. IF ended
      THEN /\ player' \in {q \in {revived} \cup awardTravel(revived) : q.level < MaxLevel}
           /\ sDeathRecovery' = NoRecovery
           /\ mRespawnTimer' = 0
           /\ foreign' = FALSE
      ELSE /\ player' = p
           /\ sDeathRecovery' = recovery
           /\ mRespawnTimer' = AtMost(Patience, mRespawnTimer + 1)
           /\ foreign' = foreign
  <2> HIDE DEF p, revived
  <2>1. QED
    BY <1>5, <1>7 DEF Frame, Advanced
<1>9. p \in Player
  BY <1>1, <1>3 DEF Player
<1>10. revived \in Player
  BY <1>1, <1>4 DEF Player
<1> HIDE DEF p, revived, ended
<1>11. UNCHANGED <<saved, deaths, loads>>
  BY DEF Frame
<1>12. CASE ~ended
  BY <1>1, <1>5, <1>8, <1>9, <1>11, <1>12
<1>13. CASE ended
  <2>1. /\ PaidOnce(revived) => PaidOnce(player')
        /\ Earned(revived, player', 0) \/ Earned(revived, player', TravelXp)
    <3>1. CASE player' = revived
      BY <1>10, <3>1, NothingEarned
    <3>2. CASE player' \in awardTravel(revived)
      BY <1>10, <3>2, TravelResult
    <3>3. QED
      BY <1>8, <1>13, <3>1, <3>2
  <2>2. player' \in Player
    BY <2>1 DEF Earned
  <2>3. player'.level < MaxLevel
    BY <1>8, <1>13
  <2>4. sDeathRecovery' = NoRecovery /\ mRespawnTimer' = 0 /\ foreign' = FALSE
    BY <1>8, <1>13
  <2>5. \E q \in Player :
           /\ q = [player EXCEPT !.experience = 0, !.stale = @ \/ foreign,
                                 !.dead = FALSE, !.died = NotDead]
           /\ PaidOnce(q) => PaidOnce(player')
           /\ Earned(q, player', 0) \/ Earned(q, player', TravelXp)
    BY <1>6, <1>10, <2>1
  <2>6. QED
    BY <1>1, <1>11, <2>2, <2>3, <2>4, <2>5
<1>14. QED
  BY <1>12, <1>13

LEMMA LoadResult ==
    ASSUME TypeOK, Load
    PROVE  /\ saved \in Player /\ saved # Absent
           /\ player' = saved
           /\ saved' = saved \/ saved' = Absent
           /\ foreign' = sDeathRecovery.active
           /\ loads < MaxLoads /\ loads' = loads + 1
           /\ UNCHANGED <<sDeathRecovery, mRespawnTimer, deaths>>
BY DEF TypeOK, Load

LEMMA NextCases ==
    Next <=> \/ Rewarding \/ ActionRead \/ Later \/ spendSkillPoints
             \/ Die \/ Frame \/ finishDeathRecovery \/ tryPotionRecovery \/ applyJailPenalty
             \/ Save \/ Load
BY DEF Next, Rewards, Rewarding

(***************************************************************************)
(* Types.                                                                   *)
(***************************************************************************)

LEMMA PatienceNatural == Patience \in Nat /\ 0 \in 0..Patience
<1>1. MaxLevel * CooldownPerLevel \in Nat
  BY CurveAssumption, TimesAssumption, TimesNatural
<1>2. Patience \in Nat
  BY <1>1, TimesAssumption DEF Patience, AtLeast
<1>3. QED
  BY <1>2

LEMMA TypeInit == Init => TypeOK
<1> SUFFICES ASSUME Init PROVE TypeOK
  OBVIOUS
<1>1. player \in Player
  <2>1. PICK skill \in StartSkills, attribute \in StartAttributes :
           player = [ level |-> 1, experience |-> 0, skillPoints |-> 0,
                      skill |-> skill, attribute |-> attribute, progress |-> 0,
                      keys |-> {}, journal |-> {}, finished |-> FALSE, read |-> FALSE,
                      slot |-> 0, potions |-> 1, dead |-> FALSE,
                      from |-> <<skill, attribute>>, paid |-> {}, twice |-> FALSE,
                      learnt |-> {}, died |-> NotDead, stale |-> FALSE ]
    BY DEF Init
  <2>2. skill \in Nat /\ attribute \in 0..Cap /\ attribute \in Nat /\ 1 \in 1..MaxLevel /\ 0 \in 0..MaxSlot
    BY AmountsAssumption, CurveAssumption, TimesAssumption DEF Cap
  <2>3. NotDead \in [level : 1..MaxLevel, experience : Nat]
    BY CurveAssumption DEF NotDead
  <2>4. QED
    BY <2>1, <2>2, <2>3 DEF Player
<1>2. NoRecovery \in Recovery
  BY TimesAssumption DEF NoRecovery, Recovery
<1>3. 0 \in 0..Patience /\ 0 \in 0..MaxDeaths /\ 0 \in 0..MaxLoads
  BY PatienceNatural, TimesAssumption
<1>4. QED
  BY <1>1, <1>2, <1>3 DEF Init, TypeOK, Recovery

LEMMA TypeStep == TypeOK /\ [Next]_vars => TypeOK'
<1> SUFFICES ASSUME TypeOK, [Next]_vars PROVE TypeOK'
  OBVIOUS
<1>1. NoRecovery \in Recovery
  BY TimesAssumption DEF NoRecovery, Recovery
<1>2. ASSUME player' \in Player, Same PROVE TypeOK'
  BY <1>2 DEF TypeOK, Same
<1>3. CASE Rewarding
  BY <1>2, <1>3, RewardingResult DEF Earned
<1>4. CASE ActionRead
  BY <1>2, <1>4, ReadResult
<1>5. CASE Later
  BY <1>2, <1>5, LaterResult
<1>6. CASE spendSkillPoints
  BY <1>2, <1>6, SpendResult
<1>7. CASE Die
  BY <1>7, DieResult, TimesAssumption DEF TypeOK
<1>8. CASE Frame
  <2>1. mRespawnTimer' \in 0..Patience
    <3>1. AtMost(Patience, mRespawnTimer + 1) \in 0..Patience
      BY PatienceNatural DEF AtMost, TypeOK
    <3>2. mRespawnTimer' = AtMost(Patience, mRespawnTimer + 1) \/ mRespawnTimer' = 0
      BY <1>8, FrameResult
    <3>3. QED
      BY <3>1, <3>2, PatienceNatural
  <2>2. sDeathRecovery' \in Recovery
    BY <1>1, <1>8, FrameResult, AdvancedResult
  <2>3. foreign' \in BOOLEAN
    BY <1>8, FrameResult DEF TypeOK
  <2>4. QED
    BY <1>8, <2>1, <2>2, <2>3, FrameResult DEF TypeOK, Recovery
<1>9. CASE finishDeathRecovery
  <2>1. mRespawnTimer' \in 0..Patience
    BY <1>9, PatienceNatural DEF finishDeathRecovery
  <2>2. QED
    BY <1>1, <1>9, <2>1 DEF finishDeathRecovery, TypeOK, Recovery
<1>10. CASE tryPotionRecovery
  BY <1>1, <1>10, PotionResult DEF TypeOK, Recovery
<1>11. CASE applyJailPenalty
  BY <1>2, <1>11, JailResult
<1>12. CASE Save
  BY <1>12 DEF Save, TypeOK
<1>13. CASE Load
  <2>1. loads' \in 0..MaxLoads
    BY <1>13, LoadResult, TimesAssumption DEF TypeOK
  <2>2. foreign' \in BOOLEAN
    BY <1>13, LoadResult DEF TypeOK
  <2>3. QED
    BY <1>13, <2>1, <2>2, LoadResult DEF TypeOK
<1>14. CASE UNCHANGED vars
  BY <1>14 DEF TypeOK, vars
<1>15. QED
  BY <1>3, <1>4, <1>5, <1>6, <1>7, <1>8, <1>9, <1>10, <1>11, <1>12, <1>13, <1>14, NextCases

\* Every variable keeps its type: no amount becomes negative, no attribute
\* passes its cap, no step leaves the levels of the curve.
THEOREM TypeCorrect == Spec => []TypeOK
BY TypeInit, TypeStep, PTL DEF Spec

(***************************************************************************)
(* Nothing is paid twice.                                                   *)
(***************************************************************************)

PaidInv == PaidOnce(player) /\ (saved # Absent => PaidOnce(saved))

LEMMA PaidOnceSame ==
    ASSUME NEW p, NEW q, SameKeys(p, q), q.slot = p.slot, PaidOnce(p)
    PROVE  PaidOnce(q)
BY DEF PaidOnce, SameKeys

LEMMA PaidInit == Init => PaidInv
<1> SUFFICES ASSUME Init PROVE PaidInv
  OBVIOUS
<1>1. ~player.twice /\ player.paid = {}
  BY DEF Init
<1>2. QED
  BY <1>1 DEF PaidInv, PaidOnce, Init

LEMMA PaidStep == TypeOK /\ PaidInv /\ [Next]_vars => PaidInv'
<1> SUFFICES ASSUME TypeOK, PaidInv, [Next]_vars PROVE PaidInv'
  OBVIOUS
<1> USE DEF PaidInv
<1>1. player \in Player
  BY DEF TypeOK
<1>2. ASSUME PaidOnce(player'), saved' = saved PROVE PaidInv'
  BY <1>2
<1>3. CASE Rewarding
  BY <1>2, <1>3, RewardingResult DEF Same
<1>4. CASE ActionRead
  <2>1. PICK p \in Player :
           /\ PaidOnce(player) => PaidOnce(p)
           /\ player' = [p EXCEPT !.read = TRUE,
                                  !.skill = IF p.skill >= 90 THEN @ ELSE @ + 1,
                                  !.learnt = IF p.skill >= 90 THEN @ ELSE @ \cup {p.skill}]
           /\ Same
    BY <1>4, ReadResult
  <2>2. SameKeys(p, player') /\ player'.slot = p.slot
    BY <2>1 DEF Player, SameKeys
  <2>3. PaidOnce(player')
    BY <2>1, <2>2, PaidOnceSame
  <2>4. QED
    BY <1>2, <2>1, <2>3 DEF Same
<1>5. CASE Later
  <2>1. /\ SameKeys(player, player')
        /\ player'.slot = player.slot + 1 /\ player.slot \in Nat
    BY <1>1, <1>5, LaterResult DEF Player, SameKeys
  <2>2. ~player'.twice
    BY <2>1 DEF PaidOnce, SameKeys
  <2>3. \A k \in player'.paid :
            k \in player'.keys \/ \E s \in 0..MaxSlot : s < player'.slot /\ k = Roll(s)
    BY <2>1 DEF PaidOnce, SameKeys
  <2>4. \A s \in 0..MaxSlot : Roll(s) \in player'.paid => s =< player'.slot
    BY <2>1 DEF PaidOnce, SameKeys
  <2>5. PaidOnce(player')
    BY <2>2, <2>3, <2>4 DEF PaidOnce
  <2>6. QED
    BY <1>2, <1>5, <2>5, LaterResult DEF Same
<1>6. CASE spendSkillPoints
  BY <1>2, <1>6, SpendResult, PaidOnceSame DEF Same
<1>7. CASE Die
  <2>1. SameKeys(player, player') /\ player'.slot = player.slot
    BY <1>1, <1>7, DieResult DEF Player, SameKeys
  <2>2. QED
    BY <1>2, <1>7, <2>1, DieResult, PaidOnceSame
<1>8. CASE Frame
  <2>1. saved' = saved
    BY <1>8, FrameResult
  <2>2. CASE player' = [player EXCEPT !.experience = Drained(Advanced(sDeathRecovery)),
                                      !.stale = @ \/ foreign]
    <3>1. SameKeys(player, player') /\ player'.slot = player.slot
      BY <1>1, <2>2 DEF Player, SameKeys
    <3>2. QED
      BY <1>2, <2>1, <3>1, PaidOnceSame
  <2>3. CASE \E revived \in Player :
                 /\ revived = [player EXCEPT !.experience = 0, !.stale = @ \/ foreign,
                                             !.dead = FALSE, !.died = NotDead]
                 /\ PaidOnce(revived) => PaidOnce(player')
    <3>1. PICK revived \in Player :
                 /\ revived = [player EXCEPT !.experience = 0, !.stale = @ \/ foreign,
                                             !.dead = FALSE, !.died = NotDead]
                 /\ PaidOnce(revived) => PaidOnce(player')
      BY <2>3
    <3>2. SameKeys(player, revived) /\ revived.slot = player.slot
      BY <1>1, <3>1 DEF Player, SameKeys
    <3>3. QED
      BY <1>2, <2>1, <3>1, <3>2, PaidOnceSame
  <2>4. QED
    BY <1>8, <2>2, <2>3, FrameResult
<1>9. CASE finishDeathRecovery
  BY <1>9 DEF finishDeathRecovery
<1>10. CASE tryPotionRecovery
  <2>1. SameKeys(player, player') /\ player'.slot = player.slot
    BY <1>1, <1>10, PotionResult DEF Player, SameKeys
  <2>2. QED
    BY <1>2, <1>10, <2>1, PotionResult, PaidOnceSame
<1>11. CASE applyJailPenalty
  <2>1. SameKeys(player, player') /\ player'.slot = player.slot
    BY <1>1, <1>11, JailResult DEF Player, SameKeys
  <2>2. QED
    BY <1>2, <1>11, <2>1, JailResult, PaidOnceSame DEF Same
<1>12. CASE Save
  BY <1>12 DEF Save
<1>13. CASE Load
  BY <1>13, LoadResult
<1>14. CASE UNCHANGED vars
  BY <1>14 DEF vars
<1>15. QED
  BY <1>3, <1>4, <1>5, <1>6, <1>7, <1>8, <1>9, <1>10, <1>11, <1>12, <1>13, <1>14, NextCases

\* For any journal, any slots of time, any worth of each reward and any saved
\* game: no entry, no completion of a quest and no slot of travel is paid for
\* twice, and no two thefts without another reward between them.
THEOREM PaidAtMostOnce == Spec => []NothingPaidTwice
<1>1. Init => TypeOK /\ PaidInv
  BY TypeInit, PaidInit
<1>2. TypeOK /\ PaidInv /\ [Next]_vars => TypeOK' /\ PaidInv'
  BY TypeStep, PaidStep
<1>3. PaidInv => NothingPaidTwice
  BY DEF PaidInv, PaidOnce, NothingPaidTwice
<1>4. QED
  BY <1>1, <1>2, <1>3, PTL DEF Spec

(***************************************************************************)
(* Levels are banked at once.                                               *)
(***************************************************************************)

BankedInv ==
    /\ Banked(player)
    /\ saved # Absent => Banked(saved)
    /\ sDeathRecovery.active /\ ~foreign =>
          player.stale \/ sDeathRecovery.initialXp < xpRequirementForLevel(player.level)

\* A higher level requires no less.
LEMMA RequirementGrows ==
    ASSUME NEW l \in 1..MaxLevel, NEW m \in l..MaxLevel
    PROVE  Requirement[l] =< Requirement[m]
<1> DEFINE S == {i \in Nat : i \in l..MaxLevel => Requirement[l] =< Requirement[i]}
<1>1. 1 \in S
  BY RequirementPositive
<1>2. ASSUME NEW i \in 1..MaxLevel, i < MaxLevel, i \in S PROVE i + 1 \in S
  <2>1. i + 1 \in 1..MaxLevel /\ i + 1 # 1 /\ (i + 1) - 1 = i /\ i + 1 \in Nat
    BY <1>2, CurveAssumption
  <2>2. Requirement[i + 1] = Requirement[(i + 1) - 1] + Increment[(i + 1) - 1]
    BY <2>1, RequirementIs
  <2>3. /\ Requirement[i] \in Nat /\ Increment[i] \in Nat
        /\ Requirement[l] \in Nat /\ Requirement[i + 1] \in Nat
    BY <2>1, IncrementNatural, RequirementPositive
  <2>4. Requirement[i + 1] = Requirement[i] + Increment[i]
    BY <2>1, <2>2
  <2>5. CASE i < l
    <3>1. i + 1 \in l..MaxLevel => i + 1 = l
      BY <2>5
    <3>2. QED
      BY <2>1, <2>3, <3>1
  <2>6. CASE ~(i < l)
    <3>1. Requirement[l] =< Requirement[i]
      BY <1>2, <2>6
    <3>2. Requirement[l] =< Requirement[i + 1]
      BY <2>3, <2>4, <3>1
    <3>3. QED
      BY <2>1, <3>2
  <2>7. QED
    BY <2>5, <2>6
<1>3. 1..MaxLevel \subseteq S
  <2> HIDE DEF S
  <2>1. QED
    BY <1>1, <1>2, RangeInduction, CurveAssumption
<1>4. m \in S
  BY <1>3
<1>5. QED
  BY <1>4

LEMMA BankedInit == Init => BankedInv
<1> SUFFICES ASSUME Init PROVE BankedInv
  OBVIOUS
<1>1. player.experience = 0 /\ player.level = 1
  BY DEF Init
<1>2. 1 \in 1..MaxLevel
  BY CurveAssumption
<1>3. 0 < Requirement[1]
  BY <1>2, RequirementPositive
<1>4. QED
  BY <1>1, <1>3 DEF Init, BankedInv, Banked, NoRecovery, xpRequirementForLevel

\* With the level and the staleness it had, or more, a recovery is within bounds.
LEMMA RecoveryBound ==
    ASSUME NEW p \in Player, NEW q \in Player, NEW xp \in Nat,
           p.stale \/ xp < xpRequirementForLevel(p.level),
           p.level =< q.level, q.stale = p.stale
    PROVE  q.stale \/ xp < xpRequirementForLevel(q.level)
<1>1. p.level \in 1..MaxLevel /\ q.level \in p.level..MaxLevel /\ q.level \in 1..MaxLevel
  BY DEF Player
<1>2. Requirement[p.level] =< Requirement[q.level]
  BY <1>1, RequirementGrows
<1>3. Requirement[p.level] \in Nat /\ Requirement[q.level] \in Nat
  BY <1>1, RequirementPositive
<1>4. QED
  BY <1>2, <1>3 DEF xpRequirementForLevel

LEMMA BankedStep == TypeOK /\ BankedInv /\ [Next]_vars => BankedInv'
<1> SUFFICES ASSUME TypeOK, BankedInv, [Next]_vars PROVE BankedInv'
  OBVIOUS
<1>1. player \in Player /\ player.experience \in Nat /\ sDeathRecovery.initialXp \in Nat
  BY DEF TypeOK, Player
<1>2. ASSUME player' \in Player, player.level =< player'.level, player'.stale = player.stale,
             Banked(player'), saved' = saved, sDeathRecovery' = sDeathRecovery, foreign' = foreign
      PROVE  BankedInv'
  <2>1. ASSUME sDeathRecovery.active, ~foreign
        PROVE  player'.stale \/ sDeathRecovery.initialXp < xpRequirementForLevel(player'.level)
    <3>1. player.stale \/ sDeathRecovery.initialXp < xpRequirementForLevel(player.level)
      BY <2>1 DEF BankedInv
    <3>2. QED
      BY <1>1, <1>2, <3>1, RecoveryBound
  <2>2. QED
    BY <1>2, <2>1 DEF BankedInv, Banked, xpRequirementForLevel
<1>3. CASE Rewarding
  <2>1. PICK amount \in Nat : Earned(player, player', amount)
    BY <1>3, RewardingResult
  <2>2. Banked(player')
    BY <1>3, <2>1, RewardingResult DEF Earned, BankedInv
  <2>3. QED
    BY <1>2, <1>3, <2>1, <2>2, RewardingResult DEF Earned, Kept, Same
<1>4. CASE ActionRead
  <2>1. PICK p \in Player :
              /\ Earned(player, p, BookXp)
              /\ player' = [p EXCEPT !.read = TRUE,
                                     !.skill = IF p.skill >= 90 THEN @ ELSE @ + 1,
                                     !.learnt = IF p.skill >= 90 THEN @ ELSE @ \cup {p.skill}]
              /\ player' \in Player
              /\ p.level < MaxLevel
              /\ Same
    BY <1>4, ReadResult
  <2>2. /\ player'.level = p.level /\ player'.experience = p.experience
        /\ player'.stale = p.stale
    BY <2>1 DEF Player
  <2>3. Banked(player')
    BY <2>1, <2>2 DEF Earned, BankedInv, Banked
  <2>4. player.level =< player'.level /\ player'.stale = player.stale
    BY <2>1, <2>2 DEF Earned, Kept
  <2>5. QED
    BY <1>2, <2>1, <2>3, <2>4 DEF Same
<1>5. ASSUME player' \in Player, player'.level = player.level, player'.experience =< player.experience,
             player'.stale = player.stale, saved' = saved,
             \/ sDeathRecovery' = sDeathRecovery /\ foreign' = foreign
             \/ sDeathRecovery' = NoRecovery
      PROVE  BankedInv'
  <2>1. /\ player.level \in 1..MaxLevel /\ player'.experience \in Nat
        /\ Requirement[player.level] \in Nat
    BY <1>1, <1>5, RequirementPositive DEF Player
  <2>2. Banked(player')
    BY <1>1, <1>5, <2>1 DEF BankedInv, Banked, xpRequirementForLevel
  <2>3. CASE sDeathRecovery' = sDeathRecovery /\ foreign' = foreign
    BY <1>2, <1>5, <2>1, <2>2, <2>3
  <2>4. CASE sDeathRecovery' = NoRecovery
    BY <1>5, <2>2, <2>4 DEF BankedInv, Banked, NoRecovery, xpRequirementForLevel
  <2>5. QED
    BY <1>5, <2>3, <2>4
<1>6. player.experience =< player.experience
  BY <1>1
<1>7. CASE Later
  <2>1. /\ player'.level = player.level /\ player'.experience = player.experience
        /\ player'.stale = player.stale
    BY <1>1, <1>7, LaterResult DEF Player
  <2>2. QED
    BY <1>5, <1>6, <1>7, <2>1, LaterResult DEF Same
<1>8. CASE spendSkillPoints
  BY <1>5, <1>6, <1>8, SpendResult DEF Same
<1>9. CASE Die
  <2>1. /\ player'.level = player.level /\ player'.experience = player.experience
        /\ player'.stale = player.stale
    BY <1>1, <1>9, DieResult DEF Player
  <2>2. QED
    BY <1>5, <1>6, <1>9, <2>1, DieResult
<1>10. CASE Frame
  <2>1. saved' = saved /\ player' \in Player
    BY <1>10, FrameResult
  <2>2. CASE /\ sDeathRecovery' = Advanced(sDeathRecovery)
             /\ player' = [player EXCEPT !.experience = Drained(Advanced(sDeathRecovery)),
                                         !.stale = @ \/ foreign]
             /\ foreign' = foreign
    <3> DEFINE r == Advanced(sDeathRecovery)
    <3>1. /\ player'.level = player.level /\ player'.experience = Drained(r)
          /\ player'.stale <=> player.stale \/ foreign
      BY <1>1, <2>2 DEF Player
    <3>2. r \in Recovery /\ Drained(r) \in Nat /\ Drained(r) =< r.initialXp /\ r.initialXp \in Nat
      BY AdvancedResult, DrainedFalls DEF Recovery
    <3>3. Requirement[player.level] \in Nat
      BY <1>1, RequirementPositive DEF Player
    <3>4. ~foreign => player.stale \/ r.initialXp < xpRequirementForLevel(player.level)
      BY AdvancedResult DEF BankedInv, Banked
    <3> HIDE DEF r
    <3>5. player'.stale \/ (/\ ~foreign
                            /\ r.initialXp < xpRequirementForLevel(player'.level)
                            /\ Drained(r) < xpRequirementForLevel(player'.level))
      BY <3>1, <3>2, <3>3, <3>4 DEF xpRequirementForLevel
    <3>6. sDeathRecovery' = r
      BY <2>2 DEF r
    <3>7. Banked(player')
      BY <3>1, <3>5 DEF Banked
    <3>8. QED
      BY <2>1, <3>5, <3>6, <3>7 DEF BankedInv, Banked, xpRequirementForLevel
  <2>3. CASE /\ sDeathRecovery' = NoRecovery
             /\ player'.level < MaxLevel
             /\ \E revived \in Player :
                   /\ revived = [player EXCEPT !.experience = 0, !.stale = @ \/ foreign,
                                               !.dead = FALSE, !.died = NotDead]
                   /\ Earned(revived, player', 0) \/ Earned(revived, player', TravelXp)
    <3>1. PICK revived \in Player :
                   /\ revived = [player EXCEPT !.experience = 0, !.stale = @ \/ foreign,
                                               !.dead = FALSE, !.died = NotDead]
                   /\ Earned(revived, player', 0) \/ Earned(revived, player', TravelXp)
      BY <2>3
    <3>2. revived.experience = 0 /\ revived.level \in 1..MaxLevel
      BY <1>1, <3>1 DEF Player
    <3>3. Banked(revived)
      BY <3>2, RequirementPositive DEF Banked, xpRequirementForLevel
    <3>4. Banked(player')
      BY <2>3, <3>1, <3>3 DEF Earned
    <3>5. QED
      BY <2>1, <2>3, <3>4 DEF BankedInv, Banked, NoRecovery, xpRequirementForLevel
  <2>4. QED
    BY <1>10, <2>2, <2>3, FrameResult
<1>11. CASE finishDeathRecovery
  BY <1>1, <1>5, <1>6, <1>11 DEF finishDeathRecovery
<1>12. CASE tryPotionRecovery
  <2>1. /\ player'.level = player.level /\ player'.experience = player.experience
        /\ player'.stale = player.stale
    BY <1>1, <1>12, PotionResult DEF Player
  <2>2. QED
    BY <1>5, <1>6, <1>12, <2>1, PotionResult
<1>13. CASE applyJailPenalty
  <2>1. player'.level = player.level /\ player'.stale = player.stale
    BY <1>1, <1>13, JailResult DEF Player
  <2>2. QED
    BY <1>5, <1>13, <2>1, JailResult DEF Same
<1>14. CASE Save
  BY <1>14 DEF Save, BankedInv, Banked, xpRequirementForLevel
<1>15. CASE Load
  <2>1. sDeathRecovery'.active /\ ~foreign' => FALSE
    BY <1>15, LoadResult
  <2>2. QED
    BY <1>15, <2>1, LoadResult DEF BankedInv, Banked, xpRequirementForLevel
<1>16. CASE UNCHANGED vars
  BY <1>16 DEF vars, BankedInv, Banked, xpRequirementForLevel
<1>17. QED
  BY <1>3, <1>4, <1>7, <1>8, <1>9, <1>10, <1>11, <1>12, <1>13, <1>14, <1>15, <1>16, NextCases

\* For any curve whose first level is not free: whatever is rewarded, drained,
\* lost, saved and loaded, no experience is left that would buy the next level.
THEOREM LevelsBankedAtOnce == Spec => []BankedAtOnce
<1>1. Init => TypeOK /\ BankedInv
  BY TypeInit, BankedInit
<1>2. TypeOK /\ BankedInv /\ [Next]_vars => TypeOK' /\ BankedInv'
  BY TypeStep, BankedStep
<1>3. BankedInv => BankedAtOnce
  BY DEF BankedInv, Banked, BankedAtOnce
<1>4. QED
  BY <1>1, <1>2, <1>3, PTL DEF Spec

(***************************************************************************)
(* Skill points are neither lost nor made.                                  *)
(***************************************************************************)

Accounted(p) ==
    /\ Importance = "major" =>
           p.skillPoints + Cardinality(DuePoints(p)) = PointsPerLevel * (p.level - 1)
    /\ p.from[1] =< p.skill
    /\ p.learnt \subseteq p.from[1]..(p.skill - 1)

AccountInv == Accounted(player) /\ (saved # Absent => Accounted(saved))

LEMMA DuePointsFinite ==
    ASSUME NEW p \in Player
    PROVE  IsFiniteSet(DuePoints(p)) /\ Cardinality(DuePoints(p)) \in Nat
<1> DEFINE all == (p.from[1]..(p.skill - 1)) \X (1..12)
<1>1. p.from[1] \in Int /\ p.skill - 1 \in Int
  BY DEF Player
<1>2. IsFiniteSet(p.from[1]..(p.skill - 1)) /\ IsFiniteSet(1..12)
  <2>1. \A a, b \in Int : IsFiniteSet(a..b)
    BY FS_Interval
  <2>2. 1 \in Int /\ 12 \in Int
    OBVIOUS
  <2>3. QED
    BY <1>1, <2>1, <2>2
<1>3. IsFiniteSet(all)
  BY <1>2, FS_Product
<1>4. DuePoints(p) \in SUBSET all
  BY DEF DuePoints, Bought
<1> HIDE DEF all
<1>5. IsFiniteSet(DuePoints(p))
  BY <1>3, <1>4, FS_Subset
<1>6. QED
  BY <1>5, FS_CardinalityType

\* A change that touches neither levels nor the skill.
LEMMA AccountedSame ==
    ASSUME NEW p, NEW q, Accounted(p),
           q.skillPoints = p.skillPoints, q.level = p.level,
           q.skill = p.skill, q.from = p.from, q.learnt = p.learnt
    PROVE  Accounted(q)
<1>1. DuePoints(q) = DuePoints(p)
  BY DEF DuePoints, Bought
<1>2. QED
  BY <1>1 DEF Accounted

\* The points of several levels are those of the levels one by one.
LEMMA PointsAdd ==
    ASSUME NEW a \in Nat, NEW b \in Nat
    PROVE  PointsPerLevel * (a + b) = PointsPerLevel * a + PointsPerLevel * b
<1>1. \A m, x, y \in Nat : m * (x + y) = m * x + m * y
  OBVIOUS
<1>2. QED
  BY <1>1, AmountsAssumption

LEMMA AccountedEarned ==
    ASSUME NEW p \in Player, NEW q, NEW amount, Earned(p, q, amount), Accounted(p)
    PROVE  Accounted(q)
<1>1. DuePoints(q) = DuePoints(p)
  BY DEF DuePoints, Bought, Earned, Kept
<1>2. /\ p.level \in 1..MaxLevel /\ q.level \in 1..MaxLevel /\ p.level =< q.level
      /\ p.skillPoints \in Nat
      /\ q.skillPoints = p.skillPoints + PointsPerLevel * (q.level - p.level)
  BY DEF Earned, Player
<1>3. p.level - 1 \in Nat /\ q.level - p.level \in Nat
      /\ q.level - 1 = (p.level - 1) + (q.level - p.level)
  BY <1>2
<1>4. PointsPerLevel * (q.level - 1)
          = PointsPerLevel * (p.level - 1) + PointsPerLevel * (q.level - p.level)
  BY <1>3, PointsAdd
<1>5. /\ PointsPerLevel * (p.level - 1) \in Nat
      /\ PointsPerLevel * (q.level - p.level) \in Nat
  BY <1>3, PointsNatural
<1>6. Cardinality(DuePoints(p)) \in Nat
  BY DuePointsFinite
<1>7. Importance = "major" =>
          q.skillPoints + Cardinality(DuePoints(q)) = PointsPerLevel * (q.level - 1)
  BY <1>1, <1>2, <1>4, <1>5, <1>6 DEF Accounted
<1>8. q.from[1] =< q.skill /\ q.learnt \subseteq q.from[1]..(q.skill - 1)
  BY DEF Accounted, Earned, Kept
<1>9. QED
  BY <1>7, <1>8 DEF Accounted

\* A point of skill from a book is not bought.
LEMMA AccountedTaught ==
    ASSUME NEW p \in Player, NEW q, Accounted(p),
           q.skillPoints = p.skillPoints, q.level = p.level, q.from = p.from,
           q.skill = p.skill + 1, q.learnt = p.learnt \cup {p.skill}
    PROVE  Accounted(q)
<1>1. p.skill \in Nat /\ p.from[1] \in Nat /\ p.from[1] =< p.skill
      /\ p.learnt \subseteq p.from[1]..(p.skill - 1)
  BY DEF Player, Accounted
<1>2. p.from[1]..((p.skill + 1) - 1) = (p.from[1]..(p.skill - 1)) \cup {p.skill}
  BY <1>1
<1>3. Bought(q) = Bought(p)
  BY <1>1, <1>2 DEF Bought
<1>4. DuePoints(q) = DuePoints(p)
  BY <1>3 DEF DuePoints
<1>5. q.learnt \subseteq q.from[1]..(q.skill - 1)
  BY <1>1, <1>2
<1>6. QED
  BY <1>1, <1>4, <1>5 DEF Accounted

LEMMA MajorWeight == Importance = "major" => Weight[Importance] = 1
BY DEF Weight

\* A point of skill that is bought adds its price to the points paid.
LEMMA DueGrows ==
    ASSUME Importance = "major", NEW p \in Player, NEW q, Accounted(p),
           q.from = p.from, q.learnt = p.learnt,
           q.skill = p.skill + 1
    PROVE  Cardinality(DuePoints(q)) = Cardinality(DuePoints(p)) + getSkillPointCost(p.skill)
<1> DEFINE cost == getSkillPointCost(p.skill)
           new == {p.skill} \X (1..cost)
<1>1. p.skill \in Nat /\ p.from[1] \in Nat /\ p.from[1] =< p.skill /\ p.skillPoints \in Nat
      /\ p.learnt \subseteq p.from[1]..(p.skill - 1)
  BY DEF Player, Accounted
<1>2. cost \in 1..4
  BY <1>1, CostBounds
<1>3. p.from[1]..((p.skill + 1) - 1) = (p.from[1]..(p.skill - 1)) \cup {p.skill}
  BY <1>1
<1> HIDE DEF cost
<1>4. p.skill \notin p.learnt /\ p.skill \notin Bought(p)
  BY <1>1 DEF Bought
<1>5. Bought(q) = Bought(p) \cup {p.skill}
  BY <1>3, <1>4 DEF Bought
<1>6. DuePoints(q) = DuePoints(p) \cup new
  <2>1. ASSUME NEW x PROVE x \in DuePoints(q) <=> x \in DuePoints(p) \cup new
    <3>1. CASE \E n, k : x = <<n, k>> /\ k \in 1..12
      <4>1. PICK n, k : x = <<n, k>> /\ k \in 1..12
        BY <3>1
      <4>2. x \in DuePoints(q) <=> n \in Bought(q) /\ k =< 1 * getSkillPointCost(n)
        BY <4>1, MajorWeight DEF DuePoints
      <4>3. x \in DuePoints(p) <=> n \in Bought(p) /\ k =< 1 * getSkillPointCost(n)
        BY <4>1, MajorWeight DEF DuePoints
      <4>4. x \in new <=> n = p.skill /\ k =< cost
        <5> HIDE DEF cost
        <5>1. QED
          BY <1>2, <4>1
      <4>5. 1 * getSkillPointCost(n) = getSkillPointCost(n)
        BY DEF getSkillPointCost
      <4>6. QED
        BY <1>5, <4>2, <4>3, <4>4, <4>5 DEF cost
    <3>2. CASE ~\E n, k : x = <<n, k>> /\ k \in 1..12
      <4>1. x \notin DuePoints(q) /\ x \notin DuePoints(p)
        BY <3>2 DEF DuePoints
      <4>2. x \notin new
        <5> HIDE DEF cost
        <5>1. QED
          BY <1>2, <3>2
      <4>3. QED
        BY <4>1, <4>2
    <3>3. QED
      BY <3>1, <3>2
  <2> HIDE DEF new
  <2>2. QED
    BY <2>1
<1>7. DuePoints(p) \cap new = {}
  BY <1>4 DEF DuePoints
<1>8. IsFiniteSet(new) /\ Cardinality(new) = cost
  <2> HIDE DEF cost
  <2>1. IsFiniteSet({p.skill}) /\ Cardinality({p.skill}) = 1
    BY FS_Singleton
  <2>2. IsFiniteSet(1..cost) /\ Cardinality(1..cost) = cost
    <3>1. 1 \in Int /\ cost \in Int /\ ~(1 > cost) /\ cost - 1 + 1 = cost
      BY <1>2
    <3>2. QED
      BY <3>1, FS_Interval
  <2>3. IsFiniteSet(new) /\ Cardinality(new) = 1 * cost
    <3>1. \A S, T : IsFiniteSet(S) /\ IsFiniteSet(T)
              => IsFiniteSet(S \X T) /\ Cardinality(S \X T) = Cardinality(S) * Cardinality(T)
      BY FS_Product
    <3>2. /\ IsFiniteSet({p.skill} \X (1..cost))
          /\ Cardinality({p.skill} \X (1..cost)) = Cardinality({p.skill}) * Cardinality(1..cost)
      BY <2>1, <2>2, <3>1, Zenon
    <3>3. QED
      BY <2>1, <2>2, <3>2
  <2>4. QED
    BY <1>2, <2>3
<1> HIDE DEF new, cost
<1>9. IsFiniteSet(DuePoints(p)) /\ Cardinality(DuePoints(p)) \in Nat
  BY DuePointsFinite
<1>10. Cardinality(DuePoints(q)) = Cardinality(DuePoints(p)) + cost
  <2>1. Cardinality(DuePoints(p) \cup new)
            = Cardinality(DuePoints(p)) + Cardinality(new) - Cardinality(DuePoints(p) \cap new)
    BY <1>8, <1>9, FS_Union
  <2>2. Cardinality(DuePoints(p) \cap new) = 0
    BY <1>7, FS_EmptySet
  <2>3. QED
    BY <1>2, <1>6, <1>8, <1>9, <2>1, <2>2
<1>11. QED
  BY <1>10 DEF cost

LEMMA AccountedBought ==
    ASSUME NEW p \in Player, NEW q, Accounted(p),
           q.skillPoints = p.skillPoints - getSkillPointCost(p.skill),
           q.level = p.level, q.from = p.from, q.learnt = p.learnt,
           q.skill = p.skill + 1
    PROVE  Accounted(q)
<1>1. p.skill \in Nat /\ p.from[1] \in Nat /\ p.from[1] =< p.skill /\ p.skillPoints \in Nat
      /\ p.learnt \subseteq p.from[1]..(p.skill - 1)
  BY DEF Player, Accounted
<1>2. getSkillPointCost(p.skill) \in 1..4
  BY <1>1, CostBounds
<1>3. Cardinality(DuePoints(p)) \in Nat
  BY DuePointsFinite
<1>4. ASSUME Importance = "major"
      PROVE  q.skillPoints + Cardinality(DuePoints(q)) = PointsPerLevel * (q.level - 1)
  <2>1. Cardinality(DuePoints(q)) = Cardinality(DuePoints(p)) + getSkillPointCost(p.skill)
    BY <1>4, DueGrows
  <2>2. p.skillPoints + Cardinality(DuePoints(p)) = PointsPerLevel * (p.level - 1)
    BY <1>4 DEF Accounted
  <2>3. QED
    BY <1>1, <1>2, <1>3, <2>1, <2>2
<1>5. q.learnt \subseteq q.from[1]..(q.skill - 1) /\ q.from[1] =< q.skill
  BY <1>1
<1>6. QED
  BY <1>4, <1>5 DEF Accounted

LEMMA AccountInit == Init => AccountInv
<1> SUFFICES ASSUME Init PROVE AccountInv
  OBVIOUS
<1>1. /\ player.skillPoints = 0 /\ player.level = 1 /\ player.learnt = {}
      /\ player.from[1] = player.skill /\ player.skill \in Nat
  BY AmountsAssumption DEF Init
<1>2. DuePoints(player) = {}
  BY <1>1 DEF DuePoints, Bought
<1>3. Cardinality(DuePoints(player)) = 0
  BY <1>2, FS_EmptySet
<1>4. PointsPerLevel * (1 - 1) = 0
  BY AmountsAssumption
<1>5. QED
  BY <1>1, <1>3, <1>4 DEF AccountInv, Accounted, Init

LEMMA AccountStep == TypeOK /\ AccountInv /\ [Next]_vars => AccountInv'
<1> SUFFICES ASSUME TypeOK, AccountInv, [Next]_vars PROVE AccountInv'
  OBVIOUS
<1> USE DEF AccountInv
<1>1. player \in Player
  BY DEF TypeOK
<1>2. ASSUME Accounted(player'), saved' = saved PROVE AccountInv'
  BY <1>2
<1>3. ASSUME player'.skillPoints = player.skillPoints, player'.level = player.level,
             player'.skill = player.skill, player'.from = player.from,
             player'.learnt = player.learnt
      PROVE  Accounted(player')
  BY <1>3, AccountedSame
<1>4. CASE Rewarding
  BY <1>1, <1>2, <1>4, RewardingResult, AccountedEarned DEF Same
<1>5. CASE ActionRead
  <2>1. PICK p \in Player :
           /\ Earned(player, p, BookXp)
           /\ player' = [p EXCEPT !.read = TRUE,
                                  !.skill = IF p.skill >= 90 THEN @ ELSE @ + 1,
                                  !.learnt = IF p.skill >= 90 THEN @ ELSE @ \cup {p.skill}]
           /\ Same
    BY <1>5, ReadResult
  <2>2. Accounted(p)
    BY <1>1, <2>1, AccountedEarned
  <2>3. /\ player'.skillPoints = p.skillPoints /\ player'.level = p.level
        /\ player'.from = p.from
        /\ player'.skill = IF p.skill >= 90 THEN p.skill ELSE p.skill + 1
        /\ player'.learnt = IF p.skill >= 90 THEN p.learnt ELSE p.learnt \cup {p.skill}
    BY <2>1 DEF Player
  <2>4. Accounted(player')
    <3>1. CASE p.skill >= 90
      BY <2>2, <2>3, <3>1, AccountedSame
    <3>2. CASE ~(p.skill >= 90)
      BY <2>1, <2>2, <2>3, <3>2, AccountedTaught
    <3>3. QED
      BY <3>1, <3>2
  <2>5. QED
    BY <1>2, <2>1, <2>4 DEF Same
<1>6. CASE Later
  <2>1. /\ player'.skillPoints = player.skillPoints /\ player'.level = player.level
        /\ player'.skill = player.skill /\ player'.from = player.from
        /\ player'.learnt = player.learnt
    BY <1>1, <1>6, LaterResult DEF Player
  <2>2. QED
    BY <1>2, <1>3, <1>6, <2>1, LaterResult DEF Same
<1>7. CASE spendSkillPoints
  BY <1>1, <1>2, <1>7, SpendResult, AccountedBought DEF Same
<1>8. CASE Die
  <2>1. /\ player'.skillPoints = player.skillPoints /\ player'.level = player.level
        /\ player'.skill = player.skill /\ player'.from = player.from
        /\ player'.learnt = player.learnt
    BY <1>1, <1>8, DieResult DEF Player
  <2>2. QED
    BY <1>2, <1>3, <1>8, <2>1, DieResult
<1>9. CASE Frame
  <2>1. saved' = saved
    BY <1>9, FrameResult
  <2>2. CASE player' = [player EXCEPT !.experience = Drained(Advanced(sDeathRecovery)),
                                      !.stale = @ \/ foreign]
    <3>1. /\ player'.skillPoints = player.skillPoints /\ player'.level = player.level
          /\ player'.skill = player.skill /\ player'.from = player.from
          /\ player'.learnt = player.learnt
      BY <1>1, <2>2 DEF Player
    <3>2. QED
      BY <1>2, <1>3, <2>1, <3>1
  <2>3. CASE \E revived \in Player :
                 /\ revived = [player EXCEPT !.experience = 0, !.stale = @ \/ foreign,
                                             !.dead = FALSE, !.died = NotDead]
                 /\ Earned(revived, player', 0) \/ Earned(revived, player', TravelXp)
    <3>1. PICK revived \in Player :
                 /\ revived = [player EXCEPT !.experience = 0, !.stale = @ \/ foreign,
                                             !.dead = FALSE, !.died = NotDead]
                 /\ Earned(revived, player', 0) \/ Earned(revived, player', TravelXp)
      BY <2>3
    <3>2. /\ revived.skillPoints = player.skillPoints /\ revived.level = player.level
          /\ revived.skill = player.skill /\ revived.from = player.from
          /\ revived.learnt = player.learnt
      BY <1>1, <3>1 DEF Player
    <3>3. Accounted(revived)
      BY <3>2, AccountedSame
    <3>4. Accounted(player')
      BY <3>1, <3>3, AccountedEarned
    <3>5. QED
      BY <1>2, <2>1, <3>4
  <2>4. QED
    BY <1>9, <2>2, <2>3, FrameResult
<1>10. CASE finishDeathRecovery
  BY <1>10 DEF finishDeathRecovery
<1>11. CASE tryPotionRecovery
  <2>1. /\ player'.skillPoints = player.skillPoints /\ player'.level = player.level
        /\ player'.skill = player.skill /\ player'.from = player.from
        /\ player'.learnt = player.learnt
    BY <1>1, <1>11, PotionResult DEF Player
  <2>2. QED
    BY <1>2, <1>3, <1>11, <2>1, PotionResult
<1>12. CASE applyJailPenalty
  <2>1. /\ player'.skillPoints = player.skillPoints /\ player'.level = player.level
        /\ player'.skill = player.skill /\ player'.from = player.from
        /\ player'.learnt = player.learnt
    BY <1>1, <1>12, JailResult DEF Player
  <2>2. QED
    BY <1>2, <1>3, <1>12, <2>1, JailResult DEF Same
<1>13. CASE Save
  BY <1>13 DEF Save
<1>14. CASE Load
  BY <1>14, LoadResult
<1>15. CASE UNCHANGED vars
  BY <1>15 DEF vars
<1>16. QED
  BY <1>4, <1>5, <1>6, <1>7, <1>8, <1>9, <1>10, <1>11, <1>12, <1>13, <1>14, <1>15, NextCases

\* For any curve, any points for a level and any Major skill to begin with: what is
\* left and what was due for the points of skill that were bought, each at the
\* price it had then, is what the levels have given.
THEOREM PointsAddUp == Spec => []PointsAccounted
<1>1. Init => TypeOK /\ AccountInv
  BY TypeInit, AccountInit
<1>2. TypeOK /\ AccountInv /\ [Next]_vars => TypeOK' /\ AccountInv'
  BY TypeStep, AccountStep
<1>3. AccountInv => PointsAccounted
  BY DEF AccountInv, Accounted, PointsAccounted, PricedByClass
<1>4. QED
  BY <1>1, <1>2, <1>3, PTL DEF Spec

(***************************************************************************)
(* Penalties only take.                                                     *)
(***************************************************************************)

NoLowerThanDied(p) == p.dead => p.died.level =< p.level

DrainInv ==
    /\ NoLowerThanDied(player)
    /\ saved # Absent => NoLowerThanDied(saved)
    /\ sDeathRecovery.active /\ ~foreign =>
          /\ player.dead
          /\ player.level = player.died.level => Drained(sDeathRecovery) =< player.experience

LEMMA DrainInit == Init => DrainInv
BY DEF Init, DrainInv, NoLowerThanDied, NoRecovery

\* Rewards do not bring the experience of a level below what is drained.
LEMMA DrainKept ==
    ASSUME TypeOK, DrainInv, player' \in Player, Same,
           player'.dead = player.dead, player'.died = player.died,
           player.level =< player'.level,
           player'.level = player.level => player.experience =< player'.experience
    PROVE  DrainInv'
<1>1. /\ player \in Player /\ player.level \in Nat /\ player'.level \in Nat
      /\ player.died.level \in Nat
      /\ player.experience \in Nat /\ player'.experience \in Nat
      /\ sDeathRecovery \in Recovery
  BY DEF TypeOK, Player, Recovery
<1>2. NoLowerThanDied(player')
  BY <1>1 DEF DrainInv, NoLowerThanDied
<1>3. ASSUME sDeathRecovery.active, ~foreign
      PROVE  /\ player'.dead
             /\ player'.level = player'.died.level => Drained(sDeathRecovery) =< player'.experience
  <2>1. player.dead /\ player.died.level =< player.level
    BY <1>3 DEF DrainInv, NoLowerThanDied
  <2>2. ASSUME player'.level = player'.died.level
        PROVE  Drained(sDeathRecovery) =< player'.experience
    <3>1. player.level = player.died.level /\ player'.level = player.level
      BY <1>1, <2>1, <2>2
    <3>2. Drained(sDeathRecovery) =< player.experience
      BY <1>3, <3>1 DEF DrainInv
    <3>3. Drained(sDeathRecovery) \in Nat
      BY <1>1, DrainedFalls
    <3>4. QED
      BY <1>1, <3>1, <3>2, <3>3
  <2>3. QED
    BY <2>1, <2>2
<1>4. QED
  BY <1>2, <1>3 DEF DrainInv, NoLowerThanDied, Drained, Same

\* On the same level experience is what the total says.
LEMMA EarnedExperience ==
    ASSUME NEW p \in Player, NEW q \in Player, NEW amount \in Nat, Earned(p, q, amount),
           q.level = p.level
    PROVE  p.experience =< q.experience
<1>1. p.experience \in Nat /\ q.experience \in Nat /\ Threshold[p.level] \in Nat
  BY ThresholdNatural DEF Player
<1>2. QED
  BY <1>1 DEF Earned, Total

LEMMA DrainStep == TypeOK /\ DrainInv /\ [Next]_vars => DrainInv'
<1> SUFFICES ASSUME TypeOK, DrainInv, [Next]_vars PROVE DrainInv'
  OBVIOUS
<1>1. player \in Player /\ player.experience \in Nat /\ player.level \in Nat
  BY DEF TypeOK, Player
<1>2. player.experience =< player.experience /\ player.level =< player.level
  BY <1>1
<1>3. CASE Rewarding
  <2>1. PICK amount \in Nat : Earned(player, player', amount)
    BY <1>3, RewardingResult
  <2>2. player' \in Player /\ player'.dead = player.dead /\ player'.died = player.died
        /\ player.level =< player'.level
    BY <2>1 DEF Earned, Kept
  <2>3. player'.level = player.level => player.experience =< player'.experience
    BY <1>1, <2>1, <2>2, EarnedExperience
  <2>4. Same
    BY <1>3, RewardingResult
  <2>5. QED
    BY <2>2, <2>3, <2>4, DrainKept
<1>4. CASE ActionRead
  <2>1. PICK p \in Player :
           /\ Earned(player, p, BookXp)
           /\ player' = [p EXCEPT !.read = TRUE,
                                  !.skill = IF p.skill >= 90 THEN @ ELSE @ + 1,
                                  !.learnt = IF p.skill >= 90 THEN @ ELSE @ \cup {p.skill}]
           /\ player' \in Player
           /\ Same
    BY <1>4, ReadResult
  <2>2. /\ player'.level = p.level /\ player'.experience = p.experience
        /\ player'.dead = p.dead /\ player'.died = p.died
    BY <2>1 DEF Player
  <2>3. player'.dead = player.dead /\ player'.died = player.died /\ player.level =< player'.level
    BY <2>1, <2>2 DEF Earned, Kept
  <2>4. player'.level = player.level => player.experience =< player'.experience
    BY <1>1, <2>1, <2>2, EarnedExperience, AmountsAssumption
  <2>5. QED
    BY <2>1, <2>3, <2>4, DrainKept
<1>5. CASE Later
  <2>1. /\ player'.level = player.level /\ player'.experience = player.experience
        /\ player'.dead = player.dead /\ player'.died = player.died
    BY <1>1, <1>5, LaterResult DEF Player
  <2>2. QED
    BY <1>2, <1>5, <2>1, LaterResult, DrainKept
<1>6. CASE spendSkillPoints
  BY <1>2, <1>6, SpendResult, DrainKept
<1>7. CASE Die
  <2>1. /\ player'.level = player.level /\ player'.died.level = player.level /\ ~player.dead
    <3>1. player' = [player EXCEPT !.dead = TRUE,
                         !.died = [level |-> player.level, experience |-> player.experience]]
      BY <1>7, DieResult
    <3>2. player'.died = [level |-> player.level, experience |-> player.experience]
      BY <1>1, <3>1 DEF Player
    <3>3. player'.level = player.level
      BY <1>1, <3>1 DEF Player
    <3>4. QED
      BY <1>7, <3>2, <3>3, DieResult
  <2>2. NoLowerThanDied(player')
    BY <1>2, <2>1 DEF NoLowerThanDied
  <2>3. ~(sDeathRecovery.active /\ ~foreign)
    BY <2>1 DEF DrainInv
  <2>4. QED
    BY <1>7, <2>2, <2>3, DieResult DEF DrainInv, NoLowerThanDied
<1>8. CASE Frame
  <2>1. saved' = saved
    BY <1>8, FrameResult
  <2>2. CASE /\ sDeathRecovery' = Advanced(sDeathRecovery)
             /\ player' = [player EXCEPT !.experience = Drained(Advanced(sDeathRecovery)),
                                         !.stale = @ \/ foreign]
    <3> DEFINE r == Advanced(sDeathRecovery)
    <3>1. /\ player'.level = player.level /\ player'.experience = Drained(r)
          /\ player'.dead = player.dead /\ player'.died = player.died
      BY <1>1, <2>2 DEF Player
    <3>2. player.dead
      BY <1>8, FrameResult
    <3>3. r \in Recovery
      BY AdvancedResult
    <3>4. sDeathRecovery' = r
      BY <2>2
    <3> HIDE DEF r
    <3>5. Drained(r) =< Drained(r)
      BY <3>3, DrainedFalls
    <3>6. NoLowerThanDied(player')
      BY <3>1 DEF DrainInv, NoLowerThanDied
    <3>7. player'.dead /\ Drained(sDeathRecovery') =< player'.experience
      BY <3>1, <3>2, <3>4, <3>5
    <3>8. QED
      BY <2>1, <3>6, <3>7 DEF DrainInv, NoLowerThanDied, Drained
  <2>3. CASE /\ sDeathRecovery' = NoRecovery
             /\ \E revived \in Player :
                   /\ revived = [player EXCEPT !.experience = 0, !.stale = @ \/ foreign,
                                               !.dead = FALSE, !.died = NotDead]
                   /\ Earned(revived, player', 0) \/ Earned(revived, player', TravelXp)
    <3>1. ~player'.dead
      <4>1. PICK revived \in Player :
                   /\ revived = [player EXCEPT !.experience = 0, !.stale = @ \/ foreign,
                                               !.dead = FALSE, !.died = NotDead]
                   /\ Earned(revived, player', 0) \/ Earned(revived, player', TravelXp)
        BY <2>3
      <4>2. ~revived.dead
        BY <1>1, <4>1 DEF Player
      <4>3. QED
        BY <4>1, <4>2 DEF Earned, Kept
    <3>2. QED
      BY <2>1, <2>3, <3>1 DEF DrainInv, NoLowerThanDied, NoRecovery
  <2>4. QED
    BY <1>8, <2>2, <2>3, FrameResult
<1>9. CASE finishDeathRecovery
  BY <1>9 DEF finishDeathRecovery, DrainInv, NoLowerThanDied, NoRecovery
<1>10. CASE tryPotionRecovery
  <2>1. ~player'.dead
    BY <1>1, <1>10, PotionResult DEF Player
  <2>2. QED
    BY <1>10, <2>1, PotionResult DEF DrainInv, NoLowerThanDied, NoRecovery
<1>11. CASE applyJailPenalty
  <2>1. ~player'.dead /\ ~player.dead
    BY <1>1, <1>11, JailResult DEF Player
  <2>2. ~(sDeathRecovery.active /\ ~foreign)
    BY <2>1 DEF DrainInv
  <2>3. Same
    BY <1>11, JailResult
  <2>4. QED
    BY <2>1, <2>2, <2>3 DEF DrainInv, NoLowerThanDied, Same
<1>12. CASE Save
  BY <1>12 DEF Save, DrainInv, NoLowerThanDied, Drained
<1>13. CASE Load
  BY <1>13, LoadResult DEF DrainInv, NoLowerThanDied
<1>14. CASE UNCHANGED vars
  BY <1>14 DEF vars, DrainInv, NoLowerThanDied, Drained
<1>15. QED
  BY <1>3, <1>4, <1>5, <1>6, <1>7, <1>8, <1>9, <1>10, <1>11, <1>12, <1>13, <1>14, NextCases

\* What a penalty may give.
Gift == IF player.dead /\ ~player'.dead THEN TravelXp ELSE 0

LEMMA PenaltyStep ==
    TypeOK /\ DrainInv =>
        ((Frame \/ tryPotionRecovery \/ applyJailPenalty) /\ ~Excused
             => Total(player') =< Total(player) + Gift)
<1> SUFFICES ASSUME TypeOK, DrainInv, Frame \/ tryPotionRecovery \/ applyJailPenalty, ~Excused
             PROVE  Total(player') =< Total(player) + Gift
  OBVIOUS
<1>1. player \in Player /\ player.experience \in Nat /\ player.level \in 1..MaxLevel
  BY DEF TypeOK, Player
<1>2. Threshold[player.level] \in Nat
  BY <1>1, ThresholdNatural
<1>3. Gift \in Nat /\ TravelXp \in Nat
  BY AmountsAssumption DEF Gift
<1>4. ASSUME player' \in Player, player'.level = player.level, player'.experience =< player.experience
      PROVE  Total(player') =< Total(player) + Gift
  <2>1. player'.experience \in Nat
    BY <1>4 DEF Player
  <2>2. QED
    BY <1>1, <1>2, <1>3, <1>4, <2>1 DEF Total
<1>5. CASE tryPotionRecovery
  <2>1. player'.level = player.level /\ player'.experience = player.experience
    BY <1>1, <1>5, PotionResult DEF Player
  <2>2. QED
    BY <1>1, <1>4, <1>5, <2>1, PotionResult
<1>6. CASE applyJailPenalty
  <2>1. player'.level = player.level
    BY <1>1, <1>6, JailResult DEF Player
  <2>2. QED
    BY <1>4, <1>6, <2>1, JailResult
<1>7. CASE Frame
  <2>1. player.dead /\ player' \in Player /\ ~foreign /\ player.level = player.died.level
    BY <1>7, FrameResult DEF Excused
  <2>2. CASE player' = [player EXCEPT !.experience = Drained(Advanced(sDeathRecovery)),
                                      !.stale = @ \/ foreign]
    <3> DEFINE r == Advanced(sDeathRecovery)
    <3>1. player'.level = player.level /\ player'.experience = Drained(r)
      BY <1>1, <2>2 DEF Player
    <3>2. /\ r \in Recovery
          /\ r.initialXp = IF sDeathRecovery.active THEN sDeathRecovery.initialXp
                           ELSE player.experience
          /\ sDeathRecovery.active => sDeathRecovery.elapsed =< r.elapsed
      BY AdvancedResult
    <3> HIDE DEF r
    <3>3. Drained(r) \in Nat
      BY <3>2, DrainedFalls
    <3>4. CASE sDeathRecovery.active
      <4>1. Drained(sDeathRecovery) =< player.experience
        BY <2>1, <3>4 DEF DrainInv
      <4>2. sDeathRecovery \in Recovery
        BY DEF TypeOK, Recovery
      <4>3. Drained(r) =< Drained(sDeathRecovery) /\ Drained(sDeathRecovery) \in Nat
        BY <3>2, <3>4, <4>2, DrainedFalls
      <4>4. Drained(r) =< player.experience
        BY <1>1, <3>3, <4>1, <4>3
      <4>5. QED
        BY <1>4, <2>1, <3>1, <4>4
    <3>5. CASE ~sDeathRecovery.active
      <4>1. Drained(r) =< player.experience
        BY <3>2, <3>5, DrainedFalls
      <4>2. QED
        BY <1>4, <2>1, <3>1, <4>1
    <3>6. QED
      BY <3>4, <3>5
  <2>3. CASE \E revived \in Player :
                 /\ revived = [player EXCEPT !.experience = 0, !.stale = @ \/ foreign,
                                             !.dead = FALSE, !.died = NotDead]
                 /\ Earned(revived, player', 0) \/ Earned(revived, player', TravelXp)
    <3>1. PICK revived \in Player :
                 /\ revived = [player EXCEPT !.experience = 0, !.stale = @ \/ foreign,
                                             !.dead = FALSE, !.died = NotDead]
                 /\ Earned(revived, player', 0) \/ Earned(revived, player', TravelXp)
      BY <2>3
    <3>2. revived.experience = 0 /\ revived.level = player.level /\ ~revived.dead
      BY <1>1, <3>1 DEF Player
    <3>3. ~player'.dead
      BY <3>1, <3>2 DEF Earned, Kept
    <3>4. Gift = TravelXp
      BY <2>1, <3>3 DEF Gift
    <3>5. Total(revived) = Threshold[player.level]
      BY <1>2, <3>2 DEF Total
    <3>6. Total(player') = Threshold[player.level] \/ Total(player') = Threshold[player.level] + TravelXp
      BY <1>2, <3>1, <3>5 DEF Earned
    <3>7. Total(player) = Threshold[player.level] + player.experience
      BY DEF Total
    <3>8. QED
      BY <1>1, <1>2, <1>3, <3>4, <3>6, <3>7
  <2>4. QED
    BY <1>7, <2>2, <2>3, FrameResult
<1>8. QED
  BY <1>5, <1>6, <1>7

\* For any curve and any length of a recovery: no frame of a dead player, no
\* potion and no jail adds to what has been earned, but for the travel to a
\* shrine, with the two exceptions that Excused names.
THEOREM PenaltiesTakeOnly == Spec => PenaltiesOnlyTake
<1>1. Init => TypeOK /\ DrainInv
  BY TypeInit, DrainInit
<1>2. TypeOK /\ DrainInv /\ [Next]_vars => TypeOK' /\ DrainInv'
  BY TypeStep, DrainStep
<1>3. TypeOK /\ DrainInv =>
          [(Frame \/ tryPotionRecovery \/ applyJailPenalty) /\ ~Excused
              => Total(player') =< Total(player)
                     + IF player.dead /\ ~player'.dead THEN TravelXp ELSE 0]_vars
  BY PenaltyStep DEF Gift
<1>4. QED
  BY <1>1, <1>2, <1>3, PTL DEF Spec, PenaltiesOnlyTake

=============================================================================
