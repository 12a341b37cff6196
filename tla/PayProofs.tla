------------------------------ MODULE PayProofs ------------------------------
(***************************************************************************)
(* Proof that a role has what its taken payments are worth (Credited of    *)
(* Pay), for any prices and presents, any number of payments and days, and *)
(* any bounds.                                                             *)
(***************************************************************************)
EXTENDS Pay, FiniteSetTheorems, WellFoundedInduction, NaturalsInduction, TLAPS

-----------------------------------------------------------------------------
(* Sums.                                                                   *)

Counted(f) == UNION {{x} \X (1..f[x]) : x \in DOMAIN f}

LEMMA SumIs == \A f : Sum(f) = Cardinality(Counted(f))
BY DEF Sum, Counted

\* One number counts that many things.
LEMMA CountedOne ==
  ASSUME NEW x, NEW n \in Nat
  PROVE  IsFiniteSet({x} \X (1..n)) /\ Cardinality({x} \X (1..n)) = n
<1> DEFINE f == [k \in 1..n |-> <<x, k>>]
<1>1. f \in Bijection(1..n, {x} \X (1..n))
  <2>1. f \in [1..n -> {x} \X (1..n)]
    OBVIOUS
  <2>2. \A j, k \in 1..n : f[j] = f[k] => j = k
    OBVIOUS
  <2>3. \A y \in {x} \X (1..n) : \E k \in 1..n : f[k] = y
    OBVIOUS
  <2>4. QED
    BY <2>1, <2>2, <2>3 DEF Bijection, Injection, Surjection, IsInjective
<1>2. ExistsBijection(1..n, {x} \X (1..n))
  BY <1>1 DEF ExistsBijection
<1>3. IsFiniteSet(1..n) /\ Cardinality(1..n) = n
  BY FS_Interval
<1>4. QED
  BY <1>2, <1>3, FS_Bijection

\* The empty sum.
LEMMA SumEmpty ==
  ASSUME NEW f, DOMAIN f = {}
  PROVE  IsFiniteSet(Counted(f)) /\ Sum(f) = 0
<1>1. Counted(f) = {}
  BY DEF Counted
<1>2. QED
  BY <1>1, FS_EmptySet, SumIs

\* One more number.
LEMMA SumAdds ==
  ASSUME NEW f, NEW g, NEW x, NEW n \in Nat, IsFiniteSet(Counted(f)),
         x \notin DOMAIN f, DOMAIN g = DOMAIN f \cup {x},
         \A y \in DOMAIN f : g[y] = f[y], g[x] = n
  PROVE  IsFiniteSet(Counted(g)) /\ Sum(g) = Sum(f) + n /\ Sum(f) \in Nat
<1> DEFINE one == {x} \X (1..n)
<1>1. Counted(g) = Counted(f) \cup one
  <2>1. ASSUME NEW z \in Counted(g)
        PROVE  z \in Counted(f) \cup one
    <3>1. PICK y \in DOMAIN g : z \in {y} \X (1..g[y])
      BY DEF Counted
    <3>2. CASE y = x
      BY <3>1, <3>2
    <3>3. CASE y # x
      BY <3>1, <3>3 DEF Counted
    <3>4. QED
      BY <3>2, <3>3
  <2>2. ASSUME NEW z \in Counted(f)
        PROVE  z \in Counted(g)
    <3>1. PICK y \in DOMAIN f : z \in {y} \X (1..f[y])
      BY DEF Counted
    <3>2. y \in DOMAIN g /\ z \in {y} \X (1..g[y])
      BY <3>1
    <3>3. QED
      BY <3>2 DEF Counted
  <2>3. one \subseteq Counted(g)
    BY DEF Counted
  <2>4. QED
    BY <2>1, <2>2, <2>3
<1>2. Counted(f) \cap one = {}
  <2>1. \A z \in Counted(f) : z[1] \in DOMAIN f
    BY DEF Counted
  <2>2. \A z \in one : z[1] = x
    OBVIOUS
  <2>3. QED
    BY <2>1, <2>2
<1>3. IsFiniteSet(one) /\ Cardinality(one) = n
  BY CountedOne
<1>4. PICK A, B : A = Counted(f) /\ B = one
  OBVIOUS
<1> HIDE DEF one
<1>5. /\ IsFiniteSet(A \cup B)
      /\ Cardinality(A \cup B) = Cardinality(A) + Cardinality(B) - Cardinality(A \cap B)
  BY <1>3, <1>4, FS_Union
<1>6. Cardinality(A \cap B) = 0
  BY <1>2, <1>4, FS_EmptySet
<1>7. Cardinality(A) \in Nat /\ Cardinality(B) = n
  BY <1>3, <1>4, FS_CardinalityType
<1>8. Cardinality(A \cup B) = Cardinality(A) + n
  BY <1>5, <1>6, <1>7
<1>9. Counted(g) = A \cup B
  BY <1>1, <1>4
<1>10. Sum(g) = Cardinality(A \cup B) /\ Sum(f) = Cardinality(A)
  BY <1>4, <1>9, SumIs
<1>11. QED
  BY <1>5, <1>7, <1>8, <1>9, <1>10

-----------------------------------------------------------------------------
(* Loops.                                                                  *)

\* A set of numbers that is not empty has a smallest element.
LEMMA SmallestExists ==
  ASSUME NEW S \in SUBSET Nat, S # {}
  PROVE  \E m \in S : \A k \in S : m <= k
<1>1. PICK m \in S : \A k \in S : ~ (<<k, m>> \in OpToRel(<, Nat))
  BY NatLessThanWellFounded, WFMin
<1>2. ASSUME NEW k \in S
      PROVE  m <= k
  <2>1. k \in Nat /\ m \in Nat
    OBVIOUS
  <2>2. <<k, m>> \notin {xy \in Nat \X Nat : xy[1] < xy[2]}
    BY <1>1 DEF OpToRel
  <2>3. QED
    BY <2>1, <2>2
<1>3. QED
  BY <1>2

\* A loop of n rounds, the i-th of which makes step[i, d] of d.
IsLoop(f, a, step, n) ==
  f = [i \in 0..n |-> IF i = 0 THEN a ELSE step[<<i, f[i - 1]>>]]

LEMMA LoopExists ==
  ASSUME NEW a, NEW step, NEW n \in Nat
  PROVE  \E f : IsLoop(f, a, step, n)
<1> DEFINE S == {m \in Nat : ~ \E f : IsLoop(f, a, step, m)}
<1> SUFFICES ASSUME n \in S PROVE FALSE
  OBVIOUS
<1>1. PICK m \in S : \A k \in S : m <= k
  <2>1. S \in SUBSET Nat /\ S # {}
    OBVIOUS
  <2> HIDE DEF S
  <2>2. QED
    BY <2>1, SmallestExists
<1>2. CASE m = 0
  <2> DEFINE f == [i \in 0..0 |-> a]
  <2>1. f = [i \in 0..0 |-> IF i = 0 THEN a ELSE step[<<i, f[i - 1]>>]]
    OBVIOUS
  <2>2. IsLoop(f, a, step, m)
    BY <1>2, <2>1 DEF IsLoop
  <2>3. QED
    BY <2>2
<1>3. CASE m # 0
  <2>1. m - 1 \in Nat /\ m - 1 \notin S
    BY <1>1, <1>3
  <2>2. PICK r : IsLoop(r, a, step, m - 1)
    BY <2>1
  <2>3. \A i \in 0..(m - 1) : r[i] = IF i = 0 THEN a ELSE step[<<i, r[i - 1]>>]
    BY <2>2, Zenon DEF IsLoop
  <2> DEFINE f == [i \in 0..m |-> IF i = m THEN step[<<m, r[m - 1]>>] ELSE r[i]]
  <2>4. ASSUME NEW i \in 0..m
        PROVE  f[i] = IF i = 0 THEN a ELSE step[<<i, f[i - 1]>>]
    <3>1. CASE i = m
      <4>1. m \in 0..m /\ m - 1 \in 0..m /\ m - 1 # m
        BY <2>1
      <4>2. f[m] = step[<<m, r[m - 1]>>] /\ f[m - 1] = r[m - 1]
        BY <4>1
      <4>3. QED
        BY <1>3, <3>1, <4>2
    <3>2. CASE i # m
      <4>1. i \in 0..(m - 1) /\ (i # 0 => i - 1 \in 0..m /\ i - 1 # m)
        BY <3>2
      <4>2. f[i] = r[i] /\ (i # 0 => f[i - 1] = r[i - 1])
        BY <3>2, <4>1
      <4>3. QED
        BY <2>3, <4>1, <4>2
    <3>3. QED
      BY <3>1, <3>2
  <2>5. f = [i \in 0..m |-> f[i]]
    OBVIOUS
  <2> HIDE DEF f
  <2>6. [i \in 0..m |-> f[i]] = [i \in 0..m |-> IF i = 0 THEN a ELSE step[<<i, f[i - 1]>>]]
    BY <2>4
  <2>7. IsLoop(f, a, step, m)
    BY <2>5, <2>6 DEF IsLoop
  <2>8. QED
    BY <2>7
<1>4. QED
  BY <1>2, <1>3

\* What the start has and every round keeps, all rounds have.
LEMMA LoopKeeps ==
  ASSUME NEW D, NEW n \in Nat, NEW f, f[0] \in D, \A i \in 1..n : f[i - 1] \in D => f[i] \in D
  PROVE  \A m \in 0..n : f[m] \in D
<1> DEFINE S == {m \in 0..n : f[m] \notin D}
<1> SUFFICES ASSUME S # {} PROVE FALSE
  OBVIOUS
<1>1. PICK m \in S : \A k \in S : m <= k
  <2>1. S \in SUBSET Nat
    OBVIOUS
  <2> HIDE DEF S
  <2>2. QED
    BY <2>1, SmallestExists
<1>2. m \in 0..n /\ f[m] \notin D
  OBVIOUS
<1>3. m # 0
  BY <1>2
<1>4. m - 1 \in 0..n /\ m - 1 \notin S /\ m \in 1..n
  BY <1>1, <1>2, <1>3
<1>5. QED
  BY <1>2, <1>4

\* A loop whose rounds stay in D.
IsLoopIn(f, a, step, n, D) ==
  /\ f = [i \in 0..n |-> f[i]] /\ f[0] = a
  /\ \A i \in 1..n : f[i - 1] \in D /\ f[i] = step[<<i, f[i - 1]>>]

LEMMA LoopIn ==
  ASSUME NEW D, NEW a \in D, NEW n \in Nat, NEW step,
         \A i \in 1..n : \A d \in D : step[<<i, d>>] \in D
  PROVE  \E f : IsLoopIn(f, a, step, n, D)
<1>1. PICK f : IsLoop(f, a, step, n)
  BY LoopExists
<1>2. \A i \in 0..n : f[i] = IF i = 0 THEN a ELSE step[<<i, f[i - 1]>>]
  BY <1>1, Zenon DEF IsLoop
<1>3. f = [i \in 0..n |-> f[i]]
  BY <1>1, Zenon DEF IsLoop
<1>4. 0 \in 0..n /\ (\A i \in 1..n : i \in 0..n /\ i # 0 /\ i - 1 \in 0..n)
  OBVIOUS
<1>5. f[0] = a /\ \A i \in 1..n : f[i] = step[<<i, f[i - 1]>>]
  BY <1>2, <1>4
<1>6. f[0] \in D /\ \A i \in 1..n : f[i - 1] \in D => f[i] \in D
  BY <1>5
<1>7. \A m \in 0..n : f[m] \in D
  BY <1>6, LoopKeeps
<1>8. \A i \in 1..n : f[i - 1] \in D
  BY <1>4, <1>7
<1>9. QED
  BY <1>3, <1>5, <1>8, Zenon DEF IsLoopIn

-----------------------------------------------------------------------------
(* What payments are worth, by their prices and the day.                   *)

Price == [u \in Uids |-> pay[u].price]

WorthBy(T, price)     == [u \in T |-> price[u]]
BoughtBy(T, price, p) == Cardinality({u \in T : price[u] = p})
DueBy(T, price)       ==
  UNION {{p} \X {n \in DOMAIN Present[p] : n <= BoughtBy(T, price, p)} : p \in DOMAIN Present}
PresentsBy(T, price)  == [d \in DueBy(T, price) |-> Present[d[1]][d[2]]]

\* The month card: how long it lasts after so many of them.
CardBy(end, cards, today) ==
  IF cards = 0 THEN end = 0 ELSE cards * MonthDays < end /\ end <= today + cards * MonthDays

CoinsBy(t, T, price) ==
  /\ t.coin["pay"] = 10 * Sum(WorthBy(T, price)) /\ t.coin["present"] = Sum(PresentsBy(T, price))
  /\ t.coin["first"] = t.var_map.frist_pay_reward_flag
InfoBy(t, T, price) ==
  t.pay_info.pay_count = Cardinality(T) /\ t.pay_info.pay_sum = Sum(WorthBy(T, price))

Finite(T, price) ==
  IsFiniteSet(T) /\ IsFiniteSet(Counted(WorthBy(T, price))) /\ IsFiniteSet(Counted(PresentsBy(T, price)))

EarnedBy(t, T, price, today) ==
  /\ Finite(T, price) /\ CoinsBy(t, T, price) /\ InfoBy(t, T, price)
  /\ CardBy(t.pay_info.month_time, BoughtBy(T, price, MonthPrice), today)

LEMMA EarnedIs ==
  ASSUME NEW t, NEW T \in SUBSET Uids, EarnedBy(t, T, Price, day)
  PROVE  Earned(t, T)
<1>1. \A u \in T : Price[u] = pay[u].price
  BY DEF Price
<1>2. [u \in T |-> pay[u].price] = WorthBy(T, Price)
  BY <1>1 DEF WorthBy
<1>3. \A p : {u \in T : pay[u].price = p} = {u \in T : Price[u] = p}
  BY <1>1
<1>4. \A p : Bought(T, p) = BoughtBy(T, Price, p)
  BY <1>3 DEF Bought, BoughtBy
<1>5. Due(T) = DueBy(T, Price)
  BY <1>4 DEF Due, DueBy
<1>6. Worth(T) = Sum(WorthBy(T, Price)) /\ Presents(T) = Sum(PresentsBy(T, Price))
  BY <1>2, <1>5 DEF Worth, Presents, PresentsBy
<1>7. QED
  BY <1>4, <1>6 DEF Earned, EarnedBy, CoinsBy, InfoBy, CardBy

\* Nothing is earned by no payments.
LEMMA EarnedAtFirst ==
  ASSUME NEW t, NEW price, NEW today,
         t.coin["pay"] = 0, t.coin["present"] = 0, t.coin["first"] = 0, t.var_map.frist_pay_reward_flag = 0,
         t.pay_info.pay_count = 0, t.pay_info.pay_sum = 0, t.pay_info.month_time = 0
  PROVE  EarnedBy(t, {}, price, today)
<1>1. \A p : BoughtBy({}, price, p) = 0
  <2>1. \A p : {u \in {} : price[u] = p} = {}
    OBVIOUS
  <2>2. QED
    BY <2>1, FS_EmptySet DEF BoughtBy
<1>2. DueBy({}, price) = {}
  <2>1. \A p \in DOMAIN Present : DOMAIN Present[p] \subseteq Nat \ {0}
    BY PayAssumption
  <2>2. \A p \in DOMAIN Present : {n \in DOMAIN Present[p] : n <= BoughtBy({}, price, p)} = {}
    BY <1>1, <2>1
  <2>3. QED
    BY <2>2 DEF DueBy
<1>3. DOMAIN WorthBy({}, price) = {} /\ DOMAIN PresentsBy({}, price) = {}
  BY <1>2 DEF WorthBy, PresentsBy
<1>4. /\ Finite({}, price)
      /\ Sum(WorthBy({}, price)) = 0 /\ Sum(PresentsBy({}, price)) = 0 /\ Cardinality({}) = 0
  BY <1>3, SumEmpty, FS_EmptySet DEF Finite
<1>5. QED
  BY <1>1, <1>4 DEF EarnedBy, CoinsBy, InfoBy, CardBy

\* New rows and later days take nothing away.
LEMMA EarnedStays ==
  ASSUME NEW t, NEW T, NEW price, NEW today \in Nat, EarnedBy(t, T, price, today),
         NEW price2, NEW today2 \in Nat, today <= today2, \A u \in T : price2[u] = price[u],
         t.pay_info.month_time \in Nat
  PROVE  EarnedBy(t, T, price2, today2)
<1>1. WorthBy(T, price2) = WorthBy(T, price)
  BY DEF WorthBy
<1>2. \A p : BoughtBy(T, price2, p) = BoughtBy(T, price, p)
  <2>1. \A p : {u \in T : price2[u] = p} = {u \in T : price[u] = p}
    OBVIOUS
  <2>2. QED
    BY <2>1 DEF BoughtBy
<1>3. PresentsBy(T, price2) = PresentsBy(T, price)
  BY <1>2 DEF PresentsBy, DueBy
<1>4. Finite(T, price2) /\ CoinsBy(t, T, price2) /\ InfoBy(t, T, price2)
  BY <1>1, <1>3 DEF EarnedBy, CoinsBy, InfoBy, Finite
<1>5. PICK c : c = BoughtBy(T, price, MonthPrice)
  OBVIOUS
<1>6. PICK cm : cm = c * MonthDays
  OBVIOUS
<1>7. c \in Nat
  <2>1. IsFiniteSet({u \in T : price[u] = MonthPrice})
    BY FS_Subset DEF EarnedBy, Finite
  <2>2. QED
    BY <1>5, <2>1, FS_CardinalityType DEF BoughtBy
<1>8. cm \in Nat
  BY <1>6, <1>7, PayAssumption
<1>9. CardBy(t.pay_info.month_time, c, today)
  BY <1>5 DEF EarnedBy
<1>10. CardBy(t.pay_info.month_time, c, today2)
  <2>1. today + cm <= today2 + cm
    BY <1>8
  <2>2. t.pay_info.month_time <= today + cm => t.pay_info.month_time <= today2 + cm
    BY <1>8
  <2>3. QED
    BY <1>6, <1>9, <2>2 DEF CardBy
<1>11. QED
  BY <1>2, <1>4, <1>5, <1>10 DEF EarnedBy

\* One more payment.
LEMMA BoughtMore ==
  ASSUME NEW T, IsFiniteSet(T), NEW u, u \notin T, NEW price, NEW p
  PROVE  /\ BoughtBy(T \cup {u}, price, p) = BoughtBy(T, price, p) + (IF price[u] = p THEN 1 ELSE 0)
         /\ BoughtBy(T, price, p) \in Nat
<1> DEFINE S == {v \in T : price[v] = p}
<1>1. IsFiniteSet(S) /\ u \notin S
  BY FS_Subset
<1>2. {v \in T \cup {u} : price[v] = p} = IF price[u] = p THEN S \cup {u} ELSE S
  OBVIOUS
<1>3. Cardinality(S) \in Nat
  BY <1>1, FS_CardinalityType
<1> HIDE DEF S
<1>4. Cardinality(S \cup {u}) = Cardinality(S) + 1
  BY <1>1, FS_AddElement
<1>5. BoughtBy(T, price, p) = Cardinality(S)
  BY DEF BoughtBy, S
<1>6. BoughtBy(T \cup {u}, price, p) = IF price[u] = p THEN Cardinality(S \cup {u}) ELSE Cardinality(S)
  BY <1>2 DEF BoughtBy
<1>7. QED
  BY <1>3, <1>4, <1>5, <1>6

\* It is worth its price, and the present that is next for it.
LEMMA DueMore ==
  ASSUME NEW T, IsFiniteSet(T), NEW u, u \notin T, NEW price,
         NEW q, q = price[u], NEW k, k = BoughtBy(T, price, q) + 1
  PROVE  /\ <<q, k>> \notin DueBy(T, price)
         /\ DueBy(T \cup {u}, price) =
              DueBy(T, price) \cup IF q \in DOMAIN Present /\ k \in DOMAIN Present[q] THEN {<<q, k>>} ELSE {}
<1> DEFINE before(p) == BoughtBy(T, price, p)
           after(p)  == BoughtBy(T \cup {u}, price, p)
<1>1. \A p : before(p) \in Nat /\ after(p) = IF p = q THEN before(p) + 1 ELSE before(p)
  <2>1. ASSUME NEW p
        PROVE  before(p) \in Nat /\ after(p) = IF p = q THEN before(p) + 1 ELSE before(p)
    <3>1. before(p) \in Nat /\ after(p) = before(p) + (IF price[u] = p THEN 1 ELSE 0)
      BY BoughtMore
    <3> HIDE DEF before, after
    <3>2. QED
      BY <3>1
  <2>2. QED
    BY <2>1
<1>2. \A p \in DOMAIN Present : DOMAIN Present[p] \subseteq Nat
  BY PayAssumption
<1>3. \A p, n : <<p, n>> \in DueBy(T, price) <=> p \in DOMAIN Present /\ n \in DOMAIN Present[p] /\ n <= before(p)
  BY DEF DueBy
<1>4. \A p, n : <<p, n>> \in DueBy(T \cup {u}, price)
        <=> p \in DOMAIN Present /\ n \in DOMAIN Present[p] /\ n <= after(p)
  BY DEF DueBy
<1>5. \A d : d \in DueBy(T, price) \/ d \in DueBy(T \cup {u}, price) => d = <<d[1], d[2]>>
  BY DEF DueBy
<1>6. k = before(q) + 1
  OBVIOUS
<1> HIDE DEF before, after
<1>7. \A p, n : <<p, n>> \in DueBy(T \cup {u}, price)
        <=> <<p, n>> \in DueBy(T, price) \/ (p = q /\ n = k /\ p \in DOMAIN Present /\ n \in DOMAIN Present[p])
  <2>1. ASSUME NEW p \in DOMAIN Present, NEW n \in DOMAIN Present[p]
        PROVE  n <= after(p) <=> n <= before(p) \/ (p = q /\ n = k)
    <3>1. n \in Nat /\ before(p) \in Nat
      BY <1>1, <1>2
    <3>2. CASE p = q
      <4>1. after(p) = before(p) + 1 /\ k = before(p) + 1
        BY <1>1, <1>6, <3>2
      <4>2. QED
        BY <3>1, <3>2, <4>1
    <3>3. CASE p # q
      BY <1>1, <3>1, <3>3
    <3>4. QED
      BY <3>2, <3>3
  <2>2. QED
    BY <1>3, <1>4, <2>1
<1>8. <<q, k>> \notin DueBy(T, price)
  <2>1. ~(k <= before(q))
    BY <1>1, <1>6
  <2>2. QED
    BY <1>3, <2>1
<1>9. \A d : d \in DueBy(T \cup {u}, price)
        <=> d \in DueBy(T, price) \/ (d = <<q, k>> /\ q \in DOMAIN Present /\ k \in DOMAIN Present[q])
  <2>1. ASSUME NEW d \in DueBy(T \cup {u}, price)
        PROVE  d \in DueBy(T, price) \/ (d = <<q, k>> /\ q \in DOMAIN Present /\ k \in DOMAIN Present[q])
    <3>1. PICK p, n : p = d[1] /\ n = d[2]
      OBVIOUS
    <3>2. d = <<p, n>>
      BY <1>5, <3>1
    <3>3. QED
      BY <1>7, <3>2
  <2>2. ASSUME NEW d \in DueBy(T, price)
        PROVE  d \in DueBy(T \cup {u}, price)
    <3>1. PICK p, n : p = d[1] /\ n = d[2]
      OBVIOUS
    <3>2. d = <<p, n>>
      BY <1>5, <3>1
    <3>3. QED
      BY <1>7, <3>2
  <2>3. q \in DOMAIN Present /\ k \in DOMAIN Present[q] => <<q, k>> \in DueBy(T \cup {u}, price)
    BY <1>7
  <2>4. QED
    BY <2>1, <2>2, <2>3
<1>10. QED
  BY <1>8, <1>9

LEMMA PresentsMore ==
  ASSUME NEW T, NEW u, u \notin T, NEW price, Finite(T, price),
         NEW q, q = price[u], NEW k, k = BoughtBy(T, price, q) + 1
  PROVE  /\ IsFiniteSet(Counted(PresentsBy(T \cup {u}, price)))
         /\ Sum(PresentsBy(T \cup {u}, price)) = Sum(PresentsBy(T, price)) + present(q, k)
         /\ present(q, k) \in Nat /\ Sum(PresentsBy(T, price)) \in Nat
<1> DEFINE f == PresentsBy(T, price)
           g == PresentsBy(T \cup {u}, price)
<1>1. IsFiniteSet(T) /\ IsFiniteSet(Counted(f))
  BY DEF Finite
<1>2. /\ <<q, k>> \notin DueBy(T, price)
      /\ DueBy(T \cup {u}, price) =
           DueBy(T, price) \cup IF q \in DOMAIN Present /\ k \in DOMAIN Present[q] THEN {<<q, k>>} ELSE {}
  BY <1>1, DueMore
<1>3. f = [d \in DueBy(T, price) |-> Present[d[1]][d[2]]]
  BY DEF PresentsBy
<1>4. g = [d \in DueBy(T \cup {u}, price) |-> Present[d[1]][d[2]]]
  BY DEF PresentsBy
<1> HIDE DEF f, g
<1>5. Sum(f) \in Nat
  BY <1>1, SumIs, FS_CardinalityType
<1>6. CASE q \in DOMAIN Present /\ k \in DOMAIN Present[q]
  <2>1. PICK n : n = Present[q][k]
    OBVIOUS
  <2>2. n \in Nat /\ present(q, k) = n
    BY <1>6, <2>1, PayAssumption DEF present
  <2>3. PICK x : x = <<q, k>>
    OBVIOUS
  <2>4. x \notin DOMAIN f /\ DOMAIN g = DOMAIN f \cup {x}
    BY <1>2, <1>3, <1>4, <1>6, <2>3
  <2>5. x[1] = q /\ x[2] = k
    BY <2>3
  <2>6. (\A y \in DOMAIN f : g[y] = f[y]) /\ g[x] = n
    BY <1>3, <1>4, <2>1, <2>4, <2>5
  <2>7. IsFiniteSet(Counted(g)) /\ Sum(g) = Sum(f) + n
    BY <1>1, <2>2, <2>4, <2>6, SumAdds
  <2>8. QED
    BY <1>5, <2>2, <2>7 DEF f, g
<1>7. CASE ~(q \in DOMAIN Present /\ k \in DOMAIN Present[q])
  <2>1. g = f
    BY <1>2, <1>3, <1>4, <1>7
  <2>2. present(q, k) = 0
    BY <1>7 DEF present
  <2>3. QED
    BY <1>1, <1>5, <2>1, <2>2 DEF f, g
<1>8. QED
  BY <1>6, <1>7

\* The card lasts so many days longer.
LEMMA CardMore ==
  ASSUME NEW end \in Nat, NEW c \in Nat, NEW today \in Nat \ {0}, CardBy(end, c, today)
  PROVE  CardBy((IF end < today THEN today ELSE end) + MonthDays, c + 1, today)
<1>1. MonthDays \in Nat
  BY PayAssumption
<1>2. PICK old, new : old = c * MonthDays /\ new = (c + 1) * MonthDays
  OBVIOUS
<1>3. new = old + MonthDays /\ old \in Nat
  BY <1>1, <1>2
<1>4. c = 0 => old = 0 /\ end = 0
  BY <1>1, <1>2 DEF CardBy
<1>5. c # 0 => old < end /\ end <= today + old
  BY <1>2 DEF CardBy
<1>6. PICK e : e = (IF end < today THEN today ELSE end) + MonthDays
  OBVIOUS
<1>7. new < e /\ e <= today + new
  <2>1. CASE end < today
    <3>1. e = today + MonthDays
      BY <1>6, <2>1
    <3>2. old < today
      BY <1>3, <1>4, <1>5, <2>1
    <3>3. QED
      BY <1>1, <1>3, <3>1, <3>2
  <2>2. CASE ~(end < today)
    <3>1. e = end + MonthDays
      BY <1>6, <2>2
    <3>2. old < end /\ end <= today + old
      BY <1>3, <1>4, <1>5, <2>2
    <3>3. QED
      BY <1>1, <1>3, <3>1, <3>2
  <2>3. QED
    BY <2>1, <2>2
<1>8. QED
  BY <1>2, <1>6, <1>7 DEF CardBy

-----------------------------------------------------------------------------
(* A role and what is taken of its list.                                   *)

TakenOf(list)  == Uid(list, Taken(list))
Distinct(list) == \A i, j \in DOMAIN list : list[i].uid = list[j].uid => i = j

\* A role that has what is taken of its list, where no payment stands twice.
Sound(d) == d \in Data /\ Distinct(d.pay_list) /\ EarnedBy(d, TakenOf(d.pay_list), Price, day)

PaysSound == day \in Nat \ {0} /\ pay \in Seq([price : Prices, flag : {0, 1}])

LEMMA ElementOf ==
  ASSUME NEW S, NEW q \in Seq(S), NEW i \in DOMAIN q
  PROVE  q[i] \in S
OBVIOUS

LEMMA PriceIs ==
  ASSUME PaysSound, NEW u \in Uids
  PROVE  Price[u] = pay[u].price /\ Price[u] \in Prices /\ Price[u] \in Nat \ {0}
<1>1. pay[u] \in [price : Prices, flag : {0, 1}]
  BY Zenon, ElementOf DEF PaysSound, Uids
<1>2. Price[u] = pay[u].price
  BY DEF Price
<1>3. pay[u].price \in Prices
  BY <1>1
<1>4. Prices \subseteq Nat \ {0}
  BY PayAssumption
<1>5. QED
  BY <1>2, <1>3, <1>4

LEMMA ListIs ==
  ASSUME NEW list \in Seq(SUserPay)
  PROVE  /\ Len(list) \in Nat /\ DOMAIN list = 1..Len(list)
         /\ \A i \in DOMAIN list : list[i].uid \in Uids /\ list[i].flag \in {0, 1} /\ list[i] \in SUserPay
         /\ TakenOf(list) \subseteq Uids /\ Taken(list) \subseteq DOMAIN list
         /\ IsFiniteSet(DOMAIN list)
<1>1. \A i \in DOMAIN list : list[i] \in SUserPay
  OBVIOUS
<1>2. \A i \in DOMAIN list : list[i].uid \in Uids /\ list[i].flag \in {0, 1}
  BY <1>1 DEF SUserPay
<1>3. IsFiniteSet(1..Len(list))
  BY FS_Interval
<1>4. QED
  BY <1>1, <1>2, <1>3 DEF TakenOf, Uid, Taken

\* A part of a list without repetitions has as many payments as places.
LEMMA PlacesAreUids ==
  ASSUME NEW list \in Seq(SUserPay), Distinct(list), NEW I \in SUBSET DOMAIN list
  PROVE  IsFiniteSet(Uid(list, I)) /\ Cardinality(Uid(list, I)) = Cardinality(I)
<1> DEFINE f == [i \in I |-> list[i].uid]
<1>1. IsFiniteSet(I)
  BY ListIs, FS_Subset
<1>2. f \in Bijection(I, Uid(list, I))
  <2>1. f \in [I -> Uid(list, I)]
    BY DEF Uid
  <2>2. \A i, j \in I : f[i] = f[j] => i = j
    BY DEF Distinct
  <2>3. \A u \in Uid(list, I) : \E i \in I : f[i] = u
    BY DEF Uid
  <2>4. QED
    BY <2>1, <2>2, <2>3 DEF Bijection, Injection, Surjection, IsInjective
<1>3. ExistsBijection(I, Uid(list, I))
  BY <1>2 DEF ExistsBijection
<1>4. QED
  BY <1>1, <1>3, FS_Bijection

LEMMA CountIs ==
  ASSUME PaysSound, NEW list \in Seq(SUserPay), Distinct(list), NEW p
  PROVE  Count(list, p) = BoughtBy(TakenOf(list), Price, p)
<1> DEFINE I == {i \in Taken(list) : pay[list[i].uid].price = p}
<1>1. I \subseteq DOMAIN list
  BY DEF Taken
<1>2. Cardinality(Uid(list, I)) = Cardinality(I)
  BY <1>1, PlacesAreUids
<1>3. \A i \in Taken(list) : Price[list[i].uid] = pay[list[i].uid].price
  BY ListIs, PriceIs
<1>4. Uid(list, I) = {u \in TakenOf(list) : Price[u] = p}
  BY <1>3 DEF TakenOf, Uid
<1>5. QED
  BY <1>2, <1>4 DEF Count, BoughtBy

\* What giving changes.
LEMMA GiveIs ==
  ASSUME NEW coin \in Coin, NEW path \in Paths, NEW n \in Nat
  PROVE  /\ give(coin, path, n) \in Coin
         /\ \A p \in Paths : give(coin, path, n)[p] = IF p = path THEN coin[p] + n ELSE coin[p]
BY DEF give, Coin

LEMMA DataIs ==
  ASSUME NEW d \in Data
  PROVE  /\ d.coin \in Coin /\ d.pay_info \in PayInfo /\ d.var_map \in Var /\ d.pay_list \in Seq(SUserPay)
         /\ d = [coin |-> d.coin, pay_info |-> d.pay_info, var_map |-> d.var_map, pay_list |-> d.pay_list]
BY DEF Data

LEMMA InfoIs ==
  ASSUME NEW info \in PayInfo
  PROVE  /\ info.pay_sum \in Nat /\ info.pay_count \in Nat /\ info.month_time \in Nat /\ info.month_reward \in Nat
BY DEF PayInfo

\* SEventPay and the card.
LEMMA PaidInfo ==
  ASSUME PaysSound, NEW info \in PayInfo, NEW price \in Nat, NEW c \in Nat, CardBy(info.month_time, c, day),
         NEW card, card = (IF price = MonthPrice THEN AddMonthTime(info) ELSE info)
  PROVE  /\ SEventPay(card, price) \in PayInfo
         /\ SEventPay(card, price).pay_count = info.pay_count + 1
         /\ SEventPay(card, price).pay_sum = info.pay_sum + price
         /\ CardBy(SEventPay(card, price).month_time, c + (IF price = MonthPrice THEN 1 ELSE 0), day)
<1> DEFINE end == (IF info.month_time < day THEN day ELSE info.month_time) + MonthDays
<1>1. /\ info.pay_sum \in Nat /\ info.pay_count \in Nat /\ info.month_time \in Nat
      /\ day \in Nat \ {0} /\ MonthDays \in Nat
  BY InfoIs, PayAssumption DEF PaysSound
<1>2. AddMonthTime(info) = [info EXCEPT !.month_time = end]
  BY DEF AddMonthTime
<1>3. end \in Nat
  BY <1>1
<1>4. CardBy(end, c + 1, day)
  BY <1>1, CardMore
<1> HIDE DEF end
<1>5. AddMonthTime(info) \in PayInfo /\ AddMonthTime(info).month_time = end
      /\ AddMonthTime(info).pay_count = info.pay_count /\ AddMonthTime(info).pay_sum = info.pay_sum
  BY <1>2, <1>3 DEF PayInfo
<1>6. card \in PayInfo /\ card.pay_count = info.pay_count /\ card.pay_sum = info.pay_sum
      /\ card.month_time = IF price = MonthPrice THEN end ELSE info.month_time
  BY <1>5
<1>7. SEventPay(card, price) = [card EXCEPT !.pay_count = card.pay_count + 1, !.pay_sum = card.pay_sum + price]
  BY DEF SEventPay
<1>8. card.pay_count + 1 \in Nat /\ card.pay_sum + price \in Nat
  BY <1>1, <1>6
<1>9. SEventPay(card, price) \in PayInfo
  BY <1>6, <1>7, <1>8 DEF PayInfo
<1>10. /\ SEventPay(card, price).pay_count = card.pay_count + 1
       /\ SEventPay(card, price).pay_sum = card.pay_sum + price
       /\ SEventPay(card, price).month_time = card.month_time
  BY <1>6, <1>7, <1>8 DEF PayInfo
<1>11. CardBy(card.month_time, c + (IF price = MonthPrice THEN 1 ELSE 0), day)
  <2>1. CASE price = MonthPrice
    BY <1>4, <1>6, <2>1
  <2>2. CASE price # MonthPrice
    BY <1>6, <2>2
  <2>3. QED
    BY <2>1, <2>2
<1>12. QED
  BY <1>6, <1>9, <1>10, <1>11

\* A payment that is credited is earned.
LEMMA CreditEarns ==
  ASSUME PaysSound, NEW t, t.coin \in Coin, t.pay_info \in PayInfo,
         NEW T \in SUBSET Uids, EarnedBy(t, T, Price, day), NEW u \in Uids \ T,
         NEW price, price = Price[u], NEW k, k = BoughtBy(T, Price, price) + 1,
         NEW t2, t2.var_map = t.var_map,
         t2.coin = give(give(t.coin, "pay", 10 * price), "present", present(price, k)),
         t2.pay_info = SEventPay(IF price = MonthPrice THEN AddMonthTime(t.pay_info) ELSE t.pay_info, price)
  PROVE  EarnedBy(t2, T \cup {u}, Price, day) /\ t2.coin \in Coin /\ t2.pay_info \in PayInfo
<1> DEFINE U == T \cup {u}
<1>1. price \in Nat \ {0}
  BY PriceIs
<1>2. Finite(T, Price) /\ IsFiniteSet(T)
  BY DEF EarnedBy, Finite
<1>3. /\ IsFiniteSet(Counted(PresentsBy(U, Price)))
      /\ Sum(PresentsBy(U, Price)) = Sum(PresentsBy(T, Price)) + present(price, k)
      /\ present(price, k) \in Nat /\ Sum(PresentsBy(T, Price)) \in Nat
  BY <1>2, PresentsMore
<1>4. /\ IsFiniteSet(Counted(WorthBy(U, Price))) /\ Sum(WorthBy(T, Price)) \in Nat
      /\ Sum(WorthBy(U, Price)) = Sum(WorthBy(T, Price)) + price
  <2> DEFINE f == WorthBy(T, Price)
             g == WorthBy(U, Price)
  <2>1. u \notin DOMAIN f /\ DOMAIN g = DOMAIN f \cup {u} /\ (\A y \in DOMAIN f : g[y] = f[y]) /\ g[u] = price
    BY DEF WorthBy
  <2>2. IsFiniteSet(Counted(f)) /\ price \in Nat
    BY <1>1, <1>2 DEF Finite
  <2> HIDE DEF f, g
  <2>3. IsFiniteSet(Counted(g)) /\ Sum(g) = Sum(f) + price /\ Sum(f) \in Nat
    BY <2>1, <2>2, SumAdds
  <2>4. QED
    BY <2>3 DEF f, g
<1>5. IsFiniteSet(U) /\ Cardinality(U) = Cardinality(T) + 1
  BY <1>2, FS_AddElement
<1>6. PICK c : c = BoughtBy(T, Price, MonthPrice)
  OBVIOUS
<1>7. c \in Nat /\ BoughtBy(U, Price, MonthPrice) = c + (IF price = MonthPrice THEN 1 ELSE 0)
  BY <1>2, <1>6, BoughtMore
<1>8. CardBy(t.pay_info.month_time, c, day)
  BY <1>6 DEF EarnedBy
<1>9. /\ t2.pay_info \in PayInfo
      /\ t2.pay_info.pay_count = t.pay_info.pay_count + 1
      /\ t2.pay_info.pay_sum = t.pay_info.pay_sum + price
      /\ CardBy(t2.pay_info.month_time, BoughtBy(U, Price, MonthPrice), day)
  BY <1>1, <1>7, <1>8, PaidInfo
<1>10. PICK n, m : n = 10 * price /\ m = present(price, k)
  OBVIOUS
<1>11. n \in Nat /\ m \in Nat
  BY <1>1, <1>3, <1>10
<1>12. PICK once : once = give(t.coin, "pay", n)
  OBVIOUS
<1>13. t2.coin = give(once, "present", m)
  BY <1>10, <1>12
<1>14. /\ once \in Coin
       /\ once["pay"] = t.coin["pay"] + n /\ once["present"] = t.coin["present"] /\ once["first"] = t.coin["first"]
  BY <1>11, <1>12, GiveIs DEF Paths
<1>15. /\ t2.coin \in Coin
       /\ t2.coin["pay"] = t.coin["pay"] + n /\ t2.coin["present"] = t.coin["present"] + m
       /\ t2.coin["first"] = t.coin["first"]
  <2>1. /\ give(once, "present", m) \in Coin
        /\ give(once, "present", m)["pay"] = once["pay"]
        /\ give(once, "present", m)["present"] = once["present"] + m
        /\ give(once, "present", m)["first"] = once["first"]
    BY <1>11, <1>14, GiveIs DEF Paths
  <2>2. QED
    BY <1>13, <1>14, <2>1
<1>16. CoinsBy(t, T, Price) /\ InfoBy(t, T, Price)
  BY DEF EarnedBy
<1> HIDE DEF U
<1>17. CoinsBy(t2, U, Price)
  <2>1. 10 * Sum(WorthBy(U, Price)) = 10 * Sum(WorthBy(T, Price)) + n
    BY <1>1, <1>4, <1>10
  <2>2. QED
    BY <1>3, <1>10, <1>15, <1>16, <2>1 DEF CoinsBy
<1>18. InfoBy(t2, U, Price)
  BY <1>4, <1>5, <1>9, <1>16 DEF InfoBy
<1>19. QED
  BY <1>3, <1>4, <1>5, <1>9, <1>15, <1>17, <1>18 DEF EarnedBy, Finite, U

-----------------------------------------------------------------------------
(* Crediting what is listed.                                               *)

\* One payment of the list.
LEMMA CreditSound ==
  ASSUME PaysSound, NEW d, Sound(d), NEW i \in DOMAIN d.pay_list, d.pay_list[i].flag # 1,
         NEW c, c = Credit(d, i)
  PROVE  /\ Sound(c) /\ c.var_map = d.var_map /\ Len(c.pay_list) = Len(d.pay_list)
         /\ TakenOf(d.pay_list) \subseteq TakenOf(c.pay_list)
         /\ \A j \in DOMAIN d.pay_list : c.pay_list[j].uid = d.pay_list[j].uid
<1>1. d \in Data /\ Distinct(d.pay_list) /\ EarnedBy(d, TakenOf(d.pay_list), Price, day)
  BY DEF Sound
<1>2. PICK list : list = d.pay_list
  OBVIOUS
<1>3. /\ list \in Seq(SUserPay) /\ d.coin \in Coin /\ d.pay_info \in PayInfo /\ d.var_map \in Var
      /\ Distinct(list) /\ i \in DOMAIN list /\ list[i].flag # 1
  BY <1>1, <1>2, DataIs
<1>4. PICK u, T : u = list[i].uid /\ T = TakenOf(list)
  OBVIOUS
<1>5. /\ Len(list) \in Nat /\ DOMAIN list = 1..Len(list) /\ T \subseteq Uids /\ Taken(list) \subseteq DOMAIN list
      /\ \A j \in DOMAIN list : list[j].uid \in Uids /\ list[j].flag \in {0, 1} /\ list[j] \in SUserPay
  BY <1>3, <1>4, ListIs
<1>6. u \in Uids \ T
  <2>1. ASSUME u \in T PROVE FALSE
    <3>1. PICK j \in Taken(list) : list[j].uid = u
      BY <1>4, <2>1 DEF TakenOf, Uid
    <3>2. j \in DOMAIN list /\ list[j].flag = 1
      BY <3>1 DEF Taken
    <3>3. j = i
      BY <1>3, <1>4, <3>1, <3>2 DEF Distinct
    <3>4. QED
      BY <1>3, <3>2, <3>3
  <2>2. QED
    BY <1>3, <1>4, <1>5, <2>1
<1>7. PICK price, k : price = Price[u] /\ k = BoughtBy(T, Price, price) + 1
  OBVIOUS
<1>8. price = pay[u].price
  BY <1>6, <1>7, PriceIs
<1>9. k = Count(list, price) + 1
  BY <1>3, <1>4, <1>7, CountIs
<1>10. PICK new : new = [list EXCEPT ![i] = [uid |-> u, flag |-> 1]]
  OBVIOUS
<1>11. PICK coin, info :
         /\ coin = give(give(d.coin, "pay", 10 * price), "present", present(price, k))
         /\ info = SEventPay(IF price = MonthPrice THEN AddMonthTime(d.pay_info) ELSE d.pay_info, price)
  OBVIOUS
<1>12. c = [coin |-> coin, pay_info |-> info, var_map |-> d.var_map, pay_list |-> new]
  <2>1. c = [d EXCEPT !.pay_list = new, !.coin = coin, !.pay_info = info]
    BY <1>2, <1>4, <1>8, <1>9, <1>10, <1>11 DEF Credit
  <2>2. d = [coin |-> d.coin, pay_info |-> d.pay_info, var_map |-> d.var_map, pay_list |-> d.pay_list]
    BY <1>1, DataIs
  <2>3. QED
    BY <2>1, <2>2
<1>13. c.coin = coin /\ c.pay_info = info /\ c.var_map = d.var_map /\ c.pay_list = new
  BY <1>12
<1>14. EarnedBy(d, T, Price, day)
  BY <1>1, <1>2, <1>4
<1>15. EarnedBy(c, T \cup {u}, Price, day) /\ c.coin \in Coin /\ c.pay_info \in PayInfo
  <2>1. T \in SUBSET Uids
    BY <1>5
  <2>2. QED
    BY <1>3, <1>6, <1>7, <1>11, <1>13, <1>14, <2>1, CreditEarns
<1>16. /\ DOMAIN new = DOMAIN list /\ Len(new) = Len(list)
       /\ \A j \in DOMAIN list : new[j].uid = list[j].uid /\ new[j].flag = (IF j = i THEN 1 ELSE list[j].flag)
  BY <1>3, <1>4, <1>5, <1>10
<1>17. new \in Seq(SUserPay)
  <2>1. [uid |-> u, flag |-> 1] \in SUserPay
    BY <1>6 DEF SUserPay
  <2>2. QED
    BY <1>3, <1>10, <2>1
<1>18. Distinct(new)
  BY <1>3, <1>16 DEF Distinct
<1>19. TakenOf(new) = T \cup {u}
  <2>1. Taken(new) = Taken(list) \cup {i}
    BY <1>3, <1>16 DEF Taken
  <2>2. \A j \in Taken(new) : new[j].uid = list[j].uid
    BY <1>3, <1>5, <1>16, <2>1
  <2>3. QED
    BY <1>4, <2>1, <2>2 DEF TakenOf, Uid
<1>20. c \in Data
  BY <1>3, <1>12, <1>13, <1>15, <1>17 DEF Data
<1>21. Sound(c)
  BY <1>13, <1>15, <1>18, <1>19, <1>20 DEF Sound
<1>22. QED
  BY <1>2, <1>4, <1>13, <1>16, <1>19, <1>21

\* All that is listed is credited once: what a role has stays sound.
LEMMA ProcessSound ==
  ASSUME PaysSound, NEW data, Sound(data)
  PROVE  /\ Sound(Process(data)) /\ Process(data).var_map = data.var_map
         /\ TakenOf(data.pay_list) \subseteq TakenOf(Process(data).pay_list)
<1> DEFINE n == Len(data.pay_list)
           D == {d \in Data : /\ Sound(d) /\ d.var_map = data.var_map /\ Len(d.pay_list) = n
                              /\ TakenOf(data.pay_list) \subseteq TakenOf(d.pay_list)}
           next(d, i) == IF d.pay_list[i].flag = 1 THEN d ELSE Credit(d, i)
           step == [x \in (1..n) \X D |-> next(x[2], x[1])]
           IsDone(f) == f = [i \in 0..n |-> IF i = 0 THEN data ELSE next(f[i - 1], i)]
           done == CHOOSE f : IsDone(f)
<1>1. n \in Nat
  BY DataIs DEF Sound
<1>2. data \in D
  BY DEF Sound
<1>3. ASSUME NEW i \in 1..n, NEW d \in D
      PROVE  next(d, i) \in D
  <2>1. Sound(d) /\ d \in Data /\ d.var_map = data.var_map /\ Len(d.pay_list) = n
        /\ TakenOf(data.pay_list) \subseteq TakenOf(d.pay_list)
    OBVIOUS
  <2>2. CASE d.pay_list[i].flag = 1
    BY <2>2
  <2>3. CASE d.pay_list[i].flag # 1
    <3>1. i \in DOMAIN d.pay_list
      BY <2>1, DataIs
    <3>2. PICK c : c = Credit(d, i)
      OBVIOUS
    <3>3. /\ Sound(c) /\ c.var_map = d.var_map /\ Len(c.pay_list) = Len(d.pay_list)
          /\ TakenOf(d.pay_list) \subseteq TakenOf(c.pay_list)
      BY <2>1, <2>3, <3>1, <3>2, CreditSound
    <3>4. c \in Data
      BY <3>3 DEF Sound
    <3>5. c \in D
      BY <2>1, <3>3, <3>4
    <3>6. next(d, i) = c
      BY <2>3, <3>2
    <3> HIDE DEF next, D
    <3>7. QED
      BY <3>5, <3>6
  <2>4. QED
    BY <2>2, <2>3
<1> HIDE DEF D, next
<1>4. \A i \in 1..n : \A d \in D : step[<<i, d>>] = next(d, i)
  <2>1. ASSUME NEW i \in 1..n, NEW d \in D
        PROVE  step[<<i, d>>] = next(d, i)
    <3>1. PICK x : x = <<i, d>>
      OBVIOUS
    <3>2. x \in (1..n) \X D /\ x[1] = i /\ x[2] = d
      BY <3>1
    <3>3. step[x] = next(x[2], x[1])
      BY <3>2
    <3> HIDE DEF step
    <3>4. QED
      BY <3>1, <3>2, <3>3
  <2>2. QED
    BY <2>1
<1> HIDE DEF step
<1>5. \E f : IsDone(f)
  <2>1. PICK f : IsLoopIn(f, data, step, n, D)
    <3>1. \A i \in 1..n : \A d \in D : step[<<i, d>>] \in D
      BY <1>3, <1>4
    <3>2. QED
      BY <1>1, <1>2, <3>1, LoopIn
  <2>2. \A i \in 0..n : f[i] = IF i = 0 THEN data ELSE next(f[i - 1], i)
    <3>1. \A i \in 0..n : i # 0 => i \in 1..n
      BY <1>1
    <3>2. f[0] = data /\ \A i \in 1..n : f[i - 1] \in D /\ f[i] = step[<<i, f[i - 1]>>]
      BY <2>1, Zenon DEF IsLoopIn
    <3>3. QED
      BY <1>4, <3>1, <3>2
  <2>3. [i \in 0..n |-> f[i]] = [i \in 0..n |-> IF i = 0 THEN data ELSE next(f[i - 1], i)]
    BY <2>2
  <2>4. f = [i \in 0..n |-> f[i]]
    BY <2>1, Zenon DEF IsLoopIn
  <2>5. IsDone(f)
    BY <2>3, <2>4
  <2>6. QED
    BY <2>5
<1>6. IsDone(done)
  BY <1>5
<1>7. Process(data) = done[n]
  BY Zenon DEF Process, next
<1>8. \A i \in 0..n : done[i] = IF i = 0 THEN data ELSE next(done[i - 1], i)
  BY <1>6, Zenon
<1> HIDE DEF done, n
<1>9. \A m \in 0..n : done[m] \in D
  <2>1. done[0] \in D
    BY <1>1, <1>2, <1>8
  <2>2. ASSUME NEW i \in 1..n, done[i - 1] \in D
        PROVE  done[i] \in D
    <3>1. done[i] = next(done[i - 1], i)
      BY <1>1, <1>8
    <3>2. QED
      BY <1>3, <2>2, <3>1
  <2>3. QED
    BY <1>1, <2>1, <2>2, LoopKeeps
<1>10. Process(data) \in D
  BY <1>1, <1>7, <1>9
<1>11. QED
  BY <1>10 DEF D

\* Rows that are new are put behind the list, and not taken.
LEMMA JoinedIs ==
  ASSUME NEW list \in Seq(SUserPay), Distinct(list), NEW uids \in Seq(Uids)
  PROVE  /\ Joined(list, uids) \in Seq(SUserPay) /\ Distinct(Joined(list, uids))
         /\ TakenOf(Joined(list, uids)) = TakenOf(list)
<1> DEFINE n == Len(uids)
           D == {l \in Seq(SUserPay) : Distinct(l) /\ TakenOf(l) = TakenOf(list)}
           next(l, i) == IF Known(l, uids[i]) THEN l ELSE Append(l, [uid |-> uids[i], flag |-> 0])
           step == [x \in (1..n) \X D |-> next(x[2], x[1])]
           IsDone(f) == f = [i \in 0..n |-> IF i = 0 THEN list ELSE next(f[i - 1], i)]
           done == CHOOSE f : IsDone(f)
<1>1. n \in Nat
  OBVIOUS
<1>2. list \in D
  OBVIOUS
<1>3. ASSUME NEW i \in 1..n, NEW l \in D
      PROVE  next(l, i) \in D
  <2>1. l \in Seq(SUserPay) /\ Distinct(l) /\ TakenOf(l) = TakenOf(list)
    OBVIOUS
  <2>2. CASE Known(l, uids[i])
    BY <2>2
  <2>3. CASE ~Known(l, uids[i])
    <3>1. PICK u, r : u = uids[i] /\ r = [uid |-> u, flag |-> 0]
      OBVIOUS
    <3>2. u \in Uids /\ r \in SUserPay /\ r.uid = u /\ r.flag # 1
      BY <3>1 DEF SUserPay
    <3>3. PICK z : z = Append(l, r)
      OBVIOUS
    <3>4. /\ z \in Seq(SUserPay) /\ DOMAIN z = 1..(Len(l) + 1) /\ DOMAIN l = 1..Len(l) /\ Len(l) \in Nat
          /\ (\A j \in 1..Len(l) : z[j] = l[j]) /\ z[Len(l) + 1] = r
      BY <2>1, <3>2, <3>3
    <3>5. \A j \in DOMAIN z : j \in DOMAIN l \/ j = Len(l) + 1
      BY <3>4
    <3>6. \A j \in DOMAIN l : l[j].uid # u
      BY <2>3, <3>1 DEF Known
    <3>7. Distinct(z)
      BY <2>1, <3>2, <3>4, <3>5, <3>6 DEF Distinct
    <3>8. Taken(z) = Taken(l)
      BY <3>2, <3>4, <3>5 DEF Taken
    <3>9. TakenOf(z) = TakenOf(l)
      <4>1. \A j \in Taken(l) : z[j].uid = l[j].uid
        BY <3>4 DEF Taken
      <4>2. QED
        BY <3>8, <4>1 DEF TakenOf, Uid
    <3>10. next(l, i) = z
      BY <2>3, <3>1, <3>3
    <3>11. z \in D
      BY <2>1, <3>4, <3>7, <3>9
    <3> HIDE DEF next, D
    <3>12. QED
      BY <3>10, <3>11
  <2>4. QED
    BY <2>2, <2>3
<1> HIDE DEF D, next
<1>4. \A i \in 1..n : \A d \in D : step[<<i, d>>] = next(d, i)
  <2>1. ASSUME NEW i \in 1..n, NEW d \in D
        PROVE  step[<<i, d>>] = next(d, i)
    <3>1. PICK x : x = <<i, d>>
      OBVIOUS
    <3>2. x \in (1..n) \X D /\ x[1] = i /\ x[2] = d
      BY <3>1
    <3>3. step[x] = next(x[2], x[1])
      BY <3>2
    <3> HIDE DEF step
    <3>4. QED
      BY <3>1, <3>2, <3>3
  <2>2. QED
    BY <2>1
<1> HIDE DEF step
<1>5. \E f : IsDone(f)
  <2>1. PICK f : IsLoopIn(f, list, step, n, D)
    <3>1. \A i \in 1..n : \A d \in D : step[<<i, d>>] \in D
      BY <1>3, <1>4
    <3>2. QED
      BY <1>1, <1>2, <3>1, LoopIn
  <2>2. \A i \in 0..n : f[i] = IF i = 0 THEN list ELSE next(f[i - 1], i)
    <3>1. \A i \in 0..n : i # 0 => i \in 1..n
      BY <1>1
    <3>2. f[0] = list /\ \A i \in 1..n : f[i - 1] \in D /\ f[i] = step[<<i, f[i - 1]>>]
      BY <2>1, Zenon DEF IsLoopIn
    <3>3. QED
      BY <1>4, <3>1, <3>2
  <2>3. [i \in 0..n |-> f[i]] = [i \in 0..n |-> IF i = 0 THEN list ELSE next(f[i - 1], i)]
    BY <2>2
  <2>4. f = [i \in 0..n |-> f[i]]
    BY <2>1, Zenon DEF IsLoopIn
  <2>5. IsDone(f)
    BY <2>3, <2>4
  <2>6. QED
    BY <2>5
<1>6. IsDone(done)
  BY <1>5
<1>7. Joined(list, uids) = done[n]
  BY Zenon DEF Joined, next
<1>8. \A i \in 0..n : done[i] = IF i = 0 THEN list ELSE next(done[i - 1], i)
  BY <1>6, Zenon
<1> HIDE DEF done, n
<1>9. \A m \in 0..n : done[m] \in D
  <2>1. done[0] \in D
    BY <1>1, <1>2, <1>8
  <2>2. ASSUME NEW i \in 1..n, done[i - 1] \in D
        PROVE  done[i] \in D
    <3>1. done[i] = next(done[i - 1], i)
      BY <1>1, <1>8
    <3>2. QED
      BY <1>3, <2>2, <3>1
  <2>3. QED
    BY <1>1, <2>1, <2>2, LoopKeeps
<1>10. Joined(list, uids) \in D
  BY <1>1, <1>7, <1>9
<1>11. QED
  BY <1>10 DEF D

\* A list of realdb names rows.
LEMMA UntakenIs ==
  ASSUME PaysSound
  PROVE  Untaken(pay) \in Seq(Uids)
<1> DEFINE n == Len(pay)
           D == Seq(Uids)
           next(l, i) == IF pay[i].flag = 0 THEN Append(l, i) ELSE l
           step == [x \in (1..n) \X D |-> next(x[2], x[1])]
           IsDone(f) == f = [i \in 0..n |-> IF i = 0 THEN << >> ELSE next(f[i - 1], i)]
           done == CHOOSE f : IsDone(f)
<1>1. n \in Nat
  BY DEF PaysSound
<1>2. << >> \in D
  OBVIOUS
<1>3. ASSUME NEW i \in 1..n, NEW l \in D
      PROVE  next(l, i) \in D
  <2>1. i \in Uids
    BY DEF PaysSound, Uids
  <2>2. QED
    BY <2>1
<1> HIDE DEF D, next
<1>4. \A i \in 1..n : \A d \in D : step[<<i, d>>] = next(d, i)
  <2>1. ASSUME NEW i \in 1..n, NEW d \in D
        PROVE  step[<<i, d>>] = next(d, i)
    <3>1. PICK x : x = <<i, d>>
      OBVIOUS
    <3>2. x \in (1..n) \X D /\ x[1] = i /\ x[2] = d
      BY <3>1
    <3>3. step[x] = next(x[2], x[1])
      BY <3>2
    <3> HIDE DEF step
    <3>4. QED
      BY <3>1, <3>2, <3>3
  <2>2. QED
    BY <2>1
<1> HIDE DEF step
<1>5. \E f : IsDone(f)
  <2>1. PICK f : IsLoopIn(f, << >>, step, n, D)
    <3>1. \A i \in 1..n : \A d \in D : step[<<i, d>>] \in D
      BY <1>3, <1>4
    <3>2. QED
      BY <1>1, <1>2, <3>1, LoopIn
  <2>2. \A i \in 0..n : f[i] = IF i = 0 THEN << >> ELSE next(f[i - 1], i)
    <3>1. \A i \in 0..n : i # 0 => i \in 1..n
      BY <1>1
    <3>2. f[0] = << >> /\ \A i \in 1..n : f[i - 1] \in D /\ f[i] = step[<<i, f[i - 1]>>]
      BY <2>1, Zenon DEF IsLoopIn
    <3>3. QED
      BY <1>4, <3>1, <3>2
  <2>3. [i \in 0..n |-> f[i]] = [i \in 0..n |-> IF i = 0 THEN << >> ELSE next(f[i - 1], i)]
    BY <2>2
  <2>4. f = [i \in 0..n |-> f[i]]
    BY <2>1, Zenon DEF IsLoopIn
  <2>5. IsDone(f)
    BY <2>3, <2>4
  <2>6. QED
    BY <2>5
<1>6. IsDone(done)
  BY <1>5
<1>7. Untaken(pay) = done[n]
  BY Zenon DEF Untaken, next
<1>8. \A i \in 0..n : done[i] = IF i = 0 THEN << >> ELSE next(done[i - 1], i)
  BY <1>6, Zenon
<1> HIDE DEF done, n
<1>9. \A m \in 0..n : done[m] \in D
  <2>1. done[0] \in D
    BY <1>1, <1>2, <1>8
  <2>2. ASSUME NEW i \in 1..n, done[i - 1] \in D
        PROVE  done[i] \in D
    <3>1. done[i] = next(done[i - 1], i)
      BY <1>1, <1>8
    <3>2. QED
      BY <1>3, <2>2, <3>1
  <2>3. QED
    BY <1>1, <2>1, <2>2, LoopKeeps
<1>10. Untaken(pay) \in D
  BY <1>1, <1>7, <1>9
<1>11. QED
  BY <1>10 DEF D

\* The rows of a list, credited.
LEMMA AddPaySound ==
  ASSUME PaysSound, NEW data, Sound(data), NEW uids \in Seq(Uids)
  PROVE  /\ Sound(AddPay(data, uids)) /\ AddPay(data, uids).var_map = data.var_map
         /\ TakenOf(data.pay_list) \subseteq TakenOf(AddPay(data, uids).pay_list)
<1>1. data \in Data /\ Distinct(data.pay_list) /\ EarnedBy(data, TakenOf(data.pay_list), Price, day)
  BY DEF Sound
<1>2. PICK list : list = Joined(data.pay_list, uids)
  OBVIOUS
<1>3. list \in Seq(SUserPay) /\ Distinct(list) /\ TakenOf(list) = TakenOf(data.pay_list)
  BY <1>1, <1>2, DataIs, JoinedIs
<1>4. PICK d : d = [data EXCEPT !.pay_list = list]
  OBVIOUS
<1>5. d = [coin |-> data.coin, pay_info |-> data.pay_info, var_map |-> data.var_map, pay_list |-> list]
  <2>1. data = [coin |-> data.coin, pay_info |-> data.pay_info, var_map |-> data.var_map, pay_list |-> data.pay_list]
    BY <1>1, DataIs
  <2>2. QED
    BY <1>4, <2>1
<1>6. d.coin = data.coin /\ d.pay_info = data.pay_info /\ d.var_map = data.var_map /\ d.pay_list = list
  BY <1>5
<1>7. d \in Data
  BY <1>1, <1>3, <1>5, DataIs DEF Data
<1>8. EarnedBy(d, TakenOf(list), Price, day)
  BY <1>1, <1>3, <1>6 DEF EarnedBy, CoinsBy, InfoBy
<1>9. Sound(d)
  BY <1>3, <1>6, <1>7, <1>8 DEF Sound
<1>10. AddPay(data, uids) = Process(d)
  BY <1>2, <1>4 DEF AddPay
<1>11. QED
  BY <1>3, <1>6, <1>9, <1>10, ProcessSound

-----------------------------------------------------------------------------
(* The inductive invariant.                                                *)

\* What a role or the tables have: the parts, and the payments taken.
Account(d) == [coin |-> d.coin, pay_info |-> d.pay_info, var_map |-> d.var_map, taken |-> TakenOf(d.pay_list)]
TakenRows  == {u \in Uids : pay[u].flag = 1}
InTables   == [coin |-> role.coin, pay_info |-> role.pay_info, var_map |-> role.var_map, taken |-> TakenRows]

Fair(a, U, price, today) ==
  /\ a.coin \in Coin /\ a.pay_info \in PayInfo /\ a.var_map \in Var /\ a.taken \subseteq U
  /\ EarnedBy(a, a.taken, price, today)

\* What a save makes of it.
Saved(s, part, before) == IF part \in DOMAIN s THEN s[part] ELSE before
After(a, s) ==
  [coin |-> Saved(s, "coin", a.coin), pay_info |-> Saved(s, "pay_info", a.pay_info),
   var_map |-> Saved(s, "var_map", a.var_map),
   taken |-> a.taken \cup IF "pay_list" \in DOMAIN s THEN TakenOf(s["pay_list"]) ELSE {}]

\* The tables, now and after each save on its way, have what they should.
Chain(h, q, a, U, price, today) ==
  /\ h[1] = a
  /\ \A k \in 1..Len(q) : h[k + 1] = After(h[k], q[k])
  /\ \A k \in 1..(Len(q) + 1) : Fair(h[k], U, price, today)

IsSeq(q) == q \in Seq({q[i] : i \in DOMAIN q})

\* In the end they have what is in check.
Books ==
  /\ IsSeq(save_list)
  /\ \E h : /\ Chain(h, save_list, InTables, Uids, Price, day)
            /\ Online => h[Len(save_list) + 1] = Account(user.check)

\* A role in memory has what it should, and at least what is in check.
InMemory ==
  Online => /\ Sound(user.data) /\ user.check \in Data
            /\ user = [data |-> user.data, check |-> user.check]
            /\ TakenOf(user.check.pay_list) \subseteq TakenOf(user.data.pay_list)

\* A role on its way to memory has what the tables have.
Coming ==
  /\ IsSeq(loaded)
  /\ ~Online => /\ loaded # << >> => save_list = << >>
                /\ \A i \in DOMAIN loaded :
                     loaded[i] \in Data /\ Distinct(loaded[i].pay_list) /\ Account(loaded[i]) = InTables

Counters ==
  /\ notices \in Nat /\ deferred \in Nat /\ queries \in Nat
  /\ notices + deferred + queries + Len(answers) <= MaxNotices
  /\ answers \in Seq(Seq(Uids))
  /\ load_list \subseteq {"login", "off"} /\ promised \subseteq Uids

World == day \in 1..MaxDay /\ pay \in Seq([price : Prices, flag : {0, 1}]) /\ role \in Tables

PInv == World /\ Counters /\ Books /\ InMemory /\ Coming

-----------------------------------------------------------------------------
(* Sequences.                                                              *)

LEMMA EmptyIsSeq == IsSeq(<< >>)
BY DEF IsSeq

LEMMA AppendIsSeq ==
  ASSUME NEW q, IsSeq(q), NEW x
  PROVE  /\ IsSeq(Append(q, x)) /\ Len(Append(q, x)) = Len(q) + 1 /\ Append(q, x) # << >>
         /\ Len(q) \in Nat /\ DOMAIN q = 1..Len(q)
         /\ \A i \in 1..Len(q) : Append(q, x)[i] = q[i]
         /\ Append(q, x)[Len(q) + 1] = x
<1> DEFINE S == {q[i] : i \in DOMAIN q} \cup {x}
           z == Append(q, x)
<1>1. q \in Seq(S)
  <2>1. PICK T : T = {q[i] : i \in DOMAIN q}
    OBVIOUS
  <2>2. q \in Seq(T) /\ T \subseteq S
    BY <2>1 DEF IsSeq
  <2> HIDE DEF S
  <2>3. QED
    BY <2>2
<1>2. x \in S
  OBVIOUS
<1> HIDE DEF S
<1>3. /\ z \in Seq(S) /\ Len(z) = Len(q) + 1 /\ Len(q) \in Nat /\ DOMAIN q = 1..Len(q)
      /\ (\A i \in 1..Len(q) : z[i] = q[i]) /\ z[Len(q) + 1] = x
  BY <1>1, <1>2
<1> HIDE DEF z
<1>4. z # << >>
  BY <1>3
<1>5. IsSeq(z)
  <2>1. \A i \in 1..Len(z) : z[i] \in {z[j] : j \in DOMAIN z}
    BY <1>3
  <2>2. QED
    BY <1>3, <2>1 DEF IsSeq
<1>6. QED
  BY <1>3, <1>4, <1>5 DEF z

LEMMA TailIsSeq ==
  ASSUME NEW q, IsSeq(q), q # << >>
  PROVE  /\ IsSeq(Tail(q)) /\ Len(Tail(q)) = Len(q) - 1 /\ Len(q) \in Nat \ {0}
         /\ Head(q) = q[1] /\ 1 \in DOMAIN q /\ DOMAIN q = 1..Len(q) /\ DOMAIN Tail(q) = 1..(Len(q) - 1)
         /\ \A i \in 1..(Len(q) - 1) : Tail(q)[i] = q[i + 1] /\ i + 1 \in DOMAIN q
<1> DEFINE S == {q[i] : i \in DOMAIN q}
           z == Tail(q)
<1>1. q \in Seq(S)
  BY DEF IsSeq
<1> HIDE DEF S
<1>2. /\ z \in Seq(S) /\ Len(z) = Len(q) - 1 /\ Len(q) \in Nat \ {0} /\ DOMAIN q = 1..Len(q)
      /\ Head(q) = q[1] /\ \A i \in 1..(Len(q) - 1) : z[i] = q[i + 1]
  BY <1>1
<1> HIDE DEF z
<1>3. DOMAIN z = 1..(Len(q) - 1)
  BY <1>2
<1>4. IsSeq(z)
  <2>1. \A i \in 1..Len(z) : z[i] \in {z[j] : j \in DOMAIN z}
    BY <1>2
  <2>2. QED
    BY <1>2, <2>1 DEF IsSeq
<1>5. QED
  BY <1>2, <1>3, <1>4 DEF z

-----------------------------------------------------------------------------
(* Chains.                                                                 *)

LEMMA FairStays ==
  ASSUME NEW a, NEW U, NEW price, NEW today \in Nat, Fair(a, U, price, today),
         NEW V, U \subseteq V, NEW price2, NEW today2 \in Nat, today <= today2,
         \A u \in U : price2[u] = price[u]
  PROVE  Fair(a, V, price2, today2)
<1>1. a.pay_info.month_time \in Nat
  BY InfoIs DEF Fair
<1>2. EarnedBy(a, a.taken, price, today) /\ \A u \in a.taken : price2[u] = price[u]
  BY DEF Fair
<1>3. EarnedBy(a, a.taken, price2, today2)
  BY <1>1, <1>2, EarnedStays
<1>4. QED
  BY <1>3 DEF Fair

LEMMA ChainStays ==
  ASSUME NEW h, NEW q, NEW a, NEW U, NEW price, NEW today \in Nat, Chain(h, q, a, U, price, today),
         NEW V, U \subseteq V, NEW price2, NEW today2 \in Nat, today <= today2,
         \A u \in U : price2[u] = price[u]
  PROVE  Chain(h, q, a, V, price2, today2)
<1>1. \A k \in 1..(Len(q) + 1) : Fair(h[k], V, price2, today2)
  BY FairStays DEF Chain
<1>2. QED
  BY <1>1 DEF Chain

\* One more save.
LEMMA ChainGrows ==
  ASSUME NEW h, NEW q, IsSeq(q), NEW a, NEW U, NEW price, NEW today, Chain(h, q, a, U, price, today),
         NEW s, NEW b, b = After(h[Len(q) + 1], s), Fair(b, U, price, today)
  PROVE  \E g : Chain(g, Append(q, s), a, U, price, today) /\ g[Len(Append(q, s)) + 1] = b
<1> DEFINE n == Len(q)
           z == Append(q, s)
           g == [k \in 1..(n + 2) |-> IF k = n + 2 THEN b ELSE h[k]]
<1>1. n \in Nat /\ Len(z) = n + 1 /\ (\A i \in 1..n : z[i] = q[i]) /\ z[n + 1] = s
  BY AppendIsSeq
<1> HIDE DEF z, n
<1>2. h[1] = a /\ (\A k \in 1..n : h[k + 1] = After(h[k], q[k])) /\ \A k \in 1..(n + 1) : Fair(h[k], U, price, today)
  BY DEF Chain, n
<1>3. b = After(h[n + 1], s)
  BY DEF n
<1>4. g[n + 2] = b /\ \A k \in 1..(n + 1) : g[k] = h[k]
  BY <1>1
<1> HIDE DEF g
<1>5. 1 \in 1..(n + 1) /\ n + 1 \in 1..(n + 1) /\ n + 2 = (n + 1) + 1
  BY <1>1
<1>6. g[1] = a
  BY <1>2, <1>4, <1>5
<1>7. ASSUME NEW k \in 1..(n + 1)
      PROVE  g[k + 1] = After(g[k], z[k])
  <2>1. CASE k = n + 1
    BY <1>1, <1>3, <1>4, <1>5, <2>1
  <2>2. CASE k # n + 1
    <3>1. k \in 1..n /\ k + 1 \in 1..(n + 1)
      BY <1>1, <2>2
    <3>2. QED
      BY <1>1, <1>2, <1>4, <3>1
  <2>3. QED
    BY <2>1, <2>2
<1>8. ASSUME NEW k \in 1..(n + 2)
      PROVE  Fair(g[k], U, price, today)
  <2>1. CASE k = n + 2
    BY <1>4, <2>1
  <2>2. CASE k # n + 2
    <3>1. k \in 1..(n + 1)
      BY <1>1, <2>2
    <3>2. QED
      BY <1>2, <1>4, <3>1
  <2>3. QED
    BY <2>1, <2>2
<1>9. Len(z) + 1 = n + 2 /\ 1..Len(z) = 1..(n + 1)
  BY <1>1
<1>10. Chain(g, z, a, U, price, today)
  BY <1>6, <1>7, <1>8, <1>9 DEF Chain
<1>11. QED
  BY <1>4, <1>9, <1>10 DEF z

\* One save less.
LEMMA ChainShrinks ==
  ASSUME NEW h, NEW q, IsSeq(q), q # << >>, NEW a, NEW U, NEW price, NEW today, Chain(h, q, a, U, price, today)
  PROVE  \E g : /\ Chain(g, Tail(q), After(a, Head(q)), U, price, today)
                /\ g[Len(Tail(q)) + 1] = h[Len(q) + 1]
<1> DEFINE n == Len(q)
           z == Tail(q)
           g == [k \in 1..n |-> h[k + 1]]
<1>1. n \in Nat \ {0} /\ Len(z) = n - 1 /\ Head(q) = q[1] /\ \A i \in 1..(n - 1) : z[i] = q[i + 1]
  BY TailIsSeq
<1> HIDE DEF z, n
<1>2. h[1] = a /\ (\A k \in 1..n : h[k + 1] = After(h[k], q[k])) /\ \A k \in 1..(n + 1) : Fair(h[k], U, price, today)
  BY DEF Chain, n
<1>3. \A k \in 1..n : g[k] = h[k + 1] /\ k + 1 \in 1..(n + 1)
  BY <1>1
<1> HIDE DEF g
<1>4. 1 \in 1..n /\ n \in 1..n
  BY <1>1
<1>5. h[1 + 1] = After(h[1], q[1])
  BY <1>2, <1>4
<1>6. g[1] = After(a, Head(q))
  BY <1>1, <1>2, <1>3, <1>4, <1>5
<1>7. ASSUME NEW k \in 1..(n - 1)
      PROVE  g[k + 1] = After(g[k], z[k])
  <2>1. k \in 1..n /\ k + 1 \in 1..n
    BY <1>1
  <2>2. h[(k + 1) + 1] = After(h[k + 1], q[k + 1])
    BY <1>2, <2>1
  <2>3. g[k + 1] = h[(k + 1) + 1] /\ g[k] = h[k + 1] /\ z[k] = q[k + 1]
    BY <1>1, <1>3, <2>1
  <2>4. QED
    BY <2>2, <2>3
<1>8. \A k \in 1..n : Fair(g[k], U, price, today)
  BY <1>2, <1>3
<1>9. Len(z) + 1 = n /\ 1..Len(z) = 1..(n - 1)
  BY <1>1
<1>10. Chain(g, z, After(a, Head(q)), U, price, today)
  BY <1>6, <1>7, <1>8, <1>9 DEF Chain
<1>11. g[n] = h[n + 1]
  BY <1>3, <1>4
<1>12. QED
  BY <1>9, <1>10, <1>11 DEF z, n

-----------------------------------------------------------------------------
(* What no step undoes: rows keep their uid and price, and days pass.      *)

Pays  == Seq([price : Prices, flag : {0, 1}])
Grows == /\ Uids \subseteq Uids' /\ (\A u \in Uids : Price'[u] = Price[u])
         /\ day \in Nat /\ day' \in Nat /\ day <= day' /\ day' \in 1..MaxDay /\ pay' \in Pays

LEMMA SameGrows ==
  ASSUME World, pay' = pay, day' \in 1..MaxDay, day <= day'
  PROVE  Grows /\ TakenRows' = TakenRows
<1>1. Uids' = Uids /\ Price' = Price /\ TakenRows' = TakenRows
  BY DEF Uids, Price, TakenRows
<1>2. day \in Nat /\ day' \in Nat
  BY PayAssumption DEF World
<1>3. QED
  BY <1>1, <1>2 DEF Grows, World, Pays

\* A row that is new.
LEMMA PaysGrows ==
  ASSUME World, NEW price \in Prices, BackEndPays(price)
  PROVE  Grows /\ TakenRows' = TakenRows
<1>1. PICK r : r = [price |-> price, flag |-> 0]
  OBVIOUS
<1>2. r \in [price : Prices, flag : {0, 1}] /\ r.flag # 1
  BY <1>1
<1>3. pay' = Append(pay, r) /\ day' = day
  BY <1>1 DEF BackEndPays
<1>4. pay \in Pays
  BY DEF World, Pays
<1>5. /\ pay' \in Pays /\ DOMAIN pay' = 1..(Len(pay) + 1) /\ DOMAIN pay = 1..Len(pay) /\ Len(pay) \in Nat
      /\ (\A u \in 1..Len(pay) : pay'[u] = pay[u]) /\ pay'[Len(pay) + 1] = r
  BY <1>2, <1>3, <1>4 DEF Pays
<1>6. \A u \in DOMAIN pay' : u \in DOMAIN pay \/ u = Len(pay) + 1
  BY <1>5
<1>7. Uids \subseteq Uids'
  BY <1>5 DEF Uids
<1>8. \A u \in Uids : Price'[u] = Price[u]
  <2>1. \A u \in Uids : pay'[u] = pay[u]
    BY <1>5 DEF Uids
  <2>2. \A u \in Uids' : Price'[u] = pay'[u].price
    BY DEF Price
  <2>3. \A u \in Uids : Price[u] = pay[u].price
    BY DEF Price
  <2>4. QED
    BY <1>7, <2>1, <2>2, <2>3
<1>9. TakenRows' = TakenRows
  <2>1. TakenRows' = {u \in DOMAIN pay' : pay'[u].flag = 1}
    BY DEF TakenRows, Uids
  <2>2. TakenRows = {u \in DOMAIN pay : pay[u].flag = 1}
    BY DEF TakenRows, Uids
  <2>3. QED
    BY <1>2, <1>5, <1>6, <2>1, <2>2
<1>10. day \in Nat /\ day' \in Nat /\ day <= day' /\ day' \in 1..MaxDay
  BY <1>3, PayAssumption DEF World
<1>11. QED
  BY <1>5, <1>7, <1>8, <1>9, <1>10 DEF Grows

\* Rows that are taken.
LEMMA FlaggedGrows ==
  ASSUME World, day' = day, NEW list, TakenOf(list) \subseteq Uids, pay' = Flagged(pay, list)
  PROVE  Grows /\ TakenRows' = TakenRows \cup TakenOf(list)
<1>1. PICK T : T = TakenOf(list)
  OBVIOUS
<1>2. T \subseteq DOMAIN pay
  BY <1>1 DEF Uids
<1>3. pay' = [u \in DOMAIN pay |-> IF u \in T THEN [pay[u] EXCEPT !.flag = 1] ELSE pay[u]]
  BY <1>1 DEF Flagged, TakenOf
<1>4. pay \in Pays /\ DOMAIN pay = 1..Len(pay) /\ Len(pay) \in Nat
  BY DEF World, Pays
<1>5. \A u \in DOMAIN pay : pay[u] \in [price : Prices, flag : {0, 1}]
  BY <1>4, Zenon, ElementOf DEF Pays
<1>6. DOMAIN pay' = DOMAIN pay
  BY <1>3
<1>7. ASSUME NEW u \in DOMAIN pay
      PROVE  /\ pay'[u] \in [price : Prices, flag : {0, 1}] /\ pay'[u].price = pay[u].price
             /\ (pay'[u].flag = 1 <=> u \in T \/ pay[u].flag = 1)
  <2>1. PICK r : r = pay[u]
    OBVIOUS
  <2>2. r \in [price : Prices, flag : {0, 1}]
    BY <1>5, <2>1
  <2>3. pay'[u] = IF u \in T THEN [r EXCEPT !.flag = 1] ELSE r
    BY <1>3, <2>1
  <2>4. QED
    BY <2>1, <2>2, <2>3
<1>8. pay' \in Pays
  <2>1. PICK n, f : n = Len(pay) /\ f = pay'
    OBVIOUS
  <2>2. n \in Nat /\ DOMAIN f = 1..n /\ \A u \in 1..n : f[u] \in [price : Prices, flag : {0, 1}]
    BY <1>4, <1>6, <1>7, <2>1
  <2>3. f = [u \in 1..n |-> f[u]]
    BY <1>3, <1>4, <2>1
  <2>4. QED
    BY <2>1, <2>2, <2>3 DEF Pays
<1>9. Uids' = Uids /\ Uids = DOMAIN pay
  BY <1>6 DEF Uids
<1>10. \A u \in Uids : Price'[u] = Price[u]
  <2>1. \A u \in Uids' : Price'[u] = pay'[u].price
    BY DEF Price
  <2>2. \A u \in Uids : Price[u] = pay[u].price
    BY DEF Price
  <2>3. QED
    BY <1>7, <1>9, <2>1, <2>2
<1>11. TakenRows' = TakenRows \cup T
  <2>1. TakenRows' = {u \in DOMAIN pay' : pay'[u].flag = 1}
    BY DEF TakenRows, Uids
  <2>2. TakenRows = {u \in DOMAIN pay : pay[u].flag = 1}
    BY DEF TakenRows, Uids
  <2>3. QED
    BY <1>2, <1>6, <1>7, <2>1, <2>2
<1>12. day \in Nat /\ day' \in Nat /\ day <= day' /\ day' \in 1..MaxDay
  BY PayAssumption DEF World
<1>13. QED
  BY <1>1, <1>8, <1>9, <1>10, <1>11, <1>12 DEF Grows

LEMMA DataGrows ==
  ASSUME Grows
  PROVE  /\ SUserPay \subseteq SUserPay' /\ Seq(SUserPay) \subseteq Seq(SUserPay') /\ Data \subseteq Data'
         /\ Seq(Seq(Uids)) \subseteq Seq(Seq(Uids'))
<1>1. Uids \subseteq Uids'
  BY DEF Grows
<1>2. SUserPay \subseteq SUserPay'
  BY <1>1 DEF SUserPay
<1>3. Seq(SUserPay) \subseteq Seq(SUserPay')
  BY <1>2
<1>4. Data \subseteq Data'
  BY <1>3 DEF Data
<1>5. Seq(Uids) \subseteq Seq(Uids')
  BY <1>1
<1>6. Seq(Seq(Uids)) \subseteq Seq(Seq(Uids'))
  BY <1>5
<1>7. QED
  BY <1>2, <1>3, <1>4, <1>6

LEMMA SoundStays ==
  ASSUME Grows, NEW d, Sound(d)
  PROVE  Sound(d)'
<1>1. d \in Data' /\ Distinct(d.pay_list)
  BY DataGrows DEF Sound
<1>2. PICK T, U, price, today : T = TakenOf(d.pay_list) /\ U = Uids /\ price = Price /\ today = day
  OBVIOUS
<1>3. PICK price2, today2 : price2 = Price' /\ today2 = day'
  OBVIOUS
<1>4. EarnedBy(d, T, price, today) /\ T \subseteq U
  BY <1>2, DataIs, ListIs DEF Sound
<1>5. d.pay_info.month_time \in Nat
  BY DataIs, InfoIs DEF Sound
<1>6. today \in Nat /\ today2 \in Nat /\ today <= today2 /\ \A u \in T : price2[u] = price[u]
  BY <1>2, <1>3, <1>4 DEF Grows
<1>7. EarnedBy(d, T, price2, today2)
  BY <1>4, <1>5, <1>6, EarnedStays
<1>8. EarnedBy(d, TakenOf(d.pay_list), Price, day)'
  BY <1>2, <1>3, <1>7
<1>9. QED
  BY <1>1, <1>8 DEF Sound

-----------------------------------------------------------------------------
(* The parts of the invariant that a step leaves alone.                    *)

LEMMA BooksStay ==
  ASSUME Books, Grows, InTables' = InTables, save_list' = save_list,
         Online' => Online /\ user'.check = user.check
  PROVE  Books'
<1>1. PICK h : Chain(h, save_list, InTables, Uids, Price, day) /\ (Online => h[Len(save_list) + 1] = Account(user.check))
  BY DEF Books
<1>2. PICK q, a, U, price, today : q = save_list /\ a = InTables /\ U = Uids /\ price = Price /\ today = day
  OBVIOUS
<1>3. PICK U2, price2, today2 : U2 = Uids' /\ price2 = Price' /\ today2 = day'
  OBVIOUS
<1>4. Chain(h, q, a, U, price, today)
  BY <1>1, <1>2
<1>5. today \in Nat /\ today2 \in Nat /\ today <= today2 /\ U \subseteq U2 /\ \A u \in U : price2[u] = price[u]
  BY <1>2, <1>3 DEF Grows
<1>6. Chain(h, q, a, U2, price2, today2)
  BY <1>4, <1>5, ChainStays
<1>7. Chain(h, save_list, InTables, Uids, Price, day)'
  BY <1>2, <1>3, <1>6
<1>8. (Online => h[Len(save_list) + 1] = Account(user.check))'
  BY <1>1
<1>9. IsSeq(save_list)'
  BY DEF Books
<1>10. QED
  BY <1>7, <1>8, <1>9 DEF Books

LEMMA InMemoryIs ==
  ASSUME NEW d, NEW c, user' = [data |-> d, check |-> c], Sound(d)', c \in Data',
         TakenOf(c.pay_list) \subseteq TakenOf(d.pay_list)
  PROVE  InMemory'
<1>1. user'.data = d /\ user'.check = c
  OBVIOUS
<1>2. Sound(user.data)'
  BY <1>1 DEF Sound
<1>3. QED
  BY <1>1, <1>2 DEF InMemory

LEMMA UserIs ==
  ASSUME InMemory, Online, NEW d, d = user.data, NEW c, c = user.check
  PROVE  /\ user = [data |-> d, check |-> c] /\ Sound(d) /\ c \in Data
         /\ TakenOf(c.pay_list) \subseteq TakenOf(d.pay_list)
BY DEF InMemory

LEMMA UserStays ==
  ASSUME InMemory, Grows, user' = user
  PROVE  InMemory' /\ (Online' <=> Online)
<1>1. Online' <=> Online
  BY DEF Online, NoUser
<1>2. CASE ~Online
  BY <1>1, <1>2 DEF InMemory
<1>3. CASE Online
  <2>1. PICK d, c : d = user.data /\ c = user.check
    OBVIOUS
  <2>2. user = [data |-> d, check |-> c] /\ Sound(d) /\ c \in Data /\ TakenOf(c.pay_list) \subseteq TakenOf(d.pay_list)
    BY <1>3, <2>1, UserIs
  <2>3. Sound(d)' /\ c \in Data'
    BY <2>2, SoundStays, DataGrows
  <2>4. InMemory'
    BY <2>2, <2>3, InMemoryIs
  <2>5. QED
    BY <1>1, <2>4
<1>4. QED
  BY <1>2, <1>3

LEMMA UserOnline == \A d, c : [data |-> d, check |-> c] # NoUser
<1>1. ASSUME NEW d, NEW c
      PROVE  [data |-> d, check |-> c] # NoUser
  <2>1. "data" \in DOMAIN [data |-> d, check |-> c] /\ DOMAIN << >> = {}
    OBVIOUS
  <2>2. QED
    BY <2>1 DEF NoUser
<1>2. QED
  BY <1>1

LEMMA ComingStays ==
  ASSUME Coming, Grows, InTables' = InTables, loaded' = loaded, save_list' = save_list,
         Online => Online'
  PROVE  Coming'
<1>1. Data \subseteq Data'
  BY DataGrows
<1>2. IsSeq(loaded)'
  BY DEF Coming
<1>3. ASSUME ~Online'
      PROVE  /\ loaded' # << >> => save_list' = << >>
             /\ \A i \in DOMAIN loaded' :
                  loaded'[i] \in Data' /\ Distinct(loaded'[i].pay_list) /\ Account(loaded'[i]) = InTables'
  BY <1>1, <1>3 DEF Coming
<1>4. QED
  BY <1>2, <1>3 DEF Coming

\* The tables are the same as long as the rows taken and the parts are.
LEMMA TablesStay ==
  ASSUME TakenRows' = TakenRows, role' = role
  PROVE  InTables' = InTables
BY DEF InTables

\* A step that leaves alone the role, its tables and what CDB has of it.
LEMMA RoleStays ==
  ASSUME PInv, Grows, TakenRows' = TakenRows, role' = role, user' = user, loaded' = loaded, save_list' = save_list
  PROVE  World' /\ Books' /\ InMemory' /\ Coming'
<1>1. InTables' = InTables
  BY TablesStay
<1>2. InMemory' /\ (Online' <=> Online)
  BY UserStays DEF PInv
<1>3. Books'
  BY <1>1, <1>2, BooksStay DEF PInv
<1>4. Coming'
  BY <1>1, <1>2, ComingStays DEF PInv
<1>5. World'
  BY DEF PInv, World, Grows, Pays
<1>6. QED
  BY <1>2, <1>3, <1>4, <1>5

\* A step that only makes the role in memory another that is sound.
LEMMA RoleBecomes ==
  ASSUME PInv, Grows, TakenRows' = TakenRows, role' = role, loaded' = loaded, save_list' = save_list,
         Online, NEW d, Sound(d)', Becomes(d), TakenOf(user.data.pay_list) \subseteq TakenOf(d.pay_list)
  PROVE  World' /\ Books' /\ InMemory' /\ Coming'
<1>1. InTables' = InTables
  BY TablesStay
<1>2. PICK b, c : b = user.data /\ c = user.check
  OBVIOUS
<1>3. user = [data |-> b, check |-> c] /\ c \in Data /\ TakenOf(c.pay_list) \subseteq TakenOf(b.pay_list)
  BY <1>2, UserIs DEF PInv
<1>4. user' = [data |-> d, check |-> c]
  BY <1>3 DEF Becomes
<1>5. c \in Data'
  BY <1>3, DataGrows
<1>6. TakenOf(c.pay_list) \subseteq TakenOf(d.pay_list)
  BY <1>2, <1>3
<1>7. InMemory'
  BY <1>4, <1>5, <1>6, InMemoryIs
<1>8. user'.check = user.check /\ user' # NoUser
  BY <1>2, <1>4, UserOnline
<1>9. Books'
  BY <1>1, <1>8, BooksStay DEF PInv
<1>10. Coming'
  BY <1>1, <1>8, ComingStays DEF PInv, Online, NoUser
<1>11. World'
  BY DEF PInv, World, Grows, Pays
<1>12. QED
  BY <1>7, <1>9, <1>10, <1>11

-----------------------------------------------------------------------------
(* The steps that make the role in memory another.                         *)

LEMMA PartsSound ==
  ASSUME NEW d, Sound(d), NEW t \in Data, t.pay_list = d.pay_list,
         t.coin["pay"] = d.coin["pay"], t.coin["present"] = d.coin["present"],
         t.coin["first"] = t.var_map.frist_pay_reward_flag,
         t.pay_info.pay_count = d.pay_info.pay_count, t.pay_info.pay_sum = d.pay_info.pay_sum,
         t.pay_info.month_time = d.pay_info.month_time
  PROVE  Sound(t)
<1>1. PICK T, price, today : T = TakenOf(d.pay_list) /\ price = Price /\ today = day
  OBVIOUS
<1>2. EarnedBy(d, T, price, today)
  BY <1>1 DEF Sound
<1>3. EarnedBy(t, T, price, today)
  BY <1>2 DEF EarnedBy, CoinsBy, InfoBy
<1>4. QED
  BY <1>1, <1>3 DEF Sound

LEMMA SoundIs ==
  ASSUME NEW d, Sound(d)
  PROVE  /\ d \in Data /\ d.coin \in Coin /\ d.pay_info \in PayInfo /\ d.var_map \in Var /\ d.pay_list \in Seq(SUserPay)
         /\ d = [coin |-> d.coin, pay_info |-> d.pay_info, var_map |-> d.var_map, pay_list |-> d.pay_list]
         /\ d.coin["first"] = d.var_map.frist_pay_reward_flag
BY DataIs DEF Sound, EarnedBy, CoinsBy

\* A new day.
LEMMA TimeLimitSound ==
  ASSUME NEW d, Sound(d), NEW today \in 0..MaxDay, NEW t, t = TimeLimit(d, today)
  PROVE  Sound(t) /\ t.pay_list = d.pay_list
<1>1. CASE ~(d.var_map.user_time_limit < today)
  BY <1>1 DEF TimeLimit
<1>2. CASE d.var_map.user_time_limit < today
  <2>1. PICK info, var : info = d.pay_info /\ var = d.var_map
    OBVIOUS
  <2>2. info \in PayInfo /\ var \in Var
    BY <2>1, SoundIs
  <2>3. PICK info2, var2 : /\ info2 = [info EXCEPT !.month_reward = 0]
                           /\ var2 = [var EXCEPT !.user_time_limit = today]
    OBVIOUS
  <2>4. /\ info2 \in PayInfo /\ info2.pay_count = info.pay_count /\ info2.pay_sum = info.pay_sum
        /\ info2.month_time = info.month_time
    BY <2>2, <2>3 DEF PayInfo
  <2>5. var2 \in Var /\ var2.frist_pay_reward_flag = var.frist_pay_reward_flag
    BY <2>2, <2>3 DEF Var
  <2>6. t = [d EXCEPT !.var_map = var2, !.pay_info = info2]
    <3>1. t = [d EXCEPT !.var_map.user_time_limit = today, !.pay_info.month_reward = 0]
      BY <1>2 DEF TimeLimit
    <3>2. d = [coin |-> d.coin, pay_info |-> info, var_map |-> var, pay_list |-> d.pay_list]
      BY <2>1, SoundIs
    <3>3. t = [d EXCEPT !.var_map = [d.var_map EXCEPT !.user_time_limit = today],
                        !.pay_info = [d.pay_info EXCEPT !.month_reward = 0]]
      BY <3>1, <3>2
    <3>4. QED
      BY <2>1, <2>3, <3>3
  <2>7. t = [coin |-> d.coin, pay_info |-> info2, var_map |-> var2, pay_list |-> d.pay_list]
    <3>1. d = [coin |-> d.coin, pay_info |-> info, var_map |-> var, pay_list |-> d.pay_list]
      BY <2>1, SoundIs
    <3>2. QED
      BY <2>6, <3>1
  <2>8. t.coin = d.coin /\ t.pay_info = info2 /\ t.var_map = var2 /\ t.pay_list = d.pay_list
    BY <2>7
  <2>9. t \in Data
    BY <2>4, <2>5, <2>7, SoundIs DEF Data
  <2>10. QED
    BY <2>1, <2>4, <2>5, <2>8, <2>9, SoundIs, PartsSound
<1>3. QED
  BY <1>1, <1>2

\* The rewards.
LEMMA MonthRewardSound ==
  ASSUME NEW d, Sound(d), NEW t, t = MonthReward(d)
  PROVE  Sound(t) /\ t.pay_list = d.pay_list
<1>1. CASE t = d
  BY <1>1
<1>2. CASE t # d
  <2>1. PICK coin, coin2 : coin = d.coin /\ coin2 = give(coin, "month", 1)
    OBVIOUS
  <2>2. d = [coin |-> coin, pay_info |-> d.pay_info, var_map |-> d.var_map, pay_list |-> d.pay_list] /\ coin \in Coin
    BY <2>1, SoundIs
  <2>3. /\ coin2 \in Coin /\ coin2["pay"] = coin["pay"] /\ coin2["present"] = coin["present"]
        /\ coin2["first"] = coin["first"]
    BY <2>1, <2>2, GiveIs DEF Paths
  <2>4. t = [d EXCEPT !.coin = coin2]
    BY <1>2, <2>1 DEF MonthReward
  <2>5. t = [coin |-> coin2, pay_info |-> d.pay_info, var_map |-> d.var_map, pay_list |-> d.pay_list]
    BY <2>2, <2>4
  <2>6. t.coin = coin2 /\ t.pay_info = d.pay_info /\ t.var_map = d.var_map /\ t.pay_list = d.pay_list
    BY <2>5
  <2>7. t \in Data
    BY <2>3, <2>5, SoundIs DEF Data
  <2>8. QED
    BY <2>1, <2>3, <2>6, <2>7, SoundIs, PartsSound
<1>3. QED
  BY <1>1, <1>2

LEMMA GetFristPayRewardSound ==
  ASSUME NEW d, Sound(d), NEW t, t = GetFristPayReward(d)
  PROVE  Sound(t) /\ t.pay_list = d.pay_list
<1>1. CASE d.var_map.frist_pay_reward_flag = 1 \/ d.pay_info.pay_count < 1
  BY <1>1 DEF GetFristPayReward
<1>2. CASE ~(d.var_map.frist_pay_reward_flag = 1 \/ d.pay_info.pay_count < 1)
  <2>1. PICK coin, coin2, var, var2 :
          /\ coin = d.coin /\ coin2 = give(coin, "first", 1)
          /\ var = d.var_map /\ var2 = [var EXCEPT !.frist_pay_reward_flag = 1]
    OBVIOUS
  <2>2. /\ d = [coin |-> coin, pay_info |-> d.pay_info, var_map |-> var, pay_list |-> d.pay_list]
        /\ coin \in Coin /\ var \in Var /\ coin["first"] = var.frist_pay_reward_flag
    BY <2>1, SoundIs
  <2>3. var.frist_pay_reward_flag = 0
    BY <1>2, <2>1, <2>2 DEF Var
  <2>4. /\ coin2 \in Coin /\ coin2["pay"] = coin["pay"] /\ coin2["present"] = coin["present"]
        /\ coin2["first"] = coin["first"] + 1
    BY <2>1, <2>2, GiveIs DEF Paths
  <2>5. var2 \in Var /\ var2.frist_pay_reward_flag = 1
    BY <2>1, <2>2 DEF Var
  <2>6. t = [d EXCEPT !.coin = coin2, !.var_map = var2]
    <3>1. t = [d EXCEPT !.coin = give(d.coin, "first", 1), !.var_map.frist_pay_reward_flag = 1]
      BY <1>2 DEF GetFristPayReward
    <3>2. QED
      BY <2>1, <2>2, <3>1
  <2>7. t = [coin |-> coin2, pay_info |-> d.pay_info, var_map |-> var2, pay_list |-> d.pay_list]
    BY <2>2, <2>6
  <2>8. t.coin = coin2 /\ t.pay_info = d.pay_info /\ t.var_map = var2 /\ t.pay_list = d.pay_list
    BY <2>7
  <2>9. t \in Data
    BY <2>4, <2>5, <2>7, SoundIs DEF Data
  <2>10. t.coin["first"] = t.var_map.frist_pay_reward_flag
    BY <2>2, <2>3, <2>4, <2>5, <2>8
  <2>11. QED
    BY <2>1, <2>4, <2>8, <2>9, <2>10, SoundIs, PartsSound
<1>3. QED
  BY <1>1, <1>2

\* Payments, and the list of a role in memory, as the lemmas on crediting want them.
LEMMA InvIs ==
  ASSUME PInv
  PROVE  PaysSound /\ day \in Nat /\ day \in 0..MaxDay /\ day \in 1..MaxDay
BY PayAssumption DEF PInv, World, PaysSound

LEMMA PRPayListKeeps ==
  ASSUME PInv, PRPayList
  PROVE  World' /\ Books' /\ InMemory' /\ Coming'
<1>1. /\ Grows /\ TakenRows' = TakenRows /\ role' = role /\ loaded' = loaded /\ save_list' = save_list
  BY InvIs, SameGrows DEF PRPayList, quiet, cdb, PInv
<1>2. CASE ~Online
  <2>1. user' = user
    BY <1>2 DEF PRPayList
  <2>2. QED
    BY <1>1, <2>1, RoleStays
<1>3. CASE Online
  <2>1. PICK b, uids, d : b = user.data /\ uids = Head(answers) /\ d = AddPay(b, uids)
    OBVIOUS
  <2>2. Sound(b)
    BY <1>3, <2>1, UserIs DEF PInv
  <2>3. uids \in Seq(Uids)
    <3>1. PICK S : S = Seq(Uids)
      OBVIOUS
    <3>2. answers \in Seq(S) /\ answers # << >>
      BY <3>1 DEF PInv, Counters, PRPayList
    <3>3. QED
      BY <2>1, <3>1, <3>2
  <2>4. Sound(d) /\ TakenOf(b.pay_list) \subseteq TakenOf(d.pay_list)
    BY <2>1, <2>2, <2>3, InvIs, AddPaySound
  <2>5. Sound(d)'
    BY <1>1, <2>4, SoundStays
  <2>6. Becomes(d)
    BY <1>3, <2>1 DEF PRPayList
  <2>7. QED
    BY <1>1, <1>3, <2>1, <2>4, <2>5, <2>6, RoleBecomes
<1>4. QED
  BY <1>2, <1>3

LEMMA PQSystemLoginKeeps ==
  ASSUME PInv, PQSystemLogin
  PROVE  World' /\ Books' /\ InMemory' /\ Coming'
<1>1. /\ Grows /\ TakenRows' = TakenRows /\ role' = role /\ loaded' = loaded /\ save_list' = save_list
  BY InvIs, SameGrows DEF PQSystemLogin, quiet, PInv
<1>2. CASE ~Online
  <2>1. user' = user
    BY <1>2 DEF PQSystemLogin
  <2>2. QED
    BY <1>1, <2>1, RoleStays
<1>3. CASE Online
  <2>1. PICK b, d : b = user.data /\ d = Process(b)
    OBVIOUS
  <2>2. Sound(b)
    BY <1>3, <2>1, UserIs DEF PInv
  <2>3. Sound(d) /\ TakenOf(b.pay_list) \subseteq TakenOf(d.pay_list)
    BY <2>1, <2>2, InvIs, ProcessSound
  <2>4. Sound(d)'
    BY <1>1, <2>3, SoundStays
  <2>5. Becomes(d)
    BY <1>3, <2>1 DEF PQSystemLogin
  <2>6. QED
    BY <1>1, <1>3, <2>1, <2>3, <2>4, <2>5, RoleBecomes
<1>4. QED
  BY <1>2, <1>3

LEMMA PQPayMonthRewardKeeps ==
  ASSUME PInv, PQPayMonthReward
  PROVE  World' /\ Books' /\ InMemory' /\ Coming'
<1>1. /\ Grows /\ TakenRows' = TakenRows /\ role' = role /\ loaded' = loaded /\ save_list' = save_list /\ Online
  BY InvIs, SameGrows DEF PQPayMonthReward, quiet, cdb, PInv
<1>2. PICK b, d : b = user.data /\ d = MonthReward(b)
  OBVIOUS
<1>3. Sound(b)
  BY <1>1, <1>2, UserIs DEF PInv
<1>4. Sound(d) /\ d.pay_list = b.pay_list
  BY <1>2, <1>3, MonthRewardSound
<1>5. Sound(d)'
  BY <1>1, <1>4, SoundStays
<1>6. Becomes(d)
  BY <1>2 DEF PQPayMonthReward
<1>7. QED
  BY <1>1, <1>2, <1>4, <1>5, <1>6, RoleBecomes

LEMMA PQPayFristPayRewardKeeps ==
  ASSUME PInv, PQPayFristPayReward
  PROVE  World' /\ Books' /\ InMemory' /\ Coming'
<1>1. /\ Grows /\ TakenRows' = TakenRows /\ role' = role /\ loaded' = loaded /\ save_list' = save_list /\ Online
  BY InvIs, SameGrows DEF PQPayFristPayReward, quiet, cdb, PInv
<1>2. PICK b, d : b = user.data /\ d = GetFristPayReward(b)
  OBVIOUS
<1>3. Sound(b)
  BY <1>1, <1>2, UserIs DEF PInv
<1>4. Sound(d) /\ d.pay_list = b.pay_list
  BY <1>2, <1>3, GetFristPayRewardSound
<1>5. Sound(d)'
  BY <1>1, <1>4, SoundStays
<1>6. Becomes(d)
  BY <1>2 DEF PQPayFristPayReward
<1>7. QED
  BY <1>1, <1>2, <1>4, <1>5, <1>6, RoleBecomes

LEMMA TickKeeps ==
  ASSUME PInv, Tick
  PROVE  World' /\ Books' /\ InMemory' /\ Coming'
<1>1. day' \in 1..MaxDay /\ day + 1 \in 0..MaxDay /\ day <= day'
  <2>1. day \in 1..MaxDay /\ day < MaxDay /\ day' = day + 1 /\ MaxDay \in Nat
    BY InvIs, PayAssumption DEF Tick
  <2>2. QED
    BY <2>1
<1>2. /\ Grows /\ TakenRows' = TakenRows /\ role' = role /\ loaded' = loaded /\ save_list' = save_list
  BY <1>1, SameGrows DEF Tick, cdb, PInv
<1>3. CASE ~Online
  <2>1. user' = user
    BY <1>3 DEF Tick
  <2>2. QED
    BY <1>2, <2>1, RoleStays
<1>4. CASE Online
  <2>1. PICK b, today, d : b = user.data /\ today = day + 1 /\ d = TimeLimit(b, today)
    OBVIOUS
  <2>2. Sound(b)
    BY <1>4, <2>1, UserIs DEF PInv
  <2>3. Sound(d) /\ d.pay_list = b.pay_list
    BY <1>1, <2>1, <2>2, TimeLimitSound
  <2>4. Sound(d)'
    BY <1>2, <2>3, SoundStays
  <2>5. Becomes(d)
    BY <1>4, <2>1 DEF Tick
  <2>6. QED
    BY <1>2, <1>4, <2>1, <2>3, <2>4, <2>5, RoleBecomes
<1>5. QED
  BY <1>3, <1>4

-----------------------------------------------------------------------------
(* A role comes to memory, is saved, and is gone.                          *)

LEMMA PRSystemUserLoadKeeps ==
  ASSUME PInv, PRSystemUserLoad
  PROVE  World' /\ Books' /\ InMemory' /\ Coming'
<1>1. /\ Grows /\ TakenRows' = TakenRows /\ role' = role /\ save_list' = save_list /\ day' = day /\ pay' = pay
  BY InvIs, SameGrows DEF PRSystemUserLoad, quiet, PInv
<1>2. InTables' = InTables /\ World'
  BY <1>1, TablesStay DEF PInv, World
<1>3. /\ loaded # << >> /\ loaded' = Tail(loaded) /\ IsSeq(loaded)
  BY DEF PRSystemUserLoad, PInv, Coming
<1>4. IsSeq(loaded)'
  BY <1>3, TailIsSeq
<1>5. CASE Online
  <2>1. user' = user
    BY <1>5 DEF PRSystemUserLoad
  <2>2. InMemory' /\ (Online' <=> Online)
    BY <1>1, <2>1, UserStays DEF PInv
  <2>3. Books'
    BY <1>1, <1>2, <2>1, <2>2, BooksStay DEF PInv
  <2>4. Coming'
    BY <1>4, <1>5, <2>2 DEF Coming
  <2>5. QED
    BY <1>2, <2>2, <2>3, <2>4
<1>6. CASE ~Online
  <2>1. PICK c, d, today : c = Head(loaded) /\ today = day /\ d = TimeLimit(c, today)
    OBVIOUS
  <2>2. user' = [data |-> d, check |-> c]
    BY <1>6, <2>1 DEF PRSystemUserLoad
  <2>3. c = loaded[1] /\ 1 \in DOMAIN loaded
    BY <1>3, <2>1, TailIsSeq
  <2>4. c \in Data /\ Distinct(c.pay_list) /\ Account(c) = InTables /\ save_list = << >>
    BY <1>3, <1>6, <2>3 DEF PInv, Coming
  <2>5. PICK h : Chain(h, save_list, InTables, Uids, Price, day)
    BY DEF PInv, Books
  <2>6. PICK a, T, price : a = InTables /\ T = TakenOf(c.pay_list) /\ price = Price
    OBVIOUS
  <2>7. h[1] = a /\ Fair(a, Uids, price, today)
    <3>1. 1 \in 1..(Len(save_list) + 1)
      BY <2>4
    <3>2. QED
      BY <2>1, <2>5, <2>6, <3>1 DEF Chain
  <2>8. a.taken = T /\ a.coin = c.coin /\ a.pay_info = c.pay_info /\ a.var_map = c.var_map
    BY <2>4, <2>6 DEF Account
  <2>9. EarnedBy(c, T, price, today)
    BY <2>7, <2>8 DEF Fair, EarnedBy, CoinsBy, InfoBy
  <2>10. Sound(c)
    BY <2>1, <2>4, <2>6, <2>9 DEF Sound
  <2>11. Sound(d) /\ d.pay_list = c.pay_list
    BY <2>1, <2>10, InvIs, TimeLimitSound
  <2>12. Sound(d)' /\ c \in Data'
    BY <1>1, <2>4, <2>11, SoundStays, DataGrows
  <2>13. InMemory'
    BY <2>2, <2>11, <2>12, InMemoryIs
  <2>14. Chain(h, save_list, InTables, Uids, Price, day)'
    BY <1>1, <1>2, <2>5 DEF Uids, Price
  <2>15. (Online => h[Len(save_list) + 1] = Account(user.check))'
    <3>1. user'.check = c /\ Len(save_list) + 1 = 1
      BY <2>2, <2>4
    <3>2. h[1] = Account(c)
      BY <2>4, <2>6, <2>7
    <3>3. QED
      BY <1>1, <3>1, <3>2
  <2>16. Books'
    BY <1>1, <2>14, <2>15 DEF PInv, Books
  <2>17. Online'
    BY <2>2, UserOnline DEF Online, NoUser
  <2>18. Coming'
    BY <1>4, <2>17 DEF Coming
  <2>19. QED
    BY <1>2, <2>13, <2>16, <2>18
<1>7. QED
  BY <1>5, <1>6

\* What is saved takes the tables to what the role has in memory.
LEMMA SaveIs ==
  ASSUME NEW d, Sound(d), NEW c \in Data, TakenOf(c.pay_list) \subseteq TakenOf(d.pay_list),
         user = [data |-> d, check |-> c], NEW s, s = [p \in Changed(user) |-> user.data[p]]
  PROVE  After(Account(c), s) = Account(d)
<1>1. user.data = d /\ user.check = c
  OBVIOUS
<1>2. DOMAIN s = {p \in DOMAIN d : d[p] # c[p]} /\ \A p \in DOMAIN s : s[p] = d[p]
  BY <1>1 DEF Changed
<1>3. DOMAIN d = {"coin", "pay_info", "var_map", "pay_list"}
  BY SoundIs DEF Data
<1>4. /\ Saved(s, "coin", c.coin) = d.coin /\ Saved(s, "pay_info", c.pay_info) = d.pay_info
      /\ Saved(s, "var_map", c.var_map) = d.var_map
  BY <1>2, <1>3 DEF Saved
<1>5. TakenOf(c.pay_list) \cup (IF "pay_list" \in DOMAIN s THEN TakenOf(s["pay_list"]) ELSE {}) = TakenOf(d.pay_list)
  <2>1. CASE "pay_list" \in DOMAIN s
    BY <1>2, <2>1
  <2>2. CASE "pay_list" \notin DOMAIN s
    <3>1. d.pay_list = c.pay_list
      BY <1>2, <1>3, <2>2
    <3>2. QED
      BY <2>2, <3>1
  <2>3. QED
    BY <2>1, <2>2
<1>6. QED
  BY <1>4, <1>5 DEF After, Account

LEMMA user_save_timerKeeps ==
  ASSUME PInv, user_save_timer
  PROVE  World' /\ Books' /\ InMemory' /\ Coming'
<1>1. /\ Grows /\ TakenRows' = TakenRows /\ role' = role /\ loaded' = loaded /\ day' = day /\ pay' = pay /\ Online
  BY InvIs, SameGrows DEF user_save_timer, quiet, PInv
<1>2. InTables' = InTables /\ World'
  BY <1>1, TablesStay DEF PInv, World
<1>3. PICK d, c : d = user.data /\ c = user.check
  OBVIOUS
<1>4. user = [data |-> d, check |-> c] /\ Sound(d) /\ c \in Data /\ TakenOf(c.pay_list) \subseteq TakenOf(d.pay_list)
  BY <1>1, <1>3, UserIs DEF PInv
<1>5. user' = [data |-> d, check |-> d]
  BY <1>3, <1>4 DEF user_save_timer
<1>6. Sound(d)' /\ d \in Data'
  BY <1>1, <1>4, SoundStays, SoundIs, DataGrows
<1>7. InMemory'
  BY <1>5, <1>6, InMemoryIs
<1>8. PICK s, q : s = [p \in Changed(user) |-> user.data[p]] /\ q = save_list
  OBVIOUS
<1>9. After(Account(c), s) = Account(d)
  BY <1>4, <1>8, SaveIs
<1>10. PICK a, U, price, today : a = InTables /\ U = Uids /\ price = Price /\ today = day
  OBVIOUS
<1>11. PICK h : Chain(h, q, a, U, price, today) /\ h[Len(q) + 1] = Account(c)
  BY <1>1, <1>3, <1>8, <1>10 DEF PInv, Books
<1>12. PICK b : b = Account(d)
  OBVIOUS
<1>13. Fair(b, U, price, today)
  <2>1. PICK T : T = TakenOf(d.pay_list)
    OBVIOUS
  <2>2. b.coin = d.coin /\ b.pay_info = d.pay_info /\ b.var_map = d.var_map /\ b.taken = T
    BY <1>12, <2>1 DEF Account
  <2>3. T \subseteq U
    BY <1>4, <1>10, <2>1, SoundIs, ListIs
  <2>4. EarnedBy(d, T, price, today)
    BY <1>4, <1>10, <2>1 DEF Sound
  <2>5. EarnedBy(b, T, price, today)
    BY <2>2, <2>4 DEF EarnedBy, CoinsBy, InfoBy
  <2>6. QED
    BY <1>4, <2>2, <2>3, <2>5, SoundIs DEF Fair
<1>14. IsSeq(q) /\ b = After(h[Len(q) + 1], s)
  BY <1>8, <1>9, <1>11, <1>12 DEF PInv, Books
<1>15. PICK g : Chain(g, Append(q, s), a, U, price, today) /\ g[Len(Append(q, s)) + 1] = b
  BY <1>11, <1>13, <1>14, ChainGrows
<1>16. save_list' = Append(q, s)
  BY <1>8 DEF user_save_timer
<1>17. Chain(g, save_list, InTables, Uids, Price, day)'
  BY <1>1, <1>2, <1>10, <1>15, <1>16 DEF Uids, Price
<1>18. (Online => g[Len(save_list) + 1] = Account(user.check))'
  BY <1>5, <1>12, <1>15, <1>16
<1>19. IsSeq(save_list)'
  BY <1>14, <1>16, AppendIsSeq
<1>20. Books'
  BY <1>17, <1>18, <1>19 DEF Books
<1>21. Online'
  BY <1>5, UserOnline DEF Online, NoUser
<1>22. Coming'
  BY <1>1, <1>21 DEF PInv, Coming
<1>23. QED
  BY <1>2, <1>7, <1>20, <1>22

LEMMA save_to_dbKeeps ==
  ASSUME PInv, save_to_db
  PROVE  World' /\ Books' /\ InMemory' /\ Coming'
<1>1. PICK s, q : s = Head(save_list) /\ q = save_list
  OBVIOUS
<1>2. /\ q # << >> /\ save_list' = Tail(q) /\ IsSeq(q) /\ day' = day /\ user' = user /\ loaded' = loaded
      /\ role' = [p \in DOMAIN role |-> IF p \in DOMAIN s THEN s[p] ELSE role[p]]
      /\ pay' = IF "pay_list" \in DOMAIN s THEN Flagged(pay, s["pay_list"]) ELSE pay
  BY <1>1 DEF save_to_db, PInv, Books
<1>3. PICK a, U, price, today : a = InTables /\ U = Uids /\ price = Price /\ today = day
  OBVIOUS
<1>4. PICK h : Chain(h, q, a, U, price, today) /\ (Online => h[Len(q) + 1] = Account(user.check))
  BY <1>1, <1>3 DEF PInv, Books
<1>5. PICK b : b = After(a, s)
  OBVIOUS
<1>6. Fair(b, U, price, today)
  <2>1. Len(q) \in Nat \ {0} /\ s = q[1]
    BY <1>1, <1>2, TailIsSeq
  <2>2. 1 \in 1..Len(q) /\ 2 \in 1..(Len(q) + 1) /\ 1 + 1 = 2
    BY <2>1
  <2>3. h[2] = b
    BY <1>4, <1>5, <2>1, <2>2 DEF Chain
  <2>4. QED
    BY <1>4, <2>2, <2>3 DEF Chain
<1>7. /\ a.coin = role.coin /\ a.pay_info = role.pay_info /\ a.var_map = role.var_map /\ a.taken = TakenRows
  BY <1>3 DEF InTables
<1>8. /\ b.coin = Saved(s, "coin", role.coin) /\ b.pay_info = Saved(s, "pay_info", role.pay_info)
      /\ b.var_map = Saved(s, "var_map", role.var_map)
      /\ b.taken = TakenRows \cup IF "pay_list" \in DOMAIN s THEN TakenOf(s["pay_list"]) ELSE {}
      /\ b = [coin |-> b.coin, pay_info |-> b.pay_info, var_map |-> b.var_map, taken |-> b.taken]
  BY <1>5, <1>7 DEF After
<1>9. role' = [coin |-> b.coin, pay_info |-> b.pay_info, var_map |-> b.var_map]
  <2>1. DOMAIN role = {"coin", "pay_info", "var_map"}
    BY DEF PInv, World, Tables
  <2>2. QED
    BY <1>2, <1>8, <2>1 DEF Saved
<1>10. role' \in Tables /\ role'.coin = b.coin /\ role'.pay_info = b.pay_info /\ role'.var_map = b.var_map
  BY <1>6, <1>9 DEF Fair, Tables
<1>11. Grows /\ TakenRows' = b.taken
  <2>1. CASE "pay_list" \in DOMAIN s
    <3>1. PICK list : list = s["pay_list"]
      OBVIOUS
    <3>2. TakenOf(list) \subseteq Uids /\ b.taken = TakenRows \cup TakenOf(list)
      BY <1>3, <1>6, <1>8, <2>1, <3>1 DEF Fair
    <3>3. pay' = Flagged(pay, list)
      BY <1>2, <2>1, <3>1
    <3>4. QED
      BY <1>2, <3>2, <3>3, FlaggedGrows DEF PInv
  <2>2. CASE "pay_list" \notin DOMAIN s
    BY <1>2, <1>8, <2>2, InvIs, SameGrows DEF PInv
  <2>3. QED
    BY <2>1, <2>2
<1>12. World'
  BY <1>10, <1>11 DEF World, Grows, Pays
<1>13. InTables' = b
  BY <1>8, <1>10, <1>11 DEF InTables
<1>14. InMemory' /\ (Online' <=> Online)
  BY <1>2, <1>11, UserStays DEF PInv
<1>15. PICK g : Chain(g, Tail(q), b, U, price, today) /\ g[Len(Tail(q)) + 1] = h[Len(q) + 1]
  BY <1>1, <1>2, <1>4, <1>5, ChainShrinks
<1>16. PICK z, U2, price2, today2 : z = Tail(q) /\ U2 = Uids' /\ price2 = Price' /\ today2 = day'
  OBVIOUS
<1>17. Chain(g, z, b, U2, price2, today2)
  <2>1. today \in Nat /\ today2 \in Nat /\ today <= today2 /\ U \subseteq U2 /\ \A u \in U : price2[u] = price[u]
    BY <1>3, <1>11, <1>16 DEF Grows
  <2>2. QED
    BY <1>15, <1>16, <2>1, ChainStays
<1>18. Chain(g, save_list, InTables, Uids, Price, day)'
  BY <1>2, <1>13, <1>16, <1>17
<1>19. (Online => g[Len(save_list) + 1] = Account(user.check))'
  BY <1>2, <1>4, <1>14, <1>15
<1>20. IsSeq(save_list)'
  BY <1>2, TailIsSeq
<1>21. Books'
  BY <1>18, <1>19, <1>20 DEF Books
<1>22. Coming'
  <2>1. ~Online => loaded = << >>
    BY <1>1, <1>2 DEF PInv, Coming
  <2>2. IsSeq(loaded)
    BY DEF PInv, Coming
  <2>3. DOMAIN << >> = {}
    OBVIOUS
  <2>4. QED
    BY <1>2, <1>14, <2>1, <2>2, <2>3 DEF Coming
<1>23. QED
  BY <1>12, <1>14, <1>21, <1>22

\* What CDB lists is what the tables have.
LEMMA LoadsIs ==
  ASSUME World, NEW d, d = Loads
  PROVE  d \in Data /\ Distinct(d.pay_list) /\ Account(d) = InTables
<1>1. PICK list : list = Rows(pay)
  OBVIOUS
<1>2. pay \in Pays /\ DOMAIN pay = 1..Len(pay) /\ Len(pay) \in Nat
  BY DEF World, Pays
<1>3. \A u \in DOMAIN pay : pay[u] \in [price : Prices, flag : {0, 1}]
  BY <1>2, Zenon, ElementOf DEF Pays
<1>4. list = [u \in DOMAIN pay |-> [uid |-> u, flag |-> pay[u].flag]]
  BY <1>1 DEF Rows
<1>5. DOMAIN list = DOMAIN pay /\ \A u \in DOMAIN pay : list[u].uid = u /\ list[u].flag = pay[u].flag
  BY <1>4
<1>6. \A u \in DOMAIN pay : list[u] \in SUserPay
  <2>1. ASSUME NEW u \in DOMAIN pay
        PROVE  list[u] \in SUserPay
    <3>1. PICK f : f = pay[u].flag
      OBVIOUS
    <3>2. f \in {0, 1}
      BY <1>3, <3>1
    <3>3. list[u] = [uid |-> u, flag |-> f]
      BY <1>4, <3>1
    <3>4. QED
      BY <3>2, <3>3 DEF SUserPay, Uids
  <2>2. QED
    BY <2>1
<1>7. list \in Seq(SUserPay)
  <2>1. PICK n : n = Len(pay)
    OBVIOUS
  <2>2. n \in Nat /\ list = [u \in 1..n |-> list[u]] /\ \A u \in 1..n : list[u] \in SUserPay
    BY <1>2, <1>4, <1>6, <2>1
  <2>3. QED
    BY <2>2
<1>8. Distinct(list)
  BY <1>5 DEF Distinct
<1>9. TakenOf(list) = TakenRows
  <2>1. Taken(list) = {u \in DOMAIN pay : pay[u].flag = 1}
    BY <1>5 DEF Taken
  <2>2. \A u \in Taken(list) : list[u].uid = u
    BY <1>5, <2>1
  <2>3. QED
    BY <2>1, <2>2 DEF TakenOf, Uid, TakenRows, Uids
<1>10. d = [coin |-> role.coin, pay_info |-> role.pay_info, var_map |-> role.var_map, pay_list |-> list]
  BY <1>1 DEF Loads
<1>11. d.coin = role.coin /\ d.pay_info = role.pay_info /\ d.var_map = role.var_map /\ d.pay_list = list
  BY <1>10
<1>12. d \in Data
  <2>1. role.coin \in Coin /\ role.pay_info \in PayInfo /\ role.var_map \in Var
    BY DEF World, Tables
  <2>2. QED
    BY <1>7, <1>10, <2>1 DEF Data
<1>13. Account(d) = InTables
  BY <1>9, <1>11 DEF Account, InTables
<1>14. QED
  BY <1>8, <1>11, <1>12, <1>13

LEMMA load_to_msgKeeps ==
  ASSUME PInv, load_to_msg
  PROVE  World' /\ Books' /\ InMemory' /\ Coming'
<1>1. /\ Grows /\ TakenRows' = TakenRows /\ role' = role /\ user' = user /\ save_list' = save_list /\ save_list = << >>
  BY InvIs, SameGrows DEF load_to_msg, quiet, PInv
<1>2. InTables' = InTables
  BY <1>1, TablesStay
<1>3. InMemory' /\ (Online' <=> Online)
  BY <1>1, UserStays DEF PInv
<1>4. Books'
  BY <1>1, <1>2, <1>3, BooksStay DEF PInv
<1>5. World'
  BY <1>1 DEF PInv, World, Grows, Pays
<1>6. PICK d, q : d = Loads /\ q = loaded
  OBVIOUS
<1>7. loaded' = Append(q, d) /\ IsSeq(q)
  BY <1>6 DEF load_to_msg, PInv, Coming
<1>8. /\ IsSeq(loaded)' /\ Len(loaded') = Len(q) + 1 /\ Len(q) \in Nat /\ DOMAIN q = 1..Len(q)
      /\ (\A i \in 1..Len(q) : loaded'[i] = q[i]) /\ loaded'[Len(q) + 1] = d
  BY <1>7, AppendIsSeq
<1>9. d \in Data /\ Distinct(d.pay_list) /\ Account(d) = InTables
  BY <1>6, LoadsIs DEF PInv
<1>10. DOMAIN loaded' = 1..(Len(q) + 1)
  <2>1. DOMAIN loaded' = 1..Len(loaded')
    BY <1>8, AppendIsSeq
  <2>2. QED
    BY <1>8, <2>1
<1>11. ASSUME ~Online, NEW i \in DOMAIN loaded'
       PROVE  loaded'[i] \in Data /\ Distinct(loaded'[i].pay_list) /\ Account(loaded'[i]) = InTables
  <2>1. CASE i = Len(q) + 1
    BY <1>8, <1>9, <2>1
  <2>2. CASE i # Len(q) + 1
    <3>1. i \in DOMAIN q
      BY <1>8, <1>10, <2>2
    <3>2. loaded'[i] = loaded[i]
      BY <1>6, <1>8, <3>1
    <3>3. QED
      BY <1>6, <1>11, <3>1, <3>2 DEF PInv, Coming
  <2>3. QED
    BY <2>1, <2>2
<1>12. Data \subseteq Data'
  BY <1>1, DataGrows
<1>13. Coming'
  BY <1>1, <1>2, <1>3, <1>8, <1>11, <1>12 DEF Coming
<1>14. QED
  BY <1>3, <1>4, <1>5, <1>13

LEMMA quit_forceKeeps ==
  ASSUME PInv, quit_force
  PROVE  World' /\ Books' /\ InMemory' /\ Coming'
<1>1. /\ Grows /\ TakenRows' = TakenRows /\ role' = role /\ user' = NoUser /\ loaded' = loaded
      /\ save_list' = save_list /\ loaded = << >>
  BY InvIs, SameGrows DEF quit_force, Fault, cdb, PInv
<1>2. InTables' = InTables
  BY <1>1, TablesStay
<1>3. ~Online'
  BY <1>1 DEF Online, NoUser
<1>4. InMemory'
  BY <1>3 DEF InMemory
<1>5. Books'
  BY <1>1, <1>2, <1>3, BooksStay DEF PInv
<1>6. World'
  BY <1>1 DEF PInv, World, Grows, Pays
<1>7. Coming'
  <2>1. DOMAIN << >> = {}
    OBVIOUS
  <2>2. QED
    BY <1>1, <2>1 DEF PInv, Coming
<1>8. QED
  BY <1>4, <1>5, <1>6, <1>7

\* No save is on its way: the tables have what they should.
LEMMA NoSaves ==
  ASSUME NEW a, NEW U, NEW price, NEW today, Fair(a, U, price, today)
  PROVE  \E h : Chain(h, << >>, a, U, price, today)
<1>1. PICK h : h = [k \in 1..1 |-> a]
  OBVIOUS
<1>2. h[1] = a
  BY <1>1
<1>3. PICK q : q = << >>
  OBVIOUS
<1>4. Len(q) = 0
  BY <1>3
<1>5. Chain(h, q, a, U, price, today)
  BY <1>2, <1>4 DEF Chain
<1>6. QED
  BY <1>3, <1>5

LEMMA RestartKeeps ==
  ASSUME PInv, Restart
  PROVE  World' /\ Books' /\ InMemory' /\ Coming'
<1>1. /\ Grows /\ TakenRows' = TakenRows /\ role' = role /\ user' = NoUser /\ loaded' = << >>
      /\ save_list' = << >> /\ day' = day /\ pay' = pay
  BY InvIs, SameGrows DEF Restart, Fault, PInv
<1>2. InTables' = InTables
  BY <1>1, TablesStay
<1>3. ~Online'
  BY <1>1 DEF Online, NoUser
<1>4. InMemory'
  BY <1>3 DEF InMemory
<1>5. World'
  BY <1>1 DEF PInv, World, Grows, Pays
<1>6. PICK a, U, price, today : a = InTables /\ U = Uids /\ price = Price /\ today = day
  OBVIOUS
<1>7. Fair(a, U, price, today)
  <2>1. PICK h : Chain(h, save_list, InTables, Uids, Price, day)
    BY DEF PInv, Books
  <2>2. PICK q : q = save_list
    OBVIOUS
  <2>3. Len(q) \in Nat
    BY <2>2, AppendIsSeq DEF PInv, Books
  <2>4. 1 \in 1..(Len(q) + 1)
    BY <2>3
  <2>5. QED
    BY <1>6, <2>1, <2>2, <2>4 DEF Chain
<1>8. PICK g : Chain(g, << >>, a, U, price, today)
  BY <1>7, NoSaves
<1>9. Chain(g, save_list, InTables, Uids, Price, day)'
  BY <1>1, <1>2, <1>6, <1>8 DEF Uids, Price
<1>10. Books'
  BY <1>1, <1>3, <1>9, EmptyIsSeq DEF Books
<1>11. Coming'
  <2>1. DOMAIN << >> = {}
    OBVIOUS
  <2>2. QED
    BY <1>1, <2>1, EmptyIsSeq DEF Coming
<1>12. QED
  BY <1>4, <1>5, <1>10, <1>11

LEMMA BackEndPaysKeeps ==
  ASSUME PInv, NEW price \in Prices, BackEndPays(price)
  PROVE  World' /\ Books' /\ InMemory' /\ Coming'
BY PaysGrows, RoleStays DEF PInv, BackEndPays, cdb

\* The other steps are about messages.
LEMMA OthersKeep ==
  ASSUME PInv, sys_pay \/ PQPayList \/ PQPayNotice \/ Lost \/ UNCHANGED vars
  PROVE  World' /\ Books' /\ InMemory' /\ Coming'
<1>1. /\ day' = day /\ pay' = pay /\ role' = role /\ user' = user /\ loaded' = loaded /\ save_list' = save_list
  <2>1. CASE sys_pay
    BY <2>1 DEF sys_pay, cdb
  <2>2. CASE PQPayList
    BY <2>2 DEF PQPayList, cdb
  <2>3. CASE PQPayNotice
    BY <2>3 DEF PQPayNotice, quiet
  <2>4. CASE Lost
    BY <2>4 DEF Lost, Fault, cdb
  <2>5. CASE UNCHANGED vars
    BY <2>5 DEF vars, cdb
  <2>6. QED
    BY <2>1, <2>2, <2>3, <2>4, <2>5
<1>2. Grows /\ TakenRows' = TakenRows
  BY <1>1, InvIs, SameGrows DEF PInv
<1>3. QED
  BY <1>1, <1>2, RoleStays

-----------------------------------------------------------------------------
(* The messages on their way.                                              *)

LEMMA RowsStay ==
  ASSUME World, [Next]_vars
  PROVE  Uids \subseteq Uids'
<1>1. ASSUME NEW price \in Prices, BackEndPays(price)
      PROVE  Uids \subseteq Uids'
  BY <1>1, PaysGrows DEF Grows
<1>2. CASE save_to_db
  <2>1. PICK s : s = Head(save_list)
    OBVIOUS
  <2>2. pay' = IF "pay_list" \in DOMAIN s THEN Flagged(pay, s["pay_list"]) ELSE pay
    BY <1>2, <2>1 DEF save_to_db
  <2>3. PICK list : list = s["pay_list"]
    OBVIOUS
  <2>4. DOMAIN Flagged(pay, list) = DOMAIN pay
    BY DEF Flagged
  <2>5. QED
    BY <2>2, <2>3, <2>4 DEF Uids
<1>3. CASE UNCHANGED pay
  BY <1>3 DEF Uids
<1>4. CASE sys_pay \/ PQPayList \/ PQPayNotice \/ PRPayList \/ PQSystemLogin \/ PRSystemUserLoad
  BY <1>3, <1>4 DEF sys_pay, PQPayList, PQPayNotice, PRPayList, PQSystemLogin, PRSystemUserLoad, quiet
<1>5. CASE PQPayMonthReward \/ PQPayFristPayReward \/ Tick \/ user_save_timer \/ load_to_msg
  BY <1>3, <1>5 DEF PQPayMonthReward, PQPayFristPayReward, Tick, user_save_timer, load_to_msg, quiet
<1>6. CASE quit_force \/ Lost \/ Restart \/ UNCHANGED vars
  BY <1>3, <1>6 DEF quit_force, Lost, Restart, Fault, vars
<1>7. QED
  BY <1>1, <1>2, <1>4, <1>5, <1>6 DEF Next

LEMMA AnswersTail ==
  ASSUME NEW S, NEW q \in Seq(S), q # << >>
  PROVE  Tail(q) \in Seq(S) /\ Len(Tail(q)) = Len(q) - 1 /\ Len(q) \in Nat
OBVIOUS

LEMMA AnswersAppend ==
  ASSUME NEW S, NEW q \in Seq(S), NEW x \in S
  PROVE  Append(q, x) \in Seq(S) /\ Len(Append(q, x)) = Len(q) + 1 /\ Len(q) \in Nat
OBVIOUS

\* How many messages there are, and that they name rows.
Messages(S, n, d, q, a) ==
  n \in Nat /\ d \in Nat /\ q \in Nat /\ n + d + q + Len(a) <= MaxNotices /\ a \in Seq(S)

LEMMA CountersAre ==
  Counters <=> /\ Messages(Seq(Uids), notices, deferred, queries, answers)
               /\ load_list \subseteq {"login", "off"} /\ promised \subseteq Uids
BY DEF Counters, Messages

LEMMA MessagesKeep ==
  ASSUME NEW S, NEW n, NEW d, NEW q, NEW a, Messages(S, n, d, q, a)
  PROVE  /\ n > 0 => Messages(S, n - 1, d, q, a) /\ Messages(S, n - 1, d + 1, q, a) /\ Messages(S, n - 1, d, q + 1, a)
         /\ q > 0 => Messages(S, n, d, q - 1, a) /\ \A x \in S : Messages(S, n, d, q - 1, Append(a, x))
         /\ a # << >> => Messages(S, n, d, q, Tail(a))
         /\ Messages(S, n + d, 0, q, a) /\ Messages(S, n, 0, q, a)
         /\ n + d + q + Len(a) < MaxNotices => Messages(S, n + 1, d, q, a)
<1>1. PICK l : l = Len(a)
  OBVIOUS
<1>2. l \in Nat /\ n \in Nat /\ d \in Nat /\ q \in Nat /\ n + d + q + l <= MaxNotices /\ a \in Seq(S) /\ MaxNotices \in Nat
  BY <1>1, PayAssumption DEF Messages
<1>3. /\ n > 0 => Messages(S, n - 1, d, q, a) /\ Messages(S, n - 1, d + 1, q, a) /\ Messages(S, n - 1, d, q + 1, a)
      /\ q > 0 => Messages(S, n, d, q - 1, a)
      /\ Messages(S, n + d, 0, q, a) /\ Messages(S, n, 0, q, a)
      /\ n + d + q + Len(a) < MaxNotices => Messages(S, n + 1, d, q, a)
  BY <1>1, <1>2 DEF Messages
<1>4. ASSUME q > 0, NEW x \in S
      PROVE  Messages(S, n, d, q - 1, Append(a, x))
  <2>1. PICK z : z = Append(a, x)
    OBVIOUS
  <2>2. z \in Seq(S) /\ Len(z) = l + 1
    BY <1>1, <1>2, <2>1, AnswersAppend
  <2>3. QED
    BY <1>2, <1>4, <2>1, <2>2 DEF Messages
<1>5. ASSUME a # << >>
      PROVE  Messages(S, n, d, q, Tail(a))
  <2>1. PICK z : z = Tail(a)
    OBVIOUS
  <2>2. z \in Seq(S) /\ Len(z) = l - 1
    BY <1>1, <1>2, <1>5, <2>1, AnswersTail
  <2>3. QED
    BY <1>2, <2>1, <2>2 DEF Messages
<1>6. QED
  BY <1>3, <1>4, <1>5

LEMMA CountersKeep ==
  ASSUME PInv, [Next]_vars
  PROVE  Counters'
<1>1. Uids \subseteq Uids'
  BY RowsStay DEF PInv
<1>2. Seq(Uids) \subseteq Seq(Uids')
  BY <1>1
<1>3. PICK S : S = Seq(Uids)
  OBVIOUS
<1>4. Messages(S, notices, deferred, queries, answers) /\ load_list \subseteq {"login", "off"} /\ promised \subseteq Uids
  BY <1>3, CountersAre DEF PInv
<1>5. /\ notices > 0 => /\ Messages(S, notices - 1, deferred, queries, answers)
                        /\ Messages(S, notices - 1, deferred + 1, queries, answers)
                        /\ Messages(S, notices - 1, deferred, queries + 1, answers)
      /\ queries > 0 => /\ Messages(S, notices, deferred, queries - 1, answers)
                        /\ \A x \in S : Messages(S, notices, deferred, queries - 1, Append(answers, x))
      /\ answers # << >> => Messages(S, notices, deferred, queries, Tail(answers))
      /\ Messages(S, notices + deferred, 0, queries, answers) /\ Messages(S, notices, 0, queries, answers)
      /\ notices + deferred + queries + Len(answers) < MaxNotices => Messages(S, notices + 1, deferred, queries, answers)
  BY <1>4, MessagesKeep
<1>6. Untaken(pay) \in S
  BY <1>3, InvIs, UntakenIs
<1>7. Messages(S, notices', deferred', queries', answers')
  <2>1. CASE UNCHANGED queues
    BY <1>4, <2>1 DEF queues
  <2>2. CASE sys_pay
    BY <1>5, <2>2 DEF sys_pay
  <2>3. CASE PQPayList
    BY <1>5, <1>6, <2>3 DEF PQPayList
  <2>4. CASE PQPayNotice
    BY <1>5, <2>4 DEF PQPayNotice, QU_OFF
  <2>5. CASE PRPayList
    BY <1>5, <2>5 DEF PRPayList
  <2>6. CASE PRSystemUserLoad
    BY <1>5, <2>1, <2>6 DEF PRSystemUserLoad
  <2>7. CASE quit_force
    BY <1>5, <2>7 DEF quit_force
  <2>8. CASE Lost
    BY <1>5, <2>8 DEF Lost
  <2>9. CASE Restart
    <3>1. notices' = 0 /\ deferred' = 0 /\ queries' = 0 /\ answers' = << >>
      BY <2>9 DEF Restart
    <3>2. << >> \in Seq(S) /\ Len(<< >>) = 0 /\ MaxNotices \in Nat
      BY PayAssumption
    <3>3. QED
      BY <3>1, <3>2 DEF Messages
  <2>10. CASE \/ (\E price \in Prices : BackEndPays(price)) \/ PQSystemLogin \/ PQPayMonthReward
              \/ PQPayFristPayReward \/ Tick \/ user_save_timer \/ save_to_db \/ load_to_msg \/ UNCHANGED vars
    BY <2>1, <2>10 DEF BackEndPays, PQSystemLogin, PQPayMonthReward, PQPayFristPayReward, Tick,
         user_save_timer, save_to_db, load_to_msg, vars
  <2>11. QED
    BY <2>2, <2>3, <2>4, <2>5, <2>6, <2>7, <2>8, <2>9, <2>10 DEF Next
<1>8. load_list' \subseteq {"login", "off"}
  <2>1. CASE UNCHANGED load_list
    BY <1>4, <2>1
  <2>2. CASE PQPayNotice
    BY <1>4, <2>2 DEF PQPayNotice, QU_OFF
  <2>3. CASE PQSystemLogin
    BY <1>4, <2>3 DEF PQSystemLogin
  <2>4. CASE load_to_msg
    BY <1>4, <2>4 DEF load_to_msg
  <2>5. CASE Restart
    BY <2>5 DEF Restart
  <2>6. CASE \/ (\E price \in Prices : BackEndPays(price)) \/ sys_pay \/ PQPayList \/ PRPayList \/ PRSystemUserLoad
             \/ PQPayMonthReward \/ PQPayFristPayReward \/ Tick
    BY <2>1, <2>6 DEF BackEndPays, sys_pay, PQPayList, PRPayList, PRSystemUserLoad, PQPayMonthReward,
         PQPayFristPayReward, Tick, cdb
  <2>7. CASE user_save_timer \/ save_to_db \/ quit_force \/ Lost \/ UNCHANGED vars
    BY <2>1, <2>7 DEF user_save_timer, save_to_db, quit_force, Lost, vars, cdb
  <2>8. QED
    BY <2>2, <2>3, <2>4, <2>5, <2>6, <2>7 DEF Next
<1>9. promised' \subseteq Uids
  <2>1. CASE UNCHANGED promised
    BY <1>4, <2>1
  <2>2. CASE sys_pay
    BY <2>2 DEF sys_pay
  <2>3. CASE quit_force \/ Lost \/ Restart
    BY <2>3 DEF quit_force, Lost, Restart, Fault
  <2>4. CASE \/ (\E price \in Prices : BackEndPays(price)) \/ PQPayList \/ PQPayNotice \/ PRPayList \/ PQSystemLogin
             \/ PRSystemUserLoad \/ PQPayMonthReward \/ PQPayFristPayReward
    BY <2>1, <2>4 DEF BackEndPays, PQPayList, PQPayNotice, PRPayList, PQSystemLogin, PRSystemUserLoad,
         PQPayMonthReward, PQPayFristPayReward, quiet
  <2>5. CASE Tick \/ user_save_timer \/ save_to_db \/ load_to_msg \/ UNCHANGED vars
    BY <2>1, <2>5 DEF Tick, user_save_timer, save_to_db, load_to_msg, vars, quiet
  <2>6. QED
    BY <2>2, <2>3, <2>4, <2>5 DEF Next
<1>10. Messages(Seq(Uids'), notices', deferred', queries', answers')
  <2>1. PICK a, Q, Q2 : a = answers' /\ Q = Seq(Uids) /\ Q2 = Seq(Uids')
    OBVIOUS
  <2>2. a \in Seq(Q) /\ Q \subseteq Q2
    BY <1>2, <1>3, <1>7, <2>1 DEF Messages
  <2>3. a \in Seq(Q2)
    BY <2>2
  <2>4. QED
    BY <1>7, <2>1, <2>3 DEF Messages
<1>11. promised' \subseteq Uids'
  BY <1>1, <1>9
<1>12. QED
  BY <1>8, <1>10, <1>11 DEF Counters, Messages

-----------------------------------------------------------------------------
(* The theorems.                                                           *)

LEMMA InitPInv ==
  ASSUME Init
  PROVE  PInv
<1>1. /\ day = 1 /\ pay = << >> /\ user = NoUser /\ load_list = {} /\ loaded = << >> /\ save_list = << >>
      /\ deferred = 0 /\ notices = 0 /\ queries = 0 /\ answers = << >> /\ promised = {}
  BY DEF Init
<1>2. PICK coin, info, var :
        /\ coin = [p \in Paths |-> 0]
        /\ info = [pay_sum |-> 0, pay_count |-> 0, month_time |-> 0, month_reward |-> 0]
        /\ var = [frist_pay_reward_flag |-> 0, user_time_limit |-> 1]
  OBVIOUS
<1>3. role = [coin |-> coin, pay_info |-> info, var_map |-> var]
  BY <1>2 DEF Init
<1>4. 1 \in 1..MaxDay /\ 1 \in 0..MaxDay /\ MaxNotices \in Nat
  BY PayAssumption
<1>5. /\ coin \in Coin /\ coin["pay"] = 0 /\ coin["present"] = 0 /\ coin["first"] = 0
  BY <1>2 DEF Coin, Paths
<1>6. info \in PayInfo /\ info.pay_count = 0 /\ info.pay_sum = 0 /\ info.month_time = 0
  BY <1>2 DEF PayInfo
<1>7. var \in Var /\ var.frist_pay_reward_flag = 0
  BY <1>2, <1>4 DEF Var
<1>8. role \in Tables
  BY <1>3, <1>5, <1>6, <1>7 DEF Tables
<1>9. DOMAIN << >> = {} /\ Len(<< >>) = 0 /\ \A S : << >> \in Seq(S)
  OBVIOUS
<1>10. World
  BY <1>1, <1>4, <1>8, <1>9 DEF World
<1>11. Counters
  BY <1>1, <1>4, <1>9 DEF Counters
<1>12. ~Online
  BY <1>1 DEF Online
<1>13. InMemory /\ Coming
  BY <1>1, <1>9, <1>12, EmptyIsSeq DEF InMemory, Coming
<1>14. PICK a, U, price, today : a = InTables /\ U = Uids /\ price = Price /\ today = day
  OBVIOUS
<1>15. TakenRows = {}
  BY <1>1, <1>9 DEF TakenRows, Uids
<1>16. a.coin = coin /\ a.pay_info = info /\ a.var_map = var /\ a.taken = {}
  BY <1>3, <1>14, <1>15 DEF InTables
<1>17. EarnedBy(a, {}, price, today)
  BY <1>5, <1>6, <1>7, <1>16, EarnedAtFirst
<1>18. Fair(a, U, price, today)
  BY <1>5, <1>6, <1>7, <1>16, <1>17 DEF Fair
<1>19. PICK h : Chain(h, << >>, a, U, price, today)
  BY <1>18, NoSaves
<1>20. Chain(h, save_list, InTables, Uids, Price, day)
  BY <1>1, <1>14, <1>19
<1>21. Books
  BY <1>1, <1>12, <1>20, EmptyIsSeq DEF Books
<1>22. QED
  BY <1>10, <1>11, <1>13, <1>21 DEF PInv

LEMMA NextPInv ==
  ASSUME PInv, [Next]_vars
  PROVE  PInv'
<1>1. Counters'
  BY CountersKeep
<1>2. World' /\ Books' /\ InMemory' /\ Coming'
  <2>1. ASSUME NEW price \in Prices, BackEndPays(price)
        PROVE  World' /\ Books' /\ InMemory' /\ Coming'
    BY <2>1, BackEndPaysKeeps
  <2>2. CASE sys_pay \/ PQPayList \/ PQPayNotice \/ Lost \/ UNCHANGED vars
    BY <2>2, OthersKeep
  <2>3. CASE PRPayList
    BY <2>3, PRPayListKeeps
  <2>4. CASE PQSystemLogin
    BY <2>4, PQSystemLoginKeeps
  <2>5. CASE PRSystemUserLoad
    BY <2>5, PRSystemUserLoadKeeps
  <2>6. CASE PQPayMonthReward
    BY <2>6, PQPayMonthRewardKeeps
  <2>7. CASE PQPayFristPayReward
    BY <2>7, PQPayFristPayRewardKeeps
  <2>8. CASE Tick
    BY <2>8, TickKeeps
  <2>9. CASE user_save_timer
    BY <2>9, user_save_timerKeeps
  <2>10. CASE save_to_db
    BY <2>10, save_to_dbKeeps
  <2>11. CASE load_to_msg
    BY <2>11, load_to_msgKeeps
  <2>12. CASE quit_force
    BY <2>12, quit_forceKeeps
  <2>13. CASE Restart
    BY <2>13, RestartKeeps
  <2>14. QED
    BY <2>1, <2>2, <2>3, <2>4, <2>5, <2>6, <2>7, <2>8, <2>9, <2>10, <2>11, <2>12, <2>13 DEF Next
<1>3. QED
  BY <1>1, <1>2 DEF PInv

\* What the tables have, as an account of their rows.
LEMMA TablesEarn ==
  ASSUME PInv
  PROVE  Earned(role, TakenRows)
<1>1. PICK h : Chain(h, save_list, InTables, Uids, Price, day)
  BY DEF PInv, Books
<1>2. PICK a, q, T : a = InTables /\ q = save_list /\ T = TakenRows
  OBVIOUS
<1>3. Len(q) \in Nat
  BY <1>2, AppendIsSeq DEF PInv, Books
<1>4. 1 \in 1..(Len(q) + 1)
  BY <1>3
<1>5. Fair(a, Uids, Price, day)
  BY <1>1, <1>2, <1>4 DEF Chain
<1>6. a.coin = role.coin /\ a.pay_info = role.pay_info /\ a.var_map = role.var_map /\ a.taken = T
  BY <1>2 DEF InTables
<1>7. EarnedBy(a, T, Price, day) /\ T \in SUBSET Uids
  BY <1>5, <1>6 DEF Fair
<1>8. EarnedBy(role, T, Price, day)
  BY <1>6, <1>7 DEF EarnedBy, CoinsBy, InfoBy
<1>9. QED
  BY <1>2, <1>7, <1>8, EarnedIs

LEMMA PInvCredited ==
  ASSUME PInv
  PROVE  Credited
<1>1. Earned(role, {u \in Uids : pay[u].flag = 1})
  BY TablesEarn DEF TakenRows
<1>2. ASSUME Online
      PROVE  /\ Earned(user.data, Uid(user.data.pay_list, Taken(user.data.pay_list)))
             /\ user \in [data : Data, check : Data]
  <2>1. PICK d, c : d = user.data /\ c = user.check
    OBVIOUS
  <2>2. user = [data |-> d, check |-> c] /\ Sound(d) /\ c \in Data
    BY <1>2, <2>1, UserIs DEF PInv
  <2>3. PICK T : T = TakenOf(d.pay_list)
    OBVIOUS
  <2>4. EarnedBy(d, T, Price, day) /\ T \in SUBSET Uids
    BY <2>2, <2>3, SoundIs, ListIs DEF Sound
  <2>5. Earned(d, T)
    BY <2>4, EarnedIs
  <2>6. Earned(user.data, Uid(user.data.pay_list, Taken(user.data.pay_list)))
    BY <2>1, <2>3, <2>5 DEF TakenOf
  <2>7. user \in [data : Data, check : Data]
    BY <2>2, SoundIs
  <2>8. QED
    BY <2>6, <2>7
<1>3. TypeOK
  <2>1. \A i \in DOMAIN answers : answers[i] \in Seq(Uids)
    BY DEF PInv, Counters
  <2>2. {notices, queries, deferred} \subseteq 0..MaxNotices
    <3>1. Len(answers) \in Nat /\ MaxNotices \in Nat
      BY PayAssumption DEF PInv, Counters
    <3>2. QED
      BY <3>1 DEF PInv, Counters
  <2>3. QED
    BY <1>2, <2>1, <2>2 DEF TypeOK, PInv, World, Counters
<1>4. QED
  BY <1>1, <1>2, <1>3 DEF Credited

(* Every variable has its type, however many payments, days, messages and  *)
(* faults there are.                                                       *)
THEOREM TypesHold == Spec => []TypeOK
<1>1. Init => PInv
  BY InitPInv
<1>2. PInv /\ [Next]_vars => PInv'
  BY NextPInv
<1>3. PInv => TypeOK
  BY PInvCredited DEF Credited
<1>4. QED
  BY <1>1, <1>2, <1>3, PTL DEF Spec

(* A role has what its taken payments are worth, in memory and in the      *)
(* tables, for any prices, presents and length of the card: no payment is  *)
(* credited twice or forgotten by pay::process and CPayData's save,        *)
(* however often it is listed and whatever is lost in between.             *)
THEOREM PaymentsCredited == Spec => []Credited
<1>1. Init => PInv
  BY InitPInv
<1>2. PInv /\ [Next]_vars => PInv'
  BY NextPInv
<1>3. PInv => Credited
  BY PInvCredited
<1>4. QED
  BY <1>1, <1>2, <1>3, PTL DEF Spec
=============================================================================
