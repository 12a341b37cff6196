---------------------------- MODULE ArenaProofs ----------------------------
(***************************************************************************)
(* Proofs about Arena for any players, sizes of the list and bounds.       *)
(***************************************************************************)
EXTENDS Arena, FiniteSetTheorems, SequenceTheorems, WellFoundedInduction, TLAPS

-----------------------------------------------------------------------------
(* Sets of numbers.                                                        *)

\* A set of numbers that is not empty has a smallest element.
LEMMA Least ==
  ASSUME NEW S, S \subseteq Nat, S # {}
  PROVE  \E m \in S : \A k \in S : m <= k
<1>1. PICK m \in S : \A k \in S : ~ (<<k, m>> \in OpToRel(<, Nat))
  BY NatLessThanWellFounded, WFMin
<1>2. ASSUME NEW k \in S
      PROVE  m <= k
  <2>1. k \in Nat /\ m \in Nat
    OBVIOUS
  <2>2. <<k, m>> \notin {xy \in Nat \X Nat : xy[1] < xy[2]}
    BY <1>1 DEF OpToRel
  <2>3. QED
    BY <2>1, <2>2
<1>3. QED
  BY <1>2

LEMMA MinIs ==
  ASSUME NEW S, S \subseteq Nat, S # {}
  PROVE  Min(S) \in S /\ \A x \in S : Min(S) <= x
<1>1. \E m \in S : \A k \in S : m <= k
  BY Least
<1>2. QED
  BY <1>1 DEF Min

\* And one below a bound has a greatest.
LEMMA MaxIs ==
  ASSUME NEW S, NEW n \in Nat, S \subseteq 0..n, S # {}
  PROVE  Max(S) \in S /\ \A x \in S : x <= Max(S)
<1> DEFINE U == {m \in Nat : \A x \in S : x <= m}
<1>1. U \subseteq Nat /\ n \in U
  OBVIOUS
<1>2. PICK m \in U : \A k \in U : m <= k
  <2> HIDE DEF U
  <2>1. QED
    BY <1>1, Least
<1>3. m \in Nat /\ \A x \in S : x \in Nat /\ x <= m
  OBVIOUS
<1>4. m \in S
  <2> SUFFICES ASSUME m \notin S PROVE FALSE
    OBVIOUS
  <2>1. \A x \in S : x <= m - 1
    BY <1>3
  <2>2. m - 1 \in Nat
    <3>1. PICK x \in S : TRUE
      OBVIOUS
    <3>2. x \in Nat /\ x <= m - 1
      BY <1>3, <2>1
    <3>3. QED
      BY <1>3, <3>2
  <2>3. m - 1 \in U
    BY <2>1, <2>2
  <2>4. m <= m - 1
    BY <1>2, <2>3
  <2>5. QED
    BY <1>3, <2>4
<1>5. \E x \in S : \A y \in S : x >= y
  BY <1>3, <1>4
<1>6. Max(S) \in S /\ \A y \in S : Max(S) >= y
  BY <1>5 DEF Max
<1>7. QED
  BY <1>3, <1>6

-----------------------------------------------------------------------------
(* The four that are offered.                                              *)

\* Four numbers, no two of them the same.
IsFour(q) == q = <<q[1], q[2], q[3], q[4]>> /\ \A i \in 1..4 : q[i] \in Nat
Apart4(q) == \A i, j \in 1..4 : q[i] = q[j] => i = j

\* Those drawn: none is the own rank, and none is below it but for the first.
AreDrawn(q, rank) ==
  /\ IsFour(q) /\ 1 <= q[1] /\ q[1] < q[2] /\ q[2] < q[3] /\ q[3] < q[4]
  /\ \A i \in 1..4 : q[i] # rank
  /\ q[4] < rank \/ q[4] <= 5

LEMMA SharesApart ==
  ASSUME NEW rank \in Nat, rank > 4,
         NEW a \in Share(rank, 1), NEW b \in Share(rank, 2), NEW c \in Share(rank, 3), NEW d \in Share(rank, 4)
  PROVE  {a, b, c, d} \subseteq Nat /\ 1 <= a /\ a < b /\ b < c /\ c < d /\ d < rank
<1> DEFINE F == From(rank)
           T == To(rank)
<1>1. \A n \in Nat : Part(rank, n) \in Nat
  BY DEF Part
<1>2. \A x, y \in Nat : \A z \in TRand(x, y) : z \in Nat /\ x <= z /\ (z = x \/ z < y)
  BY DEF TRand
<1>3. CASE rank > 400
  <2>1. F = <<50, 65, 80, 90>> /\ T = <<55, 70, 85, 95>>
    BY <1>3 DEF From, To
  <2>2. /\ a \in TRand(Part(rank, 50), Part(rank, 55)) /\ b \in TRand(Part(rank, 65), Part(rank, 70))
        /\ c \in TRand(Part(rank, 80), Part(rank, 85)) /\ d \in TRand(Part(rank, 90), Part(rank, 95))
    BY <2>1 DEF Share
  <2>3. QED
    BY <1>1, <1>2, <1>3, <2>2 DEF Part
<1>4. CASE rank >= 11 /\ ~ rank > 400
  <2>1. F = <<30, 45, 65, 85>> /\ T = <<35, 55, 75, 95>>
    BY <1>4 DEF From, To
  <2>2. /\ a \in TRand(Part(rank, 30), Part(rank, 35)) /\ b \in TRand(Part(rank, 45), Part(rank, 55))
        /\ c \in TRand(Part(rank, 65), Part(rank, 75)) /\ d \in TRand(Part(rank, 85), Part(rank, 95))
    BY <2>1 DEF Share
  <2>3. QED
    BY <1>1, <1>2, <1>4, <2>2 DEF Part
<1>5. CASE ~ rank >= 11
  <2>1. F = <<20, 45, 65, 90>> /\ T = <<35, 55, 75, 90>>
    BY <1>5 DEF From, To
  <2>2. /\ a \in TRand(Part(rank, 20), Part(rank, 35)) /\ b \in TRand(Part(rank, 45), Part(rank, 55))
        /\ c \in TRand(Part(rank, 65), Part(rank, 75)) /\ d \in TRand(Part(rank, 90), Part(rank, 90))
    BY <2>1 DEF Share
  <2>3. QED
    BY <1>1, <1>2, <1>5, <2>2 DEF Part
<1>6. QED
  BY <1>3, <1>4, <1>5

LEMMA DrawnIs ==
  ASSUME NEW rank \in Nat, rank # 0, NEW q \in Drawn(rank)
  PROVE  AreDrawn(q, rank)
<1>1. CASE rank <= 4
  <2>1. q = [i \in 1..4 |-> IF i < rank THEN i ELSE i + 1]
    BY <1>1 DEF Drawn
  <2>2. rank = 1 \/ rank = 2 \/ rank = 3 \/ rank = 4
    BY <1>1
  <2>3. \A i \in 1..4 : q[i] = IF i < rank THEN i ELSE i + 1
    BY <2>1
  <2>4. q \in [1..4 -> Nat]
    BY <2>1
  <2>5. q = <<q[1], q[2], q[3], q[4]>>
    BY <2>4
  <2> HIDE <2>1
  <2>6. /\ 1 <= q[1] /\ q[1] < q[2] /\ q[2] < q[3] /\ q[3] < q[4]
        /\ (\A i \in 1..4 : q[i] \in Nat /\ q[i] # rank) /\ q[4] <= 5
    BY <2>2, <2>3
  <2>7. QED
    BY <2>5, <2>6 DEF AreDrawn, IsFour
<1>2. CASE rank > 4
  <2>1. PICK a \in Share(rank, 1), b \in Share(rank, 2), c \in Share(rank, 3), d \in Share(rank, 4) :
          q = <<a, b, c, d>>
    BY <1>2 DEF Drawn
  <2>2. a \in Nat /\ b \in Nat /\ c \in Nat /\ d \in Nat /\ 1 <= a /\ a < b /\ b < c /\ c < d /\ d < rank
    BY <1>2, SharesApart
  <2>3. q[1] = a /\ q[2] = b /\ q[3] = c /\ q[4] = d
    BY <2>1
  <2>4. \A i \in 1..4 : i = 1 \/ i = 2 \/ i = 3 \/ i = 4
    OBVIOUS
  <2>5. q = <<q[1], q[2], q[3], q[4]>>
    BY <2>1, <2>3
  <2> HIDE <2>1
  <2>6. \A i \in 1..4 : q[i] \in Nat /\ q[i] # rank
    BY <2>2, <2>3, <2>4
  <2>7. QED
    BY <2>2, <2>3, <2>5, <2>6 DEF AreDrawn, IsFour
<1>3. QED
  BY <1>1, <1>2

\* One that is free is not moved.
LEMMA BelowFree ==
  ASSUME NEW r \in Nat, NEW taken, r \notin taken
  PROVE  Below(r, taken) = r
<1> DEFINE S == {x \in r..(r + 5) : x \notin taken}
<1>1. S \subseteq Nat /\ r \in S /\ \A x \in S : r <= x
  OBVIOUS
<1>2. Min(S) \in S /\ \A x \in S : Min(S) <= x
  <2> HIDE DEF S
  <2>1. QED
    BY <1>1, MinIs
<1>3. Min(S) \in Nat /\ Min(S) <= r /\ r <= Min(S)
  <2> HIDE DEF S
  <2>1. QED
    BY <1>1, <1>2
<1>4. Min(S) = r
  BY <1>3
<1>5. QED
  BY <1>4 DEF Below

\* What is drawn stays as it is.
LEMMA GetRankIs ==
  ASSUME NEW rank \in Nat, rank # 0, NEW four \in GetRank(rank)
  PROVE  AreDrawn(four, rank)
<1>1. PICK q \in Drawn(rank) : four = NotOneself(rank, Apart(q))
  BY DEF GetRank
<1>2. AreDrawn(q, rank)
  BY <1>1, DrawnIs
<1>3. q = <<q[1], q[2], q[3], q[4]>> /\ q[1] \in Nat /\ q[2] \in Nat /\ q[3] \in Nat /\ q[4] \in Nat
  BY <1>2 DEF AreDrawn, IsFour
<1>4. q \in [1..4 -> Nat]
  BY <1>3
<1>5. q[1] < q[2] /\ q[2] < q[3] /\ q[3] < q[4] /\ \A i \in 1..4 : q[i] # rank
  BY <1>2 DEF AreDrawn
<1>6. \A i \in {2, 3, 4} : PastFirst(q, i) = q
  <2> SUFFICES ASSUME NEW i \in {2, 3, 4} PROVE PastFirst(q, i) = q
    OBVIOUS
  <2> DEFINE taken == {q[j] : j \in 1..(i - 1)}
  <2>1. q[i] \notin taken
    <3>1. \A j \in 1..(i - 1) : j \in {1, 2, 3} /\ j < i
      OBVIOUS
    <3>2. \A j \in 1..(i - 1) : q[j] # q[i]
      BY <1>3, <1>5, <3>1
    <3>3. QED
      BY <3>2
  <2>2. q[i] \in Nat
    BY <1>4
  <2>3. Below(q[i], taken) = q[i]
    <3> HIDE DEF taken
    <3>1. QED
      BY <2>1, <2>2, BelowFree
  <2>4. PastFirst(q, i) = [q EXCEPT ![i] = q[i]]
    BY <2>3, Zenon DEF PastFirst
  <2>5. QED
    BY <1>4, <2>4
<1>7. Apart(q) = q
  BY <1>6 DEF Apart
<1>8. \A i \in {1, 2, 3, 4} : PastOwn(rank, q, i) = q
  BY <1>5 DEF PastOwn
<1>9. NotOneself(rank, q) = q
  BY <1>8 DEF NotOneself
<1>10. QED
  BY <1>1, <1>2, <1>7, <1>9

-----------------------------------------------------------------------------
(* The memory of the arena, field by field.                                *)

IsMem(w) ==
  w = [info |-> w.info, rank_map |-> w.rank_map, id_rank |-> w.id_rank, target_guid |-> w.target_guid,
       load_log |-> w.load_log, count |-> w.count, user |-> w.user, out |-> w.out]

LEMMA InfoFields ==
  ASSUME NEW w, IsMem(w), NEW x, NEW v, v = [w EXCEPT !.info = x]
  PROVE  /\ IsMem(v) /\ v.info = x
         /\ v.rank_map = w.rank_map /\ v.id_rank = w.id_rank /\ v.target_guid = w.target_guid /\ v.load_log = w.load_log
         /\ v.count = w.count /\ v.user = w.user /\ v.out = w.out
BY DEF IsMem

LEMMA OutFields ==
  ASSUME NEW w, IsMem(w), NEW x, NEW v, v = [w EXCEPT !.out = x]
  PROVE  /\ IsMem(v) /\ v.out = x
         /\ v.info = w.info /\ v.rank_map = w.rank_map /\ v.id_rank = w.id_rank /\ v.target_guid = w.target_guid
         /\ v.load_log = w.load_log /\ v.count = w.count /\ v.user = w.user
BY DEF IsMem

LEMMA UserFields ==
  ASSUME NEW w, IsMem(w), NEW x, NEW v, v = [w EXCEPT !.user = x]
  PROVE  /\ IsMem(v) /\ v.user = x
         /\ v.info = w.info /\ v.rank_map = w.rank_map /\ v.id_rank = w.id_rank /\ v.target_guid = w.target_guid
         /\ v.load_log = w.load_log /\ v.count = w.count /\ v.out = w.out
BY DEF IsMem

LEMMA CountFields ==
  ASSUME NEW w, IsMem(w), NEW x, NEW v, v = [w EXCEPT !.count = x]
  PROVE  /\ IsMem(v) /\ v.count = x
         /\ v.info = w.info /\ v.rank_map = w.rank_map /\ v.id_rank = w.id_rank /\ v.target_guid = w.target_guid
         /\ v.load_log = w.load_log /\ v.user = w.user /\ v.out = w.out
BY DEF IsMem

LEMMA GuidFields ==
  ASSUME NEW w, IsMem(w), NEW x, NEW v, v = [w EXCEPT !.target_guid = x]
  PROVE  /\ IsMem(v) /\ v.target_guid = x
         /\ v.info = w.info /\ v.rank_map = w.rank_map /\ v.id_rank = w.id_rank /\ v.load_log = w.load_log
         /\ v.count = w.count /\ v.user = w.user /\ v.out = w.out
BY DEF IsMem

LEMMA PlaceIs ==
  ASSUME NEW w, IsMem(w), NEW r, NEW id, NEW v, v = Place(w, r, id)
  PROVE  /\ IsMem(v) /\ v.rank_map = Put(w.rank_map, r, id) /\ v.id_rank = Put(w.id_rank, id, r)
         /\ v.info = w.info /\ v.target_guid = w.target_guid /\ v.load_log = w.load_log
         /\ v.count = w.count /\ v.user = w.user /\ v.out = w.out
<1>1. v = [w EXCEPT !.rank_map = Put(w.rank_map, r, id), !.id_rank = Put(w.id_rank, id, r)]
  BY Zenon DEF Place
<1>2. PICK x, y : x = Put(w.rank_map, r, id) /\ y = Put(w.id_rank, id, r)
  OBVIOUS
<1>3. v = [w EXCEPT !.rank_map = x, !.id_rank = y]
  BY <1>1, <1>2
<1>4. /\ IsMem(v) /\ v.rank_map = x /\ v.id_rank = y
      /\ v.info = w.info /\ v.target_guid = w.target_guid /\ v.load_log = w.load_log
      /\ v.count = w.count /\ v.user = w.user /\ v.out = w.out
  BY <1>3 DEF IsMem
<1>5. QED
  BY <1>2, <1>4

LEMMA InfoIs ==
  ASSUME NEW w, IsMem(w), NEW p, NEW i, NEW v, v = set_info_data(w, p, i)
  PROVE  /\ IsMem(v) /\ v.info = Put(w.info, p, i)
         /\ v.rank_map = w.rank_map /\ v.id_rank = w.id_rank /\ v.target_guid = w.target_guid /\ v.load_log = w.load_log
         /\ v.count = w.count /\ v.user = w.user /\ v.out = w.out
<1>1. PICK x : x = Put(w.info, p, i)
  OBVIOUS
<1>2. v = [w EXCEPT !.info = x]
  BY <1>1 DEF set_info_data
<1>3. QED
  BY <1>1, <1>2, InfoFields

LEMMA UserIs ==
  ASSUME NEW w, IsMem(w), NEW p, NEW u, NEW v, v = SetUser(w, p, u)
  PROVE  /\ IsMem(v) /\ v.user = Put(w.user, p, u)
         /\ v.info = w.info /\ v.rank_map = w.rank_map /\ v.id_rank = w.id_rank /\ v.target_guid = w.target_guid
         /\ v.load_log = w.load_log /\ v.count = w.count /\ v.out = w.out
<1>1. PICK x : x = Put(w.user, p, u)
  OBVIOUS
<1>2. v = [w EXCEPT !.user = x]
  BY <1>1 DEF SetUser
<1>3. QED
  BY <1>1, <1>2, UserFields

Behind(q, msgs) == q \o msgs

LEMMA WriteIs ==
  ASSUME NEW w, IsMem(w), NEW msgs, NEW v, v = Write(w, msgs)
  PROVE  /\ IsMem(v) /\ v.out = Behind(w.out, msgs)
         /\ v.info = w.info /\ v.rank_map = w.rank_map /\ v.id_rank = w.id_rank /\ v.target_guid = w.target_guid
         /\ v.load_log = w.load_log /\ v.count = w.count /\ v.user = w.user
<1>1. PICK x : x = Behind(w.out, msgs)
  OBVIOUS
<1>2. v = [w EXCEPT !.out = x]
  BY <1>1 DEF Write, Behind
<1>3. /\ IsMem(v) /\ v.out = x
      /\ v.info = w.info /\ v.rank_map = w.rank_map /\ v.id_rank = w.id_rank /\ v.target_guid = w.target_guid
      /\ v.load_log = w.load_log /\ v.count = w.count /\ v.user = w.user
  BY <1>2, OutFields
<1>4. QED
  BY <1>1, <1>3

-----------------------------------------------------------------------------
(* The fakes.                                                              *)

LEMMA CreateIs ==
  ASSUME NEW w, IsMem(w), NEW r, r \notin DOMAIN w.rank_map, NEW v, v = CreateOpponent(w, r)
  PROVE  LET id == w.target_guid + 1
         IN /\ IsMem(v) /\ v.rank_map = Put(w.rank_map, r, id) /\ v.id_rank = Put(w.id_rank, id, r)
            /\ v.target_guid = id
            /\ v.info = w.info /\ v.load_log = w.load_log /\ v.count = w.count /\ v.user = w.user /\ v.out = w.out
<1>1. PICK id : id = w.target_guid + 1
  OBVIOUS
<1>2. PICK x : x = [w EXCEPT !.target_guid = id]
  OBVIOUS
<1>3. v = Place(x, r, id)
  BY <1>1, <1>2 DEF CreateOpponent
<1>4. /\ IsMem(x) /\ x.target_guid = id
      /\ x.info = w.info /\ x.rank_map = w.rank_map /\ x.id_rank = w.id_rank
      /\ x.load_log = w.load_log /\ x.count = w.count /\ x.user = w.user /\ x.out = w.out
  BY <1>2, GuidFields
<1>5. /\ IsMem(v) /\ v.rank_map = Put(x.rank_map, r, id) /\ v.id_rank = Put(x.id_rank, id, r)
      /\ v.info = x.info /\ v.target_guid = x.target_guid /\ v.load_log = x.load_log
      /\ v.count = x.count /\ v.user = x.user /\ v.out = x.out
  BY <1>3, <1>4, PlaceIs
<1>6. QED
  BY <1>1, <1>4, <1>5

\* The numbers of the fakes made in between.
New(w, v) == (w.target_guid + 1) .. v.target_guid

\* Some fakes more, each with a number and a place of its own.
Grown(w, v) ==
  /\ IsMem(v) /\ v.info = w.info /\ v.load_log = w.load_log /\ v.count = w.count /\ v.user = w.user /\ v.out = w.out
  /\ v.target_guid \in Nat /\ w.target_guid <= v.target_guid
  /\ \A r \in DOMAIN w.rank_map : r \in DOMAIN v.rank_map /\ v.rank_map[r] = w.rank_map[r]
  /\ \A r \in DOMAIN v.rank_map \ DOMAIN w.rank_map :
       v.rank_map[r] \in New(w, v) /\ v.id_rank[v.rank_map[r]] = r
  /\ DOMAIN v.id_rank = DOMAIN w.id_rank \cup New(w, v)
  /\ \A id \in DOMAIN w.id_rank \ New(w, v) : v.id_rank[id] = w.id_rank[id]
  /\ \A id \in New(w, v) :
       v.id_rank[id] \in DOMAIN v.rank_map \ DOMAIN w.rank_map /\ v.rank_map[v.id_rank[id]] = id

LEMMA GrownSelf ==
  ASSUME NEW w, IsMem(w), w.target_guid \in Nat
  PROVE  Grown(w, w)
<1>1. New(w, w) = {}
  BY DEF New
<1>2. QED
  BY <1>1 DEF Grown

LEMMA GrowsBy ==
  ASSUME NEW w, w.target_guid \in Nat, NEW x, Grown(w, x), NEW r, NEW v, v = CreateOpponent(x, r)
  PROVE  Grown(w, v) /\ DOMAIN v.rank_map = DOMAIN x.rank_map \cup {r}
<1>1. CASE r \in DOMAIN x.rank_map
  <2>1. v = x
    BY <1>1 DEF CreateOpponent
  <2>2. QED
    BY <1>1, <2>1
<1>2. CASE r \notin DOMAIN x.rank_map
  <2>1. IsMem(x) /\ x.target_guid \in Nat /\ w.target_guid <= x.target_guid
    BY DEF Grown
  <2>2. PICK id : id = x.target_guid + 1
    OBVIOUS
  <2>3. /\ IsMem(v) /\ v.rank_map = Put(x.rank_map, r, id) /\ v.id_rank = Put(x.id_rank, id, r)
        /\ v.target_guid = id
        /\ v.info = x.info /\ v.load_log = x.load_log /\ v.count = x.count /\ v.user = x.user /\ v.out = x.out
    BY <1>2, <2>1, <2>2, CreateIs
  <2>4. New(w, v) = New(w, x) \cup {id} /\ id \notin New(w, x)
    BY <2>1, <2>2, <2>3 DEF New
  <2>5. /\ DOMAIN v.rank_map = DOMAIN x.rank_map \cup {r} /\ v.rank_map[r] = id
        /\ \A z \in DOMAIN x.rank_map : v.rank_map[z] = x.rank_map[z]
    BY <1>2, <2>3 DEF Put
  <2>6. /\ DOMAIN v.id_rank = DOMAIN x.id_rank \cup {id} /\ v.id_rank[id] = r
        /\ \A z \in DOMAIN x.id_rank : z # id => v.id_rank[z] = x.id_rank[z]
    BY <2>3 DEF Put
  <2>7. /\ v.info = w.info /\ v.load_log = w.load_log /\ v.count = w.count /\ v.user = w.user /\ v.out = w.out
        /\ v.target_guid \in Nat /\ w.target_guid <= v.target_guid
    BY <2>1, <2>2, <2>3 DEF Grown
  <2>8. \A z \in DOMAIN w.rank_map : z \in DOMAIN v.rank_map /\ v.rank_map[z] = w.rank_map[z]
    BY <2>5 DEF Grown
  <2>9. \A z \in DOMAIN v.rank_map \ DOMAIN w.rank_map : v.rank_map[z] \in New(w, v) /\ v.id_rank[v.rank_map[z]] = z
    <3>1. ASSUME NEW z \in DOMAIN x.rank_map \ DOMAIN w.rank_map
          PROVE  v.rank_map[z] \in New(w, v) /\ v.id_rank[v.rank_map[z]] = z
      <4>1. x.rank_map[z] \in New(w, x) /\ x.id_rank[x.rank_map[z]] = z /\ x.rank_map[z] \in DOMAIN x.id_rank
        BY DEF Grown
      <4>2. QED
        BY <2>4, <2>5, <2>6, <4>1
    <3>2. QED
      BY <2>4, <2>5, <2>6, <3>1
  <2>10. DOMAIN v.id_rank = DOMAIN w.id_rank \cup New(w, v)
    BY <2>4, <2>6 DEF Grown
  <2>11. \A z \in DOMAIN w.id_rank \ New(w, v) : v.id_rank[z] = w.id_rank[z]
    BY <2>4, <2>6 DEF Grown
  <2>12. \A z \in New(w, v) : v.id_rank[z] \in DOMAIN v.rank_map \ DOMAIN w.rank_map /\ v.rank_map[v.id_rank[z]] = z
    <3>1. ASSUME NEW z \in New(w, x)
          PROVE  v.id_rank[z] \in DOMAIN v.rank_map \ DOMAIN w.rank_map /\ v.rank_map[v.id_rank[z]] = z
      <4>1. /\ x.id_rank[z] \in DOMAIN x.rank_map \ DOMAIN w.rank_map /\ x.rank_map[x.id_rank[z]] = z
            /\ z \in DOMAIN x.id_rank
        BY DEF Grown
      <4>2. QED
        BY <2>4, <2>5, <2>6, <4>1
    <3>2. r \notin DOMAIN w.rank_map
      BY <1>2 DEF Grown
    <3>3. QED
      BY <2>4, <2>5, <2>6, <3>1, <3>2
  <2>13. Grown(w, v)
    BY <2>3, <2>7, <2>8, <2>9, <2>10, <2>11, <2>12 DEF Grown
  <2>14. QED
    BY <2>5, <2>13
<1>3. QED
  BY <1>1, <1>2

\* What the start has and every round keeps, all rounds have.
LEMMA RoundsKeep ==
  ASSUME NEW D, NEW n \in Nat, NEW f, f[0] \in D, \A i \in 1..n : f[i - 1] \in D => f[i] \in D
  PROVE  \A m \in 0..n : f[m] \in D
<1> DEFINE S == {m \in 0..n : f[m] \notin D}
<1> SUFFICES ASSUME S # {} PROVE FALSE
  OBVIOUS
<1>1. PICK m \in S : \A k \in S : m <= k
  <2>1. S \in SUBSET Nat
    OBVIOUS
  <2> HIDE DEF S
  <2>2. QED
    BY <2>1, Least
<1>2. m \in 0..n /\ f[m] \notin D
  OBVIOUS
<1>3. m # 0
  BY <1>2
<1>4. m - 1 \in 0..n /\ m - 1 \notin S /\ m \in 1..n
  BY <1>1, <1>2, <1>3
<1>5. QED
  BY <1>2, <1>4

IsFilled(f, w, ranks, n) ==
  f = [i \in 0..n |-> IF i = 0 THEN w ELSE CreateOpponent(f[i - 1], ranks[i])]

LEMMA FilledExists ==
  ASSUME NEW w, NEW ranks, NEW n \in Nat
  PROVE  \E f : IsFilled(f, w, ranks, n)
<1> DEFINE S == {m \in Nat : ~ \E f : IsFilled(f, w, ranks, m)}
<1> SUFFICES ASSUME n \in S PROVE FALSE
  OBVIOUS
<1>1. PICK m \in S : \A k \in S : m <= k
  <2>1. S \in SUBSET Nat /\ S # {}
    OBVIOUS
  <2> HIDE DEF S
  <2>2. QED
    BY <2>1, Least
<1>2. CASE m = 0
  <2> DEFINE f == [i \in 0..0 |-> w]
  <2>1. f = [i \in 0..0 |-> IF i = 0 THEN w ELSE CreateOpponent(f[i - 1], ranks[i])]
    OBVIOUS
  <2>2. IsFilled(f, w, ranks, m)
    BY <1>2, <2>1 DEF IsFilled
  <2>3. QED
    BY <2>2
<1>3. CASE m # 0
  <2>1. m - 1 \in Nat /\ m - 1 \notin S
    BY <1>1, <1>3
  <2>2. PICK r : IsFilled(r, w, ranks, m - 1)
    BY <2>1
  <2>3. \A i \in 0..(m - 1) : r[i] = IF i = 0 THEN w ELSE CreateOpponent(r[i - 1], ranks[i])
    BY <2>2, Zenon DEF IsFilled
  <2> DEFINE f == [i \in 0..m |-> IF i = m THEN CreateOpponent(r[m - 1], ranks[m]) ELSE r[i]]
  <2>4. ASSUME NEW i \in 0..m
        PROVE  f[i] = IF i = 0 THEN w ELSE CreateOpponent(f[i - 1], ranks[i])
    <3>1. CASE i = m
      <4>1. m \in 0..m /\ m - 1 \in 0..m /\ m - 1 # m
        BY <2>1
      <4>2. f[m] = CreateOpponent(r[m - 1], ranks[m]) /\ f[m - 1] = r[m - 1]
        BY <4>1
      <4>3. QED
        BY <1>3, <3>1, <4>2
    <3>2. CASE i # m
      <4>1. i \in 0..(m - 1) /\ (i # 0 => i - 1 \in 0..m /\ i - 1 # m)
        BY <3>2
      <4>2. f[i] = r[i] /\ (i # 0 => f[i - 1] = r[i - 1])
        BY <3>2, <4>1
      <4>3. QED
        BY <2>3, <4>1, <4>2
    <3>3. QED
      BY <3>1, <3>2
  <2>5. f = [i \in 0..m |-> f[i]]
    OBVIOUS
  <2> HIDE DEF f
  <2>6. [i \in 0..m |-> f[i]] = [i \in 0..m |-> IF i = 0 THEN w ELSE CreateOpponent(f[i - 1], ranks[i])]
    BY <2>4
  <2>7. IsFilled(f, w, ranks, m)
    BY <2>5, <2>6 DEF IsFilled
  <2>8. QED
    BY <2>7
<1>4. QED
  BY <1>2, <1>3

LEMMA FilledIs ==
  ASSUME NEW w, IsMem(w), w.target_guid \in Nat, NEW ranks, NEW n \in Nat, Len(ranks) = n
  PROVE  /\ Grown(w, Filled(w, ranks))
         /\ \A r : r \in DOMAIN Filled(w, ranks).rank_map <=> r \in DOMAIN w.rank_map \/ \E i \in 1..n : r = ranks[i]
<1> DEFINE made == CHOOSE f : IsFilled(f, w, ranks, n)
<1>1. IsFilled(made, w, ranks, n)
  BY FilledExists
<1>2. Filled(w, ranks) = made[n]
  BY Zenon DEF Filled, IsFilled
<1>3. \A k \in 0..n : made[k] = IF k = 0 THEN w ELSE CreateOpponent(made[k - 1], ranks[k])
  BY <1>1, Zenon DEF IsFilled
<1> HIDE DEF made
<1> DEFINE Is(v, k) ==
             /\ Grown(w, v)
             /\ \A r : r \in DOMAIN v.rank_map <=> r \in DOMAIN w.rank_map \/ \E i \in 1..k : r = ranks[i]
<1>4. Is(w, 0)
  BY GrownSelf
<1>5. ASSUME NEW k \in 1..n, NEW x, Is(x, k - 1)
      PROVE  Is(CreateOpponent(x, ranks[k]), k)
  <2>1. PICK v : v = CreateOpponent(x, ranks[k])
    OBVIOUS
  <2>2. Grown(w, x)
    BY <1>5
  <2>3. Grown(w, v) /\ DOMAIN v.rank_map = DOMAIN x.rank_map \cup {ranks[k]}
    BY <2>1, <2>2, GrowsBy
  <2>4. \A i : i \in 1..k <=> i \in 1..(k - 1) \/ i = k
    OBVIOUS
  <2>5. \A r : r \in DOMAIN v.rank_map <=> r \in DOMAIN w.rank_map \/ \E i \in 1..k : r = ranks[i]
    BY <1>5, <2>3, <2>4
  <2>6. QED
    BY <2>1, <2>3, <2>5
<1> HIDE DEF Is
<1> DEFINE good == [k \in 0..n |-> IF Is(made[k], k) THEN 1 ELSE 0]
<1> DEFINE E == {1}
<1>6. good[0] \in E /\ \A i \in 1..n : good[i - 1] \in E => good[i] \in E
  <2>1. good[0] \in E
    <3>1. 0 \in 0..n /\ made[0] = w
      BY <1>3
    <3>2. QED
      BY <1>4, <3>1
  <2>2. ASSUME NEW i \in 1..n, good[i - 1] \in E
        PROVE  good[i] \in E
    <3>1. i \in 0..n /\ i # 0 /\ i - 1 \in 0..n
      OBVIOUS
    <3>2. Is(made[i - 1], i - 1) /\ made[i] = CreateOpponent(made[i - 1], ranks[i])
      BY <1>3, <2>2, <3>1
    <3>3. Is(made[i], i)
      BY <1>5, <3>2
    <3>4. QED
      BY <3>1, <3>3
  <2>3. QED
    BY <2>1, <2>2
<1>7. \A k \in 0..n : good[k] \in E
  <2> HIDE DEF E, good
  <2>1. QED
    BY <1>6, RoundsKeep
<1>8. Is(made[n], n)
  <2>1. n \in 0..n
    OBVIOUS
  <2>2. QED
    BY <1>7, <2>1
<1>9. QED
  BY <1>2, <1>8 DEF Is

\* Of four numbers one is none of three.
LEMMA OneLeft ==
  ASSUME NEW L \in Nat, L >= 3, NEW a, NEW b, NEW c
  PROVE  \E t \in Nat : L - 3 <= t /\ t <= L /\ t # a /\ t # b /\ t # c
<1>1. L \in Nat /\ L - 1 \in Nat /\ L - 2 \in Nat /\ L - 3 \in Nat
  OBVIOUS
<1>2. L # L - 1 /\ L # L - 2 /\ L # L - 3 /\ L - 1 # L - 2 /\ L - 1 # L - 3 /\ L - 2 # L - 3
  OBVIOUS
<1>3. \E t \in {L, L - 1, L - 2, L - 3} : t # a /\ t # b /\ t # c
  BY <1>2
<1>4. QED
  BY <1>1, <1>3

OthersIn(q, i, a, b, c) == Others(q, i) = {a, b, c}

LEMMA ThreeOthers ==
  ASSUME NEW q, NEW i \in 1..4
  PROVE  \E a, b, c : OthersIn(q, i, a, b, c)
<1>1. i = 1 => OthersIn(q, i, q[2], q[3], q[4])
  BY DEF OthersIn, Others
<1>2. i = 2 => OthersIn(q, i, q[1], q[3], q[4])
  BY DEF OthersIn, Others
<1>3. i = 3 => OthersIn(q, i, q[1], q[2], q[4])
  BY DEF OthersIn, Others
<1>4. i = 4 => OthersIn(q, i, q[1], q[2], q[3])
  BY DEF OthersIn, Others
<1>5. QED
  BY <1>1, <1>2, <1>3, <1>4

\* Four places, the own not among them.
Aside(q, rank) == IsFour(q) /\ Apart4(q) /\ \A i \in 1..4 : q[i] # rank /\ q[i] <= LastRank

\* Players stand at b at the lowest, and the place behind them is the lowest anyone has.
Above(w, b) == \A r \in DOMAIN w.rank_map : w.rank_map[r] \in Players => r <= b

LEMMA OneFake ==
  ASSUME NEW w, NEW b \in Nat, Above(w, b), b + 5 <= LastRank, NEW rank \in Nat, rank <= b + 1,
         NEW q, Aside(q, rank), NEW i \in 1..4, NEW v, v = CheackFirstRank(w, rank, q, i)
  PROVE  /\ Aside(v, rank) /\ \A j \in 1..4 : j # i => v[j] = q[j]
         /\ ~IsReal(w, v[i]) /\ (v[i] <= q[i] \/ v[i] > b + 1)
<1> DEFINE fake(r) == r \notin Others(q, i) \cup {rank} /\ ~IsReal(w, r)
           above == {r \in 0..(q[i] - 1) : fake(r)}
           below == {r \in q[i]..LastRank : fake(r)}
<1>1. /\ q = <<q[1], q[2], q[3], q[4]>> /\ (\A j \in 1..4 : q[j] \in Nat /\ q[j] # rank /\ q[j] <= LastRank)
      /\ \A j, k \in 1..4 : q[j] = q[k] => j = k
  BY DEF Aside, IsFour, Apart4
<1>2. LastRank \in Nat
  BY ArenaAssumption
<1>3. CASE ~IsReal(w, q[i])
  <2>1. v = q
    BY <1>3 DEF CheackFirstRank
  <2>2. QED
    BY <1>1, <1>3, <2>1
<1>4. CASE IsReal(w, q[i])
  <2>1. q[i] <= b
    BY <1>4 DEF IsReal, Above
  <2>2. v = [q EXCEPT ![i] = Max(IF above # {} THEN above ELSE below)]
    BY <1>4, Zenon DEF CheackFirstRank
  <2>3. PICK m : m = Max(IF above # {} THEN above ELSE below)
    OBVIOUS
  <2>4. \A r : fake(r) => r # rank /\ ~IsReal(w, r) /\ \A j \in 1..4 : j # i => r # q[j]
    BY DEF Others
  <2>5. m \in Nat /\ m <= LastRank /\ fake(m) /\ (m <= q[i] \/ m > b + 1)
    <3>1. CASE above # {}
      <4>1. above \subseteq 0..LastRank
        BY <1>1, <1>2
      <4>2. m \in above
        <5>1. m = Max(above)
          BY <2>3, <3>1
        <5> HIDE DEF above
        <5>2. QED
          BY <1>2, <3>1, <4>1, <5>1, MaxIs
      <4> HIDE DEF fake
      <4>3. m \in 0..(q[i] - 1) /\ fake(m)
        BY <4>2
      <4>4. QED
        BY <1>1, <1>2, <4>3
    <3>2. CASE above = {}
      <4>1. PICK x, y, z : OthersIn(q, i, x, y, z)
        BY ThreeOthers
      <4>2. PICK t \in Nat : LastRank - 3 <= t /\ t <= LastRank /\ t # x /\ t # y /\ t # z
        <5>1. LastRank >= 3
          BY <1>2
        <5> HIDE DEF fake, above, below
        <5>2. QED
          BY <1>2, <5>1, OneLeft
      <4>3. t > b + 1 /\ t # rank /\ t >= q[i]
        BY <1>1, <1>2, <2>1, <4>2
      <4>4. ~IsReal(w, t)
        BY <4>3 DEF IsReal, Above
      <4>5. t \in below
        BY <1>1, <1>2, <4>1, <4>2, <4>3, <4>4 DEF OthersIn
      <4>6. below \subseteq 0..LastRank
        BY <1>1, <1>2
      <4>7. m = Max(below)
        BY <2>3, <3>2
      <4>8. m \in below /\ t <= m
        <5> HIDE DEF below
        <5>1. QED
          BY <1>2, <4>5, <4>6, <4>7, MaxIs
      <4> HIDE DEF fake
      <4>9. m \in q[i]..LastRank /\ fake(m)
        BY <4>8
      <4>10. m \in Nat /\ m <= LastRank
        BY <1>1, <1>2, <4>9
      <4>11. m > b + 1
        BY <4>3, <4>8, <4>10
      <4>12. QED
        BY <4>9, <4>10, <4>11
    <3>3. QED
      BY <3>1, <3>2
  <2>6. v = [q EXCEPT ![i] = m]
    BY <2>2, <2>3
  <2>7. q \in [1..4 -> Nat]
    BY <1>1
  <2>8. v \in [1..4 -> Nat] /\ v[i] = m /\ \A j \in 1..4 : j # i => v[j] = q[j]
    BY <2>5, <2>6, <2>7
  <2> HIDE DEF fake
  <2>9. m # rank /\ ~IsReal(w, m) /\ \A j \in 1..4 : j # i => m # q[j]
    BY <2>4, <2>5
  <2>10. Apart4(v)
    BY <1>1, <2>8, <2>9 DEF Apart4
  <2>11. IsFour(v)
    BY <2>8 DEF IsFour
  <2>12. \A j \in 1..4 : v[j] # rank /\ v[j] <= LastRank
    BY <1>1, <2>5, <2>8, <2>9
  <2>13. Aside(v, rank)
    BY <2>10, <2>11, <2>12 DEF Aside
  <2>14. QED
    BY <2>5, <2>8, <2>9, <2>13
<1>5. QED
  BY <1>3, <1>4

LEMMA AllFakeIs ==
  ASSUME NEW w, NEW b \in Nat, Above(w, b), b + 5 <= LastRank, NEW rank \in Nat, rank <= b + 1,
         NEW q, Aside(q, rank), NEW v, v = AllFake(w, rank, q)
  PROVE  Aside(v, rank) /\ \A i \in 1..4 : ~IsReal(w, v[i]) /\ (v[i] <= q[i] \/ v[i] > b + 1)
<1>1. PICK q1 : q1 = CheackFirstRank(w, rank, q, 1)
  OBVIOUS
<1>2. PICK q2 : q2 = CheackFirstRank(w, rank, q1, 2)
  OBVIOUS
<1>3. PICK q3 : q3 = CheackFirstRank(w, rank, q2, 3)
  OBVIOUS
<1>4. v = CheackFirstRank(w, rank, q3, 4)
  BY <1>1, <1>2, <1>3 DEF AllFake
<1>5. 1 \in 1..4 /\ 2 \in 1..4 /\ 3 \in 1..4 /\ 4 \in 1..4
  OBVIOUS
<1>6. /\ Aside(q1, rank) /\ \A j \in 1..4 : j # 1 => q1[j] = q[j]
      /\ ~IsReal(w, q1[1]) /\ (q1[1] <= q[1] \/ q1[1] > b + 1)
  BY <1>1, <1>5, OneFake
<1>7. /\ Aside(q2, rank) /\ \A j \in 1..4 : j # 2 => q2[j] = q1[j]
      /\ ~IsReal(w, q2[2]) /\ (q2[2] <= q1[2] \/ q2[2] > b + 1)
  BY <1>2, <1>5, <1>6, OneFake
<1>8. /\ Aside(q3, rank) /\ \A j \in 1..4 : j # 3 => q3[j] = q2[j]
      /\ ~IsReal(w, q3[3]) /\ (q3[3] <= q2[3] \/ q3[3] > b + 1)
  BY <1>3, <1>5, <1>7, OneFake
<1>9. /\ Aside(v, rank) /\ \A j \in 1..4 : j # 4 => v[j] = q3[j]
      /\ ~IsReal(w, v[4]) /\ (v[4] <= q3[4] \/ v[4] > b + 1)
  BY <1>4, <1>5, <1>8, OneFake
<1>10. v[1] = q1[1] /\ v[2] = q2[2] /\ v[3] = q3[3] /\ q1[2] = q[2] /\ q2[3] = q[3] /\ q3[4] = q[4]
  BY <1>5, <1>6, <1>7, <1>8, <1>9
<1>11. \A i \in 1..4 : i = 1 \/ i = 2 \/ i = 3 \/ i = 4
  OBVIOUS
<1>12. QED
  BY <1>6, <1>7, <1>8, <1>9, <1>10, <1>11

-----------------------------------------------------------------------------
(* The type invariant.  A rank of a player is bounded by the players that  *)
(* can have come, which are counted again after the loss of a count, and   *)
(* so by the fights that have ended.                                       *)

Ids == Players \cup (Nat \ {0})
Reach(n) == n + MAX_CREATE_OPPONENT

DelMsg(id) == [kind |-> "del", id |-> id]
Writes(n) ==
  {RowMsg(id, r) : id \in Ids, r \in 1..Reach(n)} \cup {LogMsg(p) : p \in Players} \cup {CountMsg(c) : c \in 0..n}
Messages(n) == Writes(n) \cup {Load} \cup {DelMsg(id) : id \in Ids}

Tables(n) == UNION {[ids -> 1..Reach(n)] : ids \in SUBSET Ids}

RanksMsg(rows) == [kind |-> "ranks", rows |-> rows]
LogsMsg(logs)  == [kind |-> "logs", logs |-> logs]
Replies(n) ==
  {CountMsg(c) : c \in 0..n} \cup {RanksMsg(rows) : rows \in Tables(n)} \cup {LogsMsg(logs) : logs \in SUBSET Players}

PlacesOK(w, n) ==
  /\ DOMAIN w.rank_map \subseteq 0..LastRank /\ DOMAIN w.id_rank \subseteq Ids
  /\ \A r \in DOMAIN w.rank_map :
       w.rank_map[r] \in DOMAIN w.id_rank /\ (w.rank_map[r] \in Players => r \in 1..Reach(n))
  /\ \A id \in DOMAIN w.id_rank :
       w.id_rank[id] \in DOMAIN w.rank_map /\ (id \in Players => w.id_rank[id] \in 1..Reach(n))

FourOK(w, opps) == opps = << >> \/ opps \in [1..4 -> [id : DOMAIN w.id_rank, rank : DOMAIN w.rank_map]]
InfoOK(w, n, i) ==
  /\ i = [cur |-> i.cur, max |-> i.max, opps |-> i.opps]
  /\ i.cur \in 0..Reach(n) /\ i.max \in Nat /\ FourOK(w, i.opps)

MemOK(w, n) ==
  /\ IsMem(w) /\ w.load_log \in Nat /\ w.target_guid \in Nat /\ w.count \in 0..n
  /\ w.user \in [Players -> User] /\ w.out \in Seq(Writes(n))
  /\ PlacesOK(w, n)
  /\ DOMAIN w.info \subseteq Players /\ \A p \in DOMAIN w.info : InfoOK(w, n, w.info[p])

Made == fight_id - Len(fights)
Most == Cardinality(Players) + Made

FightsOK ==
  /\ fights \in Seq([ack : Players, def : Ids \cup {Monster}]) /\ fight_id \in 0..MaxFights
  /\ Len(fights) <= fight_id
TablesOK(tables, n) ==
  /\ tables = [rows |-> tables.rows, logs |-> tables.logs, count |-> tables.count]
  /\ tables.rows \in Tables(n) /\ tables.logs \subseteq Players /\ tables.count \in 0..n
Kinds == {"lost", "late", "overwritten", "reused", "rolled", "skipped"}

TypeInv ==
  /\ MemOK(game, Most) /\ game.out = << >>
  /\ saved \in [Players -> User] /\ FightsOK /\ TablesOK(db, Most)
  /\ sent \in Seq(Messages(Most)) /\ answers \in Seq(Replies(Most))
  /\ up \in BOOLEAN /\ faults \in Nat /\ spoilt \subseteq Kinds

LEMMA TablesAre ==
  ASSUME NEW n
  PROVE  \A rows : rows \in Tables(n) <=> /\ rows = [id \in DOMAIN rows |-> rows[id]] /\ DOMAIN rows \subseteq Ids
                                         /\ \A id \in DOMAIN rows : rows[id] \in 1..Reach(n)
<1>1. ASSUME NEW rows, rows \in Tables(n)
      PROVE  /\ rows = [id \in DOMAIN rows |-> rows[id]] /\ DOMAIN rows \subseteq Ids
             /\ \A id \in DOMAIN rows : rows[id] \in 1..Reach(n)
  <2>1. PICK ids \in SUBSET Ids : rows \in [ids -> 1..Reach(n)]
    BY <1>1 DEF Tables
  <2>2. QED
    BY <2>1
<1>2. ASSUME NEW rows, rows = [id \in DOMAIN rows |-> rows[id]], DOMAIN rows \subseteq Ids,
             \A id \in DOMAIN rows : rows[id] \in 1..Reach(n)
      PROVE  rows \in Tables(n)
  <2>1. PICK ids : ids = DOMAIN rows
    OBVIOUS
  <2>2. ids \in SUBSET Ids /\ rows \in [ids -> 1..Reach(n)]
    BY <1>2, <2>1
  <2>3. QED
    BY <2>2 DEF Tables
<1>3. QED
  BY <1>1, <1>2

LEMMA Larger ==
  ASSUME NEW n \in Nat, NEW m \in Nat, n <= m
  PROVE  1..Reach(n) \subseteq 1..Reach(m) /\ 0..Reach(n) \subseteq 0..Reach(m) /\ Writes(n) \subseteq Writes(m)
         /\ Messages(n) \subseteq Messages(m)
         /\ Tables(n) \subseteq Tables(m) /\ Replies(n) \subseteq Replies(m)
<1>1. 1..Reach(n) \subseteq 1..Reach(m) /\ 0..Reach(n) \subseteq 0..Reach(m) /\ 0..n \subseteq 0..m
  BY ArenaAssumption DEF Reach
<1>w. Writes(n) \subseteq Writes(m)
  BY <1>1 DEF Writes
<1>2. Messages(n) \subseteq Messages(m)
  BY <1>w DEF Messages
<1>3. Tables(n) \subseteq Tables(m)
  BY <1>1, TablesAre
<1>4. Replies(n) \subseteq Replies(m)
  BY <1>1, <1>3 DEF Replies
<1>5. QED
  BY <1>1, <1>w, <1>2, <1>3, <1>4

LEMMA MemLarger ==
  ASSUME NEW n \in Nat, NEW m \in Nat, n <= m, NEW w, MemOK(w, n)
  PROVE  MemOK(w, m)
<1>1. 1..Reach(n) \subseteq 1..Reach(m) /\ 0..Reach(n) \subseteq 0..Reach(m) /\ Writes(n) \subseteq Writes(m)
  BY Larger
<1>2. w.count \in 0..m
  BY DEF MemOK
<1>3. w.out \in Seq(Writes(m))
  BY <1>1 DEF MemOK
<1>4. PlacesOK(w, m)
  BY <1>1 DEF MemOK, PlacesOK
<1>5. \A p \in DOMAIN w.info : InfoOK(w, m, w.info[p])
  BY <1>1 DEF MemOK, InfoOK
<1>6. QED
  BY <1>2, <1>3, <1>4, <1>5 DEF MemOK

\* An info put into a memory.
LEMMA InfoKeeps ==
  ASSUME NEW n \in Nat, NEW w, MemOK(w, n), NEW p \in Players, NEW i, InfoOK(w, n, i)
  PROVE  MemOK(set_info_data(w, p, i), n)
<1>1. PICK v : v = set_info_data(w, p, i)
  OBVIOUS
<1>2. /\ IsMem(v) /\ v.info = Put(w.info, p, i)
      /\ v.rank_map = w.rank_map /\ v.id_rank = w.id_rank /\ v.target_guid = w.target_guid /\ v.load_log = w.load_log
      /\ v.count = w.count /\ v.user = w.user /\ v.out = w.out
  BY <1>1, InfoIs DEF MemOK
<1>3. PlacesOK(v, n)
  BY <1>2 DEF MemOK, PlacesOK
<1>4. \A j : InfoOK(w, n, j) => InfoOK(v, n, j)
  BY <1>2 DEF InfoOK, FourOK
<1>5. DOMAIN v.info \subseteq Players /\ \A q \in DOMAIN v.info : InfoOK(v, n, v.info[q])
  BY <1>2, <1>4 DEF MemOK, Put
<1>6. MemOK(v, n)
  BY <1>2, <1>3, <1>5 DEF MemOK
<1>7. QED
  BY <1>1, <1>6

LEMMA UserKeeps ==
  ASSUME NEW n \in Nat, NEW w, MemOK(w, n), NEW p \in Players, NEW u \in User
  PROVE  MemOK(SetUser(w, p, u), n)
<1>1. PICK v : v = SetUser(w, p, u)
  OBVIOUS
<1>2. /\ IsMem(v) /\ v.user = Put(w.user, p, u)
      /\ v.info = w.info /\ v.rank_map = w.rank_map /\ v.id_rank = w.id_rank /\ v.target_guid = w.target_guid
      /\ v.load_log = w.load_log /\ v.count = w.count /\ v.out = w.out
  BY <1>1, UserIs DEF MemOK
<1>3. PlacesOK(v, n)
  BY <1>2 DEF MemOK, PlacesOK
<1>4. \A q \in DOMAIN v.info : InfoOK(v, n, v.info[q])
  BY <1>2 DEF MemOK, InfoOK, FourOK
<1>5. v.user \in [Players -> User]
  BY <1>2 DEF MemOK, Put
<1>6. MemOK(v, n)
  BY <1>2, <1>3, <1>4, <1>5 DEF MemOK
<1>7. QED
  BY <1>1, <1>6

LEMMA WriteKeeps ==
  ASSUME NEW n \in Nat, NEW w, MemOK(w, n), NEW msgs \in Seq(Writes(n))
  PROVE  MemOK(Write(w, msgs), n)
<1>1. PICK v : v = Write(w, msgs)
  OBVIOUS
<1>2. /\ IsMem(v) /\ v.out = Behind(w.out, msgs)
      /\ v.info = w.info /\ v.rank_map = w.rank_map /\ v.id_rank = w.id_rank /\ v.target_guid = w.target_guid
      /\ v.load_log = w.load_log /\ v.count = w.count /\ v.user = w.user
  <2>1. IsMem(w)
    BY DEF MemOK
  <2>2. QED
    BY <1>1, <2>1, WriteIs
<1>3. PlacesOK(v, n)
  BY <1>2 DEF MemOK, PlacesOK
<1>4. \A q \in DOMAIN v.info : InfoOK(v, n, v.info[q])
  BY <1>2 DEF MemOK, InfoOK, FourOK
<1>5. v.out \in Seq(Writes(n))
  <2>1. w.out \in Seq(Writes(n))
    BY DEF MemOK
  <2>2. QED
    BY <1>2, <2>1, ConcatProperties DEF Behind
<1>6. MemOK(v, n)
  BY <1>2, <1>3, <1>4, <1>5 DEF MemOK
<1>7. QED
  BY <1>1, <1>6

LEMMA GrowthKeeps ==
  ASSUME NEW n \in Nat, NEW w, MemOK(w, n), NEW v, Grown(w, v), DOMAIN v.rank_map \subseteq 0..LastRank
  PROVE  MemOK(v, n)
<1>1. New(w, v) \subseteq Nat \ {0} /\ New(w, v) \cap Players = {}
  <2>1. \A x \in New(w, v) : x \in Nat /\ x # 0
    BY DEF MemOK, Grown, New
  <2>2. QED
    BY <2>1, ArenaAssumption
<1>2. /\ IsMem(v) /\ v.info = w.info /\ v.load_log = w.load_log /\ v.count = w.count /\ v.user = w.user /\ v.out = w.out
      /\ v.target_guid \in Nat
  BY DEF Grown
<1>3. DOMAIN v.id_rank \subseteq Ids
  BY <1>1 DEF Grown, MemOK, PlacesOK, Ids
<1>4. ASSUME NEW r \in DOMAIN v.rank_map
      PROVE  v.rank_map[r] \in DOMAIN v.id_rank /\ (v.rank_map[r] \in Players => r \in 1..Reach(n))
  <2>1. CASE r \in DOMAIN w.rank_map
    BY <2>1 DEF Grown, MemOK, PlacesOK
  <2>2. CASE r \notin DOMAIN w.rank_map
    BY <1>1, <2>2 DEF Grown
  <2>3. QED
    BY <2>1, <2>2
<1>5. ASSUME NEW id \in DOMAIN v.id_rank
      PROVE  v.id_rank[id] \in DOMAIN v.rank_map /\ (id \in Players => v.id_rank[id] \in 1..Reach(n))
  <2>1. CASE id \in New(w, v)
    BY <1>1, <2>1 DEF Grown
  <2>2. CASE id \notin New(w, v)
    BY <2>2 DEF Grown, MemOK, PlacesOK
  <2>3. QED
    BY <2>1, <2>2
<1>6. PlacesOK(v, n)
  BY <1>3, <1>4, <1>5 DEF PlacesOK
<1>7. \A r \in DOMAIN w.rank_map : r \in DOMAIN v.rank_map
  BY DEF Grown
<1>8. DOMAIN w.id_rank \subseteq DOMAIN v.id_rank
  BY DEF Grown
<1>9. \A opps : FourOK(w, opps) => FourOK(v, opps)
  BY <1>7, <1>8 DEF FourOK
<1>10. \A q \in DOMAIN v.info : InfoOK(v, n, v.info[q])
  BY <1>2, <1>9 DEF MemOK, InfoOK
<1>11. QED
  BY <1>2, <1>6, <1>10 DEF MemOK

-----------------------------------------------------------------------------
(* The list.                                                               *)

\* There is room for the fakes of a list.
Room(n) == n \in Nat /\ Reach(n) + 5 <= LastRank

LEMMA DrawnAside ==
  ASSUME NEW rank \in Nat, rank # 0, rank <= LastRank, NEW q, AreDrawn(q, rank)
  PROVE  Aside(q, rank) /\ \A i \in 1..4 : q[i] < rank \/ q[i] <= 5
<1>1. /\ IsFour(q) /\ q[1] \in Nat /\ q[2] \in Nat /\ q[3] \in Nat /\ q[4] \in Nat
      /\ q[1] < q[2] /\ q[2] < q[3] /\ q[3] < q[4] /\ (q[4] < rank \/ q[4] <= 5) /\ \A i \in 1..4 : q[i] # rank
  BY DEF AreDrawn, IsFour
<1>2. \A i \in 1..4 : i = 1 \/ i = 2 \/ i = 3 \/ i = 4
  OBVIOUS
<1>3. LastRank \in Nat /\ 5 <= LastRank
  <2>1. Cardinality(Players) \in Nat /\ MaxFights \in Nat /\ MAX_CREATE_OPPONENT \in Nat /\ LastRank \in Nat
    BY ArenaAssumption, FS_CardinalityType
  <2>2. QED
    BY <2>1, ArenaAssumption
<1>4. Apart4(q)
  BY <1>1, <1>2 DEF Apart4
<1>5. \A i \in 1..4 : (q[i] < rank \/ q[i] <= 5) /\ q[i] <= LastRank
  BY <1>1, <1>2, <1>3
<1>6. QED
  BY <1>1, <1>4, <1>5 DEF Aside

LEMMA OffersAre ==
  ASSUME NEW n, Room(n), NEW w, MemOK(w, n), NEW p \in Players, NEW four \in Offers(w, p)
  PROVE  /\ OwnRank(w, p) \in Nat /\ Aside(four, OwnRank(w, p))
         /\ IF Ranked(w, p) THEN \A i \in 1..4 : four[i] < OwnRank(w, p) \/ four[i] <= 5
            ELSE \A i \in 1..4 : /\ ~IsReal(w, four[i])
                                 /\ four[i] <= w.count + MAX_CREATE_OPPONENT \/ four[i] > Reach(n) + 1
<1> DEFINE rank == OwnRank(w, p)
<1>1. /\ n \in Nat /\ w.count \in 0..n /\ MAX_CREATE_OPPONENT \in Nat /\ 5 <= MAX_CREATE_OPPONENT
      /\ LastRank \in Nat /\ Reach(n) = n + MAX_CREATE_OPPONENT /\ Reach(n) + 5 <= LastRank
  BY ArenaAssumption DEF Room, MemOK, Reach
<1>2. Ranked(w, p) => rank \in 1..Reach(n)
  <2>1. Ranked(w, p) => p \in DOMAIN w.id_rank /\ rank = w.id_rank[p]
    BY DEF Ranked, OwnRank, get_rank_id, RankIn
  <2>2. QED
    BY <2>1 DEF MemOK, PlacesOK
<1>3. ~Ranked(w, p) => rank = w.count + MAX_CREATE_OPPONENT + 1
  BY DEF OwnRank
<1>4. rank \in Nat /\ rank # 0 /\ rank <= Reach(n) + 1 /\ rank <= LastRank /\ Reach(n) \in Nat
  BY <1>1, <1>2, <1>3
<1>5. Above(w, Reach(n))
  <2>1. \A r \in DOMAIN w.rank_map : w.rank_map[r] \in Players => r \in 1..Reach(n)
    BY DEF MemOK, PlacesOK
  <2>2. QED
    BY <1>4, <2>1 DEF Above
<1> HIDE DEF rank
<1>6. \A q \in GetRank(rank) : Aside(q, rank) /\ \A i \in 1..4 : q[i] < rank \/ q[i] <= 5
  BY <1>4, GetRankIs, DrawnAside
<1>7. CASE Ranked(w, p)
  <2>1. four \in GetRank(rank)
    BY <1>7 DEF Offers, rank
  <2>2. Aside(four, rank) /\ \A i \in 1..4 : four[i] < rank \/ four[i] <= 5
    BY <1>6, <2>1
  <2>3. QED
    BY <1>4, <1>7, <2>2 DEF rank
<1>8. CASE ~Ranked(w, p)
  <2>1. PICK q \in GetRank(rank) : four = AllFake(w, rank, q)
    BY <1>8 DEF Offers, rank
  <2>2. Aside(q, rank) /\ \A i \in 1..4 : q[i] < rank \/ q[i] <= 5
    BY <1>6, <2>1
  <2>3. Aside(four, rank) /\ \A i \in 1..4 : ~IsReal(w, four[i]) /\ (four[i] <= q[i] \/ four[i] > Reach(n) + 1)
    BY <1>1, <1>4, <1>5, <2>1, <2>2, AllFakeIs
  <2>4. \A i \in 1..4 : q[i] \in Nat /\ four[i] \in Nat
    BY <2>2, <2>3 DEF Aside, IsFour
  <2>5. \A i \in 1..4 : four[i] <= w.count + MAX_CREATE_OPPONENT \/ four[i] > Reach(n) + 1
    BY <1>1, <1>3, <1>8, <2>2, <2>3, <2>4
  <2>6. QED
    BY <1>4, <1>8, <2>3, <2>5 DEF rank
<1>9. QED
  BY <1>7, <1>8

\* A list given to a player: fakes at the places nobody holds, and the four in its info.
ListOf(w, x, p, four) ==
  [cur |-> w.info[p].cur, max |-> w.info[p].max,
   opps |-> [i \in 1..4 |-> [id |-> x.rank_map[four[i]], rank |-> four[i]]]]
Given(w, v, p, four) ==
  \E x : /\ Grown(w, x) /\ \A r : r \in DOMAIN x.rank_map <=> r \in DOMAIN w.rank_map \/ \E i \in 1..4 : r = four[i]
         /\ v = set_info_data(x, p, ListOf(w, x, p, four))

LEMMA SetInfoOppIs ==
  ASSUME NEW w, IsMem(w), w.target_guid \in Nat, NEW p, NEW four, IsFour(four)
  PROVE  Given(w, SetInfoOpp(w, p, four), p, four)
<1>1. Len(four) = 4
  BY DEF IsFour
<1>2. PICK x : x = Filled(w, four)
  OBVIOUS
<1>3. Grown(w, x) /\ \A r : r \in DOMAIN x.rank_map <=> r \in DOMAIN w.rank_map \/ \E i \in 1..4 : r = four[i]
  <2>1. PICK n : n = 4
    OBVIOUS
  <2>2. n \in Nat /\ Len(four) = n
    BY <1>1, <2>1
  <2>3. /\ Grown(w, Filled(w, four))
        /\ \A r : r \in DOMAIN Filled(w, four).rank_map <=> r \in DOMAIN w.rank_map \/ \E i \in 1..n : r = four[i]
    <3>1. Grown(w, Filled(w, four))
      BY <2>2, FilledIs
    <3>2. \A r : r \in DOMAIN Filled(w, four).rank_map <=> r \in DOMAIN w.rank_map \/ \E i \in 1..n : r = four[i]
      BY <2>2, FilledIs
    <3>3. QED
      BY <3>1, <3>2
  <2>4. QED
    BY <1>2, <2>1, <2>3
<1>4. SetInfoOpp(w, p, four) = set_info_data(Filled(w, four), p, ListOf(w, Filled(w, four), p, four))
  BY Zenon DEF SetInfoOpp, ListOf
<1>5. SetInfoOpp(w, p, four) = set_info_data(x, p, ListOf(w, x, p, four))
  BY <1>2, <1>4
<1>6. QED
  BY <1>3, <1>5 DEF Given

LEMMA GivenKeeps ==
  ASSUME NEW n, Room(n), NEW w, MemOK(w, n), NEW p \in DOMAIN w.info, NEW four, IsFour(four),
         \A i \in 1..4 : four[i] <= LastRank, NEW v, Given(w, v, p, four)
  PROVE  MemOK(v, n)
<1>1. PICK x : /\ Grown(w, x) /\ \A r : r \in DOMAIN x.rank_map <=> r \in DOMAIN w.rank_map \/ \E i \in 1..4 : r = four[i]
               /\ v = set_info_data(x, p, ListOf(w, x, p, four))
  BY DEF Given
<1>2. PICK o : o = [i \in 1..4 |-> [id |-> x.rank_map[four[i]], rank |-> four[i]]]
  OBVIOUS
<1>3. PICK j : j = [cur |-> w.info[p].cur, max |-> w.info[p].max, opps |-> o]
  OBVIOUS
<1>4. v = set_info_data(x, p, j)
  BY <1>1, <1>2, <1>3 DEF ListOf
<1>5. MemOK(x, n)
  <2>1. DOMAIN w.rank_map \subseteq 0..LastRank /\ n \in Nat /\ LastRank \in Nat
    BY ArenaAssumption DEF MemOK, PlacesOK, Room
  <2>2. \A i \in 1..4 : four[i] \in 0..LastRank
    BY <2>1 DEF IsFour
  <2>3. DOMAIN x.rank_map \subseteq 0..LastRank
    BY <1>1, <2>1, <2>2
  <2>4. QED
    BY <1>1, <2>1, <2>3, GrowthKeeps
<1>6. o \in [1..4 -> [id : DOMAIN x.id_rank, rank : DOMAIN x.rank_map]]
  <2>1. \A i \in 1..4 : four[i] \in DOMAIN x.rank_map
    BY <1>1
  <2>2. \A i \in 1..4 : x.rank_map[four[i]] \in DOMAIN x.id_rank
    BY <1>5, <2>1 DEF MemOK, PlacesOK
  <2>3. QED
    BY <1>2, <2>1, <2>2
<1>7. InfoOK(x, n, j)
  <2>1. w.info[p].cur \in 0..Reach(n) /\ w.info[p].max \in Nat
    BY DEF MemOK, InfoOK
  <2>2. j.cur = w.info[p].cur /\ j.max = w.info[p].max /\ j.opps = o /\ j = [cur |-> j.cur, max |-> j.max, opps |-> j.opps]
    BY <1>3
  <2>3. QED
    BY <1>6, <2>1, <2>2 DEF InfoOK, FourOK
<1>8. p \in Players /\ n \in Nat
  BY DEF MemOK, Room
<1>9. QED
  BY <1>4, <1>5, <1>7, <1>8, InfoKeeps

-----------------------------------------------------------------------------
(* The end of a fight keeps the types.                                     *)

LEMMA InfoOfIs ==
  ASSUME NEW n \in Nat, NEW w, MemOK(w, n), NEW p
  PROVE  InfoOK(w, n, InfoOf(w, p))
<1>1. CASE p \in DOMAIN w.info
  BY <1>1 DEF MemOK, InfoOf
<1>2. CASE p \notin DOMAIN w.info
  <2>1. InfoOf(w, p) = [cur |-> 0, max |-> 0, opps |-> << >>]
    BY <1>2 DEF InfoOf, EmptyInfo
  <2>2. 0 \in 0..Reach(n)
    BY ArenaAssumption DEF Reach
  <2>3. QED
    BY <2>1, <2>2 DEF InfoOK, FourOK
<1>3. QED
  BY <1>1, <1>2

LEMMA OwnPlace ==
  ASSUME NEW n \in Nat, NEW w, MemOK(w, n), NEW p \in Players
  PROVE  /\ get_rank_id(w, p) \in 0..Reach(n)
         /\ Ranked(w, p) => /\ get_rank_id(w, p) \in 1..Reach(n) /\ p \in DOMAIN w.id_rank
                            /\ get_rank_id(w, p) = w.id_rank[p]
<1>1. 0 \in 0..Reach(n) /\ 1..Reach(n) \subseteq 0..Reach(n)
  BY ArenaAssumption DEF Reach
<1>2. get_rank_id(w, p) = IF p \in DOMAIN w.id_rank THEN w.id_rank[p] ELSE 0
  BY DEF get_rank_id, RankIn
<1>3. p \in DOMAIN w.id_rank => w.id_rank[p] \in 1..Reach(n)
  BY DEF MemOK, PlacesOK
<1>4. QED
  BY <1>1, <1>2, <1>3 DEF Ranked

LEMMA NewInfoKeeps ==
  ASSUME NEW n \in Nat, NEW w, MemOK(w, n), NEW p \in Players
  PROVE  MemOK(NewInfo(w, p), n)
BY InfoOfIs, InfoKeeps DEF NewInfo

LEMMA BaseKeeps ==
  ASSUME NEW n \in Nat, NEW w, MemOK(w, n), NEW p \in Players
  PROVE  MemOK(SetInfoBase(w, p), n) /\ p \in DOMAIN SetInfoBase(w, p).info
<1>1. PICK i : i = [cur |-> get_rank_id(w, p), max |-> w.user[p].best, opps |-> InfoOf(w, p).opps]
  OBVIOUS
<1>2. PICK v : v = set_info_data(w, p, i)
  OBVIOUS
<1>3. get_rank_id(w, p) \in 0..Reach(n)
  BY OwnPlace
<1>4. w.user[p].best \in Nat
  BY DEF MemOK, User
<1>5. FourOK(w, InfoOf(w, p).opps)
  BY InfoOfIs DEF InfoOK
<1>6. InfoOK(w, n, i)
  BY <1>1, <1>3, <1>4, <1>5 DEF InfoOK
<1>7. MemOK(v, n)
  BY <1>2, <1>6, InfoKeeps
<1>8. v.info = Put(w.info, p, i)
  BY <1>2, InfoIs DEF MemOK
<1>9. SetInfoBase(w, p) = v
  BY <1>1, <1>2 DEF SetInfoBase
<1>10. QED
  BY <1>7, <1>8, <1>9 DEF Put

LEMMA MessagesAre ==
  ASSUME NEW n \in Nat
  PROVE  /\ \A p \in Players : LogMsg(p) \in Writes(n)
         /\ \A id \in Ids, r \in 1..Reach(n) : RowMsg(id, r) \in Writes(n)
         /\ \A c \in 0..n : CountMsg(c) \in Writes(n)
         /\ \A id \in Ids : DelMsg(id) \in Messages(n)
         /\ Load \in Messages(n) /\ Writes(n) \subseteq Messages(n)
<1>1. \A p \in Players : LogMsg(p) \in {LogMsg(q) : q \in Players}
  OBVIOUS
<1>2. \A id \in Ids, r \in 1..Reach(n) : RowMsg(id, r) \in {RowMsg(i, k) : i \in Ids, k \in 1..Reach(n)}
  OBVIOUS
<1>3. \A c \in 0..n : CountMsg(c) \in {CountMsg(k) : k \in 0..n}
  OBVIOUS
<1>4. \A id \in Ids : DelMsg(id) \in {DelMsg(i) : i \in Ids}
  OBVIOUS
<1>5. /\ {LogMsg(q) : q \in Players} \subseteq Writes(n)
      /\ {RowMsg(i, k) : i \in Ids, k \in 1..Reach(n)} \subseteq Writes(n)
      /\ {CountMsg(k) : k \in 0..n} \subseteq Writes(n)
  BY DEF Writes
<1>6. {DelMsg(i) : i \in Ids} \subseteq Messages(n) /\ Load \in Messages(n) /\ Writes(n) \subseteq Messages(n)
  BY DEF Messages
<1>7. QED
  BY <1>1, <1>2, <1>3, <1>4, <1>5, <1>6

LEMMA AddLogKeeps ==
  ASSUME NEW n \in Nat, NEW w, MemOK(w, n), NEW p \in Players, NEW t
  PROVE  MemOK(AddLog(w, p, t), n)
<1>1. CASE t \in Players
  <2>1. PICK v : v = NewInfo(w, t)
    OBVIOUS
  <2>2. MemOK(v, n)
    BY <1>1, <2>1, NewInfoKeeps
  <2>3. LogMsg(p) \in Writes(n) /\ LogMsg(t) \in Writes(n)
    BY <1>1, MessagesAre
  <2>4. PICK msgs : msgs = <<LogMsg(p), LogMsg(t)>>
    OBVIOUS
  <2>5. msgs \in Seq(Writes(n))
    BY <2>3, <2>4
  <2>6. AddLog(w, p, t) = Write(v, msgs)
    BY <1>1, <2>1, <2>4 DEF AddLog
  <2>7. QED
    BY <2>2, <2>5, <2>6, WriteKeeps
<1>2. CASE t \notin Players
  <2>3. LogMsg(p) \in Writes(n)
    BY MessagesAre
  <2>4. PICK msgs : msgs = <<LogMsg(p)>>
    OBVIOUS
  <2>5. msgs \in Seq(Writes(n))
    BY <2>3, <2>4
  <2>6. AddLog(w, p, t) = Write(w, msgs)
    BY <1>2, <2>4 DEF AddLog
  <2>7. QED
    BY <2>5, <2>6, WriteKeeps
<1>3. QED
  BY <1>1, <1>2

\* A player's place, new or changed.
LEMMA PlaceKeeps ==
  ASSUME NEW n, Room(n), NEW w, MemOK(w, n), NEW p \in Players, NEW r \in 1..Reach(n)
  PROVE  MemOK(Place(w, r, p), n)
<1>1. PICK v : v = Place(w, r, p)
  OBVIOUS
<1>2. /\ IsMem(v) /\ v.rank_map = Put(w.rank_map, r, p) /\ v.id_rank = Put(w.id_rank, p, r)
      /\ v.info = w.info /\ v.target_guid = w.target_guid /\ v.load_log = w.load_log
      /\ v.count = w.count /\ v.user = w.user /\ v.out = w.out
  BY <1>1, PlaceIs DEF MemOK
<1>3. 1..Reach(n) \subseteq 0..LastRank /\ n \in Nat
  BY ArenaAssumption DEF Room, Reach
<1>4. PlacesOK(v, n)
  <2>1. DOMAIN v.rank_map = DOMAIN w.rank_map \cup {r} /\ DOMAIN v.id_rank = DOMAIN w.id_rank \cup {p}
    BY <1>2 DEF Put
  <2>2. \A z \in DOMAIN v.rank_map : v.rank_map[z] = IF z = r THEN p ELSE w.rank_map[z]
    BY <1>2 DEF Put
  <2>3. \A z \in DOMAIN v.id_rank : v.id_rank[z] = IF z = p THEN r ELSE w.id_rank[z]
    BY <1>2 DEF Put
  <2>4. p \in Ids
    BY DEF Ids
  <2>5. QED
    BY <1>3, <2>1, <2>2, <2>3, <2>4 DEF PlacesOK, MemOK
<1>5. DOMAIN w.rank_map \subseteq DOMAIN v.rank_map /\ DOMAIN w.id_rank \subseteq DOMAIN v.id_rank
  BY <1>2 DEF Put
<1>6. \A opps : FourOK(w, opps) => FourOK(v, opps)
  BY <1>5 DEF FourOK
<1>7. \A q \in DOMAIN v.info : InfoOK(v, n, v.info[q])
  BY <1>2, <1>6 DEF MemOK, InfoOK
<1>8. MemOK(v, n)
  BY <1>2, <1>4, <1>7 DEF MemOK
<1>9. QED
  BY <1>1, <1>8

LEMMA CountKeeps ==
  ASSUME NEW n \in Nat, NEW w, MemOK(w, n), NEW c \in 0..n
  PROVE  MemOK([w EXCEPT !.count = c], n)
<1>1. PICK v : v = [w EXCEPT !.count = c]
  OBVIOUS
<1>2. /\ IsMem(v) /\ v.count = c
      /\ v.info = w.info /\ v.rank_map = w.rank_map /\ v.id_rank = w.id_rank /\ v.target_guid = w.target_guid
      /\ v.load_log = w.load_log /\ v.user = w.user /\ v.out = w.out
  <2>1. IsMem(w)
    BY DEF MemOK
  <2>2. QED
    BY <1>1, <2>1 DEF IsMem
<1>3. PlacesOK(v, n)
  BY <1>2 DEF MemOK, PlacesOK
<1>4. \A q \in DOMAIN v.info : InfoOK(v, n, v.info[q])
  BY <1>2 DEF MemOK, InfoOK, FourOK
<1>5. MemOK(v, n)
  BY <1>2, <1>3, <1>4 DEF MemOK
<1>6. QED
  BY <1>1, <1>5

PaidUser(u, best, rank) == [best |-> best, again |-> PaidAgain(u, rank)]
BestUser(u, best)       == [best |-> best, again |-> u.again]
InfoRec(cur, max, opps) == [cur |-> cur, max |-> max, opps |-> opps]

FirstPlace(w) == w.count + MAX_CREATE_OPPONENT + 1
FirstMsgs(w, p) == <<CountMsg(w.count + 1), RowMsg(p, FirstPlace(w))>>

LEMMA FirstIs ==
  ASSUME NEW w, IsMem(w), NEW p, p \in DOMAIN w.info, w.info[p].max = 0,
         NEW last, last = FirstPlace(w), NEW v, v = GetFirstReward(w, p)
  PROVE  /\ IsMem(v) /\ v.user = Put(w.user, p, PaidUser(w.user[p], last, last))
         /\ v.info = Put(w.info, p, InfoRec(last, last, w.info[p].opps))
         /\ v.count = w.count + 1 /\ v.rank_map = Put(w.rank_map, last, p) /\ v.id_rank = Put(w.id_rank, p, last)
         /\ v.out = Behind(w.out, FirstMsgs(w, p)) /\ v.target_guid = w.target_guid /\ v.load_log = w.load_log
<1>1. PICK u : u = PaidUser(w.user[p], last, last)
  OBVIOUS
<1>2. PICK i : i = InfoRec(last, last, w.info[p].opps)
  OBVIOUS
<1>3. PICK a : a = SetUser(w, p, u)
  OBVIOUS
<1>4. PICK b : b = set_info_data(a, p, i)
  OBVIOUS
<1>5. PICK n : n = w.count + 1
  OBVIOUS
<1>6. PICK c : c = [b EXCEPT !.count = n]
  OBVIOUS
<1>7. PICK d : d = Place(c, last, p)
  OBVIOUS
<1>8. v = Write(d, FirstMsgs(w, p))
  BY <1>1, <1>2, <1>3, <1>4, <1>5, <1>6, <1>7 DEF GetFirstReward, FirstMsgs, FirstPlace, PaidUser, InfoRec
<1>9. /\ IsMem(a) /\ a.user = Put(w.user, p, u)
      /\ a.info = w.info /\ a.rank_map = w.rank_map /\ a.id_rank = w.id_rank /\ a.target_guid = w.target_guid
      /\ a.load_log = w.load_log /\ a.count = w.count /\ a.out = w.out
  BY <1>3, UserIs
<1>10. /\ IsMem(b) /\ b.info = Put(a.info, p, i)
       /\ b.rank_map = a.rank_map /\ b.id_rank = a.id_rank /\ b.target_guid = a.target_guid /\ b.load_log = a.load_log
       /\ b.count = a.count /\ b.user = a.user /\ b.out = a.out
  BY <1>4, <1>9, InfoIs
<1>11. /\ IsMem(c) /\ c.count = n
       /\ c.info = b.info /\ c.rank_map = b.rank_map /\ c.id_rank = b.id_rank /\ c.target_guid = b.target_guid
       /\ c.load_log = b.load_log /\ c.user = b.user /\ c.out = b.out
  BY <1>6, <1>10, CountFields
<1>12. /\ IsMem(d) /\ d.rank_map = Put(c.rank_map, last, p) /\ d.id_rank = Put(c.id_rank, p, last)
       /\ d.info = c.info /\ d.target_guid = c.target_guid /\ d.load_log = c.load_log
       /\ d.count = c.count /\ d.user = c.user /\ d.out = c.out
  BY <1>7, <1>11, PlaceIs
<1>13. /\ IsMem(v) /\ v.out = Behind(d.out, FirstMsgs(w, p))
       /\ v.info = d.info /\ v.rank_map = d.rank_map /\ v.id_rank = d.id_rank /\ v.target_guid = d.target_guid
       /\ v.load_log = d.load_log /\ v.count = d.count /\ v.user = d.user
  BY <1>8, <1>12, WriteIs
<1>14. QED
  BY <1>1, <1>2, <1>5, <1>9, <1>10, <1>11, <1>12, <1>13

LEMMA AgainIs ==
  ASSUME NEW u \in User, NEW r
  PROVE  PaidAgain(u, r) \in BOOLEAN
BY DEF PaidAgain, User

LEMMA FirstKeeps ==
  ASSUME NEW n \in Nat, Room(n + 1), NEW w, MemOK(w, n), NEW p \in Players
  PROVE  MemOK(GetFirstReward(w, p), n + 1)
<1>1. n + 1 \in Nat /\ n <= n + 1
  OBVIOUS
<1>2. MemOK(w, n + 1)
  BY <1>1, MemLarger
<1>3. CASE p \notin DOMAIN w.info \/ w.info[p].max # 0
  <2>1. GetFirstReward(w, p) = w
    BY <1>3 DEF GetFirstReward
  <2>2. QED
    BY <1>2, <2>1
<1>4. CASE p \in DOMAIN w.info /\ w.info[p].max = 0
  <2>1. PICK m : m = n + 1
    OBVIOUS
  <2>2. PICK last : last = FirstPlace(w)
    OBVIOUS
  <2>3. m \in Nat /\ Room(m) /\ MemOK(w, m) /\ last \in 1..Reach(m) /\ w.count + 1 \in 0..m
    <3>1. m \in Nat /\ Room(m) /\ MemOK(w, m)
      BY <1>1, <1>2, <2>1
    <3>2. w.count \in 0..n /\ MAX_CREATE_OPPONENT \in Nat
      BY ArenaAssumption DEF MemOK
    <3>3. QED
      BY <2>1, <2>2, <3>1, <3>2 DEF Reach, FirstPlace
  <2>4. PICK u : u = [best |-> last, again |-> PaidAgain(w.user[p], last)]
    OBVIOUS
  <2>5. PICK i : i = [cur |-> last, max |-> last, opps |-> w.info[p].opps]
    OBVIOUS
  <2>6. PICK a : a = SetUser(w, p, u)
    OBVIOUS
  <2>7. PICK b : b = set_info_data(a, p, i)
    OBVIOUS
  <2>8. PICK k : k = w.count + 1
    OBVIOUS
  <2>9. PICK c : c = [b EXCEPT !.count = k]
    OBVIOUS
  <2>10. PICK d : d = Place(c, last, p)
    OBVIOUS
  <2>11. GetFirstReward(w, p) = Write(d, FirstMsgs(w, p))
    BY <1>4, <2>2, <2>4, <2>5, <2>6, <2>7, <2>8, <2>9, <2>10 DEF GetFirstReward, FirstMsgs, FirstPlace
  <2>12. u \in User
    <3>1. w.user[p] \in User
      BY DEF MemOK
    <3>2. last \in Nat /\ PaidAgain(w.user[p], last) \in BOOLEAN
      BY <2>3, <3>1, AgainIs
    <3>3. QED
      BY <2>4, <3>2 DEF User
  <2>13. MemOK(a, m) /\ a.rank_map = w.rank_map /\ a.id_rank = w.id_rank
    <3>1. MemOK(a, m)
      BY <2>3, <2>6, <2>12, UserKeeps
    <3>2. QED
      BY <2>3, <2>6, <3>1, UserIs DEF MemOK
  <2>14. InfoOK(a, m, i)
    <3>1. FourOK(w, w.info[p].opps)
      BY <1>4 DEF MemOK, InfoOK
    <3>2. FourOK(a, i.opps) /\ last \in 0..Reach(m) /\ last \in Nat
      BY <2>3, <2>5, <2>13, <3>1 DEF FourOK
    <3>3. QED
      BY <2>5, <3>2 DEF InfoOK
  <2>15. MemOK(b, m)
    BY <2>3, <2>7, <2>13, <2>14, InfoKeeps
  <2>16. MemOK(c, m)
    BY <2>3, <2>8, <2>9, <2>15, CountKeeps
  <2>17. MemOK(d, m)
    BY <2>3, <2>10, <2>16, PlaceKeeps
  <2>18. FirstMsgs(w, p) \in Seq(Writes(m))
    <3>1. p \in Ids
      BY DEF Ids
    <3>2. CountMsg(w.count + 1) \in Writes(m) /\ RowMsg(p, FirstPlace(w)) \in Writes(m)
      BY <2>2, <2>3, <3>1, MessagesAre
    <3>3. QED
      BY <3>2 DEF FirstMsgs
  <2>19. QED
    BY <2>1, <2>3, <2>11, <2>17, <2>18, WriteKeeps
<1>5. QED
  BY <1>3, <1>4

LEMMA PaidKeeps ==
  ASSUME NEW n \in Nat, NEW w, MemOK(w, n), NEW p \in Players, NEW r
  PROVE  MemOK(PaidFor(w, p, r), n)
<1>1. w.user[p] \in User
  BY DEF MemOK
<1>2. [best |-> w.user[p].best, again |-> PaidAgain(w.user[p], r)] \in User
  BY <1>1, AgainIs DEF User
<1>3. QED
  BY <1>2, UserKeeps DEF PaidFor

LEMMA RewardKeeps ==
  ASSUME NEW n \in Nat, Room(n + 1), NEW w, MemOK(w, n), NEW p \in Players, NEW t, NEW win
  PROVE  MemOK(SendBattleReward(w, p, t, win), n + 1)
<1>1. n + 1 \in Nat /\ n <= n + 1
  OBVIOUS
<1>2. MemOK(w, n + 1)
  BY <1>1, MemLarger
<1>3. MemOK(GetFirstReward(w, p), n + 1) /\ \A r : MemOK(PaidFor(w, p, r), n + 1)
  BY <1>1, <1>2, FirstKeeps, PaidKeeps
<1>4. QED
  BY <1>2, <1>3 DEF SendBattleReward

LEMMA SwappedIs ==
  ASSUME NEW w, IsMem(w), NEW p, NEW t, NEW m, m = w.info[p].cur, NEW h, h = get_rank_id(w, t),
         NEW best, best = Min({w.info[p].max, h}), NEW v, v = Swapped(w, p, t)
  PROVE  /\ IsMem(v) /\ v.user = Put(w.user, p, BestUser(w.user[p], best))
         /\ v.info = Put(w.info, p, InfoRec(h, best, w.info[p].opps))
         /\ v.rank_map = Put(Put(w.rank_map, h, p), m, w.rank_map[h])
         /\ v.id_rank = Put(Put(w.id_rank, p, h), t, m)
         /\ v.target_guid = w.target_guid /\ v.load_log = w.load_log /\ v.count = w.count /\ v.out = w.out
<1>1. PICK u : u = BestUser(w.user[p], best)
  OBVIOUS
<1>2. PICK i : i = InfoRec(h, best, w.info[p].opps)
  OBVIOUS
<1>3. PICK a : a = SetUser(w, p, u)
  OBVIOUS
<1>4. PICK b : b = set_info_data(a, p, i)
  OBVIOUS
<1>5. PICK x, y : x = Put(Put(w.rank_map, h, p), m, w.rank_map[h]) /\ y = Put(Put(w.id_rank, p, h), t, m)
  OBVIOUS
<1>6. v = [b EXCEPT !.rank_map = Put(Put(w.rank_map, h, p), m, w.rank_map[h]), !.id_rank = Put(Put(w.id_rank, p, h), t, m)]
  BY <1>1, <1>2, <1>3, <1>4, Zenon DEF Swapped, BestUser, InfoRec
<1>7. v = [b EXCEPT !.rank_map = x, !.id_rank = y]
  BY <1>5, <1>6
<1>8. /\ IsMem(a) /\ a.user = Put(w.user, p, u)
      /\ a.info = w.info /\ a.rank_map = w.rank_map /\ a.id_rank = w.id_rank /\ a.target_guid = w.target_guid
      /\ a.load_log = w.load_log /\ a.count = w.count /\ a.out = w.out
  BY <1>3, UserIs
<1>9. /\ IsMem(b) /\ b.info = Put(a.info, p, i)
      /\ b.rank_map = a.rank_map /\ b.id_rank = a.id_rank /\ b.target_guid = a.target_guid /\ b.load_log = a.load_log
      /\ b.count = a.count /\ b.user = a.user /\ b.out = a.out
  BY <1>4, <1>8, InfoIs
<1>10. /\ IsMem(v) /\ v.rank_map = x /\ v.id_rank = y
       /\ v.info = b.info /\ v.target_guid = b.target_guid /\ v.load_log = b.load_log
       /\ v.count = b.count /\ v.user = b.user /\ v.out = b.out
  BY <1>7, <1>9 DEF IsMem
<1>11. QED
  BY <1>1, <1>2, <1>5, <1>8, <1>9, <1>10

LEMMA SwappedKeeps ==
  ASSUME NEW n, Room(n), NEW w, MemOK(w, n), NEW p \in DOMAIN w.info, NEW t,
         get_rank_id(w, t) # 0, w.info[p].cur > get_rank_id(w, t)
  PROVE  MemOK(Swapped(w, p, t), n)
<1>1. PICK m, h : m = w.info[p].cur /\ h = get_rank_id(w, t)
  OBVIOUS
<1>2. PICK best : best = Min({w.info[p].max, h})
  OBVIOUS
<1>3. PICK v : v = Swapped(w, p, t)
  OBVIOUS
<1>4. PICK u : u = BestUser(w.user[p], best)
  OBVIOUS
<1>5. PICK i : i = InfoRec(h, best, w.info[p].opps)
  OBVIOUS
<1>6. IsMem(w) /\ n \in Nat /\ p \in Players
  BY DEF MemOK, Room
<1>7. /\ IsMem(v) /\ v.user = Put(w.user, p, u)
      /\ v.info = Put(w.info, p, i)
      /\ v.rank_map = Put(Put(w.rank_map, h, p), m, w.rank_map[h])
      /\ v.id_rank = Put(Put(w.id_rank, p, h), t, m)
      /\ v.target_guid = w.target_guid /\ v.load_log = w.load_log /\ v.count = w.count /\ v.out = w.out
  BY <1>1, <1>2, <1>3, <1>4, <1>5, <1>6, SwappedIs
<1>8. t \in DOMAIN w.id_rank /\ h = w.id_rank[t] /\ h \in DOMAIN w.rank_map
  <2>1. t \in DOMAIN w.id_rank /\ h = w.id_rank[t]
    BY <1>1 DEF get_rank_id, RankIn
  <2>2. QED
    BY <2>1 DEF MemOK, PlacesOK
<1>9. /\ m \in 0..Reach(n) /\ w.info[p].max \in Nat /\ FourOK(w, w.info[p].opps) /\ Reach(n) \in Nat
      /\ Reach(n) <= LastRank /\ LastRank \in Nat
  <2>1. m \in 0..Reach(n) /\ w.info[p].max \in Nat /\ FourOK(w, w.info[p].opps)
    BY <1>1 DEF MemOK, InfoOK
  <2>2. QED
    BY <1>6, <2>1, ArenaAssumption DEF Reach, Room
<1>10. DOMAIN w.rank_map \subseteq 0..LastRank
  BY DEF MemOK, PlacesOK
<1>11. h \in 1..Reach(n) /\ m \in 1..Reach(n)
  BY <1>1, <1>8, <1>9, <1>10
<1>12. best \in Nat
  <2>1. {w.info[p].max, h} \subseteq Nat /\ {w.info[p].max, h} # {}
    BY <1>9, <1>11
  <2>2. best \in {w.info[p].max, h}
    BY <1>2, <2>1, MinIs
  <2>3. QED
    BY <2>1, <2>2
<1>13. v.user \in [Players -> User]
  <2>1. w.user \in [Players -> User]
    BY DEF MemOK
  <2>2. u \in User
    BY <1>4, <1>6, <1>12, <2>1 DEF User, BestUser
  <2>3. QED
    BY <1>6, <1>7, <2>1, <2>2 DEF Put
<1>14. /\ DOMAIN v.rank_map = DOMAIN w.rank_map \cup {h, m}
       /\ \A r \in DOMAIN v.rank_map : v.rank_map[r] = IF r = m THEN w.rank_map[h] ELSE IF r = h THEN p ELSE w.rank_map[r]
  BY <1>7 DEF Put
<1>15. /\ DOMAIN v.id_rank = DOMAIN w.id_rank \cup {p, t}
       /\ \A id \in DOMAIN v.id_rank : v.id_rank[id] = IF id = t THEN m ELSE IF id = p THEN h ELSE w.id_rank[id]
  BY <1>7 DEF Put
<1>16. PlacesOK(v, n)
  <2>1. DOMAIN v.rank_map \subseteq 0..LastRank
    BY <1>9, <1>10, <1>11, <1>14
  <2>2. DOMAIN v.id_rank \subseteq Ids
    <3>1. DOMAIN w.id_rank \subseteq Ids /\ p \in Ids
      BY <1>6 DEF MemOK, PlacesOK, Ids
    <3>2. QED
      BY <1>8, <1>15, <3>1
  <2>3. \A r \in DOMAIN v.rank_map : v.rank_map[r] \in DOMAIN v.id_rank /\ (v.rank_map[r] \in Players => r \in 1..Reach(n))
    BY <1>8, <1>11, <1>14, <1>15 DEF MemOK, PlacesOK
  <2>4. \A id \in DOMAIN v.id_rank : v.id_rank[id] \in DOMAIN v.rank_map /\ (id \in Players => v.id_rank[id] \in 1..Reach(n))
    BY <1>8, <1>11, <1>14, <1>15 DEF MemOK, PlacesOK
  <2>5. QED
    BY <2>1, <2>2, <2>3, <2>4 DEF PlacesOK
<1>17. \A o : FourOK(w, o) => FourOK(v, o)
  BY <1>14, <1>15 DEF FourOK
<1>18. InfoOK(v, n, i)
  <2>1. h \in 0..Reach(n)
    BY <1>9, <1>11
  <2>2. QED
    BY <1>5, <1>9, <1>12, <1>17, <2>1 DEF InfoOK, InfoRec
<1>19. DOMAIN v.info \subseteq Players /\ \A q \in DOMAIN v.info : InfoOK(v, n, v.info[q])
  <2>1. \A q \in DOMAIN w.info : InfoOK(v, n, w.info[q])
    BY <1>17 DEF MemOK, InfoOK
  <2>2. DOMAIN v.info = DOMAIN w.info \cup {p} /\ \A q \in DOMAIN v.info : v.info[q] = IF q = p THEN i ELSE w.info[q]
    BY <1>7 DEF Put
  <2>3. DOMAIN w.info \subseteq Players
    BY DEF MemOK
  <2>4. QED
    BY <1>6, <1>18, <2>1, <2>2, <2>3
<1>20. MemOK(v, n)
  BY <1>7, <1>13, <1>16, <1>19 DEF MemOK
<1>21. QED
  BY <1>3, <1>20

LEMMA ShownKeeps ==
  ASSUME NEW n \in Nat, NEW w, MemOK(w, n), NEW t, NEW r \in 0..Reach(n)
  PROVE  MemOK(Shown(w, t, r), n)
<1>1. CASE t \in DOMAIN w.info
  <2>1. PICK i : i = [cur |-> r, max |-> w.info[t].max, opps |-> w.info[t].opps]
    OBVIOUS
  <2>2. t \in Players /\ w.info[t].max \in Nat /\ FourOK(w, w.info[t].opps)
    BY <1>1 DEF MemOK, InfoOK
  <2>3. InfoOK(w, n, i)
    BY <2>1, <2>2 DEF InfoOK
  <2>4. Shown(w, t, r) = set_info_data(w, t, i)
    BY <1>1, <2>1 DEF Shown
  <2>5. QED
    BY <2>2, <2>3, <2>4, InfoKeeps
<1>2. CASE t \notin DOMAIN w.info
  BY <1>2 DEF Shown
<1>3. QED
  BY <1>1, <1>2

LEMMA UpdateKeeps ==
  ASSUME NEW n, Room(n), NEW w, MemOK(w, n), NEW p \in DOMAIN w.info, NEW t, get_rank_id(w, t) # 0, NEW win
  PROVE  MemOK(UpdateRank(w, p, t, win), n)
<1>1. CASE ~MovesUp(w, p, t, win)
  BY <1>1 DEF UpdateRank
<1>2. CASE MovesUp(w, p, t, win)
  <2>1. w.info[p].cur > get_rank_id(w, t)
    BY <1>2 DEF MovesUp
  <2>2. PICK x : x = Swapped(w, p, t)
    OBVIOUS
  <2>3. MemOK(x, n)
    BY <2>1, <2>2, SwappedKeeps
  <2>4. w.info[p].cur \in 0..Reach(n) /\ p \in Players /\ n \in Nat
    BY DEF MemOK, InfoOK, Room
  <2>5. PICK y : y = Shown(x, t, w.info[p].cur)
    OBVIOUS
  <2>6. MemOK(y, n)
    BY <2>3, <2>4, <2>5, ShownKeeps
  <2>7. PICK msgs : msgs = Rows(w, p, t)
    OBVIOUS
  <2>8. msgs \in Seq(Writes(n))
    <3>1. PICK h : h = get_rank_id(w, t)
      OBVIOUS
    <3>2. t \in DOMAIN w.id_rank /\ h = w.id_rank[t]
      BY <3>1 DEF get_rank_id, RankIn
    <3>3. h \in DOMAIN w.rank_map /\ w.rank_map[h] \in Ids /\ h \in 0..LastRank
      BY <3>2 DEF MemOK, PlacesOK
    <3>4. Reach(n) \in Nat /\ LastRank \in Nat
      BY <2>4, ArenaAssumption DEF Reach
    <3>5. h \in 1..Reach(n) /\ w.info[p].cur \in 1..Reach(n)
      BY <2>1, <2>4, <3>1, <3>3, <3>4
    <3>6. p \in Ids
      BY <2>4 DEF Ids
    <3>7. RowMsg(p, h) \in Writes(n) /\ RowMsg(w.rank_map[h], w.info[p].cur) \in Writes(n)
      BY <2>4, <3>3, <3>5, <3>6, MessagesAre
    <3>8. QED
      BY <2>7, <3>1, <3>7 DEF Rows
  <2>9. UpdateRank(w, p, t, win) = Write(y, msgs)
    BY <1>2, <2>2, <2>5, <2>7 DEF UpdateRank
  <2>10. QED
    BY <2>4, <2>6, <2>8, <2>9, WriteKeeps
<1>3. QED
  BY <1>1, <1>2

LogMsgs(p, t) == IF t \in Players THEN <<LogMsg(p), LogMsg(t)>> ELSE <<LogMsg(p)>>

\* What the end of a fight does to the infos there are and to the places of others.
LEMMA LogAside ==
  ASSUME NEW w, IsMem(w), NEW p, NEW t, NEW v, v = AddLog(w, p, t)
  PROVE  /\ IsMem(v) /\ v.rank_map = w.rank_map /\ v.id_rank = w.id_rank /\ v.count = w.count /\ v.user = w.user
         /\ v.target_guid = w.target_guid /\ v.load_log = w.load_log
         /\ v.out = Behind(w.out, LogMsgs(p, t))
         /\ v.info = IF t \in Players THEN Put(w.info, t, InfoOf(w, t)) ELSE w.info
<1>1. CASE t \in Players
  <2>1. PICK x : x = NewInfo(w, t)
    OBVIOUS
  <2>2. x = set_info_data(w, t, InfoOf(w, t))
    BY <2>1 DEF NewInfo
  <2>3. /\ IsMem(x) /\ x.info = Put(w.info, t, InfoOf(w, t))
        /\ x.rank_map = w.rank_map /\ x.id_rank = w.id_rank /\ x.target_guid = w.target_guid
        /\ x.load_log = w.load_log /\ x.count = w.count /\ x.user = w.user /\ x.out = w.out
    BY <2>2, InfoIs
  <2>4. v = Write(x, <<LogMsg(p), LogMsg(t)>>)
    BY <1>1, <2>1 DEF AddLog
  <2>5. PICK msgs : msgs = <<LogMsg(p), LogMsg(t)>>
    OBVIOUS
  <2>6. v = Write(x, msgs)
    BY <2>4, <2>5
  <2>7. /\ IsMem(v) /\ v.out = Behind(x.out, msgs)
        /\ v.info = x.info /\ v.rank_map = x.rank_map /\ v.id_rank = x.id_rank /\ v.target_guid = x.target_guid
        /\ v.load_log = x.load_log /\ v.count = x.count /\ v.user = x.user
    BY <2>3, <2>6, WriteIs
  <2>8. QED
    BY <1>1, <2>3, <2>5, <2>7 DEF LogMsgs
<1>2. CASE t \notin Players
  <2>1. PICK msgs : msgs = <<LogMsg(p)>>
    OBVIOUS
  <2>2. v = Write(w, msgs)
    BY <1>2, <2>1 DEF AddLog
  <2>3. /\ IsMem(v) /\ v.out = Behind(w.out, msgs)
        /\ v.info = w.info /\ v.rank_map = w.rank_map /\ v.id_rank = w.id_rank /\ v.target_guid = w.target_guid
        /\ v.load_log = w.load_log /\ v.count = w.count /\ v.user = w.user
    BY <2>2, WriteIs
  <2>4. QED
    BY <1>2, <2>1, <2>3 DEF LogMsgs
<1>3. QED
  BY <1>1, <1>2

LEMMA RewardAside ==
  ASSUME NEW w, IsMem(w), w.count \in Nat, NEW p, NEW t, NEW win, NEW v, v = SendBattleReward(w, p, t, win)
  PROVE  /\ DOMAIN w.info \subseteq DOMAIN v.info
         /\ \A id : get_rank_id(w, id) # 0 => get_rank_id(v, id) # 0
<1>1. CASE v = GetFirstReward(w, p) /\ p \in DOMAIN w.info /\ w.info[p].max = 0
  <2>1. PICK last : last = FirstPlace(w)
    OBVIOUS
  <2>2. v.info = Put(w.info, p, InfoRec(last, last, w.info[p].opps))
        /\ v.id_rank = Put(w.id_rank, p, last)
    BY <1>1, <2>1, FirstIs
  <2>3. last # 0
    <3>1. MAX_CREATE_OPPONENT \in Nat
      BY ArenaAssumption
    <3>2. QED
      BY <2>1, <3>1 DEF FirstPlace
  <2>4. QED
    BY <2>2, <2>3 DEF Put, get_rank_id, RankIn
<1>2. CASE v = w
  BY <1>2
<1>3. CASE \E r : v = PaidFor(w, p, r)
  <2>1. PICK r : v = PaidFor(w, p, r)
    BY <1>3
  <2>2. PICK u : v = SetUser(w, p, u)
    BY <2>1 DEF PaidFor
  <2>3. v.info = w.info /\ v.id_rank = w.id_rank
    BY <2>2, UserIs
  <2>4. QED
    BY <2>3 DEF get_rank_id
<1>4. v = GetFirstReward(w, p) \/ v = w \/ \E r : v = PaidFor(w, p, r)
  BY DEF SendBattleReward
<1>5. (p \in DOMAIN w.info /\ w.info[p].max = 0) \/ GetFirstReward(w, p) = w
  BY DEF GetFirstReward
<1>6. QED
  BY <1>1, <1>2, <1>3, <1>4, <1>5

LEMMA UpdateAside ==
  ASSUME NEW w, IsMem(w), NEW p, NEW t, NEW win, NEW v, v = UpdateRank(w, p, t, win)
  PROVE  DOMAIN w.info \subseteq DOMAIN v.info
<1>1. CASE ~MovesUp(w, p, t, win)
  BY <1>1 DEF UpdateRank
<1>2. CASE MovesUp(w, p, t, win)
  <2>1. PICK x : x = Swapped(w, p, t)
    OBVIOUS
  <2>2. PICK m, h : m = w.info[p].cur /\ h = get_rank_id(w, t)
    OBVIOUS
  <2>b. PICK best : best = Min({w.info[p].max, h})
    OBVIOUS
  <2>3. IsMem(x) /\ x.info = Put(w.info, p, InfoRec(h, best, w.info[p].opps))
    BY <2>1, <2>2, <2>b, SwappedIs
  <2>4. PICK y : y = Shown(x, t, w.info[p].cur)
    OBVIOUS
  <2>5. IsMem(y) /\ DOMAIN x.info \subseteq DOMAIN y.info
    <3>1. CASE t \in DOMAIN x.info
      <4>1. PICK j : y = set_info_data(x, t, j)
        BY <2>4, <3>1 DEF Shown
      <4>2. IsMem(y) /\ y.info = Put(x.info, t, j)
        BY <2>3, <4>1, InfoIs
      <4>3. QED
        BY <4>2 DEF Put
    <3>2. CASE t \notin DOMAIN x.info
      BY <2>3, <2>4, <3>2 DEF Shown
    <3>3. QED
      BY <3>1, <3>2
  <2>6. PICK msgs : msgs = Rows(w, p, t)
    OBVIOUS
  <2>7. v = Write(y, msgs)
    BY <1>2, <2>1, <2>4, <2>6 DEF UpdateRank
  <2>8. v.info = y.info
    BY <2>5, <2>7, WriteIs
  <2>9. QED
    BY <2>3, <2>5, <2>8 DEF Put
<1>3. QED
  BY <1>1, <1>2

LEMMA ExtraKeeps ==
  ASSUME NEW n \in Nat, Room(n + 1), NEW w, MemOK(w, n), NEW p \in DOMAIN w.info, NEW t, get_rank_id(w, t) # 0, NEW result
  PROVE  MemOK(ExtraProc(w, p, t, result), n + 1) /\ p \in DOMAIN ExtraProc(w, p, t, result).info
<1>1. PICK win : win = (result = "won")
  OBVIOUS
<1>2. PICK a : a = IF result = "quit" THEN w ELSE AddLog(w, p, t)
  OBVIOUS
<1>3. p \in Players /\ IsMem(w) /\ n + 1 \in Nat
  BY DEF MemOK
<1>4. MemOK(a, n)
  BY <1>2, <1>3, AddLogKeeps
<1>5. a.id_rank = w.id_rank /\ p \in DOMAIN a.info
  <2>1. PICK l : l = AddLog(w, p, t)
    OBVIOUS
  <2>2. l.id_rank = w.id_rank /\ l.info = IF t \in Players THEN Put(w.info, t, InfoOf(w, t)) ELSE w.info
    <3>1. l.id_rank = w.id_rank
      BY <1>3, <2>1, LogAside
    <3>2. l.info = IF t \in Players THEN Put(w.info, t, InfoOf(w, t)) ELSE w.info
      BY <1>3, <2>1, LogAside
    <3>3. QED
      BY <3>1, <3>2
  <2>3. QED
    BY <1>2, <2>1, <2>2 DEF Put
<1>6. PICK b : b = SendBattleReward(a, p, t, win)
  OBVIOUS
<1>7. MemOK(b, n + 1)
  BY <1>3, <1>4, <1>6, RewardKeeps
<1>8. p \in DOMAIN b.info /\ get_rank_id(b, t) # 0
  <2>1. IsMem(a) /\ a.count \in Nat /\ get_rank_id(a, t) # 0
    BY <1>4, <1>5 DEF MemOK, get_rank_id
  <2>2. QED
    BY <1>5, <1>6, <2>1, RewardAside
<1>9. PICK c : c = UpdateRank(b, p, t, win)
  OBVIOUS
<1>10. MemOK(c, n + 1)
  BY <1>7, <1>8, <1>9, UpdateKeeps
<1>11. p \in DOMAIN c.info
  BY <1>7, <1>8, <1>9, UpdateAside DEF MemOK
<1>12. ExtraProc(w, p, t, result) = c
  BY <1>1, <1>2, <1>6, <1>9 DEF ExtraProc
<1>13. QED
  BY <1>10, <1>11, <1>12

-----------------------------------------------------------------------------
(* The tables.                                                             *)

IsSaved(f, tables, msgs, n) ==
  f = [i \in 0..n |-> IF i = 0 THEN tables ELSE SaveData(f[i - 1], msgs[i])]

LEMMA SavedExists ==
  ASSUME NEW tables, NEW msgs, NEW n \in Nat
  PROVE  \E f : IsSaved(f, tables, msgs, n)
<1> DEFINE S == {m \in Nat : ~ \E f : IsSaved(f, tables, msgs, m)}
<1> SUFFICES ASSUME n \in S PROVE FALSE
  OBVIOUS
<1>1. PICK m \in S : \A k \in S : m <= k
  <2>1. S \in SUBSET Nat /\ S # {}
    OBVIOUS
  <2> HIDE DEF S
  <2>2. QED
    BY <2>1, Least
<1>2. CASE m = 0
  <2> DEFINE f == [i \in 0..0 |-> tables]
  <2>1. f = [i \in 0..0 |-> IF i = 0 THEN tables ELSE SaveData(f[i - 1], msgs[i])]
    OBVIOUS
  <2>2. IsSaved(f, tables, msgs, m)
    BY <1>2, <2>1 DEF IsSaved
  <2>3. QED
    BY <2>2
<1>3. CASE m # 0
  <2>1. m - 1 \in Nat /\ m - 1 \notin S
    BY <1>1, <1>3
  <2>2. PICK r : IsSaved(r, tables, msgs, m - 1)
    BY <2>1
  <2>3. \A i \in 0..(m - 1) : r[i] = IF i = 0 THEN tables ELSE SaveData(r[i - 1], msgs[i])
    BY <2>2, Zenon DEF IsSaved
  <2> DEFINE f == [i \in 0..m |-> IF i = m THEN SaveData(r[m - 1], msgs[m]) ELSE r[i]]
  <2>4. ASSUME NEW i \in 0..m
        PROVE  f[i] = IF i = 0 THEN tables ELSE SaveData(f[i - 1], msgs[i])
    <3>1. CASE i = m
      <4>1. m \in 0..m /\ m - 1 \in 0..m /\ m - 1 # m
        BY <2>1
      <4>2. f[m] = SaveData(r[m - 1], msgs[m]) /\ f[m - 1] = r[m - 1]
        BY <4>1
      <4>3. QED
        BY <1>3, <3>1, <4>2
    <3>2. CASE i # m
      <4>1. i \in 0..(m - 1) /\ (i # 0 => i - 1 \in 0..m /\ i - 1 # m)
        BY <3>2
      <4>2. f[i] = r[i] /\ (i # 0 => f[i - 1] = r[i - 1])
        BY <3>2, <4>1
      <4>3. QED
        BY <2>3, <4>1, <4>2
    <3>3. QED
      BY <3>1, <3>2
  <2>5. f = [i \in 0..m |-> f[i]]
    OBVIOUS
  <2> HIDE DEF f
  <2>6. [i \in 0..m |-> f[i]] = [i \in 0..m |-> IF i = 0 THEN tables ELSE SaveData(f[i - 1], msgs[i])]
    BY <2>4
  <2>7. IsSaved(f, tables, msgs, m)
    BY <2>5, <2>6 DEF IsSaved
  <2>8. QED
    BY <2>7
<1>4. QED
  BY <1>2, <1>3

\* The tables after each message.
Steps(f, tables, msgs, n) ==
  /\ f[0] = tables /\ Saved(tables, msgs) = f[n]
  /\ \A k \in 1..n : f[k] = SaveData(f[k - 1], msgs[k])

LEMMA SavedIs ==
  ASSUME NEW tables, NEW msgs, NEW n \in Nat, Len(msgs) = n
  PROVE  \E f : Steps(f, tables, msgs, n)
<1> DEFINE done == CHOOSE f : IsSaved(f, tables, msgs, n)
<1>1. IsSaved(done, tables, msgs, n)
  BY SavedExists
<1>2. Saved(tables, msgs) = done[n]
  BY Zenon DEF Saved, IsSaved
<1>3. \A k \in 0..n : done[k] = IF k = 0 THEN tables ELSE SaveData(done[k - 1], msgs[k])
  BY <1>1, Zenon DEF IsSaved
<1> HIDE DEF done
<1>4. 0 \in 0..n /\ \A k \in 1..n : k \in 0..n /\ k # 0
  OBVIOUS
<1>5. done[0] = tables /\ \A k \in 1..n : done[k] = SaveData(done[k - 1], msgs[k])
  BY <1>3, <1>4
<1>6. QED
  BY <1>2, <1>5 DEF Steps

LEMMA MessageIs ==
  ASSUME NEW n, NEW m \in Messages(n)
  PROVE  \/ m = Load
         \/ m.kind = "row" /\ m.id \in Ids /\ m.rank \in 1..Reach(n) /\ m = RowMsg(m.id, m.rank)
         \/ m.kind = "log" /\ m.id \in Players /\ m = LogMsg(m.id)
         \/ m.kind = "count" /\ m.n \in 0..n /\ m = CountMsg(m.n)
         \/ m.kind = "del" /\ m.id \in Ids /\ m = DelMsg(m.id)
BY DEF Messages, Writes, RowMsg, LogMsg, CountMsg, DelMsg

\* What a message does to the tables.
LEMMA SaveIs ==
  ASSUME NEW t, t = [rows |-> t.rows, logs |-> t.logs, count |-> t.count], NEW n, NEW m \in Messages(n),
         NEW v, v = SaveData(t, m)
  PROVE  /\ v = [rows |-> v.rows, logs |-> v.logs, count |-> v.count]
         /\ v.rows = IF m.kind = "row" THEN Put(t.rows, m.id, m.rank)
                     ELSE IF m.kind = "del" THEN [p \in DOMAIN t.rows \ {m.id} |-> t.rows[p]] ELSE t.rows
         /\ v.logs = IF m.kind = "log" THEN t.logs \cup {m.id} ELSE t.logs
         /\ v.count = IF m.kind = "count" THEN m.n ELSE t.count
<1>0. m.kind = "row" \/ m.kind = "del" \/ m.kind = "log" \/ m.kind = "count" \/ m.kind = "load"
  BY MessageIs DEF Load
<1>1. CASE m.kind = "row"
  <2>1. PICK x : x = Put(t.rows, m.id, m.rank)
    OBVIOUS
  <2>2. v = [t EXCEPT !.rows = x]
    BY <1>1, <2>1 DEF SaveData
  <2>3. QED
    BY <1>1, <2>1, <2>2
<1>2. CASE m.kind = "del"
  <2>1. PICK x : x = [p \in DOMAIN t.rows \ {m.id} |-> t.rows[p]]
    OBVIOUS
  <2>2. v = [t EXCEPT !.rows = x]
    BY <1>2, <2>1 DEF SaveData
  <2>3. QED
    BY <1>2, <2>1, <2>2
<1>3. CASE m.kind = "log"
  <2>2. v = [t EXCEPT !.logs = t.logs \cup {m.id}]
    BY <1>3 DEF SaveData
  <2>3. QED
    BY <1>3, <2>2
<1>4. CASE m.kind = "count"
  <2>2. v = [t EXCEPT !.count = m.n]
    BY <1>4 DEF SaveData
  <2>3. QED
    BY <1>4, <2>2
<1>5. CASE m.kind = "load"
  <2>2. v = t
    BY <1>5 DEF SaveData
  <2>3. QED
    BY <1>5, <2>2
<1>6. QED
  BY <1>0, <1>1, <1>2, <1>3, <1>4, <1>5

LEMMA SaveKeeps ==
  ASSUME NEW n \in Nat, NEW t, TablesOK(t, n), NEW m \in Messages(n)
  PROVE  TablesOK(SaveData(t, m), n)
<1>1. PICK v : v = SaveData(t, m)
  OBVIOUS
<1>2. /\ v = [rows |-> v.rows, logs |-> v.logs, count |-> v.count]
      /\ v.rows = IF m.kind = "row" THEN Put(t.rows, m.id, m.rank)
                  ELSE IF m.kind = "del" THEN [p \in DOMAIN t.rows \ {m.id} |-> t.rows[p]] ELSE t.rows
      /\ v.logs = IF m.kind = "log" THEN t.logs \cup {m.id} ELSE t.logs
      /\ v.count = IF m.kind = "count" THEN m.n ELSE t.count
  BY <1>1, SaveIs DEF TablesOK
<1>3. /\ t.rows = [id \in DOMAIN t.rows |-> t.rows[id]] /\ DOMAIN t.rows \subseteq Ids
      /\ \A id \in DOMAIN t.rows : t.rows[id] \in 1..Reach(n)
  BY TablesAre DEF TablesOK
<1>4. /\ m.kind = "row" => m.id \in Ids /\ m.rank \in 1..Reach(n)
      /\ m.kind = "log" => m.id \in Players
      /\ m.kind = "count" => m.n \in 0..n
  BY MessageIs DEF Load
<1>5. v.rows = [id \in DOMAIN v.rows |-> v.rows[id]] /\ DOMAIN v.rows \subseteq Ids
      /\ \A id \in DOMAIN v.rows : v.rows[id] \in 1..Reach(n)
  <2>1. CASE m.kind = "row"
    BY <1>2, <1>3, <1>4, <2>1 DEF Put
  <2>2. CASE m.kind = "del"
    BY <1>2, <1>3, <2>2
  <2>3. CASE m.kind # "row" /\ m.kind # "del"
    BY <1>2, <1>3, <2>3
  <2>4. QED
    BY <2>1, <2>2, <2>3
<1>6. v.rows \in Tables(n)
  BY <1>5, TablesAre
<1>7. v.logs \subseteq Players /\ v.count \in 0..n
  BY <1>2, <1>4 DEF TablesOK
<1>8. TablesOK(v, n)
  BY <1>2, <1>6, <1>7 DEF TablesOK
<1>9. QED
  BY <1>1, <1>8

LEMMA SavedKeeps ==
  ASSUME NEW n \in Nat, NEW t, TablesOK(t, n), NEW msgs \in Seq(Messages(n))
  PROVE  TablesOK(Saved(t, msgs), n)
<1>1. PICK len \in Nat : len = Len(msgs) /\ \A k \in 1..len : msgs[k] \in Messages(n)
  OBVIOUS
<1>s. PICK f : Steps(f, t, msgs, len)
  BY <1>1, SavedIs
<1>2. /\ f[0] = t /\ Saved(t, msgs) = f[len]
      /\ \A k \in 1..len : f[k] = SaveData(f[k - 1], msgs[k])
  BY <1>s DEF Steps
<1> DEFINE good == [k \in 0..len |-> IF TablesOK(f[k], n) THEN 1 ELSE 0]
           E == {1}
<1>3. good[0] \in E
  BY <1>2
<1>4. ASSUME NEW i \in 1..len, good[i - 1] \in E
      PROVE  good[i] \in E
  <2>1. i \in 0..len /\ i - 1 \in 0..len
    OBVIOUS
  <2>2. TablesOK(f[i - 1], n)
    BY <1>4, <2>1
  <2>3. TablesOK(f[i], n)
    BY <1>1, <1>2, <2>2, SaveKeeps
  <2>4. QED
    BY <2>1, <2>3
<1>5. \A k \in 0..len : good[k] \in E
  <2>1. \A i \in 1..len : good[i - 1] \in E => good[i] \in E
    BY <1>4
  <2> HIDE DEF E, good
  <2>2. QED
    BY <1>3, <2>1, RoundsKeep
<1>6. len \in 0..len
  OBVIOUS
<1>7. TablesOK(f[len], n)
  BY <1>5, <1>6
<1>8. QED
  BY <1>2, <1>7

-----------------------------------------------------------------------------
(* The type invariant is kept.                                             *)

LEMMA RoomNow ==
  ASSUME TypeInv
  PROVE  Most \in Nat /\ Room(Most) /\ (Len(fights) # 0 => Room(Most + 1))
<1>1. /\ Cardinality(Players) \in Nat /\ MaxFights \in Nat /\ MAX_CREATE_OPPONENT \in Nat /\ LastRank \in Nat
      /\ MAX_CREATE_OPPONENT + Cardinality(Players) + MaxFights + 5 <= LastRank
  BY ArenaAssumption, FS_CardinalityType
<1>2. fight_id \in Nat /\ fight_id <= MaxFights /\ Len(fights) \in Nat /\ Len(fights) <= fight_id
  BY <1>1 DEF TypeInv, FightsOK
<1>3. PICK c, l : c = Cardinality(Players) /\ l = Len(fights)
  OBVIOUS
<1>4. Most = c + (fight_id - l) /\ c \in Nat /\ l \in Nat
  BY <1>1, <1>2, <1>3 DEF Most, Made
<1>5. MAX_CREATE_OPPONENT + c + MaxFights + 5 <= LastRank /\ l <= fight_id
  BY <1>1, <1>2, <1>3
<1>6. Most \in Nat /\ Most + MAX_CREATE_OPPONENT + 5 <= LastRank
  BY <1>1, <1>2, <1>4, <1>5
<1>7. l # 0 => Most + 1 + MAX_CREATE_OPPONENT + 5 <= LastRank
  BY <1>1, <1>2, <1>4, <1>5
<1>8. QED
  BY <1>3, <1>6, <1>7 DEF Room, Reach

\* What a handler leaves.
Left(n) == MemOK(game', n) /\ game'.out = << >> /\ sent' \in Seq(Messages(n)) /\ spoilt' \subseteq Kinds

LEMMA LeavesOK ==
  ASSUME TypeInv, NEW n \in Nat, Most <= n, NEW w, MemOK(w, n), NEW marks, marks \subseteq Kinds, Leaves(w, marks)
  PROVE  Left(n)
<1>1. PICK x : x = << >>
  OBVIOUS
<1>2. game' = [w EXCEPT !.out = x] /\ sent' = (IF up THEN sent \o w.out ELSE sent) /\ spoilt' = spoilt \cup marks \cup Marks(w)
  BY <1>1 DEF Leaves
<1>3. PICK v : v = game'
  OBVIOUS
<1>4. IsMem(w) /\ v = [w EXCEPT !.out = x]
  BY <1>2, <1>3 DEF MemOK
<1>5. /\ IsMem(v) /\ v.out = x
      /\ v.info = w.info /\ v.rank_map = w.rank_map /\ v.id_rank = w.id_rank /\ v.target_guid = w.target_guid
      /\ v.load_log = w.load_log /\ v.count = w.count /\ v.user = w.user
  BY <1>4, OutFields
<1>6. PlacesOK(v, n)
  BY <1>5 DEF MemOK, PlacesOK
<1>7. \A q \in DOMAIN v.info : InfoOK(v, n, v.info[q])
  BY <1>5 DEF MemOK, InfoOK, FourOK
<1>8. v.out \in Seq(Writes(n))
  BY <1>1, <1>5
<1>9. MemOK(v, n)
  BY <1>5, <1>6, <1>7, <1>8 DEF MemOK
<1>10. sent' \in Seq(Messages(n))
  <2>1. Most \in Nat
    BY RoomNow
  <2>2. Messages(Most) \subseteq Messages(n)
    BY <2>1, Larger
  <2>3. sent \in Seq(Messages(n))
    BY <2>2 DEF TypeInv
  <2>4. w.out \in Seq(Messages(n))
    <3>1. w.out \in Seq(Writes(n)) /\ Writes(n) \subseteq Messages(n)
      BY MessagesAre DEF MemOK
    <3>2. QED
      BY <3>1
  <2>5. sent \o w.out \in Seq(Messages(n))
    BY <2>3, <2>4, ConcatProperties
  <2>6. QED
    BY <1>2, <2>3, <2>5
<1>11. spoilt' \subseteq Kinds
  BY <1>2 DEF TypeInv, Marks, Kinds
<1>12. QED
  BY <1>1, <1>3, <1>5, <1>9, <1>10, <1>11 DEF Left

LEMMA RefreshedOK ==
  ASSUME TypeInv, NEW n, Most <= n, Room(n), NEW w, MemOK(w, n), NEW p \in DOMAIN w.info,
         NEW marks, marks \subseteq Kinds, Refreshed(w, p, marks)
  PROVE  Left(n)
<1>1. PICK four \in Offers(w, p) : Leaves(SetInfoOpp(w, p, four), marks)
  BY DEF Refreshed
<1>2. p \in Players /\ n \in Nat /\ IsMem(w) /\ w.target_guid \in Nat
  BY DEF MemOK, Room
<1>3. Aside(four, OwnRank(w, p))
  BY <1>1, <1>2, OffersAre
<1>4. IsFour(four) /\ \A i \in 1..4 : four[i] <= LastRank
  BY <1>3 DEF Aside
<1>5. PICK v : v = SetInfoOpp(w, p, four)
  OBVIOUS
<1>6. Given(w, v, p, four)
  BY <1>2, <1>4, <1>5, SetInfoOppIs
<1>7. MemOK(v, n)
  BY <1>4, <1>6, GivenKeeps
<1>8. QED
  BY <1>1, <1>2, <1>5, <1>7, LeavesOK

\* And the rest of the state.
RestOK(n) ==
  /\ saved' \in [Players -> User] /\ TablesOK(db', n) /\ answers' \in Seq(Replies(n))
  /\ up' \in BOOLEAN /\ faults' \in Nat

LEMMA TablesLarger ==
  ASSUME NEW n \in Nat, NEW m \in Nat, n <= m
  PROVE  /\ \A t : TablesOK(t, n) => TablesOK(t, m)
         /\ \A q : q \in Seq(Replies(n)) => q \in Seq(Replies(m))
         /\ \A q : q \in Seq(Messages(n)) => q \in Seq(Messages(m))
<1>1. Tables(n) \subseteq Tables(m) /\ Replies(n) \subseteq Replies(m) /\ Messages(n) \subseteq Messages(m)
  BY Larger
<1>2. 0..n \subseteq 0..m
  OBVIOUS
<1>3. QED
  BY <1>1, <1>2 DEF TablesOK

LEMMA RestStays ==
  ASSUME TypeInv, NEW n \in Nat, Most <= n, UNCHANGED <<saved, db, up, answers, faults>>
  PROVE  RestOK(n)
<1>1. Most \in Nat
  BY RoomNow
<1>2. TablesOK(db, Most) /\ answers \in Seq(Replies(Most))
  BY DEF TypeInv
<1>3. TablesOK(db, n) /\ answers \in Seq(Replies(n))
  BY <1>1, <1>2, TablesLarger
<1>4. QED
  BY <1>3 DEF TypeInv, RestOK

LEMMA StateKeeps ==
  ASSUME NEW n, Left(n), RestOK(n), FightsOK', Most' = n
  PROVE  TypeInv'
<1>1. MemOK(game', Most') /\ TablesOK(db', Most') /\ sent' \in Seq(Messages(Most')) /\ answers' \in Seq(Replies(Most'))
  BY DEF Left, RestOK
<1>2. QED
  BY <1>1 DEF TypeInv, Left, RestOK

LEMMA LeftKeeps ==
  ASSUME TypeInv, Left(Most), RestOK(Most), UNCHANGED <<fights, fight_id>>
  PROVE  TypeInv'
<1>1. PICK n : n = Most
  OBVIOUS
<1>2. Most' = n
  BY <1>1 DEF Most, Made
<1>3. FightsOK'
  BY DEF TypeInv, FightsOK
<1>4. Left(n) /\ RestOK(n)
  BY <1>1
<1>5. QED
  BY <1>2, <1>3, <1>4, StateKeeps

LEMMA InfoTypes ==
  ASSUME TypeInv, NEW p \in Players, PQSingleArenaInfo(p)
  PROVE  TypeInv'
<1>1. PICK w : w = IF Baseless(p) THEN SetInfoBase(game, p) ELSE game
  OBVIOUS
<1>2. Most \in Nat /\ Room(Most) /\ MemOK(game, Most)
  BY RoomNow DEF TypeInv
<1>3. MemOK(w, Most) /\ p \in DOMAIN w.info
  <2>1. MemOK(SetInfoBase(game, p), Most) /\ p \in DOMAIN SetInfoBase(game, p).info
    BY <1>2, BaseKeeps
  <2>2. ~Baseless(p) => p \in DOMAIN game.info
    BY DEF Baseless
  <2>3. QED
    BY <1>1, <1>2, <2>1, <2>2
<1>4. Refreshed(w, p, {}) /\ UNCHANGED <<fights, fight_id, saved, db, up, answers, faults>>
  BY <1>1 DEF PQSingleArenaInfo
<1>5. Left(Most)
  BY <1>2, <1>3, <1>4, RefreshedOK
<1>6. RestOK(Most)
  BY <1>2, <1>4, RestStays
<1>7. QED
  BY <1>4, <1>5, <1>6, LeftKeeps

LEMMA RefreshTypes ==
  ASSUME TypeInv, NEW p \in Players, PQSingleArenaRefresh(p)
  PROVE  TypeInv'
<1>1. PICK w : w = IF p \in DOMAIN game.info THEN game ELSE SetInfoBase(game, p)
  OBVIOUS
<1>2. Most \in Nat /\ Room(Most) /\ MemOK(game, Most)
  BY RoomNow DEF TypeInv
<1>3. MemOK(w, Most) /\ p \in DOMAIN w.info
  <2>1. MemOK(SetInfoBase(game, p), Most) /\ p \in DOMAIN SetInfoBase(game, p).info
    BY <1>2, BaseKeeps
  <2>2. QED
    BY <1>1, <1>2, <2>1
<1>4. Refreshed(w, p, Skips(p)) /\ UNCHANGED <<fights, fight_id, saved, db, up, answers, faults>>
  BY <1>1 DEF PQSingleArenaRefresh
<1>5. Skips(p) \subseteq Kinds
  BY DEF Skips, Kinds
<1>6. Left(Most)
  BY <1>2, <1>3, <1>4, <1>5, RefreshedOK
<1>7. RestOK(Most)
  BY <1>2, <1>4, RestStays
<1>8. QED
  BY <1>4, <1>6, <1>7, LeftKeeps

LEMMA LevelTypes ==
  ASSUME TypeInv, NEW p \in Players, UpdateLevel(p)
  PROVE  TypeInv'
<1>1. PICK r : r = get_rank_id(game, p)
  OBVIOUS
<1>2. PICK msgs : msgs = <<RowMsg(game.rank_map[r], r)>>
  OBVIOUS
<1>3. Ranked(game, p) /\ Leaves(Write(game, msgs), {}) /\ UNCHANGED <<fights, fight_id, saved, db, up, answers, faults>>
  BY <1>1, <1>2 DEF UpdateLevel
<1>4. Most \in Nat /\ Room(Most) /\ MemOK(game, Most)
  BY RoomNow DEF TypeInv
<1>5. r \in 1..Reach(Most) /\ p \in DOMAIN game.id_rank /\ r = game.id_rank[p]
  BY <1>1, <1>3, <1>4, OwnPlace
<1>6. r \in DOMAIN game.rank_map /\ game.rank_map[r] \in Ids
  BY <1>4, <1>5 DEF MemOK, PlacesOK
<1>7. RowMsg(game.rank_map[r], r) \in Writes(Most)
  BY <1>4, <1>5, <1>6, MessagesAre
<1>8. msgs \in Seq(Writes(Most))
  BY <1>2, <1>7
<1>9. MemOK(Write(game, msgs), Most)
  BY <1>4, <1>8, WriteKeeps
<1>10. Left(Most)
  BY <1>3, <1>4, <1>9, LeavesOK
<1>11. RestOK(Most)
  BY <1>3, <1>4, RestStays
<1>12. QED
  BY <1>3, <1>10, <1>11, LeftKeeps

LEMMA StartTypes ==
  ASSUME TypeInv, NEW p \in Players, NEW def \in Ids \cup {Monster}, Start(p, def)
  PROVE  TypeInv'
<1>1. fight_id < MaxFights /\ fight_id' = fight_id + 1 /\ fights' = Append(fights, [ack |-> p, def |-> def])
      /\ UNCHANGED <<game, saved, db, up, sent, answers, faults, spoilt>>
  BY DEF Start
<1>2. fights \in Seq([ack : Players, def : Ids \cup {Monster}]) /\ fight_id \in 0..MaxFights /\ Len(fights) <= fight_id
      /\ MaxFights \in Nat /\ Len(fights) \in Nat
  BY ArenaAssumption DEF TypeInv, FightsOK
<1>3. PICK f : f = [ack |-> p, def |-> def]
  OBVIOUS
<1>4. f \in [ack : Players, def : Ids \cup {Monster}] /\ fights' = Append(fights, f)
  BY <1>1, <1>3
<1>5. fights' \in Seq([ack : Players, def : Ids \cup {Monster}]) /\ Len(fights') = Len(fights) + 1
  BY <1>2, <1>4
<1>6. FightsOK'
  BY <1>1, <1>2, <1>5 DEF FightsOK
<1>7. PICK n : n = Most
  OBVIOUS
<1>8. Most' = n
  <2>1. Made' = Made
    BY <1>1, <1>2, <1>5 DEF Made
  <2>2. QED
    BY <1>7, <2>1 DEF Most
<1>9. Left(n)
  BY <1>1, <1>7 DEF TypeInv, Left
<1>10. RestOK(n)
  BY <1>1, <1>7 DEF TypeInv, RestOK
<1>11. QED
  BY <1>6, <1>8, <1>9, <1>10, StateKeeps

LEMMA Removed ==
  ASSUME NEW S, NEW q \in Seq(S), NEW i \in DOMAIN q
  PROVE  RemoveAt(q, i) \in Seq(S) /\ Len(RemoveAt(q, i)) = Len(q) - 1
<1>1. i \in 1..Len(q) /\ Len(q) \in Nat
  OBVIOUS
<1>2. PICK a, b : a = SubSeq(q, 1, i - 1) /\ b = SubSeq(q, i + 1, Len(q))
  OBVIOUS
<1>3. a \in Seq(S) /\ Len(a) = i - 1
  BY <1>1, <1>2
<1>4. b \in Seq(S) /\ Len(b) = Len(q) - i
  BY <1>1, <1>2
<1>5. RemoveAt(q, i) = a \o b
  BY <1>2 DEF RemoveAt
<1>6. a \o b \in Seq(S) /\ Len(a \o b) = Len(a) + Len(b)
  BY <1>3, <1>4, ConcatProperties
<1>7. QED
  BY <1>1, <1>3, <1>4, <1>5, <1>6

LEMMA FighterIs ==
  ASSUME TypeInv, NEW i \in DOMAIN fights
  PROVE  fights[i].ack \in Players /\ Len(fights) \in Nat /\ Len(fights) # 0
<1>1. PICK S : S = [ack : Players, def : Ids \cup {Monster}]
  OBVIOUS
<1>2. fights \in Seq(S)
  BY <1>1 DEF TypeInv, FightsOK
<1>3. i \in 1..Len(fights) /\ Len(fights) \in Nat /\ fights[i] \in S
  BY <1>2
<1>4. \A f \in S : f.ack \in Players
  BY <1>1
<1>5. QED
  BY <1>3, <1>4

LEMMA EndTypes ==
  ASSUME TypeInv, NEW i \in DOMAIN fights, NEW result, FightEnds(i, result)
  PROVE  TypeInv'
<1>1. PICK p, t : p = fights[i].ack /\ t = fights[i].def
  OBVIOUS
<1>2. PICK first : first = GetFirstReward(game, p)
  OBVIOUS
<1>3. /\ fights' = RemoveAt(fights, i) /\ UNCHANGED <<fight_id, saved, db, up, answers, faults>>
      /\ IF t = Monster
         THEN IF first = game THEN Leaves(game, {}) ELSE Refreshed(first, p, Skips(p))
         ELSE Leaves(game, {}) \/ (~check_rank(game, p, t) /\ Refreshed(ExtraProc(game, p, t, result), p, {}))
  BY <1>1, <1>2 DEF FightEnds
<1>4. /\ fights \in Seq([ack : Players, def : Ids \cup {Monster}]) /\ fight_id \in 0..MaxFights /\ Len(fights) <= fight_id
      /\ MaxFights \in Nat /\ Len(fights) \in Nat /\ Len(fights) # 0
  BY ArenaAssumption DEF TypeInv, FightsOK
<1>5. p \in Players
  BY <1>1, FighterIs
<1>6. PICK n : n = Most + 1
  OBVIOUS
<1>7. Most \in Nat /\ n \in Nat /\ Most <= n /\ Room(n) /\ MemOK(game, Most)
  BY <1>4, <1>6, RoomNow DEF TypeInv
<1>8. MemOK(game, n)
  BY <1>7, MemLarger
<1>9. MemOK(first, n)
  BY <1>2, <1>5, <1>6, <1>7, FirstKeeps
<1>10. {} \subseteq Kinds /\ Skips(p) \subseteq Kinds
  BY DEF Skips, Kinds
<1>12. Left(n)
  <2>1. CASE t = Monster /\ first # game
    <3>1. p \in DOMAIN game.info /\ game.info[p].max = 0
      BY <1>2, <2>1 DEF GetFirstReward
    <3>2. PICK last : last = FirstPlace(game)
      OBVIOUS
    <3>3. first.info = Put(game.info, p, InfoRec(last, last, game.info[p].opps))
      BY <1>2, <1>7, <3>1, <3>2, FirstIs DEF MemOK
    <3>4. p \in DOMAIN first.info
      BY <3>3 DEF Put
    <3>5. Refreshed(first, p, Skips(p))
      BY <1>3, <2>1
    <3>6. QED
      BY <1>7, <1>9, <1>10, <3>4, <3>5, RefreshedOK
  <2>2. CASE Leaves(game, {})
    BY <1>7, <1>8, <1>10, <2>2, LeavesOK
  <2>3. CASE ~check_rank(game, p, t) /\ Refreshed(ExtraProc(game, p, t, result), p, {})
    <3>1. get_rank_id(game, t) # 0 /\ Listed(game, p, t) # 0
      BY <2>3 DEF check_rank
    <3>2. p \in DOMAIN game.info
      <4>1. p \notin DOMAIN game.info => Listed(game, p, t) = 0
        BY DEF Listed
      <4>2. QED
        BY <3>1, <4>1
    <3>3. PICK x : x = ExtraProc(game, p, t, result)
      OBVIOUS
    <3>4. MemOK(x, n) /\ p \in DOMAIN x.info
      BY <1>6, <1>7, <3>1, <3>2, <3>3, ExtraKeeps
    <3>5. Refreshed(x, p, {})
      BY <2>3, <3>3
    <3>6. QED
      BY <1>7, <1>10, <3>4, <3>5, RefreshedOK
  <2>4. QED
    BY <1>3, <2>1, <2>2, <2>3
<1>13. RestOK(n)
  BY <1>3, <1>7, RestStays
<1>14. fights' \in Seq([ack : Players, def : Ids \cup {Monster}]) /\ Len(fights') = Len(fights) - 1
  BY <1>3, <1>4, Removed
<1>15. FightsOK'
  BY <1>3, <1>4, <1>14 DEF FightsOK
<1>16. Most' = n
  <2>1. Made' = Made + 1
    BY <1>3, <1>4, <1>14 DEF Made
  <2>2. Made \in Nat /\ Cardinality(Players) \in Nat
    BY <1>4, ArenaAssumption, FS_CardinalityType DEF Made
  <2>3. QED
    BY <1>6, <2>1, <2>2 DEF Most
<1>17. QED
  BY <1>12, <1>13, <1>15, <1>16, StateKeeps

LEMMA LinkTypes ==
  ASSUME TypeInv, SEventNetRealDB
  PROVE  TypeInv'
<1>1. PICK n : n = Most
  OBVIOUS
<1>2. PICK v : v = game'
  OBVIOUS
<1>3. /\ v = [game EXCEPT !.load_log = 0, !.target_guid = 0] /\ up' = TRUE /\ sent' = Append(sent, Load)
      /\ spoilt' \subseteq spoilt \cup {"late"} /\ UNCHANGED <<fights, fight_id, saved, db, answers, faults>>
  BY <1>2 DEF SEventNetRealDB
<1>4. n \in Nat /\ MemOK(game, n) /\ game.out = << >> /\ sent \in Seq(Messages(n))
  BY <1>1, RoomNow DEF TypeInv
<1>5. /\ IsMem(v) /\ v.info = game.info /\ v.rank_map = game.rank_map /\ v.id_rank = game.id_rank
      /\ v.target_guid = 0 /\ v.load_log = 0 /\ v.count = game.count /\ v.user = game.user /\ v.out = game.out
  BY <1>3, <1>4 DEF MemOK, IsMem
<1>6. PlacesOK(v, n)
  BY <1>4, <1>5 DEF MemOK, PlacesOK
<1>7. \A q \in DOMAIN v.info : InfoOK(v, n, v.info[q])
  BY <1>4, <1>5 DEF MemOK, InfoOK, FourOK
<1>8. MemOK(v, n)
  BY <1>4, <1>5, <1>6, <1>7 DEF MemOK
<1>9. sent' \in Seq(Messages(n))
  <2>1. Load \in Messages(n)
    BY <1>4, MessagesAre
  <2>2. QED
    BY <1>3, <1>4, <2>1
<1>10. Left(n)
  BY <1>2, <1>3, <1>4, <1>5, <1>8, <1>9 DEF Left, TypeInv, Kinds
<1>11. RestOK(n)
  BY <1>1, <1>3 DEF RestOK, TypeInv
<1>12. QED
  BY <1>1, <1>3, <1>10, <1>11, LeftKeeps

LEMMA SaveUserTypes ==
  ASSUME TypeInv, NEW p \in Players, SaveUser(p)
  PROVE  TypeInv'
<1>1. saved' = [saved EXCEPT ![p] = game.user[p]] /\ UNCHANGED <<game, fights, fight_id, db, up, sent, answers, faults, spoilt>>
  BY DEF SaveUser
<1>2. saved \in [Players -> User] /\ game.user \in [Players -> User]
  BY DEF TypeInv, MemOK
<1>3. saved' \in [Players -> User]
  BY <1>1, <1>2
<1>4. PICK n : n = Most
  OBVIOUS
<1>5. Left(n) /\ RestOK(n)
  BY <1>1, <1>3, <1>4 DEF Left, RestOK, TypeInv
<1>6. QED
  BY <1>1, <1>4, <1>5, LeftKeeps

LEMMA AnswersTyped ==
  ASSUME TypeInv
  PROVE  Answers \in Seq(Replies(Most))
<1>1. PICK a, b, c : a = CountMsg(db.count) /\ b = RanksMsg(db.rows) /\ c = LogsMsg(db.logs)
  OBVIOUS
<1>2. Answers = <<a, b, c>>
  BY <1>1 DEF Answers, RanksMsg, LogsMsg
<1>3. db.rows \in Tables(Most) /\ db.logs \in SUBSET Players /\ db.count \in 0..Most
  BY DEF TypeInv, TablesOK
<1>4. a \in Replies(Most)
  BY <1>1, <1>3 DEF Replies
<1>5. b \in Replies(Most)
  BY <1>1, <1>3 DEF Replies
<1>6. c \in Replies(Most)
  BY <1>1, <1>3 DEF Replies
<1>7. QED
  BY <1>2, <1>4, <1>5, <1>6

LEMMA RealdbTypes ==
  ASSUME TypeInv, Realdb
  PROVE  TypeInv'
<1>1. PICK k \in DOMAIN sent :
        /\ sent' = SubSeq(sent, k + 1, Len(sent)) /\ db' = Saved(db, SubSeq(sent, 1, k))
        /\ answers' = (IF sent[1] = Load /\ up THEN answers \o Answers ELSE answers)
        /\ UNCHANGED <<game, fights, fight_id, saved, up, faults, spoilt>>
  BY DEF Realdb
<1>2. PICK n : n = Most
  OBVIOUS
<1>3. n \in Nat /\ sent \in Seq(Messages(n)) /\ answers \in Seq(Replies(n)) /\ TablesOK(db, n)
  BY <1>2, RoomNow DEF TypeInv
<1>4. Len(sent) \in Nat /\ k \in 1..Len(sent)
  BY <1>3
<1>5. sent' \in Seq(Messages(n)) /\ SubSeq(sent, 1, k) \in Seq(Messages(n))
  BY <1>1, <1>3, <1>4
<1>6. TablesOK(db', n)
  BY <1>1, <1>3, <1>5, SavedKeeps
<1>7. answers' \in Seq(Replies(n))
  <2>1. Answers \in Seq(Replies(n))
    BY <1>2, AnswersTyped
  <2>2. answers \o Answers \in Seq(Replies(n))
    BY <1>3, <2>1, ConcatProperties
  <2>3. QED
    BY <1>1, <1>3, <2>2
<1>8. Left(n)
  BY <1>1, <1>2, <1>5 DEF Left, TypeInv
<1>9. RestOK(n)
  BY <1>1, <1>6, <1>7 DEF RestOK, TypeInv
<1>10. QED
  BY <1>1, <1>2, <1>8, <1>9, LeftKeeps

\* What comes with an answer.
LEMMA ReplyIs ==
  ASSUME NEW n, NEW m \in Replies(n)
  PROVE  /\ m.kind = "count" => m.n \in 0..n
         /\ m.kind = "ranks" => m.rows \in Tables(n)
         /\ m.kind = "logs"  => m.logs \subseteq Players
BY DEF Replies, CountMsg, RanksMsg, LogsMsg

IsOwners(f, rows) == f \in [Range(rows) -> DOMAIN rows] /\ \A r \in DOMAIN f : rows[f[r]] = r
IsLoaded(v, w, f, rows) ==
  v = [w EXCEPT !.rank_map = Over(f, w.rank_map), !.id_rank = Over(rows, w.id_rank), !.load_log = w.load_log + 1]

LEMMA LoadedIs ==
  ASSUME NEW w, IsMem(w), NEW f, NEW rows, NEW v, IsLoaded(v, w, f, rows)
  PROVE  /\ IsMem(v) /\ v.rank_map = Over(f, w.rank_map) /\ v.id_rank = Over(rows, w.id_rank)
         /\ v.load_log = w.load_log + 1
         /\ v.info = w.info /\ v.target_guid = w.target_guid /\ v.count = w.count /\ v.user = w.user /\ v.out = w.out
BY DEF IsMem, IsLoaded

\* The rows of a table put over those of a memory.
LEMMA LoadedKeeps ==
  ASSUME NEW n, Room(n), NEW w, MemOK(w, n), NEW rows \in Tables(n), NEW f, IsOwners(f, rows),
         NEW v, IsLoaded(v, w, f, rows)
  PROVE  MemOK(v, n)
<1>1. /\ n \in Nat /\ Reach(n) + 5 <= LastRank /\ Reach(n) \in Nat /\ LastRank \in Nat
  BY ArenaAssumption DEF Room, Reach
<1>2. /\ IsMem(v) /\ v.rank_map = Over(f, w.rank_map) /\ v.id_rank = Over(rows, w.id_rank)
      /\ v.load_log = w.load_log + 1
      /\ v.info = w.info /\ v.target_guid = w.target_guid /\ v.count = w.count /\ v.user = w.user /\ v.out = w.out
  BY LoadedIs DEF MemOK
<1>3. DOMAIN rows \subseteq Ids /\ \A id \in DOMAIN rows : rows[id] \in 1..Reach(n)
  BY TablesAre
<1>4. \A id \in DOMAIN rows : rows[id] \in Range(rows)
  BY DEF Range
<1>5. DOMAIN f = Range(rows) /\ \A r \in DOMAIN f : f[r] \in DOMAIN rows /\ rows[f[r]] = r /\ r \in 1..Reach(n)
  BY <1>3 DEF IsOwners
<1>6. /\ DOMAIN v.rank_map = DOMAIN f \cup DOMAIN w.rank_map
      /\ \A r \in DOMAIN v.rank_map : v.rank_map[r] = IF r \in DOMAIN f THEN f[r] ELSE w.rank_map[r]
  BY <1>2 DEF Over
<1>7. /\ DOMAIN v.id_rank = DOMAIN rows \cup DOMAIN w.id_rank
      /\ \A id \in DOMAIN v.id_rank : v.id_rank[id] = IF id \in DOMAIN rows THEN rows[id] ELSE w.id_rank[id]
  BY <1>2 DEF Over
<1>8. DOMAIN v.rank_map \subseteq 0..LastRank
  <2>1. 1..Reach(n) \subseteq 0..LastRank
    BY <1>1
  <2>2. DOMAIN w.rank_map \subseteq 0..LastRank
    BY DEF MemOK, PlacesOK
  <2>3. QED
    BY <1>5, <1>6, <2>1, <2>2
<1>9. ASSUME NEW r \in DOMAIN v.rank_map
      PROVE  v.rank_map[r] \in DOMAIN v.id_rank /\ (v.rank_map[r] \in Players => r \in 1..Reach(n))
  <2>1. CASE r \in DOMAIN f
    BY <1>5, <1>6, <1>7, <2>1
  <2>2. CASE r \notin DOMAIN f
    BY <1>6, <1>7, <2>2 DEF MemOK, PlacesOK
  <2>3. QED
    BY <2>1, <2>2
<1>10. ASSUME NEW id \in DOMAIN v.id_rank
       PROVE  v.id_rank[id] \in DOMAIN v.rank_map /\ (id \in Players => v.id_rank[id] \in 1..Reach(n))
  <2>1. CASE id \in DOMAIN rows
    BY <1>3, <1>4, <1>5, <1>6, <1>7, <2>1
  <2>2. CASE id \notin DOMAIN rows
    BY <1>6, <1>7, <2>2 DEF MemOK, PlacesOK
  <2>3. QED
    BY <2>1, <2>2
<1>11. DOMAIN v.id_rank \subseteq Ids
  BY <1>3, <1>7 DEF MemOK, PlacesOK
<1>12. PlacesOK(v, n)
  BY <1>8, <1>9, <1>10, <1>11 DEF PlacesOK
<1>13. \A opps : FourOK(w, opps) => FourOK(v, opps)
  BY <1>6, <1>7 DEF FourOK
<1>14. \A q \in DOMAIN v.info : InfoOK(v, n, v.info[q])
  BY <1>2, <1>13 DEF MemOK, InfoOK
<1>15. QED
  BY <1>2, <1>12, <1>14 DEF MemOK

\* The first places are filled.
LEMMA RankedKeeps ==
  ASSUME NEW n, Room(n), NEW w, MemOK(w, n)
  PROVE  MemOK(CreateRank(w), n)
<1>1. PICK ranks : ranks = [r \in 1..SHOW_RANK_COUNT |-> r]
  OBVIOUS
<1>2. SHOW_RANK_COUNT \in Nat /\ Len(ranks) = SHOW_RANK_COUNT /\ \A r \in 1..SHOW_RANK_COUNT : ranks[r] = r
  BY <1>1, ArenaAssumption
<1>3. PICK v : v = Filled(w, ranks)
  OBVIOUS
<1>4. IsMem(w) /\ w.target_guid \in Nat
  BY DEF MemOK
<1>5. /\ Grown(w, v)
      /\ \A r : r \in DOMAIN v.rank_map <=> r \in DOMAIN w.rank_map \/ \E i \in 1..SHOW_RANK_COUNT : r = ranks[i]
  BY <1>2, <1>3, <1>4, FilledIs
<1>6. SHOW_RANK_COUNT <= LastRank /\ LastRank \in Nat
  BY <1>2, ArenaAssumption DEF Room, Reach
<1>7. DOMAIN v.rank_map \subseteq 0..LastRank
  <2>1. \A i \in 1..SHOW_RANK_COUNT : ranks[i] \in 0..LastRank
    BY <1>2, <1>6
  <2>2. DOMAIN w.rank_map \subseteq 0..LastRank
    BY DEF MemOK, PlacesOK
  <2>3. QED
    BY <1>5, <2>1, <2>2
<1>8. MemOK(v, n)
  BY <1>5, <1>7, GrowthKeeps DEF Room
<1>9. QED
  BY <1>1, <1>3, <1>8 DEF CreateRank

LEMMA CreatedIs ==
  ASSUME NEW n, NEW w, MemOK(w, n), NEW v, v = CreateRank(w)
  PROVE  Grown(w, v) /\ IsMem(v) /\ v.info = w.info /\ v.user = w.user
<1>1. PICK ranks : ranks = [r \in 1..SHOW_RANK_COUNT |-> r]
  OBVIOUS
<1>2. SHOW_RANK_COUNT \in Nat /\ Len(ranks) = SHOW_RANK_COUNT
  BY <1>1, ArenaAssumption
<1>3. IsMem(w) /\ w.target_guid \in Nat
  BY DEF MemOK
<1>4. Grown(w, Filled(w, ranks))
  BY <1>2, <1>3, FilledIs
<1>5. Grown(w, v)
  BY <1>1, <1>3, <1>4, GrownSelf DEF CreateRank
<1>6. QED
  BY <1>5 DEF Grown

\* The infos of those that have logs.
LEMMA LoggedKeeps ==
  ASSUME NEW n \in Nat, NEW w, MemOK(w, n), NEW logs, logs \subseteq Players,
         NEW v, v = [w EXCEPT !.info = Over(w.info, [p \in logs |-> EmptyInfo]), !.load_log = w.load_log + 1]
  PROVE  MemOK(v, n)
<1>1. PICK x : x = Over(w.info, [p \in logs |-> EmptyInfo])
  OBVIOUS
<1>2. v = [w EXCEPT !.info = x, !.load_log = w.load_log + 1]
  BY <1>1
<1>3. /\ IsMem(v) /\ v.info = x /\ v.load_log = w.load_log + 1
      /\ v.rank_map = w.rank_map /\ v.id_rank = w.id_rank
      /\ v.target_guid = w.target_guid /\ v.count = w.count /\ v.user = w.user /\ v.out = w.out
  BY <1>2 DEF IsMem, MemOK
<1>4. DOMAIN x = DOMAIN w.info \cup logs /\ \A q \in DOMAIN x : x[q] = IF q \in DOMAIN w.info THEN w.info[q] ELSE EmptyInfo
  BY <1>1 DEF Over
<1>5. PlacesOK(v, n)
  BY <1>3 DEF MemOK, PlacesOK
<1>6. InfoOK(v, n, EmptyInfo)
  <2>1. 0 \in 0..Reach(n)
    BY ArenaAssumption DEF Reach
  <2>2. QED
    BY <2>1 DEF InfoOK, FourOK, EmptyInfo
<1>7. \A q \in DOMAIN w.info : InfoOK(v, n, w.info[q])
  BY <1>3 DEF MemOK, InfoOK, FourOK
<1>8. \A q \in DOMAIN v.info : InfoOK(v, n, v.info[q])
  BY <1>3, <1>4, <1>6, <1>7
<1>9. QED
  BY <1>3, <1>4, <1>5, <1>8 DEF MemOK

LEMMA AnsweredTypes ==
  ASSUME TypeInv, Answered
  PROVE  TypeInv'
<1>1. PICK m : m = Head(answers)
  OBVIOUS
<1>2. /\ answers # << >> /\ answers' = Tail(answers) /\ UNCHANGED <<fights, fight_id, saved, db, up, faults>>
      /\ \/ m.kind = "count" /\ PRServerInfoList(m.n)
         \/ m.kind = "ranks" /\ LoadData(m.rows)
         \/ m.kind = "logs" /\ LoadLog(m.logs)
  BY <1>1 DEF Answered
<1>3. PICK n : n = Most
  OBVIOUS
<1>4. n \in Nat /\ Room(n) /\ MemOK(game, n) /\ answers \in Seq(Replies(n)) /\ n <= n
  BY <1>3, RoomNow DEF TypeInv
<1>5. m \in Replies(n) /\ answers' \in Seq(Replies(n))
  BY <1>1, <1>2, <1>4
<1>6. /\ m.kind = "count" => m.n \in 0..n
      /\ m.kind = "ranks" => m.rows \in Tables(n)
      /\ m.kind = "logs"  => m.logs \subseteq Players
  BY <1>5, ReplyIs
<1>7. Left(n)
  <2>1. CASE m.kind = "count" /\ PRServerInfoList(m.n)
    <3>1. PICK w, marks : /\ w = [game EXCEPT !.count = m.n]
                          /\ marks = (IF OlderCount(m.n) THEN {"overwritten"} ELSE {}) /\ Leaves(w, marks)
      BY <2>1 DEF PRServerInfoList
    <3>2. m.n \in 0..n
      BY <1>6, <2>1
    <3>3. MemOK(w, n)
      BY <1>4, <3>1, <3>2, CountKeeps
    <3>4. marks \subseteq Kinds
      BY <3>1 DEF Kinds
    <3>5. QED
      BY <1>3, <1>4, <3>1, <3>3, <3>4, LeavesOK
  <2>2. CASE m.kind = "ranks" /\ LoadData(m.rows)
    <3>1. PICK rows : rows = m.rows
      OBVIOUS
    <3>2. rows \in Tables(n) /\ LoadData(rows)
      BY <1>6, <2>2, <3>1
    <3>3. PICK f, w, marks : /\ IsOwners(f, rows) /\ IsLoaded(w, game, f, rows)
                             /\ marks = (IF Older(rows) THEN {"overwritten"} ELSE {}) /\ Leaves(CreateRank(w), marks)
      BY <3>2 DEF LoadData, IsOwners, IsLoaded
    <3>4. MemOK(w, n)
      BY <1>4, <3>2, <3>3, LoadedKeeps
    <3>5. MemOK(CreateRank(w), n)
      BY <1>4, <3>4, RankedKeeps
    <3>6. marks \subseteq Kinds
      BY <3>3 DEF Kinds
    <3>7. QED
      BY <1>3, <1>4, <3>3, <3>5, <3>6, LeavesOK
  <2>3. CASE m.kind = "logs" /\ LoadLog(m.logs)
    <3>1. PICK logs : logs = m.logs
      OBVIOUS
    <3>2. logs \subseteq Players /\ LoadLog(logs)
      BY <1>6, <2>3, <3>1
    <3>3. PICK w : w = [game EXCEPT !.info = Over(game.info, [p \in logs |-> EmptyInfo]), !.load_log = game.load_log + 1]
      OBVIOUS
    <3>4. Leaves(w, {})
      BY <3>2, <3>3 DEF LoadLog
    <3>5. MemOK(w, n)
      BY <1>4, <3>2, <3>3, LoggedKeeps
    <3>6. {} \subseteq Kinds
      OBVIOUS
    <3>7. QED
      BY <1>3, <1>4, <3>4, <3>5, <3>6, LeavesOK
  <2>4. QED
    BY <1>2, <2>1, <2>2, <2>3
<1>8. RestOK(n)
  BY <1>2, <1>3, <1>5 DEF RestOK, TypeInv
<1>9. QED
  BY <1>2, <1>3, <1>7, <1>8, LeftKeeps

LEMMA CutIs ==
  ASSUME NEW n \in Nat, sent \in Seq(Messages(n)), NEW k \in 0..Len(sent), NEW torn \in BOOLEAN, torn => Torn(k)
  PROVE  Cut(k, torn) \in Seq(Messages(n))
<1>1. Len(sent) \in Nat /\ k \in Nat /\ SubSeq(sent, 1, k) \in Seq(Messages(n))
  <2>1. k \in 0..Len(sent) /\ Len(sent) \in Nat
    OBVIOUS
  <2>2. \A i \in 1..k : i \in 1..Len(sent) /\ sent[i] \in Messages(n)
    BY <2>1
  <2>3. SubSeq(sent, 1, k) \in Seq(Messages(n))
    BY <2>1, <2>2, SubSeqProperties
  <2>4. QED
    BY <2>1, <2>3
<1>2. CASE torn
  <2>1. k + 1 \in 1..Len(sent) /\ sent[k + 1].kind = "row"
    BY <1>1, <1>2 DEF Torn
  <2>2. PICK m \in Messages(n) : m = sent[k + 1]
    BY <2>1
  <2>3. m.id \in Ids
    BY <2>1, <2>2, MessageIs DEF Load, LogMsg, CountMsg, DelMsg
  <2>4. PICK d : d = DelMsg(m.id)
    OBVIOUS
  <2>5. d \in Messages(n)
    BY <2>3, <2>4, MessagesAre
  <2>6. Cut(k, torn) = SubSeq(sent, 1, k) \o <<d>>
    BY <1>2, <2>2, <2>4 DEF Cut, DelMsg
  <2>7. <<d>> \in Seq(Messages(n))
    BY <2>5
  <2>8. QED
    BY <1>1, <2>6, <2>7, ConcatProperties
<1>3. CASE ~torn
  <2>1. Cut(k, torn) = SubSeq(sent, 1, k) \o << >>
    BY <1>3 DEF Cut
  <2>2. << >> \in Seq(Messages(n))
    OBVIOUS
  <2>3. QED
    BY <1>1, <2>1, <2>2, ConcatProperties
<1>4. QED
  BY <1>2, <1>3

LEMMA RealdbEndsTypes ==
  ASSUME TypeInv, RealdbEnds
  PROVE  TypeInv'
<1>1. /\ up' = FALSE /\ faults' = faults + 1 /\ sent' = << >> /\ UNCHANGED <<game, fights, fight_id, saved>>
      /\ \E k \in 0..Len(sent), torn \in BOOLEAN :
           (torn => Torn(k)) /\ db' = Saved(db, Cut(k, torn)) /\ spoilt' = spoilt \cup Lost(k)
      /\ \E k \in 0..Len(answers) : answers' = SubSeq(answers, 1, k)
  BY DEF RealdbEnds, Fault
<1>2. PICK n : n = Most
  OBVIOUS
<1>3. n \in Nat /\ sent \in Seq(Messages(n)) /\ answers \in Seq(Replies(n)) /\ TablesOK(db, n)
  BY <1>2, RoomNow DEF TypeInv
<1>4. PICK k \in 0..Len(sent), torn \in BOOLEAN :
        (torn => Torn(k)) /\ db' = Saved(db, Cut(k, torn)) /\ spoilt' = spoilt \cup Lost(k)
  BY <1>1
<1>5. PICK msgs : msgs = Cut(k, torn)
  OBVIOUS
<1>6. msgs \in Seq(Messages(n))
  BY <1>3, <1>4, <1>5, CutIs
<1>7. TablesOK(db', n)
  BY <1>3, <1>4, <1>5, <1>6, SavedKeeps
<1>8. answers' \in Seq(Replies(n))
  <2>1. PICK l \in 0..Len(answers) : answers' = SubSeq(answers, 1, l)
    BY <1>1
  <2>2. l \in 0..Len(answers) /\ Len(answers) \in Nat /\ \A i \in 1..Len(answers) : answers[i] \in Replies(n)
    BY <1>3
  <2>3. \A i \in 1..l : answers[i] \in Replies(n)
    BY <2>2
  <2>4. QED
    BY <1>3, <2>1, <2>2, <2>3, SubSeqProperties
<1>9. spoilt' \subseteq Kinds
  BY <1>4 DEF Lost, Kinds, TypeInv
<1>10. Left(n)
  BY <1>1, <1>2, <1>9 DEF Left, TypeInv
<1>11. faults' \in Nat /\ up' \in BOOLEAN
  <2>1. faults \in Nat /\ faults' = faults + 1
    BY <1>1 DEF TypeInv
  <2>2. up' \in BOOLEAN
    BY <1>1, Zenon
  <2>3. QED
    BY <2>1, <2>2
<1>12. saved' \in [Players -> User]
  BY <1>1 DEF TypeInv
<1>13. RestOK(n)
  BY <1>7, <1>8, <1>11, <1>12, Zenon DEF RestOK
<1>14. QED
  BY <1>1, <1>2, <1>10, <1>13, LeftKeeps

LEMMA EmptyMemory ==
  ASSUME NEW n \in Nat, NEW users \in [Players -> User]
  PROVE  MemOK(Memory(users), n)
<1>1. PICK x, w : x = << >> /\ w = Memory(users)
  OBVIOUS
<1>2. DOMAIN x = {} /\ x \in Seq(Writes(n))
  BY <1>1
<1>3. w = [info |-> x, rank_map |-> x, id_rank |-> x, target_guid |-> 0, load_log |-> 0, count |-> 0,
           user |-> users, out |-> x]
  BY <1>1 DEF Memory
<1>4. /\ IsMem(w) /\ w.info = x /\ w.rank_map = x /\ w.id_rank = x /\ w.target_guid = 0 /\ w.load_log = 0
      /\ w.count = 0 /\ w.user = users /\ w.out = x
  BY <1>3 DEF IsMem
<1>5. PlacesOK(w, n)
  BY <1>2, <1>4 DEF PlacesOK
<1>6. QED
  BY <1>1, <1>2, <1>4, <1>5 DEF MemOK

LEMMA GameEndsTypes ==
  ASSUME TypeInv, GameEnds
  PROVE  TypeInv'
<1>1. /\ up' = FALSE /\ faults' = faults + 1 /\ game' = Memory(saved) /\ fights' = << >> /\ answers' = << >>
      /\ UNCHANGED <<fight_id, saved, db>>
      /\ \E k \in 0..Len(sent), torn \in BOOLEAN :
           (torn => Torn(k)) /\ sent' = Cut(k, torn) /\ spoilt' = spoilt \cup Lost(k) \cup Rolled
  BY DEF GameEnds, Fault
<1>2. PICK n : n = Cardinality(Players) + fight_id
  OBVIOUS
<1>3. Cardinality(Players) \in Nat /\ fight_id \in Nat /\ Len(fights) \in Nat /\ Len(fights) <= fight_id
  BY ArenaAssumption, FS_CardinalityType DEF TypeInv, FightsOK
<1>4. n \in Nat /\ Most \in Nat /\ Most <= n
  BY <1>2, <1>3 DEF Most, Made
<1>5. sent \in Seq(Messages(n)) /\ TablesOK(db, n)
  BY <1>4, TablesLarger DEF TypeInv
<1>6. sent' \in Seq(Messages(n)) /\ spoilt' \subseteq Kinds
  <2>1. PICK k \in 0..Len(sent), torn \in BOOLEAN :
          (torn => Torn(k)) /\ sent' = Cut(k, torn) /\ spoilt' = spoilt \cup Lost(k) \cup Rolled
    BY <1>1
  <2>2. sent' \in Seq(Messages(n))
    BY <1>4, <1>5, <2>1, CutIs
  <2>3. QED
    BY <2>1, <2>2 DEF Lost, Rolled, Kinds, TypeInv
<1>7. MemOK(game', n) /\ game'.out = << >>
  <2>1. saved \in [Players -> User]
    BY DEF TypeInv
  <2>2. PICK users : users = saved
    OBVIOUS
  <2>3. MemOK(Memory(users), n)
    BY <1>4, <2>1, <2>2, EmptyMemory
  <2>4. Memory(users).out = << >>
    BY DEF Memory
  <2>5. QED
    BY <1>1, <2>2, <2>3, <2>4
<1>8. Left(n)
  BY <1>6, <1>7 DEF Left
<1>9. << >> \in Seq(Replies(n))
  OBVIOUS
<1>10. RestOK(n)
  <2>1. faults' \in Nat /\ up' \in BOOLEAN
    <3>1. faults \in Nat /\ faults' = faults + 1
      BY <1>1 DEF TypeInv
    <3>2. up' \in BOOLEAN
      BY <1>1, Zenon
    <3>3. QED
      BY <3>1, <3>2
  <2>2. saved' \in [Players -> User] /\ db' = db /\ answers' \in Seq(Replies(n))
    BY <1>1, <1>9 DEF TypeInv
  <2>3. TablesOK(db', n)
    BY <1>5, <2>2
  <2>4. QED
    BY <2>1, <2>2, <2>3, Zenon DEF RestOK
<1>11. PICK x : x = << >>
  OBVIOUS
<1>12. fights' = x /\ Len(x) = 0 /\ x \in Seq([ack : Players, def : Ids \cup {Monster}])
  BY <1>1, <1>11
<1>13. FightsOK'
  BY <1>1, <1>3, <1>12 DEF FightsOK, TypeInv
<1>14. Most' = n
  BY <1>1, <1>2, <1>3, <1>12 DEF Most, Made
<1>15. QED
  BY <1>8, <1>10, <1>13, <1>14, StateKeeps

LEMMA InitTypes ==
  ASSUME Init
  PROVE  TypeInv
<1>0. PICK came \in SUBSET Players :
        \E place \in [came -> MAX_CREATE_OPPONENT + 1 .. MAX_CREATE_OPPONENT + Cardinality(came)] :
          /\ db = [rows |-> place, logs |-> {}, count |-> Cardinality(came)]
          /\ saved = [p \in Players |-> Record(RankIn(place, p))]
  BY DEF Init
<1>1. PICK place \in [came -> MAX_CREATE_OPPONENT + 1 .. MAX_CREATE_OPPONENT + Cardinality(came)] :
        /\ db = [rows |-> place, logs |-> {}, count |-> Cardinality(came)]
        /\ saved = [p \in Players |-> Record(RankIn(place, p))]
  BY <1>0
<1>2. /\ game = Memory(saved) /\ fights = << >> /\ fight_id = 0 /\ up = FALSE /\ sent = << >> /\ answers = << >>
      /\ faults = 0 /\ spoilt = {}
  BY DEF Init
<1>3. PICK n, c : n = Cardinality(Players) /\ c = Cardinality(came)
  OBVIOUS
<1>4. n \in Nat /\ c \in Nat /\ c <= n /\ MAX_CREATE_OPPONENT \in Nat
  BY <1>3, ArenaAssumption, FS_CardinalityType, FS_Subset
<1>5. PICK x : x = << >>
  OBVIOUS
<1>6. Len(x) = 0 /\ x \in Seq([ack : Players, def : Ids \cup {Monster}]) /\ x \in Seq(Messages(n)) /\ x \in Seq(Replies(n))
  BY <1>5
<1>7. Most = n
  BY <1>2, <1>3, <1>4, <1>5, <1>6 DEF Most, Made
<1>8. FightsOK
  BY <1>2, <1>5, <1>6, ArenaAssumption DEF FightsOK
<1>9. \A p \in came : place[p] \in 1..Reach(n)
  BY <1>3, <1>4 DEF Reach
<1>10. place \in Tables(n)
  <2>1. came \in SUBSET Ids
    BY DEF Ids
  <2>2. place \in [came -> 1..Reach(n)]
    BY <1>9
  <2>3. QED
    BY <2>1, <2>2 DEF Tables
<1>11. TablesOK(db, n)
  BY <1>1, <1>3, <1>4, <1>10 DEF TablesOK
<1>12. saved \in [Players -> User]
  <2>1. \A p \in Players : RankIn(place, p) \in Nat
    BY <1>4, <1>9 DEF RankIn, Reach
  <2>2. \A p \in Players : Record(RankIn(place, p)) \in User
    BY <2>1 DEF Record, User
  <2>3. QED
    BY <1>1, <2>2
<1>13. MemOK(game, n) /\ game.out = << >>
  <2>1. PICK users : users = saved
    OBVIOUS
  <2>2. MemOK(Memory(users), n)
    BY <1>4, <1>12, <2>1, EmptyMemory
  <2>3. Memory(users).out = << >>
    BY DEF Memory
  <2>4. QED
    BY <1>2, <2>1, <2>2, <2>3
<1>14. QED
  BY <1>2, <1>5, <1>6, <1>7, <1>8, <1>11, <1>12, <1>13 DEF TypeInv

LEMMA ApplyTypes ==
  ASSUME TypeInv, NEW p \in Players, PQFightSingleArenaApply(p)
  PROVE  TypeInv'
<1>1. PICK t \in DOMAIN game.id_rank : Start(p, t)
  BY DEF PQFightSingleArenaApply
<1>2. t \in Ids \cup {Monster}
  BY DEF TypeInv, MemOK, PlacesOK
<1>3. QED
  BY <1>1, <1>2, StartTypes

LEMMA AutoTypes ==
  ASSUME TypeInv, NEW p \in Players, PQCommonFightAuto(p)
  PROVE  TypeInv'
<1>1. Start(p, Monster) /\ Monster \in Ids \cup {Monster}
  BY DEF PQCommonFightAuto
<1>2. QED
  BY <1>1, StartTypes

LEMMA StepTypes ==
  ASSUME TypeInv, [Next]_vars
  PROVE  TypeInv'
<1>1. CASE \E p \in Players : PQSingleArenaInfo(p)
  BY <1>1, InfoTypes
<1>2. CASE \E p \in Players : PQSingleArenaRefresh(p)
  BY <1>2, RefreshTypes
<1>3. CASE \E p \in Players : PQFightSingleArenaApply(p)
  BY <1>3, ApplyTypes
<1>4. CASE \E p \in Players : PQCommonFightAuto(p)
  BY <1>4, AutoTypes
<1>5. CASE \E p \in Players : UpdateLevel(p)
  BY <1>5, LevelTypes
<1>6. CASE \E p \in Players : SaveUser(p)
  BY <1>6, SaveUserTypes
<1>7. CASE PRCommonFightServerEnd
  <2>1. PICK i \in DOMAIN fights, r \in {"won", "lost"} : FightEnds(i, r)
    BY <1>7 DEF PRCommonFightServerEnd
  <2>2. QED
    BY <2>1, EndTypes
<1>8. CASE PQPlayerFightQuit
  <2>1. PICK i \in DOMAIN fights : FightEnds(i, "quit")
    BY <1>8 DEF PQPlayerFightQuit
  <2>2. QED
    BY <2>1, EndTypes
<1>9. CASE SEventNetRealDB
  BY <1>9, LinkTypes
<1>10. CASE Realdb
  BY <1>10, RealdbTypes
<1>11. CASE Answered
  BY <1>11, AnsweredTypes
<1>12. CASE RealdbEnds
  BY <1>12, RealdbEndsTypes
<1>13. CASE GameEnds
  BY <1>13, GameEndsTypes
<1>14. CASE UNCHANGED vars
  <2>1. UNCHANGED <<game, fights, fight_id, saved, db, up, sent, answers, faults, spoilt>>
    BY <1>14 DEF vars
  <2>2. PICK n : n = Most
    OBVIOUS
  <2>3. Left(n)
    BY <2>1, <2>2 DEF Left, TypeInv
  <2>4. RestOK(n)
    BY <2>1, <2>2, Zenon DEF RestOK, TypeInv
  <2>5. QED
    BY <2>1, <2>2, <2>3, <2>4, LeftKeeps
<1>15. QED
  BY <1>1, <1>2, <1>3, <1>4, <1>5, <1>6, <1>7, <1>8, <1>9, <1>10, <1>11, <1>12, <1>13, <1>14 DEF Next

LEMMA TypesAre ==
  ASSUME TypeInv
  PROVE  TypeOK
<1>1. /\ game.user \in [Players -> User] /\ saved \in [Players -> User] /\ game.out = << >>
      /\ game.load_log \in Nat /\ game.target_guid \in Nat /\ spoilt \subseteq Kinds
  BY DEF TypeInv, MemOK
<1>2. game.count \in Nat
  <2>1. game.count \in 0..Most /\ Most \in Nat
    BY RoomNow DEF TypeInv, MemOK
  <2>2. QED
    BY <2>1
<1>3. DOMAIN game.rank_map \subseteq 0..LastRank /\ Range(game.rank_map) \subseteq DOMAIN game.id_rank
  BY DEF TypeInv, MemOK, PlacesOK, Range
<1>4. \A p \in DOMAIN game.info : game.info[p].opps \in {<< >>} \cup Opponents
  <2>1. \A p \in DOMAIN game.info : FourOK(game, game.info[p].opps)
    BY DEF TypeInv, MemOK, InfoOK
  <2>2. QED
    BY <2>1 DEF FourOK, Opponents
<1>5. \A i \in DOMAIN fights : fights[i].ack \in Players
  <2>1. PICK S : S = [ack : Players, def : Ids \cup {Monster}]
    OBVIOUS
  <2>2. fights \in Seq(S)
    BY <2>1 DEF TypeInv, FightsOK
  <2>3. \A i \in DOMAIN fights : fights[i] \in S
    BY <2>2
  <2>4. \A f \in S : f.ack \in Players
    BY <2>1
  <2>5. QED
    BY <2>3, <2>4
<1>6. db.logs \subseteq Players
  BY DEF TypeInv, TablesOK
<1>7. QED
  BY <1>1, <1>2, <1>3, <1>4, <1>5, <1>6 DEF TypeOK, Kinds

\* The invariant of the types.
THEOREM Typed == Spec => []TypeInv
<1>1. Init => TypeInv
  BY InitTypes
<1>2. TypeInv /\ [Next]_vars => TypeInv'
  BY StepTypes
<1>3. QED
  BY <1>1, <1>2, PTL DEF Spec

(* In every state each variable has its type: every rank in memory is one  *)
(* of 32 bits that does not run over, whoever is asked for has a rank, the *)
(* four that are offered have places and ranks, and a fight is a player's. *)
(* The loops that move a place past others and up past the players always  *)
(* end at a place, however full the ladder is.                             *)
THEOREM TypesHold == Spec => []TypeOK
<1>1. TypeInv => TypeOK
  BY TypesAre
<1>2. QED
  BY <1>1, Typed, PTL

-----------------------------------------------------------------------------
(* What the operations do to each part of the memory.                      *)

ShownTo(info, t, rank) ==
  IF t \in DOMAIN info THEN Put(info, t, InfoRec(rank, info[t].max, info[t].opps)) ELSE info

\* A winner that moves up.
LEMMA UpdateIs ==
  ASSUME NEW w, IsMem(w), NEW p, NEW t, NEW win, MovesUp(w, p, t, win),
         NEW m, m = w.info[p].cur, NEW h, h = get_rank_id(w, t),
         NEW best, best = Min({w.info[p].max, h}), NEW v, v = UpdateRank(w, p, t, win)
  PROVE  /\ IsMem(v) /\ v.user = Put(w.user, p, BestUser(w.user[p], best))
         /\ v.info = ShownTo(Put(w.info, p, InfoRec(h, best, w.info[p].opps)), t, m)
         /\ v.rank_map = Put(Put(w.rank_map, h, p), m, w.rank_map[h])
         /\ v.id_rank = Put(Put(w.id_rank, p, h), t, m)
         /\ v.target_guid = w.target_guid /\ v.load_log = w.load_log /\ v.count = w.count
         /\ v.out = Behind(w.out, Rows(w, p, t))
<1>1. PICK x : x = Swapped(w, p, t)
  OBVIOUS
<1>2. PICK user, info, ranks, ids :
        /\ user = Put(w.user, p, BestUser(w.user[p], best))
        /\ info = Put(w.info, p, InfoRec(h, best, w.info[p].opps))
        /\ ranks = Put(Put(w.rank_map, h, p), m, w.rank_map[h])
        /\ ids = Put(Put(w.id_rank, p, h), t, m)
  OBVIOUS
<1>3. /\ IsMem(x) /\ x.user = user /\ x.info = info /\ x.rank_map = ranks /\ x.id_rank = ids
      /\ x.target_guid = w.target_guid /\ x.load_log = w.load_log /\ x.count = w.count /\ x.out = w.out
  BY <1>1, <1>2, SwappedIs
<1>4. PICK y : y = Shown(x, t, m)
  OBVIOUS
<1>5. /\ IsMem(y) /\ y.info = ShownTo(info, t, m)
      /\ y.user = x.user /\ y.rank_map = x.rank_map /\ y.id_rank = x.id_rank
      /\ y.target_guid = x.target_guid /\ y.load_log = x.load_log /\ y.count = x.count /\ y.out = x.out
  <2>1. CASE t \in DOMAIN info
    <3>1. PICK i : i = InfoRec(m, info[t].max, info[t].opps)
      OBVIOUS
    <3>2. y = set_info_data(x, t, i)
      BY <1>3, <1>4, <2>1, <3>1 DEF Shown, InfoRec
    <3>3. /\ IsMem(y) /\ y.info = Put(x.info, t, i)
          /\ y.user = x.user /\ y.rank_map = x.rank_map /\ y.id_rank = x.id_rank
          /\ y.target_guid = x.target_guid /\ y.load_log = x.load_log /\ y.count = x.count /\ y.out = x.out
      BY <1>3, <3>2, InfoIs
    <3>4. ShownTo(info, t, m) = Put(info, t, i)
      BY <2>1, <3>1 DEF ShownTo
    <3>5. QED
      BY <1>3, <3>3, <3>4
  <2>2. CASE t \notin DOMAIN info
    <3>1. y = x
      BY <1>3, <1>4, <2>2 DEF Shown
    <3>2. ShownTo(info, t, m) = info
      BY <2>2 DEF ShownTo
    <3>3. QED
      BY <1>3, <3>1, <3>2
  <2>3. QED
    BY <2>1, <2>2
<1>6. PICK msgs : msgs = Rows(w, p, t)
  OBVIOUS
<1>7. v = Write(y, msgs)
  BY <1>1, <1>4, <1>6 DEF UpdateRank
<1>8. /\ IsMem(v) /\ v.out = Behind(y.out, msgs)
      /\ v.info = y.info /\ v.rank_map = y.rank_map /\ v.id_rank = y.id_rank /\ v.target_guid = y.target_guid
      /\ v.load_log = y.load_log /\ v.count = y.count /\ v.user = y.user
  BY <1>5, <1>7, WriteIs
<1>9. QED
  BY <1>2, <1>3, <1>5, <1>6, <1>8

\* A reward for a record.
LEMMA PaidIs ==
  ASSUME NEW w, IsMem(w), NEW p, NEW r, NEW v, v = PaidFor(w, p, r)
  PROVE  /\ IsMem(v) /\ v.user = Put(w.user, p, PaidUser(w.user[p], w.user[p].best, r))
         /\ v.info = w.info /\ v.rank_map = w.rank_map /\ v.id_rank = w.id_rank /\ v.target_guid = w.target_guid
         /\ v.load_log = w.load_log /\ v.count = w.count /\ v.out = w.out
<1>1. PICK u : u = PaidUser(w.user[p], w.user[p].best, r)
  OBVIOUS
<1>2. v = SetUser(w, p, u)
  BY <1>1 DEF PaidFor, PaidUser
<1>3. QED
  BY <1>1, <1>2, UserIs

\* The lists of the infos stay as they are, and a new info has none.
SameLists(w, v) ==
  \A q \in DOMAIN v.info : v.info[q].opps = << >> \/ (q \in DOMAIN w.info /\ v.info[q].opps = w.info[q].opps)

LEMMA ListsFollow ==
  ASSUME NEW w, NEW x, NEW v, SameLists(w, x), SameLists(x, v)
  PROVE  SameLists(w, v)
BY DEF SameLists

LEMMA ListPut ==
  ASSUME NEW w, NEW p \in DOMAIN w.info, NEW i, i.opps = w.info[p].opps, NEW v, v.info = Put(w.info, p, i)
  PROVE  SameLists(w, v)
BY DEF SameLists, Put

LEMMA BaseLists ==
  ASSUME NEW w, IsMem(w), NEW p
  PROVE  SameLists(w, SetInfoBase(w, p))
<1>1. PICK i : i = [cur |-> get_rank_id(w, p), max |-> w.user[p].best, opps |-> InfoOf(w, p).opps]
  OBVIOUS
<1>2. PICK v : v = SetInfoBase(w, p)
  OBVIOUS
<1>3. v = set_info_data(w, p, i)
  BY <1>1, <1>2 DEF SetInfoBase
<1>4. v.info = Put(w.info, p, i)
  BY <1>3, InfoIs
<1>5. i.opps = << >> \/ (p \in DOMAIN w.info /\ i.opps = w.info[p].opps)
  BY <1>1 DEF InfoOf, EmptyInfo
<1>6. SameLists(w, v)
  BY <1>4, <1>5 DEF SameLists, Put
<1>7. QED
  BY <1>2, <1>6

LEMMA LogLists ==
  ASSUME NEW w, IsMem(w), NEW p, NEW t
  PROVE  SameLists(w, AddLog(w, p, t))
<1>1. PICK v : v = AddLog(w, p, t)
  OBVIOUS
<1>2. v.info = IF t \in Players THEN Put(w.info, t, InfoOf(w, t)) ELSE w.info
  BY <1>1, LogAside
<1>3. InfoOf(w, t).opps = << >> \/ (t \in DOMAIN w.info /\ InfoOf(w, t).opps = w.info[t].opps)
  BY DEF InfoOf, EmptyInfo
<1>4. SameLists(w, v)
  BY <1>2, <1>3 DEF SameLists, Put
<1>5. QED
  BY <1>1, <1>4

LEMMA FirstLists ==
  ASSUME NEW w, IsMem(w), NEW p
  PROVE  SameLists(w, GetFirstReward(w, p))
<1>1. CASE p \in DOMAIN w.info /\ w.info[p].max = 0
  <2>1. PICK v, last : v = GetFirstReward(w, p) /\ last = FirstPlace(w)
    OBVIOUS
  <2>2. PICK i : i = InfoRec(last, last, w.info[p].opps)
    OBVIOUS
  <2>3. v.info = Put(w.info, p, i)
    BY <1>1, <2>1, <2>2, FirstIs
  <2>4. i.opps = w.info[p].opps
    BY <2>2 DEF InfoRec
  <2>5. SameLists(w, v)
    BY <1>1, <2>3, <2>4, ListPut
  <2>6. QED
    BY <2>1, <2>5
<1>2. CASE ~(p \in DOMAIN w.info /\ w.info[p].max = 0)
  BY <1>2 DEF GetFirstReward, SameLists
<1>3. QED
  BY <1>1, <1>2

LEMMA RewardLists ==
  ASSUME NEW w, IsMem(w), NEW p, NEW t, NEW win
  PROVE  SameLists(w, SendBattleReward(w, p, t, win)) /\ IsMem(SendBattleReward(w, p, t, win))
<1>1. SameLists(w, GetFirstReward(w, p)) /\ SameLists(w, w)
  BY FirstLists DEF SameLists
<1>2. IsMem(GetFirstReward(w, p))
  <2>1. CASE p \in DOMAIN w.info /\ w.info[p].max = 0
    <3>1. PICK v, last : v = GetFirstReward(w, p) /\ last = FirstPlace(w)
      OBVIOUS
    <3>2. IsMem(v)
      BY <2>1, <3>1, FirstIs
    <3>3. QED
      BY <3>1, <3>2
  <2>2. CASE ~(p \in DOMAIN w.info /\ w.info[p].max = 0)
    BY <2>2 DEF GetFirstReward
  <2>3. QED
    BY <2>1, <2>2
<1>3. ASSUME NEW r
      PROVE  SameLists(w, PaidFor(w, p, r)) /\ IsMem(PaidFor(w, p, r))
  <2>1. PICK v : v = PaidFor(w, p, r)
    OBVIOUS
  <2>2. v.info = w.info /\ IsMem(v)
    BY <2>1, PaidIs
  <2>3. QED
    BY <2>1, <2>2 DEF SameLists
<1>4. QED
  BY <1>1, <1>2, <1>3 DEF SendBattleReward

LEMMA UpdateLists ==
  ASSUME NEW w, IsMem(w), NEW p \in DOMAIN w.info, NEW t, NEW win
  PROVE  SameLists(w, UpdateRank(w, p, t, win))
<1>1. CASE ~MovesUp(w, p, t, win)
  BY <1>1 DEF UpdateRank, SameLists
<1>2. CASE MovesUp(w, p, t, win)
  <2>1. PICK m, h, v : m = w.info[p].cur /\ h = get_rank_id(w, t) /\ v = UpdateRank(w, p, t, win)
    OBVIOUS
  <2>2. PICK best : best = Min({w.info[p].max, h})
    OBVIOUS
  <2>3. PICK i : i = InfoRec(h, best, w.info[p].opps)
    OBVIOUS
  <2>4. PICK info : info = Put(w.info, p, i)
    OBVIOUS
  <2>5. v.info = ShownTo(info, t, m)
    BY <1>2, <2>1, <2>2, <2>3, <2>4, UpdateIs
  <2>6. DOMAIN info = DOMAIN w.info /\ \A q \in DOMAIN info : info[q].opps = w.info[q].opps
    BY <2>3, <2>4 DEF Put, InfoRec
  <2>7. DOMAIN v.info = DOMAIN info /\ \A q \in DOMAIN info : v.info[q].opps = info[q].opps
    BY <2>5 DEF ShownTo, Put, InfoRec
  <2>8. SameLists(w, v)
    BY <2>6, <2>7 DEF SameLists
  <2>9. QED
    BY <2>1, <2>8
<1>3. QED
  BY <1>1, <1>2

LEMMA ExtraLists ==
  ASSUME NEW w, IsMem(w), w.count \in Nat, NEW p \in DOMAIN w.info, NEW t, NEW result
  PROVE  SameLists(w, ExtraProc(w, p, t, result))
<1>1. PICK win : win = (result = "won")
  OBVIOUS
<1>2. PICK a : a = IF result = "quit" THEN w ELSE AddLog(w, p, t)
  OBVIOUS
<1>3. PICK l : l = AddLog(w, p, t)
  OBVIOUS
<1>4. SameLists(w, l) /\ IsMem(l) /\ l.count = w.count /\ DOMAIN w.info \subseteq DOMAIN l.info
  <2>1. IsMem(l) /\ l.count = w.count /\ l.info = IF t \in Players THEN Put(w.info, t, InfoOf(w, t)) ELSE w.info
    BY <1>3, LogAside
  <2>2. SameLists(w, l)
    BY <1>3, LogLists
  <2>3. QED
    BY <2>1, <2>2 DEF Put
<1>5. SameLists(w, a) /\ IsMem(a) /\ a.count \in Nat /\ p \in DOMAIN a.info
  BY <1>2, <1>3, <1>4 DEF SameLists
<1>6. PICK b : b = SendBattleReward(a, p, t, win)
  OBVIOUS
<1>7. SameLists(a, b) /\ IsMem(b) /\ p \in DOMAIN b.info
  BY <1>5, <1>6, RewardLists, RewardAside
<1>8. PICK c : c = UpdateRank(b, p, t, win)
  OBVIOUS
<1>9. SameLists(b, c)
  BY <1>7, <1>8, UpdateLists
<1>10. SameLists(w, c)
  BY <1>5, <1>7, <1>9, ListsFollow
<1>11. ExtraProc(w, p, t, result) = c
  BY <1>1, <1>2, <1>6, <1>8 DEF ExtraProc
<1>12. QED
  BY <1>10, <1>11

-----------------------------------------------------------------------------
(* The lists are fair.                                                     *)

IsFair(w, p) ==
  LET four == w.info[p].opps IN
    /\ IsInjective([i \in 1..4 |-> four[i].rank])
    /\ \A i \in 1..4 :
         /\ w.rank_map[four[i].rank] = four[i].id
         /\ IF Ranked(w, p) THEN four[i].rank # get_rank_id(w, p) ELSE four[i].id \notin Players
NewFair(w, v) ==
  \A p \in DOMAIN v.info :
    v.info[p].opps # << >> /\ (p \in DOMAIN w.info => v.info[p].opps # w.info[p].opps) => IsFair(v, p)

LEMMA GivenFair ==
  ASSUME NEW n, Room(n), NEW w, MemOK(w, n), NEW p \in DOMAIN w.info, NEW four \in Offers(w, p),
         NEW v, Given(w, v, p, four)
  PROVE  IsFair(v, p) /\ \A q \in DOMAIN v.info : q # p => q \in DOMAIN w.info /\ v.info[q] = w.info[q]
<1>1. PICK x : /\ Grown(w, x) /\ \A r : r \in DOMAIN x.rank_map <=> r \in DOMAIN w.rank_map \/ \E i \in 1..4 : r = four[i]
               /\ v = set_info_data(x, p, ListOf(w, x, p, four))
  BY DEF Given
<1>2. PICK o : o = [i \in 1..4 |-> [id |-> x.rank_map[four[i]], rank |-> four[i]]]
  OBVIOUS
<1>3. PICK j : j = [cur |-> w.info[p].cur, max |-> w.info[p].max, opps |-> o]
  OBVIOUS
<1>4. v = set_info_data(x, p, j)
  BY <1>1, <1>2, <1>3 DEF ListOf
<1>5. v.info = Put(w.info, p, j) /\ v.rank_map = x.rank_map /\ v.id_rank = x.id_rank
  BY <1>1, <1>4, InfoIs DEF Grown
<1>6. v.info[p].opps = o /\ \A q \in DOMAIN v.info : q # p => q \in DOMAIN w.info /\ v.info[q] = w.info[q]
  BY <1>3, <1>5 DEF Put
<1>7. p \in Players /\ w.target_guid \in Nat
  BY DEF MemOK
<1>8. PICK rank : rank = OwnRank(w, p)
  OBVIOUS
<1>9. Aside(four, rank)
  BY <1>7, <1>8, OffersAre
<1>10. ~Ranked(w, p) => \A i \in 1..4 : ~IsReal(w, four[i])
  BY <1>7, OffersAre
<1>11. \A i, k \in 1..4 : four[i] = four[k] => i = k
  BY <1>9 DEF Aside, Apart4
<1>12. New(w, x) \cap Players = {}
  BY <1>1, <1>7, ArenaAssumption DEF New, Grown
<1>13. get_rank_id(v, p) = get_rank_id(w, p)
  <2>1. p \in DOMAIN x.id_rank <=> p \in DOMAIN w.id_rank
    BY <1>1, <1>7, <1>12 DEF Grown
  <2>2. p \in DOMAIN w.id_rank => x.id_rank[p] = w.id_rank[p]
    BY <1>1, <1>7, <1>12 DEF Grown
  <2>3. QED
    BY <1>5, <2>1, <2>2 DEF get_rank_id, RankIn
<1>14. Ranked(v, p) <=> Ranked(w, p)
  BY <1>13 DEF Ranked
<1>15. \A i \in 1..4 : o[i].rank = four[i] /\ o[i].id = x.rank_map[four[i]]
  BY <1>2
<1>16. IsInjective([i \in 1..4 |-> o[i].rank])
  BY <1>11, <1>15 DEF IsInjective
<1>17. ASSUME NEW i \in 1..4
       PROVE  /\ v.rank_map[o[i].rank] = o[i].id
              /\ IF Ranked(v, p) THEN o[i].rank # get_rank_id(v, p) ELSE o[i].id \notin Players
  <2>1. v.rank_map[o[i].rank] = o[i].id
    BY <1>5, <1>15
  <2>2. CASE Ranked(w, p)
    <3>1. rank = get_rank_id(w, p)
      BY <1>8, <2>2 DEF OwnRank
    <3>2. four[i] # rank
      BY <1>9 DEF Aside
    <3>3. QED
      BY <1>13, <1>14, <1>15, <2>1, <2>2, <3>1, <3>2
  <2>3. CASE ~Ranked(w, p)
    <3>1. x.rank_map[four[i]] \notin Players
      <4>1. CASE four[i] \in DOMAIN w.rank_map
        BY <1>1, <1>10, <2>3, <4>1 DEF Grown, IsReal
      <4>2. CASE four[i] \notin DOMAIN w.rank_map
        BY <1>1, <1>12, <4>2 DEF Grown
      <4>3. QED
        BY <4>1, <4>2
    <3>2. QED
      BY <1>14, <1>15, <2>1, <2>3, <3>1
  <2>4. QED
    BY <2>2, <2>3
<1>18. QED
  BY <1>6, <1>16, <1>17 DEF IsFair

\* What a handler leaves in memory.
LEMMA LeftIs ==
  ASSUME NEW w, IsMem(w), NEW marks, Leaves(w, marks)
  PROVE  /\ game'.info = w.info /\ game'.rank_map = w.rank_map /\ game'.id_rank = w.id_rank
         /\ game'.target_guid = w.target_guid /\ game'.load_log = w.load_log /\ game'.count = w.count
         /\ game'.user = w.user /\ game'.out = << >>
<1>1. PICK x, v : x = << >> /\ v = game'
  OBVIOUS
<1>2. v = [w EXCEPT !.out = x]
  BY <1>1 DEF Leaves
<1>3. QED
  BY <1>1, <1>2, OutFields

LEMMA LeavesFair ==
  ASSUME NEW w, IsMem(w), NEW marks, Leaves(w, marks), SameLists(game, w)
  PROVE  NewFair(game, game')
BY LeftIs DEF SameLists, NewFair

LEMMA RefreshedFair ==
  ASSUME NEW n, Room(n), NEW w, MemOK(w, n), SameLists(game, w), NEW p \in DOMAIN w.info, NEW marks, Refreshed(w, p, marks)
  PROVE  NewFair(game, game')
<1>1. PICK four \in Offers(w, p) : Leaves(SetInfoOpp(w, p, four), marks)
  BY DEF Refreshed
<1>2. p \in Players /\ IsMem(w) /\ w.target_guid \in Nat
  BY DEF MemOK
<1>3. Aside(four, OwnRank(w, p))
  BY <1>1, <1>2, OffersAre
<1>4. IsFour(four) /\ \A i \in 1..4 : four[i] <= LastRank
  BY <1>3 DEF Aside
<1>5. PICK v : v = SetInfoOpp(w, p, four)
  OBVIOUS
<1>6. Given(w, v, p, four)
  BY <1>2, <1>4, <1>5, SetInfoOppIs
<1>7. IsMem(v)
  BY <1>4, <1>6, GivenKeeps DEF MemOK
<1>8. IsFair(v, p) /\ \A q \in DOMAIN v.info : q # p => q \in DOMAIN w.info /\ v.info[q] = w.info[q]
  BY <1>1, <1>6, GivenFair
<1>9. game'.info = v.info /\ game'.rank_map = v.rank_map /\ game'.id_rank = v.id_rank
  BY <1>1, <1>5, <1>7, LeftIs
<1>10. IsFair(game', p)
  <2>1. PICK g : g = game'
    OBVIOUS
  <2>2. g.info[p].opps = v.info[p].opps /\ g.rank_map = v.rank_map
    BY <1>9, <2>1
  <2>3. get_rank_id(g, p) = get_rank_id(v, p) /\ (Ranked(g, p) <=> Ranked(v, p))
    BY <1>9, <2>1 DEF get_rank_id, Ranked
  <2>4. IsFair(g, p)
    BY <1>8, <2>2, <2>3, Zenon DEF IsFair
  <2>5. QED
    BY <2>1, <2>4
<1>11. QED
  BY <1>8, <1>9, <1>10 DEF NewFair, SameLists

\* What stays fair when the memory keeps its lists.
LEMMA StaysFair ==
  ASSUME game'.info = game.info
  PROVE  NewFair(game, game')
BY DEF NewFair

LEMMA EndFair ==
  ASSUME TypeInv, NEW i \in DOMAIN fights, NEW result, FightEnds(i, result)
  PROVE  NewFair(game, game')
<1>1. PICK p, t : p = fights[i].ack /\ t = fights[i].def
  OBVIOUS
<1>2. PICK first : first = GetFirstReward(game, p)
  OBVIOUS
<1>3. IF t = Monster
      THEN IF first = game THEN Leaves(game, {}) ELSE Refreshed(first, p, Skips(p))
      ELSE Leaves(game, {}) \/ (~check_rank(game, p, t) /\ Refreshed(ExtraProc(game, p, t, result), p, {}))
  BY <1>1, <1>2 DEF FightEnds
<1>4. p \in Players
  BY <1>1, FighterIs
<1>5. PICK n : n = Most + 1
  OBVIOUS
<1>6. Most \in Nat /\ n \in Nat /\ Room(n) /\ MemOK(game, Most) /\ IsMem(game) /\ game.count \in Nat
  <2>1. Len(fights) # 0 /\ Most \in Nat
    BY FighterIs, RoomNow
  <2>2. Room(n) /\ MemOK(game, Most)
    BY <1>5, <2>1, RoomNow DEF TypeInv
  <2>3. QED
    BY <1>5, <2>1, <2>2 DEF MemOK
<1>7. SameLists(game, game)
  BY DEF SameLists
<1>8. CASE Leaves(game, {})
  BY <1>6, <1>7, <1>8, LeavesFair
<1>9. CASE t = Monster /\ first # game
  <2>1. p \in DOMAIN game.info /\ game.info[p].max = 0
    BY <1>2, <1>9 DEF GetFirstReward
  <2>2. PICK last : last = FirstPlace(game)
    OBVIOUS
  <2>3. first.info = Put(game.info, p, InfoRec(last, last, game.info[p].opps))
    BY <1>2, <1>6, <2>1, <2>2, FirstIs
  <2>4. p \in DOMAIN first.info
    BY <2>3 DEF Put
  <2>5. MemOK(first, n) /\ SameLists(game, first)
    BY <1>2, <1>4, <1>5, <1>6, FirstKeeps, FirstLists
  <2>6. Refreshed(first, p, Skips(p))
    BY <1>3, <1>9
  <2>7. QED
    BY <1>6, <2>4, <2>5, <2>6, RefreshedFair
<1>10. CASE ~check_rank(game, p, t) /\ Refreshed(ExtraProc(game, p, t, result), p, {})
  <2>1. get_rank_id(game, t) # 0 /\ p \in DOMAIN game.info
    BY <1>10 DEF check_rank, Listed
  <2>2. PICK x : x = ExtraProc(game, p, t, result)
    OBVIOUS
  <2>3. MemOK(x, n) /\ p \in DOMAIN x.info
    BY <1>5, <1>6, <2>1, <2>2, ExtraKeeps
  <2>4. SameLists(game, x)
    BY <1>6, <2>1, <2>2, ExtraLists
  <2>5. Refreshed(x, p, {})
    BY <1>10, <2>2
  <2>6. QED
    BY <1>6, <2>3, <2>4, <2>5, RefreshedFair
<1>11. QED
  BY <1>3, <1>8, <1>9, <1>10

LEMMA BaseFair ==
  ASSUME TypeInv, NEW p \in Players, NEW w, (w = game /\ p \in DOMAIN game.info) \/ w = SetInfoBase(game, p),
         NEW marks, Refreshed(w, p, marks)
  PROVE  NewFair(game, game')
<1>1. PICK n : n = Most
  OBVIOUS
<1>2. n \in Nat /\ Room(n) /\ MemOK(game, n) /\ IsMem(game)
  BY <1>1, RoomNow DEF TypeInv, MemOK
<1>3. MemOK(w, n) /\ p \in DOMAIN w.info
  BY <1>2, BaseKeeps
<1>4. SameLists(game, w)
  BY <1>2, BaseLists DEF SameLists
<1>5. QED
  BY <1>2, <1>3, <1>4, RefreshedFair

LEMMA LogFair ==
  ASSUME TypeInv, NEW logs, LoadLog(logs)
  PROVE  NewFair(game, game')
<1>1. PICK x : x = Over(game.info, [p \in logs |-> EmptyInfo])
  OBVIOUS
<1>2. PICK w : w = [game EXCEPT !.info = x, !.load_log = game.load_log + 1]
  OBVIOUS
<1>3. Leaves(w, {})
  BY <1>1, <1>2 DEF LoadLog
<1>4. IsMem(game)
  BY DEF TypeInv, MemOK
<1>5. IsMem(w) /\ w.info = x
  BY <1>2, <1>4 DEF IsMem
<1>6. SameLists(game, w)
  BY <1>1, <1>5 DEF SameLists, Over, EmptyInfo
<1>7. QED
  BY <1>3, <1>5, <1>6, LeavesFair

LEMMA RanksFair ==
  ASSUME TypeInv, NEW rows \in Tables(Most), LoadData(rows)
  PROVE  NewFair(game, game')
<1>1. PICK f, w, marks : IsOwners(f, rows) /\ IsLoaded(w, game, f, rows) /\ Leaves(CreateRank(w), marks)
  BY DEF LoadData, IsOwners, IsLoaded
<1>2. MemOK(game, Most) /\ IsMem(game) /\ Room(Most)
  BY RoomNow DEF TypeInv, MemOK
<1>3. IsMem(w) /\ w.info = game.info
  BY <1>1, <1>2, LoadedIs
<1>4. IsMem(CreateRank(w)) /\ CreateRank(w).info = w.info
  BY <1>1, <1>2, LoadedKeeps, CreatedIs
<1>5. SameLists(game, CreateRank(w))
  BY <1>3, <1>4 DEF SameLists
<1>6. QED
  BY <1>1, <1>4, <1>5, LeavesFair

LEMMA AnsweredFair ==
  ASSUME TypeInv, Answered
  PROVE  NewFair(game, game')
<1>1. PICK m : m = Head(answers)
  OBVIOUS
<1>2. /\ answers # << >>
      /\ \/ m.kind = "count" /\ PRServerInfoList(m.n)
         \/ m.kind = "ranks" /\ LoadData(m.rows)
         \/ m.kind = "logs" /\ LoadLog(m.logs)
  BY <1>1 DEF Answered
<1>3. CASE PRServerInfoList(m.n)
  <2>1. PICK w, marks : w = [game EXCEPT !.count = m.n] /\ Leaves(w, marks)
    BY <1>3 DEF PRServerInfoList
  <2>2. IsMem(game)
    BY DEF TypeInv, MemOK
  <2>3. PICK c : c = m.n
    OBVIOUS
  <2>4. IsMem(w) /\ w.info = game.info
    BY <2>1, <2>2, <2>3, CountFields
  <2>5. SameLists(game, w)
    BY <2>4 DEF SameLists
  <2>6. QED
    BY <2>1, <2>4, <2>5, LeavesFair
<1>4. CASE m.kind = "ranks" /\ LoadData(m.rows)
  <2>1. PICK n : n = Most
    OBVIOUS
  <2>2. answers \in Seq(Replies(n))
    BY <2>1 DEF TypeInv
  <2>3. m \in Replies(n)
    BY <1>1, <1>2, <2>2
  <2>4. PICK rows : rows = m.rows
    OBVIOUS
  <2>5. rows \in Tables(Most) /\ LoadData(rows)
    BY <1>4, <2>1, <2>3, <2>4, ReplyIs
  <2>6. QED
    BY <2>5, RanksFair
<1>5. CASE LoadLog(m.logs)
  <2>1. PICK logs : logs = m.logs
    OBVIOUS
  <2>2. LoadLog(logs)
    BY <1>5, <2>1
  <2>3. QED
    BY <2>2, LogFair
<1>6. QED
  BY <1>2, <1>3, <1>4, <1>5

LEMMA StepFair ==
  ASSUME TypeInv, [Next]_vars
  PROVE  NewFair(game, game')
<1>1. ASSUME NEW p \in Players, PQSingleArenaInfo(p)
      PROVE  NewFair(game, game')
  <2>1. PICK w : w = IF Baseless(p) THEN SetInfoBase(game, p) ELSE game
    OBVIOUS
  <2>2. Refreshed(w, p, {})
    BY <1>1, <2>1 DEF PQSingleArenaInfo
  <2>3. (w = game /\ p \in DOMAIN game.info) \/ w = SetInfoBase(game, p)
    BY <2>1 DEF Baseless
  <2>4. QED
    BY <2>2, <2>3, BaseFair
<1>2. ASSUME NEW p \in Players, PQSingleArenaRefresh(p)
      PROVE  NewFair(game, game')
  <2>1. PICK w : w = IF p \in DOMAIN game.info THEN game ELSE SetInfoBase(game, p)
    OBVIOUS
  <2>2. Refreshed(w, p, Skips(p))
    BY <1>2, <2>1 DEF PQSingleArenaRefresh
  <2>3. (w = game /\ p \in DOMAIN game.info) \/ w = SetInfoBase(game, p)
    BY <2>1
  <2>4. QED
    BY <2>2, <2>3, BaseFair
<1>3. ASSUME NEW p \in Players, PQFightSingleArenaApply(p) \/ PQCommonFightAuto(p) \/ SaveUser(p)
      PROVE  NewFair(game, game')
  <2>1. game' = game
    BY <1>3 DEF PQFightSingleArenaApply, PQCommonFightAuto, SaveUser, Start
  <2>2. QED
    BY <2>1, StaysFair
<1>4. ASSUME NEW p \in Players, UpdateLevel(p)
      PROVE  NewFair(game, game')
  <2>1. PICK r : r = get_rank_id(game, p)
    OBVIOUS
  <2>2. PICK msgs, w : msgs = <<RowMsg(game.rank_map[r], r)>> /\ w = Write(game, msgs)
    OBVIOUS
  <2>3. Leaves(w, {})
    BY <1>4, <2>1, <2>2 DEF UpdateLevel
  <2>4. IsMem(w) /\ w.info = game.info
    BY <2>2, WriteIs DEF TypeInv, MemOK
  <2>5. SameLists(game, w)
    BY <2>4 DEF SameLists
  <2>6. QED
    BY <2>3, <2>4, <2>5, LeavesFair
<1>5. CASE PRCommonFightServerEnd
  <2>1. PICK i \in DOMAIN fights, r \in {"won", "lost"} : FightEnds(i, r)
    BY <1>5 DEF PRCommonFightServerEnd
  <2>2. QED
    BY <2>1, EndFair
<1>6. CASE PQPlayerFightQuit
  <2>1. PICK i \in DOMAIN fights : FightEnds(i, "quit")
    BY <1>6 DEF PQPlayerFightQuit
  <2>2. QED
    BY <2>1, EndFair
<1>7. CASE SEventNetRealDB
  <2>1. PICK v : v = game'
    OBVIOUS
  <2>2. v = [game EXCEPT !.load_log = 0, !.target_guid = 0] /\ IsMem(game)
    BY <1>7, <2>1 DEF SEventNetRealDB, TypeInv, MemOK
  <2>3. v.info = game.info
    BY <2>2 DEF IsMem
  <2>4. QED
    BY <2>1, <2>3, StaysFair
<1>8. CASE Answered
  BY <1>8, AnsweredFair
<1>9. CASE GameEnds
  <2>1. game' = Memory(saved)
    BY <1>9 DEF GameEnds
  <2>2. game'.info = << >>
    BY <2>1 DEF Memory
  <2>3. DOMAIN game'.info = {}
    BY <2>2
  <2>4. QED
    BY <2>3 DEF NewFair
<1>10. CASE Realdb \/ RealdbEnds \/ UNCHANGED vars
  <2>1. game' = game
    BY <1>10 DEF Realdb, RealdbEnds, vars
  <2>2. QED
    BY <2>1, StaysFair
<1>11. QED
  BY <1>1, <1>2, <1>3, <1>4, <1>5, <1>6, <1>7, <1>8, <1>9, <1>10 DEF Next

(* Each new list of four stands at four places, each its owner's and none  *)
(* the player's own, and a player without a place is offered fakes only:   *)
(* the moves down and up end past every place that is taken.               *)
THEOREM ListsFair == Spec => OffersFair
<1>1. TypeInv /\ [Next]_vars => NewFair(game, game')
  BY StepFair
<1>2. NewFair(game, game') =>
        \A p \in DOMAIN game'.info : LET four == game'.info[p].opps IN
          four # << >> /\ (p \in DOMAIN game.info => four # game.info[p].opps) =>
            /\ IsInjective([i \in 1..4 |-> four[i].rank])
            /\ \A i \in 1..4 :
                 /\ game'.rank_map[four[i].rank] = four[i].id
                 /\ IF Ranked(game', p) THEN four[i].rank # get_rank_id(game', p) ELSE four[i].id \notin Players
  BY Zenon DEF NewFair, IsFair
<1>3. QED
  BY <1>1, <1>2, Typed, PTL DEF Spec, OffersFair

-----------------------------------------------------------------------------
(* Rewards are paid once.                                                  *)

Clean(user)   == user.again = FALSE
Unpaid(users) == \A p \in Players : Clean(users[p])

\* An info with a list has its base: the best rank that the user has.
Based(w, p) == w.info[p].max = w.user[p].best
Bases(w) == Unpaid(w.user) /\ \A p \in DOMAIN w.info : w.info[p].opps # << >> => Based(w, p)

LEMMA NotAgain ==
  ASSUME NEW u, Clean(u), NEW best \in Nat, u.best = best, NEW r \in Nat, best = 0 \/ r < best,
         NEW b, NEW v, v = PaidUser(u, b, r)
  PROVE  Clean(v) /\ v.best = b
<1>1. ~(best # 0 /\ r >= best)
  OBVIOUS
<1>2. ~(u.best # 0 /\ r >= u.best)
  BY <1>1
<1>3. PaidAgain(u, r) = FALSE
  BY <1>2, Zenon DEF PaidAgain, Clean
<1>4. v = [best |-> b, again |-> FALSE]
  BY <1>3, Zenon DEF PaidUser
<1>5. QED
  BY <1>4 DEF Clean

\* A change of one user and its info.
LEMMA BasesPut ==
  ASSUME NEW w, Bases(w), DOMAIN w.user = Players, DOMAIN w.info \subseteq Players,
         NEW p \in Players, NEW best, NEW u, Clean(u), u.best = best,
         NEW i, i.max = best, NEW v, v.user = Put(w.user, p, u), v.info = Put(w.info, p, i)
  PROVE  Bases(v) /\ DOMAIN v.user = Players
<1>1. DOMAIN v.user = Players /\ \A q \in Players : v.user[q] = IF q = p THEN u ELSE w.user[q]
  BY DEF Put
<1>2. DOMAIN v.info = DOMAIN w.info \cup {p} /\ \A q \in DOMAIN v.info : v.info[q] = IF q = p THEN i ELSE w.info[q]
  BY DEF Put
<1>3. Clean(u) /\ u.best = best
  OBVIOUS
<1>4. Unpaid(v.user)
  BY <1>1, <1>3, Zenon DEF Bases, Unpaid
<1>5. ASSUME NEW q \in DOMAIN v.info, v.info[q].opps # << >>
      PROVE  Based(v, q)
  <2>1. CASE q = p
    BY <1>1, <1>2, <1>3, <2>1 DEF Based
  <2>2. CASE q # p
    <3>1. q \in DOMAIN w.info /\ v.info[q] = w.info[q] /\ q \in Players
      BY <1>2, <1>5, <2>2
    <3>2. v.user[q] = w.user[q]
      BY <1>1, <2>2, <3>1
    <3>3. w.info[q].max = w.user[q].best
      BY <1>5, <3>1 DEF Bases, Based
    <3>4. QED
      BY <3>1, <3>2, <3>3 DEF Based
  <2>3. QED
    BY <2>1, <2>2
<1>6. QED
  BY <1>1, <1>4, <1>5 DEF Bases

LEMMA BasesSame ==
  ASSUME NEW w, Bases(w), NEW v, v.user = w.user,
         \A q \in DOMAIN v.info : v.info[q].opps = << >> \/ (q \in DOMAIN w.info /\ v.info[q].max = w.info[q].max
                                                                 /\ v.info[q].opps = w.info[q].opps)
  PROVE  Bases(v)
<1>1. Unpaid(v.user)
  BY Zenon DEF Bases
<1>2. ASSUME NEW q \in DOMAIN v.info, v.info[q].opps # << >>
      PROVE  Based(v, q)
  BY <1>2 DEF Bases, Based
<1>3. QED
  BY <1>1, <1>2 DEF Bases

LEMMA BaseBases ==
  ASSUME NEW n \in Nat, NEW w, MemOK(w, n), Bases(w), NEW p \in Players, NEW v, v = SetInfoBase(w, p)
  PROVE  Bases(v) /\ v.user = w.user /\ p \in DOMAIN v.info /\ Based(v, p)
<1>1. PICK i : i = [cur |-> get_rank_id(w, p), max |-> w.user[p].best, opps |-> InfoOf(w, p).opps]
  OBVIOUS
<1>2. v = set_info_data(w, p, i)
  BY <1>1 DEF SetInfoBase
<1>3. v.info = Put(w.info, p, i) /\ v.user = w.user
  BY <1>2, InfoIs DEF MemOK
<1>4. i.max = w.user[p].best
  BY <1>1
<1>5. DOMAIN v.info = DOMAIN w.info \cup {p} /\ \A q \in DOMAIN v.info : v.info[q] = IF q = p THEN i ELSE w.info[q]
  BY <1>3 DEF Put
<1>6. p \in DOMAIN v.info /\ Based(v, p)
  BY <1>3, <1>4, <1>5 DEF Based
<1>7. Unpaid(v.user)
  BY <1>3, Zenon DEF Bases
<1>8. ASSUME NEW q \in DOMAIN v.info, v.info[q].opps # << >>
      PROVE  Based(v, q)
  <2>1. CASE q = p
    BY <1>6, <2>1
  <2>2. CASE q # p
    BY <1>3, <1>5, <1>8, <2>2 DEF Bases, Based
  <2>3. QED
    BY <2>1, <2>2
<1>9. QED
  BY <1>3, <1>6, <1>7, <1>8 DEF Bases

LEMMA FirstBases ==
  ASSUME NEW n \in Nat, NEW w, MemOK(w, n), Bases(w), NEW p \in Players, p \in DOMAIN w.info => Based(w, p),
         NEW v, v = GetFirstReward(w, p)
  PROVE  Bases(v) /\ (p \in DOMAIN v.info => Based(v, p))
<1>1. CASE ~(p \in DOMAIN w.info /\ w.info[p].max = 0)
  BY <1>1 DEF GetFirstReward
<1>2. CASE p \in DOMAIN w.info /\ w.info[p].max = 0
  <2>1. PICK last : last = FirstPlace(w)
    OBVIOUS
  <2>2. IsMem(w) /\ DOMAIN w.user = Players /\ DOMAIN w.info \subseteq Players /\ w.count \in Nat
    BY DEF MemOK
  <2>3. last \in Nat
    BY <2>1, <2>2, ArenaAssumption DEF FirstPlace
  <2>4. Clean(w.user[p]) /\ w.user[p].best = 0
    BY <1>2, Zenon DEF Bases, Unpaid, Based
  <2>5. PICK u, i : u = PaidUser(w.user[p], last, last) /\ i = InfoRec(last, last, w.info[p].opps)
    OBVIOUS
  <2>6. Clean(u) /\ u.best = last
    <3>1. PICK old, zero : old = w.user[p] /\ zero = 0
      OBVIOUS
    <3>2. Clean(old) /\ old.best = zero /\ zero \in Nat /\ u = PaidUser(old, last, last)
      BY <2>4, <2>5, <3>1
    <3>3. QED
      BY <2>3, <3>1, <3>2, NotAgain
  <2>7. v.user = Put(w.user, p, u) /\ v.info = Put(w.info, p, i)
    BY <1>2, <2>1, <2>2, <2>5, FirstIs
  <2>8. i.max = last
    BY <2>5 DEF InfoRec
  <2>9. Bases(v)
    BY <2>2, <2>6, <2>7, <2>8, BasesPut
  <2>10. Based(v, p)
    BY <2>2, <2>6, <2>7, <2>8 DEF Based, Put
  <2>11. QED
    BY <2>9, <2>10
<1>3. QED
  BY <1>1, <1>2

LEMMA PaidBases ==
  ASSUME NEW n \in Nat, NEW w, MemOK(w, n), Bases(w), NEW p \in DOMAIN w.info, Based(w, p),
         NEW r \in Nat, r < w.info[p].max, NEW v, v = PaidFor(w, p, r)
  PROVE  Bases(v) /\ Based(v, p)
<1>1. IsMem(w) /\ DOMAIN w.user = Players /\ DOMAIN w.info \subseteq Players /\ w.info[p].max \in Nat
  BY DEF MemOK, InfoOK
<1>2. PICK best : best = w.user[p].best
  OBVIOUS
<1>3. Clean(w.user[p]) /\ best = w.info[p].max
  BY <1>1, <1>2, Zenon DEF Bases, Unpaid, Based
<1>4. PICK u : u = PaidUser(w.user[p], best, r)
  OBVIOUS
<1>5. Clean(u) /\ u.best = best
  <2>1. PICK old : old = w.user[p]
    OBVIOUS
  <2>2. Clean(old) /\ old.best = best /\ u = PaidUser(old, best, r) /\ best \in Nat /\ r < best
    BY <1>1, <1>2, <1>3, <1>4, <2>1
  <2>3. QED
    BY <2>2, NotAgain
<1>6. v.user = Put(w.user, p, u) /\ v.info = w.info
  BY <1>1, <1>2, <1>4, PaidIs
<1>7. DOMAIN v.user = Players /\ \A q \in Players : v.user[q] = IF q = p THEN u ELSE w.user[q]
  BY <1>1, <1>6 DEF Put
<1>9. Unpaid(v.user)
  BY <1>5, <1>7, Zenon DEF Bases, Unpaid
<1>10. \A q \in Players : v.user[q].best = w.user[q].best
  BY <1>2, <1>5, <1>7
<1>11. \A q \in DOMAIN v.info : v.info[q].opps # << >> => Based(v, q)
  BY <1>1, <1>6, <1>10 DEF Bases, Based
<1>12. Based(v, p)
  BY <1>1, <1>6, <1>10 DEF Based
<1>13. QED
  BY <1>9, <1>11, <1>12 DEF Bases

LEMMA RewardBases ==
  ASSUME NEW n \in Nat, NEW w, MemOK(w, n), Bases(w), NEW p \in DOMAIN w.info, w.info[p].opps # << >>,
         NEW t, get_rank_id(w, t) \in Nat, NEW win, NEW v, v = SendBattleReward(w, p, t, win)
  PROVE  Bases(v)
<1>1. Based(w, p) /\ p \in Players
  BY DEF Bases, MemOK
<1>2. PICK end : end = Min({w.info[p].cur, get_rank_id(w, t)})
  OBVIOUS
<1>3. end \in Nat
  <2>1. w.info[p].cur \in Nat
    <3>1. w.info[p].cur \in 0..Reach(n)
      BY DEF MemOK, InfoOK
    <3>2. Reach(n) \in Nat
      BY ArenaAssumption DEF Reach
    <3>3. QED
      BY <3>1, <3>2
  <2>2. {w.info[p].cur, get_rank_id(w, t)} \subseteq Nat /\ {w.info[p].cur, get_rank_id(w, t)} # {}
    BY <2>1
  <2>3. end \in {w.info[p].cur, get_rank_id(w, t)}
    BY <1>2, <2>2, MinIs
  <2>4. QED
    BY <2>2, <2>3
<1>4. v = GetFirstReward(w, p) \/ v = w \/ (v = PaidFor(w, p, end) /\ end < w.info[p].max)
  BY <1>2 DEF SendBattleReward
<1>5. v = GetFirstReward(w, p) => Bases(v)
  BY <1>1, FirstBases
<1>6. v = PaidFor(w, p, end) /\ end < w.info[p].max => Bases(v)
  BY <1>1, <1>3, PaidBases
<1>7. QED
  BY <1>4, <1>5, <1>6

LEMMA UpdateBases ==
  ASSUME NEW n \in Nat, NEW w, MemOK(w, n), Bases(w), NEW p \in DOMAIN w.info,
         NEW t, NEW win, NEW v, v = UpdateRank(w, p, t, win)
  PROVE  Bases(v)
<1>1. CASE ~MovesUp(w, p, t, win)
  BY <1>1 DEF UpdateRank
<1>2. CASE MovesUp(w, p, t, win)
  <2>1. PICK m, h : m = w.info[p].cur /\ h = get_rank_id(w, t)
    OBVIOUS
  <2>2. PICK best : best = Min({w.info[p].max, h})
    OBVIOUS
  <2>3. IsMem(w) /\ DOMAIN w.user = Players /\ DOMAIN w.info \subseteq Players
    BY DEF MemOK
  <2>4. Clean(w.user[p])
    BY <2>3, Zenon DEF Bases, Unpaid
  <2>5. PICK u, i : u = BestUser(w.user[p], best) /\ i = InfoRec(h, best, w.info[p].opps)
    OBVIOUS
  <2>6. PICK info : info = Put(w.info, p, i)
    OBVIOUS
  <2>7. v.user = Put(w.user, p, u) /\ v.info = ShownTo(info, t, m)
    BY <1>2, <2>1, <2>2, <2>3, <2>4, <2>5, <2>6, UpdateIs
  <2>8. PICK x : x = [user |-> v.user, info |-> info]
    OBVIOUS
  <2>9. x.user = Put(w.user, p, u) /\ x.info = Put(w.info, p, i)
    BY <2>6, <2>7, <2>8
  <2>10. i.max = best
    BY <2>5 DEF InfoRec
  <2>u. Clean(u) /\ u.best = best
    <3>1. u = [best |-> best, again |-> FALSE]
      BY <2>4, <2>5, Zenon DEF BestUser, Clean
    <3>2. QED
      BY <3>1 DEF Clean
  <2>11. Bases(x)
    BY <2>3, <2>u, <2>9, <2>10, BasesPut
  <2>12. \A q \in DOMAIN v.info : q \in DOMAIN info /\ v.info[q].max = info[q].max /\ v.info[q].opps = info[q].opps
    BY <2>7 DEF ShownTo, Put, InfoRec
  <2>13. v.user = x.user /\ \A q \in DOMAIN v.info : q \in DOMAIN x.info /\ v.info[q].max = x.info[q].max
                                                     /\ v.info[q].opps = x.info[q].opps
    BY <2>8, <2>12
  <2>14. QED
    BY <2>11, <2>13, BasesSame
<1>3. QED
  BY <1>1, <1>2

LEMMA ExtraBases ==
  ASSUME NEW n \in Nat, Room(n + 1), NEW w, MemOK(w, n), Bases(w), NEW p \in DOMAIN w.info, w.info[p].opps # << >>,
         NEW t, get_rank_id(w, t) # 0, NEW result, NEW v, v = ExtraProc(w, p, t, result)
  PROVE  Bases(v) /\ p \in DOMAIN v.info /\ v.info[p].opps # << >>
<1>1. PICK win : win = (result = "won")
  OBVIOUS
<1>2. PICK a : a = IF result = "quit" THEN w ELSE AddLog(w, p, t)
  OBVIOUS
<1>3. p \in Players /\ IsMem(w) /\ n + 1 \in Nat
  BY DEF MemOK
<1>4. MemOK(a, n)
  BY <1>2, <1>3, AddLogKeeps
<1>5. a.id_rank = w.id_rank /\ p \in DOMAIN a.info /\ a.info[p].opps # << >> /\ Bases(a)
  <2>1. PICK l : l = AddLog(w, p, t)
    OBVIOUS
  <2>2. l.id_rank = w.id_rank /\ l.user = w.user /\ l.info = IF t \in Players THEN Put(w.info, t, InfoOf(w, t)) ELSE w.info
    BY <1>3, <2>1, LogAside
  <2>3. p \in DOMAIN l.info /\ l.info[p] = w.info[p]
    BY <2>2 DEF Put, InfoOf
  <2>4. \A q \in DOMAIN l.info : l.info[q].opps = << >> \/ (q \in DOMAIN w.info /\ l.info[q].max = w.info[q].max
                                                               /\ l.info[q].opps = w.info[q].opps)
    BY <2>2 DEF Put, InfoOf, EmptyInfo
  <2>5. Bases(l)
    BY <2>2, <2>4, BasesSame
  <2>6. QED
    BY <1>2, <2>1, <2>2, <2>3, <2>5
<1>6. PICK h : h = get_rank_id(w, t)
  OBVIOUS
<1>7. get_rank_id(a, t) = h /\ h \in Nat
  <2>1. get_rank_id(a, t) = h
    BY <1>5, <1>6 DEF get_rank_id
  <2>2. t \in DOMAIN w.id_rank /\ h = w.id_rank[t]
    BY <1>6 DEF get_rank_id, RankIn
  <2>3. h \in DOMAIN w.rank_map /\ DOMAIN w.rank_map \subseteq 0..LastRank /\ LastRank \in Nat
    BY <2>2, ArenaAssumption DEF MemOK, PlacesOK
  <2>4. QED
    BY <2>1, <2>3
<1>8. PICK b : b = SendBattleReward(a, p, t, win)
  OBVIOUS
<1>9. MemOK(b, n + 1)
  BY <1>3, <1>4, <1>8, RewardKeeps
<1>10. Bases(b)
  BY <1>4, <1>5, <1>7, <1>8, RewardBases
<1>11. p \in DOMAIN b.info
  <2>1. IsMem(a) /\ a.count \in Nat
    BY <1>4 DEF MemOK
  <2>2. QED
    BY <1>5, <1>8, <2>1, RewardAside
<1>12. v = UpdateRank(b, p, t, win)
  BY <1>1, <1>2, <1>8 DEF ExtraProc
<1>13. Bases(v)
  BY <1>3, <1>9, <1>10, <1>11, <1>12, UpdateBases
<1>14. b.info[p].opps # << >>
  <2>1. CASE b = GetFirstReward(a, p) /\ a.info[p].max = 0
    <3>1. PICK last : last = FirstPlace(a)
      OBVIOUS
    <3>2. b.info = Put(a.info, p, InfoRec(last, last, a.info[p].opps))
      BY <1>4, <1>5, <2>1, <3>1, FirstIs DEF MemOK
    <3>3. QED
      BY <1>5, <3>2 DEF Put, InfoRec
  <2>2. CASE b = a
    BY <1>5, <2>2
  <2>3. CASE \E r : b = PaidFor(a, p, r)
    <3>1. PICK r : b = PaidFor(a, p, r)
      BY <2>3
    <3>2. b.info = a.info
      BY <1>4, <3>1, PaidIs DEF MemOK
    <3>3. QED
      BY <1>5, <3>2
  <2>4. QED
    BY <1>8, <2>1, <2>2, <2>3 DEF SendBattleReward
<1>15. p \in DOMAIN v.info /\ v.info[p].opps # << >>
  <2>1. CASE ~MovesUp(b, p, t, win)
    BY <1>11, <1>12, <1>14, <2>1 DEF UpdateRank
  <2>2. CASE MovesUp(b, p, t, win)
    <3>1. PICK m, k : m = b.info[p].cur /\ k = get_rank_id(b, t)
      OBVIOUS
    <3>2. PICK best : best = Min({b.info[p].max, k})
      OBVIOUS
    <3>3. PICK info : info = Put(b.info, p, InfoRec(k, best, b.info[p].opps))
      OBVIOUS
    <3>4. v.info = ShownTo(info, t, m)
      BY <1>9, <1>12, <2>2, <3>1, <3>2, <3>3, UpdateIs DEF MemOK
    <3>5. p \in DOMAIN info /\ info[p].opps = b.info[p].opps
      BY <3>3 DEF Put, InfoRec
    <3>6. QED
      BY <1>14, <3>4, <3>5 DEF ShownTo, Put, InfoRec
  <2>3. QED
    BY <2>1, <2>2
<1>16. QED
  BY <1>13, <1>15

\* What a list does.
LEMMA GivenBases ==
  ASSUME NEW w, IsMem(w), Bases(w), NEW p \in DOMAIN w.info, Based(w, p), NEW four, NEW v, Given(w, v, p, four)
  PROVE  Bases(v) /\ v.user = w.user
<1>1. PICK x : Grown(w, x) /\ v = set_info_data(x, p, ListOf(w, x, p, four))
  BY DEF Given
<1>2. PICK j : j = ListOf(w, x, p, four)
  OBVIOUS
<1>3. v.info = Put(w.info, p, j) /\ v.user = w.user
  BY <1>1, <1>2, InfoIs DEF Grown
<1>4. j.max = w.info[p].max
  BY <1>2 DEF ListOf
<1>5. Unpaid(v.user)
  BY <1>3, Zenon DEF Bases
<1>6. ASSUME NEW q \in DOMAIN v.info, v.info[q].opps # << >>
      PROVE  Based(v, q)
  BY <1>3, <1>4, <1>6 DEF Put, Based, Bases
<1>7. QED
  BY <1>3, <1>5, <1>6 DEF Bases

\* The rewards of the users in memory and in the tables.
Rewards == "skipped" \notin spoilt => Bases(game) /\ Unpaid(saved)

LEMMA RefreshedBases ==
  ASSUME NEW n, Room(n), NEW w, MemOK(w, n), NEW p \in DOMAIN w.info, NEW marks, Refreshed(w, p, marks),
         Rewards, UNCHANGED saved,
         "skipped" \notin marks /\ Bases(game) => Bases(w) /\ Based(w, p)
  PROVE  Rewards'
<1>1. PICK four \in Offers(w, p) : Leaves(SetInfoOpp(w, p, four), marks)
  BY DEF Refreshed
<1>2. p \in Players /\ IsMem(w) /\ w.target_guid \in Nat
  BY DEF MemOK
<1>3. Aside(four, OwnRank(w, p))
  BY <1>1, <1>2, OffersAre
<1>4. IsFour(four) /\ \A i \in 1..4 : four[i] <= LastRank
  BY <1>3 DEF Aside
<1>5. PICK v : v = SetInfoOpp(w, p, four)
  OBVIOUS
<1>6. Given(w, v, p, four)
  BY <1>2, <1>4, <1>5, SetInfoOppIs
<1>7. IsMem(v)
  BY <1>4, <1>6, GivenKeeps DEF MemOK
<1>8. game'.info = v.info /\ game'.user = v.user /\ spoilt' = spoilt \cup marks \cup Marks(v)
  BY <1>1, <1>5, <1>7, LeftIs DEF Leaves
<1>9. ASSUME "skipped" \notin spoilt'
      PROVE  Bases(game') /\ Unpaid(saved')
  <2>1. "skipped" \notin spoilt /\ "skipped" \notin marks
    BY <1>8, <1>9
  <2>2. Bases(game) /\ Unpaid(saved)
    BY <2>1 DEF Rewards
  <2>3. Bases(w) /\ Based(w, p)
    BY <2>1, <2>2
  <2>4. Bases(v)
    BY <1>2, <1>6, <2>3, GivenBases
  <2>5. Bases(game')
    BY <1>8, <2>4 DEF Bases, Based
  <2>6. QED
    BY <2>2, <2>5
<1>10. QED
  BY <1>9 DEF Rewards

LEMMA LeavesBases ==
  ASSUME NEW w, IsMem(w), NEW marks, Leaves(w, marks), Rewards, UNCHANGED saved, Bases(game) => Bases(w)
  PROVE  Rewards'
<1>1. game'.info = w.info /\ game'.user = w.user /\ spoilt' = spoilt \cup marks \cup Marks(w)
  BY LeftIs DEF Leaves
<1>2. Bases(w) => Bases(game')
  BY <1>1 DEF Bases, Based
<1>3. QED
  BY <1>1, <1>2 DEF Rewards

LEMMA SameBases ==
  ASSUME Rewards, game'.info = game.info, game'.user = game.user, UNCHANGED saved, spoilt \subseteq spoilt'
  PROVE  Rewards'
<1>1. Bases(game) => Bases(game')
  BY DEF Bases, Based
<1>2. QED
  BY <1>1 DEF Rewards

\* Who is not marked has its base.
LEMMA NotSkipped ==
  ASSUME NEW p \in Players, "skipped" \notin Skips(p), Bases(game), p \in DOMAIN game.info, IsMem(game)
  PROVE  Based(game, p)
<1>1. ~Misses(p)
  BY DEF Skips
<1>2. CASE game.info[p].opps # << >>
  BY <1>2 DEF Bases
<1>3. CASE game.info[p].opps = << >>
  <2>1. SetInfoBase(game, p) = game
    BY <1>1, <1>3 DEF Misses, Baseless
  <2>2. PICK i : i = [cur |-> get_rank_id(game, p), max |-> game.user[p].best, opps |-> InfoOf(game, p).opps]
    OBVIOUS
  <2>3. PICK v : v = set_info_data(game, p, i)
    OBVIOUS
  <2>4. v = game
    BY <2>1, <2>2, <2>3 DEF SetInfoBase
  <2>5. v.info = Put(game.info, p, i)
    BY <2>3, InfoIs
  <2>6. game.info[p] = i
    BY <2>4, <2>5 DEF Put
  <2>7. QED
    BY <2>2, <2>6 DEF Based
<1>4. QED
  BY <1>2, <1>3

LEMMA EndBases ==
  ASSUME TypeInv, Rewards, NEW i \in DOMAIN fights, NEW result, FightEnds(i, result)
  PROVE  Rewards'
<1>1. PICK p, t : p = fights[i].ack /\ t = fights[i].def
  OBVIOUS
<1>2. PICK first : first = GetFirstReward(game, p)
  OBVIOUS
<1>3. /\ UNCHANGED saved
      /\ IF t = Monster
         THEN IF first = game THEN Leaves(game, {}) ELSE Refreshed(first, p, Skips(p))
         ELSE Leaves(game, {}) \/ (~check_rank(game, p, t) /\ Refreshed(ExtraProc(game, p, t, result), p, {}))
  BY <1>1, <1>2 DEF FightEnds
<1>4. p \in Players
  BY <1>1, FighterIs
<1>5. PICK m, n : m = Most /\ n = Most + 1
  OBVIOUS
<1>6. m \in Nat /\ n \in Nat /\ n = m + 1 /\ Room(n) /\ MemOK(game, m) /\ IsMem(game)
  <2>1. Len(fights) # 0 /\ Most \in Nat
    BY FighterIs, RoomNow
  <2>2. Room(n) /\ MemOK(game, m)
    BY <1>5, <2>1, RoomNow DEF TypeInv
  <2>3. QED
    BY <1>5, <2>1, <2>2 DEF MemOK
<1>7. CASE Leaves(game, {})
  BY <1>3, <1>6, <1>7, LeavesBases
<1>8. CASE t = Monster /\ first # game
  <2>1. p \in DOMAIN game.info /\ game.info[p].max = 0
    BY <1>2, <1>8 DEF GetFirstReward
  <2>2. PICK last : last = FirstPlace(game)
    OBVIOUS
  <2>3. first.info = Put(game.info, p, InfoRec(last, last, game.info[p].opps))
    BY <1>2, <1>6, <2>1, <2>2, FirstIs
  <2>4. p \in DOMAIN first.info
    BY <2>3 DEF Put
  <2>5. MemOK(first, n)
    BY <1>2, <1>4, <1>6, FirstKeeps
  <2>6. Refreshed(first, p, Skips(p))
    BY <1>3, <1>8
  <2>7. ASSUME "skipped" \notin Skips(p), Bases(game)
        PROVE  Bases(first) /\ Based(first, p)
    <3>1. Based(game, p)
      BY <1>4, <1>6, <2>1, <2>7, NotSkipped
    <3>2. Bases(first) /\ (p \in DOMAIN first.info => Based(first, p))
      BY <1>2, <1>4, <1>6, <2>7, <3>1, FirstBases
    <3>3. QED
      BY <2>4, <3>2
  <2>8. QED
    BY <1>3, <1>6, <2>4, <2>5, <2>6, <2>7, RefreshedBases
<1>9. CASE ~check_rank(game, p, t) /\ Refreshed(ExtraProc(game, p, t, result), p, {})
  <2>1. get_rank_id(game, t) # 0 /\ p \in DOMAIN game.info /\ game.info[p].opps # << >>
    <3>1. get_rank_id(game, t) # 0 /\ Listed(game, p, t) # 0
      BY <1>9 DEF check_rank
    <3>2. PICK four : four = IF p \in DOMAIN game.info THEN game.info[p].opps ELSE << >>
      OBVIOUS
    <3>3. four = << >> => Listed(game, p, t) = 0
      <4>1. four = << >> => {k \in DOMAIN four : four[k].id = t} = {}
        OBVIOUS
      <4>2. QED
        BY <3>2, <4>1 DEF Listed
    <3>4. QED
      BY <3>1, <3>2, <3>3
  <2>2. PICK x : x = ExtraProc(game, p, t, result)
    OBVIOUS
  <2>3. MemOK(x, n) /\ p \in DOMAIN x.info
    BY <1>6, <2>1, <2>2, ExtraKeeps
  <2>4. ASSUME Bases(game)
        PROVE  Bases(x) /\ Based(x, p)
    <3>1. Bases(x) /\ x.info[p].opps # << >>
      BY <1>6, <2>1, <2>2, <2>4, ExtraBases
    <3>2. QED
      BY <2>3, <3>1 DEF Bases
  <2>5. Refreshed(x, p, {})
    BY <1>9, <2>2
  <2>6. QED
    BY <1>3, <1>6, <2>3, <2>4, <2>5, RefreshedBases
<1>10. QED
  BY <1>3, <1>7, <1>8, <1>9

LEMMA AnsweredBases ==
  ASSUME TypeInv, Rewards, Answered
  PROVE  Rewards'
<1>1. PICK m : m = Head(answers)
  OBVIOUS
<1>2. /\ answers # << >> /\ UNCHANGED saved
      /\ \/ m.kind = "count" /\ PRServerInfoList(m.n)
         \/ m.kind = "ranks" /\ LoadData(m.rows)
         \/ m.kind = "logs" /\ LoadLog(m.logs)
  BY <1>1 DEF Answered
<1>3. PICK n : n = Most
  OBVIOUS
<1>4. IsMem(game) /\ MemOK(game, n) /\ Room(n)
  BY <1>3, RoomNow DEF TypeInv, MemOK
<1>5. CASE PRServerInfoList(m.n)
  <2>1. PICK w, marks : w = [game EXCEPT !.count = m.n] /\ Leaves(w, marks)
    BY <1>5 DEF PRServerInfoList
  <2>2. PICK c : c = m.n
    OBVIOUS
  <2>3. IsMem(w) /\ w.info = game.info /\ w.user = game.user
    BY <1>4, <2>1, <2>2, CountFields
  <2>4. Bases(game) => Bases(w)
    BY <2>3 DEF Bases, Based
  <2>5. QED
    BY <1>2, <2>1, <2>3, <2>4, LeavesBases
<1>6. CASE m.kind = "ranks" /\ LoadData(m.rows)
  <2>1. answers \in Seq(Replies(n))
    BY <1>3 DEF TypeInv
  <2>2. m \in Replies(n)
    BY <1>1, <1>2, <2>1
  <2>3. PICK rows : rows = m.rows
    OBVIOUS
  <2>4. rows \in Tables(n) /\ LoadData(rows)
    BY <1>6, <2>2, <2>3, ReplyIs
  <2>5. PICK f, w, marks : IsOwners(f, rows) /\ IsLoaded(w, game, f, rows) /\ Leaves(CreateRank(w), marks)
    BY <2>4 DEF LoadData, IsOwners, IsLoaded
  <2>6. IsMem(w) /\ w.info = game.info /\ w.user = game.user
    BY <1>4, <2>5, LoadedIs
  <2>7. MemOK(w, n)
    BY <1>4, <2>4, <2>5, LoadedKeeps
  <2>8. PICK v : v = CreateRank(w)
    OBVIOUS
  <2>9. IsMem(v) /\ v.info = w.info /\ v.user = w.user
    BY <2>7, <2>8, CreatedIs
  <2>10. Bases(game) => Bases(v)
    BY <2>6, <2>9 DEF Bases, Based
  <2>11. QED
    BY <1>2, <2>5, <2>8, <2>9, <2>10, LeavesBases
<1>7. CASE LoadLog(m.logs)
  <2>1. PICK x : x = Over(game.info, [p \in m.logs |-> EmptyInfo])
    OBVIOUS
  <2>2. PICK w : w = [game EXCEPT !.info = x, !.load_log = game.load_log + 1]
    OBVIOUS
  <2>3. Leaves(w, {})
    BY <1>7, <2>1, <2>2 DEF LoadLog
  <2>4. IsMem(w) /\ w.info = x /\ w.user = game.user
    BY <1>4, <2>2 DEF IsMem
  <2>5. \A q \in DOMAIN x : x[q].opps = << >> \/ (q \in DOMAIN game.info /\ x[q] = game.info[q])
    BY <2>1 DEF Over, EmptyInfo
  <2>6. Bases(game) => Bases(w)
    BY <2>4, <2>5, BasesSame
  <2>7. QED
    BY <1>2, <2>3, <2>4, <2>6, LeavesBases
<1>8. QED
  BY <1>2, <1>5, <1>6, <1>7

LEMMA StepBases ==
  ASSUME TypeInv, Rewards, [Next]_vars
  PROVE  Rewards'
<1>1. PICK n : n = Most
  OBVIOUS
<1>2. n \in Nat /\ Room(n) /\ MemOK(game, n) /\ IsMem(game)
  BY <1>1, RoomNow DEF TypeInv, MemOK
<1>3. ASSUME NEW p \in Players, PQSingleArenaInfo(p)
      PROVE  Rewards'
  <2>1. PICK w : w = IF Baseless(p) THEN SetInfoBase(game, p) ELSE game
    OBVIOUS
  <2>2. Refreshed(w, p, {}) /\ UNCHANGED saved
    BY <1>3, <2>1 DEF PQSingleArenaInfo
  <2>3. MemOK(w, n) /\ p \in DOMAIN w.info
    BY <1>2, <2>1, BaseKeeps DEF Baseless
  <2>4. ASSUME Bases(game)
        PROVE  Bases(w) /\ Based(w, p)
    <3>1. CASE Baseless(p)
      BY <1>2, <2>1, <2>4, <3>1, BaseBases
    <3>2. CASE ~Baseless(p)
      BY <2>1, <2>4, <3>2 DEF Baseless, Bases
    <3>3. QED
      BY <3>1, <3>2
  <2>5. QED
    BY <1>2, <2>2, <2>3, <2>4, RefreshedBases
<1>4. ASSUME NEW p \in Players, PQSingleArenaRefresh(p)
      PROVE  Rewards'
  <2>1. PICK w : w = IF p \in DOMAIN game.info THEN game ELSE SetInfoBase(game, p)
    OBVIOUS
  <2>2. Refreshed(w, p, Skips(p)) /\ UNCHANGED saved
    BY <1>4, <2>1 DEF PQSingleArenaRefresh
  <2>3. MemOK(w, n) /\ p \in DOMAIN w.info
    BY <1>2, <2>1, BaseKeeps
  <2>4. ASSUME "skipped" \notin Skips(p), Bases(game)
        PROVE  Bases(w) /\ Based(w, p)
    <3>1. CASE p \in DOMAIN game.info
      BY <1>2, <2>1, <2>4, <3>1, NotSkipped
    <3>2. CASE p \notin DOMAIN game.info
      BY <1>2, <2>1, <2>4, <3>2, BaseBases
    <3>3. QED
      BY <3>1, <3>2
  <2>5. QED
    BY <1>2, <2>2, <2>3, <2>4, RefreshedBases
<1>5. ASSUME NEW p \in Players, PQFightSingleArenaApply(p) \/ PQCommonFightAuto(p)
      PROVE  Rewards'
  BY <1>5, SameBases DEF PQFightSingleArenaApply, PQCommonFightAuto, Start
<1>6. ASSUME NEW p \in Players, UpdateLevel(p)
      PROVE  Rewards'
  <2>1. PICK r : r = get_rank_id(game, p)
    OBVIOUS
  <2>2. PICK msgs, w : msgs = <<RowMsg(game.rank_map[r], r)>> /\ w = Write(game, msgs)
    OBVIOUS
  <2>3. Leaves(w, {}) /\ UNCHANGED saved
    BY <1>6, <2>1, <2>2 DEF UpdateLevel
  <2>4. IsMem(w) /\ w.info = game.info /\ w.user = game.user
    BY <1>2, <2>2, WriteIs
  <2>5. Bases(game) => Bases(w)
    BY <2>4 DEF Bases, Based
  <2>6. QED
    BY <2>3, <2>4, <2>5, LeavesBases
<1>7. ASSUME NEW p \in Players, SaveUser(p)
      PROVE  Rewards'
  <2>1. saved' = [saved EXCEPT ![p] = game.user[p]] /\ game' = game /\ spoilt' = spoilt
    BY <1>7 DEF SaveUser
  <2>2. saved \in [Players -> User]
    BY DEF TypeInv
  <2>3. \A q \in Players : saved'[q] = IF q = p THEN game.user[q] ELSE saved[q]
    BY <2>1, <2>2
  <2>4. Bases(game) /\ Unpaid(saved) => Unpaid(saved')
    BY <2>3 DEF Bases, Unpaid
  <2>5. Bases(game) => Bases(game')
    BY <2>1 DEF Bases, Based
  <2>6. QED
    BY <2>1, <2>4, <2>5 DEF Rewards
<1>8. CASE PRCommonFightServerEnd
  <2>1. PICK i \in DOMAIN fights, r \in {"won", "lost"} : FightEnds(i, r)
    BY <1>8 DEF PRCommonFightServerEnd
  <2>2. QED
    BY <2>1, EndBases
<1>9. CASE PQPlayerFightQuit
  <2>1. PICK i \in DOMAIN fights : FightEnds(i, "quit")
    BY <1>9 DEF PQPlayerFightQuit
  <2>2. QED
    BY <2>1, EndBases
<1>10. CASE SEventNetRealDB
  <2>1. PICK v : v = game'
    OBVIOUS
  <2>2. v = [game EXCEPT !.load_log = 0, !.target_guid = 0] /\ UNCHANGED saved /\ spoilt \subseteq spoilt'
    BY <1>10, <2>1 DEF SEventNetRealDB
  <2>3. v.info = game.info /\ v.user = game.user
    BY <1>2, <2>2 DEF IsMem
  <2>4. QED
    BY <2>1, <2>2, <2>3, SameBases
<1>11. CASE Answered
  BY <1>11, AnsweredBases
<1>12. CASE GameEnds
  <2>1. game' = Memory(saved) /\ UNCHANGED saved /\ spoilt \subseteq spoilt'
    BY <1>12 DEF GameEnds
  <2>2. game'.user = saved /\ game'.info = << >>
    BY <2>1 DEF Memory
  <2>3. DOMAIN game'.info = {}
    BY <2>2
  <2>4. Unpaid(saved) => Bases(game') /\ Unpaid(saved')
    BY <2>1, <2>2, <2>3 DEF Bases
  <2>5. QED
    BY <2>1, <2>4 DEF Rewards
<1>13. CASE Realdb \/ RealdbEnds \/ UNCHANGED vars
  <2>1. game' = game /\ UNCHANGED saved /\ spoilt \subseteq spoilt'
    BY <1>13 DEF Realdb, RealdbEnds, vars
  <2>2. QED
    BY <2>1, SameBases
<1>14. QED
  BY <1>3, <1>4, <1>5, <1>6, <1>7, <1>8, <1>9, <1>10, <1>11, <1>12, <1>13 DEF Next

LEMMA InitBases ==
  ASSUME Init
  PROVE  Rewards
<1>0. PICK came \in SUBSET Players :
        \E place \in [came -> MAX_CREATE_OPPONENT + 1 .. MAX_CREATE_OPPONENT + Cardinality(came)] :
          saved = [p \in Players |-> Record(RankIn(place, p))]
  BY DEF Init
<1>1. PICK place : saved = [p \in Players |-> Record(RankIn(place, p))]
  BY <1>0
<1>2. game = Memory(saved)
  BY DEF Init
<1>3. \A p \in Players : Clean(saved[p])
  <2>1. \A r : Record(r) = [best |-> r, again |-> FALSE]
    BY DEF Record
  <2>2. \A r : Clean(Record(r))
    BY <2>1 DEF Clean
  <2>3. QED
    BY <1>1, <2>2
<1>4. game.user = saved /\ game.info = << >>
  BY <1>2 DEF Memory
<1>5. DOMAIN game.info = {}
  BY <1>4
<1>6. QED
  BY <1>3, <1>4, <1>5 DEF Rewards, Bases, Unpaid

(* No reward for a record is paid twice, in memory or from the tables,     *)
(* while no info was refreshed without its base: an info with a list knows *)
(* the best rank that its user was paid for, whatever the ladder, the      *)
(* tables and the link do, and after any end of any process.               *)
THEOREM PaidOnce == Spec => []RewardsOnce
<1>1. Init => Rewards
  BY InitBases
<1>2. TypeInv /\ Rewards /\ [Next]_vars => Rewards'
  BY StepBases
<1>3. Rewards => RewardsOnce
  <2>1. Sound({"lost", "late", "overwritten", "reused", "rolled"}) => "skipped" \notin spoilt
    BY DEF Sound
  <2>2. ASSUME Unpaid(game.user), NEW p \in Players
        PROVE  ~game.user[p].again
    BY <2>2, Zenon DEF Unpaid, Clean
  <2>3. QED
    BY <2>1, <2>2 DEF Rewards, RewardsOnce, Bases
<1>4. QED
  BY <1>1, <1>2, <1>3, Typed, PTL DEF Spec

-----------------------------------------------------------------------------
(* The load comes through.                                                 *)

NoLoad(q)  == \A i \in DOMAIN q : q[i] # Load
OneLoad(q) == \E i \in DOMAIN q : q[i] = Load /\ \A j \in DOMAIN q : q[j] = Load => j = i

\* The answers that are to come after n of those that are counted.
Due(q, n) ==
  \/ Len(q) = 3 /\ q[1].kind = "count" /\ q[2].kind = "ranks" /\ q[3].kind = "logs" /\ n = 0
  \/ Len(q) = 2 /\ q[1].kind = "ranks" /\ q[2].kind = "logs" /\ n = 0
  \/ Len(q) = 1 /\ q[1].kind = "logs" /\ n = 1
  \/ Len(q) = 0 /\ n = 2

Loading ==
  "late" \notin spoilt /\ up =>
    \/ OneLoad(sent) /\ answers = << >> /\ game.load_log = 0
    \/ NoLoad(sent) /\ Due(answers, game.load_log)

LEMMA WritesNoLoad ==
  ASSUME NEW n, NEW q \in Seq(Writes(n))
  PROVE  NoLoad(q)
<1>1. \A m \in Writes(n) : m.kind # "load"
  BY DEF Writes, RowMsg, LogMsg, CountMsg
<1>2. Load.kind = "load"
  BY DEF Load
<1>3. \A i \in DOMAIN q : q[i] \in Writes(n)
  OBVIOUS
<1>4. QED
  BY <1>1, <1>2, <1>3 DEF NoLoad

LEMMA LoadsBehind ==
  ASSUME NEW S, NEW q \in Seq(S), NEW T, NEW msgs \in Seq(T), NoLoad(msgs), NEW v, v = q \o msgs
  PROVE  (NoLoad(q) => NoLoad(v)) /\ (OneLoad(q) => OneLoad(v))
<1>1. /\ DOMAIN q = 1..Len(q) /\ DOMAIN msgs = 1..Len(msgs) /\ Len(q) \in Nat /\ Len(msgs) \in Nat
      /\ DOMAIN v = 1..(Len(q) + Len(msgs))
      /\ \A i \in 1..(Len(q) + Len(msgs)) : v[i] = IF i <= Len(q) THEN q[i] ELSE msgs[i - Len(q)]
  BY ConcatProperties
<1>2. \A i \in DOMAIN v : (i \in DOMAIN q /\ v[i] = q[i]) \/ (i - Len(q) \in DOMAIN msgs /\ v[i] = msgs[i - Len(q)])
  BY <1>1
<1>3. \A i \in DOMAIN q : i \in DOMAIN v /\ v[i] = q[i]
  BY <1>1
<1>4. \A i \in DOMAIN v : v[i] = Load => i \in DOMAIN q /\ q[i] = Load
  BY <1>2 DEF NoLoad
<1>5. QED
  BY <1>3, <1>4 DEF NoLoad, OneLoad

LEMMA FirstLoads ==
  ASSUME NEW w, IsMem(w), NEW p
  PROVE  GetFirstReward(w, p).load_log = w.load_log
<1>1. CASE p \in DOMAIN w.info /\ w.info[p].max = 0
  <2>1. PICK v, last : v = GetFirstReward(w, p) /\ last = FirstPlace(w)
    OBVIOUS
  <2>2. v.load_log = w.load_log
    BY <1>1, <2>1, FirstIs
  <2>3. QED
    BY <2>1, <2>2
<1>2. CASE ~(p \in DOMAIN w.info /\ w.info[p].max = 0)
  BY <1>2 DEF GetFirstReward
<1>3. QED
  BY <1>1, <1>2

LEMMA RewardLoads ==
  ASSUME NEW w, IsMem(w), NEW p, NEW t, NEW win
  PROVE  SendBattleReward(w, p, t, win).load_log = w.load_log
<1>1. ASSUME NEW r
      PROVE  PaidFor(w, p, r).load_log = w.load_log
  <2>1. PICK v : v = PaidFor(w, p, r)
    OBVIOUS
  <2>2. v.load_log = w.load_log
    BY <2>1, PaidIs
  <2>3. QED
    BY <2>1, <2>2
<1>2. QED
  BY <1>1, FirstLoads DEF SendBattleReward

LEMMA UpdateLoads ==
  ASSUME NEW w, IsMem(w), NEW p, NEW t, NEW win
  PROVE  UpdateRank(w, p, t, win).load_log = w.load_log
<1>1. CASE ~MovesUp(w, p, t, win)
  BY <1>1 DEF UpdateRank
<1>2. CASE MovesUp(w, p, t, win)
  <2>1. PICK m, h, v : m = w.info[p].cur /\ h = get_rank_id(w, t) /\ v = UpdateRank(w, p, t, win)
    OBVIOUS
  <2>2. PICK best : best = Min({w.info[p].max, h})
    OBVIOUS
  <2>3. v.load_log = w.load_log
    BY <1>2, <2>1, <2>2, UpdateIs
  <2>4. QED
    BY <2>1, <2>3
<1>3. QED
  BY <1>1, <1>2

LEMMA ExtraLoads ==
  ASSUME NEW w, IsMem(w), NEW p, NEW t, NEW result
  PROVE  ExtraProc(w, p, t, result).load_log = w.load_log
<1>1. PICK win : win = (result = "won")
  OBVIOUS
<1>2. PICK l, a : l = AddLog(w, p, t) /\ a = IF result = "quit" THEN w ELSE l
  OBVIOUS
<1>3. IsMem(l) /\ l.load_log = w.load_log
  <2>1. l = AddLog(w, p, t)
    BY <1>2
  <2>2. IsMem(l)
    BY <2>1, LogAside
  <2>3. l.load_log = w.load_log
    BY <2>1, LogAside
  <2>4. QED
    BY <2>2, <2>3
<1>4. IsMem(a) /\ a.load_log = w.load_log
  BY <1>2, <1>3
<1>5. PICK b : b = SendBattleReward(a, p, t, win)
  OBVIOUS
<1>6. IsMem(b) /\ b.load_log = a.load_log
  BY <1>4, <1>5, RewardLists, RewardLoads
<1>7. UpdateRank(b, p, t, win).load_log = b.load_log
  BY <1>6, UpdateLoads
<1>8. ExtraProc(w, p, t, result) = UpdateRank(b, p, t, win)
  BY <1>1, <1>2, <1>5 DEF ExtraProc
<1>9. QED
  BY <1>4, <1>6, <1>7, <1>8

LEMMA LeavesLoading ==
  ASSUME TypeInv, NEW n \in Nat, NEW w, MemOK(w, n), w.load_log = game.load_log, NEW marks, Leaves(w, marks),
         Loading, UNCHANGED <<up, answers>>
  PROVE  Loading'
<1>1. IsMem(w) /\ w.out \in Seq(Writes(n))
  BY DEF MemOK
<1>2. sent' = (IF up THEN sent \o w.out ELSE sent) /\ spoilt \subseteq spoilt'
  BY DEF Leaves
<1>3. game'.load_log = game.load_log
  BY <1>1, LeftIs
<1>4. PICK S : sent \in Seq(S)
  BY DEF TypeInv
<1>5. PICK v : v = sent \o w.out
  OBVIOUS
<1>6. NoLoad(w.out)
  BY <1>1, WritesNoLoad
<1>7. (NoLoad(sent) => NoLoad(v)) /\ (OneLoad(sent) => OneLoad(v))
  BY <1>1, <1>4, <1>5, <1>6, LoadsBehind
<1>8. PICK q, g : q = sent' /\ g = game'
  OBVIOUS
<1>9. ASSUME "late" \notin spoilt', up'
      PROVE  \/ OneLoad(q) /\ answers' = << >> /\ g.load_log = 0
             \/ NoLoad(q) /\ Due(answers', g.load_log)
  <2>1. "late" \notin spoilt /\ up /\ q = v
    BY <1>2, <1>5, <1>8, <1>9
  <2>2. \/ OneLoad(sent) /\ answers = << >> /\ game.load_log = 0
        \/ NoLoad(sent) /\ Due(answers, game.load_log)
    BY <2>1 DEF Loading
  <2>3. QED
    BY <1>3, <1>7, <1>8, <2>1, <2>2
<1>10. QED
  BY <1>8, <1>9 DEF Loading

LEMMA RefreshedLoading ==
  ASSUME TypeInv, NEW n, Room(n), NEW w, MemOK(w, n), w.load_log = game.load_log, NEW p \in DOMAIN w.info,
         NEW marks, Refreshed(w, p, marks), Loading, UNCHANGED <<up, answers>>
  PROVE  Loading'
<1>1. PICK four \in Offers(w, p) : Leaves(SetInfoOpp(w, p, four), marks)
  BY DEF Refreshed
<1>2. p \in Players /\ n \in Nat /\ IsMem(w) /\ w.target_guid \in Nat
  BY DEF MemOK, Room
<1>3. Aside(four, OwnRank(w, p))
  BY <1>1, <1>2, OffersAre
<1>4. IsFour(four) /\ \A i \in 1..4 : four[i] <= LastRank
  BY <1>3 DEF Aside
<1>5. PICK v : v = SetInfoOpp(w, p, four)
  OBVIOUS
<1>6. Given(w, v, p, four)
  BY <1>2, <1>4, <1>5, SetInfoOppIs
<1>7. MemOK(v, n)
  BY <1>4, <1>6, GivenKeeps
<1>8. v.load_log = w.load_log
  <2>1. PICK x, i : Grown(w, x) /\ v = set_info_data(x, p, i)
    BY <1>6 DEF Given
  <2>2. IsMem(x) /\ x.load_log = w.load_log
    BY <2>1 DEF Grown
  <2>3. v.load_log = x.load_log
    BY <2>1, <2>2, InfoIs
  <2>4. QED
    BY <2>2, <2>3
<1>9. QED
  BY <1>1, <1>2, <1>5, <1>7, <1>8, LeavesLoading

LEMMA EndLoading ==
  ASSUME TypeInv, Loading, NEW i \in DOMAIN fights, NEW result, FightEnds(i, result)
  PROVE  Loading'
<1>1. PICK p, t : p = fights[i].ack /\ t = fights[i].def
  OBVIOUS
<1>2. PICK first : first = GetFirstReward(game, p)
  OBVIOUS
<1>3. /\ UNCHANGED <<up, answers>>
      /\ IF t = Monster
         THEN IF first = game THEN Leaves(game, {}) ELSE Refreshed(first, p, Skips(p))
         ELSE Leaves(game, {}) \/ (~check_rank(game, p, t) /\ Refreshed(ExtraProc(game, p, t, result), p, {}))
  BY <1>1, <1>2 DEF FightEnds
<1>4. p \in Players
  BY <1>1, FighterIs
<1>5. PICK m, n : m = Most /\ n = Most + 1
  OBVIOUS
<1>6. m \in Nat /\ n \in Nat /\ n = m + 1 /\ Room(n) /\ MemOK(game, m) /\ IsMem(game)
  <2>1. Len(fights) # 0 /\ Most \in Nat
    BY FighterIs, RoomNow
  <2>2. Room(n) /\ MemOK(game, m)
    BY <1>5, <2>1, RoomNow DEF TypeInv
  <2>3. QED
    BY <1>5, <2>1, <2>2 DEF MemOK
<1>7. CASE Leaves(game, {})
  BY <1>3, <1>6, <1>7, LeavesLoading
<1>8. CASE t = Monster /\ first # game
  <2>1. p \in DOMAIN game.info /\ game.info[p].max = 0
    BY <1>2, <1>8 DEF GetFirstReward
  <2>2. PICK last : last = FirstPlace(game)
    OBVIOUS
  <2>3. first.info = Put(game.info, p, InfoRec(last, last, game.info[p].opps))
    BY <1>2, <1>6, <2>1, <2>2, FirstIs
  <2>4. p \in DOMAIN first.info
    BY <2>3 DEF Put
  <2>5. MemOK(first, n)
    BY <1>2, <1>4, <1>6, FirstKeeps
  <2>6. first.load_log = game.load_log
    BY <1>2, <1>6, FirstLoads
  <2>7. Refreshed(first, p, Skips(p))
    BY <1>3, <1>8
  <2>8. QED
    BY <1>3, <1>6, <2>4, <2>5, <2>6, <2>7, RefreshedLoading
<1>9. CASE ~check_rank(game, p, t) /\ Refreshed(ExtraProc(game, p, t, result), p, {})
  <2>1. get_rank_id(game, t) # 0 /\ p \in DOMAIN game.info
    BY <1>9 DEF check_rank, Listed
  <2>2. PICK x : x = ExtraProc(game, p, t, result)
    OBVIOUS
  <2>3. MemOK(x, n) /\ p \in DOMAIN x.info
    BY <1>6, <2>1, <2>2, ExtraKeeps
  <2>4. x.load_log = game.load_log
    BY <1>6, <2>2, ExtraLoads
  <2>5. Refreshed(x, p, {})
    BY <1>9, <2>2
  <2>6. QED
    BY <1>3, <1>6, <2>3, <2>4, <2>5, RefreshedLoading
<1>10. QED
  BY <1>3, <1>7, <1>8, <1>9

LEMMA AnswersIn ==
  ASSUME NEW a, NEW b, NEW c
  PROVE  /\ Len(<<a, b, c>>) = 3 /\ <<a, b, c>>[1] = a /\ <<a, b, c>>[2] = b /\ <<a, b, c>>[3] = c
         /\ << >> \o <<a, b, c>> = <<a, b, c>>
OBVIOUS

LEMMA RealdbLoading ==
  ASSUME TypeInv, Loading, Realdb
  PROVE  Loading'
<1>1. PICK k \in DOMAIN sent :
        /\ \A i \in 1..k : sent[i] = Load => k = 1
        /\ sent' = SubSeq(sent, k + 1, Len(sent))
        /\ answers' = (IF sent[1] = Load /\ up THEN answers \o Answers ELSE answers)
        /\ UNCHANGED <<game, up, spoilt>>
  BY DEF Realdb
<1>2. PICK S : sent \in Seq(S)
  BY DEF TypeInv
<1>3. PICK l, q : l = Len(sent) /\ q = sent'
  OBVIOUS
<1>4. l \in Nat /\ k \in 1..l /\ DOMAIN sent = 1..l
  BY <1>2, <1>3
<1>5. DOMAIN q = 1..(l - k) /\ \A i \in DOMAIN q : q[i] = sent[i + k]
  <2>1. q = [i \in 1..(l - k) |-> sent[i + k]]
    BY <1>1, <1>2, <1>3, <1>4 DEF SubSeq
  <2>2. QED
    BY <2>1
<1>6. SUFFICES ASSUME "late" \notin spoilt, up
               PROVE  \/ OneLoad(q) /\ answers' = << >> /\ game.load_log = 0
                      \/ NoLoad(q) /\ Due(answers', game.load_log)
  BY <1>1, <1>3 DEF Loading
<1>7. \A i \in DOMAIN q : i + k \in DOMAIN sent /\ q[i] = sent[i + k]
  BY <1>4, <1>5
<1>8. CASE sent[1] = Load
  <2>1. k = 1 /\ 1 \in DOMAIN sent
    BY <1>1, <1>4, <1>8
  <2>2. ~NoLoad(sent)
    BY <1>8, <2>1 DEF NoLoad
  <2>3. OneLoad(sent) /\ answers = << >> /\ game.load_log = 0
    BY <1>6, <2>2 DEF Loading
  <2>4. \A j \in DOMAIN sent : sent[j] = Load => j = 1
    BY <1>8, <2>1, <2>3 DEF OneLoad
  <2>5. NoLoad(q)
    <3>1. \A i \in DOMAIN q : i + k # 1
      BY <1>4, <1>5
    <3>2. QED
      BY <1>7, <2>4, <3>1 DEF NoLoad
  <2>6. Due(answers', 0)
    <3>1. PICK a, b, c : a = CountMsg(db.count) /\ b = RanksMsg(db.rows) /\ c = LogsMsg(db.logs)
      OBVIOUS
    <3>2. Answers = <<a, b, c>>
      BY <3>1 DEF Answers, RanksMsg, LogsMsg
    <3>3. answers' = <<a, b, c>>
      BY <1>1, <1>6, <1>8, <2>3, <3>2, AnswersIn
    <3>4. a.kind = "count" /\ b.kind = "ranks" /\ c.kind = "logs"
      BY <3>1 DEF CountMsg, RanksMsg, LogsMsg
    <3>5. QED
      BY <3>3, <3>4, AnswersIn DEF Due
  <2>7. QED
    BY <2>3, <2>5, <2>6
<1>9. CASE sent[1] # Load
  <2>1. \A i \in 1..k : sent[i] # Load
    BY <1>1, <1>4, <1>9
  <2>2. answers' = answers
    BY <1>1, <1>9
  <2>3. NoLoad(sent) => NoLoad(q)
    BY <1>7 DEF NoLoad
  <2>4. ASSUME OneLoad(sent)
        PROVE  OneLoad(q)
    <3>1. PICK i \in DOMAIN sent : sent[i] = Load /\ \A j \in DOMAIN sent : sent[j] = Load => j = i
      BY <2>4 DEF OneLoad
    <3>2. i - k \in DOMAIN q /\ q[i - k] = sent[i]
      <4>1. i \in 1..l /\ i \notin 1..k
        BY <1>4, <2>1, <3>1
      <4>2. i - k \in 1..(l - k) /\ (i - k) + k = i
        BY <1>4, <4>1
      <4>3. QED
        BY <1>5, <4>2
    <3>3. \A j \in DOMAIN q : q[j] = Load => j + k = i
      BY <1>7, <3>1
    <3>4. \A j \in DOMAIN q : q[j] = Load => j = i - k
      BY <1>4, <1>5, <3>3
    <3>5. QED
      BY <3>1, <3>2, <3>4 DEF OneLoad
  <2>5. QED
    BY <1>6, <2>2, <2>3, <2>4 DEF Loading
<1>10. QED
  BY <1>8, <1>9

LEMMA LinkLoading ==
  ASSUME TypeInv, SEventNetRealDB
  PROVE  Loading'
<1>1. /\ sent' = Append(sent, Load) /\ answers' = answers
      /\ spoilt' = spoilt \cup IF answers # << >> \/ Contains(sent, Load) THEN {"late"} ELSE {}
  BY DEF SEventNetRealDB
<1>2. PICK g, q : g = game' /\ q = sent'
  OBVIOUS
<1>3. g = [game EXCEPT !.load_log = 0, !.target_guid = 0]
  BY <1>2 DEF SEventNetRealDB
<1>4. g.load_log = 0
  BY <1>3 DEF TypeInv, MemOK, IsMem
<1>5. ASSUME "late" \notin spoilt'
      PROVE  answers = << >> /\ \A i \in 1..Len(sent) : sent[i] # Load
  <2>1. answers = << >> /\ ~Contains(sent, Load)
    BY <1>1, <1>5
  <2>2. QED
    BY <2>1 DEF Contains
<1>6. ASSUME "late" \notin spoilt'
      PROVE  OneLoad(q)
  <2>1. PICK S : sent \in Seq(S)
    BY DEF TypeInv
  <2>2. PICK l : l = Len(sent)
    OBVIOUS
  <2>3. PICK m : m = Load
    OBVIOUS
  <2>4. l \in Nat /\ q = Append(sent, m)
    BY <1>1, <1>2, <2>1, <2>2, <2>3
  <2>5. DOMAIN q = 1..(l + 1) /\ q[l + 1] = m /\ \A i \in 1..l : q[i] = sent[i]
    BY <2>1, <2>2, <2>4
  <2>6. \A j \in DOMAIN q : q[j] = m => j = l + 1
    BY <1>5, <1>6, <2>2, <2>3, <2>4, <2>5
  <2>7. l + 1 \in DOMAIN q
    BY <2>4, <2>5
  <2>8. QED
    BY <2>3, <2>5, <2>6, <2>7 DEF OneLoad
<1>7. QED
  BY <1>1, <1>2, <1>4, <1>5, <1>6 DEF Loading

\* An answer that is handled is the one that is due.
LEMMA DueNext ==
  ASSUME NEW S, NEW q \in Seq(S), q # << >>, NEW n, Due(q, n)
  PROVE  /\ Head(q).kind = "count" => n = 0 /\ Due(Tail(q), 0)
         /\ Head(q).kind = "ranks" => n = 0 /\ Due(Tail(q), 1)
         /\ Head(q).kind = "logs"  => n = 1 /\ Due(Tail(q), 2)
<1>1. PICK l : l = Len(q)
  OBVIOUS
<1>2. l \in Nat /\ l # 0
  BY <1>1
<1>3. PICK h, r : h = Head(q) /\ r = Tail(q)
  OBVIOUS
<1>4. h = q[1] /\ Len(r) = l - 1 /\ \A i \in 1..(l - 1) : r[i] = q[i + 1]
  BY <1>1, <1>2, <1>3
<1>5. CASE l = 3 /\ q[1].kind = "count" /\ q[2].kind = "ranks" /\ q[3].kind = "logs" /\ n = 0
  <2>1. Len(r) = 2 /\ r[1] = q[2] /\ r[2] = q[3]
    BY <1>4, <1>5
  <2>2. Due(r, 0)
    BY <1>5, <2>1 DEF Due
  <2>3. QED
    BY <1>3, <1>4, <1>5, <2>2
<1>6. CASE l = 2 /\ q[1].kind = "ranks" /\ q[2].kind = "logs" /\ n = 0
  <2>1. Len(r) = 1 /\ r[1] = q[2]
    BY <1>4, <1>6
  <2>2. Due(r, 1)
    BY <1>6, <2>1 DEF Due
  <2>3. QED
    BY <1>3, <1>4, <1>6, <2>2
<1>7. CASE l = 1 /\ q[1].kind = "logs" /\ n = 1
  <2>1. Len(r) = 0
    BY <1>4, <1>7
  <2>2. Due(r, 2)
    BY <2>1 DEF Due
  <2>3. QED
    BY <1>3, <1>4, <1>7, <2>2
<1>8. QED
  BY <1>1, <1>2, <1>5, <1>6, <1>7 DEF Due

LEMMA AnsweredLoading ==
  ASSUME TypeInv, Loading, Answered
  PROVE  Loading'
<1>1. PICK m : m = Head(answers)
  OBVIOUS
<1>2. /\ answers # << >> /\ answers' = Tail(answers) /\ up' = up
      /\ \/ m.kind = "count" /\ PRServerInfoList(m.n)
         \/ m.kind = "ranks" /\ LoadData(m.rows)
         \/ m.kind = "logs" /\ LoadLog(m.logs)
  BY <1>1 DEF Answered
<1>3. PICK n : n = Most
  OBVIOUS
<1>4. IsMem(game) /\ MemOK(game, n) /\ Room(n) /\ answers \in Seq(Replies(n)) /\ game.out = << >>
  BY <1>3, RoomNow DEF TypeInv, MemOK
<1>5. PICK g, l : g = game' /\ l = game.load_log
  OBVIOUS
<1>6. /\ sent' = sent /\ spoilt \subseteq spoilt' /\ g.load_log = IF m.kind = "count" THEN l ELSE l + 1
  <2>1. CASE m.kind = "count" /\ PRServerInfoList(m.n)
    <3>1. PICK c, marks : c = m.n /\ Leaves([game EXCEPT !.count = c], marks)
      BY <2>1 DEF PRServerInfoList
    <3>2. PICK w : w = [game EXCEPT !.count = c]
      OBVIOUS
    <3>3. IsMem(w) /\ w.load_log = l /\ w.out = << >>
      BY <1>4, <1>5, <3>2 DEF IsMem
    <3>4. Leaves(w, marks)
      BY <3>1, <3>2
    <3>5. g.load_log = l
      BY <1>5, <3>3, <3>4, LeftIs
    <3>6. sent' = (IF up THEN sent \o w.out ELSE sent) /\ spoilt \subseteq spoilt'
      BY <3>4 DEF Leaves
    <3>7. sent \o << >> = sent
      BY DEF TypeInv
    <3>8. QED
      BY <2>1, <3>3, <3>5, <3>6, <3>7
  <2>2. CASE m.kind = "ranks" /\ LoadData(m.rows)
    <3>1. m \in Replies(n)
      BY <1>1, <1>2, <1>4
    <3>2. PICK rows : rows = m.rows
      OBVIOUS
    <3>3. rows \in Tables(n) /\ LoadData(rows)
      BY <2>2, <3>1, <3>2, ReplyIs
    <3>4. PICK f, w, marks : IsOwners(f, rows) /\ IsLoaded(w, game, f, rows) /\ Leaves(CreateRank(w), marks)
      BY <3>3 DEF LoadData, IsOwners, IsLoaded
    <3>5. IsMem(w) /\ w.load_log = l + 1 /\ w.out = << >>
      BY <1>4, <1>5, <3>4, LoadedIs
    <3>6. MemOK(w, n)
      BY <1>4, <3>3, <3>4, LoadedKeeps
    <3>7. PICK v : v = CreateRank(w)
      OBVIOUS
    <3>8. IsMem(v) /\ v.load_log = l + 1 /\ v.out = << >>
      BY <3>5, <3>6, <3>7, CreatedIs DEF Grown
    <3>9. Leaves(v, marks)
      BY <3>4, <3>7
    <3>10. g.load_log = l + 1
      BY <1>5, <3>8, <3>9, LeftIs
    <3>11. sent' = (IF up THEN sent \o v.out ELSE sent) /\ spoilt \subseteq spoilt'
      BY <3>9 DEF Leaves
    <3>12. sent \o << >> = sent
      BY DEF TypeInv
    <3>13. QED
      BY <2>2, <3>8, <3>10, <3>11, <3>12
  <2>3. CASE m.kind = "logs" /\ LoadLog(m.logs)
    <3>1. PICK x : x = Over(game.info, [p \in m.logs |-> EmptyInfo])
      OBVIOUS
    <3>2. PICK w : w = [game EXCEPT !.info = x, !.load_log = l + 1]
      OBVIOUS
    <3>3. Leaves(w, {})
      BY <1>5, <2>3, <3>1, <3>2 DEF LoadLog
    <3>4. IsMem(w) /\ w.load_log = l + 1 /\ w.out = << >>
      BY <1>4, <3>2 DEF IsMem
    <3>5. g.load_log = l + 1
      BY <1>5, <3>3, <3>4, LeftIs
    <3>6. sent' = (IF up THEN sent \o w.out ELSE sent) /\ spoilt \subseteq spoilt'
      BY <3>3 DEF Leaves
    <3>7. sent \o << >> = sent
      BY DEF TypeInv
    <3>8. QED
      BY <2>3, <3>4, <3>5, <3>6, <3>7
  <2>4. QED
    BY <1>2, <2>1, <2>2, <2>3
<1>7. ASSUME "late" \notin spoilt', up'
      PROVE  NoLoad(sent') /\ Due(answers', g.load_log)
  <2>1. "late" \notin spoilt /\ up
    BY <1>2, <1>6, <1>7
  <2>2. NoLoad(sent) /\ Due(answers, l)
    BY <1>2, <1>5, <2>1 DEF Loading
  <2>3. /\ m.kind = "count" => l = 0 /\ Due(Tail(answers), 0)
        /\ m.kind = "ranks" => l = 0 /\ Due(Tail(answers), 1)
        /\ m.kind = "logs"  => l = 1 /\ Due(Tail(answers), 2)
    BY <1>1, <1>2, <1>4, <2>2, DueNext
  <2>4. Due(answers', g.load_log)
    <3>1. CASE m.kind = "count"
      BY <1>2, <1>6, <2>3, <3>1
    <3>2. CASE m.kind = "ranks"
      <4>1. l = 0 /\ g.load_log = l + 1
        BY <1>6, <2>3, <3>2
      <4>2. g.load_log = 1
        BY <4>1
      <4>3. QED
        BY <1>2, <2>3, <3>2, <4>2
    <3>3. CASE m.kind = "logs"
      <4>1. l = 1 /\ g.load_log = l + 1
        BY <1>6, <2>3, <3>3
      <4>2. g.load_log = 2
        BY <4>1
      <4>3. QED
        BY <1>2, <2>3, <3>3, <4>2
    <3>4. QED
      BY <1>2, <3>1, <3>2, <3>3
  <2>5. QED
    BY <1>6, <2>2, <2>4
<1>8. QED
  BY <1>5, <1>7 DEF Loading

LEMMA StepLoading ==
  ASSUME TypeInv, Loading, [Next]_vars
  PROVE  Loading'
<1>1. PICK n : n = Most
  OBVIOUS
<1>2. n \in Nat /\ Room(n) /\ MemOK(game, n) /\ IsMem(game)
  BY <1>1, RoomNow DEF TypeInv, MemOK
<1>3. ASSUME NEW p \in Players
      PROVE  SetInfoBase(game, p).load_log = game.load_log
  <2>1. PICK i : i = [cur |-> get_rank_id(game, p), max |-> game.user[p].best, opps |-> InfoOf(game, p).opps]
    OBVIOUS
  <2>2. PICK v : v = set_info_data(game, p, i)
    OBVIOUS
  <2>3. v.load_log = game.load_log
    BY <1>2, <2>2, InfoIs
  <2>4. QED
    BY <2>1, <2>2, <2>3 DEF SetInfoBase
<1>4. ASSUME NEW p \in Players, PQSingleArenaInfo(p)
      PROVE  Loading'
  <2>1. PICK w : w = IF Baseless(p) THEN SetInfoBase(game, p) ELSE game
    OBVIOUS
  <2>2. Refreshed(w, p, {}) /\ UNCHANGED <<up, answers>>
    BY <1>4, <2>1 DEF PQSingleArenaInfo
  <2>3. MemOK(w, n) /\ p \in DOMAIN w.info /\ w.load_log = game.load_log
    BY <1>2, <1>3, <2>1, BaseKeeps DEF Baseless
  <2>4. QED
    BY <1>2, <2>2, <2>3, RefreshedLoading
<1>5. ASSUME NEW p \in Players, PQSingleArenaRefresh(p)
      PROVE  Loading'
  <2>1. PICK w : w = IF p \in DOMAIN game.info THEN game ELSE SetInfoBase(game, p)
    OBVIOUS
  <2>2. Refreshed(w, p, Skips(p)) /\ UNCHANGED <<up, answers>>
    BY <1>5, <2>1 DEF PQSingleArenaRefresh
  <2>3. MemOK(w, n) /\ p \in DOMAIN w.info /\ w.load_log = game.load_log
    BY <1>2, <1>3, <2>1, BaseKeeps
  <2>4. QED
    BY <1>2, <2>2, <2>3, RefreshedLoading
<1>6. ASSUME NEW p \in Players, UpdateLevel(p)
      PROVE  Loading'
  <2>1. PICK r : r = get_rank_id(game, p)
    OBVIOUS
  <2>2. PICK msgs : msgs = <<RowMsg(game.rank_map[r], r)>>
    OBVIOUS
  <2>3. PICK w : w = Write(game, msgs)
    OBVIOUS
  <2>4. Ranked(game, p) /\ Leaves(w, {}) /\ UNCHANGED <<up, answers>>
    BY <1>6, <2>1, <2>2, <2>3 DEF UpdateLevel
  <2>5. r \in 1..Reach(n) /\ p \in DOMAIN game.id_rank /\ r = game.id_rank[p]
    BY <1>2, <2>1, <2>4, OwnPlace
  <2>6. r \in DOMAIN game.rank_map /\ game.rank_map[r] \in Ids
    BY <1>2, <2>5 DEF MemOK, PlacesOK
  <2>7. RowMsg(game.rank_map[r], r) \in Writes(n)
    BY <1>2, <2>5, <2>6, MessagesAre
  <2>8. msgs \in Seq(Writes(n))
    BY <2>2, <2>7
  <2>9. MemOK(w, n)
    BY <1>2, <2>3, <2>8, WriteKeeps
  <2>10. w.load_log = game.load_log
    BY <1>2, <2>3, WriteIs
  <2>11. QED
    BY <1>2, <2>4, <2>9, <2>10, LeavesLoading
<1>7. CASE PRCommonFightServerEnd
  <2>1. PICK i \in DOMAIN fights, r \in {"won", "lost"} : FightEnds(i, r)
    BY <1>7 DEF PRCommonFightServerEnd
  <2>2. QED
    BY <2>1, EndLoading
<1>8. CASE PQPlayerFightQuit
  <2>1. PICK i \in DOMAIN fights : FightEnds(i, "quit")
    BY <1>8 DEF PQPlayerFightQuit
  <2>2. QED
    BY <2>1, EndLoading
<1>9. ASSUME NEW p \in Players, PQFightSingleArenaApply(p) \/ PQCommonFightAuto(p) \/ SaveUser(p)
      PROVE  Loading'
  BY <1>9 DEF PQFightSingleArenaApply, PQCommonFightAuto, Start, SaveUser, Loading
<1>10. CASE RealdbEnds \/ GameEnds
  BY <1>10 DEF RealdbEnds, GameEnds, Fault, Loading
<1>11. CASE UNCHANGED vars
  BY <1>11 DEF vars, Loading
<1>12. QED
  BY <1>4, <1>5, <1>6, <1>7, <1>8, <1>9, <1>10, <1>11, LinkLoading, RealdbLoading, AnsweredLoading DEF Next

(* Whatever processes end and start again, and whatever players do while   *)
(* the link is built: once the load is answered the arena is open, both    *)
(* the ranks and the logs of this link having come and been counted once,  *)
(* unless answers of the link before were still to come.                   *)
THEOREM LoadOpens == Spec => []Opens
<1>1. Init => Loading
  BY DEF Init, Loading
<1>2. TypeInv /\ Loading /\ [Next]_vars => Loading'
  BY StepLoading
<1>3. Loading => Opens
  <2>1. Sound({"lost", "overwritten", "reused", "rolled", "skipped"}) => "late" \notin spoilt
    BY DEF Sound
  <2>2. sent = << >> => ~OneLoad(sent)
    BY DEF OneLoad
  <2>3. answers = << >> /\ Due(answers, game.load_log) => game.load_log = 2
    BY DEF Due
  <2>4. QED
    BY <2>1, <2>2, <2>3 DEF Loading, Opens
<1>4. QED
  BY <1>1, <1>2, <1>3, Typed, PTL DEF Spec

-----------------------------------------------------------------------------
(* The tables follow the memory.                                           *)

\* Two runs of the same messages end alike.
Runs(f, q, n)  == \A k \in 1..n : f[k] = SaveData(f[k - 1], q[k])
Alike(q, p, n) == \A k \in 1..n : q[k] = p[k]

LEMMA StepsAgree ==
  ASSUME NEW n \in Nat, NEW f, NEW g, NEW q, NEW p, f[0] = g[0], Runs(f, q, n), Runs(g, p, n), Alike(q, p, n)
  PROVE  f[n] = g[n]
<1> DEFINE good == [k \in 0..n |-> IF f[k] = g[k] THEN 1 ELSE 0]
           E == {1}
<1>1. good[0] \in E
  OBVIOUS
<1>2. ASSUME NEW i \in 1..n, good[i - 1] \in E
      PROVE  good[i] \in E
  <2>1. i \in 0..n /\ i - 1 \in 0..n
    OBVIOUS
  <2>2. f[i - 1] = g[i - 1]
    BY <1>2, <2>1
  <2>3. f[i] = SaveData(f[i - 1], q[i]) /\ g[i] = SaveData(g[i - 1], p[i]) /\ q[i] = p[i]
    BY DEF Runs, Alike
  <2>4. f[i] = g[i]
    BY <2>2, <2>3
  <2>5. QED
    BY <2>1, <2>4
<1>3. \A i \in 1..n : good[i - 1] \in E => good[i] \in E
  BY <1>2
<1>4. \A k \in 0..n : good[k] \in E
  <2> HIDE DEF E, good
  <2>1. QED
    BY <1>1, <1>3, RoundsKeep
<1>5. n \in 0..n
  OBVIOUS
<1>6. QED
  BY <1>4, <1>5

\* Messages behind others are saved after them.
LEMMA SavedMore ==
  ASSUME NEW S, NEW q \in Seq(S), NEW p \in Seq(S), NEW t
  PROVE  Saved(t, Behind(q, p)) = Saved(Saved(t, q), p)
<1>1. PICK n \in Nat : n = Len(q)
  OBVIOUS
<1>2. PICK m \in Nat : m = Len(p)
  OBVIOUS
<1>3. PICK z : z = Behind(q, p)
  OBVIOUS
<1>4. PICK l \in Nat : l = n + m
  OBVIOUS
<1>5. /\ Len(z) = l
      /\ \A i \in 1..n : z[i] = q[i]
      /\ \A i \in 1..m : z[n + i] = p[i]
  BY <1>1, <1>2, <1>3, <1>4 DEF Behind
<1>6. PICK r : Steps(r, t, z, l)
  BY <1>5, SavedIs
<1>7. PICK a : Steps(a, t, q, n)
  BY <1>1, SavedIs
<1>8. PICK u : u = Saved(t, q)
  OBVIOUS
<1>9. PICK b : Steps(b, u, p, m)
  BY <1>2, SavedIs
<1>10. r[n] = u
  <2>1. /\ r[0] = a[0]
        /\ \A k \in 1..n : r[k] = SaveData(r[k - 1], z[k])
        /\ \A k \in 1..n : a[k] = SaveData(a[k - 1], q[k])
    BY <1>4, <1>6, <1>7 DEF Steps
  <2>a. Runs(r, z, n) /\ Runs(a, q, n) /\ Alike(z, q, n)
    BY <1>5, <2>1 DEF Runs, Alike
  <2>2. r[n] = a[n]
    BY <2>1, <2>a, StepsAgree
  <2>3. QED
    BY <1>7, <1>8, <2>2 DEF Steps
<1>11. r[l] = b[m]
  <2>1. PICK c : c = [k \in 0..m |-> r[n + k]]
    OBVIOUS
  <2>2. c[0] = b[0]
    BY <1>9, <1>10, <2>1 DEF Steps
  <2>3. ASSUME NEW k \in 1..m
        PROVE  c[k] = SaveData(c[k - 1], p[k])
    <3>1. PICK j \in 1..l : j = n + k
      BY <1>4
    <3>2. r[j] = SaveData(r[j - 1], z[j])
      BY <1>6 DEF Steps
    <3>3. j - 1 = n + (k - 1) /\ k \in 0..m /\ k - 1 \in 0..m
      BY <3>1
    <3>4. c[k] = r[j] /\ c[k - 1] = r[j - 1] /\ z[j] = p[k]
      BY <1>5, <2>1, <3>1, <3>3
    <3>5. QED
      BY <3>2, <3>4
  <2>4. \A k \in 1..m : b[k] = SaveData(b[k - 1], p[k])
    BY <1>9 DEF Steps
  <2>a. Runs(c, p, m) /\ Runs(b, p, m) /\ Alike(p, p, m)
    BY <2>3, <2>4 DEF Runs, Alike
  <2>5. c[m] = b[m]
    BY <2>2, <2>a, StepsAgree
  <2>6. c[m] = r[l]
    BY <1>4, <2>1
  <2>7. QED
    BY <2>5, <2>6
<1>12. Saved(t, z) = r[l] /\ Saved(u, p) = b[m]
  BY <1>6, <1>9 DEF Steps
<1>13. QED
  BY <1>3, <1>8, <1>11, <1>12

LEMMA SavedNone ==
  ASSUME NEW t
  PROVE  Saved(t, << >>) = t
<1>1. PICK f : Steps(f, t, << >>, 0)
  BY SavedIs
<1>2. QED
  BY <1>1 DEF Steps

One(m)    == <<m>>
Two(m, k) == <<m, k>>

LEMMA SavedOne ==
  ASSUME NEW t, NEW m
  PROVE  Saved(t, One(m)) = SaveData(t, m)
<1>1. PICK q : q = One(m)
  OBVIOUS
<1>2. Len(q) = 1 /\ q[1] = m
  BY <1>1 DEF One
<1>3. PICK f : Steps(f, t, q, 1)
  BY <1>2, SavedIs
<1>4. f[0] = t /\ Saved(t, q) = f[1] /\ f[1] = SaveData(f[0], q[1])
  <2>1. 1 \in 1..1 /\ 1 - 1 = 0
    OBVIOUS
  <2>2. QED
    BY <1>3, <2>1 DEF Steps
<1>5. QED
  BY <1>1, <1>2, <1>4

LEMMA SavedTwo ==
  ASSUME NEW t, NEW m, NEW k
  PROVE  Saved(t, Two(m, k)) = SaveData(SaveData(t, m), k)
<1>1. PICK q : q = Two(m, k)
  OBVIOUS
<1>2. Len(q) = 2 /\ q[1] = m /\ q[2] = k
  BY <1>1 DEF Two
<1>3. PICK f : Steps(f, t, q, 2)
  BY <1>2, SavedIs
<1>4. f[0] = t /\ Saved(t, q) = f[2] /\ f[1] = SaveData(f[0], q[1]) /\ f[2] = SaveData(f[1], q[2])
  <2>1. 1 \in 1..2 /\ 1 - 1 = 0 /\ 2 \in 1..2 /\ 2 - 1 = 1
    OBVIOUS
  <2>2. QED
    BY <1>3, <2>1 DEF Steps
<1>5. QED
  BY <1>1, <1>2, <1>4

\* Without a del no row goes; loads change nothing.
NoDel(q) == \A i \in DOMAIN q : q[i].kind # "del"

LEMMA SavedGrows ==
  ASSUME NEW n \in Nat, NEW t, TablesOK(t, n), NEW q \in Seq(Messages(n)), NoDel(q)
  PROVE  DOMAIN t.rows \subseteq DOMAIN Saved(t, q).rows
<1>1. PICK len \in Nat : len = Len(q) /\ \A k \in 1..len : q[k] \in Messages(n) /\ q[k].kind # "del"
  BY DEF NoDel
<1>s. PICK f : Steps(f, t, q, len)
  BY <1>1, SavedIs
<1>2. /\ f[0] = t /\ Saved(t, q) = f[len]
      /\ \A k \in 1..len : f[k] = SaveData(f[k - 1], q[k])
  BY <1>s DEF Steps
<1> DEFINE P(k) == TablesOK(f[k], n) /\ DOMAIN t.rows \subseteq DOMAIN f[k].rows
           good == [k \in 0..len |-> IF P(k) THEN 1 ELSE 0]
           E == {1}
<1>3. good[0] \in E
  BY <1>2
<1>4. ASSUME NEW i \in 1..len, good[i - 1] \in E
      PROVE  good[i] \in E
  <2>1. i \in 0..len /\ i - 1 \in 0..len
    OBVIOUS
  <2>2. P(i - 1)
    BY <1>4, <2>1
  <2>3. TablesOK(f[i], n)
    BY <1>1, <1>2, <2>2, SaveKeeps
  <2>4. PICK u : u = f[i - 1]
    OBVIOUS
  <2>5. PICK v : v = f[i]
    OBVIOUS
  <2>6. PICK m \in Messages(n) : m = q[i] /\ m.kind # "del"
    BY <1>1
  <2>7. v = SaveData(u, m) /\ u = [rows |-> u.rows, logs |-> u.logs, count |-> u.count]
    BY <1>2, <2>2, <2>4, <2>5, <2>6 DEF TablesOK
  <2>8. v.rows = IF m.kind = "row" THEN Put(u.rows, m.id, m.rank)
                 ELSE IF m.kind = "del" THEN [p \in DOMAIN u.rows \ {m.id} |-> u.rows[p]] ELSE u.rows
    BY <2>7, SaveIs
  <2>9. DOMAIN u.rows \subseteq DOMAIN v.rows
    BY <2>6, <2>8 DEF Put
  <2>10. P(i)
    BY <2>2, <2>3, <2>4, <2>5, <2>9
  <2> HIDE DEF P
  <2>11. QED
    BY <2>1, <2>10
<1>5. \A k \in 0..len : good[k] \in E
  <2>1. \A i \in 1..len : good[i - 1] \in E => good[i] \in E
    BY <1>4
  <2> HIDE DEF E, good
  <2>2. QED
    BY <1>3, <2>1, RoundsKeep
<1>6. P(len)
  <2>1. len \in 0..len
    OBVIOUS
  <2> HIDE DEF P
  <2>2. QED
    BY <1>5, <2>1
<1>7. QED
  BY <1>2, <1>6

LEMMA SavedLoads ==
  ASSUME NEW t, NEW S, NEW q \in Seq(S), \A i \in DOMAIN q : q[i] = Load
  PROVE  Saved(t, q) = t
<1>1. PICK len \in Nat : len = Len(q) /\ \A k \in 1..len : q[k] = Load
  OBVIOUS
<1>s. PICK f : Steps(f, t, q, len)
  BY <1>1, SavedIs
<1>2. /\ f[0] = t /\ Saved(t, q) = f[len]
      /\ \A k \in 1..len : f[k] = SaveData(f[k - 1], q[k])
  BY <1>s DEF Steps
<1>3. \A k \in 1..len : f[k] = f[k - 1]
  <2>1. \A u : SaveData(u, Load) = u
    BY DEF SaveData, Load
  <2>2. QED
    BY <1>1, <1>2, <2>1
<1> DEFINE g == [k \in 0..len |-> f[k]]
           E == {t}
<1>4. g[0] \in E
  BY <1>2
<1>5. \A i \in 1..len : g[i - 1] \in E => g[i] \in E
  BY <1>3
<1>6. \A k \in 0..len : g[k] \in E
  <2> HIDE DEF g, E
  <2>1. QED
    BY <1>4, <1>5, RoundsKeep
<1>7. QED
  BY <1>2, <1>6

\* The memory and the tables that its messages will make.
Top  == Cardinality(Players) + MaxFights
Kept == Sound({"late", "reused", "rolled", "skipped"})

Placed(w) == \A id \in DOMAIN w.id_rank : w.id_rank[id] \in DOMAIN w.rank_map /\ w.rank_map[w.id_rank[id]] = id
Bears(w)  == \A p \in DOMAIN w.info : w.info[p].cur \in {0, get_rank_id(w, p)}
Spaced(w) == \A r \in DOMAIN w.rank_map : r <= Reach(w.count) \/ (r > Reach(Top) /\ w.rank_map[r] \notin Players)
Follows(w, t) ==
  t.count = w.count /\ DOMAIN t.rows \subseteq Players /\ \A p \in Players : RankIn(t.rows, p) = get_rank_id(w, p)

Stored(w) == Saved(Written, w.out)
Sane(w)   == DOMAIN w.id_rank # {} /\ Placed(w) /\ Bears(w) /\ Spaced(w) /\ Follows(w, Stored(w))

LEMMA WritesAre ==
  ASSUME NEW n \in Nat, NEW q \in Seq(Writes(n))
  PROVE  q \in Seq(Messages(n)) /\ NoDel(q)
<1>1. Writes(n) \subseteq Messages(n)
  BY MessagesAre
<1>2. ASSUME NEW m \in Writes(n)
      PROVE  m.kind # "del"
  BY DEF Writes, RowMsg, LogMsg, CountMsg
<1>3. QED
  BY <1>1, <1>2 DEF NoDel

LEMMA StoredMore ==
  ASSUME NEW n \in Nat, NEW w, MemOK(w, n), NEW msgs \in Seq(Writes(n)), NEW v, v.out = Behind(w.out, msgs)
  PROVE  Stored(v) = Saved(Stored(w), msgs)
<1>1. w.out \in Seq(Writes(n))
  BY DEF MemOK
<1>2. PICK q \in Seq(Writes(n)) : q = w.out
  BY <1>1
<1>3. Saved(Written, Behind(q, msgs)) = Saved(Saved(Written, q), msgs)
  BY SavedMore
<1>4. QED
  BY <1>2, <1>3 DEF Stored

LEMMA StoredOK ==
  ASSUME NEW n \in Nat, TablesOK(Written, n), NEW w, MemOK(w, n)
  PROVE  TablesOK(Stored(w), n)
<1>1. w.out \in Seq(Messages(n))
  <2>1. w.out \in Seq(Writes(n))
    BY DEF MemOK
  <2>2. QED
    BY <2>1, WritesAre
<1>2. QED
  BY <1>1, SavedKeeps DEF Stored

\* What the messages of the arena do to the tables.
LEMMA SaveDoes ==
  ASSUME NEW n \in Nat, NEW t, TablesOK(t, n), NEW m \in Messages(n), NEW v, v = SaveData(t, m)
  PROVE  /\ TablesOK(v, n)
         /\ m.kind = "row" => v.rows = Put(t.rows, m.id, m.rank)
         /\ m.kind # "row" /\ m.kind # "del" => v.rows = t.rows
         /\ v.count = IF m.kind = "count" THEN m.n ELSE t.count
<1>1. /\ v = [rows |-> v.rows, logs |-> v.logs, count |-> v.count]
      /\ v.rows = IF m.kind = "row" THEN Put(t.rows, m.id, m.rank)
                  ELSE IF m.kind = "del" THEN [p \in DOMAIN t.rows \ {m.id} |-> t.rows[p]] ELSE t.rows
      /\ v.logs = IF m.kind = "log" THEN t.logs \cup {m.id} ELSE t.logs
      /\ v.count = IF m.kind = "count" THEN m.n ELSE t.count
  BY SaveIs DEF TablesOK
<1>2. TablesOK(v, n)
  BY SaveKeeps
<1>3. QED
  BY <1>1, <1>2

LEMMA LogStored ==
  ASSUME NEW n \in Nat, NEW t, TablesOK(t, n), NEW p \in Players, NEW v, v = SaveData(t, LogMsg(p))
  PROVE  v.rows = t.rows /\ v.count = t.count /\ TablesOK(v, n)
<1>1. PICK m \in Messages(n) : m = LogMsg(p)
  BY MessagesAre
<1>2. m.kind = "log" /\ v = SaveData(t, m)
  BY <1>1 DEF LogMsg
<1>3. QED
  BY <1>2, SaveDoes

LEMMA RowStored ==
  ASSUME NEW n \in Nat, NEW t, TablesOK(t, n), NEW id \in Ids, NEW r \in 1..Reach(n),
         NEW v, v = SaveData(t, RowMsg(id, r))
  PROVE  v.rows = Put(t.rows, id, r) /\ v.count = t.count /\ TablesOK(v, n)
<1>1. PICK m \in Messages(n) : m = RowMsg(id, r)
  BY MessagesAre
<1>2. m.kind = "row" /\ m.id = id /\ m.rank = r /\ v = SaveData(t, m)
  BY <1>1 DEF RowMsg
<1>3. QED
  BY <1>2, SaveDoes

LEMMA CountStored ==
  ASSUME NEW n \in Nat, NEW t, TablesOK(t, n), NEW c \in 0..n, NEW v, v = SaveData(t, CountMsg(c))
  PROVE  v.rows = t.rows /\ v.count = c /\ TablesOK(v, n)
<1>1. PICK m \in Messages(n) : m = CountMsg(c)
  BY MessagesAre
<1>2. m.kind = "count" /\ m.n = c /\ v = SaveData(t, m)
  BY <1>1 DEF CountMsg
<1>3. QED
  BY <1>2, SaveDoes

\* What leaves the ranks, the number of players and the rows alone.
LEMMA SaneSame ==
  ASSUME NEW w, Sane(w), NEW v, v.rank_map = w.rank_map, v.id_rank = w.id_rank, v.count = w.count,
         Stored(v).rows = Stored(w).rows, Stored(v).count = Stored(w).count, Bears(v)
  PROVE  Sane(v)
<1>1. \A id : get_rank_id(v, id) = get_rank_id(w, id)
  BY DEF get_rank_id
<1>2. Placed(v) /\ Spaced(v) /\ DOMAIN v.id_rank # {}
  BY DEF Sane, Placed, Spaced
<1>3. Follows(v, Stored(v))
  BY <1>1 DEF Sane, Follows
<1>4. QED
  BY <1>2, <1>3 DEF Sane

\* An info that is new has no rank, and one that is changed has its own.
LEMMA BearsPut ==
  ASSUME NEW w, Bears(w), NEW v, v.id_rank = w.id_rank, NEW p, NEW i, i.cur \in {0, get_rank_id(w, p)},
         v.info = Put(w.info, p, i)
  PROVE  Bears(v)
<1>1. \A id : get_rank_id(v, id) = get_rank_id(w, id)
  BY DEF get_rank_id
<1>2. QED
  BY <1>1 DEF Bears, Put

LEMMA InfoBears ==
  ASSUME NEW w, Bears(w), NEW p
  PROVE  InfoOf(w, p).cur \in {0, get_rank_id(w, p)}
BY DEF InfoOf, Bears, EmptyInfo

LEMMA LogSane ==
  ASSUME NEW n \in Nat, TablesOK(Written, n), NEW w, MemOK(w, n), Sane(w), NEW p \in Players, NEW t,
         NEW v, v = AddLog(w, p, t)
  PROVE  Sane(v)
<1>1. IsMem(w)
  BY DEF MemOK
<1>2. /\ v.rank_map = w.rank_map /\ v.id_rank = w.id_rank /\ v.count = w.count
      /\ v.out = Behind(w.out, LogMsgs(p, t))
      /\ v.info = IF t \in Players THEN Put(w.info, t, InfoOf(w, t)) ELSE w.info
  BY <1>1, LogAside
<1>3. PICK msgs : msgs = LogMsgs(p, t)
  OBVIOUS
<1>4. msgs \in Seq(Writes(n))
  <2>1. LogMsg(p) \in Writes(n) /\ (t \in Players => LogMsg(t) \in Writes(n))
    BY MessagesAre
  <2>2. QED
    BY <1>3, <2>1 DEF LogMsgs
<1>5. PICK s : s = Stored(w)
  OBVIOUS
<1>6. TablesOK(s, n)
  BY <1>5, StoredOK
<1>7. Stored(v) = Saved(s, msgs)
  BY <1>2, <1>3, <1>4, <1>5, StoredMore
<1>8. Stored(v).rows = s.rows /\ Stored(v).count = s.count
  <2>1. PICK a : a = SaveData(s, LogMsg(p))
    OBVIOUS
  <2>2. a.rows = s.rows /\ a.count = s.count /\ TablesOK(a, n)
    BY <1>6, <2>1, LogStored
  <2>3. CASE t \in Players
    <3>1. PICK b : b = SaveData(a, LogMsg(t))
      OBVIOUS
    <3>2. b.rows = a.rows /\ b.count = a.count
      BY <2>2, <2>3, <3>1, LogStored
    <3>3. msgs = Two(LogMsg(p), LogMsg(t))
      BY <1>3, <2>3 DEF LogMsgs, Two
    <3>4. Stored(v) = b
      BY <1>7, <2>1, <3>1, <3>3, SavedTwo
    <3>5. QED
      BY <2>2, <3>2, <3>4
  <2>4. CASE t \notin Players
    <3>1. msgs = One(LogMsg(p))
      BY <1>3, <2>4 DEF LogMsgs, One
    <3>2. Stored(v) = a
      BY <1>7, <2>1, <3>1, SavedOne
    <3>3. QED
      BY <2>2, <3>2
  <2>5. QED
    BY <2>3, <2>4
<1>9. Bears(v)
  <2>1. Bears(w)
    BY DEF Sane
  <2>2. CASE t \in Players
    <3>1. PICK i : i = InfoOf(w, t)
      OBVIOUS
    <3>2. i.cur \in {0, get_rank_id(w, t)} /\ v.info = Put(w.info, t, i)
      BY <1>2, <2>1, <2>2, <3>1, InfoBears
    <3>3. QED
      BY <1>2, <2>1, <3>2, BearsPut
  <2>3. CASE t \notin Players
    BY <1>2, <2>1, <2>3 DEF Bears, get_rank_id
  <2>4. QED
    BY <2>2, <2>3
<1>10. QED
  BY <1>2, <1>5, <1>8, <1>9, SaneSame

LEMMA BaseSane ==
  ASSUME NEW n \in Nat, NEW w, MemOK(w, n), Sane(w), NEW p \in Players, NEW v, v = SetInfoBase(w, p)
  PROVE  Sane(v) /\ v.out = w.out
<1>1. IsMem(w)
  BY DEF MemOK
<1>2. PICK i : i = InfoRec(get_rank_id(w, p), w.user[p].best, InfoOf(w, p).opps)
  OBVIOUS
<1>3. v = set_info_data(w, p, i)
  BY <1>2 DEF SetInfoBase, InfoRec
<1>4. /\ v.info = Put(w.info, p, i) /\ v.rank_map = w.rank_map /\ v.id_rank = w.id_rank
      /\ v.count = w.count /\ v.out = w.out
  BY <1>1, <1>3, InfoIs
<1>5. i.cur \in {0, get_rank_id(w, p)}
  BY <1>2 DEF InfoRec
<1>6. Bears(v)
  BY <1>4, <1>5, BearsPut DEF Sane
<1>7. Stored(v) = Stored(w)
  BY <1>4 DEF Stored
<1>8. QED
  BY <1>4, <1>6, <1>7, SaneSame

LEMMA PaidSane ==
  ASSUME NEW n \in Nat, NEW w, MemOK(w, n), Sane(w), NEW p, NEW r, NEW v, v = PaidFor(w, p, r)
  PROVE  Sane(v)
<1>1. IsMem(w)
  BY DEF MemOK
<1>2. v.info = w.info /\ v.rank_map = w.rank_map /\ v.id_rank = w.id_rank /\ v.count = w.count /\ v.out = w.out
  BY <1>1, PaidIs
<1>3. Bears(v)
  BY <1>2 DEF Sane, Bears, get_rank_id
<1>4. Stored(v) = Stored(w)
  BY <1>2 DEF Stored
<1>5. QED
  BY <1>2, <1>3, <1>4, SaneSame

LEMMA FirstSane ==
  ASSUME NEW n \in Nat, NEW m \in Nat, m = n + 1, m <= Top, Top \in Nat, TablesOK(Written, m),
         NEW w, MemOK(w, n), Sane(w), NEW p \in Players, NEW v, v = GetFirstReward(w, p)
  PROVE  Sane(v)
<1>1. CASE p \notin DOMAIN w.info \/ w.info[p].max # 0
  <2>1. v = w
    BY <1>1 DEF GetFirstReward
  <2>2. QED
    BY <2>1
<1>2. CASE p \in DOMAIN w.info /\ w.info[p].max = 0
  <2>1. PICK last : last = FirstPlace(w)
    OBVIOUS
  <2>2. IsMem(w) /\ w.count \in 0..n /\ MAX_CREATE_OPPONENT \in Nat
    BY ArenaAssumption DEF MemOK
  <2>3. last \in 1..Reach(m) /\ last = Reach(w.count) + 1 /\ last <= Reach(Top) /\ w.count + 1 \in 0..m
        /\ last = Reach(w.count + 1) /\ Reach(w.count) \in Nat /\ Reach(Top) \in Nat
    BY <2>1, <2>2 DEF FirstPlace, Reach
  <2>4. /\ v.info = Put(w.info, p, InfoRec(last, last, w.info[p].opps))
        /\ v.count = w.count + 1 /\ v.rank_map = Put(w.rank_map, last, p) /\ v.id_rank = Put(w.id_rank, p, last)
        /\ v.out = Behind(w.out, FirstMsgs(w, p))
    BY <1>2, <2>1, <2>2, FirstIs
  <2>5. /\ DOMAIN w.rank_map \subseteq Nat
        /\ \A r \in DOMAIN w.rank_map : r <= Reach(w.count) \/ (r > Reach(Top) /\ w.rank_map[r] \notin Players)
    BY DEF Sane, Spaced, MemOK, PlacesOK
  <2>6. last \notin DOMAIN w.rank_map
    <3>1. ASSUME last \in DOMAIN w.rank_map PROVE FALSE
      <4>1. last <= Reach(w.count) \/ last > Reach(Top)
        BY <2>5, <3>1
      <4>2. QED
        BY <2>3, <4>1
    <3>2. QED
      BY <3>1
  <2>7. Placed(v) /\ DOMAIN v.id_rank # {}
    BY <2>4, <2>6 DEF Sane, Placed, Put
  <2>8. \A q : get_rank_id(v, q) = IF q = p THEN last ELSE get_rank_id(w, q)
    BY <2>4 DEF get_rank_id, RankIn, Put
  <2>9. Bears(v)
    <3>1. InfoRec(last, last, w.info[p].opps).cur = last
      BY DEF InfoRec
    <3>2. QED
      BY <2>4, <2>8, <3>1 DEF Sane, Bears, Put
  <2>10. Spaced(v)
    <3>1. ASSUME NEW r \in DOMAIN v.rank_map
          PROVE  r <= Reach(v.count) \/ (r > Reach(Top) /\ v.rank_map[r] \notin Players)
      <4>1. CASE r = last
        BY <2>3, <2>4, <4>1
      <4>2. CASE r # last
        <5>1. r \in DOMAIN w.rank_map /\ v.rank_map[r] = w.rank_map[r] /\ r \in Nat
          BY <2>4, <2>5, <4>2 DEF Put
        <5>2. r <= Reach(w.count) => r <= Reach(v.count)
          BY <2>3, <2>4, <5>1
        <5>3. QED
          BY <2>5, <5>1, <5>2
      <4>3. QED
        BY <4>1, <4>2
    <3>2. QED
      BY <3>1 DEF Spaced
  <2>11. Follows(v, Stored(v))
    <3>1. PICK msgs : msgs = FirstMsgs(w, p)
      OBVIOUS
    <3>2. PICK c : c = w.count + 1
      OBVIOUS
    <3>3. p \in Ids /\ c \in 0..m
      BY <2>3, <3>2 DEF Ids
    <3>4. RowMsg(p, last) \in Writes(m) /\ CountMsg(c) \in Writes(m)
      BY <2>3, <3>3, MessagesAre
    <3>5. msgs = Two(CountMsg(c), RowMsg(p, last))
      BY <2>1, <3>1, <3>2 DEF FirstMsgs, Two
    <3>6. msgs \in Seq(Writes(m))
      BY <3>4, <3>5 DEF Two
    <3>7. MemOK(w, m)
      BY MemLarger
    <3>8. PICK s : s = Stored(w)
      OBVIOUS
    <3>9. TablesOK(s, m)
      BY <3>7, <3>8, StoredOK
    <3>10. Stored(v) = Saved(s, msgs)
      BY <2>4, <3>1, <3>6, <3>7, <3>8, StoredMore
    <3>11. PICK a : a = SaveData(s, CountMsg(c))
      OBVIOUS
    <3>12. a.rows = s.rows /\ a.count = c /\ TablesOK(a, m)
      BY <3>3, <3>9, <3>11, CountStored
    <3>13. PICK b : b = SaveData(a, RowMsg(p, last))
      OBVIOUS
    <3>14. b.rows = Put(a.rows, p, last) /\ b.count = a.count
      BY <2>3, <3>3, <3>12, <3>13, RowStored
    <3>15. Stored(v) = b
      BY <3>5, <3>10, <3>11, <3>13, SavedTwo
    <3>16. Follows(w, s)
      BY <3>8 DEF Sane
    <3>17. \A q \in Players : RankIn(b.rows, q) = get_rank_id(v, q)
      BY <2>8, <3>12, <3>14, <3>16 DEF Follows, RankIn, Put
    <3>18. DOMAIN b.rows \subseteq Players
      BY <3>12, <3>14, <3>16 DEF Follows, Put
    <3>19. b.count = v.count
      BY <2>4, <3>2, <3>12, <3>14
    <3>20. QED
      BY <3>15, <3>17, <3>18, <3>19 DEF Follows
  <2>12. QED
    BY <2>7, <2>9, <2>10, <2>11 DEF Sane
<1>3. QED
  BY <1>1, <1>2

LEMMA RewardSane ==
  ASSUME NEW n \in Nat, NEW m \in Nat, m = n + 1, m <= Top, Top \in Nat, TablesOK(Written, m),
         NEW w, MemOK(w, n), Sane(w), NEW p \in Players, NEW t, NEW win, NEW v, v = SendBattleReward(w, p, t, win)
  PROVE  Sane(v)
<1>1. PICK end : end = Min({w.info[p].cur, get_rank_id(w, t)})
  OBVIOUS
<1>2. v = GetFirstReward(w, p) \/ v = PaidFor(w, p, end) \/ v = w
  BY <1>1 DEF SendBattleReward
<1>3. QED
  BY <1>2, FirstSane, PaidSane

\* Who has a rank has the place, and those with a place stand above the last.
LEMMA PlaceOf ==
  ASSUME NEW n \in Nat, NEW w, MemOK(w, n), Sane(w), NEW id, get_rank_id(w, id) # 0
  PROVE  /\ id \in DOMAIN w.id_rank /\ get_rank_id(w, id) = w.id_rank[id]
         /\ get_rank_id(w, id) \in DOMAIN w.rank_map /\ w.rank_map[get_rank_id(w, id)] = id
         /\ get_rank_id(w, id) \in Nat
         /\ id \in Players => get_rank_id(w, id) <= Reach(w.count)
<1>1. id \in DOMAIN w.id_rank /\ get_rank_id(w, id) = w.id_rank[id]
  BY DEF get_rank_id, RankIn
<1>2. w.id_rank[id] \in DOMAIN w.rank_map /\ w.rank_map[w.id_rank[id]] = id
  BY <1>1 DEF Sane, Placed
<1>3. DOMAIN w.rank_map \subseteq Nat
  BY ArenaAssumption DEF MemOK, PlacesOK
<1>4. id \in Players => w.id_rank[id] <= Reach(w.count)
  BY <1>2 DEF Sane, Spaced
<1>5. QED
  BY <1>1, <1>2, <1>3, <1>4

LEMMA UpdateSane ==
  ASSUME NEW n \in Nat, TablesOK(Written, n), NEW w, MemOK(w, n), Sane(w), NEW p \in DOMAIN w.info,
         NEW t, get_rank_id(w, t) # 0, NEW win, NEW v, v = UpdateRank(w, p, t, win)
  PROVE  Sane(v)
<1>1. CASE ~MovesUp(w, p, t, win)
  <2>1. v = w
    BY <1>1 DEF UpdateRank
  <2>2. QED
    BY <2>1
<1>2. CASE MovesUp(w, p, t, win)
  <2>1. PICK m : m = w.info[p].cur
    OBVIOUS
  <2>2. PICK h : h = get_rank_id(w, t)
    OBVIOUS
  <2>3. PICK best : best = Min({w.info[p].max, h})
    OBVIOUS
  <2>4. IsMem(w) /\ p \in Players /\ m \in 0..Reach(n) /\ w.count \in 0..n /\ MAX_CREATE_OPPONENT \in Nat
    BY <2>1, ArenaAssumption DEF MemOK, InfoOK
  <2>5. /\ v.info = ShownTo(Put(w.info, p, InfoRec(h, best, w.info[p].opps)), t, m)
        /\ v.rank_map = Put(Put(w.rank_map, h, p), m, w.rank_map[h])
        /\ v.id_rank = Put(Put(w.id_rank, p, h), t, m)
        /\ v.count = w.count /\ v.out = Behind(w.out, Rows(w, p, t))
    BY <1>2, <2>1, <2>2, <2>3, <2>4, UpdateIs
  <2>6. h \in DOMAIN w.rank_map /\ w.rank_map[h] = t /\ h \in Nat /\ h # 0 /\ t \in DOMAIN w.id_rank
    BY <2>2, PlaceOf
  <2>7. m > h
    BY <1>2, <2>1, <2>2 DEF MovesUp
  <2>8. m = get_rank_id(w, p) /\ m # 0
    <3>1. m # 0
      BY <2>4, <2>6, <2>7
    <3>2. m \in {0, get_rank_id(w, p)}
      BY <2>1 DEF Sane, Bears
    <3>3. QED
      BY <3>1, <3>2
  <2>9. m \in DOMAIN w.rank_map /\ w.rank_map[m] = p /\ p \in DOMAIN w.id_rank /\ m \in Nat /\ m <= Reach(w.count)
    BY <2>4, <2>8, PlaceOf
  <2>10. p # t /\ m # h
    BY <2>2, <2>6, <2>7, <2>8, <2>9
  <2>11. /\ h \in 1..Reach(n) /\ m \in 1..Reach(n) /\ h <= Reach(w.count)
    BY <2>4, <2>6, <2>7, <2>8, <2>9 DEF Reach
  <2>12. \A q : get_rank_id(v, q) = IF q = t THEN m ELSE IF q = p THEN h ELSE get_rank_id(w, q)
    BY <2>5 DEF get_rank_id, RankIn, Put
  <2>13. Placed(v) /\ DOMAIN v.id_rank # {}
    <3>1. \A id \in DOMAIN w.id_rank : w.id_rank[id] \in DOMAIN w.rank_map /\ w.rank_map[w.id_rank[id]] = id
      BY DEF Sane, Placed
    <3>2. ASSUME NEW id \in DOMAIN v.id_rank
          PROVE  v.id_rank[id] \in DOMAIN v.rank_map /\ v.rank_map[v.id_rank[id]] = id
      <4>1. CASE id = t
        BY <2>5, <2>6, <2>10, <4>1 DEF Put
      <4>2. CASE id = p
        BY <2>5, <2>10, <4>2 DEF Put
      <4>3. CASE id # t /\ id # p
        <5>1. id \in DOMAIN w.id_rank /\ v.id_rank[id] = w.id_rank[id]
          BY <2>5, <4>3 DEF Put
        <5>2. w.id_rank[id] # h /\ w.id_rank[id] # m
          BY <2>6, <2>9, <3>1, <4>3, <5>1
        <5>3. QED
          BY <2>5, <3>1, <5>1, <5>2 DEF Put
      <4>4. QED
        BY <4>1, <4>2, <4>3
    <3>3. t \in DOMAIN v.id_rank
      BY <2>5 DEF Put
    <3>4. QED
      BY <3>2, <3>3 DEF Placed
  <2>14. Bears(v)
    <3>1. PICK i : i = InfoRec(h, best, w.info[p].opps)
      OBVIOUS
    <3>2. i.cur = h
      BY <3>1 DEF InfoRec
    <3>3. PICK x : x = Put(w.info, p, i)
      OBVIOUS
    <3>4. \A q \in DOMAIN x : q # t => x[q].cur \in {0, get_rank_id(v, q)}
      BY <2>12, <3>2, <3>3 DEF Sane, Bears, Put
    <3>5. CASE t \in DOMAIN x
      <4>1. PICK j : j = InfoRec(m, x[t].max, x[t].opps)
        OBVIOUS
      <4>2. j.cur = m
        BY <4>1 DEF InfoRec
      <4>3. v.info = Put(x, t, j)
        BY <2>5, <3>1, <3>3, <3>5, <4>1 DEF ShownTo
      <4>4. QED
        BY <2>12, <3>4, <4>2, <4>3 DEF Bears, Put
    <3>6. CASE t \notin DOMAIN x
      <4>1. v.info = x
        BY <2>5, <3>1, <3>3, <3>6 DEF ShownTo
      <4>2. QED
        BY <3>4, <3>6, <4>1 DEF Bears
    <3>7. QED
      BY <3>5, <3>6
  <2>15. Spaced(v)
    <3>1. \A r \in DOMAIN v.rank_map : r = h \/ r = m \/ (r \in DOMAIN w.rank_map /\ v.rank_map[r] = w.rank_map[r])
      BY <2>5 DEF Put
    <3>2. QED
      BY <2>5, <2>9, <2>11, <3>1 DEF Sane, Spaced
  <2>16. Follows(v, Stored(v))
    <3>1. PICK msgs : msgs = Rows(w, p, t)
      OBVIOUS
    <3>2. RowMsg(p, h) \in Writes(n) /\ (t \in Players => RowMsg(t, m) \in Writes(n)) /\ p \in Ids
          /\ (t \in Players => t \in Ids)
      <4>1. p \in Ids /\ (t \in Players => t \in Ids)
        BY <2>4 DEF Ids
      <4>2. QED
        BY <2>11, <4>1, MessagesAre
    <3>3. msgs = IF t \in Players THEN Two(RowMsg(p, h), RowMsg(t, m)) ELSE One(RowMsg(p, h))
      BY <2>1, <2>2, <2>6, <3>1 DEF Rows, One, Two
    <3>4. msgs \in Seq(Writes(n))
      <4>1. CASE t \in Players
        BY <3>2, <3>3, <4>1 DEF Two
      <4>2. CASE t \notin Players
        BY <3>2, <3>3, <4>2 DEF One
      <4>3. QED
        BY <4>1, <4>2
    <3>5. PICK s : s = Stored(w)
      OBVIOUS
    <3>6. TablesOK(s, n) /\ Follows(w, s)
      BY <3>5, StoredOK DEF Sane
    <3>7. Stored(v) = Saved(s, msgs)
      BY <2>5, <3>1, <3>4, <3>5, StoredMore
    <3>8. PICK a : a = SaveData(s, RowMsg(p, h))
      OBVIOUS
    <3>9. a.rows = Put(s.rows, p, h) /\ a.count = s.count /\ TablesOK(a, n)
      BY <2>11, <3>2, <3>6, <3>8, RowStored
    <3>10. CASE t \in Players
      <4>1. PICK b : b = SaveData(a, RowMsg(t, m))
        OBVIOUS
      <4>2. b.rows = Put(a.rows, t, m) /\ b.count = a.count
        BY <2>11, <3>2, <3>9, <3>10, <4>1, RowStored
      <4>3. Stored(v) = b
        BY <3>3, <3>7, <3>8, <3>10, <4>1, SavedTwo
      <4>4. \A q \in Players : RankIn(b.rows, q) = get_rank_id(v, q)
        BY <2>12, <3>6, <3>9, <4>2 DEF Follows, RankIn, Put
      <4>5. DOMAIN b.rows \subseteq Players
        BY <2>4, <3>6, <3>9, <3>10, <4>2 DEF Follows, Put
      <4>6. QED
        BY <2>5, <3>6, <3>9, <4>2, <4>3, <4>4, <4>5 DEF Follows
    <3>11. CASE t \notin Players
      <4>1. Stored(v) = a
        BY <3>3, <3>7, <3>8, <3>11, SavedOne
      <4>2. \A q \in Players : RankIn(a.rows, q) = get_rank_id(v, q)
        BY <2>12, <3>6, <3>9, <3>11 DEF Follows, RankIn, Put
      <4>3. DOMAIN a.rows \subseteq Players
        BY <2>4, <3>6, <3>9 DEF Follows, Put
      <4>4. QED
        BY <2>5, <3>6, <3>9, <4>1, <4>2, <4>3 DEF Follows
    <3>12. QED
      BY <3>10, <3>11
  <2>17. QED
    BY <2>13, <2>14, <2>15, <2>16 DEF Sane
<1>3. QED
  BY <1>1, <1>2

\* More fakes at places below the last player or behind all that can come.
Whole(w) == Placed(w) /\ Bears(w) /\ Spaced(w) /\ Follows(w, Stored(w))

LEMMA GrownWhole ==
  ASSUME NEW n \in Nat, NEW w, MemOK(w, n), Whole(w), NEW v, Grown(w, v),
         \A r \in DOMAIN v.rank_map \ DOMAIN w.rank_map : r <= Reach(w.count) \/ r > Reach(Top)
  PROVE  Whole(v) /\ \A q \in Players : get_rank_id(v, q) = get_rank_id(w, q)
<1>1. /\ v.info = w.info /\ v.count = w.count /\ v.out = w.out
      /\ \A r \in DOMAIN w.rank_map : r \in DOMAIN v.rank_map /\ v.rank_map[r] = w.rank_map[r]
      /\ \A r \in DOMAIN v.rank_map \ DOMAIN w.rank_map : v.rank_map[r] \in New(w, v)
      /\ DOMAIN v.id_rank = DOMAIN w.id_rank \cup New(w, v)
      /\ \A id \in DOMAIN w.id_rank \ New(w, v) : v.id_rank[id] = w.id_rank[id]
      /\ \A id \in New(w, v) : v.id_rank[id] \in DOMAIN v.rank_map /\ v.rank_map[v.id_rank[id]] = id
  BY DEF Grown
<1>2. New(w, v) \cap Players = {}
  <2>1. w.target_guid \in Nat /\ v.target_guid \in Nat
    BY DEF MemOK, Grown
  <2>2. New(w, v) \subseteq Nat
    BY <2>1 DEF New
  <2>3. QED
    BY <2>2, ArenaAssumption
<1>3. \A q \in Players : get_rank_id(v, q) = get_rank_id(w, q)
  BY <1>1, <1>2 DEF get_rank_id, RankIn
<1>4. Placed(v)
  <2>1. ASSUME NEW id \in DOMAIN v.id_rank, id \notin New(w, v)
        PROVE  v.id_rank[id] \in DOMAIN v.rank_map /\ v.rank_map[v.id_rank[id]] = id
    <3>1. id \in DOMAIN w.id_rank /\ v.id_rank[id] = w.id_rank[id]
      BY <1>1, <2>1
    <3>2. w.id_rank[id] \in DOMAIN w.rank_map /\ w.rank_map[w.id_rank[id]] = id
      BY <3>1 DEF Whole, Placed
    <3>3. QED
      BY <1>1, <3>1, <3>2
  <2>2. QED
    BY <1>1, <2>1 DEF Placed
<1>5. Bears(v)
  <2>1. DOMAIN w.info \subseteq Players
    BY DEF MemOK
  <2>2. QED
    BY <1>1, <1>3, <2>1 DEF Whole, Bears
<1>6. Spaced(v)
  BY <1>1, <1>2 DEF Whole, Spaced
<1>7. Follows(v, Stored(v))
  <2>1. Stored(v) = Stored(w)
    BY <1>1 DEF Stored
  <2>2. QED
    BY <1>1, <1>3, <2>1 DEF Whole, Follows
<1>8. QED
  BY <1>3, <1>4, <1>5, <1>6, <1>7 DEF Whole

LEMMA GrownSane ==
  ASSUME NEW n \in Nat, NEW w, MemOK(w, n), Sane(w), NEW v, Grown(w, v),
         \A r \in DOMAIN v.rank_map \ DOMAIN w.rank_map : r <= Reach(w.count) \/ r > Reach(Top)
  PROVE  Sane(v) /\ \A q \in Players : get_rank_id(v, q) = get_rank_id(w, q)
<1>1. Whole(w)
  BY DEF Sane, Whole
<1>2. Whole(v) /\ \A q \in Players : get_rank_id(v, q) = get_rank_id(w, q)
  BY <1>1, GrownWhole
<1>3. DOMAIN v.id_rank # {}
  BY DEF Sane, Grown
<1>4. QED
  BY <1>2, <1>3 DEF Sane, Whole

LEMMA CreatedGrown ==
  ASSUME NEW n, Room(n), NEW w, MemOK(w, n), NEW v, v = CreateRank(w)
  PROVE  /\ Grown(w, v) /\ DOMAIN v.id_rank # {}
         /\ \A r \in DOMAIN v.rank_map \ DOMAIN w.rank_map : r <= Reach(w.count)
<1>1. PICK ranks : ranks = [r \in 1..SHOW_RANK_COUNT |-> r]
  OBVIOUS
<1>2. /\ SHOW_RANK_COUNT \in Nat /\ Len(ranks) = SHOW_RANK_COUNT /\ \A r \in 1..SHOW_RANK_COUNT : ranks[r] = r
      /\ 1 \in 1..SHOW_RANK_COUNT
  BY <1>1, ArenaAssumption
<1>3. PICK x : x = Filled(w, ranks)
  OBVIOUS
<1>4. IsMem(w) /\ w.target_guid \in Nat /\ w.count \in Nat
  BY DEF MemOK, Room
<1>5. /\ Grown(w, x)
      /\ \A r : r \in DOMAIN x.rank_map <=> r \in DOMAIN w.rank_map \/ \E i \in 1..SHOW_RANK_COUNT : r = ranks[i]
  BY <1>2, <1>3, <1>4, FilledIs
<1>6. \A r \in DOMAIN x.rank_map \ DOMAIN w.rank_map : r <= Reach(w.count)
  BY <1>2, <1>4, <1>5, ArenaAssumption DEF Reach
<1>7. \A r \in DOMAIN w.rank_map : w.rank_map[r] \in DOMAIN w.id_rank
  BY DEF MemOK, PlacesOK
<1>8. DOMAIN x.id_rank # {}
  <2>1. 1 \in DOMAIN x.rank_map
    BY <1>2, <1>5
  <2>2. CASE 1 \in DOMAIN w.rank_map
    BY <1>5, <1>7, <2>2 DEF Grown
  <2>3. CASE 1 \notin DOMAIN w.rank_map
    <3>1. x.rank_map[1] \in New(w, x)
      BY <1>5, <2>1, <2>3 DEF Grown
    <3>2. QED
      BY <1>5, <3>1 DEF Grown
  <2>4. QED
    BY <2>2, <2>3
<1>9. CASE v = x
  BY <1>5, <1>6, <1>8, <1>9
<1>10. CASE v # x
  <2>1. PICK S : S = {r \in DOMAIN w.rank_map : r <= SHOW_RANK_COUNT}
    OBVIOUS
  <2>2. v = w /\ Cardinality(S) >= SHOW_RANK_COUNT
    BY <1>1, <1>3, <1>10, <2>1 DEF CreateRank
  <2>3. S # {}
    <3>1. ASSUME S = {} PROVE FALSE
      <4>1. PICK c : c = Cardinality(S)
        OBVIOUS
      <4>2. c = 0
        BY <3>1, <4>1, FS_EmptySet
      <4>3. c >= SHOW_RANK_COUNT
        BY <2>2, <4>1
      <4>4. QED
        BY <4>2, <4>3, ArenaAssumption
    <3>2. QED
      BY <3>1
  <2>4. DOMAIN w.id_rank # {}
    BY <1>7, <2>1, <2>3
  <2>5. QED
    BY <1>4, <2>2, <2>4, GrownSelf
<1>11. QED
  BY <1>9, <1>10

LEMMA TopRoom == Top \in Nat /\ Room(Top)
<1>1. Cardinality(Players) \in Nat
  BY ArenaAssumption, FS_CardinalityType
<1>2. PICK c \in Nat : c = Cardinality(Players)
  BY <1>1
<1>3. QED
  BY <1>2, ArenaAssumption DEF Top, Room, Reach

\* The places of a list are kept by players that have come, or are behind all.
LEMMA GivenSane ==
  ASSUME NEW n \in Nat, n <= Top, NEW w, MemOK(w, n), Sane(w), NEW p \in DOMAIN w.info, NEW four \in Offers(w, p),
         NEW v, Given(w, v, p, four)
  PROVE  Sane(v) /\ v.out = w.out
<1>1. PICK x : /\ Grown(w, x)
               /\ \A r : r \in DOMAIN x.rank_map <=> r \in DOMAIN w.rank_map \/ \E i \in 1..4 : r = four[i]
               /\ v = set_info_data(x, p, ListOf(w, x, p, four))
  BY DEF Given
<1>2. p \in Players /\ MAX_CREATE_OPPONENT \in Nat /\ 5 <= MAX_CREATE_OPPONENT /\ w.count \in Nat
  BY ArenaAssumption DEF MemOK
<1>3. PICK top \in Nat : top = Top
  BY TopRoom
<1>4. Room(top) /\ MemOK(w, top) /\ n <= top
  BY <1>3, TopRoom, MemLarger
<1>5. /\ OwnRank(w, p) \in Nat /\ IsFour(four)
      /\ IF Ranked(w, p) THEN \A i \in 1..4 : four[i] < OwnRank(w, p) \/ four[i] <= 5
         ELSE \A i \in 1..4 : /\ ~IsReal(w, four[i])
                              /\ four[i] <= w.count + MAX_CREATE_OPPONENT \/ four[i] > Reach(top) + 1
  <2>1. Aside(four, OwnRank(w, p)) => IsFour(four)
    BY DEF Aside
  <2>2. QED
    BY <1>2, <1>4, <2>1, OffersAre
<1>6. ASSUME NEW i \in 1..4
      PROVE  four[i] <= Reach(w.count) \/ four[i] > Reach(Top)
  <2>1. four[i] \in Nat
    BY <1>5 DEF IsFour
  <2>2. CASE Ranked(w, p)
    <3>1. OwnRank(w, p) <= Reach(w.count)
      <4>1. get_rank_id(w, p) <= Reach(w.count)
        BY <1>2, <2>2, PlaceOf DEF Ranked
      <4>2. QED
        BY <2>2, <4>1 DEF OwnRank
    <3>2. four[i] < OwnRank(w, p) \/ four[i] <= 5
      BY <1>5, <2>2
    <3>3. QED
      BY <1>2, <1>5, <2>1, <3>1, <3>2 DEF Reach
  <2>3. CASE ~Ranked(w, p)
    <3>1. four[i] <= w.count + MAX_CREATE_OPPONENT \/ four[i] > Reach(top) + 1
      BY <1>5, <2>3
    <3>2. QED
      BY <1>2, <1>3, <2>1, <3>1 DEF Reach
  <2>4. QED
    BY <2>2, <2>3
<1>7. Sane(x)
  <2>1. \A r \in DOMAIN x.rank_map \ DOMAIN w.rank_map : r <= Reach(w.count) \/ r > Reach(Top)
    BY <1>1, <1>6
  <2>2. QED
    BY <1>1, <2>1, GrownSane
<1>8. \A q \in Players : get_rank_id(x, q) = get_rank_id(w, q)
  <2>1. \A r \in DOMAIN x.rank_map \ DOMAIN w.rank_map : r <= Reach(w.count) \/ r > Reach(Top)
    BY <1>1, <1>6
  <2>2. QED
    BY <1>1, <2>1, GrownSane
<1>9. IsMem(x) /\ x.out = w.out
  BY <1>1 DEF Grown
<1>10. PICK i : i = ListOf(w, x, p, four)
  OBVIOUS
<1>11. /\ v.info = Put(x.info, p, i) /\ v.rank_map = x.rank_map /\ v.id_rank = x.id_rank
       /\ v.count = x.count /\ v.out = x.out
  BY <1>1, <1>9, <1>10, InfoIs
<1>12. i.cur \in {0, get_rank_id(x, p)}
  <2>1. i.cur = w.info[p].cur
    BY <1>10 DEF ListOf
  <2>2. w.info[p].cur \in {0, get_rank_id(w, p)}
    BY DEF Sane, Bears
  <2>3. QED
    BY <1>2, <1>8, <2>1, <2>2
<1>13. Bears(v)
  BY <1>7, <1>11, <1>12, BearsPut DEF Sane
<1>14. Stored(v) = Stored(x)
  BY <1>11 DEF Stored
<1>15. QED
  BY <1>7, <1>9, <1>11, <1>13, <1>14, SaneSame

LEMMA ExtraSane ==
  ASSUME NEW n \in Nat, NEW m \in Nat, m = n + 1, m <= Top, TablesOK(Written, m),
         NEW w, MemOK(w, n), Sane(w), NEW p \in DOMAIN w.info, NEW t, get_rank_id(w, t) # 0, NEW result,
         NEW v, v = ExtraProc(w, p, t, result)
  PROVE  Sane(v)
<1>1. p \in Players /\ Top \in Nat /\ Room(m) /\ w.count \in Nat
  BY TopRoom, ArenaAssumption DEF MemOK, Room, Reach
<1>2. PICK l : l = IF result = "quit" THEN w ELSE AddLog(w, p, t)
  OBVIOUS
<1>3. MemOK(w, m)
  BY MemLarger
<1>4. Sane(l) /\ MemOK(l, n) /\ get_rank_id(l, t) # 0 /\ p \in DOMAIN l.info
  <2>1. CASE result = "quit"
    BY <1>2, <2>1
  <2>2. CASE result # "quit"
    <3>1. l = AddLog(w, p, t) /\ IsMem(w)
      BY <1>2, <2>2 DEF MemOK
    <3>2. Sane(l)
      BY <1>1, <1>3, <3>1, LogSane
    <3>3. MemOK(l, n)
      BY <1>1, <3>1, AddLogKeeps
    <3>4. /\ l.id_rank = w.id_rank
          /\ l.info = IF t \in Players THEN Put(w.info, t, InfoOf(w, t)) ELSE w.info
      BY <3>1, LogAside
    <3>5. get_rank_id(l, t) # 0
      BY <3>4 DEF get_rank_id
    <3>6. p \in DOMAIN l.info
      BY <3>4 DEF Put
    <3>7. QED
      BY <3>2, <3>3, <3>5, <3>6
  <2>3. QED
    BY <2>1, <2>2
<1>5. PICK win : win = (result = "won")
  OBVIOUS
<1>6. PICK x : x = SendBattleReward(l, p, t, win)
  OBVIOUS
<1>7. Sane(x)
  BY <1>1, <1>4, <1>6, RewardSane
<1>8. MemOK(x, m)
  <2>1. Room(n + 1)
    BY <1>1
  <2>2. MemOK(SendBattleReward(l, p, t, win), n + 1)
    BY <1>1, <1>4, <2>1, RewardKeeps
  <2>3. QED
    BY <1>6, <2>2
<1>9. p \in DOMAIN x.info /\ get_rank_id(x, t) # 0
  <2>1. IsMem(l) /\ l.count \in Nat
    BY <1>4 DEF MemOK
  <2>2. /\ DOMAIN l.info \subseteq DOMAIN x.info
        /\ \A id : get_rank_id(l, id) # 0 => get_rank_id(x, id) # 0
    BY <1>6, <2>1, RewardAside
  <2>3. QED
    BY <1>4, <2>2
<1>10. v = UpdateRank(x, p, t, win)
  BY <1>2, <1>5, <1>6 DEF ExtraProc
<1>11. QED
  BY <1>7, <1>8, <1>9, <1>10, UpdateSane

\* Before the load nothing is in memory, and the tables are those of a ladder.
RowsApart(t) ==
  /\ DOMAIN t.rows \subseteq Players
  /\ \A p \in DOMAIN t.rows : t.rows[p] <= Reach(t.count)
  /\ \A p, q \in DOMAIN t.rows : t.rows[p] = t.rows[q] => p = q
Blank ==
  /\ game.id_rank = << >> /\ game.rank_map = << >> /\ game.info = << >> /\ game.load_log = 0
  /\ answers # << >> => Head(answers).kind # "logs" /\ (Head(answers).kind = "ranks" => game.count = Written.count)
  /\ RowsApart(Written)

\* The answers come in their order, and their rows are some of those there are.
InOrder(q) ==
  \A i, j \in DOMAIN q : j = i + 1 => /\ q[j].kind = "logs" => q[i].kind = "ranks"
                                      /\ q[j].kind = "ranks" => q[i].kind = "count"
Within(q, t) == \A i \in DOMAIN q : q[i].kind = "ranks" => DOMAIN q[i].rows \subseteq DOMAIN t.rows

Following == Kept => NoDel(sent) /\ InOrder(answers) /\ Within(answers, Written) /\ (Blank \/ Sane(game))

LEMMA WrittenOK ==
  ASSUME TypeInv
  PROVE  TablesOK(Written, Most) /\ (game.out = << >> => Stored(game) = Written)
<1>1. TablesOK(db, Most) /\ sent \in Seq(Messages(Most)) /\ Most \in Nat
  BY RoomNow DEF TypeInv
<1>2. TablesOK(Saved(db, sent), Most)
  BY <1>1, SavedKeeps
<1>3. game.out = << >> => Stored(game) = Written
  BY SavedNone DEF Stored
<1>4. QED
  BY <1>2, <1>3 DEF Written

\* What a handler has written is on its way, or lost.
LEMMA LeavesFollow ==
  ASSUME TypeInv, Following, NEW n \in Nat, Most <= n, NEW w, MemOK(w, n), NEW marks, Leaves(w, marks),
         UNCHANGED <<db, up, answers>>,
         Kept => Sane(w) \/ (Blank /\ w = game)
  PROVE  Following'
<1>1. SUFFICES ASSUME Kept'
               PROVE  NoDel(sent)' /\ InOrder(answers)' /\ Within(answers, Written)' /\ (Blank \/ Sane(game))'
  BY DEF Following
<1>2. IsMem(w) /\ w.out \in Seq(Writes(n)) /\ Most \in Nat
  BY RoomNow DEF MemOK
<1>3. Kept /\ (~up => w.out = << >>)
  BY <1>1 DEF Kept, Sound, Leaves, Marks
<1>4. NoDel(sent) /\ InOrder(answers) /\ Within(answers, Written)
  BY <1>3 DEF Following
<1>5. w.out \in Seq(Messages(n)) /\ NoDel(w.out)
  BY <1>2, WritesAre
<1>6. sent \in Seq(Messages(n)) /\ TablesOK(Written, n)
  BY <1>2, WrittenOK, TablesLarger DEF TypeInv
<1>7. NoDel(sent')
  <2>1. sent' = IF up THEN sent \o w.out ELSE sent
    BY DEF Leaves
  <2>2. CASE up
    <3>1. \A i \in DOMAIN (sent \o w.out) : (\E j \in DOMAIN sent : (sent \o w.out)[i] = sent[j])
                                            \/ (\E j \in DOMAIN w.out : (sent \o w.out)[i] = w.out[j])
      BY <1>5, <1>6
    <3>2. QED
      BY <1>4, <1>5, <2>1, <2>2, <3>1 DEF NoDel
  <2>3. CASE ~up
    BY <1>4, <2>1, <2>3
  <2>4. QED
    BY <2>2, <2>3
<1>8. Written' = Stored(w)
  <2>1. CASE up
    <3>1. sent' = Behind(sent, w.out) /\ db' = db
      BY <2>1 DEF Leaves, Behind
    <3>2. PICK q \in Seq(Messages(n)) : q = sent
      BY <1>6
    <3>3. PICK r \in Seq(Messages(n)) : r = w.out
      BY <1>5
    <3>4. Saved(db, Behind(q, r)) = Saved(Saved(db, q), r)
      BY SavedMore
    <3>5. QED
      BY <3>1, <3>2, <3>3, <3>4 DEF Written, Stored
  <2>2. CASE ~up
    <3>1. sent' = sent /\ db' = db /\ w.out = << >>
      BY <1>3, <2>2 DEF Leaves
    <3>2. QED
      BY <3>1, SavedNone DEF Written, Stored
  <2>3. QED
    BY <2>1, <2>2 DEF TypeInv
<1>9. Within(answers, Written)'
  <2>1. DOMAIN Written.rows \subseteq DOMAIN Stored(w).rows
    BY <1>5, <1>6, SavedGrows DEF Stored
  <2>2. QED
    BY <1>4, <1>8, <2>1 DEF Within
<1>10. /\ game'.info = w.info /\ game'.rank_map = w.rank_map /\ game'.id_rank = w.id_rank
       /\ game'.load_log = w.load_log /\ game'.count = w.count /\ game'.out = << >>
  BY <1>2, LeftIs
<1>11. CASE Sane(w)
  <2>1. Stored(game)' = Stored(w)
    <3>1. Stored(game)' = Written'
      BY <1>10, SavedNone DEF Stored
    <3>2. QED
      BY <1>8, <3>1
  <2>2. Sane(game)'
    BY <1>10, <1>11, <2>1 DEF Sane, Placed, Bears, Spaced, Follows, get_rank_id
  <2>3. QED
    BY <1>4, <1>7, <1>9, <2>2 DEF InOrder
<1>12. CASE Blank /\ w = game
  <2>1. Stored(w) = Written
    BY <1>12, WrittenOK DEF TypeInv
  <2>2. Blank'
    BY <1>8, <1>10, <1>12, <2>1 DEF Blank
  <2>3. QED
    BY <1>4, <1>7, <1>9, <2>2 DEF InOrder
<1>13. QED
  BY <1>3, <1>11, <1>12

LEMMA RefreshedFollow ==
  ASSUME TypeInv, Following, NEW n \in Nat, Most <= n, n <= Top, NEW w, MemOK(w, n), NEW p \in DOMAIN w.info,
         NEW marks, Refreshed(w, p, marks), UNCHANGED <<db, up, answers>>, Kept => Sane(w)
  PROVE  Following'
<1>1. PICK four \in Offers(w, p) : Leaves(SetInfoOpp(w, p, four), marks)
  BY DEF Refreshed
<1>2. Room(n) /\ p \in Players /\ IsMem(w) /\ w.target_guid \in Nat
  BY TopRoom, ArenaAssumption DEF Room, Reach, MemOK
<1>3. IsFour(four) /\ \A i \in 1..4 : four[i] <= LastRank
  <2>1. Aside(four, OwnRank(w, p))
    BY <1>2, OffersAre
  <2>2. QED
    BY <2>1 DEF Aside
<1>4. PICK v : v = SetInfoOpp(w, p, four)
  OBVIOUS
<1>5. Given(w, v, p, four)
  BY <1>2, <1>3, <1>4, SetInfoOppIs
<1>6. MemOK(v, n)
  BY <1>2, <1>3, <1>5, GivenKeeps
<1>7. Kept => Sane(v)
  BY <1>5, GivenSane
<1>8. QED
  BY <1>1, <1>4, <1>6, <1>7, LeavesFollow

LEMMA MostTop ==
  ASSUME TypeInv
  PROVE  Most \in Nat /\ Most <= Top /\ (Len(fights) # 0 => Most + 1 <= Top)
<1>1. Cardinality(Players) \in Nat /\ MaxFights \in Nat
  BY ArenaAssumption, FS_CardinalityType
<1>2. fight_id \in Nat /\ fight_id <= MaxFights /\ Len(fights) \in Nat /\ Len(fights) <= fight_id
  BY <1>1 DEF TypeInv, FightsOK
<1>3. PICK c, l : c = Cardinality(Players) /\ l = Len(fights)
  OBVIOUS
<1>4. Most = c + (fight_id - l) /\ c \in Nat /\ l \in Nat /\ l <= fight_id /\ Top = c + MaxFights
  BY <1>1, <1>2, <1>3 DEF Most, Made, Top
<1>5. PICK k : k = fight_id
  OBVIOUS
<1>6. k \in Nat /\ k <= MaxFights /\ l <= k /\ Most = c + (k - l)
  BY <1>2, <1>4, <1>5
<1>7. Most \in Nat /\ Most <= Top /\ (l # 0 => Most + 1 <= Top)
  BY <1>1, <1>4, <1>6
<1>8. QED
  BY <1>3, <1>7

LEMMA InfoFollow ==
  ASSUME TypeInv, Following, NEW p \in Players, PQSingleArenaInfo(p) \/ PQSingleArenaRefresh(p)
  PROVE  Following'
<1>1. PICK w, marks : /\ w = game \/ w = SetInfoBase(game, p)
                      /\ w = game => p \in DOMAIN game.info
                      /\ Refreshed(w, p, marks)
  <2>1. CASE PQSingleArenaInfo(p)
    <3>1. PICK x : x = IF Baseless(p) THEN SetInfoBase(game, p) ELSE game
      OBVIOUS
    <3>2. Refreshed(x, p, {})
      BY <2>1, <3>1 DEF PQSingleArenaInfo
    <3>3. x = game => p \in DOMAIN game.info
      <4>1. MemOK(game, Most) /\ Most \in Nat
        BY RoomNow DEF TypeInv
      <4>2. p \in DOMAIN SetInfoBase(game, p).info
        BY <4>1, BaseKeeps
      <4>3. QED
        BY <3>1, <4>2 DEF Baseless
    <3>4. QED
      BY <3>1, <3>2, <3>3
  <2>2. CASE PQSingleArenaRefresh(p)
    <3>1. PICK x : x = IF p \in DOMAIN game.info THEN game ELSE SetInfoBase(game, p)
      OBVIOUS
    <3>2. Refreshed(x, p, Skips(p))
      BY <2>2, <3>1 DEF PQSingleArenaRefresh
    <3>3. x = game => p \in DOMAIN game.info
      <4>1. MemOK(game, Most) /\ Most \in Nat
        BY RoomNow DEF TypeInv
      <4>2. p \in DOMAIN SetInfoBase(game, p).info
        BY <4>1, BaseKeeps
      <4>3. QED
        BY <3>1, <4>2
    <3>4. QED
      BY <3>1, <3>2, <3>3
  <2>3. QED
    BY <2>1, <2>2
<1>2. PICK n \in Nat : n = Most
  BY RoomNow
<1>3. MemOK(game, n) /\ Most <= n /\ n <= Top
  BY <1>2, MostTop DEF TypeInv
<1>4. MemOK(w, n) /\ p \in DOMAIN w.info
  <2>1. MemOK(SetInfoBase(game, p), n) /\ p \in DOMAIN SetInfoBase(game, p).info
    BY <1>3, BaseKeeps
  <2>2. QED
    BY <1>1, <1>3, <2>1
<1>5. game.load_log = 2 /\ UNCHANGED <<db, up, answers>>
  BY DEF PQSingleArenaInfo, PQSingleArenaRefresh
<1>6. Kept => Sane(w)
  <2>1. Kept => Sane(game)
    BY <1>5 DEF Following, Blank
  <2>2. Sane(game) => Sane(SetInfoBase(game, p))
    BY <1>3, BaseSane
  <2>3. QED
    BY <1>1, <2>1, <2>2
<1>7. QED
  BY <1>1, <1>3, <1>4, <1>5, <1>6, RefreshedFollow

LEMMA BlankRanks ==
  ASSUME Blank
  PROVE  DOMAIN game.info = {} /\ \A id : get_rank_id(game, id) = 0
<1>1. DOMAIN game.info = {} /\ DOMAIN game.id_rank = {}
  BY DEF Blank
<1>2. QED
  BY <1>1 DEF get_rank_id, RankIn

LEMMA LevelFollow ==
  ASSUME TypeInv, Following, NEW p \in Players, UpdateLevel(p)
  PROVE  Following'
<1>1. PICK r : r = get_rank_id(game, p)
  OBVIOUS
<1>2. PICK msgs : msgs = One(RowMsg(game.rank_map[r], r))
  OBVIOUS
<1>3. PICK v : v = Write(game, msgs)
  OBVIOUS
<1>4. Ranked(game, p) /\ Leaves(v, {}) /\ UNCHANGED <<db, up, answers>>
  BY <1>1, <1>2, <1>3 DEF UpdateLevel, One
<1>5. PICK n \in Nat : n = Most
  BY RoomNow
<1>6. MemOK(game, n) /\ Most <= n /\ IsMem(game)
  BY <1>5, MostTop DEF TypeInv, MemOK
<1>7. r \in 1..Reach(n) /\ p \in DOMAIN game.id_rank /\ r = game.id_rank[p]
  BY <1>1, <1>4, <1>6, OwnPlace
<1>8. r \in DOMAIN game.rank_map /\ game.rank_map[r] \in Ids
  BY <1>6, <1>7 DEF MemOK, PlacesOK
<1>9. RowMsg(game.rank_map[r], r) \in Writes(n)
  BY <1>7, <1>8, MessagesAre
<1>10. msgs \in Seq(Writes(n))
  BY <1>2, <1>9 DEF One
<1>11. MemOK(v, n)
  BY <1>3, <1>6, <1>10, WriteKeeps
<1>12. /\ v.out = Behind(game.out, msgs)
       /\ v.info = game.info /\ v.rank_map = game.rank_map /\ v.id_rank = game.id_rank /\ v.count = game.count
  BY <1>3, <1>6, WriteIs
<1>13. ASSUME Sane(game)
       PROVE  Sane(v)
  <2>1. game.rank_map[r] = p /\ p \in Ids
    BY <1>1, <1>4, <1>6, <1>13, PlaceOf DEF Ranked, Ids
  <2>2. PICK s : s = Stored(game)
    OBVIOUS
  <2>3. TablesOK(s, n) /\ Follows(game, s)
    <3>1. TablesOK(Written, n)
      BY <1>5, WrittenOK
    <3>2. QED
      BY <1>6, <1>13, <2>2, <3>1, StoredOK DEF Sane
  <2>4. Stored(v) = Saved(s, msgs)
    BY <1>6, <1>10, <1>12, <2>2, StoredMore
  <2>5. Stored(v) = SaveData(s, RowMsg(p, r))
    BY <1>2, <2>1, <2>4, SavedOne
  <2>6. Stored(v).rows = Put(s.rows, p, r) /\ Stored(v).count = s.count
    BY <1>7, <2>1, <2>3, <2>5, RowStored
  <2>7. \A id : get_rank_id(v, id) = get_rank_id(game, id)
    BY <1>12 DEF get_rank_id
  <2>8. Follows(v, Stored(v))
    BY <1>1, <1>12, <2>3, <2>6, <2>7 DEF Follows, RankIn, Put
  <2>9. Placed(v) /\ Spaced(v) /\ Bears(v) /\ DOMAIN v.id_rank # {}
    BY <1>12, <1>13, <2>7 DEF Sane, Placed, Spaced, Bears
  <2>10. QED
    BY <2>8, <2>9 DEF Sane
<1>14. Kept => Sane(v)
  BY <1>4, <1>13, BlankRanks DEF Following, Ranked
<1>15. QED
  BY <1>4, <1>6, <1>11, <1>14, LeavesFollow

LEMMA EndFollow ==
  ASSUME TypeInv, Following, NEW i \in DOMAIN fights, NEW result, FightEnds(i, result)
  PROVE  Following'
<1>1. PICK p, t : p = fights[i].ack /\ t = fights[i].def
  OBVIOUS
<1>2. PICK first : first = GetFirstReward(game, p)
  OBVIOUS
<1>3. /\ UNCHANGED <<db, up, answers>>
      /\ IF t = Monster
         THEN IF first = game THEN Leaves(game, {}) ELSE Refreshed(first, p, Skips(p))
         ELSE Leaves(game, {}) \/ (~check_rank(game, p, t) /\ Refreshed(ExtraProc(game, p, t, result), p, {}))
  BY <1>1, <1>2 DEF FightEnds
<1>4. p \in Players
  BY <1>1, FighterIs
<1>5. PICK m, n : m = Most /\ n = Most + 1
  OBVIOUS
<1>6. /\ m \in Nat /\ n \in Nat /\ n = m + 1 /\ n <= Top /\ Most <= n /\ Room(n) /\ Top \in Nat
      /\ MemOK(game, m) /\ IsMem(game) /\ TablesOK(Written, n)
  <2>1. Len(fights) # 0 /\ Most \in Nat
    BY FighterIs, RoomNow
  <2>2. Room(n) /\ MemOK(game, m) /\ n <= Top /\ TablesOK(Written, m)
    BY <1>5, <2>1, RoomNow, MostTop, WrittenOK DEF TypeInv
  <2>3. m \in Nat /\ n \in Nat /\ m <= n /\ n = m + 1
    BY <1>5, <2>1
  <2>4. TablesOK(Written, n)
    BY <2>2, <2>3, TablesLarger
  <2>5. QED
    BY <1>5, <2>1, <2>2, <2>3, <2>4, TopRoom DEF MemOK
<1>7. CASE Leaves(game, {})
  <2>1. Kept => Sane(game) \/ (Blank /\ game = game)
    BY DEF Following
  <2>2. Most <= m
    BY <1>5, <1>6
  <2>3. QED
    BY <1>3, <1>6, <1>7, <2>1, <2>2, LeavesFollow
<1>8. CASE t = Monster /\ first # game
  <2>1. p \in DOMAIN game.info /\ game.info[p].max = 0
    BY <1>2, <1>8 DEF GetFirstReward
  <2>2. PICK last : last = FirstPlace(game)
    OBVIOUS
  <2>3. first.info = Put(game.info, p, InfoRec(last, last, game.info[p].opps))
    BY <1>2, <1>6, <2>1, <2>2, FirstIs
  <2>4. p \in DOMAIN first.info
    BY <2>3 DEF Put
  <2>5. MemOK(first, n)
    BY <1>2, <1>4, <1>6, FirstKeeps
  <2>6. Kept => Sane(first)
    <3>1. Kept => Sane(game)
      BY <2>1, BlankRanks DEF Following
    <3>2. Sane(game) => Sane(first)
      BY <1>2, <1>4, <1>6, FirstSane
    <3>3. QED
      BY <3>1, <3>2
  <2>7. Refreshed(first, p, Skips(p))
    BY <1>3, <1>8
  <2>8. QED
    BY <1>3, <1>6, <2>4, <2>5, <2>6, <2>7, RefreshedFollow
<1>9. CASE ~check_rank(game, p, t) /\ Refreshed(ExtraProc(game, p, t, result), p, {})
  <2>1. get_rank_id(game, t) # 0 /\ p \in DOMAIN game.info
    BY <1>9 DEF check_rank, Listed
  <2>2. PICK x : x = ExtraProc(game, p, t, result)
    OBVIOUS
  <2>3. MemOK(x, n) /\ p \in DOMAIN x.info
    BY <1>6, <2>1, <2>2, ExtraKeeps
  <2>4. Kept => Sane(x)
    <3>1. Kept => Sane(game)
      BY <2>1, BlankRanks DEF Following
    <3>2. Sane(game) => Sane(x)
      BY <1>6, <2>1, <2>2, ExtraSane
    <3>3. QED
      BY <3>1, <3>2
  <2>5. Refreshed(x, p, {})
    BY <1>9, <2>2
  <2>6. QED
    BY <1>3, <1>6, <2>3, <2>4, <2>5, RefreshedFollow
<1>10. QED
  BY <1>3, <1>7, <1>8, <1>9

\* Where neither the memory nor the tables that will be change.
LEMMA FollowStays ==
  ASSUME Following, NoDel(sent) => NoDel(sent)', Written' = Written, spoilt \subseteq spoilt',
         InOrder(answers) /\ Within(answers, Written) => (InOrder(answers) /\ Within(answers, Written))',
         answers' = << >> \/ (answers # << >> /\ Head(answers') = Head(answers)) \/ Head(answers').kind = "count",
         game'.info = game.info, game'.rank_map = game.rank_map, game'.id_rank = game.id_rank,
         game'.count = game.count, game'.load_log \in {0, game.load_log}, game'.out = game.out
  PROVE  Following'
<1>1. SUFFICES ASSUME Kept'
               PROVE  NoDel(sent)' /\ InOrder(answers)' /\ Within(answers, Written)' /\ (Blank \/ Sane(game))'
  BY DEF Following
<1>2. Kept
  BY <1>1 DEF Kept, Sound
<1>3. Stored(game)' = Stored(game)
  BY DEF Stored
<1>4. Sane(game) => Sane(game)'
  BY <1>3 DEF Sane, Placed, Bears, Spaced, Follows, get_rank_id
<1>5. Blank => Blank'
  BY DEF Blank
<1>6. QED
  BY <1>2, <1>4, <1>5 DEF Following

LEMMA LinkStored ==
  ASSUME TypeInv, SEventNetRealDB
  PROVE  Written' = Written
<1>1. sent' = Append(sent, Load) /\ UNCHANGED db
  BY DEF SEventNetRealDB
<1>2. sent \in Seq(Messages(Most)) /\ Load \in Messages(Most)
  BY RoomNow, MessagesAre DEF TypeInv
<1>4. PICK S : S = Messages(Most)
  OBVIOUS
<1>q. PICK q \in Seq(S) : q = sent
  BY <1>2, <1>4
<1>5. PICK l \in Seq(S) : l = One(Load)
  <2>1. PICK m \in S : m = Load
    BY <1>2, <1>4
  <2>2. One(m) \in Seq(S)
    BY DEF One
  <2>3. QED
    BY <2>1, <2>2
<1>6. sent' = Behind(q, l)
  BY <1>1, <1>2, <1>q, <1>5 DEF Behind, One
<1>7. Written' = Written
  <2>1. Saved(db, Behind(q, l)) = Saved(Saved(db, q), l)
    BY SavedMore
  <2>2. PICK t : t = Saved(db, q)
    OBVIOUS
  <2>3. \A i \in DOMAIN l : l[i] = Load
    BY <1>5 DEF One
  <2>4. Saved(t, l) = t
    BY <2>3, SavedLoads
  <2>5. QED
    BY <1>1, <1>q, <1>6, <2>1, <2>2, <2>4 DEF Written
<1>8. QED
  BY <1>7

LEMMA LinkFollow ==
  ASSUME TypeInv, Following, SEventNetRealDB
  PROVE  Following'
<1>1. /\ game' = [game EXCEPT !.load_log = 0, !.target_guid = 0] /\ sent' = Append(sent, Load)
      /\ UNCHANGED <<db, answers>> /\ spoilt \subseteq spoilt'
  BY DEF SEventNetRealDB
<1>2. IsMem(game) /\ sent \in Seq(Messages(Most)) /\ Load \in Messages(Most)
  BY RoomNow, MessagesAre DEF TypeInv, MemOK
<1>3. /\ game'.info = game.info /\ game'.rank_map = game.rank_map /\ game'.id_rank = game.id_rank
      /\ game'.count = game.count /\ game'.load_log = 0 /\ game'.out = game.out
  BY <1>1, <1>2 DEF IsMem
<1>7. Written' = Written
  BY LinkStored
<1>8. NoDel(sent) => NoDel(sent')
  <2>1. \A i \in DOMAIN sent' : (i \in DOMAIN sent /\ sent'[i] = sent[i]) \/ sent'[i] = Load
    BY <1>1, <1>2
  <2>2. Load.kind # "del"
    BY DEF Load
  <2>3. QED
    BY <2>1, <2>2 DEF NoDel
<1>9. InOrder(answers) /\ Within(answers, Written) => (InOrder(answers) /\ Within(answers, Written))'
  BY <1>1, <1>7 DEF InOrder, Within
<1>10. answers' = << >> \/ (answers # << >> /\ Head(answers') = Head(answers)) \/ Head(answers').kind = "count"
  BY <1>1
<1>11. QED
  BY <1>1, <1>3, <1>7, <1>8, <1>9, <1>10, FollowStays

\* Two sequences, one behind the other.
Joined(x, y, z, m, k) == Len(x) = m + k /\ (\A i \in 1..m : x[i] = y[i]) /\ \A i \in 1..k : x[m + i] = z[i]

LEMMA JoinIs ==
  ASSUME NEW S, NEW y \in Seq(S), NEW z \in Seq(S), NEW m \in Nat, Len(y) = m, NEW k \in Nat, Len(z) = k,
         NEW x, x = Behind(y, z)
  PROVE  x \in Seq(S) /\ Joined(x, y, z, m, k)
<1>1. x \in Seq(S) /\ Len(x) = m + k
  BY ConcatProperties DEF Behind
<1>2. \A i \in 1..m : x[i] = y[i]
  BY DEF Behind
<1>3. \A i \in 1..k : x[m + i] = z[i]
  BY DEF Behind
<1>4. QED
  BY <1>1, <1>2, <1>3 DEF Joined

\* A sequence cut in two.
Halves(S, s, l, k, q, r) ==
  /\ q \in Seq(S) /\ Len(q) = k /\ \A i \in 1..k : q[i] = s[i]
  /\ r \in Seq(S) /\ Len(r) = l - k /\ \A i \in 1..(l - k) : r[i] = s[i + k]
  /\ s = Behind(q, r)

LEMMA InTwo ==
  ASSUME NEW S, NEW s \in Seq(S), NEW l \in Nat, l = Len(s), NEW k \in 0..l,
         NEW q, q = SubSeq(s, 1, k), NEW r, r = SubSeq(s, k + 1, l)
  PROVE  Halves(S, s, l, k, q, r)
<1>1. \A i \in 1..l : s[i] \in S
  OBVIOUS
<1>2. q = [i \in 1..k |-> s[i]]
  <2>1. k - 1 + 1 = k /\ \A i \in 1..k : i + 1 - 1 = i
    OBVIOUS
  <2>2. QED
    BY <2>1 DEF SubSeq
<1>3. r = [i \in 1..(l - k) |-> s[i + k]]
  <2>1. l - (k + 1) + 1 = l - k /\ \A i \in 1..(l - k) : i + (k + 1) - 1 = i + k
    OBVIOUS
  <2>2. QED
    BY <2>1 DEF SubSeq
<1>4. q \in Seq(S) /\ Len(q) = k /\ \A i \in 1..k : q[i] = s[i]
  <2>1. \A i \in 1..k : i \in 1..l
    OBVIOUS
  <2>2. QED
    BY <1>1, <1>2, <2>1
<1>5. r \in Seq(S) /\ Len(r) = l - k /\ \A i \in 1..(l - k) : r[i] = s[i + k]
  <2>1. l - k \in Nat /\ \A i \in 1..(l - k) : i + k \in 1..l
    OBVIOUS
  <2>2. QED
    BY <1>1, <1>3, <2>1
<1>6. PICK z : z = Behind(q, r)
  OBVIOUS
<1>7. PICK m \in Nat : m = l - k
  <2>1. l - k \in Nat
    OBVIOUS
  <2>2. QED
    BY <2>1
<1>8. z \in Seq(S) /\ Joined(z, q, r, k, m)
  <2>1. k \in Nat /\ q \in Seq(S) /\ r \in Seq(S) /\ Len(q) = k /\ Len(r) = m
    BY <1>4, <1>5, <1>7
  <2>2. QED
    BY <1>6, <2>1, JoinIs
<1>9. Len(z) = l /\ \A i \in 1..l : z[i] = s[i]
  <2>1. Len(z) = l
    BY <1>7, <1>8 DEF Joined
  <2>2. ASSUME NEW i \in 1..l
        PROVE  z[i] = s[i]
    <3>1. CASE i <= k
      BY <1>4, <1>8, <3>1 DEF Joined
    <3>2. CASE i > k
      <4>1. PICK j \in 1..m : i = k + j
        <5>1. i \in Nat /\ k \in Nat /\ i > k /\ i <= l
          BY <3>2
        <5>2. i - k \in 1..m /\ i = k + (i - k)
          BY <1>7, <5>1
        <5>3. QED
          BY <5>2
      <4>2. z[k + j] = r[j] /\ r[j] = s[j + k] /\ j + k = k + j
        <5>1. j + k = k + j /\ j \in 1..(l - k)
          BY <1>7
        <5>2. z[k + j] = r[j]
          BY <1>8 DEF Joined
        <5>3. r[j] = s[j + k]
          BY <1>5, <5>1
        <5>4. QED
          BY <5>1, <5>2, <5>3
      <4>3. QED
        BY <4>1, <4>2
    <3>3. QED
      BY <3>1, <3>2
  <2>3. QED
    BY <2>1, <2>2
<1>10. z = s
  BY <1>8, <1>9, SeqEqual
<1>11. QED
  BY <1>4, <1>5, <1>6, <1>10 DEF Halves

\* What realdb handles at once it might handle one by one.
LEMMA RealdbStored ==
  ASSUME TypeInv, Realdb
  PROVE  Written' = Written
<1>1. PICK k \in DOMAIN sent : sent' = SubSeq(sent, k + 1, Len(sent)) /\ db' = Saved(db, SubSeq(sent, 1, k))
  BY DEF Realdb
<1>2. PICK n \in Nat : n = Most
  BY RoomNow
<1>3. sent \in Seq(Messages(n))
  BY <1>2 DEF TypeInv
<1>4. PICK l \in Nat : l = Len(sent)
  BY <1>3
<1>5. k \in 1..l /\ \A i \in 1..l : sent[i] \in Messages(n)
  BY <1>3, <1>4
<1>6. PICK q : q = SubSeq(sent, 1, k)
  OBVIOUS
<1>7. PICK r : r = SubSeq(sent, k + 1, l)
  OBVIOUS
<1>8. q \in Seq(Messages(n)) /\ r \in Seq(Messages(n)) /\ sent = Behind(q, r)
  <2>1. PICK S : S = Messages(n)
    OBVIOUS
  <2>2. PICK x \in Seq(S) : x = sent
    BY <1>3, <2>1
  <2>3. l = Len(x) /\ k \in 0..l /\ q = SubSeq(x, 1, k) /\ r = SubSeq(x, k + 1, l)
    BY <1>4, <1>5, <1>6, <1>7, <2>2
  <2>4. Halves(S, x, l, k, q, r)
    BY <2>3, InTwo
  <2>5. QED
    BY <2>1, <2>2, <2>4 DEF Halves
<1>9. Written' = Written
  <2>1. Saved(db, Behind(q, r)) = Saved(Saved(db, q), r)
    BY <1>8, SavedMore
  <2>2. sent' = r /\ db' = Saved(db, q)
    BY <1>1, <1>4, <1>6, <1>7
  <2>3. QED
    BY <1>8, <2>1, <2>2 DEF Written
<1>10. QED
  BY <1>9

LEMMA RealdbFollow ==
  ASSUME TypeInv, Following, Realdb
  PROVE  Following'
<1>1. PICK k \in DOMAIN sent :
        /\ \A i \in 1..k : sent[i] = Load => k = 1
        /\ sent' = SubSeq(sent, k + 1, Len(sent)) /\ db' = Saved(db, SubSeq(sent, 1, k))
        /\ answers' = (IF sent[1] = Load /\ up THEN answers \o Answers ELSE answers)
        /\ UNCHANGED <<game, up, spoilt>>
  BY DEF Realdb
<1>2. PICK n \in Nat : n = Most
  BY RoomNow
<1>3. sent \in Seq(Messages(n)) /\ TablesOK(db, n) /\ answers \in Seq(Replies(n)) /\ Answers \in Seq(Replies(n))
  BY <1>2, AnswersTyped DEF TypeInv
<1>4. PICK l \in Nat : l = Len(sent)
  BY <1>3
<1>5. k \in 1..l /\ \A i \in 1..l : sent[i] \in Messages(n)
  BY <1>3, <1>4
<1>9. Written' = Written
  BY RealdbStored
<1>10. NoDel(sent) => NoDel(sent')
  <2>1. \A i \in DOMAIN sent' : i + k \in DOMAIN sent /\ sent'[i] = sent[i + k]
    BY <1>1, <1>3, <1>4, <1>5 DEF SubSeq
  <2>2. QED
    BY <2>1 DEF NoDel
<1>11. CASE ~(sent[1] = Load /\ up)
  <2>1. answers' = answers
    BY <1>1, <1>11
  <2>2. InOrder(answers) /\ Within(answers, Written) => (InOrder(answers) /\ Within(answers, Written))'
    BY <1>9, <2>1 DEF InOrder, Within
  <2>3. answers' = << >> \/ (answers # << >> /\ Head(answers') = Head(answers)) \/ Head(answers').kind = "count"
    BY <2>1
  <2>4. game'.load_log = game.load_log
    BY <1>1
  <2>5. QED
    BY <1>1, <1>9, <1>10, <2>2, <2>3, <2>4, FollowStays
<1>12. CASE sent[1] = Load /\ up
  <2>1. PICK a, b, c : a = CountMsg(db.count) /\ b = RanksMsg(db.rows) /\ c = LogsMsg(db.logs)
    OBVIOUS
  <2>2. PICK z : z = <<a, b, c>>
    OBVIOUS
  <2>3. answers' = answers \o z /\ z = Answers
    BY <1>1, <1>12, <2>1, <2>2 DEF Answers, RanksMsg, LogsMsg
  <2>4. Len(z) = 3 /\ z[1] = a /\ z[2] = b /\ z[3] = c /\ z \in Seq(Replies(n))
    <3>1. Len(z) = 3 /\ z[1] = a /\ z[2] = b /\ z[3] = c
      BY <2>2
    <3>2. QED
      BY <1>3, <2>3, <3>1
  <2>5. a.kind = "count" /\ b.kind = "ranks" /\ b.rows = db.rows /\ c.kind = "logs"
    BY <2>1 DEF CountMsg, RanksMsg, LogsMsg
  <2>6. PICK m \in Nat : m = Len(answers)
    BY <1>3
  <2>7. PICK x : x = answers'
    OBVIOUS
  <2>8. /\ DOMAIN x = 1..(m + 3) /\ DOMAIN answers = 1..m /\ \A i \in 1..m : x[i] = answers[i]
        /\ x[m + 1] = a /\ x[m + 2] = b /\ x[m + 3] = c
    <3>1. PICK y \in Seq(Replies(n)) : y = answers
      BY <1>3
    <3>2. x = y \o z /\ Len(y) = m /\ Len(z) = 3
      BY <2>3, <2>4, <2>6, <2>7, <3>1
    <3>3. Len(x) = m + 3 /\ x \in Seq(Replies(n)) /\ (\A i \in 1..m : x[i] = y[i]) /\ \A i \in 1..3 : x[m + i] = z[i]
      <4>1. PICK S : S = Replies(n)
        OBVIOUS
      <4>2. PICK j \in Nat : j = 3
        OBVIOUS
      <4>3. y \in Seq(S) /\ z \in Seq(S) /\ Len(z) = j
        BY <2>4, <3>2, <4>1, <4>2
      <4>4. x = Behind(y, z)
        BY <3>2 DEF Behind
      <4>5. Len(y) = m
        BY <3>2
      <4>6. x \in Seq(S) /\ Joined(x, y, z, m, j)
        BY <4>3, <4>4, <4>5, JoinIs
      <4>7. QED
        BY <4>1, <4>2, <4>6 DEF Joined
    <3>4. 1 \in 1..3 /\ 2 \in 1..3 /\ 3 \in 1..3
      OBVIOUS
    <3>5. x[m + 1] = a /\ x[m + 2] = b /\ x[m + 3] = c
      BY <2>4, <3>3, <3>4
    <3>6. QED
      BY <3>1, <3>2, <3>3, <3>5
  <2>9. InOrder(answers) => InOrder(x)
    <3>1. ASSUME InOrder(answers), NEW i \in DOMAIN x, NEW j \in DOMAIN x, j = i + 1
          PROVE  /\ x[j].kind = "logs" => x[i].kind = "ranks"
                 /\ x[j].kind = "ranks" => x[i].kind = "count"
      <4>1. j <= m \/ j = m + 1 \/ j = m + 2 \/ j = m + 3
        BY <2>8
      <4>2. CASE j <= m
        <5>1. i \in DOMAIN answers /\ j \in DOMAIN answers /\ x[i] = answers[i] /\ x[j] = answers[j]
          BY <2>8, <3>1, <4>2
        <5>2. QED
          BY <3>1, <5>1 DEF InOrder
      <4>3. CASE j = m + 1
        BY <2>5, <2>8, <4>3
      <4>4. CASE j = m + 2
        <5>1. i = m + 1
          BY <2>8, <3>1, <4>4
        <5>2. QED
          BY <2>5, <2>8, <4>4, <5>1
      <4>5. CASE j = m + 3
        <5>1. i = m + 2
          BY <2>8, <3>1, <4>5
        <5>2. QED
          BY <2>5, <2>8, <4>5, <5>1
      <4>6. QED
        BY <4>1, <4>2, <4>3, <4>4, <4>5
    <3>2. QED
      BY <3>1 DEF InOrder
  <2>10. NoDel(sent) /\ Within(answers, Written) => Within(x, Written)
    <3>1. NoDel(sent) => DOMAIN db.rows \subseteq DOMAIN Written.rows
      BY <1>3, SavedGrows DEF Written
    <3>2. ASSUME NEW i \in DOMAIN x
          PROVE  (i \in DOMAIN answers /\ x[i] = answers[i]) \/ x[i] = a \/ x[i] = b \/ x[i] = c
      <4>1. i \in 1..m \/ i = m + 1 \/ i = m + 2 \/ i = m + 3
        BY <2>8
      <4>2. QED
        BY <2>8, <4>1
    <3>3. QED
      BY <2>5, <3>1, <3>2 DEF Within
  <2>11. CASE ~NoDel(sent)
    <3>1. ~Kept'
      BY <1>1, <2>11 DEF Following, Kept, Sound
    <3>2. QED
      BY <3>1 DEF Following
  <2>12. CASE NoDel(sent)
    <3>1. InOrder(answers) /\ Within(answers, Written) => (InOrder(answers) /\ Within(answers, Written))'
      BY <1>9, <2>7, <2>9, <2>10, <2>12 DEF InOrder, Within
    <3>2. answers' = << >> \/ (answers # << >> /\ Head(answers') = Head(answers)) \/ Head(answers').kind = "count"
      <4>1. CASE answers = << >>
        <5>1. m = 0 /\ x[1] = a
          BY <2>6, <2>8, <4>1
        <5>2. Head(x) = a
          BY <5>1
        <5>3. QED
          BY <2>5, <2>7, <5>2
      <4>2. CASE answers # << >>
        <5>1. m # 0
          BY <1>3, <2>6, <4>2
        <5>2. x[1] = answers[1]
          BY <2>8, <5>1
        <5>3. QED
          BY <2>7, <4>2, <5>2
      <4>3. QED
        BY <4>1, <4>2
    <3>3. game'.load_log = game.load_log
      BY <1>1
    <3>4. QED
      BY <1>1, <1>9, <1>10, <3>1, <3>2, <3>3, FollowStays
  <2>13. QED
    BY <2>11, <2>12
<1>13. QED
  BY <1>11, <1>12

\* The next answer.
LEMMA NextAnswer ==
  ASSUME NEW S, NEW q \in Seq(S), q # << >>, InOrder(q), NEW t, Within(q, t)
  PROVE  /\ InOrder(Tail(q)) /\ Within(Tail(q), t)
         /\ Head(q).kind = "count" /\ Tail(q) # << >> => Head(Tail(q)).kind # "logs"
         /\ Head(q).kind = "ranks" /\ Tail(q) # << >> => Head(Tail(q)).kind # "ranks"
         /\ Head(q).kind = "ranks" => DOMAIN Head(q).rows \subseteq DOMAIN t.rows
<1>1. PICK l \in Nat : l = Len(q)
  OBVIOUS
<1>2. PICK r : r = Tail(q)
  OBVIOUS
<1>3. l # 0 /\ DOMAIN q = 1..l /\ Head(q) = q[1]
  BY <1>1
<1>4. DOMAIN r = 1..(l - 1) /\ \A i \in 1..(l - 1) : r[i] = q[i + 1]
  BY <1>1, <1>2, <1>3
<1>5. InOrder(r)
  <2>1. ASSUME NEW i \in DOMAIN r, NEW j \in DOMAIN r, j = i + 1
        PROVE  /\ r[j].kind = "logs" => r[i].kind = "ranks"
               /\ r[j].kind = "ranks" => r[i].kind = "count"
    <3>1. i + 1 \in DOMAIN q /\ j + 1 \in DOMAIN q /\ j + 1 = (i + 1) + 1 /\ r[i] = q[i + 1] /\ r[j] = q[j + 1]
      BY <1>3, <1>4, <2>1
    <3>2. QED
      BY <3>1 DEF InOrder
  <2>2. QED
    BY <2>1 DEF InOrder
<1>6. Within(r, t)
  <2>1. \A i \in DOMAIN r : i + 1 \in DOMAIN q /\ r[i] = q[i + 1]
    BY <1>3, <1>4
  <2>2. QED
    BY <2>1 DEF Within
<1>7. ASSUME r # << >>
      PROVE  /\ Head(q).kind = "count" => Head(r).kind # "logs"
             /\ Head(q).kind = "ranks" => Head(r).kind # "ranks"
  <2>1. r \in Seq(S) /\ Len(r) = l - 1 /\ Len(r) # 0
    BY <1>1, <1>2, <1>3, <1>7
  <2>2. 1 \in DOMAIN q /\ 2 \in DOMAIN q /\ 2 = 1 + 1 /\ Head(r) = r[1] /\ r[1] = q[2]
    BY <1>3, <1>4, <1>7, <2>1
  <2>3. /\ q[2].kind = "logs" => q[1].kind = "ranks"
        /\ q[2].kind = "ranks" => q[1].kind = "count"
    BY <2>2 DEF InOrder
  <2>4. QED
    BY <1>3, <2>2, <2>3
<1>8. Head(q).kind = "ranks" => DOMAIN Head(q).rows \subseteq DOMAIN t.rows
  <2>1. 1 \in DOMAIN q
    BY <1>3
  <2>2. QED
    BY <1>3, <2>1 DEF Within
<1>9. QED
  BY <1>2, <1>5, <1>6, <1>7, <1>8

\* What the handler of an answer leaves: it writes nothing.
LEMMA AnswerFollow ==
  ASSUME TypeInv, Following, answers # << >>, answers' = Tail(answers), UNCHANGED <<db, up>>,
         NEW w, IsMem(w), w.out = << >>, NEW marks, Leaves(w, marks),
         Kept /\ "overwritten" \notin marks =>
           \/ Sane(w)
           \/ /\ Blank /\ Head(answers).kind = "count" /\ w.count = Written.count
              /\ w.info = game.info /\ w.rank_map = game.rank_map /\ w.id_rank = game.id_rank /\ w.load_log = game.load_log
  PROVE  Following'
<1>1. SUFFICES ASSUME Kept'
               PROVE  NoDel(sent)' /\ InOrder(answers)' /\ Within(answers, Written)' /\ (Blank \/ Sane(game))'
  BY DEF Following
<1>2. Kept /\ "overwritten" \notin marks
  BY <1>1 DEF Kept, Sound, Leaves
<1>3. PICK n \in Nat : n = Most
  BY RoomNow
<1>4. sent \in Seq(Messages(n)) /\ answers \in Seq(Replies(n))
  BY <1>3 DEF TypeInv
<1>5. sent' = sent
  <2>1. sent' = IF up THEN sent \o << >> ELSE sent
    BY DEF Leaves
  <2>2. sent \o << >> = sent
    BY <1>4
  <2>3. QED
    BY <2>1, <2>2
<1>6. Written' = Written
  BY <1>5 DEF Written
<1>7. NoDel(sent) /\ InOrder(answers) /\ Within(answers, Written)
  BY <1>2 DEF Following
<1>8. /\ InOrder(Tail(answers)) /\ Within(Tail(answers), Written)
      /\ Head(answers).kind = "count" /\ Tail(answers) # << >> => Head(Tail(answers)).kind # "logs"
  BY <1>4, <1>7, NextAnswer
<1>9. NoDel(sent') /\ InOrder(answers') /\ Within(answers', Written')
  BY <1>5, <1>6, <1>7, <1>8
<1>10. /\ game'.info = w.info /\ game'.rank_map = w.rank_map /\ game'.id_rank = w.id_rank
       /\ game'.load_log = w.load_log /\ game'.count = w.count /\ game'.out = << >>
  BY LeftIs
<1>11. CASE Sane(w)
  <2>1. Stored(game)' = Stored(w)
    BY <1>6, <1>10 DEF Stored
  <2>2. Sane(game)'
    BY <1>10, <1>11, <2>1 DEF Sane, Placed, Bears, Spaced, Follows, get_rank_id
  <2>3. QED
    BY <1>9, <2>2 DEF NoDel, InOrder, Within
<1>12. CASE ~Sane(w)
  <2>1. /\ Blank /\ Head(answers).kind = "count" /\ w.count = Written.count
        /\ w.info = game.info /\ w.rank_map = game.rank_map /\ w.id_rank = game.id_rank /\ w.load_log = game.load_log
    BY <1>2, <1>12
  <2>2. Blank'
    BY <1>6, <1>8, <1>10, <2>1 DEF Blank
  <2>3. QED
    BY <1>9, <2>2 DEF NoDel, InOrder, Within
<1>13. QED
  BY <1>11, <1>12

\* The rows that are loaded into an empty memory are the memory's ranks.
LEMMA LoadedBlank ==
  ASSUME TypeInv, Blank, NEW rows \in Tables(Most), rows = Written.rows, game.count = Written.count,
         NEW f, IsOwners(f, rows), NEW w, IsLoaded(w, game, f, rows)
  PROVE  Whole(w)
<1>1. IsMem(game) /\ game.out = << >>
  BY DEF TypeInv, MemOK
<1>2. /\ w.rank_map = Over(f, game.rank_map) /\ w.id_rank = Over(rows, game.id_rank)
      /\ w.info = game.info /\ w.count = game.count /\ w.out = game.out
  BY <1>1, LoadedIs
<1>3. DOMAIN game.rank_map = {} /\ DOMAIN game.id_rank = {} /\ DOMAIN game.info = {}
  BY DEF Blank
<1>4. /\ DOMAIN w.rank_map = DOMAIN f /\ \A r \in DOMAIN f : w.rank_map[r] = f[r]
      /\ DOMAIN w.id_rank = DOMAIN rows /\ \A id \in DOMAIN rows : w.id_rank[id] = rows[id]
  BY <1>2, <1>3 DEF Over
<1>5. /\ DOMAIN rows \subseteq Players
      /\ \A p \in DOMAIN rows : rows[p] <= Reach(w.count)
      /\ \A p, q \in DOMAIN rows : rows[p] = rows[q] => p = q
  BY <1>2 DEF Blank, RowsApart
<1>6. /\ DOMAIN f = Range(rows) /\ \A r \in DOMAIN f : f[r] \in DOMAIN rows /\ rows[f[r]] = r
      /\ \A id \in DOMAIN rows : rows[id] \in Range(rows)
  BY DEF IsOwners, Range
<1>7. Placed(w)
  <2>1. ASSUME NEW id \in DOMAIN rows
        PROVE  rows[id] \in DOMAIN f /\ f[rows[id]] = id
    BY <1>5, <1>6
  <2>2. QED
    BY <1>4, <2>1 DEF Placed
<1>8. Bears(w)
  BY <1>2, <1>3 DEF Bears
<1>9. Spaced(w)
  <2>1. ASSUME NEW r \in DOMAIN f
        PROVE  r <= Reach(w.count)
    BY <1>5, <1>6
  <2>2. QED
    BY <1>4, <2>1 DEF Spaced
<1>10. Follows(w, Stored(w))
  <2>1. Stored(w) = Written
    BY <1>1, <1>2, SavedNone DEF Stored
  <2>2. \A p : RankIn(rows, p) = get_rank_id(w, p)
    BY <1>4 DEF get_rank_id, RankIn
  <2>3. QED
    BY <1>2, <1>5, <2>1, <2>2 DEF Follows
<1>11. QED
  BY <1>7, <1>8, <1>9, <1>10 DEF Whole

\* Rows no older than the memory's leave its ranks as they are.
LEMMA LoadedSame ==
  ASSUME TypeInv, Sane(game), NEW rows \in Tables(Most), DOMAIN rows \subseteq DOMAIN Written.rows, ~Older(rows),
         NEW f, IsOwners(f, rows), NEW w, IsLoaded(w, game, f, rows)
  PROVE  /\ w.info = game.info /\ w.count = game.count /\ w.out = game.out /\ w.user = game.user
         /\ DOMAIN w.id_rank = DOMAIN game.id_rank
         /\ \A id \in DOMAIN game.id_rank : w.id_rank[id] = game.id_rank[id]
         /\ DOMAIN w.rank_map = DOMAIN game.rank_map
         /\ \A r \in DOMAIN game.rank_map : w.rank_map[r] = game.rank_map[r]
<1>1. IsMem(game) /\ game.out = << >>
  BY DEF TypeInv, MemOK
<1>2. /\ w.rank_map = Over(f, game.rank_map) /\ w.id_rank = Over(rows, game.id_rank)
      /\ w.info = game.info /\ w.count = game.count /\ w.out = game.out /\ w.user = game.user
  BY <1>1, LoadedIs
<1>3. game.id_rank # << >>
  BY DEF Sane
<1>4. ASSUME NEW p \in DOMAIN rows
      PROVE  p \in DOMAIN game.id_rank /\ game.id_rank[p] = rows[p] /\ rows[p] \in DOMAIN game.rank_map /\ game.rank_map[rows[p]] = p
  <2>1. p \in DOMAIN Written.rows /\ Written.rows[p] \in 1..Reach(Most)
    <3>1. Written.rows \in Tables(Most)
      BY WrittenOK DEF TablesOK
    <3>2. p \in DOMAIN Written.rows
      BY <1>4
    <3>3. QED
      BY <3>1, <3>2, TablesAre
  <2>2. p \in Players /\ RankIn(Written.rows, p) = get_rank_id(game, p)
    <3>1. Follows(game, Written)
      BY <1>1, WrittenOK DEF Sane
    <3>2. QED
      BY <2>1, <3>1 DEF Follows
  <2>3. get_rank_id(game, p) # 0
    BY <2>1, <2>2 DEF RankIn
  <2>4. p \in DOMAIN game.id_rank
    BY <2>3 DEF get_rank_id, RankIn
  <2>5. game.id_rank[p] = rows[p]
    BY <1>3, <1>4, <2>4 DEF Older
  <2>6. QED
    BY <2>4, <2>5 DEF Sane, Placed
<1>5. /\ DOMAIN w.id_rank = DOMAIN game.id_rank
      /\ \A id \in DOMAIN game.id_rank : w.id_rank[id] = game.id_rank[id]
  BY <1>2, <1>4 DEF Over
<1>6. DOMAIN f = Range(rows) /\ \A r \in DOMAIN f : f[r] \in DOMAIN rows /\ rows[f[r]] = r
  BY DEF IsOwners
<1>7. \A r \in DOMAIN f : r \in DOMAIN game.rank_map /\ game.rank_map[r] = f[r]
  BY <1>4, <1>6
<1>8. /\ DOMAIN w.rank_map = DOMAIN game.rank_map
      /\ \A r \in DOMAIN game.rank_map : w.rank_map[r] = game.rank_map[r]
  BY <1>2, <1>7 DEF Over
<1>9. QED
  BY <1>2, <1>5, <1>8

LEMMA LoadedSane ==
  ASSUME TypeInv, Sane(game), NEW rows \in Tables(Most), DOMAIN rows \subseteq DOMAIN Written.rows, ~Older(rows),
         NEW f, IsOwners(f, rows), NEW w, IsLoaded(w, game, f, rows)
  PROVE  Sane(w)
<1>1. /\ w.info = game.info /\ w.count = game.count /\ w.out = game.out
      /\ DOMAIN w.id_rank = DOMAIN game.id_rank
      /\ \A id \in DOMAIN game.id_rank : w.id_rank[id] = game.id_rank[id]
      /\ DOMAIN w.rank_map = DOMAIN game.rank_map
      /\ \A r \in DOMAIN game.rank_map : w.rank_map[r] = game.rank_map[r]
  BY LoadedSame
<1>2. \A id : get_rank_id(w, id) = get_rank_id(game, id)
  BY <1>1 DEF get_rank_id, RankIn
<1>3. Stored(w) = Stored(game)
  BY <1>1 DEF Stored
<1>4. DOMAIN w.id_rank # {} /\ Placed(w)
  BY <1>1 DEF Sane, Placed
<1>5. Bears(w) /\ Spaced(w)
  BY <1>1, <1>2 DEF Sane, Bears, Spaced
<1>6. Follows(w, Stored(w))
  BY <1>1, <1>2, <1>3 DEF Sane, Follows
<1>7. QED
  BY <1>4, <1>5, <1>6 DEF Sane

LEMMA AnsweredFollow ==
  ASSUME TypeInv, Following, Answered
  PROVE  Following'
<1>1. PICK m : m = Head(answers)
  OBVIOUS
<1>2. /\ answers # << >> /\ answers' = Tail(answers) /\ UNCHANGED <<fights, fight_id, saved, db, up, faults>>
      /\ \/ m.kind = "count" /\ PRServerInfoList(m.n)
         \/ m.kind = "ranks" /\ LoadData(m.rows)
         \/ m.kind = "logs" /\ LoadLog(m.logs)
  BY <1>1 DEF Answered
<1>3. PICK n : n = Most
  OBVIOUS
<1>4. n \in Nat /\ Room(n) /\ MemOK(game, n) /\ answers \in Seq(Replies(n)) /\ IsMem(game) /\ game.out = << >>
  BY <1>3, RoomNow DEF TypeInv, MemOK
<1>5. m \in Replies(n)
  BY <1>1, <1>2, <1>4
<1>6. /\ m.kind = "count" => m.n \in 0..n
      /\ m.kind = "ranks" => m.rows \in Tables(n)
      /\ m.kind = "logs"  => m.logs \subseteq Players
  BY <1>5, ReplyIs
<1>7. Kept => (Blank \/ Sane(game)) /\ (m.kind = "ranks" => DOMAIN m.rows \subseteq DOMAIN Written.rows)
  <2>1. SUFFICES ASSUME Kept
                 PROVE  (Blank \/ Sane(game)) /\ (m.kind = "ranks" => DOMAIN m.rows \subseteq DOMAIN Written.rows)
    OBVIOUS
  <2>2. InOrder(answers) /\ Within(answers, Written) /\ (Blank \/ Sane(game))
    BY <2>1 DEF Following
  <2>3. QED
    BY <1>1, <1>2, <1>4, <2>2, NextAnswer
<1>8. Sane(game) => game.id_rank # << >>
  BY DEF Sane
<1>9. CASE m.kind = "count" /\ PRServerInfoList(m.n)
  <2>1. PICK w, marks : /\ w = [game EXCEPT !.count = m.n]
                        /\ marks = (IF OlderCount(m.n) THEN {"overwritten"} ELSE {}) /\ Leaves(w, marks)
    BY <1>9 DEF PRServerInfoList
  <2>2. /\ IsMem(w) /\ w.count = m.n /\ w.info = game.info /\ w.rank_map = game.rank_map /\ w.id_rank = game.id_rank
        /\ w.load_log = game.load_log /\ w.out = << >>
    BY <1>4, <2>1 DEF IsMem
  <2>3. ASSUME Kept, "overwritten" \notin marks
        PROVE  \/ Sane(w)
               \/ /\ Blank /\ Head(answers).kind = "count" /\ w.count = Written.count
                  /\ w.info = game.info /\ w.rank_map = game.rank_map /\ w.id_rank = game.id_rank /\ w.load_log = game.load_log
    <3>1. ~OlderCount(m.n)
      BY <2>1, <2>3
    <3>2. CASE Sane(game)
      <4>1. m.n = game.count
        BY <1>8, <3>1, <3>2 DEF OlderCount
      <4>2. Stored(w) = Stored(game)
        BY <1>4, <2>2 DEF Stored
      <4>3. Bears(w)
        BY <2>2, <3>2 DEF Sane, Bears, get_rank_id
      <4>4. Sane(w)
        BY <2>2, <3>2, <4>1, <4>2, <4>3, SaneSame
      <4>5. QED
        BY <4>4
    <3>3. CASE Blank
      <4>1. m.n = Written.count
        BY <3>1, <3>3 DEF OlderCount, Blank
      <4>2. QED
        BY <1>1, <1>9, <2>2, <3>3, <4>1
    <3>4. QED
      BY <1>7, <2>3, <3>2, <3>3
  <2>4. QED
    BY <1>2, <2>1, <2>2, <2>3, AnswerFollow
<1>10. CASE m.kind = "ranks" /\ LoadData(m.rows)
  <2>1. PICK rows : rows = m.rows
    OBVIOUS
  <2>2. rows \in Tables(n) /\ LoadData(rows)
    BY <1>6, <1>10, <2>1
  <2>3. PICK f, w, marks : /\ IsOwners(f, rows) /\ IsLoaded(w, game, f, rows)
                           /\ marks = (IF Older(rows) THEN {"overwritten"} ELSE {}) /\ Leaves(CreateRank(w), marks)
    BY <2>2 DEF LoadData, IsOwners, IsLoaded
  <2>4. MemOK(w, n) /\ w.out = << >>
    BY <1>4, <2>2, <2>3, LoadedKeeps, LoadedIs
  <2>5. PICK v : v = CreateRank(w)
    OBVIOUS
  <2>6. /\ Grown(w, v) /\ DOMAIN v.id_rank # {}
        /\ \A r \in DOMAIN v.rank_map \ DOMAIN w.rank_map : r <= Reach(w.count)
    BY <1>4, <2>4, <2>5, CreatedGrown
  <2>7. IsMem(v) /\ v.out = << >> /\ Leaves(v, marks)
    BY <2>3, <2>4, <2>5, <2>6 DEF Grown
  <2>8. ASSUME Kept, "overwritten" \notin marks
        PROVE  Sane(v)
    <3>1. ~Older(rows) /\ DOMAIN rows \subseteq DOMAIN Written.rows
      BY <1>7, <1>10, <2>1, <2>3, <2>8
    <3>2. Whole(w)
      <4>1. CASE Sane(game)
        <5>1. Sane(w)
          BY <1>3, <2>2, <2>3, <3>1, <4>1, LoadedSane
        <5>2. QED
          BY <5>1 DEF Sane, Whole
      <4>2. CASE Blank
        <5>1. game.count = Written.count
          BY <1>1, <1>2, <1>10, <4>2 DEF Blank
        <5>2. rows = Written.rows
          BY <3>1, <4>2 DEF Older, Blank
        <5>3. QED
          BY <1>3, <2>2, <2>3, <4>2, <5>1, <5>2, LoadedBlank
      <4>3. QED
        BY <1>7, <2>8, <4>1, <4>2
    <3>3. Whole(v)
      BY <1>4, <2>4, <2>6, <3>2, GrownWhole
    <3>4. QED
      BY <2>6, <3>3 DEF Whole, Sane
  <2>9. QED
    BY <1>2, <2>7, <2>8, AnswerFollow
<1>11. CASE m.kind = "logs" /\ LoadLog(m.logs)
  <2>1. PICK x : x = Over(game.info, [p \in m.logs |-> EmptyInfo])
    OBVIOUS
  <2>2. PICK w : w = [game EXCEPT !.info = x, !.load_log = game.load_log + 1]
    OBVIOUS
  <2>3. PICK marks : marks = {}
    OBVIOUS
  <2>4. Leaves(w, marks)
    BY <1>11, <2>1, <2>2, <2>3 DEF LoadLog
  <2>5. /\ IsMem(w) /\ w.info = x /\ w.count = game.count /\ w.rank_map = game.rank_map /\ w.id_rank = game.id_rank
        /\ w.out = << >>
    BY <1>4, <2>2 DEF IsMem
  <2>6. \A q \in DOMAIN x : (q \in DOMAIN game.info /\ x[q] = game.info[q]) \/ x[q].cur = 0
    BY <2>1 DEF Over, EmptyInfo
  <2>7. ASSUME Kept
        PROVE  Sane(w)
    <3>1. ~Blank
      BY <1>1, <1>2, <1>11 DEF Blank
    <3>2. Sane(game)
      BY <1>7, <2>7, <3>1
    <3>3. Bears(w)
      BY <2>5, <2>6, <3>2 DEF Sane, Bears, get_rank_id
    <3>4. Stored(w) = Stored(game)
      BY <1>4, <2>5 DEF Stored
    <3>5. QED
      BY <2>5, <3>2, <3>3, <3>4, SaneSame
  <2>8. QED
    BY <1>2, <2>4, <2>5, <2>7, AnswerFollow
<1>12. QED
  BY <1>2, <1>9, <1>10, <1>11

\* A process that ends while only loads are on their way loses nothing.
LEMMA CutFollows ==
  ASSUME TypeInv, NEW k \in 0..Len(sent), NEW torn \in BOOLEAN, torn => Torn(k), Lost(k) = {}
  PROVE  /\ Saved(db, Cut(k, torn)) = Written
         /\ NoDel(sent) => NoDel(Cut(k, torn))
<1>1. PICK n \in Nat : n = Most
  BY RoomNow
<1>2. sent \in Seq(Messages(n))
  BY <1>1 DEF TypeInv
<1>3. PICK l \in Nat : l = Len(sent)
  BY <1>2
<1>4. k \in 0..l /\ \A i \in (k + 1)..l : sent[i] = Load
  BY <1>3 DEF Lost
<1>5. ~torn
  <2>1. ASSUME torn PROVE FALSE
    <3>1. k + 1 \in (k + 1)..l /\ sent[k + 1].kind = "row"
      BY <1>3, <1>4, <2>1 DEF Torn
    <3>2. sent[k + 1] = Load
      BY <1>4, <3>1
    <3>3. QED
      BY <3>1, <3>2 DEF Load
  <2>2. QED
    BY <2>1
<1>6. PICK q : q = SubSeq(sent, 1, k)
  OBVIOUS
<1>7. PICK r : r = SubSeq(sent, k + 1, l)
  OBVIOUS
<1>8. /\ q \in Seq(Messages(n)) /\ Len(q) = k /\ \A i \in 1..k : q[i] = sent[i]
      /\ r \in Seq(Messages(n)) /\ Len(r) = l - k /\ \A i \in 1..(l - k) : r[i] = sent[i + k]
      /\ sent = Behind(q, r)
  <2>1. PICK S : S = Messages(n)
    OBVIOUS
  <2>2. PICK x \in Seq(S) : x = sent
    BY <1>2, <2>1
  <2>3. l = Len(x) /\ k \in 0..l /\ q = SubSeq(x, 1, k) /\ r = SubSeq(x, k + 1, l)
    BY <1>3, <1>4, <1>6, <1>7, <2>2
  <2>4. Halves(S, x, l, k, q, r)
    BY <2>3, InTwo
  <2>5. QED
    BY <2>1, <2>2, <2>4 DEF Halves
<1>9. Cut(k, torn) = q
  <2>1. Cut(k, torn) = q \o << >>
    BY <1>5, <1>6 DEF Cut
  <2>2. QED
    BY <1>8, <2>1
<1>10. Saved(db, Behind(q, r)) = Saved(Saved(db, q), r)
  BY <1>8, SavedMore
<1>11. \A t : Saved(t, r) = t
  <2>1. \A i \in DOMAIN r : i + k \in (k + 1)..l /\ r[i] = sent[i + k]
    BY <1>4, <1>8
  <2>2. \A i \in DOMAIN r : r[i] = Load
    BY <1>4, <2>1
  <2>3. QED
    BY <1>8, <2>2, SavedLoads
<1>12. Saved(db, q) = Written
  BY <1>8, <1>10, <1>11 DEF Written
<1>13. NoDel(sent) => NoDel(q)
  <2>1. \A i \in DOMAIN q : i \in DOMAIN sent /\ q[i] = sent[i]
    BY <1>2, <1>3, <1>4, <1>8
  <2>2. QED
    BY <2>1 DEF NoDel
<1>14. QED
  BY <1>9, <1>12, <1>13

LEMMA RealdbEndsFollow ==
  ASSUME TypeInv, Following, RealdbEnds
  PROVE  Following'
<1>1. /\ sent' = << >> /\ UNCHANGED game
      /\ \E k \in 0..Len(sent), torn \in BOOLEAN :
           (torn => Torn(k)) /\ db' = Saved(db, Cut(k, torn)) /\ spoilt' = spoilt \cup Lost(k)
      /\ \E k \in 0..Len(answers) : answers' = SubSeq(answers, 1, k)
  BY DEF RealdbEnds
<1>2. PICK k \in 0..Len(sent), torn \in BOOLEAN :
        (torn => Torn(k)) /\ db' = Saved(db, Cut(k, torn)) /\ spoilt' = spoilt \cup Lost(k)
  BY <1>1
<1>3. PICK j \in 0..Len(answers) : answers' = SubSeq(answers, 1, j)
  BY <1>1
<1>4. CASE Lost(k) # {}
  <2>1. ~Kept'
    BY <1>2, <1>4 DEF Lost, Kept, Sound
  <2>2. QED
    BY <2>1 DEF Following
<1>5. CASE Lost(k) = {}
  <2>1. Saved(db, Cut(k, torn)) = Written
    BY <1>2, <1>5, CutFollows
  <2>2. Written' = Written
    <3>1. PICK t : t = db'
      OBVIOUS
    <3>2. Saved(t, << >>) = t
      BY SavedNone
    <3>3. QED
      BY <1>1, <1>2, <2>1, <3>1, <3>2 DEF Written
  <2>3. NoDel(sent')
    BY <1>1 DEF NoDel
  <2>4. PICK m \in Nat : m = Len(answers)
    BY DEF TypeInv
  <2>5. answers' = [i \in 1..j |-> answers[i]] /\ j \in 0..m /\ DOMAIN answers = 1..m
    <3>1. j \in 0..m /\ DOMAIN answers = 1..m
      BY <2>4 DEF TypeInv
    <3>2. answers' = [i \in 1..j |-> answers[i]]
      BY <1>3, <3>1 DEF SubSeq
    <3>3. QED
      BY <3>1, <3>2
  <2>6. DOMAIN answers' = 1..j /\ \A i \in 1..j : i \in DOMAIN answers /\ answers'[i] = answers[i]
    BY <2>5
  <2>7. InOrder(answers) /\ Within(answers, Written) => (InOrder(answers) /\ Within(answers, Written))'
    BY <2>2, <2>6 DEF InOrder, Within
  <2>8. answers' = << >> \/ (answers # << >> /\ Head(answers') = Head(answers)) \/ Head(answers').kind = "count"
    <3>1. CASE j = 0
      BY <2>5, <3>1
    <3>2. CASE j # 0
      <4>1. 1 \in 1..j /\ 1 \in DOMAIN answers /\ answers'[1] = answers[1]
        BY <2>5, <2>6, <3>2
      <4>2. answers # << >>
        BY <4>1
      <4>3. QED
        BY <4>1, <4>2
    <3>3. QED
      BY <3>1, <3>2
  <2>9. game'.load_log \in {0, game.load_log} /\ spoilt \subseteq spoilt'
    BY <1>1, <1>2
  <2>10. NoDel(sent) => NoDel(sent)'
    BY <2>3 DEF NoDel
  <2>11. QED
    BY <1>1, <2>2, <2>7, <2>8, <2>9, <2>10, FollowStays
<1>6. QED
  BY <1>4, <1>5

\* The tables of a memory that is gone are those of a ladder.
LEMMA RowsOfSane ==
  ASSUME TypeInv, Sane(game)
  PROVE  RowsApart(Written)
<1>1. PICK n \in Nat : n = Most
  BY RoomNow
<1>2. MemOK(game, n) /\ game.out = << >>
  BY <1>1 DEF TypeInv
<1>3. PICK t : t = Written
  OBVIOUS
<1>4. t.rows \in Tables(n) /\ Follows(game, t)
  BY <1>1, <1>2, <1>3, WrittenOK DEF TablesOK, Sane
<1>5. \A p \in DOMAIN t.rows : t.rows[p] \in 1..Reach(n)
  BY <1>4, TablesAre
<1>6. t.count = game.count /\ DOMAIN t.rows \subseteq Players
  BY <1>4 DEF Follows
<1>7. ASSUME NEW p \in DOMAIN t.rows
      PROVE  /\ t.rows[p] = get_rank_id(game, p) /\ t.rows[p] <= Reach(game.count)
             /\ game.rank_map[t.rows[p]] = p
  <2>1. p \in Players /\ t.rows[p] = get_rank_id(game, p) /\ t.rows[p] # 0
    BY <1>4, <1>5, <1>6 DEF Follows, RankIn
  <2>2. QED
    BY <1>2, <2>1, PlaceOf
<1>8. \A p, q \in DOMAIN t.rows : t.rows[p] = t.rows[q] => p = q
  BY <1>7
<1>9. QED
  BY <1>3, <1>6, <1>7, <1>8 DEF RowsApart

LEMMA GameEndsFollow ==
  ASSUME TypeInv, Following, GameEnds
  PROVE  Following'
<1>1. /\ game' = Memory(saved) /\ answers' = << >> /\ UNCHANGED db
      /\ \E k \in 0..Len(sent), torn \in BOOLEAN :
           (torn => Torn(k)) /\ sent' = Cut(k, torn) /\ spoilt' = spoilt \cup Lost(k) \cup Rolled
  BY DEF GameEnds
<1>2. PICK k \in 0..Len(sent), torn \in BOOLEAN :
        (torn => Torn(k)) /\ sent' = Cut(k, torn) /\ spoilt' = spoilt \cup Lost(k) \cup Rolled
  BY <1>1
<1>3. SUFFICES ASSUME Kept'
               PROVE  NoDel(sent)' /\ InOrder(answers)' /\ Within(answers, Written)' /\ (Blank \/ Sane(game))'
  BY DEF Following
<1>4. Kept /\ Lost(k) = {}
  BY <1>2, <1>3 DEF Kept, Sound, Lost
<1>5. NoDel(sent) /\ (Blank \/ Sane(game))
  BY <1>4 DEF Following
<1>6. Saved(db, Cut(k, torn)) = Written /\ NoDel(Cut(k, torn))
  BY <1>2, <1>4, <1>5, CutFollows
<1>7. Written' = Written /\ NoDel(sent')
  BY <1>1, <1>2, <1>6 DEF Written
<1>8. RowsApart(Written)
  BY <1>5, RowsOfSane DEF Blank
<1>9. game'.id_rank = << >> /\ game'.rank_map = << >> /\ game'.info = << >> /\ game'.load_log = 0
  BY <1>1 DEF Memory
<1>10. Blank'
  BY <1>1, <1>7, <1>8, <1>9 DEF Blank
<1>11. InOrder(answers') /\ Within(answers', Written')
  BY <1>1 DEF InOrder, Within
<1>12. QED
  BY <1>7, <1>10, <1>11 DEF NoDel, InOrder, Within

LEMMA InitFollow ==
  ASSUME Init
  PROVE  Following
<1>1. /\ game = Memory(saved) /\ sent = << >> /\ answers = << >>
      /\ \E came \in SUBSET Players :
           \E place \in [came -> MAX_CREATE_OPPONENT + 1 .. MAX_CREATE_OPPONENT + Cardinality(came)] :
             IsInjective(place) /\ db = [rows |-> place, logs |-> {}, count |-> Cardinality(came)]
  BY DEF Init
<1>2. PICK came \in SUBSET Players :
        \E place \in [came -> MAX_CREATE_OPPONENT + 1 .. MAX_CREATE_OPPONENT + Cardinality(came)] :
          IsInjective(place) /\ db = [rows |-> place, logs |-> {}, count |-> Cardinality(came)]
  BY <1>1
<1>3. Cardinality(came) \in Nat
  BY ArenaAssumption, FS_Subset, FS_CardinalityType
<1>4. PICK c \in Nat : c = Cardinality(came)
  BY <1>3
<1>5. PICK place \in [came -> MAX_CREATE_OPPONENT + 1 .. MAX_CREATE_OPPONENT + c] :
        IsInjective(place) /\ db = [rows |-> place, logs |-> {}, count |-> c]
  BY <1>2, <1>4
<1>6. Written = db
  BY <1>1, SavedNone DEF Written
<1>7. \A p \in came : place[p] <= Reach(c)
  BY <1>5, ArenaAssumption DEF Reach
<1>8. RowsApart(Written)
  <2>1. db.rows = place /\ db.count = c /\ DOMAIN place = came
    BY <1>5
  <2>2. \A p, q \in came : place[p] = place[q] => p = q
    BY <1>5 DEF IsInjective
  <2>3. QED
    BY <1>6, <1>7, <2>1, <2>2 DEF RowsApart
<1>9. game.id_rank = << >> /\ game.rank_map = << >> /\ game.info = << >> /\ game.load_log = 0
  BY <1>1 DEF Memory
<1>10. Blank
  BY <1>1, <1>8, <1>9 DEF Blank
<1>11. NoDel(sent) /\ InOrder(answers) /\ Within(answers, Written)
  BY <1>1 DEF NoDel, InOrder, Within
<1>12. QED
  BY <1>10, <1>11 DEF Following

\* What leaves alone all that this is about.
LEMMA RestFollow ==
  ASSUME Following, UNCHANGED <<game, db, sent, answers, spoilt>>
  PROVE  Following'
<1>1. Written' = Written
  BY DEF Written
<1>2. Stored(game)' = Stored(game)
  BY <1>1 DEF Stored
<1>3. Sane(game) => Sane(game)'
  BY <1>2 DEF Sane, Placed, Bears, Spaced, Follows, get_rank_id
<1>4. Blank => Blank'
  BY <1>1 DEF Blank
<1>5. Kept' = Kept
  BY DEF Kept, Sound
<1>6. QED
  BY <1>1, <1>3, <1>4, <1>5 DEF Following, NoDel, InOrder, Within

LEMMA StepFollow ==
  ASSUME TypeInv, Following, [Next]_vars
  PROVE  Following'
<1>1. ASSUME NEW p \in Players, PQSingleArenaInfo(p) \/ PQSingleArenaRefresh(p) \/ UpdateLevel(p)
      PROVE  Following'
  BY <1>1, InfoFollow, LevelFollow
<1>2. ASSUME NEW p \in Players, PQFightSingleArenaApply(p) \/ PQCommonFightAuto(p) \/ SaveUser(p)
      PROVE  Following'
  BY <1>2, RestFollow DEF PQFightSingleArenaApply, PQCommonFightAuto, Start, SaveUser
<1>3. CASE PRCommonFightServerEnd
  <2>1. PICK i \in DOMAIN fights, r \in {"won", "lost"} : FightEnds(i, r)
    BY <1>3 DEF PRCommonFightServerEnd
  <2>2. QED
    BY <2>1, EndFollow
<1>4. CASE PQPlayerFightQuit
  <2>1. PICK i \in DOMAIN fights : FightEnds(i, "quit")
    BY <1>4 DEF PQPlayerFightQuit
  <2>2. QED
    BY <2>1, EndFollow
<1>5. CASE UNCHANGED vars
  BY <1>5, RestFollow DEF vars
<1>6. CASE Answered
  BY <1>6, AnsweredFollow
<1>7. CASE Realdb
  BY <1>7, RealdbFollow
<1>8. CASE SEventNetRealDB
  BY <1>8, LinkFollow
<1>9. CASE RealdbEnds
  BY <1>9, RealdbEndsFollow
<1>10. CASE GameEnds
  BY <1>10, GameEndsFollow
<1>11. QED
  BY <1>1, <1>2, <1>3, <1>4, <1>5, <1>6, <1>7, <1>8, <1>9, <1>10 DEF Next

(* Whatever players do at the same time and whatever ends and starts       *)
(* again: with the messages on their way the tables come to have each      *)
(* player at its rank in memory, and the number of players, so that the    *)
(* next server loads the ladder this one had, unless a message was lost or *)
(* older rows were loaded over newer ones.                                 *)
THEOREM TablesFollow == Spec => []RowsFollow
<1>1. Init => Following
  BY InitFollow
<1>2. TypeInv /\ Following /\ [Next]_vars => Following'
  BY StepFollow
<1>3. TypeInv /\ Following => RowsFollow
  <2>1. SUFFICES ASSUME TypeInv, Following, Kept, game.load_log >= 2
                 PROVE  Written.count = game.count /\ \A p \in Players : RankIn(Written.rows, p) = get_rank_id(game, p)
    BY DEF RowsFollow, Kept
  <2>2. ~Blank
    BY <2>1 DEF Blank
  <2>3. Sane(game) /\ Stored(game) = Written
    BY <2>1, <2>2, WrittenOK DEF Following, TypeInv
  <2>4. QED
    BY <2>3 DEF Sane, Follows
<1>4. QED
  BY <1>1, <1>2, <1>3, Typed, PTL DEF Spec

-----------------------------------------------------------------------------
(* One place each.                                                         *)

\* The owner of a place stands there; who has a list has a base that is right;
\* nobody was paid for a rank behind its own.
Whose(w)      == \A r \in DOMAIN w.rank_map : get_rank_id(w, w.rank_map[r]) = r
HasBase(w, p) == w.info[p].cur = get_rank_id(w, p) /\ w.info[p].max = w.user[p].best
Shows(w)      == \A p \in DOMAIN w.info : w.info[p].opps # << >> => HasBase(w, p)
Best(w)       == \A p \in Players : get_rank_id(w, p) # 0 => w.user[p].best \in 1..get_rank_id(w, p)
Climbs(w)     == Whose(w) /\ Shows(w) /\ Best(w)

\* No fakes made, and nobody new but players.
Near(u, w) == w.target_guid = u.target_guid /\ DOMAIN w.id_rank \subseteq DOMAIN u.id_rank \cup Players

\* What leaves the ranks alone, and gives one info that is right or has no list.
LEMMA ClimbPut ==
  ASSUME NEW w, Climbs(w), NEW v, v.rank_map = w.rank_map, v.id_rank = w.id_rank, v.user = w.user,
         NEW p, NEW i, i.opps = << >> \/ (i.cur = get_rank_id(w, p) /\ i.max = w.user[p].best),
         v.info = Put(w.info, p, i)
  PROVE  Climbs(v)
<1>1. \A id : get_rank_id(v, id) = get_rank_id(w, id)
  BY DEF get_rank_id
<1>2. Whose(v) /\ Best(v)
  BY <1>1 DEF Climbs, Whose, Best
<1>3. Shows(v)
  <2>1. ASSUME NEW q \in DOMAIN v.info, v.info[q].opps # << >>
        PROVE  HasBase(v, q)
    <3>1. CASE q = p
      BY <1>1, <2>1, <3>1 DEF Put, HasBase
    <3>2. CASE q # p
      <4>1. q \in DOMAIN w.info /\ v.info[q] = w.info[q]
        BY <2>1, <3>2 DEF Put
      <4>2. HasBase(w, q)
        BY <2>1, <4>1 DEF Climbs, Shows
      <4>3. QED
        BY <1>1, <4>1, <4>2 DEF HasBase
    <3>3. QED
      BY <3>1, <3>2
  <2>2. QED
    BY <2>1 DEF Shows
<1>4. QED
  BY <1>2, <1>3 DEF Climbs

LEMMA LogClimb ==
  ASSUME NEW w, IsMem(w), Climbs(w), NEW p, NEW t, NEW v, v = AddLog(w, p, t)
  PROVE  Climbs(v) /\ Near(w, v) /\ \A q \in DOMAIN w.info : HasBase(w, q) => HasBase(v, q)
<1>1. /\ v.rank_map = w.rank_map /\ v.id_rank = w.id_rank /\ v.user = w.user /\ v.target_guid = w.target_guid
      /\ v.info = IF t \in Players THEN Put(w.info, t, InfoOf(w, t)) ELSE w.info
  BY LogAside
<1>2. PICK i : i = InfoOf(w, t)
  OBVIOUS
<1>3. \A id : get_rank_id(v, id) = get_rank_id(w, id)
  BY <1>1 DEF get_rank_id
<1>4. t \in DOMAIN w.info => i = w.info[t]
  BY <1>2 DEF InfoOf
<1>5. i.opps = << >> \/ (i.cur = get_rank_id(w, t) /\ i.max = w.user[t].best)
  <2>1. CASE t \in DOMAIN w.info
    BY <1>4, <2>1 DEF Climbs, Shows, HasBase
  <2>2. CASE t \notin DOMAIN w.info
    BY <1>2, <2>2 DEF InfoOf, EmptyInfo
  <2>3. QED
    BY <2>1, <2>2
<1>6. Climbs(v)
  <2>1. CASE t \in Players
    BY <1>1, <1>2, <1>5, <2>1, ClimbPut
  <2>2. CASE t \notin Players
    BY <1>1, <1>3, <2>2 DEF Climbs, Whose, Shows, HasBase, Best
  <2>3. QED
    BY <2>1, <2>2
<1>7. \A q \in DOMAIN w.info : v.info[q] = w.info[q]
  BY <1>1, <1>2, <1>4 DEF Put
<1>8. \A q \in DOMAIN w.info : HasBase(w, q) => HasBase(v, q)
  BY <1>1, <1>3, <1>7 DEF HasBase
<1>9. QED
  BY <1>1, <1>6, <1>8 DEF Near

\* The base that an info is given.
LEMMA BaseClimb ==
  ASSUME NEW w, IsMem(w), Climbs(w), NEW p, NEW v, v = SetInfoBase(w, p)
  PROVE  Climbs(v) /\ Near(w, v) /\ HasBase(v, p)
<1>1. PICK i : i = InfoRec(get_rank_id(w, p), w.user[p].best, InfoOf(w, p).opps)
  OBVIOUS
<1>2. v = set_info_data(w, p, i)
  BY <1>1 DEF SetInfoBase, InfoRec
<1>3. /\ v.info = Put(w.info, p, i) /\ v.rank_map = w.rank_map /\ v.id_rank = w.id_rank /\ v.user = w.user
      /\ v.target_guid = w.target_guid
  BY <1>2, InfoIs
<1>4. i.cur = get_rank_id(w, p) /\ i.max = w.user[p].best
  BY <1>1 DEF InfoRec
<1>5. Climbs(v)
  BY <1>3, <1>4, ClimbPut
<1>6. HasBase(v, p)
  BY <1>3, <1>4 DEF HasBase, Put, get_rank_id
<1>7. QED
  BY <1>3, <1>5, <1>6 DEF Near

\* The first reward of one that has no place.
LEMMA FirstClimb ==
  ASSUME NEW n \in Nat, NEW w, MemOK(w, n), Sane(w), Climbs(w), NEW p \in DOMAIN w.info, HasBase(w, p),
         w.info[p].max = 0, NEW v, v = GetFirstReward(w, p)
  PROVE  Climbs(v) /\ Near(w, v) /\ HasBase(v, p)
<1>1. PICK last : last = FirstPlace(w)
  OBVIOUS
<1>2. IsMem(w) /\ p \in Players /\ w.count \in Nat
  BY DEF MemOK
<1>3. last \in Nat /\ last # 0
  <2>1. MAX_CREATE_OPPONENT \in Nat
    BY ArenaAssumption
  <2>2. QED
    BY <1>1, <1>2, <2>1 DEF FirstPlace
<1>4. /\ v.user = Put(w.user, p, PaidUser(w.user[p], last, last))
      /\ v.info = Put(w.info, p, InfoRec(last, last, w.info[p].opps))
      /\ v.rank_map = Put(w.rank_map, last, p) /\ v.id_rank = Put(w.id_rank, p, last)
      /\ v.target_guid = w.target_guid
  BY <1>1, <1>2, FirstIs
<1>5. \A q : get_rank_id(v, q) = IF q = p THEN last ELSE get_rank_id(w, q)
  BY <1>4 DEF get_rank_id, RankIn, Put
<1>6. get_rank_id(w, p) = 0
  <2>1. w.user[p].best = 0
    BY DEF HasBase
  <2>2. get_rank_id(w, p) # 0 => 0 \in 1..get_rank_id(w, p)
    BY <1>2, <2>1 DEF Climbs, Best
  <2>3. QED
    BY <2>2
<1>7. \A r \in DOMAIN w.rank_map : w.rank_map[r] # p
  <2>1. ASSUME NEW r \in DOMAIN w.rank_map, w.rank_map[r] = p PROVE FALSE
    <3>1. r = 0
      BY <1>6, <2>1 DEF Climbs, Whose
    <3>2. r \in 1..Reach(n)
      BY <1>2, <2>1 DEF MemOK, PlacesOK
    <3>3. QED
      BY <3>1, <3>2
  <2>2. QED
    BY <2>1
<1>8. Whose(v)
  <2>1. ASSUME NEW r \in DOMAIN v.rank_map
        PROVE  get_rank_id(v, v.rank_map[r]) = r
    <3>1. CASE r = last
      BY <1>4, <1>5, <3>1 DEF Put
    <3>2. CASE r # last
      <4>1. r \in DOMAIN w.rank_map /\ v.rank_map[r] = w.rank_map[r]
        BY <1>4, <3>2 DEF Put
      <4>2. QED
        BY <1>5, <1>7, <4>1 DEF Climbs, Whose
    <3>3. QED
      BY <3>1, <3>2
  <2>2. QED
    BY <2>1 DEF Whose
<1>9. /\ v.user[p].best = last
      /\ \A q \in Players : q # p => v.user[q] = w.user[q]
  <2>1. DOMAIN w.user = Players
    BY DEF MemOK
  <2>2. PaidUser(w.user[p], last, last).best = last
    BY DEF PaidUser
  <2>3. QED
    BY <1>2, <1>4, <2>1, <2>2 DEF Put
<1>10. HasBase(v, p)
  <2>1. InfoRec(last, last, w.info[p].opps).cur = last /\ InfoRec(last, last, w.info[p].opps).max = last
    BY DEF InfoRec
  <2>2. QED
    BY <1>4, <1>5, <1>9, <2>1 DEF HasBase, Put
<1>11. Shows(v)
  <2>1. ASSUME NEW q \in DOMAIN v.info, v.info[q].opps # << >>
        PROVE  HasBase(v, q)
    <3>1. CASE q = p
      BY <1>10, <3>1
    <3>2. CASE q # p
      <4>1. q \in DOMAIN w.info /\ v.info[q] = w.info[q] /\ q \in Players
        BY <1>4, <2>1, <3>2 DEF Put, MemOK
      <4>2. HasBase(w, q)
        BY <2>1, <4>1 DEF Climbs, Shows
      <4>3. QED
        BY <1>5, <1>9, <3>2, <4>1, <4>2 DEF HasBase
    <3>3. QED
      BY <3>1, <3>2
  <2>2. QED
    BY <2>1 DEF Shows
<1>12. Best(v)
  <2>1. last \in 1..last
    BY <1>3
  <2>2. QED
    BY <1>5, <1>9, <2>1 DEF Climbs, Best
<1>13. Near(w, v)
  BY <1>2, <1>4 DEF Near, Put
<1>14. QED
  BY <1>8, <1>10, <1>11, <1>12, <1>13 DEF Climbs

\* A reward for a record leaves the best rank to the exchange of places.
LEMMA RecordClimb ==
  ASSUME NEW n \in Nat, NEW w, MemOK(w, n), Climbs(w), NEW p \in DOMAIN w.info, HasBase(w, p), NEW r,
         NEW v, v = PaidFor(w, p, r)
  PROVE  Climbs(v) /\ Near(w, v) /\ HasBase(v, p)
<1>1. IsMem(w) /\ DOMAIN w.user = Players /\ DOMAIN w.info \subseteq Players
  BY DEF MemOK
<1>2. PICK u : u = PaidUser(w.user[p], w.user[p].best, r)
  OBVIOUS
<1>3. /\ v.user = Put(w.user, p, u) /\ v.info = w.info /\ v.rank_map = w.rank_map /\ v.id_rank = w.id_rank
      /\ v.target_guid = w.target_guid
  BY <1>1, <1>2, PaidIs
<1>4. \A q \in Players : v.user[q].best = w.user[q].best
  BY <1>1, <1>2, <1>3 DEF PaidUser, Put
<1>5. \A id : get_rank_id(v, id) = get_rank_id(w, id)
  BY <1>3 DEF get_rank_id
<1>6. \A q \in DOMAIN w.info : HasBase(w, q) => HasBase(v, q)
  BY <1>1, <1>3, <1>4, <1>5 DEF HasBase
<1>7. Whose(v) /\ Shows(v) /\ Best(v)
  BY <1>3, <1>4, <1>5, <1>6 DEF Climbs, Whose, Shows, Best
<1>8. QED
  BY <1>3, <1>6, <1>7 DEF Climbs, Near

LEMMA RewardClimb ==
  ASSUME NEW n \in Nat, NEW w, MemOK(w, n), Sane(w), Climbs(w), NEW p \in DOMAIN w.info, HasBase(w, p),
         NEW t, NEW win, NEW v, v = SendBattleReward(w, p, t, win)
  PROVE  Climbs(v) /\ Near(w, v) /\ HasBase(v, p)
<1>1. PICK end : end = Min({w.info[p].cur, get_rank_id(w, t)})
  OBVIOUS
<1>2. \/ v = GetFirstReward(w, p) /\ w.info[p].max = 0
      \/ v = PaidFor(w, p, end)
      \/ v = w
  BY <1>1 DEF SendBattleReward
<1>3. Near(w, w)
  BY DEF Near
<1>4. QED
  BY <1>2, <1>3, FirstClimb, RecordClimb

\* A winner that moves up: both stand where the other stood.
LEMMA UpdateClimb ==
  ASSUME NEW n \in Nat, NEW w, MemOK(w, n), Sane(w), Climbs(w), NEW p \in DOMAIN w.info, HasBase(w, p),
         NEW t, get_rank_id(w, t) # 0, NEW win, NEW v, v = UpdateRank(w, p, t, win)
  PROVE  Climbs(v) /\ Near(w, v) /\ HasBase(v, p)
<1>1. CASE ~MovesUp(w, p, t, win)
  <2>1. v = w
    BY <1>1 DEF UpdateRank
  <2>2. QED
    BY <2>1 DEF Near
<1>2. CASE MovesUp(w, p, t, win)
  <2>1. PICK m : m = w.info[p].cur
    OBVIOUS
  <2>2. PICK h : h = get_rank_id(w, t)
    OBVIOUS
  <2>3. PICK best : best = Min({w.info[p].max, h})
    OBVIOUS
  <2>4. IsMem(w) /\ p \in Players /\ DOMAIN w.info \subseteq Players /\ DOMAIN w.user = Players
    BY DEF MemOK
  <2>5. /\ v.user = Put(w.user, p, BestUser(w.user[p], best))
        /\ v.info = ShownTo(Put(w.info, p, InfoRec(h, best, w.info[p].opps)), t, m)
        /\ v.rank_map = Put(Put(w.rank_map, h, p), m, w.rank_map[h])
        /\ v.id_rank = Put(Put(w.id_rank, p, h), t, m)
        /\ v.target_guid = w.target_guid
    BY <1>2, <2>1, <2>2, <2>3, <2>4, UpdateIs
  <2>6. h \in DOMAIN w.rank_map /\ w.rank_map[h] = t /\ h \in Nat /\ h # 0 /\ t \in DOMAIN w.id_rank
    BY <2>2, PlaceOf
  <2>7. m = get_rank_id(w, p) /\ m > h
    BY <1>2, <2>1, <2>2 DEF MovesUp, HasBase
  <2>8. m \in Nat /\ m # 0 /\ m \in DOMAIN w.rank_map /\ w.rank_map[m] = p
    <3>1. m \in 0..Reach(n)
      BY <2>4, <2>7, OwnPlace
    <3>2. m # 0
      BY <2>6, <2>7, <3>1
    <3>3. QED
      BY <2>7, <3>1, <3>2, PlaceOf
  <2>9. p # t /\ m # h
    BY <2>2, <2>6, <2>7, <2>8
  <2>10. \A q : get_rank_id(v, q) = IF q = t THEN m ELSE IF q = p THEN h ELSE get_rank_id(w, q)
    BY <2>5 DEF get_rank_id, RankIn, Put
  <2>11. w.info[p].max = w.user[p].best /\ w.user[p].best \in 1..m
    BY <2>4, <2>7, <2>8 DEF HasBase, Climbs, Best
  <2>12. best \in 1..h
    <3>1. PICK c \in Nat : c = w.info[p].max /\ c # 0
      BY <2>11
    <3>2. PICK S : S = {c, h}
      OBVIOUS
    <3>3. S \subseteq Nat /\ S # {} /\ best = Min(S)
      BY <2>3, <2>6, <3>1, <3>2
    <3>4. best \in S /\ \A x \in S : best <= x
      BY <3>3, MinIs
    <3>5. QED
      BY <2>6, <3>1, <3>2, <3>4
  <2>13. /\ v.user[p].best = best
         /\ \A q \in Players : q # p => v.user[q] = w.user[q]
    <3>1. BestUser(w.user[p], best).best = best
      BY DEF BestUser
    <3>2. QED
      BY <2>4, <2>5, <3>1 DEF Put
  <2>14. Whose(v)
    <3>1. ASSUME NEW r \in DOMAIN v.rank_map
          PROVE  get_rank_id(v, v.rank_map[r]) = r
      <4>1. CASE r = m
        <5>1. v.rank_map[r] = t
          BY <2>5, <2>6, <4>1 DEF Put
        <5>2. QED
          BY <2>10, <4>1, <5>1
      <4>2. CASE r = h
        <5>1. v.rank_map[r] = p
          BY <2>5, <2>9, <4>2 DEF Put
        <5>2. QED
          BY <2>9, <2>10, <4>2, <5>1
      <4>3. CASE r # m /\ r # h
        <5>1. r \in DOMAIN w.rank_map /\ v.rank_map[r] = w.rank_map[r]
          BY <2>5, <4>3 DEF Put
        <5>2. get_rank_id(w, w.rank_map[r]) = r
          BY <5>1 DEF Climbs, Whose
        <5>3. w.rank_map[r] # p /\ w.rank_map[r] # t
          BY <2>2, <2>7, <4>3, <5>2
        <5>4. QED
          BY <2>10, <5>1, <5>2, <5>3
      <4>4. QED
        BY <4>1, <4>2, <4>3
    <3>2. QED
      BY <3>1 DEF Whose
  <2>15. PICK i : i = InfoRec(h, best, w.info[p].opps)
    OBVIOUS
  <2>16. PICK info : info = Put(w.info, p, i)
    OBVIOUS
  <2>17. i.cur = h /\ i.max = best /\ i.opps = w.info[p].opps
    BY <2>15 DEF InfoRec
  <2>18. DOMAIN info = DOMAIN w.info /\ info[p] = i /\ \A q \in DOMAIN w.info : q # p => info[q] = w.info[q]
    BY <2>16 DEF Put
  <2>19. DOMAIN v.info = DOMAIN w.info /\ v.info[p] = i /\ \A q \in DOMAIN w.info : q # p /\ q # t => v.info[q] = w.info[q]
    <3>1. v.info = ShownTo(info, t, m)
      BY <2>5, <2>15, <2>16
    <3>2. CASE t \in DOMAIN info
      <4>1. PICK j : v.info = Put(info, t, j)
        BY <3>1, <3>2 DEF ShownTo
      <4>2. QED
        BY <2>9, <2>18, <3>2, <4>1 DEF Put
    <3>3. CASE t \notin DOMAIN info
      BY <2>18, <3>1, <3>3 DEF ShownTo
    <3>4. QED
      BY <3>2, <3>3
  <2>20. t \in DOMAIN w.info => v.info[t].cur = m /\ v.info[t].max = w.info[t].max /\ v.info[t].opps = w.info[t].opps
    <3>1. SUFFICES ASSUME t \in DOMAIN w.info
                   PROVE  v.info[t].cur = m /\ v.info[t].max = w.info[t].max /\ v.info[t].opps = w.info[t].opps
      OBVIOUS
    <3>2. PICK j : j = InfoRec(m, info[t].max, info[t].opps)
      OBVIOUS
    <3>3. v.info = Put(info, t, j)
      BY <2>5, <2>15, <2>16, <2>18, <3>1, <3>2 DEF ShownTo
    <3>4. v.info[t] = j
      BY <3>3 DEF Put
    <3>5. QED
      BY <2>9, <2>18, <3>1, <3>2, <3>4 DEF InfoRec
  <2>21. HasBase(v, p)
    BY <2>9, <2>10, <2>13, <2>17, <2>19 DEF HasBase
  <2>22. Shows(v)
    <3>1. ASSUME NEW q \in DOMAIN v.info, v.info[q].opps # << >>
          PROVE  HasBase(v, q)
      <4>1. q \in DOMAIN w.info /\ q \in Players
        BY <2>4, <2>19
      <4>2. CASE q = p
        BY <2>21, <4>2
      <4>3. CASE q = t
        <5>1. w.info[t].max = w.user[t].best
          BY <2>20, <3>1, <4>1, <4>3 DEF Climbs, Shows, HasBase
        <5>2. v.user[t] = w.user[t]
          BY <2>9, <2>13, <4>1, <4>3
        <5>3. QED
          BY <2>10, <2>20, <4>1, <4>3, <5>1, <5>2 DEF HasBase
      <4>4. CASE q # p /\ q # t
        <5>1. v.info[q] = w.info[q] /\ v.user[q] = w.user[q]
          BY <2>13, <2>19, <4>1, <4>4
        <5>2. HasBase(w, q)
          BY <3>1, <4>1, <5>1 DEF Climbs, Shows
        <5>3. QED
          BY <2>10, <4>4, <5>1, <5>2 DEF HasBase
      <4>5. QED
        BY <4>2, <4>3, <4>4
    <3>2. QED
      BY <3>1 DEF Shows
  <2>23. Best(v)
    <3>1. ASSUME NEW q \in Players, get_rank_id(v, q) # 0
          PROVE  v.user[q].best \in 1..get_rank_id(v, q)
      <4>1. CASE q = p
        BY <2>9, <2>10, <2>12, <2>13, <4>1
      <4>2. CASE q = t
        <5>1. w.user[t].best \in 1..h
          BY <2>2, <4>2 DEF Climbs, Best
        <5>2. v.user[t] = w.user[t] /\ get_rank_id(v, t) = m
          BY <2>9, <2>10, <2>13, <4>2
        <5>3. QED
          BY <2>6, <2>7, <2>8, <4>2, <5>1, <5>2
      <4>3. CASE q # p /\ q # t
        <5>1. get_rank_id(v, q) = get_rank_id(w, q) /\ v.user[q] = w.user[q]
          BY <2>10, <2>13, <4>3
        <5>2. QED
          BY <3>1, <5>1 DEF Climbs, Best
      <4>4. QED
        BY <4>1, <4>2, <4>3
    <3>2. QED
      BY <3>1 DEF Best
  <2>24. Near(w, v)
    BY <2>4, <2>5, <2>6 DEF Near, Put
  <2>25. QED
    BY <2>14, <2>21, <2>22, <2>23, <2>24 DEF Climbs
<1>3. QED
  BY <1>1, <1>2

LEMMA ExtraClimb ==
  ASSUME NEW n \in Nat, NEW m \in Nat, m = n + 1, m <= Top, TablesOK(Written, m),
         NEW w, MemOK(w, n), Sane(w), Climbs(w), NEW p \in DOMAIN w.info, HasBase(w, p),
         NEW t, get_rank_id(w, t) # 0, NEW result, NEW v, v = ExtraProc(w, p, t, result)
  PROVE  Climbs(v) /\ Near(w, v) /\ HasBase(v, p)
<1>1. p \in Players /\ Top \in Nat /\ Room(m) /\ w.count \in Nat /\ IsMem(w)
  BY TopRoom, ArenaAssumption DEF MemOK, Room, Reach
<1>2. PICK l : l = IF result = "quit" THEN w ELSE AddLog(w, p, t)
  OBVIOUS
<1>3. MemOK(w, m)
  BY MemLarger
<1>4. /\ Sane(l) /\ MemOK(l, n) /\ get_rank_id(l, t) # 0 /\ p \in DOMAIN l.info
      /\ Climbs(l) /\ Near(w, l) /\ HasBase(l, p)
  <2>1. CASE result = "quit"
    BY <1>2, <2>1 DEF Near
  <2>2. CASE result # "quit"
    <3>1. l = AddLog(w, p, t)
      BY <1>2, <2>2
    <3>2. Sane(l)
      BY <1>1, <1>3, <3>1, LogSane
    <3>3. MemOK(l, n)
      BY <1>1, <3>1, AddLogKeeps
    <3>4. /\ l.id_rank = w.id_rank
          /\ l.info = IF t \in Players THEN Put(w.info, t, InfoOf(w, t)) ELSE w.info
      BY <1>1, <3>1, LogAside
    <3>5. get_rank_id(l, t) # 0
      BY <3>4 DEF get_rank_id
    <3>6. p \in DOMAIN l.info
      BY <3>4 DEF Put
    <3>7. Climbs(l) /\ Near(w, l) /\ HasBase(l, p)
      BY <1>1, <3>1, LogClimb
    <3>8. QED
      BY <3>2, <3>3, <3>5, <3>6, <3>7
  <2>3. QED
    BY <2>1, <2>2
<1>5. PICK win : win = (result = "won")
  OBVIOUS
<1>6. PICK x : x = SendBattleReward(l, p, t, win)
  OBVIOUS
<1>7. Sane(x)
  BY <1>1, <1>4, <1>6, RewardSane
<1>8. MemOK(x, m)
  <2>1. Room(n + 1)
    BY <1>1
  <2>2. MemOK(SendBattleReward(l, p, t, win), n + 1)
    BY <1>1, <1>4, <2>1, RewardKeeps
  <2>3. QED
    BY <1>6, <2>2
<1>9. p \in DOMAIN x.info /\ get_rank_id(x, t) # 0
  <2>1. IsMem(l) /\ l.count \in Nat
    BY <1>4 DEF MemOK
  <2>2. /\ DOMAIN l.info \subseteq DOMAIN x.info
        /\ \A id : get_rank_id(l, id) # 0 => get_rank_id(x, id) # 0
    BY <1>6, <2>1, RewardAside
  <2>3. QED
    BY <1>4, <2>2
<1>10. Climbs(x) /\ Near(l, x) /\ HasBase(x, p)
  BY <1>4, <1>6, RewardClimb
<1>11. v = UpdateRank(x, p, t, win)
  BY <1>2, <1>5, <1>6 DEF ExtraProc
<1>12. Climbs(v) /\ Near(x, v) /\ HasBase(v, p)
  BY <1>7, <1>8, <1>9, <1>10, <1>11, UpdateClimb
<1>13. QED
  BY <1>4, <1>10, <1>12 DEF Near

\* Fakes that get numbers of their own.
LEMMA GrownClimb ==
  ASSUME NEW n \in Nat, NEW w, MemOK(w, n), Climbs(w), NEW x, Grown(w, x), New(w, x) \cap DOMAIN w.id_rank = {}
  PROVE  Climbs(x) /\ \A q \in Players : get_rank_id(x, q) = get_rank_id(w, q)
<1>1. /\ x.info = w.info /\ x.user = w.user
      /\ \A r \in DOMAIN w.rank_map : r \in DOMAIN x.rank_map /\ x.rank_map[r] = w.rank_map[r]
      /\ \A r \in DOMAIN x.rank_map \ DOMAIN w.rank_map :
           x.rank_map[r] \in New(w, x) /\ x.id_rank[x.rank_map[r]] = r
      /\ DOMAIN x.id_rank = DOMAIN w.id_rank \cup New(w, x)
      /\ \A id \in DOMAIN w.id_rank \ New(w, x) : x.id_rank[id] = w.id_rank[id]
  BY DEF Grown
<1>2. New(w, x) \cap Players = {}
  <2>1. w.target_guid \in Nat /\ x.target_guid \in Nat
    BY DEF MemOK, Grown
  <2>2. New(w, x) \subseteq Nat
    BY <2>1 DEF New
  <2>3. QED
    BY <2>2, ArenaAssumption
<1>3. \A id : id \notin New(w, x) => get_rank_id(x, id) = get_rank_id(w, id)
  BY <1>1 DEF get_rank_id, RankIn
<1>4. \A q \in Players : get_rank_id(x, q) = get_rank_id(w, q)
  BY <1>2, <1>3
<1>5. Whose(x)
  <2>1. ASSUME NEW r \in DOMAIN x.rank_map
        PROVE  get_rank_id(x, x.rank_map[r]) = r
    <3>1. CASE r \in DOMAIN w.rank_map
      <4>1. w.rank_map[r] \in DOMAIN w.id_rank /\ x.rank_map[r] = w.rank_map[r]
        BY <1>1, <3>1 DEF MemOK, PlacesOK
      <4>2. w.rank_map[r] \notin New(w, x)
        BY <4>1
      <4>3. QED
        BY <1>3, <3>1, <4>1, <4>2 DEF Climbs, Whose
    <3>2. CASE r \notin DOMAIN w.rank_map
      <4>1. x.rank_map[r] \in DOMAIN x.id_rank /\ x.id_rank[x.rank_map[r]] = r
        BY <1>1, <2>1, <3>2
      <4>2. QED
        BY <4>1 DEF get_rank_id, RankIn
    <3>3. QED
      BY <3>1, <3>2
  <2>2. QED
    BY <2>1 DEF Whose
<1>6. DOMAIN w.info \subseteq Players
  BY DEF MemOK
<1>7. Shows(x) /\ Best(x)
  BY <1>1, <1>4, <1>6 DEF Climbs, Shows, Best, HasBase
<1>8. QED
  BY <1>4, <1>5, <1>7 DEF Climbs

\* The list of one whose base is right.
LEMMA GivenClimb ==
  ASSUME NEW n \in Nat, NEW w, MemOK(w, n), Climbs(w), NEW p \in DOMAIN w.info, HasBase(w, p), NEW four,
         NEW v, Given(w, v, p, four), New(w, v) \cap DOMAIN w.id_rank = {}
  PROVE  Climbs(v)
<1>1. PICK x : Grown(w, x) /\ v = set_info_data(x, p, ListOf(w, x, p, four))
  BY DEF Given
<1>2. PICK i : i = ListOf(w, x, p, four)
  OBVIOUS
<1>3. IsMem(x) /\ x.user = w.user /\ p \in Players
  BY <1>1 DEF Grown, MemOK
<1>4. /\ v.info = Put(x.info, p, i) /\ v.rank_map = x.rank_map /\ v.id_rank = x.id_rank /\ v.user = x.user
      /\ v.target_guid = x.target_guid
  BY <1>1, <1>2, <1>3, InfoIs
<1>5. New(w, x) \cap DOMAIN w.id_rank = {}
  BY <1>4 DEF New
<1>6. Climbs(x) /\ \A q \in Players : get_rank_id(x, q) = get_rank_id(w, q)
  BY <1>1, <1>5, GrownClimb
<1>7. i.cur = w.info[p].cur /\ i.max = w.info[p].max
  BY <1>2 DEF ListOf
<1>8. i.cur = get_rank_id(x, p) /\ i.max = x.user[p].best
  BY <1>3, <1>6, <1>7 DEF HasBase
<1>9. QED
  BY <1>4, <1>6, <1>8, ClimbPut

\* What was paid for is no better than the row.
Owed(w, t) == \A p \in DOMAIN t.rows : w.user[p].best \in 1..t.rows[p]
Climbing   == Sound({"late"}) => Climbs(game) /\ Owed(game, Written)

LEMMA OwedIs ==
  ASSUME NEW n \in Nat, NEW w, NEW t, TablesOK(t, n), Follows(w, t), Best(w)
  PROVE  Owed(w, t)
<1>1. \A p \in DOMAIN t.rows : t.rows[p] \in 1..Reach(n)
  BY TablesAre DEF TablesOK
<1>2. ASSUME NEW p \in DOMAIN t.rows
      PROVE  w.user[p].best \in 1..t.rows[p]
  <2>1. p \in Players /\ t.rows[p] = get_rank_id(w, p) /\ t.rows[p] # 0
    BY <1>1 DEF Follows, RankIn
  <2>2. QED
    BY <2>1 DEF Best
<1>3. QED
  BY <1>2 DEF Owed

LEMMA LateKept == Sound({"late"}) => Kept
BY DEF Sound, Kept

LEMMA WrittenTyped == TypeInv => Most \in Nat /\ TablesOK(Written, Most) /\ game.out = << >> /\ Stored(game) = Written
<1>1. TypeInv => Most \in Nat /\ TablesOK(Written, Most) /\ Stored(game) = Written
  BY RoomNow, WrittenOK DEF TypeInv
<1>2. QED
  BY <1>1 DEF TypeInv

\* What a handler leaves that has loaded the ranks.
LEMMA LeavesClimb ==
  ASSUME TypeInv, TypeInv', Following', NEW w, IsMem(w), NEW marks, Leaves(w, marks),
         w.id_rank # << >> \/ w.info # << >>, Sound({"late"})' => Climbs(w)
  PROVE  Climbing'
<1>1. SUFFICES ASSUME Sound({"late"})'
               PROVE  Climbs(game)' /\ Owed(game, Written)'
  BY DEF Climbing
<1>2. /\ game'.info = w.info /\ game'.rank_map = w.rank_map /\ game'.id_rank = w.id_rank /\ game'.user = w.user
      /\ game'.out = << >>
  BY LeftIs
<1>3. Kept' /\ ~Blank'
  BY <1>1, <1>2 DEF Sound, Kept, Blank
<1>4. Sane(game)'
  BY <1>3 DEF Following
<1>5. Climbs(w)
  BY <1>1
<1>6. Climbs(game)'
  BY <1>2, <1>5 DEF Climbs, Whose, Shows, HasBase, Best, get_rank_id
<1>7. (Most \in Nat /\ TablesOK(Written, Most) /\ game.out = << >> /\ Stored(game) = Written)'
  BY WrittenTyped, PTL
<1>8. PICK n, t : n = Most' /\ t = Written'
  OBVIOUS
<1>9. n \in Nat /\ TablesOK(t, n) /\ Follows(game', t) /\ Best(game')
  BY <1>4, <1>6, <1>7, <1>8 DEF Sane, Climbs, Follows, Best, get_rank_id
<1>10. Owed(game', t)
  BY <1>9, OwedIs
<1>11. QED
  BY <1>6, <1>8, <1>10 DEF Owed

\* Where neither ranks nor users nor the tables that will be change.
LEMMA ClimbStays ==
  ASSUME Climbing, Written' = Written, spoilt \subseteq spoilt',
         game'.info = game.info, game'.rank_map = game.rank_map, game'.id_rank = game.id_rank, game'.user = game.user
  PROVE  Climbing'
<1>1. Sound({"late"})' => Sound({"late"})
  BY DEF Sound
<1>2. Climbs(game) => Climbs(game)'
  BY DEF Climbs, Whose, Shows, HasBase, Best, get_rank_id
<1>3. Owed(game, Written) => Owed(game, Written)'
  BY DEF Owed
<1>4. QED
  BY <1>1, <1>2, <1>3 DEF Climbing

LEMMA RefreshedClimb ==
  ASSUME TypeInv, TypeInv', Following', Climbing, NEW n \in Nat, n <= Top, NEW w, MemOK(w, n), Near(game, w),
         NEW p \in DOMAIN w.info, NEW marks, Refreshed(w, p, marks),
         Climbs(game) /\ "skipped" \notin marks => Climbs(w) /\ HasBase(w, p)
  PROVE  Climbing'
<1>1. PICK four \in Offers(w, p) : Leaves(SetInfoOpp(w, p, four), marks)
  BY DEF Refreshed
<1>2. Room(n) /\ p \in Players /\ IsMem(w) /\ w.target_guid \in Nat
  BY TopRoom, ArenaAssumption DEF Room, Reach, MemOK
<1>3. IsFour(four) /\ \A i \in 1..4 : four[i] <= LastRank
  <2>1. Aside(four, OwnRank(w, p))
    BY <1>2, OffersAre
  <2>2. QED
    BY <2>1 DEF Aside
<1>4. PICK v : v = SetInfoOpp(w, p, four)
  OBVIOUS
<1>5. Given(w, v, p, four)
  BY <1>2, <1>3, <1>4, SetInfoOppIs
<1>6. MemOK(v, n)
  BY <1>2, <1>3, <1>5, GivenKeeps
<1>7. IsMem(v) /\ v.target_guid \in Nat /\ Leaves(v, marks)
  BY <1>1, <1>4, <1>6 DEF MemOK
<1>8. v.info # << >>
  <2>1. PICK x, i : Grown(w, x) /\ v = set_info_data(x, p, i)
    BY <1>5 DEF Given
  <2>2. v.info = Put(x.info, p, i)
    BY <2>1, InfoIs DEF Grown
  <2>3. p \in DOMAIN v.info
    BY <2>2 DEF Put
  <2>4. QED
    BY <2>3
<1>9. ASSUME Sound({"late"})'
      PROVE  Climbs(v)
  <2>1. Climbs(game) /\ "skipped" \notin marks /\ ~Reused(v)
    BY <1>7, <1>9 DEF Sound, Leaves, Marks, Climbing
  <2>2. Climbs(w) /\ HasBase(w, p)
    BY <2>1
  <2>3. New(w, v) \cap DOMAIN w.id_rank = {}
    <3>1. w.target_guid = game.target_guid /\ DOMAIN w.id_rank \subseteq DOMAIN game.id_rank \cup Players
      BY DEF Near
    <3>2. New(w, v) \cap DOMAIN game.id_rank = {}
      BY <2>1, <3>1 DEF Reused, New
    <3>3. New(w, v) \subseteq Nat
      BY <1>2, <1>7 DEF New
    <3>4. New(w, v) \cap Players = {}
      BY <3>3, ArenaAssumption
    <3>5. QED
      BY <3>1, <3>2, <3>4
  <2>4. QED
    BY <1>5, <2>2, <2>3, GivenClimb
<1>10. QED
  BY <1>7, <1>8, <1>9, LeavesClimb

LEMMA InfoClimb ==
  ASSUME TypeInv, TypeInv', Following', Climbing, NEW p \in Players, PQSingleArenaInfo(p) \/ PQSingleArenaRefresh(p)
  PROVE  Climbing'
<1>1. PICK n \in Nat : n = Most
  BY RoomNow
<1>2. MemOK(game, n) /\ n <= Top /\ IsMem(game)
  BY <1>1, MostTop DEF TypeInv, MemOK
<1>3. PICK b : b = SetInfoBase(game, p)
  OBVIOUS
<1>4. MemOK(b, n) /\ p \in DOMAIN b.info
  BY <1>2, <1>3, BaseKeeps
<1>5. Climbs(game) => Climbs(b) /\ HasBase(b, p)
  BY <1>2, <1>3, BaseClimb
<1>6. Near(game, b)
  <2>1. PICK i : b = set_info_data(game, p, i)
    BY <1>3 DEF SetInfoBase
  <2>2. b.id_rank = game.id_rank /\ b.target_guid = game.target_guid
    BY <1>2, <2>1, InfoIs
  <2>3. QED
    BY <2>2 DEF Near
<1>7. Near(game, game)
  BY DEF Near
<1>8. CASE PQSingleArenaInfo(p)
  <2>1. PICK w : w = IF Baseless(p) THEN b ELSE game
    OBVIOUS
  <2>2. Refreshed(w, p, {})
    BY <1>3, <1>8, <2>1 DEF PQSingleArenaInfo
  <2>3. MemOK(w, n) /\ Near(game, w) /\ p \in DOMAIN w.info
    BY <1>2, <1>4, <1>6, <1>7, <2>1 DEF Baseless
  <2>4. Climbs(game) => Climbs(w) /\ HasBase(w, p)
    BY <1>5, <2>1 DEF Baseless, Climbs, Shows
  <2>5. QED
    BY <1>2, <2>2, <2>3, <2>4, RefreshedClimb
<1>9. CASE PQSingleArenaRefresh(p)
  <2>1. PICK w : w = IF p \in DOMAIN game.info THEN game ELSE b
    OBVIOUS
  <2>2. PICK marks : marks = Skips(p)
    OBVIOUS
  <2>3. Refreshed(w, p, marks)
    BY <1>3, <1>9, <2>1, <2>2 DEF PQSingleArenaRefresh
  <2>4. MemOK(w, n) /\ Near(game, w) /\ p \in DOMAIN w.info
    BY <1>2, <1>4, <1>6, <1>7, <2>1
  <2>5. Climbs(game) /\ "skipped" \notin marks => Climbs(w) /\ HasBase(w, p)
    <3>1. SUFFICES ASSUME Climbs(game), "skipped" \notin marks, p \in DOMAIN game.info
                   PROVE  HasBase(game, p)
      BY <1>5, <2>1
    <3>2. Baseless(p) => b = game
      BY <1>3, <2>2, <3>1 DEF Skips, Misses
    <3>3. ~Baseless(p) => HasBase(game, p)
      BY <3>1 DEF Baseless, Climbs, Shows
    <3>4. QED
      BY <1>5, <3>1, <3>2, <3>3
  <2>6. QED
    BY <1>2, <2>3, <2>4, <2>5, RefreshedClimb
<1>10. QED
  BY <1>8, <1>9

LEMMA LevelClimb ==
  ASSUME TypeInv, TypeInv', Following', Climbing, NEW p \in Players, UpdateLevel(p)
  PROVE  Climbing'
<1>1. PICK msgs : msgs = <<RowMsg(game.rank_map[get_rank_id(game, p)], get_rank_id(game, p))>>
  OBVIOUS
<1>2. PICK v : v = Write(game, msgs)
  OBVIOUS
<1>3. Ranked(game, p) /\ Leaves(v, {}) /\ IsMem(game)
  BY <1>1, <1>2 DEF UpdateLevel, TypeInv, MemOK
<1>4. /\ IsMem(v) /\ v.info = game.info /\ v.rank_map = game.rank_map /\ v.id_rank = game.id_rank /\ v.user = game.user
  BY <1>2, <1>3, WriteIs
<1>5. Climbs(game) => Climbs(v)
  BY <1>4 DEF Climbs, Whose, Shows, HasBase, Best, get_rank_id
<1>6. v.id_rank # << >>
  <2>1. p \in DOMAIN game.id_rank
    BY <1>3 DEF Ranked, get_rank_id, RankIn
  <2>2. QED
    BY <1>4, <2>1
<1>7. Sound({"late"})' => Climbs(game)
  BY <1>3 DEF Sound, Leaves, Climbing
<1>8. QED
  BY <1>3, <1>4, <1>5, <1>6, <1>7, LeavesClimb

\* A handler that does nothing.
LEMMA NothingClimb ==
  ASSUME TypeInv, Climbing, Leaves(game, {}), UNCHANGED <<db, up>>
  PROVE  Climbing'
<1>1. IsMem(game) /\ game.out = << >> /\ sent \in Seq(Messages(Most))
  BY DEF TypeInv, MemOK
<1>2. /\ game'.info = game.info /\ game'.rank_map = game.rank_map /\ game'.id_rank = game.id_rank /\ game'.user = game.user
  BY <1>1, LeftIs
<1>3. sent' = sent
  <2>1. sent' = IF up THEN sent \o << >> ELSE sent
    BY <1>1 DEF Leaves
  <2>2. sent \o << >> = sent
    BY <1>1
  <2>3. QED
    BY <2>1, <2>2
<1>4. Written' = Written
  BY <1>3 DEF Written
<1>5. spoilt \subseteq spoilt'
  BY DEF Leaves
<1>6. QED
  BY <1>2, <1>4, <1>5, ClimbStays

LEMMA EndClimb ==
  ASSUME TypeInv, TypeInv', Following, Following', Climbing, NEW i \in DOMAIN fights, NEW result, FightEnds(i, result)
  PROVE  Climbing'
<1>1. PICK p, t : p = fights[i].ack /\ t = fights[i].def
  OBVIOUS
<1>2. PICK first : first = GetFirstReward(game, p)
  OBVIOUS
<1>3. /\ UNCHANGED <<db, up, answers>>
      /\ IF t = Monster
         THEN IF first = game THEN Leaves(game, {}) ELSE Refreshed(first, p, Skips(p))
         ELSE Leaves(game, {}) \/ (~check_rank(game, p, t) /\ Refreshed(ExtraProc(game, p, t, result), p, {}))
  BY <1>1, <1>2 DEF FightEnds
<1>4. p \in Players
  BY <1>1, FighterIs
<1>5. PICK m, n : m = Most /\ n = Most + 1
  OBVIOUS
<1>6. /\ m \in Nat /\ n \in Nat /\ n = m + 1 /\ n <= Top /\ Room(n)
      /\ MemOK(game, m) /\ IsMem(game) /\ TablesOK(Written, n)
  <2>1. Len(fights) # 0 /\ Most \in Nat
    BY FighterIs, RoomNow
  <2>2. Room(n) /\ MemOK(game, m) /\ n <= Top /\ TablesOK(Written, m)
    BY <1>5, <2>1, RoomNow, MostTop, WrittenOK DEF TypeInv
  <2>3. m \in Nat /\ n \in Nat /\ m <= n /\ n = m + 1
    BY <1>5, <2>1
  <2>4. TablesOK(Written, n)
    BY <2>2, <2>3, TablesLarger
  <2>5. QED
    BY <1>5, <2>1, <2>2, <2>3, <2>4 DEF MemOK
<1>7. CASE Leaves(game, {})
  BY <1>3, <1>7, NothingClimb
<1>8. ASSUME p \in DOMAIN game.info, Sound({"late"})
      PROVE  Sane(game) /\ Climbs(game)
  <2>1. Kept /\ ~Blank
    BY <1>8, LateKept, BlankRanks
  <2>2. QED
    BY <1>8, <2>1 DEF Following, Climbing
<1>9. CASE t = Monster /\ first # game
  <2>1. p \in DOMAIN game.info /\ game.info[p].max = 0
    BY <1>2, <1>9 DEF GetFirstReward
  <2>2. PICK last : last = FirstPlace(game)
    OBVIOUS
  <2>3. /\ first.info = Put(game.info, p, InfoRec(last, last, game.info[p].opps))
        /\ first.id_rank = Put(game.id_rank, p, last) /\ first.target_guid = game.target_guid
    BY <1>2, <1>6, <2>1, <2>2, FirstIs
  <2>4. p \in DOMAIN first.info /\ Near(game, first)
    BY <1>4, <2>3 DEF Put, Near
  <2>5. MemOK(first, n)
    BY <1>2, <1>4, <1>6, FirstKeeps
  <2>6. PICK marks : marks = Skips(p)
    OBVIOUS
  <2>7. Refreshed(first, p, marks)
    BY <1>3, <1>9, <2>6
  <2>8. ASSUME Sound({"late"}), "skipped" \notin marks
        PROVE  Climbs(first) /\ HasBase(first, p)
    <3>1. Sane(game) /\ Climbs(game)
      BY <1>8, <2>1, <2>8
    <3>2. HasBase(game, p)
      <4>1. CASE Baseless(p)
        <5>1. PICK b : b = SetInfoBase(game, p)
          OBVIOUS
        <5>2. b = game
          BY <2>1, <2>6, <2>8, <4>1, <5>1 DEF Skips, Misses
        <5>3. QED
          BY <1>6, <3>1, <5>1, <5>2, BaseClimb
      <4>2. CASE ~Baseless(p)
        BY <3>1, <4>2 DEF Baseless, Climbs, Shows
      <4>3. QED
        BY <4>1, <4>2
    <3>3. QED
      BY <1>2, <1>6, <2>1, <3>1, <3>2, FirstClimb
  <2>9. CASE ~Sound({"late"})
    <3>1. spoilt \subseteq spoilt'
      BY <2>7 DEF Refreshed, Leaves
    <3>2. QED
      BY <2>9, <3>1 DEF Sound, Climbing
  <2>10. CASE Sound({"late"})
    <3>1. Climbs(game) /\ "skipped" \notin marks => Climbs(first) /\ HasBase(first, p)
      BY <2>8, <2>10
    <3>2. QED
      BY <1>6, <2>4, <2>5, <2>7, <3>1, RefreshedClimb
  <2>11. QED
    BY <2>9, <2>10
<1>10. CASE ~check_rank(game, p, t) /\ Refreshed(ExtraProc(game, p, t, result), p, {})
  <2>1. get_rank_id(game, t) # 0 /\ p \in DOMAIN game.info /\ game.info[p].opps # << >>
    <3>1. Listed(game, p, t) # 0
      BY <1>10 DEF check_rank
    <3>2. PICK four : four = IF p \in DOMAIN game.info THEN game.info[p].opps ELSE << >>
      OBVIOUS
    <3>3. \E j \in DOMAIN four : four[j].id = t
      BY <3>1, <3>2 DEF Listed
    <3>4. four # << >>
      BY <3>3
    <3>5. QED
      BY <1>10, <3>2, <3>4 DEF check_rank
  <2>2. PICK x : x = ExtraProc(game, p, t, result)
    OBVIOUS
  <2>3. MemOK(x, n) /\ p \in DOMAIN x.info
    BY <1>6, <2>1, <2>2, ExtraKeeps
  <2>4. Refreshed(x, p, {})
    BY <1>10, <2>2
  <2>5. CASE ~Sound({"late"})
    <3>1. spoilt \subseteq spoilt'
      BY <2>4 DEF Refreshed, Leaves
    <3>2. QED
      BY <2>5, <3>1 DEF Sound, Climbing
  <2>6. CASE Sound({"late"})
    <3>1. Sane(game) /\ Climbs(game)
      BY <1>8, <2>1, <2>6
    <3>2. HasBase(game, p)
      BY <2>1, <3>1 DEF Climbs, Shows
    <3>3. Climbs(x) /\ Near(game, x) /\ HasBase(x, p)
      BY <1>6, <2>1, <2>2, <3>1, <3>2, ExtraClimb
    <3>4. QED
      BY <1>6, <2>3, <2>4, <3>3, RefreshedClimb
  <2>7. QED
    BY <2>5, <2>6
<1>11. QED
  BY <1>3, <1>7, <1>9, <1>10

LEMMA LinkClimb ==
  ASSUME TypeInv, Climbing, SEventNetRealDB
  PROVE  Climbing'
<1>1. game' = [game EXCEPT !.load_log = 0, !.target_guid = 0] /\ spoilt \subseteq spoilt'
  BY DEF SEventNetRealDB
<1>2. IsMem(game)
  BY DEF TypeInv, MemOK
<1>3. /\ game'.info = game.info /\ game'.rank_map = game.rank_map /\ game'.id_rank = game.id_rank /\ game'.user = game.user
  BY <1>1, <1>2 DEF IsMem
<1>4. Written' = Written
  BY LinkStored
<1>5. QED
  BY <1>1, <1>3, <1>4, ClimbStays

LEMMA RealdbClimb ==
  ASSUME TypeInv, Climbing, Realdb
  PROVE  Climbing'
<1>1. UNCHANGED <<game, spoilt>>
  BY DEF Realdb
<1>2. Written' = Written
  BY RealdbStored
<1>3. QED
  BY <1>1, <1>2, ClimbStays

LEMMA RealdbEndsClimb ==
  ASSUME TypeInv, Climbing, RealdbEnds
  PROVE  Climbing'
<1>1. /\ sent' = << >> /\ UNCHANGED game
      /\ \E k \in 0..Len(sent), torn \in BOOLEAN :
           (torn => Torn(k)) /\ db' = Saved(db, Cut(k, torn)) /\ spoilt' = spoilt \cup Lost(k)
  BY DEF RealdbEnds
<1>2. PICK k \in 0..Len(sent), torn \in BOOLEAN :
        (torn => Torn(k)) /\ db' = Saved(db, Cut(k, torn)) /\ spoilt' = spoilt \cup Lost(k)
  BY <1>1
<1>3. CASE Lost(k) # {}
  BY <1>2, <1>3 DEF Lost, Sound, Climbing
<1>4. CASE Lost(k) = {}
  <2>1. Saved(db, Cut(k, torn)) = Written
    BY <1>2, <1>4, CutFollows
  <2>2. Written' = Written
    <3>1. PICK t : t = db'
      OBVIOUS
    <3>2. Saved(t, << >>) = t
      BY SavedNone
    <3>3. QED
      BY <1>1, <1>2, <2>1, <3>1, <3>2 DEF Written
  <2>3. QED
    BY <1>1, <1>2, <2>2, ClimbStays
<1>5. QED
  BY <1>3, <1>4

\* An empty memory.
LEMMA EmptyClimbs ==
  ASSUME NEW w, w.info = << >>, w.rank_map = << >>, w.id_rank = << >>
  PROVE  Climbs(w)
<1>1. DOMAIN w.info = {} /\ DOMAIN w.rank_map = {} /\ DOMAIN w.id_rank = {}
  OBVIOUS
<1>2. QED
  BY <1>1 DEF Climbs, Whose, Shows, Best, get_rank_id, RankIn

LEMMA GameEndsClimb ==
  ASSUME TypeInv, Following, Climbing, GameEnds
  PROVE  Climbing'
<1>1. /\ game' = Memory(saved) /\ UNCHANGED db
      /\ \E k \in 0..Len(sent), torn \in BOOLEAN :
           (torn => Torn(k)) /\ sent' = Cut(k, torn) /\ spoilt' = spoilt \cup Lost(k) \cup Rolled
  BY DEF GameEnds
<1>2. PICK k \in 0..Len(sent), torn \in BOOLEAN :
        (torn => Torn(k)) /\ sent' = Cut(k, torn) /\ spoilt' = spoilt \cup Lost(k) \cup Rolled
  BY <1>1
<1>3. SUFFICES ASSUME Sound({"late"})'
               PROVE  Climbs(game)' /\ Owed(game, Written)'
  BY DEF Climbing
<1>4. Sound({"late"}) /\ Lost(k) = {} /\ Rolled = {}
  BY <1>2, <1>3 DEF Sound, Lost, Rolled
<1>5. Saved(db, Cut(k, torn)) = Written
  BY <1>2, <1>4, CutFollows
<1>6. Written' = Written
  BY <1>1, <1>2, <1>5 DEF Written
<1>7. game'.info = << >> /\ game'.rank_map = << >> /\ game'.id_rank = << >> /\ game'.user = saved
  BY <1>1 DEF Memory
<1>8. Climbs(game)'
  <2>1. PICK w : w = game'
    OBVIOUS
  <2>2. Climbs(w)
    BY <1>7, <2>1, EmptyClimbs
  <2>3. QED
    BY <2>1, <2>2 DEF Climbs, Whose, Shows, HasBase, Best, get_rank_id
<1>9. DOMAIN Written.rows \subseteq Players
  <2>1. Kept
    BY <1>4, LateKept
  <2>2. RowsApart(Written)
    BY <2>1, RowsOfSane DEF Following, Blank
  <2>3. QED
    BY <2>2 DEF RowsApart
<1>10. \A p \in Players : saved[p].best = game.user[p].best
  BY <1>4 DEF Rolled
<1>11. Owed(game, Written)
  BY <1>4 DEF Climbing
<1>12. Owed(game, Written)'
  BY <1>6, <1>7, <1>9, <1>10, <1>11 DEF Owed
<1>13. QED
  BY <1>8, <1>12

\* The rows that are loaded, last or once more.
LEMMA LoadedClimb ==
  ASSUME TypeInv, Blank \/ Sane(game), Climbs(game), Owed(game, Written),
         NEW rows \in Tables(Most), DOMAIN rows \subseteq DOMAIN Written.rows, ~Older(rows),
         NEW f, IsOwners(f, rows), NEW w, IsLoaded(w, game, f, rows)
  PROVE  Climbs(w)
<1>1. CASE Sane(game)
  <2>1. /\ w.info = game.info /\ w.user = game.user
        /\ DOMAIN w.id_rank = DOMAIN game.id_rank
        /\ \A id \in DOMAIN game.id_rank : w.id_rank[id] = game.id_rank[id]
        /\ DOMAIN w.rank_map = DOMAIN game.rank_map
        /\ \A r \in DOMAIN game.rank_map : w.rank_map[r] = game.rank_map[r]
    BY <1>1, LoadedSame
  <2>2. \A id : get_rank_id(w, id) = get_rank_id(game, id)
    BY <2>1 DEF get_rank_id, RankIn
  <2>3. Whose(w)
    BY <2>1, <2>2 DEF Climbs, Whose
  <2>4. Shows(w) /\ Best(w)
    BY <2>1, <2>2 DEF Climbs, Shows, HasBase, Best
  <2>5. QED
    BY <2>3, <2>4 DEF Climbs
<1>2. CASE Blank
  <2>1. IsMem(game)
    BY DEF TypeInv, MemOK
  <2>2. /\ w.rank_map = Over(f, game.rank_map) /\ w.id_rank = Over(rows, game.id_rank)
        /\ w.info = game.info /\ w.user = game.user
    BY <2>1, LoadedIs
  <2>3. DOMAIN game.rank_map = {} /\ DOMAIN game.id_rank = {} /\ DOMAIN game.info = {} /\ rows = Written.rows
    BY <1>2 DEF Blank, Older
  <2>4. /\ DOMAIN w.rank_map = DOMAIN f /\ \A r \in DOMAIN f : w.rank_map[r] = f[r]
        /\ DOMAIN w.id_rank = DOMAIN rows /\ \A id \in DOMAIN rows : w.id_rank[id] = rows[id]
    BY <2>2, <2>3 DEF Over
  <2>5. \A r \in DOMAIN f : f[r] \in DOMAIN rows /\ rows[f[r]] = r
    BY DEF IsOwners
  <2>6. Whose(w)
    BY <2>4, <2>5 DEF Whose, get_rank_id, RankIn
  <2>7. Shows(w)
    BY <2>2, <2>3 DEF Shows
  <2>8. Best(w)
    BY <2>2, <2>3, <2>4 DEF Owed, Best, get_rank_id, RankIn
  <2>9. QED
    BY <2>6, <2>7, <2>8 DEF Climbs
<1>3. QED
  BY <1>1, <1>2

LEMMA AnsweredClimb ==
  ASSUME TypeInv, TypeInv', Following, Following', Climbing, Answered
  PROVE  Climbing'
<1>1. PICK m : m = Head(answers)
  OBVIOUS
<1>2. /\ answers # << >> /\ answers' = Tail(answers) /\ UNCHANGED <<fights, fight_id, saved, db, up, faults>>
      /\ \/ m.kind = "count" /\ PRServerInfoList(m.n)
         \/ m.kind = "ranks" /\ LoadData(m.rows)
         \/ m.kind = "logs" /\ LoadLog(m.logs)
  BY <1>1 DEF Answered
<1>3. PICK n : n = Most
  OBVIOUS
<1>4. /\ n \in Nat /\ Room(n) /\ MemOK(game, n) /\ answers \in Seq(Replies(n)) /\ sent \in Seq(Messages(n))
      /\ IsMem(game) /\ game.out = << >>
  BY <1>3, RoomNow DEF TypeInv, MemOK
<1>5. m \in Replies(n)
  BY <1>1, <1>2, <1>4
<1>6. m.kind = "ranks" => m.rows \in Tables(n)
  BY <1>5, ReplyIs
<1>7. Kept => (Blank \/ Sane(game)) /\ (m.kind = "ranks" => DOMAIN m.rows \subseteq DOMAIN Written.rows)
  <2>1. SUFFICES ASSUME Kept
                 PROVE  (Blank \/ Sane(game)) /\ (m.kind = "ranks" => DOMAIN m.rows \subseteq DOMAIN Written.rows)
    OBVIOUS
  <2>2. InOrder(answers) /\ Within(answers, Written) /\ (Blank \/ Sane(game))
    BY <2>1 DEF Following
  <2>3. QED
    BY <1>1, <1>2, <1>4, <2>2, NextAnswer
<1>8. ASSUME NEW w, IsMem(w), NEW marks, Leaves(w, marks), Sound({"late"})'
      PROVE  /\ "overwritten" \notin marks /\ ~Reused(w) /\ Kept /\ Climbs(game) /\ Owed(game, Written)
  <2>1. Sound({"late"}) /\ "overwritten" \notin marks /\ ~Reused(w)
    BY <1>8 DEF Sound, Leaves, Marks
  <2>2. QED
    BY <2>1, LateKept DEF Climbing
<1>9. CASE m.kind = "count" /\ PRServerInfoList(m.n)
  <2>1. PICK w, marks : w = [game EXCEPT !.count = m.n] /\ Leaves(w, marks)
    BY <1>9 DEF PRServerInfoList
  <2>2. /\ IsMem(w) /\ w.info = game.info /\ w.rank_map = game.rank_map /\ w.id_rank = game.id_rank
        /\ w.user = game.user /\ w.out = << >>
    BY <1>4, <2>1 DEF IsMem
  <2>3. sent' = sent /\ spoilt \subseteq spoilt'
    <3>1. PICK o : o = w.out
      OBVIOUS
    <3>2. sent' = (IF up THEN sent \o o ELSE sent) /\ spoilt \subseteq spoilt'
      BY <2>1, <3>1 DEF Leaves
    <3>3. sent \o o = sent
      BY <1>4, <2>2, <3>1
    <3>4. QED
      BY <3>2, <3>3
  <2>4. Written' = Written
    BY <1>2, <2>3 DEF Written
  <2>5. /\ game'.info = game.info /\ game'.rank_map = game.rank_map /\ game'.id_rank = game.id_rank
        /\ game'.user = game.user
    BY <2>1, <2>2, LeftIs
  <2>6. QED
    BY <2>3, <2>4, <2>5, ClimbStays
<1>10. CASE m.kind = "ranks" /\ LoadData(m.rows)
  <2>1. PICK rows : rows = m.rows
    OBVIOUS
  <2>2. rows \in Tables(n) /\ LoadData(rows)
    BY <1>6, <1>10, <2>1
  <2>3. PICK f, w, marks : /\ IsOwners(f, rows) /\ IsLoaded(w, game, f, rows)
                           /\ marks = (IF Older(rows) THEN {"overwritten"} ELSE {}) /\ Leaves(CreateRank(w), marks)
    BY <2>2 DEF LoadData, IsOwners, IsLoaded
  <2>4. MemOK(w, n)
    BY <1>4, <2>2, <2>3, LoadedKeeps
  <2>5. PICK v : v = CreateRank(w)
    OBVIOUS
  <2>6. Grown(w, v) /\ DOMAIN v.id_rank # {}
    BY <1>4, <2>4, <2>5, CreatedGrown
  <2>7. IsMem(v) /\ Leaves(v, marks) /\ v.id_rank # << >>
    BY <2>3, <2>4, <2>5, <2>6 DEF Grown
  <2>8. ASSUME Sound({"late"})'
        PROVE  Climbs(v)
    <3>1. "overwritten" \notin marks /\ ~Reused(v) /\ Kept /\ Climbs(game) /\ Owed(game, Written)
      BY <1>8, <2>7, <2>8
    <3>2. ~Older(rows) /\ DOMAIN rows \subseteq DOMAIN Written.rows /\ (Blank \/ Sane(game))
      BY <1>7, <1>10, <2>1, <2>3, <3>1
    <3>3. Climbs(w)
      BY <1>3, <2>2, <2>3, <3>1, <3>2, LoadedClimb
    <3>4. New(w, v) \cap DOMAIN w.id_rank = {}
      <4>1. w.target_guid = game.target_guid /\ w.id_rank = Over(rows, game.id_rank)
        BY <1>4, <2>3, LoadedIs
      <4>2. DOMAIN w.id_rank = DOMAIN rows \cup DOMAIN game.id_rank
        BY <4>1 DEF Over
      <4>3. New(w, v) \cap DOMAIN game.id_rank = {}
        BY <3>1, <4>1 DEF Reused, New
      <4>4. RowsApart(Written)
        BY <3>2, RowsOfSane DEF Blank
      <4>5. DOMAIN rows \subseteq Players
        BY <3>2, <4>4 DEF RowsApart
      <4>6. New(w, v) \subseteq Nat
        <5>1. w.target_guid \in Nat /\ v.target_guid \in Nat
          BY <2>4, <2>6 DEF MemOK, Grown
        <5>2. QED
          BY <5>1 DEF New
      <4>7. New(w, v) \cap Players = {}
        BY <4>6, ArenaAssumption
      <4>8. QED
        BY <4>2, <4>3, <4>5, <4>7
    <3>5. QED
      BY <1>4, <2>4, <2>6, <3>3, <3>4, GrownClimb
  <2>9. QED
    BY <2>7, <2>8, LeavesClimb
<1>11. CASE m.kind = "logs" /\ LoadLog(m.logs)
  <2>1. PICK x : x = Over(game.info, [p \in m.logs |-> EmptyInfo])
    OBVIOUS
  <2>2. PICK w : w = [game EXCEPT !.info = x, !.load_log = game.load_log + 1]
    OBVIOUS
  <2>3. PICK marks : marks = {}
    OBVIOUS
  <2>4. Leaves(w, marks)
    BY <1>11, <2>1, <2>2, <2>3 DEF LoadLog
  <2>5. IsMem(w) /\ w.info = x /\ w.rank_map = game.rank_map /\ w.id_rank = game.id_rank /\ w.user = game.user
    BY <1>4, <2>2 DEF IsMem
  <2>6. \A q \in DOMAIN x : (q \in DOMAIN game.info /\ x[q] = game.info[q]) \/ x[q].opps = << >>
    BY <2>1 DEF Over, EmptyInfo
  <2>7. Climbs(game) => Climbs(w)
    BY <2>5, <2>6 DEF Climbs, Whose, Shows, HasBase, Best, get_rank_id
  <2>8. Sound({"late"})' => Climbs(game)
    BY <1>8, <2>4, <2>5
  <2>9. CASE ~Sound({"late"})'
    BY <2>9 DEF Climbing
  <2>10. CASE Sound({"late"})'
    <3>1. Kept
      BY <1>8, <2>4, <2>5, <2>10
    <3>2. ~Blank
      BY <1>1, <1>2, <1>11 DEF Blank
    <3>3. Sane(game)
      BY <1>7, <3>1, <3>2
    <3>4. w.id_rank # << >>
      BY <2>5, <3>3 DEF Sane
    <3>5. QED
      BY <2>4, <2>5, <2>7, <2>8, <3>4, LeavesClimb
  <2>11. QED
    BY <2>9, <2>10
<1>12. QED
  BY <1>2, <1>9, <1>10, <1>11

LEMMA InitClimb ==
  ASSUME Init
  PROVE  Climbing
<1>1. /\ game = Memory(saved) /\ sent = << >>
      /\ \E came \in SUBSET Players :
           \E place \in [came -> MAX_CREATE_OPPONENT + 1 .. MAX_CREATE_OPPONENT + Cardinality(came)] :
             /\ db = [rows |-> place, logs |-> {}, count |-> Cardinality(came)]
             /\ saved = [p \in Players |-> Record(RankIn(place, p))]
  BY DEF Init
<1>2. PICK came \in SUBSET Players :
        \E place \in [came -> MAX_CREATE_OPPONENT + 1 .. MAX_CREATE_OPPONENT + Cardinality(came)] :
          /\ db = [rows |-> place, logs |-> {}, count |-> Cardinality(came)]
          /\ saved = [p \in Players |-> Record(RankIn(place, p))]
  BY <1>1
<1>3. Cardinality(came) \in Nat
  BY ArenaAssumption, FS_Subset, FS_CardinalityType
<1>4. PICK c \in Nat : c = Cardinality(came)
  BY <1>3
<1>5. PICK place \in [came -> MAX_CREATE_OPPONENT + 1 .. MAX_CREATE_OPPONENT + c] :
        /\ db = [rows |-> place, logs |-> {}, count |-> c]
        /\ saved = [p \in Players |-> Record(RankIn(place, p))]
  BY <1>2, <1>4
<1>6. PICK t : t = Written
  OBVIOUS
<1>7. t = db
  BY <1>1, <1>6, SavedNone DEF Written
<1>8. t.rows = place /\ DOMAIN place = came /\ came \subseteq Players
  BY <1>5, <1>7
<1>9. game.info = << >> /\ game.rank_map = << >> /\ game.id_rank = << >> /\ game.user = saved
  BY <1>1 DEF Memory
<1>10. Climbs(game)
  BY <1>9, EmptyClimbs
<1>11. ASSUME NEW p \in came
       PROVE  game.user[p].best \in 1..place[p]
  <2>1. place[p] \in Nat /\ place[p] >= 1
    BY <1>5, ArenaAssumption
  <2>2. game.user[p].best = place[p]
    BY <1>5, <1>8, <1>9 DEF Record, RankIn
  <2>3. QED
    BY <2>1, <2>2
<1>12. Owed(game, t)
  BY <1>8, <1>11 DEF Owed
<1>13. QED
  BY <1>6, <1>10, <1>12 DEF Climbing

LEMMA RestClimb ==
  ASSUME Climbing, UNCHANGED <<game, db, sent, spoilt>>
  PROVE  Climbing'
<1>1. Written' = Written
  BY DEF Written
<1>2. QED
  BY <1>1, ClimbStays

LEMMA StepClimb ==
  ASSUME TypeInv, TypeInv', Following, Following', Climbing, [Next]_vars
  PROVE  Climbing'
<1>1. ASSUME NEW p \in Players, PQSingleArenaInfo(p) \/ PQSingleArenaRefresh(p)
      PROVE  Climbing'
  BY <1>1, InfoClimb
<1>2. ASSUME NEW p \in Players, UpdateLevel(p)
      PROVE  Climbing'
  BY <1>2, LevelClimb
<1>3. ASSUME NEW p \in Players, PQFightSingleArenaApply(p) \/ PQCommonFightAuto(p) \/ SaveUser(p)
      PROVE  Climbing'
  BY <1>3, RestClimb DEF PQFightSingleArenaApply, PQCommonFightAuto, Start, SaveUser
<1>4. CASE PRCommonFightServerEnd
  <2>1. PICK i \in DOMAIN fights, r \in {"won", "lost"} : FightEnds(i, r)
    BY <1>4 DEF PRCommonFightServerEnd
  <2>2. QED
    BY <2>1, EndClimb
<1>5. CASE PQPlayerFightQuit
  <2>1. PICK i \in DOMAIN fights : FightEnds(i, "quit")
    BY <1>5 DEF PQPlayerFightQuit
  <2>2. QED
    BY <2>1, EndClimb
<1>6. CASE UNCHANGED vars
  BY <1>6, RestClimb DEF vars
<1>7. CASE Answered
  BY <1>7, AnsweredClimb
<1>8. CASE Realdb
  BY <1>8, RealdbClimb
<1>9. CASE SEventNetRealDB
  BY <1>9, LinkClimb
<1>10. CASE RealdbEnds
  BY <1>10, RealdbEndsClimb
<1>11. CASE GameEnds
  BY <1>11, GameEndsClimb
<1>12. QED
  BY <1>1, <1>2, <1>3, <1>4, <1>5, <1>6, <1>7, <1>8, <1>9, <1>10, <1>11 DEF Next

\* What has been argued says of the ladder.
LEMMA LadderIs ==
  ASSUME TypeInv, Following, Climbing
  PROVE  Ladder
<1>1. TypeOK
  BY TypesAre
<1>2. SUFFICES ASSUME Sound({"late"})
               PROVE  /\ \A id \in DOMAIN game.id_rank : Holds(game, id)
                      /\ \A r \in DOMAIN game.rank_map : get_rank_id(game, game.rank_map[r]) = r
                      /\ \A p \in DOMAIN game.info : ~Baseless(p) =>
                           /\ game.info[p].cur = get_rank_id(game, p) /\ game.info[p].max = game.user[p].best
                      /\ \A p \in Players : Ranked(game, p) =>
                           /\ game.user[p].best \in 1..get_rank_id(game, p)
                           /\ get_rank_id(game, p) <= game.count + MAX_CREATE_OPPONENT
  BY <1>1 DEF Ladder
<1>3. (Blank \/ Sane(game)) /\ Climbs(game)
  BY <1>2, LateKept DEF Following, Climbing
<1>4. PICK n \in Nat : n = Most
  BY RoomNow
<1>5. MemOK(game, n)
  BY <1>4 DEF TypeInv
<1>6. \A id \in DOMAIN game.id_rank : Holds(game, id)
  <2>1. CASE Blank
    BY <2>1 DEF Blank
  <2>2. CASE Sane(game)
    BY <2>2 DEF Sane, Placed, Holds, get_rank_id, RankIn
  <2>3. QED
    BY <1>3, <2>1, <2>2
<1>7. ASSUME NEW p \in Players, Ranked(game, p)
      PROVE  /\ game.user[p].best \in 1..get_rank_id(game, p)
             /\ get_rank_id(game, p) <= game.count + MAX_CREATE_OPPONENT
  <2>1. game.user[p].best \in 1..get_rank_id(game, p)
    BY <1>3, <1>7 DEF Climbs, Best, Ranked
  <2>2. p \in DOMAIN game.id_rank
    BY <1>7 DEF Ranked, get_rank_id, RankIn
  <2>3. Sane(game)
    BY <1>3, <2>2 DEF Blank
  <2>4. get_rank_id(game, p) <= Reach(game.count)
    BY <1>5, <1>7, <2>3, PlaceOf DEF Ranked
  <2>5. QED
    BY <2>1, <2>4 DEF Reach
<1>8. QED
  BY <1>3, <1>6, <1>7 DEF Climbs, Whose, Shows, HasBase, Baseless

(* Whatever players fight at the same time and whatever ends and starts    *)
(* again: nobody has two places and no place two owners, who has a list is *)
(* shown the rank it has and the best it was paid for, which is none below *)
(* its rank, and the place a newcomer will get is free, unless one of the  *)
(* five that break this has happened (a message lost, older rows loaded    *)
(* over newer ones, a number given to two fakes, a user that lost what it  *)
(* had, a list without its base).                                          *)
THEOREM OnePlaceEach == Spec => []Ladder
<1>1. Init => TypeInv /\ Following /\ Climbing
  BY InitTypes, InitFollow, InitClimb
<1>2. TypeInv /\ Following /\ Climbing /\ [Next]_vars => (TypeInv /\ Following /\ Climbing)'
  <2>1. SUFFICES ASSUME TypeInv, Following, Climbing, [Next]_vars
                 PROVE  TypeInv' /\ Following' /\ Climbing'
    OBVIOUS
  <2>2. TypeInv' /\ Following'
    BY <2>1, StepTypes, StepFollow
  <2>3. QED
    BY <2>1, <2>2, StepClimb
<1>3. TypeInv /\ Following /\ Climbing => Ladder
  BY LadderIs
<1>4. QED
  BY <1>1, <1>2, <1>3, PTL DEF Spec

-----------------------------------------------------------------------------
(* Places are swapped.                                                     *)

\* The ids that a row may name: the numbers, and the players paid for a rank.
Earners(w)  == Nat \cup {p \in Players : w.user[p].best # 0}
Named(q, E) == \A i \in DOMAIN q : q[i].kind = "row" => q[i].id \in E
Told(q, E)  == \A i \in DOMAIN q : q[i].kind = "ranks" => DOMAIN q[i].rows \subseteq E
Earned(w)   == DOMAIN w.id_rank \subseteq Earners(w) /\ Named(w.out, Earners(w))

LEMMA JoinNamed ==
  ASSUME NEW S, NEW y \in Seq(S), NEW T, NEW z \in Seq(T), NEW E, Named(y, E), NEW F, E \subseteq F, Named(z, F)
  PROVE  Named(Behind(y, z), F)
<1>1. PICK U : U = S \cup T
  OBVIOUS
<1>2. y \in Seq(U) /\ z \in Seq(U)
  BY <1>1
<1>3. PICK m \in Nat, k \in Nat : m = Len(y) /\ k = Len(z)
  OBVIOUS
<1>4. PICK x : x = Behind(y, z)
  OBVIOUS
<1>5. x \in Seq(U) /\ Joined(x, y, z, m, k)
  BY <1>2, <1>3, <1>4, JoinIs
<1>6. DOMAIN x = 1..(m + k) /\ DOMAIN y = 1..m /\ DOMAIN z = 1..k
  BY <1>3, <1>5 DEF Joined
<1>7. ASSUME NEW i \in DOMAIN x, x[i].kind = "row"
      PROVE  x[i].id \in F
  <2>1. CASE i <= m
    BY <1>5, <1>6, <1>7, <2>1 DEF Joined, Named
  <2>2. CASE i > m
    <3>1. PICK j \in 1..k : i = m + j
      <4>1. i - m \in 1..k /\ i = m + (i - m)
        BY <1>6, <2>2
      <4>2. QED
        BY <4>1
    <3>2. x[i] = z[j] /\ j \in DOMAIN z
      BY <1>5, <1>6, <3>1 DEF Joined
    <3>3. QED
      BY <1>7, <3>2 DEF Named
  <2>3. QED
    BY <1>6, <2>1, <2>2
<1>8. QED
  BY <1>4, <1>7 DEF Named

LEMMA FewNamed ==
  ASSUME NEW E, NEW m, m.kind = "row" => m.id \in E, NEW k, k.kind = "row" => k.id \in E
  PROVE  /\ One(m) \in Seq({m, k}) /\ Named(One(m), E)
         /\ Two(m, k) \in Seq({m, k}) /\ Named(Two(m, k), E)
<1>1. One(m) \in Seq({m, k}) /\ Two(m, k) \in Seq({m, k})
  BY DEF One, Two
<1>2. DOMAIN One(m) = {1} /\ One(m)[1] = m
  BY DEF One
<1>3. DOMAIN Two(m, k) = {1, 2} /\ Two(m, k)[1] = m /\ Two(m, k)[2] = k
  BY DEF Two
<1>4. QED
  BY <1>1, <1>2, <1>3 DEF Named

\* One player more is paid.
LEMMA PaidEarns ==
  ASSUME NEW w, DOMAIN w.user = Players, NEW p \in Players, NEW u, u.best # 0 \/ u.best = w.user[p].best,
         NEW v, v.user = Put(w.user, p, u)
  PROVE  Earners(w) \subseteq Earners(v) /\ (u.best # 0 => p \in Earners(v))
<1>1. \A q \in Players : v.user[q] = IF q = p THEN u ELSE w.user[q]
  BY DEF Put
<1>2. QED
  BY <1>1 DEF Earners

LEMMA FirstEarned ==
  ASSUME NEW n \in Nat, NEW w, MemOK(w, n), Earned(w), NEW p \in DOMAIN w.info, NEW v, v = GetFirstReward(w, p)
  PROVE  Earned(v) /\ Earners(w) \subseteq Earners(v) /\ v.info[p].max # 0
<1>1. CASE w.info[p].max # 0
  BY <1>1 DEF GetFirstReward
<1>2. CASE w.info[p].max = 0
  <2>1. PICK last : last = FirstPlace(w)
    OBVIOUS
  <2>2. IsMem(w) /\ DOMAIN w.user = Players /\ p \in Players /\ w.count \in Nat /\ w.out \in Seq(Writes(n))
    BY DEF MemOK
  <2>3. last # 0
    <3>1. MAX_CREATE_OPPONENT \in Nat
      BY ArenaAssumption
    <3>2. QED
      BY <2>1, <2>2, <3>1 DEF FirstPlace
  <2>4. PICK u, i : u = PaidUser(w.user[p], last, last) /\ i = InfoRec(last, last, w.info[p].opps)
    OBVIOUS
  <2>5. u.best = last /\ i.max = last
    BY <2>4 DEF PaidUser, InfoRec
  <2>6. /\ v.user = Put(w.user, p, u) /\ v.info = Put(w.info, p, i) /\ v.id_rank = Put(w.id_rank, p, last)
        /\ v.out = Behind(w.out, FirstMsgs(w, p))
    BY <1>2, <2>1, <2>2, <2>4, FirstIs
  <2>7. Earners(w) \subseteq Earners(v) /\ p \in Earners(v)
    BY <2>2, <2>3, <2>5, <2>6, PaidEarns
  <2>8. DOMAIN v.id_rank \subseteq Earners(v)
    BY <2>6, <2>7 DEF Earned, Put
  <2>9. v.info[p].max # 0
    BY <2>3, <2>5, <2>6 DEF Put
  <2>10. Named(v.out, Earners(v))
    <3>1. PICK a, b : a = CountMsg(w.count + 1) /\ b = RowMsg(p, last)
      OBVIOUS
    <3>2. a.kind # "row" /\ b.id = p
      BY <3>1 DEF CountMsg, RowMsg
    <3>3. PICK E, F : E = Earners(w) /\ F = Earners(v)
      OBVIOUS
    <3>4. Two(a, b) \in Seq({a, b}) /\ Named(Two(a, b), F)
      BY <2>7, <3>2, <3>3, FewNamed
    <3>5. PICK z : z = Two(a, b)
      OBVIOUS
    <3>6. v.out = Behind(w.out, z)
      BY <2>1, <2>6, <3>1, <3>5 DEF FirstMsgs, Two
    <3>7. Named(w.out, E) /\ E \subseteq F
      BY <2>7, <3>3 DEF Earned
    <3>8. Named(Behind(w.out, z), F)
      BY <2>2, <3>4, <3>5, <3>7, JoinNamed
    <3>9. QED
      BY <3>3, <3>6, <3>8
  <2>11. QED
    BY <2>7, <2>8, <2>9, <2>10 DEF Earned
<1>3. QED
  BY <1>1, <1>2

LEMMA RewardEarned ==
  ASSUME NEW n \in Nat, NEW w, MemOK(w, n), Earned(w), NEW p \in DOMAIN w.info, NEW t, NEW win,
         NEW v, v = SendBattleReward(w, p, t, win)
  PROVE  Earned(v) /\ Earners(w) \subseteq Earners(v) /\ v.info[p].max # 0
<1>1. CASE w.info[p].max = 0
  <2>1. v = GetFirstReward(w, p)
    BY <1>1 DEF SendBattleReward
  <2>2. QED
    BY <2>1, FirstEarned
<1>2. CASE w.info[p].max # 0 /\ v = w
  BY <1>2
<1>3. CASE w.info[p].max # 0 /\ v # w
  <2>1. PICK r : v = PaidFor(w, p, r)
    BY <1>3 DEF SendBattleReward
  <2>2. IsMem(w) /\ DOMAIN w.user = Players /\ p \in Players
    BY DEF MemOK
  <2>3. PICK u : u = PaidUser(w.user[p], w.user[p].best, r)
    OBVIOUS
  <2>4. v.user = Put(w.user, p, u) /\ v.info = w.info /\ v.id_rank = w.id_rank /\ v.out = w.out
    BY <2>1, <2>2, <2>3, PaidIs
  <2>5. u.best = w.user[p].best
    BY <2>3 DEF PaidUser
  <2>6. \A q \in Players : v.user[q].best = w.user[q].best
    BY <2>2, <2>4, <2>5 DEF Put
  <2>7. Earners(v) = Earners(w)
    BY <2>6 DEF Earners
  <2>8. QED
    BY <1>3, <2>4, <2>7 DEF Earned
<1>4. QED
  BY <1>1, <1>2, <1>3

LEMMA UpdateEarned ==
  ASSUME NEW n \in Nat, NEW w, MemOK(w, n), Earned(w), NEW p \in DOMAIN w.info, w.info[p].max # 0,
         NEW t, get_rank_id(w, t) # 0, NEW win, NEW v, v = UpdateRank(w, p, t, win)
  PROVE  Earned(v) /\ Earners(w) \subseteq Earners(v)
<1>1. CASE ~MovesUp(w, p, t, win)
  BY <1>1 DEF UpdateRank
<1>2. CASE MovesUp(w, p, t, win)
  <2>1. IsMem(w) /\ DOMAIN w.user = Players /\ p \in Players /\ w.out \in Seq(Writes(n)) /\ w.info[p].max \in Nat
    BY DEF MemOK, InfoOK
  <2>2. PICK m, h : m = w.info[p].cur /\ h = get_rank_id(w, t)
    OBVIOUS
  <2>3. t \in DOMAIN w.id_rank /\ h = w.id_rank[t] /\ h \in DOMAIN w.rank_map /\ w.rank_map[h] \in DOMAIN w.id_rank
    <3>1. t \in DOMAIN w.id_rank /\ h = w.id_rank[t]
      BY <2>2 DEF get_rank_id, RankIn
    <3>2. QED
      BY <3>1 DEF MemOK, PlacesOK
  <2>4. h \in Nat
    <3>1. DOMAIN w.rank_map \subseteq 0..LastRank /\ LastRank \in Nat
      BY ArenaAssumption DEF MemOK, PlacesOK
    <3>2. QED
      BY <2>3, <3>1
  <2>5. PICK best : best = Min({w.info[p].max, h})
    OBVIOUS
  <2>6. best # 0
    <3>1. PICK S : S = {w.info[p].max, h}
      OBVIOUS
    <3>2. S \subseteq Nat /\ S # {} /\ best = Min(S)
      BY <2>1, <2>4, <2>5, <3>1
    <3>3. best \in S
      BY <3>2, MinIs
    <3>4. QED
      BY <2>2, <3>1, <3>3
  <2>7. PICK u : u = BestUser(w.user[p], best)
    OBVIOUS
  <2>8. u.best # 0
    BY <2>6, <2>7 DEF BestUser
  <2>9. v.user = Put(w.user, p, u) /\ v.id_rank = Put(Put(w.id_rank, p, h), t, m) /\ v.out = Behind(w.out, Rows(w, p, t))
    BY <1>2, <2>1, <2>2, <2>5, <2>7, UpdateIs
  <2>10. Earners(w) \subseteq Earners(v) /\ p \in Earners(v)
    BY <2>1, <2>8, <2>9, PaidEarns
  <2>11. DOMAIN v.id_rank \subseteq Earners(v)
    BY <2>3, <2>9, <2>10 DEF Earned, Put
  <2>12. Named(v.out, Earners(v))
    <3>1. PICK a, b : a = RowMsg(p, h) /\ b = RowMsg(w.rank_map[h], m)
      OBVIOUS
    <3>2. PICK E, F : E = Earners(w) /\ F = Earners(v)
      OBVIOUS
    <3>3. a.id \in F /\ b.id \in F
      BY <2>3, <2>10, <3>1, <3>2 DEF RowMsg, Earned
    <3>4. /\ One(a) \in Seq({a, b}) /\ Named(One(a), F)
          /\ Two(a, b) \in Seq({a, b}) /\ Named(Two(a, b), F)
      BY <3>3, FewNamed
    <3>5. PICK z : z = Rows(w, p, t)
      OBVIOUS
    <3>6. z = One(a) \/ z = Two(a, b)
      BY <2>2, <3>1, <3>5 DEF Rows, One, Two
    <3>7. z \in Seq({a, b}) /\ Named(z, F)
      BY <3>4, <3>6
    <3>8. Named(w.out, E) /\ E \subseteq F
      BY <2>10, <3>2 DEF Earned
    <3>9. Named(Behind(w.out, z), F)
      BY <2>1, <3>7, <3>8, JoinNamed
    <3>10. QED
      BY <2>9, <3>2, <3>5, <3>9
  <2>13. QED
    BY <2>10, <2>11, <2>12 DEF Earned
<1>3. QED
  BY <1>1, <1>2

LEMMA SavedNamed ==
  ASSUME NEW n \in Nat, NEW t, TablesOK(t, n), NEW msgs \in Seq(Messages(n)), NEW E, DOMAIN t.rows \subseteq E, Named(msgs, E)
  PROVE  DOMAIN Saved(t, msgs).rows \subseteq E
<1>1. PICK len \in Nat : len = Len(msgs) /\ DOMAIN msgs = 1..len /\ \A k \in 1..len : msgs[k] \in Messages(n)
  OBVIOUS
<1>s. PICK f : Steps(f, t, msgs, len)
  BY <1>1, SavedIs
<1>2. /\ f[0] = t /\ Saved(t, msgs) = f[len]
      /\ \A k \in 1..len : f[k] = SaveData(f[k - 1], msgs[k])
  BY <1>s DEF Steps
<1> DEFINE good == [k \in 0..len |-> IF TablesOK(f[k], n) /\ DOMAIN f[k].rows \subseteq E THEN 1 ELSE 0]
           D == {1}
<1>3. good[0] \in D
  BY <1>2
<1>4. ASSUME NEW i \in 1..len, good[i - 1] \in D
      PROVE  good[i] \in D
  <2>1. i \in 0..len /\ i - 1 \in 0..len
    OBVIOUS
  <2>2. TablesOK(f[i - 1], n) /\ DOMAIN f[i - 1].rows \subseteq E
    BY <1>4, <2>1
  <2>3. TablesOK(f[i], n)
    BY <1>1, <1>2, <2>2, SaveKeeps
  <2>4. DOMAIN f[i].rows \subseteq E
    <3>1. PICK a, b, m : a = f[i - 1] /\ b = f[i] /\ m = msgs[i]
      OBVIOUS
    <3>2. m \in Messages(n) /\ b = SaveData(a, m) /\ a = [rows |-> a.rows, logs |-> a.logs, count |-> a.count]
      BY <1>1, <1>2, <2>2, <3>1 DEF TablesOK
    <3>3. b.rows = IF m.kind = "row" THEN Put(a.rows, m.id, m.rank)
                   ELSE IF m.kind = "del" THEN [p \in DOMAIN a.rows \ {m.id} |-> a.rows[p]] ELSE a.rows
      BY <3>2, SaveIs
    <3>4. m.kind = "row" => m.id \in E
      BY <1>1, <3>1 DEF Named
    <3>5. DOMAIN a.rows \subseteq E
      BY <2>2, <3>1
    <3>6. CASE m.kind = "row"
      BY <3>1, <3>3, <3>4, <3>5, <3>6 DEF Put
    <3>7. CASE m.kind # "row"
      BY <3>1, <3>3, <3>5, <3>7
    <3>8. QED
      BY <3>6, <3>7
  <2>5. QED
    BY <2>1, <2>3, <2>4
<1>5. \A k \in 0..len : good[k] \in D
  <2>1. \A i \in 1..len : good[i - 1] \in D => good[i] \in D
    BY <1>4
  <2> HIDE DEF D, good
  <2>2. QED
    BY <1>3, <2>1, RoundsKeep
<1>6. len \in 0..len
  OBVIOUS
<1>7. DOMAIN f[len].rows \subseteq E
  BY <1>5, <1>6
<1>8. QED
  BY <1>2, <1>7

\* Who has another place than before has changed with one that it was offered, or was offered to.
Swaps(w, v) ==
  \A id \in DOMAIN w.id_rank : v.id_rank[id] # w.id_rank[id] =>
    \E other \in DOMAIN v.id_rank \ {id} :
      /\ \/ v.id_rank[id] < w.id_rank[id] /\ Listed(w, id, other) = v.id_rank[id]
         \/ v.id_rank[id] > w.id_rank[id] /\ Listed(w, other, id) = w.id_rank[id]
      /\ v.id_rank[other] = w.id_rank[id]
      /\ get_rank_id(w, other) \in {0, v.id_rank[id]}

Stays(w, v) == \A id \in DOMAIN w.id_rank : id \in DOMAIN v.id_rank /\ v.id_rank[id] = w.id_rank[id]

LEMMA StaySwaps ==
  ASSUME NEW w, NEW v, Stays(w, v)
  PROVE  Swaps(w, v)
BY DEF Stays, Swaps

LEMMA SwapsLater ==
  ASSUME NEW g, NEW w, Swaps(g, w), DOMAIN g.id_rank \subseteq DOMAIN w.id_rank, NEW v, Stays(w, v)
  PROVE  Swaps(g, v)
<1>1. \A id \in DOMAIN g.id_rank : v.id_rank[id] = w.id_rank[id]
  BY DEF Stays
<1>2. \A other \in DOMAIN w.id_rank : other \in DOMAIN v.id_rank /\ v.id_rank[other] = w.id_rank[other]
  BY DEF Stays
<1>3. QED
  BY <1>1, <1>2 DEF Swaps

\* The winner takes the place of the other, and leaves it its own.
Took(w, v, p, t) ==
  /\ t \in DOMAIN w.id_rank /\ t # p /\ get_rank_id(w, p) \in Nat /\ w.id_rank[t] \in Nat
  /\ get_rank_id(w, p) > w.id_rank[t]
  /\ v.id_rank = Put(Put(w.id_rank, p, w.id_rank[t]), t, get_rank_id(w, p))

LEMMA UpdateTakes ==
  ASSUME NEW n \in Nat, NEW w, MemOK(w, n), Bears(w), NEW p \in DOMAIN w.info,
         NEW t, get_rank_id(w, t) # 0, NEW win, NEW v, v = UpdateRank(w, p, t, win)
  PROVE  Bears(v) /\ (v.id_rank = w.id_rank \/ Took(w, v, p, t))
<1>1. CASE ~MovesUp(w, p, t, win)
  BY <1>1 DEF UpdateRank
<1>2. CASE MovesUp(w, p, t, win)
  <2>1. PICK m, h : m = w.info[p].cur /\ h = get_rank_id(w, t)
    OBVIOUS
  <2>2. PICK best : best = Min({w.info[p].max, h})
    OBVIOUS
  <2>3. IsMem(w)
    BY DEF MemOK
  <2>4. PICK i : i = InfoRec(h, best, w.info[p].opps)
    OBVIOUS
  <2>5. PICK x : x = Put(w.info, p, i)
    OBVIOUS
  <2>6. v.info = ShownTo(x, t, m) /\ v.id_rank = Put(Put(w.id_rank, p, h), t, m)
    BY <1>2, <2>1, <2>2, <2>3, <2>4, <2>5, UpdateIs
  <2>7. m \in Nat /\ h \in Nat
    <3>0. MAX_CREATE_OPPONENT \in Nat
      BY ArenaAssumption
    <3>r. Reach(n) \in Nat
      BY <3>0 DEF Reach
    <3>1. m \in 0..Reach(n)
      BY <2>1 DEF MemOK, InfoOK
    <3>2. t \in DOMAIN w.id_rank /\ h = w.id_rank[t]
      BY <2>1 DEF get_rank_id, RankIn
    <3>3. h \in DOMAIN w.rank_map /\ DOMAIN w.rank_map \subseteq 0..LastRank /\ LastRank \in Nat
      BY <3>2, ArenaAssumption DEF MemOK, PlacesOK
    <3>4. QED
      BY <3>r, <3>1, <3>3
  <2>8. m > h
    BY <1>2, <2>1 DEF MovesUp
  <2>9. m = get_rank_id(w, p)
    <3>1. m # 0
      BY <2>7, <2>8
    <3>2. m \in {0, get_rank_id(w, p)}
      BY <2>1 DEF Bears
    <3>3. QED
      BY <3>1, <3>2
  <2>10. t # p
    <3>1. t = p => m = h
      BY <2>1, <2>9
    <3>2. m # h
      BY <2>7, <2>8
    <3>3. QED
      BY <3>1, <3>2
  <2>11. Took(w, v, p, t)
    <3>1. t \in DOMAIN w.id_rank /\ h = w.id_rank[t]
      BY <2>1 DEF get_rank_id, RankIn
    <3>2. QED
      BY <2>6, <2>7, <2>8, <2>9, <2>10, <3>1 DEF Took
  <2>12. \A q : get_rank_id(v, q) = IF q = t THEN m ELSE IF q = p THEN h ELSE get_rank_id(w, q)
    BY <2>6 DEF get_rank_id, RankIn, Put
  <2>13. Bears(v)
    <3>1. i.cur = h
      BY <2>4 DEF InfoRec
    <3>2. \A q \in DOMAIN x : q # t => x[q].cur \in {0, get_rank_id(v, q)}
      BY <2>5, <2>12, <3>1 DEF Bears, Put
    <3>3. CASE t \in DOMAIN x
      <4>1. PICK j : j = InfoRec(m, x[t].max, x[t].opps)
        OBVIOUS
      <4>2. j.cur = m
        BY <4>1 DEF InfoRec
      <4>3. v.info = Put(x, t, j)
        BY <2>6, <3>3, <4>1 DEF ShownTo
      <4>4. QED
        BY <2>12, <3>2, <4>2, <4>3 DEF Bears, Put
    <3>4. CASE t \notin DOMAIN x
      <4>1. v.info = x
        BY <2>6, <3>4 DEF ShownTo
      <4>2. QED
        BY <3>2, <3>4, <4>1 DEF Bears
    <3>5. QED
      BY <3>3, <3>4
  <2>14. QED
    BY <2>11, <2>13
<1>3. QED
  BY <1>1, <1>2

\* Who gets a first reward has had no place.
LEMMA FirstTakes ==
  ASSUME NEW n \in Nat, NEW w, MemOK(w, n), Earned(w), Bears(w), NEW p \in DOMAIN w.info, Based(w, p),
         NEW v, v = GetFirstReward(w, p)
  PROVE  Bears(v) /\ Stays(w, v) /\ DOMAIN v.id_rank \subseteq DOMAIN w.id_rank \cup Players
<1>1. CASE w.info[p].max # 0
  <2>1. v = w
    BY <1>1 DEF GetFirstReward
  <2>2. QED
    BY <2>1 DEF Stays
<1>2. CASE w.info[p].max = 0
  <2>1. PICK last : last = FirstPlace(w)
    OBVIOUS
  <2>2. IsMem(w) /\ p \in Players
    BY DEF MemOK
  <2>3. PICK i : i = InfoRec(last, last, w.info[p].opps)
    OBVIOUS
  <2>4. v.info = Put(w.info, p, i) /\ v.id_rank = Put(w.id_rank, p, last)
    BY <1>2, <2>1, <2>2, <2>3, FirstIs
  <2>5. i.cur = last
    BY <2>3 DEF InfoRec
  <2>6. \A q : get_rank_id(v, q) = IF q = p THEN last ELSE get_rank_id(w, q)
    BY <2>4 DEF get_rank_id, RankIn, Put
  <2>7. Bears(v)
    BY <2>4, <2>5, <2>6 DEF Bears, Put
  <2>8. p \notin DOMAIN w.id_rank
    <3>1. w.user[p].best = 0
      BY <1>2 DEF Based
    <3>2. p \notin Nat
      BY <2>2, ArenaAssumption
    <3>3. QED
      BY <3>1, <3>2 DEF Earned, Earners
  <2>9. Stays(w, v)
    BY <2>4, <2>8 DEF Stays, Put
  <2>10. QED
    BY <2>2, <2>4, <2>7, <2>9 DEF Put
<1>3. QED
  BY <1>1, <1>2

LEMMA RewardTakes ==
  ASSUME NEW n \in Nat, NEW w, MemOK(w, n), Earned(w), Bears(w), NEW p \in DOMAIN w.info, Based(w, p),
         NEW t, NEW win, NEW v, v = SendBattleReward(w, p, t, win)
  PROVE  Bears(v) /\ Stays(w, v) /\ DOMAIN v.id_rank \subseteq DOMAIN w.id_rank \cup Players
<1>1. CASE v = GetFirstReward(w, p)
  BY <1>1, FirstTakes
<1>2. CASE v = w
  BY <1>2 DEF Stays
<1>3. CASE \E r : v = PaidFor(w, p, r)
  <2>1. PICK r : v = PaidFor(w, p, r)
    BY <1>3
  <2>2. v.info = w.info /\ v.id_rank = w.id_rank
    BY <2>1, PaidIs DEF MemOK
  <2>3. QED
    BY <2>2 DEF Stays, Bears, get_rank_id
<1>4. QED
  BY <1>1, <1>2, <1>3 DEF SendBattleReward

LEMMA LogTakes ==
  ASSUME NEW n \in Nat, NEW w, MemOK(w, n), Earned(w), Bears(w), NEW p, NEW t, NEW v, v = AddLog(w, p, t)
  PROVE  Bears(v) /\ Earned(v) /\ v.id_rank = w.id_rank /\ v.user = w.user
<1>1. /\ v.id_rank = w.id_rank /\ v.user = w.user /\ v.out = Behind(w.out, LogMsgs(p, t))
      /\ v.info = IF t \in Players THEN Put(w.info, t, InfoOf(w, t)) ELSE w.info
  BY LogAside DEF MemOK
<1>2. Bears(v)
  <2>1. CASE t \in Players
    <3>1. PICK i : i = InfoOf(w, t)
      OBVIOUS
    <3>2. i.cur \in {0, get_rank_id(w, t)}
      BY <3>1, InfoBears
    <3>3. v.info = Put(w.info, t, i)
      BY <1>1, <2>1, <3>1
    <3>4. QED
      BY <1>1, <3>2, <3>3, BearsPut
  <2>2. CASE t \notin Players
    BY <1>1, <2>2 DEF Bears, get_rank_id
  <2>3. QED
    BY <2>1, <2>2
<1>3. Earners(v) = Earners(w)
  BY <1>1 DEF Earners
<1>4. Named(v.out, Earners(v))
  <2>1. PICK a, b : a = LogMsg(p) /\ b = LogMsg(t)
    OBVIOUS
  <2>2. a.kind # "row" /\ b.kind # "row"
    BY <2>1 DEF LogMsg
  <2>3. PICK E : E = Earners(w)
    OBVIOUS
  <2>4. /\ One(a) \in Seq({a, b}) /\ Named(One(a), E)
        /\ Two(a, b) \in Seq({a, b}) /\ Named(Two(a, b), E)
    BY <2>2, FewNamed
  <2>5. PICK z : z = LogMsgs(p, t)
    OBVIOUS
  <2>6. z = One(a) \/ z = Two(a, b)
    BY <2>1, <2>5 DEF LogMsgs, One, Two
  <2>7. z \in Seq({a, b}) /\ Named(z, E)
    BY <2>4, <2>6
  <2>8. Named(w.out, E) /\ E \subseteq E /\ w.out \in Seq(Writes(n))
    BY <2>3 DEF Earned, MemOK
  <2>9. Named(Behind(w.out, z), E)
    BY <2>7, <2>8, JoinNamed
  <2>10. QED
    BY <1>1, <1>3, <2>3, <2>5, <2>9
<1>5. QED
  BY <1>1, <1>2, <1>3, <1>4 DEF Earned

LEMMA ExtraTakes ==
  ASSUME NEW n \in Nat, Room(n + 1), NEW w, MemOK(w, n), Earned(w), Bears(w), NEW p \in DOMAIN w.info, Based(w, p),
         NEW t, get_rank_id(w, t) # 0, Listed(w, p, t) = get_rank_id(w, t), NEW result, NEW v, v = ExtraProc(w, p, t, result)
  PROVE  /\ Bears(v) /\ Earned(v) /\ Earners(w) \subseteq Earners(v) /\ Swaps(w, v)
         /\ DOMAIN w.id_rank \subseteq DOMAIN v.id_rank /\ DOMAIN v.id_rank \subseteq DOMAIN w.id_rank \cup Players
<1>1. PICK win : win = (result = "won")
  OBVIOUS
<1>2. PICK l : l = IF result = "quit" THEN w ELSE AddLog(w, p, t)
  OBVIOUS
<1>3. PICK m \in Nat : m = n + 1
  OBVIOUS
<1>4. IsMem(w) /\ p \in Players /\ Room(m)
  BY <1>3 DEF MemOK
<1>5. /\ MemOK(l, n) /\ Bears(l) /\ Earned(l) /\ l.id_rank = w.id_rank /\ l.user = w.user
      /\ p \in DOMAIN l.info /\ Based(l, p)
  <2>1. CASE result = "quit"
    BY <1>2, <2>1
  <2>2. CASE result # "quit"
    <3>1. l = AddLog(w, p, t)
      BY <1>2, <2>2
    <3>2. MemOK(l, n)
      BY <1>4, <3>1, AddLogKeeps
    <3>3. Bears(l) /\ Earned(l) /\ l.id_rank = w.id_rank /\ l.user = w.user
      BY <3>1, LogTakes
    <3>4. l.info = IF t \in Players THEN Put(w.info, t, InfoOf(w, t)) ELSE w.info
      BY <1>4, <3>1, LogAside
    <3>5. p \in DOMAIN l.info /\ l.info[p] = w.info[p]
      BY <3>4 DEF Put, InfoOf
    <3>6. QED
      BY <3>2, <3>3, <3>5 DEF Based
  <2>3. QED
    BY <2>1, <2>2
<1>6. PICK x : x = SendBattleReward(l, p, t, win)
  OBVIOUS
<1>7. MemOK(x, m)
  <2>1. MemOK(SendBattleReward(l, p, t, win), n + 1)
    BY <1>3, <1>4, <1>5, RewardKeeps
  <2>2. QED
    BY <1>3, <1>6, <2>1
<1>8. p \in DOMAIN x.info /\ get_rank_id(x, t) # 0
  <2>1. IsMem(l) /\ l.count \in Nat /\ get_rank_id(l, t) # 0
    BY <1>5 DEF MemOK, get_rank_id
  <2>2. /\ DOMAIN l.info \subseteq DOMAIN x.info
        /\ \A id : get_rank_id(l, id) # 0 => get_rank_id(x, id) # 0
    BY <1>6, <2>1, RewardAside
  <2>3. QED
    BY <1>5, <2>1, <2>2
<1>9. Bears(x) /\ Stays(l, x) /\ DOMAIN x.id_rank \subseteq DOMAIN l.id_rank \cup Players
  BY <1>5, <1>6, RewardTakes
<1>10. Earned(x) /\ Earners(l) \subseteq Earners(x) /\ x.info[p].max # 0
  BY <1>5, <1>6, RewardEarned
<1>11. v = UpdateRank(x, p, t, win)
  BY <1>1, <1>2, <1>6 DEF ExtraProc
<1>12. Bears(v) /\ (v.id_rank = x.id_rank \/ Took(x, v, p, t))
  BY <1>7, <1>8, <1>9, <1>11, UpdateTakes
<1>13. Earned(v) /\ Earners(x) \subseteq Earners(v)
  BY <1>7, <1>8, <1>10, <1>11, UpdateEarned
<1>14. Earners(w) = Earners(l)
  BY <1>5 DEF Earners
<1>15. \A id \in DOMAIN w.id_rank : id \in DOMAIN x.id_rank /\ x.id_rank[id] = w.id_rank[id]
  BY <1>5, <1>9 DEF Stays
<1>16. CASE v.id_rank = x.id_rank
  <2>1. Stays(w, v)
    BY <1>15, <1>16 DEF Stays
  <2>2. QED
    BY <1>5, <1>9, <1>10, <1>12, <1>13, <1>14, <1>15, <1>16, <2>1, StaySwaps
<1>17. CASE Took(x, v, p, t)
  <2>1. PICK m1, h : m1 = get_rank_id(x, p) /\ h = x.id_rank[t]
    OBVIOUS
  <2>2. /\ t \in DOMAIN x.id_rank /\ t # p /\ m1 \in Nat /\ h \in Nat /\ m1 > h
        /\ v.id_rank = Put(Put(x.id_rank, p, h), t, m1)
    BY <1>17, <2>1 DEF Took
  <2>3. t \in DOMAIN w.id_rank /\ get_rank_id(w, t) = h /\ w.id_rank[t] = h /\ Listed(w, p, t) = h
    <3>1. t \in DOMAIN w.id_rank /\ get_rank_id(w, t) = w.id_rank[t]
      BY DEF get_rank_id, RankIn
    <3>2. QED
      BY <1>15, <2>1, <3>1
  <2>4. /\ DOMAIN v.id_rank = DOMAIN x.id_rank \cup {p, t} /\ v.id_rank[t] = m1 /\ v.id_rank[p] = h
        /\ \A id \in DOMAIN x.id_rank : id # p /\ id # t => v.id_rank[id] = x.id_rank[id]
    BY <2>2 DEF Put
  <2>5. get_rank_id(w, p) \in {0, m1} /\ (p \in DOMAIN w.id_rank => w.id_rank[p] = m1)
    BY <1>15, <2>1 DEF get_rank_id, RankIn
  <2>6. ASSUME NEW id \in DOMAIN w.id_rank, v.id_rank[id] # w.id_rank[id]
        PROVE  \E other \in DOMAIN v.id_rank \ {id} :
                 /\ \/ v.id_rank[id] < w.id_rank[id] /\ Listed(w, id, other) = v.id_rank[id]
                    \/ v.id_rank[id] > w.id_rank[id] /\ Listed(w, other, id) = w.id_rank[id]
                 /\ v.id_rank[other] = w.id_rank[id]
                 /\ get_rank_id(w, other) \in {0, v.id_rank[id]}
    <3>1. id = p \/ id = t
      BY <1>15, <2>4, <2>6
    <3>2. CASE id = t
      <4>1. p \in DOMAIN v.id_rank \ {id}
        BY <2>2, <2>4, <3>2
      <4>2. v.id_rank[id] > w.id_rank[id] /\ Listed(w, p, id) = w.id_rank[id]
        BY <2>2, <2>3, <2>4, <3>2
      <4>3. v.id_rank[p] = w.id_rank[id] /\ get_rank_id(w, p) \in {0, v.id_rank[id]}
        BY <2>3, <2>4, <2>5, <3>2
      <4>4. QED
        BY <4>1, <4>2, <4>3
    <3>3. CASE id = p
      <4>1. t \in DOMAIN v.id_rank \ {id}
        BY <2>2, <2>4, <3>3
      <4>2. v.id_rank[id] < w.id_rank[id] /\ Listed(w, id, t) = v.id_rank[id]
        BY <2>2, <2>3, <2>4, <2>5, <3>3
      <4>3. v.id_rank[t] = w.id_rank[id] /\ get_rank_id(w, t) \in {0, v.id_rank[id]}
        BY <2>3, <2>4, <2>5, <3>3
      <4>4. QED
        BY <4>1, <4>2, <4>3
    <3>4. QED
      BY <3>1, <3>2, <3>3
  <2>7. Swaps(w, v)
    BY <2>6 DEF Swaps
  <2>8. DOMAIN v.id_rank = DOMAIN x.id_rank \cup {p}
    BY <2>2, <2>4
  <2>9. QED
    BY <1>4, <1>5, <1>9, <1>10, <1>12, <1>13, <1>14, <1>15, <2>7, <2>8
<1>18. QED
  BY <1>12, <1>16, <1>17

\* The base of an info, new fakes and a list.
LEMMA BaseTakes ==
  ASSUME NEW w, IsMem(w), Earned(w), Bears(w), NEW p, NEW v, v = SetInfoBase(w, p)
  PROVE  /\ Bears(v) /\ Earned(v) /\ v.id_rank = w.id_rank /\ v.user = w.user /\ v.target_guid = w.target_guid
         /\ p \in DOMAIN v.info
<1>1. PICK i : i = InfoRec(get_rank_id(w, p), w.user[p].best, InfoOf(w, p).opps)
  OBVIOUS
<1>2. v = set_info_data(w, p, i)
  BY <1>1 DEF SetInfoBase, InfoRec
<1>3. /\ v.info = Put(w.info, p, i) /\ v.id_rank = w.id_rank /\ v.user = w.user /\ v.out = w.out
      /\ v.target_guid = w.target_guid
  BY <1>2, InfoIs
<1>4. i.cur = get_rank_id(w, p)
  BY <1>1 DEF InfoRec
<1>5. Bears(v)
  BY <1>3, <1>4, BearsPut
<1>6. Earned(v)
  BY <1>3 DEF Earned, Earners
<1>7. QED
  BY <1>3, <1>5, <1>6 DEF Put

LEMMA GrownTakes ==
  ASSUME NEW n \in Nat, NEW w, MemOK(w, n), Earned(w), Bears(w), NEW v, Grown(w, v)
  PROVE  /\ Bears(v) /\ Earned(v) /\ Earners(v) = Earners(w) /\ New(w, v) \cap Players = {}
         /\ \A id \in DOMAIN w.id_rank \ New(w, v) : id \in DOMAIN v.id_rank /\ v.id_rank[id] = w.id_rank[id]
         /\ \A q \in Players : get_rank_id(v, q) = get_rank_id(w, q)
<1>1. /\ v.info = w.info /\ v.user = w.user /\ v.out = w.out
      /\ DOMAIN v.id_rank = DOMAIN w.id_rank \cup New(w, v)
      /\ \A id \in DOMAIN w.id_rank \ New(w, v) : v.id_rank[id] = w.id_rank[id]
  BY DEF Grown
<1>2. New(w, v) \subseteq Nat
  <2>1. w.target_guid \in Nat /\ v.target_guid \in Nat
    BY DEF MemOK, Grown
  <2>2. QED
    BY <2>1 DEF New
<1>3. New(w, v) \cap Players = {}
  BY <1>2, ArenaAssumption
<1>4. \A q \in Players : get_rank_id(v, q) = get_rank_id(w, q)
  BY <1>1, <1>3 DEF get_rank_id, RankIn
<1>5. Bears(v)
  <2>1. DOMAIN w.info \subseteq Players
    BY DEF MemOK
  <2>2. QED
    BY <1>1, <1>4, <2>1 DEF Bears
<1>6. Earners(v) = Earners(w)
  BY <1>1 DEF Earners
<1>7. Earned(v)
  BY <1>1, <1>2, <1>6 DEF Earned, Earners
<1>8. QED
  BY <1>1, <1>3, <1>4, <1>5, <1>6, <1>7

LEMMA GivenTakes ==
  ASSUME NEW n \in Nat, NEW w, MemOK(w, n), Earned(w), Bears(w), NEW p \in DOMAIN w.info, NEW four,
         NEW v, Given(w, v, p, four), New(w, v) \cap DOMAIN w.id_rank = {}
  PROVE  Bears(v) /\ Earned(v) /\ Earners(v) = Earners(w) /\ v.out = w.out /\ Stays(w, v)
<1>1. PICK x : Grown(w, x) /\ v = set_info_data(x, p, ListOf(w, x, p, four))
  BY DEF Given
<1>2. PICK i : i = ListOf(w, x, p, four)
  OBVIOUS
<1>3. IsMem(x) /\ x.out = w.out
  BY <1>1 DEF Grown
<1>4. /\ v.info = Put(x.info, p, i) /\ v.id_rank = x.id_rank /\ v.user = x.user /\ v.out = x.out
      /\ v.target_guid = x.target_guid
  BY <1>1, <1>2, <1>3, InfoIs
<1>5. /\ Bears(x) /\ Earned(x) /\ Earners(x) = Earners(w)
      /\ \A id \in DOMAIN w.id_rank \ New(w, x) : id \in DOMAIN x.id_rank /\ x.id_rank[id] = w.id_rank[id]
      /\ \A q \in Players : get_rank_id(x, q) = get_rank_id(w, q)
  BY <1>1, GrownTakes
<1>6. New(w, v) = New(w, x)
  BY <1>4 DEF New
<1>7. i.cur \in {0, get_rank_id(x, p)}
  <2>1. i.cur = w.info[p].cur
    BY <1>2 DEF ListOf
  <2>2. p \in Players /\ w.info[p].cur \in {0, get_rank_id(w, p)}
    BY DEF Bears, MemOK
  <2>3. QED
    BY <1>5, <2>1, <2>2
<1>8. Bears(v)
  BY <1>4, <1>5, <1>7, BearsPut
<1>9. Earned(v) /\ Earners(v) = Earners(x)
  BY <1>4, <1>5 DEF Earned, Earners
<1>10. Stays(w, v)
  BY <1>4, <1>5, <1>6 DEF Stays
<1>11. QED
  BY <1>3, <1>4, <1>5, <1>8, <1>9, <1>10

\* What the ladder stands on: who has a place, a row, a row on its way to the tables or back was paid for it or
\* is a number, and an info shows the place that its player has.
Standing(g, t, q, a) ==
  /\ Earned(g) /\ Bears(g)
  /\ DOMAIN t.rows \subseteq Earners(g) /\ Named(q, Earners(g)) /\ Told(a, Earners(g))
Fine  == Sound({"late", "lost"})
Fair  == Fine => Standing(game, db, sent, answers)
Moves == Fine' => game'.id_rank = << >> \/ Swaps(game, game')

LEMMA FineBefore ==
  ASSUME spoilt \subseteq spoilt', Fine'
  PROVE  Fine
BY DEF Fine, Sound

LEMMA NotReused ==
  ASSUME NEW w, NEW marks, Leaves(w, marks), Fine'
  PROVE  /\ Fine /\ ~Reused(w) /\ \A m \in marks : m \in {"late", "lost"}
<1>1. spoilt' = spoilt \cup marks \cup Marks(w)
  BY DEF Leaves
<1>2. spoilt \subseteq {"late", "lost"} /\ marks \subseteq {"late", "lost"} /\ Marks(w) \subseteq {"late", "lost"}
  BY <1>1 DEF Fine, Sound
<1>3. ~Reused(w)
  <2>1. Reused(w) => "reused" \in Marks(w)
    BY DEF Marks
  <2>2. QED
    BY <1>2, <2>1
<1>4. QED
  BY <1>2, <1>3 DEF Fine, Sound

LEMMA LeavesFairly ==
  ASSUME TypeInv, Standing(game, db, sent, answers), NEW w, IsMem(w), NEW n, w.out \in Seq(Writes(n)), NEW marks, Leaves(w, marks),
         Earned(w), Bears(w), Earners(game) \subseteq Earners(w), Swaps(game, w), db' = db, Told(answers', Earners(game))
  PROVE  Standing(game, db, sent, answers)' /\ Swaps(game, game')
<1>1. PICK g : g = game'
  OBVIOUS
<1>2. g.info = w.info /\ g.id_rank = w.id_rank /\ g.user = w.user /\ g.out = << >>
  BY <1>1, LeftIs
<1>3. PICK E, F : E = Earners(game) /\ F = Earners(w)
  OBVIOUS
<1>4. E \subseteq F /\ DOMAIN w.id_rank \subseteq F /\ Named(w.out, F) /\ Named(sent, E) /\ DOMAIN db.rows \subseteq E
  BY <1>3 DEF Earned, Standing
<1>5. Earners(g) = F
  BY <1>2, <1>3 DEF Earners
<1>6. Earned(g)
  <2>1. DOMAIN g.out = {}
    BY <1>2
  <2>2. QED
    BY <1>2, <1>4, <1>5, <2>1 DEF Earned, Named
<1>7. Bears(g)
  BY <1>2 DEF Bears, get_rank_id
<1>8. Named(sent', F)
  <2>1. PICK o : o = w.out
    OBVIOUS
  <2>2. sent' = IF up THEN Behind(sent, o) ELSE sent
    BY <2>1 DEF Leaves, Behind
  <2>3. PICK S : S = Messages(Most)
    OBVIOUS
  <2>4. sent \in Seq(S)
    BY <2>3 DEF TypeInv
  <2>5. Named(o, F) /\ o \in Seq(Writes(n))
    BY <1>4, <2>1
  <2>6. Named(Behind(sent, o), F)
    BY <1>4, <2>4, <2>5, JoinNamed
  <2>7. Named(sent, F)
    BY <1>4 DEF Named
  <2>8. QED
    BY <2>2, <2>6, <2>7
<1>9. DOMAIN db'.rows \subseteq F /\ Told(answers', F)
  BY <1>3, <1>4 DEF Told
<1>10. Swaps(game, g)
  BY <1>2 DEF Swaps
<1>11. Standing(g, db', sent', answers')
  BY <1>5, <1>6, <1>7, <1>8, <1>9 DEF Standing
<1>12. QED
  BY <1>1, <1>10, <1>11

LEMMA FirstGuid ==
  ASSUME NEW w, IsMem(w), NEW p, NEW v, v = GetFirstReward(w, p)
  PROVE  IsMem(v) /\ v.target_guid = w.target_guid
<1>1. CASE v = w
  BY <1>1
<1>2. CASE v # w
  <2>1. p \in DOMAIN w.info /\ w.info[p].max = 0
    BY <1>2 DEF GetFirstReward
  <2>2. PICK last : last = FirstPlace(w)
    OBVIOUS
  <2>3. QED
    BY <2>1, <2>2, FirstIs
<1>3. QED
  BY <1>1, <1>2

LEMMA ExtraGuid ==
  ASSUME NEW w, IsMem(w), NEW p, NEW t, NEW result, NEW v, v = ExtraProc(w, p, t, result)
  PROVE  v.target_guid = w.target_guid
<1>1. PICK win : win = (result = "won")
  OBVIOUS
<1>2. PICK l : l = IF result = "quit" THEN w ELSE AddLog(w, p, t)
  OBVIOUS
<1>3. IsMem(l) /\ l.target_guid = w.target_guid
  BY <1>2, LogAside
<1>4. PICK x : x = SendBattleReward(l, p, t, win)
  OBVIOUS
<1>5. v = UpdateRank(x, p, t, win)
  BY <1>1, <1>2, <1>4 DEF ExtraProc
<1>6. IsMem(x) /\ x.target_guid = l.target_guid
  <2>1. CASE x = GetFirstReward(l, p)
    BY <1>3, <2>1, FirstGuid
  <2>2. CASE x = l
    BY <1>3, <2>2
  <2>3. CASE \E r : x = PaidFor(l, p, r)
    BY <1>3, <2>3, PaidIs
  <2>4. QED
    BY <1>4, <2>1, <2>2, <2>3 DEF SendBattleReward
<1>7. CASE MovesUp(x, p, t, win)
  <2>1. PICK m, h : m = x.info[p].cur /\ h = get_rank_id(x, t)
    OBVIOUS
  <2>2. PICK best : best = Min({x.info[p].max, h})
    OBVIOUS
  <2>3. v.target_guid = x.target_guid
    BY <1>5, <1>6, <1>7, <2>1, <2>2, UpdateIs
  <2>4. QED
    BY <1>3, <1>6, <2>3
<1>8. CASE ~MovesUp(x, p, t, win)
  BY <1>3, <1>5, <1>6, <1>8 DEF UpdateRank
<1>9. QED
  BY <1>7, <1>8

LEMMA RefreshedFairly ==
  ASSUME TypeInv, Standing(game, db, sent, answers), NEW n \in Nat, Room(n), NEW w, MemOK(w, n), NEW p \in DOMAIN w.info,
         NEW marks, Refreshed(w, p, marks), Fine', UNCHANGED <<db, answers>>,
         Earned(w), Bears(w), Earners(game) \subseteq Earners(w), Swaps(game, w), w.target_guid = game.target_guid,
         DOMAIN game.id_rank \subseteq DOMAIN w.id_rank, DOMAIN w.id_rank \subseteq DOMAIN game.id_rank \cup Players
  PROVE  Standing(game, db, sent, answers)' /\ Swaps(game, game')
<1>1. PICK four \in Offers(w, p) : Leaves(SetInfoOpp(w, p, four), marks)
  BY DEF Refreshed
<1>2. p \in Players /\ IsMem(w) /\ w.target_guid \in Nat /\ w.out \in Seq(Writes(n))
  BY DEF MemOK
<1>3. IsFour(four) /\ \A i \in 1..4 : four[i] <= LastRank
  <2>1. Aside(four, OwnRank(w, p))
    BY <1>1, <1>2, OffersAre
  <2>2. QED
    BY <2>1 DEF Aside
<1>4. PICK v : v = SetInfoOpp(w, p, four)
  OBVIOUS
<1>5. Given(w, v, p, four)
  BY <1>2, <1>3, <1>4, SetInfoOppIs
<1>6. MemOK(v, n)
  BY <1>3, <1>5, GivenKeeps
<1>7. IsMem(v) /\ v.target_guid \in Nat /\ Leaves(v, marks)
  BY <1>1, <1>4, <1>6 DEF MemOK
<1>8. ~Reused(v)
  BY <1>7, NotReused
<1>9. New(w, v) \cap DOMAIN w.id_rank = {}
  <2>1. New(w, v) \cap DOMAIN game.id_rank = {}
    BY <1>8 DEF Reused, New
  <2>2. New(w, v) \subseteq Nat
    BY <1>2, <1>7 DEF New
  <2>3. New(w, v) \cap Players = {}
    BY <2>2, ArenaAssumption
  <2>4. QED
    BY <2>1, <2>3
<1>10. Bears(v) /\ Earned(v) /\ Earners(v) = Earners(w) /\ v.out = w.out /\ Stays(w, v)
  BY <1>5, <1>9, GivenTakes
<1>11. Swaps(game, v)
  BY <1>10, SwapsLater
<1>12. Told(answers', Earners(game)) /\ db' = db
  BY DEF Standing
<1>13. v.out \in Seq(Writes(n)) /\ Earners(game) \subseteq Earners(v)
  BY <1>2, <1>10
<1>14. QED
  BY <1>7, <1>10, <1>11, <1>12, <1>13, LeavesFairly

\* A step of others.
LEMMA StillFair ==
  ASSUME Standing(game, db, sent, answers), UNCHANGED <<game, db, sent, answers>>
  PROVE  Standing(game, db, sent, answers)' /\ Swaps(game, game')
<1>1. PICK g : g = game'
  OBVIOUS
<1>2. g = game
  BY <1>1
<1>3. Swaps(game, g)
  BY <1>2 DEF Swaps
<1>4. Standing(g, db', sent', answers')
  BY <1>2
<1>5. QED
  BY <1>1, <1>3, <1>4

LEMMA InfoFairly ==
  ASSUME TypeInv, Standing(game, db, sent, answers), Fine', NEW p \in Players, PQSingleArenaInfo(p) \/ PQSingleArenaRefresh(p)
  PROVE  Standing(game, db, sent, answers)' /\ Swaps(game, game')
<1>1. PICK n \in Nat : n = Most
  BY RoomNow
<1>2. MemOK(game, n) /\ Room(n) /\ IsMem(game)
  BY <1>1, RoomNow DEF TypeInv, MemOK
<1>3. PICK b : b = SetInfoBase(game, p)
  OBVIOUS
<1>4. PICK w, marks : (w = game \/ w = b) /\ p \in DOMAIN w.info /\ Refreshed(w, p, marks) /\ UNCHANGED <<db, answers>>
  <2>1. p \in DOMAIN b.info
    BY <1>2, <1>3, BaseKeeps
  <2>2. CASE PQSingleArenaInfo(p)
    <3>1. PICK w : w = IF Baseless(p) THEN b ELSE game
      OBVIOUS
    <3>2. Refreshed(w, p, {}) /\ UNCHANGED <<db, answers>>
      BY <1>3, <2>2, <3>1 DEF PQSingleArenaInfo
    <3>3. p \in DOMAIN w.info
      BY <2>1, <3>1 DEF Baseless
    <3>4. QED
      BY <3>1, <3>2, <3>3
  <2>3. CASE PQSingleArenaRefresh(p)
    <3>1. PICK w : w = IF p \in DOMAIN game.info THEN game ELSE b
      OBVIOUS
    <3>2. Refreshed(w, p, Skips(p)) /\ UNCHANGED <<db, answers>>
      BY <1>3, <2>3, <3>1 DEF PQSingleArenaRefresh
    <3>3. p \in DOMAIN w.info
      BY <2>1, <3>1
    <3>4. QED
      BY <3>1, <3>2, <3>3
  <2>4. QED
    BY <2>2, <2>3
<1>5. Earned(game) /\ Bears(game)
  BY DEF Standing
<1>6. MemOK(w, n)
  BY <1>2, <1>3, <1>4, BaseKeeps
<1>7. Earned(w) /\ Bears(w) /\ w.id_rank = game.id_rank /\ w.user = game.user /\ w.target_guid = game.target_guid
  <2>1. CASE w = game
    BY <1>5, <2>1
  <2>2. CASE w = b
    BY <1>2, <1>3, <1>5, <2>2, BaseTakes
  <2>3. QED
    BY <1>4, <2>1, <2>2
<1>8. Swaps(game, w) /\ Earners(game) \subseteq Earners(w)
  BY <1>7 DEF Swaps, Earners
<1>9. DOMAIN game.id_rank \subseteq DOMAIN w.id_rank /\ DOMAIN w.id_rank \subseteq DOMAIN game.id_rank \cup Players
  BY <1>7
<1>10. QED
  BY <1>2, <1>4, <1>6, <1>7, <1>8, <1>9, RefreshedFairly

LEMMA LevelFairly ==
  ASSUME TypeInv, Standing(game, db, sent, answers), Fine', NEW p \in Players, UpdateLevel(p)
  PROVE  Standing(game, db, sent, answers)' /\ Swaps(game, game')
<1>1. PICK r : r = get_rank_id(game, p)
  OBVIOUS
<1>2. PICK m : m = RowMsg(game.rank_map[r], r)
  OBVIOUS
<1>3. PICK z : z = One(m)
  OBVIOUS
<1>4. PICK w : w = Write(game, z)
  OBVIOUS
<1>5. Ranked(game, p) /\ Leaves(w, {}) /\ UNCHANGED <<db, answers>>
  BY <1>1, <1>2, <1>3, <1>4 DEF UpdateLevel, One
<1>6. PICK n \in Nat : n = Most
  BY RoomNow
<1>7. IsMem(game) /\ MemOK(game, n) /\ game.out = << >>
  BY <1>6 DEF TypeInv, MemOK
<1>8. /\ IsMem(w) /\ w.out = Behind(game.out, z)
      /\ w.info = game.info /\ w.id_rank = game.id_rank /\ w.user = game.user
  BY <1>4, <1>7, WriteIs
<1>9. r \in DOMAIN game.rank_map /\ r \in 1..Reach(n) /\ m.id \in DOMAIN game.id_rank
  <2>1. p \in DOMAIN game.id_rank /\ r = game.id_rank[p]
    BY <1>1, <1>5 DEF Ranked, get_rank_id, RankIn
  <2>2. r \in DOMAIN game.rank_map /\ r \in 1..Reach(n) /\ game.rank_map[r] \in DOMAIN game.id_rank
    BY <1>7, <2>1 DEF MemOK, PlacesOK
  <2>3. QED
    BY <1>2, <2>2 DEF RowMsg
<1>10. PICK E : E = Earners(game)
  OBVIOUS
<1>11. Earners(w) = E
  BY <1>8, <1>10 DEF Earners
<1>12. m.id \in E
  BY <1>9, <1>10 DEF Standing, Earned
<1>13. w.out = z
  <2>1. z \in Seq({m})
    BY <1>3 DEF One
  <2>2. QED
    BY <1>7, <1>8, <2>1 DEF Behind
<1>14. Named(w.out, E)
  BY <1>3, <1>12, <1>13 DEF Named, One
<1>15. Earned(w) /\ Bears(w)
  BY <1>8, <1>10, <1>11, <1>14 DEF Standing, Earned, Bears, get_rank_id
<1>16. w.out \in Seq(Writes(n))
  <2>1. game.rank_map[r] \in Ids
    BY <1>7, <1>9 DEF MemOK, PlacesOK
  <2>2. PICK S : S = Writes(n)
    OBVIOUS
  <2>3. m \in S
    BY <1>2, <1>9, <2>1, <2>2 DEF Writes
  <2>4. z \in Seq(S)
    BY <1>3, <2>3 DEF One
  <2>5. QED
    BY <1>13, <2>2, <2>4
<1>17. Swaps(game, w) /\ Earners(game) \subseteq Earners(w)
  BY <1>8, <1>10, <1>11 DEF Swaps
<1>18. Told(answers', Earners(game)) /\ db' = db
  BY <1>5 DEF Standing
<1>19. QED
  BY <1>5, <1>8, <1>15, <1>16, <1>17, <1>18, LeavesFairly

\* A handler that does nothing.
LEMMA NothingFairly ==
  ASSUME TypeInv, Standing(game, db, sent, answers), Leaves(game, {}), UNCHANGED <<db, answers>>
  PROVE  Standing(game, db, sent, answers)' /\ Swaps(game, game')
<1>1. PICK n \in Nat : n = Most
  BY RoomNow
<1>2. IsMem(game) /\ game.out \in Seq(Writes(n)) /\ Earned(game) /\ Bears(game)
  BY <1>1 DEF TypeInv, MemOK, Standing
<1>3. Swaps(game, game) /\ Earners(game) \subseteq Earners(game)
  BY DEF Swaps
<1>4. Told(answers', Earners(game)) /\ db' = db
  BY DEF Standing
<1>5. QED
  BY <1>2, <1>3, <1>4, LeavesFairly

LEMMA EndFairly ==
  ASSUME TypeInv, Rewards, Standing(game, db, sent, answers), Fine', NEW i \in DOMAIN fights, NEW result, FightEnds(i, result)
  PROVE  Standing(game, db, sent, answers)' /\ Swaps(game, game')
<1>1. PICK p, t : p = fights[i].ack /\ t = fights[i].def
  OBVIOUS
<1>2. PICK first : first = GetFirstReward(game, p)
  OBVIOUS
<1>3. /\ UNCHANGED <<db, answers>>
      /\ IF t = Monster
         THEN IF first = game THEN Leaves(game, {}) ELSE Refreshed(first, p, Skips(p))
         ELSE Leaves(game, {}) \/ (~check_rank(game, p, t) /\ Refreshed(ExtraProc(game, p, t, result), p, {}))
  BY <1>1, <1>2 DEF FightEnds
<1>4. p \in Players
  BY <1>1, FighterIs
<1>5. PICK m, n : m = Most /\ n = Most + 1
  OBVIOUS
<1>6. m \in Nat /\ n \in Nat /\ n = m + 1 /\ Room(n) /\ MemOK(game, m) /\ IsMem(game)
  <2>1. Len(fights) # 0 /\ Most \in Nat
    BY FighterIs, RoomNow
  <2>2. Room(n) /\ MemOK(game, m)
    BY <1>5, <2>1, RoomNow DEF TypeInv
  <2>3. QED
    BY <1>5, <2>1, <2>2 DEF MemOK
<1>7. Earned(game) /\ Bears(game)
  BY DEF Standing
<1>8. CASE Leaves(game, {})
  BY <1>3, <1>8, NothingFairly
<1>9. CASE t = Monster /\ first # game
  <2>1. p \in DOMAIN game.info
    BY <1>2, <1>9 DEF GetFirstReward
  <2>2. PICK marks : marks = Skips(p)
    OBVIOUS
  <2>3. Refreshed(first, p, marks)
    BY <1>3, <1>9, <2>2
  <2>4. marks \subseteq spoilt' /\ spoilt \subseteq spoilt'
    BY <2>3 DEF Refreshed, Leaves
  <2>5. "skipped" \notin marks /\ "skipped" \notin spoilt
    BY <2>4 DEF Fine, Sound
  <2>6. Based(game, p)
    <3>1. Bases(game)
      BY <2>5 DEF Rewards
    <3>2. QED
      BY <1>4, <1>6, <2>1, <2>2, <2>5, <3>1, NotSkipped
  <2>7. MemOK(first, n)
    BY <1>2, <1>4, <1>6, FirstKeeps
  <2>8. /\ Bears(first) /\ Stays(game, first)
        /\ DOMAIN first.id_rank \subseteq DOMAIN game.id_rank \cup Players
    BY <1>2, <1>6, <1>7, <2>1, <2>6, FirstTakes
  <2>9. Earned(first) /\ Earners(game) \subseteq Earners(first)
    BY <1>2, <1>6, <1>7, <2>1, FirstEarned
  <2>10. first.target_guid = game.target_guid
    BY <1>2, <1>6, FirstGuid
  <2>11. Swaps(game, first)
    BY <2>8, StaySwaps
  <2>12. p \in DOMAIN first.info
    <3>1. PICK last : last = FirstPlace(game)
      OBVIOUS
    <3>2. game.info[p].max = 0
      BY <1>2, <1>9 DEF GetFirstReward
    <3>3. first.info = Put(game.info, p, InfoRec(last, last, game.info[p].opps))
      BY <1>2, <1>6, <2>1, <3>1, <3>2, FirstIs
    <3>4. QED
      BY <3>3 DEF Put
  <2>13. DOMAIN game.id_rank \subseteq DOMAIN first.id_rank
    BY <2>8 DEF Stays
  <2>14. QED
    BY <1>3, <1>6, <2>3, <2>7, <2>8, <2>9, <2>10, <2>11, <2>12, <2>13, RefreshedFairly
<1>10. CASE ~check_rank(game, p, t) /\ Refreshed(ExtraProc(game, p, t, result), p, {})
  <2>1. get_rank_id(game, t) # 0 /\ Listed(game, p, t) = get_rank_id(game, t)
    BY <1>10 DEF check_rank
  <2>2. p \in DOMAIN game.info /\ game.info[p].opps # << >>
    <3>1. Listed(game, p, t) # 0
      BY <2>1
    <3>2. PICK four : four = IF p \in DOMAIN game.info THEN game.info[p].opps ELSE << >>
      OBVIOUS
    <3>3. \E j \in DOMAIN four : four[j].id = t
      BY <3>1, <3>2 DEF Listed
    <3>4. four # << >>
      BY <3>3
    <3>5. QED
      BY <3>2, <3>4
  <2>3. PICK x, marks : x = ExtraProc(game, p, t, result) /\ marks = {}
    OBVIOUS
  <2>4. Refreshed(x, p, marks)
    BY <1>10, <2>3
  <2>5. MemOK(x, n) /\ p \in DOMAIN x.info
    BY <1>6, <2>1, <2>2, <2>3, ExtraKeeps
  <2>6. Based(game, p)
    <3>1. spoilt \subseteq spoilt'
      BY <2>4 DEF Refreshed, Leaves
    <3>2. "skipped" \notin spoilt
      BY <3>1 DEF Fine, Sound
    <3>3. Bases(game)
      BY <3>2 DEF Rewards
    <3>4. QED
      BY <2>2, <3>3 DEF Bases
  <2>7. /\ Bears(x) /\ Earned(x) /\ Earners(game) \subseteq Earners(x) /\ Swaps(game, x)
        /\ DOMAIN game.id_rank \subseteq DOMAIN x.id_rank /\ DOMAIN x.id_rank \subseteq DOMAIN game.id_rank \cup Players
    <3>1. Room(m + 1)
      BY <1>6
    <3>2. QED
      BY <1>6, <1>7, <2>1, <2>2, <2>3, <2>6, <3>1, ExtraTakes
  <2>8. x.target_guid = game.target_guid
    BY <1>6, <2>3, ExtraGuid
  <2>9. QED
    BY <1>3, <1>6, <2>4, <2>5, <2>7, <2>8, RefreshedFairly
<1>11. QED
  BY <1>3, <1>8, <1>9, <1>10

LEMMA LinkFairly ==
  ASSUME TypeInv, Standing(game, db, sent, answers), SEventNetRealDB
  PROVE  Standing(game, db, sent, answers)' /\ Swaps(game, game')
<1>1. game' = [game EXCEPT !.load_log = 0, !.target_guid = 0] /\ sent' = Append(sent, Load) /\ UNCHANGED <<db, answers>>
  BY DEF SEventNetRealDB
<1>2. IsMem(game) /\ sent \in Seq(Messages(Most))
  BY DEF TypeInv, MemOK
<1>3. PICK g : g = game'
  OBVIOUS
<1>4. g.info = game.info /\ g.id_rank = game.id_rank /\ g.user = game.user /\ g.out = game.out
  BY <1>1, <1>2, <1>3 DEF IsMem
<1>5. PICK E : E = Earners(game)
  OBVIOUS
<1>6. Earners(g) = E
  BY <1>4, <1>5 DEF Earners
<1>7. Earned(g) /\ Bears(g) /\ DOMAIN db'.rows \subseteq E /\ Told(answers', E)
  BY <1>1, <1>4, <1>5, <1>6 DEF Standing, Earned, Bears, get_rank_id
<1>8. Named(sent', E)
  <2>1. \A j \in DOMAIN sent' : (j \in DOMAIN sent /\ sent'[j] = sent[j]) \/ sent'[j] = Load
    BY <1>1, <1>2
  <2>2. Load.kind # "row"
    BY DEF Load
  <2>3. QED
    BY <1>5, <2>1, <2>2 DEF Standing, Named
<1>9. Standing(g, db', sent', answers') /\ Swaps(game, g)
  BY <1>4, <1>6, <1>7, <1>8 DEF Standing, Swaps
<1>10. QED
  BY <1>3, <1>9

LEMMA RealdbFairly ==
  ASSUME TypeInv, Standing(game, db, sent, answers), Realdb
  PROVE  Standing(game, db, sent, answers)' /\ Swaps(game, game')
<1>1. PICK k \in DOMAIN sent :
        /\ sent' = SubSeq(sent, k + 1, Len(sent)) /\ db' = Saved(db, SubSeq(sent, 1, k))
        /\ answers' = (IF sent[1] = Load /\ up THEN answers \o Answers ELSE answers)
        /\ UNCHANGED game
  BY DEF Realdb
<1>2. PICK n \in Nat : n = Most
  BY RoomNow
<1>3. sent \in Seq(Messages(n)) /\ TablesOK(db, n) /\ answers \in Seq(Replies(n))
  BY <1>2 DEF TypeInv
<1>4. PICK l \in Nat : l = Len(sent)
  BY <1>3
<1>5. k \in 1..l
  BY <1>3, <1>4
<1>6. PICK q, r : q = SubSeq(sent, 1, k) /\ r = SubSeq(sent, k + 1, l)
  OBVIOUS
<1>7. /\ q \in Seq(Messages(n)) /\ Len(q) = k /\ \A i \in 1..k : q[i] = sent[i]
      /\ r \in Seq(Messages(n)) /\ Len(r) = l - k /\ \A i \in 1..(l - k) : r[i] = sent[i + k]
  <2>1. PICK S : S = Messages(n)
    OBVIOUS
  <2>2. PICK x \in Seq(S) : x = sent
    BY <1>3, <2>1
  <2>3. l = Len(x) /\ k \in 0..l /\ q = SubSeq(x, 1, k) /\ r = SubSeq(x, k + 1, l)
    BY <1>4, <1>5, <1>6, <2>2
  <2>4. Halves(S, x, l, k, q, r)
    BY <2>3, InTwo
  <2>5. QED
    BY <2>1, <2>2, <2>4 DEF Halves
<1>8. PICK E : E = Earners(game)
  OBVIOUS
<1>9. Named(q, E) /\ Named(r, E)
  <2>1. Named(sent, E) /\ DOMAIN sent = 1..l
    BY <1>3, <1>4, <1>8 DEF Standing
  <2>2. DOMAIN q = 1..k /\ DOMAIN r = 1..(l - k)
    BY <1>7
  <2>3. \A i \in DOMAIN q : i \in DOMAIN sent /\ q[i] = sent[i]
    BY <1>5, <1>7, <2>1, <2>2
  <2>4. \A i \in DOMAIN r : i + k \in DOMAIN sent /\ r[i] = sent[i + k]
    BY <1>5, <1>7, <2>1, <2>2
  <2>5. QED
    BY <2>1, <2>3, <2>4 DEF Named
<1>10. DOMAIN db.rows \subseteq E
  BY <1>8 DEF Standing
<1>11. DOMAIN db'.rows \subseteq E
  <2>1. DOMAIN Saved(db, q).rows \subseteq E
    BY <1>3, <1>7, <1>9, <1>10, SavedNamed
  <2>2. QED
    BY <1>1, <1>6, <2>1
<1>12. Told(answers', E)
  <2>1. Told(answers, E)
    BY <1>8 DEF Standing
  <2>2. PICK z : z = Answers
    OBVIOUS
  <2>3. /\ Len(z) = 3 /\ z[1].kind = "count" /\ z[3].kind = "logs"
        /\ z[2].rows = db.rows
    BY <2>2 DEF Answers, CountMsg
  <2>4. z \in Seq(Replies(n))
    BY <1>2, <2>2, AnswersTyped DEF TypeInv
  <2>5. Told(z, E)
    <3>1. DOMAIN z = 1..3
      BY <2>3, <2>4
    <3>2. QED
      BY <1>10, <2>3, <3>1 DEF Told
  <2>6. PICK a : a = Behind(answers, z)
    OBVIOUS
  <2>7. PICK j \in Nat : j = Len(answers) /\ DOMAIN answers = 1..j
    BY <1>3
  <2>8. PICK d \in Nat : d = 3
    OBVIOUS
  <2>s. PICK S : S = Replies(n)
    OBVIOUS
  <2>j. PICK x \in Seq(S), y \in Seq(S) : x = answers /\ y = z
    BY <1>3, <2>4, <2>s
  <2>k. Joined(a, x, y, j, d)
    BY <2>3, <2>6, <2>7, <2>8, <2>j, JoinIs
  <2>9. \A i \in DOMAIN a : (i \in DOMAIN answers /\ a[i] = answers[i]) \/ (i - j \in DOMAIN z /\ a[i] = z[i - j])
    <3>1. DOMAIN z = 1..3
      BY <2>3, <2>4
    <3>2. QED
      BY <2>7, <2>8, <2>j, <2>k, <3>1 DEF Joined
  <2>10. Told(a, E)
    BY <2>1, <2>5, <2>9 DEF Told
  <2>11. QED
    BY <1>1, <2>1, <2>2, <2>6, <2>10 DEF Behind
<1>13. PICK g : g = game'
  OBVIOUS
<1>14. g = game /\ Named(sent', E)
  BY <1>1, <1>4, <1>6, <1>9, <1>13
<1>15. Standing(g, db', sent', answers') /\ Swaps(game, g)
  BY <1>8, <1>11, <1>12, <1>14 DEF Standing, Swaps
<1>16. QED
  BY <1>13, <1>15

\* What is left of the messages when a process ends names no others.
LEMMA CutNamed ==
  ASSUME TypeInv, NEW E, Named(sent, E), NEW k \in 0..Len(sent), NEW torn \in BOOLEAN, torn => Torn(k)
  PROVE  Named(Cut(k, torn), E)
<1>1. PICK n \in Nat : n = Most
  BY RoomNow
<1>2. PICK S : S = Messages(n)
  OBVIOUS
<1>3. sent \in Seq(S)
  BY <1>1, <1>2 DEF TypeInv
<1>4. PICK l \in Nat : l = Len(sent) /\ DOMAIN sent = 1..l
  BY <1>3
<1>5. k \in 0..l /\ k \in Nat
  BY <1>4
<1>6. PICK q : q = SubSeq(sent, 1, k)
  OBVIOUS
<1>7. q \in Seq(S) /\ Len(q) = k /\ \A i \in 1..k : q[i] = sent[i]
  <2>1. PICK x \in Seq(S) : x = sent
    BY <1>3
  <2>2. PICK r : r = SubSeq(x, k + 1, l)
    OBVIOUS
  <2>3. l = Len(x) /\ q = SubSeq(x, 1, k)
    BY <1>4, <1>6, <2>1
  <2>4. Halves(S, x, l, k, q, r)
    BY <1>5, <2>2, <2>3, InTwo
  <2>5. QED
    BY <2>1, <2>4 DEF Halves
<1>8. Named(q, E)
  <2>1. \A i \in DOMAIN q : i \in DOMAIN sent /\ q[i] = sent[i]
    BY <1>4, <1>5, <1>7
  <2>2. QED
    BY <2>1 DEF Named
<1>9. CASE ~torn
  <2>1. Cut(k, torn) = q \o << >>
    BY <1>6, <1>9 DEF Cut
  <2>2. Cut(k, torn) = q
    BY <1>7, <2>1
  <2>3. QED
    BY <1>8, <2>2
<1>10. CASE torn
  <2>1. PICK d : d = [kind |-> "del", id |-> sent[k + 1].id]
    OBVIOUS
  <2>2. d.kind # "row"
    BY <2>1
  <2>3. PICK z : z = One(d)
    OBVIOUS
  <2>4. Cut(k, torn) = Behind(q, z)
    BY <1>6, <1>10, <2>1, <2>3 DEF Cut, Behind, One
  <2>5. z \in Seq({d}) /\ Named(z, E)
    BY <2>2, <2>3 DEF One, Named
  <2>6. Named(Behind(q, z), E)
    BY <1>7, <1>8, <2>5, JoinNamed
  <2>7. QED
    BY <2>4, <2>6
<1>11. QED
  BY <1>9, <1>10

LEMMA RealdbEndsFairly ==
  ASSUME TypeInv, Standing(game, db, sent, answers), RealdbEnds
  PROVE  Standing(game, db, sent, answers)' /\ Swaps(game, game')
<1>1. /\ sent' = << >> /\ UNCHANGED game
      /\ \E k \in 0..Len(sent), torn \in BOOLEAN : (torn => Torn(k)) /\ db' = Saved(db, Cut(k, torn))
      /\ \E k \in 0..Len(answers) : answers' = SubSeq(answers, 1, k)
  BY DEF RealdbEnds
<1>2. PICK k \in 0..Len(sent), torn \in BOOLEAN : (torn => Torn(k)) /\ db' = Saved(db, Cut(k, torn))
  BY <1>1
<1>3. PICK j \in 0..Len(answers) : answers' = SubSeq(answers, 1, j)
  BY <1>1
<1>4. PICK n \in Nat : n = Most
  BY RoomNow
<1>5. sent \in Seq(Messages(n)) /\ TablesOK(db, n) /\ answers \in Seq(Replies(n))
  BY <1>4 DEF TypeInv
<1>6. PICK E : E = Earners(game)
  OBVIOUS
<1>7. DOMAIN db.rows \subseteq E /\ Named(sent, E) /\ Told(answers, E)
  BY <1>6 DEF Standing
<1>8. PICK c : c = Cut(k, torn)
  OBVIOUS
<1>9. c \in Seq(Messages(n)) /\ Named(c, E)
  BY <1>2, <1>5, <1>7, <1>8, CutIs, CutNamed
<1>10. DOMAIN db'.rows \subseteq E
  <2>1. DOMAIN Saved(db, c).rows \subseteq E
    BY <1>5, <1>7, <1>9, SavedNamed
  <2>2. QED
    BY <1>2, <1>8, <2>1
<1>11. Told(answers', E)
  <2>1. PICK m \in Nat : m = Len(answers) /\ DOMAIN answers = 1..m
    BY <1>5
  <2>2. answers' = [i \in 1..j |-> answers[i]] /\ j \in 0..m
    BY <1>3, <2>1 DEF SubSeq
  <2>3. \A i \in DOMAIN answers' : i \in DOMAIN answers /\ answers'[i] = answers[i]
    BY <2>1, <2>2
  <2>4. QED
    BY <1>7, <2>3 DEF Told
<1>12. PICK g : g = game'
  OBVIOUS
<1>13. g = game /\ Named(sent', E)
  <2>1. DOMAIN sent' = {}
    BY <1>1
  <2>2. QED
    BY <1>1, <1>12, <2>1 DEF Named
<1>14. Standing(g, db', sent', answers') /\ Swaps(game, g)
  BY <1>6, <1>10, <1>11, <1>13 DEF Standing, Swaps
<1>15. QED
  BY <1>12, <1>14

\* Rows that are not older leave who has a place its place.
LEMMA LoadedTakes ==
  ASSUME Standing(game, db, sent, answers), IsMem(game), NEW rows, DOMAIN rows \subseteq Earners(game), ~Older(rows),
         NEW f, NEW w, IsLoaded(w, game, f, rows)
  PROVE  Earned(w) /\ Bears(w) /\ Earners(w) = Earners(game) /\ Stays(game, w)
<1>1. /\ w.id_rank = Over(rows, game.id_rank) /\ w.info = game.info /\ w.user = game.user /\ w.out = game.out
  BY LoadedIs
<1>2. /\ DOMAIN w.id_rank = DOMAIN rows \cup DOMAIN game.id_rank
      /\ \A id \in DOMAIN w.id_rank : w.id_rank[id] = IF id \in DOMAIN rows THEN rows[id] ELSE game.id_rank[id]
  BY <1>1 DEF Over
<1>3. PICK E : E = Earners(game)
  OBVIOUS
<1>4. Earners(w) = E
  BY <1>1, <1>3 DEF Earners
<1>5. Earned(w)
  BY <1>1, <1>2, <1>3, <1>4 DEF Standing, Earned
<1>6. Stays(game, w)
  <2>1. ASSUME NEW id \in DOMAIN game.id_rank, id \in DOMAIN rows
        PROVE  rows[id] = game.id_rank[id]
    <3>1. game.id_rank # << >>
      BY <2>1
    <3>2. QED
      BY <2>1, <3>1 DEF Older
  <2>2. QED
    BY <1>2, <2>1 DEF Stays
<1>7. Bears(w)
  <2>1. ASSUME NEW q \in DOMAIN game.info, game.info[q].cur # 0
        PROVE  game.info[q].cur = get_rank_id(w, q)
    <3>1. game.info[q].cur = get_rank_id(game, q)
      BY <2>1 DEF Standing, Bears
    <3>2. q \in DOMAIN game.id_rank /\ get_rank_id(game, q) = game.id_rank[q]
      BY <2>1, <3>1 DEF get_rank_id, RankIn
    <3>3. QED
      BY <1>6, <3>1, <3>2 DEF Stays, get_rank_id, RankIn
  <2>2. QED
    BY <1>1, <2>1 DEF Bears
<1>8. QED
  BY <1>3, <1>4, <1>5, <1>6, <1>7

LEMMA AnsweredFairly ==
  ASSUME TypeInv, Standing(game, db, sent, answers), Fine', Answered
  PROVE  Standing(game, db, sent, answers)' /\ Swaps(game, game')
<1>1. PICK m : m = Head(answers)
  OBVIOUS
<1>2. /\ answers # << >> /\ answers' = Tail(answers) /\ db' = db
      /\ \/ m.kind = "count" /\ PRServerInfoList(m.n)
         \/ m.kind = "ranks" /\ LoadData(m.rows)
         \/ m.kind = "logs" /\ LoadLog(m.logs)
  BY <1>1 DEF Answered
<1>3. PICK n \in Nat : n = Most
  BY RoomNow
<1>4. IsMem(game) /\ MemOK(game, n) /\ Room(n) /\ answers \in Seq(Replies(n)) /\ game.out = << >>
  BY <1>3, RoomNow DEF TypeInv, MemOK
<1>5. PICK E : E = Earners(game)
  OBVIOUS
<1>6. Told(answers', E) /\ (m.kind = "ranks" => DOMAIN m.rows \subseteq E) /\ Told(answers', Earners(game))
  <2>1. PICK l \in Nat : l = Len(answers) /\ DOMAIN answers = 1..l
    BY <1>4
  <2>2. l # 0 /\ m = answers[1] /\ 1 \in DOMAIN answers
    BY <1>1, <1>2, <1>4, <2>1
  <2>3. \A j \in DOMAIN answers' : j + 1 \in DOMAIN answers /\ answers'[j] = answers[j + 1]
    BY <1>2, <1>4, <2>1, <2>2
  <2>4. Told(answers, E)
    BY <1>5 DEF Standing
  <2>5. Told(answers', E)
    BY <2>3, <2>4 DEF Told
  <2>6. QED
    BY <1>5, <2>2, <2>4, <2>5 DEF Told
<1>7. ASSUME NEW w, IsMem(w), w.info = game.info, w.id_rank = game.id_rank, w.user = game.user, w.out = game.out,
             NEW marks, Leaves(w, marks)
      PROVE  Standing(game, db, sent, answers)' /\ Swaps(game, game')
  <2>1. Earners(w) = E
    BY <1>5, <1>7 DEF Earners
  <2>2. Earned(w) /\ Bears(w) /\ Swaps(game, w)
    BY <1>5, <1>7, <2>1 DEF Standing, Earned, Bears, Swaps, get_rank_id
  <2>3. w.out \in Seq(Writes(n)) /\ Earners(game) \subseteq Earners(w)
    BY <1>4, <1>5, <1>7, <2>1 DEF MemOK
  <2>4. QED
    BY <1>2, <1>6, <1>7, <2>2, <2>3, LeavesFairly
<1>8. CASE PRServerInfoList(m.n)
  <2>1. PICK c : c = m.n
    OBVIOUS
  <2>2. PICK w, marks : w = [game EXCEPT !.count = c] /\ Leaves(w, marks)
    BY <1>8, <2>1 DEF PRServerInfoList
  <2>3. IsMem(w) /\ w.info = game.info /\ w.id_rank = game.id_rank /\ w.user = game.user /\ w.out = game.out
    BY <1>4, <2>2 DEF IsMem
  <2>4. QED
    BY <1>7, <2>2, <2>3
<1>9. CASE m.kind = "ranks" /\ LoadData(m.rows)
  <2>1. m \in Replies(n)
    BY <1>1, <1>2, <1>4
  <2>2. PICK rows : rows = m.rows
    OBVIOUS
  <2>3. rows \in Tables(n) /\ LoadData(rows) /\ DOMAIN rows \subseteq E
    BY <1>6, <1>9, <2>1, <2>2, ReplyIs
  <2>4. PICK f, w, marks : /\ IsOwners(f, rows) /\ IsLoaded(w, game, f, rows)
                           /\ marks = (IF Older(rows) THEN {"overwritten"} ELSE {}) /\ Leaves(CreateRank(w), marks)
    BY <2>3 DEF LoadData, IsOwners, IsLoaded
  <2>5. MemOK(w, n)
    BY <1>4, <2>3, <2>4, LoadedKeeps
  <2>6. PICK v : v = CreateRank(w)
    OBVIOUS
  <2>7. Grown(w, v) /\ IsMem(v)
    BY <2>5, <2>6, CreatedIs
  <2>8. Leaves(v, marks)
    BY <2>4, <2>6
  <2>9. ~Reused(v) /\ ~Older(rows)
    <3>1. ~Reused(v) /\ \A x \in marks : x \in {"late", "lost"}
      BY <2>8, NotReused
    <3>2. QED
      BY <2>4, <3>1
  <2>10. Earned(w) /\ Bears(w) /\ Earners(w) = E /\ Stays(game, w)
    BY <1>4, <1>5, <2>3, <2>4, <2>9, LoadedTakes
  <2>11. /\ Bears(v) /\ Earned(v) /\ Earners(v) = Earners(w)
         /\ \A id \in DOMAIN w.id_rank \ New(w, v) : id \in DOMAIN v.id_rank /\ v.id_rank[id] = w.id_rank[id]
    BY <2>5, <2>7, <2>10, GrownTakes
  <2>12. Stays(game, v)
    <3>1. w.target_guid = game.target_guid
      BY <1>4, <2>4, LoadedIs
    <3>2. New(w, v) \cap DOMAIN game.id_rank = {}
      BY <2>9, <3>1 DEF Reused, New
    <3>3. QED
      BY <2>10, <2>11, <3>2 DEF Stays
  <2>13. Swaps(game, v)
    BY <2>12, StaySwaps
  <2>14. v.out \in Seq(Writes(n)) /\ Earners(game) \subseteq Earners(v)
    <3>1. v.out = w.out
      BY <2>7 DEF Grown
    <3>2. QED
      BY <1>5, <2>5, <2>10, <2>11, <3>1 DEF MemOK
  <2>15. QED
    BY <1>2, <1>6, <2>7, <2>8, <2>11, <2>13, <2>14, LeavesFairly
<1>10. CASE LoadLog(m.logs)
  <2>1. PICK x : x = Over(game.info, [p \in m.logs |-> EmptyInfo])
    OBVIOUS
  <2>2. PICK w, marks : w = [game EXCEPT !.info = x, !.load_log = game.load_log + 1] /\ marks = {}
    OBVIOUS
  <2>3. Leaves(w, marks)
    BY <1>10, <2>1, <2>2 DEF LoadLog
  <2>4. IsMem(w) /\ w.info = x /\ w.id_rank = game.id_rank /\ w.user = game.user /\ w.out = game.out
    BY <1>4, <2>2 DEF IsMem
  <2>5. \A q \in DOMAIN x : (q \in DOMAIN game.info /\ x[q] = game.info[q]) \/ x[q].cur = 0
    BY <2>1 DEF Over, EmptyInfo
  <2>6. Bears(w)
    BY <2>4, <2>5 DEF Standing, Bears, get_rank_id
  <2>7. Earners(w) = E
    BY <1>5, <2>4 DEF Earners
  <2>8. Earned(w) /\ Swaps(game, w)
    BY <1>5, <2>4, <2>7 DEF Standing, Earned, Swaps
  <2>9. w.out \in Seq(Writes(n)) /\ Earners(game) \subseteq Earners(w)
    BY <1>4, <1>5, <2>4, <2>7 DEF MemOK
  <2>10. QED
    BY <1>2, <1>6, <2>3, <2>4, <2>6, <2>8, <2>9, LeavesFairly
<1>11. QED
  BY <1>2, <1>8, <1>9, <1>10

LEMMA GameEndsFairly ==
  ASSUME TypeInv, Standing(game, db, sent, answers), Fine', GameEnds
  PROVE  Standing(game, db, sent, answers)' /\ game'.id_rank = << >>
<1>1. /\ game' = Memory(saved) /\ answers' = << >> /\ UNCHANGED db
      /\ \E k \in 0..Len(sent), torn \in BOOLEAN :
           (torn => Torn(k)) /\ sent' = Cut(k, torn) /\ spoilt' = spoilt \cup Lost(k) \cup Rolled
  BY DEF GameEnds
<1>2. PICK k \in 0..Len(sent), torn \in BOOLEAN :
        (torn => Torn(k)) /\ sent' = Cut(k, torn) /\ spoilt' = spoilt \cup Lost(k) \cup Rolled
  BY <1>1
<1>3. Rolled = {}
  BY <1>2 DEF Fine, Sound, Rolled
<1>4. \A p \in Players : saved[p].best = game.user[p].best
  BY <1>3 DEF Rolled
<1>5. PICK E : E = Earners(game)
  OBVIOUS
<1>6. Named(sent', E) /\ DOMAIN db'.rows \subseteq E
  <2>1. Named(sent, E) /\ DOMAIN db.rows \subseteq E
    BY <1>5 DEF Standing
  <2>2. Named(Cut(k, torn), E)
    BY <1>2, <2>1, CutNamed
  <2>3. QED
    BY <1>1, <1>2, <2>1, <2>2
<1>7. PICK g : g = game'
  OBVIOUS
<1>8. g.info = << >> /\ g.id_rank = << >> /\ g.user = saved /\ g.out = << >>
  BY <1>1, <1>7 DEF Memory
<1>9. Earners(g) = E
  BY <1>4, <1>5, <1>8 DEF Earners
<1>10. Earned(g) /\ Bears(g)
  <2>1. DOMAIN g.info = {} /\ DOMAIN g.id_rank = {} /\ DOMAIN g.out = {}
    BY <1>8
  <2>2. QED
    BY <2>1 DEF Earned, Named, Bears
<1>11. Told(answers', E)
  <2>1. DOMAIN answers' = {}
    BY <1>1
  <2>2. QED
    BY <2>1 DEF Told
<1>12. Standing(g, db', sent', answers')
  BY <1>6, <1>9, <1>10, <1>11 DEF Standing
<1>13. QED
  BY <1>7, <1>8, <1>12

LEMMA InitFairly ==
  ASSUME Init
  PROVE  Fair
<1>1. /\ game = Memory(saved) /\ sent = << >> /\ answers = << >>
      /\ \E came \in SUBSET Players :
           \E place \in [came -> MAX_CREATE_OPPONENT + 1 .. MAX_CREATE_OPPONENT + Cardinality(came)] :
             /\ db = [rows |-> place, logs |-> {}, count |-> Cardinality(came)]
             /\ saved = [p \in Players |-> Record(RankIn(place, p))]
  BY DEF Init
<1>2. PICK came \in SUBSET Players :
        \E place \in [came -> MAX_CREATE_OPPONENT + 1 .. MAX_CREATE_OPPONENT + Cardinality(came)] :
          /\ db = [rows |-> place, logs |-> {}, count |-> Cardinality(came)]
          /\ saved = [p \in Players |-> Record(RankIn(place, p))]
  BY <1>1
<1>3. PICK c \in Nat : c = Cardinality(came)
  BY ArenaAssumption, FS_Subset, FS_CardinalityType
<1>4. PICK place \in [came -> MAX_CREATE_OPPONENT + 1 .. MAX_CREATE_OPPONENT + c] :
        /\ db = [rows |-> place, logs |-> {}, count |-> c]
        /\ saved = [p \in Players |-> Record(RankIn(place, p))]
  BY <1>2, <1>3
<1>5. game.info = << >> /\ game.id_rank = << >> /\ game.user = saved /\ game.out = << >>
  BY <1>1 DEF Memory
<1>6. Earned(game) /\ Bears(game)
  <2>1. DOMAIN game.info = {} /\ DOMAIN game.id_rank = {} /\ DOMAIN game.out = {}
    BY <1>5
  <2>2. QED
    BY <2>1 DEF Earned, Named, Bears
<1>7. DOMAIN db.rows \subseteq Earners(game)
  <2>1. db.rows = place /\ DOMAIN place = came /\ came \subseteq Players
    BY <1>4
  <2>2. ASSUME NEW p \in came
        PROVE  game.user[p].best # 0
    <3>1. place[p] \in Nat /\ place[p] >= 1
      BY <1>4, ArenaAssumption
    <3>2. game.user[p].best = place[p]
      BY <1>4, <1>5, <2>1 DEF Record, RankIn
    <3>3. QED
      BY <3>1, <3>2
  <2>3. QED
    BY <2>1, <2>2 DEF Earners
<1>8. Named(sent, Earners(game)) /\ Told(answers, Earners(game))
  <2>1. DOMAIN sent = {} /\ DOMAIN answers = {}
    BY <1>1
  <2>2. QED
    BY <2>1 DEF Named, Told
<1>9. QED
  BY <1>6, <1>7, <1>8 DEF Fair, Standing

\* What has happened stays so.
LEMMA SpoiltStays ==
  ASSUME [Next]_vars
  PROVE  spoilt \subseteq spoilt'
<1>1. ASSUME NEW p \in Players, \/ PQSingleArenaInfo(p) \/ PQSingleArenaRefresh(p) \/ PQFightSingleArenaApply(p)
                                \/ PQCommonFightAuto(p) \/ UpdateLevel(p) \/ SaveUser(p)
      PROVE  spoilt \subseteq spoilt'
  BY <1>1 DEF PQSingleArenaInfo, PQSingleArenaRefresh, PQFightSingleArenaApply, PQCommonFightAuto, UpdateLevel, SaveUser,
    Start, Refreshed, Leaves
<1>2. ASSUME NEW i, NEW r, FightEnds(i, r)
      PROVE  spoilt \subseteq spoilt'
  BY <1>2 DEF FightEnds, Refreshed, Leaves
<1>3. CASE PRCommonFightServerEnd \/ PQPlayerFightQuit
  BY <1>2, <1>3 DEF PRCommonFightServerEnd, PQPlayerFightQuit
<1>4. CASE Answered
  <2>1. PICK w, marks : Leaves(w, marks)
    BY <1>4, Zenon DEF Answered, PRServerInfoList, LoadData, LoadLog
  <2>2. QED
    BY <2>1 DEF Leaves
<1>5. CASE SEventNetRealDB \/ Realdb \/ RealdbEnds \/ GameEnds \/ UNCHANGED vars
  BY <1>5 DEF SEventNetRealDB, Realdb, RealdbEnds, GameEnds, vars
<1>6. QED
  BY <1>1, <1>3, <1>4, <1>5 DEF Next

LEMMA StepFairly ==
  ASSUME TypeInv, Rewards, Fair, [Next]_vars
  PROVE  Fair' /\ Moves
<1>1. SUFFICES ASSUME Fine'
               PROVE  Standing(game, db, sent, answers)' /\ (game'.id_rank = << >> \/ Swaps(game, game'))
  BY DEF Fair, Moves
<1>2. Standing(game, db, sent, answers)
  BY <1>1, SpoiltStays, FineBefore DEF Fair
<1>3. CASE GameEnds
  BY <1>1, <1>2, <1>3, GameEndsFairly
<1>4. ASSUME ~GameEnds
      PROVE  Standing(game, db, sent, answers)' /\ Swaps(game, game')
  <2>1. ASSUME NEW p \in Players, PQSingleArenaInfo(p) \/ PQSingleArenaRefresh(p)
        PROVE  Standing(game, db, sent, answers)' /\ Swaps(game, game')
    BY <1>1, <1>2, <2>1, InfoFairly
  <2>2. ASSUME NEW p \in Players, UpdateLevel(p)
        PROVE  Standing(game, db, sent, answers)' /\ Swaps(game, game')
    BY <1>1, <1>2, <2>2, LevelFairly
  <2>3. ASSUME NEW p \in Players, PQFightSingleArenaApply(p) \/ PQCommonFightAuto(p) \/ SaveUser(p)
        PROVE  Standing(game, db, sent, answers)' /\ Swaps(game, game')
    <3>1. UNCHANGED <<game, db, sent, answers>>
      BY <2>3 DEF PQFightSingleArenaApply, PQCommonFightAuto, Start, SaveUser
    <3>2. QED
      BY <1>2, <3>1, StillFair
  <2>4. CASE PRCommonFightServerEnd \/ PQPlayerFightQuit
    <3>1. PICK i \in DOMAIN fights, r \in {"won", "lost", "quit"} : FightEnds(i, r)
      BY <2>4 DEF PRCommonFightServerEnd, PQPlayerFightQuit
    <3>2. QED
      BY <1>1, <1>2, <3>1, EndFairly
  <2>5. CASE UNCHANGED vars
    BY <1>2, <2>5, StillFair DEF vars
  <2>6. CASE Answered
    BY <1>1, <1>2, <2>6, AnsweredFairly
  <2>7. CASE Realdb
    BY <1>2, <2>7, RealdbFairly
  <2>8. CASE SEventNetRealDB
    BY <1>2, <2>8, LinkFairly
  <2>9. CASE RealdbEnds
    BY <1>2, <2>9, RealdbEndsFairly
  <2>10. QED
    BY <1>4, <2>1, <2>2, <2>3, <2>4, <2>5, <2>6, <2>7, <2>8, <2>9 DEF Next
<1>5. QED
  BY <1>3, <1>4

(* Nobody loses a place but to a player that was offered it with its owner *)
(* and takes it, leaving its own: whatever fights others had meanwhile,    *)
(* whatever links came and what rows their loads brought, what messages    *)
(* were lost and what processes ended, as long as no newer rows were       *)
(* overwritten, no number was given to two fakes, no user lost what it had *)
(* and no info was refreshed without its base.                             *)
THEOREM PlacesSwapped == Spec => WinsSwap
<1>1. Init => Rewards /\ Fair
  BY InitBases, InitFairly
<1>2. TypeInv /\ Rewards /\ Fair /\ [Next]_vars => Rewards' /\ Fair' /\ Moves
  BY StepBases, StepFairly
<1>3. Moves => (Sound({"late", "lost"})' /\ ~Gone =>
       \A id \in DOMAIN game.id_rank : game'.id_rank[id] # game.id_rank[id] =>
         \E other \in DOMAIN game'.id_rank \ {id} :
           /\ \/ game'.id_rank[id] < game.id_rank[id] /\ Listed(game, id, other) = game'.id_rank[id]
              \/ game'.id_rank[id] > game.id_rank[id] /\ Listed(game, other, id) = game.id_rank[id]
           /\ game'.id_rank[other] = game.id_rank[id]
           /\ get_rank_id(game, other) \in {0, game'.id_rank[id]})
  BY Zenon DEF Moves, Swaps, Fine, Gone
<1>4. QED
  BY <1>1, <1>2, <1>3, Typed, PTL DEF Spec, WinsSwap
=============================================================================
