---------------------------- MODULE UserDCProofs ----------------------------
(***************************************************************************)
(* Proofs about UserDC for any users, parts, intervals and bounds.         *)
(***************************************************************************)
EXTENDS UserDC, SequenceTheorems, FiniteSetTheorems, WellFoundedInduction, NaturalsInduction, TLAPS

-----------------------------------------------------------------------------
(* Sets of numbers.                                                        *)

\* A set of numbers has a least one.
LEMMA Least ==
  ASSUME NEW S, S \subseteq Nat, S # {}
  PROVE  \E m \in S : \A x \in S : m <= x
<1>1. PICK m \in S : \A x \in S : <<x, m>> \notin OpToRel(<, Nat)
  BY NatLessThanWellFounded, WFMin
<1>2. ASSUME NEW x \in S
      PROVE  m <= x
  <2>1. x \in Nat /\ m \in Nat
    OBVIOUS
  <2>2. <<x, m>> \notin {xy \in Nat \X Nat : xy[1] < xy[2]}
    BY <1>1 DEF OpToRel
  <2>3. QED
    BY <2>1, <2>2
<1>3. QED
  BY <1>2

-----------------------------------------------------------------------------
(* Sets in ascending order.                                                *)

IsAscending(f, I) ==
  /\ f \in [1..Cardinality(I) -> I]
  /\ \A i \in I : \E k \in DOMAIN f : f[k] = i
  /\ \A j, k \in DOMAIN f : j < k => f[j] < f[k]

\* The least number, and then the others.
LEMMA AscendingFromLeast ==
  ASSUME NEW I, I \subseteq Nat, IsFiniteSet(I), NEW m \in I, \A x \in I : m <= x,
         NEW g, IsAscending(g, I \ {m})
  PROVE  \E f : IsAscending(f, I)
<1> DEFINE n == Cardinality(I)
           f == [k \in 1..n |-> IF k = 1 THEN m ELSE g[k - 1]]
<1>1. Cardinality(I \ {m}) = n - 1 /\ n \in Nat
  BY FS_RemoveElement, FS_CardinalityType
<1>2. n # 0
  BY FS_EmptySet
<1>3. g \in [1..(n - 1) -> I \ {m}]
  BY <1>1 DEF IsAscending
<1> HIDE DEF n
<1>4. \A k \in 2..n : k - 1 \in 1..(n - 1) /\ g[k - 1] \in I \ {m}
  BY <1>1, <1>3
<1>5. f \in [1..n -> I]
  BY <1>4, <1>1
<1>6. ASSUME NEW i \in I
      PROVE  \E k \in 1..n : f[k] = i
  <2>1. CASE i = m
    <3>1. 1 \in 1..n
      BY <1>1, <1>2
    <3>2. QED
      BY <2>1, <3>1
  <2>2. CASE i # m
    <3>1. PICK k \in 1..(n - 1) : g[k] = i
      BY <2>2, <1>3 DEF IsAscending
    <3>2. k + 1 \in 1..n /\ k + 1 # 1 /\ (k + 1) - 1 = k
      BY <1>1
    <3>3. f[k + 1] = i
      BY <3>1, <3>2
    <3>4. QED
      BY <3>2, <3>3
  <2>3. QED
    BY <2>1, <2>2
<1>7. ASSUME NEW j \in 1..n, NEW k \in 1..n, j < k
      PROVE  f[j] < f[k]
  <2>1. k # 1 /\ k \in 2..n /\ f[k] = g[k - 1] /\ k - 1 \in 1..(n - 1)
    BY <1>1, <1>7
  <2>2. f[k] \in I /\ f[k] # m /\ f[k] \in Nat /\ m \in Nat
    BY <1>4, <2>1
  <2>3. CASE j = 1
    BY <2>2, <2>3
  <2>4. CASE j # 1
    <3>1. f[j] = g[j - 1] /\ j - 1 \in 1..(n - 1) /\ j - 1 < k - 1
      BY <1>1, <1>7, <2>4
    <3>2. g[j - 1] < g[k - 1]
      BY <2>1, <3>1, <1>3 DEF IsAscending
    <3>3. QED
      BY <2>1, <3>1, <3>2
  <2>5. QED
    BY <2>3, <2>4
<1>8. DOMAIN f = 1..n
  OBVIOUS
<1>9. IsAscending(f, I)
  BY <1>5, <1>6, <1>7, <1>8 DEF IsAscending, n
<1>10. QED
  BY <1>9

\* Every finite set of numbers has an ascending order: otherwise take out
\* the least number of a smallest set without one.
LEMMA AscendingExists ==
  ASSUME NEW I, I \subseteq Nat, IsFiniteSet(I)
  PROVE  \E f : IsAscending(f, I)
<1> DEFINE Bad(J) == J \subseteq Nat /\ IsFiniteSet(J) /\ ~ \E f : IsAscending(f, J)
           N == {k \in Nat : \E J \in SUBSET Nat : Bad(J) /\ Cardinality(J) = k}
<1> SUFFICES ASSUME Bad(I)
             PROVE  FALSE
  OBVIOUS
<1> HIDE DEF Bad
<1>1. Cardinality(I) \in N
  BY FS_CardinalityType
<1>2. N \subseteq Nat /\ N # {}
  BY <1>1
<1>3. PICK k \in N : \A l \in N : k <= l
  <2> HIDE DEF N
  <2>1. QED
    BY <1>2, Least
<1>4. PICK J \in SUBSET Nat : Bad(J) /\ Cardinality(J) = k
  OBVIOUS
<1>5. IsFiniteSet(J) /\ ~ \E f : IsAscending(f, J)
  BY <1>4 DEF Bad
<1>6. CASE J = {}
  <2> DEFINE f == [i \in 1..0 |-> i]
  <2>1. Cardinality(J) = 0
    BY <1>6, FS_EmptySet
  <2>2. 1..0 = {}
    OBVIOUS
  <2>3. IsAscending(f, J)
    BY <1>6, <2>1, <2>2 DEF IsAscending
  <2>4. QED
    BY <1>5, <2>3
<1>7. CASE J # {}
  <2>1. PICK m \in J : \A x \in J : m <= x
    BY <1>7, Least
  <2>2. IsFiniteSet(J \ {m}) /\ Cardinality(J \ {m}) = k - 1 /\ k \in Nat
    BY <1>4, <1>5, <1>2, FS_RemoveElement
  <2>3. k - 1 \in Nat
    BY <2>2, FS_CardinalityType
  <2>4. k - 1 \notin N
    BY <1>3, <2>2, <2>3
  <2>5. ~Bad(J \ {m})
    BY <2>2, <2>3, <2>4
  <2>6. PICK g : IsAscending(g, J \ {m})
    BY <2>2, <2>5 DEF Bad
  <2>7. QED
    BY <1>5, <2>1, <2>6, AscendingFromLeast
<1>8. QED
  BY <1>6, <1>7

\* What Ascending gives.
LEMMA AscendingIs ==
  ASSUME NEW I, I \subseteq Nat, IsFiniteSet(I)
  PROVE  IsAscending(Ascending(I), I)
<1>1. PICK f : IsAscending(f, I)
  BY AscendingExists
<1>2. QED
  BY <1>1 DEF Ascending, IsAscending

-----------------------------------------------------------------------------
(* Picked elements.                                                        *)

\* The elements at the places I are picked, and no others, in their order.
LEMMA PickIs ==
  ASSUME NEW S, NEW s \in Seq(S), NEW I, I \subseteq DOMAIN s
  PROVE  /\ Pick(s, I) \in Seq(S)
         /\ \A k \in DOMAIN Pick(s, I) : \E i \in I : Pick(s, I)[k] = s[i]
         /\ \A i \in I : \E k \in DOMAIN Pick(s, I) : Pick(s, I)[k] = s[i]
         /\ IsInjective(s) => IsInjective(Pick(s, I))
         /\ Pick(s, I) = << >> <=> I = {}
<1> DEFINE n == Cardinality(I)
           f == Ascending(I)
           p == Pick(s, I)
<1>1. I \subseteq 1..Len(s) /\ Len(s) \in Nat
  OBVIOUS
<1>2. IsFiniteSet(I) /\ n \in Nat /\ I \subseteq Nat
  <2>1. IsFiniteSet(1..Len(s))
    BY <1>1, FS_Interval
  <2>2. IsFiniteSet(I)
    BY <1>1, <2>1, FS_Subset
  <2>3. QED
    BY <1>1, <2>2, FS_CardinalityType
<1>3. IsAscending(f, I)
  BY <1>2, AscendingIs
<1>4. f \in [1..n -> I] /\ (\A i \in I : \E k \in 1..n : f[k] = i)
  BY <1>3 DEF IsAscending
<1>5. p = [k \in 1..n |-> s[f[k]]]
  BY DEF Pick
<1>6. \A k \in 1..n : f[k] \in I /\ s[f[k]] \in S
  BY <1>4
<1>7. \A j, k \in 1..n : f[j] = f[k] => j = k
  <2> SUFFICES ASSUME NEW j \in 1..n, NEW k \in 1..n, f[j] = f[k], j # k
               PROVE  FALSE
    OBVIOUS
  <2>1. f[j] \in Nat /\ f[k] \in Nat
    BY <1>6, <1>2
  <2>2. j < k \/ k < j
    BY <1>2
  <2>3. f[j] < f[k] \/ f[k] < f[j]
    BY <2>2, <1>3, <1>4 DEF IsAscending
  <2>4. QED
    BY <2>1, <2>3
<1>8. n = 0 <=> I = {}
  BY <1>2, FS_EmptySet
<1> HIDE DEF n, f, p
<1>9. p \in Seq(S) /\ Len(p) = n /\ DOMAIN p = 1..n
  BY <1>2, <1>5, <1>6
<1>10. \A k \in DOMAIN p : \E i \in I : p[k] = s[i]
  BY <1>5, <1>6, <1>9
<1>11. \A i \in I : \E k \in DOMAIN p : p[k] = s[i]
  BY <1>4, <1>5, <1>9
<1>12. ASSUME IsInjective(s)
       PROVE  IsInjective(p)
  <2>1. \A j, k \in 1..n : p[j] = p[k] => f[j] = f[k]
    BY <1>12, <1>5, <1>6 DEF IsInjective
  <2>2. QED
    BY <2>1, <1>7, <1>9 DEF IsInjective
<1>13. p = << >> <=> I = {}
  BY <1>8, <1>9
<1>14. QED
  BY <1>9, <1>10, <1>11, <1>12, <1>13 DEF p

\* The greatest number of a finite set.
LEMMA MaxIs ==
  ASSUME NEW S, S \subseteq Nat, S # {}, IsFiniteSet(S)
  PROVE  Max(S) \in S /\ \A x \in S : x <= Max(S)
<1> DEFINE n == Cardinality(S)
           f == Ascending(S)
<1>1. IsAscending(f, S)
  BY AscendingIs
<1>2. n \in Nat /\ n # 0
  BY FS_CardinalityType, FS_EmptySet
<1>3. f \in [1..n -> S] /\ n \in 1..n
  BY <1>1, <1>2 DEF IsAscending
<1>4. ASSUME NEW x \in S
      PROVE  x <= f[n]
  <2>1. PICK k \in 1..n : f[k] = x
    BY <1>1, <1>3 DEF IsAscending
  <2>2. k = n \/ k < n
    BY <1>2
  <2>3. f[k] = f[n] \/ f[k] < f[n]
    BY <2>2, <1>1, <1>3 DEF IsAscending
  <2>4. f[k] \in Nat /\ f[n] \in Nat
    BY <1>3
  <2>5. QED
    BY <2>1, <2>3, <2>4
<1>5. \E m \in S : \A x \in S : x <= m
  BY <1>3, <1>4
<1>6. \E m \in S : \A x \in S : m >= x
  <2>1. PICK m \in S : \A x \in S : x <= m
    BY <1>5
  <2>2. \A x \in S : m \in Nat /\ x \in Nat /\ x <= m
    BY <2>1
  <2>3. QED
    BY <2>2
<1>7. Max(S) \in S /\ \A x \in S : Max(S) >= x
  BY <1>6 DEF Max
<1>8. QED
  BY <1>7

-----------------------------------------------------------------------------
(* The inductive invariant.                                                *)

\* A user has its fields and two times that are numbers.
IsUser(x) ==
  /\ x = [data |-> x.data, check |-> x.check, meet_time |-> x.meet_time, save_time |-> x.save_time]
  /\ x.meet_time \in Nat /\ x.save_time \in Nat

\* Something a request through find did is not in check.
Dirty(x) == \E c \in x.data : c.met /\ c \notin x.check

\* No user was saved in the future, and those that are dirty will be visited.
Sound(x, time) == IsUser(x) /\ x.save_time <= time /\ (Dirty(x) => Visited(x))

Inv == now \in Nat /\ \A u \in DOMAIN user_map : Sound(user_map[u], now)

-----------------------------------------------------------------------------
(* What the calls do to one user.                                          *)

\* A user met now is visited, whatever is changed.
LEMMA MetSound ==
  ASSUME NEW x, now \in Nat, Sound(x, now), NEW new
  PROVE  Sound(find(x), now) /\ Sound([find(x) EXCEPT !.data = @ \cup new], now)
<1> DEFINE y == find(x)
           z == [y EXCEPT !.data = @ \cup new]
           more == x.data \cup new
<1>1. y = [data |-> x.data, check |-> x.check, meet_time |-> now, save_time |-> x.save_time]
  BY DEF find, Sound, IsUser
<1>2. z = [data |-> more, check |-> x.check, meet_time |-> now, save_time |-> x.save_time]
  <2>1. z = [y EXCEPT !.data = more]
    BY <1>1
  <2> HIDE DEF more, y, z
  <2>2. QED
    BY <1>1, <2>1
<1>3. x.save_time \in Nat /\ x.save_time <= now
  BY DEF Sound, IsUser
<1> HIDE DEF y, z
<1>4. Sound(y, now)
  BY <1>1, <1>3 DEF Sound, IsUser, Visited
<1>5. Sound(z, now)
  BY <1>2, <1>3 DEF Sound, IsUser, Visited
<1>6. QED
  BY <1>4, <1>5 DEF y, z

\* A change that was not made through find adds nothing that is met.
LEMMA UnmetSound ==
  ASSUME NEW x, now \in Nat, Sound(x, now), NEW new, \A c \in new : ~c.met
  PROVE  Sound([x EXCEPT !.data = @ \cup new], now)
<1> DEFINE y == [x EXCEPT !.data = @ \cup new]
<1>1. /\ x = [data |-> x.data, check |-> x.check, meet_time |-> x.meet_time, save_time |-> x.save_time]
      /\ x.meet_time \in Nat /\ x.save_time \in Nat /\ x.save_time <= now
  BY DEF Sound, IsUser
<1>2. y = [data |-> x.data \cup new, check |-> x.check, meet_time |-> x.meet_time, save_time |-> x.save_time]
  BY <1>1
<1> HIDE DEF y
<1>3. IsUser(y) /\ y.save_time <= now
  BY <1>1, <1>2 DEF IsUser
<1>4. Dirty(y) => Dirty(x)
  BY <1>2 DEF Dirty
<1>5. Visited(y) <=> Visited(x)
  BY <1>2 DEF Visited
<1>6. QED
  BY <1>3, <1>4, <1>5 DEF Sound, y

\* A handler that looks into user_map itself makes changes that are not met.
LEMMA UnmetNew ==
  \A new \in New(FALSE) : \A c \in new : ~c.met
<1> SUFFICES ASSUME NEW new \in New(FALSE), NEW c \in new
             PROVE  ~c.met
  OBVIOUS
<1>1. PICK p : new = {[part |-> p, nr |-> changes + 1, met |-> FALSE]}
  BY DEF New
<1>2. QED
  BY <1>1

\* A saved user is not dirty.
LEMMA SavedSound ==
  ASSUME NEW x, now \in Nat, Sound(x, now)
  PROVE  Sound([x EXCEPT !.save_time = now, !.check = x.data], now)
<1> DEFINE old == x.data
           y == [x EXCEPT !.save_time = now, !.check = old]
<1>1. x = [data |-> x.data, check |-> x.check, meet_time |-> x.meet_time, save_time |-> x.save_time]
      /\ x.meet_time \in Nat
  BY DEF Sound, IsUser
<1>2. y = [data |-> old, check |-> old, meet_time |-> x.meet_time, save_time |-> now]
  <2> DEFINE check == x.check
             meet == x.meet_time
             saved == x.save_time
  <2>1. x = [data |-> old, check |-> check, meet_time |-> meet, save_time |-> saved]
    BY <1>1
  <2> HIDE DEF old, check, meet, saved
  <2>2. y = [[x EXCEPT !.save_time = now] EXCEPT !.check = old]
    BY <2>1, Zenon
  <2>3. [x EXCEPT !.save_time = now] = [data |-> old, check |-> check, meet_time |-> meet, save_time |-> now]
    BY <2>1
  <2> HIDE DEF y
  <2>4. y = [[data |-> old, check |-> check, meet_time |-> meet, save_time |-> now] EXCEPT !.check = old]
    BY <2>2, <2>3
  <2>5. QED
    BY <2>4 DEF meet
<1> HIDE DEF y
<1>3. Sound(y, now)
  BY <1>1, <1>2 DEF Sound, IsUser, Dirty
<1>4. QED
  BY <1>3 DEF y

\* A user that comes from the tables or its file has neither been met nor saved.
LEMMA NewSound ==
  ASSUME NEW data, NEW created, now \in Nat
  PROVE  Sound(NewUser(data, created), now)
BY DEF NewUser, Sound, IsUser, Visited

-----------------------------------------------------------------------------
(* The steps.                                                              *)

LEMMA SaveKeeps ==
  ASSUME Inv, NEW us, save(us), now' = now
  PROVE  Inv'
<1>1. user_map' = [u \in DOMAIN user_map |->
        IF u \in us THEN [user_map[u] EXCEPT !.save_time = now, !.check = user_map[u].data] ELSE user_map[u]]
  BY DEF save
<1>2. ASSUME NEW u \in DOMAIN user_map
      PROVE  Sound(user_map'[u], now)
  <2>1. Sound(user_map[u], now) /\ now \in Nat
    BY DEF Inv
  <2>2. CASE u \in us
    <3>1. user_map'[u] = [user_map[u] EXCEPT !.save_time = now, !.check = user_map[u].data]
      BY <1>1, <2>2
    <3>2. QED
      BY <2>1, <3>1, SavedSound
  <2>3. CASE u \notin us
    BY <1>1, <2>1, <2>3
  <2>4. QED
    BY <2>2, <2>3
<1>3. DOMAIN user_map' = DOMAIN user_map
  BY <1>1
<1>4. QED
  BY <1>2, <1>3 DEF Inv

\* A request of a user, whether it is in memory or not.
LEMMA HandleKeeps ==
  ASSUME Inv, NEW type, NEW u, Handle(type, u), now' = now
  PROVE  Inv'
<1>1. CASE Defer(type, u)
  BY <1>1 DEF Defer, Inv
<1>2. CASE Serve(type, u)
  <2>1. PICK new \in New(type = "off") :
          user_map' = [user_map EXCEPT ![u] =
            [(IF type = "off" THEN find(user_map[u]) ELSE user_map[u]) EXCEPT !.data = @ \cup new]]
    BY <1>2 DEF Serve
  <2>2. u \in DOMAIN user_map /\ Sound(user_map[u], now) /\ now \in Nat
    BY <1>2 DEF Serve, Present, Inv
  <2> DEFINE x == IF type = "off" THEN find(user_map[u]) ELSE user_map[u]
             y == [x EXCEPT !.data = @ \cup new]
  <2>3. Sound(y, now)
    <3>1. CASE type = "off"
      BY <2>2, <3>1, MetSound
    <3>2. CASE type # "off"
      <4>1. New(type = "off") = New(FALSE)
        BY <3>2
      <4>2. \A c \in new : ~c.met
        BY <4>1, UnmetNew
      <4>3. QED
        BY <2>2, <3>2, <4>2, UnmetSound
    <3>3. QED
      BY <3>1, <3>2
  <2>4. user_map' = [user_map EXCEPT ![u] = y]
    BY <2>1
  <2> HIDE DEF x, y
  <2>5. QED
    BY <2>2, <2>3, <2>4 DEF Inv
<1>3. QED
  BY <1>1, <1>2 DEF Handle

\* An answer of CDB: the user is met, or it is new.
LEMMA LoadKeeps ==
  ASSUME Inv, PRSystemUserLoad
  PROVE  Inv'
<1> DEFINE m == Head(list)
           u == m.guid
           restored == team_level(m.data) <= 1 /\ u \in DOMAIN file
           data == IF restored THEN file[u] ELSE m.data
           x == NewUser(data, m.created /\ ~restored)
<1>1. now' = now /\ now \in Nat /\ \A v \in DOMAIN user_map : Sound(user_map[v], now)
  BY DEF PRSystemUserLoad, Inv
<1>2. CASE Present(u)
  <2>1. user_map' = [user_map EXCEPT ![u] = find(user_map[u])] /\ u \in DOMAIN user_map
    BY <1>2 DEF PRSystemUserLoad, Present
  <2>2. Sound(find(user_map[u]), now)
    BY <1>1, <2>1, MetSound
  <2> HIDE DEF u
  <2>3. QED
    BY <1>1, <2>1, <2>2 DEF Inv
<1>3. CASE ~Present(u)
  <2>1. user_map' = [v \in {u} \cup DOMAIN user_map |-> IF v = u THEN x ELSE user_map[v]]
    BY <1>3 DEF PRSystemUserLoad
  <2>2. Sound(x, now)
    BY <1>1, NewSound
  <2> HIDE DEF u, x
  <2>3. QED
    BY <1>1, <2>1, <2>2 DEF Inv
<1>4. QED
  BY <1>2, <1>3

\* Users removed from memory leave the others as they were.
LEMMA RemoveKeeps ==
  ASSUME Inv, now' \in Nat, now <= now',
         NEW S, user_map' = [v \in DOMAIN user_map \ S |-> user_map[v]]
  PROVE  Inv'
<1>1. ASSUME NEW v \in DOMAIN user_map
      PROVE  Sound(user_map[v], now')
  <2>1. Sound(user_map[v], now) /\ user_map[v].save_time \in Nat /\ now \in Nat
    BY DEF Inv, Sound, IsUser
  <2>2. user_map[v].save_time <= now'
    BY <2>1 DEF Sound
  <2>3. QED
    BY <2>1, <2>2 DEF Sound
<1>2. QED
  BY <1>1 DEF Inv

\* As a special case, steps that leave the users alone.
LEMMA AloneKeeps ==
  ASSUME Inv, now' \in Nat, now <= now', user_map' = user_map
  PROVE  Inv'
<1>1. ASSUME NEW v \in DOMAIN user_map
      PROVE  Sound(user_map[v], now')
  <2>1. Sound(user_map[v], now) /\ user_map[v].save_time \in Nat /\ now \in Nat
    BY DEF Inv, Sound, IsUser
  <2>2. user_map[v].save_time <= now'
    BY <2>1 DEF Sound
  <2>3. QED
    BY <2>1, <2>2 DEF Sound
<1>2. QED
  BY <1>1 DEF Inv

\* A process that ends or starts has no users.
LEMMA EmptyKeeps ==
  ASSUME now' \in Nat, user_map' = << >>
  PROVE  Inv'
BY DEF Inv

\* The invariant is inductive.
LEMMA Invariant == Spec => []Inv
<1>1. Init => Inv
  <2>1. Interval \in Nat
    BY UserAssumption
  <2>2. QED
    BY <2>1 DEF Init, Inv
<1>2. Inv /\ [Next]_vars => Inv'
  <2> SUFFICES ASSUME Inv, [Next]_vars PROVE Inv'
    OBVIOUS
  <2>1. now \in Nat
    BY DEF Inv
  <2>2. ASSUME NEW u \in Users, Arrive("login", u) \/ Arrive("off", u)
        PROVE  Inv'
    <3>1. now' = now
      BY <2>2 DEF Arrive, quiet
    <3>2. Handle("login", u) \/ Handle("off", u)
      BY <2>2 DEF Arrive
    <3>3. QED
      BY <3>1, <3>2, HandleKeeps
  <2>3. CASE RunRequest
    <3>1. now' = now
      BY <2>3 DEF RunRequest, quiet
    <3>2. Handle(Head(list).type, Head(list).guid)
      BY <2>3 DEF RunRequest
    <3>3. QED
      BY <3>1, <3>2, HandleKeeps
  <2>4. ASSUME NEW u \in Users, quit_force(u)
        PROVE  Inv'
    <3>1. now' = now /\ user_map' = [v \in DOMAIN user_map \ {u} |-> user_map[v]]
      BY <2>4 DEF quit_force, others
    <3>2. now' \in Nat /\ now <= now'
      BY <2>1, <3>1
    <3>3. QED
      BY <3>1, <3>2, RemoveKeeps
  <2>5. CASE PRSystemUserLoad
    BY <2>5, LoadKeeps
  <2>6. CASE user_save_timer
    <3>1. now' = now
      BY <2>6 DEF user_save_timer, others
    <3>2. \E us : save(us)
      BY <2>6 DEF user_save_timer
    <3>3. QED
      BY <3>1, <3>2, SaveKeeps
  <2>7. CASE PRServerClose
    <3>1. now' = now
      BY <2>7 DEF PRServerClose, others
    <3>2. \E us : save(us)
      BY <2>7 DEF PRServerClose
    <3>3. QED
      BY <3>1, <3>2, SaveKeeps
  <2>8. CASE EndThread
    <3>1. now' = now /\ user_map' = << >>
      BY <2>8 DEF EndThread, others
    <3>2. QED
      BY <2>1, <3>1, EmptyKeeps
  <2>9. CASE Restart
    <3>1. (now' = now \/ now' = now + 1) /\ user_map' = << >>
      BY <2>9 DEF Restart
    <3>2. QED
      BY <2>1, <3>1, EmptyKeeps
  <2>10. CASE Tick
    <3>1. now' = now + 1 /\ user_map' = user_map
      BY <2>10 DEF Tick, logic
    <3>2. now' \in Nat /\ now <= now'
      BY <2>1, <3>1
    <3>3. QED
      BY <3>1, <3>2, AloneKeeps
  <2>11. ASSUME NEW u \in Users, user_defer_timeout_check(u)
         PROVE  Inv'
    <3>1. now' = now /\ user_map' = user_map
      BY <2>11 DEF user_defer_timeout_check, others
    <3>2. QED
      BY <2>1, <3>1, AloneKeeps
  <2>12. CASE Swap \/ Reload
    <3>1. now' = now /\ user_map' = user_map
      BY <2>12 DEF Swap, Reload, quiet, others
    <3>2. QED
      BY <2>1, <3>1, AloneKeeps
  <2>13. CASE do_load_event \/ load_to_msg \/ do_save_event \/ save_to_db \/ ConnectionLost \/ EndDB
    <3>1. now' = now /\ user_map' = user_map
      BY <2>13 DEF do_load_event, load_to_msg, do_save_event, save_to_db, ConnectionLost, EndDB, unmoved
    <3>2. QED
      BY <2>1, <3>1, AloneKeeps
  <2>14. CASE UNCHANGED vars
    <3>1. now' = now /\ user_map' = user_map
      BY <2>14 DEF vars, logic
    <3>2. QED
      BY <2>1, <3>1, AloneKeeps
  <2>15. QED
    BY <2>2, <2>3, <2>4, <2>5, <2>6, <2>7, <2>8, <2>9, <2>10, <2>11, <2>12, <2>13, <2>14 DEF Next
<1>3. QED
  BY <1>1, <1>2, PTL DEF Spec

\* A change by a request that goes through find is never passed over by
\* save_once for good: the user counts as met since its last save.
THEOREM MetIsVisited == Spec => []DirtyIsVisited
<1>1. Inv => DirtyIsVisited
  BY DEF Inv, Sound, Dirty, DirtyIsVisited
<1>2. QED
  BY Invariant, <1>1, PTL

-----------------------------------------------------------------------------
(* Types: what the calls make of records and sequences.                    *)

LEMMA UserFields ==
  ASSUME NEW x \in SUser
  PROVE  /\ x = [data |-> x.data, check |-> x.check, meet_time |-> x.meet_time, save_time |-> x.save_time]
         /\ x.data \subseteq Change /\ x.check \subseteq Change /\ x.meet_time \in Nat /\ x.save_time \in Nat
BY DEF SUser

LEMMA UserMade ==
  ASSUME NEW d, d \subseteq Change, NEW c, c \subseteq Change, NEW m \in Nat, NEW s \in Nat
  PROVE  [data |-> d, check |-> c, meet_time |-> m, save_time |-> s] \in SUser
BY DEF SUser

\* find, and then a change.
LEMMA FindIs ==
  ASSUME NEW x \in SUser, NEW new
  PROVE  /\ find(x) = [data |-> x.data, check |-> x.check, meet_time |-> now, save_time |-> x.save_time]
         /\ [find(x) EXCEPT !.data = @ \cup new] =
              [data |-> x.data \cup new, check |-> x.check, meet_time |-> now, save_time |-> x.save_time]
         /\ [x EXCEPT !.data = @ \cup new] =
              [data |-> x.data \cup new, check |-> x.check, meet_time |-> x.meet_time, save_time |-> x.save_time]
<1> DEFINE y == find(x)
           more == x.data \cup new
           check == x.check
           meet == x.meet_time
           saved == x.save_time
<1>1. x = [data |-> x.data, check |-> check, meet_time |-> meet, save_time |-> saved]
  BY UserFields
<1>2. y = [data |-> x.data, check |-> check, meet_time |-> now, save_time |-> saved]
  BY <1>1 DEF find
<1>3. [y EXCEPT !.data = @ \cup new] = [y EXCEPT !.data = more]
  BY <1>2
<1>4. [x EXCEPT !.data = @ \cup new] = [x EXCEPT !.data = more]
  OBVIOUS
<1> HIDE DEF y, more, check, meet, saved
<1>5. [y EXCEPT !.data = more] = [data |-> more, check |-> check, meet_time |-> now, save_time |-> saved]
  BY <1>2
<1>6. [x EXCEPT !.data = more] = [data |-> more, check |-> check, meet_time |-> meet, save_time |-> saved]
  BY <1>1
<1>7. QED
  BY <1>2, <1>3, <1>4, <1>5, <1>6 DEF y, more, check, meet, saved

\* A user that save has taken.
LEMMA SavedIs ==
  ASSUME NEW x \in SUser
  PROVE  [x EXCEPT !.save_time = now, !.check = x.data] =
           [data |-> x.data, check |-> x.data, meet_time |-> x.meet_time, save_time |-> now]
<1> DEFINE data == x.data
           check == x.check
           meet == x.meet_time
           saved == x.save_time
<1>1. x = [data |-> data, check |-> check, meet_time |-> meet, save_time |-> saved]
  BY UserFields
<1> HIDE DEF data, check, meet, saved
<1>2. [x EXCEPT !.save_time = now, !.check = data] = [[x EXCEPT !.save_time = now] EXCEPT !.check = data]
  BY <1>1, Zenon
<1>3. [x EXCEPT !.save_time = now] = [data |-> data, check |-> check, meet_time |-> meet, save_time |-> now]
  BY <1>1
<1>4. [x EXCEPT !.save_time = now, !.check = data] =
        [[data |-> data, check |-> check, meet_time |-> meet, save_time |-> now] EXCEPT !.check = data]
  BY <1>2, <1>3
<1>5. [x EXCEPT !.save_time = now, !.check = data] = [data |-> data, check |-> data, meet_time |-> meet, save_time |-> now]
  BY <1>4
<1>6. QED
  BY <1>5 DEF data, meet

LEMMA UserKept ==
  ASSUME NEW x \in SUser, now \in Nat, NEW new, new \subseteq Change
  PROVE  /\ find(x) \in SUser
         /\ [find(x) EXCEPT !.data = @ \cup new] \in SUser
         /\ [x EXCEPT !.data = @ \cup new] \in SUser
         /\ [x EXCEPT !.save_time = now, !.check = x.data] \in SUser
<1>1. x.data \subseteq Change /\ x.check \subseteq Change /\ x.meet_time \in Nat /\ x.save_time \in Nat
  BY UserFields
<1>2. x.data \cup new \subseteq Change
  BY <1>1
<1>3. find(x) \in SUser
  <2>1. find(x) = [data |-> x.data, check |-> x.check, meet_time |-> now, save_time |-> x.save_time]
    BY FindIs
  <2>2. QED
    BY <1>1, <2>1, UserMade
<1>4. [find(x) EXCEPT !.data = @ \cup new] \in SUser
  <2>1. [find(x) EXCEPT !.data = @ \cup new] =
          [data |-> x.data \cup new, check |-> x.check, meet_time |-> now, save_time |-> x.save_time]
    BY FindIs
  <2>2. QED
    BY <1>1, <1>2, <2>1, UserMade
<1>5. [x EXCEPT !.data = @ \cup new] \in SUser
  <2>1. [x EXCEPT !.data = @ \cup new] =
          [data |-> x.data \cup new, check |-> x.check, meet_time |-> x.meet_time, save_time |-> x.save_time]
    BY FindIs
  <2>2. QED
    BY <1>1, <1>2, <2>1, UserMade
<1>6. [x EXCEPT !.save_time = now, !.check = x.data] \in SUser
  <2>1. [x EXCEPT !.save_time = now, !.check = x.data] =
          [data |-> x.data, check |-> x.data, meet_time |-> x.meet_time, save_time |-> now]
    BY SavedIs
  <2>2. QED
    BY <1>1, <2>1, UserMade
<1>7. QED
  BY <1>3, <1>4, <1>5, <1>6

\* The elements of sequences.
LEMMA SetOfSeq ==
  ASSUME NEW S, NEW s \in Seq(S)
  PROVE  /\ ToSet(s) \subseteq S /\ IsFiniteSet(ToSet(s))
         /\ \A x : x \in ToSet(s) <=> \E i \in 1..Len(s) : s[i] = x
<1>1. ToSet(s) = {s[i] : i \in 1..Len(s)} /\ Len(s) \in Nat
  BY DEF ToSet
<1>2. IsFiniteSet(1..Len(s))
  BY <1>1, FS_Interval
<1> DEFINE f == [i \in 1..Len(s) |-> s[i]]
<1>3. f \in Surjection(1..Len(s), ToSet(s))
  BY <1>1 DEF Surjection
<1>4. IsFiniteSet(ToSet(s))
  BY <1>2, <1>3, FS_Surjection
<1>5. QED
  BY <1>1, <1>4

\* An element that is new to a sequence leaves it without repetitions.
LEMMA AppendDistinct ==
  ASSUME NEW S, NEW s \in Seq(S), IsInjective(s), NEW x \in S, x \notin ToSet(s)
  PROVE  Append(s, x) \in Seq(S) /\ IsInjective(Append(s, x))
<1> DEFINE n == Len(s)
           t == Append(s, x)
<1>1. t \in Seq(S) /\ DOMAIN t = 1..(n + 1) /\ n \in Nat /\ t[n + 1] = x
  OBVIOUS
<1>2. \A i \in 1..n : t[i] = s[i] /\ s[i] # x
  BY DEF ToSet
<1>3. \A i, j \in 1..n : s[i] = s[j] => i = j
  BY DEF IsInjective
<1> HIDE DEF t, n
<1>4. ASSUME NEW i \in 1..(n + 1), NEW j \in 1..(n + 1), t[i] = t[j]
      PROVE  i = j
  <2>1. (i \in 1..n \/ i = n + 1) /\ (j \in 1..n \/ j = n + 1)
    BY <1>1
  <2>2. QED
    BY <2>1, <1>1, <1>2, <1>3, <1>4
<1>5. IsInjective(t)
  BY <1>1, <1>4 DEF IsInjective
<1>6. t \in Seq(S) /\ IsInjective(t)
  BY <1>1, <1>5
<1>7. QED
  BY <1>6 DEF t

\* Joined sequences, and what is at their ends.
LEMMA SeqSteps ==
  ASSUME NEW S, NEW s \in Seq(S), NEW t \in Seq(S)
  PROVE  /\ << >> \in Seq(S) /\ s \o t \in Seq(S)
         /\ ToSet(s \o t) = ToSet(s) \cup ToSet(t)
         /\ s # << >> => /\ Head(s) \in S /\ Tail(s) \in Seq(S)
                         /\ Head(s) = s[1] /\ 1 \in DOMAIN s
                         /\ ToSet(s) = {Head(s)} \cup ToSet(Tail(s))
                         /\ Tail(s) = << >> <=> Len(s) = 1
<1>1. << >> \in Seq(S) /\ s \o t \in Seq(S) /\ Len(s) \in Nat /\ Len(t) \in Nat
  OBVIOUS
<1>2. ToSet(s \o t) = ToSet(s) \cup ToSet(t)
  <2>1. Range(s \o t) = Range(s) \cup Range(t)
    BY RangeConcatenation
  <2>2. \A q : Range(q) = ToSet(q)
    BY DEF ToSet, Range
  <2>3. QED
    BY <2>1, <2>2
<1>3. ASSUME s # << >>
      PROVE  /\ Head(s) \in S /\ Tail(s) \in Seq(S)
             /\ Head(s) = s[1] /\ 1 \in DOMAIN s
             /\ ToSet(s) = {Head(s)} \cup ToSet(Tail(s))
             /\ Tail(s) = << >> <=> Len(s) = 1
  <2>1. Head(s) \in S /\ Tail(s) \in Seq(S) /\ Len(Tail(s)) = Len(s) - 1 /\ Len(s) >= 1 /\ Head(s) = s[1]
    BY <1>3, <1>1
  <2>2. \A i \in 1..(Len(s) - 1) : Tail(s)[i] = s[i + 1]
    BY <1>3, <1>1
  <2>3. ASSUME NEW i \in 1..Len(s)
        PROVE  s[i] = Head(s) \/ \E j \in 1..(Len(s) - 1) : s[i] = Tail(s)[j]
    <3>1. CASE i = 1
      BY <2>1, <3>1
    <3>2. CASE i # 1
      <4>1. i - 1 \in 1..(Len(s) - 1) /\ (i - 1) + 1 = i
        BY <3>2, <1>1
      <4>2. QED
        BY <4>1, <2>2
    <3>3. QED
      BY <3>1, <3>2
  <2>4. DOMAIN s = 1..Len(s) /\ DOMAIN Tail(s) = 1..(Len(s) - 1)
    BY <2>1
  <2>5. ToSet(s) \subseteq {Head(s)} \cup ToSet(Tail(s))
    BY <2>3, <2>4 DEF ToSet
  <2>6. ToSet(Tail(s)) \subseteq ToSet(s)
    <3> SUFFICES ASSUME NEW j \in 1..(Len(s) - 1)
                 PROVE  \E i \in 1..Len(s) : Tail(s)[j] = s[i]
      BY <2>4 DEF ToSet
    <3>1. j + 1 \in 1..Len(s)
      BY <1>1
    <3>2. QED
      BY <3>1, <2>2
  <2>7. 1 \in DOMAIN s
    BY <2>1, <2>4, <1>1
  <2>8. Head(s) \in ToSet(s)
    BY <2>1, <2>7 DEF ToSet
  <2>9. Tail(s) = << >> <=> Len(s) = 1
    <3>1. Tail(s) = << >> <=> Len(Tail(s)) = 0
      BY <2>1, EmptySeq
    <3>2. QED
      BY <2>1, <3>1, <1>1
  <2>10. QED
    BY <2>1, <2>5, <2>6, <2>7, <2>8, <2>9
<1>4. QED
  BY <1>1, <1>2, <1>3

-----------------------------------------------------------------------------
(* Types: the steps.                                                       *)

\* The numbers of requests that wait are numbers, and the next is above them.
LEMMA SerialAbove ==
  ASSUME TypeOK, NEW u \in Users
  PROVE  Serial(u) \in Nat /\ \A m \in Waiting(u) : m.nr \in Nat /\ m.nr < Serial(u)
<1> DEFINE W == Waiting(u)
           nrs == {0} \cup {m.nr : m \in W}
<1>1. /\ queue \in Seq(Request \cup Loaded) /\ defer_map[u] \in Seq(Request)
      /\ ToSet(queue) \subseteq Request \cup Loaded /\ IsFiniteSet(ToSet(queue))
      /\ ToSet(defer_map[u]) \subseteq Request /\ IsFiniteSet(ToSet(defer_map[u]))
  <2>1. queue \in Seq(Request \cup Loaded)
    BY SeqSteps DEF TypeOK, queue
  <2>2. defer_map[u] \in Seq(Request)
    BY DEF TypeOK
  <2>3. QED
    BY <2>1, <2>2, SetOfSeq
<1>2. W \subseteq Request
  BY <1>1 DEF Waiting, Asks, Loaded
<1>3. IsFiniteSet(W)
  <2> DEFINE A == {m \in ToSet(queue) : Asks(m, u)}
  <2>1. A \subseteq ToSet(queue)
    OBVIOUS
  <2>2. IsFiniteSet(A)
    BY <1>1, <2>1, FS_Subset
  <2>3. IsFiniteSet(A \cup ToSet(defer_map[u]))
    BY <1>1, <2>2, FS_Union
  <2>4. QED
    BY <2>3 DEF Waiting
<1>4. \A m \in W : m.nr \in Nat
  BY <1>2 DEF Request
<1> HIDE DEF W
<1>5. IsFiniteSet({m.nr : m \in W})
  <2> DEFINE f == [m \in W |-> m.nr]
  <2>1. f \in Surjection(W, {m.nr : m \in W})
    BY DEF Surjection
  <2>2. QED
    BY <1>3, <2>1, FS_Surjection
<1>6. IsFiniteSet(nrs)
  <2>1. IsFiniteSet({0})
    BY FS_Singleton
  <2>2. QED
    BY <1>5, <2>1, FS_Union
<1>7. nrs \subseteq Nat /\ nrs # {}
  BY <1>4
<1>8. Max(nrs) \in nrs /\ \A x \in nrs : x <= Max(nrs)
  <2> HIDE DEF nrs
  <2>1. QED
    BY <1>6, <1>7, MaxIs
<1>9. Serial(u) = 1 + Max(nrs)
  BY DEF Serial, W
<1> DEFINE top == Max(nrs)
<1>10. top \in Nat /\ \A m \in W : m.nr <= top
  BY <1>7, <1>8
<1> HIDE DEF top
<1>11. Serial(u) = 1 + top
  BY <1>9 DEF top
<1>12. QED
  BY <1>4, <1>10, <1>11 DEF W

\* A load that is asked for twice is asked for once.
LEMMA PostLoadTypes ==
  ASSUME TypeOK, NEW l \in Load
  PROVE  /\ post_load(l) \in Seq(Load) /\ IsInjective(post_load(l))
         /\ ToSet(post_load(l)) = ToSet(load_list) \cup {l}
<1>1. load_list \in Seq(Load) /\ IsInjective(load_list)
  BY DEF TypeOK
<1>2. CASE l \in ToSet(load_list)
  BY <1>1, <1>2 DEF post_load
<1>3. CASE l \notin ToSet(load_list)
  <2>1. post_load(l) = Append(load_list, l)
    BY <1>3 DEF post_load
  <2>2. Append(load_list, l) \in Seq(Load) /\ IsInjective(Append(load_list, l))
    BY <1>1, <1>3, AppendDistinct
  <2> DEFINE one == <<l>>
  <2>3. Append(load_list, l) = load_list \o one
    BY <1>1, AppendIsConcat
  <2>4. one \in Seq(Load) /\ ToSet(one) = {l}
    BY DEF ToSet
  <2> HIDE DEF one
  <2>5. ToSet(load_list \o one) = ToSet(load_list) \cup ToSet(one)
    BY <1>1, <2>4, SeqSteps
  <2>6. QED
    BY <2>1, <2>2, <2>3, <2>4, <2>5
<1>4. QED
  BY <1>2, <1>3

\* What a handler adds is a change.
LEMMA NewTypes ==
  ASSUME TypeOK, NEW met \in BOOLEAN, NEW new \in New(met)
  PROVE  new \subseteq Change /\ changes + Cardinality(new) \in 0..MaxChanges
<1>1. changes \in 0..MaxChanges /\ MaxChanges \in Nat
  BY UserAssumption DEF TypeOK
<1>2. CASE new = {}
  <2>1. Cardinality(new) = 0
    BY <1>2, FS_EmptySet
  <2>2. QED
    BY <1>1, <1>2, <2>1
<1>3. CASE \E p \in IF changes < MaxChanges THEN Parts ELSE {} :
             new = {[part |-> p, nr |-> changes + 1, met |-> met]}
  <2>1. PICK p \in Parts : changes < MaxChanges /\ new = {[part |-> p, nr |-> changes + 1, met |-> met]}
    BY <1>3
  <2>2. Cardinality(new) = 1
    BY <2>1, FS_Singleton
  <2>3. changes + 1 \in 0..MaxChanges
    BY <1>1, <2>1
  <2>4. new \subseteq Change
    BY <2>1, <2>3 DEF Change
  <2>5. QED
    BY <2>2, <2>3, <2>4
<1>4. QED
  BY <1>2, <1>3 DEF New

RequestTypes ==
  /\ DOMAIN user_map \subseteq Users /\ \A u \in DOMAIN user_map : user_map[u] \in SUser
  /\ defer_map \in [Users -> Seq(Request)]
  /\ load_list \in Seq(Load) /\ IsInjective(load_list)
  /\ changes \in 0..MaxChanges /\ refused \subseteq Load

LEMMA HandleTypes ==
  ASSUME TypeOK, NEW u \in Users, NEW type \in {"login", "off"}, Handle(type, u)
  PROVE  RequestTypes'
<1>1. CASE Defer(type, u)
  <2> DEFINE l == [guid |-> u, create |-> type = "login"]
             r == [type |-> type, guid |-> u, nr |-> Serial(u)]
             d == Append(defer_map[u], r)
  <2>1. l \in Load
    BY DEF Load
  <2>2. load_list' = post_load(l)
    BY <1>1 DEF Defer
  <2>3. load_list' \in Seq(Load) /\ IsInjective(load_list')
    BY <2>1, <2>2, PostLoadTypes
  <2>4. r \in Request
    BY SerialAbove DEF Request
  <2>5. defer_map \in [Users -> Seq(Request)]
    BY DEF TypeOK
  <2>6. d \in Seq(Request)
    BY <2>4, <2>5
  <2>7. defer_map' = [defer_map EXCEPT ![u] = d]
    BY <1>1 DEF Defer
  <2> HIDE DEF d
  <2>8. defer_map' \in [Users -> Seq(Request)]
    BY <2>5, <2>6, <2>7
  <2>9. user_map' = user_map /\ changes' = changes /\ refused' = refused
    BY <1>1 DEF Defer
  <2>10. QED
    BY <2>3, <2>8, <2>9 DEF TypeOK, RequestTypes
<1>2. CASE Serve(type, u)
  <2>1. PICK new \in New(type = "off") :
          /\ user_map' = [user_map EXCEPT ![u] =
               [(IF type = "off" THEN find(user_map[u]) ELSE user_map[u]) EXCEPT !.data = @ \cup new]]
          /\ changes' = changes + Cardinality(new)
    BY <1>2 DEF Serve
  <2> DEFINE x == user_map[u]
             y == [(IF type = "off" THEN find(x) ELSE x) EXCEPT !.data = @ \cup new]
  <2>2. u \in DOMAIN user_map /\ x \in SUser /\ now \in Nat
    BY <1>2 DEF Serve, Present, TypeOK
  <2>3. new \subseteq Change /\ changes' \in 0..MaxChanges
    BY <2>1, NewTypes
  <2>4. y \in SUser
    <3>1. CASE type = "off"
      BY <2>2, <2>3, <3>1, UserKept
    <3>2. CASE type # "off"
      BY <2>2, <2>3, <3>2, UserKept
    <3>3. QED
      BY <3>1, <3>2
  <2>5. user_map' = [user_map EXCEPT ![u] = y]
    BY <2>1
  <2> HIDE DEF y, x
  <2>6. DOMAIN user_map' \subseteq Users /\ \A v \in DOMAIN user_map' : user_map'[v] \in SUser
    BY <2>2, <2>4, <2>5 DEF TypeOK
  <2>7. defer_map' = defer_map /\ load_list' = load_list /\ refused' = refused
    BY <1>2 DEF Serve
  <2>8. QED
    BY <2>3, <2>6, <2>7 DEF TypeOK, RequestTypes
<1>3. QED
  BY <1>1, <1>2 DEF Handle

LEMMA ArriveTypes ==
  ASSUME TypeOK, NEW u \in Users, NEW type \in {"login", "off"}, Arrive(type, u)
  PROVE  TypeOK'
<1>1. RequestTypes'
  BY HandleTypes DEF Arrive
<1>2. QED
  BY <1>1 DEF TypeOK, RequestTypes, Arrive, quiet, disk

\* The message that is handled next.
LEMMA HeadTypes ==
  ASSUME TypeOK, list # << >>
  PROVE  /\ Tail(list) \in Seq(Request \cup Loaded)
         /\ Head(list).guid \in Users
         /\ Head(list).type = "load" => Head(list) \in Loaded
         /\ Head(list).type # "load" => Head(list) \in Request /\ Head(list).type \in {"login", "off"}
<1>1. Head(list) \in Request \cup Loaded /\ Tail(list) \in Seq(Request \cup Loaded)
  BY SeqSteps DEF TypeOK
<1>2. QED
  BY <1>1 DEF Request, Loaded

LEMMA RunRequestTypes ==
  ASSUME TypeOK, RunRequest
  PROVE  TypeOK'
<1>1. list # << >> /\ Head(list).type # "load" /\ Handle(Head(list).type, Head(list).guid)
  BY DEF RunRequest
<1>2. RequestTypes'
  BY <1>1, HeadTypes, HandleTypes
<1>3. list' \in Seq(Request \cup Loaded)
  BY <1>1, HeadTypes DEF RunRequest
<1>4. QED
  BY <1>2, <1>3 DEF TypeOK, RequestTypes, RunRequest, quiet, disk

LEMMA LoadedTypes ==
  ASSUME TypeOK, PRSystemUserLoad
  PROVE  TypeOK'
<1> DEFINE m == Head(list)
           u == m.guid
           restored == team_level(m.data) <= 1 /\ u \in DOMAIN file
           data == IF restored THEN file[u] ELSE m.data
           x == NewUser(data, m.created /\ ~restored)
<1>1. list # << >> /\ m.type = "load" /\ list' = Tail(list)
  BY DEF PRSystemUserLoad
<1>2. list' \in Seq(Request \cup Loaded) /\ u \in Users /\ m.data \subseteq Change
  BY <1>1, HeadTypes DEF Loaded
<1>3. refused' \subseteq Load
  BY DEF PRSystemUserLoad, TypeOK
<1>4. data \subseteq Change
  BY <1>2 DEF TypeOK
<1> DEFINE Rest == /\ DOMAIN user_map' \subseteq Users /\ \A v \in DOMAIN user_map' : user_map'[v] \in SUser
                   /\ defer_map' \in [Users -> Seq(Request)]
                   /\ msg_list' \in Seq(Request \cup Loaded) /\ forgone' \in [Users -> SUBSET Change]
<1>5. ASSUME Present(u)
      PROVE  Rest
  <2>1. /\ user_map' = [user_map EXCEPT ![u] = find(user_map[u])]
        /\ msg_list' = msg_list /\ defer_map' = defer_map /\ forgone' = forgone
    BY <1>5 DEF PRSystemUserLoad
  <2>2. find(user_map[u]) \in SUser
    <3>1. user_map[u] \in SUser /\ now \in Nat
      BY <1>5 DEF TypeOK, Present
    <3>2. QED
      BY <3>1, UserKept
  <2> HIDE DEF u
  <2>3. DOMAIN user_map' \subseteq Users /\ \A v \in DOMAIN user_map' : user_map'[v] \in SUser
    BY <2>1, <2>2 DEF TypeOK
  <2>4. QED
    BY <2>1, <2>3 DEF TypeOK
<1>6. ASSUME ~Present(u)
      PROVE  Rest
  <2>1. /\ user_map' = [v \in {u} \cup DOMAIN user_map |-> IF v = u THEN x ELSE user_map[v]]
        /\ forgone' = [forgone EXCEPT ![u] = @ \cup (data \ m.data) \cup (m.data \ data)]
        /\ dispatch_defer(u)
    BY <1>6 DEF PRSystemUserLoad
  <2>2. x \in SUser
    <3> DEFINE more == IF m.created /\ ~restored THEN data \cup {InitChange} ELSE data
    <3>1. InitChange \in Change
      <4>1. 0 \in 0..MaxChanges /\ Simple \in Parts
        BY UserAssumption
      <4>2. QED
        BY <4>1 DEF InitChange, Change
    <3>2. more \subseteq Change
      BY <1>4, <3>1
    <3>3. x = [data |-> more, check |-> data, meet_time |-> 0, save_time |-> 0]
      BY DEF NewUser
    <3> HIDE DEF more, data, x
    <3>4. QED
      BY <1>4, <3>2, <3>3, UserMade
  <2>3. forgone' \in [Users -> SUBSET Change]
    <3> DEFINE d == m.data
    <3>1. forgone' = [forgone EXCEPT ![u] = forgone[u] \cup (data \ d) \cup (d \ data)]
      BY <2>1
    <3> HIDE DEF d, data
    <3>2. forgone \in [Users -> SUBSET Change]
      BY DEF TypeOK
    <3>3. forgone[u] \cup (data \ d) \cup (d \ data) \in SUBSET Change
      BY <1>2, <1>4, <3>2 DEF d
    <3> HIDE DEF u
    <3>4. QED
      BY <3>1, <3>2, <3>3
  <2>4. defer_map' \in [Users -> Seq(Request)] /\ msg_list' \in Seq(Request \cup Loaded)
    <3>1. /\ msg_list' = defer_map[u] \o msg_list
          /\ defer_map' = [defer_map EXCEPT ![u] = << >>]
      BY <2>1 DEF dispatch_defer
    <3>2. defer_map \in [Users -> Seq(Request)] /\ msg_list \in Seq(Request \cup Loaded)
      BY DEF TypeOK
    <3>3. defer_map[u] \in Seq(Request \cup Loaded)
      <4>1. defer_map[u] \in Seq(Request)
        BY <1>2, <3>2
      <4>2. QED
        BY <4>1, SeqMonotonic
    <3>4. << >> \in Seq(Request)
      OBVIOUS
    <3> HIDE DEF u
    <3>5. QED
      BY <3>1, <3>2, <3>3, <3>4, SeqSteps
  <2> HIDE DEF u, x
  <2>5. DOMAIN user_map' \subseteq Users /\ \A v \in DOMAIN user_map' : user_map'[v] \in SUser
    BY <2>1, <2>2, <1>2 DEF TypeOK
  <2>6. QED
    BY <2>3, <2>4, <2>5
<1>7. Rest
  BY <1>5, <1>6
<1> HIDE DEF m, u
<1>8. QED
  BY <1>2, <1>3, <1>7 DEF TypeOK, PRSystemUserLoad, disk

\* What save makes of the users, the queue and the files.
SavedTypes ==
  /\ DOMAIN user_map \subseteq Users /\ \A u \in DOMAIN user_map : user_map[u] \in SUser
  /\ save_list \in Seq(Save)
  /\ DOMAIN file \subseteq Users /\ \A u \in DOMAIN file : file[u] \subseteq Change

\* The users that are saved, one by one.
LEMMA SavableIs ==
  ASSUME TypeOK, NEW us, us \subseteq DOMAIN user_map
  PROVE  /\ Savable(us) \subseteq DOMAIN user_map /\ Savable(us) \subseteq Users
         /\ Cardinality(Savable(us)) \in Nat
         /\ IsAscending(Ascending(Savable(us)), Savable(us))
<1>1. Savable(us) \subseteq DOMAIN user_map /\ Savable(us) \subseteq Users
  BY DEF Savable, TypeOK
<1>2. IsFiniteSet(Savable(us)) /\ Savable(us) \subseteq Nat
  BY <1>1, UserAssumption, FS_Subset
<1>3. QED
  BY <1>1, <1>2, FS_CardinalityType, AscendingIs

LEMMA SaveTypes ==
  ASSUME TypeOK, NEW us, us \subseteq DOMAIN user_map, save(us)
  PROVE  SavedTypes'
<1>1. DOMAIN user_map' = DOMAIN user_map /\ DOMAIN user_map \subseteq Users
  BY DEF save, TypeOK
<1>2. ASSUME NEW u \in DOMAIN user_map
      PROVE  user_map'[u] \in SUser
  <2> DEFINE x == user_map[u]
  <2>1. x \in SUser /\ now \in Nat
    BY DEF TypeOK
  <2>2. user_map'[u] = IF u \in us THEN [x EXCEPT !.save_time = now, !.check = x.data] ELSE x
    BY DEF save
  <2>3. [x EXCEPT !.save_time = now, !.check = x.data] \in SUser
    BY <2>1, UserKept
  <2>4. QED
    BY <2>1, <2>2, <2>3
<1>3. save_list' \in Seq(Save)
  <2> DEFINE n == Cardinality(Savable(us))
             f == Ascending(Savable(us))
             new == [i \in 1..n |-> LET u == f[i] IN get_save_string(u, user_map[u])]
  <2>1. n \in Nat /\ \A i \in 1..n : f[i] \in DOMAIN user_map /\ f[i] \in Users
    BY SavableIs DEF IsAscending
  <2>2. ASSUME NEW u \in DOMAIN user_map, u \in Users
        PROVE  get_save_string(u, user_map[u]) \in Save
    <3>1. user_map[u].data \subseteq Change
      BY UserFields DEF TypeOK
    <3>2. Changed(user_map[u]) \subseteq Parts /\ Parts_of(user_map[u].data, Changed(user_map[u])) \subseteq Change
      BY <3>1 DEF Changed, Parts_of
    <3>3. QED
      BY <3>2, <2>2 DEF get_save_string, Save
  <2>3. save_list' = save_list \o new
    BY DEF save
  <2> HIDE DEF n, f
  <2>4. new \in Seq(Save)
    BY <2>1, <2>2
  <2> HIDE DEF new
  <2>5. QED
    BY <2>3, <2>4, SeqSteps DEF TypeOK
<1>4. DOMAIN file' \subseteq Users /\ \A u \in DOMAIN file' : file'[u] \subseteq Change
  <2>1. file' = [u \in Savable(us) \cup DOMAIN file |-> IF u \in Savable(us) THEN user_map[u].data ELSE file[u]]
    BY DEF save
  <2>2. \A u \in Savable(us) : user_map[u].data \subseteq Change
    BY SavableIs, UserFields DEF TypeOK
  <2>3. Savable(us) \subseteq Users
    BY SavableIs
  <2>4. QED
    BY <2>1, <2>2, <2>3 DEF TypeOK
<1>5. QED
  BY <1>1, <1>2, <1>3, <1>4 DEF SavedTypes

LEMMA SaveTimerTypes ==
  ASSUME TypeOK, user_save_timer \/ PRServerClose
  PROVE  TypeOK'
<1>1. \E us : us \subseteq DOMAIN user_map /\ save(us)
  BY DEF user_save_timer, PRServerClose
<1>2. SavedTypes'
  BY <1>1, SaveTypes
<1>3. status' \in {"up", "closing", "ended", "stopped"}
  BY DEF user_save_timer, PRServerClose, TypeOK
<1>4. /\ UNCHANGED <<now, msg_list, list, load_list, cdb, copy_list, work, table, changes, forgone>>
      /\ UNCHANGED <<defer_map, faults, overtaken, refused>>
  BY DEF user_save_timer, PRServerClose, others, disk
<1>5. QED
  BY <1>2, <1>3, <1>4 DEF TypeOK, SavedTypes

LEMMA DeferTypes ==
  ASSUME TypeOK,
         \/ \E u \in Users : user_defer_timeout_check(u) \/ quit_force(u)
         \/ Reload
  PROVE  TypeOK'
<1>1. ASSUME NEW u \in Users, user_defer_timeout_check(u)
      PROVE  defer_map' \in [Users -> Seq(Request)]
  <2>1. PICK n \in DOMAIN defer_map[u] :
          defer_map' = [defer_map EXCEPT ![u] = SubSeq(defer_map[u], n + 1, Len(defer_map[u]))]
    BY <1>1 DEF user_defer_timeout_check
  <2> DEFINE d == defer_map[u]
             e == SubSeq(d, n + 1, Len(d))
  <2>2. defer_map \in [Users -> Seq(Request)] /\ d \in Seq(Request)
    BY DEF TypeOK
  <2>3. e \in Seq(Request)
    BY <2>1, <2>2
  <2> HIDE DEF e
  <2>4. defer_map' = [defer_map EXCEPT ![u] = e]
    BY <2>1 DEF e
  <2>5. QED
    BY <2>2, <2>3, <2>4
<1>2. ASSUME NEW u \in Users, quit_force(u)
      PROVE  defer_map' \in [Users -> Seq(Request)]
  <2>1. defer_map' = [defer_map EXCEPT ![u] = << >>] /\ defer_map \in [Users -> Seq(Request)]
    BY <1>2 DEF quit_force, TypeOK
  <2>2. << >> \in Seq(Request)
    OBVIOUS
  <2>3. QED
    BY <2>1, <2>2
<1>3. ASSUME Reload
      PROVE  defer_map' \in [Users -> Seq(Request)]
  <2>1. << >> \in Seq(Request)
    OBVIOUS
  <2>2. QED
    BY <1>3, <2>1 DEF Reload
<1>4. defer_map' \in [Users -> Seq(Request)]
  BY <1>1, <1>2, <1>3
<1>5. refused' \subseteq Load
  BY DEF user_defer_timeout_check, quit_force, Reload, Refused, TypeOK
<1>6. DOMAIN user_map' \subseteq Users /\ \A u \in DOMAIN user_map' : user_map'[u] \in SUser
  BY DEF user_defer_timeout_check, quit_force, Reload, TypeOK
<1>7. overtaken' \subseteq Users /\ faults' \in 0..MaxFaults
  <2>1. MaxFaults \in Nat /\ overtaken \subseteq Users /\ faults \in 0..MaxFaults
    BY UserAssumption DEF TypeOK
  <2>2. overtaken' = overtaken \/ \E u \in Users : overtaken' = overtaken \cup {u}
    BY DEF user_defer_timeout_check, quit_force, Reload
  <2>3. faults' = faults \/ (faults < MaxFaults /\ faults' = faults + 1)
    BY DEF user_defer_timeout_check, quit_force, Reload
  <2>4. overtaken' \subseteq Users
    BY <2>1, <2>2
  <2>5. faults' \in 0..MaxFaults
    BY <2>1, <2>3
  <2>6. QED
    BY <2>4, <2>5
<1>8. /\ UNCHANGED <<now, msg_list, list, load_list, cdb, copy_list, work, table, changes, forgone>>
      /\ UNCHANGED <<status, save_list, file>>
  BY DEF user_defer_timeout_check, quit_force, Reload, others, disk
<1>9. QED
  BY <1>4, <1>5, <1>6, <1>7, <1>8 DEF TypeOK

\* The end of a process and the next start.
LEMMA EndTypes ==
  ASSUME TypeOK, EndThread \/ Restart
  PROVE  TypeOK'
<1>1. << >> \in Seq(Request) /\ << >> \in Seq(Request \cup Loaded) /\ << >> \in Seq(Load) /\ << >> \in Seq(Save)
  OBVIOUS
<1>2. IsInjective(<< >>)
  BY DEF IsInjective
<1>3. user_map' = << >> /\ defer_map' = [u \in Users |-> << >>] /\ overtaken' = {} /\ refused' = {}
  BY DEF EndThread, Restart
<1>4. DOMAIN user_map' \subseteq Users /\ \A u \in DOMAIN user_map' : user_map'[u] \in SUser
  BY <1>3
<1>5. defer_map' \in [Users -> Seq(Request)]
  BY <1>1, <1>3
<1>6. CASE EndThread
  <2>1. status' = "ended" /\ UNCHANGED <<now, msg_list, list, load_list, cdb, copy_list, work, table, changes, forgone>>
    BY <1>6 DEF EndThread, others, disk
  <2>2. UNCHANGED <<save_list, file, faults>>
    BY <1>6 DEF EndThread
  <2>3. QED
    BY <1>3, <1>4, <1>5, <2>1, <2>2 DEF TypeOK
<1>7. CASE Restart
  <2>1. now' \in Nat /\ faults' \in 0..MaxFaults
    <3>1. MaxFaults \in Nat
      BY UserAssumption
    <3>2. QED
      BY <1>7, <3>1 DEF Restart, TypeOK
  <2>2. /\ status' = "up" /\ msg_list' = << >> /\ list' = << >> /\ load_list' = << >> /\ save_list' = << >>
        /\ cdb' = "load" /\ copy_list' = << >> /\ work' = table
        /\ UNCHANGED <<table, file, changes, forgone>>
    BY <1>7 DEF Restart
  <2>3. QED
    BY <1>1, <1>2, <1>3, <1>4, <1>5, <2>1, <2>2 DEF TypeOK
<1>8. QED
  BY <1>6, <1>7

\* CDB takes up loads.
LEMMA DoLoadTypes ==
  ASSUME TypeOK, do_load_event
  PROVE  TypeOK'
<1> DEFINE free == {i \in DOMAIN load_list : ~Held(load_list[i])}
           held == DOMAIN load_list \ free
<1>1. load_list \in Seq(Load) /\ IsInjective(load_list) /\ cdb = "load"
  BY DEF TypeOK, do_load_event
<1>2. /\ UNCHANGED <<now, user_map, defer_map, list, changes, overtaken, file>>
      /\ UNCHANGED <<status, msg_list, save_list, work, table, faults, forgone, refused>>
  BY DEF do_load_event, unmoved, disk
<1>3. CASE free = {}
  <2>1. cdb' = "save" /\ UNCHANGED <<load_list, copy_list>>
    BY <1>3 DEF do_load_event
  <2>2. QED
    BY <1>1, <1>2, <2>1 DEF TypeOK
<1>4. CASE free # {}
  <2>1. cdb' = "loading" /\ copy_list' = Pick(load_list, free) /\ load_list' = Pick(load_list, held)
    BY <1>4 DEF do_load_event
  <2>2. copy_list' \in Seq(Load) \ {<< >>}
    BY <1>1, <1>4, <2>1, PickIs
  <2>3. load_list' \in Seq(Load) /\ IsInjective(load_list')
    BY <1>1, <2>1, PickIs
  <2> HIDE DEF free, held
  <2>4. QED
    BY <1>2, <2>1, <2>2, <2>3 DEF TypeOK
<1>5. QED
  BY <1>3, <1>4

\* Where CDB is after it has done the first of what it does.
LEMMA NextOfTypes ==
  ASSUME NEW S, NEW s \in Seq(S) \ {<< >>}, NEW step
  PROVE  /\ Head(s) \in S /\ Tail(s) \in Seq(S)
         /\ Tail(s) = << >> => Next_of(s, step) = "load"
         /\ Tail(s) # << >> => Next_of(s, step) = step
BY SeqSteps DEF Next_of

LEMMA LoadToMsgTypes ==
  ASSUME TypeOK, load_to_msg
  PROVE  TypeOK'
<1> DEFINE l == Head(copy_list)
           u == l.guid
           exists == Of(work[u], Simple) # {}
           data == IF exists THEN work[u] ELSE {c \in work[u] : c.part < Simple}
           m == [type |-> "load", guid |-> u, data |-> data, created |-> ~exists]
<1>1. copy_list \in Seq(Load) \ {<< >>}
  BY DEF TypeOK, load_to_msg
<1>2. copy_list' = Tail(copy_list) /\ cdb' = Next_of(copy_list, "loading")
  BY DEF load_to_msg
<1>3. \/ cdb' \in {"load", "save"} /\ copy_list' = << >>
      \/ cdb' = "loading" /\ copy_list' \in Seq(Load) \ {<< >>}
  BY <1>1, <1>2, NextOfTypes
<1>4. l \in Load
  BY <1>1, NextOfTypes
<1>5. u \in Users
  BY <1>4 DEF Load
<1>6. work \in [Users -> SUBSET Change] /\ forgone \in [Users -> SUBSET Change] /\ MaxFaults \in Nat
  BY UserAssumption DEF TypeOK
<1>7. data \subseteq Change /\ work[u] \subseteq Change
  BY <1>5, <1>6
<1>8. m \in Loaded
  <2>1. \A b \in BOOLEAN : [type |-> "load", guid |-> u, data |-> data, created |-> b] \in Loaded
    <3> HIDE DEF u, data
    <3>1. QED
      BY <1>5, <1>7 DEF Loaded
  <2>2. m = [type |-> "load", guid |-> u, data |-> data, created |-> FALSE]
        \/ m = [type |-> "load", guid |-> u, data |-> data, created |-> TRUE]
    <3> HIDE DEF u, data
    <3>1. exists \/ ~exists
      OBVIOUS
    <3>2. QED
      BY <3>1
  <2> HIDE DEF m
  <2>3. QED
    BY <2>1, <2>2
<1>9. /\ msg_list' = msg_list \/ msg_list' = Append(msg_list, m)
      /\ forgone' = forgone \/ forgone' = [forgone EXCEPT ![u] = @ \cup (work[u] \ data)]
      /\ refused' = refused \/ refused' = refused \cup {l} \/ refused' = refused \cup {}
      /\ faults' = faults \/ (faults < MaxFaults /\ faults' = faults + 1)
  BY DEF load_to_msg
<1>10. /\ UNCHANGED <<now, user_map, defer_map, list, changes, overtaken, file>>
       /\ UNCHANGED <<status, load_list, save_list, work, table>>
  BY DEF load_to_msg, unmoved, disk
<1> HIDE DEF l, m
<1>11. msg_list' \in Seq(Request \cup Loaded)
  <2>1. msg_list \in Seq(Request \cup Loaded)
    BY DEF TypeOK
  <2>2. m \in Request \cup Loaded
    BY <1>8
  <2>3. QED
    BY <1>9, <2>1, <2>2, AppendProperties
<1>12. forgone' \in [Users -> SUBSET Change]
  <2> DEFINE more == work[u] \ data
  <2>1. more \subseteq Change
    BY <1>7
  <2>2. forgone' = forgone \/ forgone' = [forgone EXCEPT ![u] = forgone[u] \cup more]
    BY <1>9
  <2> HIDE DEF more, u
  <2>3. QED
    BY <1>6, <2>1, <2>2
<1>13. refused' \subseteq Load
  BY <1>4, <1>9 DEF TypeOK
<1>14. faults' \in 0..MaxFaults
  <2>1. faults \in 0..MaxFaults
    BY DEF TypeOK
  <2>2. QED
    BY <1>6, <1>9, <2>1
<1>15. QED
  BY <1>3, <1>10, <1>11, <1>12, <1>13, <1>14 DEF TypeOK

LEMMA DoSaveTypes ==
  ASSUME TypeOK, do_save_event
  PROVE  TypeOK'
<1>1. << >> \in Seq(Save) /\ save_list \in Seq(Save)
  BY DEF TypeOK
<1>2. \/ cdb' \in {"load", "save"} /\ copy_list' = << >>
      \/ cdb' = "saving" /\ copy_list' \in Seq(Save) \ {<< >>}
  BY <1>1 DEF do_save_event
<1>3. save_list' = << >>
  BY DEF do_save_event
<1>4. /\ UNCHANGED <<now, user_map, defer_map, list, changes, overtaken, file>>
      /\ UNCHANGED <<status, msg_list, load_list, work, table, faults, forgone, refused>>
  BY DEF do_save_event, unmoved, disk
<1>5. QED
  BY <1>1, <1>2, <1>3, <1>4 DEF TypeOK

\* What a statement, or a half of them, makes of the rows of a user.
LEMMA PutIs ==
  ASSUME NEW db \in [Users -> SUBSET Change], NEW u \in Users, NEW parts, NEW data, data \subseteq Change,
         NEW s, s.guid = u, s.parts = parts, s.data = data
  PROVE  /\ Put(db, s) \in [Users -> SUBSET Change]
         /\ Put(db, s)[u] = {c \in db[u] : c.part \notin parts} \cup data
         /\ \A v \in Users \ {u} : Put(db, s)[v] = db[v]
<1> DEFINE new == {c \in db[u] : c.part \notin parts} \cup data
<1>1. Put(db, s) = [db EXCEPT ![u] = new]
  BY DEF Put
<1>2. new \in SUBSET Change
  OBVIOUS
<1> HIDE DEF new
<1>3. Put(db, s) \in [Users -> SUBSET Change] /\ Put(db, s)[u] = new /\ \A v \in Users \ {u} : Put(db, s)[v] = db[v]
  BY <1>1, <1>2
<1>4. QED
  BY <1>3 DEF new

\* A half of a save is of its user and writes what the save would have written.
LEMMA HalfIs ==
  ASSUME NEW s, NEW h \in Halves(s)
  PROVE  h.guid = s.guid /\ h.parts \subseteq s.parts /\ h.data \subseteq s.data
<1>1. PICK p \in s.parts : h \in {Half(s, p, {}), Half(s, p, {p})}
  BY DEF Halves
<1>2. PICK gone \in SUBSET s.parts :
        h = [guid |-> s.guid, parts |-> {q \in s.parts : q < p} \cup gone,
             data |-> Parts_of(s.data, {q \in s.parts : q < p})]
  BY <1>1 DEF Half
<1>3. QED
  BY <1>2 DEF Parts_of

\* What save_to_db does: a save, or an error somewhere on its way.
Saved(s) ==
  /\ work' = Put(work, s) /\ table' = Put(work, s)
  /\ forgone' = [forgone EXCEPT ![s.guid] = forgone[s.guid] \ s.data]

Unsaved(s) ==
  /\ forgone' = [forgone EXCEPT ![s.guid] = forgone[s.guid] \cup s.data]
  /\ \/ UNCHANGED disk
     \/ table' = work /\ \E h : /\ h.guid = s.guid /\ h.parts \subseteq s.parts /\ h.data \subseteq s.data
                                /\ work' = Put(work, h)

LEMMA SaveToDbIs ==
  ASSUME TypeOK, save_to_db
  PROVE  /\ copy_list \in Seq(Save) \ {<< >>} /\ Head(copy_list) \in Save
         /\ copy_list' = Tail(copy_list) /\ cdb' = Next_of(copy_list, "saving")
         /\ \/ Saved(Head(copy_list)) /\ faults' = faults
            \/ Unsaved(Head(copy_list)) /\ faults < MaxFaults /\ faults' = faults + 1
         /\ UNCHANGED <<now, user_map, defer_map, list, changes, overtaken, file>>
         /\ UNCHANGED <<status, msg_list, load_list, save_list, refused>>
<1> DEFINE s == Head(copy_list)
<1>1. copy_list \in Seq(Save) \ {<< >>}
  BY DEF TypeOK, save_to_db
<1>2. s \in Save
  BY <1>1, NextOfTypes
<1>3. copy_list' = Tail(copy_list) /\ cdb' = Next_of(copy_list, "saving")
  BY DEF save_to_db
<1>4. ASSUME work' = Put(work, s), table' = Put(work, s),
             forgone' = [forgone EXCEPT ![s.guid] = @ \ s.data]
      PROVE  Saved(s)
  BY <1>4 DEF Saved
<1>5. ASSUME forgone' = [forgone EXCEPT ![s.guid] = @ \cup s.data],
             \/ UNCHANGED disk
             \/ table' = work /\ work' = Put(work, s)
             \/ table' = work /\ \E h \in Halves(s) : work' = Put(work, h)
      PROVE  Unsaved(s)
  <2>1. CASE UNCHANGED disk
    BY <1>5, <2>1 DEF Unsaved
  <2>2. CASE table' = work /\ work' = Put(work, s)
    <3>1. s.guid = s.guid /\ s.parts \subseteq s.parts /\ s.data \subseteq s.data
      OBVIOUS
    <3> HIDE DEF s
    <3>2. QED
      BY <1>5, <2>2, <3>1 DEF Unsaved
  <2>3. CASE table' = work /\ \E h \in Halves(s) : work' = Put(work, h)
    <3>1. PICK h \in Halves(s) : work' = Put(work, h)
      BY <2>3
    <3>2. h.guid = s.guid /\ h.parts \subseteq s.parts /\ h.data \subseteq s.data
      BY HalfIs
    <3> HIDE DEF s
    <3>3. QED
      BY <1>5, <2>3, <3>1, <3>2 DEF Unsaved
  <2>4. QED
    BY <1>5, <2>1, <2>2, <2>3
<1>6. UNCHANGED <<now, user_map, defer_map, list, changes, overtaken, file>>
      /\ UNCHANGED <<status, msg_list, load_list, save_list, refused>>
  BY DEF save_to_db, unmoved
<1>7. \/ Saved(s) /\ faults' = faults
      \/ Unsaved(s) /\ faults < MaxFaults /\ faults' = faults + 1
  BY <1>4, <1>5 DEF save_to_db
<1>8. QED
  BY <1>1, <1>2, <1>3, <1>6, <1>7

LEMMA SaveToDbTypes ==
  ASSUME TypeOK, save_to_db
  PROVE  TypeOK'
<1> DEFINE s == Head(copy_list)
           u == s.guid
<1>1. /\ copy_list \in Seq(Save) \ {<< >>} /\ s \in Save
      /\ copy_list' = Tail(copy_list) /\ cdb' = Next_of(copy_list, "saving")
  BY SaveToDbIs
<1>2. \/ cdb' \in {"load", "save"} /\ copy_list' = << >>
      \/ cdb' = "saving" /\ copy_list' \in Seq(Save) \ {<< >>}
  BY <1>1, NextOfTypes
<1>3. u \in Users /\ s.data \subseteq Change
  BY <1>1 DEF Save
<1>4. {work, table, forgone} \subseteq [Users -> SUBSET Change]
  BY DEF TypeOK
<1>5. \A h : h.guid = u /\ h.data \subseteq s.data => Put(work, h) \in [Users -> SUBSET Change]
  <2> SUFFICES ASSUME NEW h, h.guid = u, h.data \subseteq s.data
               PROVE  Put(work, h) \in [Users -> SUBSET Change]
    OBVIOUS
  <2> DEFINE parts == h.parts
             data == h.data
  <2>1. data \subseteq Change /\ h.parts = parts /\ h.data = data /\ work \in [Users -> SUBSET Change]
    BY <1>3, <1>4
  <2> HIDE DEF parts, data, u
  <2>2. QED
    BY <2>1, <1>3, PutIs
<1>6. {work', table', forgone'} \subseteq [Users -> SUBSET Change]
  <2>1. Saved(s) \/ Unsaved(s)
    BY SaveToDbIs
  <2> HIDE DEF s
  <2>2. u = u /\ s.data \subseteq s.data
    OBVIOUS
  <2>3. CASE Saved(s)
    <3>1. work' = Put(work, s) /\ table' = Put(work, s) /\ forgone' = [forgone EXCEPT ![u] = forgone[u] \ s.data]
      BY <2>3 DEF Saved
    <3>2. Put(work, s) \in [Users -> SUBSET Change]
      BY <1>5, <2>2
    <3>3. forgone' \in [Users -> SUBSET Change]
      BY <3>1, <1>4
    <3>4. QED
      BY <3>1, <3>2, <3>3
  <2>4. CASE Unsaved(s)
    <3>1. forgone' = [forgone EXCEPT ![u] = forgone[u] \cup s.data]
      BY <2>4 DEF Unsaved
    <3>2. forgone' \in [Users -> SUBSET Change]
      BY <3>1, <1>3, <1>4
    <3>3. \/ work' = work /\ table' = table
          \/ table' = work /\ \E h : h.guid = u /\ h.data \subseteq s.data /\ work' = Put(work, h)
      BY <2>4 DEF Unsaved, disk
    <3>4. work' \in [Users -> SUBSET Change] /\ table' \in [Users -> SUBSET Change]
      BY <3>3, <1>4, <1>5
    <3>5. QED
      BY <3>2, <3>4
  <2>5. QED
    BY <2>1, <2>3, <2>4
<1>7. faults' \in 0..MaxFaults
  <2>1. faults \in 0..MaxFaults /\ MaxFaults \in Nat
    BY UserAssumption DEF TypeOK
  <2>2. faults' = faults \/ (faults < MaxFaults /\ faults' = faults + 1)
    BY SaveToDbIs
  <2>3. QED
    BY <2>1, <2>2
<1>8. /\ UNCHANGED <<now, user_map, defer_map, list, changes, overtaken, file>>
      /\ UNCHANGED <<status, msg_list, load_list, save_list, refused>>
  BY SaveToDbIs
<1>9. QED
  BY <1>2, <1>6, <1>7, <1>8 DEF TypeOK

LEMMA TypesKept ==
  ASSUME TypeOK, [Next]_vars
  PROVE  TypeOK'
<1>1. ASSUME NEW u \in Users, Arrive("login", u) \/ Arrive("off", u)
      PROVE  TypeOK'
  BY <1>1, ArriveTypes
<1>2. ASSUME NEW u \in Users, quit_force(u) \/ user_defer_timeout_check(u)
      PROVE  TypeOK'
  BY <1>2, DeferTypes
<1>3. CASE Swap
  <2>1. << >> \in Seq(Request \cup Loaded)
    OBVIOUS
  <2>2. list' = msg_list /\ msg_list' = << >>
    BY <1>3 DEF Swap
  <2>3. /\ UNCHANGED <<status, now, save_list, cdb, copy_list, work, table, file, faults, overtaken, forgone>>
        /\ UNCHANGED <<user_map, defer_map, load_list, changes, refused>>
    BY <1>3 DEF Swap, quiet, disk
  <2>4. QED
    BY <2>1, <2>2, <2>3 DEF TypeOK
<1>4. CASE EndDB
  BY <1>4 DEF EndDB, unmoved, disk, TypeOK
<1>5. CASE ConnectionLost
  BY <1>5 DEF ConnectionLost, unmoved, TypeOK
<1>6. CASE Tick
  BY <1>6 DEF Tick, logic, disk, TypeOK
<1>7. CASE UNCHANGED vars
  BY <1>7 DEF vars, logic, disk, TypeOK
<1>8. QED
  BY <1>1, <1>2, <1>3, <1>4, <1>5, <1>6, <1>7, RunRequestTypes, LoadedTypes, SaveTimerTypes, DeferTypes,
     EndTypes, DoLoadTypes, LoadToMsgTypes, DoSaveTypes, SaveToDbTypes DEF Next

LEMMA UserTypesAtFirst == Init => TypeOK
<1> SUFFICES ASSUME Init PROVE TypeOK
  OBVIOUS
<1>1. << >> \in Seq(Request) /\ << >> \in Seq(Request \cup Loaded) /\ << >> \in Seq(Load) /\ << >> \in Seq(Save)
  OBVIOUS
<1>2. IsInjective(<< >>)
  BY DEF IsInjective
<1>3. Interval \in Nat /\ 0 \in 0..MaxChanges /\ 0 \in 0..MaxFaults /\ Simple \in Parts
  BY UserAssumption
<1>4. Grown \subseteq Change
  BY <1>3 DEF Grown, InitChange, Change
<1>5. work \in [Users -> SUBSET Change] /\ table = work
  <2>1. PICK old \in SUBSET Users : work = [u \in Users |-> IF u \in old THEN Grown ELSE {}]
    BY DEF Init
  <2>2. QED
    BY <2>1, <1>4 DEF Init
<1>6. forgone \in [Users -> SUBSET Change]
  BY DEF Init, NoData
<1>7. QED
  BY <1>1, <1>2, <1>3, <1>5, <1>6 DEF Init, TypeOK

\* Every variable has its type, a load is asked for once, and CDB has
\* something to do exactly when it is loading or saving.
THEOREM UserTypes == Spec => []TypeOK
<1>1. Init => TypeOK
  BY UserTypesAtFirst
<1>2. TypeOK /\ [Next]_vars => TypeOK'
  BY TypesKept
<1>3. QED
  BY <1>1, <1>2, PTL DEF Spec

-----------------------------------------------------------------------------
(* Requests put off: an answer is due, or the load was refused.            *)

Coming(u)   == \E m \in ToSet(queue) : m.type = "load" /\ m.guid = u
LoginOff(u) == \E d \in ToSet(defer_map[u]) : d.type = "login"
AskedFor    == ToSet(load_list) \cup (IF cdb = "loading" THEN ToSet(copy_list) ELSE {}) \cup refused

Answered(u) ==
  defer_map[u] # << >> =>
    ~Present(u) /\ (Coming(u) \/ \E l \in AskedFor : l.guid = u /\ (LoginOff(u) => l.create))

LEMMA AnsweredIs == NoneStranded <=> \A u \in Users : Answered(u)
BY DEF NoneStranded, Answered, Coming, LoginOff, AskedFor

LEMMA AllAnswered ==
  ASSUME \A u \in Users : Answered(u)'
  PROVE  NoneStranded'
BY DEF NoneStranded, Answered, Coming, LoginOff, AskedFor

\* What is put off in the end was put off before, and its answer is still due.
LEMMA StillAnswered ==
  ASSUME NEW u, Answered(u),
         defer_map'[u] # << >> =>
           /\ defer_map[u] # << >> /\ (LoginOff(u)' => LoginOff(u))
           /\ Present(u)' => Present(u)
           /\ Coming(u) => Coming(u)'
           /\ \A l \in AskedFor : l.guid = u => l \in AskedFor' \/ Coming(u)'
  PROVE  Answered(u)'
BY DEF Answered

\* A request in the handler: it is put off, and its load asked for, or served.
LEMMA HandleAnswered ==
  ASSUME TypeOK, NoneStranded, NEW u \in Users, NEW type \in {"login", "off"}, Handle(type, u),
         UNCHANGED <<cdb, copy_list, msg_list>>,
         \A m \in ToSet(list) : m.type = "load" => m \in ToSet(list'),
         list' \in Seq(Request \cup Loaded)
  PROVE  NoneStranded'
<1>1. \A v \in Users : Answered(v)
  BY AnsweredIs
<1>2. \A v : Coming(v) => Coming(v)'
  <2>1. ToSet(queue) = ToSet(list) \cup ToSet(msg_list)
    BY SeqSteps DEF TypeOK, queue
  <2>2. ToSet(list' \o msg_list) = ToSet(list') \cup ToSet(msg_list)
    BY SeqSteps DEF TypeOK
  <2>3. ToSet(queue)' = ToSet(list') \cup ToSet(msg_list)
    BY <2>2 DEF queue
  <2>4. QED
    BY <2>1, <2>3 DEF Coming
<1>3. CASE Defer(type, u)
  <2> DEFINE l == [guid |-> u, create |-> type = "login"]
             r == [type |-> type, guid |-> u, nr |-> Serial(u)]
             d == Append(defer_map[u], r)
  <2>1. defer_map' = [defer_map EXCEPT ![u] = d] /\ defer_map \in [Users -> Seq(Request)]
    BY <1>3 DEF Defer, TypeOK
  <2>2. load_list' = post_load(l) /\ l \in Load
    BY <1>3 DEF Defer, Load
  <2>3. user_map' = user_map /\ refused' = refused /\ ~Present(u)
    BY <1>3 DEF Defer
  <2>4. ToSet(load_list') = ToSet(load_list) \cup {l}
    BY <2>2, PostLoadTypes
  <2>5. AskedFor' = AskedFor \cup {l}
    BY <2>3, <2>4 DEF AskedFor
  <2>6. \A v \in Users \ {u} : defer_map'[v] = defer_map[v]
    BY <2>1
  <2>7. ASSUME NEW v \in Users \ {u}
        PROVE  Answered(v)'
    <3>1. LoginOff(v)' => LoginOff(v)
      BY <2>6 DEF LoginOff
    <3>2. QED
      BY <1>1, <1>2, <2>3, <2>5, <2>6, <3>1, StillAnswered DEF Present
  <2>8. Answered(u)'
    <3>1. ~Present(u)'
      BY <2>3 DEF Present
    <3>2. defer_map'[u] = d /\ defer_map[u] \in Seq(Request)
      BY <2>1
    <3>3. ToSet(d) = ToSet(defer_map[u]) \cup {r}
      <4> DEFINE one == <<r>>
      <4>1. r \in Request
        BY SerialAbove DEF Request
      <4>2. d = defer_map[u] \o one
        BY <3>2, <4>1, AppendIsConcat
      <4>3. one \in Seq(Request) /\ ToSet(one) = {r}
        BY <4>1 DEF ToSet
      <4> HIDE DEF one, r, d
      <4>4. QED
        BY <3>2, <4>2, <4>3, SeqSteps
    <3>4. l.guid = u /\ (l.create <=> type = "login") /\ r.type = type
      OBVIOUS
    <3>5. LoginOff(u)' <=> LoginOff(u) \/ type = "login"
      <4> HIDE DEF r
      <4>1. QED
        BY <3>2, <3>3, <3>4 DEF LoginOff
    <3> HIDE DEF l, d, r
    <3>6. CASE LoginOff(u) /\ type # "login"
      <4>1. defer_map[u] # << >>
        <5>1. ToSet(<< >>) = {}
          BY DEF ToSet
        <5>2. QED
          BY <3>6, <5>1 DEF LoginOff
      <4>2. Coming(u) \/ \E k \in AskedFor : k.guid = u /\ k.create
        BY <1>1, <3>6, <4>1 DEF Answered
      <4>3. QED
        BY <1>2, <2>5, <3>1, <4>2 DEF Answered
    <3>7. CASE ~(LoginOff(u) /\ type # "login")
      <4>1. LoginOff(u)' => l.create
        BY <3>4, <3>5, <3>7
      <4>2. l \in AskedFor'
        BY <2>5
      <4>3. QED
        BY <3>1, <3>4, <4>1, <4>2 DEF Answered
    <3>8. QED
      BY <3>6, <3>7
  <2>9. QED
    BY <2>7, <2>8, AllAnswered
<1>4. CASE Serve(type, u)
  <2>1. DOMAIN user_map' = DOMAIN user_map
    BY <1>4 DEF Serve
  <2>2. UNCHANGED <<defer_map, load_list, refused>>
    BY <1>4 DEF Serve
  <2>3. ASSUME NEW v \in Users
        PROVE  Answered(v)'
    BY <1>1, <1>2, <2>1, <2>2, StillAnswered DEF Present, LoginOff, AskedFor
  <2>4. QED
    BY <2>3, AllAnswered
<1>5. QED
  BY <1>3, <1>4 DEF Handle

\* Steps that leave the requests put off alone and lose no answer.
LEMMA AloneAnswered ==
  ASSUME NoneStranded, defer_map' = defer_map, DOMAIN user_map' \subseteq DOMAIN user_map,
         \A m \in ToSet(queue) : m.type = "load" => m \in ToSet(queue'),
         \A l \in AskedFor : l \in AskedFor' \/ defer_map[l.guid] = << >> \/ Coming(l.guid)'
  PROVE  NoneStranded'
<1>1. ASSUME NEW u \in Users
      PROVE  Answered(u)'
  <2>1. Answered(u)
    BY AnsweredIs
  <2>2. Coming(u) => Coming(u)'
    BY DEF Coming
  <2>3. (LoginOff(u)' => LoginOff(u)) /\ (Present(u)' => Present(u))
    BY DEF LoginOff, Present
  <2>4. defer_map[u] # << >> => \A l \in AskedFor : l.guid = u => l \in AskedFor' \/ Coming(u)'
    BY DEF Coming
  <2>5. QED
    BY <2>1, <2>2, <2>3, <2>4, StillAnswered
<1>2. QED
  BY <1>1, AllAnswered

\* An answer that brought its user: its requests go back into the queue.
LEMMA LoadedAnswered ==
  ASSUME TypeOK, NoneStranded, PRSystemUserLoad
  PROVE  NoneStranded'
<1> DEFINE m == Head(list)
           u == m.guid
<1>1. list # << >> /\ list' = Tail(list) /\ m.type = "load"
  BY DEF PRSystemUserLoad
<1>2. u \in Users
  BY <1>1, HeadTypes
<1>3. list \in Seq(Request \cup Loaded) /\ msg_list \in Seq(Request \cup Loaded) /\ list' \in Seq(Request \cup Loaded)
  BY <1>1, HeadTypes DEF TypeOK
<1>4. ToSet(list) = {m} \cup ToSet(list')
  BY <1>1, <1>3, SeqSteps
<1>5. refused' = {l \in refused : defer_map'[l.guid] # << >>} /\ UNCHANGED <<load_list, cdb, copy_list>>
  BY DEF PRSystemUserLoad
<1>6. \A l \in AskedFor : l \in AskedFor' \/ defer_map'[l.guid] = << >>
  BY <1>5 DEF AskedFor
<1>7. ToSet(queue) = {m} \cup ToSet(list') \cup ToSet(msg_list)
  BY <1>3, <1>4, SeqSteps DEF queue
<1> HIDE DEF m
<1>8. /\ msg_list' \in Seq(Request \cup Loaded)
      /\ ToSet(msg_list) \subseteq ToSet(msg_list')
      /\ \A v \in Users \ {u} : defer_map'[v] = defer_map[v] /\ (Present(v)' => Present(v))
      /\ defer_map'[u] = << >>
  <2>1. CASE Present(u)
    <3>1. /\ user_map' = [user_map EXCEPT ![u] = find(user_map[u])]
          /\ msg_list' = msg_list /\ defer_map' = defer_map
      BY <2>1 DEF PRSystemUserLoad, m
    <3>2. defer_map[u] = << >>
      BY <1>2, <2>1, AnsweredIs DEF Answered
    <3>3. QED
      BY <1>3, <3>1, <3>2 DEF Present
  <2>2. CASE ~Present(u)
    <3>1. /\ DOMAIN user_map' = {u} \cup DOMAIN user_map
          /\ msg_list' = defer_map[u] \o msg_list
          /\ defer_map' = [defer_map EXCEPT ![u] = << >>]
      BY <2>2 DEF PRSystemUserLoad, dispatch_defer, m
    <3>2. defer_map \in [Users -> Seq(Request)]
      BY DEF TypeOK
    <3>3. defer_map[u] \in Seq(Request \cup Loaded)
      <4>1. defer_map[u] \in Seq(Request)
        BY <1>2, <3>2
      <4>2. QED
        BY <4>1, SeqMonotonic
    <3>4. msg_list' \in Seq(Request \cup Loaded) /\ ToSet(msg_list') = ToSet(defer_map[u]) \cup ToSet(msg_list)
      BY <1>3, <3>1, <3>3, SeqSteps
    <3> HIDE DEF u
    <3>5. QED
      BY <1>2, <3>1, <3>2, <3>4 DEF Present
  <2>3. QED
    BY <2>1, <2>2
<1>9. ToSet(queue') = ToSet(list') \cup ToSet(msg_list')
  BY <1>3, <1>8, SeqSteps DEF queue
<1>10. ASSUME NEW v \in Users
       PROVE  Answered(v)'
  <2>1. CASE v = u
    BY <1>8, <2>1 DEF Answered
  <2>2. CASE v # u
    <3>1. Coming(v) => Coming(v)'
      BY <1>7, <1>8, <1>9, <2>2 DEF Coming
    <3>2. LoginOff(v)' => LoginOff(v)
      BY <1>8, <2>2 DEF LoginOff
    <3>3. defer_map'[v] # << >> => \A l \in AskedFor : l.guid = v => l \in AskedFor'
      BY <1>6
    <3>4. Answered(v) /\ defer_map'[v] = defer_map[v] /\ (Present(v)' => Present(v))
      BY <1>8, <2>2, AnsweredIs
    <3>5. QED
      BY <3>1, <3>2, <3>3, <3>4, StillAnswered
  <2>3. QED
    BY <2>1, <2>2
<1>11. QED
  BY <1>10, AllAnswered

\* Requests that are dropped.
LEMMA DropAnswered ==
  ASSUME TypeOK, NoneStranded,
         \/ \E u \in Users : user_defer_timeout_check(u) \/ quit_force(u)
         \/ Reload \/ EndThread \/ Restart
  PROVE  NoneStranded'
<1>1. CASE defer_map' = [v \in Users |-> << >>]
  BY <1>1 DEF NoneStranded
<1>2. ASSUME NEW u \in Users, user_defer_timeout_check(u) \/ quit_force(u)
      PROVE  NoneStranded'
  <2>1. DOMAIN user_map' \subseteq DOMAIN user_map /\ refused' = {l \in refused : defer_map'[l.guid] # << >>}
    BY <1>2 DEF user_defer_timeout_check, quit_force, Refused
  <2>2. UNCHANGED <<msg_list, list, load_list, cdb, copy_list>>
    BY <1>2 DEF user_defer_timeout_check, quit_force, others
  <2>3. /\ \A v \in Users \ {u} : defer_map'[v] = defer_map[v]
        /\ ToSet(defer_map'[u]) \subseteq ToSet(defer_map[u])
        /\ defer_map'[u] # << >> => defer_map[u] # << >>
    <3>1. defer_map \in [Users -> Seq(Request)] /\ defer_map[u] \in Seq(Request)
      BY DEF TypeOK
    <3>2. CASE quit_force(u)
      <4>1. defer_map' = [defer_map EXCEPT ![u] = << >>]
        BY <3>2 DEF quit_force
      <4>2. ToSet(<< >>) = {}
        BY DEF ToSet
      <4>3. QED
        BY <3>1, <4>1, <4>2
    <3>3. CASE user_defer_timeout_check(u)
      <4>1. PICK n \in DOMAIN defer_map[u] :
              defer_map' = [defer_map EXCEPT ![u] = SubSeq(defer_map[u], n + 1, Len(defer_map[u]))]
        BY <3>3 DEF user_defer_timeout_check
      <4> DEFINE d == defer_map[u]
                 e == SubSeq(d, n + 1, Len(d))
      <4>2. /\ n \in 1..Len(d) /\ Len(d) \in Nat /\ DOMAIN e = 1..(Len(d) - n)
            /\ \A i \in 1..(Len(d) - n) : e[i] = d[n + i]
        BY <3>1, <4>1
      <4>3. \A i \in 1..(Len(d) - n) : n + i \in DOMAIN d
        BY <3>1, <4>2
      <4>4. ToSet(e) \subseteq ToSet(d)
        <5> HIDE DEF d, e
        <5>1. QED
          BY <4>2, <4>3 DEF ToSet
      <4>5. d # << >>
        BY <4>2
      <4> HIDE DEF e, d
      <4>6. defer_map' = [defer_map EXCEPT ![u] = e]
        BY <4>1 DEF e, d
      <4>7. QED
        BY <3>1, <4>4, <4>5, <4>6 DEF d
    <3>4. QED
      BY <1>2, <3>2, <3>3
  <2>4. ASSUME NEW v \in Users
        PROVE  Answered(v)'
    <3>1. Answered(v) /\ (Present(v)' => Present(v)) /\ (Coming(v) => Coming(v)')
      BY <2>1, <2>2, AnsweredIs DEF Present, Coming, queue
    <3>2. LoginOff(v)' => LoginOff(v)
      BY <2>3 DEF LoginOff
    <3>3. defer_map'[v] # << >> => defer_map[v] # << >>
      BY <2>3
    <3>4. defer_map'[v] # << >> => \A l \in AskedFor : l.guid = v => l \in AskedFor'
      BY <2>1, <2>2 DEF AskedFor
    <3>5. QED
      BY <3>1, <3>2, <3>3, <3>4, StillAnswered
  <2>5. QED
    BY <2>4, AllAnswered
<1>3. QED
  BY <1>1, <1>2 DEF Reload, EndThread, Restart

\* CDB takes up loads, and leaves those that wait for a save.
LEMMA DoLoadAnswered ==
  ASSUME TypeOK, NoneStranded, do_load_event
  PROVE  NoneStranded'
<1> DEFINE free == {i \in DOMAIN load_list : ~Held(load_list[i])}
           held == DOMAIN load_list \ free
<1>1. load_list \in Seq(Load) /\ cdb = "load"
  BY DEF TypeOK, do_load_event
<1>2. UNCHANGED <<user_map, defer_map, list, msg_list, refused>>
  BY DEF do_load_event, unmoved
<1>3. AskedFor \subseteq AskedFor'
  <2>1. CASE free = {}
    BY <1>1, <1>2, <2>1 DEF do_load_event, AskedFor
  <2>2. CASE free # {}
    <3>1. cdb' = "loading" /\ copy_list' = Pick(load_list, free) /\ load_list' = Pick(load_list, held)
      BY <2>2 DEF do_load_event
    <3>2. \A I \in SUBSET DOMAIN load_list : \A i \in I : load_list[i] \in ToSet(Pick(load_list, I))
      BY <1>1, PickIs DEF ToSet
    <3>3. ToSet(load_list) \subseteq ToSet(load_list') \cup ToSet(copy_list')
      <4> SUFFICES ASSUME NEW i \in DOMAIN load_list
                   PROVE  load_list[i] \in ToSet(load_list') \cup ToSet(copy_list')
        BY DEF ToSet
      <4>1. i \in free \/ i \in held
        OBVIOUS
      <4>2. free \in SUBSET DOMAIN load_list /\ held \in SUBSET DOMAIN load_list
        OBVIOUS
      <4> HIDE DEF free, held
      <4>3. QED
        BY <3>1, <3>2, <4>1, <4>2
    <3> HIDE DEF free, held
    <3>4. QED
      BY <1>1, <1>2, <3>1, <3>3 DEF AskedFor
  <2>3. QED
    BY <2>1, <2>2
<1>4. QED
  BY <1>2, <1>3, AloneAnswered DEF queue

\* A load is done: there is an answer, or it is refused.
LEMMA LoadToMsgAnswered ==
  ASSUME TypeOK, NoneStranded, load_to_msg
  PROVE  NoneStranded'
<1> DEFINE l == Head(copy_list)
           u == l.guid
<1>1. cdb = "loading" /\ copy_list \in Seq(Load) \ {<< >>} /\ msg_list \in Seq(Request \cup Loaded)
      /\ list \in Seq(Request \cup Loaded)
  BY DEF TypeOK, load_to_msg
<1>2. copy_list' = Tail(copy_list) /\ cdb' = Next_of(copy_list, "loading") /\ copy_list' \in Seq(Load)
  BY <1>1, SeqSteps DEF load_to_msg
<1>3. ToSet(copy_list) = {l} \cup ToSet(copy_list')
  BY <1>1, <1>2, SeqSteps
<1>4. copy_list' # << >> => cdb' = "loading"
  BY <1>1, <1>2, NextOfTypes
<1>5. ToSet(copy_list') \subseteq IF cdb' = "loading" THEN ToSet(copy_list') ELSE {}
  <2>1. ToSet(<< >>) = {}
    BY DEF ToSet
  <2>2. QED
    BY <1>4, <2>1
<1>6. UNCHANGED <<user_map, defer_map, list, load_list>>
  BY DEF load_to_msg, unmoved
<1>7. \/ \E m : m.type = "load" /\ m.guid = u /\ m \in Request \cup Loaded
                /\ msg_list' = Append(msg_list, m) /\ refused' = refused
      \/ msg_list' = msg_list /\ refused' = refused \cup (IF defer_map[u] # << >> THEN {l} ELSE {})
  <2>1. ASSUME refused' = refused, NEW data, NEW created,
               msg_list' = Append(msg_list, [type |-> "load", guid |-> u, data |-> data, created |-> created])
        PROVE  \E m : m.type = "load" /\ m.guid = u /\ m \in Request \cup Loaded
                      /\ msg_list' = Append(msg_list, m) /\ refused' = refused
    <3> DEFINE m == [type |-> "load", guid |-> u, data |-> data, created |-> created]
    <3>1. m.type = "load" /\ m.guid = u
      OBVIOUS
    <3>2. msg_list' \in Seq(Request \cup Loaded)
      BY LoadToMsgTypes DEF TypeOK
    <3>3. msg_list' = Append(msg_list, m)
      BY <2>1
    <3> HIDE DEF m
    <3>4. m \in Request \cup Loaded
      <4>1. msg_list'[Len(msg_list) + 1] = m /\ Len(msg_list') = Len(msg_list) + 1
        BY <1>1, <3>3
      <4>2. Len(msg_list) + 1 \in 1..Len(msg_list')
        BY <1>1, <4>1
      <4>3. QED
        BY <3>2, <4>1, <4>2, ElementOfSeq
    <3>5. QED
      BY <2>1, <3>1, <3>3, <3>4
  <2>2. QED
    BY <2>1 DEF load_to_msg
<1> HIDE DEF l
<1>8. CASE msg_list' = msg_list /\ refused' = refused \cup (IF defer_map[u] # << >> THEN {l} ELSE {})
  <2>1. \A k \in AskedFor : k \in AskedFor' \/ defer_map[k.guid] = << >>
    <3>1. \A k \in AskedFor : \/ k \in ToSet(load_list) \/ k = l \/ k \in ToSet(copy_list') \/ k \in refused
      BY <1>3 DEF AskedFor
    <3>2. \A k : k \in ToSet(load_list) \/ k \in ToSet(copy_list') \/ k \in refused => k \in AskedFor'
      BY <1>5, <1>6, <1>8 DEF AskedFor
    <3>3. l \in AskedFor' \/ defer_map[u] = << >>
      BY <1>8 DEF AskedFor
    <3>4. QED
      BY <3>1, <3>2, <3>3
  <2>2. queue' = queue
    BY <1>6, <1>8 DEF queue
  <2>3. QED
    BY <1>6, <2>1, <2>2, AloneAnswered
<1>9. ASSUME NEW m, m.type = "load", m.guid = u, m \in Request \cup Loaded,
             msg_list' = Append(msg_list, m), refused' = refused
      PROVE  NoneStranded'
  <2> DEFINE one == <<m>>
  <2>1. one \in Seq(Request \cup Loaded) /\ ToSet(one) = {m} /\ msg_list' = msg_list \o one
    BY <1>1, <1>9, AppendIsConcat DEF ToSet
  <2> HIDE DEF one
  <2>2. ToSet(msg_list') = ToSet(msg_list) \cup {m} /\ msg_list' \in Seq(Request \cup Loaded)
    BY <1>1, <2>1, SeqSteps
  <2>3. ToSet(queue) = ToSet(list) \cup ToSet(msg_list)
    BY <1>1, SeqSteps DEF queue
  <2>4. ToSet(queue') = ToSet(list) \cup ToSet(msg_list')
    BY <1>1, <1>6, <2>2, SeqSteps DEF queue
  <2>5. ToSet(queue') = ToSet(queue) \cup {m}
    BY <2>2, <2>3, <2>4
  <2>6. ASSUME NEW k, k = l
        PROVE  Coming(k.guid)'
    <3>1. m \in ToSet(queue)' /\ m.type = "load" /\ m.guid = k.guid
      BY <1>9, <2>5, <2>6
    <3>2. QED
      BY <3>1 DEF Coming
  <2>7. \A k \in AskedFor : k \in AskedFor' \/ k = l
    BY <1>3, <1>5, <1>6, <1>9 DEF AskedFor
  <2>8. \A k \in AskedFor : k \in AskedFor' \/ defer_map[k.guid] = << >> \/ Coming(k.guid)'
    <3> SUFFICES ASSUME NEW k \in AskedFor
                 PROVE  k \in AskedFor' \/ Coming(k.guid)'
      OBVIOUS
    <3>1. CASE k = l
      BY <2>6, <3>1
    <3>2. CASE k # l
      BY <2>7, <3>2
    <3>3. QED
      BY <3>1, <3>2
  <2>9. QED
    BY <1>6, <2>5, <2>8, AloneAnswered
<1>10. QED
  BY <1>7, <1>8, <1>9

LEMMA NoneStrandedKept ==
  ASSUME TypeOK, NoneStranded, [Next]_vars
  PROVE  NoneStranded'
<1>1. ASSUME NEW u \in Users, NEW type \in {"login", "off"}, Arrive(type, u)
      PROVE  NoneStranded'
  <2>1. Handle(type, u) /\ UNCHANGED <<cdb, copy_list, msg_list>> /\ list' = list
    BY <1>1 DEF Arrive, quiet
  <2>2. list' \in Seq(Request \cup Loaded)
    BY <2>1 DEF TypeOK
  <2>3. QED
    BY <2>1, <2>2, HandleAnswered
<1>2. CASE RunRequest
  <2>1. /\ Handle(Head(list).type, Head(list).guid) /\ UNCHANGED <<cdb, copy_list, msg_list>>
        /\ list' = Tail(list) /\ list # << >> /\ Head(list).type # "load"
    BY <1>2 DEF RunRequest, quiet
  <2>2. list' \in Seq(Request \cup Loaded) /\ Head(list).guid \in Users /\ Head(list).type \in {"login", "off"}
    BY <2>1, HeadTypes
  <2>3. ToSet(list) = {Head(list)} \cup ToSet(list')
    BY <2>1, SeqSteps DEF TypeOK
  <2>4. \A m \in ToSet(list) : m.type = "load" => m \in ToSet(list')
    BY <2>1, <2>3
  <2>5. QED
    BY <2>1, <2>2, <2>4, HandleAnswered
<1>3. CASE Swap
  <2>1. /\ list = << >> /\ list' = msg_list /\ msg_list' = << >>
        /\ UNCHANGED <<cdb, copy_list, user_map, defer_map, load_list, refused>>
    BY <1>3 DEF Swap, quiet
  <2>2. queue' = queue
    BY <2>1, ConcatEmptySeq DEF queue, TypeOK
  <2>3. QED
    BY <2>1, <2>2, AloneAnswered DEF AskedFor
<1>4. CASE user_save_timer \/ PRServerClose
  <2>1. UNCHANGED <<list, msg_list, load_list, cdb, copy_list, defer_map, refused>> /\ \E us : save(us)
    BY <1>4 DEF user_save_timer, PRServerClose, others
  <2>2. DOMAIN user_map' = DOMAIN user_map
    BY <2>1 DEF save
  <2>3. QED
    BY <2>1, <2>2, AloneAnswered DEF AskedFor, queue
<1>5. CASE do_save_event \/ save_to_db
  <2>1. UNCHANGED <<list, msg_list, load_list, defer_map, refused, user_map>> /\ cdb # "loading"
    BY <1>5 DEF do_save_event, save_to_db, unmoved
  <2>2. AskedFor \subseteq AskedFor'
    BY <2>1 DEF AskedFor
  <2>3. QED
    BY <2>1, <2>2, AloneAnswered DEF queue
<1>6. CASE EndDB \/ ConnectionLost \/ Tick \/ UNCHANGED vars
  <2>1. UNCHANGED <<list, msg_list, load_list, cdb, copy_list, defer_map, refused, user_map>>
    BY <1>6 DEF EndDB, ConnectionLost, Tick, vars, unmoved, logic
  <2>2. QED
    BY <2>1, AloneAnswered DEF AskedFor, queue
<1>7. QED
  BY <1>1, <1>2, <1>3, <1>4, <1>5, <1>6, LoadedAnswered, DropAnswered, DoLoadAnswered, LoadToMsgAnswered DEF Next

-----------------------------------------------------------------------------
(* Requests put off: they are run in their order.                          *)

\* What is put off is the user's own, in the order of its numbers.
PutOff(d, u) ==
  /\ \A k \in DOMAIN d : d[k].guid = u
  /\ \A j, k \in DOMAIN d : j < k => d[j].nr < d[k].nr

InTurn(q, u) ==
  \A i, j \in DOMAIN q : i < j /\ Asks(q[i], u) /\ Asks(q[j], u) => q[i].nr < q[j].nr

\* No request of u is in the queue behind an answer that would bring u.
NoneBehind(q, u) ==
  \A j, k \in DOMAIN q : j < k /\ q[j].type = "load" /\ q[j].guid = u => ~Asks(q[k], u)

Turns ==
  \A u \in Users :
    /\ PutOff(defer_map[u], u)
    /\ u \notin overtaken => InTurn(queue, u) /\ (~Present(u) => NoneBehind(queue, u))

\* Where the messages of u keep their order, these two are kept.
LEMMA Thinned ==
  ASSUME NEW q, NEW p, NEW u, NEW f, DOMAIN p \subseteq Nat,
         \A i \in DOMAIN p : p[i].guid = u => f[i] \in DOMAIN q /\ q[f[i]] = p[i],
         \A i, j \in DOMAIN p : i < j /\ p[i].guid = u /\ p[j].guid = u => f[i] < f[j]
  PROVE  /\ InTurn(q, u) => InTurn(p, u)
         /\ NoneBehind(q, u) => NoneBehind(p, u)
<1>1. ASSUME InTurn(q, u), NEW i \in DOMAIN p, NEW j \in DOMAIN p, i < j, Asks(p[i], u), Asks(p[j], u)
      PROVE  p[i].nr < p[j].nr
  <2>1. p[i].guid = u /\ p[j].guid = u
    BY <1>1 DEF Asks
  <2>2. f[i] \in DOMAIN q /\ q[f[i]] = p[i] /\ f[j] \in DOMAIN q /\ q[f[j]] = p[j] /\ f[i] < f[j]
    BY <1>1, <2>1
  <2>3. QED
    BY <1>1, <2>2 DEF InTurn
<1>2. ASSUME NoneBehind(q, u), NEW i \in DOMAIN p, NEW j \in DOMAIN p, i < j, p[i].type = "load", p[i].guid = u,
             Asks(p[j], u)
      PROVE  FALSE
  <2>1. p[j].guid = u
    BY <1>2 DEF Asks
  <2>2. f[i] \in DOMAIN q /\ q[f[i]] = p[i] /\ f[j] \in DOMAIN q /\ q[f[j]] = p[j] /\ f[i] < f[j]
    BY <1>2, <2>1
  <2>3. QED
    BY <1>2, <2>2 DEF NoneBehind
<1>3. QED
  BY <1>1, <1>2 DEF InTurn, NoneBehind

LEMMA ThinnedTail ==
  ASSUME NEW S, NEW q \in Seq(S), q # << >>, NEW u
  PROVE  /\ InTurn(q, u) => InTurn(Tail(q), u)
         /\ NoneBehind(q, u) => NoneBehind(Tail(q), u)
<1> DEFINE p == Tail(q)
           n == Len(q)
           f == [i \in 1..n |-> i + 1]
<1>1. n \in Nat /\ DOMAIN q = 1..n /\ DOMAIN p = 1..(n - 1)
  OBVIOUS
<1>2. \A i \in 1..(n - 1) : p[i] = q[i + 1]
  OBVIOUS
<1> HIDE DEF p, n
<1>3. DOMAIN p \subseteq Nat
  BY <1>1
<1>4. \A i \in DOMAIN p : f[i] = i + 1 /\ f[i] \in DOMAIN q /\ q[f[i]] = p[i]
  BY <1>1, <1>2
<1>5. \A i, j \in DOMAIN p : i < j => f[i] < f[j]
  BY <1>1, <1>4
<1> HIDE DEF f
<1>6. (InTurn(q, u) => InTurn(p, u)) /\ (NoneBehind(q, u) => NoneBehind(p, u))
  <2>1. \A i \in DOMAIN p : p[i].guid = u => f[i] \in DOMAIN q /\ q[f[i]] = p[i]
    BY <1>4
  <2>2. \A i, j \in DOMAIN p : i < j /\ p[i].guid = u /\ p[j].guid = u => f[i] < f[j]
    BY <1>5
  <2>3. QED
    BY <1>3, <2>1, <2>2, Thinned
<1>7. QED
  BY <1>6 DEF p

\* An answer at the end of the queue.
LEMMA LoadAtEnd ==
  ASSUME NEW S, NEW q \in Seq(S), NEW m, m.type = "load", NEW u
  PROVE  /\ InTurn(q, u) => InTurn(Append(q, m), u)
         /\ NoneBehind(q, u) => NoneBehind(Append(q, m), u)
<1> DEFINE p == Append(q, m)
           n == Len(q)
<1>1. n \in Nat /\ DOMAIN q = 1..n /\ DOMAIN p = 1..(n + 1)
  OBVIOUS
<1>2. p[n + 1] = m /\ \A i \in 1..n : p[i] = q[i]
  OBVIOUS
<1>3. ~Asks(m, u)
  BY DEF Asks
<1> HIDE DEF p, n
<1>4. ASSUME NEW i \in DOMAIN p, NEW j \in DOMAIN p, i < j, Asks(p[j], u)
      PROVE  i \in DOMAIN q /\ j \in DOMAIN q /\ p[i] = q[i] /\ p[j] = q[j]
  <2>1. j # n + 1
    BY <1>2, <1>3, <1>4
  <2>2. i \in 1..n /\ j \in 1..n
    BY <1>1, <1>4, <2>1
  <2>3. QED
    BY <1>1, <1>2, <2>2
<1>5. InTurn(q, u) => InTurn(p, u)
  BY <1>4 DEF InTurn
<1>6. NoneBehind(q, u) => NoneBehind(p, u)
  BY <1>4 DEF NoneBehind
<1>7. QED
  BY <1>5, <1>6 DEF p

\* What u had put off goes in front of what has come since.
LEMMA PutBack ==
  ASSUME NEW S, NEW l \in Seq(S), l # << >>, NEW r \in Seq(S), NEW d \in Seq(S), NEW u, PutOff(d, u)
  PROVE  /\ \A v : v # u =>
              /\ InTurn(l \o r, v) => InTurn(Tail(l) \o (d \o r), v)
              /\ NoneBehind(l \o r, v) => NoneBehind(Tail(l) \o (d \o r), v)
         /\ Head(l).type = "load" /\ Head(l).guid = u /\ NoneBehind(l \o r, u)
              => InTurn(Tail(l) \o (d \o r), u)
<1> DEFINE a == Len(l)
           b == Len(d)
           c == Len(r)
           q == l \o r
           p == Tail(l) \o (d \o r)
           f == [i \in 1..(a - 1 + b + c) |-> IF i < a THEN i + 1 ELSE i - b + 1]
<1>1. a \in Nat /\ a >= 1 /\ b \in Nat /\ c \in Nat
  BY EmptySeq
<1>2. DOMAIN q = 1..(a + c) /\ \A i \in 1..(a + c) : q[i] = IF i <= a THEN l[i] ELSE r[i - a]
  BY ConcatProperties, LenProperties
<1>3. Tail(l) \in Seq(S) /\ Len(Tail(l)) = a - 1 /\ \A i \in 1..(a - 1) : Tail(l)[i] = l[i + 1]
  BY HeadTailProperties
<1> DEFINE t == Tail(l)
           e == d \o r
<1>4. e \in Seq(S) /\ Len(e) = b + c /\ \A i \in 1..(b + c) : e[i] = IF i <= b THEN d[i] ELSE r[i - b]
  BY ConcatProperties
<1>5. DOMAIN p = 1..(a - 1 + b + c)
      /\ \A i \in 1..(a - 1 + (b + c)) : p[i] = IF i <= a - 1 THEN t[i] ELSE e[i - (a - 1)]
  <2>0. t \in Seq(S) /\ e \in Seq(S) /\ Len(t) = a - 1 /\ Len(e) = b + c
    BY <1>3, <1>4
  <2> HIDE DEF t, e, a, b, c
  <2>5. t \o e \in Seq(S) /\ Len(t \o e) = Len(t) + Len(e)
        /\ \A i \in 1..(Len(t) + Len(e)) : (t \o e)[i] = IF i <= Len(t) THEN t[i] ELSE e[i - Len(t)]
    BY <2>0, ConcatProperties
  <2>1. t \o e \in Seq(S) /\ Len(t \o e) = (a - 1) + (b + c)
        /\ \A i \in 1..((a - 1) + (b + c)) : (t \o e)[i] = IF i <= a - 1 THEN t[i] ELSE e[i - (a - 1)]
    BY <2>0, <2>5
  <2>2. DOMAIN (t \o e) = 1..((a - 1) + (b + c))
    BY <2>1, LenProperties
  <2>3. (a - 1) + (b + c) = a - 1 + b + c
    BY <1>1
  <2>4. QED
    BY <2>1, <2>2, <2>3 DEF t, e
<1> HIDE DEF a, b, c, p, q
<1>6. \A i \in 1..(a - 1) : p[i] = q[i + 1] /\ i + 1 \in 1..(a + c)
  <2> SUFFICES ASSUME NEW i \in 1..(a - 1)
               PROVE  p[i] = q[i + 1] /\ i + 1 \in 1..(a + c)
    OBVIOUS
  <2>1. i \in 1..(a - 1 + (b + c)) /\ i <= a - 1 /\ i + 1 \in 1..(a + c) /\ i + 1 <= a
    BY <1>1
  <2>2. p[i] = t[i] /\ q[i + 1] = l[i + 1]
    BY <2>1, <1>2, <1>5
  <2>3. QED
    BY <2>1, <2>2, <1>3
<1>7. \A i \in a..(a - 1 + b) : p[i] = d[i - (a - 1)] /\ i - (a - 1) \in 1..b
  <2> SUFFICES ASSUME NEW i \in a..(a - 1 + b)
               PROVE  p[i] = d[i - (a - 1)] /\ i - (a - 1) \in 1..b
    OBVIOUS
  <2>1. i \in 1..(a - 1 + (b + c)) /\ ~(i <= a - 1) /\ i - (a - 1) \in 1..b
    BY <1>1
  <2>2. i - (a - 1) \in 1..(b + c) /\ i - (a - 1) <= b
    BY <1>1, <2>1
  <2>3. p[i] = e[i - (a - 1)]
    BY <2>1, <1>5
  <2>4. e[i - (a - 1)] = d[i - (a - 1)]
    BY <2>2, <1>4
  <2>5. QED
    BY <2>1, <2>3, <2>4
<1>8. \A i \in (a + b)..(a - 1 + b + c) : p[i] = q[i - b + 1] /\ i - b + 1 \in 1..(a + c)
  <2> SUFFICES ASSUME NEW i \in (a + b)..(a - 1 + b + c)
               PROVE  p[i] = q[i - b + 1] /\ i - b + 1 \in 1..(a + c)
    OBVIOUS
  <2>1. i \in 1..(a - 1 + (b + c)) /\ ~(i <= a - 1) /\ i - b + 1 \in 1..(a + c) /\ ~(i - b + 1 <= a)
    BY <1>1
  <2>2. i - (a - 1) \in 1..(b + c) /\ ~(i - (a - 1) <= b) /\ i - (a - 1) - b = i - b + 1 - a
    BY <1>1
  <2>6. p[i] = e[i - (a - 1)]
    BY <2>1, <1>5
  <2>7. q[i - b + 1] = r[i - b + 1 - a]
    <3>1. i \in Int /\ i - b + 1 \in Int /\ i - b + 1 \in 1..(a + c) /\ ~(i - b + 1 <= a)
      BY <1>1, <2>1
    <3>2. QED
      BY <1>1, <1>2, <3>1
  <2>3. p[i] = e[i - (a - 1)] /\ q[i - b + 1] = r[i - b + 1 - a]
    BY <2>6, <2>7
  <2>4. e[i - (a - 1)] = r[i - (a - 1) - b]
    BY <2>2, <1>4
  <2>5. QED
    BY <2>1, <2>2, <2>3, <2>4
<1>9. ASSUME NEW v, v # u
      PROVE  /\ InTurn(q, v) => InTurn(p, v)
             /\ NoneBehind(q, v) => NoneBehind(p, v)
  <2>1. ASSUME NEW i \in DOMAIN p, p[i].guid = v
        PROVE  i \in 1..(a - 1) \/ i \in (a + b)..(a - 1 + b + c)
    <3>1. i \notin a..(a - 1 + b)
      <4> SUFFICES ASSUME i \in a..(a - 1 + b)
                   PROVE  FALSE
        OBVIOUS
      <4>1. i - (a - 1) \in 1..b /\ p[i] = d[i - (a - 1)]
        BY <1>7
      <4>2. 1..b = DOMAIN d
        BY DEF b
      <4>3. p[i].guid = u
        BY <4>1, <4>2 DEF PutOff
      <4>4. QED
        BY <1>9, <2>1, <4>3
    <3>2. QED
      BY <1>1, <1>5, <3>1
  <2>2. ASSUME NEW i \in DOMAIN p, p[i].guid = v
        PROVE  f[i] \in DOMAIN q /\ q[f[i]] = p[i]
    <3>1. i \in 1..(a - 1 + b + c)
      BY <1>5
    <3>2. CASE i \in 1..(a - 1)
      <4>1. f[i] = i + 1
        BY <1>1, <3>1, <3>2
      <4>2. QED
        BY <1>2, <1>6, <3>2, <4>1
    <3>3. CASE i \in (a + b)..(a - 1 + b + c)
      <4>1. f[i] = i - b + 1
        BY <1>1, <3>1, <3>3
      <4>2. QED
        BY <1>2, <1>8, <3>3, <4>1
    <3>4. QED
      BY <2>1, <2>2, <3>2, <3>3
  <2>3. ASSUME NEW i \in DOMAIN p, NEW j \in DOMAIN p, i < j, p[i].guid = v, p[j].guid = v
        PROVE  f[i] < f[j]
    <3>1. i \in 1..(a - 1 + b + c) /\ j \in 1..(a - 1 + b + c)
      BY <1>5
    <3>2. (i < a \/ i >= a + b) /\ (j < a \/ j >= a + b)
      <4>1. i \in 1..(a - 1) \/ i \in (a + b)..(a - 1 + b + c)
        BY <2>1, <2>3
      <4>2. j \in 1..(a - 1) \/ j \in (a + b)..(a - 1 + b + c)
        BY <2>1, <2>3
      <4>3. QED
        BY <1>1, <4>1, <4>2
    <3>3. f[i] = (IF i < a THEN i + 1 ELSE i - b + 1) /\ f[j] = (IF j < a THEN j + 1 ELSE j - b + 1)
      BY <3>1
    <3> HIDE DEF f
    <3>4. QED
      BY <1>1, <2>3, <3>1, <3>2, <3>3
  <2>4. DOMAIN p \subseteq Nat
    BY <1>1, <1>5
  <2> HIDE DEF f
  <2>5. QED
    BY <2>2, <2>3, <2>4, Thinned
<1>10. ASSUME Head(l).type = "load", Head(l).guid = u, NoneBehind(q, u)
       PROVE  InTurn(p, u)
  <2>1. 1 \in DOMAIN q /\ q[1] = Head(l)
    <3>1. 1 \in 1..(a + c) /\ 1 <= a
      BY <1>1
    <3>2. QED
      BY <3>1, <1>2
  <2>2. ASSUME NEW k \in 1..(a + c), k > 1
        PROVE  ~Asks(q[k], u)
    BY <1>2, <1>10, <2>1, <2>2 DEF NoneBehind
  <2>3. ASSUME NEW i \in DOMAIN p, Asks(p[i], u)
        PROVE  i \in a..(a - 1 + b)
    <3>1. i \in 1..(a - 1) \/ i \in a..(a - 1 + b) \/ i \in (a + b)..(a - 1 + b + c)
      BY <1>1, <1>5
    <3>2. ASSUME i \in 1..(a - 1)
          PROVE  FALSE
      <4>1. p[i] = q[i + 1] /\ i + 1 \in 1..(a + c) /\ i + 1 > 1
        BY <1>1, <1>6, <3>2
      <4>2. QED
        BY <2>2, <2>3, <4>1
    <3>3. ASSUME i \in (a + b)..(a - 1 + b + c)
          PROVE  FALSE
      <4>1. p[i] = q[i - b + 1] /\ i - b + 1 \in 1..(a + c) /\ i - b + 1 > 1
        BY <1>1, <1>8, <3>3
      <4>2. QED
        BY <2>2, <2>3, <4>1
    <3>4. QED
      BY <3>1, <3>2, <3>3
  <2>4. ASSUME NEW i \in DOMAIN p, NEW j \in DOMAIN p, i < j, Asks(p[i], u), Asks(p[j], u)
        PROVE  p[i].nr < p[j].nr
    <3>1. i \in a..(a - 1 + b) /\ j \in a..(a - 1 + b)
      BY <2>3, <2>4
    <3>2. /\ p[i] = d[i - (a - 1)] /\ i - (a - 1) \in 1..b
          /\ p[j] = d[j - (a - 1)] /\ j - (a - 1) \in 1..b
      BY <1>7, <3>1
    <3>3. i - (a - 1) < j - (a - 1)
      BY <1>1, <2>4, <3>1
    <3>4. 1..b = DOMAIN d
      BY DEF b
    <3>5. QED
      BY <3>2, <3>3, <3>4 DEF PutOff
  <2>5. QED
    BY <2>4 DEF InTurn
<1>11. QED
  BY <1>9, <1>10 DEF p, q

InTheirTurn(u) ==
  /\ PutOff(defer_map[u], u)
  /\ u \notin overtaken => InTurn(queue, u) /\ (~Present(u) => NoneBehind(queue, u))

LEMMA TurnsIs == Turns <=> \A u \in Users : InTheirTurn(u)
BY DEF Turns, InTheirTurn

LEMMA AllInTurn ==
  ASSUME \A u \in Users : InTheirTurn(u)'
  PROVE  Turns'
BY DEF Turns, InTheirTurn

LEMMA QueueTypes ==
  ASSUME TypeOK
  PROVE  /\ list \in Seq(Request \cup Loaded) /\ msg_list \in Seq(Request \cup Loaded)
         /\ queue \in Seq(Request \cup Loaded)
         /\ list # << >> => queue # << >> /\ Head(queue) = Head(list) /\ Tail(queue) = Tail(list) \o msg_list
         /\ \A m : queue \o <<m>> = list \o (msg_list \o <<m>>)
<1>1. list \in Seq(Request \cup Loaded) /\ msg_list \in Seq(Request \cup Loaded)
  BY DEF TypeOK
<1>2. QED
  BY <1>1 DEF queue

\* What the steps that leave the order of the messages alone keep.
LEMMA StillInTurn ==
  ASSUME NEW u, InTheirTurn(u), PutOff(defer_map'[u], u),
         u \in overtaken => u \in overtaken',
         u \notin overtaken' => (Present(u) => Present(u)') \/ NoneBehind(queue', u),
         InTurn(queue, u) => InTurn(queue', u),
         NoneBehind(queue, u) => NoneBehind(queue', u)
  PROVE  InTheirTurn(u)'
<1>1. u \notin overtaken' => InTurn(queue', u) /\ (~Present(u)' => NoneBehind(queue', u))
  BY DEF InTheirTurn
<1>2. QED
  BY <1>1 DEF InTheirTurn

LEMMA HandleInTurn ==
  ASSUME TypeOK, Turns, NEW type \in {"login", "off"}, NEW u \in Users, Handle(type, u), overtaken' = overtaken,
         \A v : (InTurn(queue, v) => InTurn(queue', v)) /\ (NoneBehind(queue, v) => NoneBehind(queue', v))
  PROVE  Turns'
<1>1. DOMAIN user_map' = DOMAIN user_map
  BY DEF Handle, Defer, Serve
<1>2. defer_map \in [Users -> Seq(Request)] /\ defer_map[u] \in Seq(Request)
  BY DEF TypeOK
<1> DEFINE d == defer_map[u]
           n == Len(d)
           x == [type |-> type, guid |-> u, nr |-> Serial(u)]
<1>3. defer_map' = defer_map \/ defer_map' = [defer_map EXCEPT ![u] = Append(d, x)]
  BY DEF Handle, Defer, Serve
<1>4. PutOff(d, u)
  BY DEF Turns
<1>5. PutOff(Append(d, x), u)
  <2>1. n \in Nat /\ DOMAIN d = 1..n /\ DOMAIN Append(d, x) = 1..(n + 1) /\ Append(d, x)[n + 1] = x
        /\ \A k \in 1..n : Append(d, x)[k] = d[k]
    BY <1>2
  <2>2. \A k \in 1..n : d[k].nr < Serial(u)
    <3> SUFFICES ASSUME NEW k \in 1..n
                 PROVE  d[k].nr < Serial(u)
      OBVIOUS
    <3>1. d[k] \in Waiting(u)
      BY <2>1 DEF Waiting, ToSet
    <3>2. QED
      BY <3>1, SerialAbove
  <2>3. x.guid = u /\ x.nr = Serial(u)
    OBVIOUS
  <2> DEFINE e == Append(d, x)
  <2> HIDE DEF d, n, x, e
  <2>4. \A k \in 1..(n + 1) : k \in 1..n \/ k = n + 1
    BY <2>1
  <2>5. \A k \in DOMAIN e : e[k].guid = u
    BY <2>1, <2>3, <2>4, <1>4 DEF PutOff, e
  <2>6. ASSUME NEW j \in DOMAIN e, NEW k \in DOMAIN e, j < k
        PROVE  e[j].nr < e[k].nr
    <3>1. j \in 1..n
      BY <2>1, <2>6 DEF e
    <3>2. CASE k \in 1..n
      BY <2>1, <2>6, <3>1, <3>2, <1>4 DEF PutOff, e
    <3>3. CASE k = n + 1
      BY <2>1, <2>2, <2>3, <3>1, <3>3 DEF e
    <3>4. QED
      BY <2>1, <2>4, <3>2, <3>3 DEF e
  <2>7. QED
    BY <2>5, <2>6 DEF PutOff, e
<1> HIDE DEF d, x
<1>6. \A v \in Users : PutOff(defer_map'[v], v)
  BY <1>2, <1>3, <1>4, <1>5 DEF Turns, d
<1>7. ASSUME NEW v \in Users
      PROVE  InTheirTurn(v)'
  <2>1. InTheirTurn(v) /\ (Present(v) => Present(v)')
    BY <1>1, TurnsIs DEF Present
  <2>2. QED
    BY <1>6, <2>1, StillInTurn
<1>8. QED
  BY <1>7, AllInTurn

LEMMA LoadedInTurn ==
  ASSUME TypeOK, Turns, PRSystemUserLoad
  PROVE  Turns'
<1> DEFINE m == Head(list)
           u == m.guid
           d == defer_map[u]
<1>1. list # << >> /\ list' = Tail(list) /\ m.type = "load" /\ overtaken' = overtaken
  BY DEF PRSystemUserLoad
<1>2. u \in Users
  BY <1>1, HeadTypes
<1>3. list \in Seq(Request \cup Loaded) /\ msg_list \in Seq(Request \cup Loaded) /\ queue = list \o msg_list
  BY DEF TypeOK, queue
<1>4. defer_map \in [Users -> Seq(Request)] /\ d \in Seq(Request \cup Loaded)
  BY <1>2 DEF TypeOK
<1>5. PutOff(d, u) /\ \A v \in Users : PutOff(defer_map[v], v)
  BY <1>2 DEF Turns
<1> HIDE DEF m
<1>6. CASE Present(u)
  <2>1. msg_list' = msg_list /\ defer_map' = defer_map /\ DOMAIN user_map' = DOMAIN user_map
    BY <1>6 DEF PRSystemUserLoad, m
  <2>2. queue' = Tail(queue) /\ queue # << >> /\ queue \in Seq(Request \cup Loaded)
    BY <1>1, <2>1, QueueTypes DEF queue
  <2>3. ASSUME NEW v \in Users
        PROVE  InTheirTurn(v)'
    <3>1. (InTurn(queue, v) => InTurn(queue', v)) /\ (NoneBehind(queue, v) => NoneBehind(queue', v))
      BY <2>2, ThinnedTail
    <3>2. InTheirTurn(v) /\ (Present(v) => Present(v)') /\ PutOff(defer_map'[v], v)
      BY <1>5, <2>1, TurnsIs DEF Present
    <3>3. QED
      BY <1>1, <3>1, <3>2, StillInTurn
  <2>4. QED
    BY <2>3, AllInTurn
<1>7. CASE ~Present(u)
  <2>1. /\ msg_list' = d \o msg_list /\ defer_map' = [defer_map EXCEPT ![u] = << >>]
        /\ DOMAIN user_map' = {u} \cup DOMAIN user_map
    BY <1>7 DEF PRSystemUserLoad, dispatch_defer, m
  <2>2. queue' = Tail(list) \o (d \o msg_list)
    BY <1>1, <2>1 DEF queue
  <2> HIDE DEF d
  <2>3. \A v : v # u => /\ InTurn(queue, v) => InTurn(queue', v)
                        /\ NoneBehind(queue, v) => NoneBehind(queue', v)
    BY <1>1, <1>3, <1>4, <1>5, <2>2, PutBack
  <2>4. NoneBehind(queue, u) => InTurn(queue', u)
    <3>1. m.type = "load" /\ m.guid = u
      BY <1>1
    <3> HIDE DEF u
    <3>2. QED
      BY <1>1, <1>3, <1>4, <1>5, <2>2, <3>1, PutBack DEF m
  <2> HIDE DEF u
  <2>5. ASSUME NEW v \in Users, v # u
        PROVE  InTheirTurn(v)'
    <3>1. InTheirTurn(v) /\ (Present(v) => Present(v)')
      BY <2>1, TurnsIs DEF Present
    <3>2. PutOff(defer_map'[v], v)
      BY <1>4, <1>5, <2>1, <2>5
    <3>3. QED
      BY <1>1, <2>3, <2>5, <3>1, <3>2, StillInTurn
  <2>6. ASSUME NEW v \in Users, v = u
        PROVE  InTheirTurn(v)'
    <3>1. Present(v)'
      BY <2>1, <2>6 DEF Present
    <3>2. defer_map'[v] = << >>
      BY <1>2, <1>4, <2>1, <2>6
    <3>3. PutOff(defer_map'[v], v)
      BY <3>2 DEF PutOff
    <3>4. u \notin overtaken => NoneBehind(queue, u)
      BY <1>2, <1>7 DEF Turns
    <3>5. v \notin overtaken' => InTurn(queue', v)
      BY <1>1, <2>4, <2>6, <3>4
    <3>6. QED
      BY <3>1, <3>3, <3>5 DEF InTheirTurn
  <2>7. \A v \in Users : InTheirTurn(v)'
    BY <2>5, <2>6
  <2>8. QED
    BY <2>7, AllInTurn
<1>8. QED
  BY <1>6, <1>7

LEMMA DropInTurn ==
  ASSUME TypeOK, Turns, NEW u \in Users, user_defer_timeout_check(u) \/ quit_force(u)
  PROVE  Turns'
<1>1. queue' = queue /\ cdb' = cdb /\ copy_list' = copy_list
  BY DEF user_defer_timeout_check, quit_force, others, queue
<1>2. defer_map \in [Users -> Seq(Request)] /\ defer_map[u] \in Seq(Request) /\ PutOff(defer_map[u], u)
  BY DEF TypeOK, Turns
<1>3. /\ \A v \in Users \ {u} : defer_map'[v] = defer_map[v]
      /\ PutOff(defer_map'[u], u)
  <2>1. CASE quit_force(u)
    <3>1. defer_map' = [defer_map EXCEPT ![u] = << >>]
      BY <2>1 DEF quit_force
    <3>2. QED
      BY <1>2, <3>1 DEF PutOff
  <2>2. CASE user_defer_timeout_check(u)
    <3> DEFINE d == defer_map[u]
    <3>1. PICK n \in DOMAIN d : defer_map' = [defer_map EXCEPT ![u] = SubSeq(d, n + 1, Len(d))]
      BY <2>2 DEF user_defer_timeout_check
    <3> DEFINE e == SubSeq(d, n + 1, Len(d))
    <3>2. n \in 1..Len(d) /\ Len(d) \in Nat /\ DOMAIN d = 1..Len(d)
      BY <1>2
    <3>3. DOMAIN e = 1..(Len(d) - n) /\ \A k \in 1..(Len(d) - n) : e[k] = d[n + k]
      BY <1>2, <3>2
    <3>4. defer_map'[u] = e /\ \A v \in Users \ {u} : defer_map'[v] = defer_map[v]
      BY <1>2, <3>1
    <3>5. PutOff(d, u)
      BY <1>2
    <3> HIDE DEF d, e
    <3>6. \A k \in DOMAIN e : n + k \in DOMAIN d
      BY <3>2, <3>3
    <3>7. \A k \in DOMAIN e : e[k].guid = u
      BY <3>3, <3>5, <3>6 DEF PutOff
    <3>8. ASSUME NEW j \in DOMAIN e, NEW k \in DOMAIN e, j < k
          PROVE  e[j].nr < e[k].nr
      <4>1. n + j < n + k /\ n + j \in DOMAIN d /\ n + k \in DOMAIN d
        BY <3>2, <3>3, <3>8
      <4>2. e[j] = d[n + j] /\ e[k] = d[n + k]
        BY <3>3, <3>8
      <4>3. QED
        BY <4>1, <4>2, <3>5 DEF PutOff
    <3>9. PutOff(e, u)
      BY <3>7, <3>8 DEF PutOff
    <3>10. QED
      BY <3>4, <3>9
  <2>3. QED
    BY <2>1, <2>2
<1>4. ASSUME NEW v \in Users, v # u
      PROVE  InTheirTurn(v)'
  <2>1. Present(v) => Present(v)'
    BY <1>4 DEF user_defer_timeout_check, quit_force, Present
  <2>2. v \in overtaken => v \in overtaken'
    BY DEF user_defer_timeout_check, quit_force
  <2>3. PutOff(defer_map'[v], v) /\ InTheirTurn(v)
    BY <1>3, <1>4, TurnsIs DEF Turns
  <2>4. QED
    BY <1>1, <2>1, <2>2, <2>3, StillInTurn
<1>5. InTheirTurn(u)'
  <2>1. InTheirTurn(u)
    BY TurnsIs
  <2>2. CASE user_defer_timeout_check(u)
    <3>1. (Present(u) => Present(u)') /\ overtaken' = overtaken
      BY <2>2 DEF user_defer_timeout_check, Present
    <3>2. QED
      BY <1>1, <1>3, <2>1, <3>1, StillInTurn
  <2>3. CASE quit_force(u)
    <3>1. overtaken' = IF UnderWay(u) THEN overtaken \cup {u} ELSE overtaken
      BY <2>3 DEF quit_force
    <3>2. ~UnderWay(u) => NoneBehind(queue, u)
      BY DEF UnderWay, NoneBehind, ToSet
    <3>3. u \notin overtaken' => NoneBehind(queue', u)
      BY <1>1, <3>1, <3>2
    <3>4. u \in overtaken => u \in overtaken'
      BY <3>1
    <3>5. QED
      BY <1>1, <1>3, <2>1, <3>3, <3>4, StillInTurn
  <2>4. QED
    BY <2>2, <2>3
<1>6. QED
  BY <1>4, <1>5, AllInTurn

LEMMA TurnsKept ==
  ASSUME TypeOK, Turns, [Next]_vars
  PROVE  Turns'
<1>1. \A v \in Users : InTheirTurn(v) /\ PutOff(defer_map[v], v)
  BY TurnsIs DEF Turns
<1>2. ASSUME NEW u \in Users, NEW type \in {"login", "off"}, Arrive(type, u)
      PROVE  Turns'
  <2>1. Handle(type, u) /\ queue' = queue /\ overtaken' = overtaken
    BY <1>2 DEF Arrive, quiet, queue
  <2>2. QED
    BY <2>1, HandleInTurn
<1>3. CASE RunRequest
  <2>1. /\ Handle(Head(list).type, Head(list).guid) /\ overtaken' = overtaken
        /\ list # << >> /\ Head(list).type # "load" /\ list' = Tail(list) /\ msg_list' = msg_list
    BY <1>3 DEF RunRequest, quiet
  <2>2. Head(list).guid \in Users /\ Head(list).type \in {"login", "off"}
    BY <2>1, HeadTypes
  <2>3. queue' = Tail(queue) /\ queue # << >> /\ queue \in Seq(Request \cup Loaded)
    BY <2>1, QueueTypes DEF queue
  <2>4. \A v : (InTurn(queue, v) => InTurn(queue', v)) /\ (NoneBehind(queue, v) => NoneBehind(queue', v))
    BY <2>3, ThinnedTail
  <2>5. QED
    BY <2>1, <2>2, <2>4, HandleInTurn
<1>4. CASE load_to_msg
  <2>1. /\ UNCHANGED <<list, overtaken, defer_map, user_map>>
        /\ \/ msg_list' = msg_list
           \/ \E m : m.type = "load" /\ msg_list' = Append(msg_list, m)
    BY <1>4 DEF load_to_msg, unmoved
  <2>2. ASSUME NEW v
        PROVE  (InTurn(queue, v) => InTurn(queue', v)) /\ (NoneBehind(queue, v) => NoneBehind(queue', v))
    <3>1. CASE msg_list' = msg_list
      BY <2>1, <3>1 DEF queue
    <3>2. ASSUME NEW m, m.type = "load", msg_list' = Append(msg_list, m)
          PROVE  (InTurn(queue, v) => InTurn(queue', v)) /\ (NoneBehind(queue, v) => NoneBehind(queue', v))
      <4>1. queue \in Seq(Request \cup Loaded)
        BY QueueTypes
      <4>2. queue' = Append(queue, m)
        <5>1. list \in Seq(Request \cup Loaded) /\ msg_list \in Seq(Request \cup Loaded)
          BY DEF TypeOK
        <5>2. list \o Append(msg_list, m) = Append(list \o msg_list, m)
          BY <5>1
        <5>3. QED
          BY <2>1, <3>2, <5>2 DEF queue
      <4>3. QED
        BY <4>1, <4>2, <3>2, LoadAtEnd
    <3>3. QED
      BY <2>1, <3>1, <3>2
  <2>3. ASSUME NEW v \in Users
        PROVE  InTheirTurn(v)'
    <3>1. InTheirTurn(v) /\ PutOff(defer_map'[v], v) /\ (Present(v) => Present(v)')
      BY <1>1, <2>1 DEF Present
    <3>2. QED
      BY <2>1, <2>2, <3>1, StillInTurn
  <2>4. QED
    BY <2>3, AllInTurn
<1>5. CASE Reload \/ EndThread \/ Restart
  <2>1. defer_map' = [v \in Users |-> << >>]
    BY <1>5 DEF Reload, EndThread, Restart
  <2>2. \A v \in Users : PutOff(defer_map'[v], v)
    BY <2>1 DEF PutOff
  <2>3. CASE Reload
    <3>1. UNCHANGED <<list, msg_list, user_map, overtaken>>
      BY <2>3 DEF Reload, others
    <3>2. ASSUME NEW v \in Users
          PROVE  InTheirTurn(v)'
      <4>1. queue' = queue /\ InTheirTurn(v) /\ (Present(v) => Present(v)')
        BY <1>1, <3>1 DEF Present, queue
      <4>2. QED
        BY <2>2, <3>1, <4>1, StillInTurn
    <3>3. QED
      BY <3>2, AllInTurn
  <2>4. CASE EndThread \/ Restart
    <3>1. list' = << >> /\ msg_list' = << >>
      BY <2>4 DEF EndThread, Restart, others
    <3>2. queue' = << >>
      BY <3>1 DEF queue
    <3>3. \A v : InTurn(queue', v) /\ NoneBehind(queue', v)
      BY <3>2 DEF InTurn, NoneBehind
    <3>4. \A v \in Users : InTheirTurn(v)'
      BY <2>2, <3>3 DEF InTheirTurn
    <3>5. QED
      BY <3>4, AllInTurn
  <2>5. QED
    BY <1>5, <2>3, <2>4
<1>6. ASSUME \/ Swap \/ user_save_timer \/ PRServerClose \/ EndDB \/ do_load_event
             \/ do_save_event \/ save_to_db \/ ConnectionLost \/ Tick \/ UNCHANGED vars
      PROVE  Turns'
  <2>1. queue' = queue
    <3>1. CASE Swap
      BY <3>1, ConcatEmptySeq DEF Swap, queue, TypeOK
    <3>2. CASE ~Swap
      BY <1>6, <3>2 DEF user_save_timer, PRServerClose, EndDB, do_load_event, do_save_event, save_to_db,
           ConnectionLost, Tick, vars, logic, others, unmoved, queue
    <3>3. QED
      BY <3>1, <3>2
  <2>2. defer_map' = defer_map /\ overtaken' = overtaken /\ DOMAIN user_map' = DOMAIN user_map
    BY <1>6 DEF Swap, quiet, user_save_timer, PRServerClose, save, EndDB, do_load_event, do_save_event, save_to_db,
         ConnectionLost, Tick, vars, logic, others, unmoved
  <2>3. ASSUME NEW v \in Users
        PROVE  InTheirTurn(v)'
    <3>1. InTheirTurn(v) /\ PutOff(defer_map'[v], v) /\ (Present(v) => Present(v)')
      BY <1>1, <2>2 DEF Present
    <3>2. QED
      BY <2>1, <2>2, <3>1, StillInTurn
  <2>4. QED
    BY <2>3, AllInTurn
<1>7. QED
  BY <1>2, <1>3, <1>4, <1>5, <1>6, LoadedInTurn, DropInTurn DEF Next

\* A request put off waits only while its user is missing, and then its load
\* is asked for, under way or answered, or was refused and gets no answer; a
\* login waits for a load that may create the user.  The requests of a user
\* stand in the queue in the order they were put off.
THEOREM RequestsInOrder == Spec => []Deferred
<1>1. Init => TypeOK /\ NoneStranded /\ Turns
  <2> SUFFICES ASSUME Init PROVE NoneStranded /\ Turns
    BY UserTypesAtFirst
  <2>1. queue = << >> /\ \A u \in Users : defer_map[u] = << >>
    BY DEF Init, queue
  <2>2. QED
    BY <2>1 DEF NoneStranded, Turns, PutOff, InTurn, NoneBehind
<1>2. TypeOK /\ NoneStranded /\ Turns /\ [Next]_vars => (TypeOK /\ NoneStranded /\ Turns)'
  BY TypesKept, NoneStrandedKept, TurnsKept
<1>3. NoneStranded /\ Turns => Deferred
  BY DEF Deferred, InOrder, Turns, InTurn
<1>4. QED
  BY <1>1, <1>2, <1>3, PTL DEF Spec

-----------------------------------------------------------------------------
(* The data of the users: what is in memory, on its way and in the tables. *)

\* What CDB is going to write, in order.
pending == (IF cdb = "saving" THEN copy_list ELSE << >>) \o save_list

\* A save loses nothing of old that is not given up.
Overwrites(s, old, gone) == \A c \in old : c.part \in s.parts => c \in s.data \cup gone

\* Of the changes w, t of u in its tables (before and after the commit) and in
\* the saves p only those given up (f) are lost by the saves to come.
Written(u, p, w, t, f) ==
  /\ t \ w \subseteq f
  /\ \A k \in DOMAIN p : p[k].guid = u => Overwrites(p[k], w \cup t, f)
  /\ \A j, k \in DOMAIN p : j < k /\ p[j].guid = u /\ p[k].guid = u => Overwrites(p[k], p[j].data, {})

\* The user x in memory has all that is written or to be written, and all it
\* has that it takes for saved is.
InMemory(x, u, p, w, t, f) ==
  /\ w \cup t \subseteq x.data \cup f
  /\ \A k \in DOMAIN p : p[k].guid = u => p[k].data \subseteq x.data
  /\ \A c \in x.data : \/ c.part \in Changed(x) \/ c \in w \cup f
                       \/ \E k \in DOMAIN p : p[k].guid = u /\ c \in p[k].data

Nothing(u, p) == \A k \in DOMAIN p : p[k].guid # u

\* The answers to loads of u among the messages q have what is written.
OnItsWay(u, q, w, t, f) ==
  \A m \in q : m.type = "load" /\ m.guid = u => m.data \subseteq w \cup f /\ w \cup t \subseteq m.data \cup f

Whole(u) ==
  /\ Written(u, pending, work[u], table[u], forgone[u])
  /\ Present(u) => InMemory(user_map[u], u, pending, work[u], table[u], forgone[u])
  /\ ~Present(u) => /\ UnderWay(u) => Nothing(u, pending)
                    /\ OnItsWay(u, ToSet(queue), work[u], table[u], forgone[u])

Sane ==
  /\ \A u \in DOMAIN user_map : user_map[u].check \subseteq user_map[u].data
  /\ \A u \in Users : work[u] \ table[u] \subseteq forgone[u]
  /\ ~Alive => DOMAIN user_map = {}

Main == Alive => \A u \in Users \ overtaken : Whole(u)

\* More may be given up.
LEMMA MoreForgone ==
  ASSUME NEW u, NEW p, NEW w, NEW t, NEW f, NEW g, f \subseteq g
  PROVE  /\ Written(u, p, w, t, f) => Written(u, p, w, t, g)
         /\ \A x : InMemory(x, u, p, w, t, f) => InMemory(x, u, p, w, t, g)
         /\ \A q : OnItsWay(u, q, w, t, f) => OnItsWay(u, q, w, t, g)
<1>1. Written(u, p, w, t, f) => Written(u, p, w, t, g)
  BY DEF Written, Overwrites
<1>2. \A x : InMemory(x, u, p, w, t, f) => InMemory(x, u, p, w, t, g)
  BY DEF InMemory
<1>3. \A q : OnItsWay(u, q, w, t, f) => OnItsWay(u, q, w, t, g)
  BY DEF OnItsWay
<1>4. QED
  BY <1>1, <1>2, <1>3

\* The first save is done.  The others are where they were, one place on.
LEMMA TailAt ==
  ASSUME NEW S, NEW p \in Seq(S), p # << >>
  PROVE  /\ 1 \in DOMAIN p /\ p[1] = Head(p)
         /\ \A k \in DOMAIN Tail(p) : k \in Nat /\ k + 1 \in DOMAIN p /\ 1 < k + 1 /\ Tail(p)[k] = p[k + 1]
         /\ \A k \in DOMAIN p : k # 1 => k - 1 \in DOMAIN Tail(p) /\ Tail(p)[k - 1] = p[k]
<1>1. Len(p) \in Nat /\ Len(p) >= 1 /\ DOMAIN p = 1..Len(p) /\ DOMAIN Tail(p) = 1..(Len(p) - 1) /\ p[1] = Head(p)
  BY EmptySeq
<1>2. \A k \in 1..(Len(p) - 1) : Tail(p)[k] = p[k + 1]
  OBVIOUS
<1> DEFINE t == Tail(p)
           n == Len(p)
<1> HIDE DEF t, n
<1>3. 1 \in DOMAIN p
  BY <1>1 DEF n
<1>4. \A k \in DOMAIN t : k \in Nat /\ k + 1 \in DOMAIN p /\ 1 < k + 1 /\ t[k] = p[k + 1]
  BY <1>1, <1>2 DEF t, n
<1>5. ASSUME NEW k \in DOMAIN p, k # 1
      PROVE  k - 1 \in DOMAIN t /\ t[k - 1] = p[k]
  <2>1. k \in 1..n /\ k - 1 \in 1..(n - 1)
    BY <1>1, <1>5 DEF n
  <2>2. t[k - 1] = p[k]
    <3>1. (k - 1) + 1 = k
      BY <2>1
    <3>2. t[k - 1] = p[(k - 1) + 1]
      BY <1>2, <2>1 DEF t, n
    <3>3. QED
      BY <3>1, <3>2
  <2>3. QED
    BY <1>1, <2>1, <2>2 DEF t, n
<1>6. QED
  <2>1. \A k \in DOMAIN p : k # 1 => k - 1 \in DOMAIN t /\ t[k - 1] = p[k]
    BY <1>5
  <2>2. QED
    BY <1>1, <1>3, <1>4, <2>1 DEF t

\* What the tables have of u when the parts of h are replaced.
Replaced(w, h) == {c \in w : c.part \notin h.parts} \cup h.data

\* The tables of u before and after a save s that failed.
Failed(s, w, t, v, y) ==
  \/ v = w /\ y = t
  \/ y = w /\ \E h : h.parts \subseteq s.parts /\ h.data \subseteq s.data /\ v = Replaced(w, h)

\* What of u was written, and had in memory, still is.
Carried(u, p, w, t, f, q, v, y, g) ==
  /\ Written(u, p, w, t, f) => Written(u, q, v, y, g)
  /\ \A x : InMemory(x, u, p, w, t, f) => InMemory(x, u, q, v, y, g)

LEMMA SavedDown ==
  ASSUME NEW S, NEW p \in Seq(S), p # << >>, NEW u, Head(p).guid = u, NEW w, NEW t, NEW f, NEW v, NEW g,
         v = Replaced(w, Head(p)), g = f \ Head(p).data,
         Written(u, p, w, t, f)
  PROVE  Carried(u, p, w, t, f, Tail(p), v, v, g)
<1> DEFINE s == Head(p)
           r == Tail(p)
<1>1. /\ 1 \in DOMAIN p /\ p[1] = s
      /\ \A k \in DOMAIN r : k \in Nat /\ k + 1 \in DOMAIN p /\ 1 < k + 1 /\ r[k] = p[k + 1]
      /\ \A k \in DOMAIN p : k # 1 => k - 1 \in DOMAIN r /\ r[k - 1] = p[k]
  BY TailAt
<1>2. s.guid = u /\ v = Replaced(w, s) /\ g = f \ s.data
  OBVIOUS
<1> HIDE DEF s, r
<1>3. \A c \in v : c \in s.data \/ c \in w
  BY <1>2 DEF Replaced
<1>4. \A c \in w : c \in v \/ c \in g
  <2> SUFFICES ASSUME NEW c \in w
               PROVE  c \in v \/ c \in g
    OBVIOUS
  <2>1. c.part \in s.parts => c \in s.data \cup f
    BY <1>1, <1>2 DEF Written, Overwrites
  <2>2. QED
    BY <1>2, <2>1 DEF Replaced
<1>5. Written(u, r, v, v, g)
  <2>1. ASSUME NEW k \in DOMAIN r, r[k].guid = u, NEW c \in v, c.part \in r[k].parts
        PROVE  c \in r[k].data \cup g
    <3>1. k + 1 \in DOMAIN p /\ 1 < k + 1 /\ r[k] = p[k + 1]
      BY <1>1
    <3>2. CASE c \in s.data
      BY <1>1, <1>2, <2>1, <3>1, <3>2 DEF Written, Overwrites
    <3>3. CASE c \notin s.data
      <4>1. c \in w
        BY <1>3, <3>3
      <4>2. c \in p[k + 1].data \cup f
        BY <2>1, <3>1, <4>1 DEF Written, Overwrites
      <4>3. QED
        BY <1>2, <3>1, <3>3, <4>2
    <3>4. QED
      BY <3>2, <3>3
  <2>2. ASSUME NEW j \in DOMAIN r, NEW k \in DOMAIN r, j < k, r[j].guid = u, r[k].guid = u
        PROVE  Overwrites(r[k], r[j].data, {})
    <3>1. j + 1 \in DOMAIN p /\ k + 1 \in DOMAIN p /\ r[j] = p[j + 1] /\ r[k] = p[k + 1] /\ j + 1 < k + 1
      BY <1>1, <2>2
    <3>2. QED
      BY <2>2, <3>1 DEF Written
  <2>3. QED
    BY <2>1, <2>2 DEF Written, Overwrites
<1>6. ASSUME NEW x, InMemory(x, u, p, w, t, f)
      PROVE  InMemory(x, u, r, v, v, g)
  <2>1. s.data \subseteq x.data /\ w \subseteq x.data \cup f
    BY <1>1, <1>2, <1>6 DEF InMemory
  <2>2. v \subseteq x.data \cup g
    <3> SUFFICES ASSUME NEW c \in v, c \notin s.data
                 PROVE  c \in x.data \cup g
      BY <2>1
    <3>1. c \in w
      BY <1>3
    <3>2. QED
      BY <1>2, <2>1, <3>1
  <2>3. \A k \in DOMAIN r : r[k].guid = u => r[k].data \subseteq x.data
    BY <1>1, <1>6 DEF InMemory
  <2>4. ASSUME NEW c \in x.data, c.part \notin Changed(x), c \notin v \cup g
        PROVE  \E k \in DOMAIN r : r[k].guid = u /\ c \in r[k].data
    <3>1. c \notin s.data
      BY <1>2, <2>4 DEF Replaced
    <3>2. c \notin w /\ c \notin f
      BY <1>2, <1>4, <2>4, <3>1
    <3>3. PICK k \in DOMAIN p : p[k].guid = u /\ c \in p[k].data
      BY <1>6, <2>4, <3>2 DEF InMemory
    <3>4. k - 1 \in DOMAIN r /\ r[k - 1] = p[k]
      BY <1>1, <3>1, <3>3
    <3>5. QED
      BY <3>3, <3>4
  <2>5. QED
    BY <2>2, <2>3, <2>4 DEF InMemory
<1>7. QED
  BY <1>5, <1>6 DEF r, Carried

\* The save failed: somewhere before the commit, or at it.
LEMMA UnsavedDown ==
  ASSUME NEW S, NEW p \in Seq(S), p # << >>, NEW u, Head(p).guid = u, NEW w, NEW t, NEW f, NEW g,
         g = f \cup Head(p).data, NEW v, NEW y,
         Failed(Head(p), w, t, v, y),
         w \ t \subseteq f, Written(u, p, w, t, f)
  PROVE  /\ v \ y \subseteq g
         /\ Carried(u, p, w, t, f, Tail(p), v, y, g)
<1> DEFINE s == Head(p)
           r == Tail(p)
<1>1. /\ 1 \in DOMAIN p /\ p[1] = s
      /\ \A k \in DOMAIN r : k \in Nat /\ k + 1 \in DOMAIN p /\ 1 < k + 1 /\ r[k] = p[k + 1]
      /\ \A k \in DOMAIN p : k # 1 => k - 1 \in DOMAIN r /\ r[k - 1] = p[k]
  BY TailAt
<1>2. s.guid = u /\ g = f \cup s.data
  OBVIOUS
<1>3. /\ y \ v \subseteq g /\ v \ y \subseteq g /\ v \cup y \subseteq w \cup t \cup g /\ w \subseteq v \cup g
  <2>1. CASE v = w /\ y = t
    BY <2>1, <1>2 DEF Written
  <2>2. CASE y = w /\ \E h : h.parts \subseteq s.parts /\ h.data \subseteq s.data /\ v = Replaced(w, h)
    <3>1. PICK h : h.parts \subseteq s.parts /\ h.data \subseteq s.data /\ v = Replaced(w, h)
      BY <2>2
    <3> HIDE DEF s
    <3>2. \A c \in w : c.part \in s.parts => c \in s.data \cup f
      BY <1>1, <1>2 DEF Written, Overwrites
    <3>3. w \subseteq v \cup g
      BY <1>2, <3>1, <3>2 DEF Replaced
    <3>4. v \subseteq w \cup g
      BY <1>2, <3>1 DEF Replaced
    <3>5. QED
      BY <2>2, <3>3, <3>4
  <2>3. QED
    BY <2>1, <2>2 DEF Failed
<1> HIDE DEF s, r
<1>4. Written(u, r, v, y, g)
  <2>1. ASSUME NEW k \in DOMAIN r, r[k].guid = u, NEW c \in v \cup y, c.part \in r[k].parts
        PROVE  c \in r[k].data \cup g
    <3>1. k + 1 \in DOMAIN p /\ r[k] = p[k + 1]
      BY <1>1
    <3>2. c \in w \cup t => c \in r[k].data \cup f
      BY <2>1, <3>1 DEF Written, Overwrites
    <3>3. QED
      BY <1>2, <1>3, <2>1, <3>2
  <2>2. ASSUME NEW j \in DOMAIN r, NEW k \in DOMAIN r, j < k, r[j].guid = u, r[k].guid = u
        PROVE  Overwrites(r[k], r[j].data, {})
    <3>1. j + 1 \in DOMAIN p /\ k + 1 \in DOMAIN p /\ r[j] = p[j + 1] /\ r[k] = p[k + 1] /\ j + 1 < k + 1
      BY <1>1, <2>2
    <3>2. QED
      BY <2>2, <3>1 DEF Written
  <2>3. QED
    BY <1>3, <2>1, <2>2 DEF Written, Overwrites
<1>5. ASSUME NEW x, InMemory(x, u, p, w, t, f)
      PROVE  InMemory(x, u, r, v, y, g)
  <2>1. w \cup t \subseteq x.data \cup f
    BY <1>5 DEF InMemory
  <2>2. v \cup y \subseteq x.data \cup g
    BY <1>2, <1>3, <2>1
  <2>3. \A k \in DOMAIN r : r[k].guid = u => r[k].data \subseteq x.data
    BY <1>1, <1>5 DEF InMemory
  <2>4. ASSUME NEW c \in x.data, c.part \notin Changed(x), c \notin v \cup g
        PROVE  \E k \in DOMAIN r : r[k].guid = u /\ c \in r[k].data
    <3>1. c \notin s.data /\ c \notin w /\ c \notin f
      BY <1>2, <1>3, <2>4
    <3>2. PICK k \in DOMAIN p : p[k].guid = u /\ c \in p[k].data
      BY <1>5, <2>4, <3>1 DEF InMemory
    <3>3. k - 1 \in DOMAIN r /\ r[k - 1] = p[k]
      BY <1>1, <3>1, <3>2
    <3>4. QED
      BY <3>2, <3>3
  <2>5. QED
    BY <2>2, <2>3, <2>4 DEF InMemory
<1>6. QED
  BY <1>3, <1>4, <1>5 DEF r, Carried

\* The connection is lost, and with it what was not committed.
LEMMA LostDown ==
  ASSUME NEW u, NEW p, NEW w, NEW t, NEW f, w \ t \subseteq f, Written(u, p, w, t, f)
  PROVE  /\ Written(u, p, t, t, f)
         /\ \A x : InMemory(x, u, p, w, t, f) => InMemory(x, u, p, t, t, f)
         /\ \A q : OnItsWay(u, q, w, t, f) => OnItsWay(u, q, t, t, f)
<1>1. Written(u, p, t, t, f)
  BY DEF Written, Overwrites
<1>2. \A x : InMemory(x, u, p, w, t, f) => InMemory(x, u, p, t, t, f)
  <2> SUFFICES ASSUME NEW x, InMemory(x, u, p, w, t, f)
               PROVE  InMemory(x, u, p, t, t, f)
    OBVIOUS
  <2>1. w \cup f \subseteq t \cup f
    OBVIOUS
  <2>2. QED
    BY <2>1 DEF InMemory
<1>3. \A q : OnItsWay(u, q, w, t, f) => OnItsWay(u, q, t, t, f)
  BY DEF OnItsWay
<1>4. QED
  BY <1>1, <1>2, <1>3

\* What a change to x adds is not in check.
LEMMA Grows ==
  ASSUME NEW x, x.check \subseteq x.data, NEW new, \A c \in new : c.part \in Parts,
         NEW y, y.data = x.data \cup new, y.check = x.check
  PROVE  \A u, p, w, t, f : InMemory(x, u, p, w, t, f) => InMemory(y, u, p, w, t, f)
<1>1. Changed(x) \subseteq Changed(y)
  <2> SUFFICES ASSUME NEW i \in Changed(x)
               PROVE  i \in Changed(y)
    OBVIOUS
  <2>1. i \in Parts /\ Of(x.data, i) # Of(x.check, i) /\ Of(x.check, i) \subseteq Of(x.data, i)
    BY DEF Changed, Of
  <2>2. PICK c \in Of(x.data, i) : c \notin Of(x.check, i)
    BY <2>1
  <2>3. c \in Of(y.data, i) /\ c \notin Of(y.check, i)
    BY <2>2 DEF Of
  <2>4. QED
    BY <2>1, <2>3 DEF Changed
<1>2. ASSUME NEW c \in new
      PROVE  c \in x.data \/ c.part \in Changed(y)
  <2>1. CASE c \in x.check
    BY <2>1
  <2>2. CASE c \notin x.check
    <3>1. c \in Of(y.data, c.part) /\ c \notin Of(y.check, c.part)
      BY <2>2 DEF Of
    <3>2. QED
      BY <3>1 DEF Changed
  <2>3. QED
    BY <2>1, <2>2
<1>3. QED
  BY <1>1, <1>2 DEF InMemory

\* The places of two queues of saves, one behind the other.
LEMMA Behind ==
  ASSUME NEW S, NEW p \in Seq(S), NEW n \in Seq(S)
  PROVE  /\ Len(p) \in Nat
         /\ \A k \in DOMAIN (p \o n) : k \in Nat
         /\ \A k \in DOMAIN (p \o n) : k <= Len(p) => k \in DOMAIN p /\ (p \o n)[k] = p[k]
         /\ \A k \in DOMAIN (p \o n) : k > Len(p) => k - Len(p) \in DOMAIN n /\ (p \o n)[k] = n[k - Len(p)]
         /\ \A k \in DOMAIN p : k \in DOMAIN (p \o n) /\ (p \o n)[k] = p[k]
         /\ \A k \in DOMAIN n : k + Len(p) \in DOMAIN (p \o n) /\ (p \o n)[k + Len(p)] = n[k]
<1> DEFINE q == p \o n
           a == Len(p)
           b == Len(n)
<1>1. a \in Nat /\ b \in Nat /\ DOMAIN p = 1..a /\ DOMAIN n = 1..b
  OBVIOUS
<1>2. DOMAIN q = 1..(a + b) /\ \A i \in 1..(a + b) : q[i] = IF i <= a THEN p[i] ELSE n[i - a]
  BY ConcatProperties, LenProperties
<1> HIDE DEF q, a, b
<1>3. \A k \in DOMAIN q : k <= a => k \in DOMAIN p /\ q[k] = p[k]
  BY <1>1, <1>2
<1>4. \A k \in DOMAIN q : k > a => k - a \in DOMAIN n /\ q[k] = n[k - a]
  BY <1>1, <1>2
<1>5. \A k \in DOMAIN p : k \in DOMAIN q /\ q[k] = p[k]
  BY <1>1, <1>2
<1>6. \A k \in DOMAIN n : k + a \in DOMAIN q /\ q[k + a] = n[k]
  <2> SUFFICES ASSUME NEW k \in DOMAIN n
               PROVE  k + a \in DOMAIN q /\ q[k + a] = n[k]
    OBVIOUS
  <2>1. k + a \in 1..(a + b) /\ ~(k + a <= a) /\ (k + a) - a = k
    BY <1>1
  <2>2. QED
    BY <1>1, <1>2, <2>1
<1>7. \A k \in DOMAIN q : k \in Nat
  BY <1>1, <1>2
<1>8. QED
  BY <1>1, <1>3, <1>4, <1>5, <1>6, <1>7 DEF q, a, b

\* Saves of others are queued.
LEMMA OthersQueued ==
  ASSUME NEW S, NEW p \in Seq(S), NEW n \in Seq(S), NEW u, Nothing(u, n), NEW w, NEW t, NEW f
  PROVE  /\ Written(u, p, w, t, f) => Written(u, p \o n, w, t, f)
         /\ \A x : InMemory(x, u, p, w, t, f) => InMemory(x, u, p \o n, w, t, f)
         /\ Nothing(u, p) => Nothing(u, p \o n)
<1> DEFINE q == p \o n
<1>1. ASSUME NEW k \in DOMAIN q, q[k].guid = u
      PROVE  k \in DOMAIN p /\ q[k] = p[k]
  <2>1. ~(k > Len(p))
    BY <1>1, Behind DEF Nothing
  <2>2. k \in Nat /\ Len(p) \in Nat
    BY Behind
  <2>3. QED
    BY <2>1, <2>2, Behind
<1>2. \A k \in DOMAIN p : k \in DOMAIN q /\ q[k] = p[k]
  BY Behind
<1> HIDE DEF q
<1>3. Written(u, p, w, t, f) => Written(u, q, w, t, f)
  BY <1>1 DEF Written
<1>4. ASSUME NEW x, InMemory(x, u, p, w, t, f)
      PROVE  InMemory(x, u, q, w, t, f)
  BY <1>1, <1>2, <1>4 DEF InMemory
<1>5. Nothing(u, p) => Nothing(u, q)
  BY <1>1 DEF Nothing
<1>6. QED
  BY <1>3, <1>4, <1>5 DEF q

\* A save of u is queued, where a part of x has changed; y is x after it.
LEMMA SaveQueued ==
  ASSUME NEW S, NEW p \in Seq(S), NEW n \in Seq(S), NEW u, NEW w, NEW t, NEW f, NEW x, NEW y, y.data = x.data,
         \A k \in DOMAIN n : n[k].guid = u => n[k].parts = Changed(x) /\ n[k].data = Parts_of(x.data, Changed(x)),
         \A j, k \in DOMAIN n : n[j].guid = u /\ n[k].guid = u => j = k,
         Changed(x) # {} => \E k \in DOMAIN n : n[k].guid = u,
         Written(u, p, w, t, f), InMemory(x, u, p, w, t, f)
  PROVE  Written(u, p \o n, w, t, f) /\ InMemory(y, u, p \o n, w, t, f)
<1> DEFINE q == p \o n
           a == Len(p)
<1>1. /\ a \in Nat
      /\ \A k \in DOMAIN q : k \in Nat
      /\ \A k \in DOMAIN q : k <= a => k \in DOMAIN p /\ q[k] = p[k]
      /\ \A k \in DOMAIN q : k > a => k - a \in DOMAIN n /\ q[k] = n[k - a]
      /\ \A k \in DOMAIN p : k \in DOMAIN q /\ q[k] = p[k]
      /\ \A k \in DOMAIN n : k + a \in DOMAIN q /\ q[k + a] = n[k]
  BY Behind
<1> HIDE DEF q, a
<1>2. \A k \in DOMAIN q : k <= a \/ k > a
  BY <1>1
<1>3. ASSUME NEW k \in DOMAIN q, k > a, q[k].guid = u
      PROVE  q[k].parts = Changed(x) /\ q[k].data = Parts_of(x.data, Changed(x))
  BY <1>1, <1>3
<1>4. ASSUME NEW k \in DOMAIN q, k > a, q[k].guid = u, NEW old, NEW gone, old \subseteq x.data \cup gone
      PROVE  Overwrites(q[k], old, gone)
  BY <1>3, <1>4 DEF Overwrites, Parts_of
<1>5. Written(u, q, w, t, f)
  <2>1. ASSUME NEW k \in DOMAIN q, q[k].guid = u
        PROVE  Overwrites(q[k], w \cup t, f)
    <3>1. CASE k <= a
      BY <1>1, <2>1, <3>1 DEF Written
    <3>2. CASE k > a
      <4>1. w \cup t \subseteq x.data \cup f
        BY DEF InMemory
      <4>2. QED
        BY <1>4, <2>1, <3>2, <4>1
    <3>3. QED
      BY <1>2, <3>1, <3>2
  <2>2. ASSUME NEW j \in DOMAIN q, NEW k \in DOMAIN q, j < k, q[j].guid = u, q[k].guid = u
        PROVE  Overwrites(q[k], q[j].data, {})
    <3>1. CASE k <= a
      <4>1. j <= a
        BY <1>1, <2>2, <3>1
      <4>2. QED
        BY <1>1, <2>2, <3>1, <4>1 DEF Written
    <3>2. CASE k > a /\ j <= a
      <4>1. q[j].data \subseteq x.data \cup {}
        BY <1>1, <2>2, <3>2 DEF InMemory
      <4>2. QED
        BY <1>4, <2>2, <3>2, <4>1
    <3>3. CASE k > a /\ j > a
      <4>1. j - a \in DOMAIN n /\ k - a \in DOMAIN n /\ n[j - a].guid = u /\ n[k - a].guid = u
        BY <1>1, <2>2, <3>3
      <4>2. j - a = k - a
        BY <4>1
      <4>3. FALSE
        BY <1>1, <2>2, <4>2
      <4>4. QED
        BY <4>3
    <3>4. QED
      BY <1>2, <2>2, <3>1, <3>2, <3>3
  <2>3. QED
    BY <2>1, <2>2 DEF Written
<1>6. InMemory(y, u, q, w, t, f)
  <2>1. ASSUME NEW k \in DOMAIN q, q[k].guid = u
        PROVE  q[k].data \subseteq x.data
    <3>1. CASE k <= a
      BY <1>1, <2>1, <3>1 DEF InMemory
    <3>2. CASE k > a
      BY <1>3, <2>1, <3>2 DEF Parts_of
    <3>3. QED
      BY <1>2, <3>1, <3>2
  <2>2. ASSUME NEW c \in x.data, c \notin w \cup f
        PROVE  \E k \in DOMAIN q : q[k].guid = u /\ c \in q[k].data
    <3>1. CASE c.part \in Changed(x)
      <4>1. PICK k \in DOMAIN n : n[k].guid = u
        BY <3>1
      <4>2. c \in n[k].data
        BY <3>1, <4>1 DEF Parts_of
      <4>3. QED
        BY <1>1, <4>1, <4>2
    <3>2. CASE c.part \notin Changed(x)
      <4>1. PICK k \in DOMAIN p : p[k].guid = u /\ c \in p[k].data
        BY <2>2, <3>2 DEF InMemory
      <4>2. QED
        BY <1>1, <4>1
    <3>3. QED
      BY <3>1, <3>2
  <2>3. w \cup t \subseteq x.data \cup f
    BY DEF InMemory
  <2>4. QED
    BY <2>1, <2>2, <2>3 DEF InMemory
<1>7. QED
  BY <1>5, <1>6 DEF q

\* What save queues: one save of each user of which a part has changed.
SavesOf(new, us) ==
  /\ \A k \in DOMAIN new :
       LET u == new[k].guid IN
       /\ u \in us
       /\ new[k].parts = Changed(user_map[u])
       /\ new[k].data = Parts_of(user_map[u].data, Changed(user_map[u]))
  /\ \A j, k \in DOMAIN new : new[j].guid = new[k].guid => j = k
  /\ \A u \in us : Changed(user_map[u]) # {} => \E k \in DOMAIN new : new[k].guid = u

LEMMA SavesAre ==
  ASSUME TypeOK, NEW us, us \subseteq DOMAIN user_map, save(us)
  PROVE  \E new \in Seq(Save) : save_list' = save_list \o new /\ SavesOf(new, us)
<1> DEFINE I == Savable(us)
           n == Cardinality(I)
           f == Ascending(I)
           new == [i \in 1..n |-> LET u == f[i] IN get_save_string(u, user_map[u])]
<1>1. I \subseteq DOMAIN user_map /\ I \subseteq Users /\ n \in Nat /\ IsAscending(f, I) /\ I \subseteq us
  BY SavableIs DEF Savable
<1>2. ASSUME NEW u \in I
      PROVE  get_save_string(u, user_map[u]) \in Save
  <2>1. user_map[u].data \subseteq Change /\ u \in Users
    BY <1>1, UserFields DEF TypeOK
  <2>2. Changed(user_map[u]) \subseteq Parts /\ Parts_of(user_map[u].data, Changed(user_map[u])) \subseteq Change
    BY <2>1 DEF Changed, Parts_of
  <2>3. QED
    BY <2>1, <2>2 DEF get_save_string, Save
<1>3. save_list' = save_list \o new
  BY DEF save
<1>4. f \in [1..n -> I] /\ (\A i \in I : \E k \in 1..n : f[k] = i) /\ \A j, k \in 1..n : j < k => f[j] < f[k]
  BY <1>1 DEF IsAscending
<1>5. \A u \in us : Changed(user_map[u]) # {} => u \in I
  BY DEF Savable
<1> HIDE DEF I, n, f
<1>6. new \in Seq(Save)
  BY <1>1, <1>2, <1>4
<1>7. DOMAIN new = 1..n /\ \A k \in 1..n : new[k] = get_save_string(f[k], user_map[f[k]]) /\ f[k] \in I
  BY <1>4
<1> HIDE DEF new
<1>8. \A k \in 1..n : /\ new[k].guid = f[k] /\ f[k] \in us /\ new[k].parts = Changed(user_map[f[k]])
                      /\ new[k].data = Parts_of(user_map[f[k]].data, Changed(user_map[f[k]]))
  BY <1>1, <1>7 DEF get_save_string
<1>9. ASSUME NEW j \in 1..n, NEW k \in 1..n, f[j] = f[k]
      PROVE  j = k
  <2>1. f[j] \in Nat /\ f[k] \in Nat
    BY <1>1, <1>4, UserAssumption
  <2>2. ~(j < k) /\ ~(k < j)
    BY <1>4, <1>9, <2>1
  <2>3. QED
    BY <1>1, <2>2
<1>10. QED
  <2>1. \A k \in DOMAIN new : LET u == new[k].guid IN
                /\ u \in us
                /\ new[k].parts = Changed(user_map[u])
                /\ new[k].data = Parts_of(user_map[u].data, Changed(user_map[u]))
    BY <1>7, <1>8
  <2>2. \A j, k \in DOMAIN new : new[j].guid = new[k].guid => j = k
    BY <1>7, <1>8, <1>9
  <2>3. \A u \in us : Changed(user_map[u]) # {} => \E k \in DOMAIN new : new[k].guid = u
    BY <1>4, <1>5, <1>7, <1>8
  <2>4. QED
    BY <1>3, <1>6, <2>1, <2>2, <2>3 DEF SavesOf

-----------------------------------------------------------------------------
(* The data of the users: the steps.                                       *)

LEMMA PendingTypes ==
  ASSUME TypeOK
  PROVE  pending \in Seq(Save) /\ ToSet(pending) = ToSet(save_list) \cup (IF cdb = "saving" THEN ToSet(copy_list) ELSE {})
<1>1. save_list \in Seq(Save) /\ << >> \in Seq(Save) /\ (cdb = "saving" => copy_list \in Seq(Save))
  BY DEF TypeOK
<1>2. ToSet(<< >>) = {}
  BY DEF ToSet
<1>3. CASE cdb = "saving"
  BY <1>1, <1>3, SeqSteps DEF pending
<1>4. CASE cdb # "saving"
  <2>1. pending = << >> \o save_list
    BY <1>4 DEF pending
  <2>2. QED
    BY <1>1, <1>2, <1>4, <2>1, SeqSteps
<1>5. QED
  BY <1>3, <1>4

\* Answers that come from nowhere else, and loads under way before.
LEMMA FewerLoads ==
  ASSUME NEW u, Whole(u), forgone[u] \subseteq forgone'[u], UnderWay(u)' => UnderWay(u),
         \A m \in ToSet(queue') : m.type = "load" /\ m.guid = u => m \in ToSet(queue)
  PROVE  ~Present(u) => /\ UnderWay(u)' => Nothing(u, pending)
                        /\ OnItsWay(u, ToSet(queue'), work[u], table[u], forgone'[u])
<1> SUFFICES ASSUME ~Present(u)
             PROVE  /\ UnderWay(u)' => Nothing(u, pending)
                    /\ OnItsWay(u, ToSet(queue'), work[u], table[u], forgone'[u])
  OBVIOUS
<1>1. OnItsWay(u, ToSet(queue), work[u], table[u], forgone[u]) /\ (UnderWay(u) => Nothing(u, pending))
  BY DEF Whole
<1>2. OnItsWay(u, ToSet(queue'), work[u], table[u], forgone[u])
  BY <1>1 DEF OnItsWay
<1>3. OnItsWay(u, ToSet(queue'), work[u], table[u], forgone'[u])
  BY <1>2, MoreForgone
<1>4. QED
  BY <1>1, <1>3

\* The answer to a load is in the queue, or the load is being done.
LEMMA UnderWayLess ==
  ASSUME NEW u, cdb' = cdb, copy_list' = copy_list,
         \A m \in ToSet(queue') : m.type = "load" /\ m.guid = u => m \in ToSet(queue)
  PROVE  UnderWay(u)' => UnderWay(u)
BY DEF UnderWay

\* A user whose data are left alone stays whole.
LEMMA StillWhole ==
  ASSUME NEW u, Whole(u), pending' = pending, work'[u] = work[u], table'[u] = table[u], forgone[u] \subseteq forgone'[u],
         Present(u)' <=> Present(u),
         Present(u) => user_map'[u].data = user_map[u].data /\ user_map'[u].check = user_map[u].check,
         ~Present(u) => /\ UnderWay(u)' => Nothing(u, pending)
                        /\ OnItsWay(u, ToSet(queue'), work[u], table[u], forgone'[u])
  PROVE  Whole(u)'
<1>1. Written(u, pending', work'[u], table'[u], forgone'[u])
  BY MoreForgone DEF Whole
<1>2. ASSUME Present(u)
      PROVE  InMemory(user_map'[u], u, pending', work'[u], table'[u], forgone'[u])
  <2>1. InMemory(user_map[u], u, pending, work[u], table[u], forgone'[u])
    BY <1>2, MoreForgone DEF Whole
  <2>2. QED
    BY <1>2, <2>1 DEF InMemory, Changed
<1>3. QED
  BY <1>1, <1>2 DEF Whole

\* A step that leaves the data of all users alone.
LEMMA QuietData ==
  ASSUME Sane, Main, Alive' <=> Alive, pending' = pending, work' = work, table' = table,
         \A u \in Users : forgone[u] \subseteq forgone'[u], overtaken \subseteq overtaken',
         DOMAIN user_map' = DOMAIN user_map,
         \A u \in DOMAIN user_map :
           user_map'[u].data = user_map[u].data /\ user_map'[u].check = user_map[u].check,
         \A u \in Users : Whole(u) /\ ~Present(u) =>
           /\ UnderWay(u)' => Nothing(u, pending)
           /\ OnItsWay(u, ToSet(queue'), work[u], table[u], forgone'[u])
  PROVE  Sane' /\ Main'
<1>1. Sane'
  BY DEF Sane
<1>2. ASSUME NEW u \in Users, u \notin overtaken', Alive'
      PROVE  Whole(u)'
  <2>1. Whole(u)
    BY <1>2 DEF Main
  <2>2. (Present(u)' <=> Present(u)) /\ (Present(u) => u \in DOMAIN user_map)
    BY DEF Present
  <2>3. QED
    BY <2>1, <2>2, StillWhole
<1>3. Main'
  BY <1>2 DEF Main
<1>4. QED
  BY <1>1, <1>3

\* A request in the handler: it is put off, or it changes the user.
LEMMA HandleData ==
  ASSUME TypeOK, Sane, Main, NEW u \in Users, NEW type \in {"login", "off"}, Handle(type, u), Alive,
         UNCHANGED quiet, ToSet(queue') \subseteq ToSet(queue)
  PROVE  Sane' /\ Main'
<1>1. /\ UNCHANGED <<status, cdb, copy_list, save_list, work, table, forgone, overtaken>>
      /\ pending' = pending /\ (Alive' <=> Alive)
  BY DEF quiet, disk, pending, Alive
<1>2. \A v : UnderWay(v)' => UnderWay(v)
  BY <1>1, UnderWayLess
<1>3. ASSUME NEW v \in Users, Whole(v), ~Present(v)
      PROVE  /\ UnderWay(v)' => Nothing(v, pending)
             /\ OnItsWay(v, ToSet(queue'), work[v], table[v], forgone'[v])
  BY <1>1, <1>2, <1>3, FewerLoads
<1>4. CASE Defer(type, u)
  <2>1. user_map' = user_map
    BY <1>4 DEF Defer
  <2>2. QED
    BY <1>1, <1>3, <2>1, QuietData
<1>5. CASE Serve(type, u)
  <2> DEFINE x == user_map[u]
  <2>1. x \in SUser /\ u \in DOMAIN user_map /\ x.check \subseteq x.data
    BY <1>5 DEF TypeOK, Serve, Present, Sane
  <2>2. PICK new \in New(type = "off") :
          user_map' = [user_map EXCEPT ![u] = [(IF type = "off" THEN find(x) ELSE x) EXCEPT !.data = @ \cup new]]
    BY <1>5 DEF Serve
  <2>3. \A c \in new : c.part \in Parts
    <3>1. new = {} \/ \E p \in Parts : new = {[part |-> p, nr |-> changes + 1, met |-> type = "off"]}
      BY DEF New
    <3>2. QED
      BY <3>1
  <2> DEFINE y == user_map'[u]
  <2>4. y.data = x.data \cup new /\ y.check = x.check
        /\ DOMAIN user_map' = DOMAIN user_map /\ \A v \in DOMAIN user_map : v # u => user_map'[v] = user_map[v]
    <3> HIDE DEF x
    <3>1. CASE type = "off"
      <4>1. [find(x) EXCEPT !.data = @ \cup new] =
              [data |-> x.data \cup new, check |-> x.check, meet_time |-> now, save_time |-> x.save_time]
        BY <2>1, FindIs
      <4>2. user_map' = [user_map EXCEPT ![u] = [find(x) EXCEPT !.data = @ \cup new]]
        BY <2>2, <3>1
      <4>3. QED
        BY <2>1, <4>1, <4>2
    <3>2. CASE type # "off"
      <4>1. [x EXCEPT !.data = @ \cup new] =
              [data |-> x.data \cup new, check |-> x.check, meet_time |-> x.meet_time, save_time |-> x.save_time]
        BY <2>1, FindIs
      <4>2. user_map' = [user_map EXCEPT ![u] = [x EXCEPT !.data = @ \cup new]]
        BY <2>2, <3>2
      <4>3. QED
        BY <2>1, <4>1, <4>2
    <3>3. QED
      BY <3>1, <3>2
  <2>5. Sane'
    <3>1. y.check \subseteq y.data
      BY <2>1, <2>4
    <3>2. \A v \in DOMAIN user_map' : user_map'[v].check \subseteq user_map'[v].data
      BY <2>4, <3>1 DEF Sane
    <3>3. QED
      BY <1>1, <2>4, <3>2 DEF Sane
  <2>6. \A p, w, t, f : InMemory(x, u, p, w, t, f) => InMemory(y, u, p, w, t, f)
    BY <2>1, <2>3, <2>4, Grows
  <2>7. ASSUME NEW v \in Users, v \notin overtaken', Alive'
        PROVE  Whole(v)'
    <3>1. Whole(v) /\ (Present(v)' <=> Present(v))
      BY <1>1, <2>4, <2>7 DEF Main, Present
    <3>2. CASE v = u
      <4>1. InMemory(user_map'[v], v, pending', work'[v], table'[v], forgone'[v])
        BY <1>1, <2>1, <2>6, <3>1, <3>2 DEF Whole, Present
      <4>2. Written(v, pending', work'[v], table'[v], forgone'[v])
        BY <1>1, <3>1 DEF Whole
      <4>3. Present(v)'
        BY <2>1, <3>1, <3>2 DEF Present
      <4>4. QED
        BY <4>1, <4>2, <4>3 DEF Whole
    <3>3. CASE v # u
      <4>1. Present(v) => user_map'[v] = user_map[v]
        BY <2>4, <3>3 DEF Present
      <4>2. QED
        BY <1>1, <1>3, <3>1, <4>1, StillWhole
    <3>4. QED
      BY <3>2, <3>3
  <2>8. Main'
    BY <2>7 DEF Main
  <2>9. QED
    BY <2>5, <2>8
<1>6. QED
  BY <1>4, <1>5 DEF Handle

\* The answer of CDB: the user comes to memory as the tables have it, or as
\* its file has it, and then what differs is given up.
LEMMA LoadedData ==
  ASSUME TypeOK, Sane, Main, PRSystemUserLoad
  PROVE  Sane' /\ Main'
<1> DEFINE m == Head(list)
           u == m.guid
           restored == team_level(m.data) <= 1 /\ u \in DOMAIN file
           data == IF restored THEN file[u] ELSE m.data
           x == NewUser(data, m.created /\ ~restored)
<1>1. /\ list # << >> /\ m.type = "load" /\ list' = Tail(list) /\ Alive
      /\ UNCHANGED <<status, cdb, copy_list, save_list, work, table, overtaken>>
      /\ u \in Users
  BY HeadTypes DEF PRSystemUserLoad, disk
<1>2. pending' = pending /\ (Alive' <=> Alive)
  BY <1>1 DEF pending, Alive
<1>3. /\ list \in Seq(Request \cup Loaded) /\ msg_list \in Seq(Request \cup Loaded)
      /\ list' \in Seq(Request \cup Loaded) /\ ToSet(list) = {m} \cup ToSet(list')
      /\ ToSet(queue) = ToSet(list) \cup ToSet(msg_list)
  BY <1>1, SeqSteps DEF TypeOK, queue
<1>4. CASE Present(u)
  <2>1. user_map' = [user_map EXCEPT ![u] = find(user_map[u])] /\ UNCHANGED <<msg_list, forgone>>
    BY <1>4 DEF PRSystemUserLoad
  <2>2. u \in DOMAIN user_map /\ user_map[u] \in SUser
    BY <1>4 DEF Present, TypeOK
  <2>3. find(user_map[u]).data = user_map[u].data /\ find(user_map[u]).check = user_map[u].check
    <3> DEFINE y == user_map[u]
    <3> HIDE DEF y
    <3>1. y \in SUser => find(y).data = y.data /\ find(y).check = y.check
      BY UserFields DEF find
    <3>2. QED
      BY <2>2, <3>1 DEF y
  <2>4. DOMAIN user_map' = DOMAIN user_map
        /\ \A v \in DOMAIN user_map : user_map'[v].data = user_map[v].data /\ user_map'[v].check = user_map[v].check
    BY <2>1, <2>2, <2>3
  <2>5. ToSet(queue') \subseteq ToSet(queue)
    <3>1. queue' = list' \o msg_list
      BY <1>1, <2>1 DEF queue
    <3>2. QED
      BY <1>3, <3>1, SeqSteps
  <2>6. \A v : UnderWay(v)' => UnderWay(v)
    BY <1>1, <2>5, UnderWayLess
  <2>7. ASSUME NEW v \in Users, Whole(v), ~Present(v)
        PROVE  /\ UnderWay(v)' => Nothing(v, pending)
               /\ OnItsWay(v, ToSet(queue'), work[v], table[v], forgone'[v])
    BY <2>1, <2>5, <2>6, <2>7, FewerLoads
  <2>8. QED
    BY <1>1, <1>2, <2>1, <2>4, <2>7, QuietData
<1>5. CASE ~Present(u)
  <2> DEFINE d == defer_map[u]
  <2>1. /\ user_map' = [v \in {u} \cup DOMAIN user_map |-> IF v = u THEN x ELSE user_map[v]]
        /\ forgone' = [forgone EXCEPT ![u] = forgone[u] \cup (data \ m.data) \cup (m.data \ data)]
        /\ msg_list' = d \o msg_list
    BY <1>5 DEF PRSystemUserLoad, dispatch_defer
  <2>2. x.check = data /\ data \subseteq x.data /\ x.data \subseteq data \cup {InitChange}
    BY DEF NewUser
  <2>3. d \in Seq(Request \cup Loaded) /\ \A r \in ToSet(d) : r.type # "load"
    <3>1. d \in Seq(Request)
      BY <1>1 DEF TypeOK
    <3>2. ToSet(d) \subseteq Request
      BY <3>1, SetOfSeq
    <3>3. \A r \in Request : r.type # "load"
      BY DEF Request
    <3>4. QED
      BY <3>1, <3>2, <3>3
  <2> HIDE DEF x, data, d
  <2>4. \A r \in ToSet(queue') : r.type = "load" => r \in ToSet(queue)
    <3>1. queue' = list' \o (d \o msg_list)
      BY <1>1, <2>1 DEF queue
    <3>2. ToSet(d \o msg_list) = ToSet(d) \cup ToSet(msg_list) /\ d \o msg_list \in Seq(Request \cup Loaded)
      BY <1>3, <2>3, SeqSteps
    <3>3. ToSet(queue') = ToSet(list') \cup (ToSet(d) \cup ToSet(msg_list))
      <4> DEFINE e == d \o msg_list
      <4> HIDE DEF e
      <4>1. e \in Seq(Request \cup Loaded) /\ queue' = list' \o e
        BY <3>1, <3>2 DEF e
      <4>2. ToSet(queue') = ToSet(list') \cup ToSet(e)
        BY <1>3, <4>1, SeqSteps
      <4>3. QED
        BY <3>2, <4>2 DEF e
    <3>4. QED
      BY <1>3, <2>3, <3>3
  <2>5. \A v : UnderWay(v)' => UnderWay(v)
    BY <1>1, <2>4, UnderWayLess
  <2>6. m \in ToSet(queue) /\ UnderWay(u)
    <3>1. m \in ToSet(queue)
      BY <1>3
    <3>2. QED
      BY <1>1, <3>1 DEF UnderWay
  <2> DEFINE g == forgone[u] \cup (data \ m.data) \cup (m.data \ data)
  <2>7. forgone \in [Users -> SUBSET Change] /\ forgone'[u] = g /\ \A v \in Users : v # u => forgone'[v] = forgone[v]
    BY <1>1, <2>1 DEF TypeOK
  <2>8. DOMAIN user_map' = {u} \cup DOMAIN user_map /\ user_map'[u] = x
        /\ \A v \in DOMAIN user_map : v # u => user_map'[v] = user_map[v]
    BY <2>1
  <2>9. Sane'
    <3>1. \A v \in DOMAIN user_map' : user_map'[v].check \subseteq user_map'[v].data
      BY <2>2, <2>8 DEF Sane
    <3>2. \A v \in Users : forgone[v] \subseteq forgone'[v]
      BY <2>7
    <3>3. QED
      BY <1>1, <1>2, <3>1, <3>2 DEF Sane
  <2> HIDE DEF m, u
  <2>10. ASSUME NEW v \in Users, v \notin overtaken', Alive'
         PROVE  Whole(v)'
    <3>1. Whole(v)
      BY <1>1, <2>10 DEF Main
    <3>2. forgone[v] \subseteq forgone'[v]
      BY <2>7, <2>10
    <3>3. CASE v = u
      <4>1. Present(v)' /\ user_map'[v] = x
        BY <2>8, <3>3 DEF Present
      <4>2. Nothing(v, pending) /\ OnItsWay(v, ToSet(queue), work[v], table[v], forgone[v])
        BY <1>5, <2>6, <3>1, <3>3 DEF Whole
      <4>3. m.data \subseteq work[v] \cup forgone[v] /\ work[v] \cup table[v] \subseteq m.data \cup forgone[v]
        BY <1>1, <2>6, <3>3, <4>2 DEF OnItsWay, u
      <4>4. m.data \subseteq data \cup forgone'[v] /\ data \subseteq m.data \cup forgone'[v]
        BY <2>7, <3>3
      <4>5. work[v] \cup table[v] \subseteq x.data \cup forgone'[v]
        BY <2>2, <3>2, <4>3, <4>4
      <4>6. ASSUME NEW c \in x.data
            PROVE  c.part \in Changed(x) \/ c \in work[v] \cup forgone'[v]
        <5>1. CASE c \in data
          BY <3>2, <4>3, <4>4, <5>1
        <5>2. CASE c \notin data
          <6>1. c = InitChange
            BY <2>2, <4>6, <5>2
          <6>2. c.part \in Parts
            BY <6>1, UserAssumption DEF InitChange
          <6>3. c \in Of(x.data, c.part) /\ c \notin Of(x.check, c.part)
            BY <2>2, <4>6, <5>2 DEF Of
          <6>4. QED
            BY <6>2, <6>3 DEF Changed
        <5>3. QED
          BY <5>1, <5>2
      <4>7. InMemory(x, v, pending, work[v], table[v], forgone'[v])
        BY <4>2, <4>5, <4>6 DEF InMemory, Nothing
      <4>8. Written(v, pending, work[v], table[v], forgone'[v])
        BY <3>1, <3>2, MoreForgone DEF Whole
      <4>9. QED
        BY <1>1, <1>2, <4>1, <4>7, <4>8 DEF Whole
    <3>4. CASE v # u
      <4>1. (Present(v)' <=> Present(v)) /\ (Present(v) => user_map'[v] = user_map[v])
        BY <2>8, <3>4 DEF Present
      <4>2. ~Present(v) => /\ UnderWay(v)' => Nothing(v, pending)
                           /\ OnItsWay(v, ToSet(queue'), work[v], table[v], forgone'[v])
        BY <2>4, <2>5, <3>1, <3>2, FewerLoads
      <4>3. QED
        BY <1>1, <1>2, <3>1, <3>2, <4>1, <4>2, StillWhole
    <3>5. QED
      BY <3>3, <3>4
  <2>11. Main'
    BY <2>10 DEF Main
  <2>12. QED
    BY <2>9, <2>11
<1>6. QED
  BY <1>4, <1>5

\* Users are saved: their saves are queued behind the others.
LEMMA SaveData ==
  ASSUME TypeOK, Sane, Main, user_save_timer \/ PRServerClose
  PROVE  Sane' /\ Main'
<1>1. PICK us \in SUBSET DOMAIN user_map : save(us)
  BY DEF user_save_timer, PRServerClose
<1>2. /\ UNCHANGED <<msg_list, list, cdb, copy_list, work, table, forgone, overtaken>>
      /\ Alive /\ Alive' /\ queue' = queue
  BY DEF user_save_timer, PRServerClose, others, disk, Alive, queue
<1> us \subseteq DOMAIN user_map
  OBVIOUS
<1>3. PICK new \in Seq(Save) : save_list' = save_list \o new /\ SavesOf(new, us)
  BY <1>1, SavesAre
<1>4. pending' = pending \o new /\ pending \in Seq(Save)
  <2> DEFINE p == IF cdb = "saving" THEN copy_list ELSE << >>
  <2>1. p \in Seq(Save) /\ save_list \in Seq(Save)
    BY DEF TypeOK
  <2>2. pending = p \o save_list /\ pending' = p \o (save_list \o new)
    BY <1>2, <1>3 DEF pending
  <2> HIDE DEF p
  <2>3. p \o (save_list \o new) = (p \o save_list) \o new
    BY <2>1
  <2>4. QED
    BY <2>2, <2>3, PendingTypes
<1>5. DOMAIN user_map' = DOMAIN user_map
      /\ \A u \in DOMAIN user_map :
           /\ u \in us => user_map'[u].data = user_map[u].data /\ user_map'[u].check = user_map[u].data
           /\ u \notin us => user_map'[u] = user_map[u]
  <2>1. user_map' = [u \in DOMAIN user_map |->
          IF u \in us THEN [user_map[u] EXCEPT !.save_time = now, !.check = user_map[u].data] ELSE user_map[u]]
    BY <1>1 DEF save
  <2>2. ASSUME NEW u \in DOMAIN user_map, u \in us
        PROVE  user_map'[u].data = user_map[u].data /\ user_map'[u].check = user_map[u].data
    <3> DEFINE x == user_map[u]
    <3>1. x \in SUser
      BY DEF TypeOK
    <3>2. user_map'[u] = [x EXCEPT !.save_time = now, !.check = x.data]
      BY <2>1, <2>2
    <3> HIDE DEF x
    <3>3. user_map'[u] = [data |-> x.data, check |-> x.data, meet_time |-> x.meet_time, save_time |-> now]
      BY <3>1, <3>2, SavedIs
    <3>4. QED
      BY <3>3 DEF x
  <2>3. QED
    BY <2>1, <2>2
<1>6. Sane'
  BY <1>2, <1>5 DEF Sane
<1>7. ASSUME NEW u \in Users, u \notin overtaken'
      PROVE  Whole(u)'
  <2>1. Whole(u) /\ (Present(u)' <=> Present(u))
    BY <1>2, <1>5, <1>7 DEF Main, Present
  <2>2. CASE u \in us
    <3> DEFINE x == user_map[u]
               y == user_map'[u]
    <3>1. y.data = x.data
      BY <1>5, <2>2
    <3>2. \A k \in DOMAIN new : new[k].guid = u =>
            new[k].parts = Changed(x) /\ new[k].data = Parts_of(x.data, Changed(x))
      BY <1>3 DEF SavesOf
    <3>3. \A j, k \in DOMAIN new : new[j].guid = u /\ new[k].guid = u => j = k
      BY <1>3 DEF SavesOf
    <3>4. Changed(x) # {} => \E k \in DOMAIN new : new[k].guid = u
      BY <1>3, <2>2 DEF SavesOf
    <3>5. Written(u, pending, work[u], table[u], forgone[u]) /\ InMemory(x, u, pending, work[u], table[u], forgone[u])
      BY <1>1, <2>1, <2>2 DEF Whole, Present
    <3> HIDE DEF x, y
    <3>6. /\ Written(u, pending \o new, work[u], table[u], forgone[u])
          /\ InMemory(y, u, pending \o new, work[u], table[u], forgone[u])
      BY <1>4, <3>1, <3>2, <3>3, <3>4, <3>5, SaveQueued
    <3>7. Present(u)'
      BY <1>1, <2>1, <2>2 DEF Present
    <3>8. QED
      BY <1>2, <1>4, <3>6, <3>7 DEF Whole, y
  <2>3. CASE u \notin us
    <3>1. Nothing(u, new)
      BY <1>3, <2>3 DEF Nothing, SavesOf
    <3>2. Written(u, pending', work'[u], table'[u], forgone'[u])
      BY <1>2, <1>4, <2>1, <3>1, OthersQueued DEF Whole
    <3>3. CASE Present(u)
      <4>1. user_map'[u] = user_map[u]
        BY <1>5, <2>3, <3>3 DEF Present
      <4>2. InMemory(user_map[u], u, pending, work[u], table[u], forgone[u])
        BY <2>1, <3>3 DEF Whole
      <4>3. InMemory(user_map'[u], u, pending', work'[u], table'[u], forgone'[u])
        BY <1>2, <1>4, <3>1, <4>1, <4>2, OthersQueued
      <4>4. QED
        BY <2>1, <3>2, <3>3, <4>3 DEF Whole
    <3>4. CASE ~Present(u)
      <4>1. Nothing(u, pending) => Nothing(u, pending')
        BY <1>4, <3>1, OthersQueued
      <4>2. UnderWay(u)' => UnderWay(u)
        BY <1>2, UnderWayLess
      <4>3. (UnderWay(u) => Nothing(u, pending)) /\ OnItsWay(u, ToSet(queue), work[u], table[u], forgone[u])
        BY <2>1, <3>4 DEF Whole
      <4>4. OnItsWay(u, ToSet(queue'), work'[u], table'[u], forgone'[u])
        BY <1>2, <4>3
      <4>5. QED
        BY <2>1, <3>2, <3>4, <4>1, <4>2, <4>3, <4>4 DEF Whole
    <3>5. QED
      BY <3>3, <3>4
  <2>4. QED
    BY <2>2, <2>3
<1>8. QED
  BY <1>6, <1>7 DEF Main

\* A user is removed: where a load of it is under way it is overtaken.
LEMMA QuitData ==
  ASSUME TypeOK, Sane, Main, NEW u \in Users, quit_force(u)
  PROVE  Sane' /\ Main'
<1>1. /\ UNCHANGED <<status, msg_list, list, cdb, copy_list, save_list, work, table, forgone>>
      /\ Alive /\ Alive' /\ queue' = queue /\ pending' = pending
      /\ overtaken' = IF UnderWay(u) THEN overtaken \cup {u} ELSE overtaken
      /\ user_map' = [v \in DOMAIN user_map \ {u} |-> user_map[v]]
  BY DEF quit_force, others, disk, Alive, queue, pending
<1>2. /\ DOMAIN user_map' = DOMAIN user_map \ {u}
      /\ \A v \in DOMAIN user_map \ {u} : user_map'[v] = user_map[v]
  BY <1>1
<1>3. \A v : UnderWay(v)' => UnderWay(v)
  BY <1>1, UnderWayLess
<1>4. Sane'
  BY <1>1, <1>2 DEF Sane
<1>5. ASSUME NEW v \in Users, v \notin overtaken'
      PROVE  Whole(v)'
  <2>1. Whole(v)
    BY <1>1, <1>5 DEF Main
  <2>2. CASE v = u
    <3>1. ~UnderWay(u) /\ ~Present(v)'
      BY <1>1, <1>2, <1>5, <2>2 DEF Present
    <3>2. ~UnderWay(v)'
      BY <1>3, <2>2, <3>1
    <3>3. OnItsWay(v, ToSet(queue'), work'[v], table'[v], forgone'[v])
      BY <1>1, <2>2, <3>1 DEF OnItsWay, UnderWay
    <3>4. Written(v, pending', work'[v], table'[v], forgone'[v])
      BY <1>1, <2>1 DEF Whole
    <3>5. QED
      BY <3>1, <3>2, <3>3, <3>4 DEF Whole
  <2>3. CASE v # u
    <3>1. (Present(v)' <=> Present(v)) /\ (Present(v) => user_map'[v] = user_map[v])
      BY <1>2, <2>3 DEF Present
    <3>2. ~Present(v) => /\ UnderWay(v)' => Nothing(v, pending)
                         /\ OnItsWay(v, ToSet(queue'), work[v], table[v], forgone'[v])
      BY <1>1, <1>3, <2>1, FewerLoads
    <3>3. QED
      BY <1>1, <2>1, <3>1, <3>2, StillWhole
  <2>4. QED
    BY <2>2, <2>3
<1>6. QED
  BY <1>4, <1>5 DEF Main

\* CDB takes the loads of users of whom it has nothing to save.
LEMMA DoLoadData ==
  ASSUME TypeOK, Sane, Main, do_load_event
  PROVE  Sane' /\ Main'
<1>1. /\ UNCHANGED <<status, user_map, msg_list, list, save_list, work, table, forgone, overtaken>>
      /\ cdb = "load" /\ cdb' \in {"save", "loading"} /\ queue' = queue /\ (Alive' <=> Alive)
  BY DEF do_load_event, unmoved, disk, queue, Alive
<1>2. pending' = pending
  BY <1>1 DEF pending
<1>3. ASSUME NEW u \in Users, UnderWay(u)'
      PROVE  UnderWay(u) \/ Nothing(u, pending)
  <2>1. CASE \E m \in ToSet(queue') : m.type = "load" /\ m.guid = u
    BY <1>1, <2>1 DEF UnderWay
  <2>2. CASE cdb' = "loading" /\ \E l \in ToSet(copy_list') : l.guid = u
    <3> DEFINE free == {i \in DOMAIN load_list : ~Held(load_list[i])}
    <3>1. copy_list' = Pick(load_list, free)
      BY <1>1, <2>2 DEF do_load_event
    <3>2. free \subseteq DOMAIN load_list /\ load_list \in Seq(Load)
      BY DEF TypeOK
    <3>3. PICK k \in DOMAIN copy_list' : copy_list'[k].guid = u
      BY <2>2 DEF ToSet
    <3> HIDE DEF free
    <3>4. PICK i \in free : copy_list'[k] = load_list[i]
      BY <3>1, <3>2, <3>3, PickIs
    <3>5. \A s \in ToSet(save_list) : s.guid # u
      BY <3>3, <3>4 DEF Held, free
    <3>6. ToSet(pending) = ToSet(save_list)
      BY <1>1, PendingTypes
    <3>7. Nothing(u, pending)
      BY <3>5, <3>6 DEF Nothing, ToSet
    <3>8. QED
      BY <3>7
  <2>3. QED
    BY <1>3, <2>1, <2>2 DEF UnderWay
<1>4. ASSUME NEW u \in Users, Whole(u), ~Present(u)
      PROVE  /\ UnderWay(u)' => Nothing(u, pending)
             /\ OnItsWay(u, ToSet(queue'), work[u], table[u], forgone'[u])
  BY <1>1, <1>3, <1>4 DEF Whole
<1>5. QED
  BY <1>1, <1>2, <1>4, QuietData

\* A load is done: its answer has what the tables have, or is said not to.
LEMMA LoadToMsgData ==
  ASSUME TypeOK, Sane, Main, load_to_msg
  PROVE  Sane' /\ Main'
<1> DEFINE l == Head(copy_list)
           u == l.guid
<1>1. /\ UNCHANGED <<status, user_map, list, save_list, work, table, overtaken>>
      /\ cdb = "loading" /\ cdb' # "saving" /\ (Alive' <=> Alive)
      /\ copy_list' = Tail(copy_list)
  BY DEF load_to_msg, unmoved, disk, Alive, Next_of
<1>2. pending' = pending
  BY <1>1 DEF pending
<1>3. /\ copy_list \in Seq(Load) \ {<< >>} /\ l \in Load /\ u \in Users
      /\ ToSet(copy_list) = {l} \cup ToSet(copy_list') /\ l \in ToSet(copy_list)
      /\ list \in Seq(Request \cup Loaded) /\ msg_list \in Seq(Request \cup Loaded)
  <2>1. copy_list \in Seq(Load) /\ copy_list # << >>
    BY <1>1 DEF TypeOK
  <2>2. l \in Load /\ ToSet(copy_list) = {l} \cup ToSet(copy_list')
    BY <1>1, <2>1, SeqSteps
  <2>3. u \in Users
    BY <2>2 DEF Load
  <2> HIDE DEF l, u
  <2>4. QED
    BY <2>1, <2>2, <2>3 DEF TypeOK
<1>4. forgone \in [Users -> SUBSET Change]
  BY DEF TypeOK
<1>5. \/ msg_list' = msg_list /\ forgone' = forgone
      \/ \E m : /\ m.type = "load" /\ m.guid = u /\ m.data \subseteq work[u]
                /\ msg_list' = Append(msg_list, m)
                /\ forgone' = [forgone EXCEPT ![u] = forgone[u] \cup (work[u] \ m.data)]
  <2> DEFINE exists == Of(work[u], Simple) # {}
             data == IF exists THEN work[u] ELSE {c \in work[u] : c.part < Simple}
             m == [type |-> "load", guid |-> u, data |-> data, created |-> ~exists]
  <2>1. CASE msg_list' = msg_list /\ forgone' = forgone
    BY <2>1
  <2>2. CASE msg_list' = Append(msg_list, m) /\ forgone' = [forgone EXCEPT ![u] = forgone[u] \cup (work[u] \ data)]
    <3>1. m.type = "load" /\ m.guid = u /\ m.data = data /\ data \subseteq work[u]
      OBVIOUS
    <3> HIDE DEF m, data
    <3>2. QED
      BY <2>2, <3>1
  <2>3. QED
    BY <2>1, <2>2 DEF load_to_msg
<1> HIDE DEF l, u
<1>6. \A v \in Users : forgone[v] \subseteq forgone'[v]
  BY <1>3, <1>4, <1>5
<1>7. UnderWay(u)
  BY <1>1, <1>3 DEF UnderWay, u
<1>8. ToSet(queue) = ToSet(list) \cup ToSet(msg_list) /\ ToSet(queue') = ToSet(list) \cup ToSet(msg_list')
      /\ \A m : msg_list' = Append(msg_list, m) => ToSet(msg_list') = ToSet(msg_list) \cup {m}
  <2>1. msg_list' \in Seq(Request \cup Loaded)
    BY LoadToMsgTypes DEF TypeOK
  <2>2. ASSUME NEW m, msg_list' = Append(msg_list, m)
        PROVE  ToSet(msg_list') = ToSet(msg_list) \cup {m}
    <3>1. Len(msg_list) \in Nat /\ Len(msg_list') = Len(msg_list) + 1 /\ msg_list'[Len(msg_list) + 1] = m
          /\ \A i \in 1..Len(msg_list) : msg_list'[i] = msg_list[i]
      BY <1>3, <2>2
    <3>2. DOMAIN msg_list = 1..Len(msg_list) /\ DOMAIN msg_list' = 1..(Len(msg_list) + 1)
      BY <1>3, <2>1, <3>1
    <3>3. DOMAIN msg_list' = DOMAIN msg_list \cup {Len(msg_list) + 1}
      BY <3>1, <3>2
    <3>4. QED
      BY <3>1, <3>2, <3>3 DEF ToSet
  <2>3. QED
    BY <1>1, <1>3, <2>1, <2>2, SeqSteps DEF queue
<1>9. ASSUME NEW v \in Users, Whole(v), ~Present(v)
      PROVE  /\ UnderWay(v)' => Nothing(v, pending)
             /\ OnItsWay(v, ToSet(queue'), work[v], table[v], forgone'[v])
  <2>1. ASSUME NEW m \in ToSet(queue'), m \notin ToSet(queue)
        PROVE  m.guid = u /\ m.data \subseteq work[u] /\ work[u] \subseteq m.data \cup forgone'[u]
    <3>1. m \notin ToSet(msg_list) /\ m \in ToSet(msg_list')
      BY <1>8, <2>1
    <3>2. PICK k : /\ k.guid = u /\ k.data \subseteq work[u]
                   /\ msg_list' = Append(msg_list, k)
                   /\ forgone' = [forgone EXCEPT ![u] = forgone[u] \cup (work[u] \ k.data)]
      BY <1>5, <3>1
    <3>3. m = k
      BY <1>8, <3>1, <3>2
    <3>4. forgone'[u] = forgone[u] \cup (work[u] \ k.data)
      BY <1>3, <1>4, <3>2
    <3>5. QED
      BY <3>2, <3>3, <3>4
  <2>2. UnderWay(v)' => UnderWay(v)
    <3>1. CASE v = u
      BY <1>7, <3>1
    <3>2. CASE v # u
      <4>1. ASSUME NEW m \in ToSet(queue'), m.guid = v, m.type = "load"
            PROVE  m \in ToSet(queue)
        BY <2>1, <3>2, <4>1
      <4>2. \A k \in ToSet(copy_list') : k \in ToSet(copy_list)
        BY <1>3
      <4>3. QED
        BY <1>1, <4>1, <4>2 DEF UnderWay
    <3>3. QED
      BY <3>1, <3>2
  <2>3. (UnderWay(v) => Nothing(v, pending)) /\ OnItsWay(v, ToSet(queue), work[v], table[v], forgone[v])
        /\ table[v] \ work[v] \subseteq forgone[v]
    BY <1>9 DEF Whole, Written
  <2>4. OnItsWay(v, ToSet(queue), work[v], table[v], forgone'[v]) /\ table[v] \subseteq work[v] \cup forgone'[v]
    BY <1>6, <2>3, MoreForgone
  <2>5. OnItsWay(v, ToSet(queue'), work[v], table[v], forgone'[v])
    <3> SUFFICES ASSUME NEW m \in ToSet(queue'), m.type = "load", m.guid = v
                 PROVE  m.data \subseteq work[v] \cup forgone'[v] /\ work[v] \cup table[v] \subseteq m.data \cup forgone'[v]
      BY DEF OnItsWay
    <3>1. CASE m \in ToSet(queue)
      BY <2>4, <3>1 DEF OnItsWay
    <3>2. CASE v = u /\ m.data \subseteq work[u] /\ work[u] \subseteq m.data \cup forgone'[u]
      BY <2>4, <3>2
    <3>3. QED
      BY <2>1, <3>1, <3>2
  <2>6. QED
    BY <2>2, <2>3, <2>5
<1>10. QED
  BY <1>1, <1>2, <1>6, <1>9, QuietData

\* What is to be written, one save on.
LEMMA PendingNext ==
  ASSUME TypeOK, cdb = "saving", copy_list' = Tail(copy_list), cdb' = Next_of(copy_list, "saving"), save_list' = save_list
  PROVE  /\ pending \in Seq(Save) /\ pending # << >>
         /\ Head(pending) = Head(copy_list) /\ pending' = Tail(pending)
<1>1. copy_list \in Seq(Save) /\ copy_list # << >> /\ save_list \in Seq(Save) /\ pending = copy_list \o save_list
  BY DEF TypeOK, pending
<1>2. copy_list' \in Seq(Save) /\ (copy_list' # << >> => cdb' = "saving")
  BY <1>1, NextOfTypes
<1>3. pending' = copy_list' \o save_list
  <2>1. CASE cdb' = "saving"
    BY <2>1 DEF pending
  <2>2. CASE cdb' # "saving"
    <3>1. copy_list' = << >>
      BY <1>2, <2>2
    <3>2. QED
      BY <2>2, <3>1 DEF pending
  <2>3. QED
    BY <2>1, <2>2
<1>4. Tail(copy_list \o save_list) = Tail(copy_list) \o save_list /\ Head(copy_list \o save_list) = Head(copy_list)
      /\ copy_list \o save_list # << >> /\ copy_list \o save_list \in Seq(Save)
  BY <1>1
<1>5. QED
  BY <1>1, <1>3, <1>4

\* Saves of others are written, and what they have committed.
LEMMA OthersWritten ==
  ASSUME NEW S, NEW p \in Seq(S), p # << >>, NEW u, Head(p).guid # u, NEW w, NEW t, NEW f, NEW y, y = t \/ y = w
  PROVE  /\ Carried(u, p, w, t, f, Tail(p), w, y, f)
         /\ Nothing(u, p) => Nothing(u, Tail(p))
         /\ \A q : OnItsWay(u, q, w, t, f) => OnItsWay(u, q, w, y, f)
<1> DEFINE r == Tail(p)
<1>1. /\ 1 \in DOMAIN p /\ p[1].guid # u
      /\ \A k \in DOMAIN r : k \in Nat /\ k + 1 \in DOMAIN p /\ 1 < k + 1 /\ r[k] = p[k + 1]
      /\ \A k \in DOMAIN p : k # 1 => k - 1 \in DOMAIN r /\ r[k - 1] = p[k]
  BY TailAt
<1> HIDE DEF r
<1>2. w \cup y \subseteq w \cup t /\ y \ w \subseteq t \ w
  OBVIOUS
<1>3. ASSUME Written(u, p, w, t, f)
      PROVE  Written(u, r, w, y, f)
  <2>1. y \ w \subseteq f
    BY <1>2, <1>3 DEF Written
  <2>2. \A k \in DOMAIN r : r[k].guid = u => Overwrites(r[k], w \cup y, f)
    BY <1>1, <1>2, <1>3 DEF Written, Overwrites
  <2>3. ASSUME NEW j \in DOMAIN r, NEW k \in DOMAIN r, j < k, r[j].guid = u, r[k].guid = u
        PROVE  Overwrites(r[k], r[j].data, {})
    <3>1. j + 1 \in DOMAIN p /\ k + 1 \in DOMAIN p /\ r[j] = p[j + 1] /\ r[k] = p[k + 1] /\ j + 1 < k + 1
      BY <1>1, <2>3
    <3>2. QED
      BY <1>3, <2>3, <3>1 DEF Written
  <2>4. QED
    BY <2>1, <2>2, <2>3 DEF Written
<1>4. ASSUME NEW x, InMemory(x, u, p, w, t, f)
      PROVE  InMemory(x, u, r, w, y, f)
  <2>1. \A k \in DOMAIN p : p[k].guid = u => k - 1 \in DOMAIN r /\ r[k - 1] = p[k]
    BY <1>1
  <2>2. \A k \in DOMAIN r : k + 1 \in DOMAIN p /\ r[k] = p[k + 1]
    BY <1>1
  <2>3. \A k \in DOMAIN r : r[k].guid = u => r[k].data \subseteq x.data
    BY <1>4, <2>2 DEF InMemory
  <2>4. ASSUME NEW c \in x.data
        PROVE  \/ c.part \in Changed(x) \/ c \in w \cup f
               \/ \E k \in DOMAIN r : r[k].guid = u /\ c \in r[k].data
    <3>1. CASE \E k \in DOMAIN p : p[k].guid = u /\ c \in p[k].data
      <4>1. PICK k \in DOMAIN p : p[k].guid = u /\ c \in p[k].data
        BY <3>1
      <4>2. k - 1 \in DOMAIN r /\ r[k - 1] = p[k]
        BY <2>1, <4>1
      <4>3. QED
        BY <4>1, <4>2
    <3>2. CASE c.part \in Changed(x) \/ c \in w \cup f
      BY <3>2
    <3>3. QED
      BY <1>4, <3>1, <3>2 DEF InMemory
  <2>5. w \cup y \subseteq x.data \cup f
    BY <1>2, <1>4 DEF InMemory
  <2>6. QED
    BY <2>3, <2>4, <2>5 DEF InMemory
<1>5. Nothing(u, p) => Nothing(u, r)
  BY <1>1 DEF Nothing
<1>6. \A q : OnItsWay(u, q, w, t, f) => OnItsWay(u, q, w, y, f)
  BY <1>2 DEF OnItsWay
<1>7. QED
  BY <1>3, <1>4, <1>5, <1>6 DEF r, Carried

\* What a save does to the tables, of its user and of the others.
LEMMA Tables ==
  ASSUME TypeOK, NEW s \in Save, NEW u, u = s.guid, Saved(s) \/ Unsaved(s)
  PROVE  /\ \A v \in Users \ {u} : /\ work'[v] = work[v] /\ forgone'[v] = forgone[v]
                                   /\ table'[v] = table[v] \/ table'[v] = work[v]
         /\ \/ /\ work'[u] = Replaced(work[u], s) /\ table'[u] = work'[u]
               /\ forgone'[u] = forgone[u] \ s.data
            \/ /\ forgone'[u] = forgone[u] \cup s.data
               /\ Failed(s, work[u], table[u], work'[u], table'[u])
<1>1. u \in Users /\ s.data \subseteq Change /\ work \in [Users -> SUBSET Change] /\ forgone \in [Users -> SUBSET Change]
  BY DEF Save, TypeOK
<1>2. ASSUME NEW h, h.guid = u, h.data \subseteq s.data
      PROVE  /\ Put(work, h)[u] = Replaced(work[u], h)
             /\ \A v \in Users \ {u} : Put(work, h)[v] = work[v]
  <2> DEFINE db == work
  <2>1. db = [v \in Users |-> db[v]]
    BY <1>1
  <2> HIDE DEF db
  <2>2. /\ Put(db, h)[u] = Replaced(db[u], h)
        /\ \A v \in Users \ {u} : Put(db, h)[v] = db[v]
    BY <1>1, <1>2, <2>1 DEF Put, Replaced
  <2>3. QED
    BY <2>2 DEF db
<1>3. CASE Saved(s)
  <2>1. work' = Put(work, s) /\ table' = Put(work, s) /\ forgone' = [forgone EXCEPT ![u] = forgone[u] \ s.data]
    BY <1>3 DEF Saved
  <2>2. forgone'[u] = forgone[u] \ s.data /\ \A v \in Users \ {u} : forgone'[v] = forgone[v]
    BY <1>1, <2>1
  <2>3. /\ Put(work, s)[u] = Replaced(work[u], s)
        /\ \A v \in Users \ {u} : Put(work, s)[v] = work[v]
    BY <1>2
  <2>4. QED
    BY <2>1, <2>2, <2>3
<1>4. CASE Unsaved(s)
  <2>1. forgone' = [forgone EXCEPT ![u] = forgone[u] \cup s.data]
    BY <1>4 DEF Unsaved
  <2>2. forgone'[u] = forgone[u] \cup s.data /\ \A v \in Users \ {u} : forgone'[v] = forgone[v]
    BY <1>1, <2>1
  <2>3. CASE UNCHANGED disk
    BY <2>2, <2>3 DEF disk, Failed
  <2>4. CASE table' = work /\ \E h : /\ h.guid = s.guid /\ h.parts \subseteq s.parts /\ h.data \subseteq s.data
                                     /\ work' = Put(work, h)
    <3>1. PICK h : h.guid = u /\ h.parts \subseteq s.parts /\ h.data \subseteq s.data /\ work' = Put(work, h)
      BY <2>4
    <3>2. work'[u] = Replaced(work[u], h) /\ \A v \in Users \ {u} : work'[v] = work[v]
      BY <1>2, <3>1
    <3>3. \E k : k.parts \subseteq s.parts /\ k.data \subseteq s.data /\ work'[u] = Replaced(work[u], k)
      BY <3>1, <3>2
    <3>4. QED
      BY <1>1, <2>2, <2>4, <3>2, <3>3 DEF Failed
  <2>5. QED
    BY <1>4, <2>3, <2>4 DEF Unsaved
<1>5. QED
  BY <1>3, <1>4

\* A save is written, or fails and is given up.
LEMMA SaveToDbData ==
  ASSUME TypeOK, Sane, Main, save_to_db
  PROVE  Sane' /\ Main'
<1>1. PICK s \in Save :
        /\ copy_list' = Tail(copy_list) /\ cdb' = Next_of(copy_list, "saving") /\ s = Head(copy_list)
        /\ UNCHANGED <<user_map, list, overtaken, status, msg_list, save_list>> /\ (Saved(s) \/ Unsaved(s))
  BY SaveToDbIs
<1>2. cdb = "saving" /\ cdb' # "loading" /\ queue' = queue /\ (Alive' <=> Alive)
  BY <1>1 DEF save_to_db, Next_of, queue, Alive
<1>3. pending \in Seq(Save) /\ pending # << >> /\ s = Head(pending) /\ pending' = Tail(pending)
  BY <1>1, <1>2, PendingNext
<1>4. PICK u \in Users : u = s.guid
  BY DEF Save
<1>5. /\ \A v \in Users \ {u} : /\ work'[v] = work[v] /\ forgone'[v] = forgone[v]
                                /\ table'[v] = table[v] \/ table'[v] = work[v]
      /\ \/ /\ work'[u] = Replaced(work[u], s) /\ table'[u] = work'[u]
            /\ forgone'[u] = forgone[u] \ s.data
         \/ /\ forgone'[u] = forgone[u] \cup s.data
            /\ Failed(s, work[u], table[u], work'[u], table'[u])
  BY <1>1, <1>4, Tables
<1>6. \A v : UnderWay(v)' => UnderWay(v)
  BY <1>2 DEF UnderWay
<1>7. Sane'
  <2>1. ASSUME NEW v \in Users
        PROVE  work'[v] \ table'[v] \subseteq forgone'[v]
    <3>1. work[v] \ table[v] \subseteq forgone[v]
      BY DEF Sane
    <3>2. CASE v = u
      <4>1. \A h : h.data \subseteq s.data => Replaced(work[u], h) \ work[u] \subseteq s.data
        BY DEF Replaced
      <4>2. QED
        BY <1>5, <3>1, <3>2, <4>1 DEF Failed
    <3>3. CASE v # u
      BY <1>5, <3>1, <3>3
    <3>4. QED
      BY <3>2, <3>3
  <2>2. QED
    BY <1>1, <1>2, <2>1 DEF Sane
<1>8. ASSUME NEW v \in Users, v \notin overtaken', Alive'
      PROVE  Whole(v)'
  <2>1. Whole(v) /\ (Present(v)' <=> Present(v)) /\ work[v] \ table[v] \subseteq forgone[v]
    BY <1>1, <1>2, <1>8 DEF Main, Present, Sane
  <2>2. CASE v = u
    <3>0. Carried(v, pending, work[v], table[v], forgone[v], pending', work'[v], table'[v], forgone'[v])
      <4>1. Head(pending).guid = v /\ Written(v, pending, work[v], table[v], forgone[v])
        BY <1>3, <1>4, <2>1, <2>2 DEF Whole
      <4>2. CASE /\ work'[v] = Replaced(work[v], s) /\ table'[v] = work'[v]
                 /\ forgone'[v] = forgone[v] \ s.data
        BY <1>3, <4>1, <4>2, SavedDown
      <4>3. CASE /\ forgone'[v] = forgone[v] \cup s.data
                 /\ Failed(s, work[v], table[v], work'[v], table'[v])
        BY <1>3, <2>1, <4>1, <4>3, UnsavedDown
      <4>4. QED
        BY <1>5, <2>2, <4>2, <4>3
    <3>1. /\ Written(v, pending', work'[v], table'[v], forgone'[v])
          /\ \A x : InMemory(x, v, pending, work[v], table[v], forgone[v])
                      => InMemory(x, v, pending', work'[v], table'[v], forgone'[v])
      BY <2>1, <3>0 DEF Carried, Whole
    <3>2. CASE Present(v)
      <4>1. InMemory(user_map[v], v, pending, work[v], table[v], forgone[v])
        BY <2>1, <3>2 DEF Whole
      <4>2. InMemory(user_map'[v], v, pending', work'[v], table'[v], forgone'[v])
        BY <1>1, <3>1, <4>1
      <4>3. QED
        BY <2>1, <3>1, <3>2, <4>2 DEF Whole
    <3>3. CASE ~Present(v)
      <4>1. ~Nothing(v, pending)
        <5>1. 1 \in DOMAIN pending /\ pending[1] = Head(pending)
          BY <1>3, TailAt
        <5>2. QED
          BY <1>3, <1>4, <2>2, <5>1 DEF Nothing
      <4>2. ~UnderWay(v)
        BY <2>1, <3>3, <4>1 DEF Whole
      <4>3. OnItsWay(v, ToSet(queue'), work'[v], table'[v], forgone'[v])
        BY <1>2, <4>2 DEF OnItsWay, UnderWay
      <4>4. QED
        BY <1>6, <2>1, <3>1, <3>3, <4>2, <4>3 DEF Whole
    <3>4. QED
      BY <3>2, <3>3
  <2>3. CASE v # u
    <3>1. work'[v] = work[v] /\ forgone'[v] = forgone[v] /\ (table'[v] = table[v] \/ table'[v] = work[v])
      BY <1>5, <2>3
    <3>2. Head(pending).guid # v
      BY <1>3, <1>4, <2>3
    <3>3. /\ Written(v, pending', work'[v], table'[v], forgone'[v])
          /\ \A x : InMemory(x, v, pending, work[v], table[v], forgone[v])
                      => InMemory(x, v, pending', work'[v], table'[v], forgone'[v])
          /\ Nothing(v, pending) => Nothing(v, pending')
          /\ \A q : OnItsWay(v, q, work[v], table[v], forgone[v]) => OnItsWay(v, q, work'[v], table'[v], forgone'[v])
      <4> DEFINE w == work[v]
                 t == table[v]
                 y == table'[v]
                 g == forgone[v]
      <4>1. y = t \/ y = w
        BY <3>1
      <4>2. Written(v, pending, w, t, g)
        BY <2>1 DEF Whole
      <4> HIDE DEF w, t, y, g
      <4>3. /\ Carried(v, pending, w, t, g, pending', w, y, g)
            /\ Nothing(v, pending) => Nothing(v, pending')
            /\ \A q : OnItsWay(v, q, w, t, g) => OnItsWay(v, q, w, y, g)
        BY <1>3, <3>2, <4>1, OthersWritten
      <4>4. QED
        BY <3>1, <4>2, <4>3 DEF Carried, w, t, y, g
    <3>4. CASE Present(v)
      <4>1. InMemory(user_map[v], v, pending, work[v], table[v], forgone[v])
        BY <2>1, <3>4 DEF Whole
      <4>2. InMemory(user_map'[v], v, pending', work'[v], table'[v], forgone'[v])
        BY <1>1, <3>3, <4>1
      <4>3. QED
        BY <2>1, <3>3, <3>4, <4>2 DEF Whole
    <3>5. CASE ~Present(v)
      <4>1. (UnderWay(v) => Nothing(v, pending)) /\ OnItsWay(v, ToSet(queue), work[v], table[v], forgone[v])
        BY <2>1, <3>5 DEF Whole
      <4>2. OnItsWay(v, ToSet(queue'), work'[v], table'[v], forgone'[v])
        BY <1>2, <3>3, <4>1
      <4>3. QED
        BY <1>6, <2>1, <3>3, <3>5, <4>1, <4>2 DEF Whole
    <3>6. QED
      BY <3>4, <3>5
  <2>4. QED
    BY <2>2, <2>3
<1>9. Main'
  BY <1>8 DEF Main
<1>10. QED
  BY <1>7, <1>9

\* The connection is lost: what was not committed is gone.
LEMMA LostData ==
  ASSUME TypeOK, Sane, Main, ConnectionLost
  PROVE  Sane' /\ Main'
<1>1. /\ UNCHANGED <<user_map, list, overtaken, status, msg_list, save_list, cdb, copy_list, table, forgone>>
      /\ work' = table /\ queue' = queue /\ pending' = pending /\ (Alive' <=> Alive)
  BY DEF ConnectionLost, unmoved, queue, pending, Alive
<1>2. Sane'
  BY <1>1 DEF Sane
<1>3. ASSUME NEW v \in Users, v \notin overtaken', Alive'
      PROVE  Whole(v)'
  <2>1. Whole(v) /\ (Present(v)' <=> Present(v)) /\ work[v] \ table[v] \subseteq forgone[v]
    BY <1>1, <1>3 DEF Main, Present, Sane
  <2>2. UnderWay(v)' => UnderWay(v)
    BY <1>1 DEF UnderWay
  <2>3. Written(v, pending, work[v], table[v], forgone[v])
    BY <2>1 DEF Whole
  <2>4. /\ Written(v, pending', work'[v], table'[v], forgone'[v])
        /\ \A x : InMemory(x, v, pending, work[v], table[v], forgone[v])
                    => InMemory(x, v, pending', work'[v], table'[v], forgone'[v])
        /\ \A q : OnItsWay(v, q, work[v], table[v], forgone[v]) => OnItsWay(v, q, work'[v], table'[v], forgone'[v])
    BY <1>1, <2>1, <2>3, LostDown
  <2>5. Present(v) => InMemory(user_map'[v], v, pending', work'[v], table'[v], forgone'[v])
    BY <1>1, <2>1, <2>4 DEF Whole
  <2>6. ~Present(v) => OnItsWay(v, ToSet(queue'), work'[v], table'[v], forgone'[v])
    BY <1>1, <2>1, <2>4 DEF Whole
  <2>7. QED
    BY <1>1, <2>1, <2>2, <2>4, <2>5, <2>6 DEF Whole
<1>4. QED
  BY <1>2, <1>3 DEF Main

\* An end, and a beginning with nothing in memory.
LEMMA EndData ==
  ASSUME TypeOK, Sane, Main, EndThread \/ Restart
  PROVE  Sane' /\ Main'
<1>1. CASE EndThread
  <2>1. ~Alive' /\ DOMAIN user_map' = {} /\ UNCHANGED <<work, table, forgone>>
    BY <1>1 DEF EndThread, Alive, others, disk
  <2>2. QED
    BY <2>1 DEF Sane, Main
<1>2. CASE Restart
  <2>1. /\ DOMAIN user_map' = {} /\ Alive' /\ work' = table /\ UNCHANGED <<table, forgone>>
        /\ list' = << >> /\ msg_list' = << >> /\ save_list' = << >> /\ copy_list' = << >> /\ cdb' = "load"
    BY <1>2 DEF Restart, Alive
  <2>2. queue' = << >> /\ pending' = << >> /\ ToSet(<< >>) = {}
    BY <2>1 DEF queue, pending, ToSet
  <2>3. Sane'
    BY <2>1 DEF Sane
  <2>4. ASSUME NEW v \in Users
        PROVE  Whole(v)'
    <3>1. Written(v, pending', work'[v], table'[v], forgone'[v])
      BY <2>1, <2>2 DEF Written
    <3>2. ~Present(v)' /\ Nothing(v, pending')
      BY <2>1, <2>2 DEF Present, Nothing
    <3>3. OnItsWay(v, ToSet(queue'), work'[v], table'[v], forgone'[v])
      BY <2>2 DEF OnItsWay
    <3>4. QED
      BY <3>1, <3>2, <3>3 DEF Whole
  <2>5. QED
    BY <2>3, <2>4 DEF Main
<1>3. QED
  BY <1>1, <1>2

LEMMA DataKept ==
  ASSUME TypeOK, Sane, Main, [Next]_vars
  PROVE  Sane' /\ Main'
<1>1. ASSUME NEW u \in Users, NEW type \in {"login", "off"}, Arrive(type, u)
      PROVE  Sane' /\ Main'
  <2>1. Handle(type, u) /\ Alive /\ UNCHANGED quiet /\ queue' = queue
    BY <1>1 DEF Arrive, queue
  <2>2. QED
    BY <2>1, HandleData
<1>2. CASE RunRequest
  <2>1. /\ Handle(Head(list).type, Head(list).guid) /\ Alive /\ UNCHANGED quiet
        /\ list # << >> /\ Head(list).type # "load" /\ list' = Tail(list) /\ msg_list' = msg_list
    BY <1>2 DEF RunRequest
  <2>2. Head(list).guid \in Users /\ Head(list).type \in {"login", "off"} /\ list' \in Seq(Request \cup Loaded)
    BY <2>1, HeadTypes
  <2>3. ToSet(queue') \subseteq ToSet(queue)
    <3>1. list \in Seq(Request \cup Loaded) /\ msg_list \in Seq(Request \cup Loaded)
      BY DEF TypeOK
    <3>2. ToSet(queue) = ToSet(list) \cup ToSet(msg_list) /\ ToSet(queue') = ToSet(list') \cup ToSet(msg_list)
      <4> DEFINE l == list'
      <4>1. queue = list \o msg_list /\ queue' = l \o msg_list /\ l \in Seq(Request \cup Loaded)
        BY <2>1, <2>2 DEF queue
      <4> HIDE DEF l
      <4>2. ToSet(queue) = ToSet(list) \cup ToSet(msg_list)
        BY <3>1, <4>1, SeqSteps
      <4>3. ToSet(queue') = ToSet(l) \cup ToSet(msg_list)
        BY <3>1, <4>1, SeqSteps
      <4>4. QED
        BY <4>2, <4>3 DEF l
    <3>3. ToSet(list) = {Head(list)} \cup ToSet(list')
      BY <2>1, <3>1, SeqSteps
    <3>4. QED
      BY <3>2, <3>3
  <2>4. QED
    BY <2>1, <2>2, <2>3, HandleData
<1>3. ASSUME \/ Swap \/ (\E u \in Users : user_defer_timeout_check(u)) \/ Reload \/ EndDB \/ do_save_event
             \/ Tick \/ UNCHANGED vars
      PROVE  Sane' /\ Main'
  <2>1. UNCHANGED <<user_map, work, table, forgone, overtaken>> /\ (Alive' <=> Alive)
    BY <1>3 DEF Swap, quiet, user_defer_timeout_check, Reload, EndDB, do_save_event, Tick, vars, logic, disk, others,
         unmoved, Alive
  <2>2. queue' = queue
    <3>1. CASE Swap
      BY <3>1, ConcatEmptySeq DEF Swap, queue, TypeOK
    <3>2. CASE ~Swap
      BY <1>3, <3>2 DEF user_defer_timeout_check, Reload, EndDB, do_save_event, Tick, vars, logic, others, unmoved, queue
    <3>3. QED
      BY <3>1, <3>2
  <2>3. pending' = pending /\ \A u : UnderWay(u)' => UnderWay(u)
    <3>1. CASE do_save_event
      <4>1. /\ cdb = "save" /\ cdb' = (IF save_list = << >> THEN "load" ELSE "saving") /\ copy_list' = save_list
            /\ save_list' = << >> /\ save_list \in Seq(Save)
        BY <3>1 DEF do_save_event, TypeOK
      <4>2. << >> \o save_list = save_list /\ save_list \o << >> = save_list /\ << >> \o << >> = << >>
        BY <4>1, ConcatEmptySeq
      <4>3. pending = << >> \o save_list
        BY <4>1 DEF pending
      <4>4. CASE save_list = << >>
        <5>1. pending' = << >> \o << >>
          BY <4>1, <4>4 DEF pending
        <5>2. QED
          BY <2>2, <4>1, <4>2, <4>3, <4>4, <5>1 DEF UnderWay
      <4>5. CASE save_list # << >>
        <5>1. pending' = save_list \o << >>
          BY <4>1, <4>5 DEF pending
        <5>2. QED
          BY <2>2, <4>1, <4>2, <4>3, <4>5, <5>1 DEF UnderWay
      <4>6. QED
        BY <4>4, <4>5
    <3>2. CASE ~do_save_event
      <4>1. UNCHANGED <<cdb, copy_list, save_list>>
        BY <1>3, <3>2 DEF Swap, quiet, user_defer_timeout_check, Reload, EndDB, Tick, vars, others
      <4>2. QED
        BY <2>2, <4>1 DEF pending, UnderWay
    <3>3. QED
      BY <3>1, <3>2
  <2>4. ASSUME NEW u \in Users, Whole(u), ~Present(u)
        PROVE  /\ UnderWay(u)' => Nothing(u, pending)
               /\ OnItsWay(u, ToSet(queue'), work[u], table[u], forgone'[u])
    BY <2>1, <2>2, <2>3, <2>4, FewerLoads
  <2>5. QED
    BY <2>1, <2>3, <2>4, QuietData
<1>4. QED
  BY <1>1, <1>2, <1>3, LoadedData, SaveData, QuitData, DoLoadData, LoadToMsgData, SaveToDbData, LostData, EndData DEF Next

LEMMA DataSafe == Spec => [](TypeOK /\ Sane /\ Main)
<1>1. Init => TypeOK /\ Sane /\ Main
  <2> SUFFICES ASSUME Init PROVE Sane /\ Main
    BY UserTypesAtFirst
  <2>1. /\ DOMAIN user_map = {} /\ Alive /\ work = table /\ list = << >> /\ msg_list = << >>
        /\ save_list = << >> /\ copy_list = << >> /\ cdb = "load"
    BY DEF Init, Alive
  <2>2. queue = << >> /\ pending = << >> /\ ToSet(<< >>) = {}
    BY <2>1 DEF queue, pending, ToSet
  <2>3. Sane
    BY <2>1 DEF Sane
  <2>4. ASSUME NEW v \in Users
        PROVE  Whole(v)
    BY <2>1, <2>2 DEF Whole, Present, Nothing, Written, OnItsWay
  <2>5. QED
    BY <2>3, <2>4 DEF Main
<1>2. TypeOK /\ Sane /\ Main /\ [Next]_vars => (TypeOK /\ Sane /\ Main)'
  BY TypesKept, DataKept
<1>3. QED
  BY <1>1, <1>2, PTL DEF Spec

\* What of a user is queued to be written, in the words of the properties.
LEMMA SavesOfUser ==
  ASSUME TypeOK, NEW u
  PROVE  \A s : s \in Saves(u) <=> \E k \in DOMAIN pending : s = pending[k] /\ pending[k].guid = u
BY PendingTypes DEF Saves, ToSet

LEMMA InMemoryIs ==
  ASSUME TypeOK, Sane, Main, NEW u \in DOMAIN user_map \ overtaken
  PROVE  InMemory(user_map[u], u, pending, work[u], table[u], forgone[u])
<1>1. Alive /\ u \in Users /\ Present(u)
  BY DEF Sane, TypeOK, Present
<1>2. QED
  BY <1>1 DEF Main, Whole

\* Nothing that happened to a user in memory is taken for saved without being
\* saved: a part whose md5 is the one in check is in the database, on its way
\* to it, or was part of a save or load that failed; unless the user was ever
\* removed by quit_force while a load of it was under way.
THEOREM NothingTakenForSaved == Spec => []Kept
<1>1. TypeOK /\ Sane /\ Main => Kept
  <2> SUFFICES ASSUME TypeOK, Sane, Main, NEW u \in DOMAIN user_map \ overtaken, NEW c \in user_map[u].data
               PROVE  c.part \in Changed(user_map[u]) \/ c \in Known(u) \cup forgone[u]
    BY DEF Kept
  <2>1. \/ c.part \in Changed(user_map[u]) \/ c \in work[u] \cup forgone[u]
        \/ \E k \in DOMAIN pending : pending[k].guid = u /\ c \in pending[k].data
    BY InMemoryIs DEF InMemory
  <2>2. ASSUME NEW k \in DOMAIN pending, pending[k].guid = u, c \in pending[k].data
        PROVE  c \in UNION {s.data : s \in Saves(u)}
    BY <2>2, SavesOfUser
  <2>3. QED
    BY <2>1, <2>2 DEF Known
<1>2. QED
  BY <1>1, DataSafe, PTL

\* A user comes back to memory with everything that was saved or queued for
\* it, whatever the order of loads, saves and removals, unless it was ever
\* removed by quit_force while a load of it was under way.
THEOREM BackWithEverything == Spec => []Fresh
<1>1. TypeOK /\ Sane /\ Main => Fresh
  <2> SUFFICES ASSUME TypeOK, Sane, Main, NEW u \in DOMAIN user_map \ overtaken
               PROVE  Known(u) \subseteq user_map[u].data \cup forgone[u]
    BY DEF Fresh
  <2>1. /\ work[u] \subseteq user_map[u].data \cup forgone[u]
        /\ \A k \in DOMAIN pending : pending[k].guid = u => pending[k].data \subseteq user_map[u].data
    BY InMemoryIs DEF InMemory
  <2>2. \A s \in Saves(u) : s.data \subseteq user_map[u].data
    BY <2>1, SavesOfUser
  <2>3. QED
    BY <2>1, <2>2 DEF Known
<1>2. QED
  BY <1>1, DataSafe, PTL
=============================================================================
