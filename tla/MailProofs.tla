----------------------------- MODULE MailProofs -----------------------------
(***************************************************************************)
(* Proofs about Mail for any number of mails, requests and faults.         *)
(***************************************************************************)
EXTENDS Mail, FiniteSetTheorems, SequenceTheorems, WellFoundedInduction, TLAPS

-----------------------------------------------------------------------------
(* The inductive invariant.                                                *)

\* What Delivered says of a role, in memory or in the tables, one mail at a time.
Books(u) ==
    /\ u.had = InBox(u) \union u.gone /\ InBox(u) \intersect u.gone = {}
    /\ \A i, j \in Ids(u) : u.mail_map[i].stamp = u.mail_map[j].stamp => i = j
    /\ u.got \subseteq u.had /\ u.coin = Cardinality(u.got)
    /\ \A i \in Ids(u) : u.mail_map[i].taken = (u.mail_map[i].stamp \in u.got)

\* A mail to everyone keeps its id; the ids of the others never get ahead of
\* the mails sent.
Numbered(u) ==
    \A i \in Ids(u) : IF i <= MaxRows THEN u.mail_map[i].stamp = i ELSE u.mail_map[i].stamp >= i

\* What was put into the box is older than auto, and than what is on the way.
Earlier(u, way, n) ==
    \A s \in u.had : /\ s <= MaxRows => s <= u.auto
                     /\ s <= MaxRows + n
                     /\ \A k \in DOMAIN way : s < way[k]

NonePassedOver(u, over) == "list" \in over \/ (u.since + 1)..u.auto \subseteq u.had

Sound(u, way, n, over) ==
    u \in Role /\ Books(u) /\ Numbered(u) /\ Earlier(u, way, n) /\ NonePassedOver(u, over)

PostsInOrder ==
    /\ \A k \in DOMAIN posts : posts[k] \in MaxRows + 1 .. MaxRows + sent
    /\ \A j, k \in DOMAIN posts : j < k => posts[j] < posts[k]

\* No list that is asked for or under way starts after the last mail the role has.
AskReaches(m, u) == m.type = "SystemTake" => u # NoRole /\ m.auto <= u.auto

ListReaches(m, u) ==
    m.type = "SystemTake" => u # NoRole /\ \A id \in m.data : (u.auto + 1)..id \subseteq m.data

Reaches(real, game, u) ==
    /\ \A k \in DOMAIN real : AskReaches(real[k], u)
    /\ \A k \in DOMAIN game : ListReaches(game[k], u)

ListsReach == "list" \in overtaken \/ Reaches(toReal, toGame, user)

\* What realdb has written is all that it tells of.
Told(m, n) == IF m.type = "SystemTake" THEN m.data \subseteq 1..n ELSE m.id <= n

LinkSound ==
    /\ toReal \in Seq(Question) /\ toGame \in Seq(Message)
    /\ \A k \in DOMAIN toGame : Told(toGame[k], rows)

\* What the client asks about is where it saw it, or is deleted.
StillThere(u, q) == q.stamp \in u.gone \/ (q.id \in Ids(u) /\ u.mail_map[q.id].stamp = q.stamp)

AskedSound ==
    /\ asked \in Seq([id : Stamps, stamp : Stamps])
    /\ \A k \in DOMAIN asked : asked[k].id <= MaxRows => asked[k].stamp = asked[k].id
    /\ \/ "request" \in overtaken \/ asked = <<>>
       \/ user # NoRole /\ \A k \in DOMAIN asked : StillThere(user, asked[k])

Scalars ==
    /\ rows \in 0..MaxRows /\ system_mail_id \in 0..rows
    /\ online \in BOOLEAN /\ role_id \in BOOLEAN /\ (online => role_id) /\ (role_id => Loaded)
    /\ posts \in Seq(Stamps)
    /\ sent \in 0..MaxPosts /\ faults \in 0..MaxFaults /\ due \in 0..rows
    /\ overtaken \subseteq {"list", "request"}

Roles ==
    /\ role # NoRole => Sound(role, posts, sent, overtaken)
    /\ user # NoRole => Sound(user, posts, sent, overtaken)

Inv == Scalars /\ LinkSound /\ ListsReach /\ PostsInOrder /\ AskedSound /\ Roles

-----------------------------------------------------------------------------
(* Numbers and sequences.                                                  *)

LEMMA Bounds == MaxRows \in Nat /\ MaxPosts \in Nat /\ MaxFaults \in Nat
BY MailAssumption

\* A set of numbers up to n that is not empty has a largest element.
LEMMA LargestExists ==
  ASSUME NEW n \in Nat, NEW S \in SUBSET (0..n), S # {}
  PROVE  \E m \in S : \A k \in S : m >= k
<1> DEFINE T == {k \in 0..n : n - k \in S}
<1>1. T \subseteq Nat /\ T # {}
  <2>1. PICK k \in S : TRUE
    OBVIOUS
  <2>2. n - k \in T
    BY <2>1
  <2>3. T \subseteq Nat
    OBVIOUS
  <2>4. QED
    BY <2>2, <2>3
<1>2. PICK k \in T : \A j \in T : ~ (<<j, k>> \in OpToRel(<, Nat))
  <2> HIDE DEF T
  <2>1. QED
    BY <1>1, NatLessThanWellFounded, WFMin
<1>3. \A j \in T : k <= j
  <2> SUFFICES ASSUME NEW j \in T PROVE k <= j
    OBVIOUS
  <2>1. j \in Nat /\ k \in Nat
    BY <1>1
  <2>2. <<j, k>> \notin {xy \in Nat \X Nat : xy[1] < xy[2]}
    BY <1>2 DEF OpToRel
  <2>3. QED
    BY <2>1, <2>2
<1>4. ASSUME NEW s \in S PROVE n - k >= s
  <2>1. n - s \in T
    OBVIOUS
  <2>2. k <= n - s
    BY <1>3, <2>1
  <2>3. QED
    BY <1>1, <2>2
<1>5. n - k \in S
  OBVIOUS
<1>6. QED
  BY <1>4, <1>5

LEMMA MaxIs ==
  ASSUME NEW n \in Nat, NEW S \in SUBSET (0..n), S # {}
  PROVE  Max(S) \in S /\ \A k \in S : Max(S) >= k
BY LargestExists DEF Max

LEMMA MaxWith ==
  ASSUME NEW n \in Nat, NEW a \in 0..n, NEW L, L \subseteq 1..n
  PROVE  LET m == Max({a} \union L)
         IN m \in {a} \union L /\ (\A k \in L : m >= k) /\ m >= a /\ m \in 0..n
<1> DEFINE S == {a} \union L
<1>1. S \in SUBSET (0..n) /\ S # {}
  OBVIOUS
<1>2. a \in S /\ L \subseteq S
  OBVIOUS
<1> HIDE DEF S
<1>3. Max(S) \in S /\ \A k \in S : Max(S) >= k
  BY <1>1, MaxIs
<1>4. Max(S) \in S /\ (\A k \in L : Max(S) >= k) /\ Max(S) >= a /\ Max(S) \in 0..n
  BY <1>1, <1>2, <1>3
<1>5. QED
  BY <1>4 DEF S

\* What is left of a queue, and what is added to it.
LEMMA TailOf ==
  ASSUME NEW T, NEW q \in Seq(T), q # <<>>
  PROVE  /\ Tail(q) \in Seq(T) /\ Head(q) \in T /\ Head(q) = q[1] /\ 1 \in DOMAIN q
         /\ \A k \in DOMAIN Tail(q) : k + 1 \in DOMAIN q /\ k \in Nat /\ Tail(q)[k] = q[k + 1]
OBVIOUS

LEMMA AppendOf ==
  ASSUME NEW T, NEW q \in Seq(T), NEW x \in T
  PROVE  /\ Append(q, x) \in Seq(T)
         /\ \A k \in DOMAIN Append(q, x) :
                \/ k \in DOMAIN q /\ k <= Len(q) /\ Append(q, x)[k] = q[k]
                \/ k = Len(q) + 1 /\ Append(q, x)[k] = x
OBVIOUS

-----------------------------------------------------------------------------
(* A role.                                                                 *)

Mails(box) == DOMAIN box \subseteq Stamps /\ box \in [DOMAIN box -> [stamp : Stamps, taken : BOOLEAN]]

LEMMA BoxIs == \A box : box \in Box <=> Mails(box)
<1>1. ASSUME NEW box, box \in Box PROVE Mails(box)
  <2>1. PICK ids \in SUBSET Stamps : box \in [ids -> [stamp : Stamps, taken : BOOLEAN]]
    BY <1>1 DEF Box
  <2>2. QED
    BY <2>1 DEF Mails
<1>2. ASSUME NEW box, Mails(box) PROVE box \in Box
  BY <1>2 DEF Mails, Box
<1>3. QED
  BY <1>1, <1>2

LEMMA RoleIs ==
  ASSUME NEW u \in Role
  PROVE  /\ u.auto \in 0..MaxRows /\ u.since \in 0..MaxRows /\ u.coin \in Nat
         /\ u.had \in SUBSET Stamps /\ u.gone \in SUBSET Stamps /\ u.got \in SUBSET Stamps
         /\ Mails(u.mail_map) /\ Ids(u) = DOMAIN u.mail_map /\ Ids(u) \subseteq Stamps
         /\ u = [auto |-> u.auto, mail_map |-> u.mail_map, coin |-> u.coin, had |-> u.had,
                 gone |-> u.gone, got |-> u.got, since |-> u.since]
<1>1. u.mail_map \in Box
  BY DEF Role
<1>2. Mails(u.mail_map)
  BY <1>1, BoxIs
<1>3. QED
  BY <1>2 DEF Role, Mails, Ids

LEMMA IsRole ==
  ASSUME NEW auto \in 0..MaxRows, NEW box, Mails(box), NEW coin \in Nat, NEW had \in SUBSET Stamps,
         NEW gone \in SUBSET Stamps, NEW got \in SUBSET Stamps, NEW since \in 0..MaxRows
  PROVE  [auto |-> auto, mail_map |-> box, coin |-> coin, had |-> had, gone |-> gone, got |-> got,
          since |-> since] \in Role
<1>1. box \in Box
  BY BoxIs
<1>2. QED
  BY <1>1 DEF Role

LEMMA NoRoleIsNone == NoRole \notin Role
<1>1. DOMAIN NoRole = {}
  BY DEF NoRole
<1>2. \A u \in Role : "auto" \in DOMAIN u
  BY DEF Role
<1>3. QED
  BY <1>1, <1>2

LEMMA BoxWithIs ==
  ASSUME NEW u \in Role, NEW new, NEW last
  PROVE  LET map == [i \in Ids(u) \union new |-> IF i \in new THEN [stamp |-> i, taken |-> FALSE] ELSE u.mail_map[i]]
         IN BoxWith(u, new, last) =
              [auto |-> last, mail_map |-> map, coin |-> u.coin, had |-> u.had \union new,
               gone |-> u.gone, got |-> u.got, since |-> u.since]
<1> DEFINE map == [i \in Ids(u) \union new |-> IF i \in new THEN [stamp |-> i, taken |-> FALSE] ELSE u.mail_map[i]]
           had == u.had \union new
<1>1. BoxWith(u, new, last) = [u EXCEPT !.mail_map = map, !.had = had, !.auto = last]
  BY RoleIs DEF BoxWith
<1> HIDE DEF map, had
<1>2. QED
  BY <1>1 DEF Role, map, had

\* What comes later, or was overtaken, leaves a role as it is.
LEMMA SoundStays ==
  ASSUME NEW u, NEW way, NEW n \in Nat, NEW over, Sound(u, way, n, over),
         NEW way2, NEW n2 \in Nat, n <= n2, NEW over2, over \subseteq over2,
         \A k \in DOMAIN way2 : way2[k] \in Nat /\ (way2[k] > MaxRows + n \/ \E j \in DOMAIN way : way2[k] = way[j])
  PROVE  Sound(u, way2, n2, over2)
<1>1. u \in Role /\ u.had \subseteq Nat
  BY RoleIs, Bounds DEF Sound, Stamps
<1>2. Earlier(u, way2, n2)
  BY <1>1, Bounds DEF Sound, Earlier
<1>3. QED
  BY <1>1, <1>2 DEF Sound, NonePassedOver

\* PRMailSystemTake: the mails of a list that starts no later than the role's
\* last mail are put into the box, and none is passed over.
LEMMA ReceivedSound ==
  ASSUME NEW u, NEW way, NEW n \in Nat, NEW over, Sound(u, way, n, over),
         \A k \in DOMAIN way : way[k] \in Nat /\ way[k] > MaxRows,
         NEW list \in SUBSET (1..MaxRows),
         "list" \in over \/ \A id \in list : (u.auto + 1)..id \subseteq list
  PROVE  LET r == Received(u, list)
         IN /\ Sound(r, way, n, over) /\ u.auto <= r.auto /\ r.gone = u.gone /\ Ids(u) \subseteq Ids(r)
            /\ \A i \in Ids(u) : r.mail_map[i].stamp = u.mail_map[i].stamp
<1> DEFINE later == {id \in list : id <= MaxRows /\ id > u.auto}
           new == later \ Ids(u)
           last == Max({u.auto} \union later)
           map == [i \in Ids(u) \union new |-> IF i \in new THEN [stamp |-> i, taken |-> FALSE] ELSE u.mail_map[i]]
           r == [auto |-> last, mail_map |-> map, coin |-> u.coin, had |-> u.had \union new,
                 gone |-> u.gone, got |-> u.got, since |-> u.since]
<1>a. u.auto \in 0..MaxRows /\ u.since \in 0..MaxRows /\ MaxRows \in Nat
  BY RoleIs, Bounds DEF Sound
<1>1. /\ u \in Role /\ Books(u) /\ Numbered(u) /\ Earlier(u, way, n) /\ NonePassedOver(u, over)
      /\ u.auto \in 0..MaxRows /\ u.since \in 0..MaxRows /\ u.coin \in Nat
      /\ u.had \subseteq Stamps /\ u.gone \subseteq Stamps /\ u.got \subseteq Stamps
      /\ Mails(u.mail_map) /\ Ids(u) = DOMAIN u.mail_map /\ Ids(u) \subseteq Stamps
      /\ MaxRows \in Nat /\ MaxPosts \in Nat
  BY RoleIs, Bounds DEF Sound
<1>l. later \subseteq 1..MaxRows
  OBVIOUS
<1>2. /\ last \in {u.auto} \union later /\ \A k \in later : last >= k
      /\ last >= u.auto /\ last \in 0..MaxRows
  <2> HIDE DEF later
  <2>1. QED
    BY <1>a, <1>l, MaxWith
<1>3. Received(u, list) = r
  BY <1>1, BoxWithIs DEF Received
<1>4. /\ new \subseteq Stamps /\ new \intersect Ids(u) = {} /\ new \subseteq later
      /\ \A i \in new : i \in 1..MaxRows /\ i > u.auto /\ i <= last
      /\ later \subseteq 1..MaxRows
  <2> HIDE DEF last
  <2>1. later \subseteq Stamps /\ \A i \in later : i > u.auto
    BY <1>1, <1>l DEF Stamps
  <2> HIDE DEF later
  <2>2. QED
    BY <1>1, <1>2, <1>l, <2>1
<1>5. new \intersect u.had = {}
  BY <1>1, <1>4 DEF Earlier
<1>6. /\ DOMAIN map = Ids(u) \union new
      /\ \A i \in Ids(u) : map[i] = u.mail_map[i]
      /\ \A i \in new : map[i] = [stamp |-> i, taken |-> FALSE]
      /\ Mails(map)
  <2> HIDE DEF new
  <2>1. /\ DOMAIN map = Ids(u) \union new
        /\ \A i \in Ids(u) : map[i] = u.mail_map[i]
        /\ \A i \in new : map[i] = [stamp |-> i, taken |-> FALSE]
        /\ map = [i \in DOMAIN map |-> map[i]]
    BY <1>4
  <2> HIDE DEF map
  <2>2. ASSUME NEW i \in DOMAIN map PROVE map[i] \in [stamp : Stamps, taken : BOOLEAN]
    <3>1. CASE i \in new
      <4>1. i \in Stamps /\ map[i] = [stamp |-> i, taken |-> FALSE]
        BY <1>4, <2>1, <3>1
      <4>2. QED
        BY <4>1
    <3>2. CASE i \in Ids(u)
      BY <1>1, <2>1, <3>2 DEF Mails
    <3>3. QED
      BY <2>1, <3>1, <3>2
  <2>3. QED
    BY <1>1, <1>4, <2>1, <2>2 DEF Mails
<1> HIDE DEF later, new, last, map
<1>7. r \in Role
  <2>1. u.had \union new \in SUBSET Stamps
    BY <1>1, <1>4
  <2>2. QED
    BY <1>1, <1>2, <1>6, <2>1, IsRole
<1>f. /\ r.auto = last /\ r.mail_map = map /\ r.coin = u.coin /\ r.had = u.had \union new
      /\ r.gone = u.gone /\ r.got = u.got /\ r.since = u.since
  OBVIOUS
<1> HIDE DEF r
<1>8. Ids(r) = Ids(u) \union new /\ InBox(r) = InBox(u) \union new
  BY <1>6, <1>f DEF Ids, InBox
<1>9. Books(r)
  <2>1. /\ u.had = InBox(u) \union u.gone /\ InBox(u) \intersect u.gone = {}
        /\ u.got \subseteq u.had /\ u.coin = Cardinality(u.got)
        /\ \A i, j \in Ids(u) : u.mail_map[i].stamp = u.mail_map[j].stamp => i = j
        /\ \A i \in Ids(u) : u.mail_map[i].taken = (u.mail_map[i].stamp \in u.got)
    BY <1>1 DEF Books
  <2>2. \A i \in Ids(u) : map[i] = u.mail_map[i] /\ u.mail_map[i].stamp \in u.had
    BY <1>6, <2>1 DEF InBox
  <2>3. \A i \in new : map[i].stamp = i /\ map[i].taken = FALSE /\ i \notin u.had
    BY <1>5, <1>6
  <2>4. \A i, j \in Ids(u) \union new : map[i].stamp = map[j].stamp => i = j
    BY <2>1, <2>2, <2>3
  <2>5. \A i \in Ids(u) \union new : map[i].taken = (map[i].stamp \in u.got)
    <3>1. ASSUME NEW i \in Ids(u) PROVE map[i].taken = (map[i].stamp \in u.got)
      BY <2>1, <2>2
    <3>2. ASSUME NEW i \in new PROVE map[i].taken = (map[i].stamp \in u.got)
      <4>1. (map[i].stamp \in u.got) = FALSE
        BY <2>1, <2>3
      <4>2. map[i].taken = FALSE
        BY <2>3
      <4>3. QED
        BY <4>1, <4>2
    <3>3. QED
      BY <3>1, <3>2
  <2>6. InBox(r) \intersect u.gone = {} /\ r.had = InBox(r) \union u.gone
    BY <1>5, <1>8, <1>f, <2>1
  <2>7. QED
    BY <1>8, <1>f, <2>1, <2>4, <2>5, <2>6 DEF Books
<1>10. Numbered(r)
  <2>1. ASSUME NEW i \in Ids(u)
        PROVE  IF i <= MaxRows THEN map[i].stamp = i ELSE map[i].stamp >= i
    BY <1>1, <1>6, <2>1 DEF Numbered
  <2>2. ASSUME NEW i \in new
        PROVE  i <= MaxRows /\ map[i].stamp = i
    BY <1>a, <1>4, <1>6
  <2>3. QED
    BY <1>8, <1>f, <2>1, <2>2 DEF Numbered
<1>11. Earlier(r, way, n)
  <2>1. ASSUME NEW s \in u.had
        PROVE  /\ s <= MaxRows => s <= last
               /\ s <= MaxRows + n
               /\ \A k \in DOMAIN way : s < way[k]
    <3>1. s \in Nat /\ last \in Nat /\ u.auto \in Nat /\ last >= u.auto
      BY <1>a, <1>1, <1>2 DEF Stamps
    <3>2. (s <= MaxRows => s <= u.auto) /\ s <= MaxRows + n /\ \A k \in DOMAIN way : s < way[k]
      BY <1>1 DEF Earlier
    <3>3. QED
      BY <1>a, <3>1, <3>2
  <2>2. ASSUME NEW s \in new
        PROVE  s <= last /\ s <= MaxRows + n /\ \A k \in DOMAIN way : s < way[k]
    BY <1>a, <1>4
  <2>3. QED
    BY <1>f, <2>1, <2>2 DEF Earlier
<1>12. NonePassedOver(r, over)
  <2> SUFFICES ASSUME "list" \notin over, NEW s \in (u.since + 1)..last
               PROVE  s \in u.had \union new
    BY <1>f DEF NonePassedOver
  <2>1. CASE s <= u.auto
    BY <1>1, <1>2, <2>1 DEF NonePassedOver
  <2>2. CASE s > u.auto
    <3>1. last \in later
      BY <1>1, <1>2, <2>2
    <3>2. s \in later
      BY <1>1, <1>4, <2>2, <3>1 DEF later
    <3>3. CASE s \in Ids(u)
      BY <1>1, <1>4, <3>2, <3>3 DEF Books, InBox, Numbered
    <3>4. CASE s \notin Ids(u)
      BY <3>2, <3>4 DEF new
    <3>5. QED
      BY <3>3, <3>4
  <2>3. QED
    BY <1>1, <1>2, <2>1, <2>2
<1>13. QED
  BY <1>1, <1>2, <1>3, <1>6, <1>7, <1>8, <1>9, <1>10, <1>11, <1>12, <1>f DEF Sound

\* PRMailWriteLocal: the next mail on the way gets an id of its own, which is no
\* larger than its number.
LEMMA WrittenSound ==
  ASSUME NEW u, NEW way, NEW n \in Nat, NEW over, Sound(u, way, n, over),
         NEW stamp \in Stamps, stamp > MaxRows, stamp <= MaxRows + n,
         \A s \in u.had : s < stamp,
         NEW rest, \A k \in DOMAIN rest : rest[k] \in Nat /\ stamp < rest[k] /\ \E j \in DOMAIN way : rest[k] = way[j]
  PROVE  LET w == Written(u, stamp)
         IN /\ Sound(w, rest, n, over) /\ w.auto = u.auto /\ w.gone = u.gone /\ Ids(u) \subseteq Ids(w)
            /\ \A i \in Ids(u) : w.mail_map[i].stamp = u.mail_map[i].stamp
<1> DEFINE id == alloc_id(u)
           map == Put(u.mail_map, id, stamp)
           w == [auto |-> u.auto, mail_map |-> map, coin |-> u.coin, had |-> u.had \union {stamp},
                 gone |-> u.gone, got |-> u.got, since |-> u.since]
<1>a. u.auto \in 0..MaxRows /\ u.since \in 0..MaxRows /\ MaxRows \in Nat /\ MaxPosts \in Nat
  BY RoleIs, Bounds DEF Sound
<1>1. /\ u \in Role /\ Books(u) /\ Numbered(u) /\ Earlier(u, way, n) /\ NonePassedOver(u, over)
      /\ u.coin \in Nat
      /\ u.had \subseteq Stamps /\ u.gone \subseteq Stamps /\ u.got \subseteq Stamps
      /\ Mails(u.mail_map) /\ Ids(u) = DOMAIN u.mail_map /\ Ids(u) \subseteq Stamps
  BY RoleIs DEF Sound
<1>2. Written(u, stamp) = w
  <2> DEFINE h == u.had \union {stamp}
  <2>1. Written(u, stamp) = [u EXCEPT !.mail_map = map, !.had = h]
    BY <1>1 DEF Written
  <2> HIDE DEF map, h
  <2>2. QED
    BY <1>1, <2>1 DEF Role, h
<1>3. /\ u.had = InBox(u) \union u.gone /\ InBox(u) \intersect u.gone = {}
      /\ u.got \subseteq u.had /\ u.coin = Cardinality(u.got)
      /\ \A i, j \in Ids(u) : u.mail_map[i].stamp = u.mail_map[j].stamp => i = j
      /\ \A i \in Ids(u) : u.mail_map[i].taken = (u.mail_map[i].stamp \in u.got)
  BY <1>1 DEF Books
<1>4. \A i \in Ids(u) : u.mail_map[i].stamp \in u.had
  BY <1>3 DEF InBox
\* The largest id is at most the number of a mail in the box.
<1>5. id \in MaxRows + 1 .. stamp /\ id \notin Ids(u)
  <2> DEFINE S == Ids(u) \union {MaxRows}
  <2>1. S \in SUBSET (0..MaxRows + MaxPosts) /\ S # {} /\ MaxRows + MaxPosts \in Nat /\ MaxRows \in S /\ Ids(u) \subseteq S
    BY <1>a, <1>1 DEF Stamps
  <2>2. \A i \in S : i < stamp
    <3>1. ASSUME NEW i \in Ids(u), i > MaxRows PROVE i < stamp
      <4>1. u.mail_map[i].stamp >= i
        BY <1>a, <1>1, <3>1 DEF Numbered, Stamps
      <4>2. u.mail_map[i].stamp \in Nat /\ u.mail_map[i].stamp < stamp /\ i \in Nat /\ stamp \in Nat
        BY <1>1, <1>4 DEF Stamps
      <4>3. QED
        BY <4>1, <4>2
    <3>2. \A i \in Ids(u) : i \in Nat
      BY <1>1 DEF Stamps
    <3>3. stamp \in Nat
      BY DEF Stamps
    <3>4. QED
      BY <1>a, <3>1, <3>2, <3>3
  <2>3. id = Max(S) + 1
    BY DEF alloc_id
  <2> HIDE DEF S, id
  <2>4. Max(S) \in S /\ \A i \in S : Max(S) >= i
    BY <2>1, MaxIs
  <2>5. Max(S) \in Nat /\ stamp \in Nat /\ S \subseteq Nat
    <3>1. S \subseteq Nat
      BY <2>1
    <3>2. stamp \in Nat
      BY DEF Stamps
    <3>3. QED
      BY <2>4, <3>1, <3>2
  <2>6. id \in MaxRows + 1 .. stamp
    BY <1>a, <2>1, <2>2, <2>3, <2>4, <2>5
  <2>7. id \notin S
    BY <2>3, <2>4, <2>5
  <2>8. QED
    BY <2>1, <2>6, <2>7
<1>6. /\ DOMAIN map = Ids(u) \union {id}
      /\ \A i \in Ids(u) : map[i] = u.mail_map[i]
      /\ map[id] = [stamp |-> stamp, taken |-> FALSE]
      /\ Mails(map)
  <2> HIDE DEF id
  <2>1. /\ DOMAIN map = Ids(u) \union {id}
        /\ \A i \in Ids(u) : map[i] = u.mail_map[i]
        /\ map[id] = [stamp |-> stamp, taken |-> FALSE]
        /\ map = [i \in DOMAIN map |-> map[i]]
    BY <1>1, <1>5 DEF Put
  <2> HIDE DEF map
  <2>2. id \in Stamps
    BY <1>a, <1>5 DEF Stamps
  <2>3. map[id] \in [stamp : Stamps, taken : BOOLEAN]
    BY <2>1
  <2>4. \A i \in Ids(u) : map[i] \in [stamp : Stamps, taken : BOOLEAN]
    BY <1>1, <2>1 DEF Mails
  <2>5. QED
    BY <1>1, <2>1, <2>2, <2>3, <2>4 DEF Mails
<1> HIDE DEF id, map
<1>7. w \in Role
  <2>1. u.had \union {stamp} \in SUBSET Stamps
    BY <1>1
  <2>2. QED
    BY <1>a, <1>1, <1>6, <2>1, IsRole
<1>f. /\ w.auto = u.auto /\ w.mail_map = map /\ w.coin = u.coin /\ w.had = u.had \union {stamp}
      /\ w.gone = u.gone /\ w.got = u.got /\ w.since = u.since
  OBVIOUS
<1> HIDE DEF w
<1>8. Ids(w) = Ids(u) \union {id}
  BY <1>6, <1>f DEF Ids
<1>9. InBox(w) = InBox(u) \union {stamp}
  BY <1>6, <1>8, <1>f DEF InBox
<1>10. stamp \notin u.had
  <2>1. stamp \in Nat
    BY DEF Stamps
  <2>2. QED
    BY <2>1
<1>11. Books(w)
  <2>1. map[id].stamp = stamp /\ map[id].taken = FALSE
    BY <1>6
  <2>2. \A i, j \in Ids(u) \union {id} : map[i].stamp = map[j].stamp => i = j
    BY <1>3, <1>4, <1>6, <1>10, <2>1
  <2>3. ASSUME NEW i \in Ids(u) \union {id} PROVE map[i].taken = (map[i].stamp \in u.got)
    <3>1. CASE i \in Ids(u)
      BY <1>3, <1>6, <3>1
    <3>2. CASE i = id
      <4>1. (map[i].stamp \in u.got) = FALSE
        BY <1>3, <1>10, <2>1, <3>2
      <4>2. map[i].taken = FALSE
        BY <2>1, <3>2
      <4>3. QED
        BY <4>1, <4>2
    <3>3. QED
      BY <3>1, <3>2
  <2>4. InBox(w) \intersect u.gone = {} /\ w.had = InBox(w) \union u.gone
    BY <1>3, <1>9, <1>10, <1>f
  <2>5. QED
    BY <1>3, <1>8, <1>f, <2>2, <2>3, <2>4 DEF Books
<1>12. Numbered(w)
  <2>1. ASSUME NEW i \in Ids(u)
        PROVE  IF i <= MaxRows THEN map[i].stamp = i ELSE map[i].stamp >= i
    BY <1>1, <1>6, <2>1 DEF Numbered
  <2>2. ~ id <= MaxRows /\ map[id].stamp >= id
    <3>1. stamp \in Nat /\ map[id].stamp = stamp
      BY <1>6 DEF Stamps
    <3>2. QED
      BY <1>a, <1>5, <3>1
  <2>3. QED
    BY <1>8, <1>f, <2>1, <2>2 DEF Numbered
<1>13. Earlier(w, rest, n)
  <2>1. ASSUME NEW s \in u.had
        PROVE  /\ s <= MaxRows => s <= u.auto
               /\ s <= MaxRows + n
               /\ \A k \in DOMAIN rest : s < rest[k]
    BY <1>1 DEF Earlier
  <2>2. ~ stamp <= MaxRows
    BY <1>a DEF Stamps
  <2>3. QED
    BY <1>f, <2>1, <2>2 DEF Earlier
<1>14. NonePassedOver(w, over)
  BY <1>1, <1>f DEF NonePassedOver
<1>15. QED
  BY <1>2, <1>6, <1>7, <1>8, <1>11, <1>12, <1>13, <1>14, <1>f DEF Sound

\* The stamps of some mails of a box are as many as the mails.
LEMMA StampsCount ==
  ASSUME NEW box, NEW ids, IsFiniteSet(ids),
         \A i, j \in ids : box[i].stamp = box[j].stamp => i = j
  PROVE  LET stamps == {box[i].stamp : i \in ids}
         IN IsFiniteSet(stamps) /\ Cardinality(stamps) = Cardinality(ids)
<1> DEFINE stamps == {box[i].stamp : i \in ids}
           f == [i \in ids |-> box[i].stamp]
<1>1. f \in Bijection(ids, stamps)
  <2>1. f \in [ids -> stamps] /\ \A i, j \in ids : f[i] = f[j] => i = j
    OBVIOUS
  <2>2. \A s \in stamps : \E i \in ids : f[i] = s
    OBVIOUS
  <2> HIDE DEF f, stamps
  <2>3. QED
    BY <2>1, <2>2 DEF Bijection, Injection, Surjection, IsInjective
<1> HIDE DEF f, stamps
<1>2. ExistsBijection(ids, stamps)
  BY <1>1 DEF ExistsBijection
<1>3. QED
  BY <1>2, FS_Bijection DEF stamps

LEMMA StampsFinite == IsFiniteSet(Stamps) /\ \A S : S \subseteq Stamps => IsFiniteSet(S)
<1>1. IsFiniteSet(Stamps)
  <2>1. 1 \in Int /\ MaxRows + MaxPosts \in Int
    BY Bounds
  <2>2. QED
    BY <2>1, FS_Interval DEF Stamps
<1>2. QED
  BY <1>1, FS_Subset

\* mail::take: an attachment is given for each mail that was not taken, and no
\* mail moves.
LEMMA TakenSound ==
  ASSUME NEW u, NEW way, NEW n \in Nat, NEW over, Sound(u, way, n, over), NEW ids, ids \subseteq Ids(u)
  PROVE  LET t == Taken(u, ids)
         IN /\ Sound(t, way, n, over) /\ t.auto = u.auto /\ t.gone = u.gone /\ Ids(t) = Ids(u)
            /\ \A i \in Ids(u) : t.mail_map[i].stamp = u.mail_map[i].stamp
<1> DEFINE new == {id \in ids : ~u.mail_map[id].taken}
           map == [i \in Ids(u) |-> IF i \in new THEN [u.mail_map[i] EXCEPT !.taken = TRUE] ELSE u.mail_map[i]]
           stamps == {u.mail_map[i].stamp : i \in new}
           coin == u.coin + Cardinality(new)
           got == u.got \union stamps
           t == [auto |-> u.auto, mail_map |-> map, coin |-> coin, had |-> u.had,
                 gone |-> u.gone, got |-> got, since |-> u.since]
<1>a. u.auto \in 0..MaxRows /\ u.since \in 0..MaxRows
  BY RoleIs DEF Sound
<1>1. /\ u \in Role /\ Books(u) /\ Numbered(u) /\ Earlier(u, way, n) /\ NonePassedOver(u, over)
      /\ u.coin \in Nat
      /\ u.had \in SUBSET Stamps /\ u.gone \in SUBSET Stamps /\ u.got \in SUBSET Stamps
      /\ Mails(u.mail_map) /\ Ids(u) = DOMAIN u.mail_map /\ Ids(u) \subseteq Stamps
  BY RoleIs DEF Sound
<1>2. Taken(u, ids) = t
  <2>1. Taken(u, ids) = [u EXCEPT !.mail_map = map, !.coin = coin, !.got = got]
    BY <1>1 DEF Taken
  <2> HIDE DEF map, coin, got
  <2>2. QED
    BY <1>1, <2>1 DEF Role
<1>3. /\ u.had = InBox(u) \union u.gone /\ InBox(u) \intersect u.gone = {}
      /\ u.got \subseteq u.had /\ u.coin = Cardinality(u.got)
      /\ \A i, j \in Ids(u) : u.mail_map[i].stamp = u.mail_map[j].stamp => i = j
      /\ \A i \in Ids(u) : u.mail_map[i].taken = (u.mail_map[i].stamp \in u.got)
  BY <1>1 DEF Books
<1>4. \A i \in Ids(u) : /\ u.mail_map[i].stamp \in u.had
                        /\ u.mail_map[i] \in [stamp : Stamps, taken : BOOLEAN]
  BY <1>1, <1>3 DEF InBox, Mails
<1>5. new \subseteq Ids(u) /\ \A i \in new : u.mail_map[i].stamp \notin u.got
  BY <1>3
<1>6. /\ stamps \subseteq u.had /\ stamps \intersect u.got = {}
      /\ \A i \in Ids(u) : u.mail_map[i].stamp \in stamps => i \in new
      /\ \A i \in new : u.mail_map[i].stamp \in stamps
  <2> HIDE DEF new
  <2>1. QED
    BY <1>3, <1>4, <1>5
<1>7. /\ DOMAIN map = Ids(u)
      /\ \A i \in Ids(u) : /\ map[i].stamp = u.mail_map[i].stamp
                           /\ i \in new => map[i].taken = TRUE
                           /\ i \notin new => map[i] = u.mail_map[i]
                           /\ map[i] \in [stamp : Stamps, taken : BOOLEAN]
      /\ Mails(map)
  <2> HIDE DEF new
  <2>1. /\ DOMAIN map = Ids(u) /\ map = [i \in DOMAIN map |-> map[i]]
        /\ \A i \in Ids(u) : map[i] = IF i \in new THEN [u.mail_map[i] EXCEPT !.taken = TRUE] ELSE u.mail_map[i]
    OBVIOUS
  <2> HIDE DEF map
  <2>2. ASSUME NEW i \in Ids(u)
        PROVE  /\ map[i].stamp = u.mail_map[i].stamp
               /\ i \in new => map[i].taken = TRUE
               /\ i \notin new => map[i] = u.mail_map[i]
               /\ map[i] \in [stamp : Stamps, taken : BOOLEAN]
    <3>1. u.mail_map[i] \in [stamp : Stamps, taken : BOOLEAN]
      BY <1>4
    <3>2. CASE i \in new
      <4>1. map[i] = [u.mail_map[i] EXCEPT !.taken = TRUE]
        BY <2>1, <3>2
      <4>2. QED
        BY <3>1, <3>2, <4>1
    <3>3. CASE i \notin new
      <4>1. map[i] = u.mail_map[i]
        BY <2>1, <3>3
      <4>2. QED
        BY <3>1, <3>3, <4>1
    <3>4. QED
      BY <3>2, <3>3
  <2>3. QED
    BY <1>1, <2>1, <2>2 DEF Mails
\* The coins.
<1>8. coin \in Nat /\ coin = Cardinality(got) /\ got \in SUBSET Stamps
  <2>1. IsFiniteSet(new) /\ IsFiniteSet(u.got) /\ new \subseteq Ids(u)
    BY <1>1, <1>5, StampsFinite
  <2> HIDE DEF new
  <2>2. \A i, j \in new : u.mail_map[i].stamp = u.mail_map[j].stamp => i = j
    BY <1>3, <2>1
  <2>3. IsFiniteSet(stamps) /\ Cardinality(stamps) = Cardinality(new)
    BY <2>1, <2>2, StampsCount
  <2> HIDE DEF stamps
  <2>4. /\ Cardinality(got) = Cardinality(u.got) + Cardinality(stamps) - Cardinality(u.got \intersect stamps)
    BY <2>1, <2>3, FS_Union
  <2>5. u.got \intersect stamps = {}
    BY <1>6
  <2>6. Cardinality(u.got \intersect stamps) = 0
    BY <2>5, FS_EmptySet
  <2>7. Cardinality(new) \in Nat
    BY <2>1, FS_CardinalityType
  <2> HIDE DEF got
  <2>8. coin = Cardinality(got) /\ coin \in Nat
    BY <1>1, <1>3, <2>3, <2>4, <2>6, <2>7
  <2>9. got \in SUBSET Stamps
    BY <1>1, <1>6 DEF got
  <2>10. QED
    BY <2>8, <2>9
<1>f. /\ t.auto = u.auto /\ t.mail_map = map /\ t.coin = coin /\ t.had = u.had
      /\ t.gone = u.gone /\ t.got = got /\ t.since = u.since
  OBVIOUS
<1>9. t \in Role
  <2> HIDE DEF map, coin, got
  <2>1. QED
    BY <1>a, <1>1, <1>7, <1>8, IsRole
<1> HIDE DEF t, coin, new, map
<1>10. Ids(t) = Ids(u) /\ InBox(t) = InBox(u)
  BY <1>7, <1>f DEF Ids, InBox
<1>11. Books(t)
  <2>1. \A i, j \in Ids(u) : map[i].stamp = map[j].stamp => i = j
    BY <1>3, <1>7
  <2>2. ASSUME NEW i \in Ids(u) PROVE map[i].taken = (map[i].stamp \in got)
    <3>1. CASE i \in new
      <4>1. (map[i].stamp \in got) = TRUE
        BY <1>6, <1>7, <3>1
      <4>2. map[i].taken = TRUE
        BY <1>7, <3>1
      <4>3. QED
        BY <4>1, <4>2
    <3>2. CASE i \notin new
      <4>1. (map[i].stamp \in got) = (u.mail_map[i].stamp \in u.got)
        BY <1>6, <1>7, <3>2
      <4>2. map[i].taken = u.mail_map[i].taken
        BY <1>7, <3>2
      <4>3. u.mail_map[i].taken = (u.mail_map[i].stamp \in u.got)
        BY <1>3
      <4>4. QED
        BY <4>1, <4>2, <4>3
    <3>3. QED
      BY <3>1, <3>2
  <2>3. got \subseteq u.had
    BY <1>3, <1>6
  <2>4. QED
    BY <1>3, <1>8, <1>10, <1>f, <2>1, <2>2, <2>3 DEF Books
<1>12. Numbered(t)
  BY <1>1, <1>7, <1>10, <1>f DEF Numbered
<1>13. Earlier(t, way, n) /\ NonePassedOver(t, over)
  BY <1>1, <1>f DEF Earlier, NonePassedOver
<1>14. QED
  BY <1>2, <1>7, <1>9, <1>10, <1>11, <1>12, <1>13, <1>f DEF Sound

\* mail_imp.cpp: what is deleted leaves the box for good, the others stay.
LEMMA DeletedSound ==
  ASSUME NEW u, NEW way, NEW n \in Nat, NEW over, Sound(u, way, n, over), NEW ids, ids \subseteq Ids(u)
  PROVE  LET d == Deleted(u, ids)
         IN /\ Sound(d, way, n, over) /\ d.auto = u.auto /\ u.gone \subseteq d.gone
            /\ Ids(d) = Ids(u) \ ids
            /\ \A i \in Ids(d) : d.mail_map[i].stamp = u.mail_map[i].stamp
            /\ \A i \in ids : u.mail_map[i].stamp \in d.gone
<1> DEFINE map == [i \in Ids(u) \ ids |-> u.mail_map[i]]
           stamps == {u.mail_map[i].stamp : i \in ids}
           gone == u.gone \union stamps
           d == [auto |-> u.auto, mail_map |-> map, coin |-> u.coin, had |-> u.had,
                 gone |-> gone, got |-> u.got, since |-> u.since]
<1>a. u.auto \in 0..MaxRows /\ u.since \in 0..MaxRows
  BY RoleIs DEF Sound
<1>1. /\ u \in Role /\ Books(u) /\ Numbered(u) /\ Earlier(u, way, n) /\ NonePassedOver(u, over)
      /\ u.coin \in Nat
      /\ u.had \in SUBSET Stamps /\ u.gone \in SUBSET Stamps /\ u.got \in SUBSET Stamps
      /\ Mails(u.mail_map) /\ Ids(u) = DOMAIN u.mail_map /\ Ids(u) \subseteq Stamps
  BY RoleIs DEF Sound
<1>2. Deleted(u, ids) = d
  <2>1. Deleted(u, ids) = [u EXCEPT !.mail_map = map, !.gone = gone]
    BY <1>1 DEF Deleted
  <2> HIDE DEF map, gone
  <2>2. QED
    BY <1>1, <2>1 DEF Role
<1>3. /\ u.had = InBox(u) \union u.gone /\ InBox(u) \intersect u.gone = {}
      /\ u.got \subseteq u.had /\ u.coin = Cardinality(u.got)
      /\ \A i, j \in Ids(u) : u.mail_map[i].stamp = u.mail_map[j].stamp => i = j
      /\ \A i \in Ids(u) : u.mail_map[i].taken = (u.mail_map[i].stamp \in u.got)
  BY <1>1 DEF Books
<1>4. /\ \A i \in Ids(u) : u.mail_map[i].stamp \in u.had
      /\ InBox(u) = {u.mail_map[i].stamp : i \in Ids(u)}
  BY <1>3 DEF InBox
<1>5. stamps \subseteq InBox(u) /\ stamps \subseteq u.had /\ gone \in SUBSET Stamps
  BY <1>1, <1>3, <1>4
<1>6. /\ DOMAIN map = Ids(u) \ ids /\ map = [i \in DOMAIN map |-> map[i]]
      /\ \A i \in Ids(u) \ ids : map[i] = u.mail_map[i]
  OBVIOUS
<1>f. /\ d.auto = u.auto /\ d.mail_map = map /\ d.coin = u.coin /\ d.had = u.had
      /\ d.gone = gone /\ d.got = u.got /\ d.since = u.since
  OBVIOUS
<1> HIDE DEF map
<1>7. Mails(map)
  <2>1. \A i \in DOMAIN map : map[i] \in [stamp : Stamps, taken : BOOLEAN]
    BY <1>1, <1>6 DEF Mails
  <2>2. QED
    BY <1>1, <1>6, <2>1 DEF Mails
<1>8. d \in Role
  <2> HIDE DEF gone
  <2>1. QED
    BY <1>a, <1>1, <1>5, <1>7, IsRole
<1> HIDE DEF d
<1>9. Ids(d) = Ids(u) \ ids
  BY <1>6, <1>f DEF Ids
<1>10. InBox(d) = InBox(u) \ stamps
  <2>1. InBox(d) = {u.mail_map[i].stamp : i \in Ids(u) \ ids}
    BY <1>6, <1>9, <1>f DEF InBox
  <2>2. QED
    BY <1>3, <1>4, <2>1
<1>11. Books(d)
  <2>1. d.had = InBox(d) \union d.gone /\ InBox(d) \intersect d.gone = {}
    BY <1>3, <1>5, <1>10, <1>f
  <2>2. \A i, j \in Ids(d) : d.mail_map[i].stamp = d.mail_map[j].stamp => i = j
    BY <1>3, <1>6, <1>9, <1>f
  <2>3. \A i \in Ids(d) : d.mail_map[i].taken = (d.mail_map[i].stamp \in d.got)
    BY <1>3, <1>6, <1>9, <1>f
  <2>4. QED
    BY <1>3, <1>f, <2>1, <2>2, <2>3 DEF Books
<1>12. Numbered(d)
  BY <1>1, <1>6, <1>9, <1>f DEF Numbered
<1>13. Earlier(d, way, n) /\ NonePassedOver(d, over)
  BY <1>1, <1>f DEF Earlier, NonePassedOver
<1>14. QED
  BY <1>2, <1>6, <1>8, <1>9, <1>11, <1>12, <1>13, <1>f DEF Sound

-----------------------------------------------------------------------------
(* The steps.                                                              *)

\* What a handler does to the role in memory: auto does not go back, and a mail
\* stays where it is until it is deleted.
Follows(u, v) ==
    /\ u.auto <= v.auto /\ u.gone \subseteq v.gone
    /\ \A i \in Ids(u) : \/ u.mail_map[i].stamp \in v.gone
                         \/ i \in Ids(v) /\ v.mail_map[i].stamp = u.mail_map[i].stamp

LEMMA FollowsReaches ==
  ASSUME NEW u \in Role, NEW v \in Role, Follows(u, v),
         NEW real \in Seq(Question), NEW game \in Seq(Message), Reaches(real, game, u)
  PROVE  Reaches(real, game, v)
<1>1. u.auto \in Nat /\ v.auto \in Nat /\ u.auto <= v.auto /\ v # NoRole
  BY RoleIs, NoRoleIsNone DEF Follows
<1>2. ASSUME NEW k \in DOMAIN real PROVE AskReaches(real[k], v)
  <2>1. real[k] \in Question /\ AskReaches(real[k], u)
    BY DEF Reaches
  <2>2. CASE real[k].type = "SystemTake"
    <3>1. real[k].auto \in Nat
      BY <2>1, <2>2, Bounds DEF Question
    <3>2. QED
      BY <1>1, <2>1, <3>1 DEF AskReaches
  <2>3. QED
    BY <2>2 DEF AskReaches
<1>3. ASSUME NEW k \in DOMAIN game PROVE ListReaches(game[k], v)
  <2>1. game[k] \in Message /\ ListReaches(game[k], u)
    BY DEF Reaches
  <2>2. CASE game[k].type = "SystemTake"
    <3>1. game[k].data \subseteq Nat
      BY <2>1, <2>2 DEF Message
    <3>2. ASSUME NEW id \in game[k].data PROVE (v.auto + 1)..id \subseteq game[k].data
      <4>1. (u.auto + 1)..id \subseteq game[k].data /\ id \in Nat
        BY <2>1, <2>2, <3>1 DEF ListReaches
      <4>2. QED
        BY <1>1, <4>1
    <3>3. QED
      BY <1>1, <3>2 DEF ListReaches
  <2>3. QED
    BY <2>2 DEF ListReaches
<1>4. QED
  BY <1>2, <1>3 DEF Reaches

LEMMA FollowsStillThere ==
  ASSUME NEW u, NEW v, Follows(u, v), NEW q, StillThere(u, q)
  PROVE  StillThere(v, q)
BY DEF Follows, StillThere

\* What is known of a role and of what is on the way, apart from the roles.
LEMMA InvFacts ==
  ASSUME Inv
  PROVE  /\ MaxRows \in Nat /\ MaxPosts \in Nat /\ MaxFaults \in Nat
         /\ rows \in Nat /\ rows <= MaxRows /\ sent \in Nat
         /\ \A k \in DOMAIN posts : posts[k] \in Nat /\ posts[k] > MaxRows
         /\ role # NoRole => role \in Role /\ Sound(role, posts, sent, overtaken)
         /\ user # NoRole => user \in Role /\ Sound(user, posts, sent, overtaken)
BY Bounds DEF Inv, Scalars, PostsInOrder, Roles, Sound

\* A step that puts Sound roles into memory and leaves the links alone.
LEMMA UserStep ==
  ASSUME Inv, UNCHANGED <<rows, system_mail_id, role, toReal, sent, faults, due, overtaken>>,
         online' = online, role_id' = role_id,
         user # NoRole, user' # NoRole, Sound(user', posts', sent, overtaken), Follows(user, user'),
         \A k \in DOMAIN posts' : posts'[k] \in Nat /\ (posts'[k] > MaxRows + sent \/ \E j \in DOMAIN posts : posts'[k] = posts[j]),
         posts' \in Seq(Stamps), PostsInOrder',
         toGame' \in Seq(Message), \A k \in DOMAIN toGame' : \E j \in DOMAIN toGame : toGame'[k] = toGame[j],
         asked' \in Seq([id : Stamps, stamp : Stamps]), asked = <<>> => asked' = <<>>,
         \A k \in DOMAIN asked' : \E j \in DOMAIN asked : asked'[k] = asked[j]
  PROVE  Inv'
<1>1. Scalars /\ LinkSound /\ ListsReach /\ PostsInOrder /\ AskedSound /\ Roles
  BY DEF Inv
<1>2. /\ user \in Role /\ user' \in Role /\ sent \in Nat
      /\ role # NoRole => Sound(role, posts, sent, overtaken)
  BY InvFacts DEF Sound
<1>3. Scalars'
  BY <1>1 DEF Scalars, Loaded
<1>4. LinkSound'
  BY <1>1 DEF LinkSound
<1>5. ListsReach'
  <2>1. CASE "list" \in overtaken
    BY <2>1 DEF ListsReach
  <2>2. CASE Reaches(toReal, toGame, user)
    <3>1. Reaches(toReal, toGame, user')
      BY <1>1, <1>2, <2>2, FollowsReaches DEF LinkSound
    <3>2. Reaches(toReal', toGame', user')
      BY <3>1 DEF Reaches
    <3>3. QED
      BY <3>2 DEF ListsReach
  <2>3. QED
    BY <1>1, <2>1, <2>2 DEF ListsReach
<1>6. AskedSound'
  <2>1. \A k \in DOMAIN asked' : asked'[k].id <= MaxRows => asked'[k].stamp = asked'[k].id
    BY <1>1 DEF AskedSound
  <2>2. CASE \A k \in DOMAIN asked : StillThere(user, asked[k])
    <3>1. \A k \in DOMAIN asked : StillThere(user', asked[k])
      BY <2>2, FollowsStillThere
    <3>2. QED
      BY <2>1, <3>1 DEF AskedSound
  <2>3. CASE "request" \in overtaken \/ asked = <<>>
    BY <2>1, <2>3 DEF AskedSound
  <2>4. QED
    BY <1>1, <2>2, <2>3 DEF AskedSound
<1>7. Roles'
  <2>1. role # NoRole => Sound(role, posts', sent, overtaken)
    BY <1>2, SoundStays
  <2>2. QED
    BY <2>1 DEF Roles
<1>8. QED
  BY <1>3, <1>4, <1>5, <1>6, <1>7 DEF Inv

\* A step that leaves the roles, the client and the mails on the way alone.
LEMMA LinkStep ==
  ASSUME Inv, UNCHANGED <<role, user, online, role_id, posts, asked, sent, faults, overtaken>>,
         rows' \in rows..MaxRows, system_mail_id' \in 0..rows', due' \in 0..rows',
         toReal' \in Seq(Question),
         \A k \in DOMAIN toReal' : (\E j \in DOMAIN toReal : toReal'[k] = toReal[j]) \/ (user # NoRole /\ toReal'[k] = Ask(user)),
         toGame' \in Seq(Message),
         \A k \in DOMAIN toGame' :
            \/ \E j \in DOMAIN toGame : toGame'[k] = toGame[j]
            \/ Told(toGame'[k], rows') /\ ("list" \in overtaken \/ ListReaches(toGame'[k], user))
  PROVE  Inv'
<1>1. Scalars /\ LinkSound /\ ListsReach /\ PostsInOrder /\ AskedSound /\ Roles
  BY DEF Inv
<1>2. /\ rows \in Nat /\ rows' \in Nat /\ rows <= rows' /\ rows' <= MaxRows /\ MaxRows \in Nat
      /\ user # NoRole => user \in Role
  BY InvFacts
<1>3. Scalars'
  BY <1>1, <1>2 DEF Scalars, Loaded
<1>4. LinkSound'
  <2>1. ASSUME NEW k \in DOMAIN toGame' PROVE Told(toGame'[k], rows')
    <3>1. CASE \E j \in DOMAIN toGame : toGame'[k] = toGame[j]
      <4>1. Told(toGame'[k], rows) /\ toGame'[k] \in Message
        BY <1>1, <3>1 DEF LinkSound
      <4>2. CASE toGame'[k].type = "SystemTake"
        BY <1>2, <4>1, <4>2 DEF Told
      <4>3. CASE toGame'[k].type # "SystemTake"
        <5>1. toGame'[k].id \in Nat
          BY <1>2, <4>1, <4>3 DEF Message
        <5>2. QED
          BY <1>2, <4>1, <4>3, <5>1 DEF Told
      <4>4. QED
        BY <4>2, <4>3
    <3>2. QED
      BY <3>1
  <2>2. QED
    BY <2>1 DEF LinkSound
<1>5. ListsReach'
  <2>1. CASE "list" \in overtaken
    BY <2>1 DEF ListsReach
  <2>2. CASE "list" \notin overtaken
    <3>1. Reaches(toReal, toGame, user)
      BY <1>1, <2>2 DEF ListsReach
    <3>2. user # NoRole => AskReaches(Ask(user), user)
      <4>1. user # NoRole => user.auto \in Nat
        BY <1>2, RoleIs
      <4>2. QED
        BY <4>1 DEF AskReaches, Ask
    <3>3. Reaches(toReal', toGame', user)
      BY <2>2, <3>1, <3>2 DEF Reaches
    <3>4. QED
      BY <3>3 DEF ListsReach
  <2>3. QED
    BY <2>1, <2>2
<1>6. PostsInOrder' /\ AskedSound' /\ Roles'
  BY <1>1 DEF PostsInOrder, AskedSound, Roles
<1>7. QED
  BY <1>3, <1>4, <1>5, <1>6 DEF Inv

LEMMA LinkTypes == Inv => toReal \in Seq(Question) /\ toGame \in Seq(Message)
BY DEF Inv, LinkSound

LEMMA SaveStep ==
  ASSUME Inv, PQMailSave
  PROVE  Inv'
<1> DEFINE m == [type |-> "Save", id |-> rows + 1]
<1>1. /\ rows \in Nat /\ rows < MaxRows /\ rows' = rows + 1 /\ MaxRows \in Nat
      /\ system_mail_id \in 0..rows /\ toGame \in Seq(Message)
  BY InvFacts, LinkTypes DEF PQMailSave, Inv, Scalars
<1>2. m \in Message /\ Told(m, rows') /\ ListReaches(m, user)
  BY <1>1 DEF Message, Told, ListReaches
<1>3. toGame' = Append(toGame, m)
  BY DEF PQMailSave
<1> HIDE DEF m
<1>4. toGame' \in Seq(Message) /\ \A k \in DOMAIN toGame' : (\E j \in DOMAIN toGame : toGame'[k] = toGame[j]) \/ toGame'[k] = m
  BY <1>1, <1>2, <1>3, AppendOf
<1>5. /\ UNCHANGED <<role, user, online, role_id, posts, asked, sent, faults, overtaken>>
      /\ toReal' = toReal /\ toReal \in Seq(Question)
      /\ rows' \in rows..MaxRows /\ system_mail_id' \in 0..rows' /\ due' \in 0..rows'
  BY <1>1, LinkTypes DEF PQMailSave
<1>6. QED
  BY <1>2, <1>4, <1>5, LinkStep

\* What is taken from realdb's queue, and answered.
LEMMA RealdbStep ==
  ASSUME Inv, HandleRealdb
  PROVE  Inv'
<1>1. /\ toReal # <<>> /\ toReal \in Seq(Question) /\ toGame \in Seq(Message)
      /\ rows \in 0..MaxRows /\ system_mail_id \in 0..rows /\ due \in 0..rows /\ MaxRows \in Nat
  BY InvFacts, LinkTypes DEF HandleRealdb, PQMailGetSystemId, PQMailSystemTake, Inv, Scalars
<1>2. /\ toReal' \in Seq(Question) /\ Head(toReal) \in Question /\ Head(toReal) = toReal[1] /\ 1 \in DOMAIN toReal
      /\ \A k \in DOMAIN toReal' : \E j \in DOMAIN toReal : toReal'[k] = toReal[j]
  <2>1. toReal' = Tail(toReal)
    BY DEF HandleRealdb, PQMailGetSystemId, PQMailSystemTake
  <2>2. QED
    BY <1>1, <2>1, TailOf
<1>3. /\ UNCHANGED <<role, user, online, role_id, posts, asked, sent, faults, overtaken>>
      /\ rows' = rows /\ system_mail_id' = system_mail_id /\ due' = due
  BY DEF HandleRealdb, PQMailGetSystemId, PQMailSystemTake
<1>4. CASE PQMailGetSystemId
  <2> DEFINE m == [type |-> "GetSystemId", id |-> rows]
  <2>1. m \in Message /\ Told(m, rows) /\ ListReaches(m, user)
    BY <1>1 DEF Message, Told, ListReaches
  <2>2. toGame' = Append(toGame, m)
    BY <1>4 DEF PQMailGetSystemId
  <2> HIDE DEF m
  <2>3. toGame' \in Seq(Message) /\ \A k \in DOMAIN toGame' : (\E j \in DOMAIN toGame : toGame'[k] = toGame[j]) \/ toGame'[k] = m
    BY <1>1, <2>1, <2>2, AppendOf
  <2>4. QED
    BY <1>1, <1>2, <1>3, <2>1, <2>3, LinkStep
<1>5. CASE PQMailSystemTake
  <2> DEFINE a == Head(toReal).auto
             list == {id \in 1..rows : id > a}
             m == [type |-> "SystemTake", data |-> list]
  <2>1. /\ Head(toReal).type = "SystemTake"
        /\ toGame' = IF list = {} THEN toGame ELSE Append(toGame, m)
    BY <1>5 DEF PQMailSystemTake
  <2>2. a \in Nat
    BY <1>1, <1>2, <2>1 DEF Question
  <2>3. m \in Message /\ Told(m, rows)
    BY <1>1 DEF Message, Told
  <2>4. "list" \in overtaken \/ ListReaches(m, user)
    <3>1. SUFFICES ASSUME "list" \notin overtaken PROVE ListReaches(m, user)
      OBVIOUS
    <3>2. AskReaches(Head(toReal), user)
      BY <1>2, <3>1 DEF Inv, ListsReach, Reaches
    <3>3. user # NoRole /\ a <= user.auto
      BY <2>1, <3>2 DEF AskReaches
    <3>4. user.auto \in Nat
      BY <3>3, InvFacts, RoleIs
    <3>5. ASSUME NEW id \in list PROVE (user.auto + 1)..id \subseteq list
      BY <1>1, <2>2, <3>3, <3>4
    <3>6. QED
      BY <3>3, <3>5 DEF ListReaches
  <2> HIDE DEF m
  <2>5. toGame' \in Seq(Message) /\ \A k \in DOMAIN toGame' : (\E j \in DOMAIN toGame : toGame'[k] = toGame[j]) \/ toGame'[k] = m
    BY <1>1, <2>1, <2>3, AppendOf
  <2>6. QED
    BY <1>1, <1>2, <1>3, <2>3, <2>4, <2>5, LinkStep
<1>6. QED
  BY <1>4, <1>5 DEF HandleRealdb

\* What is taken from the game server's queue.
LEMMA GameStep ==
  ASSUME Inv, HandleGame
  PROVE  Inv'
<1>1. /\ toGame # <<>> /\ toReal \in Seq(Question) /\ toGame \in Seq(Message)
      /\ rows \in 0..MaxRows /\ system_mail_id \in 0..rows /\ due \in 0..rows /\ MaxRows \in Nat
  BY InvFacts, LinkTypes DEF HandleGame, PRMailGetSystemId, PRMailSave, PRMailSystemTake, Inv, Scalars
<1>2. /\ toGame' \in Seq(Message) /\ Head(toGame) \in Message /\ Head(toGame) = toGame[1] /\ 1 \in DOMAIN toGame
      /\ \A k \in DOMAIN toGame' : \E j \in DOMAIN toGame : toGame'[k] = toGame[j]
  <2>1. toGame' = Tail(toGame)
    BY DEF HandleGame, PRMailGetSystemId, PRMailSave, PRMailSystemTake
  <2>2. QED
    BY <1>1, <2>1, TailOf
<1>3. Told(Head(toGame), rows)
  BY <1>2 DEF Inv, LinkSound
<1>4. CASE PRMailGetSystemId
  <2>1. Head(toGame).type = "GetSystemId" /\ system_mail_id' = Head(toGame).id
    BY <1>4 DEF PRMailGetSystemId
  <2>2. system_mail_id' \in 0..rows
    BY <1>1, <1>2, <1>3, <2>1 DEF Told, Message
  <2>3. QED
    BY <1>1, <1>2, <1>4, <2>2, LinkStep DEF PRMailGetSystemId
<1>5. CASE PRMailSave
  <2>1. /\ Head(toGame).type = "Save"
        /\ system_mail_id' = Max({system_mail_id, Head(toGame).id})
        /\ toReal' = IF Loaded /\ role_id THEN Append(toReal, Ask(user)) ELSE toReal
        /\ UNCHANGED <<rows, role, user, online, role_id, posts, asked, sent, faults, due, overtaken>>
    BY <1>5 DEF PRMailSave
  <2>2. system_mail_id' \in 0..rows
    <3> DEFINE S == {system_mail_id, Head(toGame).id}
    <3>1. Head(toGame).id \in 0..rows
      BY <1>1, <1>2, <1>3, <2>1 DEF Told, Message
    <3>2. S \in SUBSET (0..rows) /\ S # {}
      BY <1>1, <3>1
    <3> HIDE DEF S
    <3>3. Max(S) \in S
      <4>1. rows \in Nat
        BY InvFacts
      <4>2. QED
        BY <3>2, <4>1, MaxIs
    <3>4. QED
      BY <2>1, <3>2, <3>3 DEF S
  <2>3. user # NoRole => Ask(user) \in Question
    <3>1. user # NoRole => user.auto \in 0..MaxRows
      BY InvFacts, RoleIs
    <3>2. QED
      BY <3>1 DEF Ask, Question
  <2>4. /\ toReal' \in Seq(Question)
        /\ \A k \in DOMAIN toReal' : (\E j \in DOMAIN toReal : toReal'[k] = toReal[j]) \/ (user # NoRole /\ toReal'[k] = Ask(user))
    BY <1>1, <2>1, <2>3, AppendOf DEF Loaded
  <2>5. QED
    BY <1>1, <1>2, <2>1, <2>2, <2>4, LinkStep
<1>6. CASE PRMailSystemTake
  <2> DEFINE list == Head(toGame).data
  <2>1. /\ Head(toGame).type = "SystemTake"
        /\ user' = IF Loaded THEN Received(user, list) ELSE user
        /\ UNCHANGED <<rows, system_mail_id, role, online, role_id, toReal, posts, asked, sent, faults, due, overtaken>>
    BY <1>6 DEF PRMailSystemTake
  <2>2. CASE ~Loaded
    BY <1>1, <1>2, <2>1, <2>2, LinkStep
  <2>3. CASE Loaded
    <3>1. user # NoRole /\ user \in Role /\ Sound(user, posts, sent, overtaken)
      BY <2>3, InvFacts DEF Loaded
    <3>2. list \in SUBSET (1..MaxRows)
      BY <1>2, <2>1 DEF Message
    <3>3. "list" \in overtaken \/ \A id \in list : (user.auto + 1)..id \subseteq list
      BY <1>2, <2>1 DEF Inv, ListsReach, Reaches, ListReaches
    <3> DEFINE v == Received(user, list)
    <3>4. /\ Sound(v, posts, sent, overtaken) /\ user.auto <= v.auto /\ v.gone = user.gone /\ Ids(user) \subseteq Ids(v)
          /\ \A i \in Ids(user) : v.mail_map[i].stamp = user.mail_map[i].stamp
      BY <3>1, <3>2, <3>3, InvFacts, ReceivedSound
    <3>5. user' = v
      BY <2>1, <2>3
    <3> HIDE DEF v, list
    <3>6. Follows(user, user') /\ user' # NoRole /\ Sound(user', posts', sent, overtaken)
      BY <2>1, <3>4, <3>5, NoRoleIsNone DEF Follows, Sound
    <3>7. /\ posts' \in Seq(Stamps) /\ PostsInOrder' /\ asked' \in Seq([id : Stamps, stamp : Stamps])
          /\ \A k \in DOMAIN posts' : posts'[k] \in Nat /\ posts'[k] = posts[k]
      BY <2>1, InvFacts DEF Inv, PostsInOrder, Scalars, AskedSound
    <3>8. QED
      BY <1>2, <2>1, <3>1, <3>6, <3>7, UserStep
  <2>4. QED
    BY <2>2, <2>3
<1>7. QED
  BY <1>4, <1>5, <1>6 DEF HandleGame

\* A request of the client, and what the others write to the role.
LEMMA RequestStep ==
  ASSUME Inv, PQMailTake \/ PQMailDel \/ PQMailTakeAll \/ PQMailDelAll
  PROVE  Inv'
<1>1. /\ UNCHANGED <<rows, system_mail_id, role, online, role_id, toReal, toGame, posts, sent, faults, due, overtaken>>
  BY DEF PQMailTake, PQMailDel, PQMailTakeAll, PQMailDelAll
<1>2. /\ asked \in Seq([id : Stamps, stamp : Stamps]) /\ toGame \in Seq(Message)
      /\ posts \in Seq(Stamps) /\ PostsInOrder'
      /\ \A k \in DOMAIN posts' : posts'[k] \in Nat /\ posts'[k] = posts[k]
  BY <1>1, InvFacts, LinkTypes DEF Inv, AskedSound, Scalars, PostsInOrder
<1>3. /\ asked' \in Seq([id : Stamps, stamp : Stamps]) /\ (asked = <<>> => asked' = <<>>)
      /\ \A k \in DOMAIN asked' : \E j \in DOMAIN asked : asked'[k] = asked[j]
  <2>1. CASE asked' = asked
    BY <1>2, <2>1
  <2>2. CASE asked # <<>> /\ asked' = Tail(asked)
    BY <1>2, <2>2, TailOf
  <2>3. QED
    BY <2>1, <2>2 DEF PQMailTake, PQMailDel, PQMailTakeAll, PQMailDelAll
<1>4. CASE user # NoRole
  <2>1. user \in Role /\ Sound(user, posts, sent, overtaken) /\ sent \in Nat
    BY <1>4, InvFacts
  <2>2. \E ids : ids \subseteq Ids(user) /\ (user' = Taken(user, ids) \/ user' = Deleted(user, ids))
    <3> DEFINE one == {Head(asked).id} \intersect Ids(user)
    <3>1. CASE PQMailTake \/ PQMailDel
      <4>1. one \subseteq Ids(user) /\ (user' = Taken(user, one) \/ user' = Deleted(user, one))
        BY <1>4, <3>1 DEF PQMailTake, PQMailDel, Loaded
      <4>2. QED
        BY <4>1
    <3>2. CASE PQMailTakeAll
      BY <3>2 DEF PQMailTakeAll
    <3>3. CASE PQMailDelAll
      <4> DEFINE ids == {id \in Ids(user) : user.mail_map[id].taken}
      <4>1. ids \subseteq Ids(user) /\ user' = Deleted(user, ids)
        BY <3>3 DEF PQMailDelAll
      <4>2. QED
        BY <4>1
    <3>4. QED
      BY <3>1, <3>2, <3>3
  <2>3. PICK ids : ids \subseteq Ids(user) /\ (user' = Taken(user, ids) \/ user' = Deleted(user, ids))
    BY <2>2
  <2>4. Sound(user', posts, sent, overtaken) /\ Follows(user, user')
    <3>0. user.auto \in Nat
      BY <2>1, RoleIs
    <3>1. CASE user' = Taken(user, ids)
      <4> DEFINE t == Taken(user, ids)
      <4>1. /\ Sound(t, posts, sent, overtaken) /\ t.auto = user.auto /\ t.gone = user.gone /\ Ids(t) = Ids(user)
            /\ \A i \in Ids(user) : t.mail_map[i].stamp = user.mail_map[i].stamp
        BY <2>1, <2>3, TakenSound
      <4> HIDE DEF t
      <4>2. Follows(user, t)
        BY <3>0, <4>1 DEF Follows
      <4>3. QED
        BY <3>1, <4>1, <4>2 DEF t
    <3>2. CASE user' = Deleted(user, ids)
      <4> DEFINE d == Deleted(user, ids)
      <4>1. /\ Sound(d, posts, sent, overtaken) /\ d.auto = user.auto /\ user.gone \subseteq d.gone
            /\ Ids(d) = Ids(user) \ ids
            /\ \A i \in Ids(d) : d.mail_map[i].stamp = user.mail_map[i].stamp
            /\ \A i \in ids : user.mail_map[i].stamp \in d.gone
        BY <2>1, <2>3, DeletedSound
      <4> HIDE DEF d
      <4>2. Follows(user, d)
        BY <3>0, <4>1 DEF Follows
      <4>3. QED
        BY <3>2, <4>1, <4>2 DEF d
    <3>3. QED
      BY <2>3, <3>1, <3>2
  <2>5. user' # NoRole
    BY <2>4, NoRoleIsNone DEF Sound
  <2>6. QED
    BY <1>1, <1>2, <1>3, <1>4, <2>4, <2>5, UserStep
\* A request that comes when the role is no longer in memory.
<1>5. CASE user = NoRole
  <2>1. ~online
    BY <1>5 DEF Inv, Scalars, Loaded
  <2>2. user' = user
    BY <1>5, <2>1 DEF PQMailTake, PQMailDel, PQMailTakeAll, PQMailDelAll, Loaded
  <2>3. AskedSound'
    <3>1. /\ \A k \in DOMAIN asked : asked[k].id <= MaxRows => asked[k].stamp = asked[k].id
          /\ "request" \in overtaken \/ asked = <<>>
      BY <1>5 DEF Inv, AskedSound
    <3>2. \A k \in DOMAIN asked' : asked'[k].id <= MaxRows => asked'[k].stamp = asked'[k].id
      BY <1>3, <3>1
    <3>3. "request" \in overtaken' \/ asked' = <<>>
      BY <1>1, <1>3, <3>1
    <3>4. QED
      BY <1>3, <3>2, <3>3 DEF AskedSound
  <2>4. Scalars' /\ LinkSound' /\ ListsReach' /\ PostsInOrder' /\ Roles'
    BY <1>1, <2>2 DEF Inv, Scalars, Loaded, LinkSound, ListsReach, PostsInOrder, Roles
  <2>5. QED
    BY <2>3, <2>4 DEF Inv
<1>6. QED
  BY <1>4, <1>5

\* What is left of the mails on the way once the first is delivered.
LEMMA PostsAre ==
  ASSUME Inv, posts # <<>>
  PROVE  /\ Head(posts) \in Stamps /\ Head(posts) > MaxRows /\ Head(posts) <= MaxRows + sent
         /\ Tail(posts) \in Seq(Stamps) /\ Head(posts) = posts[1] /\ 1 \in DOMAIN posts
         /\ \A k \in DOMAIN Tail(posts) :
                /\ Tail(posts)[k] \in MaxRows + 1 .. MaxRows + sent /\ Tail(posts)[k] \in Nat
                /\ Head(posts) < Tail(posts)[k]
                /\ \E j \in DOMAIN posts : Tail(posts)[k] = posts[j]
         /\ \A j, k \in DOMAIN Tail(posts) : j < k => Tail(posts)[j] < Tail(posts)[k]
<1>1. posts \in Seq(Stamps) /\ MaxRows \in Nat /\ sent \in Nat
  BY InvFacts DEF Inv, Scalars
<1>2. /\ \A k \in DOMAIN posts : posts[k] \in MaxRows + 1 .. MaxRows + sent
      /\ \A j, k \in DOMAIN posts : j < k => posts[j] < posts[k]
  BY DEF Inv, PostsInOrder
<1>3. /\ Tail(posts) \in Seq(Stamps) /\ Head(posts) \in Stamps /\ Head(posts) = posts[1] /\ 1 \in DOMAIN posts
      /\ \A k \in DOMAIN Tail(posts) : k + 1 \in DOMAIN posts /\ k \in Nat /\ k >= 1 /\ Tail(posts)[k] = posts[k + 1]
  <2>1. DOMAIN Tail(posts) = 1..Len(Tail(posts)) /\ Len(Tail(posts)) \in Nat
    BY <1>1
  <2>2. QED
    BY <1>1, <2>1, TailOf
<1>4. Head(posts) > MaxRows /\ Head(posts) <= MaxRows + sent
  BY <1>1, <1>2, <1>3
<1>5. ASSUME NEW k \in DOMAIN Tail(posts)
      PROVE  /\ Tail(posts)[k] \in MaxRows + 1 .. MaxRows + sent /\ Tail(posts)[k] \in Nat
             /\ Head(posts) < Tail(posts)[k]
             /\ \E j \in DOMAIN posts : Tail(posts)[k] = posts[j]
  <2>1. k + 1 \in DOMAIN posts /\ 1 < k + 1 /\ Tail(posts)[k] = posts[k + 1]
    BY <1>3
  <2>2. QED
    BY <1>1, <1>2, <1>3, <2>1
<1>6. ASSUME NEW j \in DOMAIN Tail(posts), NEW k \in DOMAIN Tail(posts), j < k
      PROVE  Tail(posts)[j] < Tail(posts)[k]
  <2>1. j + 1 \in DOMAIN posts /\ k + 1 \in DOMAIN posts /\ j + 1 < k + 1
    BY <1>3, <1>6
  <2>2. QED
    BY <1>2, <1>3, <2>1
<1>7. QED
  BY <1>3, <1>4, <1>5, <1>6

LEMMA WriteStep ==
  ASSUME Inv, PRMailWriteLocal
  PROVE  Inv'
<1> DEFINE stamp == Head(posts)
           rest == Tail(posts)
<1>1. /\ posts # <<>> /\ posts' = rest
      /\ UNCHANGED <<rows, system_mail_id, role, online, role_id, toReal, toGame, asked, sent, faults, due, overtaken>>
  BY DEF PRMailWriteLocal
<1>2. /\ stamp \in Stamps /\ stamp > MaxRows /\ stamp <= MaxRows + sent
      /\ rest \in Seq(Stamps) /\ stamp = posts[1] /\ 1 \in DOMAIN posts
      /\ \A k \in DOMAIN rest :
            /\ rest[k] \in MaxRows + 1 .. MaxRows + sent /\ rest[k] \in Nat
            /\ stamp < rest[k]
            /\ \E j \in DOMAIN posts : rest[k] = posts[j]
      /\ \A j, k \in DOMAIN rest : j < k => rest[j] < rest[k]
  BY <1>1, PostsAre
<1>3. /\ asked \in Seq([id : Stamps, stamp : Stamps]) /\ toGame \in Seq(Message) /\ sent \in Nat
  BY InvFacts, LinkTypes DEF Inv, AskedSound
<1>4. PostsInOrder' /\ posts' \in Seq(Stamps)
  BY <1>1, <1>2 DEF PostsInOrder
<1> HIDE DEF stamp, rest
<1>5. ASSUME NEW u, Sound(u, posts, sent, overtaken)
      PROVE  LET w == Written(u, stamp)
             IN /\ Sound(w, rest, sent, overtaken) /\ w.auto = u.auto /\ w.gone = u.gone /\ Ids(u) \subseteq Ids(w)
                /\ \A i \in Ids(u) : w.mail_map[i].stamp = u.mail_map[i].stamp
  <2>1. \A s \in u.had : s < stamp
    BY <1>2, <1>5 DEF Sound, Earlier
  <2>2. \A k \in DOMAIN rest : rest[k] \in Nat /\ stamp < rest[k] /\ \E j \in DOMAIN posts : rest[k] = posts[j]
    BY <1>2
  <2>3. stamp \in Stamps /\ stamp > MaxRows /\ stamp <= MaxRows + sent /\ sent \in Nat
    BY <1>2, <1>3
  <2>4. QED
    BY <1>5, <2>1, <2>2, <2>3, WrittenSound
<1>6. CASE user # NoRole
  <2> DEFINE w == Written(user, stamp)
  <2>1. user \in Role /\ Sound(user, posts, sent, overtaken) /\ user.auto \in Nat
    BY <1>6, InvFacts, RoleIs
  <2>2. /\ Sound(w, rest, sent, overtaken) /\ w.auto = user.auto /\ w.gone = user.gone /\ Ids(user) \subseteq Ids(w)
        /\ \A i \in Ids(user) : w.mail_map[i].stamp = user.mail_map[i].stamp
    BY <1>5, <2>1
  <2>3. user' = w
    BY <1>6 DEF PRMailWriteLocal, Loaded, stamp
  <2> HIDE DEF w
  <2>4. Follows(user, user') /\ user' # NoRole /\ Sound(user', posts', sent, overtaken)
    BY <1>1, <2>1, <2>2, <2>3, NoRoleIsNone DEF Follows, Sound
  <2>5. QED
    BY <1>1, <1>2, <1>3, <1>4, <1>6, <2>4, UserStep
<1>7. CASE user = NoRole
  <2>1. user' # NoRole => Sound(user', posts', sent, overtaken)
    <3>1. CASE role # NoRole
      <4>1. user' = Written(role, stamp)
        BY <1>7, <3>1 DEF PRMailWriteLocal, Loaded, stamp
      <4>2. Sound(role, posts, sent, overtaken)
        BY <3>1, InvFacts
      <4>3. QED
        BY <1>1, <1>5, <4>1, <4>2
    <3>2. CASE role = NoRole
      BY <1>7, <3>2 DEF PRMailWriteLocal, Loaded
    <3>3. QED
      BY <3>1, <3>2
  <2>2. role # NoRole => Sound(role, posts', sent, overtaken)
    <3>1. \A k \in DOMAIN posts' : posts'[k] \in Nat /\ \E j \in DOMAIN posts : posts'[k] = posts[j]
      BY <1>1, <1>2
    <3>2. role # NoRole => Sound(role, posts, sent, overtaken)
      BY InvFacts
    <3>3. \A k \in DOMAIN posts' : posts'[k] \in Nat /\ (posts'[k] > MaxRows + sent \/ \E j \in DOMAIN posts : posts'[k] = posts[j])
      BY <3>1
    <3>4. sent <= sent /\ sent \in Nat
      BY <1>3
    <3>5. QED
      BY <3>2, <3>3, <3>4, SoundStays
  <2>3. ListsReach'
    <3>1. CASE "list" \in overtaken
      BY <1>1, <3>1 DEF ListsReach
    <3>2. CASE Reaches(toReal, toGame, user)
      <4>1. \A u : Reaches(toReal, toGame, u)
        BY <1>7, <3>2 DEF Reaches, AskReaches, ListReaches
      <4>2. QED
        BY <1>1, <4>1 DEF ListsReach
    <3>3. QED
      BY <3>1, <3>2 DEF Inv, ListsReach
  <2>4. AskedSound'
    BY <1>1, <1>7 DEF Inv, AskedSound
  <2>5. Scalars' /\ LinkSound'
    BY <1>1, <1>4, <1>7 DEF Inv, Scalars, Loaded, LinkSound
  <2>6. QED
    BY <1>1, <1>4, <2>1, <2>2, <2>3, <2>4, <2>5 DEF Inv, Roles
<1>8. QED
  BY <1>6, <1>7

\* A mail is sent to the role.
LEMMA SendStep ==
  ASSUME Inv, Send
  PROVE  Inv'
<1> DEFINE stamp == MaxRows + sent + 1
<1>1. /\ sent < MaxPosts /\ sent' = sent + 1 /\ posts' = Append(posts, stamp)
      /\ UNCHANGED <<rows, system_mail_id, role, user, online, role_id, toReal, toGame, asked, faults, due, overtaken>>
  BY DEF Send
<1>2. /\ sent \in Nat /\ MaxRows \in Nat /\ MaxPosts \in Nat /\ posts \in Seq(Stamps)
      /\ \A k \in DOMAIN posts : posts[k] \in MaxRows + 1 .. MaxRows + sent
      /\ \A j, k \in DOMAIN posts : j < k => posts[j] < posts[k]
  BY InvFacts DEF Inv, Scalars, PostsInOrder
<1>3. stamp \in Stamps /\ stamp \in Nat
  BY <1>1, <1>2 DEF Stamps
<1>4. /\ posts' \in Seq(Stamps) /\ DOMAIN posts = 1..Len(posts) /\ Len(posts) \in Nat
      /\ \A k \in DOMAIN posts' :
            \/ k \in DOMAIN posts /\ k <= Len(posts) /\ posts'[k] = posts[k]
            \/ k = Len(posts) + 1 /\ posts'[k] = stamp
  <2> HIDE DEF stamp
  <2>1. QED
    BY <1>1, <1>2, <1>3, AppendOf
<1>5. \A k \in DOMAIN posts' : posts'[k] \in MaxRows + 1 .. MaxRows + sent' /\ posts'[k] \in Nat
  BY <1>1, <1>2, <1>4
<1>6. ASSUME NEW j \in DOMAIN posts', NEW k \in DOMAIN posts', j < k PROVE posts'[j] < posts'[k]
  <2>1. j \in DOMAIN posts /\ j <= Len(posts) /\ posts'[j] = posts[j]
    BY <1>4, <1>6
  <2>2. CASE k \in DOMAIN posts /\ posts'[k] = posts[k]
    BY <1>2, <1>6, <2>1, <2>2
  <2>3. CASE posts'[k] = stamp
    BY <1>2, <2>1, <2>3
  <2>4. QED
    BY <1>4, <2>2, <2>3
<1>7. PostsInOrder'
  BY <1>5, <1>6 DEF PostsInOrder
<1>8. ASSUME NEW u, Sound(u, posts, sent, overtaken) PROVE Sound(u, posts', sent', overtaken)
  <2>1. sent' \in Nat /\ sent <= sent'
    BY <1>1, <1>2
  <2>2. stamp > MaxRows + sent
    BY <1>2
  <2>3. \A k \in DOMAIN posts' : posts'[k] \in Nat /\ (posts'[k] > MaxRows + sent \/ \E j \in DOMAIN posts : posts'[k] = posts[j])
    BY <1>4, <1>5, <2>2
  <2> HIDE DEF stamp
  <2>4. QED
    BY <1>2, <1>8, <2>1, <2>3, SoundStays
<1>9. Roles'
  <2>1. role # NoRole => Sound(role, posts', sent', overtaken)
    BY <1>8, InvFacts
  <2>2. user # NoRole => Sound(user, posts', sent', overtaken)
    BY <1>8, InvFacts
  <2>3. QED
    BY <1>1, <2>1, <2>2 DEF Roles
<1>10. Scalars'
  <2>1. sent' \in 0..MaxPosts
    BY <1>1, <1>2
  <2>2. QED
    BY <1>1, <1>4, <2>1 DEF Inv, Scalars, Loaded
<1>11. LinkSound' /\ ListsReach' /\ AskedSound'
  BY <1>1 DEF Inv, LinkSound, ListsReach, AskedSound
<1>12. QED
  BY <1>7, <1>9, <1>10, <1>11 DEF Inv

LEMMA AskStep ==
  ASSUME Inv, ClientAsks
  PROVE  Inv'
<1>1. /\ online /\ UNCHANGED <<rows, system_mail_id, role, user, online, role_id, toReal, toGame, posts, sent, faults, due, overtaken>>
  BY DEF ClientAsks
<1>2. PICK id \in Ids(user) : asked' = Append(asked, [id |-> id, stamp |-> user.mail_map[id].stamp])
  BY DEF ClientAsks
<1> DEFINE q == [id |-> id, stamp |-> user.mail_map[id].stamp]
<1>3. user # NoRole /\ user \in Role /\ Numbered(user)
  BY <1>1, InvFacts DEF Inv, Scalars, Loaded, Sound
<1>4. id \in Stamps /\ q \in [id : Stamps, stamp : Stamps]
  <2>1. Mails(user.mail_map) /\ Ids(user) = DOMAIN user.mail_map /\ Ids(user) \subseteq Stamps
    BY <1>3, RoleIs
  <2>2. id \in Stamps /\ user.mail_map[id] \in [stamp : Stamps, taken : BOOLEAN]
    BY <2>1 DEF Mails
  <2>3. QED
    BY <2>2
<1>5. StillThere(user, q) /\ (q.id <= MaxRows => q.stamp = q.id)
  BY <1>3 DEF StillThere, Numbered
<1>6. asked' = Append(asked, q) /\ asked \in Seq([id : Stamps, stamp : Stamps])
  BY <1>2 DEF Inv, AskedSound
<1> HIDE DEF q
<1>7. /\ asked' \in Seq([id : Stamps, stamp : Stamps])
      /\ \A k \in DOMAIN asked' : (k \in DOMAIN asked /\ asked'[k] = asked[k]) \/ asked'[k] = q
  BY <1>4, <1>6, AppendOf
<1>8. AskedSound'
  <2>1. /\ \A k \in DOMAIN asked : asked[k].id <= MaxRows => asked[k].stamp = asked[k].id
        /\ "request" \in overtaken \/ \A k \in DOMAIN asked : StillThere(user, asked[k])
    BY <1>3 DEF Inv, AskedSound
  <2>2. \A k \in DOMAIN asked' : asked'[k].id <= MaxRows => asked'[k].stamp = asked'[k].id
    BY <1>5, <1>7, <2>1
  <2>3. "request" \in overtaken \/ \A k \in DOMAIN asked' : StillThere(user, asked'[k])
    BY <1>5, <1>7, <2>1
  <2>4. QED
    BY <1>1, <1>3, <1>7, <2>2, <2>3 DEF AskedSound
<1>9. Scalars' /\ LinkSound' /\ ListsReach' /\ PostsInOrder' /\ Roles'
  BY <1>1 DEF Inv, Scalars, Loaded, LinkSound, ListsReach, PostsInOrder, Roles
<1>10. QED
  BY <1>8, <1>9 DEF Inv

\* A login that finds the role in memory, loads it or creates it.
LEMMA LoginStep ==
  ASSUME Inv, Login
  PROVE  Inv'
<1>1. /\ online' = TRUE /\ role_id' = TRUE /\ due' = rows /\ toReal' = Append(toReal, Ask(user'))
      /\ UNCHANGED <<rows, system_mail_id, role, toGame, posts, asked, sent, faults, overtaken>>
      /\ user' = CASE Loaded -> user
                   [] ~Loaded /\ role # NoRole -> role
                   [] OTHER -> NewRole
  BY DEF Login
<1>2. NewRole \in Role /\ Sound(NewRole, posts, sent, overtaken)
  <2>1. system_mail_id \in 0..MaxRows /\ MaxRows \in Nat
    BY InvFacts DEF Inv, Scalars
  <2> DEFINE u == NewRole
  <2>2. Mails(<<>>)
    BY DEF Mails
  <2>3. u \in Role
    BY <2>1, <2>2, IsRole DEF NewRole
  <2>4. /\ u.auto = system_mail_id /\ u.since = system_mail_id /\ u.mail_map = <<>> /\ u.coin = 0
        /\ u.had = {} /\ u.gone = {} /\ u.got = {}
    BY DEF NewRole
  <2> HIDE DEF u
  <2>5. Ids(u) = {} /\ InBox(u) = {}
    BY <2>4 DEF Ids, InBox
  <2>6. Books(u)
    BY <2>4, <2>5, FS_EmptySet DEF Books
  <2>7. Numbered(u) /\ Earlier(u, posts, sent)
    BY <2>4, <2>5 DEF Numbered, Earlier
  <2>8. (u.since + 1)..u.auto = {}
    BY <2>1, <2>4
  <2>9. NonePassedOver(u, overtaken)
    BY <2>8 DEF NonePassedOver
  <2>10. QED
    BY <2>3, <2>6, <2>7, <2>9 DEF Sound, u
<1>3. user' \in Role /\ Sound(user', posts, sent, overtaken) /\ user' # NoRole /\ (user # NoRole => user' = user)
  <2>1. CASE user # NoRole
    BY <1>1, <2>1, InvFacts DEF Loaded
  <2>2. CASE user = NoRole /\ role # NoRole
    BY <1>1, <2>2, InvFacts DEF Loaded
  <2>3. CASE user = NoRole /\ role = NoRole
    <3>1. user' = NewRole
      BY <1>1, <2>3 DEF Loaded
    <3>2. QED
      BY <1>2, <2>3, <3>1, NoRoleIsNone
  <2>4. QED
    BY <2>1, <2>2, <2>3
<1>4. Ask(user') \in Question /\ AskReaches(Ask(user'), user')
  <2>1. user'.auto \in 0..MaxRows /\ MaxRows \in Nat
    BY <1>3, RoleIs, Bounds
  <2>2. QED
    BY <1>3, <2>1 DEF Ask, Question, AskReaches
<1>5. /\ toReal' \in Seq(Question)
      /\ \A k \in DOMAIN toReal' : (k \in DOMAIN toReal /\ toReal'[k] = toReal[k]) \/ toReal'[k] = Ask(user')
  <2>1. toReal \in Seq(Question)
    BY LinkTypes
  <2>2. QED
    BY <1>1, <1>4, <2>1, AppendOf
<1>6. ListsReach'
  <2>1. CASE "list" \in overtaken
    BY <1>1, <2>1 DEF ListsReach
  <2>2. CASE Reaches(toReal, toGame, user)
    <3>1. Reaches(toReal, toGame, user')
      <4>1. CASE user # NoRole
        BY <1>3, <2>2, <4>1
      <4>2. CASE user = NoRole
        BY <2>2, <4>2 DEF Reaches, AskReaches, ListReaches
      <4>3. QED
        BY <4>1, <4>2
    <3>2. Reaches(toReal', toGame', user')
      BY <1>1, <1>4, <1>5, <3>1 DEF Reaches
    <3>3. QED
      BY <3>2 DEF ListsReach
  <2>3. QED
    BY <2>1, <2>2 DEF Inv, ListsReach
<1>7. AskedSound'
  <2>1. CASE user # NoRole
    BY <1>1, <1>3, <2>1 DEF Inv, AskedSound
  <2>2. CASE user = NoRole
    BY <1>1, <2>2 DEF Inv, AskedSound
  <2>3. QED
    BY <2>1, <2>2
<1>8. Scalars'
  <2>1. due' \in 0..rows'
    BY <1>1, InvFacts
  <2>2. Loaded'
    BY <1>3 DEF Loaded
  <2>3. QED
    BY <1>1, <2>1, <2>2 DEF Inv, Scalars
<1>9. LinkSound' /\ PostsInOrder' /\ Roles'
  BY <1>1, <1>3, <1>5 DEF Inv, LinkSound, PostsInOrder, Roles
<1>10. QED
  BY <1>6, <1>7, <1>8, <1>9 DEF Inv

LEMMA LogoutStep ==
  ASSUME Inv, Logout
  PROVE  Inv'
<1>1. /\ online' = FALSE /\ asked' = <<>>
      /\ UNCHANGED <<rows, system_mail_id, role, user, role_id, toReal, toGame, posts, sent, faults, due, overtaken>>
  BY DEF Logout
<1>2. AskedSound'
  BY <1>1 DEF AskedSound
<1>3. Scalars' /\ LinkSound' /\ ListsReach' /\ PostsInOrder' /\ Roles'
  BY <1>1 DEF Inv, Scalars, Loaded, LinkSound, ListsReach, PostsInOrder, Roles
<1>4. QED
  BY <1>2, <1>3 DEF Inv

LEMMA KeptStep ==
  ASSUME Inv, Save
  PROVE  Inv'
<1>1. /\ Loaded /\ role' = user
      /\ UNCHANGED <<rows, system_mail_id, user, online, role_id, toReal, toGame, posts, asked, sent, faults, due, overtaken>>
  BY DEF Save
<1>2. Roles'
  BY <1>1 DEF Inv, Roles
<1>3. Scalars' /\ LinkSound' /\ ListsReach' /\ PostsInOrder' /\ AskedSound'
  BY <1>1 DEF Inv, Scalars, Loaded, LinkSound, ListsReach, PostsInOrder, AskedSound
<1>4. QED
  BY <1>2, <1>3 DEF Inv

LEMMA Asking ==
  LET q == <<[type |-> "GetSystemId"]>>
  IN q \in Seq(Question) /\ \A k \in DOMAIN q : q[k].type = "GetSystemId"
BY DEF Question

LEMMA NoneYet ==
  ASSUME toReal = <<[type |-> "GetSystemId"]>>, toGame = <<>>
  PROVE  LinkSound /\ ListsReach
<1>1. /\ toReal \in Seq(Question) /\ \A k \in DOMAIN toReal : toReal[k].type = "GetSystemId"
      /\ toGame \in Seq(Message) /\ DOMAIN toGame = {}
  BY Asking
<1>2. QED
  BY <1>1 DEF LinkSound, ListsReach, Reaches, AskReaches

\* The link breaks, or the game server ends.
LEMMA BreakStep ==
  ASSUME Inv, LinkBreaks \/ Crash
  PROVE  Inv'
<1>1. /\ faults < MaxFaults /\ faults' = faults + 1 /\ due' = 0
      /\ toReal' = <<[type |-> "GetSystemId"]>> /\ toGame' = <<>>
      /\ UNCHANGED <<rows, role, sent, overtaken>>
  BY DEF LinkBreaks, Crash
<1>2. faults' \in 0..MaxFaults /\ due' \in 0..rows' /\ rows \in Nat
  BY <1>1, InvFacts DEF Inv, Scalars
<1>3. LinkSound' /\ ListsReach'
  <2>1. /\ toReal' \in Seq(Question) /\ \A k \in DOMAIN toReal' : toReal'[k].type = "GetSystemId"
        /\ toGame' \in Seq(Message) /\ DOMAIN toGame' = {}
    BY <1>1, Asking
  <2>2. QED
    BY <2>1 DEF LinkSound, ListsReach, Reaches, AskReaches
<1>4. CASE LinkBreaks
  <2>1. UNCHANGED <<system_mail_id, user, online, role_id, posts, asked>>
    BY <1>4 DEF LinkBreaks
  <2>2. Scalars' /\ PostsInOrder' /\ AskedSound' /\ Roles'
    BY <1>1, <1>2, <2>1 DEF Inv, Scalars, Loaded, PostsInOrder, AskedSound, Roles
  <2>3. QED
    BY <1>3, <2>2 DEF Inv
<1>5. CASE Crash
  <2>1. /\ system_mail_id' = 0 /\ user' = NoRole /\ online' = FALSE /\ role_id' = FALSE
        /\ posts' = <<>> /\ asked' = <<>>
    BY <1>5 DEF Crash
  <2>2. Scalars'
    <3>1. posts' \in Seq(Stamps) /\ system_mail_id' \in 0..rows'
      BY <1>1, <1>2, <2>1
    <3>2. rows' \in 0..MaxRows /\ sent' \in 0..MaxPosts /\ overtaken' \subseteq {"list", "request"}
      BY <1>1 DEF Inv, Scalars
    <3>3. QED
      BY <1>2, <2>1, <3>1, <3>2 DEF Scalars
  <2>3. PostsInOrder' /\ AskedSound'
    BY <2>1 DEF PostsInOrder, AskedSound
  <2>4. Roles'
    <3>1. role # NoRole => Sound(role, posts, sent, overtaken)
      BY InvFacts
    <3>2. DOMAIN posts' = {} /\ sent \in Nat /\ sent <= sent
      BY <2>1, InvFacts
    <3>3. \A k \in DOMAIN posts' : posts'[k] \in Nat /\ (posts'[k] > MaxRows + sent \/ \E j \in DOMAIN posts : posts'[k] = posts[j])
      BY <3>2
    <3>4. role # NoRole => Sound(role, posts', sent, overtaken)
      BY <3>1, <3>2, <3>3, SoundStays
    <3>5. QED
      BY <1>1, <2>1, <3>4 DEF Roles
  <2>5. QED
    BY <1>3, <2>2, <2>3, <2>4 DEF Inv
<1>6. QED
  BY <1>4, <1>5

\* The role is put out of memory; what was under way for it is noted.
LEMMA QuitStep ==
  ASSUME Inv, quit_force
  PROVE  Inv'
<1>1. /\ faults < MaxFaults /\ faults' = faults + 1
      /\ user' = NoRole /\ online' = FALSE /\ role_id' = FALSE
      /\ UNCHANGED <<rows, system_mail_id, role, toReal, toGame, posts, asked, sent, due>>
      /\ overtaken' = overtaken \union
           {what \in {"list", "request"} :
              IF what = "request" THEN asked # <<>>
              ELSE \E m \in ToSet(toReal \o toGame) : m.type = "SystemTake"}
  BY DEF quit_force
<1>2. /\ toReal \in Seq(Question) /\ toGame \in Seq(Message)
      /\ faults' \in 0..MaxFaults /\ overtaken \subseteq {"list", "request"}
  BY <1>1, InvFacts, LinkTypes DEF Inv, Scalars
<1>3. overtaken \subseteq overtaken' /\ overtaken' \subseteq {"list", "request"}
  BY <1>1, <1>2
<1>4. ASSUME "list" \notin overtaken'
      PROVE  /\ \A k \in DOMAIN toReal : toReal[k].type # "SystemTake"
             /\ \A k \in DOMAIN toGame : toGame[k].type # "SystemTake"
  <2>1. \A m \in ToSet(toReal \o toGame) : m.type # "SystemTake"
    BY <1>1, <1>4
  <2>2. /\ DOMAIN toReal = 1..Len(toReal) /\ Len(toReal) \in Nat
        /\ DOMAIN toGame = 1..Len(toGame) /\ Len(toGame) \in Nat
    BY <1>2
  <2>3. /\ DOMAIN (toReal \o toGame) = 1..Len(toReal) + Len(toGame)
        /\ \A k \in 1..Len(toReal) : (toReal \o toGame)[k] = toReal[k]
        /\ \A k \in 1..Len(toGame) : (toReal \o toGame)[Len(toReal) + k] = toGame[k]
    BY <1>2, <2>2
  <2>4. ASSUME NEW k \in DOMAIN toReal PROVE toReal[k] \in ToSet(toReal \o toGame)
    <3>1. k \in DOMAIN (toReal \o toGame) /\ (toReal \o toGame)[k] = toReal[k]
      BY <2>2, <2>3
    <3>2. QED
      BY <3>1 DEF ToSet
  <2>5. ASSUME NEW k \in DOMAIN toGame PROVE toGame[k] \in ToSet(toReal \o toGame)
    <3>1. Len(toReal) + k \in DOMAIN (toReal \o toGame) /\ (toReal \o toGame)[Len(toReal) + k] = toGame[k]
      BY <2>2, <2>3
    <3>2. QED
      BY <3>1 DEF ToSet
  <2>6. QED
    BY <2>1, <2>4, <2>5
<1>5. ListsReach'
  <2>1. CASE "list" \in overtaken'
    BY <2>1 DEF ListsReach
  <2>2. CASE "list" \notin overtaken'
    BY <1>1, <1>4, <2>2 DEF ListsReach, Reaches, AskReaches, ListReaches
  <2>3. QED
    BY <2>1, <2>2
<1>6. AskedSound'
  <2>1. "request" \in overtaken' \/ asked' = <<>>
    BY <1>1
  <2>2. QED
    BY <1>1, <2>1 DEF Inv, AskedSound
<1>7. Roles'
  <2>1. role # NoRole => Sound(role, posts, sent, overtaken)
    BY InvFacts
  <2>2. \A k \in DOMAIN posts : posts[k] \in Nat /\ (posts[k] > MaxRows + sent \/ \E j \in DOMAIN posts : posts[k] = posts[j])
    BY InvFacts
  <2>3. sent \in Nat /\ sent <= sent
    BY InvFacts
  <2>4. role # NoRole => Sound(role, posts, sent, overtaken')
    BY <1>3, <2>1, <2>2, <2>3, SoundStays
  <2>5. QED
    BY <1>1, <2>4 DEF Roles
<1>8. Scalars' /\ LinkSound' /\ PostsInOrder'
  BY <1>1, <1>2, <1>3 DEF Inv, Scalars, LinkSound, PostsInOrder
<1>9. QED
  BY <1>5, <1>6, <1>7, <1>8 DEF Inv

\* The invariant is inductive.
LEMMA Invariant == Spec => []Inv
<1>1. Init => Inv
  <2> SUFFICES ASSUME Init PROVE Inv
    OBVIOUS
  <2>1. LinkSound /\ ListsReach
    BY NoneYet DEF Init
  <2>2. PostsInOrder /\ AskedSound /\ Roles
    BY DEF Init, PostsInOrder, AskedSound, Roles
  <2>3. /\ rows \in 0..MaxRows /\ system_mail_id \in 0..rows
        /\ sent \in 0..MaxPosts /\ faults \in 0..MaxFaults /\ due \in 0..rows
    BY Bounds DEF Init
  <2>4. /\ posts \in Seq(Stamps) /\ overtaken \subseteq {"list", "request"}
        /\ online = FALSE /\ role_id = FALSE
    BY DEF Init
  <2>5. Scalars
    BY <2>3, <2>4 DEF Scalars
  <2>6. QED
    BY <2>1, <2>2, <2>5 DEF Inv
<1>2. Inv /\ [Next]_vars => Inv'
  <2> SUFFICES ASSUME Inv, [Next]_vars PROVE Inv'
    OBVIOUS
  <2>1. CASE PQMailSave
    BY <2>1, SaveStep
  <2>2. CASE HandleRealdb
    BY <2>2, RealdbStep
  <2>3. CASE HandleGame
    BY <2>3, GameStep
  <2>4. CASE Login
    BY <2>4, LoginStep
  <2>5. CASE Logout
    BY <2>5, LogoutStep
  <2>6. CASE Save
    BY <2>6, KeptStep
  <2>7. CASE Send
    BY <2>7, SendStep
  <2>8. CASE PRMailWriteLocal
    BY <2>8, WriteStep
  <2>9. CASE ClientAsks
    BY <2>9, AskStep
  <2>10. CASE PQMailTake \/ PQMailDel \/ PQMailTakeAll \/ PQMailDelAll
    BY <2>10, RequestStep
  <2>11. CASE LinkBreaks \/ Crash
    BY <2>11, BreakStep
  <2>12. CASE quit_force
    BY <2>12, QuitStep
  <2>13. CASE UNCHANGED vars
    BY <2>13 DEF vars, Inv, Scalars, Loaded, LinkSound, ListsReach, PostsInOrder, AskedSound, Roles
  <2>14. QED
    BY <2>1, <2>2, <2>3, <2>4, <2>5, <2>6, <2>7, <2>8, <2>9, <2>10, <2>11, <2>12, <2>13 DEF Next
<1>3. QED
  BY <1>1, <1>2, PTL DEF Spec

-----------------------------------------------------------------------------
(* The theorems.                                                           *)

\* Whatever is asked, written and lost in whatever order: the values of the
\* role, of the link and of realdb are of their types.
THEOREM MailTypes == Spec => []TypeOK
<1>1. Inv => TypeOK
  BY InvFacts DEF Inv, Scalars, LinkSound, AskedSound, TypeOK
<1>2. QED
  BY Invariant, <1>1, PTL

\* No mail to everyone is passed over, none leaves the box but by its player,
\* none is there twice or comes back, and each attachment is given once, in
\* memory and in the tables (mail_imp.cpp:96, mail_pro.cpp:120, :154).
THEOREM EachMailOnce == Spec => []Delivered
<1>1. Inv => TypeOK
  BY InvFacts DEF Inv, Scalars, LinkSound, AskedSound, TypeOK
<1>2. ASSUME NEW u, Sound(u, posts, sent, overtaken)
      PROVE  /\ "list" \in overtaken \/ (u.since + 1)..u.auto \subseteq u.had
             /\ u.had = InBox(u) \union u.gone
             /\ InBox(u) \intersect u.gone = {}
             /\ Cardinality(InBox(u)) = Cardinality(Ids(u))
             /\ u.coin = Cardinality(u.got) /\ u.got \subseteq u.had
             /\ \A id \in Ids(u) : u.mail_map[id].taken = (u.mail_map[id].stamp \in u.got)
  <2>1. u \in Role /\ Books(u) /\ NonePassedOver(u, overtaken)
    BY <1>2 DEF Sound
  <2>2. IsFiniteSet(Ids(u))
    BY <2>1, RoleIs, StampsFinite
  <2>3. \A i, j \in Ids(u) : u.mail_map[i].stamp = u.mail_map[j].stamp => i = j
    BY <2>1 DEF Books
  <2>4. Cardinality(InBox(u)) = Cardinality(Ids(u))
    BY <2>2, <2>3, StampsCount DEF InBox
  <2>5. QED
    BY <2>1, <2>4 DEF Books, NonePassedOver
<1>3. Inv => \A u \in {role, user} \ {NoRole} : Sound(u, posts, sent, overtaken)
  BY DEF Inv, Roles
<1>4. Inv => Delivered
  BY <1>1, <1>2, <1>3 DEF Delivered
<1>5. QED
  BY Invariant, <1>4, PTL

\* A request reaches another mail than the one the player saw only when he had
\* that one deleted, or quit_force took it back (mail_imp.cpp:26).
THEOREM WrongMailOnlyWhenDeleted == Spec => []WrongOnlyWhenDeleted
<1>1. Inv => WrongOnlyWhenDeleted
  <2> SUFFICES ASSUME Inv, NEW k \in DOMAIN asked,
                      Loaded, asked[k].id \in Ids(user), user.mail_map[asked[k].id].stamp # asked[k].stamp
               PROVE  (asked[k].stamp \in user.gone \/ "request" \in overtaken) /\ asked[k].id > MaxRows
    BY DEF WrongOnlyWhenDeleted
  <2>1. user # NoRole /\ user \in Role /\ Numbered(user) /\ Ids(user) \subseteq Stamps
    BY InvFacts, RoleIs DEF Loaded, Sound
  <2>2. /\ asked[k].id <= MaxRows => asked[k].stamp = asked[k].id
        /\ "request" \in overtaken \/ asked = <<>> \/ StillThere(user, asked[k])
    BY DEF Inv, AskedSound
  <2>3. asked # <<>>
    OBVIOUS
  <2>4. asked[k].stamp \in user.gone \/ "request" \in overtaken
    BY <2>2, <2>3 DEF StillThere
  <2>5. asked[k].id \in Nat /\ MaxRows \in Nat
    BY <2>1, Bounds DEF Stamps
  <2>6. asked[k].id > MaxRows
    BY <2>1, <2>2, <2>5 DEF Numbered
  <2>7. QED
    BY <2>4, <2>6
<1>2. QED
  BY Invariant, <1>1, PTL
=============================================================================
