------------------------- MODULE MarketBoardProofs -------------------------
(***************************************************************************)
(* Proofs about MarketBoard for any number of roles, servers, items and    *)
(* cargos and any bounds.                                                  *)
(***************************************************************************)
EXTENDS MarketBoard, FiniteSetTheorems, SequenceTheorems, TLAPS

-----------------------------------------------------------------------------
(* Lemmas about the operators the model is built from.                     *)

\* The statements of a handler, one per cargo it names, are a finite set.
LEMMA StatementsFinite ==
  ASSUME NEW T, NEW S, IsFiniteSet(S),
         \A x \in T : x.id \in S,
         \A x, y \in T : x.id = y.id => x = y
  PROVE  IsFiniteSet(T)
<1> DEFINE f == [x \in T |-> x.id]
<1>1. f \in Injection(T, S)
  BY DEF Injection, IsInjective
<1>2. QED
  BY <1>1, FS_Injection

\* SetToSeq lists the elements of a finite set.
LEMMA SetToSeqType ==
  ASSUME NEW T, NEW S, IsFiniteSet(T), T \subseteq S
  PROVE  SetToSeq(T) \in Seq(S)
<1> DEFINE n == Cardinality(T)
<1>1. n \in Nat /\ ExistsBijection(1..n, T)
  BY FS_CardinalityType
<1>2. PICK f \in [1..n -> T] : IsInjective(f)
  BY <1>1 DEF ExistsBijection, Bijection, Injection
<1>3. SetToSeq(T) \in [1..n -> T]
  BY <1>2 DEF SetToSeq
<1>4. QED
  BY <1>1, <1>3

\* A set of numbers up to n that is not empty has a largest element.
LEMMA LargestExists ==
  ASSUME NEW n \in Nat, NEW S \in SUBSET (0..n), S # {}
  PROVE  \E m \in S : \A k \in S : k <= m
<1> DEFINE T == {k \in 0..n : n - k \in S}
<1>1. T \subseteq Nat /\ T # {}
  <2>1. PICK k \in S : TRUE
    OBVIOUS
  <2>2. n - k \in T
    BY <2>1
  <2>3. T \subseteq Nat
    OBVIOUS
  <2>4. QED
    BY <2>2, <2>3
<1>2. PICK k \in T : \A j \in T : ~ (<<j, k>> \in OpToRel(<, Nat))
  <2> HIDE DEF T
  <2>1. QED
    BY <1>1, NatLessThanWellFounded, WFMin
<1>3. \A j \in T : k <= j
  <2> SUFFICES ASSUME NEW j \in T PROVE k <= j
    OBVIOUS
  <2>1. j \in Nat /\ k \in Nat
    BY <1>1
  <2>2. <<j, k>> \notin {xy \in Nat \X Nat : xy[1] < xy[2]}
    BY <1>2 DEF OpToRel
  <2>3. QED
    BY <2>1, <2>2
<1>4. ASSUME NEW s \in S PROVE s <= n - k
  <2>1. n - s \in T
    OBVIOUS
  <2>2. k <= n - s
    BY <1>3, <2>1
  <2>3. QED
    BY <1>1, <2>2
<1>5. n - k \in S
  OBVIOUS
<1>6. QED
  BY <1>4, <1>5

\* A set of numbers that is not empty has a smallest element.
LEMMA SmallestExists ==
  ASSUME NEW S \in SUBSET Nat, S # {}
  PROVE  \E m \in S : \A k \in S : m <= k
<1>1. PICK m \in S : \A k \in S : ~ (<<k, m>> \in OpToRel(<, Nat))
  BY NatLessThanWellFounded, WFMin
<1>2. ASSUME NEW k \in S
      PROVE  m <= k
  <2>1. k \in Nat /\ m \in Nat
    OBVIOUS
  <2>2. <<k, m>> \notin {xy \in Nat \X Nat : xy[1] < xy[2]}
    BY <1>1 DEF OpToRel
  <2>3. QED
    BY <2>1, <2>2
<1>3. QED
  BY <1>2

\* A bucket opens after the time it is named for, at most one Minute after.
LEMMA BucketBounds ==
  ASSUME NEW n \in Nat
  PROVE  TIMETOMIN(n) \in n + 1 .. n + Minute
<1>1. Minute \in Nat \ {0}
  BY OpsAssumption
<1>2. /\ n = (n \div Minute) * Minute + (n % Minute)
      /\ n % Minute \in 0..Minute - 1
      /\ n \div Minute \in Nat
  BY <1>1, SMTT(30)
<1>3. QED
  BY <1>1, <1>2 DEF TIMETOMIN

\* A std::map of cargos: the facts of its type that the provers need.
LEMMA CargoMapFacts ==
  ASSUME NEW f, IsCargoMap(f)
  PROVE  /\ DOMAIN f \subseteq Ids /\ IsFiniteSet(DOMAIN f)
         /\ f \in [DOMAIN f -> Cargo]
<1>1. PICK S \in SUBSET Ids : f \in [S -> Cargo]
  BY DEF IsCargoMap
<1>2. DOMAIN f \subseteq Ids /\ f \in [DOMAIN f -> Cargo]
  BY <1>1
<1>3. IsFiniteSet(Ids)
  BY OpsAssumption, FS_Interval DEF Ids
<1>4. QED
  BY <1>2, <1>3, FS_Subset

LEMMA BoardFacts ==
  ASSUME NEW b, IsBoard(b)
  PROVE  /\ b.global_id \in 0..IdMax
         /\ b.indices \in [Regions -> [Items -> SUBSET Ids]]
         /\ b.user_map \in [Roles -> SUBSET Ids]
         /\ b.down_map \in [Sids -> SUBSET (Nat \X Ids)] /\ b.ghosts \in SUBSET Ids
         /\ DOMAIN b.data_map \subseteq Ids /\ IsFiniteSet(DOMAIN b.data_map)
         /\ b.data_map \in [DOMAIN b.data_map -> Cargo]
BY CargoMapFacts DEF IsBoard

LEMMA EmptyBoardType == IsBoard(EmptyBoard)
<1>1. EmptyBoard.data_map \in [{} -> Cargo]
  BY DEF EmptyBoard
<1>2. 0 \in 0..IdMax
  BY OpsAssumption
<1>3. QED
  BY <1>1, <1>2 DEF EmptyBoard, IsBoard, IsCargoMap

\* Removing cargos leaves a board.
LEMMA RemoveType ==
  ASSUME NEW b, IsBoard(b), NEW gone
  PROVE  IsBoard(cargo_remove(b, gone))
<1>1. user_lists(b, gone) \in [Roles -> SUBSET Ids]
  BY BoardFacts DEF user_lists
<1>2. buy_lists(b, gone) \in [Regions -> [Items -> SUBSET Ids]]
  BY BoardFacts DEF buy_lists
<1>3. IsCargoMap(cargos(b, gone))
  <2>1. /\ DOMAIN b.data_map \ gone \in SUBSET Ids
        /\ cargos(b, gone) \in [DOMAIN b.data_map \ gone -> Cargo]
    BY BoardFacts DEF cargos
  <2>2. QED
    BY <2>1 DEF IsCargoMap
<1>4. QED
  BY <1>1, <1>2, <1>3 DEF cargo_remove, IsBoard

\* What a handler returns: a board, and statements for the table.
Result(r) == IsBoard(r.board) /\ r.db \in Seq(Statement)

\* All handlers but cargo_up: no statement of theirs adds a row.
NoAdd == {s \in Statement : s.op # "add"}
Quiet(r) == IsBoard(r.board) /\ r.db \in Seq(NoAdd)

LEMMA QuietResult ==
  ASSUME NEW r, Quiet(r)
  PROVE  Result(r)
BY DEF Quiet, Result, NoAdd

LEMMA NopType ==
  ASSUME NEW b, IsBoard(b)
  PROVE  Quiet(Nop(b))
BY DEF Quiet, Nop

LEMMA AllocType ==
  ASSUME NEW b, IsBoard(b)
  PROVE  alloc_id(b) \in Ids
<1>1. b.global_id \in 0..IdMax
  BY BoardFacts
<1>2. IdMax \in Nat \ {0}
  BY OpsAssumption
<1>3. QED
  BY <1>1, <1>2 DEF alloc_id, Ids

LEMMA CargoUpType ==
  ASSUME NEW b, IsBoard(b), NEW sid \in Regions, NEW rid \in Roles,
         NEW objid \in Items, NEW val \in Nat, NEW percent \in Nat, NEW time \in Nat
  PROVE  Result(cargo_up(b, sid, rid, objid, val, percent, time))
<1> DEFINE id == alloc_id(b)
           c  == [sid |-> sid, role_id |-> rid, objid |-> objid, val |-> val,
                  percent |-> percent, down_time |-> time + Life]
           m  == [x \in DOMAIN b.data_map \cup {id} |-> IF x = id THEN c ELSE b.data_map[x]]
           ix == [b.indices EXCEPT ![sid][objid] = @ \cup {id}]
           u  == [b.user_map EXCEPT ![rid] = @ \cup {id}]
           d  == [b.down_map EXCEPT ![SERVER_ID[rid]] = @ \cup {<<TIMETOMIN(time + Life), id>>}]
           after == [b EXCEPT !.global_id = id, !.data_map = m, !.ghosts = @ \ {id},
                              !.indices = ix, !.user_map = u, !.down_map = d]
           stmt == [op |-> "add", id |-> id, cargo |-> c]
<1>1. id \in Ids /\ id \in 0..IdMax
  BY AllocType, OpsAssumption DEF Ids
<1>2. c \in Cargo
  BY OpsAssumption DEF Cargo
<1>3. IsCargoMap(m)
  <2> HIDE DEF id, c
  <2>1. m \in [DOMAIN b.data_map \cup {id} -> Cargo]
    BY <1>1, <1>2, BoardFacts
  <2>2. DOMAIN b.data_map \cup {id} \in SUBSET Ids
    BY <1>1, BoardFacts
  <2>3. QED
    BY <2>1, <2>2 DEF IsCargoMap
<1>4. ix \in [Regions -> [Items -> SUBSET Ids]]
  <2> HIDE DEF id
  <2>1. QED
    BY <1>1, BoardFacts
<1>5. u \in [Roles -> SUBSET Ids]
  <2> HIDE DEF id
  <2>1. QED
    BY <1>1, BoardFacts
<1>6. d \in [Sids -> SUBSET (Nat \X Ids)]
  <2>1. TIMETOMIN(time + Life) \in Nat /\ SERVER_ID[rid] \in Sids
    BY BucketBounds, OpsAssumption
  <2> HIDE DEF id
  <2>2. QED
    BY <1>1, <2>1, BoardFacts
<1>7. IsBoard(after)
  <2> HIDE DEF id, m, ix, u, d
  <2>1. QED
    BY <1>1, <1>3, <1>4, <1>5, <1>6, BoardFacts DEF IsBoard
<1>8. stmt \in Statement
  <2> HIDE DEF id, c
  <2>1. QED
    BY <1>1, <1>2 DEF Statement
<1>9. cargo_up(b, sid, rid, objid, val, percent, time) = [board |-> after, db |-> <<stmt>>]
  BY Zenon DEF cargo_up
<1>10. QED
  <2> HIDE DEF after, stmt
  <2>1. QED
    BY <1>7, <1>8, <1>9 DEF Result

LEMMA TakeDownType ==
  ASSUME NEW b, IsBoard(b), NEW ids \in SUBSET DOMAIN b.data_map
  PROVE  Quiet(take_down(b, ids))
<1> DEFINE T == {[op |-> "del", id |-> id] : id \in ids}
<1>1. IsFiniteSet(ids) /\ ids \subseteq Ids
  BY BoardFacts, FS_Subset
<1>2. T \subseteq NoAdd
  BY <1>1 DEF NoAdd, Statement
<1>3. IsFiniteSet(T)
  <2>1. \A x \in T : x.id \in ids
    OBVIOUS
  <2>2. \A x, y \in T : x.id = y.id => x = y
    OBVIOUS
  <2> HIDE DEF T
  <2>3. QED
    BY <1>1, <2>1, <2>2, StatementsFinite
<1>4. SetToSeq(T) \in Seq(NoAdd)
  <2> HIDE DEF T
  <2>1. QED
    BY <1>2, <1>3, SetToSeqType
<1>5. take_down(b, ids) = [board |-> cargo_remove(b, ids), db |-> SetToSeq(T)]
  BY Zenon DEF take_down
<1>6. QED
  <2> HIDE DEF T
  <2>1. QED
    BY <1>4, <1>5, RemoveType DEF Quiet

LEMMA CargoDownType ==
  ASSUME NEW b, IsBoard(b), NEW rid, NEW id
  PROVE  Quiet(cargo_down(b, rid, id))
BY TakeDownType, NopType DEF cargo_down, Live

LEMMA ModifyType ==
  ASSUME NEW b, IsBoard(b), NEW id \in Ids
  PROVE  modify_db_data(b, id) \in NoAdd /\ modify_db_data(b, id).id = id
<1>1. CASE Live(b, id)
  <2>1. b.data_map[id].val \in Nat /\ b.data_map[id].percent \in Nat
    BY <1>1, BoardFacts DEF Live, Cargo
  <2>2. QED
    BY <1>1, <2>1 DEF modify_db_data, NoAdd, Statement
<1>2. CASE ~Live(b, id)
  BY <1>2 DEF modify_db_data, NoAdd, Statement
<1>3. QED
  BY <1>1, <1>2

LEMMA CargoChangeType ==
  ASSUME NEW b, IsBoard(b), NEW rid, NEW id, NEW percent \in Nat
  PROVE  Quiet(cargo_change(b, rid, id, percent))
<1> DEFINE m     == [b.data_map EXCEPT ![id].percent = percent]
           after == [b EXCEPT !.data_map = m]
<1>1. CASE Live(b, id) /\ b.data_map[id].role_id = rid
  <2>1. b.data_map[id] \in Cargo /\ id \in Ids
    BY <1>1, BoardFacts DEF Live
  <2>2. m \in [DOMAIN b.data_map -> Cargo]
    BY <2>1, BoardFacts DEF Cargo
  <2>3. IsBoard(after)
    <3> HIDE DEF m
    <3>1. QED
      BY <2>2, BoardFacts DEF IsBoard, IsCargoMap
  <2>4. cargo_change(b, rid, id, percent) = [board |-> after, db |-> <<modify_db_data(after, id)>>]
    BY <1>1 DEF cargo_change
  <2>5. QED
    <3> HIDE DEF after
    <3>1. QED
      BY <2>1, <2>3, <2>4, ModifyType DEF Quiet
<1>2. CASE ~(Live(b, id) /\ b.data_map[id].role_id = rid)
  BY <1>2, NopType DEF cargo_change
<1>3. QED
  BY <1>1, <1>2

\* Boards, entries of a purchase and what is known of one under way, as sets.
Boards == [ global_id : 0..IdMax,
            data_map  : UNION {[S -> Cargo] : S \in SUBSET Ids},
            ghosts    : SUBSET Ids,
            indices   : [Regions -> [Items -> SUBSET Ids]],
            user_map  : [Roles -> SUBSET Ids],
            down_map  : [Sids -> SUBSET (Nat \X Ids)] ]
Entries == [id : Ids, n : Nat, seen : Nat]
Sales == [board : Boards, db : Seq(NoAdd), sold : Seq(Entries), refused : BOOLEAN]

LEMMA BoardsAre ==
  ASSUME NEW b
  PROVE  b \in Boards <=> IsBoard(b)
BY DEF Boards, IsBoard, IsCargoMap

LEMMA AskedType ==
  ASSUME NEW how, NEW list \in Asked(how, Ids, MaxVal, Percents)
  PROVE  list \in Seq(Entries)
<1>1. PICK k \in 1..MaxEntries : list \in [1..k -> [id : Ids, n : 1..MaxVal, seen : Percents]]
  BY DEF Asked
<1>2. k \in Nat
  BY OpsAssumption
<1>3. 1..MaxVal \subseteq Nat /\ Percents \subseteq Nat
  BY BoardAssumption
<1>4. [id : Ids, n : 1..MaxVal, seen : Percents] \subseteq Entries
  BY <1>3 DEF Entries
<1>5. list \in [1..k -> Entries]
  BY <1>1, <1>4
<1>6. QED
  BY <1>2, <1>5

\* The steps of a purchase, one entry after the other.
Start(b, list) == [board |-> b, db |-> <<>>, sold |-> <<>>, refused |-> ~Buyable(b, list)]
IsSale(x, b, how, list, n) ==
  x = [k \in 0..n |-> IF k = 0 THEN Start(b, list) ELSE sell_entry(x[k - 1], how, list[k])]

LEMMA SaleExists ==
  ASSUME NEW b, NEW how, NEW list, NEW n \in Nat
  PROVE  \E x : IsSale(x, b, how, list, n)
<1> DEFINE S == {k \in Nat : ~ \E x : IsSale(x, b, how, list, k)}
<1> SUFFICES ASSUME n \in S PROVE FALSE
  OBVIOUS
<1>1. PICK m \in S : \A k \in S : m <= k
  <2>1. S \in SUBSET Nat /\ S # {}
    OBVIOUS
  <2> HIDE DEF S
  <2>2. QED
    BY <2>1, SmallestExists
<1>2. CASE m = 0
  <2>1. IsSale([k \in 0..m |-> Start(b, list)], b, how, list, m)
    BY <1>2 DEF IsSale
  <2>2. QED
    BY <2>1
<1>3. CASE m # 0
  <2>1. m - 1 \in Nat /\ m - 1 \notin S
    BY <1>1, <1>3
  <2>2. PICK r : IsSale(r, b, how, list, m - 1)
    BY <2>1
  <2> DEFINE x == [k \in 0..m |-> IF k = m THEN sell_entry(r[m - 1], how, list[m]) ELSE r[k]]
  <2>3. \A k \in 0..m - 1 :
          r[k] = IF k = 0 THEN Start(b, list) ELSE sell_entry(r[k - 1], how, list[k])
    BY <2>2 DEF IsSale
  <2>4. ASSUME NEW k \in 0..m
        PROVE  x[k] = IF k = 0 THEN Start(b, list) ELSE sell_entry(x[k - 1], how, list[k])
    <3>1. CASE k = m
      <4>1. m \in 0..m /\ m - 1 \in 0..m /\ m - 1 # m
        BY <2>1
      <4>2. x[m] = sell_entry(r[m - 1], how, list[m]) /\ x[m - 1] = r[m - 1]
        BY <4>1
      <4>3. QED
        BY <1>3, <3>1, <4>2
    <3>2. CASE k # m
      <4>1. k \in 0..m - 1 /\ (k # 0 => k - 1 \in 0..m /\ k - 1 # m)
        BY <3>2
      <4>2. x[k] = r[k] /\ (k # 0 => x[k - 1] = r[k - 1])
        BY <3>2, <4>1
      <4>3. QED
        BY <2>3, <4>1, <4>2
    <3>3. QED
      BY <3>1, <3>2
  <2>5. IsSale(x, b, how, list, m)
    BY <2>4 DEF IsSale
  <2>6. QED
    BY <2>5
<1>4. QED
  BY <1>2, <1>3

\* What holds before a purchase and is kept by each of its entries holds
\* after it.
LEMMA PurchaseIn ==
  ASSUME NEW b, NEW how, NEW list \in Seq(Entries), NEW S, Start(b, list) \in S,
         \A r \in S : \A e \in Entries : sell_entry(r, how, e) \in S
  PROVE  purchase(b, how, list) \in S
<1> DEFINE n == Len(list)
           x == CHOOSE f : f = [k \in 0..Len(list) |->
                  IF k = 0 THEN [board |-> b, db |-> <<>>, sold |-> <<>>, refused |-> ~Buyable(b, list)]
                  ELSE sell_entry(f[k - 1], how, list[k])]
<1>1. n \in Nat /\ \A k \in 1..n : list[k] \in Entries
  BY LenProperties, ElementOfSeq
<1>2. IsSale(x, b, how, list, n)
  <2>1. \E f : IsSale(f, b, how, list, n)
    BY <1>1, SaleExists
  <2>2. QED
    BY <2>1, Zenon DEF IsSale, Start
<1>3. purchase(b, how, list) = x[n]
  BY Zenon DEF purchase
<1> HIDE DEF n, x
<1>4. \A k \in 0..n : x[k] = IF k = 0 THEN Start(b, list) ELSE sell_entry(x[k - 1], how, list[k])
  BY <1>2 DEF IsSale
<1> DEFINE B == {k \in 0..n : x[k] \notin S}
<1>5. B = {}
  <2> SUFFICES ASSUME B # {} PROVE FALSE
    OBVIOUS
  <2>1. PICK k \in B : \A i \in B : k <= i
    <3>1. B \in SUBSET Nat
      BY <1>1
    <3> HIDE DEF B
    <3>2. QED
      BY <3>1, SmallestExists
  <2>2. k \in 0..n /\ x[k] \notin S
    OBVIOUS
  <2>3. k # 0
    BY <1>4, <2>2
  <2>4. k - 1 \in 0..n /\ k - 1 \notin B /\ list[k] \in Entries
    BY <1>1, <2>1, <2>2, <2>3
  <2>5. x[k - 1] \in S
    BY <2>4
  <2>6. QED
    BY <1>4, <2>2, <2>3, <2>4, <2>5
<1>6. n \in 0..n
  BY <1>1
<1>7. QED
  BY <1>3, <1>5, <1>6

\* What an entry does to the board: it sells a cargo that is there, makes a
\* ghost, or does nothing.
LEMMA EntryCases ==
  ASSUME NEW r \in Sales, NEW how, NEW e \in Entries, NEW c, c = sell_entry(r, how, e)
  PROVE  /\ c = [board |-> c.board, db |-> c.db, sold |-> c.sold, refused |-> c.refused]
         /\ c.sold \in Seq(Entries) /\ c.refused \in BOOLEAN
         /\ \/ /\ Live(r.board, e.id)
               /\ c.board = sell_goods(r.board, e.id, e.n)
               /\ c.db = Append(r.db, modify_db_data(c.board, e.id))
            \/ c.board = [r.board EXCEPT !.ghosts = @ \cup {e.id}] /\ c.db = r.db
            \/ c.board = r.board /\ c.db = r.db
<1>1. /\ r = [board |-> r.board, db |-> r.db, sold |-> r.sold, refused |-> r.refused]
      /\ r.sold \in Seq(Entries) /\ r.refused \in BOOLEAN
  BY DEF Sales
<1>2. Append(r.sold, e) \in Seq(Entries)
  BY <1>1
<1>3. CASE ~r.refused /\ Live(r.board, e.id)
  <2>1. PICK a : a = sell_goods(r.board, e.id, e.n)
    OBVIOUS
  <2>2. PICK d : d = Append(r.db, modify_db_data(a, e.id))
    OBVIOUS
  <2>3. c = [r EXCEPT !.board = a, !.sold = Append(@, e), !.db = Append(@, modify_db_data(a, e.id))]
    BY <1>3, <2>1, Zenon DEF sell_entry
  <2>4. PICK z : z = Append(r.sold, e)
    OBVIOUS
  <2>5. c = [r EXCEPT !.board = a, !.sold = z, !.db = d]
    BY <2>2, <2>3, <2>4, Zenon
  <2>6. c = [board |-> a, db |-> d, sold |-> z, refused |-> r.refused]
    BY <1>1, <2>5
  <2>7. QED
    BY <1>1, <1>2, <1>3, <2>1, <2>2, <2>4, <2>6
<1>4. CASE ~r.refused /\ ~Live(r.board, e.id) /\ how = "batch_buy"
  <2>1. PICK a : a = [r.board EXCEPT !.ghosts = @ \cup {e.id}]
    OBVIOUS
  <2>2. c = [r EXCEPT !.board = a]
    BY <1>4, <2>1 DEF sell_entry
  <2>3. c = [board |-> a, db |-> r.db, sold |-> r.sold, refused |-> r.refused]
    BY <1>1, <2>2
  <2>4. QED
    BY <1>1, <2>1, <2>3
<1>5. CASE /\ ~(~r.refused /\ Live(r.board, e.id))
           /\ ~(~r.refused /\ ~Live(r.board, e.id) /\ how = "batch_buy")
  <2>1. c = [r EXCEPT !.refused = TRUE]
    BY <1>5 DEF sell_entry
  <2>2. c = [board |-> r.board, db |-> r.db, sold |-> r.sold, refused |-> TRUE]
    BY <1>1, <2>1
  <2>3. QED
    BY <1>1, <2>2
<1>6. QED
  BY <1>3, <1>4, <1>5

LEMMA GhostFields ==
  ASSUME NEW b, IsBoard(b), NEW id \in Ids, NEW c, c = [b EXCEPT !.ghosts = @ \cup {id}]
  PROVE  /\ IsBoard(c) /\ c.data_map = b.data_map
         /\ c.global_id = b.global_id /\ c.indices = b.indices /\ c.user_map = b.user_map
         /\ c.down_map = b.down_map
BY BoardFacts DEF IsBoard

\* Goods sold change the number of a cargo, and may end it: c is the board
\* with the new number, a the board the sale leaves.
SoldAs(b, id, v, m, c, a) ==
  /\ m = [b.data_map EXCEPT ![id].val = v] /\ c = [b EXCEPT !.data_map = m]
  /\ IsBoard(c) /\ (a = c \/ a = cargo_remove(c, {id}))
  /\ c.data_map = m /\ c.global_id = b.global_id /\ c.indices = b.indices
  /\ c.user_map = b.user_map /\ c.down_map = b.down_map
  /\ DOMAIN m = DOMAIN b.data_map
  /\ \A x \in DOMAIN b.data_map :
       /\ m[x].role_id = b.data_map[x].role_id /\ m[x].objid = b.data_map[x].objid
       /\ m[x].down_time = b.data_map[x].down_time

LEMMA SellGoods ==
  ASSUME NEW b, IsBoard(b), NEW id \in DOMAIN b.data_map, NEW n \in Nat,
         NEW a, a = sell_goods(b, id, n)
  PROVE  IsBoard(a) /\ \E v \in Nat : \E m : \E c : SoldAs(b, id, v, m, c, a)
<1>1. PICK v : v = (b.data_map[id].val + Word - n) % Word
  OBVIOUS
<1>2. v \in Nat
  <2>1. b.data_map[id].val \in Nat /\ Word \in Nat \ {0}
    BY BoardFacts, OpsAssumption DEF Cargo
  <2>2. PICK y : y = b.data_map[id].val
    OBVIOUS
  <2>3. v = (y + Word - n) % Word /\ y \in Nat
    BY <1>1, <2>1, <2>2
  <2>4. QED
    BY <2>1, <2>3, SMTT(30)
<1>3. PICK m : m = [b.data_map EXCEPT ![id].val = v]
  OBVIOUS
<1>4. PICK c : c = [b EXCEPT !.data_map = m]
  OBVIOUS
<1>5. a = c \/ a = cargo_remove(c, {id})
  BY <1>1, <1>3, <1>4, Zenon DEF sell_goods
<1>6. /\ m \in [DOMAIN b.data_map -> Cargo]
      /\ \A x \in DOMAIN b.data_map :
           /\ m[x].role_id = b.data_map[x].role_id /\ m[x].objid = b.data_map[x].objid
           /\ m[x].down_time = b.data_map[x].down_time
  BY <1>2, <1>3, BoardFacts DEF Cargo
<1>7. /\ IsBoard(c) /\ c.data_map = m /\ c.global_id = b.global_id /\ c.indices = b.indices
      /\ c.user_map = b.user_map /\ c.down_map = b.down_map
  BY <1>4, <1>6, BoardFacts DEF IsBoard, IsCargoMap
<1>8. IsBoard(a)
  BY <1>5, <1>7, RemoveType
<1>9. DOMAIN m = DOMAIN b.data_map
  BY <1>6
<1>10. SoldAs(b, id, v, m, c, a)
  BY <1>3, <1>4, <1>5, <1>6, <1>7, <1>9, Zenon DEF SoldAs
<1>11. QED
  BY <1>2, <1>8, <1>10

LEMMA EntryType ==
  ASSUME NEW r \in Sales, NEW how, NEW e \in Entries
  PROVE  sell_entry(r, how, e) \in Sales
<1>1. PICK c : c = sell_entry(r, how, e)
  OBVIOUS
<1>2. IsBoard(r.board) /\ r.db \in Seq(NoAdd) /\ e.id \in Ids /\ e.n \in Nat
  BY BoardsAre DEF Sales, Entries
<1>3. IsBoard(c.board) /\ c.db \in Seq(NoAdd)
  <2>1. CASE /\ Live(r.board, e.id) /\ c.board = sell_goods(r.board, e.id, e.n)
             /\ c.db = Append(r.db, modify_db_data(c.board, e.id))
    <3>1. IsBoard(c.board)
      <4>1. e.id \in DOMAIN r.board.data_map
        BY <2>1 DEF Live
      <4>2. PICK a : a = sell_goods(r.board, e.id, e.n)
        OBVIOUS
      <4>3. IsBoard(a)
        BY <1>2, <4>1, <4>2, SellGoods
      <4>4. QED
        BY <2>1, <4>2, <4>3
    <3>2. modify_db_data(c.board, e.id) \in NoAdd
      BY <1>2, <3>1, ModifyType
    <3>3. QED
      BY <1>2, <2>1, <3>1, <3>2
  <2>2. CASE c.board = [r.board EXCEPT !.ghosts = @ \cup {e.id}] /\ c.db = r.db
    BY <1>2, <2>2, GhostFields
  <2>3. CASE c.board = r.board /\ c.db = r.db
    BY <1>2, <2>3
  <2>4. QED
    BY <1>1, <2>1, <2>2, <2>3, EntryCases
<1>4. /\ c = [board |-> c.board, db |-> c.db, sold |-> c.sold, refused |-> c.refused]
      /\ c.sold \in Seq(Entries) /\ c.refused \in BOOLEAN
  BY <1>1, EntryCases
<1>5. QED
  BY <1>1, <1>3, <1>4, BoardsAre DEF Sales

LEMMA StartType ==
  ASSUME NEW b, IsBoard(b), NEW list
  PROVE  Start(b, list) \in Sales
<1>1. b \in Boards /\ Buyable(b, list) \in BOOLEAN
  BY BoardsAre DEF Buyable
<1>2. QED
  BY <1>1 DEF Start, Sales

LEMMA PurchaseType ==
  ASSUME NEW b, IsBoard(b), NEW how, NEW list \in Seq(Entries)
  PROVE  Quiet(purchase(b, how, list))
<1>1. purchase(b, how, list) \in Sales
  BY StartType, EntryType, PurchaseIn
<1>2. QED
  BY <1>1, BoardsAre DEF Sales, Quiet

LEMMA CargoResetType ==
  ASSUME NEW b, IsBoard(b), NEW sid \in Sids
  PROVE  Quiet(cargo_reset(b, sid))
<1> DEFINE moved == UNION {b.indices[sid][i] : i \in Items}
           after == [b EXCEPT !.indices  = merge_indices(b.indices, sid),
                              !.data_map = cargo_sid_reset(b, moved)]
<1>1. CASE moved = {}
  BY <1>1, NopType DEF cargo_reset
<1>2. CASE moved # {}
  <2>1. 0 \in Regions /\ sid \in Regions
    BY DEF Regions
  <2>2. merge_indices(b.indices, sid) \in [Regions -> [Items -> SUBSET Ids]]
    BY <2>1, BoardFacts DEF merge_indices
  <2>3. cargo_sid_reset(b, moved) \in [DOMAIN b.data_map -> Cargo]
    <3>1. ASSUME NEW id \in DOMAIN b.data_map PROVE cargo_sid_reset(b, moved)[id] \in Cargo
      <4>1. b.data_map[id] \in Cargo /\ id \in Regions
        BY BoardFacts DEF Regions
      <4> HIDE DEF moved
      <4>2. QED
        BY <4>1 DEF cargo_sid_reset, Cargo
    <3> HIDE DEF moved
    <3>2. QED
      BY <3>1 DEF cargo_sid_reset
  <2>4. IsBoard(after)
    <3> HIDE DEF moved
    <3>1. QED
      BY <2>2, <2>3, BoardFacts DEF IsBoard, IsCargoMap
  <2>5. cargo_reset(b, sid) = [board |-> after, db |-> <<[op |-> "reset", sid |-> sid]>>]
    BY <1>2 DEF cargo_reset
  <2>6. QED
    <3> HIDE DEF after
    <3>1. QED
      BY <2>4, <2>5 DEF Quiet, NoAdd, Statement
<1>3. QED
  BY <1>1, <1>2

LEMMA DownTimeOutType ==
  ASSUME NEW b, IsBoard(b), NEW sid \in Sids, NEW time
  PROVE  Quiet(down_time_out(b, sid, time))
<1> DEFINE r == take_down(b, timed_out(b, sid, time))
           d == [b.down_map EXCEPT ![sid] = @ \ overdue(b, sid, time)]
<1>1. Quiet(r)
  BY TakeDownType DEF timed_out
<1>2. d \in [Sids -> SUBSET (Nat \X Ids)]
  BY BoardFacts
<1>3. down_time_out(b, sid, time) = [board |-> [r.board EXCEPT !.down_map = d], db |-> r.db]
  BY Zenon DEF down_time_out
<1> HIDE DEF r, d
<1>4. IsBoard([r.board EXCEPT !.down_map = d])
  BY <1>1, <1>2 DEF Quiet, IsBoard
<1>5. QED
  BY <1>1, <1>3, <1>4 DEF Quiet

\* The largest of the ids that a process has seen.
LEMMA MaxType ==
  ASSUME NEW n \in Nat, NEW S \in SUBSET (0..n), S # {}
  PROVE  Max(S) \in S /\ \A k \in S : k <= Max(S)
<1>1. \E m \in S : \A k \in S : m >= k
  BY LargestExists
<1>2. QED
  BY <1>1 DEF Max

LEMMA InitDataType ==
  ASSUME NEW b, IsBoard(b), NEW rows, IsCargoMap(rows),
         NEW ids \in SUBSET DOMAIN rows, NEW time
  PROVE  /\ IsBoard(init_data(b, rows, ids, time))
         /\ \A id \in {b.global_id} \cup ids : id <= init_data(b, rows, ids, time).global_id
<1> DEFINE r == init_data(b, rows, ids, time)
<1>1. ids \subseteq Ids /\ \A id \in ids : rows[id] \in Cargo
  BY CargoMapFacts
<1>2. {b.global_id} \cup ids \in SUBSET (0..IdMax) /\ IdMax \in Nat
  BY <1>1, BoardFacts, OpsAssumption DEF Ids
<1>3. r.global_id \in 0..IdMax /\ \A id \in {b.global_id} \cup ids : id <= r.global_id
  BY <1>2, MaxType DEF init_data
<1>4. IsCargoMap(r.data_map)
  <2>1. /\ DOMAIN b.data_map \cup ids \in SUBSET Ids
        /\ r.data_map \in [DOMAIN b.data_map \cup ids -> Cargo]
    BY <1>1, BoardFacts DEF init_data
  <2>2. QED
    BY <2>1 DEF IsCargoMap
<1>5. r.indices \in [Regions -> [Items -> SUBSET Ids]]
  BY <1>1, BoardFacts DEF init_data
<1>6. r.user_map \in [Roles -> SUBSET Ids]
  BY <1>1, BoardFacts DEF init_data
<1>7. r.down_map \in [Sids -> SUBSET (Nat \X Ids)]
  <2>1. \A id \in ids : TIMETOMIN(rows[id].down_time) \in Nat
    <3>1. \A id \in ids : rows[id].down_time \in Nat
      BY <1>1 DEF Cargo
    <3>2. Minute \in Nat
      BY OpsAssumption
    <3>3. QED
      BY <3>1, <3>2, BucketBounds
  <2>2. QED
    BY <1>1, <2>1, BoardFacts DEF init_data
<1>8. IsBoard(r)
  <2>1. /\ r = [ global_id |-> r.global_id, data_map |-> r.data_map, ghosts |-> r.ghosts,
                 indices |-> r.indices, user_map |-> r.user_map, down_map |-> r.down_map ]
        /\ r.ghosts \in SUBSET Ids
    BY BoardFacts DEF init_data
  <2> HIDE DEF r
  <2>2. QED
    BY <1>3, <1>4, <1>5, <1>6, <1>7, <2>1 DEF IsBoard
<1>9. QED
  BY <1>3, <1>8

\* One statement leaves a table of cargos.
LEMMA ExecuteType ==
  ASSUME NEW t, IsCargoMap(t), NEW s \in Statement
  PROVE  IsCargoMap(execute(t, s))
<1>1. DOMAIN t \subseteq Ids /\ t \in [DOMAIN t -> Cargo]
  BY CargoMapFacts
<1>2. CASE s.op = "add" /\ s.id \notin DOMAIN t
  <2>1. s.id \in Ids /\ s.cargo \in Cargo
    BY <1>2 DEF Statement
  <2>2. execute(t, s) = [id \in DOMAIN t \cup {s.id} |-> IF id = s.id THEN s.cargo ELSE t[id]]
    BY <1>2 DEF execute
  <2>3. execute(t, s) \in [DOMAIN t \cup {s.id} -> Cargo]
    BY <1>1, <2>1, <2>2
  <2>4. QED
    BY <1>1, <2>1, <2>3 DEF IsCargoMap
<1>3. CASE s.op = "del"
  <2>1. execute(t, s) \in [DOMAIN t \ {s.id} -> Cargo]
    BY <1>1, <1>3 DEF execute
  <2>2. QED
    BY <1>1, <2>1 DEF IsCargoMap
<1>4. CASE s.op = "update" /\ s.id \in DOMAIN t
  <2>1. s.val \in Nat /\ s.percent \in Nat
    BY <1>4 DEF Statement
  <2>2. execute(t, s) = [t EXCEPT ![s.id].val = s.val, ![s.id].percent = s.percent]
    BY <1>4 DEF execute
  <2>3. execute(t, s) \in [DOMAIN t -> Cargo]
    BY <1>1, <1>4, <2>1, <2>2 DEF Cargo
  <2>4. QED
    BY <1>1, <2>3 DEF IsCargoMap
<1>5. CASE s.op = "reset"
  <2>1. 0 \in Regions
    BY DEF Regions
  <2>2. execute(t, s) \in [DOMAIN t -> Cargo]
    BY <1>1, <1>5, <2>1 DEF execute, Cargo
  <2>3. QED
    BY <1>1, <2>2 DEF IsCargoMap
<1>6. CASE execute(t, s) = t
  BY <1>6
<1>7. QED
  BY <1>2, <1>3, <1>4, <1>5, <1>6 DEF execute

-----------------------------------------------------------------------------
(* Type correctness.                                                       *)

\* TypeOK needs two facts of the loading: rows are on their way only while
\* the process loads, and sharedb has nothing to execute meanwhile, so that
\* no row it was asked for disappears.
LoadType ==
  /\ phase = "loading" => dbq = <<>>
  /\ phase # "loading" => todo = {}

LEMMA NamedType ==
  ASSUME NEW q \in Seq(Statement)
  PROVE  Named(q) \subseteq Ids
<1>1. \A k \in DOMAIN q : q[k] \in Statement
  BY LenProperties, ElementOfSeq
<1>2. \A x \in Statement : x.op # "reset" => x.id \in Ids
  BY DEF Statement
<1>3. QED
  BY <1>1, <1>2 DEF Named

\* Statements one after the other name what they name.
LEMMA NamedParts ==
  ASSUME NEW T, NEW p \in Seq(T), NEW q \in Seq(T)
  PROVE  Named(p \o q) = Named(p) \cup Named(q)
<1> DEFINE z == p \o q
           n == Len(p)
           m == Len(q)
<1>1. /\ n \in Nat /\ m \in Nat /\ DOMAIN z = 1..n + m
      /\ DOMAIN p = 1..n /\ DOMAIN q = 1..m
      /\ \A i \in 1..n : z[i] = p[i]
      /\ \A i \in 1..m : z[n + i] = q[i]
  OBVIOUS
<1> HIDE DEF z, n, m
<1>2. ASSUME NEW i \in DOMAIN z
      PROVE  (i \in DOMAIN p /\ z[i] = p[i]) \/ \E k \in DOMAIN q : z[i] = q[k]
  <2>1. CASE i <= n
    BY <1>1, <2>1
  <2>2. CASE ~(i <= n)
    <3>1. i - n \in 1..m /\ i = n + (i - n)
      BY <1>1, <2>2
    <3>2. PICK k : k = i - n
      OBVIOUS
    <3>3. k \in DOMAIN q /\ z[i] = q[k]
      BY <1>1, <3>1, <3>2
    <3>4. QED
      BY <3>3
  <2>3. QED
    BY <2>1, <2>2
<1>3. (\A i \in DOMAIN p : i \in DOMAIN z) /\ (\A i \in DOMAIN q : n + i \in DOMAIN z)
  BY <1>1
<1>4. Named(z) \subseteq Named(p) \cup Named(q)
  BY <1>2 DEF Named
<1>5. Named(p) \subseteq Named(z)
  BY <1>1, <1>3 DEF Named
<1>6. Named(q) \subseteq Named(z)
  <2> SUFFICES ASSUME NEW k \in DOMAIN q, q[k].op # "reset"
               PROVE  q[k].id \in Named(z)
    BY DEF Named
  <2>1. PICK i : i = n + k
    OBVIOUS
  <2>2. i \in DOMAIN z /\ z[i] = q[k]
    BY <1>1, <1>3, <2>1
  <2>3. QED
    BY <2>2 DEF Named
<1>7. QED
  BY <1>4, <1>5, <1>6 DEF z

\* A sequence cut at one place.
LEMMA CutSeq ==
  ASSUME NEW T, NEW q \in Seq(T), NEW k \in 0..Len(q)
  PROVE  /\ SubSeq(q, 1, k) \in Seq(T) /\ SubSeq(q, k + 1, Len(q)) \in Seq(T)
         /\ q = SubSeq(q, 1, k) \o SubSeq(q, k + 1, Len(q))
<1>1. Len(q) \in Nat /\ \A i \in 1..Len(q) : q[i] \in T
  BY LenProperties, ElementOfSeq
<1>2. k \in Int /\ k + 1 \in Int /\ Len(q) \in Int /\ 1 \in Int
  BY <1>1
<1>3. (\A i \in 1..k : q[i] \in T) /\ \A i \in k + 1..Len(q) : q[i] \in T
  BY <1>1
<1>4. SubSeq(q, 1, k) \in Seq(T)
  BY <1>2, <1>3, SubSeqProperties
<1>5. SubSeq(q, k + 1, Len(q)) \in Seq(T)
  BY <1>2, <1>3, SubSeqProperties
<1>6. 1 \in 1..Len(q) + 1 /\ k \in 1 - 1..Len(q) /\ Len(q) \in k..Len(q)
  BY <1>1
<1>7. SubSeq(q, 1, k) \o SubSeq(q, k + 1, Len(q)) = SubSeq(q, 1, Len(q))
  BY <1>6, ConcatAdjacentSubSeq
<1>8. SubSeq(q, 1, Len(q)) = q
  BY SubSeqFull
<1>9. QED
  BY <1>4, <1>5, <1>7, <1>8

\* Of a handler's statements the middle part is written.
Written(r, T, pre, mid, post) ==
  /\ pre \in Seq(T) /\ mid \in Seq(T) /\ post \in Seq(T)
  /\ r.db = (pre \o mid) \o post
  /\ dbq' = dbq \o mid
  /\ lost' = lost \cup Named(pre) \cup Named(post)

LEMMA HandleParts ==
  ASSUME NEW r, NEW T, r.db \in Seq(T), Handle(r)
  PROVE  /\ phase = "open" /\ phase' = "open" /\ board' = r.board /\ shown' = r.board.data_map
         /\ UNCHANGED <<market_sell, todo, now, boot, crashes>>
         /\ \E pre, mid, post : Written(r, T, pre, mid, post)
<1>1. PICK i \in 0..Len(r.db) : \E j \in i..Len(r.db) :
           /\ dbq' = dbq \o SubSeq(r.db, i + 1, j)
           /\ Losing(SubSeq(r.db, 1, i) \o SubSeq(r.db, j + 1, Len(r.db)))
  BY DEF Handle
<1>2. PICK j \in i..Len(r.db) :
           /\ dbq' = dbq \o SubSeq(r.db, i + 1, j)
           /\ Losing(SubSeq(r.db, 1, i) \o SubSeq(r.db, j + 1, Len(r.db)))
  BY <1>1
<1>3. PICK q \in Seq(T) : q = r.db
  OBVIOUS
<1>4. Len(q) \in Nat /\ i \in 0..Len(q) /\ j \in i..Len(q) /\ j \in 0..Len(q)
  BY <1>2, <1>3
<1> DEFINE pre  == SubSeq(q, 1, i)
           mid  == SubSeq(q, i + 1, j)
           post == SubSeq(q, j + 1, Len(q))
<1>5. pre \in Seq(T) /\ post \in Seq(T) /\ q = SubSeq(q, 1, j) \o post
  BY <1>4, CutSeq
<1>6. mid \in Seq(T)
  <2>1. \A k \in 1..Len(q) : q[k] \in T
    BY ElementOfSeq
  <2>2. \A k \in i + 1..j : q[k] \in T
    BY <1>4, <2>1
  <2>3. i + 1 \in Int /\ j \in Int
    BY <1>4
  <2>4. QED
    BY <2>2, <2>3, SubSeqProperties
<1>7. pre \o mid = SubSeq(q, 1, j)
  <2>1. 1 \in 1..Len(q) + 1 /\ i \in 1 - 1..Len(q) /\ j \in i..Len(q)
    BY <1>4
  <2>2. QED
    BY <2>1, ConcatAdjacentSubSeq
<1>8. dbq' = dbq \o mid /\ lost' = lost \cup Named(pre \o post)
  BY <1>2, <1>3 DEF Losing
<1> HIDE DEF pre, mid, post
<1>9. Named(pre \o post) = Named(pre) \cup Named(post)
  BY <1>5, NamedParts
<1>10. Written(r, T, pre, mid, post)
  <2>1. lost' = lost \cup Named(pre) \cup Named(post)
    BY <1>8, <1>9
  <2>2. QED
    BY <1>3, <1>5, <1>6, <1>7, <1>8, <2>1 DEF Written
<1>11. QED
  BY <1>10 DEF Handle

\* When the link ends the rest of the statements on their way is lost.
LEMMA CutParts ==
  ASSUME NEW T, dbq \in Seq(T), NEW kept \in 0..Len(dbq), Cut(kept)
  PROVE  /\ shown' = shown /\ dbq' \in Seq(T)
         /\ \E rest \in Seq(T) : dbq = dbq' \o rest /\ lost' = lost \cup Named(rest)
<1>1. /\ SubSeq(dbq, 1, kept) \in Seq(T) /\ SubSeq(dbq, kept + 1, Len(dbq)) \in Seq(T)
      /\ dbq = SubSeq(dbq, 1, kept) \o SubSeq(dbq, kept + 1, Len(dbq))
  BY CutSeq
<1>2. QED
  BY <1>1 DEF Cut, Losing

LEMMA HandleType ==
  ASSUME TypeOK, LoadType, NEW r, Result(r), Handle(r)
  PROVE  /\ IsBoard(board') /\ IsCargoMap(market_sell') /\ dbq' \in Seq(Statement)
         /\ LoadType' /\ todo' \subseteq DOMAIN market_sell'
         /\ phase' = "open" /\ now' = now /\ boot' = boot /\ crashes' = crashes
         /\ IsCargoMap(shown') /\ lost' \subseteq Ids
<1>1. /\ phase = "open" /\ phase' = "open" /\ board' = r.board /\ shown' = r.board.data_map
      /\ UNCHANGED <<market_sell, todo, now, boot, crashes>>
      /\ \E pre, mid, post : Written(r, Statement, pre, mid, post)
  BY HandleParts DEF Result
<1>2. PICK pre, mid, post : Written(r, Statement, pre, mid, post)
  BY <1>1
<1>3. Named(pre) \subseteq Ids /\ Named(post) \subseteq Ids
  BY <1>2, NamedType DEF Written
<1>4. dbq' \in Seq(Statement) /\ lost' \subseteq Ids
  BY <1>2, <1>3 DEF Written, TypeOK
<1>5. IsCargoMap(shown')
  BY <1>1 DEF Result, IsBoard
<1>6. QED
  BY <1>1, <1>4, <1>5 DEF TypeOK, LoadType, Result

LEMMA RequestType ==
  ASSUME TypeOK, LoadType, NEW r, Result(r), Request(r)
  PROVE  TypeOK' /\ LoadType'
BY HandleType DEF Request, TypeOK

LEMMA RegionType ==
  ASSUME TypeOK, NEW rid \in Roles
  PROVE  get_social_sid(rid) \in Regions
BY OpsAssumption, BoardAssumption DEF TypeOK, get_social_sid, Regions

LEMMA TypeInvariant == Spec => [](TypeOK /\ LoadType)
<1>1. Init => TypeOK /\ LoadType
  <2> SUFFICES ASSUME Init PROVE TypeOK /\ LoadType
    OBVIOUS
  <2>1. IsBoard(board) /\ IsCargoMap(market_sell) /\ IsCargoMap(shown)
    BY EmptyBoardType DEF Init, IsBoard
  <2>2. dbq \in Seq(Statement)
    BY DEF Init
  <2>3. QED
    BY <2>1, <2>2 DEF Init, TypeOK, LoadType
<1>2. TypeOK /\ LoadType /\ [Next]_vars => TypeOK' /\ LoadType'
  <2> SUFFICES ASSUME TypeOK, LoadType, [Next]_vars PROVE TypeOK' /\ LoadType'
    OBVIOUS
  <2> USE DEF TypeOK, LoadType
  <2>1. ASSUME NEW rid \in Roles, NEW i \in Items, NEW v \in 1..MaxVal, NEW p \in Percents,
               CargoUp(rid, i, v, p)
        PROVE  TypeOK' /\ LoadType'
    <3>1. p \in Nat /\ v \in Nat
      BY BoardAssumption
    <3> HIDE DEF TypeOK, LoadType
    <3>2. IsBoard(board) /\ now \in Nat
      BY DEF TypeOK
    <3>3. Result(cargo_up(board, get_social_sid(rid), rid, i, v, p, now))
      BY <3>1, <3>2, RegionType, CargoUpType
    <3>4. QED
      BY <2>1, <3>3, RequestType DEF CargoUp
  <2>2. ASSUME NEW rid \in Roles, NEW id \in Ids, CargoDown(rid, id)
        PROVE  TypeOK' /\ LoadType'
    BY <2>2, CargoDownType, QuietResult, RequestType DEF CargoDown
  <2>3. ASSUME NEW rid \in Roles, NEW id \in Ids, NEW p \in Percents, CargoChange(rid, id, p)
        PROVE  TypeOK' /\ LoadType'
    <3>1. p \in Nat
      BY BoardAssumption
    <3>2. QED
      BY <2>3, <3>1, CargoChangeType, QuietResult, RequestType DEF CargoChange
  <2>4. ASSUME NEW how \in Hows, NEW list \in Asked(how, Ids, MaxVal, Percents),
               Purchase(how, list)
        PROVE  TypeOK' /\ LoadType'
    BY <2>4, AskedType, PurchaseType, QuietResult, RequestType DEF Purchase
  <2>5. ASSUME NEW sid \in Primaries, SocialReset(sid) \/ SocialResetLost(sid) \/ DownTimeout(sid)
        PROVE  TypeOK' /\ LoadType'
    <3>1. sid \in Sids
      BY OpsAssumption, BoardAssumption DEF Primaries
    <3>2. CASE SocialReset(sid)
      BY <3>1, <3>2, CargoResetType, QuietResult, HandleType DEF SocialReset
    <3>3. CASE SocialResetLost(sid)
      BY <3>1, <3>3 DEF SocialResetLost, past
    <3>4. CASE DownTimeout(sid)
      BY <3>1, <3>4, DownTimeOutType, QuietResult, HandleType DEF DownTimeout
    <3>5. QED
      BY <2>5, <3>2, <3>3, <3>4
  <2>6. CASE DbExecute
    <3>1. Head(dbq) \in Statement /\ Tail(dbq) \in Seq(Statement)
      BY <2>6, HeadTailProperties DEF DbExecute
    <3>2. IsCargoMap(market_sell')
      BY <2>6, <3>1, ExecuteType DEF DbExecute
    <3>3. todo = {}
      BY <2>6 DEF DbExecute
    <3>4. QED
      BY <2>6, <3>1, <3>2, <3>3 DEF DbExecute, past
  <2>7. CASE RequestList
    BY <2>7 DEF RequestList, past
  <2>8. ASSUME NEW ids \in SUBSET todo, LoadRows(ids) PROVE TypeOK' /\ LoadType'
    <3>1. IsBoard(board')
      BY <2>8, InitDataType DEF LoadRows
    <3>2. QED
      BY <2>8, <3>1 DEF LoadRows, past
  <2>9. CASE LoadEnd
    BY <2>9 DEF LoadEnd, past
  <2>10. CASE LoadLost
    BY <2>10 DEF LoadLost, past
  <2>11. CASE Tick
    BY <2>11 DEF Tick, past
  <2>12. ASSUME NEW kept \in 0..Len(dbq), LinkLost(kept) \/ Crash(kept)
         PROVE  TypeOK' /\ LoadType'
    <3>1. Cut(kept)
      BY <2>12 DEF LinkLost, Crash
    <3>2. PICK rest \in Seq(Statement) : lost' = lost \cup Named(rest)
      BY <3>1, CutParts
    <3>3. dbq' \in Seq(Statement) /\ shown' = shown /\ lost' \subseteq Ids
      BY <3>1, <3>2, CutParts, NamedType
    <3>4. CASE LinkLost(kept)
      BY <3>3, <3>4 DEF LinkLost
    <3>5. CASE Crash(kept)
      BY <3>3, <3>5, EmptyBoardType DEF Crash
    <3>6. QED
      BY <2>12, <3>4, <3>5
  <2>13. CASE UNCHANGED vars
    BY <2>13 DEF vars, past
  <2>14. QED
    BY <2>1, <2>2, <2>3, <2>4, <2>5, <2>6, <2>7, <2>8, <2>9, <2>10, <2>11, <2>12, <2>13 DEF Next
<1>3. QED
  BY <1>1, <1>2, PTL DEF Spec

\* The board, the table and the statements between them always have their
\* types: no handler stores a cargo with a negative count, an id out of
\* range or an owner that is no role.
THEOREM TypeCorrect == Spec => []TypeOK
BY TypeInvariant, PTL

-----------------------------------------------------------------------------
(* A cargo on sale is where its readers look for it.                       *)

\* No list holds an id that alloc_id has yet to hand out.  Without it a fresh
\* cargo could appear in a list that kept the id of a cargo long gone, which
\* cargo_reset makes possible (cargo_remove then searches the wrong list).
Below(b) ==
  \A r \in Regions, i \in Items : \A id \in b.indices[r][i] : id <= b.global_id

Indexing(b) == Indexed(b) /\ Below(b)

\* What Indexing depends on.
LEMMA SameIndexing ==
  ASSUME NEW b, IsBoard(b), Indexing(b), NEW c,
         c.global_id = b.global_id, c.indices = b.indices, c.user_map = b.user_map,
         DOMAIN c.data_map = DOMAIN b.data_map,
         \A id \in DOMAIN b.data_map : /\ c.data_map[id].role_id = b.data_map[id].role_id
                                      /\ c.data_map[id].objid = b.data_map[id].objid
  PROVE  Indexing(c)
BY DEF Indexing, Indexed, Below

LEMMA RemoveFields ==
  ASSUME NEW b, IsBoard(b), NEW gone
  PROVE  /\ cargo_remove(b, gone).user_map = user_lists(b, gone)
         /\ cargo_remove(b, gone).indices = buy_lists(b, gone)
         /\ cargo_remove(b, gone).data_map = cargos(b, gone)
         /\ cargo_remove(b, gone).global_id = b.global_id
         /\ cargo_remove(b, gone).down_map = b.down_map
BY DEF cargo_remove, IsBoard

LEMMA RemoveIndexing ==
  ASSUME NEW b, IsBoard(b), Indexing(b), NEW gone
  PROVE  Indexing(cargo_remove(b, gone))
<1> DEFINE c == cargo_remove(b, gone)
<1>1. /\ c.user_map = user_lists(b, gone) /\ c.indices = buy_lists(b, gone)
      /\ c.data_map = cargos(b, gone) /\ c.global_id = b.global_id
  BY RemoveFields
<1> HIDE DEF c
<1>2. /\ DOMAIN c.data_map = DOMAIN b.data_map \ gone
      /\ \A id \in DOMAIN c.data_map : c.data_map[id] = b.data_map[id]
  BY <1>1 DEF cargos
<1>3. ASSUME NEW r \in Roles
      PROVE  c.user_map[r] = {id \in DOMAIN c.data_map : c.data_map[id].role_id = r}
  <2>1. b.user_map[r] = {id \in DOMAIN b.data_map : b.data_map[id].role_id = r}
    BY DEF Indexing, Indexed
  <2>2. c.user_map[r] = b.user_map[r] \ {id \in gone : b.data_map[id].role_id = r}
    BY <1>1 DEF user_lists
  <2>3. QED
    BY <1>2, <2>1, <2>2
<1>4. ASSUME NEW id \in DOMAIN c.data_map
      PROVE  \E r \in Regions : \A q \in Regions, i \in Items :
               id \in c.indices[q][i] <=> q = r /\ i = c.data_map[id].objid
  <2>1. \A q \in Regions, i \in Items : id \in c.indices[q][i] <=> id \in b.indices[q][i]
    BY <1>1, <1>2 DEF buy_lists
  <2>2. QED
    BY <1>2, <2>1 DEF Indexing, Indexed
<1>5. Below(c)
  <2>1. \A q \in Regions, i \in Items : c.indices[q][i] \subseteq b.indices[q][i]
    BY <1>1 DEF buy_lists
  <2>2. QED
    BY <1>1, <2>1 DEF Indexing, Below
<1>6. QED
  BY <1>3, <1>4, <1>5 DEF Indexing, Indexed, c

\* The next id is of no cargo and in no list.
LEMMA AllocFresh ==
  ASSUME NEW b, IsBoard(b), Indexing(b), b.global_id < IdMax
  PROVE  /\ alloc_id(b) = b.global_id + 1
         /\ alloc_id(b) \notin DOMAIN b.data_map
         /\ \A r \in Regions, i \in Items : alloc_id(b) \notin b.indices[r][i]
<1>1. b.global_id \in Nat /\ IdMax \in Nat /\ alloc_id(b) = b.global_id + 1
  BY BoardFacts, OpsAssumption DEF alloc_id
<1>2. ASSUME NEW r \in Regions, NEW i \in Items PROVE alloc_id(b) \notin b.indices[r][i]
  BY <1>1 DEF Indexing, Below
<1>3. ASSUME alloc_id(b) \in DOMAIN b.data_map PROVE FALSE
  <2>1. b.data_map[alloc_id(b)].objid \in Items
    BY <1>3, BoardFacts DEF Cargo
  <2>2. \E r \in Regions : alloc_id(b) \in b.indices[r][b.data_map[alloc_id(b)].objid]
    BY <1>3, <2>1 DEF Indexing, Indexed
  <2>3. QED
    BY <1>2, <2>1, <2>2
<1>4. QED
  BY <1>1, <1>2, <1>3

LEMMA CargoUpIndexing ==
  ASSUME NEW b, IsBoard(b), Indexing(b), b.global_id < IdMax,
         NEW sid \in Regions, NEW rid \in Roles, NEW objid \in Items,
         NEW val \in Nat, NEW percent \in Nat, NEW time \in Nat
  PROVE  Indexing(cargo_up(b, sid, rid, objid, val, percent, time).board)
<1> DEFINE id == alloc_id(b)
           k  == [sid |-> sid, role_id |-> rid, objid |-> objid, val |-> val,
                  percent |-> percent, down_time |-> time + Life]
           c  == cargo_up(b, sid, rid, objid, val, percent, time).board
<1>1. /\ id = b.global_id + 1 /\ id \notin DOMAIN b.data_map
      /\ \A r \in Regions, i \in Items : id \notin b.indices[r][i]
      /\ b.global_id \in Nat
  BY AllocFresh, BoardFacts
<1>2. /\ c.global_id = id
      /\ c.data_map = [x \in DOMAIN b.data_map \cup {id} |-> IF x = id THEN k ELSE b.data_map[x]]
      /\ c.indices = [b.indices EXCEPT ![sid][objid] = @ \cup {id}]
      /\ c.user_map = [b.user_map EXCEPT ![rid] = @ \cup {id}]
  BY DEF cargo_up, IsBoard
<1> k.role_id = rid /\ k.objid = objid
  OBVIOUS
<1> HIDE DEF id, k, c
<1>3. /\ DOMAIN c.data_map = DOMAIN b.data_map \cup {id}
      /\ c.data_map[id] = k
      /\ \A x \in DOMAIN b.data_map : c.data_map[x] = b.data_map[x]
  BY <1>1, <1>2
<1>4. \A q \in Regions, i \in Items : \A x :
        x \in c.indices[q][i] <=> x \in b.indices[q][i] \/ (q = sid /\ i = objid /\ x = id)
  <2>1. b.indices \in [Regions -> [Items -> SUBSET Ids]]
    BY BoardFacts
  <2> TAKE q \in Regions, i \in Items
  <2>2. CASE q = sid /\ i = objid
    BY <1>2, <2>1, <2>2
  <2>3. CASE q # sid
    BY <1>2, <2>1, <2>3
  <2>4. CASE i # objid
    BY <1>2, <2>1, <2>4
  <2>5. QED
    BY <2>2, <2>3, <2>4
<1>5. ASSUME NEW r \in Roles
      PROVE  c.user_map[r] = {x \in DOMAIN c.data_map : c.data_map[x].role_id = r}
  <2>1. b.user_map[r] = {x \in DOMAIN b.data_map : b.data_map[x].role_id = r}
    BY DEF Indexing, Indexed
  <2>2. c.user_map[r] = IF r = rid THEN b.user_map[r] \cup {id} ELSE b.user_map[r]
    BY <1>2, BoardFacts
  <2>3. QED
    BY <1>1, <1>3, <2>1, <2>2
<1>6. ASSUME NEW x \in DOMAIN c.data_map
      PROVE  \E r \in Regions : \A q \in Regions, i \in Items :
               x \in c.indices[q][i] <=> q = r /\ i = c.data_map[x].objid
  <2>1. CASE x = id
    BY <1>1, <1>3, <1>4, <2>1
  <2>2. CASE x # id
    <3>1. x \in DOMAIN b.data_map /\ c.data_map[x] = b.data_map[x]
      BY <1>3, <2>2
    <3>2. PICK r \in Regions : \A q \in Regions, i \in Items :
            x \in b.indices[q][i] <=> q = r /\ i = b.data_map[x].objid
      BY <3>1 DEF Indexing, Indexed
    <3>3. QED
      BY <1>4, <2>2, <3>1, <3>2
  <2>3. QED
    BY <2>1, <2>2
<1>7. Below(c)
  <2> SUFFICES ASSUME NEW r \in Regions, NEW i \in Items, NEW x \in c.indices[r][i]
               PROVE  x <= c.global_id
    BY DEF Below
  <2>1. x = id \/ x \in b.indices[r][i]
    BY <1>4
  <2>2. x \in b.indices[r][i] => x \in Nat /\ x <= b.global_id
    BY BoardFacts DEF Indexing, Below, Ids
  <2>3. QED
    BY <1>1, <1>2, <2>1, <2>2
<1>8. QED
  BY <1>5, <1>6, <1>7 DEF Indexing, Indexed, c

LEMMA CargoDownIndexing ==
  ASSUME NEW b, IsBoard(b), Indexing(b), NEW rid, NEW id
  PROVE  Indexing(cargo_down(b, rid, id).board)
BY RemoveIndexing DEF cargo_down, take_down, Nop

LEMMA CargoChangeIndexing ==
  ASSUME NEW b, IsBoard(b), Indexing(b), NEW rid, NEW id, NEW percent
  PROVE  Indexing(cargo_change(b, rid, id, percent).board)
<1> DEFINE m     == [b.data_map EXCEPT ![id].percent = percent]
           after == [b EXCEPT !.data_map = m]
<1>1. CASE Live(b, id) /\ b.data_map[id].role_id = rid
  <2>1. DOMAIN m = DOMAIN b.data_map
    OBVIOUS
  <2>2. \A x \in DOMAIN b.data_map : /\ m[x].role_id = b.data_map[x].role_id
                                     /\ m[x].objid = b.data_map[x].objid
    BY BoardFacts DEF Cargo
  <2> HIDE DEF m
  <2>3. /\ after.global_id = b.global_id /\ after.indices = b.indices
        /\ after.user_map = b.user_map /\ after.data_map = m
    BY DEF IsBoard
  <2>4. Indexing(after)
    <3> HIDE DEF after
    <3>1. QED
      BY <2>1, <2>2, <2>3, SameIndexing
  <2>5. cargo_change(b, rid, id, percent).board = after
    BY <1>1 DEF cargo_change, m
  <2>6. QED
    BY <2>4, <2>5
<1>2. CASE ~(Live(b, id) /\ b.data_map[id].role_id = rid)
  BY <1>2 DEF cargo_change, Nop
<1>3. QED
  BY <1>1, <1>2

LEMMA EntryIndexing ==
  ASSUME NEW r \in Sales, Indexing(r.board), NEW how, NEW e \in Entries
  PROVE  Indexing(sell_entry(r, how, e).board)
<1>1. PICK c : c = sell_entry(r, how, e)
  OBVIOUS
<1>2. IsBoard(r.board) /\ e.id \in Ids /\ e.n \in Nat
  BY BoardsAre DEF Sales, Entries
<1>3. PICK b : b = r.board
  OBVIOUS
<1>4. CASE Live(b, e.id) /\ c.board = sell_goods(b, e.id, e.n)
  <2>1. PICK a : a = sell_goods(b, e.id, e.n)
    OBVIOUS
  <2>2. e.id \in DOMAIN b.data_map
    BY <1>4 DEF Live
  <2>3. PICK v, m, l : v \in Nat /\ SoldAs(b, e.id, v, m, l, a)
    BY <1>2, <1>3, <2>1, <2>2, SellGoods
  <2>4. IsBoard(l) /\ Indexing(l)
    <3>1. /\ IsBoard(l) /\ l.global_id = b.global_id /\ l.indices = b.indices
          /\ l.user_map = b.user_map /\ DOMAIN l.data_map = DOMAIN b.data_map
          /\ \A x \in DOMAIN b.data_map : /\ l.data_map[x].role_id = b.data_map[x].role_id
                                         /\ l.data_map[x].objid = b.data_map[x].objid
      BY <2>3 DEF SoldAs
    <3>2. QED
      BY <1>2, <1>3, <3>1, SameIndexing
  <2>5. Indexing(a)
    BY <2>3, <2>4, RemoveIndexing DEF SoldAs
  <2>6. QED
    BY <1>1, <1>4, <2>1, <2>5
<1>5. CASE c.board = [b EXCEPT !.ghosts = @ \cup {e.id}]
  <2>1. PICK g : g = c.board
    OBVIOUS
  <2>2. /\ IsBoard(g) /\ g.data_map = b.data_map /\ g.global_id = b.global_id
        /\ g.indices = b.indices /\ g.user_map = b.user_map
    BY <1>2, <1>3, <1>5, <2>1, GhostFields
  <2>3. Indexing(g)
    BY <1>2, <1>3, <2>2, SameIndexing
  <2>4. QED
    BY <1>1, <2>1, <2>3
<1>6. CASE c.board = b
  BY <1>1, <1>3, <1>6
<1>7. QED
  BY <1>1, <1>3, <1>4, <1>5, <1>6, EntryCases

LEMMA PurchaseIndexing ==
  ASSUME NEW b, IsBoard(b), Indexing(b), NEW how, NEW list \in Seq(Entries)
  PROVE  Indexing(purchase(b, how, list).board)
<1> DEFINE S == {r \in Sales : Indexing(r.board)}
<1>1. Start(b, list) \in S
  <2>1. Start(b, list).board = b
    BY DEF Start
  <2>2. QED
    BY <2>1, StartType
<1>2. \A r \in S : \A e \in Entries : sell_entry(r, how, e) \in S
  BY EntryType, EntryIndexing
<1> HIDE DEF S
<1>3. purchase(b, how, list) \in S
  BY <1>1, <1>2, PurchaseIn
<1>4. QED
  BY <1>3 DEF S

LEMMA CargoResetIndexing ==
  ASSUME NEW b, IsBoard(b), Indexing(b), NEW sid \in Sids
  PROVE  Indexing(cargo_reset(b, sid).board)
<1> DEFINE moved == UNION {b.indices[sid][i] : i \in Items}
           m     == cargo_sid_reset(b, moved)
           ix    == merge_indices(b.indices, sid)
           c     == [b EXCEPT !.indices = ix, !.data_map = m]
<1>1. CASE moved = {}
  BY <1>1 DEF cargo_reset, Nop
<1>2. CASE moved # {}
  <2>1. sid # 0 /\ 0 \in Regions /\ sid \in Regions
    BY OpsAssumption DEF Regions
  <2>2. \A q \in Regions, i \in Items : \A x : x \in ix[q][i] <=>
          \/ q = 0 /\ (x \in b.indices[0][i] \/ x \in b.indices[sid][i])
          \/ q # 0 /\ q # sid /\ x \in b.indices[q][i]
    <3>1. b.indices \in [Regions -> [Items -> SUBSET Ids]]
      BY BoardFacts
    <3> TAKE q \in Regions, i \in Items
    <3>2. CASE q = 0
      BY <2>1, <3>1, <3>2 DEF merge_indices
    <3>3. CASE q = sid
      BY <2>1, <3>1, <3>3 DEF merge_indices
    <3>4. CASE q # 0 /\ q # sid
      BY <2>1, <3>1, <3>4 DEF merge_indices
    <3>5. QED
      BY <3>2, <3>3, <3>4
  <2>3. /\ DOMAIN m = DOMAIN b.data_map
        /\ \A x \in DOMAIN b.data_map : /\ m[x].role_id = b.data_map[x].role_id
                                         /\ m[x].objid = b.data_map[x].objid
    <3> HIDE DEF moved
    <3>1. QED
      BY BoardFacts DEF cargo_sid_reset, Cargo
  <2> HIDE DEF moved, m, ix
  <2>4. /\ c.global_id = b.global_id /\ c.indices = ix
        /\ c.user_map = b.user_map /\ c.data_map = m
    BY DEF IsBoard
  <2> HIDE DEF c
  <2>5. \A r \in Roles : c.user_map[r] = {x \in DOMAIN c.data_map : c.data_map[x].role_id = r}
    BY <2>3, <2>4 DEF Indexing, Indexed
  <2>6. ASSUME NEW x \in DOMAIN c.data_map
        PROVE  \E r \in Regions : \A q \in Regions, i \in Items :
                 x \in c.indices[q][i] <=> q = r /\ i = c.data_map[x].objid
    <3>1. PICK r \in Regions : \A q \in Regions, i \in Items :
            x \in b.indices[q][i] <=> q = r /\ i = b.data_map[x].objid
      BY <2>3, <2>4 DEF Indexing, Indexed
    <3>2. c.data_map[x].objid = b.data_map[x].objid
      BY <2>3, <2>4
    <3>3. CASE r = sid
      <4>1. \A q \in Regions, i \in Items :
              x \in c.indices[q][i] <=> q = 0 /\ i = c.data_map[x].objid
        BY <2>1, <2>2, <2>4, <3>1, <3>2, <3>3
      <4>2. QED
        BY <2>1, <4>1
    <3>4. CASE r # sid
      <4>1. \A q \in Regions, i \in Items :
              x \in c.indices[q][i] <=> q = r /\ i = c.data_map[x].objid
        BY <2>1, <2>2, <2>4, <3>1, <3>2, <3>4
      <4>2. QED
        BY <4>1
    <3>5. QED
      BY <3>3, <3>4
  <2>7. Below(c)
    BY <2>1, <2>2, <2>4 DEF Indexing, Below
  <2>8. cargo_reset(b, sid).board = c
    BY <1>2 DEF cargo_reset, c, ix, m, moved
  <2>9. QED
    BY <2>5, <2>6, <2>7, <2>8 DEF Indexing, Indexed
<1>3. QED
  BY <1>1, <1>2

LEMMA DownTimeOutFields ==
  ASSUME NEW b, IsBoard(b), NEW sid \in Sids, NEW time,
         NEW a, a = down_time_out(b, sid, time).board,
         NEW gone, gone = timed_out(b, sid, time)
  PROVE  /\ a.global_id = cargo_remove(b, gone).global_id
         /\ a.indices = cargo_remove(b, gone).indices
         /\ a.user_map = cargo_remove(b, gone).user_map
         /\ a.data_map = cargo_remove(b, gone).data_map
<1> DEFINE d == [b.down_map EXCEPT ![sid] = @ \ overdue(b, sid, time)]
           c == cargo_remove(b, gone)
<1>1. a = [c EXCEPT !.down_map = d]
  BY DEF down_time_out, take_down
<1>2. IsBoard(c)
  BY RemoveType
<1> HIDE DEF c, d
<1>3. /\ a.global_id = c.global_id /\ a.indices = c.indices /\ a.user_map = c.user_map
      /\ a.data_map = c.data_map
  BY <1>1, <1>2 DEF IsBoard
<1>4. QED
  BY <1>3 DEF c

LEMMA DownTimeOutBuckets ==
  ASSUME NEW b, IsBoard(b), NEW sid \in Sids, NEW time, NEW s \in Sids
  PROVE  down_time_out(b, sid, time).board.down_map[s] =
           IF s = sid THEN b.down_map[s] \ overdue(b, sid, time) ELSE b.down_map[s]
<1> DEFINE d == [b.down_map EXCEPT ![sid] = @ \ overdue(b, sid, time)]
           c == cargo_remove(b, timed_out(b, sid, time))
<1>1. down_time_out(b, sid, time).board = [c EXCEPT !.down_map = d]
  BY DEF down_time_out, take_down
<1>2. IsBoard(c)
  BY RemoveType
<1>3. d[s] = IF s = sid THEN b.down_map[s] \ overdue(b, sid, time) ELSE b.down_map[s]
  BY BoardFacts
<1> HIDE DEF c, d
<1>4. [c EXCEPT !.down_map = d].down_map = d
  BY <1>2 DEF IsBoard
<1>5. QED
  BY <1>1, <1>3, <1>4

LEMMA DownTimeOutIndexing ==
  ASSUME NEW b, IsBoard(b), Indexing(b), NEW sid \in Sids, NEW time
  PROVE  Indexing(down_time_out(b, sid, time).board)
<1> DEFINE a == down_time_out(b, sid, time).board
           c == cargo_remove(b, timed_out(b, sid, time))
<1>1. IsBoard(c) /\ Indexing(c)
  BY RemoveType, RemoveIndexing
<1>2. /\ a.global_id = c.global_id /\ a.indices = c.indices
      /\ a.user_map = c.user_map /\ a.data_map = c.data_map
  BY DownTimeOutFields
<1> HIDE DEF a, c
<1>3. Indexing(a)
  BY <1>1, <1>2, SameIndexing
<1>4. QED
  BY <1>3 DEF a

\* Rows that are not yet on the board take their places without disturbing
\* those that are.
Fresh(b, ids) ==
  \A id \in ids : /\ id \notin DOMAIN b.data_map
                  /\ \A r \in Regions, i \in Items : id \notin b.indices[r][i]

LEMMA InitDataIndexing ==
  ASSUME NEW b, IsBoard(b), Indexing(b), NEW rows, IsCargoMap(rows),
         NEW ids \in SUBSET DOMAIN rows, Fresh(b, ids), NEW time
  PROVE  /\ Indexing(init_data(b, rows, ids, time))
         /\ \A rest : rest \cap ids = {} /\ Fresh(b, rest)
                      => Fresh(init_data(b, rows, ids, time), rest)
<1> DEFINE c == init_data(b, rows, ids, time)
<1>1. \A id \in ids : rows[id] \in Cargo /\ rows[id].sid \in Regions /\ rows[id].objid \in Items
  BY CargoMapFacts DEF Cargo
<1>2. /\ DOMAIN c.data_map = DOMAIN b.data_map \cup ids
      /\ \A x \in ids : c.data_map[x] = rows[x]
      /\ \A x \in DOMAIN b.data_map : c.data_map[x] = b.data_map[x]
  BY DEF init_data, Fresh
<1>3. \A q \in Regions, i \in Items : \A x :
        x \in c.indices[q][i] <=>
          x \in b.indices[q][i] \/ (x \in ids /\ rows[x].sid = q /\ rows[x].objid = i)
  BY DEF init_data
<1>4. \A r \in Roles : \A x :
        x \in c.user_map[r] <=> x \in b.user_map[r] \/ (x \in ids /\ rows[x].role_id = r)
  BY DEF init_data
<1>5. \A id \in {b.global_id} \cup ids : id <= c.global_id
  BY InitDataType
<1>6. /\ b.global_id \in Nat /\ c.global_id \in Nat
      /\ \A q \in Regions, i \in Items : b.indices[q][i] \subseteq Nat
  <2>1. IsBoard(c)
    BY InitDataType
  <2>2. QED
    BY <2>1, BoardFacts DEF Ids
<1> HIDE DEF c
<1>7. ASSUME NEW r \in Roles
      PROVE  c.user_map[r] = {x \in DOMAIN c.data_map : c.data_map[x].role_id = r}
  <2>1. b.user_map[r] = {x \in DOMAIN b.data_map : b.data_map[x].role_id = r}
    BY DEF Indexing, Indexed
  <2>2. QED
    BY <1>2, <1>4, <2>1
<1>8. ASSUME NEW x \in DOMAIN c.data_map
      PROVE  \E r \in Regions : \A q \in Regions, i \in Items :
               x \in c.indices[q][i] <=> q = r /\ i = c.data_map[x].objid
  <2>1. CASE x \in ids
    BY <1>1, <1>2, <1>3, <2>1 DEF Fresh
  <2>2. CASE x \notin ids
    BY <1>2, <1>3, <2>2 DEF Indexing, Indexed
  <2>3. QED
    BY <2>1, <2>2
<1>9. Below(c)
  <2> SUFFICES ASSUME NEW r \in Regions, NEW i \in Items, NEW x \in c.indices[r][i]
               PROVE  x <= c.global_id
    BY DEF Below
  <2>1. x \in ids \/ x \in b.indices[r][i]
    BY <1>3
  <2>2. x \in b.indices[r][i] => x \in Nat /\ x <= b.global_id
    BY <1>6 DEF Indexing, Below
  <2>3. QED
    BY <1>5, <1>6, <2>1, <2>2
<1>10. ASSUME NEW rest, rest \cap ids = {}, Fresh(b, rest) PROVE Fresh(c, rest)
  BY <1>2, <1>3, <1>10 DEF Fresh
<1>11. QED
  BY <1>7, <1>8, <1>9, <1>10 DEF Indexing, Indexed, c

\* The inductive invariant.  While rows are on their way none of them is on
\* the board, which began empty: so loading a row twice, or over a cargo put
\* up meanwhile, cannot happen.
IndexInv ==
  /\ Indexing(board)
  /\ phase = "starting" => board = EmptyBoard
  /\ Fresh(board, todo)

LEMMA EmptyIndexing ==
  /\ Indexing(EmptyBoard)
  /\ \A ids : Fresh(EmptyBoard, ids)
BY DEF EmptyBoard, Indexing, Indexed, Below, Fresh

LEMMA HandleIndexing ==
  ASSUME TypeOK, LoadType, IndexInv, NEW r, Indexing(r.board), Handle(r)
  PROVE  IndexInv'
BY DEF LoadType, IndexInv, Handle, Fresh

LEMMA IndexInvariant == Spec => []IndexInv
<1>1. Init => IndexInv
  BY EmptyIndexing DEF Init, IndexInv
<1>2. TypeOK /\ LoadType /\ IndexInv /\ [Next]_vars => IndexInv'
  <2> SUFFICES ASSUME TypeOK, LoadType, IndexInv, [Next]_vars PROVE IndexInv'
    OBVIOUS
  <2>1. IsBoard(board) /\ Indexing(board) /\ now \in Nat
    BY DEF TypeOK, IndexInv
  <2>2. ASSUME NEW rid \in Roles, NEW i \in Items, NEW v \in 1..MaxVal, NEW p \in Percents,
               CargoUp(rid, i, v, p)
        PROVE  IndexInv'
    <3>1. p \in Nat /\ v \in Nat /\ board.global_id < IdMax
      BY <2>1, <2>2, BoardFacts, OpsAssumption, BoardAssumption DEF CargoUp
    <3>2. Indexing(cargo_up(board, get_social_sid(rid), rid, i, v, p, now).board)
      BY <2>1, <3>1, RegionType, CargoUpIndexing
    <3>3. QED
      BY <2>2, <3>2, HandleIndexing DEF CargoUp, Request
  <2>3. ASSUME NEW rid \in Roles, NEW id \in Ids, CargoDown(rid, id) PROVE IndexInv'
    BY <2>1, <2>3, CargoDownIndexing, HandleIndexing DEF CargoDown, Request
  <2>4. ASSUME NEW rid \in Roles, NEW id \in Ids, NEW p \in Percents, CargoChange(rid, id, p)
        PROVE  IndexInv'
    BY <2>1, <2>4, CargoChangeIndexing, HandleIndexing DEF CargoChange, Request
  <2>5. ASSUME NEW how \in Hows, NEW list \in Asked(how, Ids, MaxVal, Percents),
               Purchase(how, list)
        PROVE  IndexInv'
    BY <2>1, <2>5, AskedType, PurchaseIndexing, HandleIndexing DEF Purchase, Request
  <2>6. ASSUME NEW sid \in Primaries, SocialReset(sid) \/ SocialResetLost(sid) \/ DownTimeout(sid)
        PROVE  IndexInv'
    <3>1. sid \in Sids
      BY OpsAssumption, BoardAssumption DEF Primaries
    <3>2. CASE SocialReset(sid)
      BY <2>1, <3>1, <3>2, CargoResetIndexing, HandleIndexing DEF SocialReset
    <3>3. CASE SocialResetLost(sid)
      BY <3>3 DEF SocialResetLost, IndexInv
    <3>4. CASE DownTimeout(sid)
      BY <2>1, <3>1, <3>4, DownTimeOutIndexing, HandleIndexing DEF DownTimeout
    <3>5. QED
      BY <2>6, <3>2, <3>3, <3>4
  <2>7. CASE DbExecute
    BY <2>7 DEF DbExecute, IndexInv
  <2>8. CASE RequestList
    BY <2>8, EmptyIndexing DEF RequestList, IndexInv
  <2>9. ASSUME NEW ids \in SUBSET todo, LoadRows(ids) PROVE IndexInv'
    <3>1. Fresh(board, ids) /\ Fresh(board, todo \ ids)
      BY DEF IndexInv, Fresh
    <3>2. ids \in SUBSET DOMAIN market_sell /\ IsCargoMap(market_sell) /\ (todo \ ids) \cap ids = {}
      BY DEF TypeOK
    <3>3. Indexing(board') /\ Fresh(board', todo \ ids)
      BY <2>1, <2>9, <3>1, <3>2, InitDataIndexing DEF LoadRows
    <3>4. QED
      BY <2>9, <3>3 DEF LoadRows, IndexInv
  <2>10. CASE LoadEnd
    BY <2>10 DEF LoadEnd, IndexInv
  <2>11. CASE LoadLost
    BY <2>11 DEF LoadLost, IndexInv, Fresh
  <2>12. CASE Tick
    BY <2>12 DEF Tick, IndexInv
  <2>13. ASSUME NEW kept \in 0..Len(dbq), LinkLost(kept) \/ Crash(kept) PROVE IndexInv'
    <3>1. CASE LinkLost(kept)
      BY <3>1 DEF LinkLost, IndexInv
    <3>2. CASE Crash(kept)
      BY <3>2, EmptyIndexing DEF Crash, IndexInv
    <3>3. QED
      BY <2>13, <3>1, <3>2
  <2>14. CASE UNCHANGED vars
    BY <2>14 DEF vars, IndexInv
  <2>15. QED
    BY <2>2, <2>3, <2>4, <2>5, <2>6, <2>7, <2>8, <2>9, <2>10, <2>11, <2>12, <2>13, <2>14 DEF Next
<1>3. QED
  BY <1>1, <1>2, TypeInvariant, PTL DEF Spec

\* A role's list names exactly what it has on sale, and a cargo on sale is in
\* exactly one region's index, whatever the order of sales, resets, timeouts,
\* restarts and partial loads.
THEOREM IndexedAlways == Spec => []OnSaleIndexed
<1>1. IndexInv => OnSaleIndexed
  BY DEF IndexInv, Indexing, OnSaleIndexed
<1>2. QED
  BY <1>1, IndexInvariant, PTL

-----------------------------------------------------------------------------
(* A cargo that was armed stays armed until it is taken down.              *)

\* Every cargo of c was on b, under the same owner and with the same time,
\* and is armed on c if it was on b.
Keeps(b, c) ==
  /\ DOMAIN c.data_map \subseteq DOMAIN b.data_map
  /\ \A id \in DOMAIN c.data_map :
       /\ c.data_map[id].down_time = b.data_map[id].down_time
       /\ Armed(b, id) => Armed(c, id)

\* A handler that keeps down_map and the owners and times of cargos keeps
\* them armed.
LEMMA SameArmed ==
  ASSUME NEW b, NEW c, c.down_map = b.down_map,
         DOMAIN c.data_map \subseteq DOMAIN b.data_map,
         \A id \in DOMAIN c.data_map : /\ c.data_map[id].role_id = b.data_map[id].role_id
                                      /\ c.data_map[id].down_time = b.data_map[id].down_time
  PROVE  Keeps(b, c)
BY DEF Keeps, Armed

LEMMA RemoveKeeps ==
  ASSUME NEW b, IsBoard(b), NEW gone
  PROVE  Keeps(b, cargo_remove(b, gone))
<1> DEFINE c == cargo_remove(b, gone)
<1>1. c.data_map = cargos(b, gone) /\ c.down_map = b.down_map
  BY RemoveFields
<1> HIDE DEF c
<1>2. /\ DOMAIN c.data_map \subseteq DOMAIN b.data_map
      /\ \A id \in DOMAIN c.data_map : c.data_map[id] = b.data_map[id]
  BY <1>1 DEF cargos
<1>3. Keeps(b, c)
  BY <1>1, <1>2, SameArmed
<1>4. QED
  BY <1>3 DEF c

LEMMA NopKeeps ==
  ASSUME NEW b
  PROVE  Keeps(b, Nop(b).board)
BY DEF Keeps, Nop

LEMMA CargoDownKeeps ==
  ASSUME NEW b, IsBoard(b), NEW rid, NEW id
  PROVE  Keeps(b, cargo_down(b, rid, id).board)
BY RemoveKeeps, NopKeeps DEF cargo_down, take_down

LEMMA CargoChangeKeeps ==
  ASSUME NEW b, IsBoard(b), NEW rid, NEW id, NEW percent
  PROVE  Keeps(b, cargo_change(b, rid, id, percent).board)
<1> DEFINE m == [b.data_map EXCEPT ![id].percent = percent]
           c == [b EXCEPT !.data_map = m]
<1>1. CASE Live(b, id) /\ b.data_map[id].role_id = rid
  <2>1. /\ DOMAIN m = DOMAIN b.data_map
        /\ \A x \in DOMAIN b.data_map : /\ m[x].role_id = b.data_map[x].role_id
                                         /\ m[x].down_time = b.data_map[x].down_time
    BY BoardFacts DEF Cargo
  <2>2. cargo_change(b, rid, id, percent).board = c
    BY <1>1 DEF cargo_change
  <2> HIDE DEF m
  <2>3. c.data_map = m /\ c.down_map = b.down_map
    BY DEF IsBoard
  <2> HIDE DEF c
  <2>4. QED
    BY <2>1, <2>2, <2>3, SameArmed
<1>2. CASE ~(Live(b, id) /\ b.data_map[id].role_id = rid)
  BY <1>2, NopKeeps DEF cargo_change
<1>3. QED
  BY <1>1, <1>2

LEMMA KeepsTwice ==
  ASSUME NEW b, NEW c, NEW d, Keeps(b, c), Keeps(c, d)
  PROVE  Keeps(b, d)
BY DEF Keeps

LEMMA EntryKeeps ==
  ASSUME NEW r \in Sales, NEW how, NEW e \in Entries
  PROVE  Keeps(r.board, sell_entry(r, how, e).board)
<1>1. PICK c : c = sell_entry(r, how, e)
  OBVIOUS
<1>2. IsBoard(r.board) /\ e.id \in Ids /\ e.n \in Nat
  BY BoardsAre DEF Sales, Entries
<1>3. PICK b : b = r.board
  OBVIOUS
<1>4. CASE Live(b, e.id) /\ c.board = sell_goods(b, e.id, e.n)
  <2>1. PICK a : a = sell_goods(b, e.id, e.n)
    OBVIOUS
  <2>2. e.id \in DOMAIN b.data_map
    BY <1>4 DEF Live
  <2>3. PICK v, m, l : v \in Nat /\ SoldAs(b, e.id, v, m, l, a)
    BY <1>2, <1>3, <2>1, <2>2, SellGoods
  <2>4. Keeps(b, l)
    <3>1. /\ l.down_map = b.down_map /\ DOMAIN l.data_map \subseteq DOMAIN b.data_map
          /\ \A x \in DOMAIN l.data_map : /\ l.data_map[x].role_id = b.data_map[x].role_id
                                         /\ l.data_map[x].down_time = b.data_map[x].down_time
      BY <2>3 DEF SoldAs
    <3>2. QED
      BY <3>1, SameArmed
  <2>5. a = l \/ Keeps(l, a)
    BY <2>3, RemoveKeeps DEF SoldAs
  <2>6. Keeps(b, a)
    BY <2>4, <2>5, KeepsTwice
  <2>7. QED
    BY <1>1, <1>3, <1>4, <2>1, <2>6
<1>5. CASE c.board = [b EXCEPT !.ghosts = @ \cup {e.id}]
  <2>1. PICK g : g = c.board
    OBVIOUS
  <2>2. g.data_map = b.data_map /\ g.down_map = b.down_map
    BY <1>2, <1>3, <1>5, <2>1, GhostFields
  <2>3. Keeps(b, g)
    BY <2>2, SameArmed
  <2>4. QED
    BY <1>1, <1>3, <2>1, <2>3
<1>6. CASE c.board = b
  <2>1. Keeps(b, b)
    BY SameArmed
  <2>2. QED
    BY <1>1, <1>3, <1>6, <2>1
<1>7. QED
  BY <1>1, <1>3, <1>4, <1>5, <1>6, EntryCases

LEMMA PurchaseKeeps ==
  ASSUME NEW b, IsBoard(b), NEW how, NEW list \in Seq(Entries)
  PROVE  Keeps(b, purchase(b, how, list).board)
<1> DEFINE S == {r \in Sales : Keeps(b, r.board)}
<1>1. Start(b, list) \in S
  <2>1. Start(b, list).board = b
    BY DEF Start
  <2>2. Keeps(b, b)
    BY SameArmed
  <2>3. QED
    BY <2>1, <2>2, StartType
<1>2. \A r \in S : \A e \in Entries : sell_entry(r, how, e) \in S
  BY EntryType, EntryKeeps, KeepsTwice
<1> HIDE DEF S
<1>3. purchase(b, how, list) \in S
  BY <1>1, <1>2, PurchaseIn
<1>4. QED
  BY <1>3 DEF S

LEMMA CargoResetKeeps ==
  ASSUME NEW b, IsBoard(b), NEW sid
  PROVE  Keeps(b, cargo_reset(b, sid).board)
<1> DEFINE moved == UNION {b.indices[sid][i] : i \in Items}
           m     == cargo_sid_reset(b, moved)
           c     == [b EXCEPT !.indices = merge_indices(b.indices, sid), !.data_map = m]
<1>1. CASE moved = {}
  BY <1>1, NopKeeps DEF cargo_reset
<1>2. CASE moved # {}
  <2>1. cargo_reset(b, sid).board = c
    BY <1>2 DEF cargo_reset
  <2> HIDE DEF moved
  <2>2. /\ DOMAIN m = DOMAIN b.data_map
        /\ \A x \in DOMAIN b.data_map : /\ m[x].role_id = b.data_map[x].role_id
                                         /\ m[x].down_time = b.data_map[x].down_time
    BY BoardFacts DEF cargo_sid_reset, Cargo
  <2> HIDE DEF m
  <2>3. c.data_map = m /\ c.down_map = b.down_map
    BY DEF IsBoard
  <2> HIDE DEF c
  <2>4. QED
    BY <2>1, <2>2, <2>3, SameArmed
<1>3. QED
  BY <1>1, <1>2

\* A bucket is emptied together with the cargos it names, so the cargos that
\* stay have theirs in a bucket that stays.
LEMMA DownTimeOutKeeps ==
  ASSUME NEW b, IsBoard(b), NEW sid \in Sids, NEW time
  PROVE  Keeps(b, down_time_out(b, sid, time).board)
<1> DEFINE a    == down_time_out(b, sid, time).board
           gone == timed_out(b, sid, time)
<1>1. /\ a.data_map = cargos(b, gone)
      /\ \A s \in Sids : a.down_map[s] =
           IF s = sid THEN b.down_map[s] \ overdue(b, sid, time) ELSE b.down_map[s]
  <2>1. cargo_remove(b, gone).data_map = cargos(b, gone)
    BY RemoveFields
  <2>2. a.data_map = cargo_remove(b, gone).data_map
    BY DownTimeOutFields
  <2>3. a = down_time_out(b, sid, time).board /\ gone = timed_out(b, sid, time)
    OBVIOUS
  <2> HIDE DEF a, gone
  <2>4. \A s \in Sids : a.down_map[s] =
          IF s = sid THEN b.down_map[s] \ overdue(b, sid, time) ELSE b.down_map[s]
    BY <2>3, DownTimeOutBuckets
  <2>5. QED
    BY <2>1, <2>2, <2>4
<1> HIDE DEF a
<1>2. /\ DOMAIN a.data_map = DOMAIN b.data_map \ gone
      /\ \A id \in DOMAIN a.data_map : a.data_map[id] = b.data_map[id]
  BY <1>1 DEF cargos
<1>3. ASSUME NEW id \in DOMAIN a.data_map, Armed(b, id) PROVE Armed(a, id)
  <2> DEFINE c == b.data_map[id]
             s == SERVER_ID[c.role_id]
  <2>1. PICK t \in c.down_time + 1 .. c.down_time + Minute : <<t, id>> \in b.down_map[s]
    BY <1>3 DEF Armed
  <2>2. s \in Sids
    BY <1>2, BoardFacts, OpsAssumption DEF Cargo
  <2>3. CASE s = sid /\ <<t, id>> \in overdue(b, sid, time)
    <3>1. id \in gone
      BY <1>2, <2>3 DEF timed_out
    <3>2. QED
      BY <1>2, <3>1
  <2>4. CASE ~(s = sid /\ <<t, id>> \in overdue(b, sid, time))
    <3>1. <<t, id>> \in a.down_map[s]
      BY <1>1, <2>1, <2>2, <2>4
    <3>2. QED
      BY <1>2, <2>1, <3>1 DEF Armed
  <2>5. QED
    BY <2>3, <2>4
<1>4. QED
  BY <1>2, <1>3 DEF Keeps, a

LEMMA CargoUpArms ==
  ASSUME NEW b, IsBoard(b), NEW sid \in Regions, NEW rid \in Roles, NEW objid \in Items,
         NEW val \in Nat, NEW percent \in Nat, NEW time \in Nat,
         NEW c, c = cargo_up(b, sid, rid, objid, val, percent, time).board
  PROVE  \A id \in DOMAIN c.data_map :
           \/ c.data_map[id].down_time = time + Life /\ Armed(c, id)
           \/ /\ id \in DOMAIN b.data_map /\ c.data_map[id] = b.data_map[id]
              /\ Armed(b, id) => Armed(c, id)
<1> DEFINE new == alloc_id(b)
           k   == [sid |-> sid, role_id |-> rid, objid |-> objid, val |-> val,
                   percent |-> percent, down_time |-> time + Life]
           m   == [x \in DOMAIN b.data_map \cup {new} |-> IF x = new THEN k ELSE b.data_map[x]]
           e   == <<TIMETOMIN(time + Life), new>>
           d   == [b.down_map EXCEPT ![SERVER_ID[rid]] = @ \cup {e}]
<1>1. c.data_map = m /\ c.down_map = d
  BY DEF cargo_up, IsBoard
<1>2. k.role_id = rid /\ k.down_time = time + Life
  OBVIOUS
<1>3. e[1] \in time + Life + 1 .. time + Life + Minute /\ e[2] = new
  BY BucketBounds, OpsAssumption
<1>4. e = <<e[1], e[2]>>
  OBVIOUS
<1> HIDE DEF k, e, new
<1>5. /\ \A s \in Sids : b.down_map[s] \subseteq d[s]
      /\ e \in d[SERVER_ID[rid]]
      /\ \A r \in Roles : SERVER_ID[r] \in Sids
  BY BoardFacts, OpsAssumption
<1> HIDE DEF d
<1>6. ASSUME NEW id \in DOMAIN c.data_map, id = new
      PROVE  c.data_map[id].down_time = time + Life /\ Armed(c, id)
  <2>1. c.data_map[id] = k
    BY <1>1, <1>6
  <2>2. <<e[1], id>> \in c.down_map[SERVER_ID[rid]]
    BY <1>1, <1>3, <1>4, <1>5, <1>6
  <2>3. QED
    BY <1>2, <1>3, <2>1, <2>2 DEF Armed
<1>7. ASSUME NEW id \in DOMAIN c.data_map, id # new
      PROVE  /\ id \in DOMAIN b.data_map /\ c.data_map[id] = b.data_map[id]
             /\ Armed(b, id) => Armed(c, id)
  <2>1. id \in DOMAIN b.data_map /\ c.data_map[id] = b.data_map[id]
    BY <1>1, <1>7
  <2>2. SERVER_ID[b.data_map[id].role_id] \in Sids
    BY <1>5, <2>1, BoardFacts DEF Cargo
  <2>3. QED
    BY <1>1, <1>5, <2>1, <2>2 DEF Armed
<1>8. QED
  BY <1>6, <1>7

LEMMA InitDataArms ==
  ASSUME NEW b, IsBoard(b), NEW rows, IsCargoMap(rows), NEW ids \in SUBSET DOMAIN rows,
         NEW time, NEW c, c = init_data(b, rows, ids, time),
         NEW id \in DOMAIN c.data_map
  PROVE  \/ /\ id \in ids /\ c.data_map[id] = rows[id]
            /\ rows[id].down_time # 0 /\ rows[id].down_time < time => Armed(c, id)
         \/ /\ id \in DOMAIN b.data_map /\ c.data_map[id] = b.data_map[id]
            /\ Armed(b, id) => Armed(c, id)
<1>1. /\ DOMAIN c.data_map = DOMAIN b.data_map \cup ids
      /\ \A x \in DOMAIN c.data_map :
           c.data_map[x] = IF x \in ids THEN rows[x] ELSE b.data_map[x]
  BY DEF init_data
<1>2. \A s \in Sids : b.down_map[s] \subseteq c.down_map[s]
  BY DEF init_data
<1>3. \A r \in Roles : SERVER_ID[r] \in Sids
  BY OpsAssumption
<1>4. CASE id \in ids
  <2>1. c.data_map[id] = rows[id] /\ rows[id] \in Cargo
    BY <1>1, <1>4, CargoMapFacts
  <2> DEFINE t == rows[id].down_time
             s == SERVER_ID[rows[id].role_id]
  <2>2. t \in Nat /\ s \in Sids /\ TIMETOMIN(t) \in t + 1 .. t + Minute
    BY <1>3, <2>1, BucketBounds DEF Cargo
  <2>3. ASSUME t # 0, t < time PROVE <<TIMETOMIN(t), id>> \in c.down_map[s]
    BY <1>4, <2>2, <2>3 DEF init_data
  <2>4. QED
    BY <1>4, <2>1, <2>2, <2>3 DEF Armed
<1>5. CASE id \notin ids
  <2>1. id \in DOMAIN b.data_map /\ c.data_map[id] = b.data_map[id]
    BY <1>1, <1>5
  <2>2. SERVER_ID[b.data_map[id].role_id] \in Sids
    BY <1>3, <2>1, BoardFacts DEF Cargo
  <2>3. QED
    BY <1>2, <2>1, <2>2 DEF Armed
<1>6. QED
  BY <1>4, <1>5

\* The times of cargos on the board, in the table and on their way to it lie
\* in the past or less than a Life ahead; so no row that this run reads runs
\* out later than boot + Life, and a row that ran out before boot is armed
\* when it is read.
Times(f, t) == \A id \in DOMAIN f : f[id].down_time \in 1..t + Life
Timed(t) == {s \in Statement : s.op = "add" => s.cargo.down_time \in 1..t + Life}

BoardArmed(b, start) ==
  \A id \in DOMAIN b.data_map :
    LET t == b.data_map[id].down_time
    IN t > start + Life \/ t < start => Armed(b, id)

ArmInv ==
  /\ boot <= now
  /\ Times(board.data_map, now) /\ Times(market_sell, now)
  /\ dbq \in Seq(Timed(now))
  /\ \A id \in todo : market_sell[id].down_time <= boot + Life
  /\ BoardArmed(board, boot)

\* A handler that adds no row and keeps cargos armed.
LEMMA HandleArmed ==
  ASSUME TypeOK, LoadType, ArmInv, NEW r, Quiet(r), Keeps(board, r.board), Handle(r)
  PROVE  ArmInv'
<1>1. /\ phase = "open" /\ phase' = "open" /\ board' = r.board
      /\ UNCHANGED <<market_sell, todo, now, boot, crashes>>
      /\ \E pre, mid, post : Written(r, NoAdd, pre, mid, post)
  BY HandleParts DEF Quiet
<1>2. Times(board'.data_map, now)
  BY <1>1 DEF ArmInv, Keeps, Times
<1>3. BoardArmed(board', boot')
  BY <1>1 DEF ArmInv, Keeps, BoardArmed
<1>4. dbq' \in Seq(Timed(now))
  <2>1. NoAdd \subseteq Timed(now)
    BY DEF NoAdd, Timed
  <2>2. PICK mid \in Seq(NoAdd) : dbq' = dbq \o mid
    BY <1>1 DEF Written
  <2>3. mid \in Seq(Timed(now)) /\ dbq \in Seq(Timed(now))
    BY <2>1 DEF ArmInv
  <2>4. QED
    BY <2>2, <2>3
<1>5. QED
  BY <1>1, <1>2, <1>3, <1>4 DEF ArmInv, LoadType

LEMMA CargoUpArmed ==
  ASSUME TypeOK, LoadType, ArmInv, NEW rid \in Roles, NEW i \in Items, NEW v \in Nat,
         NEW p \in Nat, CargoUp(rid, i, v, p)
  PROVE  ArmInv'
<1> DEFINE sid == get_social_sid(rid)
           r   == cargo_up(board, sid, rid, i, v, p, now)
           k   == [sid |-> sid, role_id |-> rid, objid |-> i, val |-> v,
                   percent |-> p, down_time |-> now + Life]
           st  == [op |-> "add", id |-> alloc_id(board), cargo |-> k]
<1>1. IsBoard(board) /\ now \in Nat /\ boot \in Nat /\ boot <= now /\ Life \in Nat \ {0}
  BY OpsAssumption DEF TypeOK, ArmInv
<1>2. sid \in Regions
  BY RegionType
<1>3. Handle(r)
  BY DEF CargoUp, Request
<1>4. r.db = <<st>>
  BY Zenon DEF cargo_up
<1>5. st \in Timed(now)
  <2>1. Result(r)
    BY <1>1, <1>2, CargoUpType
  <2>2. st \in Statement
    <3> HIDE DEF r, st
    <3>1. QED
      BY <1>4, <2>1 DEF Result
  <2>3. st.cargo.down_time = now + Life
    OBVIOUS
  <2> HIDE DEF st
  <2>4. QED
    BY <1>1, <2>2, <2>3 DEF Timed
<1> HIDE DEF st
<1>6. \A id \in DOMAIN r.board.data_map :
           \/ r.board.data_map[id].down_time = now + Life /\ Armed(r.board, id)
           \/ /\ id \in DOMAIN board.data_map /\ r.board.data_map[id] = board.data_map[id]
              /\ Armed(board, id) => Armed(r.board, id)
  BY <1>1, <1>2, CargoUpArms
<1> HIDE DEF r
<1>7. Times(board'.data_map, now)
  <2>1. now + Life \in 1..now + Life
    BY <1>1
  <2>2. board' = r.board
    BY <1>3 DEF Handle
  <2>3. QED
    BY <1>6, <2>1, <2>2 DEF ArmInv, Times
<1>8. BoardArmed(board', boot')
  BY <1>1, <1>3, <1>6 DEF Handle, ArmInv, BoardArmed
<1>9. dbq' \in Seq(Timed(now))
  <2>1. r.db \in Seq(Timed(now))
    BY <1>4, <1>5
  <2>2. PICK mid \in Seq(Timed(now)) : dbq' = dbq \o mid
    BY <1>3, <2>1, HandleParts DEF Written
  <2>3. QED
    BY <2>2 DEF ArmInv
<1>10. QED
  BY <1>3, <1>7, <1>8, <1>9 DEF Handle, ArmInv, LoadType

\* A statement executed changes the times of no row, or adds a timed one.
LEMMA ExecuteTimes ==
  ASSUME NEW t, IsCargoMap(t), NEW n \in Nat, Times(t, n), NEW s \in Timed(n)
  PROVE  Times(execute(t, s), n)
<1>1. t \in [DOMAIN t -> Cargo]
  BY CargoMapFacts
<1>2. CASE s.op = "add" /\ s.id \notin DOMAIN t
  <2>1. execute(t, s) = [id \in DOMAIN t \cup {s.id} |-> IF id = s.id THEN s.cargo ELSE t[id]]
    BY <1>2 DEF execute
  <2>2. s.cargo.down_time \in 1..n + Life
    BY <1>2 DEF Timed
  <2>3. QED
    BY <2>1, <2>2 DEF Times
<1>3. CASE s.op = "del"
  <2>1. execute(t, s) = [id \in DOMAIN t \ {s.id} |-> t[id]]
    BY <1>3 DEF execute
  <2>2. QED
    BY <2>1 DEF Times
<1>4. CASE s.op = "update" /\ s.id \in DOMAIN t
  <2>1. execute(t, s) = [t EXCEPT ![s.id].val = s.val, ![s.id].percent = s.percent]
    BY <1>4 DEF execute
  <2>2. \A id \in DOMAIN t : execute(t, s)[id].down_time = t[id].down_time
    BY <1>1, <2>1 DEF Cargo
  <2>3. QED
    BY <2>1, <2>2 DEF Times
<1>5. CASE s.op = "reset"
  <2>1. DOMAIN execute(t, s) = DOMAIN t
    BY <1>5 DEF execute
  <2>2. \A id \in DOMAIN t : execute(t, s)[id].down_time = t[id].down_time
    BY <1>1, <1>5 DEF execute, Cargo
  <2>3. QED
    BY <2>1, <2>2 DEF Times
<1>6. CASE execute(t, s) = t
  BY <1>6
<1>7. QED
  BY <1>2, <1>3, <1>4, <1>5, <1>6 DEF execute

LEMMA EmptyArmed ==
  \A t : BoardArmed(EmptyBoard, t) /\ Times(EmptyBoard.data_map, t)
BY DEF EmptyBoard, BoardArmed, Times

LEMMA ArmInvariant == Spec => []ArmInv
<1>1. Init => ArmInv
  <2> SUFFICES ASSUME Init PROVE ArmInv
    OBVIOUS
  <2>1. board = EmptyBoard /\ market_sell = EmptyBoard.data_map /\ todo = {} /\ now = 0 /\ boot = 0
    BY DEF Init
  <2>2. dbq \in Seq(Timed(now))
    BY DEF Init
  <2>3. BoardArmed(board, boot) /\ Times(board.data_map, now) /\ Times(market_sell, now)
    BY <2>1, EmptyArmed
  <2>4. QED
    BY <2>1, <2>2, <2>3 DEF ArmInv
<1>2. TypeOK /\ LoadType /\ IndexInv /\ ArmInv /\ [Next]_vars => ArmInv'
  <2> SUFFICES ASSUME TypeOK, LoadType, IndexInv, ArmInv, [Next]_vars PROVE ArmInv'
    OBVIOUS
  <2>1. /\ IsBoard(board) /\ IsCargoMap(market_sell) /\ todo \subseteq DOMAIN market_sell
        /\ now \in Nat /\ boot \in Nat /\ boot <= now /\ Life \in Nat \ {0}
    BY OpsAssumption DEF TypeOK, ArmInv
  <2>2. ASSUME NEW rid \in Roles, NEW i \in Items, NEW v \in 1..MaxVal, NEW p \in Percents,
               CargoUp(rid, i, v, p)
        PROVE  ArmInv'
    <3>1. p \in Nat /\ v \in Nat
      BY BoardAssumption
    <3>2. QED
      BY <2>2, <3>1, CargoUpArmed
  <2>3. ASSUME NEW rid \in Roles, NEW id \in Ids, CargoDown(rid, id) PROVE ArmInv'
    BY <2>1, <2>3, CargoDownType, CargoDownKeeps, HandleArmed DEF CargoDown, Request
  <2>4. ASSUME NEW rid \in Roles, NEW id \in Ids, NEW p \in Percents, CargoChange(rid, id, p)
        PROVE  ArmInv'
    <3>1. p \in Nat
      BY BoardAssumption
    <3>2. QED
      BY <2>1, <2>4, <3>1, CargoChangeType, CargoChangeKeeps, HandleArmed DEF CargoChange, Request
  <2>5. ASSUME NEW how \in Hows, NEW list \in Asked(how, Ids, MaxVal, Percents),
               Purchase(how, list)
        PROVE  ArmInv'
    BY <2>1, <2>5, AskedType, PurchaseType, PurchaseKeeps, HandleArmed DEF Purchase, Request
  <2>6. ASSUME NEW sid \in Primaries, SocialReset(sid) \/ SocialResetLost(sid) \/ DownTimeout(sid)
        PROVE  ArmInv'
    <3>1. sid \in Sids
      BY OpsAssumption, BoardAssumption DEF Primaries
    <3>2. CASE SocialReset(sid)
      BY <2>1, <3>1, <3>2, CargoResetType, CargoResetKeeps, HandleArmed DEF SocialReset
    <3>3. CASE SocialResetLost(sid)
      BY <3>3 DEF SocialResetLost, ArmInv
    <3>4. CASE DownTimeout(sid)
      BY <2>1, <3>1, <3>4, DownTimeOutType, DownTimeOutKeeps, HandleArmed DEF DownTimeout
    <3>5. QED
      BY <2>6, <3>2, <3>3, <3>4
  <2>7. CASE DbExecute
    <3>1. /\ Head(dbq) \in Timed(now) /\ Tail(dbq) \in Seq(Timed(now))
      BY <2>7, HeadTailProperties DEF DbExecute, ArmInv
    <3>2. Times(market_sell', now)
      BY <2>1, <2>7, <3>1, ExecuteTimes DEF DbExecute, ArmInv
    <3>3. todo = {}
      BY <2>7 DEF DbExecute, LoadType
    <3>4. QED
      BY <2>7, <3>1, <3>2, <3>3 DEF DbExecute, ArmInv
  <2>8. CASE RequestList
    <3>1. board = EmptyBoard
      BY <2>8 DEF RequestList, IndexInv
    <3>2. BoardArmed(board', boot')
      BY <2>8, <3>1 DEF RequestList, BoardArmed, EmptyBoard
    <3>3. \A id \in todo' : market_sell'[id].down_time <= boot' + Life
      BY <2>1, <2>8 DEF RequestList, ArmInv, Times
    <3>4. QED
      BY <2>1, <2>8, <3>2, <3>3 DEF RequestList, ArmInv
  <2>9. ASSUME NEW ids \in SUBSET todo, LoadRows(ids) PROVE ArmInv'
    <3>1. ids \subseteq DOMAIN market_sell
      BY <2>1
    <3>2. \A id \in DOMAIN board'.data_map :
            \/ /\ id \in ids /\ board'.data_map[id] = market_sell[id]
               /\ market_sell[id].down_time # 0 /\ market_sell[id].down_time < now
                    => Armed(board', id)
            \/ /\ id \in DOMAIN board.data_map /\ board'.data_map[id] = board.data_map[id]
               /\ Armed(board, id) => Armed(board', id)
      BY <2>1, <2>9, <3>1, InitDataArms DEF LoadRows
    <3>3. Times(board'.data_map, now)
      BY <3>1, <3>2 DEF ArmInv, Times
    <3>4. \A id \in ids : /\ market_sell[id].down_time \in 1..now + Life
                          /\ market_sell[id].down_time <= boot + Life
      BY <3>1 DEF ArmInv, Times
    <3>5. BoardArmed(board', boot')
      BY <2>1, <2>9, <3>2, <3>4 DEF LoadRows, ArmInv, BoardArmed
    <3>6. QED
      BY <2>9, <3>3, <3>5 DEF LoadRows, ArmInv
  <2>10. CASE LoadEnd
    BY <2>10 DEF LoadEnd, ArmInv
  <2>11. CASE LoadLost
    BY <2>11 DEF LoadLost, ArmInv
  <2>12. CASE Tick
    <3>1. Times(board'.data_map, now') /\ Times(market_sell', now')
      BY <2>1, <2>12 DEF Tick, ArmInv, Times
    <3>2. dbq' \in Seq(Timed(now'))
      <4>1. Timed(now) \subseteq Timed(now')
        BY <2>1, <2>12 DEF Tick, Timed
      <4>2. QED
        BY <2>12, <4>1 DEF Tick, ArmInv
    <3>3. QED
      BY <2>1, <2>12, <3>1, <3>2 DEF Tick, ArmInv
  <2>13. ASSUME NEW kept \in 0..Len(dbq), LinkLost(kept) \/ Crash(kept) PROVE ArmInv'
    <3>1. dbq' \in Seq(Timed(now))
      <4>1. dbq \in Seq(Timed(now)) /\ Cut(kept)
        BY <2>13 DEF ArmInv, LinkLost, Crash
      <4>2. QED
        BY <4>1, CutParts
    <3>2. CASE LinkLost(kept)
      BY <3>1, <3>2 DEF LinkLost, ArmInv
    <3>3. CASE Crash(kept)
      <4>1. board' = EmptyBoard
        BY <3>3 DEF Crash
      <4>2. BoardArmed(board', boot') /\ Times(board'.data_map, now)
        BY <4>1, EmptyArmed
      <4>3. QED
        BY <3>1, <3>3, <4>2 DEF Crash, ArmInv
    <3>4. QED
      BY <2>13, <3>2, <3>3
  <2>14. CASE UNCHANGED vars
    BY <2>14 DEF vars, ArmInv
  <2>15. QED
    BY <2>2, <2>3, <2>4, <2>5, <2>6, <2>7, <2>8, <2>9, <2>10, <2>11, <2>12, <2>13, <2>14 DEF Next
<1>3. QED
  BY <1>1, <1>2, TypeInvariant, IndexInvariant, PTL DEF Spec

\* A cargo put up by this run of the process, or out of time before it read
\* its row, stays armed until it is taken down: whatever is sold, changed,
\* reset or timed out meanwhile.
THEOREM ArmedAlways == Spec => []TimeoutArmed
<1>1. ArmInv => TimeoutArmed
  BY DEF ArmInv, BoardArmed, TimeoutArmed
<1>2. QED
  BY <1>1, ArmInvariant, PTL

-----------------------------------------------------------------------------
(* What the statements under way make of the table.                        *)

\* The tables that n statements leave, one after the other.
IsRun(r, t, q, n) == r = [k \in 0..n |-> IF k = 0 THEN t ELSE execute(r[k - 1], q[k])]

\* There are such tables.
LEMMA RunExists ==
  ASSUME NEW t, NEW q, NEW n \in Nat
  PROVE  \E r : IsRun(r, t, q, n)
<1> DEFINE S == {k \in Nat : ~ \E r : IsRun(r, t, q, k)}
<1> SUFFICES ASSUME n \in S PROVE FALSE
  OBVIOUS
<1>1. PICK m \in S : \A k \in S : m <= k
  <2>1. S \in SUBSET Nat /\ S # {}
    OBVIOUS
  <2> HIDE DEF S
  <2>2. QED
    BY <2>1, SmallestExists
<1>2. CASE m = 0
  <2>1. IsRun([k \in 0..m |-> t], t, q, m)
    BY <1>2 DEF IsRun
  <2>2. QED
    BY <2>1
<1>3. CASE m # 0
  <2>1. m - 1 \in Nat /\ m - 1 \notin S
    BY <1>1, <1>3
  <2>2. PICK r : IsRun(r, t, q, m - 1)
    BY <2>1
  <2> DEFINE x == [k \in 0..m |-> IF k = m THEN execute(r[m - 1], q[m]) ELSE r[k]]
  <2>3. \A k \in 0..m - 1 : r[k] = IF k = 0 THEN t ELSE execute(r[k - 1], q[k])
    BY <2>2 DEF IsRun
  <2>4. ASSUME NEW k \in 0..m
        PROVE  x[k] = IF k = 0 THEN t ELSE execute(x[k - 1], q[k])
    <3>1. CASE k = m
      <4>1. m \in 0..m /\ m - 1 \in 0..m /\ m - 1 # m
        BY <2>1
      <4>2. x[m] = execute(r[m - 1], q[m]) /\ x[m - 1] = r[m - 1]
        BY <4>1
      <4>3. QED
        BY <1>3, <3>1, <4>2
    <3>2. CASE k # m
      <4>1. k \in 0..m - 1 /\ (k # 0 => k - 1 \in 0..m /\ k - 1 # m)
        BY <3>2
      <4>2. x[k] = r[k] /\ (k # 0 => x[k - 1] = r[k - 1])
        BY <3>2, <4>1
      <4>3. QED
        BY <2>3, <4>1, <4>2
    <3>3. QED
      BY <3>1, <3>2
  <2>5. IsRun(x, t, q, m)
    BY <2>4 DEF IsRun
  <2>6. QED
    BY <2>5
<1>4. QED
  BY <1>2, <1>3

\* They are what the table and the statements make them.
LEMMA RunsAgree ==
  ASSUME NEW t, NEW q, NEW n \in Nat, NEW r, IsRun(r, t, q, n),
         NEW p, NEW m \in Nat, NEW x, IsRun(x, t, p, m),
         NEW k \in 0..n, k <= m, \A i \in 1..k : q[i] = p[i]
  PROVE  r[k] = x[k]
<1> DEFINE S == {j \in 0..k : r[j] # x[j]}
<1> SUFFICES ASSUME k \in S PROVE FALSE
  OBVIOUS
<1>1. PICK j \in S : \A i \in S : j <= i
  <2>1. S \in SUBSET Nat /\ S # {}
    OBVIOUS
  <2> HIDE DEF S
  <2>2. QED
    BY <2>1, SmallestExists
<1>2. j \in 0..n /\ j \in 0..m /\ j \in 0..k
  OBVIOUS
<1>3. /\ r[j] = IF j = 0 THEN t ELSE execute(r[j - 1], q[j])
      /\ x[j] = IF j = 0 THEN t ELSE execute(x[j - 1], p[j])
  BY <1>2 DEF IsRun
<1>4. CASE j = 0
  BY <1>3, <1>4
<1>5. CASE j # 0
  <2>1. j - 1 \in 0..k /\ j - 1 \notin S /\ j \in 1..k
    BY <1>1, <1>5
  <2>2. r[j - 1] = x[j - 1] /\ q[j] = p[j]
    BY <2>1
  <2>3. QED
    BY <1>3, <1>5, <2>2
<1>6. QED
  BY <1>4, <1>5

\* Executed is the last of them.
LEMMA ExecutedIs ==
  ASSUME NEW T, NEW q \in Seq(T), NEW t, NEW r, IsRun(r, t, q, Len(q))
  PROVE  Executed(t, q) = r[Len(q)]
<1> DEFINE x == CHOOSE f : f = [k \in 0..Len(q) |-> IF k = 0 THEN t ELSE execute(f[k - 1], q[k])]
<1>1. IsRun(x, t, q, Len(q))
  BY Zenon DEF IsRun
<1>2. Executed(t, q) = x[Len(q)]
  BY Zenon DEF Executed
<1> HIDE DEF x
<1>3. Len(q) \in Nat /\ Len(q) \in 0..Len(q) /\ Len(q) <= Len(q)
  OBVIOUS
<1>4. r[Len(q)] = x[Len(q)]
  BY <1>1, <1>3, RunsAgree
<1>5. QED
  BY <1>2, <1>4

\* Two lists of statements are executed one after the other.
LEMMA ExecutedMore ==
  ASSUME NEW T, NEW q \in Seq(T), NEW p \in Seq(T), NEW t
  PROVE  Executed(t, q \o p) = Executed(Executed(t, q), p)
<1> DEFINE n == Len(q)
           m == Len(p)
           z == q \o p
<1>1. /\ n \in Nat /\ m \in Nat /\ z \in Seq(T) /\ Len(z) = n + m
      /\ \A i \in 1..n : z[i] = q[i]
      /\ \A i \in 1..m : z[n + i] = p[i]
  OBVIOUS
<1> HIDE DEF n, m, z
<1>2. n + m \in Nat /\ n \in 0..n + m /\ n <= n
  BY <1>1
<1>3. PICK r : IsRun(r, t, z, n + m)
  BY <1>2, RunExists
<1>4. PICK a : IsRun(a, t, q, n)
  BY <1>1, RunExists
<1>5. PICK b : IsRun(b, a[n], p, m)
  BY <1>1, RunExists
<1>6. r[n] = a[n]
  <2>1. \A i \in 1..n : z[i] = q[i]
    BY <1>1
  <2>2. PICK l : l = n + m
    OBVIOUS
  <2>3. IsRun(r, t, z, l) /\ l \in Nat /\ n \in 0..l /\ n <= n /\ n \in Nat
    BY <1>1, <1>2, <1>3, <2>2
  <2>4. QED
    BY <1>4, <2>1, <2>3, RunsAgree
<1>7. \A k \in 0..n + m : r[k] = IF k = 0 THEN t ELSE execute(r[k - 1], z[k])
  BY <1>3 DEF IsRun
<1> DEFINE c == [i \in 0..m |-> r[n + i]]
<1>8. IsRun(c, a[n], p, m)
  <2>1. ASSUME NEW i \in 0..m
        PROVE  c[i] = IF i = 0 THEN a[n] ELSE execute(c[i - 1], p[i])
    <3>1. CASE i = 0
      BY <1>1, <1>6, <3>1
    <3>2. CASE i # 0
      <4>1. PICK j : j = n + i
        OBVIOUS
      <4>2. /\ j \in 0..n + m /\ j # 0 /\ j - 1 = n + (i - 1)
            /\ i - 1 \in 0..m /\ i \in 1..m
        BY <1>1, <3>2, <4>1
      <4>3. r[j] = execute(r[j - 1], z[j])
        BY <1>7, <4>2
      <4>4. c[i] = r[j] /\ c[i - 1] = r[j - 1] /\ z[j] = p[i]
        BY <1>1, <4>1, <4>2
      <4> HIDE DEF c
      <4>5. QED
        BY <3>2, <4>3, <4>4
    <3>3. QED
      BY <3>1, <3>2
  <2>2. QED
    BY <2>1 DEF IsRun
<1>9. m \in 0..m /\ c[m] = r[n + m]
  BY <1>1
<1> HIDE DEF c
<1>10. Executed(t, z) = r[n + m] /\ Executed(t, q) = a[n] /\ Executed(a[n], p) = c[m]
  BY <1>1, <1>3, <1>4, <1>8, ExecutedIs DEF n, m
<1>11. QED
  BY <1>9, <1>10 DEF z

\* No statement, and one.
LEMMA ExecutedFew ==
  ASSUME NEW t
  PROVE  Executed(t, <<>>) = t /\ \A s : Executed(t, <<s>>) = execute(t, s)
<1>1. Executed(t, <<>>) = t
  <2>1. PICK r : IsRun(r, t, <<>>, 0)
    BY RunExists
  <2>2. <<>> \in Seq({}) /\ Len(<<>>) = 0 /\ r[0] = t
    BY <2>1 DEF IsRun
  <2>3. QED
    BY <2>1, <2>2, ExecutedIs
<1>2. ASSUME NEW s
      PROVE  Executed(t, <<s>>) = execute(t, s)
  <2>1. PICK r : IsRun(r, t, <<s>>, 1)
    BY RunExists
  <2>2. <<s>> \in Seq({s}) /\ Len(<<s>>) = 1 /\ <<s>>[1] = s
    OBVIOUS
  <2>3. r[0] = t /\ r[1] = execute(r[0], <<s>>[1])
    BY <2>1 DEF IsRun
  <2>4. QED
    BY <2>1, <2>2, <2>3, ExecutedIs
<1>3. QED
  BY <1>1, <1>2

\* The oldest statement first.
LEMMA ExecutedHead ==
  ASSUME NEW T, NEW q \in Seq(T), q # <<>>, NEW t
  PROVE  Executed(t, q) = Executed(execute(t, Head(q)), Tail(q))
<1> DEFINE h == <<Head(q)>>
<1>1. h \in Seq(T) /\ Tail(q) \in Seq(T) /\ q = h \o Tail(q)
  OBVIOUS
<1>2. Executed(t, h) = execute(t, Head(q))
  BY ExecutedFew
<1> HIDE DEF h
<1>3. Executed(t, h \o Tail(q)) = Executed(Executed(t, h), Tail(q))
  BY <1>1, ExecutedMore
<1>4. QED
  BY <1>1, <1>2, <1>3

-----------------------------------------------------------------------------
(* Tables that have a cargo alike, but for its region.                     *)

Same(c, d) ==
  /\ c.role_id = d.role_id /\ c.objid = d.objid
  /\ c.val = d.val /\ c.percent = d.percent /\ c.down_time = d.down_time

Alike(t, f, id) ==
  /\ IsCargoMap(t) /\ IsCargoMap(f)
  /\ id \in DOMAIN t <=> id \in DOMAIN f
  /\ id \in DOMAIN f => Same(t[id], f[id])

Agree(t, f) == \A id \in Ids : Alike(t, f, id)

LEMMA AlikeTwice ==
  ASSUME NEW t, NEW f, NEW g, NEW id, Alike(t, f, id), Alike(f, g, id)
  PROVE  Alike(t, g, id)
BY DEF Alike, Same

LEMMA AlikeBack ==
  ASSUME NEW t, NEW f, NEW id, Alike(t, f, id)
  PROVE  Alike(f, t, id)
BY DEF Alike, Same

LEMMA SameAlike ==
  ASSUME NEW t, IsCargoMap(t), NEW id
  PROVE  Alike(t, t, id)
BY DEF Alike, Same

LEMMA AlikeRow ==
  ASSUME NEW t, NEW f, NEW id, Alike(t, f, id)
  PROVE  Row(t, id) = Row(f, id)
<1>1. CASE id \in DOMAIN f
  <2>1. id \in DOMAIN t /\ t[id] \in Cargo /\ f[id] \in Cargo /\ Same(t[id], f[id])
    BY <1>1, CargoMapFacts DEF Alike
  <2>2. PICK c \in Cargo : c = t[id]
    BY <2>1
  <2>3. PICK d \in Cargo : d = f[id]
    BY <2>1
  <2>4. Same(c, d)
    BY <2>1, <2>2, <2>3
  <2>5. [c EXCEPT !.sid = 0] = [d EXCEPT !.sid = 0]
    BY <2>4 DEF Same, Cargo
  <2>6. {id} \cap DOMAIN t = {id} /\ {id} \cap DOMAIN f = {id}
    BY <1>1, <2>1
  <2>7. Row(t, id) = {[c EXCEPT !.sid = 0]} /\ Row(f, id) = {[d EXCEPT !.sid = 0]}
    BY <2>2, <2>3, <2>6 DEF Row
  <2>8. QED
    BY <2>5, <2>7
<1>2. CASE id \notin DOMAIN f
  <2>1. {id} \cap DOMAIN t = {} /\ {id} \cap DOMAIN f = {}
    BY <1>2 DEF Alike
  <2>2. QED
    BY <2>1 DEF Row
<1>3. QED
  BY <1>1, <1>2

\* A statement that names another cargo leaves this one as it is.
LEMMA ExecuteElsewhere ==
  ASSUME NEW t, NEW s, s.op # "reset", NEW id, id # s.id
  PROVE  /\ id \in DOMAIN execute(t, s) <=> id \in DOMAIN t
         /\ id \in DOMAIN t => execute(t, s)[id] = t[id]
<1>1. CASE s.op = "add" /\ s.id \notin DOMAIN t
  BY <1>1 DEF execute
<1>2. CASE s.op = "del"
  BY <1>2 DEF execute
<1>3. CASE s.op = "update" /\ s.id \in DOMAIN t
  <2>1. execute(t, s) = [t EXCEPT ![s.id].val = s.val, ![s.id].percent = s.percent]
    BY <1>3 DEF execute
  <2>2. QED
    BY <2>1
<1>4. CASE execute(t, s) = t
  BY <1>4
<1>5. QED
  BY <1>1, <1>2, <1>3, <1>4 DEF execute

\* A reset changes regions only.
LEMMA ExecuteReset ==
  ASSUME NEW t, IsCargoMap(t), NEW s, s.op = "reset"
  PROVE  /\ DOMAIN execute(t, s) = DOMAIN t
         /\ \A id \in DOMAIN t : Same(execute(t, s)[id], t[id])
<1>1. execute(t, s) =
        [id \in DOMAIN t |-> IF t[id].sid = s.sid THEN [t[id] EXCEPT !.sid = 0] ELSE t[id]]
  BY DEF execute
<1>2. \A id \in DOMAIN t : t[id] \in Cargo
  BY CargoMapFacts
<1>3. \A c \in Cargo : Same(c, c) /\ Same([c EXCEPT !.sid = 0], c)
  BY DEF Same, Cargo
<1>4. QED
  BY <1>1, <1>2, <1>3

\* So a statement that does not name a cargo leaves it alike.
LEMMA ExecuteUnnamed ==
  ASSUME NEW t, IsCargoMap(t), NEW s \in Statement, NEW id, s.op = "reset" \/ id # s.id
  PROVE  Alike(execute(t, s), t, id)
<1>1. IsCargoMap(execute(t, s))
  BY ExecuteType
<1>2. CASE s.op = "reset"
  BY <1>1, <1>2, ExecuteReset DEF Alike
<1>3. CASE s.op # "reset"
  BY <1>1, <1>3, ExecuteElsewhere DEF Alike, Same
<1>4. QED
  BY <1>2, <1>3

\* The same statement leaves a cargo alike that was.
LEMMA ExecuteAlike ==
  ASSUME NEW t, NEW f, NEW id, Alike(t, f, id), NEW s \in Statement
  PROVE  Alike(execute(t, s), execute(f, s), id)
<1> DEFINE x == execute(t, s)
           y == execute(f, s)
<1>1. IsCargoMap(t) /\ IsCargoMap(f) /\ IsCargoMap(x) /\ IsCargoMap(y)
  BY ExecuteType DEF Alike
<1>2. id \in DOMAIN f => t[id] \in Cargo /\ f[id] \in Cargo /\ Same(t[id], f[id])
  BY CargoMapFacts DEF Alike
<1>3. CASE s.op = "reset" \/ id # s.id
  <2>1. Alike(x, t, id) /\ Alike(f, y, id)
    BY <1>1, <1>3, ExecuteUnnamed, AlikeBack
  <2>2. QED
    BY <2>1, AlikeTwice
<1>4. CASE s.op = "add" /\ id = s.id
  <2>1. CASE id \in DOMAIN f
    <3>1. x = t /\ y = f
      BY <1>4, <2>1 DEF execute, Alike
    <3>2. QED
      BY <3>1
  <2>2. CASE id \notin DOMAIN f
    <3>1. /\ x = [k \in DOMAIN t \cup {s.id} |-> IF k = s.id THEN s.cargo ELSE t[k]]
          /\ y = [k \in DOMAIN f \cup {s.id} |-> IF k = s.id THEN s.cargo ELSE f[k]]
      BY <1>4, <2>2 DEF execute, Alike
    <3> HIDE DEF x, y
    <3>2. id \in DOMAIN x /\ id \in DOMAIN y /\ x[id] = y[id]
      BY <1>4, <3>1
    <3>3. QED
      BY <1>1, <3>2 DEF Alike, Same, x, y
  <2>3. QED
    BY <2>1, <2>2
<1>5. CASE s.op = "del" /\ id = s.id
  <2>1. /\ x = [k \in DOMAIN t \ {s.id} |-> t[k]]
        /\ y = [k \in DOMAIN f \ {s.id} |-> f[k]]
    BY <1>5 DEF execute
  <2> HIDE DEF x, y
  <2>2. id \notin DOMAIN x /\ id \notin DOMAIN y
    BY <1>5, <2>1
  <2>3. QED
    BY <1>1, <2>2 DEF Alike, x, y
<1>6. CASE s.op = "update" /\ id = s.id
  <2>1. CASE id \notin DOMAIN f
    <3>1. x = t /\ y = f
      BY <1>6, <2>1 DEF execute, Alike
    <3>2. QED
      BY <3>1
  <2>2. CASE id \in DOMAIN f
    <3>1. /\ x = [t EXCEPT ![s.id].val = s.val, ![s.id].percent = s.percent]
          /\ y = [f EXCEPT ![s.id].val = s.val, ![s.id].percent = s.percent]
          /\ id \in DOMAIN t
      BY <1>6, <2>2 DEF execute, Alike
    <3> HIDE DEF x, y
    <3>2. /\ id \in DOMAIN x /\ id \in DOMAIN y
          /\ x[id] = [t[id] EXCEPT !.val = s.val, !.percent = s.percent]
          /\ y[id] = [f[id] EXCEPT !.val = s.val, !.percent = s.percent]
      BY <1>6, <2>2, <3>1
    <3>3. Same(x[id], y[id])
      <4>1. PICK c \in Cargo : c = t[id]
        BY <1>2, <2>2
      <4>2. PICK d \in Cargo : d = f[id]
        BY <1>2, <2>2
      <4>3. Same(c, d)
        BY <1>2, <2>2, <4>1, <4>2
      <4>4. PICK v, p : v = s.val /\ p = s.percent
        OBVIOUS
      <4>5. Same([c EXCEPT !.val = v, !.percent = p], [d EXCEPT !.val = v, !.percent = p])
        BY <4>3 DEF Same, Cargo
      <4>6. QED
        BY <3>2, <4>1, <4>2, <4>4, <4>5
    <3>4. QED
      BY <1>1, <3>2, <3>3 DEF Alike, x, y
  <2>3. QED
    BY <2>1, <2>2
<1>7. s.op \in {"add", "del", "update", "reset"}
  BY DEF Statement
<1>8. QED
  BY <1>3, <1>4, <1>5, <1>6, <1>7

\* And so do any statements.
LEMMA ExecutedAlike ==
  ASSUME NEW t, NEW f, NEW id, Alike(t, f, id), NEW q \in Seq(Statement)
  PROVE  Alike(Executed(t, q), Executed(f, q), id)
<1> DEFINE n == Len(q)
<1>1. n \in Nat /\ \A i \in 1..n : q[i] \in Statement
  BY LenProperties, ElementOfSeq
<1>2. PICK r : IsRun(r, t, q, n)
  BY <1>1, RunExists
<1>3. PICK x : IsRun(x, f, q, n)
  BY <1>1, RunExists
<1>4. Executed(t, q) = r[n] /\ Executed(f, q) = x[n]
  BY <1>2, <1>3, ExecutedIs
<1> HIDE DEF n
<1>5. \A k \in 0..n : /\ r[k] = IF k = 0 THEN t ELSE execute(r[k - 1], q[k])
                      /\ x[k] = IF k = 0 THEN f ELSE execute(x[k - 1], q[k])
  BY <1>2, <1>3 DEF IsRun
<1> DEFINE S == {k \in 0..n : ~ Alike(r[k], x[k], id)}
<1>6. S = {}
  <2> SUFFICES ASSUME S # {} PROVE FALSE
    OBVIOUS
  <2>1. PICK k \in S : \A i \in S : k <= i
    <3>1. S \in SUBSET Nat
      BY <1>1
    <3> HIDE DEF S
    <3>2. QED
      BY <3>1, SmallestExists
  <2>2. k \in 0..n /\ ~ Alike(r[k], x[k], id)
    OBVIOUS
  <2>3. k # 0
    BY <1>5, <2>2
  <2>4. k - 1 \in 0..n /\ k - 1 \notin S /\ q[k] \in Statement
    BY <1>1, <2>1, <2>2, <2>3
  <2>5. Alike(r[k - 1], x[k - 1], id)
    BY <2>4
  <2>6. Alike(execute(r[k - 1], q[k]), execute(x[k - 1], q[k]), id)
    BY <2>4, <2>5, ExecuteAlike
  <2>7. QED
    BY <1>5, <2>2, <2>3, <2>6
<1>7. n \in 0..n
  BY <1>1
<1>8. QED
  BY <1>4, <1>6, <1>7

\* They leave a table of cargos.
LEMMA ExecutedIsMap ==
  ASSUME NEW t, IsCargoMap(t), NEW q \in Seq(Statement)
  PROVE  IsCargoMap(Executed(t, q))
<1>1. PICK id : Alike(t, t, id)
  BY SameAlike
<1>2. QED
  BY <1>1, ExecutedAlike DEF Alike

\* Statements that do not name a cargo leave it alike.
LEMMA ExecutedUnnamed ==
  ASSUME NEW t, IsCargoMap(t), NEW q \in Seq(Statement), NEW id, id \notin Named(q)
  PROVE  Alike(Executed(t, q), t, id)
<1> DEFINE n == Len(q)
<1>1. n \in Nat /\ \A i \in 1..n : q[i] \in Statement
  BY LenProperties, ElementOfSeq
<1>2. \A i \in 1..n : q[i].op = "reset" \/ id # q[i].id
  BY LenProperties DEF Named
<1>3. PICK r : IsRun(r, t, q, n)
  BY <1>1, RunExists
<1>4. Executed(t, q) = r[n]
  BY <1>3, ExecutedIs
<1> HIDE DEF n
<1>5. \A k \in 0..n : r[k] = IF k = 0 THEN t ELSE execute(r[k - 1], q[k])
  BY <1>3 DEF IsRun
<1> DEFINE S == {k \in 0..n : ~ Alike(r[k], t, id)}
<1>6. S = {}
  <2> SUFFICES ASSUME S # {} PROVE FALSE
    OBVIOUS
  <2>1. PICK k \in S : \A i \in S : k <= i
    <3>1. S \in SUBSET Nat
      BY <1>1
    <3> HIDE DEF S
    <3>2. QED
      BY <3>1, SmallestExists
  <2>2. k \in 0..n /\ ~ Alike(r[k], t, id)
    OBVIOUS
  <2>3. k # 0
    BY <1>5, <2>2, SameAlike
  <2>4. k - 1 \in 0..n /\ k - 1 \notin S /\ k \in 1..n
    BY <1>1, <2>1, <2>2, <2>3
  <2>5. Alike(r[k - 1], t, id)
    BY <2>4
  <2>6. Alike(execute(r[k - 1], q[k]), r[k - 1], id)
    BY <1>1, <1>2, <2>4, <2>5, ExecuteUnnamed DEF Alike
  <2>7. Alike(execute(r[k - 1], q[k]), t, id)
    BY <2>5, <2>6, AlikeTwice
  <2>8. QED
    BY <1>5, <2>2, <2>3, <2>7
<1>7. n \in 0..n
  BY <1>1
<1>8. QED
  BY <1>4, <1>6, <1>7

-----------------------------------------------------------------------------
(* What a handler asks of the table is what it has done to its own map.    *)

\* SetToSeq leaves no element out.
LEMMA SetToSeqOnto ==
  ASSUME NEW T, IsFiniteSet(T)
  PROVE  /\ SetToSeq(T) \in Seq(T)
         /\ \A x \in T : \E k \in 1..Len(SetToSeq(T)) : SetToSeq(T)[k] = x
<1> DEFINE n == Cardinality(T)
           s == SetToSeq(T)
<1>1. n \in Nat /\ ExistsBijection(1..n, T)
  BY FS_CardinalityType
<1>2. PICK f \in [1..n -> T] : IsInjective(f)
  BY <1>1 DEF ExistsBijection, Bijection, Injection
<1>3. s \in [1..n -> T] /\ IsInjective(s)
  BY <1>2 DEF SetToSeq
<1> HIDE DEF s
<1>4. s \in Injection(1..n, T)
  BY <1>3 DEF Injection
<1>5. Cardinality(1..n) = n
  BY <1>1, FS_Interval
<1> HIDE DEF n
<1>6. s \in Surjection(1..n, T)
  BY <1>4, <1>5, FS_Injection DEF n
<1>7. \A x \in T : \E k \in 1..n : s[k] = x
  BY <1>6 DEF Surjection
<1>8. s \in Seq(T) /\ Len(s) = n
  BY <1>1, <1>3
<1>9. QED
  BY <1>7, <1>8 DEF s

\* The map f when the cargos of gone have been deleted from it.
Without(f, gone) == [id \in DOMAIN f \ gone |-> f[id]]

\* Deletions that leave out no cargo of ids take the cargos of ids away.
LEMMA ExecutedDels ==
  ASSUME NEW f, IsCargoMap(f), NEW ids, NEW q \in Seq(NoAdd),
         \A k \in 1..Len(q) : q[k].op = "del" /\ q[k].id \in ids,
         \A id \in ids : \E k \in 1..Len(q) : q[k].id = id
  PROVE  Executed(f, q) = Without(f, ids)
<1> DEFINE n == Len(q)
           done(k) == {q[i].id : i \in 1..k}
<1>1. n \in Nat
  BY LenProperties
<1>2. PICK r : IsRun(r, f, q, n)
  BY <1>1, RunExists
<1>3. Executed(f, q) = r[n]
  BY <1>2, ExecutedIs
<1>4. done(n) = ids /\ \A k \in 1..n : q[k].op = "del"
  OBVIOUS
<1> HIDE DEF n
<1>5. \A k \in 0..n : r[k] = IF k = 0 THEN f ELSE execute(r[k - 1], q[k])
  BY <1>2 DEF IsRun
<1> DEFINE S == {k \in 0..n : r[k] # Without(f, done(k))}
<1>6. S = {}
  <2> SUFFICES ASSUME S # {} PROVE FALSE
    OBVIOUS
  <2>1. PICK k \in S : \A i \in S : k <= i
    <3>1. S \in SUBSET Nat
      BY <1>1
    <3> HIDE DEF S
    <3>2. QED
      BY <3>1, SmallestExists
  <2>2. k \in 0..n /\ r[k] # Without(f, done(k))
    OBVIOUS
  <2>3. CASE k = 0
    <3>1. done(k) = {} /\ f = [id \in DOMAIN f |-> f[id]]
      BY <2>3, CargoMapFacts
    <3>2. Without(f, {}) = f
      BY <3>1 DEF Without
    <3>3. QED
      BY <1>5, <2>2, <2>3, <3>1, <3>2
  <2>4. CASE k # 0
    <3>1. k - 1 \in 0..n /\ k - 1 \notin S /\ k \in 1..n
      BY <1>1, <2>1, <2>2, <2>4
    <3>2. r[k - 1] = Without(f, done(k - 1))
      BY <3>1
    <3>3. PICK d, e, s : d = done(k - 1) /\ e = done(k) /\ s = q[k]
      OBVIOUS
    <3>4. e = d \cup {s.id}
      BY <1>1, <3>1, <3>3
    <3> HIDE DEF done, S
    <3>5. execute(Without(f, d), s) = Without(f, e)
      BY <1>4, <3>1, <3>3, <3>4 DEF execute, Without
    <3>6. QED
      BY <1>5, <2>2, <2>4, <3>2, <3>3, <3>5
  <2>5. QED
    BY <2>3, <2>4
<1>7. r[n] = Without(f, done(n))
  <2>1. n \in 0..n
    BY <1>1
  <2>2. n \notin S
    <3> HIDE DEF S
    <3>1. QED
      BY <1>6
  <2>3. QED
    BY <2>1, <2>2
<1>8. QED
  BY <1>3, <1>4, <1>7

\* The statements of r take the table from the map of b to the map r leaves.
Follows(b, r) == Agree(Executed(b.data_map, r.db), r.board.data_map)

LEMMA SameAgree ==
  ASSUME NEW t, IsCargoMap(t), NEW f, f = t
  PROVE  Agree(t, f)
BY SameAlike DEF Agree

LEMMA NopFollows ==
  ASSUME NEW b, IsBoard(b)
  PROVE  Follows(b, Nop(b))
<1>1. Nop(b).board = b /\ Nop(b).db = <<>>
  BY DEF Nop
<1>2. Executed(b.data_map, <<>>) = b.data_map
  BY ExecutedFew
<1>3. QED
  BY <1>1, <1>2, SameAgree DEF Follows, IsBoard

LEMMA CargoUpFollows ==
  ASSUME NEW b, IsBoard(b), Indexing(b), b.global_id < IdMax,
         NEW sid \in Regions, NEW rid \in Roles, NEW objid \in Items,
         NEW val \in Nat, NEW percent \in Nat, NEW time \in Nat
  PROVE  Follows(b, cargo_up(b, sid, rid, objid, val, percent, time))
<1> DEFINE id == alloc_id(b)
           c  == [sid |-> sid, role_id |-> rid, objid |-> objid, val |-> val,
                  percent |-> percent, down_time |-> time + Life]
           m  == [x \in DOMAIN b.data_map \cup {id} |-> IF x = id THEN c ELSE b.data_map[x]]
           s  == [op |-> "add", id |-> id, cargo |-> c]
           r  == cargo_up(b, sid, rid, objid, val, percent, time)
<1>1. r.db = <<s>> /\ r.board.data_map = m
  BY DEF cargo_up, IsBoard
<1>2. IsBoard(r.board)
  BY CargoUpType DEF Result
<1>3. id \notin DOMAIN b.data_map
  BY AllocFresh
<1> HIDE DEF id, c
<1>4. execute(b.data_map, s) = m
  BY <1>3 DEF execute
<1> HIDE DEF s, m, r
<1>5. Executed(b.data_map, r.db) = r.board.data_map
  BY <1>1, <1>4, ExecutedFew
<1>6. QED
  BY <1>2, <1>5, SameAgree DEF Follows, IsBoard, r

LEMMA TakeDownFollows ==
  ASSUME NEW b, IsBoard(b), NEW ids \in SUBSET DOMAIN b.data_map
  PROVE  Follows(b, take_down(b, ids))
<1> DEFINE T == {[op |-> "del", id |-> id] : id \in ids}
           f == b.data_map
           g == cargos(b, ids)
           q == SetToSeq(T)
<1>1. /\ take_down(b, ids).db = q /\ q \in Seq(NoAdd)
      /\ take_down(b, ids).board.data_map = g /\ IsCargoMap(f) /\ IsCargoMap(g)
  <2>1. Quiet(take_down(b, ids))
    BY TakeDownType
  <2>2. take_down(b, ids).db = q /\ take_down(b, ids).board = cargo_remove(b, ids)
    BY DEF take_down
  <2>3. cargo_remove(b, ids).data_map = g
    BY RemoveFields
  <2> HIDE DEF q, g
  <2>4. QED
    BY <2>1, <2>2, <2>3 DEF Quiet, IsBoard
<1>2. IsFiniteSet(T)
  <2>1. IsFiniteSet(ids)
    BY BoardFacts, FS_Subset
  <2>2. (\A x \in T : x.id \in ids) /\ \A x, y \in T : x.id = y.id => x = y
    OBVIOUS
  <2> HIDE DEF T
  <2>3. QED
    BY <2>1, <2>2, StatementsFinite
<1>3. g = Without(f, ids)
  BY DEF cargos, Without
<1>4. q \in Seq(T) /\ \A x \in T : \E k \in 1..Len(q) : q[k] = x
  <2> HIDE DEF T
  <2>1. QED
    BY <1>2, SetToSeqOnto
<1>5. \A x \in T : x.op = "del" /\ x.id \in ids
  OBVIOUS
<1>6. \A id \in ids : \E k \in 1..Len(q) : q[k].id = id
  <2>1. ASSUME NEW id \in ids
        PROVE  \E k \in 1..Len(q) : q[k].id = id
    <3>1. PICK x : x = [op |-> "del", id |-> id]
      OBVIOUS
    <3>2. x \in T /\ x.id = id
      BY <3>1
    <3> HIDE DEF T, q
    <3>3. QED
      BY <1>4, <3>2
  <2> HIDE DEF q
  <2>2. QED
    BY <2>1
<1> HIDE DEF T, q, f, g
<1>7. \A k \in 1..Len(q) : q[k].op = "del" /\ q[k].id \in ids
  BY <1>4, <1>5, ElementOfSeq
<1>8. Executed(f, q) = g
  BY <1>1, <1>3, <1>6, <1>7, ExecutedDels
<1>9. QED
  BY <1>1, <1>8, SameAgree DEF Follows, f

LEMMA CargoDownFollows ==
  ASSUME NEW b, IsBoard(b), NEW rid, NEW id
  PROVE  Follows(b, cargo_down(b, rid, id))
BY TakeDownFollows, NopFollows DEF cargo_down, Live

LEMMA DownTimeOutFollows ==
  ASSUME NEW b, IsBoard(b), NEW sid \in Sids, NEW time
  PROVE  Follows(b, down_time_out(b, sid, time))
<1> DEFINE gone == timed_out(b, sid, time)
           r == take_down(b, gone)
<1>1. Follows(b, r)
  BY TakeDownFollows DEF timed_out
<1>2. /\ down_time_out(b, sid, time).db = r.db
      /\ r.board = cargo_remove(b, gone)
  BY DEF down_time_out, take_down
<1> HIDE DEF gone
<1>3. down_time_out(b, sid, time).board.data_map = r.board.data_map
  BY <1>2, DownTimeOutFields DEF gone
<1> HIDE DEF r
<1>4. QED
  BY <1>1, <1>2, <1>3 DEF Follows

LEMMA CargoChangeFollows ==
  ASSUME NEW b, IsBoard(b), NEW rid, NEW id, NEW percent \in Nat
  PROVE  Follows(b, cargo_change(b, rid, id, percent))
<1> DEFINE f     == b.data_map
           m     == [f EXCEPT ![id].percent = percent]
           after == [b EXCEPT !.data_map = m]
           s     == modify_db_data(after, id)
           r     == cargo_change(b, rid, id, percent)
<1>1. CASE Live(b, id) /\ b.data_map[id].role_id = rid
  <2>1. r = [board |-> after, db |-> <<s>>]
    BY <1>1 DEF cargo_change
  <2>2. IsBoard(r.board)
    BY CargoChangeType DEF Quiet
  <2>3. after.data_map = m
    BY DEF IsBoard
  <2>4. id \in DOMAIN f /\ f \in [DOMAIN f -> Cargo]
    BY <1>1, BoardFacts DEF Live
  <2> HIDE DEF f
  <2>5. /\ m[id] = [f[id] EXCEPT !.percent = percent] /\ id \in DOMAIN m
        /\ m[id].val = f[id].val /\ m[id].percent = percent
    BY <2>4 DEF Cargo
  <2>6. s.op = "update" /\ s.id = id /\ s.val = f[id].val /\ s.percent = percent
    BY <2>3, <2>5 DEF modify_db_data, Live
  <2> HIDE DEF s, m, r
  <2>7. execute(f, s) = [f EXCEPT ![id].val = f[id].val, ![id].percent = percent]
    BY <2>4, <2>6 DEF execute
  <2>8. [f EXCEPT ![id].val = f[id].val, ![id].percent = percent] = m
    <3>1. PICK c \in Cargo : c = f[id]
      BY <2>4
    <3>2. [c EXCEPT !.val = c.val, !.percent = percent] = [c EXCEPT !.percent = percent]
      BY DEF Cargo
    <3>3. QED
      BY <2>4, <3>1, <3>2 DEF m
  <2>9. Executed(f, r.db) = r.board.data_map
    BY <2>1, <2>3, <2>7, <2>8, ExecutedFew
  <2>10. QED
    BY <2>2, <2>9, SameAgree DEF Follows, IsBoard, f, r
<1>2. CASE ~(Live(b, id) /\ b.data_map[id].role_id = rid)
  BY <1>2, NopFollows DEF cargo_change
<1>3. QED
  BY <1>1, <1>2

\* The statement of a sale does to a map what the sale does.
LEMMA SellFollows ==
  ASSUME NEW b, IsBoard(b), NEW id \in DOMAIN b.data_map, NEW n \in Nat,
         NEW a, a = sell_goods(b, id, n)
  PROVE  execute(b.data_map, modify_db_data(a, id)) = a.data_map
<1> DEFINE f == b.data_map
           s == modify_db_data(a, id)
<1>1. PICK v, m, c : v \in Nat /\ SoldAs(b, id, v, m, c, a)
  BY SellGoods
<1>2. f \in [DOMAIN f -> Cargo] /\ id \in DOMAIN f
  BY BoardFacts
<1>3. /\ m = [f EXCEPT ![id].val = v] /\ c.data_map = m /\ DOMAIN m = DOMAIN f
      /\ IsBoard(c) /\ (a = c \/ a = cargo_remove(c, {id}))
  BY <1>1, Zenon DEF SoldAs
<1> HIDE DEF f
<1>4. PICK k \in Cargo : k = f[id]
  BY <1>2
<1>5. /\ m[id] = [k EXCEPT !.val = v]
      /\ \A x \in DOMAIN f : x # id => m[x] = f[x]
  BY <1>2, <1>3, <1>4
<1>6. CASE a = c
  <2>1. m[id].val = v /\ m[id].percent = k.percent
    BY <1>5 DEF Cargo
  <2>2. a.data_map = m /\ Live(a, id)
    BY <1>2, <1>3, <1>6 DEF Live
  <2>3. s.op = "update" /\ s.id = id /\ s.val = v /\ s.percent = k.percent
    BY <2>1, <2>2 DEF modify_db_data
  <2> HIDE DEF s
  <2>4. execute(f, s) = [f EXCEPT ![id].val = v, ![id].percent = k.percent]
    BY <1>2, <2>3 DEF execute
  <2>5. [k EXCEPT !.val = v, !.percent = k.percent] = [k EXCEPT !.val = v]
    BY DEF Cargo
  <2>6. [f EXCEPT ![id].val = v, ![id].percent = k.percent] = [f EXCEPT ![id].val = v]
    BY <1>2, <1>4, <2>5
  <2>7. QED
    BY <1>3, <2>2, <2>4, <2>6 DEF f, s
<1>7. CASE a = cargo_remove(c, {id})
  <2>1. a.data_map = cargos(c, {id})
    BY <1>3, <1>7, RemoveFields
  <2>2. a.data_map = [x \in DOMAIN f \ {id} |-> m[x]]
    BY <1>3, <2>1 DEF cargos
  <2>3. a.data_map = [x \in DOMAIN f \ {id} |-> f[x]]
    BY <1>5, <2>2
  <2>4. ~ Live(a, id)
    BY <2>2 DEF Live
  <2>5. s.op = "del" /\ s.id = id
    BY <2>4 DEF modify_db_data
  <2> HIDE DEF s
  <2>6. execute(f, s) = [x \in DOMAIN f \ {id} |-> f[x]]
    BY <2>5 DEF execute
  <2>7. QED
    BY <2>3, <2>6 DEF f, s
<1>8. QED
  BY <1>3, <1>6, <1>7

LEMMA EntryFollows ==
  ASSUME NEW b, NEW r \in Sales, Follows(b, r), NEW how, NEW e \in Entries
  PROVE  Follows(b, sell_entry(r, how, e))
<1>1. PICK c : c = sell_entry(r, how, e)
  OBVIOUS
<1>2. IsBoard(r.board) /\ r.db \in Seq(NoAdd) /\ e.id \in Ids /\ e.n \in Nat
  BY BoardsAre DEF Sales, Entries
<1>3. PICK x : x = r.board
  OBVIOUS
<1>4. CASE /\ Live(x, e.id) /\ c.board = sell_goods(x, e.id, e.n)
           /\ c.db = Append(r.db, modify_db_data(c.board, e.id))
  <2>1. PICK a : a = sell_goods(x, e.id, e.n)
    OBVIOUS
  <2>2. PICK s : s = modify_db_data(a, e.id)
    OBVIOUS
  <2>3. e.id \in DOMAIN x.data_map
    BY <1>4 DEF Live
  <2>4. execute(x.data_map, s) = a.data_map
    BY <1>2, <1>3, <2>1, <2>2, <2>3, SellFollows
  <2>5. IsBoard(a)
    BY <1>2, <1>3, <2>1, <2>3, SellGoods
  <2>6. s \in NoAdd
    BY <1>2, <2>2, <2>5, ModifyType
  <2>7. c.db = r.db \o <<s>> /\ <<s>> \in Seq(NoAdd) /\ c.board = a
    <3>1. c.db = Append(r.db, s) /\ c.board = a
      BY <1>4, <2>1, <2>2
    <3>2. Append(r.db, s) = r.db \o <<s>>
      BY <1>2, <2>6, AppendIsConcat
    <3>3. QED
      BY <2>6, <3>1, <3>2
  <2>8. Executed(b.data_map, c.db) = execute(Executed(b.data_map, r.db), s)
    <3>1. Executed(b.data_map, r.db \o <<s>>) = Executed(Executed(b.data_map, r.db), <<s>>)
      BY <1>2, <2>7, ExecutedMore
    <3>2. Executed(Executed(b.data_map, r.db), <<s>>) = execute(Executed(b.data_map, r.db), s)
      BY ExecutedFew
    <3>3. QED
      BY <2>7, <3>1, <3>2
  <2>9. Agree(Executed(b.data_map, r.db), x.data_map)
    BY <1>3 DEF Follows
  <2>10. s \in Statement
    BY <2>6 DEF NoAdd
  <2>11. Agree(execute(Executed(b.data_map, r.db), s), a.data_map)
    BY <2>4, <2>9, <2>10, ExecuteAlike DEF Agree
  <2>12. QED
    BY <1>1, <2>7, <2>8, <2>11 DEF Follows
<1>5. CASE c.board = [x EXCEPT !.ghosts = @ \cup {e.id}] /\ c.db = r.db
  <2>1. PICK g : g = c.board
    OBVIOUS
  <2>2. g.data_map = x.data_map
    BY <1>2, <1>3, <1>5, <2>1, GhostFields
  <2>3. QED
    BY <1>1, <1>3, <1>5, <2>1, <2>2 DEF Follows
<1>6. CASE c.board = x /\ c.db = r.db
  BY <1>1, <1>3, <1>6 DEF Follows
<1>7. QED
  BY <1>1, <1>3, <1>4, <1>5, <1>6, EntryCases

LEMMA PurchaseFollows ==
  ASSUME NEW b, IsBoard(b), NEW how, NEW list \in Seq(Entries)
  PROVE  Follows(b, purchase(b, how, list))
<1> DEFINE S == {r \in Sales : Follows(b, r)}
<1>1. Start(b, list) \in S
  <2>1. Start(b, list).board = b /\ Start(b, list).db = <<>>
    BY DEF Start
  <2>2. Executed(b.data_map, <<>>) = b.data_map
    BY ExecutedFew
  <2>3. Follows(b, Start(b, list))
    BY <2>1, <2>2, SameAgree DEF Follows, IsBoard
  <2>4. QED
    BY <2>3, StartType
<1>2. \A r \in S : \A e \in Entries : sell_entry(r, how, e) \in S
  BY EntryType, EntryFollows
<1> HIDE DEF S
<1>3. purchase(b, how, list) \in S
  BY <1>1, <1>2, PurchaseIn
<1>4. QED
  BY <1>3 DEF S

\* The board puts a wrong region where the table puts 0, and nothing else.
LEMMA CargoResetFollows ==
  ASSUME NEW b, IsBoard(b), NEW sid \in Sids
  PROVE  Follows(b, cargo_reset(b, sid))
<1> DEFINE moved == UNION {b.indices[sid][i] : i \in Items}
           f     == b.data_map
           g     == cargo_sid_reset(b, moved)
           s     == [op |-> "reset", sid |-> sid]
           r     == cargo_reset(b, sid)
<1>1. CASE moved = {}
  BY <1>1, NopFollows DEF cargo_reset
<1>2. CASE moved # {}
  <2>1. r.db = <<s>> /\ r.board.data_map = g
    BY <1>2 DEF cargo_reset, IsBoard
  <2>2. IsBoard(r.board)
    BY CargoResetType DEF Quiet
  <2>3. s \in Statement /\ s.op = "reset" /\ s.sid = sid
    BY DEF Statement
  <2>4. IsCargoMap(f) /\ f \in [DOMAIN f -> Cargo]
    BY BoardFacts DEF IsBoard
  <2>5. IsCargoMap(execute(f, s)) /\ IsCargoMap(g)
    <3> HIDE DEF s, g, f, r
    <3>1. QED
      BY <2>1, <2>2, <2>3, <2>4, ExecuteType DEF IsBoard
  <2>6. /\ DOMAIN g = DOMAIN f
        /\ \A id \in DOMAIN f : g[id] = IF id \in moved THEN [f[id] EXCEPT !.sid = id] ELSE f[id]
    BY DEF cargo_sid_reset
  <2> HIDE DEF s, g, f, moved, r
  <2>7. /\ DOMAIN execute(f, s) = DOMAIN f
        /\ \A id \in DOMAIN f : execute(f, s)[id] =
             IF f[id].sid = sid THEN [f[id] EXCEPT !.sid = 0] ELSE f[id]
    BY <2>3 DEF execute
  <2>8. ASSUME NEW id \in DOMAIN f
        PROVE  Same(execute(f, s)[id], g[id])
    <3>1. PICK c \in Cargo : c = f[id]
      BY <2>4
    <3>2. /\ Same([c EXCEPT !.sid = 0], [c EXCEPT !.sid = id])
          /\ Same([c EXCEPT !.sid = 0], c) /\ Same(c, [c EXCEPT !.sid = id])
          /\ Same(c, c)
      BY DEF Same, Cargo
    <3>3. QED
      BY <2>6, <2>7, <3>1, <3>2
  <2>9. Agree(execute(f, s), g)
    BY <2>5, <2>6, <2>7, <2>8 DEF Agree, Alike
  <2>10. Executed(f, r.db) = execute(f, s)
    BY <2>1, ExecutedFew
  <2>11. QED
    BY <2>1, <2>9, <2>10 DEF Follows, f, r
<1>3. QED
  BY <1>1, <1>2

\* A cargo no statement of which was lost is in the table as the board last
\* showed it, and on the open board.  While the process loads, sharedb rests,
\* and the board holds the rows that have come, as they are.
TableInv ==
  /\ \A id \in Ids \ lost :
       /\ Alike(Executed(market_sell, dbq), shown, id)
       /\ phase = "open" => Alike(board.data_map, shown, id)
  /\ phase = "loading" =>
       /\ DOMAIN board.data_map = DOMAIN market_sell \ todo
       /\ \A id \in DOMAIN board.data_map : board.data_map[id] = market_sell[id]

LEMMA HandleFollows ==
  ASSUME TypeOK, TableInv, NEW r, Result(r), Follows(board, r), Handle(r)
  PROVE  TableInv'
<1>1. /\ phase = "open" /\ phase' = "open" /\ board' = r.board /\ shown' = r.board.data_map
      /\ UNCHANGED <<market_sell, todo, now, boot, crashes>>
      /\ \E pre, mid, post : Written(r, Statement, pre, mid, post)
  BY HandleParts DEF Result
<1>2. PICK pre, mid, post : Written(r, Statement, pre, mid, post)
  BY <1>1
<1>3. /\ pre \in Seq(Statement) /\ mid \in Seq(Statement) /\ post \in Seq(Statement)
      /\ r.db = (pre \o mid) \o post /\ dbq' = dbq \o mid
      /\ lost' = lost \cup Named(pre) \cup Named(post)
  BY <1>2 DEF Written
<1>4. dbq \in Seq(Statement) /\ IsCargoMap(r.board.data_map)
  BY DEF TypeOK, Result, IsBoard
<1>5. ASSUME NEW id \in Ids \ lost'
      PROVE  Alike(Executed(market_sell, dbq'), shown', id)
  <2>1. id \in Ids /\ id \notin lost /\ id \notin Named(pre) /\ id \notin Named(post)
    BY <1>3
  <2>2. PICK e : e = Executed(market_sell, dbq)
    OBVIOUS
  <2>3. Alike(e, board.data_map, id)
    <3>1. Alike(e, shown, id) /\ Alike(board.data_map, shown, id)
      BY <1>1, <2>1, <2>2 DEF TableInv
    <3>2. QED
      BY <3>1, AlikeBack, AlikeTwice
  <2>4. Executed(market_sell, dbq') = Executed(e, mid)
    BY <1>3, <1>4, <2>2, ExecutedMore
  <2>5. Alike(Executed(e, pre), e, id)
    BY <1>3, <2>1, <2>3, ExecutedUnnamed DEF Alike
  <2>6. PICK x : x = Executed(e, pre)
    OBVIOUS
  <2>7. PICK y : y = Executed(x, mid)
    OBVIOUS
  <2>8. Alike(y, Executed(e, mid), id)
    BY <1>3, <2>5, <2>6, <2>7, ExecutedAlike
  <2>9. Alike(Executed(y, post), y, id)
    BY <1>3, <2>1, <2>8, ExecutedUnnamed DEF Alike
  <2>10. Executed(e, r.db) = Executed(y, post)
    <3>1. PICK z : z = pre \o mid
      OBVIOUS
    <3>2. z \in Seq(Statement) /\ r.db = z \o post
      BY <1>3, <3>1
    <3>3. Executed(e, z) = y
      BY <1>3, <2>6, <2>7, <3>1, ExecutedMore
    <3>4. QED
      BY <1>3, <3>2, <3>3, ExecutedMore
  <2>11. Alike(Executed(e, r.db), Executed(board.data_map, r.db), id)
    BY <2>3, ExecutedAlike DEF Result
  <2>12. Alike(Executed(board.data_map, r.db), r.board.data_map, id)
    BY <2>1 DEF Follows, Agree
  <2>13. PICK u, v, w : /\ u = Executed(e, mid) /\ v = Executed(e, r.db)
                        /\ w = Executed(board.data_map, r.db)
    OBVIOUS
  <2>14. Alike(u, y, id) /\ Alike(y, v, id)
    BY <2>8, <2>9, <2>10, <2>13, AlikeBack
  <2>15. Alike(v, w, id) /\ Alike(w, r.board.data_map, id)
    BY <2>11, <2>12, <2>13
  <2>16. Alike(u, r.board.data_map, id)
    BY <2>14, <2>15, AlikeTwice
  <2>17. QED
    BY <1>1, <2>4, <2>13, <2>16
<1>6. ASSUME NEW id \in Ids \ lost'
      PROVE  Alike(board'.data_map, shown', id)
  BY <1>1, <1>4, SameAlike
<1>7. QED
  BY <1>1, <1>5, <1>6 DEF TableInv

\* What is cut off names the cargos it costs.
LEMMA CutFollows ==
  ASSUME TypeOK, TableInv, NEW kept \in 0..Len(dbq), Cut(kept), market_sell' = market_sell
  PROVE  /\ shown' = shown /\ lost \subseteq lost'
         /\ \A id \in Ids \ lost' : Alike(Executed(market_sell', dbq'), shown', id)
<1>1. dbq \in Seq(Statement)
  BY DEF TypeOK
<1>2. shown' = shown /\ dbq' \in Seq(Statement)
  BY <1>1, CutParts
<1>3. PICK rest \in Seq(Statement) : dbq = dbq' \o rest /\ lost' = lost \cup Named(rest)
  BY <1>1, CutParts
<1>4. PICK q \in Seq(Statement) : q = dbq'
  BY <1>2
<1>5. ASSUME NEW id \in Ids \ lost'
      PROVE  Alike(Executed(market_sell, q), shown, id)
  <2>1. id \notin Named(rest) /\ Alike(Executed(market_sell, dbq), shown, id)
    BY <1>3 DEF TableInv
  <2>2. PICK e : e = Executed(market_sell, q)
    OBVIOUS
  <2>3. Executed(market_sell, dbq) = Executed(e, rest)
    BY <1>3, <1>4, <2>2, ExecutedMore
  <2>4. IsCargoMap(e)
    BY <1>4, <2>2, ExecutedIsMap DEF TypeOK
  <2>5. Alike(Executed(e, rest), e, id)
    BY <2>1, <2>4, ExecutedUnnamed
  <2>6. Alike(e, shown, id)
    BY <2>1, <2>3, <2>5, AlikeBack, AlikeTwice
  <2>7. QED
    BY <2>2, <2>6
<1>6. QED
  BY <1>2, <1>3, <1>4, <1>5

LEMMA TableInvariant == Spec => []TableInv
<1>1. Init => TableInv
  <2> SUFFICES ASSUME Init PROVE TableInv
    OBVIOUS
  <2>1. /\ market_sell = EmptyBoard.data_map /\ shown = EmptyBoard.data_map /\ dbq = <<>>
        /\ phase = "starting"
    BY DEF Init
  <2>2. IsCargoMap(shown) /\ Executed(market_sell, dbq) = shown
    BY <2>1, EmptyBoardType, ExecutedFew DEF IsBoard
  <2>3. QED
    BY <2>1, <2>2, SameAlike DEF TableInv
<1>2. TypeOK /\ LoadType /\ IndexInv /\ TableInv /\ [Next]_vars => TableInv'
  <2> SUFFICES ASSUME TypeOK, LoadType, IndexInv, TableInv, [Next]_vars PROVE TableInv'
    OBVIOUS
  <2>1. IsBoard(board) /\ Indexing(board) /\ now \in Nat
    BY DEF TypeOK, IndexInv
  <2>2. ASSUME NEW rid \in Roles, NEW i \in Items, NEW v \in 1..MaxVal, NEW p \in Percents,
               CargoUp(rid, i, v, p)
        PROVE  TableInv'
    <3>1. p \in Nat /\ v \in Nat /\ board.global_id < IdMax
      BY <2>1, <2>2, BoardFacts, OpsAssumption, BoardAssumption DEF CargoUp
    <3>2. PICK r : r = cargo_up(board, get_social_sid(rid), rid, i, v, p, now)
      OBVIOUS
    <3>3. Result(r) /\ Follows(board, r)
      BY <2>1, <3>1, <3>2, RegionType, CargoUpType, CargoUpFollows
    <3>4. QED
      BY <2>2, <3>2, <3>3, HandleFollows DEF CargoUp, Request
  <2>3. ASSUME NEW rid \in Roles, NEW id \in Ids, CargoDown(rid, id) PROVE TableInv'
    <3>1. PICK r : r = cargo_down(board, rid, id)
      OBVIOUS
    <3>2. Result(r) /\ Follows(board, r)
      BY <2>1, <3>1, CargoDownType, QuietResult, CargoDownFollows
    <3>3. QED
      BY <2>3, <3>1, <3>2, HandleFollows DEF CargoDown, Request
  <2>4. ASSUME NEW rid \in Roles, NEW id \in Ids, NEW p \in Percents, CargoChange(rid, id, p)
        PROVE  TableInv'
    <3>1. p \in Nat
      BY BoardAssumption
    <3>2. PICK r : r = cargo_change(board, rid, id, p)
      OBVIOUS
    <3>3. Result(r) /\ Follows(board, r)
      BY <2>1, <3>1, <3>2, CargoChangeType, QuietResult, CargoChangeFollows
    <3>4. QED
      BY <2>4, <3>2, <3>3, HandleFollows DEF CargoChange, Request
  <2>5. ASSUME NEW how \in Hows, NEW list \in Asked(how, Ids, MaxVal, Percents),
               Purchase(how, list)
        PROVE  TableInv'
    <3>1. PICK r : r = purchase(board, how, list)
      OBVIOUS
    <3>2. list \in Seq(Entries)
      BY AskedType
    <3>3. Result(r) /\ Follows(board, r)
      BY <2>1, <3>1, <3>2, PurchaseType, QuietResult, PurchaseFollows
    <3>4. QED
      BY <2>5, <3>1, <3>3, HandleFollows DEF Purchase, Request
  <2>6. ASSUME NEW sid \in Primaries, SocialReset(sid) \/ SocialResetLost(sid) \/ DownTimeout(sid)
        PROVE  TableInv'
    <3>1. sid \in Sids
      BY OpsAssumption, BoardAssumption DEF Primaries
    <3>2. CASE SocialReset(sid)
      <4>1. PICK r : r = cargo_reset(board, sid)
        OBVIOUS
      <4>2. Result(r) /\ Follows(board, r)
        BY <2>1, <3>1, <4>1, CargoResetType, QuietResult, CargoResetFollows
      <4>3. QED
        BY <3>2, <4>1, <4>2, HandleFollows DEF SocialReset
    <3>3. CASE SocialResetLost(sid)
      BY <3>3 DEF SocialResetLost, TableInv, past
    <3>4. CASE DownTimeout(sid)
      <4>1. PICK r : r = down_time_out(board, sid, now)
        OBVIOUS
      <4>2. Result(r) /\ Follows(board, r)
        BY <2>1, <3>1, <4>1, DownTimeOutType, QuietResult, DownTimeOutFollows
      <4>3. QED
        BY <3>4, <4>1, <4>2, HandleFollows DEF DownTimeout
    <3>5. QED
      BY <2>6, <3>2, <3>3, <3>4
  <2>7. CASE DbExecute
    <3>1. /\ dbq # <<>> /\ market_sell' = execute(market_sell, Head(dbq)) /\ dbq' = Tail(dbq)
          /\ board' = board /\ phase' = phase /\ dbq \in Seq(Statement)
          /\ shown' = shown /\ lost' = lost
      BY <2>7 DEF DbExecute, TypeOK, past
    <3>2. phase # "loading"
      BY <3>1 DEF LoadType
    <3>3. Executed(market_sell, dbq) = Executed(execute(market_sell, Head(dbq)), Tail(dbq))
      BY <3>1, ExecutedHead
    <3>4. QED
      BY <3>1, <3>2, <3>3 DEF TableInv
  <2>8. CASE RequestList
    <3>1. DOMAIN board.data_map = {} /\ todo' = DOMAIN market_sell
      BY <2>8 DEF RequestList, IndexInv, EmptyBoard
    <3>2. /\ phase' = "loading" /\ board' = board /\ market_sell' = market_sell
          /\ dbq' = dbq /\ shown' = shown /\ lost' = lost
      BY <2>8 DEF RequestList, past
    <3>3. QED
      BY <3>1, <3>2 DEF TableInv
  <2>9. ASSUME NEW ids \in SUBSET todo, LoadRows(ids) PROVE TableInv'
    <3>1. /\ phase = "loading" /\ phase' = phase /\ market_sell' = market_sell
          /\ todo' = todo \ ids /\ board' = init_data(board, market_sell, ids, now)
          /\ dbq' = dbq /\ shown' = shown /\ lost' = lost
      BY <2>9 DEF LoadRows, past
    <3>2. PICK m : m = board'.data_map
      OBVIOUS
    <3>3. m = [id \in DOMAIN board.data_map \cup ids |->
                 IF id \in ids THEN market_sell[id] ELSE board.data_map[id]]
      BY <3>1, <3>2 DEF init_data
    <3>4. /\ DOMAIN board.data_map = DOMAIN market_sell \ todo
          /\ \A id \in DOMAIN board.data_map : board.data_map[id] = market_sell[id]
          /\ todo \subseteq DOMAIN market_sell
      BY <3>1 DEF TableInv, TypeOK
    <3>5. /\ DOMAIN m = DOMAIN market_sell \ (todo \ ids)
          /\ \A id \in DOMAIN m : m[id] = market_sell[id]
      BY <3>3, <3>4
    <3>6. QED
      BY <3>1, <3>2, <3>5 DEF TableInv
  <2>10. CASE LoadEnd
    <3>1. /\ phase = "loading" /\ todo = {} /\ phase' = "open" /\ dbq = <<>>
          /\ market_sell' = market_sell /\ dbq' = dbq /\ board' = board
          /\ shown' = shown /\ lost' = lost
      BY <2>10 DEF LoadEnd, LoadType, past
    <3>2. IsCargoMap(market_sell) /\ IsCargoMap(board.data_map)
      BY DEF TypeOK, IsBoard
    <3>3. \A id \in Ids : Alike(board.data_map, market_sell, id)
      BY <3>1, <3>2 DEF TableInv, Alike, Same
    <3>4. Executed(market_sell, dbq) = market_sell
      BY <3>1, ExecutedFew
    <3>5. \A id \in Ids \ lost : Alike(board.data_map, shown, id)
      BY <3>3, <3>4, AlikeTwice DEF TableInv
    <3>6. QED
      BY <3>1, <3>5 DEF TableInv
  <2>11. CASE LoadLost
    BY <2>11 DEF LoadLost, TableInv, past
  <2>12. CASE Tick
    BY <2>12 DEF Tick, TableInv, past
  <2>13. ASSUME NEW kept \in 0..Len(dbq), LinkLost(kept) \/ Crash(kept) PROVE TableInv'
    <3>1. Cut(kept) /\ market_sell' = market_sell
      BY <2>13 DEF LinkLost, Crash
    <3>2. /\ shown' = shown /\ lost \subseteq lost'
          /\ \A id \in Ids \ lost' : Alike(Executed(market_sell', dbq'), shown', id)
      BY <3>1, CutFollows
    <3>3. CASE LinkLost(kept)
      BY <3>2, <3>3 DEF LinkLost, TableInv
    <3>4. CASE Crash(kept)
      BY <3>2, <3>4 DEF Crash, TableInv
    <3>5. QED
      BY <2>13, <3>3, <3>4
  <2>14. CASE UNCHANGED vars
    BY <2>14 DEF vars, past, TableInv
  <2>15. QED
    BY <2>2, <2>3, <2>4, <2>5, <2>6, <2>7, <2>8, <2>9, <2>10, <2>11, <2>12, <2>13, <2>14 DEF Next
<1>3. QED
  BY <1>1, <1>2, TypeInvariant, IndexInvariant, PTL DEF Spec

\* A cargo none of whose statements was lost is in the table, once those on
\* their way are executed, as the process last showed it, and the open board
\* has it so too: whatever was sold, changed, taken down, timed out or reset,
\* however far sharedb has got, however often its link broke and however many
\* restarts came before.  So a lost statement costs only the cargo it names,
\* and no restart loses or revives another.
THEOREM TableAlwaysFollows == Spec => []TableFollowsBoard
<1>1. TableInv => TableFollowsBoard
  BY AlikeRow DEF TableInv, TableFollowsBoard
<1>2. QED
  BY <1>1, TableInvariant, PTL
=============================================================================
