----------------------------- MODULE MarketOps -----------------------------
(***************************************************************************)
(* What the handlers of the auction board do to it, as operators           *)
(* (so_social/market_imp.cpp, market_dc.cpp).  Each returns the new board  *)
(* and the statements it sends to sharedb.  MarketBoard applies them under *)
(* restarts and timeouts, MarketTrade under broken links.                  *)
(*                                                                         *)
(* Abstractions.  A market slot (type, level, group) holds one item        *)
(* (extras/xls/Market.json), so an index list is named by its item.  The   *)
(* lists are sets: their readers pick at random.  A ghost is an entry of   *)
(* data_map that operator[] creates for an id without a cargo: it names    *)
(* owner 0, item 0 and cargo 0, so that no check lets it through, its      *)
(* statements find no row and its messages reach no server.  Those that    *)
(* batch_buy creates are in ghosts; those a reader of a list creates are   *)
(* left out, as is the echo PRMarketSellData to the seller's client.  What *)
(* handlers do with cargo.money and sell_map is in MarketTrade.            *)
(***************************************************************************)
EXTENDS Naturals, Sequences, FiniteSets, SequencesExt

CONSTANTS
  Roles,       \* players
  Sids,        \* game servers
  SERVER_ID,   \* [Roles -> Sids]: the server a role id belongs to
  Items,       \* tradable items: the keys of theMarketExt
  IdMax,       \* the largest cargo id, 0xFFFFFFFF in the code
  Life,        \* 24*3600 in the code: how long a cargo stays on sale
  Minute,      \* 100 in the code: the width of a down_map bucket
  Word,        \* 2^32 in the code: cargo.coin.val wraps there
  Hows,        \* kinds of purchase clients make
  MaxEntries   \* bound on the cargos a purchase names

ASSUME OpsAssumption ==
  /\ SERVER_ID \in [Roles -> Sids]
  /\ Sids \subseteq Nat \ {0} /\ IsFiniteSet(Sids)
  /\ IdMax \in Nat \ {0} /\ Life \in Nat \ {0} /\ Minute \in Nat \ {0}
  /\ Word \in Nat \ {0} /\ MaxEntries \in Nat
  /\ Hows \subseteq {"buy", "buy_all", "batch_buy"}

Ids     == 1..IdMax
Regions == {0} \cup Sids \cup Ids    \* values of SMarketSellCargo.sid

Cargo == [sid : Regions, role_id : Roles, objid : Items, val : Nat,
          percent : Nat, down_time : Nat]
IsCargoMap(f) == \E S \in SUBSET Ids : f \in [S -> Cargo]    \* by cargo id

IsBoard(b) ==
  /\ b \in [ global_id : 0..IdMax,
              data_map  : {b.data_map},
              ghosts    : SUBSET Ids,
              indices   : [Regions -> [Items -> SUBSET Ids]],
              user_map  : [Roles -> SUBSET Ids],
              down_map  : [Sids -> SUBSET (Nat \X Ids)] ]
  /\ IsCargoMap(b.data_map)

EmptyBoard ==
  [ global_id |-> 0,
    data_map  |-> [id \in {} |-> {}],
    ghosts    |-> {},
    indices   |-> [r \in Regions |-> [i \in Items |-> {}]],
    user_map  |-> [r \in Roles |-> {}],
    down_map  |-> [s \in Sids |-> {}] ]

\* What the social process asks of the table market_sell.
Statement ==
  [op : {"add"}, id : Ids, cargo : Cargo] \cup [op : {"del"}, id : Ids] \cup
  [op : {"update"}, id : Ids, val : Nat, percent : Nat] \cup [op : {"reset"}, sid : Sids]

TIMETOMIN_floor(n) == (n \div Minute) * Minute    \* mutant: rounds down
TIMETOMIN(n) == (n \div Minute + 1) * Minute

alloc_id_post(b) == b.global_id    \* mutant: global_id++ for ++global_id
alloc_id(b) == IF b.global_id = IdMax THEN 1 ELSE b.global_id + 1

-----------------------------------------------------------------------------
(* Handlers: each returns [board, db].                                     *)

Nop(b) == [board |-> b, db |-> <<>>]
Live(b, id) == id \in DOMAIN b.data_map

\* Mutant: an emptied cargo is updated like any other.
modify_db_data_kept(after, id) ==
  [op |-> "update", id |-> id, val |-> 0, percent |-> 100]

\* modify_db_data as each handler calls it, given the board it leaves behind.
modify_db_data(after, id) ==
  IF Live(after, id)
    THEN [op |-> "update", id |-> id, val |-> after.data_map[id].val,
          percent |-> after.data_map[id].percent]
    ELSE [op |-> "del", id |-> id]

cargo_up(b, sid, rid, objid, val, percent, time) ==
  LET id == alloc_id(b)
      c  == [sid |-> sid, role_id |-> rid, objid |-> objid, val |-> val,
             percent |-> percent, down_time |-> time + Life]
  IN [ board |-> [b EXCEPT
         !.global_id = id,
         !.data_map  = [x \in DOMAIN @ \cup {id} |-> IF x = id THEN c ELSE @[x]],
         !.ghosts    = @ \ {id},
         !.indices   = [b.indices EXCEPT ![sid][objid] = @ \cup {id}],
         !.user_map  = [b.user_map EXCEPT ![rid] = @ \cup {id}],
         !.down_map  = [b.down_map EXCEPT ![SERVER_ID[rid]] =
                                     @ \cup {<<TIMETOMIN(time + Life), id>>}]],
       db   |-> <<[op |-> "add", id |-> id, cargo |-> c]>> ]

\* cargo_remove of every id in gone: off its owner's list, off the list that
\* switch_cargo_map names for cargo.sid, out of data_map.
user_lists(b, gone) ==
  [r \in Roles |-> b.user_map[r] \ {id \in gone : b.data_map[id].role_id = r}]
buy_lists(b, gone) ==
  [r \in Regions |-> [i \in Items |-> b.indices[r][i] \
     {id \in gone : b.data_map[id].sid = r /\ b.data_map[id].objid = i}]]
cargos(b, gone) == [id \in DOMAIN b.data_map \ gone |-> b.data_map[id]]

cargo_remove(b, gone) ==
  [b EXCEPT !.user_map = user_lists(b, gone),
            !.indices  = buy_lists(b, gone),
            !.data_map = cargos(b, gone)]

\* Every cargo of ids off the board; what is left of it goes back by mail.
take_down(b, ids) ==
  [ board |-> cargo_remove(b, ids),
    db    |-> SetToSeq({[op |-> "del", id |-> id] : id \in ids}) ]

cargo_down(b, rid, id) ==
  IF Live(b, id) /\ b.data_map[id].role_id = rid THEN take_down(b, {id}) ELSE Nop(b)

cargo_change(b, rid, id, percent) ==
  IF Live(b, id) /\ b.data_map[id].role_id = rid
    THEN LET after == [b EXCEPT !.data_map = [b.data_map EXCEPT ![id].percent = percent]]
         IN [board |-> after, db |-> <<modify_db_data(after, id)>>]
    ELSE Nop(b)

\* What a client may ask for: some of each of several cargos, at the
\* percentage it saw.  PQMarketBuy names one cargo, PQMarketBuyAll several at
\* one percentage, PQMarketBatchBuy several at their own; nothing keeps a
\* client from naming a cargo twice.
Asked(how, ids, most, seens) ==
  LET Entry == [id : ids, n : 1..most, seen : seens]
  IN {list \in UNION {[1..k -> Entry] : k \in 1..MaxEntries} :
        /\ how = "buy" => Len(list) = 1
        /\ how = "buy_all" => \A i, j \in DOMAIN list : list[i].seen = list[j].seen}

\* The checks before a sale: the cargo exists, holds enough and costs what
\* the client saw.  (A client computes the value it sends from the percentage
\* it saw, so the value check fails exactly when the percentage check does.)
\* Each entry is held against the stock before the sale.
Buyable(b, list) ==
  \A i \in DOMAIN list : LET e == list[i]
    IN /\ Live(b, e.id)
       /\ b.data_map[e.id].val >= e.n
       /\ b.data_map[e.id].percent = e.seen

\* n goods leave a cargo; an emptied one is removed.
sell_goods(b, id, n) ==
  LET left  == (b.data_map[id].val + Word - n) % Word
      after == [b EXCEPT !.data_map = [b.data_map EXCEPT ![id].val = left]]
  IN IF left = 0 THEN cargo_remove(after, {id}) ELSE after

\* The next entry of a purchase that passed the checks.  When an earlier entry
\* has emptied its cargo, cargo_buy_all refuses the rest, and batch_buy takes
\* the goods from a ghost.
sell_entry(r, how, e) ==
  CASE ~r.refused /\ Live(r.board, e.id) ->
         LET after == sell_goods(r.board, e.id, e.n)
         IN [r EXCEPT !.board = after, !.sold = Append(@, e),
                      !.db = Append(@, modify_db_data(after, e.id))]
    [] ~r.refused /\ ~Live(r.board, e.id) /\ how = "batch_buy" ->
         [r EXCEPT !.board = [r.board EXCEPT !.ghosts = @ \cup {e.id}]]
    [] OTHER -> [r EXCEPT !.refused = TRUE]

\* Adds to the handler's result sold, the entries of cargos on the board, and
\* refused, whether the buyer is told so and gets its coins back.
purchase(b, how, list) ==
  LET sale[k \in 0..Len(list)] ==
        IF k = 0 THEN [board |-> b, db |-> <<>>, sold |-> <<>>, refused |-> ~Buyable(b, list)]
                 ELSE sell_entry(sale[k - 1], how, list[k])
  IN sale[Len(list)]

\* Mutant: the lists of sid are copied and not erased.
merge_indices_kept(indices, sid) ==
  [indices EXCEPT ![0] = [i \in Items |-> @[i] \cup indices[sid][i]]]

\* The lists of sid move to region 0.
merge_indices(indices, sid) ==
  [indices EXCEPT ![0] = [i \in Items |-> @[i] \cup indices[sid][i]],
                  ![sid] = [i \in Items |-> {}]]

\* It assigns the cargo id, not 0, to the sid of every cargo it visits.
cargo_sid_reset(b, moved) ==
  [id \in DOMAIN b.data_map |->
     IF id \in moved THEN [b.data_map[id] EXCEPT !.sid = id] ELSE b.data_map[id]]

cargo_reset(b, sid) ==
  LET moved == UNION {b.indices[sid][i] : i \in Items}
  IN IF moved = {} THEN Nop(b)
     ELSE [ board |-> [b EXCEPT !.indices  = merge_indices(b.indices, sid),
                                !.data_map = cargo_sid_reset(b, moved)],
            db    |-> <<[op |-> "reset", sid |-> sid]>> ]

\* Buckets whose time has come are emptied and their cargos taken down.
overdue(b, sid, time)   == {e \in b.down_map[sid] : e[1] <= time}
timed_out(b, sid, time) == {e[2] : e \in overdue(b, sid, time)} \cap DOMAIN b.data_map

down_time_out(b, sid, time) ==
  LET r == take_down(b, timed_out(b, sid, time))
  IN [ board |-> [r.board EXCEPT !.down_map =
                    [b.down_map EXCEPT ![sid] = @ \ overdue(b, sid, time)]],
       db    |-> r.db ]

\* CMarketDC::init_data on the rows ids of the table.  Only a cargo already
\* past its time enters down_map.
init_data(b, rows, ids, time) ==
  [ global_id |-> Max({b.global_id} \cup ids),
    data_map  |-> [id \in DOMAIN b.data_map \cup ids |->
                     IF id \in ids THEN rows[id] ELSE b.data_map[id]],
    ghosts    |-> b.ghosts \ ids,
    indices   |-> [r \in Regions |-> [i \in Items |-> b.indices[r][i] \cup
                     {id \in ids : rows[id].sid = r /\ rows[id].objid = i}]],
    user_map  |-> [r \in Roles |-> b.user_map[r] \cup {id \in ids : rows[id].role_id = r}],
    down_map  |-> [s \in Sids |-> b.down_map[s] \cup
                     {<<TIMETOMIN(rows[id].down_time), id>> : id \in
                        {x \in ids : /\ rows[x].down_time # 0 /\ rows[x].down_time < time
                                     /\ SERVER_ID[rows[x].role_id] = s}}] ]
=============================================================================
