---------------------------- MODULE MarketBoard ----------------------------
(***************************************************************************)
(* The social process as the keeper of the auction board: the board, the   *)
(* write-behind copy of it in the shared database (so_sharedb/             *)
(* market_pro.cpp) and a restart, which reloads that copy                  *)
(* (so_social/link.cpp, market_pro.cpp).  A statement is written to the    *)
(* link to sharedb, if there is one (local::write), and nobody looks       *)
(* whether it was: the board keeps its change.                             *)
(*                                                                         *)
(* Reading a list (get_buy_list, get_custom_list, get_sell_list,           *)
(* batch_match) changes nothing here and has no action.  PQMarketSell and  *)
(* PQMarketSellTimeout only change cargo.money and sell_map; the update    *)
(* they send rewrites the val and percent the table already holds.  They   *)
(* are in MarketTrade.                                                     *)
(***************************************************************************)
EXTENDS MarketOps

CONSTANTS
  PRIMARY,     \* [Sids -> Sids]: server_ids.begin() of the process that serves it
  Percents,    \* price percentages the game server lets through
  MaxVal,      \* the largest stack a role puts up
  MaxUps,      \* bound: ids handed out before the model stops
  MaxTime,     \* bound on the clock
  MaxCrash,    \* bound on restarts
  MaxRequests, \* bound on the client requests that are granted
  MaxLost,     \* bound on the cargos a statement of which gets lost
  MaxQueue     \* bound on statements under way to sharedb

ASSUME BoardAssumption ==
  /\ PRIMARY \in [Sids -> Sids]
  /\ Percents \subseteq Nat
  /\ MaxUps \in 0..IdMax
  /\ MaxVal \in Nat /\ MaxTime \in Nat /\ MaxCrash \in Nat
  /\ MaxRequests \in Nat /\ MaxLost \in Nat /\ MaxQueue \in Nat

VARIABLES
  board,     \* CMarket of the social process
  market_sell, \* the table of that name in the shared database
  dbq,       \* statements sent to sharedb and not yet executed
  phase,     \* "starting", "loading", "stuck" or "open"
  todo,      \* rows of the answer to PQMarketList not yet received
  now,       \* server::local_time()
  boot,      \* when the process last asked for its rows (history)
  social,    \* servers whose cross-server market has started
  shown,     \* data_map as the last handler of an open process left it (history)
  lost,      \* cargos a statement of which never reached sharedb (history)
  crashes,   \* restarts so far
  requests   \* requests of clients so far

past == <<shown, lost>>
vars == <<board, market_sell, dbq, phase, todo, now, boot, social, past, crashes, requests>>

-----------------------------------------------------------------------------
(* sharedb: one statement at a time on the table.                          *)

execute(t, s) ==
  CASE s.op = "add" /\ s.id \notin DOMAIN t ->
         [id \in DOMAIN t \cup {s.id} |-> IF id = s.id THEN s.cargo ELSE t[id]]
    [] s.op = "del" -> [id \in DOMAIN t \ {s.id} |-> t[id]]
    [] s.op = "update" /\ s.id \in DOMAIN t ->
         [t EXCEPT ![s.id].val = s.val, ![s.id].percent = s.percent]
    [] s.op = "reset" -> [id \in DOMAIN t |->
         IF t[id].sid = s.sid THEN [t[id] EXCEPT !.sid = 0] ELSE t[id]]
    [] OTHER -> t

\* The table when the statements of q have been executed, in their order.
Executed(t, q) ==
  LET after[n \in 0..Len(q)] == IF n = 0 THEN t ELSE execute(after[n - 1], q[n])
  IN after[Len(q)]

-----------------------------------------------------------------------------
(* The process.                                                            *)

Init ==
  /\ board = EmptyBoard
  /\ market_sell = EmptyBoard.data_map
  /\ dbq = <<>> /\ phase = "starting" /\ todo = {}
  /\ now = 0 /\ boot = 0 /\ social = {}
  /\ shown = EmptyBoard.data_map /\ lost = {}
  /\ crashes = 0 /\ requests = 0

\* The cargos that the statements of q are about.
Named(q) == {q[i].id : i \in {j \in DOMAIN q : q[j].op # "reset"}}

\* The statements of q never reach sharedb.
Losing(q) ==
  /\ lost' = lost \cup Named(q)
  /\ Cardinality(lost') <= MaxLost

\* One message handled while the outside listener is open.  The link to
\* sharedb may come up or break under it: of its statements those from the
\* one to the other are written.
Handle(r) ==
  /\ phase = "open"
  /\ board' = r.board /\ shown' = r.board.data_map
  /\ \E i \in 0..Len(r.db) : \E j \in i..Len(r.db) :
       /\ dbq' = dbq \o SubSeq(r.db, i + 1, j)
       /\ Losing(SubSeq(r.db, 1, i) \o SubSeq(r.db, j + 1, Len(r.db)))
  /\ Len(dbq') <= MaxQueue
  /\ UNCHANGED <<market_sell, phase, todo, now, boot, crashes>>

\* A request of a client, passed on by its game server.  One that is
\* refused leaves the board as it was.
Request(r) ==
  /\ phase = "open"
  /\ requests < MaxRequests /\ requests' = requests + 1
  /\ r.db # <<>>
  /\ Handle(r)
  /\ UNCHANGED social

\* The region a role's server shops in: market::get_social_sid.
get_social_sid(rid) ==
  LET sid == PRIMARY[SERVER_ID[rid]] IN IF sid \in social THEN 0 ELSE sid

CargoUp(rid, objid, val, percent) ==
  /\ board.global_id < MaxUps
  /\ Request(cargo_up(board, get_social_sid(rid), rid, objid, val, percent, now))

CargoDown(rid, id)            == Request(cargo_down(board, rid, id))
CargoChange(rid, id, percent) == Request(cargo_change(board, rid, id, percent))
Purchase(how, list)           == Request(purchase(board, how, list))

\* market_down_check, every minute on a game server.
DownTimeout(sid) ==
  /\ Handle(down_time_out(board, sid, now))
  /\ UNCHANGED <<social, requests>>

\* market_social_start fires once on the game server, at the time from which
\* get_social_sid answers 0.  Its message is lost when the game server is not
\* linked to an open social process.
SocialReset(sid) ==
  /\ sid \notin social /\ social' = social \cup {sid}
  /\ Handle(cargo_reset(board, sid))
  /\ UNCHANGED requests

SocialResetLost(sid) ==
  /\ sid \notin social /\ social' = social \cup {sid}
  /\ UNCHANGED <<board, market_sell, dbq, phase, todo, now, boot, past, crashes, requests>>

\* sharedb executes the oldest statement.
DbExecute ==
  /\ dbq # <<>>
  /\ market_sell' = execute(market_sell, Head(dbq))
  /\ dbq' = Tail(dbq)
  /\ UNCHANGED <<board, phase, todo, now, boot, social, past, crashes, requests>>

\* NET_SINGLE_CONNECT( sharedb ): the list is asked for once per process.
\* The rows are read when the statements of the last run are all executed.
RequestList ==
  /\ phase = "starting" /\ dbq = <<>>
  /\ phase' = "loading"
  /\ todo' = DOMAIN market_sell
  /\ boot' = now
  /\ UNCHANGED <<board, market_sell, dbq, now, social, past, crashes, requests>>

\* PRMarketList with rows, cut into packets.
LoadRows(ids) ==
  /\ phase = "loading" /\ ids # {}
  /\ todo' = todo \ ids
  /\ board' = init_data(board, market_sell, ids, now)
  /\ UNCHANGED <<market_sell, dbq, phase, now, boot, social, past, crashes, requests>>

\* The empty PRMarketList: link_outside_start.
LoadEnd ==
  /\ phase = "loading" /\ todo = {}
  /\ phase' = "open"
  /\ UNCHANGED <<board, market_sell, dbq, todo, now, boot, social, past, crashes, requests>>

\* The link to sharedb breaks while the list is on its way; it is linked
\* again, but initialized is set and the list is not asked for again.
LoadLost ==
  /\ phase = "loading"
  /\ phase' = "stuck"
  /\ todo' = {}
  /\ UNCHANGED <<board, market_sell, dbq, now, boot, social, past, crashes, requests>>

\* What sharedb has of the statements on their way when the link ends: the
\* rest of them is lost.
Cut(kept) ==
  /\ dbq' = SubSeq(dbq, 1, kept)
  /\ Losing(SubSeq(dbq, kept + 1, Len(dbq)))
  /\ UNCHANGED shown

\* The link to sharedb breaks; NetSingle links it again.
LinkLost(kept) ==
  /\ phase = "open" /\ kept < Len(dbq)
  /\ Cut(kept)
  /\ UNCHANGED <<board, market_sell, phase, todo, now, boot, social, crashes, requests>>

\* The process stops and is started again.
Crash(kept) ==
  /\ crashes < MaxCrash /\ crashes' = crashes + 1
  /\ phase' = "starting"
  /\ board' = EmptyBoard
  /\ Cut(kept)
  /\ todo' = {}
  /\ UNCHANGED <<market_sell, now, boot, social, requests>>

Tick ==
  /\ now < MaxTime
  /\ now' = now + 1
  /\ UNCHANGED <<board, market_sell, dbq, phase, todo, boot, social, past, crashes, requests>>

Primaries == {PRIMARY[s] : s \in Sids}

Next ==
  \/ \E rid \in Roles :
       \/ \E i \in Items, v \in 1..MaxVal, p \in Percents : CargoUp(rid, i, v, p)
       \/ \E id \in Ids :
            \/ CargoDown(rid, id)
            \/ \E p \in Percents : CargoChange(rid, id, p)
  \/ \E how \in Hows : \E list \in Asked(how, Ids, MaxVal, Percents) : Purchase(how, list)
  \/ \E sid \in Primaries : SocialReset(sid) \/ SocialResetLost(sid) \/ DownTimeout(sid)
  \/ DbExecute \/ RequestList \/ LoadEnd \/ LoadLost \/ Tick
  \/ \E ids \in SUBSET todo : LoadRows(ids)
  \/ \E kept \in 0..Len(dbq) : LinkLost(kept) \/ Crash(kept)

Spec == Init /\ [][Next]_vars

-----------------------------------------------------------------------------
(* Properties.                                                             *)

\* Every variable has its type: the maps of CMarket, the table, the
\* statements on their way and the phases of loading.
TypeOK ==
  /\ IsBoard(board)
  /\ IsCargoMap(market_sell)
  /\ dbq \in Seq(Statement)
  /\ phase \in {"starting", "loading", "stuck", "open"}
  /\ todo \subseteq DOMAIN market_sell
  /\ now \in Nat /\ boot \in Nat /\ crashes \in Nat /\ requests \in Nat
  /\ social \subseteq Sids
  /\ IsCargoMap(shown) /\ lost \subseteq Ids

Indexed(b) ==
  /\ \A r \in Roles :
       b.user_map[r] = {id \in DOMAIN b.data_map : b.data_map[id].role_id = r}
  /\ \A id \in DOMAIN b.data_map : \E r \in Regions :
       \A q \in Regions, i \in Items :
         id \in b.indices[q][i] <=> q = r /\ i = b.data_map[id].objid

\* A role's list names exactly what the role has on sale, and a cargo on sale
\* is in exactly one region's index, under its own item, whatever sequence of
\* sales, resets and restarts led there: a buyer and a seller never lose
\* sight of it, and no list offers it twice.  (A ghost is in a role's list at
\* no time, and a purchase of it is refused.)
OnSaleIndexed == Indexed(board)

\* What the table keeps of a cargo for the next run of the process: a set of
\* one element, or of none.
Row(t, id) == {[t[x] EXCEPT !.sid = 0] : x \in {id} \cap DOMAIN t}

\* A cargo whose statements were all written is in the table, once those on
\* their way are executed, as clients were last told, and the open board has
\* it so too: no handler forgets its modify_db_data, sends the wrong one or
\* sends it before another that undoes it, a restart brings back what its
\* predecessor showed, and a statement lost costs only the cargo it names,
\* never another.
TableFollowsBoard ==
  \A id \in Ids \ lost :
    /\ Row(Executed(market_sell, dbq), id) = Row(shown, id)
    /\ phase = "open" => Row(board.data_map, id) = Row(shown, id)

\* The bucket that takes a cargo down opens after its time, at most one Minute
\* after, and is its owner's server's.
Armed(b, id) ==
  LET c == b.data_map[id]
  IN \E t \in c.down_time + 1 .. c.down_time + Minute :
       <<t, id>> \in b.down_map[SERVER_ID[c.role_id]]

\* A cargo put up by this run of the process, or already out of time when
\* this run read its row, is armed until it is taken down: no sale, reset or
\* other cargo's timeout removes it from down_map.
TimeoutArmed ==
  phase = "open" => \A id \in DOMAIN board.data_map :
    LET t == board.data_map[id].down_time
    IN t > boot + Life \/ t < boot => Armed(board, id)

=============================================================================
