---------------------------- MODULE MarketTrade ----------------------------
(***************************************************************************)
(* Trading over links that break.  Players' coins and goods live in game   *)
(* servers (so_game/market_pro.cpp), the cargos and what they have earned  *)
(* in the social process (so_social/market_imp.cpp).  Between them runs a  *)
(* TCP link per game server that the game server opens again when it stops *)
(* hearing the answers to its pings (so_game/social_timer.cpp,             *)
(* common/remote.cpp); the social process finds a server's link in         *)
(* server_socket (so_social/social_imp.cpp, access_pro.cpp).               *)
(*                                                                         *)
(* A game server takes the coins of a purchase, or the goods put up,       *)
(* before it writes the request, and gives back or pays when it is         *)
(* answered.  What the social process writes to sharedb is in MarketBoard. *)
(* Roles are online or loaded (QU_ON, QU_OFF); one game process serves one *)
(* server; the board holds one item.                                       *)
(***************************************************************************)
EXTENDS MarketOps

CONSTANTS
  Percents,    \* price percentages the game server lets through
  Value,       \* market->value: the price of one good at 100 percent
  LateClose,   \* the end of a link may be noticed after its successor is bound
  GOODS,       \* [Roles -> Nat]: goods a role starts with
  COINS,       \* [Roles -> Nat]: coins a role starts with
  CAPACITY,    \* [Roles -> Nat]: goods a role's bag has room for
  MaxBreaks,   \* bound on broken links
  MaxEvents,   \* bound on broken links and requests of clients together
  MaxQueue     \* bound on messages under way to the social process, per server

ASSUME TradeAssumption ==
  /\ Percents \subseteq Nat /\ Value \in Nat
  /\ LateClose \in BOOLEAN
  /\ GOODS \in [Roles -> Nat] /\ COINS \in [Roles -> Nat] /\ CAPACITY \in [Roles -> Nat]
  /\ \A r \in Roles : GOODS[r] <= CAPACITY[r]
  /\ MapThenSumSet(LAMBDA r : GOODS[r], Roles) <= IdMax    \* bound: ids do not wrap
  /\ MaxBreaks \in Nat /\ MaxEvents \in Nat /\ MaxQueue \in Nat

VARIABLES
  \* the social process
  board,         \* CMarket without the maps below
  money,         \* cargo.money of each cargo on the board: earned, not acknowledged
  sell_map,      \* per server: cargos whose earnings are to be acknowledged
  server_socket, \* the link messages to a server are written to, or 0
  socket_server, \* the server that bound a link, or 0
  \* the links
  remote_sock,   \* per server: the link it writes to, or 0
  up,            \* per server: messages to the social process, each with its link
  down,          \* per server: messages to it
  closing,       \* links that ended and whose end the social process has not handled
  last_sock,     \* links opened so far
  \* the game servers
  coin,          \* user->data.coin.money
  bag,           \* goods a role can put up
  bought,        \* goods it bought (bound: never put up again)
  mailed,        \* goods mailed back to it
  paid,          \* coins mailed to it for its sales
  \* history and bounds
  sold,          \* the prices of a role's sales
  earned,        \* what it is to be mailed of them
  oversold,      \* purchases granted of more than a cargo held
  lossy,         \* a message has been lost
  requests, breaks

social == <<board, money, sell_map, server_socket, socket_server>>
links  == <<remote_sock, up, down, closing, last_sock>>
users  == <<coin, bag, bought, mailed, paid>>
sales  == <<sold, earned, oversold>>
vars   == <<social, links, users, sales, lossy, requests, breaks>>

Socks == 1 .. Cardinality(Sids) + MaxBreaks

Money(count, percent) == (Value * count * percent) \div 100
Net(value) == (value * 90) \div 100    \* what a seller is mailed of value
Price(e) == Money(e.n, e.seen)         \* of an entry of a purchase
Cost(list) == MapThenSumSet(LAMBDA i : Price(list[i]), DOMAIN list)
Count(list) == MapThenSumSet(LAMBDA i : list[i].n, DOMAIN list)

-----------------------------------------------------------------------------
(* Writing.                                                                *)

\* remote::write of a game server: dropped without a link.
Write(s, msg) ==
  IF remote_sock[s] = 0
    THEN lossy' = TRUE /\ UNCHANGED up
    ELSE /\ up' = [up EXCEPT ![s] = Append(@, [sock |-> remote_sock[s], msg |-> msg])]
         /\ UNCHANGED lossy

\* social::write: dropped unless the server's link is bound and stands.
Reaches(s) == server_socket[s] # 0 /\ server_socket[s] = remote_sock[s]

\* out: the messages of one handler, in order, each to the server of its role.
SocialWrite(out) ==
  LET to(s) == SelectSeq(out, LAMBDA msg : SERVER_ID[msg.role_id] = s)
  IN /\ down' = [s \in Sids |-> IF Reaches(s) THEN down[s] \o to(s) ELSE down[s]]
     /\ lossy' = (lossy \/ \E s \in Sids : ~Reaches(s) /\ to(s) # <<>>)

-----------------------------------------------------------------------------
(* The handlers of the social process.                                     *)

RefundMsg(rid, value)     == [kind |-> "bought", role_id |-> rid, ok |-> FALSE, value |-> value, count |-> 0]
BoughtMsg(rid, value, n)  == [kind |-> "bought", role_id |-> rid, ok |-> TRUE, value |-> value, count |-> n]
SoldMsg(rid, id, value)   == [kind |-> "sold", role_id |-> rid, id |-> id, value |-> value]
ReturnMsg(rid, count)     == [kind |-> "returned", role_id |-> rid, count |-> count]

\* The board becomes b; cargos that left it take their money along.
Become(b, credit) ==
  /\ board' = b
  /\ money' = [id \in DOMAIN b.data_map |->
       (IF id \in DOMAIN money THEN money[id] ELSE 0) +
       (IF id \in DOMAIN credit THEN credit[id] ELSE 0)]

NoCredit == [id \in {} |-> 0]
Returned(ids) ==
  LET list == SetToSeq(ids)
  IN [i \in DOMAIN list |-> LET c == board.data_map[list[i]] IN ReturnMsg(c.role_id, c.val)]

cargo_up_pro(m) ==
  /\ \E objid \in Items :
       Become(cargo_up(board, 0, m.role_id, objid, m.val, m.percent, 0).board, NoCredit)
  /\ SocialWrite(<<>>)
  /\ UNCHANGED <<sell_map, sales>>

cargo_down_pro(m) ==
  /\ Become(cargo_down(board, m.role_id, m.id).board, NoCredit)
  /\ SocialWrite(Returned({m.id} \cap (DOMAIN board.data_map \ DOMAIN board'.data_map)))
  /\ UNCHANGED <<sell_map, sales>>

cargo_change_pro(m) ==
  /\ Become(cargo_change(board, m.role_id, m.id, m.percent).board, NoCredit)
  /\ SocialWrite(<<>>)
  /\ UNCHANGED <<sell_map, sales>>

\* The timeouts of a server's cargos: at a time when all of them are due.
down_timeout_pro(s) ==
  /\ Become(down_time_out(board, s, TIMETOMIN(Life)).board, NoCredit)
  /\ SocialWrite(Returned(DOMAIN board.data_map \ DOMAIN board'.data_map))
  /\ UNCHANGED <<sell_map, sales>>

\* cargo_buy, cargo_buy_all and batch_buy differ in what they keep of the
\* sale: cargo_buy its price and a place in sell_map, cargo_buy_all the price
\* only, batch_buy neither.  The buyer is answered once, with all the goods it
\* asked for or all the coins.
buy_pro(m) ==
  LET r        == purchase(board, m.how, m.list)
      owner(e) == board.data_map[e.id].role_id
      of(id)   == SelectSeq(r.sold, LAMBDA e : e.id = id)
      by(x)    == SelectSeq(r.sold, LAMBDA e : owner(e) = x)
      asked    == [id \in {m.list[i].id : i \in DOMAIN m.list} |->
                     Count(SelectSeq(m.list, LAMBDA e : e.id = id))]
  IN /\ Become(r.board, IF m.how = "batch_buy" THEN NoCredit
                        ELSE [id \in DOMAIN asked |-> Cost(of(id))])
     /\ SocialWrite([i \in DOMAIN r.sold |->
                       SoldMsg(owner(r.sold[i]), r.sold[i].id, Price(r.sold[i]))]
          \o <<IF r.refused THEN RefundMsg(m.role_id, m.value)
               ELSE BoughtMsg(m.role_id, m.value, Count(m.list))>>)
     /\ sell_map' = IF m.how = "buy" /\ ~r.refused
          THEN [sell_map EXCEPT ![SERVER_ID[owner(m.list[1])]] = Append(@, m.list[1].id)]
          ELSE sell_map
     /\ sold' = [x \in Roles |-> sold[x] + Cost(by(x))]
     /\ earned' = [x \in Roles |-> earned[x] +
          MapThenSumSet(LAMBDA i : Net(Price(by(x)[i])), DOMAIN by(x))]
     /\ oversold' = IF Buyable(board, m.list)
                       /\ \E id \in DOMAIN asked : asked[id] > board.data_map[id].val
                    THEN oversold + 1 ELSE oversold

\* The seller's server has mailed a payment.  A ghost is found too.
sell_money(m) ==
  /\ money' = [id \in DOMAIN money |-> IF id = m.id THEN 0 ELSE money[id]]
  /\ sell_map' = IF Live(board, m.id) \/ m.id \in board.ghosts
                   THEN [sell_map EXCEPT ![SERVER_ID[m.role_id]] = RemoveFirst(@, m.id)]
                   ELSE sell_map
  /\ SocialWrite(<<>>)
  /\ UNCHANGED <<board, sales>>

\* Mutant: the list is cleared before it is read.
sell_time_out_cleared(s) ==
  /\ sell_map' = [sell_map EXCEPT ![s] = <<>>]
  /\ SocialWrite(<<>>)
  /\ UNCHANGED <<board, money, sales>>

\* Mutant: what is sent again is not written off.
sell_time_out_kept(s) ==
  LET due == SetToSeq({id \in ToSet(sell_map[s]) : Live(board, id) /\ money[id] # 0})
  IN /\ SocialWrite([i \in DOMAIN due |->
          SoldMsg(board.data_map[due[i]].role_id, due[i], money[due[i]])])
     /\ UNCHANGED <<board, money, sell_map, sales>>

\* A server is linked again: what its sellers have not acknowledged is sent
\* once more.
sell_time_out(s) ==
  LET due == SetToSeq({id \in ToSet(sell_map[s]) : Live(board, id) /\ money[id] # 0})
  IN /\ SocialWrite([i \in DOMAIN due |->
          SoldMsg(board.data_map[due[i]].role_id, due[i], money[due[i]])])
     /\ money' = [id \in DOMAIN money |-> IF id \in ToSet(due) THEN 0 ELSE money[id]]
     /\ sell_map' = [sell_map EXCEPT ![s] = <<>>]
     /\ UNCHANGED <<board, sales>>

bind(sock, s) ==
  /\ server_socket' = [server_socket EXCEPT ![s] = sock]
  /\ socket_server' = [socket_server EXCEPT ![sock] = s]

\* One message of server s.
SocialHandle(s) ==
  /\ up[s] # <<>>
  /\ LateClose \/ \A c \in closing : c.sid = s => c.sock >= Head(up[s]).sock
  /\ up' = [up EXCEPT ![s] = Tail(@)]
  /\ LET m == Head(up[s]).msg
     IN IF m.kind = "bind"
          THEN /\ bind(Head(up[s]).sock, s)
               /\ UNCHANGED <<board, money, sell_map, sales, down, lossy>>
          ELSE /\ CASE m.kind = "cargo_up"     -> cargo_up_pro(m)
                    [] m.kind = "cargo_down"   -> cargo_down_pro(m)
                    [] m.kind = "cargo_change" -> cargo_change_pro(m)
                    [] m.kind = "buy"          -> buy_pro(m)
                    [] m.kind = "sell"         -> sell_money(m)
                    [] m.kind = "down_timeout" -> down_timeout_pro(s)
                    [] m.kind = "sell_timeout" -> sell_time_out(s)
               /\ UNCHANGED <<server_socket, socket_server>>
  /\ UNCHANGED <<remote_sock, closing, last_sock, users, requests, breaks>>

\* PQAccessEvent, kErrAccessSockClose: after every message of the link.
SocialClose(c) ==
  /\ c \in closing /\ closing' = closing \ {c}
  /\ \A i \in DOMAIN up[c.sid] : up[c.sid][i].sock # c.sock
  /\ LET s == socket_server[c.sock]
     IN IF s = 0 THEN UNCHANGED <<server_socket, socket_server>>
        ELSE /\ server_socket' = [server_socket EXCEPT ![s] = 0]
             /\ socket_server' = [socket_server EXCEPT ![c.sock] = 0]
  /\ UNCHANGED <<board, money, sell_map, sales, down, lossy, up, remote_sock, last_sock,
                 users, requests, breaks>>

-----------------------------------------------------------------------------
(* The game servers.                                                       *)

Request(rid) ==
  /\ requests + breaks < MaxEvents /\ requests' = requests + 1
  /\ Len(up[SERVER_ID[rid]]) < MaxQueue
  /\ UNCHANGED <<social, remote_sock, down, closing, last_sock, bought, mailed, paid, sales, breaks>>

CargoUp(rid, val, percent) ==
  /\ Request(rid)
  /\ val <= bag[rid]
  /\ bag' = [bag EXCEPT ![rid] = @ - val]
  /\ Write(SERVER_ID[rid], [kind |-> "cargo_up", role_id |-> rid, val |-> val, percent |-> percent])
  /\ UNCHANGED coin

CargoDown(rid, id) ==
  /\ Request(rid)
  /\ Write(SERVER_ID[rid], [kind |-> "cargo_down", role_id |-> rid, id |-> id])
  /\ UNCHANGED <<coin, bag>>

CargoChange(rid, id, percent) ==
  /\ Request(rid)
  /\ Write(SERVER_ID[rid],
           [kind |-> "cargo_change", role_id |-> rid, id |-> id, percent |-> percent])
  /\ UNCHANGED <<coin, bag>>

\* PQMarketBuy, PQMarketBuyAll, PQMarketBatchBuy: the price the client saw is
\* taken before the request is written.
Buy(rid, how, list) ==
  /\ Request(rid)
  /\ how # "batch_buy" => \A i \in DOMAIN list : Price(list[i]) > 0
  /\ Cost(list) <= coin[rid]
  /\ coin' = [coin EXCEPT ![rid] = @ - Cost(list)]
  /\ Write(SERVER_ID[rid],
           [kind |-> "buy", how |-> how, role_id |-> rid, list |-> list, value |-> Cost(list)])
  /\ UNCHANGED bag

\* market_down_check; the message of a server that has no cargo on the board
\* changes nothing.
DownCheck(s) ==
  /\ Len(up[s]) < MaxQueue
  /\ \E id \in DOMAIN board.data_map : SERVER_ID[board.data_map[id].role_id] = s
  /\ remote_sock[s] # 0
  /\ Write(s, [kind |-> "down_timeout"])
  /\ UNCHANGED <<social, remote_sock, down, closing, last_sock, users, sales, requests, breaks>>

\* coin::give: what finds no room in the bag is cut off.
Room(rid, n) == IF bag[rid] + bought[rid] + n <= CAPACITY[rid] THEN n
                ELSE CAPACITY[rid] - (bag[rid] + bought[rid])

\* Mutant: the refund is kept although the purchase succeeded.
PRMarketBuy_kept(m) ==
  /\ coin' = [coin EXCEPT ![m.role_id] = @ + m.value]
  /\ bought' = [bought EXCEPT ![m.role_id] = @ + Room(m.role_id, m.count)]
  /\ UNCHANGED <<bag, mailed, paid, up, lossy>>

PRMarketBuy(m) ==
  /\ coin' = [coin EXCEPT ![m.role_id] = IF m.ok THEN (@ + m.value) - m.value ELSE @ + m.value]
  /\ bought' = [bought EXCEPT ![m.role_id] = @ + Room(m.role_id, m.count)]
  /\ UNCHANGED <<bag, mailed, paid, up, lossy>>

PRMarketSell(s, m) ==
  /\ paid' = [paid EXCEPT ![m.role_id] = @ + Net(m.value)]
  /\ Write(s, [kind |-> "sell", role_id |-> m.role_id, id |-> m.id])
  /\ UNCHANGED <<coin, bag, bought, mailed>>

PRMarketCargoDown(m) ==
  /\ mailed' = [mailed EXCEPT ![m.role_id] = @ + m.count]
  /\ UNCHANGED <<coin, bag, bought, paid, up, lossy>>

GameHandle(s) ==
  /\ down[s] # <<>>
  /\ down' = [down EXCEPT ![s] = Tail(@)]
  /\ LET m == Head(down[s])
     IN CASE m.kind = "bought"   -> PRMarketBuy(m)
          [] m.kind = "sold"     -> PRMarketSell(s, m)
          [] m.kind = "returned" -> PRMarketCargoDown(m)
  /\ UNCHANGED <<social, remote_sock, closing, last_sock, sales, requests, breaks>>

\* Mutant: the new link is not bound.
Connect_unbound(s) ==
  /\ remote_sock[s] = 0
  /\ last_sock' = last_sock + 1 /\ last_sock' \in Socks
  /\ remote_sock' = [remote_sock EXCEPT ![s] = last_sock']
  /\ up' = [up EXCEPT ![s] = @ \o <<[sock |-> last_sock', msg |-> [kind |-> "sell_timeout"]]>>]
  /\ UNCHANGED <<social, down, closing, users, sales, lossy, requests, breaks>>

\* OnSocialConnected: the link is bound, then SEventLinkSocial asks for what
\* the server's sellers have not acknowledged.
Connect(s) ==
  /\ remote_sock[s] = 0
  /\ last_sock' = last_sock + 1 /\ last_sock' \in Socks
  /\ remote_sock' = [remote_sock EXCEPT ![s] = last_sock']
  /\ up' = [up EXCEPT ![s] = @ \o <<[sock |-> last_sock', msg |-> [kind |-> "bind"]],
                                    [sock |-> last_sock', msg |-> [kind |-> "sell_timeout"]]>>]
  /\ UNCHANGED <<social, down, closing, users, sales, lossy, requests, breaks>>

\* A link ends: what the social process has not received of its messages,
\* and what the game server has not received of the others, is lost.
Break(s, arrived, received) ==
  /\ remote_sock[s] # 0
  /\ breaks < MaxBreaks /\ requests + breaks < MaxEvents /\ breaks' = breaks + 1
  /\ \A i \in DOMAIN up[s] : i > arrived => up[s][i].sock = remote_sock[s]
  /\ up' = [up EXCEPT ![s] = SubSeq(@, 1, arrived)]
  /\ down' = [down EXCEPT ![s] = SubSeq(@, 1, received)]
  /\ lossy' = (lossy \/ arrived < Len(up[s]) \/ received < Len(down[s]))
  /\ closing' = closing \cup {[sid |-> s, sock |-> remote_sock[s]]}
  /\ remote_sock' = [remote_sock EXCEPT ![s] = 0]
  /\ UNCHANGED <<social, last_sock, users, sales, requests>>

-----------------------------------------------------------------------------
Init ==
  /\ board = EmptyBoard /\ money = NoCredit
  /\ sell_map = [s \in Sids |-> <<>>]
  /\ server_socket = [s \in Sids |-> 0] /\ socket_server = [k \in Socks |-> 0]
  /\ remote_sock = [s \in Sids |-> 0]
  /\ up = [s \in Sids |-> <<>>] /\ down = [s \in Sids |-> <<>>]
  /\ closing = {} /\ last_sock = 0
  /\ coin = COINS /\ bag = GOODS
  /\ bought = [r \in Roles |-> 0] /\ mailed = [r \in Roles |-> 0] /\ paid = [r \in Roles |-> 0]
  /\ sold = [r \in Roles |-> 0] /\ earned = [r \in Roles |-> 0]
  /\ oversold = 0 /\ lossy = FALSE
  /\ requests = 0 /\ breaks = 0

\* What a client may ask for: cargos it can have seen, up to what any holds.
Seen == 1..board.global_id
MaxVal == Max({GOODS[r] : r \in Roles} \cup {0})

Next ==
  \/ \E rid \in Roles :
       \/ \E val \in 1..MaxVal, p \in Percents : CargoUp(rid, val, p)
       \/ \E id \in Seen : CargoDown(rid, id) \/ \E p \in Percents : CargoChange(rid, id, p)
       \/ \E how \in Hows : \E list \in Asked(how, Seen, MaxVal, Percents) : Buy(rid, how, list)
  \/ \E s \in Sids :
       \/ DownCheck(s) \/ SocialHandle(s) \/ GameHandle(s) \/ Connect(s)
       \/ \E i \in 0..Len(up[s]), j \in 0..Len(down[s]) : Break(s, i, j)
  \/ \E c \in closing : SocialClose(c)

Spec == Init /\ [][Next]_vars

Fairness ==
  /\ \A s \in Sids : WF_vars(SocialHandle(s)) /\ WF_vars(GameHandle(s)) /\ WF_vars(Connect(s))
  /\ WF_vars(\E c \in closing : SocialClose(c))

LiveSpec == Spec /\ Fairness

-----------------------------------------------------------------------------
(* Properties.                                                             *)

RoleMsg == [kind : {"cargo_up"}, role_id : Roles, val : Nat, percent : Percents]
  \cup [kind : {"cargo_down", "sell"}, role_id : Roles, id : Ids]
  \cup [kind : {"cargo_change"}, role_id : Roles, id : Ids, percent : Percents]
ServerMsg == [kind : {"bind", "sell_timeout", "down_timeout"}]
IsBuy(m) ==
  /\ m.kind = "buy" /\ m.how \in Hows /\ m.role_id \in Roles /\ m.value \in Nat
  /\ m.list \in Seq([id : Ids, n : Nat \ {0}, seen : Percents])
Reply == [kind : {"bought"}, role_id : Roles, ok : BOOLEAN, value : Nat, count : Nat]
  \cup [kind : {"sold"}, role_id : Roles, id : Ids, value : Nat]
  \cup [kind : {"returned"}, role_id : Roles, count : Nat]

\* Every variable has its type, and each cargo on the board its money.
TypeOK ==
  /\ IsBoard(board) /\ money \in [DOMAIN board.data_map -> Nat]
  /\ sell_map \in [Sids -> Seq(Ids)]
  /\ server_socket \in [Sids -> Socks \cup {0}] /\ remote_sock \in [Sids -> Socks \cup {0}]
  /\ socket_server \in [Socks -> Sids \cup {0}]
  /\ \A s \in Sids : \A i \in DOMAIN up[s] :
       /\ up[s][i].sock \in Socks
       /\ \/ up[s][i].msg \in RoleMsg
          \/ up[s][i].msg \in ServerMsg
          \/ IsBuy(up[s][i].msg)
  /\ down \in [Sids -> Seq(Reply)]
  /\ closing \subseteq [sid : Sids, sock : Socks] /\ last_sock \in Nat
  /\ coin \in [Roles -> Nat] /\ bag \in [Roles -> Nat] /\ bought \in [Roles -> Nat]
  /\ mailed \in [Roles -> Nat] /\ paid \in [Roles -> Nat]
  /\ sold \in [Roles -> Nat] /\ earned \in [Roles -> Nat] /\ oversold \in Nat
  /\ lossy \in BOOLEAN /\ requests \in Nat /\ breaks \in Nat

\* The sum of what Val gives for the messages to or from r.
UpSum(r, Val(_)) ==
  LET msgs == up[SERVER_ID[r]]
      own  == {i \in DOMAIN msgs : "role_id" \in DOMAIN msgs[i].msg /\ msgs[i].msg.role_id = r}
  IN MapThenSumSet(LAMBDA i : Val(msgs[i].msg), own)
DownSum(r, Val(_)) ==
  LET msgs == down[SERVER_ID[r]]
  IN MapThenSumSet(LAMBDA i : Val(msgs[i]), {i \in DOMAIN msgs : msgs[i].role_id = r})

\* What is on its way to r.
Goods(m)   == CASE m.kind = "bought" -> m.count [] m.kind = "returned" -> m.count [] OTHER -> 0
Refund(m)  == IF m.kind = "bought" /\ ~m.ok THEN m.value ELSE 0
Payment(m) == IF m.kind = "sold" THEN Net(m.value) ELSE 0

\* Players see an exchange: what the servers, links and queues hold for them
\* together only ever moves as MarketExchange allows.  Coins taken for a
\* purchase and goods put up are neither given back nor paid out twice.
\* Without a lost message none disappears but what a full bag cannot take,
\* and goods are made only by a purchase that names a cargo more often than
\* it holds goods; that one, too, costs at most its price.
Exchange == INSTANCE MarketExchange WITH
  held  <- [r \in Roles |-> bag[r] + bought[r] + mailed[r] + DownSum(r, Goods)],
  shelf <- [x \in Roles \X Percents |->
    MapThenSumSet(LAMBDA id : board.data_map[id].val,
      {id \in DOMAIN board.data_map :
         board.data_map[id].role_id = x[1] /\ board.data_map[id].percent = x[2]})
    + UpSum(x[1], LAMBDA m : IF m.kind = "cargo_up" /\ m.percent = x[2] THEN m.val ELSE 0)],
  coins <- [r \in Roles |-> coin[r] + DownSum(r, Refund)
                 + UpSum(r, LAMBDA m : IF m.kind = "buy" THEN m.value ELSE 0)],
  full  <- {r \in Roles : bag[r] + bought[r] >= CAPACITY[r]}

ImplementsExchange == Exchange!Spec

\* A seller is paid, or is about to be, for every sale, unless a message was
\* lost: an acknowledgement that crosses a later sale of the cargo, or a break,
\* writes off nothing that was not sent.  The code does pay a sale twice, when
\* the link breaks before the acknowledgement, but never three times,
\* whatever breaks follow; and until a link breaks exactly once.
SellersPaid ==
  /\ TypeOK
  /\ \A r \in Roles :
       LET got == paid[r] + DownSum(r, Payment)
       IN /\ ~lossy => got >= earned[r]
          /\ breaks = 0 => got <= earned[r]
          /\ 10 * got <= 2 * 9 * sold[r]

\* After the last break every server is linked and bound for good.
Relinked == <>[](\A s \in Sids : Reaches(s))

\* Whatever cargos on the board have earned is acknowledged, or sent again and
\* written off, or leaves with its cargo, until nothing is owed: no sale of
\* cargo_buy stays open.
Owed == \E id \in DOMAIN board.data_map : money[id] > 0

SalesSettled == Owed ~> ~Owed
=============================================================================
