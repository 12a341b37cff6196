# Formal models of the phone-code server

TLA+ models of the server side of *immortal / war* (`src/server/src`), a mobile
card game run by a handful of C++ processes, and of the parts of its Lua client
that take part in the protocols. Each model is translated from the code; the
file `PROJECT.json` names, for every definition, the lines it stands for.

## 1. The system

### Processes

| process | code | role |
|---|---|---|
| access | `access/`, `so_access/` | gateway: one TCP connection per client, numbers and keeps packets, forwards to the game server, broadcasts |
| auth | `authsvr/`, `so_auth/` | login through the web back end, scheduled commands |
| game | `gamesvr/`, `so_game/` | a region's game logic; users and guilds in memory, thread CDB reads and writes MySQL |
| realdb | `realdbsvr/`, `so_realdb/` | queries of a region that do not go through CDB (guilds, mail, payments, ranks) |
| social | `socialsvr/`, `so_social/` | shared by several regions: the auction board |
| sharedb | `sharedbsvr/`, `so_sharedb/` | the database of social |
| fight | `fightsvr/`, `so_fight/` | calculates battles in Lua |
| proxy, robot | `proxysvr/`, `robotsvr/` | byte relay, load generator |

Every process has the same skeleton (`common/`): an epoll thread (CNetIO), a
thread that cuts and builds packets (CPack) and one logic thread (CMsg) that
swaps out its whole queue and runs the handlers one after the other. Timers
(`systimemgr.cpp`) run on the logic thread too, between batches and when it is
idle. A message between processes is a `write` on a long-lived link; when there
is no link the message is dropped (`remote.cpp:93`). Most of the code is in
shared libraries that can be exchanged while the process runs
(`dynamicmgr.cpp`); data in a `TDC` survives that, other data does not.

### Components, their state, and what makes them correct

- **Auction board** (social; `so_social/market_imp.cpp`, `market_dc.cpp`).
  State: `CMarket` (cargos by id, lists by owner, by region and item, buckets of
  timeouts by minute and server, the sales not yet confirmed). Operations: put up,
  take down, change, four ways to buy, cross-server reset of a region, timeouts,
  reload after a restart. Calls sharedb by message and is never told the result.
  *Hard*: five maps kept in step by hand; the write-behind copy; restarts.
  *Correct when* the maps agree, the table follows the board, and a cargo whose
  time has come is taken down.
- **Auction client** (game; `so_game/market_*.cpp`, `social_timer.cpp`,
  `so_social/access_pro.cpp`, `common/remote.cpp`). State: coins and items of roles,
  the link to social. *Hard*: escrow taken before the message is sent, answers that
  are not kept, payments repeated until confirmed, links that break and bind anew.
  *Correct when* nothing is created or destroyed and sellers are paid what they
  earned, once.
- **Timers** (`common/systimemgr.*`). State: `LoopById`, `LoopKeyList`, the ordered
  `LoopList`, a wheel for calls less than a period away. Callbacks add, remove and
  replace timers while Process walks over them. *Correct when* no timer is used
  after it is freed, run twice, early, too often, or forgotten.
- **Sessions and packet order** (access; `access/user.cpp`, `so_access/`, Lua
  `game/interface/system.lua`). State: per role the session, two counters, early
  packets and the last answers. *Hard*: a role's packets over old and new
  connections, resending, logins that reset both directions. *Correct when*
  requests and answers are processed once and in order.
- **Users in memory** (game; `user_dc.cpp`, `raw.cpp`, `raw.h`, `gamesvr/db.cpp`).
  State: the loaded users, the requests put off for those that are not, the lists
  of loads and saves shared with CDB. *Hard*: two threads, loads overtaking saves,
  removal during a load, transactions that fail half way. *Correct when* what
  happened to a user is saved or still known to be unsaved, and a user never comes
  back older.
- **Message loop** (`common/msg.cpp`, `pack.cpp`, `local.cpp`, `netio.cpp`): the
  scheduling of the above; its order of posting, pushing and swapping is in
  UserDC and AccessSession.
- **Links inside a site** (`netsingle.cpp` over `netio.cpp`). State: per peer a socket to read
  and one to write, a timer, the callback of each connection; the hosts file with everyone's
  port. *Hard*: both ends connect to each other at once, processes die in the middle of a
  handshake and come back on another's port, and `loot_read` keeps calling the callback it
  began with. *Correct when* processes that stay up are linked both ways in the end, each to
  the right one.
- **Hot reload** (`dynamicmgr.cpp`, `dataproxy.cpp`, `dc.h`).
- **Broadcast channels** (`access/cache.cpp`, `broadcast_*.cpp`): membership of
  channels, batched sending. *Correct when* a role that left hears nothing more.
- **Cooling of connections** (`access/cool.cpp`): delayed close of bad connections.
- **Guilds** (`so_game/guild_*.cpp`, realdb): creation through realdb, jobs,
  applications. *Correct when* there is one master and a member belongs to one guild.
- **Payments** (game; `pay_*.cpp`, realdb's `pay_pro.cpp`, auth's `sys_pay`). State: the rows of `pay`
  in the database, the role's `pay_list`, `pay_info` and coins. *Hard*: three processes and CDB read and write
  the same rows; a list read by realdb is older than what the game server knows. *Correct when* a
  role has what its payments are worth, no more and no less.
- **Mail** (game; `mail_*.cpp`, realdb's `mail_pro.cpp`). State: realdb's rows for everyone, the
  last id the game server knows of, and per role its box and `mail_auto_id`, the last of those
  rows it has. *Hard*: notices and lists cross, are lost, and reach a role that has been
  removed and loaded again; ids of mails to a role are used again. *Correct when* a mail comes
  once, stays until its player deletes it and pays its attachment once.
- **Items and coins** (game; `item_imp.cpp`, `coin_imp.cpp`, `equip_imp.cpp`). State: the bags of a
  role, pieces with a guid, a place, a count. *Hard*: pieces that move between bags, are split
  and joined while requests name them by guid. *Correct when* places and limits are kept, goods and
  coins balance, and a take or a gift moves what it promises.
- **Fights** (`fight_*.cpp`, `so_fight/`): lock-step of the clients, battle in Lua.
- **Arena** (game; `singlearena_*.cpp`, `fight_pro.cpp`, realdb's `singlearena_imp.cpp`). State: places by rank and by
  player, per player the four opponents it is offered and what it is shown of itself, the number of players, the fights
  the process fight is computing, the rows in realdb. *Hard*: results come back when the places have changed; ranks
  are rows written by message, best ranks a part of the user that CDB saves; a new link loads the rows over the memory of a
  running game. *Correct when* a player has one place and a place one owner, places change by a win over an opponent that was offered,
  a reward is paid once and the rows follow.
- **Ranks, friends**; **single-player systems** (soldiers, copies,
  shops, tasks, totems, tombs, buildings): handlers over one user and tables of rules.
- **auth**, **realdb/sharedb** handlers (one message, one query), **client** views.

`PROJECT.json` lists all of them with their status, and under `hazards` the places
in the code where these things can go wrong.

## 2. The modules

| module | models | composed of |
|---|---|---|
| `MarketOps` | the handlers of `market_imp.cpp` as operators from a board to a board and the statements for sharedb | |
| `MarketBoard` | social, sharedb's table, the statements under way, restarts, the clock | `MarketOps` |
| `MarketBoardProofs` | theorems about `MarketBoard` | `MarketBoard`, TLAPS |
| `MarketExchange` | abstract: what an auction promises its players | |
| `MarketTrade` | game servers, links that break and bind, social's board, escrow and payments; implements `MarketExchange` | `MarketOps`, `MarketExchange` |
| `SysTimer` | CSysTimeMgr and the callbacks | |
| `SysTimerProofs` | theorems about `SysTimer` | `SysTimer`, TLAPS |
| `AccessSession` | a client, the connections, the gateway's user, the game server | |
| `AccessSessionProofs` | theorems about `AccessSession` | `AccessSession`, TLAPS |
| `Selection` | elements taken out of a sequence in their order, numbers of a set in ascending order | |
| `UserDC` | the logic thread's users, CDB, the tables with their open transaction | `Selection` |
| `UserDCProofs` | theorems about `UserDC` | `UserDC`, TLAPS |
| `Pay` | the table of payments, realdb's query, the role in memory, its loads and saves | |
| `PayProofs` | theorems about `Pay` | `Pay`, TLAPS |
| `NetSingle` | the processes of a site, their sockets, timers and ports, and the connections between them | |
| `NetSingleProofs` | theorems about `NetSingle` | `NetSingle`, TLAPS |
| `Bag` | the bags of a role: common, redeemable, worn by the soldiers | |
| `Mail` | realdb's rows, the link to it, the game server and one role | |
| `MailProofs` | theorems about `Mail` | `Mail`, TLAPS |
| `Arena` | the arena's memory in the game server, its fights, the link to realdb and its tables, the saved best ranks | |
| `ArenaProofs` | theorems about `Arena` | `Arena`, TLAPS |
| `MC...` | constants for TLC | |

State and actions keep the names of the code: `board.data_map`, `user_map`,
`indices`, `down_map` are CMarket's maps; `LoopList`, `CallVec`, `LoopById` those of
CSysTimeMgr; `save_list`, `load_list`, `copy_list` those of CDB. An action is one
message handler, one timer or one round of a thread, with every call that changes
state. Definitions ending in a word after an underscore that are not used by any
action (`merge_indices_kept`, `Held_never`, ...) are plausible mistakes; replacing
the original by them makes a run fail, and shows that the property looks at that
line.

### What is abstracted

*Market.* Lists are sets, for their order is presentation. One item fills one slot.
A purchase is a list of entries and may name a cargo again: each entry is held against the stock before the sale, as in the
code, then sold in its order, and `cargo.coin.val` wraps at `Word`. Once a cargo is empty `cargo_buy_all` refuses the rest, and `batch_buy` makes an
entry of `data_map` out of nothing (`ghosts`). The comparison of the offered price with
the price on the board becomes a comparison of percentages, of which the price is a
function. The statements of a timeout are sent in some fixed order; they name
different rows. Statements get lost: the link to sharedb may come up or break while a handler runs, so that what lies between is written
(`Handle`), and what is on its way when the link ends or the process stops may be cut off (`LinkLost`, `Crash`).
A `cargo_reset` that is lost leaves the region of some rows as it was, which no property is about. The wrap of `alloc_id` is excluded (`MaxUps <= IdMax`); so are the
paths for a missing market and supplies of the system (`cargo_id` 0). `MarketBoard`
reads the table only when the statements of the run before have been executed.
In `MarketTrade` roles stay loaded, every game server is one process that serves one
id, there is no clock (a timeout message takes down what is due, at any moment), descriptors are not
reused, and bought goods are bound (`kCoinFlagBind`) and never put up again. A bag has room for `CAPACITY` goods and what finds none
is dropped (`coin::give`); how stacks fill is in `Bag`. Coins have no upper limit.

*Timers.* A second stands for the period (minutes to weeks have the same shape;
the calendar of months and years is left out), made of `Second` ticks so that several
calls of Process fall into one period. `LoopId` does not wrap. `SetEndTime` has no
caller. `AddOLDCall` is the list branch of `AddCall`.

*Sessions.* One role. Connections have fresh numbers. The native engine under the
Lua client is not in the repository, so the client may or may not resend what the
gateway asks for. Ends of connections may overtake packets, as they do between the threads.
Broadcasts are left out, and so is the closing of cooled connections.

*Users.* A user's data is the set of changes made to it, each in one part (a module
of SUserData); parts are in the order of `raw_map`. `team_level` is the number of
changes of the part `simple`. Requests arrive at any moment. Requests that have
waited 60 seconds are dropped, the oldest first, at any moment. `save_once` visits at
least five users a call, so all that are due are saved. A handler that receives a
signal is left before or after its changes. The tables are transactional, `start
transaction` commits what is open, and a lost connection rolls back; the tables are InnoDB
(`src/sql/immortal/immortal.tb`). Users are never released, as in the code, where the
call is commented out.

*Payments.* One role that exists. Gold is counted by its path (`kPathPay`, `kPathPayPresent`) and
rewards by their number, so that a credit can be told from a reward; the VIP experience, which grows
with the gold, and the upper limit of a coin are left out, as are the activities that count
payments. The web back end is outside the repository: it writes rows and calls `sys_pay` at any
moment. A save is one transaction, and no role is removed while a load of it is on its
way, for `UserDC` shows what those two do: after half a save, whose `coin` is in the tables and
whose `pay_list` is not, a payment is credited again. The copy of a role in a file is in `UserDC` too.

*Links.* A process is its sockets for its peers, its port and its timers; the data written once
a link is bound is left out, and so is `stop`. Connections have fresh numbers, taken again when
both ends are gone. The end of a connection may be handled at any moment once the other end is closed. A
connection to a port nobody listens on fails at once; the code tries again when idle, for five seconds,
which is the same as a later attempt. `loot_read` is cut at every `recv`.

*Bags.* Two kinds of goods: one that soldiers wear, without a limit to a stack, and one that
stacks and is opened. No item of the tables binds or expires by itself, so the flag of a piece is what
it was given with. `MoveItem` is modelled for a free place, for its callers name no other. Left out: the bag of
equipment, the other variants of `AddItem` (no caller), money other than one coin, recipes that cost
money. A sale is of one entry and names any of the three bags, for `PQItemSell` passes the client's `bag_type` on. `std::sort`
may leave equal pieces in any order. The sale of a part within the redeem bag writes to a piece through an iterator that `push_back`
may have made invalid (`item_imp.cpp:1050`): the write reaches the piece or is lost; what else it may hit is not modelled.

*Mail.* One role, every mail has one attachment and there is room for it (`Bag` has the room; a mail that
finds none stays as it is). The flag of a mail that was read and texts are left out; `PQMailWrite` to
all online is a `Send` for each. A load and a save of the role are one step (`UserDC` has what happens in between).
The limit of ids for mails to everyone, a million, is the number of rows of the instance.

*Arena.* Whether a player has rested and has fights left (`CheckCD`, `CheckTimes`) is open at each fight's beginning and end. Of
a list of logs it matters only whether there is one. A load is asked for and read at once, and comes as three answers (the batches of 512
rows are one). Users stay in memory until a crash; a save of a user copies its best rank. Copies of formations, names and values that
rows carry are left out, so are the ranking list of `rank_imp.cpp` and the daily mails, which go by place. `spoilt` records
which of six things has happened: a message to realdb was lost ("lost"), answers of an earlier link are or may be counted ("late"), a load put older
data over newer, or into an empty memory although newer were written or are on their way ("overwritten"), a fake got the number of another ("reused"), a crash took back a best rank that was not saved ("rolled"), an
info was used without its base ("skipped").

## 3. The runs

| run | shows |
|---|---|
| `market_board` | `TypeOK`, `OnSaleIndexed`, `TimeoutArmed`, `TableFollowsBoard` |
| `market_trade` | that the whole implements `MarketExchange` (`ImplementsExchange`) |
| `market_trade_live` | `SellersPaid`; `Relinked`, `SalesSettled`, under fairness |
| `systimer` | `Queues` (nothing freed, twice or out of order in them), `OnePerKey`, `RunsInTime` (not early, not too often), `LostBehindFinished` |
| `access_session` | `RequestsInOrder`, `AnswersInOrder` (with the buffer it relies on), `EndTakesOffline` |
| `user_data` | `Kept`, `DirtyIsVisited`, `Fresh`, `Deferred` (put off only while a load is due or was refused, none out of order) |
| `pay` | `Credited`, and `CaughtUp` under fairness |
| `netsingle` | `OneAttempt`, `EndsAgree`, `DangleOnlyInLoot`, and `Relinks` under fairness |
| `bag` | `Laid`, `Conserved`, `TakesExactly`, `GivesInFull` |
| `bag_books` | *violated* `OwnBook`: a soldier that rises uses up the book of another |
| `mail` | `Delivered`, `WrongOnlyWhenDeleted`, and `CaughtUp` under fairness |
| `arena` | `Ladder` (one place each), `RowsFollow`, `RewardsOnce`, `Opens`, `WinsSwap`, `OffersFair` |

Each property is stated in words above its definition. Where a run does not list the type invariant of its
module, it is a part of its first property. Some facts a reader should
know beyond the table:

- `OnSaleIndexed` is about cargos on sale and holds although `cargo_sid_reset` writes
  the wrong sid (the id of the cargo, where market.seq:32 has 0 for cross-server data). The removal of
  such a cargo looks in the wrong list, and its id stays behind in the right one. A
  buyer's list then shows an empty cargo (`get_buy_list` even creates one in `data_map`,
  which belongs to nobody, sells nothing and is left out of the model, while those `batch_buy` creates are in `ghosts`); were ids handed out
  again, the list would offer another cargo.
- `TableFollowsBoard` excepts the cargos that a lost statement named (`lost`), for the code sends a statement once and asks nobody.
  What is shown is that the damage stops there: no other row is missed or written over, however many statements
  are lost, and what a restart reads is what its predecessor showed. `cargo.sid` is left out of the comparison, as `cargo_reset` writes the id to it and
  the table has 0.
- `ImplementsExchange` allows goods and coins to be lost once a message was lost. The
  code has no way to send them again. Goods are lost without it in one way, when the buyer's bag is full (`Spill`), and made in one way, by a
  purchase that names a cargo more than once (`Oversell`): the stock wraps, or a ghost is sold, and the buyer pays for what it gets. What is shown is that there
  is no third way, that no coin or good in escrow is ever doubled, that nobody else loses by an oversold purchase, and that every other trade is at the
  price offered. The coins a seller earns are the subject of `SellersPaid`.
- `LostBehindFinished` is the exact extent of a loss: when a timer has had its last turn, `Process` returns (`systimemgr.cpp:393`) with
  the timers behind it taken out of `LoopList` and not yet run. They are in no queue any more and never run, those without a limit
  (`systimemgr.h:272`) included; two calls of `AddCall` in one second of the wheel suffice. In no other way does a timer leave the queues.
- `Fresh` and `Kept` except users that `quit_force` ever removed while one of their loads was under
  way, for good. Without the exception they fail: the answer on its way brings back data older
  than what was saved in between. The damage outlives that answer. After two such removals an older user overwrites
  a saved change, and the next answer brings back the user whose `check` has it as saved; forgetting the
  exception when the user is loaded anew made both properties fail with three faults.
- `EndTakesOffline` has two exceptions, both real. `delete_session` forgets a role and leaves its connections in `sock_map`: when
  the role is back over another connection, the end of a stray one takes it offline, with a connection that goes on. And a
  login may be answered over a connection whose end was handled before (`PRSystemLogin` asks nobody): the role stays bound to it,
  its messages are kept for the client, and it goes offline by no end; the next request or login puts it right.
- `Conserved` of `Bag` counts what was paid for goods that were in the redeem bag already (`resold`) apart: `SellItem` only gives
  such a piece a new index (`item_imp.cpp:768`) and pays for it once more. No text of the repository says otherwise.
- A timer removed by its own callback, or by one that ran just before it, is never used again, and
  never freed (`systimemgr.cpp:387` skips it without `DelLoop`): it stays in `LoopById` for good, in the
  model as in the code.
- `CaughtUp` of `Pay` says nothing of a payment whose notice was lost: nobody asks for it until the next notice
  or the next load of the role.
- `Kept` excepts the changes of a save that failed (`forgone`): the code takes its md5
  when the save is queued and does not learn of the failure. And such a save is not rolled back: `raw.cpp:45`
  executes `roolback`, so what it did is committed by the next one.
- `TimeoutArmed` leaves out the cargos that were on sale at a restart: `init_data` arms those whose
  time has come only, and the others are never taken down.
- `SellersPaid` has three parts: every sale is paid unless a message was lost, whatever links break and whatever is sent again; once
  until a link breaks; and, as a payment whose confirmation was lost is made again at the next link, never more than twice.
- `MonthReward` never sets `pay_info.month_reward`, so the daily reward of the card is given on every
  request (`pay_imp.cpp:166`); the model does the same, and `Credited` is about payments.
- `DangleOnlyInLoot` is the exact extent of a flaw: a process that ends right after it sent the last name of a
  handshake may leave its peer with a closed socket for it, which the peer never gives up
  (`update_read_sock`, `update_write_sock`); the two are then not linked again until the peer ends. `Relinks` says that this is the only way.
- `GivesInFull` has an upper bound above what was asked for: `AddItem` (`item_imp.cpp:433`) sets a stack
  to its limit before it computes how much fitted, so goods that top up a stack are given a second time.
  It has an exception too: `check_give` counts room in stacks that are bound otherwise.
- `TakesExactly` excepts kinds of which two pieces share a guid, which a sale of a part brings about.
- Noticed in `item_imp.cpp` and without a property: `Merge` takes its material before it gives the product and does not
  look for room; `UseItem` uses an iterator after the vector changed (what it reads goes to an answer);
  `coin::take` asks for `value - coin.val` when there is too little.
- `Delivered` excepts a role that `quit_force` removed while a list was under way: the role that is loaded again has an older
  `mail_auto_id`, the list begins after the newer one, and the mails in between never come. Without the
  exception it fails. `CaughtUp` is about a role that is logged in: one that was loaded for a mail and did not log
  in asks in the name of role 0 (`ext.role_id` is set by the login) and gets no answer.
- The properties of `Arena` name what they except, and each exception is needed: without it the property fails.
  `Ladder` survives only "late". A message that is lost takes one of the two rows of an exchange, or the number of players, with it, and
  two players come to hold one place; a link that comes back loads rows older than the memory over it, and starts the numbers of fakes
  again, so that two fakes share one; a crash keeps the rows and takes back the best rank; and an info that the log of an
  attack made has no base, so that `PQSingleArenaRefresh` (which `ArenaUI.lua` sends when an answer is late) or an automatic fight takes its player for a newcomer,
  who is paid the first reward again and gets a second place: the one exception of `RewardsOnce`.
  `Opens` excepts answers of the link before: they are counted with those of the new one, `load_log` passes 2, and `CheckLoadLog`
  keeps the arena shut until the next link.
- Hazards of the market and of the skeleton that no property is about: `so_social/link.cpp:20` sets `initialized` before the rows
  arrive, so that a link that breaks in between leaves the board without its outside listener (the model has the step, `LoadLost`);
  `so_game/market_pro.cpp:411` multiplies 32-bit sums by 90; `market_timer.cpp:10` asks for the first server id of a merged server only;
  and a signal in a handler leaves it by `siglongjmp` past the guards of mutexes (`common/misc.h:38`).
- A role created before realdb has told the last id starts at 0 and gets all mails of the past (`mail_event.cpp:20`).

### Bounds

- `market_board`: two roles of two server ids that one process serves, one item, one price, stacks of 2 (so that a purchase may take a
  part), two cargo ids, `Life` and `Minute` 1 and a clock up to 2 (a timeout is reached before
  and after a restart), one restart, three requests, two statements under way, one cargo a statement of which is lost (`MaxLost`).
  Purchases of up to two entries (`MaxEntries`), of two cargos or twice of one, and `Word` 4 to see the stock wrap.
  Two cargos are enough for a batch, a cargo left in place by another's removal and a
  bucket of two. With one price a request to change it changes nothing; a second one takes three times the states, and the theorems hold for any prices.
- `market_trade`: the same roles; one break of a link, three events of players and
  timers, one message queued in each direction while players act; an old link may be noticed after
  the new one is bound (`LateClose`). Two servers make a purchase across
  servers, and a break between any two steps of it. The seller has two goods and room for two, the buyer room for one, so that a
  purchase of two spills; `Word` is 8.
- `market_trade_live`: two breaks and four events, so that a payment may be sent, sent again and cut off again; one price and one way of buying,
  as only `cargo_buy` keeps what a seller earned to be acknowledged; and `LateClose` off, for a stale end leaves a server unbound for good (`so_social/access_pro.cpp:24`).
- `systimer`: one ordinary key and one with `#`, two timers alive in a run, two
  seconds of two ticks and a wheel of two slots: a timer can be behind, ahead of, and
  replaced by the other in every queue.
- `access_session`: two connections, two sessions, one kept packet and one kept answer
  (`BUFFER_MAX` 1: the limit is always near), four packets, two messages of the game,
  one fault.
- `user_data`: one user (users share only CDB's queues, which keep them apart by
  `guid`; the open transaction is shared, and two saves of one user meet it
  too), two parts, one change more than the user began with, two requests put off, one fault
  of any kind (a connection of CDB that is lost is not counted, for it matters only after a
  failed save). `Interval` 1 and a clock of two values separate equal from
  later seconds, where `save_once` compares. An ordered restart takes a second, so that there is one in a run;
  crashes come at any moment.
- `pay`: two payments of two prices, one of them the card, so that presents by number, two cards in a row
  and one of each occur; a card of one day and two days, so that a card may have run out; one fault,
  one notice (or what it led to) under way at a time and any number in all, one save and one load under
  way; one reward.
- `netsingle`: two processes and two ports, so that one may get the other's; four connections at a time (five, and two deaths,
  were checked too, safety alone for the latter); one death, at any moment of either handshake, on top of any order of starting.
- `bag`: one soldier (two in `bag_books`, so that twins may be worn by different ones), two places in the common bag, stacks of two, two coins; up to two pieces
  in the redeem bag and three goods held when more are given: a sale of a part, its return beside the
  rest, a full stack, a full bag and a full purse all occur. One coin for goods sold again out of the redeem bag is enough for a
  sale there of a whole piece and of a part, before and after a sort.
- `mail`: two mails to everyone and two to the role, three in all (a list of two, a mail in between, an
  id used again), one fault, one request of the client under way; a login is not made while a message is on the link.

- `arena`: two players, of whom none, one or both have come before the run begins (each at the last place, as
  they are left by their first fight), three places that are shown and five that fakes begin with, so that the places of newcomers lie right behind;
  two fights at a time or one after the other, one message on its way to realdb while players act, one end of a process, and one of the things in
  `spoilt` in a run (`OneAtATime`). `LastRank` 14 stands for 2^32 - 1.

### Fairness

Safety runs have none. `market_trade_live` assumes weak fairness of handling a
message on either side (CMsg runs while its queue is not empty), of `Connect` (the
timer `social_keep_online` runs every 10 seconds and calls connect when there is no
link) and of the delivery of the end of a connection (epoll reports it). The
number of breaks is bounded, so that "after the last break" means something. No fairness is assumed of players.
`pay` assumes weak fairness of each message handler, of `user_save_timer` (it runs every second and
visits all users in turn; a user changed by a login alone is passed over until it is met, and the notice and the
list do meet it) and of CDB doing one or the other of what it has to do; none of logins, of
the back end or of rewards.
`netsingle` assumes weak fairness of `loot_read`'s next round, and strong fairness of handling what has arrived at a handshake and at a bound link and of
`cb_connect_timeout`: `epoll_wait` reports all sockets that are ready, again until they are read, and
the timers run when the loop is idle. Processes need not start; `Relinks` is about those that stay up.
`mail` assumes weak fairness of realdb's and of the game server's message handlers, and none of logins.

## 4. What is proved

`MarketBoardProofs`, checked by TLAPS, for any sets of roles, servers and items, any
prices and any bounds, all four properties of the run:

- `TypeCorrect`: `Spec => []TypeOK`. The inductive invariant adds `LoadType`: while
  the rows are being read no statement is under way, and no row is still to come afterwards.
  Each handler of `MarketOps` has a lemma: from a board and arguments of their types, it gives
  a board and statements of their types.
- `IndexedAlways`: `Spec => []OnSaleIndexed`. Two facts are missing to make it
  inductive. No list holds an id that `alloc_id` has yet to hand out (`Below`): lists keep
  ids of cargos long gone, and a fresh cargo must not appear in one. And a row still to
  be read is on no list of the board (`Fresh`), so that reading it twice or after another cannot
  disturb those in place.
- `ArmedAlways`: `Spec => []TimeoutArmed`. The bucket of a cargo depends on its
  `down_time` only, and `BucketBounds` places it; every handler keeps the buckets
  of the cargos it leaves on sale (`...Keeps`), a new cargo is armed
  (`CargoUpArms`), and a row that is read is armed when its time has passed
  (`InitDataArms`). The invariant adds that times in the table and in statements do not come
  from the future, which a cargo put up after `boot` needs.
- `TableAlwaysFollows`: `Spec => []TableFollowsBoard`. The statements under way are executed by a recursive function
  (`Executed`); that it takes one list after the other (`ExecutedMore`) is an induction, done as the search for a smallest
  place where it fails (`SmallestExists`). Two tables are compared cargo by cargo, but for its region (`Alike`): a statement keeps alike what was alike
  (`ExecuteAlike`), and leaves a cargo it does not name as it was, a reset included (`ExecuteUnnamed`), and so do lists of them
  (`ExecutedAlike`, `ExecutedUnnamed`). Each handler asks of the table what it has done to its own map (`...Follows`): what is taken down is named by as many
  statements, in whatever order `SetToSeq` lists them (`ExecutedDels`); a purchase is followed entry by entry (`PurchaseIn`, `EntryFollows`), so a cargo it names
  again is written again. What is lost of a handler's statements, or of those on their way, is a part of the list (`HandleParts`, `CutParts`), and a cargo
  outside it has all of its own in what is left. The invariant adds the rows already read while the process loads (`TableInv`).

`AccessSessionProofs`, for any `BUFFER_MAX`, any number of connections and sessions and any bounds:

- `TakenInOrder`: `Spec => []RequestsInOrder`. What is kept and reposted is numbered (`Ordered`): a
  login or a request to send again is handled at once, so that what comes back from the queue, without
  a connection, goes through the order of requests again (`InOrderKeeps`).
- `GatewayKeepsLast`: `Spec => []KeepsLast`. `KeptLast` is the step: the first of `BUFFER_MAX + 1`
  numbers without a gap is the one that goes. The proof counts them with `FS_Interval`.
- `OfflineByItsEnd`: `Spec => []EndTakesOffline`. That a bound connection is noted (`Noted`) needs that a login
  under way names a connection, not 0 (`Said`), and that a role the gateway has forgotten has none
  (`~exists => data.sock = 0`), for `reset_sock` finds no data then. That its end is still to come needs the sessions
  (`Unheard`): when a login is answered over a connection whose end was handled before, the client has never heard of
  its session, so no request under way, kept or reposted names it, and none is taken (`Quiet`). That a login is
  answered once rests on the stations of `ReadsWhatWasSaid`, and that every connection stands, is to be handled or is
  in `cool`, on `Placed`. What `delete_session` leaves in `sock_map` is collected in `stray` where it arises (`Strays`).
- `SessionTypes`: `Spec => []TypeOK`. It needs `Started`: a role with a connection or a session was logged in
  and counts from 1, hence a message of the game server is never written without a number, and the client, which
  goes by that (`OnListenMsg`), never takes one for an answer of the gateway's own (`Sent`).
  What is sent again are kept messages (`ResentType`) by `KeepsLast`.
- `ReadsWhatWasSaid`: `Spec => []AnswersInOrder`. The counters of the gateway and the client
  number pings as well, which the game server does not count, so the two are related by a log: `log[o]` is how much
  of what the game server said has a number below `o`. The invariant says that there is one (`Log`): the gateway's next number and what it keeps go by
  it (`Counts`), what the game server has said is its end, but for the message on its way (`Saying`), and what is on the way to the client, and what it has
  processed, go by it too (`Reads`). A step makes the log longer or leaves it (`Longer`). This holds from the answer to a
  login on; before, the login of the newest session is on exactly one of its stations (`OnConnection`, `AtGame`, `AtGateway`), and until it is
  answered nobody writes to its connection (`Unanswered`): a message numbered for the session before would otherwise be taken
  for the new one's. This needs that the connection is new (`Newest`) and that sessions are not numbered again (`SentBefore`, `TakenBefore`,
  `PassedBefore`). A fault of the game server, or a hoard of requests, makes the gateway forget the role; what it counts
  then means nothing until the role logs in (`Gone`). One message of the game server is under way at a time (`OnlyFirst`), a bound of the
  model's `GameSay` that the link, which keeps the order, would not need.

`UserDCProofs`, for any finite set of users, any parts, intervals and bounds:

- `MetIsVisited`: `Spec => []DirtyIsVisited`. The
  inductive invariant adds that no user was saved in the future (`Sound`): `find` sets `meet_time` to
  the clock, which is then at least `save_time`, and `save_once` takes both when they are equal.
- `UserTypes`: `Spec => []TypeOK`. It is inductive as it stands: a load that is asked for once, and the places of CDB
  with what it has taken out, are part of it.
- `RequestsInOrder`: `Spec => []Deferred`. `NoneStranded` is inductive with the types; it names the loads that were refused apart, since their requests wait for an answer that never comes. The order of requests is not: it needs `Turns`.
  Requests put off are numbered in order (`PutOff`), so are those in the queue
  (`InTurn`), and no request of an absent user stands behind an answer that would bring that user (`NoneBehind`): it would be
  handled at once, before those put off. `dispatch_defer` puts them in front of the queue in their order,
  which the lemmas about `Pick` say.
- `NothingTakenForSaved`: `Spec => []Kept`, and `BackWithEverything`: `Spec => []Fresh`, from one invariant (`DataSafe`). Neither is inductive:
  a user that is away must be able to come back. `Sane`: `check` has only what is in memory, what the open transaction has and the tables
  have not was given up, and nobody is in memory before the loop runs. `Main`: each user that was never overtaken
  is `Whole`. The saves under way, applied in their order to the tables, lose nothing that was not
  given up (`Written`); a user in memory has all of that, and what its `check` has is in it (`InMemory`); for a user that is away, a load under way
  means that no save of it is (`UnderWay`), and an answer on its way has what is written (`OnItsWay`). The
  last two are what the order of CDB's lists is for: `load` takes no user with a save to come.
- The lemmas about `Selection` come first: `Ascending` gives a set's numbers in ascending order (`AscendingIs`), `Pick` the elements at
  the places asked for, all of them and no others, in their order (`PickIs`), and the greatest number of a finite set exists (`MaxIs`). That
  every finite set has an ascending order is an induction, done as the search for a smallest set without one
  (`WFMin` over `NatLessThanWellFounded`).

`MailProofs`, for any number of mails, requests and faults: `MailTypes`, `EachMailOnce` (`Spec => []Delivered`) and
`WrongMailOnlyWhenDeleted` (`Spec => []WrongOnlyWhenDeleted`), from one invariant. To the books of the role, in memory and in the tables alike
(`Books`), it adds that a mail to everyone keeps its id and the ids of the others never get ahead of the mails sent
(`Numbered`), that all the box ever had is older than `mail_auto_id` and than the mails on the link (`Earlier`, `PostsInOrder`), so
that none comes a second time, that no list asked for or under way begins after the last mail the role has
(`ListsReach`), so that none is passed over, that realdb tells of nothing it has not written (`LinkSound`), and that what the client asks about is where
it saw it or was deleted (`AskedSound`).

`PayProofs`, for any prices, presents and length of the card, any number of payments and days and any bounds: `TypesHold` and
`PaymentsCredited` (`Spec => []Credited`), from one invariant (`PInv`). What the tables have now and would have after each save under way, one after
the other, is what the payments taken by then are worth (`Chain`), and the last of it is what the role keeps in `check` (`Books`); in memory it has at least
that (`InMemory`); while it is away, what is on its way to memory is what the tables have (`Coming`), for `load` takes no role with a save to come.
That the credit itself is right is about sums over sets of payments (`SumAdds`), presents by the number of purchase (`DueMore`) and the days
of cards (`CardMore`): each round of `pay::Process` takes one more payment and adds what it is worth (`CreditSound`), a list that names
one again adds nothing (`JoinedIs`). The loops are recursive functions, for which `LoopIn` says that what every round keeps, all of them
keep; it is proved once, as the search for a smallest round that does not.

`SysTimerProofs`, for any names, periods and size of the wheel, all four properties of the run:

- `OneTimerPerKey`: `Spec => []OnePerKey`. The
  invariant adds that ids are handed out in order, so that a new timer never takes the place of another, and that the
  timer whose callback runs has not been freed, for callbacks only mark (`running \in DOMAIN LoopById`): setting its next
  time brings nobody back.
- `QueuesSound`: `Spec => []Queues`, inductive with that invariant. Most of the work is in the lists: a timer put into an ordered list
  at the place `lower_bound` gives leaves it ordered (`InsertKeeps`), and what `Process` cuts off, joins and
  picks stays free of repetitions (`Cut`, `Joined`, `Without`).
- `NeverEarlyOrTooOften`: `Spec => RunsInTime`. It needs `DueNow` and `TurnsLeft` of what is queued, and of the wheel `OnWheel`: a timer `i` places
  before the hand was either added since the wheel turned, and is due `i - 1` seconds from now at the latest, or
  waits for a turn that comes more than `i` seconds after the last.
- `OnlyBehindFinished`: `Spec => LostBehindFinished`, step by step (`Stays`).

`NetSingleProofs`, for any number of processes, ports, connections and deaths, all three safety properties of the run:

- `HandshakesSound`: `Spec => []NetInv`. Each connection is `Good`: its ends wait for something that belongs together (`Roles`), of each end at most a name
  and the end of the other are unread (`Mail`), the two callbacks and what is unread between them are one stage of the handshake (`Stage`), and an end that is bound is in the
  table of its process (`Bound`) and nothing else is (`Sockets`). `Looting` says the same of a network thread in the middle of a `loot_read`: what its own callback has made
  of the connection so far, and that a socket closed under it is no longer what its process tries. `Trying` counts attempts and timers. The lemmas come in two layers: what
  each callback does is one of ten steps of a connection (`FromCloses`, `SynOk`, `Answers...`), and each step keeps the invariant; `Frame` is
  the part of it about other connections. Numbers of connections are used again, so the invariant must also say that
  no socket and no `loot_read` names an attempt that is still connecting.
- `AlwaysOneAttempt`: `Spec => []OneAttempt`, and `LinksAgree`: `Spec => []EndsAgree`, follow from it.
- `DanglesByLootOnly`: `Spec => DangleOnlyInLoot`, from `Tidy`, which each of the steps satisfies.

`ArenaProofs`, for any players, sizes of the ladder and of its shown part, and any number of fights and faults:

- `TypesHold`: `Spec => []TypeOK`. Ranks must stay within 32 bits, so the invariant (`TypeInv`) bounds them by the players that can have come (`Most`): those there are,
  counted again after the loss of a count, hence by one more for each fight that has ended. `ArenaAssumption` leaves room behind them for
  the fakes of one list. The loops that move a place down past others (`BelowFree`) and up past players (`OneFake`) end: among
  six places in a row one is free of the five that are taken.
- `ListsFair`: `Spec => OffersFair`. The four are apart after their moves (`GetRankIs`), moved up past players they stay apart (`AllFakeIs`), and filling the places
  that nobody holds gives each a number that is new (`Grown`). What else an end of a fight does leaves the other lists as they are (`SameLists`).
- `PaidOnce`: `Spec => []RewardsOnce`. An info with a list knows the best rank its user was paid for (`Bases`); whoever is paid either has a list, or is a newcomer whose
  base says so. It needs nothing of the ladder, so it holds whatever is lost, overwritten, used again or rolled back.
- `LoadOpens`: `Spec => []Opens`. On a link there is one load among the messages and nothing is answered or counted, or there is none and the answers still
  to come and those counted make up one load (`Loading`, `Due`). This needs that what handlers write is never a load (`WritesNoLoad`), and that realdb answers a load by itself.
- `TablesFollow`: `Spec => []RowsFollow`. Rows are written one after the other, so that rows and memory agree needs more than that they do: an exchange writes the rank
  *shown* to the winner (`Bears`: it has that rank, or none is shown), the owner read from the place must be the player (`Placed`), and a newcomer's place must be nobody's
  (`Spaced`: players stand within those counted, and only fakes behind all that can ever come). `Sane` says this of the memory and of the tables its messages will make
  (`Stored`), for each of the handlers' steps; before the load (`Blank`) the tables themselves are those of a ladder (`RowsApart`), which is what the memory that ended leaves
  (`RowsOfSane`). The answers on their way come in order (`InOrder`: the number of players before the rows, as rows over a smaller number would not be `Spaced`), and name
  nobody the tables will not have (`Within`), which needs that no row is only half written (`NoDel`). What realdb makes of messages one by one or all at once is the same (`SavedMore`).
- `OnePlaceEach`: `Spec => []Ladder`. That who stands somewhere owns the place is a part of `Sane`; `Climbing` adds the converse (`Whose`: the owner of a place stands there), that
  whoever has a list has a base that is right (`Shows`) and that nobody was paid for a rank behind its own (`Best`), of the memory (`Climbs`), and of the tables and users
  (`Owed`), from which a server that starts again takes both. It holds because of both `Following` and its next state: what a handler leaves is followed by the tables, so that
  `Owed` comes from `Best` (`OwedIs`) and need not be kept message by message. "reused" is what `Whose` cannot bear (`GrownClimb`: fakes get numbers nobody has), "skipped" what
  `Shows` cannot, "rolled" what `Owed` cannot (`GameEndsClimb`), "lost" and "overwritten" what `Following` cannot.
- `PlacesSwapped`: `Spec => WinsSwap`. It holds although messages are lost, so it cannot stand on the tables, as `OnePlaceEach` does. What it needs instead: who has a place
  was paid for it, or is a fake (`Earned`), so that a newcomer, whose base says that it was not (`Bases`, from `PaidOnce`), has none that its first reward could take from it
  (`FirstTakes`); and the rank an info shows is its player's (`Bears`), so that the winner leaves the place it has (`UpdateTakes`). Both must hold again after a load, so that
  the rows of the tables, the messages and the answers name nobody else (`Standing`), what a torn write leaves of them included (`CutNamed`).

The assumptions are `OpsAssumption`, `BoardAssumption`, `SessionAssumption`, `UserAssumption`, `MailAssumption`, `PayAssumption`, `ArenaAssumption`, `TimerAssumption` and `NetAssumption` (the word for an end is no process, and the bounds are numbers), evaluated by TLC on the
instances of the runs.

Model-checked only: the refinement of `MarketExchange` and `SellersPaid` (sums over sets), liveness (`Relinks` and `CaughtUp` among it), which is out of the
prover's reach, and all of `Bag` (its counts are folds with LAMBDA, which the provers cannot expand).

## 5. Not modelled

Everything listed as `not_modelled` in `PROJECT.json`. Reasons: the other single-player systems
and the handlers of realdb are sequential functions of one user or one query, for
which unit tests do; fights are mostly Lua and tables of numbers; the guilds cannot be entered (realdb inserts two values into `guildsimple`, which has four columns, so that
none is ever created); the byte level of packets, the kernel and MySQL are outside.

## 6. Plan

1. (done) the board, its proofs; trade over links and its abstract specification;
   timers; sessions; users and CDB.
2. (done) `NetSingle`; next its data and `stop`, and the composition with `MarketTrade`'s links.
3. (done) `Pay`, `Mail`, `Bag` and `Arena`.
4. `Broadcast`: membership of channels against logins, closes and reloads.
5. `Fight`: the lock-step of two clients over `SysTimer`'s keys.
6. Proofs: (done) all of the above but `Bag` and `MarketTrade`; next the map of `MarketTrade` to
   `MarketExchange` for purchases.
