-------------------------------- MODULE Pay --------------------------------
(***************************************************************************)
(* What a role is given for its payments (so_game/pay_*.cpp).  The back    *)
(* end writes a row of the table pay and calls sys_pay; auth tells the     *)
(* game server, which asks realdb for the rows nobody has taken and        *)
(* credits those it does not know yet.  Meanwhile CDB loads and saves the  *)
(* role, so that realdb lists rows whose credit is not yet in the tables.  *)
(*                                                                         *)
(* One role.  Gold is counted by the path it came on, kPathPay and so on,  *)
(* rewards by their number, time in days.  A save is a transaction here,   *)
(* and no role is removed while a load of it is under way; UserDC has what *)
(* happens when a save fails or a load is overtaken.                       *)
(***************************************************************************)
EXTENDS Naturals, SequencesExt

CONSTANTS
  Prices,      \* what can be bought
  Present,     \* Pay.xls: the gold given on top, by price and number of purchase
  MonthPrice,  \* the price of the monthly card: 25
  MonthDays,   \* the days it lasts: 30
  MaxPays, MaxNotices, MaxRewards, MaxDay, MaxQueue, MaxFaults   \* bounds; of notices
                                           \* and what they lead to, those under way

ASSUME PayAssumption ==
  /\ Prices \subseteq Nat \ {0} /\ MonthPrice \in Nat
  /\ DOMAIN Present \subseteq Prices /\ \A p \in DOMAIN Present : Present[p] \in Seq(Nat)
  /\ {MonthDays, MaxPays, MaxNotices, MaxRewards, MaxDay, MaxQueue, MaxFaults} \subseteq Nat /\ MaxDay # 0

VARIABLES
  day,        \* server::local_time
  pay,        \* the table pay: the row uid has a price and a flag
  role,       \* the tables of the role: its parts coin, pay_info and var
  user,       \* the role in memory: its parts, and those kept in check
  deferred,   \* how many PQPayNotice wait for the load of the role (defer_map)
  notices,    \* how many PQPayNotice are
  queries,    \* how many PQPayList are on their way to realdb
  answers,    \* PRPayList on their way back
  load_list,  \* the loads CDB is asked for: for a login or not
  loaded,     \* PRSystemUserLoad on their way to the logic thread
  save_list,  \* the parts CDB is to write
  faults,     \* counter, bounded
  promised    \* history: the rows announced since the last fault

queues == <<deferred, notices, queries, answers>>
cdb    == <<load_list, loaded, save_list>>
vars   == <<day, pay, role, user, queues, cdb, faults, promised>>

Uids    == DOMAIN pay
Paths   == {"pay", "present", "month", "first"}
SUserPay == [uid : Uids, flag : {0, 1}]
Coin    == [Paths -> Nat]
PayInfo == [pay_sum : Nat, pay_count : Nat, month_time : Nat, month_reward : Nat]
Var     == [frist_pay_reward_flag : {0, 1}, user_time_limit : 0..MaxDay]
Tables  == [coin : Coin, pay_info : PayInfo, var_map : Var]
Data    == [coin : Coin, pay_info : PayInfo, var_map : Var, pay_list : Seq(SUserPay)]
NoUser  == << >>
Online  == user # NoUser       \* in memory: theUserDC.find

Init ==
  /\ day = 1 /\ pay = << >> /\ user = NoUser
  /\ role = [coin |-> [p \in Paths |-> 0],
             pay_info |-> [pay_sum |-> 0, pay_count |-> 0, month_time |-> 0, month_reward |-> 0],
             var_map |-> [frist_pay_reward_flag |-> 0, user_time_limit |-> 1]]
  /\ deferred = 0 /\ notices = 0 /\ queries = 0 /\ answers = << >>
  /\ load_list = {} /\ loaded = << >> /\ save_list = << >>
  /\ faults = 0 /\ promised = {}

-----------------------------------------------------------------------------
(* What is credited.                                                       *)

Taken(list)    == {i \in DOMAIN list : list[i].flag = 1}
Uid(list, I)   == {list[i].uid : i \in I}
Count(list, p) == Cardinality({i \in Taken(list) : pay[list[i].uid].price = p})

(* (Variants of operators, here and below, are the mistakes the runs are   *)
(* tried with.)                                                            *)
AddMonthTime_anew(info) == [info EXCEPT !.month_time = day + MonthDays]
AddMonthTime(info) ==
  [info EXCEPT !.month_time = (IF @ < day THEN day ELSE @) + MonthDays]

present(price, n) ==
  IF price \in DOMAIN Present /\ n \in DOMAIN Present[price] THEN Present[price][n] ELSE 0

give(coin, path, n) == [coin EXCEPT ![path] = @ + n]

SEventPay(info, price) == [info EXCEPT !.pay_count = info.pay_count + 1, !.pay_sum = info.pay_sum + price]

(* One payment: the flag, the gold, the card, the present, SEventPay.      *)
Credit(data, i) ==
  LET list  == data.pay_list
      price == pay[list[i].uid].price
      card  == IF price = MonthPrice THEN AddMonthTime(data.pay_info) ELSE data.pay_info
  IN [data EXCEPT
       !.pay_list = [list EXCEPT ![i] = [uid |-> list[i].uid, flag |-> 1]],
       !.coin     = give(give(data.coin, "pay", 10 * price), "present", present(price, Count(list, price) + 1)),
       !.pay_info = SEventPay(card, price)]

Process(data) ==
  LET done[i \in 0..Len(data.pay_list)] ==
        IF i = 0 THEN data
        ELSE LET d == done[i - 1] IN IF d.pay_list[i].flag = 1 THEN d ELSE Credit(d, i)
  IN done[Len(data.pay_list)]

Known(list, uid) == \E i \in DOMAIN list : list[i].uid = uid

(* A row that is listed again is left out.                                 *)
Joined(list, uids) ==
  LET known[i \in 0..Len(uids)] ==
        IF i = 0 THEN list
        ELSE LET l == known[i - 1] IN
             IF Known(l, uids[i]) THEN l ELSE Append(l, [uid |-> uids[i], flag |-> 0])
  IN known[Len(uids)]

AddPay(data, uids) == Process([data EXCEPT !.pay_list = Joined(data.pay_list, uids)])

(* The event of a new day, which the timer and a load send to a user.      *)
TimeLimit(data, today) ==
  IF data.var_map.user_time_limit < today
  THEN [data EXCEPT !.var_map.user_time_limit = today, !.pay_info.month_reward = 0]
  ELSE data

MonthReward(data) ==
  IF data.pay_info.month_time < day \/ data.pay_info.month_reward # 0 THEN data
  ELSE [data EXCEPT !.coin = give(data.coin, "month", 1)]

GetFristPayReward(data) ==
  IF data.var_map.frist_pay_reward_flag = 1 \/ data.pay_info.pay_count < 1 THEN data
  ELSE [data EXCEPT !.coin = give(data.coin, "first", 1), !.var_map.frist_pay_reward_flag = 1]

-----------------------------------------------------------------------------
(* The back end, auth and realdb.                                          *)

BackEndPays(price) ==
  /\ Len(pay) < MaxPays
  /\ pay' = Append(pay, [price |-> price, flag |-> 0])
  /\ UNCHANGED <<day, role, user, queues, cdb, faults, promised>>

sys_pay ==
  /\ pay # << >> /\ notices + deferred + queries + Len(answers) < MaxNotices
  /\ notices' = notices + 1
  /\ promised' = Uids
  /\ UNCHANGED <<day, pay, role, user, deferred, queries, answers, cdb, faults>>

(* The rows that are not taken, the oldest first.                          *)
Untaken(rows) ==
  LET list[n \in 0..Len(rows)] ==
        IF n = 0 THEN << >> ELSE IF rows[n].flag = 0 THEN Append(list[n - 1], n) ELSE list[n - 1]
  IN list[Len(rows)]

PQPayList ==
  /\ queries > 0 /\ queries' = queries - 1
  /\ answers' = IF Untaken(pay) = << >> THEN answers ELSE Append(answers, Untaken(pay))
  /\ UNCHANGED <<day, pay, role, user, deferred, notices, cdb, faults, promised>>

-----------------------------------------------------------------------------
(* The game server.                                                        *)

quiet == <<day, pay, role, faults, promised>>
Becomes(data) == user' = [user EXCEPT !.data = data]

QU_OFF ==  \* the user is asked for and the message put off
  /\ load_list' = load_list \cup {"off"}
  /\ deferred' = deferred + 1

PQPayNotice_online ==
  /\ notices > 0 /\ notices' = notices - 1
  /\ queries' = IF Online THEN queries + 1 ELSE queries
  /\ UNCHANGED <<quiet, user, deferred, answers, load_list, loaded, save_list>>

PQPayNotice ==
  /\ notices > 0 /\ notices' = notices - 1
  /\ \/ Online /\ queries' = queries + 1 /\ UNCHANGED <<deferred, load_list>>
     \/ ~Online /\ QU_OFF /\ UNCHANGED queries
  /\ UNCHANGED <<quiet, user, answers, loaded, save_list>>

PRPayList ==
  /\ answers # << >> /\ answers' = Tail(answers)
  /\ IF Online THEN Becomes(AddPay(user.data, Head(answers))) ELSE UNCHANGED user
  /\ UNCHANGED <<quiet, deferred, notices, queries, cdb>>

PQSystemLogin ==  \* at any moment, as do those that were put off
  /\ \/ Online /\ Becomes(Process(user.data)) /\ UNCHANGED load_list
     \/ ~Online /\ load_list' = load_list \cup {"login"} /\ UNCHANGED user
  /\ UNCHANGED <<quiet, queues, loaded, save_list>>

PRSystemUserLoad ==
  /\ loaded # << >> /\ loaded' = Tail(loaded)
  /\ IF Online THEN UNCHANGED <<user, queues>>
     ELSE /\ user' = [data |-> TimeLimit(Head(loaded), day), check |-> Head(loaded)]
          /\ notices' = notices + deferred /\ deferred' = 0   \* dispatch_defer
          /\ UNCHANGED <<queries, answers>>
  /\ UNCHANGED <<quiet, load_list, save_list>>

Rewards == user.data.coin.month + user.data.coin.first

PQPayMonthReward ==
  /\ Online /\ Rewards < MaxRewards
  /\ Becomes(MonthReward(user.data))
  /\ UNCHANGED <<quiet, queues, cdb>>

PQPayFristPayReward ==
  /\ Online /\ Rewards < MaxRewards
  /\ Becomes(GetFristPayReward(user.data))
  /\ UNCHANGED <<quiet, queues, cdb>>

Tick ==
  /\ day < MaxDay /\ day' = day + 1
  /\ IF Online THEN Becomes(TimeLimit(user.data, day + 1)) ELSE UNCHANGED user
  /\ UNCHANGED <<pay, role, queues, cdb, faults, promised>>

-----------------------------------------------------------------------------
(* The tables: each part that is not the one in check is written, and of   *)
(* pay_list the flags that are set; one save is one transaction.           *)

Changed(u) == {p \in DOMAIN u.data : u.data[p] # u.check[p]}

user_save_timer ==
  /\ Online /\ Changed(user) # {} /\ Len(save_list) < MaxQueue
  /\ save_list' = Append(save_list, [p \in Changed(user) |-> user.data[p]])
  /\ user' = [user EXCEPT !.check = user.data]
  /\ UNCHANGED <<quiet, queues, load_list, loaded>>

Flagged(rows, list) ==
  [uid \in DOMAIN rows |-> IF uid \in Uid(list, Taken(list)) THEN [rows[uid] EXCEPT !.flag = 1] ELSE rows[uid]]

save_to_db ==
  /\ save_list # << >> /\ save_list' = Tail(save_list)
  /\ LET s == Head(save_list) IN
     /\ role' = [p \in DOMAIN role |-> IF p \in DOMAIN s THEN s[p] ELSE role[p]]
     /\ pay' = IF "pay_list" \in DOMAIN s THEN Flagged(pay, s.pay_list) ELSE pay
  /\ UNCHANGED <<day, user, queues, load_list, loaded, faults, promised>>

Rows(rows) == [uid \in DOMAIN rows |-> [uid |-> uid, flag |-> rows[uid].flag]]

Loads == [coin |-> role.coin, pay_info |-> role.pay_info, var_map |-> role.var_map, pay_list |-> Rows(pay)]

load_to_msg ==  \* a load waits while the role is in save_list
  /\ save_list = << >> /\ Len(loaded) < MaxQueue
  /\ \E l \in load_list : load_list' = load_list \ {l}
  /\ loaded' = Append(loaded, Loads)
  /\ UNCHANGED <<quiet, user, queues, save_list>>

-----------------------------------------------------------------------------
(* Faults: nothing is promised any more until the next notice.             *)

Fault ==
  /\ faults < MaxFaults /\ faults' = faults + 1
  /\ promised' = {}
  /\ UNCHANGED <<day, pay, role>>

quit_force ==  \* a handler of the user failed; not while a load of it is on its way
  /\ Fault /\ Online /\ user' = NoUser
  /\ loaded = << >> /\ deferred' = 0
  /\ UNCHANGED <<notices, queries, answers, cdb>>

Lost ==  \* a link broke, or what was put off has waited for 60 seconds
  /\ Fault
  /\ \/ notices > 0 /\ notices' = notices - 1 /\ UNCHANGED <<deferred, queries, answers>>
     \/ queries > 0 /\ queries' = queries - 1 /\ UNCHANGED <<deferred, notices, answers>>
     \/ answers # << >> /\ answers' = Tail(answers) /\ UNCHANGED <<deferred, notices, queries>>
     \/ deferred > 0 /\ deferred' = 0 /\ UNCHANGED <<notices, queries, answers>>
  /\ UNCHANGED <<user, cdb>>

Restart ==  \* of the game server after a crash
  /\ Fault /\ user' = NoUser
  /\ deferred' = 0 /\ notices' = 0 /\ queries' = 0 /\ answers' = << >>
  /\ load_list' = {} /\ loaded' = << >> /\ save_list' = << >>

Next ==
  \/ \E price \in Prices : BackEndPays(price)
  \/ sys_pay \/ PQPayList
  \/ PQPayNotice \/ PRPayList \/ PQSystemLogin \/ PRSystemUserLoad
  \/ PQPayMonthReward \/ PQPayFristPayReward \/ Tick
  \/ user_save_timer \/ save_to_db \/ load_to_msg
  \/ quit_force \/ Lost \/ Restart

(* The threads run on: messages are handled, changed users saved, and CDB  *)
(* does what there is to do.                                               *)
Fairness ==
  /\ WF_vars(PQPayNotice) /\ WF_vars(PQPayList) /\ WF_vars(PRPayList) /\ WF_vars(PRSystemUserLoad)
  /\ WF_vars(user_save_timer) /\ WF_vars(save_to_db \/ load_to_msg)

Spec     == Init /\ [][Next]_vars
FairSpec == Spec /\ Fairness

-----------------------------------------------------------------------------
(* Properties.                                                             *)

(* Every variable has its type.                                            *)
TypeOK ==
  /\ day \in 1..MaxDay /\ pay \in Seq([price : Prices, flag : {0, 1}])
  /\ role \in Tables /\ (Online => user \in [data : Data, check : Data])
  /\ \A i \in DOMAIN answers : answers[i] \in Seq(Uids)
  /\ {notices, queries, deferred} \subseteq 0..MaxNotices
  /\ load_list \subseteq {"login", "off"} /\ promised \subseteq Uids

(* The sum of a function to Nat: how many things it counts.                *)
Sum(f) == Cardinality(UNION {{x} \X (1..f[x]) : x \in DOMAIN f})

(* What the payments uids are worth, and the presents that come with them: *)
(* of each price as many as were bought for it.                            *)
Worth(uids)     == Sum([u \in uids |-> pay[u].price])
Bought(uids, p) == Cardinality({u \in uids : pay[u].price = p})
Due(uids)       == UNION {{p} \X {n \in DOMAIN Present[p] : n <= Bought(uids, p)} : p \in DOMAIN Present}
Presents(uids)  == Sum([d \in Due(uids) |-> Present[d[1]][d[2]]])

Earned(tables, uids) ==
  LET cards == Bought(uids, MonthPrice)
      info  == tables.pay_info
  IN /\ tables.coin.pay = 10 * Worth(uids) /\ tables.coin.present = Presents(uids)
     /\ tables.coin.first = tables.var_map.frist_pay_reward_flag
     /\ info.pay_count = Cardinality(uids) /\ info.pay_sum = Worth(uids)
     /\ IF cards = 0 THEN info.month_time = 0
        ELSE cards * MonthDays < info.month_time /\ info.month_time <= day + cards * MonthDays

(* A role has what its taken payments are worth, no less and no more: the  *)
(* gold, the presents in their order, the days of its cards, in memory and *)
(* in the tables, however often a payment is listed, and whatever is lost  *)
(* in between.                                                             *)
Credited ==
  /\ TypeOK
  /\ Earned(role, {u \in Uids : pay[u].flag = 1})
  /\ Online => LET list == user.data.pay_list IN Earned(user.data, Uid(list, Taken(list)))

(* The payments the game server was told of are credited in the tables,    *)
(* whether the role is in memory or not, unless a fault comes in between:  *)
(* then the next notice makes up for it.                                   *)
CaughtUp ==
  (promised # {}) ~> (\A uid \in promised : pay[uid].flag = 1)

=============================================================================
