------------------------------- MODULE Arena -------------------------------
(***************************************************************************)
(* The single arena (so_game/singlearena_*.cpp, singlearenamonster_fight   *)
(* .cpp, auto_fight.cpp).  Players have ranks; one is offered four others  *)
(* to fight, and who beats one that stands higher takes its place.  Places *)
(* nobody holds are filled with fakes as they are looked at.  The fights   *)
(* are computed by the process fight and come back at any time.  Ranks,    *)
(* logs and the number of players are rows of realdb, written by message;  *)
(* the best rank a player was paid for is a part of its user, which CDB    *)
(* saves on its own.                                                       *)
(*                                                                         *)
(* Whether a player may fight again (CheckCD, CheckTimes) is left open; of *)
(* its logs there are some or none; users stay in memory until a crash.    *)
(***************************************************************************)
EXTENDS Naturals, SequencesExt

CONSTANTS
  Players,             \* target ids from REAL_TARGET_GUID on; the fakes are numbers
  SHOW_RANK_COUNT,     \* 50
  MAX_CREATE_OPPONENT, \* 10000
  LastRank,            \* 2^32 - 1, what is below 0
  MaxFights,           \* bounds: fights,
  MaxQueue,            \* messages on their way to realdb while players act,
  MaxFaults            \* ends of processes

(* The ranks do not run out: behind all the players that can come there is *)
(* room for the fakes of one list.                                         *)
ASSUME ArenaAssumption ==
  /\ IsFiniteSet(Players) /\ Players \cap Nat = {}
  /\ {SHOW_RANK_COUNT, MAX_CREATE_OPPONENT, LastRank} \subseteq Nat
  /\ 0 < SHOW_RANK_COUNT /\ SHOW_RANK_COUNT <= MAX_CREATE_OPPONENT /\ 5 <= MAX_CREATE_OPPONENT
  /\ {MaxFights, MaxQueue, MaxFaults} \subseteq Nat
  /\ MAX_CREATE_OPPONENT + Cardinality(Players) + MaxFights + 5 <= LastRank

VARIABLES
  game,     \* the memory of the game server, the link and the fights excepted
  fights,   \* the arena fights of theFightDC, oldest first
  fight_id, \* how many there were, bounded
  saved,    \* the users in the tables
  db,       \* the tables singlearena, singlearena_log and server_info
  up,       \* the link to realdb
  sent,     \* what realdb has to handle
  answers,  \* what the game server has to handle
  faults,   \* counter, bounded
  spoilt    \* history: what has gone wrong

vars == <<game, fights, fight_id, saved, db, up, sent, answers, faults, spoilt>>

(* A user: its best rank, and of history whether a reward for a record was *)
(* paid for a rank that was no better.                                     *)
User        == [best : Nat, again : BOOLEAN]
Record(rank) == [best |-> rank, again |-> FALSE]

(* SSingleArenaInfo: the rank, the best rank, the four.                    *)
EmptyInfo == [cur |-> 0, max |-> 0, opps |-> << >>]

(* The rank an id has in a map, 0 if none.                                 *)
RankIn(ranks, id) == IF id \in DOMAIN ranks THEN ranks[id] ELSE 0

(* CSingleArenaMap (singlearena_show_map is rank_map up to                 *)
(* SHOW_RANK_COUNT); the players counted in a variable of the server; the  *)
(* users; what a handler has written.                                      *)
Memory(users) ==
  [info |-> << >>, rank_map |-> << >>, id_rank |-> << >>, target_guid |-> 0,
   load_log |-> 0, count |-> 0, user |-> users, out |-> << >>]

(* Some players came earlier, each to the last place.                      *)
Init ==
  /\ \E came \in SUBSET Players :
       \E place \in [came -> MAX_CREATE_OPPONENT + 1 .. MAX_CREATE_OPPONENT + Cardinality(came)] :
         /\ IsInjective(place)
         /\ db = [rows |-> place, logs |-> {}, count |-> Cardinality(came)]
         /\ saved = [p \in Players |-> Record(RankIn(place, p))]
  /\ game = Memory(saved)
  /\ fights = << >> /\ fight_id = 0 /\ up = FALSE /\ sent = << >> /\ answers = << >>
  /\ faults = 0 /\ spoilt = {}

-----------------------------------------------------------------------------
(* The ranks: CSingleArenaDC.                                              *)

Put(f, x, y) == [z \in DOMAIN f \cup {x} |-> IF z = x THEN y ELSE f[z]]
Over(f, g)   == [x \in DOMAIN f \cup DOMAIN g |-> IF x \in DOMAIN f THEN f[x] ELSE g[x]]

get_rank_id(w, id) == RankIn(w.id_rank, id)
IsReal(w, rank)    == rank \in DOMAIN w.rank_map /\ w.rank_map[rank] \in Players
Ranked(w, p)       == get_rank_id(w, p) # 0

Place(w, rank, id) ==
  [w EXCEPT !.rank_map = Put(w.rank_map, rank, id), !.id_rank = Put(w.id_rank, id, rank)]
set_info_data(w, p, i) == [w EXCEPT !.info = Put(w.info, p, i)]
SetUser(w, p, u)       == [w EXCEPT !.user = Put(w.user, p, u)]

Write(w, msgs) == [w EXCEPT !.out = w.out \o msgs]
RowMsg(id, rank) == [kind |-> "row", id |-> id, rank |-> rank]   \* Del, then Add
LogMsg(id)       == [kind |-> "log", id |-> id]
CountMsg(n)      == [kind |-> "count", n |-> n]

(* The rank a list shows for a target, and whether a fight is refused      *)
(* because it is not the target's any more.                                *)
Listed(w, p, t) ==
  LET four == IF p \in DOMAIN w.info THEN w.info[p].opps ELSE << >>
      at   == {i \in DOMAIN four : four[i].id = t}
  IN IF at = {} THEN 0 ELSE four[Min(at)].rank

check_rank(w, p, t) ==
  get_rank_id(w, t) = 0 \/ Listed(w, p, t) # get_rank_id(w, t)

-----------------------------------------------------------------------------
(* The four that are offered.                                              *)

TRand(min, max) == IF min < max THEN min..(max - 1) ELSE {min}

(* The shares of the own rank between which each of the four is chosen.    *)
From(rank) == IF rank > 400 THEN <<50, 65, 80, 90>>
              ELSE IF rank >= 11 THEN <<30, 45, 65, 85>> ELSE <<20, 45, 65, 90>>
To(rank)   == IF rank > 400 THEN <<55, 70, 85, 95>>
              ELSE IF rank >= 11 THEN <<35, 55, 75, 95>> ELSE <<35, 55, 75, 90>>
Part(rank, percent) == (rank * percent) \div 100
Share(rank, i) == TRand(Part(rank, From(rank)[i]), Part(rank, To(rank)[i]))

Drawn(rank) ==
  IF rank <= 4 THEN {[i \in 1..4 |-> IF i < rank THEN i ELSE i + 1]}
  ELSE {<<a, b, c, d>> : a \in Share(rank, 1), b \in Share(rank, 2), c \in Share(rank, 3), d \in Share(rank, 4)}

(* Each is moved down past those before it, then past the own rank.        *)
Below(rank, taken) == Min({r \in rank..(rank + 5) : r \notin taken})
Others(four, i)    == {four[j] : j \in 1..4 \ {i}}
PastFirst(four, i) == [four EXCEPT ![i] = Below(four[i], {four[j] : j \in 1..(i - 1)})]
Apart(four)        == PastFirst(PastFirst(PastFirst(four, 2), 3), 4)
PastOwn(rank, four, i) ==
  IF four[i] = rank THEN [four EXCEPT ![i] = Below(rank, Others(four, i) \cup {rank})] ELSE four
NotOneself(rank, four) ==
  PastOwn(rank, PastOwn(rank, PastOwn(rank, PastOwn(rank, four, 1), 2), 3), 4)

GetRank(rank) == {NotOneself(rank, Apart(q)) : q \in Drawn(rank)}

CheackFirstRank_kept(w, rank, four, i) == four

(* A player without a rank is offered fakes: the next place up that is     *)
(* free or a fake's; above 0 comes the last one there is.                  *)
CheackFirstRank(w, rank, four, i) ==
  LET fake(r) == r \notin Others(four, i) \cup {rank} /\ ~IsReal(w, r)
      above   == {r \in 0..(four[i] - 1) : fake(r)}
  IN IF ~IsReal(w, four[i]) THEN four
     ELSE [four EXCEPT ![i] = Max(IF above # {} THEN above ELSE {r \in four[i]..LastRank : fake(r)})]
AllFake(w, rank, four) ==
  LET next(q, i) == CheackFirstRank(w, rank, q, i) IN next(next(next(next(four, 1), 2), 3), 4)

OwnRank(w, p) == IF Ranked(w, p) THEN get_rank_id(w, p) ELSE w.count + MAX_CREATE_OPPONENT + 1

Offers(w, p) ==
  LET rank == OwnRank(w, p)
  IN IF Ranked(w, p) THEN GetRank(rank) ELSE {AllFake(w, rank, q) : q \in GetRank(rank)}

CreateOpponent(w, rank) ==
  IF rank \in DOMAIN w.rank_map THEN w
  ELSE Place([w EXCEPT !.target_guid = w.target_guid + 1], rank, w.target_guid + 1)

(* All places of a list.                                                   *)
Filled(w, ranks) ==
  LET made[i \in 0..Len(ranks)] == IF i = 0 THEN w ELSE CreateOpponent(made[i - 1], ranks[i])
  IN made[Len(ranks)]

SetInfoOpp(w, p, four) ==
  LET filled == Filled(w, four)
      opps   == [i \in 1..4 |-> [id |-> filled.rank_map[four[i]], rank |-> four[i]]]
  IN set_info_data(filled, p, [cur |-> w.info[p].cur, max |-> w.info[p].max, opps |-> opps])

InfoOf(w, p)  == IF p \in DOMAIN w.info THEN w.info[p] ELSE EmptyInfo
NewInfo(w, p) == set_info_data(w, p, InfoOf(w, p))
SetInfoBase(w, p) ==
  set_info_data(w, p, [cur |-> get_rank_id(w, p), max |-> w.user[p].best, opps |-> InfoOf(w, p).opps])

-----------------------------------------------------------------------------
(* The end of a fight.                                                     *)

AddLog(w, p, t) ==
  IF t \in Players THEN Write(NewInfo(w, t), <<LogMsg(p), LogMsg(t)>>) ELSE Write(w, <<LogMsg(p)>>)

PaidAgain(u, rank) == u.again \/ (u.best # 0 /\ rank >= u.best)

(* The first reward comes with the last place.                             *)
GetFirstReward(w, p) ==
  IF p \notin DOMAIN w.info \/ w.info[p].max # 0 THEN w
  ELSE LET last == w.count + MAX_CREATE_OPPONENT + 1
           paid == SetUser(w, p, [best |-> last, again |-> PaidAgain(w.user[p], last)])
           told == set_info_data(paid, p, [cur |-> last, max |-> last, opps |-> w.info[p].opps])
       IN Write(Place([told EXCEPT !.count = w.count + 1], last, p),
                <<CountMsg(w.count + 1), RowMsg(p, last)>>)

PaidFor(w, p, rank) == SetUser(w, p, [best |-> w.user[p].best, again |-> PaidAgain(w.user[p], rank)])

SendBattleReward_equal(w, p, t, win) ==
  LET i == w.info[p]
      end == Min({i.cur, get_rank_id(w, t)})
  IN IF i.max = 0 THEN GetFirstReward(w, p)
     ELSE IF win /\ i.cur # 0 /\ end <= i.max THEN PaidFor(w, p, end) ELSE w

SendBattleReward(w, p, t, win) ==
  LET i == w.info[p]
      end == Min({i.cur, get_rank_id(w, t)})
  IN IF i.max = 0 THEN GetFirstReward(w, p)
     ELSE IF win /\ i.cur # 0 /\ end < i.max THEN PaidFor(w, p, end) ELSE w

(* The winner takes the place of one that stood higher, who takes its.     *)
Swapped(w, p, t) ==
  LET m    == w.info[p].cur
      h    == get_rank_id(w, t)
      best == Min({w.info[p].max, h})
      told == set_info_data(SetUser(w, p, [best |-> best, again |-> w.user[p].again]), p,
                            [cur |-> h, max |-> best, opps |-> w.info[p].opps])
  IN [told EXCEPT !.rank_map = Put(Put(w.rank_map, h, p), m, w.rank_map[h]),
                  !.id_rank  = Put(Put(w.id_rank, p, h), t, m)]

Shown(w, t, rank) ==
  IF t \in DOMAIN w.info
  THEN set_info_data(w, t, [cur |-> rank, max |-> w.info[t].max, opps |-> w.info[t].opps]) ELSE w

MovesUp(w, p, t, win) == win /\ w.info[p].cur > get_rank_id(w, t)   \* and has a rank

Rows(w, p, t) ==
  LET h == get_rank_id(w, t)
  IN IF t \in Players THEN <<RowMsg(p, h), RowMsg(w.rank_map[h], w.info[p].cur)>> ELSE <<RowMsg(p, h)>>

UpdateRank_shown(w, p, t, win) ==
  IF MovesUp(w, p, t, win) THEN Write(Swapped(w, p, t), Rows(w, p, t)) ELSE w

UpdateRank_winner(w, p, t, win) ==
  IF MovesUp(w, p, t, win)
  THEN Write(Shown(Swapped(w, p, t), t, w.info[p].cur), <<RowMsg(p, get_rank_id(w, t))>>) ELSE w

UpdateRank(w, p, t, win) ==
  IF MovesUp(w, p, t, win)
  THEN Write(Shown(Swapped(w, p, t), t, w.info[p].cur), Rows(w, p, t)) ELSE w

(* CFightSingleArenaMonster::ExtraProc, up to Refresh; what it checks at   *)
(* the application it checks again, as others have fought meanwhile.       *)
ExtraProc(w, p, t, result) ==
  LET logged == IF result = "quit" THEN w ELSE AddLog(w, p, t)   \* a fight quit has no record
  IN UpdateRank(SendBattleReward(logged, p, t, result = "won"), p, t, result = "won")

-----------------------------------------------------------------------------
(* The game server.                                                        *)

Busy == Len(sent) >= MaxQueue

(* A fake gets the number of another.                                      *)
Reused(w) == \E id \in (game.target_guid + 1)..w.target_guid : id \in DOMAIN game.id_rank

Marks(w) == (IF ~up /\ w.out # << >> THEN {"lost"} ELSE {}) \cup (IF Reused(w) THEN {"reused"} ELSE {})

(* What a handler leaves behind.                                           *)
Leaves(w, marks) ==
  /\ game' = [w EXCEPT !.out = << >>]
  /\ sent' = IF up THEN sent \o w.out ELSE sent
  /\ spoilt' = spoilt \cup marks \cup Marks(w)

Refreshed(w, p, marks) == \E four \in Offers(w, p) : Leaves(SetInfoOpp(w, p, four), marks)

Baseless(p) == p \notin DOMAIN game.info \/ game.info[p].opps = << >>

(* The base an info has not been given would tell more than it does.       *)
Misses(p) == p \in DOMAIN game.info /\ Baseless(p) /\ SetInfoBase(game, p) # game

PQSingleArenaInfo(p) ==
  /\ game.load_log = 2 /\ ~Busy
  /\ Refreshed(IF Baseless(p) THEN SetInfoBase(game, p) ELSE game, p, {})
  /\ UNCHANGED <<fights, fight_id, saved, db, up, answers, faults>>

Skips(p) == IF Misses(p) THEN {"skipped"} ELSE {}

(* An info that the logs or the log of an attack left without its base     *)
(* stays without it.                                                       *)
PQSingleArenaRefresh(p) ==
  /\ game.load_log = 2 /\ ~Busy
  /\ Refreshed(IF p \in DOMAIN game.info THEN game ELSE SetInfoBase(game, p), p, Skips(p))
  /\ UNCHANGED <<fights, fight_id, saved, db, up, answers, faults>>

Monster == 0   \* of a fight with nobody of the arena

Start(p, def) ==
  /\ fight_id < MaxFights /\ fight_id' = fight_id + 1
  /\ fights' = Append(fights, [ack |-> p, def |-> def])
  /\ UNCHANGED <<game, saved, db, up, sent, answers, faults, spoilt>>

PQFightSingleArenaApply(p) ==
  \E t \in DOMAIN game.id_rank : ~check_rank(game, p, t) /\ Start(p, t)

PQCommonFightAuto(p) == Start(p, Monster)

FightEnds_unchecked(i, result) ==
  LET p == fights[i].ack
      t == fights[i].def
  IN /\ fights' = RemoveAt(fights, i)
     /\ IF t = Monster \/ p \notin DOMAIN game.info \/ get_rank_id(game, t) = 0 THEN Leaves(game, {})
        ELSE Refreshed(ExtraProc(game, p, t, result), p, {})
     /\ UNCHANGED <<fight_id, saved, db, up, answers, faults>>

FightEnds(i, result) ==
  LET p == fights[i].ack
      t == fights[i].def
      first == GetFirstReward(game, p)
  IN /\ fights' = RemoveAt(fights, i)
     /\ IF t = Monster
        THEN IF first = game THEN Leaves(game, {}) ELSE Refreshed(first, p, Skips(p))
        ELSE \/ Leaves(game, {})   \* another has ended, and it has to wait again
             \/ ~check_rank(game, p, t) /\ Refreshed(ExtraProc(game, p, t, result), p, {})
     /\ UNCHANGED <<fight_id, saved, db, up, answers, faults>>

PRCommonFightServerEnd == ~Busy /\ \E i \in DOMAIN fights, r \in {"won", "lost"} : FightEnds(i, r)

PQPlayerFightQuit ==  \* of the fight the player began last
  /\ ~Busy
  /\ \E i \in DOMAIN fights : (\A j \in DOMAIN fights : j > i => fights[j].ack # fights[i].ack) /\ FightEnds(i, "quit")

UpdateLevel(p) ==  \* and UpdateAvatar, UpdateName, UpdateFightValue
  /\ Ranked(game, p) /\ ~Busy
  /\ LET rank == get_rank_id(game, p) IN Leaves(Write(game, <<RowMsg(game.rank_map[rank], rank)>>), {})
  /\ UNCHANGED <<fights, fight_id, saved, db, up, answers, faults>>

-----------------------------------------------------------------------------
(* The load.  The event of a new link is dispatched by the network thread: *)
(* what came over the one before may still be in the queue.                *)

Load == [kind |-> "load"]

SEventNetRealDB_counting ==
  /\ ~up /\ up' = TRUE
  /\ game' = [game EXCEPT !.target_guid = 0]
  /\ sent' = Append(sent, Load)
  /\ spoilt' = spoilt \cup IF answers # << >> \/ Contains(sent, Load) THEN {"late"} ELSE {}
  /\ UNCHANGED <<fights, fight_id, saved, db, answers, faults>>

SEventNetRealDB ==
  /\ ~up /\ up' = TRUE
  /\ game' = [game EXCEPT !.load_log = 0, !.target_guid = 0]   \* InitLoadLog, InitGuid
  /\ sent' = Append(sent, Load)
  /\ spoilt' = spoilt \cup IF answers # << >> \/ Contains(sent, Load) THEN {"late"} ELSE {}
  /\ UNCHANGED <<fights, fight_id, saved, db, answers, faults>>

Answers == <<CountMsg(db.count), [kind |-> "ranks", rows |-> db.rows], [kind |-> "logs", logs |-> db.logs]>>

SaveData(tables, m) ==
  CASE m.kind = "row"   -> [tables EXCEPT !.rows = Put(tables.rows, m.id, m.rank)]
    [] m.kind = "del"   -> [tables EXCEPT !.rows = [p \in DOMAIN tables.rows \ {m.id} |-> tables.rows[p]]]
    [] m.kind = "log"   -> [tables EXCEPT !.logs = tables.logs \cup {m.id}]
    [] m.kind = "count" -> [tables EXCEPT !.count = m.n]
    [] m.kind = "load"  -> tables

(* The tables after some messages, and once realdb has handled all.        *)
Saved(tables, msgs) ==
  LET done[i \in 0..Len(msgs)] == IF i = 0 THEN tables ELSE SaveData(done[i - 1], msgs[i])
  IN done[Len(msgs)]
Written == Saved(db, sent)

(* The saves that wait at once, up to a load: nobody else reads the tables. *)
Realdb ==
  \E k \in DOMAIN sent :
    /\ \A i \in 1..k : sent[i] = Load => k = 1
    /\ k < Len(sent) => sent[k + 1] = Load \/ sent[1] = Load
    /\ sent' = SubSeq(sent, k + 1, Len(sent))
    /\ db' = Saved(db, SubSeq(sent, 1, k))
    /\ answers' = IF sent[1] = Load /\ up THEN answers \o Answers ELSE answers
    /\ UNCHANGED <<game, fights, fight_id, saved, up, faults, spoilt>>

CreateRank(w) ==
  IF Cardinality({r \in DOMAIN w.rank_map : r <= SHOW_RANK_COUNT}) >= SHOW_RANK_COUNT THEN w
  ELSE Filled(w, [r \in 1..SHOW_RANK_COUNT |-> r])

(* Rows that are not those in memory, or not the last there are when there *)
(* is nothing in memory.                                                   *)
Older(rows) ==
  IF game.id_rank = << >> THEN rows # Written.rows
  ELSE \E p \in DOMAIN rows : \/ p \in DOMAIN game.id_rank /\ game.id_rank[p] # rows[p]
                              \/ rows[p] \in DOMAIN game.rank_map /\ game.rank_map[rows[p]] # p
OlderCount(n) == n # IF game.id_rank = << >> THEN Written.count ELSE game.count

(* The rows replace what is in memory; of two with one rank either is the  *)
(* later.                                                                  *)
LoadData(rows) ==
  LET owners == {f \in [Range(rows) -> DOMAIN rows] : \A r \in DOMAIN f : rows[f[r]] = r}
      loaded(f) == [game EXCEPT !.rank_map = Over(f, game.rank_map), !.id_rank = Over(rows, game.id_rank),
                                !.load_log = game.load_log + 1]
  IN \E f \in owners : Leaves(CreateRank(loaded(f)), IF Older(rows) THEN {"overwritten"} ELSE {})

LoadLog(logs) ==
  Leaves([game EXCEPT !.info = Over(game.info, [p \in logs |-> EmptyInfo]), !.load_log = game.load_log + 1], {})

PRServerInfoList(n) ==
  Leaves([game EXCEPT !.count = n], IF OlderCount(n) THEN {"overwritten"} ELSE {})

Answered ==
  /\ answers # << >> /\ answers' = Tail(answers)
  /\ LET m == Head(answers) IN
     \/ m.kind = "count" /\ PRServerInfoList(m.n)
     \/ m.kind = "ranks" /\ LoadData(m.rows)
     \/ m.kind = "logs" /\ LoadLog(m.logs)
  /\ UNCHANGED <<fights, fight_id, saved, db, up, faults>>

-----------------------------------------------------------------------------
(* Saves of users, and faults.                                             *)

SaveUser(p) ==
  /\ saved[p] # game.user[p] /\ saved' = [saved EXCEPT ![p] = game.user[p]]
  /\ UNCHANGED <<game, fights, fight_id, db, up, sent, answers, faults, spoilt>>

Fault == faults < MaxFaults /\ faults' = faults + 1 /\ up' = FALSE

(* What of the messages is handled or arrives when a process ends: those   *)
(* up to one, perhaps the Del of a row without its Add.                    *)
Torn(k) == k < Len(sent) /\ sent[k + 1].kind = "row"
Cut(k, torn) ==
  SubSeq(sent, 1, k) \o IF torn THEN <<[kind |-> "del", id |-> sent[k + 1].id]>> ELSE << >>
Lost(k) == IF \E i \in (k + 1)..Len(sent) : sent[i] # Load THEN {"lost"} ELSE {}

RealdbEnds ==
  /\ Fault /\ up
  /\ \E k \in 0..Len(sent), torn \in BOOLEAN :
       /\ torn => Torn(k)
       /\ db' = Saved(db, Cut(k, torn)) /\ spoilt' = spoilt \cup Lost(k)
  /\ \E k \in 0..Len(answers) : answers' = SubSeq(answers, 1, k)
  /\ sent' = << >>
  /\ UNCHANGED <<game, fights, fight_id, saved>>

Rolled == IF \E p \in Players : saved[p].best # game.user[p].best THEN {"rolled"} ELSE {}

GameEnds ==
  /\ Fault
  /\ game' = Memory(saved) /\ fights' = << >> /\ answers' = << >>
  /\ \E k \in 0..Len(sent), torn \in BOOLEAN :
       /\ torn => Torn(k)
       /\ sent' = Cut(k, torn) /\ spoilt' = spoilt \cup Lost(k) \cup Rolled
  /\ UNCHANGED <<fight_id, saved, db>>

Next ==
  \/ \E p \in Players :
       \/ PQSingleArenaInfo(p) \/ PQSingleArenaRefresh(p) \/ PQFightSingleArenaApply(p)
       \/ PQCommonFightAuto(p) \/ UpdateLevel(p) \/ SaveUser(p)
  \/ PRCommonFightServerEnd \/ PQPlayerFightQuit
  \/ SEventNetRealDB \/ Realdb \/ Answered
  \/ RealdbEnds \/ GameEnds

Spec == Init /\ [][Next]_vars

-----------------------------------------------------------------------------
(* Properties.                                                             *)

Opponents == [1..4 -> [id : DOMAIN game.id_rank, rank : DOMAIN game.rank_map]]

TypeOK ==
  /\ game.user \in [Players -> User] /\ saved \in [Players -> User] /\ game.out = << >>
  /\ game.count \in Nat /\ game.load_log \in Nat /\ game.target_guid \in Nat
  /\ DOMAIN game.rank_map \subseteq 0..LastRank /\ Range(game.rank_map) \subseteq DOMAIN game.id_rank
  /\ \A p \in DOMAIN game.info : game.info[p].opps \in {<< >>} \cup Opponents
  /\ \A i \in DOMAIN fights : fights[i].ack \in Players
  /\ db.logs \subseteq Players
  /\ spoilt \subseteq {"lost", "late", "overwritten", "reused", "rolled", "skipped"}

Sound(marks) == spoilt \subseteq marks

Holds(w, id) == get_rank_id(w, id) \in DOMAIN w.rank_map /\ w.rank_map[get_rank_id(w, id)] = id

(* Whatever players fight at the same time, and whatever ends and starts   *)
(* again: nobody has two places and no place two owners (the reward of the *)
(* day goes by place), what a player is shown as its rank is its place,    *)
(* its best rank is none below it, and the place a newcomer will get is    *)
(* free.  Each of the five ways of spoilt but "late" breaks this.          *)
Ladder ==
  /\ TypeOK
  /\ Sound({"late"}) =>
       /\ \A id \in DOMAIN game.id_rank : Holds(game, id)
       /\ \A r \in DOMAIN game.rank_map : get_rank_id(game, game.rank_map[r]) = r
       /\ \A p \in DOMAIN game.info : ~Baseless(p) =>
            /\ game.info[p].cur = get_rank_id(game, p) /\ game.info[p].max = game.user[p].best
       /\ \A p \in Players : Ranked(game, p) =>
            /\ game.user[p].best \in 1..get_rank_id(game, p)
            /\ get_rank_id(game, p) <= game.count + MAX_CREATE_OPPONENT

(* The tables follow the memory: with the messages on their way they have  *)
(* every player at its rank and the number of players, after any restart,  *)
(* unless a message was lost or a load has put older rows over newer ones. *)
RowsFollow ==
  Sound({"late", "reused", "rolled", "skipped"}) /\ game.load_log >= 2 =>
    Written.count = game.count /\ \A p \in Players : RankIn(Written.rows, p) = get_rank_id(game, p)

(* A reward for a record is paid once: the first one, and each later one   *)
(* for a better rank than the ones before, in the life of a user that is   *)
(* never rolled back; unless an info was refreshed without its base.       *)
RewardsOnce ==
  Sound({"lost", "late", "overwritten", "reused", "rolled"}) => \A p \in Players : ~game.user[p].again

(* Once the load is through the arena is open; it stays shut only when     *)
(* answers of the link before were counted too.                            *)
Opens ==
  Sound({"lost", "overwritten", "reused", "rolled", "skipped"}) =>
    (up /\ sent = << >> /\ answers = << >> => game.load_log = 2)

Gone == game'.id_rank = << >>   \* a restart

(* Nobody loses a place but to a player that was offered it with its owner *)
(* and takes it, leaving its own: not to an older list, a second fight     *)
(* or a load.                                                              *)
WinsSwap ==
  [][Sound({"late", "lost"})' /\ ~Gone =>
       \A id \in DOMAIN game.id_rank : game'.id_rank[id] # game.id_rank[id] =>
         \E other \in DOMAIN game'.id_rank \ {id} :
           /\ \/ game'.id_rank[id] < game.id_rank[id] /\ Listed(game, id, other) = game'.id_rank[id]
              \/ game'.id_rank[id] > game.id_rank[id] /\ Listed(game, other, id) = game.id_rank[id]
           /\ game'.id_rank[other] = game.id_rank[id]
           /\ get_rank_id(game, other) \in {0, game'.id_rank[id]}]_vars

(* The four are offered at four places, each its owner's and none the      *)
(* player's own; one that has no place yet is offered fakes.               *)
OffersFair ==
  [][\A p \in DOMAIN game'.info : LET four == game'.info[p].opps IN
       four # << >> /\ (p \in DOMAIN game.info => four # game.info[p].opps) =>
         /\ IsInjective([i \in 1..4 |-> four[i].rank])
         /\ \A i \in 1..4 :
              /\ game'.rank_map[four[i].rank] = four[i].id
              /\ IF Ranked(game', p) THEN four[i].rank # get_rank_id(game', p) ELSE four[i].id \notin Players]_vars


=============================================================================
