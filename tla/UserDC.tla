------------------------------- MODULE UserDC -------------------------------
(***************************************************************************)
(* The users of a game server (so_game/user_dc.cpp, raw.cpp): the logic    *)
(* thread keeps them in user_map, asks for those that are missing, puts    *)
(* off the requests that need them, and queues their changed parts for the *)
(* thread CDB (gamesvr/db.cpp), which reads and writes the database.       *)
(*                                                                         *)
(* A user's data is the set of the changes made to it; each belongs to one *)
(* part (one module of SUserData), saved when its md5 is not the one kept  *)
(* in check.  Parts are numbered in the order of raw_map.  Requests from   *)
(* outside are handled at any moment, which stands for any arrival.        *)
(***************************************************************************)
EXTENDS Naturals, SequencesExt, Selection

CONSTANTS
  Users, Parts,
  Simple,      \* the part whose row makes the user exist: SUserData.simple
  Interval,    \* seconds between two saves of a user: 600 in the code
  CloseAge,    \* seconds a save must be old to be repeated at the end: 3
  MaxTime, MaxChanges, MaxWaiting, MaxQueue, MaxFaults   \* bounds

ASSUME UserAssumption ==
  /\ Users \subseteq Nat /\ IsFiniteSet(Users)  \* ids of 32 bits
  /\ Parts \subseteq Nat /\ Simple \in Parts
  /\ {Interval, CloseAge, MaxTime, MaxChanges, MaxWaiting, MaxQueue, MaxFaults} \subseteq Nat

VARIABLES
  status,     \* of the process: "up", "closing" (PRServerClose handled), "ended" (CMsg), "stopped"
  now,        \* server::local_time
  user_map,   \* the users in memory
  defer_map,  \* requests put off until their user is loaded
  msg_list,   \* messages to the logic thread
  list,       \* those it has swapped out and is running
  load_list, save_list,   \* what CDB is asked to do
  cdb,        \* where CDB is: "load", "loading", "save", "saving"
  copy_list,  \* what it is doing
  work,       \* the tables as the connection of CDB sees them
  table,      \* the tables as committed
  file,       \* the files of user_dir
  changes, faults,        \* counters, bounded
  overtaken,  \* history: users that were removed while one of their loads was under way
  forgone,    \* history: changes of each user that a save or load has given up
  refused     \* history: loads that brought no user

logic   == <<user_map, defer_map, msg_list, list, changes, overtaken>>
disk    == <<work, table>>
vars    == <<status, now, logic, load_list, save_list, cdb, copy_list, disk, file, faults, forgone, refused>>

Change  == [part : Parts, nr : 0..MaxChanges, met : BOOLEAN]  \* met: made through find
SUser   == [data : SUBSET Change, check : SUBSET Change, meet_time : Nat, save_time : Nat]
Request == [type : {"login", "off"}, guid : Users, nr : Nat]
Loaded  == [type : {"load"}, guid : Users, data : SUBSET Change, created : BOOLEAN]
Load    == [guid : Users, create : BOOLEAN]
Save    == [guid : Users, parts : SUBSET Parts, data : SUBSET Change]
NoData  == [u \in Users |-> {}]

(* A new user has team_level one, and every later change of the part       *)
(* simple stands for a higher one.                                         *)
team_level(data) == Cardinality({c \in data : c.part = Simple})
InitChange       == [part |-> Simple, nr |-> 0, met |-> FALSE]
Grown            == {InitChange, [part |-> Simple, nr |-> 0, met |-> TRUE]}

Present(u) == u \in DOMAIN user_map
Alive      == status \in {"up", "closing"}

Init ==
  /\ status = "up" /\ now = Interval /\ user_map = << >>
  /\ defer_map = [u \in Users |-> << >>] /\ msg_list = << >> /\ list = << >>
  /\ load_list = << >> /\ save_list = << >> /\ cdb = "load" /\ copy_list = << >>
  /\ \E old \in SUBSET Users : work = [u \in Users |-> IF u \in old THEN Grown ELSE {}]
  /\ table = work /\ file = << >>
  /\ changes = 0 /\ faults = 0 /\ overtaken = {} /\ forgone = NoData /\ refused = {}

-----------------------------------------------------------------------------
(* Data, and the parts of it that a save writes.                           *)

Of(data, p) == {c \in data : c.part = p}
Parts_of(data, parts) == {c \in data : c.part \in parts}
Changed(user) == {p \in Parts : Of(user.data, p) # Of(user.check, p)}

get_save_string(u, user) ==
  [guid |-> u, parts |-> Changed(user), data |-> Parts_of(user.data, Changed(user))]

(* save of several users at once: what it queues, writes and remembers.    *)
Savable(us) == {u \in us : Changed(user_map[u]) # {}}

save(us) ==
  /\ user_map' = [u \in DOMAIN user_map |->
       IF u \in us THEN [user_map[u] EXCEPT !.save_time = now, !.check = user_map[u].data] ELSE user_map[u]]
  /\ save_list' = save_list \o [i \in 1..Cardinality(Savable(us)) |->
       LET u == Ascending(Savable(us))[i] IN get_save_string(u, user_map[u])]
  /\ file' = [u \in Savable(us) \cup DOMAIN file |-> IF u \in Savable(us) THEN user_map[u].data ELSE file[u]]

(* find sets meet_time; a handler then changes at most one part.           *)
find(user) == [user EXCEPT !.meet_time = now]
New(met)   == {{}} \cup {{[part |-> p, nr |-> changes + 1, met |-> met]} :
                           p \in IF changes < MaxChanges THEN Parts ELSE {}}

(* save_once passes over users not met since their last save.  (Variants   *)
(* of operators, here and below, are the mistakes the runs are tried with.) *)
Visited_after(user) == user.save_time < user.meet_time
Visited(user) == user.save_time <= user.meet_time

-----------------------------------------------------------------------------
(* Requests of users, by the handlers of the logic thread.                 *)

post_load_always(l) == Append(load_list, l)
post_load(l) == IF l \in ToSet(load_list) THEN load_list ELSE Append(load_list, l)

queue      == list \o msg_list
Asks(m, u) == m.guid = u /\ m.type # "load"
Waiting(u) == {m \in ToSet(queue) : Asks(m, u)} \cup ToSet(defer_map[u])
Serial(u)  == 1 + Max({0} \cup {m.nr : m \in Waiting(u)})

Defer(type, u) ==
  /\ ~Present(u)
  /\ load_list' = post_load([guid |-> u, create |-> type = "login"])
  /\ defer_map' = [defer_map EXCEPT ![u] = Append(@, [type |-> type, guid |-> u, nr |-> Serial(u)])]
  /\ UNCHANGED <<user_map, changes, refused>>

(* PQSystemLogin looks into user_map itself; QU_ON and QU_OFF use find.    *)
Serve(type, u) ==
  /\ Present(u)
  /\ \E new \in New(type = "off") :
       LET user == IF type = "off" THEN find(user_map[u]) ELSE user_map[u] IN
       /\ user_map' = [user_map EXCEPT ![u] = [user EXCEPT !.data = @ \cup new]]
       /\ changes' = changes + Cardinality(new)
  /\ UNCHANGED <<defer_map, load_list, refused>>

Handle(type, u) == Defer(type, u) \/ Serve(type, u)
quiet == <<status, now, save_list, cdb, copy_list, disk, file, faults, overtaken, forgone>>

Arrive(type, u) ==
  /\ Alive /\ Serial(u) <= MaxWaiting
  /\ Handle(type, u)
  /\ UNCHANGED <<quiet, msg_list, list>>

RunRequest ==
  /\ Alive /\ list # << >> /\ Head(list).type # "load"
  /\ Handle(Head(list).type, Head(list).guid)
  /\ list' = Tail(list)
  /\ UNCHANGED <<quiet, msg_list>>

Swap ==  \* CMsg::Run
  /\ Alive /\ list = << >> /\ msg_list # << >>
  /\ list' = msg_list /\ msg_list' = << >>
  /\ UNCHANGED <<quiet, user_map, defer_map, load_list, changes, refused>>

-----------------------------------------------------------------------------
(* PRSystemUserLoad: the answer of CDB.  dispatch_defer sends the requests *)
(* put off, last first, each to the front of the queue.                    *)

NewUser_late(data, created) ==
  LET init == IF created THEN data \cup {InitChange} ELSE data
  IN [data |-> init, check |-> init, meet_time |-> 0, save_time |-> 0]

NewUser(data, created) ==
  [data |-> IF created THEN data \cup {InitChange} ELSE data,
   check |-> data, meet_time |-> 0, save_time |-> 0]

dispatch_defer_forward(u) ==
  /\ msg_list' = Reverse(defer_map[u]) \o msg_list
  /\ defer_map' = [defer_map EXCEPT ![u] = << >>]

dispatch_defer(u) ==
  /\ msg_list' = defer_map[u] \o msg_list
  /\ defer_map' = [defer_map EXCEPT ![u] = << >>]

PRSystemUserLoad ==
  /\ Alive /\ list # << >> /\ Head(list).type = "load"
  /\ list' = Tail(list)
  /\ LET m == Head(list)
         u == m.guid
         restored == team_level(m.data) <= 1 /\ u \in DOMAIN file
         data == IF restored THEN file[u] ELSE m.data
     IN IF Present(u)
        THEN /\ user_map' = [user_map EXCEPT ![u] = find(user_map[u])]
             /\ UNCHANGED <<msg_list, defer_map, forgone>>
        ELSE /\ user_map' = [v \in {u} \cup DOMAIN user_map |->
                  IF v = u THEN NewUser(data, m.created /\ ~restored) ELSE user_map[v]]
             /\ forgone' = [forgone EXCEPT ![u] = @ \cup (data \ m.data) \cup (m.data \ data)]
             /\ dispatch_defer(u)
  /\ refused' = {l \in refused : defer_map'[l.guid] # << >>}
  /\ UNCHANGED <<status, now, load_list, save_list, cdb, copy_list, disk, file, changes, faults, overtaken>>

-----------------------------------------------------------------------------
(* The timers and the failures of the logic thread.                        *)

others == <<now, msg_list, list, load_list, cdb, copy_list, disk, changes, forgone>>
Refused(defers) == {l \in refused : defers[l.guid] # << >>}

user_save_timer ==
  LET due == {u \in DOMAIN user_map : Visited(user_map[u]) /\ user_map[u].save_time + Interval <= now}
  IN /\ Alive /\ list = << >> /\ due # {}
     /\ save(due)
     /\ UNCHANGED <<others, status, defer_map, faults, overtaken, refused>>

user_defer_timeout_check(u) ==  \* the oldest have waited 60 seconds
  /\ Alive /\ list = << >>
  /\ \E n \in DOMAIN defer_map[u] :
       defer_map' = [defer_map EXCEPT ![u] = SubSeq(@, n + 1, Len(@))]
  /\ refused' = Refused(defer_map')
  /\ UNCHANGED <<others, status, user_map, save_list, file, faults, overtaken>>

UnderWay(u) ==
  \/ cdb = "loading" /\ \E l \in ToSet(copy_list) : l.guid = u
  \/ \E m \in ToSet(queue) : m.type = "load" /\ m.guid = u

quit_force(u) ==  \* a handler of the user failed
  /\ Alive /\ faults < MaxFaults
  /\ Present(u) \/ defer_map[u] # << >>
  /\ user_map' = [v \in DOMAIN user_map \ {u} |-> user_map[v]]
  /\ defer_map' = [defer_map EXCEPT ![u] = << >>] /\ refused' = Refused(defer_map')
  /\ overtaken' = IF UnderWay(u) THEN overtaken \cup {u} ELSE overtaken
  /\ faults' = faults + 1
  /\ UNCHANGED <<others, status, save_list, file>>

Reload ==  \* the library is exchanged: defer_map is no data of TDC and is lost
  /\ Alive /\ list = << >> /\ cdb \notin {"loading", "saving"}
  /\ defer_map' = [u \in Users |-> << >>] /\ refused' = {}
  /\ UNCHANGED <<others, status, user_map, save_list, file, faults, overtaken>>

PRServerClose ==
  /\ status = "up" /\ status' = "closing"
  /\ save({u \in DOMAIN user_map : Visited(user_map[u]) /\ user_map[u].save_time + CloseAge <= now})
  /\ UNCHANGED <<others, defer_map, faults, overtaken, refused>>

EndThread ==  \* of CMsg: nobody reads its data any more
  /\ status = "closing" /\ list = << >> /\ msg_list = << >>
  /\ status' = "ended"
  /\ user_map' = << >> /\ defer_map' = [u \in Users |-> << >>] /\ overtaken' = {} /\ refused' = {}
  /\ UNCHANGED <<others, save_list, file, faults>>

-----------------------------------------------------------------------------
(* CDB::Run.                                                               *)

unmoved == <<now, user_map, defer_map, list, changes, overtaken, file>>

Held_never(l) == FALSE
Held(l) == \E s \in ToSet(save_list) : s.guid = l.guid

do_load_event ==
  /\ cdb = "load" /\ Alive
  /\ LET free == {i \in DOMAIN load_list : ~Held(load_list[i])} IN
     IF free = {} THEN cdb' = "save" /\ UNCHANGED <<load_list, copy_list>>
     ELSE /\ cdb' = "loading" /\ copy_list' = Pick(load_list, free)
          /\ load_list' = Pick(load_list, DOMAIN load_list \ free)
  /\ UNCHANGED <<unmoved, status, msg_list, save_list, disk, faults, forgone, refused>>

Next_of(s, step) == IF Len(s) = 1 THEN "load" ELSE step

load_to_msg ==
  /\ cdb = "loading"
  /\ copy_list' = Tail(copy_list) /\ cdb' = Next_of(copy_list, "loading")
  /\ LET l == Head(copy_list)
         u == l.guid
         exists == Of(work[u], Simple) # {}
         data == IF exists THEN work[u] ELSE {c \in work[u] : c.part < Simple}
     IN \/ /\ exists \/ l.create
           /\ Len(queue) < MaxQueue
           /\ msg_list' = Append(msg_list, [type |-> "load", guid |-> u, data |-> data, created |-> ~exists])
           /\ forgone' = [forgone EXCEPT ![u] = @ \cup (work[u] \ data)]
           /\ UNCHANGED <<refused, faults>>
        \/ /\ ~exists /\ ~l.create
           /\ refused' = refused \cup (IF defer_map[u] # << >> THEN {l} ELSE {})
           /\ UNCHANGED <<msg_list, forgone, faults>>
        \/ /\ faults < MaxFaults /\ faults' = faults + 1  \* an error of the database
           /\ refused' = refused \cup (IF defer_map[u] # << >> THEN {l} ELSE {})
           /\ UNCHANGED <<msg_list, forgone>>
  /\ UNCHANGED <<unmoved, status, load_list, save_list, disk>>

do_save_event ==
  /\ cdb = "save"
  /\ cdb' = IF save_list = << >> THEN "load" ELSE "saving"
  /\ copy_list' = save_list /\ save_list' = << >>
  /\ UNCHANGED <<unmoved, status, msg_list, load_list, disk, faults, forgone, refused>>

Put(db, s) == [db EXCEPT ![s.guid] = {c \in @ : c.part \notin s.parts} \cup s.data]

(* What an error in one statement leaves in the transaction: the parts     *)
(* before, and of the part of the statement everything or nothing, for it  *)
(* is deleted and then inserted.  "roolback" is no statement of MySQL.     *)
Half(s, p, gone) ==
  LET done == {q \in s.parts : q < p} IN
  [guid |-> s.guid, parts |-> done \cup gone, data |-> Parts_of(s.data, done)]

Halves(s) == UNION {{Half(s, p, {}), Half(s, p, {p})} : p \in s.parts}

save_to_db ==
  /\ cdb = "saving"
  /\ copy_list' = Tail(copy_list) /\ cdb' = Next_of(copy_list, "saving")
  /\ LET s == Head(copy_list)
         u == s.guid
     IN \/ /\ work' = Put(work, s) /\ table' = Put(work, s)
           /\ forgone' = [forgone EXCEPT ![u] = @ \ s.data]
           /\ UNCHANGED faults
        \/ /\ faults < MaxFaults /\ faults' = faults + 1
           /\ forgone' = [forgone EXCEPT ![u] = @ \cup s.data]
           /\ \/ UNCHANGED disk                            \* at "start transaction"
              \/ table' = work /\ work' = Put(work, s)     \* at "commit"
              \/ table' = work /\ \E h \in Halves(s) : work' = Put(work, h)
  /\ UNCHANGED <<unmoved, status, msg_list, load_list, save_list, refused>>

EndDB ==  \* CDB sees EStop between two rounds
  /\ status = "ended" /\ cdb = "load"
  /\ status' = "stopped"
  /\ UNCHANGED <<unmoved, msg_list, load_list, save_list, cdb, copy_list, disk, faults, forgone, refused>>

ConnectionLost ==  \* sql::get connects again; what was not committed is gone
  /\ work # table
  /\ work' = table
  /\ UNCHANGED <<unmoved, status, msg_list, load_list, save_list, cdb, copy_list, table, faults, forgone, refused>>

Restart ==  \* a second after the ordered end at the earliest, or after a crash at any moment
  /\ IF status = "stopped" THEN now < MaxTime /\ now' = now + 1 /\ UNCHANGED faults
     ELSE faults < MaxFaults /\ faults' = faults + 1 /\ UNCHANGED now
  /\ status' = "up" /\ user_map' = << >>
  /\ defer_map' = [u \in Users |-> << >>] /\ msg_list' = << >> /\ list' = << >>
  /\ load_list' = << >> /\ save_list' = << >> /\ cdb' = "load" /\ copy_list' = << >>
  /\ work' = table
  /\ overtaken' = {} /\ refused' = {}
  /\ UNCHANGED <<table, file, changes, forgone>>

Tick ==
  /\ now < MaxTime /\ now' = now + 1
  /\ UNCHANGED <<status, logic, load_list, save_list, cdb, copy_list, disk, file, faults, forgone, refused>>

Next ==
  \/ \E u \in Users : Arrive("login", u) \/ Arrive("off", u) \/ quit_force(u) \/ user_defer_timeout_check(u)
  \/ RunRequest \/ Swap \/ PRSystemUserLoad
  \/ user_save_timer \/ Reload
  \/ PRServerClose \/ EndThread \/ EndDB \/ Restart
  \/ do_load_event \/ load_to_msg \/ do_save_event \/ save_to_db \/ ConnectionLost
  \/ Tick

Spec == Init /\ [][Next]_vars

-----------------------------------------------------------------------------
(* Properties.                                                             *)

(* Every variable has its type, and no load is asked for twice.            *)
TypeOK ==
  /\ status \in {"up", "closing", "ended", "stopped"} /\ now \in Nat
  /\ DOMAIN user_map \subseteq Users /\ \A u \in DOMAIN user_map : user_map[u] \in SUser
  /\ defer_map \in [Users -> Seq(Request)]
  /\ list \in Seq(Request \cup Loaded) /\ msg_list \in Seq(Request \cup Loaded)
  /\ load_list \in Seq(Load) /\ IsInjective(load_list) /\ save_list \in Seq(Save)
  /\ \/ cdb \in {"load", "save"} /\ copy_list = << >>
     \/ cdb = "loading" /\ copy_list \in Seq(Load) \ {<< >>}
     \/ cdb = "saving" /\ copy_list \in Seq(Save) \ {<< >>}
  /\ {work, table, forgone} \subseteq [Users -> SUBSET Change]
  /\ DOMAIN file \subseteq Users /\ \A u \in DOMAIN file : file[u] \subseteq Change
  /\ changes \in 0..MaxChanges /\ faults \in 0..MaxFaults
  /\ overtaken \subseteq Users /\ refused \subseteq Load

(* What CDB will have written of a user when its queues are empty.         *)
Saves(u) == {s \in ToSet(save_list) \cup (IF cdb = "saving" THEN ToSet(copy_list) ELSE {}) : s.guid = u}
Known(u) == work[u] \cup UNION {s.data : s \in Saves(u)}

(* Nothing that happened to a user in memory is taken for saved without    *)
(* being saved: a part whose md5 is the one in check is in the database,   *)
(* on its way to it, or was part of a save or load that failed; unless the *)
(* user was ever removed by quit_force while a load of it was under way.   *)
Kept ==
  \A u \in DOMAIN user_map \ overtaken : \A c \in user_map[u].data :
    c.part \in Changed(user_map[u]) \/ c \in Known(u) \cup forgone[u]

(* A change by a request that goes through find is never passed over by    *)
(* save_once for good: the user counts as met since its last save.         *)
DirtyIsVisited ==
  \A u \in DOMAIN user_map :
    (\E c \in user_map[u].data : c.met /\ c.part \in Changed(user_map[u]) /\ c \notin user_map[u].check)
      => Visited(user_map[u])

(* A user comes back to memory with everything that was saved or queued    *)
(* for it, whatever the order of loads, saves and removals, unless it was  *)
(* ever removed by quit_force while a load of it was under way.            *)
Fresh ==
  \A u \in DOMAIN user_map \ overtaken : Known(u) \subseteq user_map[u].data \cup forgone[u]

NoneStranded ==
  \A u \in Users : defer_map[u] # << >> =>
    LET login == \E d \in ToSet(defer_map[u]) : d.type = "login"
        asked == ToSet(load_list) \cup (IF cdb = "loading" THEN ToSet(copy_list) ELSE {})
    IN /\ ~Present(u)
       /\ \/ \E m \in ToSet(queue) : m.type = "load" /\ m.guid = u
          \/ \E l \in asked : l.guid = u /\ (login => l.create)
          \/ \E l \in refused : l.guid = u /\ (login => l.create)

InOrder ==
  \A u \in Users \ overtaken : \A i, j \in DOMAIN queue :
    i < j /\ Asks(queue[i], u) /\ Asks(queue[j], u) => queue[i].nr < queue[j].nr

(* A request put off waits only while its user is missing, and then its    *)
(* load is asked for, under way or answered, or has ended without an       *)
(* answer: the database failed, or it has no such user and the load may    *)
(* not create one.  Nothing but the timeout of 60 seconds, a handler that  *)
(* fails or a later load ends that wait (db.cpp:150).  A login waits only  *)
(* for a load that may create its user.  Where the requests of a user are  *)
(* in the queue, they are in the order they were put off.                  *)
Deferred == NoneStranded /\ InOrder

=============================================================================
