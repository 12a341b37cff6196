-------------------------------- MODULE Mail --------------------------------
(* The mail of one role (so_game/mail_*.cpp, so_realdb/mail_pro.cpp).  Mails to
   everyone are rows of realdb with ids from 1 up; a role remembers the last one
   it has (mail_auto_id) and asks for those after it at a login, and when realdb
   tells of a new one.  Mails to a role are posted to the game server itself and
   get the largest id in the box plus one.

   A load and a save of the role are one step each; UserDC has what happens in
   between.  Every mail has an attachment; how it finds room is in Bag.          *)
EXTENDS Naturals, FiniteSetsExt, SequencesExt

CONSTANTS
    MaxRows,     \* bound: mails to everyone; also the last id such a mail may have (1000000)
    MaxPosts,    \* bound: mails to the role
    MaxMails,    \* bound: mails in all
    MaxQueue,    \* bound: messages on the link when a login adds one
    MaxAsked,    \* bound: requests of the client under way
    MaxFaults    \* bound: breaks of the link, ends of the game server, handlers that fail;
                 \* the role is saved as long as one of them may bring the saved one back

ASSUME MailAssumption == {MaxRows, MaxPosts, MaxMails, MaxQueue, MaxAsked, MaxFaults} \subseteq Nat

VARIABLES
    rows,            \* mailinfo, role_id 0: ids 1..rows
    system_mail_id,  \* CMail: the last id the game server knows of
    role,            \* the tables of the role, NoRole before it is created
    user,            \* the role in memory, NoRole when it is not loaded
    online,          \* its client is logged in
    role_id,         \* ext.role_id is set: it logged in since it was loaded
    toReal, toGame,  \* the link between the game server and realdb
    posts,           \* PRMailWriteLocal on the way, or put off until the role is loaded
    asked,           \* requests of the client
    sent,            \* how many mails were sent to the role
    faults,
    due,             \* history: the last mail to everyone that a role online should come to have
    overtaken        \* history: what of the role was under way when quit_force removed it

vars == <<rows, system_mail_id, role, user, online, role_id, toReal, toGame, posts, asked, sent, faults, due, overtaken>>

NoRole == <<>>
Loaded == user # NoRole

(* A mail is known by its stamp: the id of a mail to everyone, a number of its
   own, above those, for a mail to the role.  had, gone and since are history:
   what was put into the box, what the player deleted, and auto at the start.    *)
Stamps == 1..(MaxRows + MaxPosts)
Box == UNION {[ids -> [stamp : Stamps, taken : BOOLEAN]] : ids \in SUBSET Stamps}
Role == [auto : 0..MaxRows, mail_map : Box, coin : Nat, had : SUBSET Stamps, gone : SUBSET Stamps,
         got : SUBSET Stamps, since : 0..MaxRows]

Init ==
    /\ rows = 0 /\ system_mail_id = 0
    /\ role = NoRole /\ user = NoRole /\ online = FALSE /\ role_id = FALSE
    /\ toReal = <<[type |-> "GetSystemId"]>> /\ toGame = <<>>
    /\ posts = <<>> /\ asked = <<>> /\ sent = 0
    /\ faults = 0 /\ due = 0 /\ overtaken = {}

-----------------------------------------------------------------------------
(* The box.                                                                   *)

Ids(u) == DOMAIN u.mail_map

alloc_id_low(u) == Max(Ids(u) \union {0}) + 1

alloc_id(u) == Max(Ids(u) \union {MaxRows}) + 1

Put(box, id, stamp) == [i \in DOMAIN box \union {id} |-> IF i = id THEN [stamp |-> stamp, taken |-> FALSE] ELSE box[i]]

\* PRMailSystemTake: those after auto that are not in the box; auto becomes the last.
BoxWith(u, new, last) ==
    [u EXCEPT !.mail_map = [i \in Ids(u) \union new |-> IF i \in new THEN [stamp |-> i, taken |-> FALSE] ELSE u.mail_map[i]],
              !.had = @ \union new, !.auto = last]

Received_again(u, list) == BoxWith(u, list \ Ids(u), Max({u.auto} \union list))

Received_one(u, list) ==
    LET later == {id \in list : id <= MaxRows /\ id > u.auto}
    IN IF later = {} THEN u ELSE BoxWith(u, {Min(later)} \ Ids(u), Min(later))

Received(u, list) ==
    LET later == {id \in list : id <= MaxRows /\ id > u.auto}
    IN BoxWith(u, later \ Ids(u), Max({u.auto} \union later))

\* PRMailWriteLocal
Written(u, stamp) == [u EXCEPT !.mail_map = Put(@, alloc_id(u), stamp), !.had = @ \union {stamp}]

\* mail::take of the mails ids, as far as their attachments are not taken yet.
Taken(u, ids) ==
    LET new == {id \in ids : ~u.mail_map[id].taken}
    IN [u EXCEPT !.mail_map = [i \in Ids(u) |-> IF i \in new THEN [u.mail_map[i] EXCEPT !.taken = TRUE] ELSE u.mail_map[i]],
                 !.coin = @ + Cardinality(new), !.got = @ \union {u.mail_map[i].stamp : i \in new}]

Deleted(u, ids) ==
    [u EXCEPT !.mail_map = [i \in Ids(u) \ ids |-> u.mail_map[i]], !.gone = @ \union {u.mail_map[i].stamp : i \in ids}]

-----------------------------------------------------------------------------
(* The link.                                                                  *)

Ask(u) == [type |-> "SystemTake", auto |-> u.auto]

(* The back end has auth send a mail to everyone; realdb writes it.           *)
PQMailSave ==
    /\ rows < MaxRows /\ rows + sent < MaxMails
    /\ rows' = rows + 1
    /\ toGame' = Append(toGame, [type |-> "Save", id |-> rows + 1])
    /\ due' = rows + 1
    /\ UNCHANGED <<system_mail_id, role, user, online, role_id, toReal, posts, asked, sent, faults, overtaken>>

PQMailGetSystemId ==
    /\ toReal # <<>> /\ Head(toReal).type = "GetSystemId"
    /\ toReal' = Tail(toReal)
    /\ toGame' = Append(toGame, [type |-> "GetSystemId", id |-> rows])
    /\ UNCHANGED <<rows, system_mail_id, role, user, online, role_id, posts, asked, sent, faults, due, overtaken>>

PQMailSystemTake ==
    /\ toReal # <<>> /\ Head(toReal).type = "SystemTake"
    /\ LET list == {id \in 1..rows : id > Head(toReal).auto} IN
       toGame' = IF list = {} THEN toGame ELSE Append(toGame, [type |-> "SystemTake", data |-> list])
    /\ toReal' = Tail(toReal)
    /\ UNCHANGED <<rows, system_mail_id, role, user, online, role_id, posts, asked, sent, faults, due, overtaken>>

PRMailGetSystemId ==
    /\ toGame # <<>> /\ Head(toGame).type = "GetSystemId"
    /\ system_mail_id' = Head(toGame).id
    /\ toGame' = Tail(toGame)
    /\ UNCHANGED <<rows, role, user, online, role_id, toReal, posts, asked, sent, faults, due, overtaken>>

\* Every user in memory asks, online or not; one that has not logged in since it
\* was loaded asks for the role 0, which gets no answer.
PRMailSave ==
    /\ toGame # <<>> /\ Head(toGame).type = "Save"
    /\ system_mail_id' = Max({system_mail_id, Head(toGame).id})
    /\ toReal' = IF Loaded /\ role_id THEN Append(toReal, Ask(user)) ELSE toReal
    /\ toGame' = Tail(toGame)
    /\ UNCHANGED <<rows, role, user, online, role_id, posts, asked, sent, faults, due, overtaken>>

PRMailSystemTake ==
    /\ toGame # <<>> /\ Head(toGame).type = "SystemTake"
    /\ user' = IF Loaded THEN Received(user, Head(toGame).data) ELSE user
    /\ toGame' = Tail(toGame)
    /\ UNCHANGED <<rows, system_mail_id, role, online, role_id, toReal, posts, asked, sent, faults, due, overtaken>>

-----------------------------------------------------------------------------
(* The role.                                                                  *)

NewRole == [auto |-> system_mail_id, mail_map |-> <<>>, coin |-> 0, had |-> {}, gone |-> {}, got |-> {},
            since |-> system_mail_id]

(* A login: the role is in memory, or is loaded, or is created (SEventUserInit);
   then it asks (SEventUserLogined).                                             *)
Login ==
    /\ ~online /\ Len(toReal) + Len(toGame) < MaxQueue
    /\ user' = CASE Loaded -> user
                 [] ~Loaded /\ role # NoRole -> role
                 [] OTHER -> NewRole
    /\ online' = TRUE /\ role_id' = TRUE
    /\ toReal' = Append(toReal, Ask(user'))
    /\ due' = rows
    /\ UNCHANGED <<rows, system_mail_id, role, toGame, posts, asked, sent, faults, overtaken>>

\* The client goes away; nobody tells the game server.
Logout ==
    /\ online
    /\ online' = FALSE /\ asked' = <<>>
    /\ UNCHANGED <<rows, system_mail_id, role, user, role_id, toReal, toGame, posts, sent, faults, due, overtaken>>

Save ==
    /\ Loaded /\ role # user /\ faults < MaxFaults
    /\ role' = user
    /\ UNCHANGED <<rows, system_mail_id, user, online, role_id, toReal, toGame, posts, asked, sent, faults, due, overtaken>>

\* mail::send, by any of the handlers that write to a role.
Send ==
    /\ sent < MaxPosts /\ rows + sent < MaxMails
    /\ sent' = sent + 1
    /\ posts' = Append(posts, MaxRows + sent + 1)
    /\ UNCHANGED <<rows, system_mail_id, role, user, online, role_id, toReal, toGame, asked, faults, due, overtaken>>

\* It waits for the role to be loaded, and is dropped when there is none.
PRMailWriteLocal ==
    /\ posts # <<>>
    /\ posts' = Tail(posts)
    /\ user' = CASE Loaded -> Written(user, Head(posts))
                 [] ~Loaded /\ role # NoRole -> Written(role, Head(posts))
                 [] OTHER -> NoRole
    /\ UNCHANGED <<rows, system_mail_id, role, online, role_id, toReal, toGame, asked, sent, faults, due, overtaken>>

(* The client asks about a mail it sees, or about all (mail_id 0).            *)
ClientAsks ==
    /\ online /\ Len(asked) < MaxAsked
    /\ \E id \in Ids(user) : asked' = Append(asked, [id |-> id, stamp |-> user.mail_map[id].stamp])
    /\ UNCHANGED <<rows, system_mail_id, role, user, online, role_id, toReal, toGame, posts, sent, faults, due, overtaken>>

PQMailTake ==
    /\ asked # <<>> /\ asked' = Tail(asked)
    /\ user' = IF Loaded THEN Taken(user, {Head(asked).id} \intersect Ids(user)) ELSE user
    /\ UNCHANGED <<rows, system_mail_id, role, online, role_id, toReal, toGame, posts, sent, faults, due, overtaken>>

PQMailDel ==
    /\ asked # <<>> /\ asked' = Tail(asked)
    /\ user' = IF Loaded THEN Deleted(user, {Head(asked).id} \intersect Ids(user)) ELSE user
    /\ UNCHANGED <<rows, system_mail_id, role, online, role_id, toReal, toGame, posts, sent, faults, due, overtaken>>

PQMailTakeAll ==
    /\ online
    /\ user' = Taken(user, Ids(user))
    /\ UNCHANGED <<rows, system_mail_id, role, online, role_id, toReal, toGame, posts, asked, sent, faults, due, overtaken>>

\* Mails whose attachment is not taken stay.
PQMailDelAll ==
    /\ online
    /\ user' = Deleted(user, {id \in Ids(user) : user.mail_map[id].taken})
    /\ UNCHANGED <<rows, system_mail_id, role, online, role_id, toReal, toGame, posts, asked, sent, faults, due, overtaken>>

-----------------------------------------------------------------------------
(* Faults.                                                                    *)

(* The link breaks: what is on it is lost; bound again, the game server asks
   for the last id (SEventNetRealDB).                                            *)
LinkBreaks ==
    /\ faults < MaxFaults
    /\ faults' = faults + 1
    /\ toReal' = <<[type |-> "GetSystemId"]>> /\ toGame' = <<>>
    /\ due' = 0
    /\ UNCHANGED <<rows, system_mail_id, role, user, online, role_id, posts, asked, sent, overtaken>>

\* The game server ends and starts again.
Crash ==
    /\ faults < MaxFaults
    /\ faults' = faults + 1
    /\ system_mail_id' = 0
    /\ user' = NoRole /\ online' = FALSE /\ role_id' = FALSE
    /\ toReal' = <<[type |-> "GetSystemId"]>> /\ toGame' = <<>>
    /\ posts' = <<>> /\ asked' = <<>>
    /\ due' = 0
    /\ UNCHANGED <<rows, role, sent, overtaken>>

\* A handler of a request of the role fails: it is put out of memory as it is.
quit_force ==
    /\ faults < MaxFaults
    /\ faults' = faults + 1
    /\ Loaded
    /\ user' = NoRole /\ online' = FALSE /\ role_id' = FALSE
    /\ overtaken' = overtaken \union
          {what \in {"list", "request"} :
              IF what = "request" THEN asked # <<>>
              ELSE \E m \in ToSet(toReal \o toGame) : m.type = "SystemTake"}
    /\ UNCHANGED <<rows, system_mail_id, role, toReal, toGame, posts, asked, sent, due>>

HandleRealdb == PQMailGetSystemId \/ PQMailSystemTake
HandleGame == PRMailGetSystemId \/ PRMailSave \/ PRMailSystemTake

Next ==
    \/ PQMailSave \/ HandleRealdb \/ HandleGame
    \/ Login \/ Logout \/ Save \/ Send \/ PRMailWriteLocal
    \/ ClientAsks \/ PQMailTake \/ PQMailDel \/ PQMailTakeAll \/ PQMailDelAll
    \/ LinkBreaks \/ Crash \/ quit_force

Spec == Init /\ [][Next]_vars

FairSpec == Spec /\ WF_vars(HandleRealdb) /\ WF_vars(HandleGame)

-----------------------------------------------------------------------------
(* Properties.                                                                *)

Message == [type : {"Save", "GetSystemId"}, id : 0..MaxRows] \union [type : {"SystemTake"}, data : SUBSET (1..MaxRows)]
Question == [type : {"GetSystemId"}] \union [type : {"SystemTake"}, auto : 0..MaxRows]

(* Types: the ids of a box stay within what was sent, since an id that is free
   is used again; the logged in are loaded.                                      *)
TypeOK ==
    /\ rows \in 0..MaxRows /\ system_mail_id \in 0..rows
    /\ role \in {NoRole} \union Role /\ user \in {NoRole} \union Role
    /\ {online, role_id} \subseteq BOOLEAN /\ (online => role_id) /\ (role_id => Loaded)
    /\ toReal \in Seq(Question) /\ toGame \in Seq(Message)
    /\ posts \in Seq(Stamps) /\ asked \in Seq([id : Stamps, stamp : Stamps])
    /\ sent \in 0..MaxPosts /\ faults \in 0..MaxFaults /\ due \in 0..rows
    /\ overtaken \subseteq {"list", "request"}

InBox(u) == {u.mail_map[id].stamp : id \in Ids(u)}

(* In memory as in the tables, over lists that cross, restarts and mails that
   come for a role that is loaded or not: no mail to everyone up to mail_auto_id
   was passed over since the role was created, unless quit_force put an older
   role behind a list that was under way; no mail leaves the box but by its
   player; none is in the box twice or comes back; and each attachment is given
   once (mail_pro.cpp:120, :154, mail_imp.cpp:14, :96, user_dc.cpp:319).          *)
Delivered ==
    /\ TypeOK
    /\ \A u \in {role, user} \ {NoRole} :
        /\ "list" \in overtaken \/ (u.since + 1)..u.auto \subseteq u.had
        /\ u.had = InBox(u) \union u.gone
        /\ InBox(u) \intersect u.gone = {}
        /\ Cardinality(InBox(u)) = Cardinality(Ids(u))
        /\ u.coin = Cardinality(u.got) /\ u.got \subseteq u.had
        /\ \A id \in Ids(u) : u.mail_map[id].taken = (u.mail_map[id].stamp \in u.got)

(* An id that is free is given out again, so that a request can reach another
   mail than the one the player saw: only when the player himself had that one
   deleted by an earlier request, or quit_force took it back in between, and
   never with a mail to everyone (mail_imp.cpp:26).                              *)
WrongOnlyWhenDeleted ==
    \A k \in DOMAIN asked :
        (Loaded /\ asked[k].id \in Ids(user) /\ user.mail_map[asked[k].id].stamp # asked[k].stamp) =>
            (asked[k].stamp \in user.gone \/ "request" \in overtaken) /\ asked[k].id > MaxRows

(* A mail to everyone that realdb told of, or that was there at the login, comes
   to a role that stays logged in unless the link or the game server fails.  A
   role that was loaded later without a login has to wait for one.               *)
CaughtUp ==
    \A k \in 1..MaxRows : due >= k /\ online ~> due < k \/ ~online \/ user.auto >= k

=============================================================================
