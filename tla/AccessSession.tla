---------------------------- MODULE AccessSession ----------------------------
(***************************************************************************)
(* A role's session in the gateway (access/user.cpp, access/master.cpp,    *)
(* so_access/system_pro.cpp, access/cool.cpp).  The role's client talks to *)
(* the gateway over one connection at a time and may lose it; requests and *)
(* answers are numbered, what comes too early is kept and what was sent is *)
(* kept for a while, so that both directions go on over the next           *)
(* connection.  Handlers run on one thread; a connection's end overtakes   *)
(* its messages (CMsg::Send).                                              *)
(*                                                                         *)
(* Numbers of connections are not used again; broadcasts are left out.     *)
(***************************************************************************)
EXTENDS Integers, Sequences, FiniteSets, Functions

CONSTANTS
  BUFFER_MAX,   \* 32 in the code
  MaxSocks,     \* bound on connections
  MaxSessions,  \* bound on sessions
  MaxOrder,     \* bound on the requests of a session
  MaxSaid,      \* bound on what the game server says in a session
  MaxQueue,     \* bound on messages under way to the gateway, per connection
  MaxFaults     \* bound on broken connections, kicks and failed loads

ASSUME SessionAssumption ==
  /\ BUFFER_MAX \in Nat /\ MaxSocks \in Nat /\ MaxSessions \in Nat
  /\ MaxOrder \in Nat /\ MaxSaid \in Nat /\ MaxQueue \in Nat /\ MaxFaults \in Nat

VARIABLES
  \* the gateway
  exists,    \* data_map holds the role
  data,      \* its SData
  sock_map,  \* connections noted as the role's
  cool,      \* connections that are no longer read
  posted,    \* kept requests put back into the message queue
  taken,     \* numbers of the requests taken since the last login (history)
  stray,     \* connections left in sock_map that the role is not bound to (history)
  \* connections
  last_sock,
  open,      \* connections that stand
  closing,   \* ended ones whose end the gateway has not handled
  up, down,  \* per connection: messages under way
  \* the game server
  session,   \* the role's session, made at authentication
  logins,    \* PQSystemLogin under way to the game server
  from_game, \* messages under way from it
  said,      \* messages it has sent since it last answered a login
  \* the client
  client,    \* connection, session and counters (game/receive/rec_system.lua)
  got,       \* what it has processed of it since it was logged in (history)
  faults

gateway == <<exists, data, sock_map, cool, posted, taken, stray>>
net     == <<last_sock, open, closing, up, down>>
game    == <<session, logins, from_game, said>>
vars    == <<gateway, net, game, client, got, faults>>

Socks == 1..MaxSocks
Empty == [i \in {} |-> 0]
EmptyData == [session |-> 0, sock |-> 0, server_order |-> 0, client_order |-> 0,
              server_buff |-> Empty, client_buff |-> Empty]

-----------------------------------------------------------------------------
(* Writing.                                                                *)

\* What is written to a connection that has ended is lost.
Put(s, out) == IF s \in open THEN [down EXCEPT ![s] = @ \o out] ELSE down
Raw(kind)   == [kind |-> kind, order |-> 0, n |-> 0]

\* user::write with an order: the message is kept, of the last BUFFER_MAX.
Kept(buff, order, m) ==
  LET all == [o \in DOMAIN buff \cup {order} |-> IF o = order THEN m ELSE buff[o]]
      first == CHOOSE o \in DOMAIN all : \A x \in DOMAIN all : o <= x
  IN IF Cardinality(DOMAIN all) > BUFFER_MAX THEN Restrict(all, DOMAIN all \ {first}) ELSE all

\* A message takes the next number; number 0 is not kept.
Numbered(d, kind, n) == [kind |-> kind, order |-> d.server_order, n |-> n]
Say(d, m) == [d EXCEPT !.server_order = @ + 1,
                       !.server_buff = IF m.order = 0 THEN @ ELSE Kept(@, m.order, m)]

-----------------------------------------------------------------------------
(* Requests.                                                               *)

check_session(p) == p.session # 0 /\ exists /\ data.session = p.session

\* update_sock; a connection that is replaced is put to cool first.
Bound(d, s) == [d EXCEPT !.sock = s]
update_sock(s) ==
  /\ cool' = IF data.sock \notin {0, s} THEN cool \cup {data.sock} ELSE cool
  /\ sock_map' = IF data.sock = s THEN sock_map ELSE (sock_map \ {data.sock}) \cup {s}

\* Mutant: a number already passed is taken once more.
InTurn_again(d, p) == p.order <= d.client_order

InTurn(d, p) == p.order = d.client_order

\* pack_order_process: the request is taken and the one kept behind it, if
\* there is one, goes back to the queue.
Turn(d, p) == [d EXCEPT !.client_order = @ + 1,
                        !.client_buff = Restrict(@, DOMAIN @ \ {d.client_order + 1})]
Reposted(d) == IF d.client_order + 1 \in DOMAIN d.client_buff
                 THEN <<d.client_buff[d.client_order + 1]>> ELSE <<>>

\* pack_order_push; a role that hoards requests is forgotten.
Hoards(d) == Cardinality(DOMAIN d.client_buff) > BUFFER_MAX
Push(d, p) ==
  IF Hoards(d) THEN EmptyData
  ELSE [d EXCEPT !.client_buff =
          [o \in DOMAIN @ \cup {p.order} |-> IF o = p.order THEN p ELSE @[o]]]

\* The order of requests: d is the role's data, rest the queue of reposted
\* requests and m the answer to a request in its turn.
InOrder(d, p, rest, answer, m) ==
  IF InTurn(d, p) THEN
    /\ data' = IF answer THEN Say(Turn(d, p), m) ELSE Turn(d, p)
    /\ down' = IF answer THEN Put(d.sock, <<m>>) ELSE down
    /\ posted' = rest \o Reposted(d)
    /\ taken' = Append(taken, p.order)
    /\ UNCHANGED exists
  ELSE
    /\ posted' = rest /\ UNCHANGED taken
    /\ IF p.order > d.client_order
         THEN /\ data' = Push(d, p) /\ exists' = ~Hoards(d)
              /\ down' = IF Hoards(d) THEN down ELSE
                   Put(d.sock, <<[kind |-> "order", order |-> 0, n |-> d.client_order]>>)
         ELSE data' = d /\ UNCHANGED <<exists, down>>

\* OnMsgDefaultListen, from outside: requests for the game server.
Listen(s, p, rest) ==
  /\ UNCHANGED <<logins>>
  /\ IF s # 0 /\ s \in cool
       THEN posted' = rest /\ UNCHANGED <<exists, data, sock_map, cool, taken, down>>
     ELSE IF ~check_session(p)
       THEN /\ down' = Put(s, <<Raw("error")>>)
            /\ posted' = rest /\ UNCHANGED <<exists, data, sock_map, cool, taken>>
     ELSE IF s = 0
       THEN InOrder(data, p, rest, FALSE, Raw("none")) /\ UNCHANGED <<sock_map, cool>>
       ELSE InOrder(Bound(data, s), p, rest, FALSE, Raw("none")) /\ update_sock(s)

\* PQSystemPing is answered by the gateway, in the same order.
PQSystemPing(p, rest) ==
  /\ UNCHANGED <<sock_map, cool, logins>>
  /\ IF check_session(p)
       THEN InOrder(data, p, rest, TRUE, Numbered(data, "ping", 0))
       ELSE posted' = rest /\ UNCHANGED <<exists, data, taken, down>>

PQSystemLogin(s, p, rest) ==
  /\ logins' = Append(logins, [session |-> p.session, sock |-> s])
  /\ posted' = rest /\ UNCHANGED <<exists, data, sock_map, cool, taken, down>>

\* resend_buffer: what is kept, from a number on.
Resent(d, order) ==
  LET held == {o \in DOMAIN d.server_buff : o >= order}
  IN [i \in 1..Cardinality(held) |->
        d.server_buff[CHOOSE o \in held : Cardinality({x \in held : x < o}) = i - 1]]

PQSystemResend(p, rest) ==
  /\ posted' = rest /\ UNCHANGED <<exists, data, sock_map, cool, taken, logins>>
  /\ down' = IF check_session(p) /\ p.order \in DOMAIN data.server_buff
               THEN Put(data.sock, Resent(data, p.order))
               ELSE Put(data.sock, <<Raw("error")>>)

Outside(s, p, rest) ==
  CASE p.kind = "req"    -> Listen(s, p, rest)
    [] p.kind = "ping"   -> PQSystemPing(p, rest)
    [] p.kind = "login"  -> PQSystemLogin(s, p, rest)
    [] p.kind = "resend" -> PQSystemResend(p, rest)

\* delete_session, for a hoard or an unusual error, leaves sock_map as it is.
LeavesNoted == stray' = IF exists /\ ~exists' THEN stray \cup sock_map' ELSE stray

\* The next message of a connection, or the next reposted one.
Receive(s) ==
  /\ up[s] # <<>> /\ up' = [up EXCEPT ![s] = Tail(@)]
  /\ Outside(s, Head(up[s]), posted) /\ LeavesNoted
  /\ UNCHANGED <<last_sock, open, closing, session, from_game, said, client, got, faults>>

Repeat ==
  /\ posted # <<>>
  /\ Outside(0, Head(posted), Tail(posted)) /\ LeavesNoted
  /\ UNCHANGED <<up, last_sock, open, closing, session, from_game, said, client, got, faults>>

\* Mutant: the end of a connection is noted, the role stays bound to it.
Close_bound(s) ==
  /\ s \in closing /\ closing' = closing \ {s}
  /\ cool' = cool \cup {s} /\ sock_map' = sock_map \ {s}
  /\ UNCHANGED <<exists, data, posted, taken, stray, last_sock, open, up, down, game, client, got, faults>>

\* Mutant: a role without a connection is marked by -1.
Close_minus(s) ==
  /\ s \in closing /\ closing' = closing \ {s}
  /\ cool' = cool \cup {s} /\ sock_map' = sock_map \ {s}
  /\ data' = IF s \in sock_map /\ exists THEN [data EXCEPT !.sock = -1] ELSE data
  /\ UNCHANGED <<exists, posted, taken, stray, last_sock, open, up, down, game, client, got, faults>>

\* PQAccessEvent, kErrAccessSockClose: reset_sock and cool::append.
Close(s) ==
  /\ s \in closing /\ closing' = closing \ {s}
  /\ cool' = cool \cup {s} /\ sock_map' = sock_map \ {s}
  /\ data' = IF s \in sock_map /\ exists THEN [data EXCEPT !.sock = 0] ELSE data
  /\ stray' = IF s \in sock_map /\ exists /\ data.sock \notin {0, s} THEN stray \cup {data.sock} ELSE stray
  /\ UNCHANGED <<exists, posted, taken, last_sock, open, up, down, game, client, got, faults>>

-----------------------------------------------------------------------------
(* Messages of the game server to the role.                                *)

\* reset_order.
Reset(d) == [d EXCEPT !.server_order = 1, !.client_order = 1,
                      !.server_buff = Empty, !.client_buff = Empty]

PRSystemLogin(m) ==
  /\ exists' = TRUE
  /\ data' = Bound(Reset([data EXCEPT !.session = m.session]), m.sock)
  /\ update_sock(m.sock)
  /\ down' = Put(m.sock, <<[kind |-> "login", order |-> 0, n |-> m.session]>>)
  /\ taken' = <<>>

PRSystemKick ==
  /\ exists' = TRUE /\ data' = [data EXCEPT !.session = 0]
  /\ down' = Put(data.sock, <<Raw("error")>>)
  /\ UNCHANGED <<sock_map, cool, taken>>

\* PRSystemErrCode, kErrSystemUnusualError: delete_session.
UnusualError ==
  /\ exists' = FALSE /\ data' = EmptyData
  /\ down' = Put(data.sock, <<Raw("error")>>)
  /\ UNCHANGED <<sock_map, cool, taken>>

\* Mutant: what is for a role that is offline is dropped.
Forward_online(m) ==
  /\ data' = IF data.sock # 0 THEN Say(data, Numbered(data, "data", m.n)) ELSE data
  /\ down' = IF exists THEN Put(data.sock, <<Numbered(data, "data", m.n)>>) ELSE down
  /\ UNCHANGED <<exists, sock_map, cool, taken>>

\* OnMsgDefaultListen, from the game server; other error codes go this way too.
Forward(m) ==
  /\ data' = IF exists THEN Say(data, Numbered(data, "data", m.n)) ELSE data
  /\ down' = IF exists THEN Put(data.sock, <<Numbered(data, "data", m.n)>>) ELSE down
  /\ UNCHANGED <<exists, sock_map, cool, taken>>

FromGame ==
  /\ from_game # <<>> /\ from_game' = Tail(from_game)
  /\ LET m == Head(from_game)
     IN CASE m.kind = "login"   -> PRSystemLogin(m)
          [] m.kind = "data"    -> Forward(m)
          [] m.kind = "kick"    -> PRSystemKick
          [] m.kind = "unusual" -> UnusualError
  /\ LeavesNoted
  /\ UNCHANGED <<posted, last_sock, open, closing, up, session, logins, said, client, got, faults>>

-----------------------------------------------------------------------------
(* The game server (so_game/system_pro.cpp, user_dc.cpp).                  *)

\* PQSystemLogin: answered when the session is the role's.
GameLogin ==
  /\ logins # <<>> /\ logins' = Tail(logins)
  /\ IF Head(logins).session = session
       THEN /\ from_game' = Append(from_game, [kind |-> "login", session |-> session,
                                               sock |-> Head(logins).sock, n |-> 0])
            /\ said' = 0
       ELSE UNCHANGED <<from_game, said>>
  /\ UNCHANGED <<gateway, net, session, client, got, faults>>

\* Bound: one message under way at a time.
GameSay ==
  /\ from_game = <<>> /\ said < MaxSaid /\ said' = said + 1
  /\ from_game' = Append(from_game, [kind |-> "data", session |-> 0, sock |-> 0, n |-> said'])
  /\ UNCHANGED <<gateway, net, session, logins, client, got, faults>>

GameFault(kind) ==
  /\ faults < MaxFaults /\ faults' = faults + 1
  /\ from_game' = Append(from_game, [kind |-> kind, session |-> 0, sock |-> 0, n |-> 0])
  /\ UNCHANGED <<gateway, net, session, logins, said, client, got>>

-----------------------------------------------------------------------------
(* The client (war/lua: rec_system.lua, interface/system.lua).             *)

Connect == last_sock < MaxSocks /\ last_sock' = last_sock + 1 /\ open' = open \cup {last_sock'}
Packet(kind, sid, order) == [kind |-> kind, session |-> sid, order |-> order]

\* Authentication makes a new session; the client asks to be logged in.
Login ==
  /\ client.sock = 0 /\ ~client.logged
  /\ session < MaxSessions /\ session' = session + 1
  /\ Connect
  /\ up' = [up EXCEPT ![last_sock'] = <<Packet("login", session', 0)>>]
  /\ client' = [client EXCEPT !.sock = last_sock']
  /\ UNCHANGED <<gateway, closing, down, logins, from_game, said, got, faults>>

\* trans.send_msg: a request takes its number, sent or not.
Send(kind) ==
  /\ client.logged /\ client.client_order <= MaxOrder
  /\ kind = "ping" => client.sock # 0
  /\ client.sock # 0 => Len(up[client.sock]) < MaxQueue
  /\ client' = [client EXCEPT !.client_order = @ + 1]
  /\ up' = IF client.sock = 0 THEN up
           ELSE [up EXCEPT ![client.sock] = Append(@, Packet(kind, client.session, client.client_order))]
  /\ UNCHANGED <<gateway, last_sock, open, closing, down, game, got, faults>>

\* PRSystemNetConnected: the first request over a new connection.
Reconnect ==
  /\ client.sock = 0 /\ client.logged /\ client.client_order <= MaxOrder
  /\ Connect
  /\ up' = [up EXCEPT ![last_sock'] = <<Packet("req", client.session, client.client_order)>>]
  /\ client' = [client EXCEPT !.sock = last_sock', !.client_order = @ + 1]
  /\ UNCHANGED <<gateway, closing, down, game, got, faults>>

End(s) == open' = open \ {s} /\ closing' = closing \cup {s}

Expected(order) == order = client.server_order

\* OnListenMsg: numbered messages are processed in their order; the rest is
\* asked for again.  On an error the client ends.  Requests the gateway misses
\* are sent again or not (the client's engine is not part of the repository).
ClientReceive ==
  /\ client.sock # 0 /\ down[client.sock] # <<>>
  /\ down' = [down EXCEPT ![client.sock] = Tail(@)]
  /\ LET s == client.sock
         m == Head(down[s])
     IN IF m.order # 0 THEN
          /\ UNCHANGED <<open, closing>>
          /\ IF client.logged /\ Expected(m.order)
               THEN /\ client' = [client EXCEPT !.server_order = @ + 1]
                    /\ got' = IF m.kind = "data" THEN Append(got, m.n) ELSE got
                    /\ UNCHANGED up
               ELSE /\ up' = IF client.logged /\ m.order > client.server_order
                               THEN [up EXCEPT ![s] = Append(@, Packet("resend", client.session,
                                                                       client.server_order))]
                               ELSE up
                    /\ UNCHANGED <<client, got>>
        ELSE CASE m.kind = "login" ->
                    /\ client' = [sock |-> s, session |-> m.n, logged |-> TRUE,
                                  client_order |-> 1, server_order |-> 1]
                    /\ got' = <<>> /\ UNCHANGED <<up, open, closing>>
               [] m.kind = "order" ->
                    /\ up' \in {up, [up EXCEPT ![s] = Append(@, Packet("req", client.session, m.n))]}
                    /\ UNCHANGED <<client, got, open, closing>>
               [] m.kind = "error" ->
                    /\ End(s) /\ client' = [client EXCEPT !.sock = 0, !.logged = FALSE]
                    /\ up' \in {[up EXCEPT ![s] = SubSeq(@, 1, i)] : i \in 0..Len(up[s])}
                    /\ UNCHANGED got
  /\ UNCHANGED <<gateway, last_sock, game, faults>>

\* The connection is lost with what has not arrived.
Break(arrived) ==
  /\ faults < MaxFaults /\ faults' = faults + 1
  /\ client.sock # 0 /\ End(client.sock)
  /\ up' = [up EXCEPT ![client.sock] = SubSeq(@, 1, arrived)]
  /\ down' = [down EXCEPT ![client.sock] = <<>>]
  /\ client' = [client EXCEPT !.sock = 0]
  /\ UNCHANGED <<gateway, last_sock, game, got>>

-----------------------------------------------------------------------------
Init ==
  /\ exists = FALSE /\ data = EmptyData /\ sock_map = {} /\ cool = {} /\ posted = <<>> /\ taken = <<>>
  /\ stray = {}
  /\ last_sock = 0 /\ open = {} /\ closing = {}
  /\ up = [s \in Socks |-> <<>>] /\ down = [s \in Socks |-> <<>>]
  /\ session = 0 /\ logins = <<>> /\ from_game = <<>> /\ said = 0
  /\ client = [sock |-> 0, session |-> 0, logged |-> FALSE, client_order |-> 1, server_order |-> 1]
  /\ got = <<>> /\ faults = 0

Next ==
  \/ \E s \in Socks : Receive(s) \/ Close(s)
  \/ Repeat \/ FromGame \/ GameLogin \/ GameSay \/ GameFault("kick") \/ GameFault("unusual")
  \/ Login \/ Send("req") \/ Send("ping") \/ Reconnect \/ ClientReceive
  \/ client.sock # 0 /\ \E i \in 0..Len(up[client.sock]) : Break(i)

Spec == Init /\ [][Next]_vars

-----------------------------------------------------------------------------
(* Properties.                                                             *)

Requests == [kind : {"req", "ping", "login", "resend"}, session : Nat, order : Nat]
Messages == [kind : {"data", "ping", "login", "order", "error"}, order : Nat, n : Nat]

\* Every variable has its type.
TypeOK ==
  /\ exists \in BOOLEAN /\ data.session \in Nat /\ data.sock \in Socks \cup {0}
  /\ data.server_order \in Nat /\ data.client_order \in Nat
  /\ data.server_buff \in [DOMAIN data.server_buff -> Messages]
  /\ data.client_buff \in [DOMAIN data.client_buff -> Requests]
  /\ sock_map \subseteq Socks /\ cool \subseteq Socks /\ open \subseteq Socks /\ closing \subseteq Socks
  /\ posted \in Seq(Requests) /\ taken \in Seq(Nat) /\ stray \subseteq Socks
  /\ up \in [Socks -> Seq(Requests)] /\ down \in [Socks -> Seq(Messages)]
  /\ client.sock \in open \cup {0} /\ got \in Seq(Nat)

\* Since it was logged in a role's requests are taken one by one in the order
\* they were numbered, none left out and none taken twice, whatever is lost,
\* kept, put back into the queue or sent again, over however many connections.
RequestsInOrder ==
  /\ \A i \in DOMAIN taken : taken[i] = i
  /\ exists /\ data.session # 0 => data.client_order = Len(taken) + 1

KeepsLast ==
  data.server_order > 1 =>
    DOMAIN data.server_buff =
      {o \in 1..data.server_order - 1 : o >= data.server_order - BUFFER_MAX}

\* What the client processes of the game server's messages is what the game
\* server said, in order and without a gap: the numbers, the kept messages
\* and the client's requests for them make up for lost connections.  For that
\* the gateway keeps the last BUFFER_MAX messages without a gap, up to the one
\* it sent last, so that a client that is not too far behind can be helped.
AnswersInOrder == KeepsLast /\ \A i \in DOMAIN got : got[i] = i

\* A role goes offline by the end of its own connection and of no other.  It
\* is bound to a connection that stands or whose end is still to be handled,
\* and which is noted, so that the handling finds the role (user.cpp:155).
\* Only a login may be answered over a connection whose end was handled
\* before; then no request was taken since, and none can be until the client
\* logs in again.  No other connection is noted, whose end would take offline
\* a role that has moved on, but the stray ones: those that delete_session
\* left behind when the role was forgotten, and those of a role that the end
\* of a stray one took offline (user.cpp:36).
EndTakesOffline ==
  /\ data.sock # 0 => /\ data.sock \in sock_map
                      /\ data.sock \in open \cup closing \/ taken = <<>>
  /\ sock_map \subseteq {data.sock} \cup stray
=============================================================================
