-------------------------- MODULE NetSingleProofs --------------------------
(***************************************************************************)
(* Proofs about NetSingle for any number of processes, ports, connections  *)
(* and deaths.                                                             *)
(***************************************************************************)
EXTENDS NetSingle, FiniteSetTheorems, TLAPS

Connection == [from : End, to : End, peer : Proc, port : Port]
Loot == [conn : Conn, end : Ends, cb : Watching, peer : Proc, name : BOOLEAN]

\* TypeOK without its bounds.
Typed ==
  /\ status \in [Proc -> {"down", "bound", "listed", "up"}]
  /\ port \in [Proc -> Port \cup {None}] /\ hosts \in [Proc -> Port \cup {None}]
  /\ read_sock \in [Proc -> [Proc -> Conn \cup {None}]]
  /\ write_sock \in [Proc -> [Proc -> Conn \cup {None, Busy}]]
  /\ DOMAIN conn \subseteq Conn /\ conn \in [DOMAIN conn -> Connection]
  /\ timer \in [Proc -> [Proc -> Nat]]
  /\ loot \in [Proc -> Loot \cup {Idle}]
  /\ deaths \in 0..MaxDeaths

(* The state of the handshake on k, a connection.                          *)
Roles(k) ==
  /\ k.from.cb \in {"connect", "synack", "ack", "send_err", "closed"}
  /\ k.to.cb \in {"backlog", "syn", "read", "closed"}
  /\ k.from.cb # "closed" \/ k.to.cb # "closed"
  /\ k.peer \in Peers(k.from.proc)
  /\ k.from.cb \in {"ack", "send_err"} => k.to.proc = k.peer

Mail(k) ==
  /\ k.from.in \in IF k.from.cb = "closed" THEN {<< >>}
                   ELSE IF k.to.cb = "closed" THEN {<< >>, <<Fin>>, <<k.to.proc, Fin>>}
                   ELSE {<< >>, <<k.to.proc>>}
  /\ k.to.in \in IF k.to.cb = "closed" THEN {<< >>}
                 ELSE IF k.from.cb = "closed" THEN {<< >>, <<Fin>>, <<k.from.proc, Fin>>}
                 ELSE {<< >>, <<k.from.proc>>}

Answering(c) == LET l == loot[conn[c].to.proc] IN l # Idle /\ l.conn = c /\ l.end = "to" /\ l.name

Stage(c) ==
  LET k == conn[c] IN
  /\ k.from.cb = "connect" => k.to.cb = "closed" /\ k.from.in = << >>
  /\ k.from.cb = "synack" => k.to.in = << >>
  /\ k.from.cb = "send_err" => k.from.in \in {<< >>, <<Fin>>} 
  /\ k.to.cb = "backlog" => k.from.cb \in {"synack", "closed"} /\ k.from.in = << >> /\ k.to.in \in {<< >>, <<Fin>>}
  /\ k.to.cb = "syn" => \/ k.from.cb = "closed"
                        \/ k.from.cb = "synack" /\ k.from.in = <<k.to.proc>>
                        \/ k.from.cb = "ack" /\ k.from.in = << >>
  /\ k.to.cb = "read" => /\ k.to.in \in {<< >>, <<Fin>>}
                         /\ \/ k.from.cb = "closed"
                            \/ k.from.cb = "ack" /\ (k.from.in = <<k.to.proc>> \/ Answering(c))
                            \/ k.from.cb = "send_err"

Bound(c) ==
  LET k == conn[c] IN
  /\ k.from.cb = "send_err" => write_sock[k.from.proc][k.peer] = c
  /\ k.to.cb = "read" => k.from.proc \in Peers(k.to.proc) /\ read_sock[k.to.proc][k.from.proc] = c

\* The entries of read_sock and write_sock for c.
Sockets(c) ==
  LET k == conn[c] IN
  \A p, q \in Proc :
    /\ write_sock[p][q] = c => /\ k.from.proc = p /\ k.peer = q /\ k.to.proc = q
                               /\ k.from.cb \in {"send_err", "closed"}
    /\ read_sock[p][q] = c => /\ k.to.proc = p /\ k.from.proc = q /\ k.to.cb \in {"read", "closed"}
                              /\ k.from.cb \in {"ack", "send_err", "closed"}

Good(c) == Roles(conn[c]) /\ Mail(conn[c]) /\ Stage(c) /\ Bound(c) /\ Sockets(c)

(* What the network thread of p is in.                                     *)
Looting(p) ==
  LET l == loot[p]
      k == conn[l.conn]
      alive == Alive(State, l.conn, l.end)
  IN l # Idle =>
    /\ alive => k[l.end].proc = p
    /\ l.conn \in DOMAIN conn => k.from.cb # "connect"
    /\ l.cb \in {"synack", "ack", "send_err"} =>
         l.end = "from" /\ status[p] = "up" /\ l.peer \in Peers(p) /\ (alive => k.peer = l.peer)
    /\ l.cb \in {"syn", "read"} => l.end = "to"
    /\ l.cb = "synack" /\ alive => /\ l.name /\ k.from.cb = "ack" /\ k.to.in = << >>
                                   /\ k.to.cb \in {"syn", "closed"}
    /\ l.cb = "ack" /\ alive => k.from.cb = "send_err" /\ ~l.name
    /\ l.cb \in {"synack", "ack"} /\ ~alive => write_sock[p][l.peer] # Busy
    /\ l.cb = "syn" /\ alive => /\ l.name /\ k.to.cb = "read"
                                /\ k.from.cb = "closed" \/ (k.from.cb = "ack" /\ k.from.in = << >>)
    /\ l.cb \in {"read", "send_err"} => ~alive

Attempting == {"connect", "synack", "ack"}
Tried(c, p, q) == c \in DOMAIN conn /\ conn[c].from.proc = p /\ conn[c].peer = q /\ conn[c].from.cb \in Attempting
Tries(p, q) == {c \in Conn : Tried(c, p, q)}

\* What p has for q: an attempt, a timer or a socket.
Trying(p, q) ==
  /\ timer[p][q] = IF status[p] = "up" /\ q # p /\ write_sock[p][q] = None THEN 1 ELSE 0
  /\ status[p] # "up" \/ q = p => write_sock[p][q] = None
  /\ write_sock[p][q] = Busy => \E c \in Conn : Tries(p, q) = {c}
  /\ write_sock[p][q] # Busy => Tries(p, q) = {}

NetInv ==
  /\ Typed
  /\ \A c \in DOMAIN conn : Good(c)
  /\ \A p \in Proc : Looting(p)
  /\ \A p, q \in Proc : Trying(p, q)

-----------------------------------------------------------------------------
(* What the operators on a State do.                                       *)

Full(s) == DOMAIN s = {"read", "write", "timer", "conn", "name"}

LEMMA StateFull ==
  /\ Full(State)
  /\ State.read = read_sock /\ State.write = write_sock /\ State.timer = timer
  /\ State.conn = conn /\ State.name = FALSE
BY DEF State, Full

\* A connection whose end e is x.
LEMMA EndFields ==
  ASSUME NEW k \in Connection, NEW e \in Ends, NEW x \in End
  PROVE  /\ [k EXCEPT ![e] = x] \in Connection
         /\ [k EXCEPT ![e] = x][e] = x /\ [k EXCEPT ![e] = x][Other(e)] = k[Other(e)]
         /\ [k EXCEPT ![e] = x].peer = k.peer /\ [k EXCEPT ![e] = x].port = k.port
BY DEF Connection, Ends, Other

LEMMA PopIs ==
  ASSUME NEW s, Full(s), s.conn \in [DOMAIN s.conn -> Connection],
         NEW c \in DOMAIN s.conn, NEW e \in Ends
  PROVE  LET x == [s.conn[c][e] EXCEPT !.in = Tail(@)]
             t == Pop(s, c, e)
         IN /\ Full(t) /\ t.read = s.read /\ t.write = s.write /\ t.timer = s.timer /\ t.name = s.name
            /\ t.conn = [s.conn EXCEPT ![c] = [s.conn[c] EXCEPT ![e] = x]]
BY DEF Pop, Full

LEMMA ReadIs ==
  ASSUME NEW s, Full(s), s.conn \in [DOMAIN s.conn -> Connection],
         NEW c, NEW e \in Ends, NEW cb, Alive(s, c, e)
  PROVE  LET x == [s.conn[c][e] EXCEPT !.cb = cb]
             t == Read(s, c, e, cb)
         IN /\ Full(t) /\ t.read = s.read /\ t.write = s.write /\ t.timer = s.timer /\ t.name = s.name
            /\ t.conn = [s.conn EXCEPT ![c] = [s.conn[c] EXCEPT ![e] = x]]
BY DEF Read, Full, Alive

LEMMA WriteIs ==
  ASSUME NEW s, Full(s), s.conn \in [DOMAIN s.conn -> Connection],
         NEW c, NEW e \in Ends, NEW p
  PROVE  LET x == [s.conn[c][Other(e)] EXCEPT !.in = Append(@, p)]
             t == Write(s, c, e, p)
         IN /\ Full(t) /\ t.read = s.read /\ t.write = s.write /\ t.timer = s.timer /\ t.name = s.name
            /\ t.conn = IF Alive(s, c, e) /\ Alive(s, c, Other(e))
                          THEN [s.conn EXCEPT ![c] = [s.conn[c] EXCEPT ![Other(e)] = x]] ELSE s.conn
BY DEF Write, Full

LEMMA CloseIs ==
  ASSUME NEW s, Full(s), NEW c, NEW e
  PROVE  LET t == close(s, c, e)
         IN /\ Full(t) /\ t.read = s.read /\ t.write = s.write /\ t.timer = s.timer /\ t.name = s.name
            /\ Alive(s, c, e) => t.conn = Closed(s.conn, c, e)
            /\ ~Alive(s, c, e) => t.conn = s.conn
BY DEF close, Full

Reconnects(s, t, p, q, old) ==
  /\ Full(t) /\ t.read = s.read /\ t.conn = s.conn /\ t.name = s.name
  /\ IF s.write[p][q] = old
       THEN /\ t.write = [s.write EXCEPT ![p][q] = None]
            /\ t.timer = [s.timer EXCEPT ![p][q] = @ + 1]
       ELSE t.write = s.write /\ t.timer = s.timer

LEMMA ReconnectIs ==
  ASSUME NEW s, Full(s), NEW p, NEW q, NEW old, NEW t, t = reconnect_addr(s, p, q, old)
  PROVE  Reconnects(s, t, p, q, old)
BY DEF reconnect_addr, Full, Reconnects

\* What is sent, and what is read of it.
LEMMA Mails ==
  ASSUME NEW x, NEW y
  PROVE  /\ Append(<< >>, y) = <<y>> /\ Append(<<x>>, y) = <<x, y>>
         /\ Head(<<x>>) = x /\ Head(<<x, y>>) = x
         /\ Tail(<<x>>) = << >> /\ Tail(<<x, y>>) = <<y>>
         /\ << >> # <<x>> /\ << >> # <<x, y>> /\ <<x>> # <<x, y>>
<1>1. Append(<< >>, y) = <<y>>
  OBVIOUS
<1>2. Append(<<x>>, y) = <<x, y>>
  <2>1. PICK q : q = Append(<<x>>, y)
    OBVIOUS
  <2> DEFINE S == {x, y}
  <2>2. <<x>> \in Seq(S) /\ Len(<<x>>) = 1 /\ <<x>>[1] = x /\ y \in S
    OBVIOUS
  <2> HIDE DEF S
  <2>3. q \in Seq(S) /\ Len(q) = 2
    BY <2>1, <2>2
  <2>4. q[1] = x
    BY <2>1, <2>2
  <2>5. q[2] = y
    BY <2>1, <2>2
  <2>6. q = <<x, y>>
    BY <2>3, <2>4, <2>5
  <2> QED BY <2>1, <2>6
<1>3. Head(<<x>>) = x /\ Head(<<x, y>>) = x
  OBVIOUS
<1>4. Tail(<<x>>) = << >>
  OBVIOUS
<1>5. Tail(<<x, y>>) = <<y>>
  OBVIOUS
<1>6. << >> # <<x>> /\ << >> # <<x, y>> /\ <<x>> # <<x, y>>
  OBVIOUS
<1> QED BY <1>1, <1>2, <1>3, <1>4, <1>5, <1>6

\* The mail of an end whose other end has closed.
Finished(x, m, after) ==
  /\ after \in {<<Fin>>, <<x, Fin>>}
  /\ m = << >> => after = <<Fin>>

LEMMA FinAfter ==
  ASSUME NEW x, NEW m \in {<< >>, <<x>>}, NEW after, after = Append(m, Fin)
  PROVE  Finished(x, m, after)
<1>1. CASE m = << >>
  <2>1. after = <<Fin>>
    BY <1>1, Mails
  <2> QED BY <2>1 DEF Finished
<1>2. CASE m = <<x>>
  <2>1. after = <<x, Fin>>
    BY <1>2, Mails
  <2>2. m # << >>
    BY <1>2, Mails
  <2> QED BY <2>1, <2>2 DEF Finished
<1> QED BY <1>1, <1>2

\* What the process x at the other end, with the callback cb, may have sent:
\* a name that is read first is its own, and alone while that end is open.
Inbox(x, cb) == IF cb = "closed" THEN {<< >>, <<Fin>>, <<x, Fin>>} ELSE {<< >>, <<x>>}
Opened(m, q, cb) ==
  /\ cb # "closed" => m = <<q>> /\ Tail(m) = << >>
  /\ cb = "closed" => m = <<q, Fin>> /\ Tail(m) = <<Fin>>
Begins(m, q) == m # << >> /\ Head(m) = q

LEMMA Received ==
  ASSUME NEW x, NEW q, q # Fin, NEW cb, NEW m \in Inbox(x, cb), Begins(m, q)
  PROVE  q = x /\ Opened(m, q, cb)
<1> USE DEF Opened, Begins
<1>1. CASE cb # "closed"
  <2>1. m = <<x>>
    BY <1>1 DEF Inbox
  <2> QED BY <1>1, <2>1, Mails
<1>2. CASE cb = "closed"
  <2>1. CASE m = <<x, Fin>>
    BY <1>2, <2>1, Mails
  <2>2. CASE m = <<Fin>>
    BY <2>2, Mails
  <2> QED BY <1>2, <2>1, <2>2 DEF Inbox
<1> QED BY <1>1, <1>2

LEMMA InSeq ==
  /\ Idle \in Seq(Proc \cup {Fin})
  /\ \A q \in Seq(Proc \cup {Fin}), x \in Proc \cup {Fin} :
       Append(q, x) \in Seq(Proc \cup {Fin}) /\ (q # << >> => Tail(q) \in Seq(Proc \cup {Fin}))
BY DEF Idle

LEMMA CallbackNames == Watching \cup {"connect", "backlog", "closed"} = Callbacks
BY DEF Callbacks

\* An end with another callback, with other mail, and closed.
LEMMA EndWith ==
  ASSUME NEW x \in End
  PROVE  /\ \A cb \in Callbacks : /\ [x EXCEPT !.cb = cb] \in End
                                  /\ [x EXCEPT !.cb = cb].cb = cb /\ [x EXCEPT !.cb = cb].in = x.in
                                  /\ [x EXCEPT !.cb = cb].proc = x.proc
         /\ \A m \in Seq(Proc \cup {Fin}) : /\ [x EXCEPT !.in = m] \in End
                                            /\ [x EXCEPT !.in = m].in = m /\ [x EXCEPT !.in = m].cb = x.cb
                                            /\ [x EXCEPT !.in = m].proc = x.proc
BY DEF End

LEMMA EndClosed ==
  ASSUME NEW x \in End
  PROVE  LET gone == [x EXCEPT !.cb = "closed", !.in = << >>]
         IN gone \in End /\ gone.cb = "closed" /\ gone.in = << >> /\ gone.proc = x.proc
<1>1. "closed" \in Callbacks /\ << >> \in Seq(Proc \cup {Fin})
  BY DEF Callbacks
<1> QED BY <1>1 DEF End

Open(f) == f \in [DOMAIN f -> Connection] /\ \A d \in DOMAIN f : f[d].from.cb # "closed" \/ f[d].to.cb # "closed"

\* g is f with the end e of c closed.
Without(f, g, c, e) ==
  LET o == Other(e) IN
  /\ f[c][o].cb = "closed" => DOMAIN g = DOMAIN f \ {c}
  /\ f[c][o].cb # "closed" =>
       /\ DOMAIN g = DOMAIN f
       /\ g[c] \in Connection /\ g[c].peer = f[c].peer /\ g[c].port = f[c].port
       /\ g[c][e].cb = "closed" /\ g[c][e].in = << >> /\ g[c][e].proc = f[c][e].proc
       /\ g[c][o].cb = f[c][o].cb /\ g[c][o].in = Append(f[c][o].in, Fin)
       /\ g[c][o].proc = f[c][o].proc
  /\ \A d \in DOMAIN f \ {c} : g[d] = f[d]

LEMMA ClosedIs ==
  ASSUME NEW f, Open(f), NEW c \in DOMAIN f, NEW e \in Ends
  PROVE  Without(f, Closed(f, c, e), c, e)
<1>0. f \in [DOMAIN f -> Connection] /\ \A d \in DOMAIN f : f[d].from.cb # "closed" \/ f[d].to.cb # "closed"
  BY DEF Open
<1> DEFINE old == f[c][e]
           gone == [f[c][e] EXCEPT !.cb = "closed", !.in = << >>]
           other == f[c][Other(e)]
           told == IF other.cb = "closed" THEN other ELSE [other EXCEPT !.in = Append(@, Fin)]
           h == [f EXCEPT ![c][e] = gone, ![c][Other(e)] = told]
<1>1. old \in End /\ other \in End
  BY <1>0 DEF Connection, Ends, Other
<1>2. gone \in End /\ gone.cb = "closed" /\ gone.in = << >> /\ gone.proc = f[c][e].proc
  BY <1>1, EndClosed
<1>3. told \in End /\ told.cb = other.cb
  <2>1. other.in \in Seq(Proc \cup {Fin})
    BY <1>1 DEF End
  <2>2. PICK m : m = Append(other.in, Fin)
    OBVIOUS
  <2>3. m \in Seq(Proc \cup {Fin})
    BY <2>1, <2>2, InSeq
  <2> HIDE DEF other
  <2> QED BY <1>1, <2>2, <2>3 DEF End
<1>4. Closed(f, c, e) = Settled(h)
  BY DEF Closed
<1>5. /\ DOMAIN h = DOMAIN f
      /\ \A d \in DOMAIN f \ {c} : h[d] = f[d]
      /\ h[c] = [[f[c] EXCEPT ![e] = gone] EXCEPT ![Other(e)] = told]
  BY <1>0
<1>6. h[c] \in Connection /\ h[c][e] = gone /\ h[c][Other(e)] = told /\ h[c].peer = f[c].peer /\ h[c].port = f[c].port
  <2> HIDE DEF gone, told, h, other
  <2> QED BY <1>0, <1>2, <1>3, <1>5 DEF Connection, Ends, Other
<1>7. \A d \in DOMAIN f : (\E x \in Ends : h[d][x].cb # "closed") <=> (d # c \/ other.cb # "closed")
  <2> HIDE DEF gone, told, h, other
  <2> TAKE d \in DOMAIN f
  <2>1. (\E x \in Ends : h[d][x].cb # "closed") <=> h[d].from.cb # "closed" \/ h[d].to.cb # "closed"
    BY DEF Ends
  <2>2. CASE d # c
    BY <1>0, <1>5, <2>1, <2>2
  <2>3. CASE d = c /\ e = "from"
    BY <2>1, <2>3, <1>2, <1>3, <1>6 DEF Other
  <2>4. CASE d = c /\ e = "to"
    BY <2>1, <2>4, <1>2, <1>3, <1>6 DEF Other
  <2> QED BY <2>2, <2>3, <2>4 DEF Ends
<1>8. DOMAIN Settled(h) = {d \in DOMAIN f : d # c \/ other.cb # "closed"} /\ \A d \in DOMAIN Settled(h) : Settled(h)[d] = h[d]
  <2> HIDE DEF gone, told, h, other
  <2> QED BY <1>5, <1>7 DEF Settled
<1>9. PICK g : g = Closed(f, c, e)
  OBVIOUS
<1>10. DOMAIN g = {d \in DOMAIN f : d # c \/ other.cb # "closed"} /\ \A d \in DOMAIN g : g[d] = h[d]
  BY <1>4, <1>8, <1>9
<1>11. \A d \in DOMAIN f \ {c} : g[d] = f[d]
  <2> HIDE DEF h, other
  <2> QED BY <1>5, <1>10
<1>12. CASE other.cb = "closed"
  <2>1. DOMAIN g = DOMAIN f \ {c}
    <3> HIDE DEF h, other
    <3> QED BY <1>10, <1>12
  <2> QED BY <2>1, <1>9, <1>11, <1>12 DEF Without
<1>13. CASE other.cb # "closed"
  <2>1. DOMAIN g = DOMAIN f /\ g[c] = h[c]
    <3> HIDE DEF h, other
    <3> QED BY <1>10, <1>13
  <2>2. PICK m : m = Append(other.in, Fin)
    OBVIOUS
  <2>3. m \in Seq(Proc \cup {Fin})
    BY <1>1, <2>2, InSeq DEF End
  <2>4. told.cb = other.cb /\ told.in = Append(other.in, Fin) /\ told.proc = other.proc
    <3>1. told = [other EXCEPT !.in = m]
      BY <1>13, <2>2
    <3> HIDE DEF told, other
    <3> QED BY <1>1, <2>2, <2>3, <3>1, EndWith
  <2>5. /\ g[c][e].cb = "closed" /\ g[c][e].in = << >> /\ g[c][e].proc = f[c][e].proc
        /\ g[c] \in Connection /\ g[c].peer = f[c].peer /\ g[c].port = f[c].port
    <3> HIDE DEF h, gone, told, other
    <3> QED BY <2>1, <1>2, <1>6
  <2>6. g[c][Other(e)] = told
    <3> HIDE DEF h, gone, told, other
    <3> QED BY <2>1, <1>6
  <2>7. g[c][Other(e)].cb = other.cb /\ g[c][Other(e)].in = Append(other.in, Fin) /\ g[c][Other(e)].proc = other.proc
    <3> HIDE DEF h, gone, told, other
    <3> QED BY <2>4, <2>6
  <2> QED BY <2>1, <2>5, <2>7, <1>9, <1>11, <1>13 DEF Without
<1> QED BY <1>12, <1>13
-----------------------------------------------------------------------------
(* A step of p about the connection c: it leaves the others alone.         *)

Only(c) == \A d \in Conn \ {c} : (d \in DOMAIN conn' <=> d \in DOMAIN conn) /\ (d \in DOMAIN conn => conn'[d] = conn[d])

\* Of read_sock and write_sock only what p has for c changes, or comes to be c.
Row(p, c) ==
  /\ status' = status
  /\ \A r \in Proc \ {p} : read_sock'[r] = read_sock[r] /\ write_sock'[r] = write_sock[r] /\ loot'[r] = loot[r]
  /\ \A q \in Proc : \/ read_sock'[p][q] = read_sock[p][q]
                     \/ read_sock'[p][q] \in {None, c} /\ read_sock[p][q] \in {None, c}
  /\ \A q \in Proc : \/ write_sock'[p][q] = write_sock[p][q]
                     \/ write_sock'[p][q] \in {None, Busy, c} /\ write_sock[p][q] \in {None, Busy, c}
  /\ loot[p] # Idle => loot[p].conn = c
  /\ loot'[p] # Idle => loot'[p].conn = c

LEMMA FrameGood ==
  ASSUME Typed, Typed', NEW p \in Proc, NEW c \in Conn, Only(c), Row(p, c),
         NEW d \in DOMAIN conn', d # c, Good(d)
  PROVE  Good(d)'
<1>1. d \in DOMAIN conn /\ d \in Conn /\ conn'[d] = conn[d] /\ conn[d] \in Connection
  BY DEF Typed, Only
<1>2. conn[d].to.proc \in Proc /\ conn[d].from.proc \in Proc /\ conn[d].peer \in Proc
  BY <1>1 DEF Connection, End
<1>3. PICK k : k = conn[d]
  OBVIOUS
<1>4. Roles(conn[d])' /\ Mail(conn[d])'
  BY <1>1 DEF Good, Roles, Mail
<1>5. Answering(d) => Answering(d)'
  BY <1>1, <1>2 DEF Answering, Row
<1>6. Stage(d)'
  BY <1>1, <1>5 DEF Stage, Good
<1>7. \A a, b \in Proc : /\ read_sock'[a][b] = d <=> read_sock[a][b] = d
                         /\ write_sock'[a][b] = d <=> write_sock[a][b] = d
  BY <1>1 DEF Row, Conn, None, Busy
<1>8. Bound(d)'
  <2> USE <1>1, <1>2, <1>7
  <2> QED BY DEF Good, Bound
<1>9. Sockets(d)'
  BY <1>1, <1>7 DEF Good, Sockets
<1> QED BY <1>4, <1>6, <1>8, <1>9 DEF Good

LEMMA FrameLooting ==
  ASSUME Typed, Typed', NEW p \in Proc, NEW c \in Conn, Only(c), Row(p, c),
         NEW r \in Proc, loot'[r] # Idle => loot'[r].conn # c, Looting(r)
  PROVE  Looting(r)'
<1>1. CASE loot'[r] = Idle
  BY <1>1 DEF Looting
<1>2. CASE loot'[r] # Idle
  <2>1. r # p /\ loot'[r] = loot[r] /\ loot[r] \in Loot
    BY <1>2 DEF Row, Typed
  <2>2. PICK d : d = loot[r].conn
    OBVIOUS
  <2>3. d \in Conn \ {c}
    BY <1>2, <2>1, <2>2 DEF Loot
  <2>4. (d \in DOMAIN conn' <=> d \in DOMAIN conn) /\ (d \in DOMAIN conn => conn'[d] = conn[d])
    BY <2>3 DEF Only
  <2>5. PICK e : e = loot[r].end
    OBVIOUS
  <2>6. Alive(State, d, e)' <=> Alive(State, d, e)
    BY <2>4 DEF Alive, State
  <2>7. Alive(State, d, e) => d \in DOMAIN conn
    BY DEF Alive, State
  <2>8. status'[r] = status[r] /\ write_sock'[r] = write_sock[r]
    BY <2>1 DEF Row
  <2> QED BY <2>1, <2>2, <2>4, <2>5, <2>6, <2>7, <2>8 DEF Looting
<1> QED BY <1>1, <1>2

LEMMA FrameTrying ==
  ASSUME NEW c \in Conn, Only(c), NEW p \in Proc, NEW q \in Proc, Trying(p, q),
         status'[p] = status[p], timer'[p][q] = timer[p][q], write_sock'[p][q] = write_sock[p][q],
         Tried(c, p, q)' <=> Tried(c, p, q)
  PROVE  Trying(p, q)'
<1>1. \A d \in Conn : Tried(d, p, q)' <=> Tried(d, p, q)
  BY DEF Tried, Only
<1>2. Tries(p, q)' = Tries(p, q)
  BY <1>1 DEF Tries
<1> QED BY <1>2 DEF Trying
\* The network threads that are in a loot_read of c.
OnLoot(c) == \A r \in Proc : loot[r] # Idle /\ loot[r].conn = c => Looting(r)
AllTrying == \A p, q \in Proc : Trying(p, q)
Kept(c) == c \in DOMAIN conn => Good(c)

LEMMA Frame ==
  ASSUME NetInv, Typed', NEW p \in Proc, NEW c \in Conn, Only(c), Row(p, c),
         Kept(c)', OnLoot(c)', AllTrying'
  PROVE  NetInv'
<1>1. \A d \in DOMAIN conn' : Good(d)'
  <2> TAKE d \in DOMAIN conn'
  <2>1. CASE d = c
    BY <2>1 DEF Kept
  <2>2. CASE d # c
    <3>1. d \in DOMAIN conn
      BY <2>2 DEF Typed, Only
    <3> QED BY <2>2, <3>1, FrameGood DEF NetInv
  <2> QED BY <2>1, <2>2
<1>2. \A r \in Proc : Looting(r)'
  <2> TAKE r \in Proc
  <2>1. CASE loot'[r] = Idle
    BY <2>1 DEF Looting
  <2>2. CASE loot'[r] # Idle /\ loot'[r].conn = c
    BY <2>2 DEF OnLoot
  <2>3. CASE loot'[r] # Idle /\ loot'[r].conn # c
    BY <2>3, FrameLooting DEF NetInv
  <2> QED BY <2>1, <2>2, <2>3
<1> QED BY <1>1, <1>2 DEF NetInv, AllTrying
-----------------------------------------------------------------------------
(* An end of c is closed.                                                  *)

ConnTyped == DOMAIN conn \subseteq Conn /\ conn \in [DOMAIN conn -> Connection]

Closes(c, e) ==
  LET k == conn[c]
      o == Other(e)
      n == conn'[c]
  IN /\ ConnTyped' /\ Only(c)
     /\ c \in DOMAIN conn /\ k[e].cb # "closed"
     /\ c \in DOMAIN conn' <=> k[o].cb # "closed"
     /\ k[o].cb # "closed" =>
          /\ n.peer = k.peer /\ n[e].proc = k[e].proc /\ n[o].proc = k[o].proc
          /\ n[e].cb = "closed" /\ n[e].in = << >>
          /\ n[o].cb = k[o].cb /\ n[o].in = Append(k[o].in, Fin)

LEMMA ClosesIs ==
  ASSUME NetInv, NEW c \in DOMAIN conn, NEW e \in Ends, conn[c][e].cb # "closed",
         NEW x \in End, x.proc = conn[c][e].proc, x.cb # "closed",
         conn' = Closed([conn EXCEPT ![c] = [conn[c] EXCEPT ![e] = x]], c, e)
  PROVE  Closes(c, e)
<1>1. conn \in [DOMAIN conn -> Connection] /\ DOMAIN conn \subseteq Conn
  BY DEF NetInv, Typed
<1>2. PICK f : f = [conn EXCEPT ![c] = [conn[c] EXCEPT ![e] = x]]
  OBVIOUS
<1>3. PICK k : k = conn[c]
  OBVIOUS
<1>4. k \in Connection /\ [k EXCEPT ![e] = x] \in Connection
  BY <1>1, <1>3, EndFields
<1>5. f \in [DOMAIN f -> Connection] /\ DOMAIN f = DOMAIN conn /\ \A d \in DOMAIN conn \ {c} : f[d] = conn[d]
  BY <1>1, <1>2, <1>3, <1>4
<1>6. f[c] \in Connection /\ f[c].peer = k.peer /\ f[c][e] = x /\ f[c][Other(e)] = k[Other(e)]
  <2>1. f[c] = [k EXCEPT ![e] = x]
    BY <1>2, <1>3
  <2> QED BY <1>4, <2>1, EndFields
<1>7. \A d \in DOMAIN f : f[d].from.cb # "closed" \/ f[d].to.cb # "closed"
  <2> TAKE d \in DOMAIN f
  <2>1. CASE d = c
    BY <2>1, <1>6 DEF Ends
  <2>2. CASE d # c
    BY <2>2, <1>5 DEF NetInv, Good, Roles
  <2> QED BY <2>1, <2>2
<1>8. PICK o \in Ends : o = Other(e)
  BY DEF Ends, Other
<1>9. conn' = Closed(f, c, e)
  BY <1>2
<1>20. Open(f)
  BY <1>5, <1>7 DEF Open
<1>21. Without(f, conn', c, e)
  BY <1>5, <1>9, <1>20, ClosedIs
<1>10. /\ k[o].cb = "closed" => DOMAIN conn' = DOMAIN f \ {c}
       /\ k[o].cb # "closed" =>
            /\ DOMAIN conn' = DOMAIN f
            /\ conn'[c] \in Connection /\ conn'[c].peer = k.peer
            /\ conn'[c][e].cb = "closed" /\ conn'[c][e].in = << >> /\ conn'[c][e].proc = k[e].proc
            /\ conn'[c][o].cb = k[o].cb /\ conn'[c][o].in = Append(k[o].in, Fin) /\ conn'[c][o].proc = k[o].proc
       /\ \A d \in DOMAIN f \ {c} : conn'[d] = f[d]
  BY <1>3, <1>5, <1>6, <1>8, <1>21 DEF Without
<1>11. Closed(f, c, e) \in [DOMAIN Closed(f, c, e) -> Connection]
  <2>1. Closed(f, c, e) = [d \in DOMAIN Closed(f, c, e) |-> Closed(f, c, e)[d]]
    BY DEF Closed, Settled
  <2>2. \A d \in DOMAIN conn' : conn'[d] \in Connection
    BY <1>5, <1>10
  <2> QED BY <2>1, <2>2, <1>9
<1>12. ConnTyped'
  BY <1>1, <1>5, <1>9, <1>10, <1>11 DEF ConnTyped
<1>13. Only(c)
  BY <1>1, <1>5, <1>10 DEF Only
<1>14. c \in DOMAIN conn' <=> k[o].cb # "closed"
  BY <1>5, <1>10
<1> QED BY <1>3, <1>8, <1>10, <1>12, <1>13, <1>14 DEF Closes
-----------------------------------------------------------------------------
(* One lemma for each way the step of a process p changes a connection c.  *)

Rest == status' = status /\ port' = port /\ hosts' = hosts /\ deaths' = deaths

LEMMA StepTyped ==
  ASSUME Typed, Rest, ConnTyped',
         read_sock' \in [Proc -> [Proc -> Conn \cup {None}]],
         write_sock' \in [Proc -> [Proc -> Conn \cup {None, Busy}]],
         timer' \in [Proc -> [Proc -> Nat]], loot' \in [Proc -> Loot \cup {Idle}]
  PROVE  Typed'
BY DEF Typed, Rest, ConnTyped

LEMMA Entry ==
  ASSUME NEW S, NEW f \in [Proc -> [Proc -> S]], NEW p \in Proc, NEW q \in Proc, NEW v \in S,
         NEW g, g = [f EXCEPT ![p][q] = v]
  PROVE  /\ g \in [Proc -> [Proc -> S]] /\ g[p][q] = v
         /\ \A a, b \in Proc : a # p \/ b # q => g[a][b] = f[a][b]
         /\ \A r \in Proc \ {p} : g[r] = f[r]
OBVIOUS

\* reconnect_addr makes a timer of a socket, or does nothing.
Freed(p, q) == /\ write_sock' = [write_sock EXCEPT ![p][q] = None]
               /\ timer' = [timer EXCEPT ![p][q] = @ + 1]
Same == write_sock' = write_sock /\ timer' = timer

LEMMA FreedIs ==
  ASSUME Typed, NEW p \in Proc, NEW q \in Proc, Freed(p, q)
  PROVE  /\ write_sock' \in [Proc -> [Proc -> Conn \cup {None, Busy}]] /\ timer' \in [Proc -> [Proc -> Nat]]
         /\ write_sock'[p][q] = None /\ timer'[p][q] = timer[p][q] + 1
         /\ \A a, b \in Proc : a # p \/ b # q => write_sock'[a][b] = write_sock[a][b] /\ timer'[a][b] = timer[a][b]
         /\ \A r \in Proc \ {p} : write_sock'[r] = write_sock[r]
<1> DEFINE S == Conn \cup {None, Busy}
<1>1. write_sock \in [Proc -> [Proc -> S]] /\ timer \in [Proc -> [Proc -> Nat]] /\ None \in S
  BY DEF Typed
<1>2. PICK n : n = timer[p][q] + 1
  OBVIOUS
<1>3. n \in Nat
  BY <1>1, <1>2
<1>4. write_sock' = [write_sock EXCEPT ![p][q] = None] /\ timer' = [timer EXCEPT ![p][q] = n]
  BY <1>2 DEF Freed
<1> HIDE DEF S
<1>5. /\ write_sock' \in [Proc -> [Proc -> S]] /\ write_sock'[p][q] = None
      /\ \A a, b \in Proc : a # p \/ b # q => write_sock'[a][b] = write_sock[a][b]
      /\ \A r \in Proc \ {p} : write_sock'[r] = write_sock[r]
  BY <1>1, <1>4, Entry
<1>6. /\ timer' \in [Proc -> [Proc -> Nat]] /\ timer'[p][q] = n
      /\ \A a, b \in Proc : a # p \/ b # q => timer'[a][b] = timer[a][b]
  BY <1>1, <1>3, <1>4, Entry
<1> QED BY <1>2, <1>5, <1>6 DEF S

\* The loot_read p is in: of c, or none.
Within(p, c) == /\ loot[p] # Idle => loot[p].conn = c
                /\ loot' \in [Proc -> Loot \cup {Idle}]
                /\ \A r \in Proc \ {p} : loot'[r] = loot[r]
                /\ loot'[p] # Idle => loot'[p].conn = c

\* Another process in a loot_read of c is at the other end of it.
LEMMA LootTo ==
  ASSUME NetInv, NEW c \in DOMAIN conn, conn[c].from.cb # "closed",
         NEW r \in Proc, r # conn[c].from.proc, NEW l, l = loot[r], l # Idle, l.conn = c
  PROVE  /\ l.end = "to" /\ l.cb \in {"syn", "read"}
         /\ Alive(State, c, "to") => conn[c].to.proc = r
         /\ l.cb = "syn" /\ Alive(State, c, "to") =>
              /\ l.name /\ conn[c].to.cb = "read"
              /\ conn[c].from.cb = "closed" \/ (conn[c].from.cb = "ack" /\ conn[c].from.in = << >>)
         /\ l.cb = "read" => ~Alive(State, c, "to")
<1>1. Looting(r) /\ l \in Loot
  BY DEF NetInv, Typed
<1>2. Alive(State, c, "from")
  BY DEF Alive, State
<1>3. l.end # "from"
  BY <1>1, <1>2 DEF Looting
<1>4. l.end = "to" /\ l.cb \in {"syn", "read"}
  BY <1>1, <1>3 DEF Looting, Loot, Ends, Watching
<1> QED BY <1>1, <1>4 DEF Looting

LEMMA LootFrom ==
  ASSUME NetInv, NEW c \in DOMAIN conn, conn[c].to.cb # "closed",
         NEW r \in Proc, r # conn[c].to.proc, NEW l, l = loot[r], l # Idle, l.conn = c
  PROVE  /\ l.end = "from" /\ l.cb \in {"synack", "ack", "send_err"}
         /\ status[r] = "up" /\ l.peer \in Peers(r)
         /\ Alive(State, c, "from") =>
              /\ conn[c].from.proc = r /\ conn[c].peer = l.peer
              /\ l.cb = "synack" => /\ l.name /\ conn[c].from.cb = "ack" /\ conn[c].to.in = << >>
                                    /\ conn[c].to.cb \in {"syn", "closed"}
              /\ l.cb = "ack" => conn[c].from.cb = "send_err" /\ ~l.name
              /\ l.cb # "send_err"
         /\ ~Alive(State, c, "from") /\ l.cb \in {"synack", "ack"} => write_sock[r][l.peer] # Busy
<1>1. Looting(r) /\ l \in Loot
  BY DEF NetInv, Typed
<1>2. Alive(State, c, "to")
  BY DEF Alive, State
<1>3. l.end # "to"
  BY <1>1, <1>2 DEF Looting
<1>4. l.end = "from" /\ l.cb \in {"synack", "ack", "send_err"}
  BY <1>1, <1>3 DEF Looting, Loot, Ends, Watching
<1> QED BY <1>1, <1>4 DEF Looting

\* The initiator closes, and tries again when it was not done.
FromCloses(p, c) ==
  LET k == conn[c] IN
  /\ k.from.proc = p /\ Closes(c, "from") /\ read_sock' = read_sock
  /\ \/ Freed(p, k.peer) /\ write_sock[p][k.peer] \in {Busy, c}
     \/ Same /\ k.from.cb = "send_err" /\ loot[p] # Idle /\ loot[p].cb = "ack"
  /\ loot'[p] # Idle => /\ loot'[p].end = "from" /\ loot'[p].cb \in {"synack", "ack"}
                        /\ loot'[p].peer = k.peer /\ write_sock[p][k.peer] = Busy

LEMMA FromClosesOk ==
  ASSUME NetInv, Rest, NEW p \in Proc, NEW c \in Conn, FromCloses(p, c), Within(p, c)
  PROVE  NetInv'
<1>1. PICK k : k = conn[c]
  OBVIOUS
<1>2. PICK q : q = k.peer
  OBVIOUS
<1>3. Typed /\ Good(c) /\ k \in Connection /\ c \in DOMAIN conn
  BY <1>1 DEF NetInv, FromCloses, Closes, Typed
<1>4. k.from.proc = p /\ q \in Peers(p) /\ q \in Proc /\ q # p /\ k.from.cb # "closed"
  BY <1>1, <1>2, <1>3 DEF FromCloses, Closes, Good, Roles, Peers
<1>5. Closes(c, "from") /\ read_sock' = read_sock
  BY DEF FromCloses
<1>6. k.from.cb \in Attempting => write_sock[p][q] = Busy
  <2>1. k.from.cb \in Attempting => c \in Tries(p, q)
    BY <1>1, <1>2, <1>3, <1>4 DEF Tries, Tried
  <2> QED BY <2>1, <1>4 DEF NetInv, Trying
<1>7. k.from.cb = "send_err" => write_sock[p][q] = c
  BY <1>1, <1>2, <1>3, <1>4 DEF Good, Bound
<1>8. k.from.cb \in Attempting \/ k.from.cb = "send_err"
  BY <1>1, <1>3, <1>4 DEF Good, Roles, Attempting
<1>9. Trying(p, q) /\ write_sock[p][q] # None /\ status[p] = "up" /\ timer[p][q] = 0
  BY <1>4, <1>6, <1>7, <1>8 DEF NetInv, Trying, Conn, None, Busy
<1>10. Freed(p, q) \/ (Same /\ k.from.cb = "send_err")
  BY <1>1, <1>2 DEF FromCloses
<1>11. /\ write_sock' \in [Proc -> [Proc -> Conn \cup {None, Busy}]] /\ timer' \in [Proc -> [Proc -> Nat]]
       /\ \A a, b \in Proc : a # p \/ b # q => write_sock'[a][b] = write_sock[a][b] /\ timer'[a][b] = timer[a][b]
       /\ \A r \in Proc \ {p} : write_sock'[r] = write_sock[r]
  <2>1. CASE Freed(p, q)
    BY <1>3, <1>4, <2>1, FreedIs
  <2>2. CASE Same
    BY <1>3, <2>2 DEF Same, Typed
  <2> QED BY <1>10, <2>1, <2>2
<1>12. Freed(p, q) => write_sock'[p][q] = None /\ timer'[p][q] = 1
  BY <1>3, <1>4, <1>9, FreedIs
<1>13. Typed'
  BY <1>3, <1>5, <1>11, StepTyped DEF Typed, Within, Closes
<1>14. Row(p, c)
  <2>1. \A b \in Proc : \/ write_sock'[p][b] = write_sock[p][b]
                        \/ write_sock'[p][b] \in {None, Busy, c} /\ write_sock[p][b] \in {None, Busy, c}
    BY <1>4, <1>6, <1>7, <1>8, <1>10, <1>11, <1>12 DEF Same
  <2> QED BY <1>5, <1>11, <2>1 DEF Row, Within, Rest
<1>15. PICK n : n = conn'[c]
  OBVIOUS
<1>16. c \in DOMAIN conn' <=> k.to.cb # "closed"
  BY <1>1, <1>5 DEF Closes, Other
<1>17. c \in DOMAIN conn' => /\ n.peer = q /\ n.from.proc = p /\ n.to.proc = k.to.proc
                             /\ n.from.cb = "closed" /\ n.from.in = << >>
                             /\ n.to.cb = k.to.cb /\ n.to.in = Append(k.to.in, Fin)
  BY <1>1, <1>2, <1>4, <1>5, <1>15, <1>16 DEF Closes, Other
<1>18. Kept(c)'
  <2> SUFFICES ASSUME c \in DOMAIN conn' PROVE Good(c)'
    BY DEF Kept
  <2> USE <1>15, <1>16, <1>17
  <2>1. Roles(n)
    BY <1>1, <1>2, <1>3, <1>4 DEF Roles, Good
  <2>2. k.to.in \in {<< >>, <<p>>} /\ p # Fin
    BY <1>1, <1>3, <1>4, NetAssumption DEF Mail, Good
  <2>3. n.to.in \in {<<Fin>>, <<p, Fin>>} /\ (k.to.in = << >> => n.to.in = <<Fin>>)
    BY <2>2, Mails
  <2>4. Mail(n)
    BY <2>3 DEF Mail
  <2>5. k.to.cb \in {"backlog", "read"} => k.to.in = << >>
    BY <1>1, <1>3, <2>2 DEF Stage, Good
  <2>6. Stage(c)'
    BY <2>3, <2>5 DEF Stage
  <2>7. Bound(c)'
    BY <1>1, <1>3, <1>4, <1>5 DEF Bound, Good
  <2>8. \A a, b \in Proc : write_sock'[a][b] = c => write_sock[a][b] = c
    <3>1. c # None
      BY DEF Conn, None
    <3> QED BY <1>10, <1>11, <1>12, <3>1 DEF Same
  <2>9. Sockets(c)'
    <3>1. Sockets(c)
      BY <1>3 DEF Good
    <3>2. k.from.cb # "closed"
      BY <1>4
    <3>3. \A a, b \in Proc : /\ write_sock'[a][b] = c => n.from.proc = a /\ n.peer = b /\ n.to.proc = b
                             /\ read_sock'[a][b] = c => n.to.proc = a /\ n.from.proc = b /\ n.to.cb \in {"read", "closed"}
      BY <1>1, <1>2, <1>4, <1>5, <2>8, <3>1 DEF Sockets
    <3> QED BY <3>3 DEF Sockets
  <2> QED BY <2>1, <2>4, <2>6, <2>7, <2>9 DEF Good
<1>19. OnLoot(c)'
  <2> SUFFICES ASSUME NEW r \in Proc, loot'[r] # Idle, loot'[r].conn = c PROVE Looting(r)'
    BY DEF OnLoot
  <2>1. PICK l : l = loot'[r]
    OBVIOUS
  <2>2. l \in Loot /\ l.conn = c
    BY <2>1 DEF Within
  <2>3. Alive(State, c, "from")' = FALSE
    BY <1>15, <1>17 DEF Alive, State
  <2>4. Alive(State, c, "to")' <=> k.to.cb # "closed"
    BY <1>15, <1>16, <1>17 DEF Alive, State
  <2>5. CASE r = p
    <3>1. l.end = "from" /\ l.cb \in {"synack", "ack"} /\ l.peer = q /\ write_sock[p][q] = Busy
      BY <1>1, <1>2, <2>1, <2>5 DEF FromCloses
    <3>2. c \in DOMAIN conn' => n.from.cb # "connect"
      BY <1>17
    <3>3. write_sock'[p][q] = None
      BY <1>1, <1>2, <1>12, <3>1, <1>7 DEF FromCloses, Conn, Busy
    <3>4. status'[p] = "up"
      BY <1>9 DEF Rest
    <3> QED BY <1>4, <1>15, <2>1, <2>2, <2>3, <2>5, <3>1, <3>2, <3>3, <3>4 DEF Looting, None, Busy
  <2>6. CASE r # p
    <3>1. loot[r] = l /\ l # Idle /\ k.from.proc # r
      BY <1>4, <2>1, <2>6 DEF Within
    <3>2. Alive(State, c, "to") <=> k.to.cb # "closed"
      BY <1>1, <1>3 DEF Alive, State
    <3>3. /\ l.end = "to" /\ l.cb \in {"syn", "read"}
          /\ Alive(State, c, "to") => k.to.proc = r
          /\ l.cb = "syn" /\ Alive(State, c, "to") => l.name /\ k.to.cb = "read"
          /\ l.cb = "read" => ~Alive(State, c, "to")
      BY <1>1, <1>3, <1>4, <2>2, <3>1, LootTo
    <3> QED BY <1>15, <1>16, <1>17, <2>1, <2>2, <2>3, <2>4, <3>2, <3>3 DEF Looting
  <2> QED BY <2>5, <2>6
<1>20. AllTrying'
  <2> SUFFICES ASSUME NEW a \in Proc, NEW b \in Proc PROVE Trying(a, b)'
    BY DEF AllTrying
  <2>1. ~Tried(c, a, b)'
    BY <1>15, <1>17 DEF Tried, Attempting
  <2>2. Trying(a, b)
    BY DEF NetInv
  <2>3. CASE (a # p \/ b # q) \/ (Same /\ k.from.cb = "send_err")
    <3>1. ~Tried(c, a, b)
      BY <1>1, <1>2, <1>4, <2>3 DEF Tried, Attempting
    <3> QED BY <1>5, <1>11, <2>1, <2>2, <2>3, <3>1, FrameTrying DEF Same, Rest, Closes
  <2>4. CASE a = p /\ b = q /\ Freed(p, q)
    <3>1. \A d \in Conn : Tried(d, p, q)' => Tried(d, p, q) /\ d # c
      BY <1>5, <2>1, <2>4 DEF Tried, Closes, Only
    <3>2. Tries(p, q)' \subseteq Tries(p, q) \ {c}
      BY <3>1 DEF Tries
    <3>3. Tries(p, q) \ {c} = {}
      <4>1. CASE k.from.cb \in Attempting
        <5>1. c \in Tries(p, q)
          BY <1>1, <1>2, <1>3, <1>4, <4>1 DEF Tries, Tried
        <5> QED BY <1>6, <2>2, <2>4, <4>1, <5>1 DEF Trying
      <4>2. CASE k.from.cb = "send_err"
        <5>1. write_sock[p][q] # Busy
          BY <1>7, <4>2 DEF Conn, Busy
        <5> QED BY <2>2, <2>4, <5>1 DEF Trying
      <4> QED BY <1>8, <4>1, <4>2
    <3>4. status'[p] = "up"
      BY <1>9 DEF Rest
    <3> QED BY <1>4, <1>12, <2>4, <3>2, <3>3, <3>4 DEF Trying, None, Busy
  <2> QED BY <1>10, <2>3, <2>4
<1> QED BY <1>5, <1>13, <1>14, <1>18, <1>19, <1>20, Frame DEF Closes
\* The acceptor closes, and forgets the socket or leaves it.
Forgot(p, q, c) == read_sock' = [read_sock EXCEPT ![p][q] = IF @ = c THEN None ELSE @]

LEMMA ForgotIs ==
  ASSUME Typed, NEW p \in Proc, NEW q \in Proc, NEW c \in Conn, Forgot(p, q, c) \/ read_sock' = read_sock
  PROVE  /\ read_sock' \in [Proc -> [Proc -> Conn \cup {None}]]
         /\ \A a, b \in Proc : \/ read_sock'[a][b] = read_sock[a][b]
                               \/ a = p /\ read_sock[a][b] = c /\ read_sock'[a][b] = None
         /\ \A r \in Proc \ {p} : read_sock'[r] = read_sock[r]
<1>1. read_sock \in [Proc -> [Proc -> Conn \cup {None}]]
  BY DEF Typed
<1>2. CASE read_sock' = read_sock
  BY <1>1, <1>2
<1>3. CASE Forgot(p, q, c)
  <2>1. PICK v : v = IF read_sock[p][q] = c THEN None ELSE read_sock[p][q]
    OBVIOUS
  <2>2. read_sock' = [read_sock EXCEPT ![p][q] = v]
    BY <1>3, <2>1 DEF Forgot
  <2> DEFINE S == Conn \cup {None}
  <2>3. v \in S
    BY <1>1, <2>1
  <2> HIDE DEF S
  <2>4. /\ read_sock' \in [Proc -> [Proc -> S]] /\ read_sock'[p][q] = v
        /\ \A a, b \in Proc : a # p \/ b # q => read_sock'[a][b] = read_sock[a][b]
        /\ \A r \in Proc \ {p} : read_sock'[r] = read_sock[r]
    BY <1>1, <2>2, <2>3, Entry DEF S
  <2> QED BY <2>1, <2>4 DEF S
<1> QED BY <1>2, <1>3

ToCloses(p, c) ==
  LET k == conn[c] IN
  /\ k.to.proc = p /\ Closes(c, "to") /\ Same
  /\ \/ Forgot(p, k.from.proc, c)
     \/ /\ read_sock' = read_sock
        /\ k.to.cb = "read" => loot[p] # Idle /\ loot[p].cb = "syn" /\ loot'[p] = Idle
  /\ loot'[p] # Idle => loot'[p].end = "to" /\ loot'[p].cb = "syn"

LEMMA ToClosesOk ==
  ASSUME NetInv, Rest, NEW p \in Proc, NEW c \in Conn, ToCloses(p, c), Within(p, c)
  PROVE  NetInv'
<1>1. PICK k : k = conn[c]
  OBVIOUS
<1>2. Closes(c, "to") /\ Same /\ k.to.proc = p
  BY <1>1 DEF ToCloses
<1>3. Typed /\ Good(c) /\ k \in Connection /\ c \in DOMAIN conn /\ k.to.cb # "closed"
  BY <1>1, <1>2 DEF NetInv, Closes, Typed
<1>4. PICK q : q = k.from.proc
  OBVIOUS
<1>5. q \in Proc
  BY <1>3, <1>4 DEF Connection, End
<1>6. /\ read_sock' \in [Proc -> [Proc -> Conn \cup {None}]]
      /\ \A a, b \in Proc : \/ read_sock'[a][b] = read_sock[a][b]
                            \/ a = p /\ read_sock[a][b] = c /\ read_sock'[a][b] = None
      /\ \A r \in Proc \ {p} : read_sock'[r] = read_sock[r]
  BY <1>1, <1>3, <1>4, <1>5, ForgotIs DEF ToCloses
<1>7. Typed'
  BY <1>2, <1>3, <1>6, StepTyped DEF Typed, Within, Closes, Same
<1>8. Row(p, c)
  BY <1>2, <1>6 DEF Row, Within, Rest, Same
<1>9. PICK n : n = conn'[c]
  OBVIOUS
<1>10. c \in DOMAIN conn' <=> k.from.cb # "closed"
  BY <1>1, <1>2 DEF Closes, Other
<1>11. c \in DOMAIN conn' => /\ n.peer = k.peer /\ n.from.proc = q /\ n.to.proc = p
                             /\ n.to.cb = "closed" /\ n.to.in = << >>
                             /\ n.from.cb = k.from.cb /\ n.from.in = Append(k.from.in, Fin)
  BY <1>1, <1>2, <1>4, <1>9, <1>10 DEF Closes, Other
<1>12. Kept(c)'
  <2> SUFFICES ASSUME c \in DOMAIN conn' PROVE Good(c)'
    BY DEF Kept
  <2> USE <1>9, <1>10, <1>11
  <2>1. Roles(n)
    BY <1>1, <1>2, <1>3, <1>4 DEF Roles, Good
  <2>2. k.from.in \in {<< >>, <<p>>} /\ p # Fin
    BY <1>1, <1>2, <1>3, NetAssumption DEF Mail, Good
  <2>3. n.from.in \in {<<Fin>>, <<p, Fin>>} /\ (k.from.in = << >> => n.from.in = <<Fin>>)
    BY <2>2, Mails
  <2>4. Mail(n)
    BY <2>3 DEF Mail
  <2>5. k.from.cb = "send_err" => k.from.in = << >>
    BY <1>1, <1>3, <2>2 DEF Stage, Good
  <2>6. k.from.cb # "connect"
    BY <1>1, <1>3 DEF Stage, Good
  <2>7. Stage(c)'
    BY <2>3, <2>5, <2>6 DEF Stage
  <2>8. Bound(c)'
    BY <1>1, <1>2, <1>3, <1>4 DEF Bound, Good, Same
  <2>9. \A a, b \in Proc : read_sock'[a][b] = c => read_sock[a][b] = c
    <3>1. c # None
      BY DEF Conn, None
    <3> QED BY <1>6, <3>1
  <2>10. Sockets(c)'
    <3>1. Sockets(c)
      BY <1>3 DEF Good
    <3>2. \A a, b \in Proc : /\ write_sock'[a][b] = c => n.from.proc = a /\ n.peer = b /\ n.to.proc = b /\ n.from.cb = "send_err"
                             /\ read_sock'[a][b] = c => n.to.proc = a /\ n.from.proc = b /\ n.from.cb \in {"ack", "send_err"}
      BY <1>1, <1>2, <1>4, <2>9, <3>1 DEF Sockets, Same
    <3> QED BY <3>2 DEF Sockets
  <2> QED BY <2>1, <2>4, <2>7, <2>8, <2>10 DEF Good
<1>13. OnLoot(c)'
  <2> SUFFICES ASSUME NEW r \in Proc, loot'[r] # Idle, loot'[r].conn = c PROVE Looting(r)'
    BY DEF OnLoot
  <2>1. PICK l : l = loot'[r]
    OBVIOUS
  <2>2. l \in Loot /\ l.conn = c
    BY <2>1 DEF Within
  <2>3. Alive(State, c, "to")' = FALSE
    BY <1>9, <1>11 DEF Alive, State
  <2>4. Alive(State, c, "from")' <=> k.from.cb # "closed"
    BY <1>9, <1>10, <1>11 DEF Alive, State
  <2>5. k.from.cb # "connect"
    BY <1>1, <1>3 DEF Stage, Good
  <2>6. CASE r = p
    <3>1. l.end = "to" /\ l.cb = "syn"
      BY <2>1, <2>6 DEF ToCloses
    <3> QED BY <1>9, <1>11, <2>1, <2>2, <2>3, <2>5, <3>1 DEF Looting
  <2>7. CASE r # p
    <3>1. loot[r] = l /\ l # Idle /\ k.to.proc # r
      BY <1>2, <2>1, <2>7 DEF Within
    <3>2. Alive(State, c, "from") <=> k.from.cb # "closed"
      BY <1>1, <1>3 DEF Alive, State
    <3>3. /\ l.end = "from" /\ l.cb \in {"synack", "ack", "send_err"}
          /\ status[r] = "up" /\ l.peer \in Peers(r)
          /\ Alive(State, c, "from") =>
               /\ k.from.proc = r /\ k.peer = l.peer
               /\ l.cb = "synack" => l.name /\ k.from.cb = "ack"
               /\ l.cb = "ack" => k.from.cb = "send_err" /\ ~l.name
               /\ l.cb # "send_err"
          /\ ~Alive(State, c, "from") /\ l.cb \in {"synack", "ack"} => write_sock[r][l.peer] # Busy
      BY <1>1, <1>3, <2>2, <3>1, LootFrom
    <3>4. status'[r] = "up" /\ write_sock' = write_sock
      BY <1>2, <3>3 DEF Same, Rest
    <3>5. CASE Alive(State, c, "from")
      BY <1>4, <1>9, <1>10, <1>11, <2>1, <2>2, <2>4, <2>5, <3>2, <3>3, <3>4, <3>5 DEF Looting
    <3>6. CASE ~Alive(State, c, "from")
      BY <1>10, <2>1, <2>2, <2>4, <3>2, <3>3, <3>4, <3>6 DEF Looting
    <3> QED BY <3>5, <3>6
  <2> QED BY <2>6, <2>7
<1>14. AllTrying'
  <2> SUFFICES ASSUME NEW a \in Proc, NEW b \in Proc PROVE Trying(a, b)'
    BY DEF AllTrying
  <2>1. Tried(c, a, b)' <=> Tried(c, a, b)
    BY <1>1, <1>3, <1>4, <1>9, <1>10, <1>11 DEF Tried, Attempting
  <2> QED BY <1>2, <2>1, FrameTrying DEF NetInv, Same, Rest, Closes
<1> QED BY <1>2, <1>7, <1>8, <1>12, <1>13, <1>14, Frame DEF Closes
-----------------------------------------------------------------------------
(* The steps after which both ends of c are what they were, but for what   *)
(* they wait for.                                                          *)

Turns(c) == ConnTyped' /\ Only(c) /\ c \in DOMAIN conn /\ c \in DOMAIN conn'

LEMMA KeepsTrying ==
  ASSUME NetInv, Rest, NEW c \in Conn, Turns(c), Same,
         conn'[c].from.proc = conn[c].from.proc, conn'[c].peer = conn[c].peer,
         conn'[c].from.cb \in Attempting <=> conn[c].from.cb \in Attempting
  PROVE  AllTrying'
<1> SUFFICES ASSUME NEW a \in Proc, NEW b \in Proc PROVE Trying(a, b)'
  BY DEF AllTrying
<1>1. Tried(c, a, b)' <=> Tried(c, a, b)
  BY DEF Tried, Turns
<1> QED BY <1>1, FrameTrying DEF NetInv, Same, Rest, Turns

\* The initiator has read the acceptor's name.
SynackOk(p, c) ==
  LET k == conn[c]
      n == conn'[c]
  IN
  /\ k.from.proc = p /\ Turns(c) /\ Same /\ read_sock' = read_sock
  /\ \/ k.from.cb = "synack"
     \/ k.from.cb = "ack" /\ k.to.in = << >> /\ k.to.cb \in {"syn", "closed"}
  /\ k.from.in # << >> /\ Head(k.from.in) = k.peer
  /\ n.peer = k.peer /\ n.to = k.to /\ n.from.proc = p /\ n.from.cb = "ack" /\ n.from.in = Tail(k.from.in)
  /\ loot'[p] = [conn |-> c, end |-> "from", cb |-> "synack", peer |-> k.peer, name |-> TRUE]

LEMMA SynackOkOk ==
  ASSUME NetInv, Rest, NEW p \in Proc, NEW c \in Conn, SynackOk(p, c), Within(p, c)
  PROVE  NetInv'
<1>1. PICK k : k = conn[c]
  OBVIOUS
<1>2. PICK n : n = conn'[c]
  OBVIOUS
<1>3. PICK q : q = k.peer
  OBVIOUS
<1>4. Turns(c) /\ Same /\ read_sock' = read_sock /\ k.from.proc = p
  BY <1>1 DEF SynackOk
<1>5. Typed /\ Good(c) /\ k \in Connection /\ c \in DOMAIN conn /\ c \in DOMAIN conn'
  BY <1>1, <1>4 DEF NetInv, Turns, Typed
<1>6. q \in Peers(p) /\ q \in Proc /\ q # p /\ q # Fin
  BY <1>1, <1>3, <1>4, <1>5, NetAssumption DEF Good, Roles, Peers
<1>7. \/ k.from.cb = "synack"
      \/ k.from.cb = "ack" /\ k.to.in = << >> /\ k.to.cb \in {"syn", "closed"}
  BY <1>1 DEF SynackOk
<1>8. k.from.in # << >> /\ Head(k.from.in) = q
  BY <1>1, <1>3 DEF SynackOk
<1>9. n.peer = q /\ n.to = k.to /\ n.from.proc = p /\ n.from.cb = "ack" /\ n.from.in = Tail(k.from.in)
  BY <1>1, <1>2, <1>3 DEF SynackOk
<1>10. /\ k.to.proc = q
       /\ k.to.cb # "closed" => k.from.in = <<q>> /\ n.from.in = << >>
       /\ k.to.cb = "closed" => k.from.in = <<q, Fin>> /\ n.from.in = <<Fin>>
  <2>1. k.from.in \in IF k.to.cb = "closed" THEN {<< >>, <<Fin>>, <<k.to.proc, Fin>>} ELSE {<< >>, <<k.to.proc>>}
    BY <1>1, <1>5, <1>7 DEF Good, Mail
  <2>2. PICK m, x, cb : m = k.from.in /\ x = k.to.proc /\ cb = k.to.cb
    OBVIOUS
  <2>3. m \in Inbox(x, cb)
    BY <2>1, <2>2 DEF Inbox
  <2>4. Begins(m, q)
    BY <1>8, <2>2 DEF Begins
  <2>5. q = x /\ Opened(m, q, cb)
    BY <1>6, <2>3, <2>4, Received
  <2> QED BY <1>9, <2>2, <2>5 DEF Opened
<1>11. k.to.in = << >>
  BY <1>1, <1>5, <1>7 DEF Good, Stage
<1>12. k.to.cb \in {"syn", "closed"}
  <2>1. CASE k.from.cb = "synack"
    BY <1>1, <1>5, <1>8, <2>1 DEF Good, Stage, Roles
  <2> QED BY <1>7, <2>1
<1>13. Typed'
  BY <1>4, <1>5, StepTyped DEF Typed, Within, Turns, Same
<1>14. Row(p, c)
  BY <1>4 DEF Row, Within, Rest, Same
<1>15. Kept(c)'
  <2>1. Roles(n)
    BY <1>1, <1>5, <1>6, <1>9, <1>10 DEF Roles, Good
  <2>2. Mail(n)
    BY <1>9, <1>10, <1>11 DEF Mail
  <2>3. Stage(c)'
    BY <1>2, <1>9, <1>10, <1>11, <1>12 DEF Stage
  <2>4. Bound(c)'
    BY <1>2, <1>9, <1>12 DEF Bound
  <2>5. Sockets(c)'
    BY <1>1, <1>2, <1>4, <1>5, <1>7, <1>9, <1>12 DEF Sockets, Good, Same
  <2> QED BY <1>2, <2>1, <2>2, <2>3, <2>4, <2>5 DEF Good, Kept
<1>16. OnLoot(c)'
  <2> SUFFICES ASSUME NEW r \in Proc, loot'[r] # Idle, loot'[r].conn = c PROVE Looting(r)'
    BY DEF OnLoot
  <2>1. PICK l : l = loot'[r]
    OBVIOUS
  <2>2. Alive(State, c, "from")' /\ (Alive(State, c, "to")' <=> k.to.cb # "closed")
    BY <1>2, <1>5, <1>9 DEF Alive, State
  <2>3. CASE r = p
    <3>1. l.conn = c /\ l.end = "from" /\ l.cb = "synack" /\ l.peer = q /\ l.name
      BY <1>1, <1>3, <2>1, <2>3 DEF SynackOk
    <3>2. status'[p] = "up"
      <4>1. c \in Tries(p, q)
        BY <1>1, <1>3, <1>4, <1>5, <1>7 DEF Tries, Tried, Attempting
      <4> QED BY <1>6, <4>1 DEF NetInv, Trying, None, Busy, Rest
    <3> QED BY <1>2, <1>6, <1>9, <1>11, <1>12, <2>1, <2>2, <2>3, <3>1, <3>2 DEF Looting
  <2>4. CASE r # p
    <3>1. loot[r] = l /\ l # Idle /\ k.from.proc # r /\ l.conn = c
      BY <1>4, <2>1, <2>4 DEF Within
    <3>2. Alive(State, c, "to") <=> k.to.cb # "closed"
      BY <1>1, <1>5 DEF Alive, State
    <3>3. /\ l.end = "to" /\ l.cb \in {"syn", "read"}
          /\ Alive(State, c, "to") => k.to.proc = r
          /\ l.cb = "syn" /\ Alive(State, c, "to") => l.name /\ k.to.cb = "read"
          /\ l.cb = "read" => ~Alive(State, c, "to")
      BY <1>1, <1>4, <1>5, <1>7, <3>1, LootTo
    <3> QED BY <1>2, <1>9, <1>12, <2>1, <2>2, <3>1, <3>2, <3>3 DEF Looting
  <2> QED BY <2>3, <2>4
<1>17. AllTrying'
  BY <1>1, <1>2, <1>3, <1>4, <1>7, <1>9, KeepsTrying DEF Attempting
<1> QED BY <1>4, <1>13, <1>14, <1>15, <1>16, <1>17, Frame DEF Turns
\* The initiator has read the acceptor's answer, and the link is bound.
AckOk(p, c) ==
  LET k == conn[c]
      n == conn'[c]
  IN
  /\ k.from.proc = p /\ k.from.cb = "ack" /\ Begins(k.from.in, k.peer)
  /\ Turns(c) /\ read_sock' = read_sock /\ timer' = timer
  /\ write_sock' = [write_sock EXCEPT ![p][k.peer] = c]
  /\ n.peer = k.peer /\ n.to = k.to /\ n.from.proc = p /\ n.from.cb = "send_err" /\ n.from.in = Tail(k.from.in)
  /\ loot'[p] = [conn |-> c, end |-> "from", cb |-> "ack", peer |-> k.peer, name |-> FALSE]

LEMMA AckOkOk ==
  ASSUME NetInv, Rest, NEW p \in Proc, NEW c \in Conn, AckOk(p, c), Within(p, c)
  PROVE  NetInv'
<1>1. PICK k : k = conn[c]
  OBVIOUS
<1>2. PICK n : n = conn'[c]
  OBVIOUS
<1>3. PICK q : q = k.peer
  OBVIOUS
<1>4. Turns(c) /\ read_sock' = read_sock /\ timer' = timer /\ k.from.proc = p /\ k.from.cb = "ack" /\ Begins(k.from.in, q)
  BY <1>1, <1>3 DEF AckOk
<1>5. Typed /\ Good(c) /\ k \in Connection /\ c \in DOMAIN conn /\ c \in DOMAIN conn'
  BY <1>1, <1>4 DEF NetInv, Turns, Typed
<1>6. q \in Peers(p) /\ q \in Proc /\ q # p /\ q # Fin /\ k.to.proc = q
  BY <1>1, <1>3, <1>4, <1>5, NetAssumption DEF Good, Roles, Peers
<1>7. n.peer = q /\ n.to = k.to /\ n.from.proc = p /\ n.from.cb = "send_err" /\ n.from.in = Tail(k.from.in)
  BY <1>1, <1>2, <1>3 DEF AckOk
<1>8. Opened(k.from.in, q, k.to.cb)
  <2>1. PICK m, x, cb : m = k.from.in /\ x = k.to.proc /\ cb = k.to.cb
    OBVIOUS
  <2>2. m \in Inbox(x, cb)
    BY <1>1, <1>4, <1>5, <2>1 DEF Good, Mail, Inbox
  <2> QED BY <1>4, <1>6, <2>1, <2>2, Received
<1>9. k.from.in # << >> /\ (n.from.in = IF k.to.cb = "closed" THEN <<Fin>> ELSE << >>)
  BY <1>4, <1>7, <1>8 DEF Opened, Begins
<1>10. write_sock[p][q] = Busy /\ Tries(p, q) = {c} /\ status[p] = "up" /\ timer[p][q] = 0
  <2>1. c \in Tries(p, q)
    BY <1>1, <1>3, <1>4, <1>5 DEF Tries, Tried, Attempting
  <2> QED BY <1>6, <2>1 DEF NetInv, Trying, None, Busy
<1>11. /\ write_sock' \in [Proc -> [Proc -> Conn \cup {None, Busy}]] /\ write_sock'[p][q] = c
       /\ \A a, b \in Proc : a # p \/ b # q => write_sock'[a][b] = write_sock[a][b]
       /\ \A r \in Proc \ {p} : write_sock'[r] = write_sock[r]
  <2> DEFINE S == Conn \cup {None, Busy}
  <2>1. write_sock' = [write_sock EXCEPT ![p][q] = c] /\ c \in S /\ write_sock \in [Proc -> [Proc -> S]]
    BY <1>1, <1>3, <1>5 DEF AckOk, Typed
  <2> HIDE DEF S
  <2>2. PICK g : g = write_sock'
    OBVIOUS
  <2>3. /\ g \in [Proc -> [Proc -> S]] /\ g[p][q] = c
        /\ \A a, b \in Proc : a # p \/ b # q => g[a][b] = write_sock[a][b]
        /\ \A r \in Proc \ {p} : g[r] = write_sock[r]
    BY <1>6, <2>1, <2>2, Entry
  <2> QED BY <2>2, <2>3 DEF S
<1>12. Typed'
  BY <1>4, <1>5, <1>11, StepTyped DEF Typed, Within, Turns
<1>13. Row(p, c)
  <2>1. \A b \in Proc : \/ write_sock'[p][b] = write_sock[p][b]
                        \/ write_sock'[p][b] \in {None, Busy, c} /\ write_sock[p][b] \in {None, Busy, c}
    BY <1>10, <1>11
  <2> QED BY <1>4, <1>11, <2>1 DEF Row, Within, Rest
<1>14. k.to.cb \in {"read", "closed"}
  BY <1>1, <1>4, <1>5, <1>9 DEF Good, Stage, Roles
<1>15. Kept(c)'
  <2>1. Roles(n)
    BY <1>1, <1>3, <1>4, <1>5, <1>6, <1>7 DEF Roles, Good
  <2>2. Mail(n)
    BY <1>1, <1>4, <1>5, <1>7, <1>9 DEF Mail, Good
  <2>3. Stage(c)'
    BY <1>1, <1>2, <1>5, <1>7, <1>9, <1>14 DEF Stage, Good
  <2>4. Bound(c)'
    BY <1>1, <1>2, <1>4, <1>5, <1>7, <1>11 DEF Bound, Good
  <2>5. Sockets(c)'
    <3>1. Sockets(c) /\ k.from.cb = "ack"
      BY <1>4, <1>5 DEF Good
    <3>2. \A a, b \in Proc : write_sock'[a][b] = c => a = p /\ b = q
      BY <1>1, <1>11, <3>1 DEF Sockets
    <3> QED BY <1>1, <1>2, <1>4, <1>6, <1>7, <3>1, <3>2 DEF Sockets
  <2> QED BY <1>2, <2>1, <2>2, <2>3, <2>4, <2>5 DEF Good, Kept
<1>16. OnLoot(c)'
  <2> SUFFICES ASSUME NEW r \in Proc, loot'[r] # Idle, loot'[r].conn = c PROVE Looting(r)'
    BY DEF OnLoot
  <2>1. PICK l : l = loot'[r]
    OBVIOUS
  <2>2. Alive(State, c, "from")' /\ (Alive(State, c, "to")' <=> k.to.cb # "closed")
    BY <1>2, <1>5, <1>7 DEF Alive, State
  <2>3. CASE r = p
    <3>1. l.conn = c /\ l.end = "from" /\ l.cb = "ack" /\ l.peer = q /\ ~l.name
      BY <1>1, <1>3, <2>1, <2>3 DEF AckOk
    <3>2. status'[p] = "up"
      BY <1>10 DEF Rest
    <3> QED BY <1>2, <1>6, <1>7, <2>1, <2>2, <2>3, <3>1, <3>2 DEF Looting
  <2>4. CASE r # p
    <3>1. loot[r] = l /\ l # Idle /\ k.from.proc # r /\ l.conn = c
      BY <1>4, <2>1, <2>4 DEF Within
    <3>2. Alive(State, c, "to") <=> k.to.cb # "closed"
      BY <1>1, <1>5 DEF Alive, State
    <3>3. /\ l.end = "to" /\ l.cb \in {"syn", "read"}
          /\ Alive(State, c, "to") => k.to.proc = r
          /\ l.cb = "syn" => ~Alive(State, c, "to")
          /\ l.cb = "read" => ~Alive(State, c, "to")
      BY <1>1, <1>4, <1>5, <1>9, <3>1, LootTo
    <3> QED BY <1>2, <1>7, <2>1, <2>2, <3>1, <3>2, <3>3 DEF Looting
  <2> QED BY <2>3, <2>4
<1>17. AllTrying'
  <2> SUFFICES ASSUME NEW a \in Proc, NEW b \in Proc PROVE Trying(a, b)'
    BY DEF AllTrying
  <2>1. ~Tried(c, a, b)'
    BY <1>2, <1>7 DEF Tried, Attempting
  <2>2. CASE a # p \/ b # q
    <3>1. ~Tried(c, a, b)
      BY <1>1, <1>3, <1>4, <2>2 DEF Tried
    <3> QED BY <1>4, <1>11, <2>1, <2>2, <3>1, FrameTrying DEF NetInv, Rest, Turns
  <2>3. CASE a = p /\ b = q
    <3>1. \A d \in Conn : Tried(d, p, q)' => Tried(d, p, q) /\ d # c
      BY <1>4, <2>1, <2>3 DEF Tried, Turns, Only
    <3>2. Tries(p, q)' = {}
      BY <1>10, <3>1 DEF Tries
    <3>3. c # Busy /\ c # None /\ status'[p] = "up" /\ timer'[p][q] = 0
      BY <1>4, <1>10 DEF Conn, Busy, None, Rest
    <3> QED BY <1>6, <1>11, <2>3, <3>2, <3>3 DEF Trying
  <2> QED BY <2>2, <2>3
<1> QED BY <1>4, <1>12, <1>13, <1>15, <1>16, <1>17, Frame DEF Turns
\* The acceptor has read the initiator's name.
SynOk(p, w, c) ==
  LET k == conn[c]
      n == conn'[c]
  IN
  /\ k.to.proc = p /\ k.to.cb = "syn" /\ Begins(k.to.in, w) /\ w \in Peers(p)
  /\ Turns(c) /\ Same /\ read_sock' = [read_sock EXCEPT ![p][w] = c] /\ read_sock[p][w] = None
  /\ n.peer = k.peer /\ n.from = k.from /\ n.to.proc = p /\ n.to.cb = "read" /\ n.to.in = Tail(k.to.in)
  /\ loot'[p] = [conn |-> c, end |-> "to", cb |-> "syn", peer |-> k.from.proc, name |-> TRUE]

LEMMA SynOkOk ==
  ASSUME NetInv, Rest, NEW p \in Proc, NEW w \in Proc, NEW c \in Conn, SynOk(p, w, c), Within(p, c)
  PROVE  NetInv'
<1>1. PICK k : k = conn[c]
  OBVIOUS
<1>2. PICK n : n = conn'[c]
  OBVIOUS
<1>3. Turns(c) /\ Same /\ k.to.proc = p /\ k.to.cb = "syn" /\ Begins(k.to.in, w) /\ w \in Peers(p)
  BY <1>1 DEF SynOk
<1>4. Typed /\ Good(c) /\ k \in Connection /\ c \in DOMAIN conn /\ c \in DOMAIN conn'
  BY <1>1, <1>3 DEF NetInv, Turns, Typed
<1>5. w # Fin /\ w # p
  BY <1>3, NetAssumption DEF Peers
<1>6. n.peer = k.peer /\ n.from = k.from /\ n.to.proc = p /\ n.to.cb = "read" /\ n.to.in = Tail(k.to.in)
  BY <1>1, <1>2 DEF SynOk
<1>7. k.from.proc = w /\ Opened(k.to.in, w, k.from.cb)
  <2>1. PICK m, x, cb : m = k.to.in /\ x = k.from.proc /\ cb = k.from.cb
    OBVIOUS
  <2>2. m \in Inbox(x, cb)
    BY <1>1, <1>3, <1>4, <2>1 DEF Good, Mail, Inbox
  <2> QED BY <1>3, <1>5, <2>1, <2>2, Received
<1>8. k.to.in # << >> /\ (n.to.in = IF k.from.cb = "closed" THEN <<Fin>> ELSE << >>)
  BY <1>3, <1>6, <1>7 DEF Opened, Begins
<1>9. \/ k.from.cb = "closed"
      \/ k.from.cb = "ack" /\ k.from.in = << >>
  BY <1>1, <1>3, <1>4, <1>8 DEF Good, Stage
<1>10. /\ read_sock' \in [Proc -> [Proc -> Conn \cup {None}]] /\ read_sock'[p][w] = c
       /\ \A a, b \in Proc : a # p \/ b # w => read_sock'[a][b] = read_sock[a][b]
       /\ \A r \in Proc \ {p} : read_sock'[r] = read_sock[r]
  <2> DEFINE S == Conn \cup {None}
  <2>1. read_sock' = [read_sock EXCEPT ![p][w] = c] /\ c \in S /\ read_sock \in [Proc -> [Proc -> S]]
    BY <1>4 DEF SynOk, Typed
  <2> HIDE DEF S
  <2>2. PICK g : g = read_sock'
    OBVIOUS
  <2>3. /\ g \in [Proc -> [Proc -> S]] /\ g[p][w] = c
        /\ \A a, b \in Proc : a # p \/ b # w => g[a][b] = read_sock[a][b]
        /\ \A r \in Proc \ {p} : g[r] = read_sock[r]
    BY <2>1, <2>2, Entry
  <2> QED BY <2>2, <2>3 DEF S
<1>11. read_sock[p][w] = None
  BY DEF SynOk
<1>12. Typed'
  BY <1>3, <1>4, <1>10, StepTyped DEF Typed, Within, Turns, Same
<1>13. Row(p, c)
  <2>1. \A b \in Proc : \/ read_sock'[p][b] = read_sock[p][b]
                        \/ read_sock'[p][b] \in {None, c} /\ read_sock[p][b] \in {None, c}
    BY <1>10, <1>11
  <2> QED BY <1>3, <1>10, <2>1 DEF Row, Within, Rest, Same
<1>14. Kept(c)'
  <2>1. Roles(n)
    BY <1>1, <1>3, <1>4, <1>6 DEF Roles, Good
  <2>2. Mail(n)
    BY <1>1, <1>3, <1>4, <1>6, <1>8, <1>9 DEF Mail, Good
  <2>3. k.from.cb = "ack" => Answering(c)'
    BY <1>2, <1>6 DEF Answering, SynOk, Idle
  <2>4. Stage(c)'
    BY <1>2, <1>6, <1>8, <1>9, <2>3 DEF Stage
  <2>5. Bound(c)'
    BY <1>2, <1>3, <1>6, <1>7, <1>9, <1>10 DEF Bound
  <2>6. Sockets(c)'
    <3>1. Sockets(c)
      BY <1>4 DEF Good
    <3>2. \A a, b \in Proc : /\ write_sock'[a][b] = c => write_sock[a][b] = c
                             /\ read_sock'[a][b] = c => a = p /\ b = w
      BY <1>1, <1>3, <1>10, <3>1 DEF Sockets, Same
    <3>3. \A a, b \in Proc : /\ write_sock'[a][b] = c => n.from.proc = a /\ n.peer = b /\ n.to.proc = b /\ n.from.cb \in {"send_err", "closed"}
                             /\ read_sock'[a][b] = c => n.to.proc = a /\ n.from.proc = b /\ n.from.cb \in {"ack", "closed"}
      BY <1>1, <1>3, <1>6, <1>7, <1>9, <3>1, <3>2 DEF Sockets
    <3> QED BY <1>2, <1>6, <3>3 DEF Sockets
  <2> QED BY <1>2, <2>1, <2>2, <2>4, <2>5, <2>6 DEF Good, Kept
<1>15. OnLoot(c)'
  <2> SUFFICES ASSUME NEW r \in Proc, loot'[r] # Idle, loot'[r].conn = c PROVE Looting(r)'
    BY DEF OnLoot
  <2>1. PICK l : l = loot'[r]
    OBVIOUS
  <2>2. Alive(State, c, "to")' /\ (Alive(State, c, "from")' <=> k.from.cb # "closed")
    BY <1>2, <1>4, <1>6 DEF Alive, State
  <2>3. CASE r = p
    <3>1. l.conn = c /\ l.end = "to" /\ l.cb = "syn" /\ l.name
      BY <2>1, <2>3 DEF SynOk
    <3> QED BY <1>2, <1>6, <1>9, <2>1, <2>2, <2>3, <3>1 DEF Looting
  <2>4. CASE r # p
    <3>1. loot[r] = l /\ l # Idle /\ k.to.proc # r /\ l.conn = c
      BY <1>3, <2>1, <2>4 DEF Within
    <3>2. Alive(State, c, "from") <=> k.from.cb # "closed"
      BY <1>1, <1>4 DEF Alive, State
    <3>3. /\ l.end = "from" /\ l.cb \in {"synack", "ack", "send_err"}
          /\ status[r] = "up" /\ l.peer \in Peers(r)
          /\ ~Alive(State, c, "from")
          /\ l.cb \in {"synack", "ack"} => write_sock[r][l.peer] # Busy
      BY <1>1, <1>3, <1>4, <1>8, <1>9, <3>1, <3>2, LootFrom
    <3> QED BY <1>2, <1>3, <1>6, <2>1, <2>2, <3>1, <3>2, <3>3 DEF Looting, Same, Rest
  <2> QED BY <2>3, <2>4
<1>16. AllTrying'
  BY <1>1, <1>2, <1>3, <1>6, KeepsTrying
<1> QED BY <1>3, <1>12, <1>13, <1>14, <1>15, <1>16, Frame DEF Turns
-----------------------------------------------------------------------------
(* The steps that end a loot_read.                                         *)

\* Nothing is sent; a closed end is forgotten.
Leaves(p, c) ==
  /\ conn' = conn /\ loot'[p] = Idle
  /\ c \in DOMAIN conn => loot[p].end = "from" \/ conn[c].to.cb = "closed" \/ conn[c].from.cb = "closed"
  /\ \/ read_sock' = read_sock
     \/ \E q \in Proc : Forgot(p, q, c) /\ (c \in DOMAIN conn => conn[c].to.cb = "closed")
  /\ \/ Same
     \/ \E q \in Proc : Freed(p, q) /\ write_sock[p][q] = c /\ (c \in DOMAIN conn => conn[c].from.cb = "closed")

LEMMA LeavesOk ==
  ASSUME NetInv, Rest, NEW p \in Proc, NEW c \in Conn, Leaves(p, c), Within(p, c)
  PROVE  NetInv'
<1>1. Typed /\ conn' = conn /\ c # Busy /\ c # None
  BY DEF NetInv, Leaves, Conn, Busy, None
<1>2. /\ read_sock' \in [Proc -> [Proc -> Conn \cup {None}]]
      /\ \A a, b \in Proc : \/ read_sock'[a][b] = read_sock[a][b]
                            \/ a = p /\ read_sock[a][b] = c /\ read_sock'[a][b] = None
      /\ \A r \in Proc \ {p} : read_sock'[r] = read_sock[r]
  BY <1>1, ForgotIs DEF Leaves
<1>3. \/ read_sock' = read_sock
      \/ c \in DOMAIN conn => conn[c].to.cb = "closed"
  BY DEF Leaves
<1>4. /\ write_sock' \in [Proc -> [Proc -> Conn \cup {None, Busy}]] /\ timer' \in [Proc -> [Proc -> Nat]]
      /\ \A a, b \in Proc : \/ write_sock'[a][b] = write_sock[a][b] /\ timer'[a][b] = timer[a][b]
                            \/ /\ a = p /\ write_sock[a][b] = c /\ write_sock'[a][b] = None
                               /\ timer'[a][b] = timer[a][b] + 1
      /\ \A r \in Proc \ {p} : write_sock'[r] = write_sock[r]
      /\ Same \/ (c \in DOMAIN conn => conn[c].from.cb = "closed")
  <2>1. CASE Same
    BY <1>1, <2>1 DEF Same, Typed
  <2>2. CASE ~Same
    <3>1. PICK q \in Proc : Freed(p, q) /\ write_sock[p][q] = c /\ (c \in DOMAIN conn => conn[c].from.cb = "closed")
      BY <2>2 DEF Leaves
    <3> QED BY <1>1, <3>1, FreedIs
  <2> QED BY <2>1, <2>2
<1>5. Typed'
  BY <1>1, <1>2, <1>4, StepTyped DEF Typed, Within, ConnTyped
<1>6. Only(c)
  BY <1>1 DEF Only
<1>7. Row(p, c)
  <2>1. \A b \in Proc : \/ write_sock'[p][b] = write_sock[p][b]
                        \/ write_sock'[p][b] \in {None, Busy, c} /\ write_sock[p][b] \in {None, Busy, c}
    BY <1>4
  <2>2. \A b \in Proc : \/ read_sock'[p][b] = read_sock[p][b]
                        \/ read_sock'[p][b] \in {None, c} /\ read_sock[p][b] \in {None, c}
    BY <1>2
  <2> QED BY <1>2, <1>4, <2>1, <2>2 DEF Row, Within, Rest
<1>8. Kept(c)'
  <2> SUFFICES ASSUME c \in DOMAIN conn PROVE Good(c)'
    BY <1>1 DEF Kept
  <2>1. Good(c)
    BY DEF NetInv
  <2>2. Roles(conn[c])' /\ Mail(conn[c])'
    BY <1>1, <2>1 DEF Good
  <2>3. Stage(c)'
    <3>1. CASE conn[c].to.cb = "read" /\ conn[c].from.cb = "ack"
      <4>1. loot[p].end = "from"
        BY <3>1 DEF Leaves
      <4>2. conn[c].to.proc \in Proc
        BY <1>1 DEF Typed, Connection, End
      <4>3. Answering(c) => Answering(c)'
        BY <1>1, <4>1, <4>2 DEF Answering, Within
      <4> QED BY <1>1, <2>1, <3>1, <4>3 DEF Stage, Good
    <3>2. CASE ~(conn[c].to.cb = "read" /\ conn[c].from.cb = "ack")
      BY <1>1, <2>1, <3>2 DEF Stage, Good
    <3> QED BY <3>1, <3>2
  <2>4. conn[c].to.proc \in Proc /\ conn[c].from.proc \in Proc /\ conn[c].peer \in Proc
    BY <1>1 DEF Typed, Connection, End
  <2>5. Bound(c)'
    <3>1. conn[c].from.cb = "send_err" => Same
      BY <1>4
    <3>2. conn[c].to.cb = "read" => read_sock' = read_sock
      BY <1>3
    <3> QED BY <1>1, <2>1, <3>1, <3>2 DEF Bound, Good, Same
  <2>6. Sockets(c)'
    <3>1. \A a, b \in Proc : /\ write_sock'[a][b] = c => write_sock[a][b] = c
                             /\ read_sock'[a][b] = c => read_sock[a][b] = c
      BY <1>1, <1>2, <1>4
    <3> QED BY <1>1, <2>1, <3>1 DEF Sockets, Good
  <2> QED BY <2>2, <2>3, <2>5, <2>6 DEF Good
<1>9. OnLoot(c)'
  <2> SUFFICES ASSUME NEW r \in Proc, loot'[r] # Idle, loot'[r].conn = c PROVE Looting(r)'
    BY DEF OnLoot
  <2>1. r # p /\ loot'[r] = loot[r] /\ write_sock'[r] = write_sock[r] /\ status'[r] = status[r]
    BY <1>4 DEF Leaves, Within, Rest
  <2>2. Looting(r)
    BY DEF NetInv
  <2>3. PICK d, e : d = loot[r].conn /\ e = loot[r].end
    OBVIOUS
  <2>4. Alive(State, d, e)' <=> Alive(State, d, e)
    BY <1>1 DEF Alive, State
  <2> QED BY <1>1, <2>1, <2>2, <2>3, <2>4 DEF Looting
<1>10. AllTrying'
  <2> SUFFICES ASSUME NEW a \in Proc, NEW b \in Proc PROVE Trying(a, b)'
    BY DEF AllTrying
  <2>1. \A d \in Conn : Tried(d, a, b)' <=> Tried(d, a, b)
    BY <1>1 DEF Tried
  <2>2. Trying(a, b)
    BY DEF NetInv
  <2>3. CASE write_sock'[a][b] = write_sock[a][b] /\ timer'[a][b] = timer[a][b]
    BY <1>6, <2>1, <2>2, <2>3, FrameTrying DEF Rest
  <2>4. CASE write_sock[a][b] = c /\ write_sock'[a][b] = None /\ timer'[a][b] = timer[a][b] + 1
    <3>1. Tries(a, b)' = Tries(a, b)
      BY <2>1 DEF Tries
    <3> QED BY <1>1, <2>2, <2>4, <3>1 DEF Trying, Rest, None, Busy
  <2> QED BY <1>4, <2>3, <2>4
<1> QED BY <1>5, <1>6, <1>7, <1>8, <1>9, <1>10, Frame
\* The initiator sends its name.
AnswersFrom(p, c) ==
  LET k == conn[c]
      n == conn'[c]
  IN
  /\ k.from.proc = p /\ k.from.cb = "ack" /\ k.to.cb = "syn" /\ k.to.in = << >>
  /\ Turns(c) /\ Same /\ read_sock' = read_sock /\ loot'[p] = Idle
  /\ n.peer = k.peer /\ n.from = k.from /\ n.to.proc = k.to.proc /\ n.to.cb = "syn" /\ n.to.in = <<p>>

LEMMA AnswersFromOk ==
  ASSUME NetInv, Rest, NEW p \in Proc, NEW c \in Conn, AnswersFrom(p, c), Within(p, c)
  PROVE  NetInv'
<1>1. PICK k : k = conn[c]
  OBVIOUS
<1>2. PICK n : n = conn'[c]
  OBVIOUS
<1>3. /\ k.from.proc = p /\ k.from.cb = "ack" /\ k.to.cb = "syn" /\ k.to.in = << >>
      /\ Turns(c) /\ Same /\ read_sock' = read_sock /\ loot'[p] = Idle
  BY <1>1 DEF AnswersFrom
<1>4. Typed /\ Good(c) /\ k \in Connection /\ c \in DOMAIN conn /\ c \in DOMAIN conn'
  BY <1>1, <1>3 DEF NetInv, Turns, Typed
<1>5. n.peer = k.peer /\ n.from = k.from /\ n.to.proc = k.to.proc /\ n.to.cb = "syn" /\ n.to.in = <<p>>
  BY <1>1, <1>2 DEF AnswersFrom
<1>6. k.from.in = << >>
  BY <1>1, <1>3, <1>4 DEF Good, Stage
<1>7. Typed'
  BY <1>3, <1>4, StepTyped DEF Typed, Within, Turns, Same
<1>8. Row(p, c)
  BY <1>3 DEF Row, Within, Rest, Same
<1>9. Kept(c)'
  <2>1. Roles(n)
    BY <1>1, <1>3, <1>4, <1>5 DEF Roles, Good
  <2>2. Mail(n)
    BY <1>3, <1>5, <1>6 DEF Mail
  <2>3. Stage(c)'
    BY <1>2, <1>3, <1>5, <1>6 DEF Stage
  <2>4. Bound(c)'
    BY <1>2, <1>3, <1>5 DEF Bound
  <2>5. Sockets(c)'
    BY <1>1, <1>2, <1>3, <1>4, <1>5 DEF Sockets, Good, Same
  <2> QED BY <1>2, <2>1, <2>2, <2>3, <2>4, <2>5 DEF Good, Kept
<1>10. OnLoot(c)'
  <2> SUFFICES ASSUME NEW r \in Proc, loot'[r] # Idle, loot'[r].conn = c PROVE Looting(r)'
    BY DEF OnLoot
  <2>1. PICK l : l = loot'[r]
    OBVIOUS
  <2>2. Alive(State, c, "from")' /\ Alive(State, c, "to")' /\ Alive(State, c, "to")
    BY <1>1, <1>2, <1>3, <1>4, <1>5 DEF Alive, State
  <2>3. loot[r] = l /\ l # Idle /\ r # p /\ l.conn = c
    BY <1>3, <2>1 DEF Within
  <2>4. l.end = "to" /\ l.cb = "syn" /\ FALSE
    BY <1>1, <1>3, <1>4, <2>2, <2>3, LootTo
  <2> QED BY <2>4
<1>11. AllTrying'
  BY <1>1, <1>2, <1>3, <1>5, KeepsTrying
<1> QED BY <1>3, <1>7, <1>8, <1>9, <1>10, <1>11, Frame DEF Turns

\* The acceptor answers.
AnswersTo(p, c) ==
  LET k == conn[c]
      n == conn'[c]
  IN
  /\ k.to.proc = p /\ k.to.cb = "read" /\ k.from.cb = "ack" /\ k.from.in = << >>
  /\ Turns(c) /\ Same /\ read_sock' = read_sock /\ loot'[p] = Idle
  /\ n.peer = k.peer /\ n.to = k.to /\ n.from.proc = k.from.proc /\ n.from.cb = "ack" /\ n.from.in = <<p>>

LEMMA AnswersToOk ==
  ASSUME NetInv, Rest, NEW p \in Proc, NEW c \in Conn, AnswersTo(p, c), Within(p, c)
  PROVE  NetInv'
<1>1. PICK k : k = conn[c]
  OBVIOUS
<1>2. PICK n : n = conn'[c]
  OBVIOUS
<1>3. /\ k.to.proc = p /\ k.to.cb = "read" /\ k.from.cb = "ack" /\ k.from.in = << >>
      /\ Turns(c) /\ Same /\ read_sock' = read_sock /\ loot'[p] = Idle
  BY <1>1 DEF AnswersTo
<1>4. Typed /\ Good(c) /\ k \in Connection /\ c \in DOMAIN conn /\ c \in DOMAIN conn'
  BY <1>1, <1>3 DEF NetInv, Turns, Typed
<1>5. n.peer = k.peer /\ n.to = k.to /\ n.from.proc = k.from.proc /\ n.from.cb = "ack" /\ n.from.in = <<p>>
  BY <1>1, <1>2 DEF AnswersTo
<1>6. Typed'
  BY <1>3, <1>4, StepTyped DEF Typed, Within, Turns, Same
<1>7. Row(p, c)
  BY <1>3 DEF Row, Within, Rest, Same
<1>8. Kept(c)'
  <2>1. Roles(n)
    BY <1>1, <1>3, <1>4, <1>5 DEF Roles, Good
  <2>2. Mail(n)
    BY <1>1, <1>3, <1>4, <1>5 DEF Mail, Good
  <2>3. Stage(c)'
    BY <1>1, <1>2, <1>3, <1>4, <1>5 DEF Stage, Good
  <2>4. Bound(c)'
    BY <1>1, <1>2, <1>3, <1>4, <1>5 DEF Bound, Good
  <2>5. Sockets(c)'
    BY <1>1, <1>2, <1>3, <1>4, <1>5 DEF Sockets, Good, Same
  <2> QED BY <1>2, <2>1, <2>2, <2>3, <2>4, <2>5 DEF Good, Kept
<1>9. OnLoot(c)'
  <2> SUFFICES ASSUME NEW r \in Proc, loot'[r] # Idle, loot'[r].conn = c PROVE Looting(r)'
    BY DEF OnLoot
  <2>1. PICK l : l = loot'[r]
    OBVIOUS
  <2>2. Alive(State, c, "from")
    BY <1>1, <1>3, <1>4 DEF Alive, State
  <2>3. loot[r] = l /\ l # Idle /\ r # p /\ l.conn = c
    BY <1>3, <2>1 DEF Within
  <2>4. FALSE
    BY <1>1, <1>3, <1>4, <2>2, <2>3, LootFrom
  <2> QED BY <2>4
<1>10. AllTrying'
  BY <1>1, <1>2, <1>3, <1>5, KeepsTrying
<1> QED BY <1>3, <1>6, <1>7, <1>8, <1>9, <1>10, Frame DEF Turns

\* A connection is taken from the backlog.
Accepts(p, c) ==
  LET k == conn[c]
      n == conn'[c]
  IN
  /\ k.to.proc = p /\ k.to.cb = "backlog"
  /\ Turns(c) /\ Same /\ read_sock' = read_sock /\ loot' = loot
  /\ n.peer = k.peer /\ n.to.proc = p /\ n.to.cb = "syn" /\ n.to.in = k.to.in
  /\ n.from.proc = k.from.proc /\ n.from.cb = k.from.cb
  /\ n.from.in = IF k.from.cb = "closed" THEN k.from.in ELSE Append(k.from.in, p)

LEMMA AcceptsOk ==
  ASSUME NetInv, Rest, NEW p \in Proc, NEW c \in Conn, Accepts(p, c), loot[p] = Idle
  PROVE  NetInv'
<1>1. PICK k : k = conn[c]
  OBVIOUS
<1>2. PICK n : n = conn'[c]
  OBVIOUS
<1>3. /\ k.to.proc = p /\ k.to.cb = "backlog"
      /\ Turns(c) /\ Same /\ read_sock' = read_sock /\ loot' = loot
  BY <1>1 DEF Accepts
<1>4. Typed /\ Good(c) /\ k \in Connection /\ c \in DOMAIN conn /\ c \in DOMAIN conn'
  BY <1>1, <1>3 DEF NetInv, Turns, Typed
<1>5. k.from.cb \in {"synack", "closed"} /\ k.from.in = << >> /\ k.to.in \in {<< >>, <<Fin>>}
  BY <1>1, <1>3, <1>4 DEF Good, Stage
<1>6. /\ n.peer = k.peer /\ n.to.proc = p /\ n.to.cb = "syn" /\ n.to.in = k.to.in
      /\ n.from.proc = k.from.proc /\ n.from.cb = k.from.cb
      /\ n.from.in = IF k.from.cb = "closed" THEN << >> ELSE <<p>>
  BY <1>1, <1>2, <1>5, Mails DEF Accepts
<1>7. Typed'
  BY <1>3, <1>4, StepTyped DEF Typed, Turns, Same
<1>8. Row(p, c)
  BY <1>3 DEF Row, Rest, Same
<1>9. Kept(c)'
  <2>1. Roles(n)
    BY <1>1, <1>3, <1>4, <1>6 DEF Roles, Good
  <2>2. Mail(n)
    BY <1>1, <1>3, <1>4, <1>6 DEF Mail, Good
  <2>3. Stage(c)'
    BY <1>1, <1>2, <1>3, <1>4, <1>5, <1>6 DEF Stage, Good
  <2>4. Bound(c)'
    BY <1>2, <1>5, <1>6 DEF Bound
  <2>5. Sockets(c)'
    BY <1>1, <1>2, <1>3, <1>4, <1>6 DEF Sockets, Good, Same
  <2> QED BY <1>2, <2>1, <2>2, <2>3, <2>4, <2>5 DEF Good, Kept
<1>10. OnLoot(c)'
  <2> SUFFICES ASSUME NEW r \in Proc, loot'[r] # Idle, loot'[r].conn = c PROVE Looting(r)'
    BY DEF OnLoot
  <2>1. PICK l : l = loot'[r]
    OBVIOUS
  <2>2. /\ Alive(State, c, "from") <=> k.from.cb # "closed"
        /\ Alive(State, c, "from")' <=> k.from.cb # "closed"
    BY <1>1, <1>2, <1>4, <1>6 DEF Alive, State
  <2>3. loot[r] = l /\ l # Idle /\ r # p /\ l.conn = c
    BY <1>3, <2>1
  <2>4. /\ l.end = "from" /\ l.cb \in {"synack", "ack", "send_err"}
        /\ status[r] = "up" /\ l.peer \in Peers(r)
        /\ ~Alive(State, c, "from")
        /\ l.cb \in {"synack", "ack"} => write_sock[r][l.peer] # Busy
    BY <1>1, <1>3, <1>4, <1>5, <2>2, <2>3, LootFrom
  <2> QED BY <1>2, <1>3, <1>6, <2>1, <2>2, <2>3, <2>4 DEF Looting, Same, Rest
<1>11. AllTrying'
  BY <1>1, <1>2, <1>3, <1>6, KeepsTrying
<1> QED BY <1>3, <1>7, <1>8, <1>9, <1>10, <1>11, Frame DEF Turns

\* An attempt reaches the process that listens on the port.
Connects(p, c, q) ==
  LET k == conn[c]
      n == conn'[c]
  IN
  /\ k.from.proc = p /\ k.from.cb = "connect"
  /\ Turns(c) /\ Same /\ read_sock' = read_sock /\ loot' = loot
  /\ n.peer = k.peer /\ n.from.proc = p /\ n.from.cb = "synack" /\ n.from.in = k.from.in
  /\ n.to = [proc |-> q, cb |-> "backlog", in |-> << >>]

LEMMA ConnectsOk ==
  ASSUME NetInv, Rest, NEW p \in Proc, NEW c \in Conn, NEW q \in Proc, Connects(p, c, q), loot[p] = Idle
  PROVE  NetInv'
<1>1. PICK k : k = conn[c]
  OBVIOUS
<1>2. PICK n : n = conn'[c]
  OBVIOUS
<1>3. /\ k.from.proc = p /\ k.from.cb = "connect"
      /\ Turns(c) /\ Same /\ read_sock' = read_sock /\ loot' = loot
  BY <1>1 DEF Connects
<1>4. Typed /\ Good(c) /\ k \in Connection /\ c \in DOMAIN conn /\ c \in DOMAIN conn'
  BY <1>1, <1>3 DEF NetInv, Turns, Typed
<1>5. k.to.cb = "closed" /\ k.from.in = << >>
  BY <1>1, <1>3, <1>4 DEF Good, Stage
<1>6. /\ n.peer = k.peer /\ n.from.proc = p /\ n.from.cb = "synack" /\ n.from.in = << >>
      /\ n.to.proc = q /\ n.to.cb = "backlog" /\ n.to.in = << >>
  BY <1>1, <1>2, <1>5 DEF Connects
<1>7. Typed'
  BY <1>3, <1>4, StepTyped DEF Typed, Turns, Same
<1>8. Row(p, c)
  BY <1>3 DEF Row, Rest, Same
<1>9. Kept(c)'
  <2>1. Roles(n)
    BY <1>1, <1>3, <1>4, <1>6 DEF Roles, Good
  <2>2. Mail(n)
    BY <1>6 DEF Mail
  <2>3. Stage(c)'
    BY <1>2, <1>6 DEF Stage
  <2>4. Bound(c)'
    BY <1>2, <1>6 DEF Bound
  <2>5. \A a, b \in Proc : write_sock'[a][b] # c /\ read_sock'[a][b] # c
    BY <1>1, <1>3, <1>4 DEF Sockets, Good, Same
  <2>6. Sockets(c)'
    BY <2>5 DEF Sockets
  <2> QED BY <1>2, <2>1, <2>2, <2>3, <2>4, <2>6 DEF Good, Kept
<1>10. OnLoot(c)'
  <2> SUFFICES ASSUME NEW r \in Proc, loot'[r] # Idle, loot'[r].conn = c PROVE FALSE
    BY DEF OnLoot
  <2>1. Looting(r) /\ loot[r] # Idle /\ loot[r].conn = c
    BY <1>3 DEF NetInv
  <2> QED BY <1>1, <1>3, <1>4, <2>1 DEF Looting
<1>11. AllTrying'
  BY <1>1, <1>2, <1>3, <1>6, KeepsTrying DEF Attempting
<1> QED BY <1>3, <1>7, <1>8, <1>9, <1>10, <1>11, Frame DEF Turns
-----------------------------------------------------------------------------
(* A step that leaves nobody a closed socket, but for a loot_read that     *)
(* closes what it has just bound.                                          *)
Looted(p, c) == loot[p] # Idle /\ loot[p].cb \in {"syn", "ack"} /\ loot[p].conn = c /\ loot'[p] = Idle

Tidy ==
  \A p, q \in Proc : Dangling(p, q)' /\ ~Dangling(p, q) =>
    /\ loot[p] # Idle /\ loot[p].cb \in {"syn", "ack"} /\ loot'[p] = Idle
    /\ loot[p].conn \in {read_sock[p][q], write_sock[p][q]}

Usable(c, e) == c \in DOMAIN conn /\ conn[c][e].cb # "closed"

LEMMA OpenIs ==
  /\ \A c, e : Alive(State, c, e) <=> Usable(c, e)
  /\ \A c, e : Alive(State, c, e)' <=> Usable(c, e)'
BY DEF Alive, State, Usable

LEMMA Tidies ==
  ASSUME Typed, Typed', NEW c \in Conn, Only(c),
         \A a, b \in Proc : \/ read_sock'[a][b] \in {read_sock[a][b], None}
                            \/ read_sock'[a][b] = c /\ Usable(c, "to")',
         \A a, b \in Proc : \/ write_sock'[a][b] \in {write_sock[a][b], None, Busy}
                            \/ write_sock'[a][b] = c /\ Usable(c, "from")',
         Usable(c, "to") => \/ Usable(c, "to")'
                           \/ \A a, b \in Proc : read_sock'[a][b] # c \/ Looted(a, c),
         Usable(c, "from") => \/ Usable(c, "from")'
                             \/ \A a, b \in Proc : write_sock'[a][b] # c \/ Looted(a, c)
  PROVE  Tidy
<1> SUFFICES ASSUME NEW p \in Proc, NEW q \in Proc, Dangling(p, q)', ~Dangling(p, q)
             PROVE  /\ loot[p] # Idle /\ loot[p].cb \in {"syn", "ack"} /\ loot'[p] = Idle
                    /\ loot[p].conn \in {read_sock[p][q], write_sock[p][q]}
  BY DEF Tidy
<1>1. PICK r, w, r1, w1 : r = read_sock[p][q] /\ w = write_sock[p][q] /\ r1 = read_sock'[p][q] /\ w1 = write_sock'[p][q]
  OBVIOUS
<1>2. (r > 0 => Usable(r, "to")) /\ (w > 0 => Usable(w, "from"))
  BY <1>1, OpenIs DEF Dangling
<1>3. (r1 > 0 /\ ~Usable(r1, "to")') \/ (w1 > 0 /\ ~Usable(w1, "from")')
  BY <1>1, OpenIs DEF Dangling
<1>4. r \in Conn \cup {None} /\ w \in Conn \cup {None, Busy} /\ r1 \in Conn \cup {None} /\ w1 \in Conn \cup {None, Busy}
  BY <1>1 DEF Typed
<1>5. \A d \in Conn \ {c}, e \in Ends : Usable(d, e) => Usable(d, e)'
  BY DEF Only, Usable
<1>6. ~(None > 0) /\ ~(Busy > 0)
  BY DEF None, Busy
<1>7. CASE r1 > 0 /\ ~Usable(r1, "to")'
  <2>1. r1 = r
    <3>1. r1 \in {r, None} \/ (r1 = c /\ Usable(c, "to")')
      BY <1>1
    <3> QED BY <1>6, <1>7, <3>1
  <2>2. r1 = c /\ Usable(c, "to")
    <3>1. Usable(r, "to") /\ r \in Conn
      BY <1>2, <1>4, <1>6, <1>7, <2>1
    <3> QED BY <1>5, <1>7, <2>1, <3>1 DEF Ends
  <2>3. Looted(p, c)
    BY <1>1, <1>7, <2>2
  <2> QED BY <1>1, <2>1, <2>2, <2>3 DEF Looted
<1>8. CASE w1 > 0 /\ ~Usable(w1, "from")'
  <2>1. w1 = w
    <3>1. w1 \in {w, None, Busy} \/ (w1 = c /\ Usable(c, "from")')
      BY <1>1
    <3> QED BY <1>6, <1>8, <3>1
  <2>2. w1 = c /\ Usable(c, "from")
    <3>1. Usable(w, "from") /\ w \in Conn
      BY <1>2, <1>4, <1>6, <1>8, <2>1
    <3> QED BY <1>5, <1>8, <2>1, <3>1 DEF Ends
  <2>3. Looted(p, c)
    BY <1>1, <1>8, <2>2
  <2> QED BY <1>1, <2>1, <2>2, <2>3 DEF Looted
<1> QED BY <1>3, <1>7, <1>8

\* Both ends of c stay open, and a socket that is new is one of them.
LEMMA TurnsTidy ==
  ASSUME NetInv, NetInv', NEW c \in Conn, Turns(c) \/ conn' = conn,
         c \in DOMAIN conn /\ conn[c].to.cb # "closed" => conn'[c].to.cb # "closed",
         c \in DOMAIN conn /\ conn[c].from.cb # "closed" => conn'[c].from.cb # "closed",
         \A a, b \in Proc : \/ read_sock'[a][b] \in {read_sock[a][b], None}
                            \/ read_sock'[a][b] = c /\ Usable(c, "to")',
         \A a, b \in Proc : \/ write_sock'[a][b] \in {write_sock[a][b], None, Busy}
                            \/ write_sock'[a][b] = c /\ Usable(c, "from")'
  PROVE  Tidy
<1>1. Typed /\ Typed'
  BY DEF NetInv
<1>2. Only(c)
  BY DEF Turns, Only
<1>3. Usable(c, "to") => Usable(c, "to")'
  BY DEF Usable, Turns
<1>4. Usable(c, "from") => Usable(c, "from")'
  BY DEF Usable, Turns
<1> QED BY <1>1, <1>2, <1>3, <1>4, Tidies

LEMMA SynackTidy ==
  ASSUME NetInv, NetInv', NEW p \in Proc, NEW c \in Conn, SynackOk(p, c)
  PROVE  Tidy
BY TurnsTidy DEF SynackOk, Same

LEMMA AckTidy ==
  ASSUME NetInv, NetInv', NEW p \in Proc, NEW c \in Conn, AckOk(p, c)
  PROVE  Tidy
<1>1. PICK q : q = conn[c].peer
  OBVIOUS
<1>2. write_sock' = [write_sock EXCEPT ![p][q] = c] /\ Turns(c) /\ read_sock' = read_sock
  BY <1>1 DEF AckOk
<1>3. conn'[c].from.cb = "send_err" /\ conn'[c].to = conn[c].to
  BY DEF AckOk
<1>4. Usable(c, "from")'
  BY <1>2, <1>3 DEF Usable, Turns
<1>5. write_sock \in [Proc -> [Proc -> Conn \cup {None, Busy}]]
  BY DEF NetInv, Typed
<1>6. \A a, b \in Proc : write_sock'[a][b] \in {write_sock[a][b], c}
  BY <1>2, <1>5
<1> QED BY <1>2, <1>3, <1>4, <1>6, TurnsTidy

LEMMA SynTidy ==
  ASSUME NetInv, NetInv', NEW p \in Proc, NEW w \in Proc, NEW c \in Conn, SynOk(p, w, c)
  PROVE  Tidy
<1>1. read_sock' = [read_sock EXCEPT ![p][w] = c] /\ Turns(c) /\ write_sock' = write_sock
  BY DEF SynOk, Same
<1>2. conn'[c].to.cb = "read" /\ conn'[c].from = conn[c].from
  BY DEF SynOk
<1>3. Usable(c, "to")'
  BY <1>1, <1>2 DEF Usable, Turns
<1>4. read_sock \in [Proc -> [Proc -> Conn \cup {None}]]
  BY DEF NetInv, Typed
<1>5. \A a, b \in Proc : read_sock'[a][b] \in {read_sock[a][b], c}
  BY <1>1, <1>4
<1> QED BY <1>1, <1>2, <1>3, <1>5, TurnsTidy

LEMMA LeavesTidy ==
  ASSUME NetInv, NetInv', NEW p \in Proc, NEW c \in Conn, Leaves(p, c)
  PROVE  Tidy
<1>1. Typed
  BY DEF NetInv
<1>2. \A a, b \in Proc : read_sock'[a][b] \in {read_sock[a][b], None}
  <2>1. CASE read_sock' = read_sock
    BY <2>1
  <2>2. CASE \E q \in Proc : Forgot(p, q, c)
    <3>1. PICK q \in Proc : Forgot(p, q, c)
      BY <2>2
    <3> QED BY <1>1, <3>1, ForgotIs
  <2> QED BY <2>1, <2>2 DEF Leaves
<1>3. \A a, b \in Proc : write_sock'[a][b] \in {write_sock[a][b], None}
  <2>1. CASE Same
    BY <2>1 DEF Same
  <2>2. CASE \E q \in Proc : Freed(p, q)
    <3>1. PICK q \in Proc : Freed(p, q)
      BY <2>2
    <3> QED BY <1>1, <3>1, FreedIs
  <2> QED BY <2>1, <2>2 DEF Leaves
<1>4. conn' = conn
  BY DEF Leaves
<1> QED BY <1>2, <1>3, <1>4, TurnsTidy

LEMMA AnswersTidy ==
  ASSUME NetInv, NetInv', NEW p \in Proc, NEW c \in Conn, AnswersFrom(p, c) \/ AnswersTo(p, c)
  PROVE  Tidy
<1>1. CASE AnswersFrom(p, c)
  BY <1>1, TurnsTidy DEF AnswersFrom, Same
<1>2. CASE AnswersTo(p, c)
  BY <1>2, TurnsTidy DEF AnswersTo, Same
<1> QED BY <1>1, <1>2

LEMMA AcceptsTidy ==
  ASSUME NetInv, NetInv', NEW p \in Proc, NEW c \in Conn, Accepts(p, c)
  PROVE  Tidy
BY TurnsTidy DEF Accepts, Same

LEMMA ConnectsTidy ==
  ASSUME NetInv, NetInv', NEW p \in Proc, NEW c \in Conn, NEW q \in Proc, Connects(p, c, q)
  PROVE  Tidy
<1>1. conn'[c].to.cb = "backlog" /\ conn'[c].from.cb = "synack" /\ Turns(c) /\ Same /\ read_sock' = read_sock
  BY DEF Connects
<1> QED BY <1>1, TurnsTidy DEF Same

\* The end that closes is no socket any more, or was bound in this loot_read.
LEMMA FromClosesTidy ==
  ASSUME NetInv, NetInv', NEW p \in Proc, NEW c \in Conn, FromCloses(p, c), Within(p, c)
  PROVE  Tidy
<1>1. PICK k, q : k = conn[c] /\ q = k.peer
  OBVIOUS
<1>2. /\ k.from.proc = p /\ read_sock' = read_sock /\ Only(c) /\ c \in DOMAIN conn
      /\ k.from.cb # "closed" /\ (c \in DOMAIN conn' <=> k.to.cb # "closed")
      /\ k.to.cb # "closed" => conn'[c].to.cb = k.to.cb
  BY <1>1 DEF FromCloses, Closes, Other
<1>3. Typed /\ Typed' /\ Good(c)
  BY <1>2 DEF NetInv
<1>4. q \in Proc
  BY <1>1, <1>3 DEF Good, Roles, Peers
<1>5. Usable(c, "to") => Usable(c, "to")'
  BY <1>1, <1>2 DEF Usable
<1>6. \A a, b \in Proc : write_sock[a][b] = c => a = p /\ b = q /\ k.from.cb = "send_err"
  BY <1>1, <1>2, <1>3 DEF Good, Sockets
<1>7. CASE Freed(p, q)
  <2>1. \A a, b \in Proc : write_sock'[a][b] = IF a = p /\ b = q THEN None ELSE write_sock[a][b]
    BY <1>3, <1>4, <1>7, FreedIs
  <2>2. \A a, b \in Proc : write_sock'[a][b] # c
    BY <1>6, <2>1 DEF Conn, None
  <2> QED BY <1>2, <1>3, <1>5, <2>1, <2>2, Tidies
<1>8. CASE Same /\ k.from.cb = "send_err" /\ loot[p] # Idle /\ loot[p].cb = "ack"
  <2>1. write_sock' = write_sock
    BY <1>8 DEF Same
  <2>2. write_sock[p][q] = c /\ c # Busy
    BY <1>1, <1>2, <1>3, <1>8 DEF Good, Bound, Conn, Busy
  <2>3. Looted(p, c)
    BY <1>1, <1>8, <2>2 DEF FromCloses, Within, Looted
  <2>4. \A a, b \in Proc : write_sock'[a][b] # c \/ Looted(a, c)
    BY <1>6, <2>1, <2>3
  <2> QED BY <1>2, <1>3, <1>5, <2>1, <2>4, Tidies
<1> QED BY <1>1, <1>7, <1>8 DEF FromCloses

LEMMA ToClosesTidy ==
  ASSUME NetInv, NetInv', NEW p \in Proc, NEW c \in Conn, ToCloses(p, c), Within(p, c)
  PROVE  Tidy
<1>1. PICK k, q : k = conn[c] /\ q = k.from.proc
  OBVIOUS
<1>2. /\ k.to.proc = p /\ write_sock' = write_sock /\ Only(c) /\ c \in DOMAIN conn
      /\ k.to.cb # "closed" /\ (c \in DOMAIN conn' <=> k.from.cb # "closed")
      /\ k.from.cb # "closed" => conn'[c].from.cb = k.from.cb
  BY <1>1 DEF ToCloses, Closes, Other, Same
<1>3. Typed /\ Typed' /\ Good(c) /\ k \in Connection
  BY <1>1, <1>2 DEF NetInv, Typed
<1>4. q \in Proc
  BY <1>1, <1>3 DEF Connection, End
<1>5. Usable(c, "from") => Usable(c, "from")'
  BY <1>1, <1>2 DEF Usable
<1>6. \A a, b \in Proc : read_sock[a][b] = c => a = p /\ b = q /\ k.to.cb = "read"
  BY <1>1, <1>2, <1>3 DEF Good, Sockets
<1>7. CASE Forgot(p, q, c)
  <2>1. read_sock' = [read_sock EXCEPT ![p][q] = IF @ = c THEN None ELSE @]
    BY <1>7 DEF Forgot
  <2>2. read_sock \in [Proc -> [Proc -> Conn \cup {None}]]
    BY <1>3 DEF Typed
  <2>3. \A a, b \in Proc : read_sock'[a][b] = IF a = p /\ b = q /\ read_sock[a][b] = c THEN None ELSE read_sock[a][b]
    BY <1>4, <2>1, <2>2
  <2>4. \A a, b \in Proc : read_sock'[a][b] # c
    BY <1>6, <2>3 DEF Conn, None
  <2> QED BY <1>2, <1>3, <1>5, <2>3, <2>4, Tidies
<1>8. CASE /\ read_sock' = read_sock
           /\ k.to.cb = "read" => loot[p] # Idle /\ loot[p].cb = "syn" /\ loot'[p] = Idle
  <2>1. k.to.cb = "read" => Looted(p, c)
    BY <1>8 DEF Within, Looted
  <2>2. \A a, b \in Proc : read_sock'[a][b] # c \/ Looted(a, c)
    BY <1>6, <1>8, <2>1
  <2> QED BY <1>2, <1>3, <1>5, <1>8, <2>2, Tidies
<1> QED BY <1>1, <1>7, <1>8 DEF ToCloses

\* Sockets are forgotten, and none of the others closes.
LEMMA NoneClosesTidy ==
  ASSUME NetInv, NetInv',
         \A a, b \in Proc : /\ read_sock'[a][b] \in {read_sock[a][b], None}
                            /\ write_sock'[a][b] \in {write_sock[a][b], None, Busy},
         \A c \in Conn : Usable(c, "to") =>
           Usable(c, "to")' \/ \A a, b \in Proc : read_sock'[a][b] # c,
         \A c \in Conn : Usable(c, "from") =>
           Usable(c, "from")' \/ \A a, b \in Proc : write_sock'[a][b] # c
  PROVE  Tidy
<1> SUFFICES ASSUME NEW p \in Proc, NEW q \in Proc, Dangling(p, q)', ~Dangling(p, q)
             PROVE  FALSE
  BY DEF Tidy
<1>1. PICK r, w, r1, w1 : r = read_sock[p][q] /\ w = write_sock[p][q] /\ r1 = read_sock'[p][q] /\ w1 = write_sock'[p][q]
  OBVIOUS
<1>2. (r > 0 => Usable(r, "to")) /\ (w > 0 => Usable(w, "from"))
  BY <1>1, OpenIs DEF Dangling
<1>3. (r1 > 0 /\ ~Usable(r1, "to")') \/ (w1 > 0 /\ ~Usable(w1, "from")')
  BY <1>1, OpenIs DEF Dangling
<1>4. ~(None > 0) /\ ~(Busy > 0)
  BY DEF None, Busy
<1>5. r1 \in {r, None} /\ w1 \in {w, None, Busy}
  BY <1>1
<1>6. r \in Conn \cup {None} /\ w \in Conn \cup {None, Busy}
  BY <1>1 DEF NetInv, Typed
<1>7. (r \in Conn /\ Usable(r, "to") /\ r1 = r => Usable(r, "to")') /\ (w \in Conn /\ Usable(w, "from") /\ w1 = w => Usable(w, "from")')
  BY <1>1
<1> QED BY <1>2, <1>3, <1>4, <1>5, <1>6, <1>7
-----------------------------------------------------------------------------
(* connect_addr: attempts of p, the one for q with the number f[q].        *)

Unused(c) == /\ c \in Conn \ DOMAIN conn
             /\ \A r \in Proc : ~Named(State, r, c) /\ (loot[r] # Idle => loot[r].conn # c)

Attempts(p, f, asks) ==
  /\ asks \subseteq Peers(p) /\ \A q \in asks : Unused(f[q]) /\ write_sock[p][q] = None /\ hosts[q] # None
  /\ \A a, b \in asks : f[a] = f[b] => a = b
  /\ DOMAIN conn' = DOMAIN conn \cup {f[q] : q \in asks}
  /\ conn' \in [DOMAIN conn' -> Connection]
  /\ \A d \in DOMAIN conn : conn'[d] = conn[d]
  /\ \A q \in asks : conn'[f[q]] = Attempt(p, q)
  /\ write_sock' = [write_sock EXCEPT ![p] = [q \in Proc |-> IF q \in asks THEN Busy ELSE @[q]]]
  /\ read_sock' = read_sock /\ loot' = loot /\ port' = port /\ hosts' = hosts /\ deaths' = deaths

LEMMA AttemptIs ==
  ASSUME NEW p, NEW q, NEW n, n = Attempt(p, q)
  PROVE  /\ n.from.proc = p /\ n.from.cb = "connect" /\ n.from.in = << >>
         /\ n.to.proc = q /\ n.to.cb = "closed" /\ n.to.in = << >> /\ n.peer = q
BY DEF Attempt

LEMMA AttemptsOk ==
  ASSUME NetInv, NEW p \in Proc, NEW f, NEW asks, Attempts(p, f, asks),
         status' \in [Proc -> {"down", "bound", "listed", "up"}], status'[p] = "up",
         \A r \in Proc \ {p} : status'[r] = status[r],
         loot[p] = Idle \/ status[p] # "up",
         timer' \in [Proc -> [Proc -> Nat]], \A r \in Proc \ {p} : timer'[r] = timer[r],
         \A q \in Proc : timer'[p][q] = IF q # p /\ write_sock'[p][q] = None THEN 1 ELSE 0
  PROVE  NetInv'
<1>1. Typed /\ asks \subseteq Peers(p) /\ asks \subseteq Proc /\ p \notin asks
  BY DEF NetInv, Attempts, Peers
<1>2. \A q \in asks : f[q] \in Conn \ DOMAIN conn /\ write_sock[p][q] = None
  BY DEF Attempts, Unused
<1>3. read_sock' = read_sock /\ loot' = loot /\ \A d \in DOMAIN conn : d \in DOMAIN conn' /\ conn'[d] = conn[d]
  BY DEF Attempts
<1>4. /\ write_sock' \in [Proc -> [Proc -> Conn \cup {None, Busy}]]
      /\ \A q \in asks : write_sock'[p][q] = Busy
      /\ \A a, b \in Proc : a # p \/ b \notin asks => write_sock'[a][b] = write_sock[a][b]
      /\ \A r \in Proc \ {p} : write_sock'[r] = write_sock[r]
  <2>1. PICK row : row = [q \in Proc |-> IF q \in asks THEN Busy ELSE write_sock[p][q]]
    OBVIOUS
  <2>2. write_sock' = [write_sock EXCEPT ![p] = row]
    BY <2>1 DEF Attempts
  <2>3. row \in [Proc -> Conn \cup {None, Busy}]
    BY <1>1, <2>1 DEF Typed
  <2> QED BY <1>1, <2>1, <2>2, <2>3 DEF Typed
<1>5. Typed'
  <2>1. DOMAIN conn' \subseteq Conn
    BY <1>1, <1>2 DEF Attempts, Typed
  <2> QED BY <1>1, <1>4, <2>1 DEF Attempts, Typed
<1>6. \A a, b \in Proc, d \in Conn : write_sock'[a][b] = d <=> write_sock[a][b] = d
  <2>1. \A d \in Conn : d # None /\ d # Busy
    BY DEF Conn, None, Busy
  <2> QED BY <1>1, <1>2, <1>4, <2>1
<1>7. \A c \in DOMAIN conn' : Good(c)'
  <2> TAKE c \in DOMAIN conn'
  <2>1. CASE c \in DOMAIN conn
    <3>1. Good(c) /\ conn'[c] = conn[c] /\ c \in Conn /\ conn[c] \in Connection
      BY <1>1, <1>3, <2>1 DEF NetInv, Typed
    <3>2. conn[c].to.proc \in Proc /\ conn[c].from.proc \in Proc /\ conn[c].peer \in Proc
      BY <3>1 DEF Connection, End
    <3>3. Roles(conn[c])' /\ Mail(conn[c])'
      BY <3>1 DEF Good, Roles, Mail
    <3>4. Answering(c)' <=> Answering(c)
      BY <1>3, <3>1 DEF Answering
    <3>5. Stage(c)'
      BY <3>1, <3>4 DEF Good, Stage
    <3>6. Bound(c)'
      BY <1>3, <1>6, <3>1, <3>2 DEF Good, Bound
    <3>7. Sockets(c)'
      BY <1>3, <1>6, <3>1 DEF Good, Sockets
    <3> QED BY <3>3, <3>5, <3>6, <3>7 DEF Good
  <2>2. CASE c \notin DOMAIN conn
    <3>1. PICK q \in asks : c = f[q]
      BY <2>2 DEF Attempts
    <3>2. PICK n : n = conn'[c]
      OBVIOUS
    <3>3. /\ n.from.proc = p /\ n.from.cb = "connect" /\ n.from.in = << >>
          /\ n.to.proc = q /\ n.to.cb = "closed" /\ n.to.in = << >> /\ n.peer = q
      <4>1. n = Attempt(p, q)
        BY <3>1, <3>2 DEF Attempts
      <4> QED BY <4>1, AttemptIs
    <3>4. q \in Peers(p) /\ Unused(c) /\ c \in Conn
      BY <1>1, <3>1 DEF Attempts, Unused
    <3>5. Roles(n) /\ Mail(n)
      BY <3>3, <3>4 DEF Roles, Mail
    <3>6. Stage(c)' /\ Bound(c)'
      BY <3>2, <3>3 DEF Stage, Bound
    <3>7. \A a, b \in Proc : write_sock[a][b] # c /\ read_sock[a][b] # c
      BY <3>4 DEF Unused, Named, State
    <3>8. Sockets(c)'
      BY <1>3, <1>6, <3>4, <3>7 DEF Sockets
    <3> QED BY <3>2, <3>5, <3>6, <3>8 DEF Good
  <2> QED BY <2>1, <2>2
<1>8. \A r \in Proc : Looting(r)'
  <2> TAKE r \in Proc
  <2>1. CASE loot[r] = Idle
    BY <1>3, <2>1 DEF Looting
  <2>2. CASE loot[r] # Idle
    <3>1. PICK l, d : l = loot[r] /\ d = l.conn
      OBVIOUS
    <3>2. l \in Loot /\ Looting(r) /\ loot'[r] = l /\ l # Idle
      BY <1>1, <1>3, <2>2, <3>1 DEF NetInv, Typed
    <3>3. d \in DOMAIN conn' <=> d \in DOMAIN conn
      BY <2>2, <3>1 DEF Attempts, Unused
    <3>4. \A e : Alive(State, d, e)' <=> Alive(State, d, e)
      BY <1>3, <3>3 DEF Alive, State
    <3>5. d \in DOMAIN conn => conn'[d] = conn[d]
      BY <1>3
    <3>6. l.cb \in {"synack", "ack", "send_err"} => r # p /\ status'[r] = "up"
      BY <2>2, <3>1, <3>2 DEF Looting
    <3>7. l.cb \in {"synack", "ack"} => write_sock'[r] = write_sock[r]
      BY <1>4, <3>6
    <3>8. \A e : Alive(State, d, e) => d \in DOMAIN conn
      BY DEF Alive, State
    <3> QED BY <3>1, <3>2, <3>3, <3>4, <3>5, <3>6, <3>7, <3>8 DEF Looting
  <2> QED BY <2>1, <2>2
<1>9. \A a, b \in Proc : Trying(a, b)'
  <2> TAKE a \in Proc, b \in Proc
  <2>1. Trying(a, b)
    BY DEF NetInv
  <2>2. CASE a = p /\ b \in asks
    <3>1. Tries(p, b) = {}
      BY <1>2, <2>1, <2>2 DEF Trying, None, Busy
    <3>2. \A d \in Conn : Tried(d, p, b)' <=> d = f[b]
      <4> TAKE d \in Conn
      <4>1. CASE d \in DOMAIN conn
        BY <1>2, <1>3, <2>2, <3>1, <4>1 DEF Tries, Tried
      <4>2. CASE d \notin DOMAIN conn /\ d \in DOMAIN conn'
        <5>1. PICK q \in asks : d = f[q]
          BY <4>2 DEF Attempts
        <5>2. conn'[d].from.proc = p /\ conn'[d].peer = q /\ conn'[d].from.cb = "connect"
          <6>1. PICK n : n = conn'[d]
            OBVIOUS
          <6>2. n = Attempt(p, q)
            BY <5>1, <6>1 DEF Attempts
          <6> QED BY <6>1, <6>2, AttemptIs
        <5>3. d = f[b] <=> q = b
          BY <2>2, <5>1 DEF Attempts
        <5> QED BY <4>2, <5>2, <5>3 DEF Tried, Attempting
      <4>3. CASE d \notin DOMAIN conn'
        BY <2>2, <4>3 DEF Attempts, Tried
      <4> QED BY <4>1, <4>2, <4>3
    <3>3. Tries(p, b)' = {f[b]} /\ f[b] \in Conn
      BY <1>2, <2>2, <3>2 DEF Tries
    <3> QED BY <1>1, <1>4, <2>2, <3>3 DEF Trying, None, Busy, Peers
  <2>3. CASE a # p \/ b \notin asks
    <3>1. \A d \in Conn : Tried(d, a, b)' <=> Tried(d, a, b)
      <4> TAKE d \in Conn
      <4>1. CASE d \in DOMAIN conn
        BY <1>3, <4>1 DEF Tried
      <4>2. CASE d \notin DOMAIN conn /\ d \in DOMAIN conn'
        <5>1. PICK q \in asks : d = f[q]
          BY <4>2 DEF Attempts
        <5>2. conn'[d].from.proc = p /\ conn'[d].peer = q
          <6>1. PICK n : n = conn'[d]
            OBVIOUS
          <6>2. n = Attempt(p, q)
            BY <5>1, <6>1 DEF Attempts
          <6> QED BY <6>1, <6>2, AttemptIs
        <5> QED BY <2>3, <4>2, <5>1, <5>2 DEF Tried
      <4>3. CASE d \notin DOMAIN conn /\ d \notin DOMAIN conn'
        BY <4>3 DEF Tried
      <4> QED BY <4>1, <4>2, <4>3
    <3>2. Tries(a, b)' = Tries(a, b)
      BY <3>1 DEF Tries
    <3>3. write_sock'[a][b] = write_sock[a][b]
      BY <1>4, <2>3
    <3>4. CASE a # p
      BY <2>1, <3>2, <3>3, <3>4 DEF Trying
    <3>5. CASE a = p
      BY <2>1, <3>2, <3>3, <3>5 DEF Trying
    <3> QED BY <3>4, <3>5
  <2> QED BY <2>2, <2>3
<1> QED BY <1>5, <1>7, <1>8, <1>9 DEF NetInv
Free(p, qs) == {q \in qs : write_sock[p][q] = None}
Asks(p, qs) == {q \in Free(p, qs) : hosts[q] # None}

LEMMA AttemptsTidy ==
  ASSUME NetInv, NetInv', NEW p \in Proc, NEW f, NEW asks, Attempts(p, f, asks)
  PROVE  Tidy
<1>1. Typed
  BY DEF NetInv
<1>2. \A c, e : Usable(c, e) => Usable(c, e)'
  BY DEF Attempts, Usable
<1>3. read_sock' = read_sock
  BY DEF Attempts
<1>4. write_sock \in [Proc -> [Proc -> Conn \cup {None, Busy}]]
  BY <1>1 DEF Typed
<1>5. PICK row : row = [q \in Proc |-> IF q \in asks THEN Busy ELSE write_sock[p][q]]
  OBVIOUS
<1>6. write_sock' = [write_sock EXCEPT ![p] = row]
  BY <1>5 DEF Attempts
<1>7. \A a, b \in Proc : write_sock'[a][b] \in {write_sock[a][b], Busy}
  BY <1>4, <1>5, <1>6
<1> QED BY <1>2, <1>3, <1>7, NoneClosesTidy

\* What connect_addr makes of the timers tm, with the numbers f.
Opens(tm, t, f, p, qs) ==
  /\ \A q \in qs : Unused(f[q])
  /\ \A a, b \in qs : f[a] = f[b] => a = b
  /\ DOMAIN t.conn = DOMAIN conn \cup {f[q] : q \in Asks(p, qs)}
  /\ t.conn \in [DOMAIN t.conn -> Connection]
  /\ \A d \in DOMAIN conn : t.conn[d] = conn[d]
  /\ \A q \in Asks(p, qs) : t.conn[f[q]] = Attempt(p, q)
  /\ t.write = [write_sock EXCEPT ![p] = [q \in Proc |-> IF q \in Asks(p, qs) THEN Busy ELSE @[q]]]
  /\ t.timer = [tm EXCEPT ![p] = [q \in Proc |-> IF q \in Free(p, qs) \ Asks(p, qs) THEN @[q] + 1 ELSE @[q]]]
  /\ t.read = read_sock

LEMMA ConnectIs ==
  ASSUME Typed, NEW s, Full(s), s.conn = conn, s.read = read_sock, s.write = write_sock,
         NEW tm, s.timer = tm,
         NEW p \in Proc, NEW qs \in SUBSET Peers(p), Fresh(s, qs) # {},
         NEW t, t = connect_addr(s, p, qs)
  PROVE  \E f : Opens(tm, t, f, p, qs)
<1> DEFINE free == {q \in qs : s.write[p][q] = None}
           asks == {q \in free : hosts[q] # None}
           sock == CHOOSE f \in Fresh(s, qs) : TRUE
           made == {sock[q] : q \in asks}
<1>1. free = Free(p, qs) /\ asks = Asks(p, qs)
  BY DEF Free, Asks
<1>2. sock \in Fresh(s, qs)
  OBVIOUS
<1>3. sock \in [qs -> Numbers(s)] /\ \A a, b \in qs : sock[a] = sock[b] => a = b
  BY <1>2 DEF Fresh, Injection, IsInjective
<1>4. \A c \in Numbers(s) : Unused(c)
  BY StateFull DEF Numbers, Unused, Named
<1>5. PICK f : f = sock
  OBVIOUS
<1>6. /\ t.read = s.read
      /\ t.write = [s.write EXCEPT ![p] = [q \in Proc |-> IF q \in asks THEN Busy ELSE s.write[p][q]]]
      /\ t.timer = [s.timer EXCEPT ![p] = [q \in Proc |-> IF q \in free \ asks THEN s.timer[p][q] + 1 ELSE s.timer[p][q]]]
      /\ t.conn = [c \in DOMAIN s.conn \cup made |->
                     IF c \in made THEN Attempt(p, CHOOSE q \in asks : sock[q] = c) ELSE s.conn[c]]
  BY DEF connect_addr, Full
<1>7. Free(p, qs) \subseteq qs /\ asks \subseteq qs /\ qs \subseteq Proc
  BY <1>1 DEF Asks, Free, Peers
<1>8. \A q \in asks : q \in Peers(p) /\ hosts[q] \in Port /\ Attempt(p, q) \in Connection
  <2> TAKE q \in asks
  <2>1. q \in Peers(p) /\ q \in Proc /\ hosts[q] \in Port
    BY <1>7 DEF Typed, Peers
  <2>2. << >> \in Seq(Proc \cup {Fin})
    OBVIOUS
  <2>3. "connect" \in Callbacks /\ "closed" \in Callbacks
    BY DEF Callbacks
  <2>4. [proc |-> p, cb |-> "connect", in |-> << >>] \in End /\ [proc |-> q, cb |-> "closed", in |-> << >>] \in End
    BY <2>1, <2>2, <2>3 DEF End
  <2> QED BY <2>1, <2>4 DEF Attempt, Connection
<1> DEFINE g == t.conn
<1>9. DOMAIN g = DOMAIN conn \cup made
  BY <1>6
<1>10. \A d \in DOMAIN conn : g[d] = conn[d]
  <2> SUFFICES ASSUME NEW d \in DOMAIN conn PROVE g[d] = conn[d]
    OBVIOUS
  <2>1. d \notin made
    <3> HIDE DEF sock
    <3>1. \A q \in asks : sock[q] \in Numbers(s)
      BY <1>3, <1>7
    <3> QED BY <1>4, <3>1 DEF Unused
  <2> QED BY <1>6, <2>1
<1>11. \A q \in asks : g[sock[q]] = Attempt(p, q)
  <2> SUFFICES ASSUME NEW q \in asks PROVE g[sock[q]] = Attempt(p, q)
    OBVIOUS
  <2>1. PICK c : c = sock[q]
    OBVIOUS
  <2>2. c \in made
    BY <2>1
  <2>3. \A b \in asks : sock[b] = c <=> b = q
    <3> HIDE DEF sock
    <3> QED BY <1>3, <1>7, <2>1
  <2>4. (CHOOSE b \in asks : sock[b] = c) = q
    <3> HIDE DEF sock, asks
    <3> QED BY <2>3
  <2>5. g[c] = Attempt(p, CHOOSE b \in asks : sock[b] = c)
    BY <1>6, <2>2
  <2> HIDE DEF sock, asks, g
  <2> QED BY <2>1, <2>4, <2>5
<1>12. g \in [DOMAIN g -> Connection]
  <2>1. \A c \in DOMAIN g : g[c] \in Connection
    <3> TAKE c \in DOMAIN g
    <3>1. CASE c \in DOMAIN conn
      <4>1. conn[c] \in Connection
        BY <3>1 DEF Typed
      <4> QED BY <1>10, <3>1, <4>1
    <3>2. CASE c \in made
      <4>1. PICK q \in asks : c = sock[q]
        BY <3>2
      <4> HIDE DEF g, asks, sock
      <4> QED BY <1>8, <1>11, <4>1
    <3> QED BY <1>9, <3>1, <3>2
  <2>2. g = [c \in DOMAIN g |-> g[c]]
    BY <1>6
  <2> HIDE DEF g
  <2> QED BY <2>1, <2>2
<1>13. \A q \in qs : Unused(f[q])
  <2> HIDE DEF sock
  <2> QED BY <1>3, <1>4, <1>5
<1> WITNESS f
<1>14. \A a, b \in qs : f[a] = f[b] => a = b
  <2> HIDE DEF sock
  <2> QED BY <1>3, <1>5
<1>15. DOMAIN t.conn = DOMAIN conn \cup {f[q] : q \in Asks(p, qs)}
  <2>1. made = {f[q] : q \in Asks(p, qs)}
    <3> HIDE DEF sock, asks
    <3> QED BY <1>1, <1>5
  <2> HIDE DEF made
  <2> QED BY <1>9, <2>1
<1>16. \A q \in Asks(p, qs) : t.conn[f[q]] = Attempt(p, q)
  <2> HIDE DEF sock, asks, g
  <2> QED BY <1>1, <1>5, <1>11 DEF g
<1>17. t.write = [write_sock EXCEPT ![p] = [q \in Proc |-> IF q \in Asks(p, qs) THEN Busy ELSE @[q]]]
  <2> HIDE DEF asks
  <2> QED BY <1>1, <1>6
<1>18. t.timer = [s.timer EXCEPT ![p] = [q \in Proc |-> IF q \in Free(p, qs) \ Asks(p, qs) THEN @[q] + 1 ELSE @[q]]]
  <2> HIDE DEF asks, free
  <2> QED BY <1>1, <1>6
<1> QED
  <2> HIDE DEF asks, free, sock, made
  <2> QED BY <1>6, <1>10, <1>12, <1>13, <1>14, <1>15, <1>16, <1>17, <1>18 DEF Opens

LEMMA StartOk ==
  ASSUME NetInv, NEW p \in Proc, Start(p)
  PROVE  NetInv' /\ Tidy
<1>1. Typed /\ status[p] = "listed" /\ status' = [status EXCEPT ![p] = "up"]
  BY DEF NetInv, Start
<1>2. \A q \in Proc : write_sock[p][q] = None /\ timer[p][q] = 0
  BY <1>1 DEF NetInv, Trying
<1>3. PICK t : t = connect_addr(State, p, Peers(p))
  OBVIOUS
<1>4. read_sock' = t.read /\ write_sock' = t.write /\ timer' = t.timer /\ conn' = t.conn
  BY <1>3 DEF Start, Assign
<1>5. PICK qs : qs = Peers(p)
  OBVIOUS
<1>6. qs \in SUBSET Peers(p) /\ Fresh(State, qs) # {} /\ t = connect_addr(State, p, qs)
  BY <1>3, <1>5 DEF Start
<1>7. PICK asks, free : asks = Asks(p, qs) /\ free = Free(p, qs)
  OBVIOUS
<1>19. PICK f : Opens(timer, t, f, p, qs)
  <2>1. PICK s : s = State
    OBVIOUS
  <2>2. Full(s) /\ s.conn = conn /\ s.read = read_sock /\ s.write = write_sock /\ s.timer = timer
    BY <2>1, StateFull
  <2>3. Fresh(s, qs) # {} /\ t = connect_addr(s, p, qs)
    BY <1>6, <2>1
  <2> QED BY <1>1, <1>6, <2>2, <2>3, ConnectIs
<1>8. /\ \A q \in qs : Unused(f[q])
      /\ \A a, b \in qs : f[a] = f[b] => a = b
      /\ DOMAIN t.conn = DOMAIN conn \cup {f[q] : q \in asks}
      /\ t.conn \in [DOMAIN t.conn -> Connection]
      /\ \A d \in DOMAIN conn : t.conn[d] = conn[d]
      /\ \A q \in asks : t.conn[f[q]] = Attempt(p, q)
      /\ t.write = [write_sock EXCEPT ![p] = [q \in Proc |-> IF q \in asks THEN Busy ELSE @[q]]]
      /\ t.timer = [timer EXCEPT ![p] = [q \in Proc |-> IF q \in free \ asks THEN @[q] + 1 ELSE @[q]]]
      /\ t.read = read_sock
  BY <1>19, <1>7 DEF Opens
<1>9. free = Peers(p) /\ asks = {q \in Peers(p) : hosts[q] # None}
  BY <1>2, <1>5, <1>7 DEF Free, Asks, Peers
<1>10. Attempts(p, f, asks)
  <2>1. \A q \in asks : Unused(f[q]) /\ write_sock[p][q] = None /\ hosts[q] # None
    BY <1>2, <1>5, <1>8, <1>9 DEF Peers
  <2>2. \A a, b \in asks : f[a] = f[b] => a = b
    BY <1>5, <1>8, <1>9
  <2>3. loot' = loot /\ port' = port /\ hosts' = hosts /\ deaths' = deaths
    BY DEF Start
  <2> QED BY <1>4, <1>8, <1>9, <2>1, <2>2, <2>3 DEF Attempts
<1>11. /\ timer' \in [Proc -> [Proc -> Nat]] /\ \A r \in Proc \ {p} : timer'[r] = timer[r]
       /\ \A q \in Proc : timer'[p][q] = IF q \in free \ asks THEN 1 ELSE 0
  <2>1. PICK row : row = [q \in Proc |-> IF q \in free \ asks THEN timer[p][q] + 1 ELSE timer[p][q]]
    OBVIOUS
  <2>2. timer' = [timer EXCEPT ![p] = row]
    BY <1>4, <1>8, <2>1
  <2>3. \A q \in Proc : row[q] = IF q \in free \ asks THEN 1 ELSE 0
    BY <1>2, <2>1
  <2>4. row \in [Proc -> Nat]
    BY <2>1, <2>3
  <2> QED BY <1>1, <2>2, <2>3, <2>4 DEF Typed
<1>12. \A q \in Proc : write_sock'[p][q] = IF q \in asks THEN Busy ELSE None
  BY <1>1, <1>2, <1>4, <1>8 DEF Typed
<1>13. \A q \in Proc : timer'[p][q] = IF q # p /\ write_sock'[p][q] = None THEN 1 ELSE 0
  BY <1>9, <1>11, <1>12 DEF Peers, None, Busy
<1>14. /\ status' \in [Proc -> {"down", "bound", "listed", "up"}] /\ status'[p] = "up"
       /\ \A r \in Proc \ {p} : status'[r] = status[r]
  BY <1>1 DEF Typed
<1>15. status[p] # "up"
  BY <1>1
<1> QED BY <1>10, <1>11, <1>13, <1>14, <1>15, AttemptsOk, AttemptsTidy

LEMMA TimeoutOk ==
  ASSUME NetInv, NEW p \in Proc, NEW w \in Peers(p), cb_connect_timeout(p, w)
  PROVE  NetInv' /\ Tidy
<1>1. Typed /\ w \in Proc /\ w # p /\ loot[p] = Idle /\ timer[p][w] > 0 /\ status' = status
  BY DEF NetInv, Peers, cb_connect_timeout
<1>2. write_sock[p][w] = None /\ timer[p][w] = 1 /\ status[p] = "up"
  BY <1>1 DEF NetInv, Trying
<1>3. PICK n : n = timer[p][w] - 1
  OBVIOUS
<1>4. n = 0
  BY <1>2, <1>3
<1>5. PICK s, t, qs : s = [State EXCEPT !.timer[p][w] = n] /\ t = connect_addr(s, p, qs) /\ qs = {w}
  OBVIOUS
<1>6. PICK sw : sw = [timer EXCEPT ![p][w] = 0]
  OBVIOUS
<1>7. Full(s) /\ s.conn = conn /\ s.read = read_sock /\ s.write = write_sock /\ s.timer = sw
  BY <1>4, <1>5, <1>6 DEF State, Full
<1>8. /\ sw \in [Proc -> [Proc -> Nat]] /\ sw[p][w] = 0
      /\ \A a, b \in Proc : a # p \/ b # w => sw[a][b] = timer[a][b]
      /\ \A r \in Proc \ {p} : sw[r] = timer[r]
  BY <1>1, <1>6, Entry DEF Typed
<1>21. s = [State EXCEPT !.timer[p][w] = @ - 1]
  BY <1>3, <1>5, StateFull
<1>9. read_sock' = t.read /\ write_sock' = t.write /\ timer' = t.timer /\ conn' = t.conn
  <2>1. Assign(connect_addr(s, p, qs))
    BY <1>5, <1>21 DEF cb_connect_timeout
  <2> QED BY <1>5, <2>1 DEF Assign
<1>10. qs \in SUBSET Peers(p) /\ Fresh(s, qs) # {}
  BY <1>5, <1>7, StateFull DEF cb_connect_timeout, Fresh, Numbers, Named
<1>11. PICK asks, free : asks = Asks(p, qs) /\ free = Free(p, qs)
  OBVIOUS
<1>20. PICK f : Opens(sw, t, f, p, qs)
  BY <1>1, <1>5, <1>7, <1>10, ConnectIs
<1>12. /\ \A q \in qs : Unused(f[q])
       /\ \A a, b \in qs : f[a] = f[b] => a = b
       /\ DOMAIN t.conn = DOMAIN conn \cup {f[q] : q \in asks}
       /\ t.conn \in [DOMAIN t.conn -> Connection]
       /\ \A d \in DOMAIN conn : t.conn[d] = conn[d]
       /\ \A q \in asks : t.conn[f[q]] = Attempt(p, q)
       /\ t.write = [write_sock EXCEPT ![p] = [q \in Proc |-> IF q \in asks THEN Busy ELSE @[q]]]
       /\ t.timer = [sw EXCEPT ![p] = [q \in Proc |-> IF q \in free \ asks THEN @[q] + 1 ELSE @[q]]]
       /\ t.read = read_sock
  BY <1>20, <1>11 DEF Opens
<1>13. free = {w} /\ asks = IF hosts[w] # None THEN {w} ELSE {}
  BY <1>2, <1>5, <1>11 DEF Free, Asks
<1>14. Attempts(p, f, asks)
  <2>1. \A q \in asks : q \in qs /\ Unused(f[q]) /\ write_sock[p][q] = None /\ hosts[q] # None
    BY <1>2, <1>5, <1>12, <1>13
  <2>2. \A a, b \in asks : f[a] = f[b] => a = b
    BY <1>12, <2>1
  <2>3. loot' = loot /\ port' = port /\ hosts' = hosts /\ deaths' = deaths
    BY DEF cb_connect_timeout
  <2>4. asks \subseteq Peers(p)
    BY <1>10, <2>1
  <2> QED BY <1>9, <1>12, <2>1, <2>2, <2>3, <2>4 DEF Attempts
<1>15. \A q \in Proc : write_sock'[p][q] = IF q \in asks THEN Busy ELSE write_sock[p][q]
  BY <1>1, <1>9, <1>12 DEF Typed
<1>16. /\ timer' \in [Proc -> [Proc -> Nat]] /\ \A r \in Proc \ {p} : timer'[r] = timer[r]
       /\ \A q \in Proc : timer'[p][q] = IF q = w THEN (IF w \in asks THEN 0 ELSE 1) ELSE timer[p][q]
  <2>1. PICK row : row = [q \in Proc |-> IF q \in free \ asks THEN sw[p][q] + 1 ELSE sw[p][q]]
    OBVIOUS
  <2>2. timer' = [sw EXCEPT ![p] = row]
    BY <1>9, <1>12, <2>1
  <2>3. \A q \in Proc : row[q] = IF q = w THEN (IF w \in asks THEN 0 ELSE 1) ELSE timer[p][q]
    BY <1>8, <1>13, <2>1
  <2>5. timer \in [Proc -> [Proc -> Nat]]
    BY <1>1 DEF Typed
  <2>6. \A q \in Proc : timer[p][q] \in Nat
    BY <2>5
  <2>7. \A q \in Proc : row[q] \in Nat
    BY <2>3, <2>6
  <2>4. row \in [Proc -> Nat]
    BY <2>1, <2>7
  <2> QED BY <1>8, <2>2, <2>3, <2>4
<1>17. \A q \in Proc : timer[p][q] = IF q # p /\ write_sock[p][q] = None THEN 1 ELSE 0
  BY <1>2 DEF NetInv, Trying
<1>18. \A q \in Proc : timer'[p][q] = IF q # p /\ write_sock'[p][q] = None THEN 1 ELSE 0
  <2> TAKE q \in Proc
  <2>1. CASE q = w
    BY <1>1, <1>2, <1>13, <1>15, <1>16, <2>1 DEF None, Busy
  <2>2. CASE q # w
    BY <1>13, <1>15, <1>16, <1>17, <2>2
  <2> QED BY <2>1, <2>2
<1>19. status' \in [Proc -> {"down", "bound", "listed", "up"}] /\ status'[p] = "up"
  BY <1>1, <1>2 DEF Typed
<1> QED BY <1>1, <1>14, <1>16, <1>18, <1>19, AttemptsOk, AttemptsTidy
-----------------------------------------------------------------------------
(* Processes start and end.                                                *)

LEMMA InitOk == Init => NetInv
<1> SUFFICES ASSUME Init PROVE NetInv
  OBVIOUS
<1>1. DOMAIN conn = {} /\ conn \in [DOMAIN conn -> Connection]
  BY DEF Init
<1>2. Typed
  BY <1>1, NetAssumption DEF Init, Typed
<1>3. \A p, q \in Proc : Trying(p, q)
  <2> TAKE p \in Proc, q \in Proc
  <2>1. Tries(p, q) = {}
    BY <1>1 DEF Tries, Tried
  <2>2. timer[p][q] = 0 /\ status[p] = "down" /\ write_sock[p][q] = None
    BY DEF Init
  <2> QED BY <2>1, <2>2 DEF Trying, None, Busy
<1>4. \A p \in Proc : Looting(p)
  BY DEF Init, Looting
<1> QED BY <1>1, <1>2, <1>3, <1>4 DEF NetInv

LEMMA BeginsOk ==     \* Bind and Publish
  ASSUME NetInv, NEW p \in Proc, status[p] # "up", status'[p] # "up",
         status' \in [Proc -> {"down", "bound", "listed", "up"}],
         \A r \in Proc \ {p} : status'[r] = status[r],
         port' \in [Proc -> Port \cup {None}], hosts' \in [Proc -> Port \cup {None}],
         read_sock' = read_sock, write_sock' = write_sock, conn' = conn, timer' = timer,
         loot' = loot, deaths' = deaths
  PROVE  NetInv' /\ Tidy
<1>1. Typed'
  BY DEF NetInv, Typed
<1>2. \A c \in DOMAIN conn' : Good(c)'
  <2> TAKE c \in DOMAIN conn'
  <2>1. Good(c)
    BY DEF NetInv
  <2>2. Roles(conn[c])' /\ Mail(conn[c])'
    BY <2>1 DEF Good
  <2>3. Answering(c)' <=> Answering(c)
    BY DEF Answering
  <2>4. Stage(c)'
    BY <2>1, <2>3 DEF Good, Stage
  <2>5. Bound(c)' /\ Sockets(c)'
    BY <2>1 DEF Good, Bound, Sockets
  <2> QED BY <2>2, <2>4, <2>5 DEF Good
<1>3. \A r \in Proc : Looting(r)'
  <2> TAKE r \in Proc
  <2>1. Looting(r)
    BY DEF NetInv
  <2>2. PICK d, e : d = loot[r].conn /\ e = loot[r].end
    OBVIOUS
  <2>3. Alive(State, d, e)' <=> Alive(State, d, e)
    BY DEF Alive, State
  <2> QED BY <2>1, <2>2, <2>3 DEF Looting
<1>4. \A a, b \in Proc : Trying(a, b)'
  <2> TAKE a \in Proc, b \in Proc
  <2>1. Trying(a, b)
    BY DEF NetInv
  <2>2. Tries(a, b)' = Tries(a, b)
    BY DEF Tries, Tried
  <2> QED BY <2>1, <2>2 DEF Trying
<1>5. Tidy
  BY DEF Tidy, Dangling, Alive, State
<1> QED BY <1>1, <1>2, <1>3, <1>4, <1>5 DEF NetInv

LEMMA BindOk ==
  ASSUME NetInv, NEW p \in Proc, NEW pt \in Port, Bind(p, pt)
  PROVE  NetInv' /\ Tidy
<1>1. status' = [status EXCEPT ![p] = "bound"] /\ port' = [port EXCEPT ![p] = pt] /\ status[p] = "down"
  BY DEF Bind
<1>2. /\ status' \in [Proc -> {"down", "bound", "listed", "up"}] /\ status'[p] = "bound"
      /\ \A r \in Proc \ {p} : status'[r] = status[r]
      /\ port' \in [Proc -> Port \cup {None}] /\ hosts' \in [Proc -> Port \cup {None}]
  BY <1>1 DEF NetInv, Typed, Bind
<1> QED BY <1>1, <1>2, BeginsOk DEF Bind

LEMMA PublishOk ==
  ASSUME NetInv, NEW p \in Proc, Publish(p)
  PROVE  NetInv' /\ Tidy
<1>1. status' = [status EXCEPT ![p] = "listed"] /\ hosts' = [hosts EXCEPT ![p] = port[p]] /\ status[p] = "bound"
  BY DEF Publish
<1>2. /\ status' \in [Proc -> {"down", "bound", "listed", "up"}] /\ status'[p] = "listed"
      /\ \A r \in Proc \ {p} : status'[r] = status[r]
      /\ port' \in [Proc -> Port \cup {None}] /\ hosts' \in [Proc -> Port \cup {None}]
  BY <1>1 DEF NetInv, Typed, Publish
<1> QED BY <1>1, <1>2, BeginsOk DEF Publish

\* What the death of p makes of an end x, the other end being y.
Lost(p, x, y, n) ==
  /\ n \in End /\ n.proc = x.proc
  /\ n.cb = IF x.proc = p THEN "closed" ELSE x.cb
  /\ x.cb # "closed" /\ x.proc = p => n.in = << >>
  /\ x.cb = "closed" => n.in = x.in
  /\ x.cb # "closed" /\ x.proc # p =>
       n.in = IF y.cb # "closed" /\ y.proc = p THEN Append(x.in, Fin) ELSE x.in

LEMMA DiedIs ==
  ASSUME NEW p \in Proc, NEW c \in DOMAIN conn, NEW e \in Ends, conn[c][e] \in End
  PROVE  Lost(p, conn[c][e], conn[c][Other(e)], Died(p, c, e))
<1>1. PICK x, y : x = conn[c][e] /\ y = conn[c][Other(e)]
  OBVIOUS
<1>2. Died(p, c, e) = IF x.cb = "closed" THEN x
                      ELSE IF x.proc = p THEN [x EXCEPT !.cb = "closed", !.in = << >>]
                      ELSE IF y.cb # "closed" /\ y.proc = p THEN [x EXCEPT !.in = Append(@, Fin)]
                      ELSE x
  BY <1>1 DEF Died
<1>3. PICK n : n = Died(p, c, e)
  OBVIOUS
<1>4. x \in End
  BY <1>1
<1>5. CASE x.cb = "closed"
  BY <1>2, <1>3, <1>4, <1>5, <1>1 DEF Lost
<1>6. CASE x.cb # "closed" /\ x.proc = p
  BY <1>1, <1>2, <1>3, <1>4, <1>6, EndClosed DEF Lost
<1>7. CASE x.cb # "closed" /\ x.proc # p /\ y.cb # "closed" /\ y.proc = p
  <2>1. PICK m : m = Append(x.in, Fin)
    OBVIOUS
  <2>2. m \in Seq(Proc \cup {Fin})
    BY <1>4, <2>1, InSeq DEF End
  <2>3. n = [x EXCEPT !.in = m]
    BY <1>2, <1>3, <1>7, <2>1
  <2>4. n \in End /\ n.in = m /\ n.cb = x.cb /\ n.proc = x.proc
    BY <1>4, <2>2, <2>3, EndWith
  <2> QED BY <1>1, <1>3, <1>7, <2>1, <2>4 DEF Lost
<1>8. CASE x.cb # "closed" /\ x.proc # p /\ ~(y.cb # "closed" /\ y.proc = p)
  BY <1>1, <1>2, <1>3, <1>4, <1>8 DEF Lost
<1> QED BY <1>5, <1>6, <1>7, <1>8

LEMMA DiesIs ==
  ASSUME Typed, NEW p \in Proc, Die(p)
  PROVE  /\ ConnTyped'
         /\ \A c \in Conn : c \in DOMAIN conn' <=>
              /\ c \in DOMAIN conn
              /\ \E e \in Ends : conn[c][e].cb # "closed" /\ conn[c][e].proc # p
         /\ \A c \in DOMAIN conn' :
              /\ conn'[c].peer = conn[c].peer
              /\ Lost(p, conn[c].from, conn[c].to, conn'[c].from)
              /\ Lost(p, conn[c].to, conn[c].from, conn'[c].to)
<1> DEFINE h == [c \in DOMAIN conn |->
                   [conn[c] EXCEPT !.from = Died(p, c, "from"), !.to = Died(p, c, "to")]]
<1>1. conn \in [DOMAIN conn -> Connection] /\ DOMAIN conn \subseteq Conn
  BY DEF Typed
<1>2. \A c \in DOMAIN conn :
        /\ Lost(p, conn[c].from, conn[c].to, h[c].from) /\ Lost(p, conn[c].to, conn[c].from, h[c].to)
        /\ h[c] \in Connection /\ h[c].peer = conn[c].peer
  <2> TAKE c \in DOMAIN conn
  <2>1. PICK k, a, b : k = conn[c] /\ a = Died(p, c, "from") /\ b = Died(p, c, "to")
    OBVIOUS
  <2>2. k \in Connection /\ conn[c]["from"] \in End /\ conn[c]["to"] \in End
    BY <1>1, <2>1 DEF Connection
  <2>3. Lost(p, k["from"], k["to"], a)
    BY <2>1, <2>2, DiedIs DEF Ends, Other
  <2>4. Lost(p, k["to"], k["from"], b)
    BY <2>1, <2>2, DiedIs DEF Ends, Other
  <2>5. h[c] = [k EXCEPT !.from = a, !.to = b]
    BY <2>1
  <2>6. a \in End /\ b \in End
    BY <2>3, <2>4 DEF Lost
  <2>7. h[c].from = a /\ h[c].to = b /\ h[c] \in Connection /\ h[c].peer = k.peer
    <3> HIDE DEF h
    <3> QED BY <2>2, <2>5, <2>6 DEF Connection
  <2> QED BY <2>1, <2>3, <2>4, <2>7
<1>3. PICK g : g = Settled(h)
  OBVIOUS
<1>4. conn' = g
  BY <1>3 DEF Die
<1>5. DOMAIN h = DOMAIN conn
  OBVIOUS
<1> HIDE DEF h
<1>6. /\ DOMAIN g = {c \in DOMAIN conn : \E e \in Ends : h[c][e].cb # "closed"}
      /\ \A c \in DOMAIN g : g[c] = h[c]
      /\ g = [c \in DOMAIN g |-> g[c]]
  BY <1>3, <1>5 DEF Settled
<1>7. \A c \in DOMAIN conn : (\E e \in Ends : h[c][e].cb # "closed")
                               <=> (\E e \in Ends : conn[c][e].cb # "closed" /\ conn[c][e].proc # p)
  <2> TAKE c \in DOMAIN conn
  <2>1. /\ h[c].from.cb = IF conn[c].from.proc = p THEN "closed" ELSE conn[c].from.cb
        /\ h[c].to.cb = IF conn[c].to.proc = p THEN "closed" ELSE conn[c].to.cb
    BY <1>2 DEF Lost
  <2> QED BY <2>1 DEF Ends
<1>8. \A c \in DOMAIN g : g[c] \in Connection
  BY <1>2, <1>6
<1>9. ConnTyped'
  BY <1>1, <1>4, <1>6, <1>8 DEF ConnTyped
<1>10. \A c \in DOMAIN g : /\ c \in DOMAIN conn /\ g[c].peer = conn[c].peer
                           /\ Lost(p, conn[c].from, conn[c].to, g[c].from)
                           /\ Lost(p, conn[c].to, conn[c].from, g[c].to)
  BY <1>2, <1>6
<1>11. \A c \in Conn : c \in DOMAIN g <=>
         c \in DOMAIN conn /\ \E e \in Ends : conn[c][e].cb # "closed" /\ conn[c][e].proc # p
  BY <1>6, <1>7
<1> QED BY <1>4, <1>9, <1>10, <1>11

LEMMA DieOk ==
  ASSUME NetInv, NEW p \in Proc, Die(p)
  PROVE  NetInv'
<1>1. Typed
  BY DEF NetInv
<1>2. ConnTyped'
  BY <1>1, DiesIs
<1>3. \A c \in Conn : c \in DOMAIN conn' <=>
        c \in DOMAIN conn /\ \E e \in Ends : conn[c][e].cb # "closed" /\ conn[c][e].proc # p
  BY <1>1, DiesIs
<1>4. \A c \in DOMAIN conn' :
        /\ c \in Conn /\ c \in DOMAIN conn /\ conn[c] \in Connection /\ conn'[c] \in Connection
        /\ conn'[c].peer = conn[c].peer
        /\ Lost(p, conn[c].from, conn[c].to, conn'[c].from)
        /\ Lost(p, conn[c].to, conn[c].from, conn'[c].to)
  BY <1>1, <1>2, <1>3, DiesIs DEF ConnTyped, Typed
<1>5. /\ status' = [status EXCEPT ![p] = "down"] /\ port' = [port EXCEPT ![p] = None]
      /\ read_sock' = [read_sock EXCEPT ![p] = [q \in Proc |-> None]]
      /\ write_sock' = [write_sock EXCEPT ![p] = [q \in Proc |-> None]]
      /\ timer' = [timer EXCEPT ![p] = [q \in Proc |-> 0]]
      /\ loot' = [loot EXCEPT ![p] = Idle]
      /\ hosts' = hosts /\ deaths < MaxDeaths /\ deaths' = deaths + 1
  BY DEF Die
<1>6. \A r \in Proc \ {p} : /\ status'[r] = status[r] /\ loot'[r] = loot[r] /\ timer'[r] = timer[r]
                            /\ read_sock'[r] = read_sock[r] /\ write_sock'[r] = write_sock[r]
  BY <1>1, <1>5 DEF Typed
<1>7. /\ status'[p] = "down" /\ loot'[p] = Idle
      /\ \A q \in Proc : timer'[p][q] = 0 /\ read_sock'[p][q] = None /\ write_sock'[p][q] = None
  BY <1>1, <1>5 DEF Typed
<1>8. Typed'
  <2>1. [q \in Proc |-> None] \in [Proc -> Conn \cup {None}] /\ [q \in Proc |-> None] \in [Proc -> Conn \cup {None, Busy}]
    OBVIOUS
  <2>2. [q \in Proc |-> 0] \in [Proc -> Nat]
    OBVIOUS
  <2>3. read_sock' \in [Proc -> [Proc -> Conn \cup {None}]] /\ write_sock' \in [Proc -> [Proc -> Conn \cup {None, Busy}]]
    BY <1>1, <1>5, <2>1 DEF Typed
  <2>4. timer' \in [Proc -> [Proc -> Nat]] /\ loot' \in [Proc -> Loot \cup {Idle}]
    BY <1>1, <1>5, <2>2 DEF Typed
  <2>5. deaths' \in 0..MaxDeaths
    BY <1>1, <1>5, NetAssumption DEF Typed
  <2>6. /\ status' \in [Proc -> {"down", "bound", "listed", "up"}]
        /\ port' \in [Proc -> Port \cup {None}] /\ hosts' \in [Proc -> Port \cup {None}]
    BY <1>1, <1>5 DEF Typed
  <2> QED BY <1>2, <2>3, <2>4, <2>5, <2>6 DEF Typed, ConnTyped
<1>9. \A a, b \in Proc, c \in Conn : /\ write_sock'[a][b] = c <=> a # p /\ write_sock[a][b] = c
                                     /\ read_sock'[a][b] = c <=> a # p /\ read_sock[a][b] = c
  BY <1>6, <1>7 DEF Conn, None
<1>10. \A c \in DOMAIN conn' : Good(c)'
  <2> TAKE c \in DOMAIN conn'
  <2>1. PICK k, n : k = conn[c] /\ n = conn'[c]
    OBVIOUS
  <2>2. k \in Connection /\ n \in Connection /\ c \in Conn /\ n.peer = k.peer
    BY <1>4, <2>1
  <2>3. Good(c)
    BY <1>4 DEF NetInv
  <2>4. /\ n.from.proc = k.from.proc
        /\ n.from.cb = IF k.from.proc = p THEN "closed" ELSE k.from.cb
        /\ k.from.cb # "closed" /\ k.from.proc = p => n.from.in = << >>
        /\ k.from.cb = "closed" => n.from.in = k.from.in
        /\ k.from.cb # "closed" /\ k.from.proc # p =>
             n.from.in = IF k.to.cb # "closed" /\ k.to.proc = p THEN Append(k.from.in, Fin) ELSE k.from.in
    BY <1>4, <2>1 DEF Lost
  <2>5. /\ n.to.proc = k.to.proc
        /\ n.to.cb = IF k.to.proc = p THEN "closed" ELSE k.to.cb
        /\ k.to.cb # "closed" /\ k.to.proc = p => n.to.in = << >>
        /\ k.to.cb = "closed" => n.to.in = k.to.in
        /\ k.to.cb # "closed" /\ k.to.proc # p =>
             n.to.in = IF k.from.cb # "closed" /\ k.from.proc = p THEN Append(k.to.in, Fin) ELSE k.to.in
    BY <1>4, <2>1 DEF Lost
  <2>6. k.from.proc \in Proc /\ k.to.proc \in Proc /\ k.peer \in Proc
    BY <2>2 DEF Connection, End
  <2>7. k.from.proc # Fin /\ k.to.proc # Fin
    BY <2>6, NetAssumption
  <2>8. Roles(n)
    <3>1. n.from.cb # "closed" \/ n.to.cb # "closed"
      BY <1>3, <2>1, <2>2, <2>4, <2>5 DEF Ends
    <3> QED BY <2>1, <2>2, <2>3, <2>4, <2>5, <3>1 DEF Good, Roles
  <2>9. k.from.in \in IF k.from.cb = "closed" THEN {<< >>}
                      ELSE IF k.to.cb = "closed" THEN {<< >>, <<Fin>>, <<k.to.proc, Fin>>}
                      ELSE {<< >>, <<k.to.proc>>}
    BY <2>1, <2>3 DEF Good, Mail
  <2>10. k.to.in \in IF k.to.cb = "closed" THEN {<< >>}
                     ELSE IF k.from.cb = "closed" THEN {<< >>, <<Fin>>, <<k.from.proc, Fin>>}
                     ELSE {<< >>, <<k.from.proc>>}
    BY <2>1, <2>3 DEF Good, Mail
  <2>11. n.from.cb # "closed" =>
           /\ n.to.cb = k.to.cb => n.from.in = k.from.in
           /\ n.to.cb # k.to.cb => n.from.in \in {<<Fin>>, <<k.to.proc, Fin>>} /\ (k.from.in = << >> => n.from.in = <<Fin>>)
    <3> SUFFICES ASSUME n.from.cb # "closed" PROVE
           /\ n.to.cb = k.to.cb => n.from.in = k.from.in
           /\ n.to.cb # k.to.cb => n.from.in \in {<<Fin>>, <<k.to.proc, Fin>>} /\ (k.from.in = << >> => n.from.in = <<Fin>>)
      OBVIOUS
    <3>1. k.from.cb # "closed" /\ k.from.proc # p
      BY <2>4
    <3>2. CASE k.to.cb # "closed" /\ k.to.proc = p
      <4>1. k.from.in \in {<< >>, <<k.to.proc>>}
        BY <2>9, <3>1, <3>2
      <4>2. n.from.in = Append(k.from.in, Fin)
        BY <2>4, <3>1, <3>2
      <4>3. n.to.cb # k.to.cb
        BY <2>5, <3>2
      <4>4. PICK m, x, after : m = k.from.in /\ x = k.to.proc /\ after = n.from.in
        OBVIOUS
      <4>5. Finished(x, m, after)
        BY <4>1, <4>2, <4>4, FinAfter
      <4> QED BY <4>3, <4>4, <4>5 DEF Finished
    <3>3. CASE ~(k.to.cb # "closed" /\ k.to.proc = p)
      BY <2>4, <2>5, <3>1, <3>3
    <3> QED BY <3>2, <3>3
  <2>12. n.to.cb # "closed" =>
           /\ n.from.cb = k.from.cb => n.to.in = k.to.in
           /\ n.from.cb # k.from.cb => n.to.in \in {<<Fin>>, <<k.from.proc, Fin>>} /\ (k.to.in = << >> => n.to.in = <<Fin>>)
    <3> SUFFICES ASSUME n.to.cb # "closed" PROVE
           /\ n.from.cb = k.from.cb => n.to.in = k.to.in
           /\ n.from.cb # k.from.cb => n.to.in \in {<<Fin>>, <<k.from.proc, Fin>>} /\ (k.to.in = << >> => n.to.in = <<Fin>>)
      OBVIOUS
    <3>1. k.to.cb # "closed" /\ k.to.proc # p
      BY <2>5
    <3>2. CASE k.from.cb # "closed" /\ k.from.proc = p
      <4>1. k.to.in \in {<< >>, <<k.from.proc>>}
        BY <2>10, <3>1, <3>2
      <4>2. n.to.in = Append(k.to.in, Fin)
        BY <2>5, <3>1, <3>2
      <4>3. n.from.cb # k.from.cb
        BY <2>4, <3>2
      <4>4. PICK m, x, after : m = k.to.in /\ x = k.from.proc /\ after = n.to.in
        OBVIOUS
      <4>5. Finished(x, m, after)
        BY <4>1, <4>2, <4>4, FinAfter
      <4> QED BY <4>3, <4>4, <4>5 DEF Finished
    <3>3. CASE ~(k.from.cb # "closed" /\ k.from.proc = p)
      BY <2>4, <2>5, <3>1, <3>3
    <3> QED BY <3>2, <3>3
  <2>13. /\ n.from.cb = "closed" => n.from.in = << >>
         /\ n.to.cb = "closed" => n.to.in = << >>
    BY <2>4, <2>5, <2>9, <2>10
  <2>14. /\ n.from.cb = k.from.cb \/ (n.from.cb = "closed" /\ k.from.proc = p)
         /\ n.to.cb = k.to.cb \/ (n.to.cb = "closed" /\ k.to.proc = p)
    BY <2>4, <2>5
  <2> USE <2>1
  <2>15. Mail(n)
    <3>1. n.from.in \in IF n.from.cb = "closed" THEN {<< >>}
                        ELSE IF n.to.cb = "closed" THEN {<< >>, <<Fin>>, <<n.to.proc, Fin>>}
                        ELSE {<< >>, <<n.to.proc>>}
      BY <2>5, <2>9, <2>11, <2>13, <2>14
    <3>2. n.to.in \in IF n.to.cb = "closed" THEN {<< >>}
                      ELSE IF n.from.cb = "closed" THEN {<< >>, <<Fin>>, <<n.from.proc, Fin>>}
                      ELSE {<< >>, <<n.from.proc>>}
      BY <2>4, <2>10, <2>12, <2>13, <2>14
    <3> QED BY <3>1, <3>2 DEF Mail
  <2>16. /\ k.from.cb = "send_err" /\ k.to.cb # "closed" => k.from.in = << >>
         /\ k.to.cb \in {"backlog", "read"} /\ k.from.cb # "closed" => k.to.in = << >>
    <3>1. <<Fin>> # <<k.to.proc>> /\ <<Fin>> # <<k.from.proc>> /\ <<Fin>> # << >>
      BY <2>7
    <3>2. k.from.cb = "send_err" => k.from.in \in {<< >>, <<Fin>>}
      BY <2>3 DEF Good, Stage
    <3>3. k.to.cb \in {"backlog", "read"} => k.to.in \in {<< >>, <<Fin>>}
      BY <2>3 DEF Good, Stage
    <3> QED BY <2>9, <2>10, <3>1, <3>2, <3>3
  <2>17. Stage(c)'
    <3>1. n.from.cb = "connect" => n.to.cb = "closed" /\ n.from.in = << >>
      BY <2>3, <2>11, <2>14 DEF Good, Stage
    <3>2. n.from.cb = "synack" => n.to.in = << >>
      BY <2>3, <2>12, <2>13, <2>14 DEF Good, Stage
    <3>3. n.from.cb = "send_err" => n.from.in \in {<< >>, <<Fin>>}
      BY <2>3, <2>11, <2>14, <2>16 DEF Good, Stage
    <3>4. n.to.cb = "backlog" => n.from.cb \in {"synack", "closed"} /\ n.from.in = << >> /\ n.to.in \in {<< >>, <<Fin>>}
      BY <2>3, <2>11, <2>12, <2>13, <2>14, <2>16 DEF Good, Stage
    <3>5. n.to.cb = "syn" => \/ n.from.cb = "closed"
                             \/ n.from.cb = "synack" /\ n.from.in = <<n.to.proc>>
                             \/ n.from.cb = "ack" /\ n.from.in = << >>
      BY <2>3, <2>5, <2>11, <2>14 DEF Good, Stage
    <3>6. n.to.cb = "read" => /\ n.to.in \in {<< >>, <<Fin>>}
                              /\ \/ n.from.cb = "closed"
                                 \/ n.from.cb = "ack" /\ (n.from.in = <<n.to.proc>> \/ Answering(c))
                                 \/ n.from.cb = "send_err"
      BY <2>3, <2>5, <2>11, <2>12, <2>14, <2>16 DEF Good, Stage
    <3>7. n.to.cb = "read" /\ Answering(c) => Answering(c)'
      <4> SUFFICES ASSUME n.to.cb = "read", Answering(c) PROVE Answering(c)'
        OBVIOUS
      <4>1. k.to.proc # p /\ loot'[k.to.proc] = loot[k.to.proc] /\ n.to.proc = k.to.proc
        BY <1>6, <2>5, <2>6
      <4> QED BY <4>1 DEF Answering
    <3> QED BY <3>1, <3>2, <3>3, <3>4, <3>5, <3>6, <3>7 DEF Stage
  <2>18. Bound(c)'
    <3>1. n.from.cb = "send_err" => write_sock'[n.from.proc][n.peer] = c
      BY <1>9, <2>2, <2>3, <2>4, <2>6, <2>14 DEF Good, Bound
    <3>2. n.to.cb = "read" => n.from.proc \in Peers(n.to.proc) /\ read_sock'[n.to.proc][n.from.proc] = c
      BY <1>9, <2>2, <2>3, <2>4, <2>5, <2>6, <2>14 DEF Good, Bound
    <3> QED BY <3>1, <3>2 DEF Bound
  <2>19. Sockets(c)'
    <3> SUFFICES ASSUME NEW a \in Proc, NEW b \in Proc PROVE
          /\ write_sock'[a][b] = c => /\ n.from.proc = a /\ n.peer = b /\ n.to.proc = b
                                      /\ n.from.cb \in {"send_err", "closed"}
          /\ read_sock'[a][b] = c => /\ n.to.proc = a /\ n.from.proc = b /\ n.to.cb \in {"read", "closed"}
                                     /\ n.from.cb \in {"ack", "send_err", "closed"}
      BY DEF Sockets
    <3> QED BY <1>9, <2>2, <2>3, <2>4, <2>5, <2>14 DEF Good, Sockets
  <2> QED BY <2>8, <2>15, <2>17, <2>18, <2>19 DEF Good
<1>11. \A r \in Proc : Looting(r)'
  <2> TAKE r \in Proc
  <2>1. CASE r = p
    BY <1>7, <2>1 DEF Looting
  <2>2. CASE r # p /\ loot[r] = Idle
    BY <1>6, <2>2 DEF Looting
  <2>3. CASE r # p /\ loot[r] # Idle
    <3>1. PICK l, d, e : l = loot[r] /\ d = l.conn /\ e = l.end
      OBVIOUS
    <3>2. /\ l \in Loot /\ Looting(r) /\ loot'[r] = l /\ l # Idle /\ status'[r] = status[r] /\ write_sock'[r] = write_sock[r]
          /\ d \in Conn /\ e \in Ends
      BY <1>1, <1>6, <2>3, <3>1 DEF NetInv, Typed, Loot
    <3>3. PICK k, n : k = conn[d] /\ n = conn'[d]
      OBVIOUS
    <3>4. d \in DOMAIN conn' =>
            /\ d \in DOMAIN conn
            /\ n.from.proc = k.from.proc /\ n.to.proc = k.to.proc /\ n.peer = k.peer
            /\ n.from.cb = IF k.from.proc = p THEN "closed" ELSE k.from.cb
            /\ n.to.cb = IF k.to.proc = p THEN "closed" ELSE k.to.cb
      BY <1>4, <3>3 DEF Lost
    <3>5. Alive(State, d, e) => k[e].proc = r /\ k[e].cb # "closed" /\ d \in DOMAIN conn
      BY <3>1, <3>2, <3>3 DEF Looting, Alive, State
    <3>6. Alive(State, d, e)' <=> Alive(State, d, e)
      <4>1. Alive(State, d, e) => d \in DOMAIN conn'
        BY <1>3, <2>3, <3>2, <3>3, <3>5
      <4>2. Alive(State, d, e)' <=> d \in DOMAIN conn' /\ n[e].cb # "closed"
        BY <3>3 DEF Alive, State
      <4>3. Alive(State, d, e) <=> d \in DOMAIN conn /\ k[e].cb # "closed"
        BY <3>3 DEF Alive, State
      <4>4. e = "from" \/ e = "to"
        BY <3>2 DEF Ends
      <4>5. CASE e = "from"
        BY <2>3, <3>4, <3>5, <4>1, <4>2, <4>3, <4>5
      <4>6. CASE e = "to"
        BY <2>3, <3>4, <3>5, <4>1, <4>2, <4>3, <4>6
      <4> QED BY <4>4, <4>5, <4>6
    <3>7. /\ d \in DOMAIN conn' /\ k.from.cb # "closed" /\ k.from.proc # p /\ k.to.in = << >> => n.to.in = << >>
          /\ d \in DOMAIN conn' /\ k.to.cb # "closed" /\ k.to.proc # p /\ k.from.in = << >> => n.from.in = << >>
      BY <1>4, <3>3 DEF Lost
    <3>8. d \in DOMAIN conn' => n.from.cb # "connect"
      BY <3>1, <3>2, <3>3, <3>4 DEF Looting
    <3>9. Alive(State, d, e)' => d \in DOMAIN conn' /\ n[e].proc = r
      <4>1. Alive(State, d, e)' => d \in DOMAIN conn'
        BY DEF Alive, State
      <4> QED BY <3>2, <3>4, <3>5, <3>6, <4>1 DEF Ends
    <3>10. /\ l.cb \in {"synack", "ack", "send_err"} =>
               e = "from" /\ status[r] = "up" /\ l.peer \in Peers(r) /\ (Alive(State, d, e) => k.peer = l.peer)
           /\ l.cb \in {"syn", "read"} => e = "to"
           /\ l.cb = "synack" /\ Alive(State, d, e) =>
                l.name /\ k.from.cb = "ack" /\ k.to.in = << >> /\ k.to.cb \in {"syn", "closed"}
           /\ l.cb = "ack" /\ Alive(State, d, e) => k.from.cb = "send_err" /\ ~l.name
           /\ l.cb \in {"synack", "ack"} /\ ~Alive(State, d, e) => write_sock[r][l.peer] # Busy
           /\ l.cb = "syn" /\ Alive(State, d, e) =>
                /\ l.name /\ k.to.cb = "read"
                /\ k.from.cb = "closed" \/ (k.from.cb = "ack" /\ k.from.in = << >>)
           /\ l.cb \in {"read", "send_err"} => ~Alive(State, d, e)
      BY <3>1, <3>2, <3>3 DEF Looting
    <3>11. /\ l.cb \in {"synack", "ack", "send_err"} => (Alive(State, d, e)' => n.peer = l.peer)
           /\ l.cb = "synack" /\ Alive(State, d, e)' =>
                n.from.cb = "ack" /\ n.to.in = << >> /\ n.to.cb \in {"syn", "closed"}
           /\ l.cb = "ack" /\ Alive(State, d, e)' => n.from.cb = "send_err"
      BY <2>3, <3>4, <3>5, <3>6, <3>7, <3>9, <3>10
    <3>12. l.cb = "syn" /\ Alive(State, d, e)' =>
                /\ n.to.cb = "read"
                /\ n.from.cb = "closed" \/ (n.from.cb = "ack" /\ n.from.in = << >>)
      BY <2>3, <3>4, <3>5, <3>6, <3>7, <3>9, <3>10
    <3> QED BY <3>1, <3>2, <3>3, <3>6, <3>8, <3>9, <3>10, <3>11, <3>12 DEF Looting
  <2> QED BY <2>1, <2>2, <2>3
<1>12. \A a, b \in Proc : Trying(a, b)'
  <2> TAKE a \in Proc, b \in Proc
  <2>1. Trying(a, b)
    BY DEF NetInv
  <2>2. \A c \in Conn : Tried(c, a, b)' <=> a # p /\ Tried(c, a, b)
    <3> TAKE c \in Conn
    <3>1. CASE c \in DOMAIN conn'
      <4>1. /\ c \in DOMAIN conn /\ conn'[c].peer = conn[c].peer /\ conn'[c].from.proc = conn[c].from.proc
            /\ conn'[c].from.cb = IF conn[c].from.proc = p THEN "closed" ELSE conn[c].from.cb
        BY <1>4, <3>1 DEF Lost
      <4> QED BY <3>1, <4>1 DEF Tried, Attempting
    <3>2. CASE c \notin DOMAIN conn'
      <4>1. Tried(c, a, b) /\ a # p => FALSE
        BY <1>3, <3>2 DEF Tried, Attempting, Ends
      <4> QED BY <3>2, <4>1 DEF Tried
    <3> QED BY <3>1, <3>2
  <2>3. CASE a = p
    <3>1. Tries(a, b)' = {}
      BY <2>2, <2>3 DEF Tries
    <3>2. status'[a] = "down" /\ timer'[a][b] = 0 /\ write_sock'[a][b] = None
      BY <1>7, <2>3
    <3> QED BY <3>1, <3>2 DEF Trying, None, Busy
  <2>4. CASE a # p
    <3>1. Tries(a, b)' = Tries(a, b)
      BY <2>2, <2>4 DEF Tries
    <3>2. status'[a] = status[a] /\ timer'[a][b] = timer[a][b] /\ write_sock'[a][b] = write_sock[a][b]
      BY <1>6, <2>4
    <3> QED BY <2>1, <3>1, <3>2 DEF Trying
  <2> QED BY <2>3, <2>4
<1> QED BY <1>8, <1>10, <1>11, <1>12 DEF NetInv

LEMMA DieTidy ==
  ASSUME NetInv, NetInv', NEW p \in Proc, Die(p)
  PROVE  Tidy
<1>1. Typed
  BY DEF NetInv
<1>2. /\ \A c \in Conn : c \in DOMAIN conn' <=>
           /\ c \in DOMAIN conn
           /\ \E e \in Ends : conn[c][e].cb # "closed" /\ conn[c][e].proc # p
      /\ \A c \in DOMAIN conn' : /\ Lost(p, conn[c].from, conn[c].to, conn'[c].from)
                                 /\ Lost(p, conn[c].to, conn[c].from, conn'[c].to)
  BY <1>1, DiesIs
<1>3. read_sock' = [read_sock EXCEPT ![p] = [q \in Proc |-> None]]
  BY DEF Die
<1>4. write_sock' = [write_sock EXCEPT ![p] = [q \in Proc |-> None]]
  BY DEF Die
<1>5. /\ \A a, b \in Proc : read_sock'[a][b] = IF a = p THEN None ELSE read_sock[a][b]
      /\ \A a, b \in Proc : write_sock'[a][b] = IF a = p THEN None ELSE write_sock[a][b]
  BY <1>1, <1>3, <1>4 DEF Typed
<1>6. ASSUME NEW c \in Conn, Usable(c, "to") PROVE Usable(c, "to")' \/ \A a, b \in Proc : read_sock'[a][b] # c
  <2>1. c \in DOMAIN conn /\ conn[c].to.cb # "closed" /\ Good(c) /\ c # None
    BY <1>6 DEF Usable, NetInv, Conn, None
  <2>2. CASE conn[c].to.proc = p
    BY <1>5, <2>1, <2>2 DEF Good, Sockets
  <2>3. CASE conn[c].to.proc # p
    <3>1. c \in DOMAIN conn' /\ Lost(p, conn[c].to, conn[c].from, conn'[c].to)
      BY <1>2, <2>1, <2>3 DEF Ends
    <3> QED BY <2>1, <2>3, <3>1 DEF Usable, Lost
  <2> QED BY <2>2, <2>3
<1>7. ASSUME NEW c \in Conn, Usable(c, "from") PROVE Usable(c, "from")' \/ \A a, b \in Proc : write_sock'[a][b] # c
  <2>1. c \in DOMAIN conn /\ conn[c].from.cb # "closed" /\ Good(c) /\ c # None
    BY <1>7 DEF Usable, NetInv, Conn, None
  <2>2. CASE conn[c].from.proc = p
    BY <1>5, <2>1, <2>2 DEF Good, Sockets
  <2>3. CASE conn[c].from.proc # p
    <3>1. c \in DOMAIN conn' /\ Lost(p, conn[c].from, conn[c].to, conn'[c].from)
      BY <1>2, <2>1, <2>3 DEF Ends
    <3> QED BY <2>1, <2>3, <3>1 DEF Usable, Lost
  <2> QED BY <2>2, <2>3
<1> QED BY <1>5, <1>6, <1>7, NoneClosesTidy
-----------------------------------------------------------------------------
(* The calls of the callbacks: each makes one of the steps above.          *)

\* g is f with the end e of c set to y.
Put(f, g, c, e, y) ==
  /\ DOMAIN g = DOMAIN f /\ g \in [DOMAIN f -> Connection]
  /\ g[c][e] = y /\ g[c][Other(e)] = f[c][Other(e)] /\ g[c].peer = f[c].peer
  /\ \A d \in DOMAIN f \ {c} : g[d] = f[d]

LEMMA PutIs ==
  ASSUME NEW f, f \in [DOMAIN f -> Connection], NEW c \in DOMAIN f, NEW e \in Ends, NEW y \in End,
         NEW g, g = [f EXCEPT ![c] = [f[c] EXCEPT ![e] = y]]
  PROVE  Put(f, g, c, e, y)
<1>1. PICK k : k = f[c]
  OBVIOUS
<1>2. PICK n : n = [k EXCEPT ![e] = y]
  OBVIOUS
<1>3. k \in Connection
  BY <1>1
<1>4. n \in Connection /\ n[e] = y /\ n[Other(e)] = k[Other(e)] /\ n.peer = k.peer
  BY <1>2, <1>3 DEF Connection, Ends, Other
<1>5. g = [f EXCEPT ![c] = n]
  BY <1>1, <1>2
<1> QED BY <1>1, <1>4, <1>5 DEF Put

\* What a callback is called with: the end e of c is x, the mail apart.
Got(s, c, e, x) ==
  /\ Full(s) /\ s.read = read_sock /\ s.write = write_sock /\ s.timer = timer /\ s.name = FALSE
  /\ s.conn = [conn EXCEPT ![c] = [conn[c] EXCEPT ![e] = x]]
  /\ x \in End /\ x.proc = conn[c][e].proc /\ x.cb = conn[c][e].cb

LEMMA GotPop ==
  ASSUME Typed, NEW c \in DOMAIN conn, NEW e \in Ends, conn[c][e].in # << >>, NEW s, s = Pop(State, c, e)
  PROVE  \E x : Got(s, c, e, x) /\ x.in = Tail(conn[c][e].in)
<1>1. conn \in [DOMAIN conn -> Connection]
  BY DEF Typed
<1>2. conn[c][e] \in End
  BY <1>1 DEF Connection, Ends
<1>3. PICK x : x = [conn[c][e] EXCEPT !.in = Tail(@)]
  OBVIOUS
<1>4. PICK z : z = State
  OBVIOUS
<1>5. Full(z) /\ z.read = read_sock /\ z.write = write_sock /\ z.timer = timer /\ z.conn = conn /\ z.name = FALSE
  BY <1>4, StateFull
<1>6. /\ Full(s) /\ s.read = read_sock /\ s.write = write_sock /\ s.timer = timer /\ s.name = FALSE
      /\ s.conn = [conn EXCEPT ![c] = [conn[c] EXCEPT ![e] = x]]
  <2>1. s = Pop(z, c, e)
    BY <1>4
  <2>2. s = [z EXCEPT !.conn[c][e].in = Tail(@)]
    BY <2>1 DEF Pop
  <2> QED BY <1>3, <1>5, <2>2 DEF Full
<1>7. x \in End /\ x.proc = conn[c][e].proc /\ x.cb = conn[c][e].cb /\ x.in = Tail(conn[c][e].in)
  <2>1. PICK m : m = Tail(conn[c][e].in)
    OBVIOUS
  <2>2. m \in Seq(Proc \cup {Fin})
    BY <1>2, <2>1, InSeq DEF End
  <2>3. x = [conn[c][e] EXCEPT !.in = m]
    BY <1>3, <2>1
  <2> QED BY <1>2, <2>1, <2>2, <2>3, EndWith
<1> QED BY <1>6, <1>7 DEF Got

LEMMA GotState ==
  ASSUME Typed, NEW c \in DOMAIN conn, NEW e \in Ends, NEW s, s = State, NEW x, x = conn[c][e]
  PROVE  Got(s, c, e, x)
<1>1. conn \in [DOMAIN conn -> Connection]
  BY DEF Typed
<1>2. x \in End
  BY <1>1 DEF Connection, Ends
<1>3. PICK k : k = conn[c]
  OBVIOUS
<1>4. [k EXCEPT ![e] = x] = k
  BY <1>1, <1>3 DEF Connection
<1>5. [conn EXCEPT ![c] = k] = conn
  BY <1>1, <1>3
<1>6. conn = [conn EXCEPT ![c] = [conn[c] EXCEPT ![e] = x]]
  BY <1>3, <1>4, <1>5
<1> QED BY <1>2, <1>6, StateFull DEF Got

LEMMA GotIs ==
  ASSUME Typed, NEW c \in DOMAIN conn, NEW e \in Ends, NEW s, NEW x, Got(s, c, e, x)
  PROVE  Put(conn, s.conn, c, e, x) /\ (Alive(s, c, e) <=> conn[c][e].cb # "closed")
<1>1. conn \in [DOMAIN conn -> Connection]
  BY DEF Typed
<1>2. PICK g : g = s.conn
  OBVIOUS
<1>3. g = [conn EXCEPT ![c] = [conn[c] EXCEPT ![e] = x]] /\ x \in End /\ x.cb = conn[c][e].cb
  BY <1>2 DEF Got
<1>4. Put(conn, g, c, e, x)
  BY <1>1, <1>3, PutIs
<1> QED BY <1>2, <1>3, <1>4 DEF Alive, Put

\* t is s with the end e of c closed.
ClosesTo(s, t, c, e) ==
  /\ Full(t) /\ t.read = s.read /\ t.write = s.write /\ t.timer = s.timer /\ t.name = FALSE
  /\ conn' = t.conn => Closes(c, e)

LEMMA GotCloses ==
  ASSUME NetInv, NEW c \in DOMAIN conn, NEW e \in Ends, conn[c][e].cb # "closed",
         NEW s, NEW x, Got(s, c, e, x), NEW t, t = close(s, c, e)
  PROVE  ClosesTo(s, t, c, e)
<1>1. Typed /\ Alive(s, c, e)
  BY GotIs DEF NetInv
<1>2. Full(s) /\ s.name = FALSE
  BY DEF Got
<1>3. Full(t) /\ t.read = s.read /\ t.write = s.write /\ t.timer = s.timer /\ t.name = s.name /\ t.conn = Closed(s.conn, c, e)
  BY <1>1, <1>2, CloseIs
<1>4. x \in End /\ x.proc = conn[c][e].proc /\ x.cb # "closed"
  BY DEF Got
<1>5. t.conn = Closed([conn EXCEPT ![c] = [conn[c] EXCEPT ![e] = x]], c, e)
  BY <1>3 DEF Got
<1>6. conn' = t.conn => Closes(c, e)
  BY <1>4, <1>5, ClosesIs
<1> QED BY <1>2, <1>3, <1>6 DEF ClosesTo

\* The end waits for another thing.
Waits(c, e, x, cb) ==
  /\ Turns(c) /\ conn'[c].peer = conn[c].peer /\ conn'[c][Other(e)] = conn[c][Other(e)]
  /\ conn'[c][e].proc = conn[c][e].proc /\ conn'[c][e].cb = cb /\ conn'[c][e].in = x.in

WaitsFor(s, t, c, e, x, cb) ==
  /\ Full(t) /\ t.read = s.read /\ t.write = s.write /\ t.timer = s.timer /\ t.name = FALSE
  /\ conn' = t.conn => Waits(c, e, x, cb)

LEMMA GotReads ==
  ASSUME Typed, NEW c \in DOMAIN conn, NEW e \in Ends, conn[c][e].cb # "closed",
         NEW s, NEW x, Got(s, c, e, x), NEW cb \in Callbacks, NEW t, t = Read(s, c, e, cb)
  PROVE  WaitsFor(s, t, c, e, x, cb)
<1>1. conn \in [DOMAIN conn -> Connection] /\ DOMAIN conn \subseteq Conn
  BY DEF Typed
<1>2. Full(s) /\ s.name = FALSE /\ x \in End /\ x.proc = conn[c][e].proc
  BY DEF Got
<1>3. PICK g : g = s.conn
  OBVIOUS
<1>4. Put(conn, g, c, e, x) /\ Alive(s, c, e)
  BY <1>3, GotIs
<1>5. g \in [DOMAIN g -> Connection] /\ c \in DOMAIN g
  BY <1>4 DEF Put
<1>6. PICK y : y = [x EXCEPT !.cb = cb]
  OBVIOUS
<1>7. y \in End /\ y.cb = cb /\ y.in = x.in /\ y.proc = x.proc
  BY <1>2, <1>6, EndWith
<1>8. /\ Full(t) /\ t.read = s.read /\ t.write = s.write /\ t.timer = s.timer /\ t.name = s.name
      /\ t.conn = [s.conn EXCEPT ![c] = [s.conn[c] EXCEPT ![e] = [s.conn[c][e] EXCEPT !.cb = cb]]]
  BY <1>2, <1>3, <1>4, <1>5, ReadIs
<1>9. PICK h : h = t.conn
  OBVIOUS
<1>10. h = [g EXCEPT ![c] = [g[c] EXCEPT ![e] = y]]
  BY <1>3, <1>4, <1>6, <1>8, <1>9 DEF Put
<1>11. Put(g, h, c, e, y)
  BY <1>5, <1>7, <1>10, PutIs
<1>12. conn' = h => Waits(c, e, x, cb)
  <2> SUFFICES ASSUME conn' = h PROVE Waits(c, e, x, cb)
    OBVIOUS
  <2>1. DOMAIN conn' = DOMAIN conn /\ conn' \in [DOMAIN conn' -> Connection]
    BY <1>4, <1>11 DEF Put
  <2>2. \A d \in DOMAIN conn \ {c} : conn'[d] = conn[d]
    BY <1>4, <1>11 DEF Put
  <2>3. Turns(c)
    BY <1>1, <2>1, <2>2 DEF Turns, ConnTyped, Only
  <2>4. /\ conn'[c].peer = conn[c].peer /\ conn'[c][Other(e)] = conn[c][Other(e)]
        /\ conn'[c][e] = y
    BY <1>4, <1>11 DEF Put
  <2> QED BY <1>2, <1>7, <2>3, <2>4 DEF Waits
<1> QED BY <1>2, <1>8, <1>9, <1>12 DEF WaitsFor

\* The initiator's end is closed, and a new attempt made.
Fails(t, p, q, c, old) ==
  /\ t.name = FALSE
  /\ Assign(t) => /\ Closes(c, "from") /\ read_sock' = read_sock
                  /\ IF write_sock[p][q] = old THEN Freed(p, q) ELSE Same

LEMMA FailsIs ==
  ASSUME NetInv, NEW c \in DOMAIN conn, conn[c].from.cb # "closed", NEW s, NEW x, Got(s, c, "from", x),
         NEW p \in Proc, NEW q \in Proc, NEW old,
         NEW t, t = reconnect_addr(close(s, c, "from"), p, q, old)
  PROVE  Fails(t, p, q, c, old)
<1>1. PICK u : u = close(s, c, "from")
  OBVIOUS
<1>2. PICK e : e = "from"
  OBVIOUS
<1>3. e \in Ends /\ conn[c][e].cb # "closed" /\ Got(s, c, e, x) /\ u = close(s, c, e)
  BY <1>1, <1>2 DEF Ends
<1>9. ClosesTo(s, u, c, e)
  BY <1>3, GotCloses
<1>4. /\ Full(u) /\ u.read = s.read /\ u.write = s.write /\ u.timer = s.timer /\ u.name = FALSE
      /\ conn' = u.conn => Closes(c, e)
  BY <1>9 DEF ClosesTo
<1>5. s.read = read_sock /\ s.write = write_sock /\ s.timer = timer
  BY DEF Got
<1>6. t = reconnect_addr(u, p, q, old)
  BY <1>1
<1>7. /\ Full(t) /\ t.read = u.read /\ t.conn = u.conn /\ t.name = u.name
      /\ IF u.write[p][q] = old
           THEN /\ t.write = [u.write EXCEPT ![p][q] = None]
                /\ t.timer = [u.timer EXCEPT ![p][q] = @ + 1]
           ELSE t.write = u.write /\ t.timer = u.timer
  <2>1. Reconnects(u, t, p, q, old)
    BY <1>4, <1>6, ReconnectIs
  <2> QED BY <2>1 DEF Reconnects
<1>8. ASSUME Assign(t)
      PROVE  /\ Closes(c, "from") /\ read_sock' = read_sock
             /\ IF write_sock[p][q] = old THEN Freed(p, q) ELSE Same
  <2>1. Closes(c, "from") /\ read_sock' = read_sock
    BY <1>2, <1>4, <1>5, <1>7, <1>8 DEF Assign
  <2>2. write_sock[p][q] = old => Freed(p, q)
    BY <1>4, <1>5, <1>7, <1>8 DEF Assign, Freed
  <2>3. write_sock[p][q] # old => Same
    BY <1>4, <1>5, <1>7, <1>8 DEF Assign, Same
  <2> QED BY <2>1, <2>2, <2>3
<1> QED BY <1>4, <1>7, <1>8 DEF Fails

\* p calls the callback of l for the end e of c; after the first of a
\* loot_read that is not the one the end waits with.
Called(p, l, c, e) ==
  LET k == conn[c] IN
  /\ l \in Loot /\ l.conn = c /\ l.end = e
  /\ c \in DOMAIN conn /\ k[e].proc = p /\ k[e].cb # "closed"
  /\ e = "from" => l.peer = k.peer
  /\ l.cb # k[e].cb => loot[p] # Idle /\ loot[p].cb = l.cb
  /\ \/ l.cb = k[e].cb /\ (e = "to" => l.peer = k.from.proc)
     \/ e = "from" /\ l.cb = "synack" /\ k.from.cb = "ack" /\ k.to.in = << >> /\ k.to.cb \in {"syn", "closed"}
     \/ e = "from" /\ l.cb = "ack" /\ k.from.cb = "send_err"
     \/ e = "to" /\ l.cb = "syn" /\ k.to.cb = "read"

\* what is the next of its mail, or the end.
Tells(c, e, x, what) ==
  \/ what = Fin
  \/ conn[c][e].in # << >> /\ what = Head(conn[c][e].in) /\ x.in = Tail(conn[c][e].in)

Turned(p, l, t, what) ==
  /\ loot' = [loot EXCEPT ![p] = IF what = Fin THEN Idle ELSE [l EXCEPT !.name = t.name]]
  /\ Assign(t)

LEMMA TurnedIs ==
  ASSUME Typed, NEW p \in Proc, NEW c, NEW l \in Loot, l.conn = c, NEW t, t.name \in BOOLEAN, NEW what,
         Turned(p, l, t, what), loot[p] # Idle => loot[p].conn = c
  PROVE  /\ Within(p, c)
         /\ what = Fin => loot'[p] = Idle
         /\ what # Fin => /\ loot'[p] = [l EXCEPT !.name = t.name] /\ loot'[p] \in Loot
                          /\ loot'[p].end = l.end /\ loot'[p].cb = l.cb /\ loot'[p].peer = l.peer
<1>1. PICK m : m = IF what = Fin THEN Idle ELSE [l EXCEPT !.name = t.name]
  OBVIOUS
<1>2. loot' = [loot EXCEPT ![p] = m] /\ loot \in [Proc -> Loot \cup {Idle}]
  BY <1>1 DEF Turned, Typed
<1>3. CASE what = Fin
  BY <1>1, <1>2, <1>3 DEF Within
<1>4. CASE what # Fin
  <2>1. PICK b \in BOOLEAN : b = t.name
    OBVIOUS
  <2>2. m = [l EXCEPT !.name = b]
    BY <1>1, <1>4, <2>1
  <2>3. m \in Loot /\ m.conn = c /\ m.end = l.end /\ m.cb = l.cb /\ m.peer = l.peer
    BY <2>1, <2>2 DEF Loot
  <2> QED BY <1>1, <1>2, <1>4, <2>3 DEF Within
<1> QED BY <1>3, <1>4

LEMMA CallIs ==
  ASSUME NEW s, NEW p, NEW q, NEW c, NEW e, NEW what
  PROVE  /\ Call("syn", s, p, q, c, e, what) = cb_read_syn(s, p, c, e, what)
         /\ Call("synack", s, p, q, c, e, what) = cb_read_synack(s, p, q, c, e, what)
         /\ Call("ack", s, p, q, c, e, what) = cb_read_ack(s, p, q, c, e, what)
         /\ Call("send_err", s, p, q, c, e, what) = cb_send_err(s, p, q, c, e)
         /\ Call("read", s, p, q, c, e, what) = cb_read(s, p, q, c, e)
BY DEF Call

LEMMA FromCallOk ==
  ASSUME NetInv, Rest, NEW p \in Proc, NEW c \in Conn, NEW l, Called(p, l, c, "from"),
         NEW s, NEW x, Got(s, c, "from", x), NEW what, Tells(c, "from", x, what),
         NEW t, t = Call(l.cb, s, p, l.peer, c, "from", what), Turned(p, l, t, what),
         loot[p] # Idle => loot[p].conn = c
  PROVE  NetInv' /\ Tidy
<1>1. PICK k, q, e : k = conn[c] /\ q = k.peer /\ e = "from"
  OBVIOUS
<1>2. /\ c \in DOMAIN conn /\ k.from.proc = p /\ k.from.cb # "closed" /\ l \in Loot
      /\ l.conn = c /\ l.end = "from" /\ l.peer = q
      /\ \/ l.cb = k.from.cb
         \/ l.cb = "synack" /\ k.from.cb = "ack" /\ k.to.in = << >> /\ k.to.cb \in {"syn", "closed"}
         \/ l.cb = "ack" /\ k.from.cb = "send_err"
      /\ l.cb # k.from.cb => loot[p] # Idle /\ loot[p].cb = l.cb
  BY <1>1 DEF Called
<1>3. Typed /\ Good(c)
  BY <1>2 DEF NetInv
<1>4. q \in Peers(p) /\ q \in Proc /\ q # p /\ q # Fin
  BY <1>1, <1>2, <1>3, NetAssumption DEF Good, Roles, Peers
<1>5. l.cb \in {"synack", "ack", "send_err"} /\ k.from.cb \in {"synack", "ack", "send_err"}
  <2>1. l.cb \in Watching
    BY <1>2 DEF Loot
  <2> QED BY <1>1, <1>2, <1>3, <2>1 DEF Good, Roles, Watching
<1>6. k.from.cb \in Attempting => write_sock[p][q] = Busy
  <2>1. k.from.cb \in Attempting => c \in Tries(p, q)
    BY <1>1, <1>2 DEF Tries, Tried
  <2> QED BY <2>1, <1>4 DEF NetInv, Trying
<1>7. k.from.cb = "send_err" => write_sock[p][q] = c /\ c # Busy
  BY <1>1, <1>2, <1>3 DEF Good, Bound, Conn, Busy
<1>8. k.from.cb = "send_err" => what = Fin
  <2>1. k.from.cb = "send_err" => k.from.in \in {<< >>, <<Fin>>}
    BY <1>1, <1>3 DEF Good, Stage
  <2>2. Head(<<Fin>>) = Fin
    BY Mails
  <2> QED BY <1>1, <2>1, <2>2 DEF Tells
<1>9. Assign(t)
  BY DEF Turned
<1>10. ASSUME t.name \in BOOLEAN
       PROVE  /\ Within(p, c)
              /\ what = Fin => loot'[p] = Idle
              /\ what # Fin => /\ loot'[p] = [l EXCEPT !.name = t.name] /\ loot'[p] \in Loot
                               /\ loot'[p].end = "from" /\ loot'[p].cb = l.cb /\ loot'[p].peer = q
  BY <1>2, <1>3, <1>10, TurnedIs
<1>11. ASSUME NEW old, t = reconnect_addr(close(s, c, "from"), p, q, old),
              IF k.from.cb = "send_err" THEN l.cb # "send_err" \/ old = c ELSE old = Busy,
              l.cb = "ack" => old = Busy
       PROVE  NetInv' /\ Tidy
  <2>1. /\ t.name = FALSE /\ Closes(c, "from") /\ read_sock' = read_sock
        /\ IF write_sock[p][q] = old THEN Freed(p, q) ELSE Same
    <3>1. Fails(t, p, q, c, old)
      BY <1>1, <1>2, <1>4, <1>11, FailsIs
    <3> QED BY <1>9, <3>1 DEF Fails
  <2>2. /\ Within(p, c)
        /\ what = Fin => loot'[p] = Idle
        /\ what # Fin => loot'[p].end = "from" /\ loot'[p].cb = l.cb /\ loot'[p].peer = q
    BY <1>10, <2>1
  <2>3. CASE k.from.cb = "send_err"
    <3>1. loot'[p] = Idle
      BY <1>8, <2>2, <2>3
    <3>2. \/ Freed(p, q) /\ write_sock[p][q] \in {Busy, c}
          \/ Same /\ k.from.cb = "send_err" /\ loot[p] # Idle /\ loot[p].cb = "ack"
      <4>1. CASE write_sock[p][q] = old
        BY <1>7, <2>1, <2>3, <4>1
      <4>2. CASE write_sock[p][q] # old
        <5>1. l.cb # "send_err"
          BY <1>7, <1>11, <2>3, <4>2
        <5> QED BY <1>2, <2>1, <2>3, <4>2, <5>1
      <4> QED BY <4>1, <4>2
    <3>3. FromCloses(p, c)
      BY <1>1, <1>2, <2>1, <3>1, <3>2 DEF FromCloses
    <3> QED BY <2>2, <3>3, FromClosesOk, FromClosesTidy
  <2>4. CASE k.from.cb # "send_err"
    <3>1. write_sock[p][q] = Busy /\ Freed(p, q) /\ l.cb \in {"synack", "ack"}
      BY <1>2, <1>5, <1>6, <1>11, <2>1, <2>4 DEF Attempting
    <3>2. FromCloses(p, c)
      BY <1>1, <1>2, <2>1, <2>2, <3>1 DEF FromCloses
    <3> QED BY <2>2, <3>2, FromClosesOk, FromClosesTidy
  <2> QED BY <2>3, <2>4
<1>12. CASE l.cb = "synack" /\ what = q
  <2>1. t = [Read(s, c, "from", "ack") EXCEPT !.name = TRUE]
    BY <1>2, <1>12, CallIs DEF cb_read_synack
  <2>2. PICK u, cb : cb = "ack" /\ u = Read(s, c, e, cb)
    OBVIOUS
  <2>3. e \in Ends /\ conn[c][e].cb # "closed" /\ Got(s, c, e, x) /\ cb \in Callbacks
    BY <1>1, <1>2, <2>2 DEF Ends, Callbacks, Watching
  <2>4. /\ Full(u) /\ u.read = s.read /\ u.write = s.write /\ u.timer = s.timer
        /\ conn' = u.conn => Waits(c, e, x, cb)
    <3>1. WaitsFor(s, u, c, e, x, cb)
      BY <1>2, <1>3, <2>2, <2>3, GotReads
    <3> QED BY <3>1 DEF WaitsFor
  <2>5. t = [u EXCEPT !.name = TRUE]
    BY <1>1, <2>1, <2>2
  <2>6. t.read = u.read /\ t.write = u.write /\ t.timer = u.timer /\ t.conn = u.conn /\ t.name = TRUE
    BY <2>4, <2>5 DEF Full
  <2>7. Waits(c, e, x, cb) /\ Same /\ read_sock' = read_sock
    BY <1>9, <2>4, <2>6 DEF Assign, Got, Same
  <2>8. /\ Turns(c) /\ conn'[c].peer = k.peer /\ conn'[c].to = k.to /\ conn'[c].from.proc = p
        /\ conn'[c].from.cb = "ack" /\ conn'[c].from.in = x.in
    BY <1>1, <1>2, <2>2, <2>7 DEF Waits, Other
  <2>9. k.from.in # << >> /\ Head(k.from.in) = q /\ x.in = Tail(k.from.in)
    BY <1>1, <1>4, <1>12 DEF Tells
  <2>10. k.from.cb = "synack" \/ (k.from.cb = "ack" /\ k.to.in = << >> /\ k.to.cb \in {"syn", "closed"})
    BY <1>2, <1>12
  <2>11. Within(p, c) /\ loot'[p] = [l EXCEPT !.name = TRUE]
    BY <1>4, <1>10, <1>12, <2>6
  <2>12. loot'[p] = [conn |-> c, end |-> "from", cb |-> "synack", peer |-> k.peer, name |-> TRUE]
    BY <1>1, <1>2, <1>12, <2>11 DEF Loot
  <2>13. SynackOk(p, c)
    BY <1>1, <1>2, <2>7, <2>8, <2>9, <2>10, <2>12 DEF SynackOk
  <2> QED BY <2>11, <2>13, SynackOkOk, SynackTidy
<1>13. CASE l.cb \in {"synack", "ack"} /\ what # q
  <2>1. t = reconnect_addr(close(s, c, "from"), p, q, Busy)
    BY <1>2, <1>13, CallIs DEF cb_read_synack, cb_read_ack
  <2> QED BY <1>11, <1>13, <2>1
<1>14. CASE l.cb = "ack" /\ what = q
  <2>1. k.from.cb = "ack"
    BY <1>2, <1>4, <1>8, <1>14
  <2>2. write_sock[p][q] = Busy /\ s.write = write_sock
    BY <1>6, <2>1 DEF Attempting, Got
  <2>3. t = [Read(s, c, "from", "send_err") EXCEPT !.write[p][q] = c]
    BY <1>2, <1>14, <2>2, CallIs DEF cb_read_ack
  <2>4. PICK u, cb : cb = "send_err" /\ u = Read(s, c, e, cb)
    OBVIOUS
  <2>5. e \in Ends /\ conn[c][e].cb # "closed" /\ Got(s, c, e, x) /\ cb \in Callbacks
    BY <1>1, <1>2, <2>4 DEF Ends, Callbacks, Watching
  <2>6. /\ Full(u) /\ u.read = s.read /\ u.write = s.write /\ u.timer = s.timer /\ u.name = FALSE
        /\ conn' = u.conn => Waits(c, e, x, cb)
    <3>1. WaitsFor(s, u, c, e, x, cb)
      BY <1>2, <1>3, <2>4, <2>5, GotReads
    <3> QED BY <3>1 DEF WaitsFor
  <2>7. t = [u EXCEPT !.write[p][q] = c]
    BY <1>1, <2>3, <2>4
  <2>8. t.read = u.read /\ t.write = [u.write EXCEPT ![p][q] = c] /\ t.timer = u.timer /\ t.conn = u.conn /\ t.name = FALSE
    BY <2>6, <2>7 DEF Full
  <2>9. Waits(c, e, x, cb) /\ write_sock' = [write_sock EXCEPT ![p][q] = c] /\ timer' = timer /\ read_sock' = read_sock
    BY <1>9, <2>6, <2>8 DEF Assign, Got
  <2>10. /\ Turns(c) /\ conn'[c].peer = k.peer /\ conn'[c].to = k.to /\ conn'[c].from.proc = p
         /\ conn'[c].from.cb = "send_err" /\ conn'[c].from.in = x.in
    BY <1>1, <1>2, <2>4, <2>9 DEF Waits, Other
  <2>11. Begins(k.from.in, q) /\ x.in = Tail(k.from.in)
    BY <1>1, <1>4, <1>14 DEF Tells, Begins
  <2>12. Within(p, c) /\ loot'[p] = [l EXCEPT !.name = FALSE]
    BY <1>4, <1>10, <1>14, <2>8
  <2>13. loot'[p] = [conn |-> c, end |-> "from", cb |-> "ack", peer |-> k.peer, name |-> FALSE]
    BY <1>1, <1>2, <1>14, <2>12 DEF Loot
  <2>14. AckOk(p, c)
    BY <1>1, <1>2, <2>1, <2>9, <2>10, <2>11, <2>13 DEF AckOk
  <2> QED BY <2>12, <2>14, AckOkOk, AckTidy
<1>15. CASE l.cb = "send_err"
  <2>1. t = reconnect_addr(close(s, c, "from"), p, q, c)
    BY <1>2, <1>15, CallIs DEF cb_send_err
  <2>2. k.from.cb = "send_err"
    BY <1>2, <1>15
  <2> QED BY <1>11, <1>15, <2>1, <2>2
<1> QED BY <1>5, <1>12, <1>13, <1>14, <1>15

LEMMA ToCallOk ==
  ASSUME NetInv, Rest, NEW p \in Proc, NEW c \in Conn, NEW l, Called(p, l, c, "to"),
         NEW s, NEW x, Got(s, c, "to", x), NEW what, Tells(c, "to", x, what),
         NEW t, t = Call(l.cb, s, p, l.peer, c, "to", what), Turned(p, l, t, what),
         loot[p] # Idle => loot[p].conn = c
  PROVE  NetInv' /\ Tidy
<1>1. PICK k, q, e : k = conn[c] /\ q = k.from.proc /\ e = "to"
  OBVIOUS
<1>2. /\ c \in DOMAIN conn /\ k.to.proc = p /\ k.to.cb # "closed" /\ l \in Loot
      /\ l.conn = c /\ l.end = "to"
      /\ \/ l.cb = k.to.cb /\ l.peer = q
         \/ l.cb = "syn" /\ k.to.cb = "read"
      /\ l.cb # k.to.cb => loot[p] # Idle /\ loot[p].cb = l.cb
  BY <1>1 DEF Called
<1>3. Typed /\ Good(c) /\ k \in Connection
  BY <1>1, <1>2 DEF NetInv, Typed
<1>4. q \in Proc
  BY <1>1, <1>3 DEF Connection, End
<1>5. l.cb \in {"syn", "read"} /\ k.to.cb \in {"syn", "read"} /\ (l.cb = "read" => k.to.cb = "read" /\ l.peer = q)
  <2>1. l.cb \in Watching
    BY <1>2 DEF Loot
  <2> QED BY <1>1, <1>2, <1>3, <2>1 DEF Good, Roles, Watching
<1>6. k.to.cb = "read" => what = Fin
  <2>1. k.to.cb = "read" => k.to.in \in {<< >>, <<Fin>>}
    BY <1>1, <1>3 DEF Good, Stage
  <2>2. Head(<<Fin>>) = Fin
    BY Mails
  <2> QED BY <1>1, <2>1, <2>2 DEF Tells
<1>7. Assign(t) /\ s.read = read_sock /\ s.write = write_sock /\ s.timer = timer /\ Full(s)
  BY DEF Turned, Got
<1>8. e \in Ends /\ conn[c][e].cb # "closed" /\ Got(s, c, e, x)
  BY <1>1, <1>2 DEF Ends
<1>9. ASSUME t.name \in BOOLEAN
      PROVE  /\ Within(p, c)
             /\ what = Fin => loot'[p] = Idle
             /\ what # Fin => /\ loot'[p] = [l EXCEPT !.name = t.name] /\ loot'[p] \in Loot
                              /\ loot'[p].end = "to" /\ loot'[p].cb = l.cb
  BY <1>2, <1>3, <1>9, TurnedIs
<1>10. Fin \notin Peers(p)
  BY NetAssumption DEF Peers
<1>11. CASE l.cb = "syn" /\ (what \notin Peers(p) \/ read_sock[p][what] # None)
  <2>1. t = close(s, c, e)
    <3>1. t = cb_read_syn(s, p, c, "to", what)
      BY <1>11, CallIs
    <3> QED BY <1>1, <1>7, <1>11, <3>1 DEF cb_read_syn
  <2>2. ClosesTo(s, t, c, e)
    BY <1>2, <1>8, <2>1, GotCloses
  <2>3. t.name = FALSE /\ Closes(c, "to") /\ Same /\ read_sock' = read_sock
    BY <1>1, <1>7, <2>2 DEF ClosesTo, Assign, Same
  <2>4. Within(p, c) /\ (loot'[p] # Idle => loot'[p].end = "to" /\ loot'[p].cb = "syn")
    BY <1>9, <1>11, <2>3
  <2>6. k.to.cb = "read" => loot[p] # Idle /\ loot[p].cb = "syn" /\ loot'[p] = Idle
    BY <1>2, <1>6, <1>9, <1>11, <2>3
  <2>5. ToCloses(p, c)
    BY <1>1, <1>2, <2>3, <2>4, <2>6 DEF ToCloses
  <2> QED BY <2>4, <2>5, ToClosesOk, ToClosesTidy
<1>12. CASE l.cb = "syn" /\ what \in Peers(p) /\ read_sock[p][what] = None
  <2>1. k.to.cb = "syn" /\ what # Fin /\ what \in Proc
    BY <1>5, <1>6, <1>10, <1>12 DEF Peers
  <2>2. t = [Read(s, c, e, "read") EXCEPT !.read[p][what] = c, !.name = TRUE]
    <3>1. t = cb_read_syn(s, p, c, "to", what)
      BY <1>12, CallIs
    <3> QED BY <1>1, <1>7, <1>12, <3>1 DEF cb_read_syn
  <2>3. PICK u, cb : cb = "read" /\ u = Read(s, c, e, cb)
    OBVIOUS
  <2>4. cb \in Callbacks
    BY <2>3 DEF Callbacks, Watching
  <2>5. WaitsFor(s, u, c, e, x, cb)
    BY <1>2, <1>3, <1>8, <2>3, <2>4, GotReads
  <2>6. t = [u EXCEPT !.read[p][what] = c, !.name = TRUE]
    BY <2>2, <2>3
  <2>7. t.read = [u.read EXCEPT ![p][what] = c] /\ t.write = u.write /\ t.timer = u.timer /\ t.conn = u.conn /\ t.name = TRUE
    BY <2>5, <2>6 DEF Full, WaitsFor
  <2>8. Waits(c, e, x, cb) /\ Same /\ read_sock' = [read_sock EXCEPT ![p][what] = c]
    BY <1>7, <2>5, <2>7 DEF Assign, WaitsFor, Same
  <2>9. /\ Turns(c) /\ conn'[c].peer = k.peer /\ conn'[c].from = k.from /\ conn'[c].to.proc = p
        /\ conn'[c].to.cb = "read" /\ conn'[c].to.in = x.in
    BY <1>1, <1>2, <2>3, <2>8 DEF Waits, Other
  <2>10. Begins(k.to.in, what) /\ x.in = Tail(k.to.in)
    BY <1>1, <2>1 DEF Tells, Begins
  <2>11. Within(p, c) /\ loot'[p] = [l EXCEPT !.name = TRUE]
    BY <1>9, <2>1, <2>7
  <2>12. l.peer = q
    BY <1>2, <1>12, <2>1
  <2>13. loot'[p] = [conn |-> c, end |-> "to", cb |-> "syn", peer |-> k.from.proc, name |-> TRUE]
    BY <1>1, <1>2, <1>12, <2>11, <2>12 DEF Loot
  <2>14. SynOk(p, what, c)
    BY <1>1, <1>2, <1>12, <2>1, <2>8, <2>9, <2>10, <2>13 DEF SynOk
  <2> QED BY <2>1, <2>11, <2>14, SynOkOk, SynTidy
<1>13. CASE l.cb = "read"
  <2>1. k.to.cb = "read" /\ l.peer = q /\ what = Fin
    BY <1>5, <1>6, <1>13
  <2>2. PICK u : u = [s EXCEPT !.read[p][q] = IF @ = c THEN None ELSE @]
    OBVIOUS
  <2>3. t = close(u, c, e)
    <3>1. t = cb_read(s, p, q, c, "to")
      BY <1>13, <2>1, CallIs
    <3> QED BY <1>1, <2>2, <3>1 DEF cb_read
  <2>4. /\ Full(u) /\ u.write = s.write /\ u.timer = s.timer /\ u.conn = s.conn /\ u.name = s.name
        /\ u.read = [s.read EXCEPT ![p][q] = IF @ = c THEN None ELSE @]
    BY <1>7, <2>2 DEF Full
  <2>5. Alive(u, c, e)
    <3>1. Alive(s, c, e)
      BY <1>2, <1>3, <1>8, GotIs
    <3> QED BY <2>4, <3>1 DEF Alive
  <2>6. PICK v : v = close(s, c, e)
    OBVIOUS
  <2>7. ClosesTo(s, v, c, e)
    BY <1>2, <1>8, <2>6, GotCloses
  <2>8. v.conn = Closed(s.conn, c, e)
    <3>1. Alive(s, c, e)
      BY <2>4, <2>5 DEF Alive
    <3> QED BY <1>7, <2>6, <3>1 DEF close, Full
  <2>9. t.conn = Closed(u.conn, c, e) /\ t.read = u.read /\ t.write = u.write /\ t.timer = u.timer /\ t.name = u.name
    BY <2>3, <2>4, <2>5, CloseIs
  <2>10. t.conn = v.conn /\ t.name = FALSE
    BY <2>4, <2>8, <2>9 DEF Got
  <2>11. Closes(c, "to") /\ Same
    BY <1>1, <1>7, <2>4, <2>7, <2>9, <2>10 DEF ClosesTo, Assign, Same
  <2>12. Forgot(p, q, c)
    BY <1>7, <2>4, <2>9 DEF Assign, Forgot
  <2>13. Within(p, c) /\ loot'[p] = Idle
    BY <1>9, <2>1, <2>10
  <2>14. ToCloses(p, c)
    BY <1>1, <1>2, <2>11, <2>12, <2>13 DEF ToCloses
  <2> QED BY <2>13, <2>14, ToClosesOk, ToClosesTidy
<1> QED BY <1>5, <1>11, <1>12, <1>13

LEMMA CallOk ==
  ASSUME NetInv, Rest, NEW p \in Proc, NEW c \in Conn, NEW e \in Ends, NEW l, Called(p, l, c, e),
         NEW s, NEW x, Got(s, c, e, x), NEW what, Tells(c, e, x, what),
         NEW t, t = Call(l.cb, s, p, l.peer, c, e, what), Turned(p, l, t, what),
         loot[p] # Idle => loot[p].conn = c
  PROVE  NetInv' /\ Tidy
<1>1. CASE e = "from"
  BY <1>1, FromCallOk
<1>2. CASE e = "to"
  BY <1>2, ToCallOk
<1> QED BY <1>1, <1>2 DEF Ends

LEMMA RecvOk ==
  ASSUME NetInv, NEW p \in Proc, NEW c \in Conn, NEW e \in Ends, Recv(p, c, e)
  PROVE  NetInv' /\ Tidy
<1>1. /\ loot[p] = Idle /\ c \in DOMAIN conn
      /\ conn[c][e].proc = p /\ conn[c][e].cb \in Watching /\ conn[c][e].in # << >>
      /\ Rest
  BY DEF Recv, Rest
<1>2. PICK l : l = [conn |-> c, end |-> e, cb |-> conn[c][e].cb, peer |-> PeerOf(c, e), name |-> FALSE]
  OBVIOUS
<1>3. PICK s, what : s = Pop(State, c, e) /\ what = Head(conn[c][e].in)
  OBVIOUS
<1>4. Turn(p, l, s, what)
  BY <1>2, <1>3 DEF Recv
<1>5. l.conn = c /\ l.end = e /\ l.cb = conn[c][e].cb /\ l.peer = PeerOf(c, e)
  BY <1>2
<1>6. PICK t : t = Call(l.cb, s, p, l.peer, c, e, what)
  OBVIOUS
<1>7. Turned(p, l, t, what)
  BY <1>4, <1>5, <1>6 DEF Turn, Turned
<1>8. PICK x : Got(s, c, e, x) /\ x.in = Tail(conn[c][e].in)
  BY <1>1, <1>3, GotPop DEF NetInv
<1>9. Tells(c, e, x, what)
  BY <1>1, <1>3, <1>8 DEF Tells
<1>10. PeerOf(c, e) \in Proc
  <2>1. conn[c] \in Connection
    BY <1>1 DEF NetInv, Typed
  <2> QED BY <2>1 DEF PeerOf, Connection, End
<1>11. l \in Loot
  BY <1>1, <1>2, <1>10 DEF Loot
<1>12. Called(p, l, c, e)
  <2>1. conn[c][e].cb # "closed"
    BY <1>1 DEF Watching
  <2>2. (e = "from" => l.peer = conn[c].peer) /\ (e = "to" => l.peer = conn[c].from.proc)
    BY <1>5 DEF PeerOf
  <2> QED BY <1>1, <1>5, <1>11, <2>1, <2>2 DEF Called
<1> QED BY <1>1, <1>6, <1>7, <1>8, <1>9, <1>12, CallOk

LEMMA CloseEventOk ==
  ASSUME NetInv, NEW p \in Proc, NEW c \in Conn, NEW e \in Ends, CloseEvent(p, c, e)
  PROVE  NetInv' /\ Tidy
<1>1. /\ loot[p] = Idle /\ c \in DOMAIN conn
      /\ conn[c][e].proc = p /\ conn[c][e].cb \in Watching
      /\ Rest /\ loot' = loot
  BY DEF CloseEvent, Rest
<1>2. PICK l : l = [conn |-> c, end |-> e, cb |-> conn[c][e].cb, peer |-> PeerOf(c, e), name |-> FALSE]
  OBVIOUS
<1>3. PICK s, x : s = State /\ x = conn[c][e]
  OBVIOUS
<1>4. l.conn = c /\ l.end = e /\ l.cb = conn[c][e].cb /\ l.peer = PeerOf(c, e)
  BY <1>2
<1>5. PICK t : t = Call(l.cb, s, p, l.peer, c, e, Fin)
  OBVIOUS
<1>6. Turned(p, l, t, Fin)
  <2>1. Assign(t)
    BY <1>3, <1>4, <1>5 DEF CloseEvent
  <2>2. loot' = [loot EXCEPT ![p] = Idle]
    BY <1>1 DEF NetInv, Typed
  <2> QED BY <2>1, <2>2 DEF Turned
<1>7. Got(s, c, e, x)
  BY <1>1, <1>3, GotState DEF NetInv
<1>8. Tells(c, e, x, Fin)
  BY DEF Tells
<1>9. PeerOf(c, e) \in Proc
  <2>1. conn[c] \in Connection
    BY <1>1 DEF NetInv, Typed
  <2> QED BY <2>1 DEF PeerOf, Connection, End
<1>10. l \in Loot
  BY <1>1, <1>2, <1>9 DEF Loot
<1>11. Called(p, l, c, e)
  <2>1. conn[c][e].cb # "closed"
    BY <1>1 DEF Watching
  <2>2. (e = "from" => l.peer = conn[c].peer) /\ (e = "to" => l.peer = conn[c].from.proc)
    BY <1>4 DEF PeerOf
  <2> QED BY <1>1, <1>4, <1>10, <2>1, <2>2 DEF Called
<1> QED BY <1>1, <1>5, <1>6, <1>7, <1>8, <1>11, CallOk

\* The end was closed by the callback before.
LEMMA EndedOk ==
  ASSUME NetInv, Rest, NEW p \in Proc, NEW l, l = loot[p], l # Idle,
         ~Alive(State, l.conn, l.end), Turn(p, l, State, Fin)
  PROVE  NetInv' /\ Tidy
<1>1. Typed /\ Looting(p) /\ l \in Loot
  BY DEF NetInv, Typed
<1>2. PICK c, e, q, s : c = l.conn /\ e = l.end /\ q = l.peer /\ s = State
  OBVIOUS
<1>3. c \in Conn /\ e \in Ends /\ q \in Proc
  BY <1>1, <1>2 DEF Loot
<1>4. Full(s) /\ s.read = read_sock /\ s.write = write_sock /\ s.timer = timer /\ s.conn = conn /\ ~Alive(s, c, e)
  BY <1>2, StateFull
<1>5. PICK t : t = Call(l.cb, s, p, q, c, e, Fin)
  OBVIOUS
<1>6. loot' = [loot EXCEPT ![p] = Idle] /\ Assign(t)
  BY <1>2, <1>5 DEF Turn
<1>7. Within(p, c) /\ loot'[p] = Idle
  BY <1>1, <1>2, <1>6 DEF Within, Typed
<1>8. close(s, c, e) = s
  BY <1>4 DEF close
<1>9. c \in DOMAIN conn => conn[c][e].cb = "closed"
  BY <1>4 DEF Alive
<1>10. Fin \notin Peers(p)
  BY NetAssumption DEF Peers
<1>11. CASE l.cb \in {"synack", "ack"}
  <2>1. e = "from" /\ q \in Peers(p) /\ write_sock[p][q] # Busy
    BY <1>1, <1>2, <1>11 DEF Looting
  <2>2. t = reconnect_addr(close(s, c, e), p, q, Busy)
    <3>1. CASE l.cb = "synack"
      <4>1. t = cb_read_synack(s, p, q, c, e, Fin)
        BY <1>5, <3>1, CallIs
      <4> QED BY <1>10, <2>1, <4>1 DEF cb_read_synack
    <3>2. CASE l.cb = "ack"
      <4>1. t = cb_read_ack(s, p, q, c, e, Fin)
        BY <1>5, <3>2, CallIs
      <4> QED BY <1>10, <2>1, <4>1 DEF cb_read_ack
    <3> QED BY <1>11, <3>1, <3>2
  <2>3. t = s
    BY <1>4, <1>8, <2>1, <2>2 DEF reconnect_addr
  <2>4. read_sock' = read_sock /\ Same /\ conn' = conn
    BY <1>4, <1>6, <2>3 DEF Assign, Same
  <2>5. Leaves(p, c)
    BY <1>2, <1>7, <2>1, <2>4 DEF Leaves
  <2> QED BY <1>3, <1>7, <2>5, LeavesOk, LeavesTidy
<1>12. CASE l.cb = "send_err"
  <2>1. e = "from"
    BY <1>1, <1>2, <1>12 DEF Looting
  <2>2. t = reconnect_addr(s, p, q, c)
    <3>1. t = cb_send_err(s, p, q, c, e)
      BY <1>5, <1>12, CallIs
    <3> QED BY <1>8, <3>1 DEF cb_send_err
  <2>3. Reconnects(s, t, p, q, c)
    BY <1>4, <2>2, ReconnectIs
  <2>4. read_sock' = read_sock /\ conn' = conn
    BY <1>4, <1>6, <2>3 DEF Assign, Reconnects
  <2>5. Same \/ (Freed(p, q) /\ write_sock[p][q] = c)
    BY <1>4, <1>6, <2>3 DEF Assign, Reconnects, Same, Freed
  <2>6. c \in DOMAIN conn => conn[c].from.cb = "closed"
    BY <1>9, <2>1
  <2>7. Leaves(p, c)
    BY <1>2, <1>3, <1>7, <2>1, <2>4, <2>5, <2>6 DEF Leaves
  <2> QED BY <1>3, <1>7, <2>7, LeavesOk, LeavesTidy
<1>13. CASE l.cb = "syn"
  <2>1. e = "to"
    BY <1>1, <1>2, <1>13 DEF Looting
  <2>2. t = s
    <3>1. t = cb_read_syn(s, p, c, e, Fin)
      BY <1>5, <1>13, CallIs
    <3> QED BY <1>8, <1>10, <3>1 DEF cb_read_syn
  <2>3. read_sock' = read_sock /\ Same /\ conn' = conn
    BY <1>4, <1>6, <2>2 DEF Assign, Same
  <2>4. c \in DOMAIN conn => conn[c].to.cb = "closed"
    BY <1>9, <2>1
  <2>5. Leaves(p, c)
    BY <1>7, <2>3, <2>4 DEF Leaves
  <2> QED BY <1>3, <1>7, <2>5, LeavesOk, LeavesTidy
<1>14. CASE l.cb = "read"
  <2>1. e = "to"
    BY <1>1, <1>2, <1>14 DEF Looting
  <2>2. PICK u : u = [s EXCEPT !.read[p][q] = IF @ = c THEN None ELSE @]
    OBVIOUS
  <2>3. t = close(u, c, e)
    <3>1. t = cb_read(s, p, q, c, e)
      BY <1>5, <1>14, CallIs
    <3> QED BY <2>2, <3>1 DEF cb_read
  <2>4. /\ u.write = s.write /\ u.timer = s.timer /\ u.conn = s.conn
        /\ u.read = [s.read EXCEPT ![p][q] = IF @ = c THEN None ELSE @]
    BY <1>4, <2>2 DEF Full
  <2>5. t = u
    BY <1>4, <2>3, <2>4 DEF close, Alive
  <2>6. Forgot(p, q, c) /\ Same /\ conn' = conn
    BY <1>4, <1>6, <2>4, <2>5 DEF Assign, Same, Forgot
  <2>7. c \in DOMAIN conn => conn[c].to.cb = "closed"
    BY <1>9, <2>1
  <2>8. Leaves(p, c)
    BY <1>3, <1>7, <2>6, <2>7 DEF Leaves
  <2> QED BY <1>3, <1>7, <2>8, LeavesOk, LeavesTidy
<1> QED BY <1>1, <1>11, <1>12, <1>13, <1>14 DEF Loot, Watching

\* Mail of p for the end e of c, which is x when it has come.
Sent(c, e, x) ==
  /\ Turns(c) /\ conn'[c].peer = conn[c].peer /\ conn'[c][Other(e)] = conn[c][Other(e)]
  /\ conn'[c][e].proc = conn[c][e].proc /\ conn'[c][e].cb = conn[c][e].cb /\ conn'[c][e].in = x

LEMMA SentIs ==
  ASSUME Typed, NEW c \in DOMAIN conn, NEW e \in Ends, NEW p \in Proc,
         conn' = [conn EXCEPT ![c] = [conn[c] EXCEPT ![e] = [conn[c][e] EXCEPT !.in = Append(@, p)]]]
  PROVE  Sent(c, e, Append(conn[c][e].in, p))
<1>1. conn \in [DOMAIN conn -> Connection] /\ DOMAIN conn \subseteq Conn
  BY DEF Typed
<1>2. PICK x, m : x = conn[c][e] /\ m = Append(x.in, p)
  OBVIOUS
<1>3. x \in End
  BY <1>1, <1>2 DEF Connection, Ends
<1>4. m \in Seq(Proc \cup {Fin})
  BY <1>2, <1>3, InSeq DEF End
<1>5. PICK y : y = [x EXCEPT !.in = m]
  OBVIOUS
<1>6. y \in End /\ y.cb = x.cb /\ y.in = m /\ y.proc = x.proc
  BY <1>3, <1>4, <1>5, EndWith
<1>7. PICK g : g = conn'
  OBVIOUS
<1>8. g = [conn EXCEPT ![c] = [conn[c] EXCEPT ![e] = y]]
  BY <1>2, <1>5, <1>7
<1>9. Put(conn, g, c, e, y)
  BY <1>1, <1>6, <1>8, PutIs
<1>10. /\ Turns(c)
       /\ conn'[c].peer = conn[c].peer /\ conn'[c][Other(e)] = conn[c][Other(e)] /\ conn'[c][e] = y
  BY <1>1, <1>7, <1>9 DEF Put, Turns, ConnTyped, Only
<1> QED BY <1>2, <1>6, <1>10 DEF Sent

\* There is nothing left to read.
LEMMA EagainOk ==
  ASSUME NetInv, Rest, NEW p \in Proc, NEW l, l = loot[p], l # Idle,
         Alive(State, l.conn, l.end), conn[l.conn][l.end].in = << >>,
         loot' = [loot EXCEPT ![p] = Idle],
         Assign(IF l.name THEN Write(State, l.conn, l.end, p) ELSE State)
  PROVE  NetInv' /\ Tidy
<1>1. Typed /\ Looting(p) /\ l \in Loot
  BY DEF NetInv, Typed
<1>2. PICK c, e, s : c = l.conn /\ e = l.end /\ s = State
  OBVIOUS
<1>3. c \in Conn /\ e \in Ends
  BY <1>1, <1>2 DEF Loot
<1>4. Full(s) /\ s.read = read_sock /\ s.write = write_sock /\ s.timer = timer /\ s.conn = conn /\ Alive(s, c, e)
  BY <1>2, StateFull
<1>5. c \in DOMAIN conn /\ conn[c][e].cb # "closed" /\ conn[c][e].proc = p
  BY <1>1, <1>2, <1>4 DEF Looting, Alive
<1>6. PICK k : k = conn[c]
  OBVIOUS
<1>7. Within(p, c) /\ loot'[p] = Idle
  BY <1>1, <1>2 DEF Within, Typed
<1>8. PICK t : t = IF l.name THEN Write(s, c, e, p) ELSE s
  OBVIOUS
<1>9. Assign(t)
  BY <1>2, <1>8
<1>10. ASSUME t = s, e = "from" \/ k.from.cb = "closed"
       PROVE  NetInv' /\ Tidy
  <2>1. read_sock' = read_sock /\ Same /\ conn' = conn
    BY <1>4, <1>9, <1>10 DEF Assign, Same
  <2>2. Leaves(p, c)
    BY <1>2, <1>6, <1>7, <1>10, <2>1 DEF Leaves
  <2> QED BY <1>3, <1>7, <2>2, LeavesOk, LeavesTidy
<1>11. ~Alive(s, c, Other(e)) => Write(s, c, e, p) = s
  BY DEF Write
<1>12. ASSUME l.name, k[Other(e)].cb # "closed", k[Other(e)].in = << >>
       PROVE  /\ Turns(c) /\ Same /\ read_sock' = read_sock
              /\ conn'[c].peer = k.peer /\ conn'[c][e] = k[e]
              /\ conn'[c][Other(e)].proc = k[Other(e)].proc /\ conn'[c][Other(e)].cb = k[Other(e)].cb
              /\ conn'[c][Other(e)].in = <<p>>
  <2>1. Alive(s, c, Other(e)) /\ t = Write(s, c, e, p)
    BY <1>4, <1>5, <1>6, <1>8, <1>12 DEF Alive
  <2>2. PICK o : o = Other(e) /\ o \in Ends /\ Other(o) = e
    BY <1>3 DEF Ends, Other
  <2>3. t = [s EXCEPT !.conn[c][o].in = Append(@, p)]
    BY <1>4, <2>1, <2>2 DEF Write
  <2>4. /\ t.read = s.read /\ t.write = s.write /\ t.timer = s.timer
        /\ t.conn = [s.conn EXCEPT ![c] = [s.conn[c] EXCEPT ![o] = [s.conn[c][o] EXCEPT !.in = Append(@, p)]]]
    BY <1>4, <2>3 DEF Full
  <2>5. read_sock' = read_sock /\ Same
    BY <1>4, <1>9, <2>4 DEF Assign, Same
  <2>6. conn' = [conn EXCEPT ![c] = [conn[c] EXCEPT ![o] = [conn[c][o] EXCEPT !.in = Append(@, p)]]]
    BY <1>4, <1>9, <2>4 DEF Assign
  <2>7. PICK m : m = Append(conn[c][o].in, p)
    OBVIOUS
  <2>8. Sent(c, o, m)
    BY <1>1, <1>5, <2>2, <2>6, <2>7, SentIs
  <2>9. m = <<p>>
    BY <1>6, <1>12, <2>2, <2>7, Mails
  <2> QED BY <1>6, <2>2, <2>5, <2>8, <2>9 DEF Sent
<1>13. CASE l.cb = "synack"
  <2>1. e = "from" /\ l.name /\ k.from.cb = "ack" /\ k.to.in = << >> /\ k.to.cb \in {"syn", "closed"}
    BY <1>1, <1>2, <1>4, <1>6, <1>13 DEF Looting
  <2>2. CASE k.to.cb = "closed"
    <3>1. ~Alive(s, c, Other(e))
      BY <1>4, <1>6, <2>1, <2>2 DEF Alive, Other
    <3> QED BY <1>8, <1>10, <1>11, <2>1, <3>1
  <2>3. CASE k.to.cb = "syn"
    <3>1. k[Other(e)] = k.to
      BY <2>1 DEF Other
    <3>2. /\ Turns(c) /\ Same /\ read_sock' = read_sock
          /\ conn'[c].peer = k.peer /\ conn'[c][e] = k[e]
          /\ conn'[c][Other(e)].proc = k[Other(e)].proc /\ conn'[c][Other(e)].cb = k[Other(e)].cb
          /\ conn'[c][Other(e)].in = <<p>>
      BY <1>12, <2>1, <2>3, <3>1
    <3>3. AnswersFrom(p, c)
      BY <1>5, <1>6, <1>7, <2>1, <2>3, <3>2 DEF AnswersFrom, Other
    <3> QED BY <1>3, <1>7, <3>3, AnswersFromOk, AnswersTidy
  <2> QED BY <2>1, <2>2, <2>3
<1>14. CASE l.cb = "ack"
  <2>1. e = "from" /\ ~l.name
    BY <1>1, <1>2, <1>4, <1>14 DEF Looting
  <2> QED BY <1>8, <1>10, <2>1
<1>15. CASE l.cb = "syn"
  <2>1. /\ e = "to" /\ l.name /\ k.to.cb = "read"
        /\ k.from.cb = "closed" \/ (k.from.cb = "ack" /\ k.from.in = << >>)
    BY <1>1, <1>2, <1>4, <1>6, <1>15 DEF Looting
  <2>2. CASE k.from.cb = "closed"
    <3>1. ~Alive(s, c, Other(e))
      BY <1>4, <1>6, <2>1, <2>2 DEF Alive, Other
    <3> QED BY <1>8, <1>10, <1>11, <2>2, <2>1, <3>1
  <2>3. CASE k.from.cb = "ack" /\ k.from.in = << >>
    <3>1. k[Other(e)] = k.from
      BY <2>1 DEF Other
    <3>2. /\ Turns(c) /\ Same /\ read_sock' = read_sock
          /\ conn'[c].peer = k.peer /\ conn'[c][e] = k[e]
          /\ conn'[c][Other(e)].proc = k[Other(e)].proc /\ conn'[c][Other(e)].cb = k[Other(e)].cb
          /\ conn'[c][Other(e)].in = <<p>>
      BY <1>12, <2>1, <2>3, <3>1
    <3>3. AnswersTo(p, c)
      BY <1>5, <1>6, <1>7, <2>1, <2>3, <3>2 DEF AnswersTo, Other
    <3> QED BY <1>3, <1>7, <3>3, AnswersToOk, AnswersTidy
  <2> QED BY <2>1, <2>2, <2>3
<1>16. l.cb \notin {"read", "send_err"}
  BY <1>1, <1>2, <1>4 DEF Looting
<1> QED BY <1>1, <1>13, <1>14, <1>15, <1>16 DEF Loot, Watching

LEMMA AgainOk ==
  ASSUME NetInv, NEW p \in Proc, Again(p)
  PROVE  NetInv' /\ Tidy
<1>1. Rest /\ loot[p] # Idle
  BY DEF Again, Rest
<1>2. PICK l, c, e : l = loot[p] /\ c = l.conn /\ e = l.end
  OBVIOUS
<1>3. Typed /\ Looting(p) /\ l \in Loot /\ c \in Conn /\ e \in Ends
  BY <1>1, <1>2 DEF NetInv, Typed, Loot
<1>4. CASE /\ Alive(State, c, e) /\ conn[c][e].in # << >>
           /\ Turn(p, l, Pop(State, c, e), Head(conn[c][e].in))
  <2>1. PICK s, what : s = Pop(State, c, e) /\ what = Head(conn[c][e].in)
    OBVIOUS
  <2>2. PICK t : t = Call(l.cb, s, p, l.peer, c, e, what)
    OBVIOUS
  <2>3. Turned(p, l, t, what)
    BY <1>2, <1>4, <2>1, <2>2 DEF Turn, Turned
  <2>4. PICK k : k = conn[c]
    OBVIOUS
  <2>5. c \in DOMAIN conn /\ k[e].cb # "closed" /\ k[e].proc = p
    BY <1>1, <1>2, <1>3, <1>4, <2>4 DEF Looting, Alive, State
  <2>6. PICK x : Got(s, c, e, x) /\ x.in = Tail(conn[c][e].in)
    BY <1>3, <1>4, <2>1, <2>5, GotPop
  <2>7. Tells(c, e, x, what)
    BY <1>4, <2>1, <2>6 DEF Tells
  <2>8. Called(p, l, c, e)
    <3>1. l.cb \in {"synack", "ack", "syn"}
      BY <1>1, <1>2, <1>3, <1>4 DEF Looting, Loot, Watching
    <3>2. CASE l.cb = "synack"
      <4>1. e = "from" /\ k.peer = l.peer /\ k.from.cb = "ack" /\ k.to.in = << >> /\ k.to.cb \in {"syn", "closed"}
        BY <1>1, <1>2, <1>3, <1>4, <2>4, <3>2 DEF Looting
      <4> QED BY <1>1, <1>2, <1>3, <2>4, <2>5, <3>2, <4>1 DEF Called
    <3>3. CASE l.cb = "ack"
      <4>1. e = "from" /\ k.peer = l.peer /\ k.from.cb = "send_err"
        BY <1>1, <1>2, <1>3, <1>4, <2>4, <3>3 DEF Looting
      <4> QED BY <1>1, <1>2, <1>3, <2>4, <2>5, <3>3, <4>1 DEF Called
    <3>4. CASE l.cb = "syn"
      <4>1. e = "to" /\ k.to.cb = "read"
        BY <1>1, <1>2, <1>3, <1>4, <2>4, <3>4 DEF Looting
      <4> QED BY <1>1, <1>2, <1>3, <2>4, <2>5, <3>4, <4>1 DEF Called
    <3> QED BY <3>1, <3>2, <3>3, <3>4
  <2>9. loot[p] # Idle => loot[p].conn = c
    BY <1>2
  <2> QED BY <1>1, <1>3, <2>2, <2>3, <2>6, <2>7, <2>8, <2>9, CallOk
<1>5. CASE ~Alive(State, c, e) /\ Turn(p, l, State, Fin)
  BY <1>1, <1>2, <1>5, EndedOk
<1>6. CASE /\ Alive(State, c, e) /\ conn[c][e].in = << >>
           /\ loot' = [loot EXCEPT ![p] = Idle]
           /\ Assign(IF l.name THEN Write(State, c, e, p) ELSE State)
  BY <1>1, <1>2, <1>6, EagainOk
<1> QED BY <1>2, <1>4, <1>5, <1>6 DEF Again

LEMMA AcceptOk ==
  ASSUME NetInv, NEW p \in Proc, NEW c \in Conn, cb_accept(p, c)
  PROVE  NetInv' /\ Tidy
<1>1. /\ loot[p] = Idle /\ c \in DOMAIN conn /\ conn[c].to.proc = p /\ conn[c].to.cb = "backlog"
      /\ Rest /\ loot' = loot
  BY DEF cb_accept, Rest
<1>2. Typed /\ conn \in [DOMAIN conn -> Connection] /\ DOMAIN conn \subseteq Conn
  BY DEF NetInv, Typed
<1>3. PICK e, o, cb : e = "to" /\ o = "from" /\ cb = "syn"
  OBVIOUS
<1>4. e \in Ends /\ o \in Ends /\ Other(e) = o /\ Other(o) = e /\ cb \in Callbacks
  BY <1>3 DEF Ends, Other, Callbacks, Watching
<1>5. PICK s : s = State
  OBVIOUS
<1>6. Full(s) /\ s.read = read_sock /\ s.write = write_sock /\ s.timer = timer /\ s.conn = conn
  BY <1>5, StateFull
<1>7. PICK u : u = Read(s, c, e, cb)
  OBVIOUS
<1>8. PICK t : t = Write(u, c, e, p)
  OBVIOUS
<1>9. Assign(t)
  BY <1>3, <1>5, <1>7, <1>8 DEF cb_accept
<1>10. PICK k, x, y : k = conn[c] /\ x = conn[c][e] /\ y = [x EXCEPT !.cb = cb]
  OBVIOUS
<1>11. x \in End /\ x.proc = p /\ k \in Connection /\ k.from \in End
  BY <1>1, <1>2, <1>3, <1>10 DEF Connection
<1>12. y \in End /\ y.cb = "syn" /\ y.in = x.in /\ y.proc = p
  BY <1>3, <1>4, <1>10, <1>11, EndWith
<1>13. /\ Full(u) /\ u.read = s.read /\ u.write = s.write /\ u.timer = s.timer
       /\ u.conn = [conn EXCEPT ![c] = [conn[c] EXCEPT ![e] = y]]
  <2>1. Alive(s, c, e)
    BY <1>1, <1>3, <1>6 DEF Alive
  <2>2. u = [s EXCEPT !.conn[c][e].cb = cb]
    BY <1>7, <2>1 DEF Read
  <2> QED BY <1>6, <1>10, <2>2 DEF Full
<1>14. PICK g : g = u.conn
  OBVIOUS
<1>15. Put(conn, g, c, e, y)
  BY <1>1, <1>2, <1>4, <1>12, <1>13, <1>14, PutIs
<1>16. g \in [DOMAIN g -> Connection] /\ c \in DOMAIN g /\ DOMAIN g = DOMAIN conn
  BY <1>1, <1>15 DEF Put
<1>17. Alive(u, c, e) /\ (Alive(u, c, o) <=> k.from.cb # "closed")
  BY <1>3, <1>4, <1>10, <1>12, <1>14, <1>15, <1>16 DEF Alive, Put
<1>18. g[c][o] = k.from
  BY <1>3, <1>4, <1>10, <1>15 DEF Put
<1>19. PICK m, z : m = Append(k.from.in, p) /\ z = [k.from EXCEPT !.in = m]
  OBVIOUS
<1>20. z \in End /\ z.proc = k.from.proc /\ z.cb = k.from.cb /\ z.in = m
  <2>1. m \in Seq(Proc \cup {Fin})
    BY <1>11, <1>19, InSeq DEF End
  <2> QED BY <1>11, <1>19, <2>1, EndWith
<1>21. /\ t.read = u.read /\ t.write = u.write /\ t.timer = u.timer
       /\ k.from.cb = "closed" => t.conn = g
       /\ k.from.cb # "closed" => t.conn = [g EXCEPT ![c] = [g[c] EXCEPT ![o] = z]]
  <2>1. CASE k.from.cb = "closed"
    <3>1. t = u
      BY <1>4, <1>8, <1>17, <2>1 DEF Write
    <3> QED BY <1>14, <2>1, <3>1
  <2>2. CASE k.from.cb # "closed"
    <3>1. t = [u EXCEPT !.conn[c][o].in = Append(@, p)]
      BY <1>4, <1>8, <1>17, <2>2 DEF Write
    <3>2. /\ t.read = u.read /\ t.write = u.write /\ t.timer = u.timer
          /\ t.conn = [g EXCEPT ![c] = [g[c] EXCEPT ![o] = [g[c][o] EXCEPT !.in = Append(@, p)]]]
      BY <1>13, <1>14, <3>1 DEF Full
    <3> QED BY <1>18, <1>19, <2>2, <3>2
  <2> QED BY <2>1, <2>2
<1>22. PICK w, h : w = (IF k.from.cb = "closed" THEN k.from ELSE z) /\ h = conn'
  OBVIOUS
<1>23. h = t.conn /\ read_sock' = read_sock /\ Same
  BY <1>6, <1>9, <1>13, <1>21, <1>22 DEF Assign, Same
<1>24. /\ DOMAIN h = DOMAIN conn /\ h \in [DOMAIN h -> Connection]
       /\ h[c].peer = k.peer /\ h[c][o] = w /\ h[c][e] = y
       /\ \A d \in DOMAIN conn \ {c} : h[d] = conn[d]
  <2>1. CASE k.from.cb = "closed"
    BY <1>4, <1>10, <1>15, <1>18, <1>21, <1>22, <1>23, <2>1 DEF Put
  <2>2. CASE k.from.cb # "closed"
    <3>1. Put(g, h, c, o, z)
      BY <1>4, <1>16, <1>20, <1>21, <1>23, <2>2, PutIs
    <3> QED BY <1>4, <1>10, <1>15, <1>22, <2>2, <3>1 DEF Put
  <2> QED BY <2>1, <2>2
<1>25. Turns(c)
  BY <1>1, <1>2, <1>22, <1>24 DEF Turns, ConnTyped, Only
<1>26. /\ w.proc = k.from.proc /\ w.cb = k.from.cb
       /\ w.in = IF k.from.cb = "closed" THEN k.from.in ELSE Append(k.from.in, p)
  BY <1>19, <1>20, <1>22
<1>27. Accepts(p, c)
  <2>1. conn'[c].peer = k.peer /\ conn'[c].from = w /\ conn'[c].to = y
    BY <1>3, <1>22, <1>24
  <2>2. y.proc = p /\ y.cb = "syn" /\ y.in = k.to.in
    BY <1>3, <1>10, <1>12
  <2>3. k.to.proc = p /\ k.to.cb = "backlog" /\ read_sock' = read_sock /\ Same
    BY <1>1, <1>10, <1>23
  <2> QED BY <1>1, <1>10, <1>25, <1>26, <2>1, <2>2, <2>3 DEF Accepts
<1> QED BY <1>1, <1>27, AcceptsOk, AcceptsTidy

LEMMA ConnectedOk ==
  ASSUME NetInv, NEW p \in Proc, NEW c \in Conn, Connected(p, c)
  PROVE  NetInv' /\ Tidy
<1>1. /\ loot[p] = Idle /\ c \in DOMAIN conn /\ conn[c].from.proc = p /\ conn[c].from.cb = "connect"
      /\ Rest /\ loot' = loot /\ Same /\ read_sock' = read_sock
  BY DEF Connected, Connecting, Rest, Same
<1>2. conn \in [DOMAIN conn -> Connection] /\ DOMAIN conn \subseteq Conn
  BY DEF NetInv, Typed
<1>3. PICK r \in Proc :
        conn' = [conn EXCEPT ![c].from.cb = "synack", ![c].to = [proc |-> r, cb |-> "backlog", in |-> << >>]]
  BY DEF Connected, Listener
<1>4. PICK k, n, x, y : /\ k = conn[c] /\ x = [k.from EXCEPT !.cb = "synack"]
                        /\ y = [proc |-> r, cb |-> "backlog", in |-> << >>] /\ n = [k EXCEPT !.from = x, !.to = y]
  OBVIOUS
<1>5. k \in Connection /\ k.from \in End
  BY <1>1, <1>2, <1>4 DEF Connection
<1>6. x \in End /\ x.cb = "synack" /\ x.in = k.from.in /\ x.proc = p
  <2>1. PICK cb : cb = "synack"
    OBVIOUS
  <2>2. cb \in Callbacks
    BY <2>1 DEF Callbacks, Watching
  <2> QED BY <1>1, <1>4, <1>5, <2>1, <2>2, EndWith
<1>7. y \in End
  <2>1. "backlog" \in Callbacks /\ << >> \in Seq(Proc \cup {Fin})
    BY DEF Callbacks
  <2> QED BY <1>4, <2>1 DEF End
<1>8. n \in Connection /\ n.from = x /\ n.to = y /\ n.peer = k.peer
  BY <1>4, <1>5, <1>6, <1>7 DEF Connection
<1>9. conn' = [conn EXCEPT ![c] = n]
  BY <1>2, <1>3, <1>4
<1>10. Turns(c) /\ conn'[c] = n
  BY <1>1, <1>2, <1>8, <1>9 DEF Turns, ConnTyped, Only
<1>11. Connects(p, c, r)
  BY <1>1, <1>4, <1>6, <1>8, <1>10 DEF Connects
<1> QED BY <1>1, <1>11, ConnectsOk, ConnectsTidy

LEMMA ConnectFailedOk ==
  ASSUME NetInv, NEW p \in Proc, NEW c \in Conn, ConnectFailed(p, c)
  PROVE  NetInv' /\ Tidy
<1>1. /\ loot[p] = Idle /\ c \in DOMAIN conn /\ conn[c].from.proc = p /\ conn[c].from.cb = "connect"
      /\ Rest /\ loot' = loot
  BY DEF ConnectFailed, Connecting, Rest
<1>2. PICK q, e, s, x : q = conn[c].peer /\ e = "from" /\ s = State /\ x = conn[c][e]
  OBVIOUS
<1>3. Typed /\ q \in Peers(p) /\ q \in Proc /\ e \in Ends
  BY <1>1, <1>2 DEF NetInv, Good, Roles, Ends, Peers
<1>4. Got(s, c, e, x)
  BY <1>1, <1>2, <1>3, GotState
<1>5. PICK t : t = reconnect_addr(close(s, c, "from"), p, q, Busy)
  OBVIOUS
<1>6. Assign(t)
  BY <1>2, <1>5 DEF ConnectFailed
<1>7. Fails(t, p, q, c, Busy)
  BY <1>1, <1>2, <1>3, <1>4, <1>5, FailsIs
<1>8. write_sock[p][q] = Busy
  <2>1. c \in Tries(p, q)
    BY <1>1, <1>2 DEF Tries, Tried, Attempting
  <2> QED BY <1>3, <2>1 DEF NetInv, Trying
<1>9. Within(p, c) /\ loot'[p] = Idle
  BY <1>1, <1>3 DEF Within, Typed
<1>10. FromCloses(p, c)
  BY <1>1, <1>2, <1>6, <1>7, <1>8, <1>9 DEF FromCloses, Fails
<1> QED BY <1>1, <1>9, <1>10, FromClosesOk, FromClosesTidy

LEMMA NextOk == NetInv /\ [Next]_vars => NetInv' /\ Tidy
<1> SUFFICES ASSUME NetInv, [Next]_vars PROVE NetInv' /\ Tidy
  OBVIOUS
<1>1. ASSUME NEW p \in Proc, NEW pt \in Port, Bind(p, pt) PROVE NetInv' /\ Tidy
  BY <1>1, BindOk
<1>2. ASSUME NEW p \in Proc, Publish(p) PROVE NetInv' /\ Tidy
  BY <1>2, PublishOk
<1>3. ASSUME NEW p \in Proc, Start(p) PROVE NetInv' /\ Tidy
  BY <1>3, StartOk
<1>4. ASSUME NEW p \in Proc, Die(p) PROVE NetInv' /\ Tidy
  BY <1>4, DieOk, DieTidy
<1>5. ASSUME NEW p \in Proc, Again(p) PROVE NetInv' /\ Tidy
  BY <1>5, AgainOk
<1>6. ASSUME NEW p \in Proc, NEW c \in Conn, cb_accept(p, c) PROVE NetInv' /\ Tidy
  BY <1>6, AcceptOk
<1>7. ASSUME NEW p \in Proc, NEW c \in Conn, Connected(p, c) PROVE NetInv' /\ Tidy
  BY <1>7, ConnectedOk
<1>8. ASSUME NEW p \in Proc, NEW c \in Conn, ConnectFailed(p, c) PROVE NetInv' /\ Tidy
  BY <1>8, ConnectFailedOk
<1>9. ASSUME NEW p \in Proc, NEW c \in Conn, NEW e \in Ends, Recv(p, c, e) PROVE NetInv' /\ Tidy
  BY <1>9, RecvOk
<1>10. ASSUME NEW p \in Proc, NEW c \in Conn, NEW e \in Ends, CloseEvent(p, c, e) PROVE NetInv' /\ Tidy
  BY <1>10, CloseEventOk
<1>11. ASSUME NEW p \in Proc, NEW q \in Peers(p), cb_connect_timeout(p, q) PROVE NetInv' /\ Tidy
  BY <1>11, TimeoutOk
<1>12. CASE UNCHANGED vars
  <2>1. Typed'
    BY <1>12 DEF NetInv, Typed, vars
  <2>2. \A c \in DOMAIN conn' : Good(c)'
    <3> TAKE c \in DOMAIN conn'
    <3>1. Good(c)
      BY <1>12 DEF NetInv, vars
    <3>2. Roles(conn[c])' /\ Mail(conn[c])'
      BY <1>12, <3>1 DEF Good, vars
    <3>3. Answering(c)' <=> Answering(c)
      BY <1>12 DEF Answering, vars
    <3>4. Stage(c)'
      BY <1>12, <3>1, <3>3 DEF Good, Stage, vars
    <3>5. Bound(c)' /\ Sockets(c)'
      BY <1>12, <3>1 DEF Good, Bound, Sockets, vars
    <3> QED BY <3>2, <3>4, <3>5 DEF Good
  <2>3. \A r \in Proc : Looting(r)'
    <3> TAKE r \in Proc
    <3>1. Looting(r)
      BY DEF NetInv
    <3>2. PICK d, e : d = loot[r].conn /\ e = loot[r].end
      OBVIOUS
    <3>3. Alive(State, d, e)' <=> Alive(State, d, e)
      BY <1>12 DEF Alive, State, vars
    <3> QED BY <1>12, <3>1, <3>2, <3>3 DEF Looting, vars
  <2>4. \A a, b \in Proc : Trying(a, b)'
    <3> TAKE a \in Proc, b \in Proc
    <3>1. Trying(a, b)
      BY DEF NetInv
    <3>2. Tries(a, b)' = Tries(a, b)
      BY <1>12 DEF Tries, Tried, vars
    <3> QED BY <1>12, <3>1, <3>2 DEF Trying, vars
  <2>5. Tidy
    BY <1>12 DEF Tidy, Dangling, Alive, State, vars
  <2> QED BY <2>1, <2>2, <2>3, <2>4, <2>5 DEF NetInv
<1>13. CASE Next
  <2>1. PICK p \in Proc :
          \/ \E pt \in Port : Bind(p, pt)
          \/ Publish(p) \/ Start(p) \/ Die(p) \/ Again(p)
          \/ \E c \in Conn : \/ cb_accept(p, c) \/ Connected(p, c) \/ ConnectFailed(p, c)
                              \/ \E e \in Ends : Recv(p, c, e) \/ CloseEvent(p, c, e)
          \/ \E q \in Peers(p) : cb_connect_timeout(p, q)
    BY <1>13 DEF Next
  <2> QED BY <2>1, <1>1, <1>2, <1>3, <1>4, <1>5, <1>6, <1>7, <1>8, <1>9, <1>10, <1>11
<1> QED BY <1>12, <1>13

(* What every state satisfies, in which the rest follows: where each        *)
(* handshake is, what is in the mail of its ends, which sockets they are,   *)
(* and what every network thread has read of them.                          *)
THEOREM HandshakesSound == Spec => []NetInv
<1>1. NetInv /\ [Next]_vars => NetInv'
  BY NextOk
<1> QED BY <1>1, InitOk, PTL DEF Spec
-----------------------------------------------------------------------------

(* A process that is up has for each of the others one attempt under way,   *)
(* or one timer that will make one, or a socket, whatever calls of          *)
(* reconnect_addr and connect_addr cross: never two, and never none.        *)
THEOREM AlwaysOneAttempt == Spec => []OneAttempt
<1>1. NetInv => OneAttempt
  <2> SUFFICES ASSUME NetInv, NEW p \in Proc, status[p] = "up", NEW q \in Peers(p)
               PROVE  LET tries == {c \in DOMAIN conn : /\ conn[c].from.proc = p /\ conn[c].peer = q
                                                        /\ conn[c].from.cb \in {"connect", "synack", "ack"}}
                      IN  /\ timer[p][q] = (IF write_sock[p][q] = None THEN 1 ELSE 0)
                          /\ Cardinality(tries) = (IF write_sock[p][q] = Busy THEN 1 ELSE 0)
    BY DEF OneAttempt
  <2> DEFINE tries == {c \in DOMAIN conn : /\ conn[c].from.proc = p /\ conn[c].peer = q
                                           /\ conn[c].from.cb \in {"connect", "synack", "ack"}}
  <2>1. q \in Proc /\ q # p /\ Trying(p, q) /\ DOMAIN conn \subseteq Conn
    BY DEF NetInv, Typed, Peers
  <2>2. tries = Tries(p, q)
    BY <2>1 DEF Tries, Tried, Attempting
  <2> HIDE DEF tries
  <2>3. timer[p][q] = IF write_sock[p][q] = None THEN 1 ELSE 0
    BY <2>1 DEF Trying
  <2>4. CASE write_sock[p][q] = Busy
    <3>1. PICK c : tries = {c}
      BY <2>1, <2>2, <2>4 DEF Trying
    <3>2. Cardinality(tries) = 1
      BY <3>1, FS_Singleton
    <3> QED BY <2>3, <2>4, <3>2 DEF tries
  <2>5. CASE write_sock[p][q] # Busy
    <3>1. tries = {}
      BY <2>1, <2>2, <2>5 DEF Trying
    <3>2. Cardinality(tries) = 0
      BY <3>1, FS_EmptySet
    <3> QED BY <2>3, <2>5, <3>2 DEF tries
  <2> QED BY <2>4, <2>5
<1> QED BY <1>1, HandshakesSound, PTL

LEMMA MailLen ==
  ASSUME NEW x, NEW m \in {<< >>, <<Fin>>, <<x>>, <<x, Fin>>}
  PROVE  Len(m) <= 2
<1>1. Len(<< >>) = 0 /\ Len(<<Fin>>) = 1 /\ Len(<<x>>) = 1 /\ Len(<<x, Fin>>) = 2
  OBVIOUS
<1>2. CASE m = << >>
  BY <1>1, <1>2
<1>3. CASE m = <<Fin>>
  BY <1>1, <1>3
<1>4. CASE m = <<x>>
  BY <1>1, <1>4
<1>5. CASE m = <<x, Fin>>
  BY <1>1, <1>5
<1> QED BY <1>2, <1>3, <1>4, <1>5

LEMMA TypesHold == NetInv => TypeOK
<1> SUFFICES ASSUME NetInv PROVE TypeOK
  OBVIOUS
<1>1. Typed
  BY DEF NetInv
<1>2. ASSUME NEW c \in DOMAIN conn
      PROVE  /\ conn[c] \in [from : End, to : End, peer : Proc, port : Port]
             /\ \A e \in Ends : /\ Len(conn[c][e].in) <= 2
                                /\ conn[c][e].cb = "closed" => conn[c][e].in = << >>
  <2>1. PICK k : k = conn[c]
    OBVIOUS
  <2>2. k \in Connection /\ Mail(k)
    BY <1>1, <2>1 DEF NetInv, Typed, Good
  <2>3. /\ k.from.in \in {<< >>, <<Fin>>, <<k.to.proc>>, <<k.to.proc, Fin>>}
        /\ k.to.in \in {<< >>, <<Fin>>, <<k.from.proc>>, <<k.from.proc, Fin>>}
    BY <2>2 DEF Mail
  <2>4. Len(k.from.in) <= 2
    BY <2>3, MailLen
  <2>5. Len(k.to.in) <= 2
    BY <2>3, MailLen
  <2>6. /\ k.from.cb = "closed" => k.from.in = << >>
        /\ k.to.cb = "closed" => k.to.in = << >>
    BY <2>2 DEF Mail
  <2> QED BY <2>1, <2>2, <2>4, <2>5, <2>6 DEF Connection, Ends
<1>3. timer \in [Proc -> [Proc -> 0..1]]
  <2>1. \A p, q \in Proc : timer[p][q] \in 0..1
    BY DEF NetInv, Trying
  <2>2. timer \in [Proc -> [Proc -> Nat]]
    BY <1>1 DEF Typed
  <2> QED BY <2>1, <2>2
<1>4. \A p \in Proc : loot[p] # Idle =>
        loot[p] \in [conn : Conn, end : Ends, cb : Watching, peer : Proc, name : BOOLEAN]
  BY <1>1 DEF Typed, Loot
<1> QED BY <1>1, <1>2, <1>3, <1>4 DEF TypeOK, Typed

(* What p writes to q arrives at q and is read as p's, and no link is left  *)
(* half bound between two processes that live, whichever of them died and   *)
(* came back on whichever port while the names were told.                   *)
THEOREM LinksAgree == Spec => []EndsAgree
<1>1. NetInv => SameSocket
  <2> SUFFICES ASSUME NetInv, NEW p \in Proc, NEW q \in Proc, NEW c, c = write_sock[p][q], Holds(p, c, "from")
               PROVE  /\ conn[c].to.proc = q
                      /\ conn[c].to.cb # "closed" => read_sock[q][p] = c
    BY DEF SameSocket
  <2>1. c \in DOMAIN conn /\ conn[c].from.cb # "closed"
    BY DEF Holds, Alive, State
  <2>2. Good(c)
    BY <2>1 DEF NetInv
  <2>3. conn[c].from.proc = p /\ conn[c].to.proc = q /\ conn[c].from.cb = "send_err"
    BY <2>1, <2>2 DEF Good, Sockets
  <2>4. conn[c].to.cb # "closed" => conn[c].to.cb = "read"
    BY <2>2, <2>3 DEF Good, Roles, Stage
  <2> QED BY <2>2, <2>3, <2>4 DEF Good, Bound
<1>2. NetInv => Answerable
  <2> SUFFICES ASSUME NetInv, NEW p \in Proc, NEW q \in Proc, NEW c, c = read_sock[p][q],
                      Holds(p, c, "to"), Alive(State, c, "from")
               PROVE  \/ write_sock[q][p] = c
                      \/ /\ write_sock[q][p] = Busy /\ conn[c].from.cb = "ack"
                         /\ \/ p \in {conn[c].from.in[i] : i \in DOMAIN conn[c].from.in}
                            \/ loot[p] # Idle /\ loot[p].conn = c /\ loot[p].name
    BY DEF Answerable
  <2>1. c \in DOMAIN conn /\ conn[c].from.cb # "closed" /\ conn[c].to.cb # "closed" /\ c \in Conn
    BY DEF Holds, Alive, State, NetInv, Typed
  <2>2. Good(c)
    BY <2>1 DEF NetInv
  <2>3. /\ conn[c].to.proc = p /\ conn[c].from.proc = q /\ conn[c].to.cb = "read"
        /\ conn[c].from.cb \in {"ack", "send_err"}
    BY <2>1, <2>2 DEF Good, Sockets
  <2>4. conn[c].peer = p
    BY <2>2, <2>3 DEF Good, Roles
  <2>5. CASE conn[c].from.cb = "send_err"
    BY <2>2, <2>3, <2>4, <2>5 DEF Good, Bound
  <2>6. CASE conn[c].from.cb = "ack"
    <3>1. write_sock[q][p] = Busy
      <4>1. c \in Tries(q, p)
        BY <2>1, <2>3, <2>4, <2>6 DEF Tries, Tried, Attempting
      <4> QED BY <4>1 DEF NetInv, Trying
    <3>2. conn[c].from.in = <<p>> \/ (loot[p] # Idle /\ loot[p].conn = c /\ loot[p].name)
      BY <2>2, <2>3, <2>6 DEF Good, Stage, Answering
    <3>3. conn[c].from.in = <<p>> => p \in {conn[c].from.in[i] : i \in DOMAIN conn[c].from.in}
      OBVIOUS
    <3> QED BY <2>6, <3>1, <3>2, <3>3
  <2> QED BY <2>3, <2>5, <2>6
<1> QED BY <1>1, <1>2, TypesHold, HandshakesSound, PTL DEF EndsAgree

(* A process is left with a closed socket only by a loot_read that goes on  *)
(* with the callback it began with: cb_read_syn or cb_read_ack, which bind  *)
(* the socket and, when they read its end in the same loot_read, close it   *)
(* and forget nothing.                                                      *)
THEOREM DanglesByLootOnly == Spec => DangleOnlyInLoot
<1>1. NetInv /\ [Next]_vars => Tidy
  BY NextOk
<1> QED BY <1>1, HandshakesSound, PTL DEF Spec, DangleOnlyInLoot, Tidy

=============================================================================
