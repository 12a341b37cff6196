----------------------------- MODULE NetSingle -----------------------------
(***************************************************************************)
(* The links between the processes of a site (common/netsingle.cpp over    *)
(* common/netio.cpp).  Every process listens on a port of its own, which   *)
(* it writes to the hosts file, and connects to each of the others: what p *)
(* writes to q goes over the connection p made (write_sock), what it reads *)
(* comes over the one q made (read_sock).  Before a connection is used the *)
(* ends tell each other their names:                                       *)
(*                                                                         *)
(*   acceptor                   initiator                                  *)
(*   cb_accept: name  ------->  cb_read_synack                             *)
(*   cb_read_syn      <-------  name                                       *)
(*   (read_sock), name ------>  cb_read_ack (write_sock)                   *)
(*                                                                         *)
(* Processes end and start again at any moment, on any port; nothing else  *)
(* breaks a connection of the local host.  The data written once a link is *)
(* bound is left out.  Connections have numbers of their own, where the    *)
(* kernel would use a descriptor that was closed again.                    *)
(***************************************************************************)
EXTENDS Integers, Sequences, FiniteSets, Functions

CONSTANTS
  Proc,        \* the processes, which are their names too
  Port,        \* 13000-17000
  MaxConn,     \* bounds: connections that exist at a time,
  MaxDeaths    \* ends of processes

Fin == "fin"     \* what a read that returns 0 or less tells, where else a name arrives

ASSUME NetAssumption == Fin \notin Proc /\ MaxConn \in Nat /\ MaxDeaths \in Nat

VARIABLES
  status,      \* of a process: it listens, writes its port, and then connects
  port,        \* the port a process listens on
  hosts,       \* the hosts file: the port last written for a name
  read_sock,   \* net::read_sock of p for q
  write_sock,  \* net::write_sock
  conn,        \* the connections that exist, with both their ends
  timer,       \* how many cb_connect_timeout are pending
  loot,        \* the loot_read a network thread is in
  deaths       \* counter, bounded

vars == <<status, port, hosts, read_sock, write_sock, conn, timer, loot, deaths>>

Conn == 1..MaxConn
None == -1     \* no socket
Busy == 0      \* write_sock while it connects

(* An end of a connection: its process, the callback set by theNet.Read,   *)
(* and what has arrived and was not read.                                  *)
Ends      == {"from", "to"}
Other(e)  == IF e = "from" THEN "to" ELSE "from"
Watching  == {"syn", "synack", "ack", "read", "send_err"}   \* cb_read_syn, ..., cb_send_err
Callbacks == Watching \cup {"connect", "backlog", "closed"}
End       == [proc : Proc, cb : Callbacks, in : Seq(Proc \cup {Fin})]
Idle      == << >>

TypeOK ==
  /\ status \in [Proc -> {"down", "bound", "listed", "up"}]
  /\ port \in [Proc -> Port \cup {None}] /\ hosts \in [Proc -> Port \cup {None}]
  /\ read_sock \in [Proc -> [Proc -> Conn \cup {None}]]
  /\ write_sock \in [Proc -> [Proc -> Conn \cup {None, Busy}]]
  /\ DOMAIN conn \subseteq Conn
  /\ \A c \in DOMAIN conn :
       /\ conn[c] \in [from : End, to : End, peer : Proc, port : Port]
       /\ \A e \in Ends : /\ Len(conn[c][e].in) <= 2
                          /\ conn[c][e].cb = "closed" => conn[c][e].in = << >>
  /\ timer \in [Proc -> [Proc -> 0..1]]
  /\ \A p \in Proc : loot[p] # Idle =>
       loot[p] \in [conn : Conn, end : Ends, cb : Watching, peer : Proc, name : BOOLEAN]
  /\ deaths \in 0..MaxDeaths

Init ==
  /\ status = [p \in Proc |-> "down"]
  /\ port = [p \in Proc |-> None] /\ hosts = [p \in Proc |-> None]
  /\ read_sock = [p \in Proc |-> [q \in Proc |-> None]]
  /\ write_sock = [p \in Proc |-> [q \in Proc |-> None]]
  /\ conn = << >>
  /\ timer = [p \in Proc |-> [q \in Proc |-> 0]]
  /\ loot = [p \in Proc |-> Idle]
  /\ deaths = 0

Running(p)   == status[p] # "down"
Listener(pt) == {p \in Proc : Running(p) /\ port[p] = pt}
Peers(p)     == Proc \ {p}       \* single_map

-----------------------------------------------------------------------------
(* What a process changes: its own sockets, timers and the connections.    *)

State == [read |-> read_sock, write |-> write_sock, timer |-> timer, conn |-> conn, name |-> FALSE]

Alive(s, c, e) == c \in DOMAIN s.conn /\ s.conn[c][e].cb # "closed"
Named(s, p, c) == \E q \in Proc : c \in {s.read[p][q], s.write[p][q]}

(* A connection is gone when both ends are closed.                         *)
Settled(f) == [c \in {d \in DOMAIN f : \E e \in Ends : f[d][e].cb # "closed"} |-> f[c]]

Closed(f, c, e) ==
  LET gone  == [f[c][e] EXCEPT !.cb = "closed", !.in = << >>]
      other == f[c][Other(e)]
      told  == IF other.cb = "closed" THEN other ELSE [other EXCEPT !.in = Append(@, Fin)]
  IN  Settled([f EXCEPT ![c][e] = gone, ![c][Other(e)] = told])

close(s, c, e) ==
  IF Alive(s, c, e) THEN [s EXCEPT !.conn = Closed(@, c, e)] ELSE s

Read(s, c, e, cb) ==       \* theNet.Read
  IF Alive(s, c, e) THEN [s EXCEPT !.conn[c][e].cb = cb] ELSE s

Write(s, c, e, p) ==       \* theNet.Write: the name arrives when the thread is back in epoll
  IF Alive(s, c, e) /\ Alive(s, c, Other(e)) THEN [s EXCEPT !.conn[c][Other(e)].in = Append(@, p)]
  ELSE s

(* reconnect_addr; of two calls for one attempt only the first starts the  *)
(* timer, for write_sock is not the old one any more.                      *)
reconnect_addr(s, p, q, old) ==
  IF s.write[p][q] = old THEN [s EXCEPT !.write[p][q] = None, !.timer[p][q] = @ + 1] ELSE s

(* connect_addr, for each of qs: the port is looked up now, the connection *)
(* made later.  A name with no port fails at once, and cb_connect tries    *)
(* again.                                                                  *)
Numbers(s) == {c \in Conn : /\ c \notin DOMAIN s.conn
                            /\ \A p \in Proc : ~Named(s, p, c) /\ (loot[p] # Idle => loot[p].conn # c)}
Fresh(s, qs) == Injection(qs, Numbers(s))

Attempt(p, q) == [from |-> [proc |-> p, cb |-> "connect", in |-> << >>],
                  to   |-> [proc |-> q, cb |-> "closed", in |-> << >>],
                  peer |-> q, port |-> hosts[q]]

connect_addr(s, p, qs) ==
  LET free == {q \in qs : s.write[p][q] = None}
      asks == {q \in free : hosts[q] # None}
      sock == CHOOSE f \in Fresh(s, qs) : TRUE
      made == {sock[q] : q \in asks}
  IN [s EXCEPT !.write[p] = [q \in Proc |-> IF q \in asks THEN Busy ELSE @[q]],
               !.timer[p] = [q \in Proc |-> IF q \in free \ asks THEN @[q] + 1 ELSE @[q]],
               !.conn = [c \in DOMAIN @ \cup made |->
                           IF c \in made THEN Attempt(p, CHOOSE q \in asks : sock[q] = c) ELSE @[c]]]

Assign(s) == read_sock' = s.read /\ write_sock' = s.write /\ timer' = s.timer /\ conn' = s.conn

-----------------------------------------------------------------------------
(* The callbacks of an end e of c, for the peer q: what is a name, or Fin  *)
(* for the end (a size of 0 or -1).  name is set when the own one is sent. *)

cb_read_syn_silent(s, p, c, e, what) ==
  IF what \notin Peers(p) \/ s.read[p][what] # None THEN close(s, c, e)
  ELSE [Read(s, c, e, "read") EXCEPT !.read[p][what] = c]
cb_read_syn(s, p, c, e, what) ==
  IF what \notin Peers(p) \/ s.read[p][what] # None THEN close(s, c, e)
  ELSE [Read(s, c, e, "read") EXCEPT !.read[p][what] = c, !.name = TRUE]

cb_read_synack_final(s, p, q, c, e, what) ==
  IF what # q THEN close(s, c, e) ELSE [Read(s, c, e, "ack") EXCEPT !.name = TRUE]
cb_read_synack(s, p, q, c, e, what) ==
  IF what # q THEN reconnect_addr(close(s, c, e), p, q, Busy)
  ELSE [Read(s, c, e, "ack") EXCEPT !.name = TRUE]

cb_read_ack(s, p, q, c, e, what) ==
  IF what # q THEN reconnect_addr(close(s, c, e), p, q, Busy)
  ELSE IF s.write[p][q] # Busy THEN close(s, c, e)
  ELSE [Read(s, c, e, "send_err") EXCEPT !.write[p][q] = c]

cb_send_err_early(s, p, q, c, e) == reconnect_addr(close(s, c, e), p, q, Busy)
cb_send_err(s, p, q, c, e) == reconnect_addr(close(s, c, e), p, q, c)

cb_read(s, p, q, c, e) ==
  close([s EXCEPT !.read[p][q] = IF @ = c THEN None ELSE @], c, e)

Call(cb, s, p, q, c, e, what) ==
  CASE cb = "syn"      -> cb_read_syn(s, p, c, e, what)
    [] cb = "synack"   -> cb_read_synack(s, p, q, c, e, what)
    [] cb = "ack"      -> cb_read_ack(s, p, q, c, e, what)
    [] cb = "send_err" -> cb_send_err(s, p, q, c, e)
    [] cb = "read"     -> cb_read(s, p, q, c, e)

PeerOf(c, e) == IF e = "from" THEN conn[c].peer ELSE conn[c].from.proc

-----------------------------------------------------------------------------
(* The network thread.                                                     *)

(* loot_read reads until there is nothing left, and calls the callback it  *)
(* began with, even when that one has set another or closed the socket.    *)
Turn(p, l, s, what) ==
  LET t == Call(l.cb, s, p, l.peer, l.conn, l.end, what)
  IN  /\ loot' = [loot EXCEPT ![p] = IF what = Fin THEN Idle ELSE [l EXCEPT !.name = t.name]]
      /\ Assign(t)

Pop(s, c, e) == [s EXCEPT !.conn[c][e].in = Tail(@)]

Recv(p, c, e) ==
  /\ loot[p] = Idle /\ c \in DOMAIN conn
  /\ conn[c][e].proc = p /\ conn[c][e].cb \in Watching /\ conn[c][e].in # << >>
  /\ Turn(p, [conn |-> c, end |-> e, cb |-> conn[c][e].cb, peer |-> PeerOf(c, e), name |-> FALSE],
          Pop(State, c, e), Head(conn[c][e].in))
  /\ UNCHANGED <<status, port, hosts, deaths>>

Again(p) ==
  /\ loot[p] # Idle
  /\ LET l == loot[p] IN
     \/ /\ Alive(State, l.conn, l.end) /\ conn[l.conn][l.end].in # << >>
        /\ Turn(p, l, Pop(State, l.conn, l.end), Head(conn[l.conn][l.end].in))
     \/ /\ ~Alive(State, l.conn, l.end)                  \* EBADF
        /\ Turn(p, l, State, Fin)
     \/ /\ Alive(State, l.conn, l.end) /\ conn[l.conn][l.end].in = << >>    \* EAGAIN
        /\ loot' = [loot EXCEPT ![p] = Idle]
        /\ Assign(IF l.name THEN Write(State, l.conn, l.end, p) ELSE State)
  /\ UNCHANGED <<status, port, hosts, deaths>>

(* EPOLLHUP or EPOLLERR: the other end was closed with something unread;   *)
(* what is unread here is not read any more.                               *)
CloseEvent(p, c, e) ==
  /\ loot[p] = Idle /\ c \in DOMAIN conn
  /\ conn[c][e].proc = p /\ conn[c][e].cb \in Watching /\ conn[c][Other(e)].cb = "closed"
  /\ Assign(Call(conn[c][e].cb, State, p, PeerOf(c, e), c, e, Fin))
  /\ UNCHANGED <<status, port, hosts, loot, deaths>>

cb_accept(p, c) ==
  /\ loot[p] = Idle /\ c \in DOMAIN conn
  /\ conn[c].to.proc = p /\ conn[c].to.cb = "backlog"
  /\ Assign(Write(Read(State, c, "to", "syn"), c, "to", p))
  /\ UNCHANGED <<status, port, hosts, loot, deaths>>

Connecting(p, c) == /\ loot[p] = Idle /\ c \in DOMAIN conn
                    /\ conn[c].from.proc = p /\ conn[c].from.cb = "connect"

(* cb_connect.  Some process listens on the port, not always the one that  *)
(* wrote it; the attempt fails when nobody does.                           *)
Connected(p, c) ==
  /\ Connecting(p, c)
  /\ \E r \in Listener(conn[c].port) :
       conn' = [conn EXCEPT ![c].from.cb = "synack", ![c].to = [proc |-> r, cb |-> "backlog", in |-> << >>]]
  /\ UNCHANGED <<status, port, hosts, read_sock, write_sock, timer, loot, deaths>>

ConnectFailed_final(p, c) ==
  /\ Connecting(p, c) /\ Listener(conn[c].port) = {}
  /\ Assign(close(State, c, "from"))
  /\ UNCHANGED <<status, port, hosts, loot, deaths>>
ConnectFailed(p, c) ==
  /\ Connecting(p, c) /\ Listener(conn[c].port) = {}
  /\ Assign(reconnect_addr(close(State, c, "from"), p, conn[c].peer, Busy))
  /\ UNCHANGED <<status, port, hosts, loot, deaths>>

cb_connect_timeout(p, q) ==
  /\ loot[p] = Idle /\ timer[p][q] > 0 /\ Fresh(State, {q}) # {}
  /\ Assign(connect_addr([State EXCEPT !.timer[p][q] = @ - 1], p, {q}))
  /\ UNCHANGED <<status, port, hosts, loot, deaths>>

-----------------------------------------------------------------------------
(* Processes start and end.                                                *)

Bind(p, pt) ==
  /\ status[p] = "down" /\ Listener(pt) = {}
  /\ status' = [status EXCEPT ![p] = "bound"] /\ port' = [port EXCEPT ![p] = pt]
  /\ UNCHANGED <<hosts, read_sock, write_sock, conn, timer, loot, deaths>>

Publish(p) ==       \* write_local_port
  /\ status[p] = "bound"
  /\ status' = [status EXCEPT ![p] = "listed"] /\ hosts' = [hosts EXCEPT ![p] = port[p]]
  /\ UNCHANGED <<port, read_sock, write_sock, conn, timer, loot, deaths>>

Start(p) ==
  /\ status[p] = "listed" /\ Fresh(State, Peers(p)) # {}
  /\ status' = [status EXCEPT ![p] = "up"]
  /\ Assign(connect_addr(State, p, Peers(p)))
  /\ UNCHANGED <<port, hosts, loot, deaths>>

Died(p, c, e) ==
  LET end == conn[c][e]
  IN  IF end.cb = "closed" THEN end
      ELSE IF end.proc = p THEN [end EXCEPT !.cb = "closed", !.in = << >>]
      ELSE IF conn[c][Other(e)].cb # "closed" /\ conn[c][Other(e)].proc = p
           THEN [end EXCEPT !.in = Append(@, Fin)]
      ELSE end

Die(p) ==
  /\ Running(p) /\ deaths < MaxDeaths /\ deaths' = deaths + 1
  /\ status' = [status EXCEPT ![p] = "down"] /\ port' = [port EXCEPT ![p] = None]
  /\ conn' = Settled([c \in DOMAIN conn |->
               [conn[c] EXCEPT !.from = Died(p, c, "from"), !.to = Died(p, c, "to")]])
  /\ read_sock' = [read_sock EXCEPT ![p] = [q \in Proc |-> None]]
  /\ write_sock' = [write_sock EXCEPT ![p] = [q \in Proc |-> None]]
  /\ timer' = [timer EXCEPT ![p] = [q \in Proc |-> 0]]
  /\ loot' = [loot EXCEPT ![p] = Idle]
  /\ UNCHANGED hosts

Next ==
  \E p \in Proc :
    \/ \E pt \in Port : Bind(p, pt)
    \/ Publish(p) \/ Start(p) \/ Die(p) \/ Again(p)
    \/ \E c \in Conn : \/ cb_accept(p, c) \/ Connected(p, c) \/ ConnectFailed(p, c)
                        \/ \E e \in Ends : Recv(p, c, e) \/ CloseEvent(p, c, e)
    \/ \E q \in Peers(p) : cb_connect_timeout(p, q)

Spec == Init /\ [][Next]_vars

(* One turn of epoll_wait and idle handles every event that is ready, and  *)
(* an attempt ends within 5 seconds, a timer after 3: the handshakes do    *)
(* not keep the thread from the links that are bound, nor these from those.*)
Handles(p, cbs) ==
  \E c \in DOMAIN conn :
    \/ \E e \in Ends : conn[c][e].cb \in cbs /\ (Recv(p, c, e) \/ CloseEvent(p, c, e))
    \/ "ack" \in cbs /\ (cb_accept(p, c) \/ Connected(p, c) \/ ConnectFailed(p, c))
Fairness == \A p \in Proc :
  /\ WF_vars(Again(p))
  /\ SF_vars(Handles(p, {"syn", "synack", "ack"}))
  /\ SF_vars(Handles(p, {"read", "send_err"}))
  /\ \A q \in Peers(p) : SF_vars(cb_connect_timeout(p, q))

FairSpec == Spec /\ Fairness

-----------------------------------------------------------------------------
(* An end of a process either has one attempt under way, or one timer that *)
(* will make one, or a socket: never two, and never none.                  *)
OneAttempt ==
  \A p \in Proc : status[p] = "up" => \A q \in Peers(p) :
    LET tries == {c \in DOMAIN conn : /\ conn[c].from.proc = p /\ conn[c].peer = q
                                      /\ conn[c].from.cb \in {"connect", "synack", "ack"}}
    IN  /\ timer[p][q] = (IF write_sock[p][q] = None THEN 1 ELSE 0)
        /\ Cardinality(tries) = (IF write_sock[p][q] = Busy THEN 1 ELSE 0)

Holds(p, c, e) == c > 0 /\ Alive(State, c, e)

SameSocket ==
  \A p, q \in Proc : LET c == write_sock[p][q] IN
    Holds(p, c, "from") => /\ conn[c].to.proc = q
                           /\ conn[c].to.cb # "closed" => read_sock[q][p] = c

Answerable ==
  \A p, q \in Proc : LET c == read_sock[p][q] IN
    Holds(p, c, "to") /\ Alive(State, c, "from") =>
      \/ write_sock[q][p] = c
      \/ /\ write_sock[q][p] = Busy /\ conn[c].from.cb = "ack"
         /\ \/ p \in {conn[c].from.in[i] : i \in DOMAIN conn[c].from.in}
            \/ loot[p] # Idle /\ loot[p].conn = c /\ loot[p].name

(* What p writes to q arrives at q and is read as p's: a socket that is    *)
(* open at both ends joins write_sock of p for q to read_sock of q for p,  *)
(* whichever process got the port the hosts file names.  And once q is     *)
(* ready to read, p is ready to write or has q's answer to come: no link   *)
(* is left half bound between two processes that live.                     *)
EndsAgree == TypeOK /\ SameSocket /\ Answerable

Dangling(p, q) == \/ read_sock[p][q] > 0 /\ ~Alive(State, read_sock[p][q], "to")
                  \/ write_sock[p][q] > 0 /\ ~Alive(State, write_sock[p][q], "from")

(* A process is left with a closed socket only by a loot_read that began   *)
(* with cb_read_syn or cb_read_ack, read the last name of the handshake    *)
(* and, before it was done, the end of the same connection.                *)
DangleOnlyInLoot ==
  [][\A p, q \in Proc : Dangling(p, q)' /\ ~Dangling(p, q) =>
       /\ loot[p] # Idle /\ loot[p].cb \in {"syn", "ack"} /\ loot'[p] = Idle
       /\ loot[p].conn \in {read_sock[p][q], write_sock[p][q]}]_vars

Linked(p, q) == write_sock[p][q] > 0 /\ write_sock[p][q] = read_sock[q][p]

Unlinked(p, q) == p # q /\ ~Linked(p, q)
StayUp == <>[](\A p \in Proc : status[p] = "up")

(* When processes stop dying, every two of them are linked in both         *)
(* directions in the end, unless one holds a closed socket for the other:  *)
(* retries, refusals and ports that changed owner never keep them apart.   *)
Relinks ==
  StayUp => <>[](\A p, q \in Proc : Unlinked(p, q) => Dangling(p, q) \/ Dangling(q, p))

=============================================================================
