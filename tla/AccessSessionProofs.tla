------------------------ MODULE AccessSessionProofs ------------------------
(***************************************************************************)
(* Proofs about AccessSession for any size of the buffers, any number of   *)
(* connections and sessions and any bounds.                                *)
(***************************************************************************)
EXTENDS AccessSession, FiniteSetTheorems, TLAPS

-----------------------------------------------------------------------------
(* The inductive invariant.                                                *)

\* Only requests with a number are kept; the others are handled at once.
Ordered == [kind : {"req", "ping"}, session : Nat, order : Nat]
\* What is written without a number is an answer of the gateway's own.
Sent == {m \in Messages : m.order = 0 => m.kind \in {"login", "order", "error"}}
Buffers(T) == UNION {[S -> T] : S \in SUBSET Nat}
Data == [session : Nat, sock : Socks \cup {0}, server_order : Nat, client_order : Nat,
         server_buff : Buffers(Sent), client_buff : Buffers(Ordered)]

\* A login names the connection it came over.
Logins == [session : Nat, sock : Socks]
Said == {m \in [kind : {"login", "data", "kick", "unusual"}, session : Nat, sock : Socks \cup {0}, n : Nat] :
           m.kind = "login" => m.sock \in Socks}

GatewayType ==
  /\ exists \in BOOLEAN /\ data \in Data /\ (~exists => data.sock = 0)
  /\ sock_map \subseteq Socks /\ cool \subseteq Socks
  /\ posted \in Seq(Ordered) /\ taken \in Seq(Nat)

NetType ==
  /\ last_sock \in 0..MaxSocks /\ open \subseteq Socks /\ closing \subseteq Socks
  /\ up \in [Socks -> Seq(Requests)] /\ down \in [Socks -> Seq(Sent)]

GameType ==
  /\ session \in Nat /\ said \in Nat
  /\ logins \in Seq(Logins) /\ from_game \in Seq(Said)

ClientType ==
  /\ client \in [sock : open \cup {0}, session : Nat, logged : BOOLEAN, client_order : Nat, server_order : Nat]
  /\ got \in Seq(Nat)

\* What is kept of the messages to a role, also before its first login.
Latest(d) == {o \in 1..d.server_order - 1 : o >= d.server_order - BUFFER_MAX}

\* A role with a connection or a session has been logged in.
Started(d) == d.sock # 0 \/ d.session # 0 => d.server_order >= 1
Last(d) == DOMAIN d.server_buff = Latest(d) /\ Started(d)

\* The connection a role is bound to is noted as its own (update_sock).
Noted == data.sock # 0 => data.sock \in sock_map

Types == GatewayType /\ NetType /\ GameType /\ ClientType
Inv == Types /\ Last(data) /\ RequestsInOrder /\ Noted

-----------------------------------------------------------------------------
(* Lemmas about the operators the model is built from.                     *)

\* A part of a buffer is a buffer.
LEMMA RestrictType ==
  ASSUME NEW T, NEW f \in Buffers(T), NEW S \in SUBSET DOMAIN f
  PROVE  /\ Restrict(f, S) \in Buffers(T)
         /\ DOMAIN Restrict(f, S) = S
<1>1. PICK D \in SUBSET Nat : f \in [D -> T]
  BY DEF Buffers
<1>2. DOMAIN f = D
  BY <1>1
<1>3. Restrict(f, S) \in [S -> T]
  BY <1>1, <1>2 DEF Restrict
<1>4. S \in SUBSET Nat
  BY <1>2
<1>5. QED
  BY <1>3, <1>4 DEF Buffers

\* A buffer with one more entry, or another one at its place, is a buffer.
LEMMA EnterType ==
  ASSUME NEW T, NEW f \in Buffers(T), NEW o \in Nat, NEW m \in T
  PROVE  /\ [x \in DOMAIN f \cup {o} |-> IF x = o THEN m ELSE f[x]] \in Buffers(T)
         /\ DOMAIN f \subseteq Nat
<1>1. PICK D \in SUBSET Nat : f \in [D -> T]
  BY DEF Buffers
<1>2. DOMAIN f = D
  BY <1>1
<1>3. [x \in D \cup {o} |-> IF x = o THEN m ELSE f[x]] \in [D \cup {o} -> T]
  BY <1>1
<1>4. D \cup {o} \in SUBSET Nat
  OBVIOUS
<1>5. QED
  BY <1>2, <1>3, <1>4 DEF Buffers

\* What a message leaves in the buffer is a buffer of messages.
LEMMA KeptType ==
  ASSUME NEW buff \in Buffers(Sent), NEW order \in Nat, NEW m \in Sent
  PROVE  Kept(buff, order, m) \in Buffers(Sent)
<1> DEFINE all == [o \in DOMAIN buff \cup {order} |-> IF o = order THEN m ELSE buff[o]]
           first == CHOOSE o \in DOMAIN all : \A x \in DOMAIN all : o <= x
<1>1. all \in Buffers(Sent)
  BY EnterType
<1>2. Restrict(all, DOMAIN all \ {first}) \in Buffers(Sent)
  <2> HIDE DEF all, first
  <2> QED BY <1>1, RestrictType
<1>3. QED
  BY <1>1, <1>2 DEF Kept

\* The buffer keeps the last BUFFER_MAX messages without a gap.
LEMMA KeptLast ==
  ASSUME NEW d \in Data, Last(d), d.server_order >= 1, NEW m \in Sent
  PROVE  DOMAIN Kept(d.server_buff, d.server_order, m)
           = {o \in 1..d.server_order : o >= d.server_order + 1 - BUFFER_MAX}
<1> DEFINE n == d.server_order
           buff == d.server_buff
           all == [o \in DOMAIN buff \cup {n} |-> IF o = n THEN m ELSE buff[o]]
           first == CHOOSE o \in DOMAIN all : \A x \in DOMAIN all : o <= x
<1>1. n \in Nat /\ n >= 1 /\ BUFFER_MAX \in Nat
  BY SessionAssumption DEF Data
<1>2. DOMAIN all = {o \in 1..n : o >= n - BUFFER_MAX}
  BY <1>1 DEF Last, Latest, Started
<1>3. CASE n <= BUFFER_MAX
  <2>1. DOMAIN all = 1..n
    BY <1>1, <1>2, <1>3
  <2>2. Cardinality(DOMAIN all) = n
    <3>1. Cardinality(1..n) = n
      BY <1>1, FS_Interval
    <3>2. QED
      BY <2>1, <3>1
  <2>3. Kept(buff, n, m) = all
    BY <1>1, <1>3, <2>2 DEF Kept
  <2>4. QED
    BY <1>1, <1>3, <2>1, <2>3
<1>4. CASE n > BUFFER_MAX
  <2>1. DOMAIN all = (n - BUFFER_MAX)..n
    BY <1>1, <1>2, <1>4
  <2>2. Cardinality(DOMAIN all) = BUFFER_MAX + 1
    <3>1. n - BUFFER_MAX \in Int /\ n \in Int /\ n - BUFFER_MAX <= n
      BY <1>1
    <3>2. Cardinality((n - BUFFER_MAX)..n) = n - (n - BUFFER_MAX) + 1
      BY <3>1, FS_Interval
    <3>3. n - (n - BUFFER_MAX) + 1 = BUFFER_MAX + 1
      BY <1>1
    <3>4. QED
      BY <2>1, <3>2, <3>3
  <2>3. first = n - BUFFER_MAX
    <3> HIDE DEF all
    <3>1. n - BUFFER_MAX \in DOMAIN all /\ \A x \in DOMAIN all : n - BUFFER_MAX <= x
      BY <1>1, <2>1
    <3>2. first \in DOMAIN all /\ \A x \in DOMAIN all : first <= x
      BY <3>1
    <3>3. QED
      BY <1>1, <2>1, <3>1, <3>2
  <2>4. Kept(buff, n, m) = Restrict(all, DOMAIN all \ {first})
    BY <1>1, <2>2 DEF Kept
  <2>5. DOMAIN Restrict(all, DOMAIN all \ {first}) = DOMAIN all \ {first}
    BY DEF Restrict
  <2>6. DOMAIN Kept(buff, n, m) = ((n - BUFFER_MAX)..n) \ {n - BUFFER_MAX}
    BY <2>1, <2>3, <2>4, <2>5
  <2>7. ((n - BUFFER_MAX)..n) \ {n - BUFFER_MAX} = {o \in 1..n : o >= n + 1 - BUFFER_MAX}
    BY <1>1, <1>4
  <2>8. QED
    BY <2>6, <2>7
<1>5. QED
  BY <1>1, <1>3, <1>4

\* A message to a role keeps the type of its data, what is kept without a gap,
\* and the rest as it was.
LEMMA SayType ==
  ASSUME NEW d \in Data, Last(d), NEW m \in Messages, m.order = d.server_order
  PROVE  /\ Say(d, m) \in Data /\ Last(Say(d, m)) /\ (m.order # 0 => m \in Sent)
         /\ Say(d, m).sock = d.sock /\ Say(d, m).session = d.session
         /\ Say(d, m).client_order = d.client_order
<1> DEFINE e == Say(d, m)
           next == d.server_order + 1
           buff == IF m.order = 0 THEN d.server_buff ELSE Kept(d.server_buff, m.order, m)
<1>1. e = [d EXCEPT !.server_order = next, !.server_buff = buff]
  BY DEF Say
<1>2. /\ d.server_order \in Nat /\ next \in Nat /\ next = d.server_order + 1 /\ BUFFER_MAX \in Nat
      /\ d.server_buff \in Buffers(Sent)
  BY SessionAssumption DEF Data
<1>3. buff \in Buffers(Sent) /\ (m.order # 0 => m \in Sent)
  <2> HIDE DEF e
  <2>1. m.order # 0 => m \in Sent
    BY DEF Sent
  <2>2. QED BY <1>2, <2>1, KeptType
<1>4. DOMAIN buff = {o \in 1..d.server_order : o >= d.server_order + 1 - BUFFER_MAX}
  <2>1. CASE m.order = 0
    <3>1. DOMAIN d.server_buff = {}
      BY <2>1, <1>2 DEF Last, Latest, Started
    <3>2. 1..d.server_order = {}
      BY <2>1
    <3>3. QED
      BY <2>1, <3>1, <3>2
  <2>2. CASE m.order # 0
    <3>1. d.server_order >= 1 /\ buff = Kept(d.server_buff, d.server_order, m)
      BY <2>2, <1>2
    <3>2. QED
      BY <1>3, <2>2, <3>1, KeptLast
  <2>3. QED
    BY <2>1, <2>2
<1> HIDE DEF buff, next, e
<1>5. /\ e \in Data /\ e.server_order = next /\ e.server_buff = buff
      /\ e.sock = d.sock /\ e.session = d.session /\ e.client_order = d.client_order
  BY <1>1, <1>2, <1>3 DEF Data
<1>6. Latest(e) = {o \in 1..d.server_order : o >= d.server_order + 1 - BUFFER_MAX}
  BY <1>2, <1>5 DEF Latest
<1>7. Last(e)
  BY <1>2, <1>4, <1>5, <1>6 DEF Last, Started
<1>8. QED
  BY <1>3, <1>5, <1>7 DEF e

\* A request in its turn leaves the data as it should be.
LEMMA TurnType ==
  ASSUME NEW d \in Data, NEW p
  PROVE  /\ Turn(d, p) \in Data /\ (Last(d) => Last(Turn(d, p)))
         /\ Turn(d, p).sock = d.sock /\ Turn(d, p).session = d.session
         /\ Turn(d, p).client_order = d.client_order + 1
         /\ Turn(d, p).server_order = d.server_order /\ Turn(d, p).server_buff = d.server_buff
<1> DEFINE next == d.client_order + 1
           buff == Restrict(d.client_buff, DOMAIN d.client_buff \ {d.client_order + 1})
<1>1. buff \in Buffers(Ordered)
  BY RestrictType DEF Data
<1>2. Turn(d, p) = [d EXCEPT !.client_order = next, !.client_buff = buff]
  BY DEF Turn
<1>3. next \in Nat /\ next = d.client_order + 1
  BY DEF Data
<1> HIDE DEF buff, next
<1>4. /\ Turn(d, p) \in Data /\ Turn(d, p).client_order = next
      /\ Turn(d, p).sock = d.sock /\ Turn(d, p).session = d.session
      /\ Turn(d, p).server_order = d.server_order /\ Turn(d, p).server_buff = d.server_buff
  BY <1>1, <1>2, <1>3 DEF Data
<1>5. QED
  BY <1>3, <1>4 DEF Last, Latest, Started

\* The kept request that follows is a request.
LEMMA RepostedType ==
  ASSUME NEW d \in Data
  PROVE  Reposted(d) \in Seq(Ordered)
<1>1. PICK D \in SUBSET Nat : d.client_buff \in [D -> Ordered]
  BY DEF Data, Buffers
<1>2. CASE d.client_order + 1 \in DOMAIN d.client_buff
  <2>1. d.client_buff[d.client_order + 1] \in Ordered
    BY <1>1, <1>2
  <2>2. <<d.client_buff[d.client_order + 1]>> \in Seq(Ordered)
    <3> HIDE DEF Ordered
    <3> QED BY <2>1
  <2>3. QED
    BY <1>2, <2>2 DEF Reposted
<1>3. CASE d.client_order + 1 \notin DOMAIN d.client_buff
  BY <1>3 DEF Reposted
<1>4. QED
  BY <1>2, <1>3

\* Data without a role.
LEMMA EmptyType == EmptyData \in Data /\ Last(EmptyData) /\ EmptyData.sock = 0
<1>1. Empty \in [{} -> Sent] /\ Empty \in [{} -> Ordered] /\ DOMAIN Empty = {}
  BY DEF Empty
<1>2. Empty \in Buffers(Sent) /\ Empty \in Buffers(Ordered)
  <2> HIDE DEF Empty
  <2> QED BY <1>1 DEF Buffers
<1>3. EmptyData \in Data
  <2> HIDE DEF Empty
  <2> QED BY <1>2 DEF EmptyData, Data
<1>4. Last(EmptyData)
  <2>1. Latest(EmptyData) = {}
    BY SessionAssumption DEF Latest, EmptyData
  <2>2. EmptyData.server_buff = Empty
    BY DEF EmptyData
  <2>3. Started(EmptyData)
    BY DEF Started, EmptyData
  <2>4. QED
    BY <1>1, <2>1, <2>2, <2>3 DEF Last
<1>5. QED
  BY <1>3, <1>4 DEF EmptyData

\* A request before its turn is kept, or the role is forgotten.
LEMMA PushType ==
  ASSUME NEW d \in Data, Last(d), NEW p \in Ordered
  PROVE  /\ Push(d, p) \in Data /\ Last(Push(d, p))
         /\ Hoards(d) => Push(d, p).sock = 0
         /\ ~Hoards(d) => /\ Push(d, p).sock = d.sock /\ Push(d, p).session = d.session
                          /\ Push(d, p).client_order = d.client_order
                          /\ Push(d, p).server_order = d.server_order
                          /\ Push(d, p).server_buff = d.server_buff
<1>1. CASE Hoards(d)
  BY <1>1, EmptyType DEF Push
<1>2. CASE ~Hoards(d)
  <2> DEFINE f == d.client_buff
             buff == [o \in DOMAIN f \cup {p.order} |-> IF o = p.order THEN p ELSE f[o]]
  <2>1. buff \in Buffers(Ordered)
    <3>1. f \in Buffers(Ordered) /\ p.order \in Nat
      BY DEF Data, Ordered
    <3>2. QED
      BY <3>1, EnterType
  <2>2. Push(d, p) = [d EXCEPT !.client_buff = buff]
    BY <1>2 DEF Push
  <2> HIDE DEF buff
  <2>3. /\ Push(d, p) \in Data /\ Push(d, p).client_order = d.client_order
        /\ Push(d, p).sock = d.sock /\ Push(d, p).session = d.session
        /\ Push(d, p).server_order = d.server_order /\ Push(d, p).server_buff = d.server_buff
    BY <2>1, <2>2 DEF Data
  <2>4. QED
    BY <1>2, <2>3 DEF Last, Latest, Started
<1>3. QED
  BY <1>1, <1>2

\* Writing to a connection.
LEMMA PutType ==
  ASSUME NetType, NEW s, NEW out, s \in open => out \in Seq(Sent)
  PROVE  Put(s, out) \in [Socks -> Seq(Sent)]
<1>1. CASE s \in open
  <2>1. s \in Socks /\ down[s] \in Seq(Sent) /\ down \in [Socks -> Seq(Sent)]
    BY <1>1 DEF NetType
  <2>2. down[s] \o out \in Seq(Sent)
    BY <1>1, <2>1
  <2>3. QED
    BY <1>1, <2>1, <2>2 DEF Put
<1>2. CASE s \notin open
  BY <1>2 DEF Put, NetType
<1>3. QED
  BY <1>1, <1>2

\* What the gateway writes without a number.
LEMMA RawType == Raw("error") \in Sent /\ <<Raw("error")>> \in Seq(Sent)
<1>1. Raw("error") \in Sent
  BY DEF Raw, Messages, Sent
<1>2. QED
  BY <1>1

\* What is sent again are the kept messages, from the number on.
LEMMA ResentKept ==
  ASSUME NEW d \in Data, Last(d), NEW order \in DOMAIN d.server_buff
  PROVE  \E n \in Nat : /\ DOMAIN Resent(d, order) = 1..n
                        /\ \A i \in 1..n : \E o \in DOMAIN d.server_buff : Resent(d, order)[i] = d.server_buff[o]
                        /\ Resent(d, order) = [i \in 1..n |-> Resent(d, order)[i]]
<1> DEFINE n == d.server_order
           held == {o \in DOMAIN d.server_buff : o >= order}
           below(o) == {x \in held : x < o}
           pick(i) == CHOOSE o \in held : Cardinality(below(o)) = i - 1
<1>1. n \in Nat /\ BUFFER_MAX \in Nat
  BY SessionAssumption DEF Data
<1>2. order \in 1..n - 1 /\ order >= n - BUFFER_MAX
  BY DEF Last, Latest, Started
<1>3. held = order..(n - 1)
  BY <1>1, <1>2 DEF Last, Latest, Started
<1>5. order \in Int /\ n - 1 \in Int /\ order <= n - 1
  BY <1>1, <1>2
<1>6. Cardinality(held) = n - order
  <2>1. Cardinality(order..(n - 1)) = n - 1 - order + 1
    BY <1>5, FS_Interval
  <2>2. n - 1 - order + 1 = n - order
    BY <1>1, <1>2
  <2>3. QED
    BY <1>3, <2>1, <2>2
<1>7. ASSUME NEW i \in 1..(n - order)
      PROVE  pick(i) \in DOMAIN d.server_buff
  <2> DEFINE o == order + i - 1
  <2>1. o \in held
    BY <1>1, <1>2, <1>3
  <2>2. below(o) = order..(order + i - 2)
    <3> HIDE DEF held
    <3>1. o = order + i - 1 /\ o \in Int /\ i \in 1..(n - order)
      BY <1>5
    <3>2. QED
      BY <1>1, <1>3, <1>5, <3>1
  <2>3. Cardinality(below(o)) = i - 1
    <3>1. order + i - 2 \in Int
      BY <1>5
    <3>2. CASE i = 1
      <4>1. order > order + i - 2
        BY <3>2, <1>5
      <4>2. Cardinality(order..(order + i - 2)) = 0
        BY <4>1, <1>5, <3>1, FS_Interval
      <4>3. i - 1 = 0
        BY <3>2
      <4>4. QED
        BY <2>2, <4>2, <4>3
    <3>3. CASE i # 1
      <4>1. order <= order + i - 2
        BY <3>3, <1>5
      <4>2. Cardinality(order..(order + i - 2)) = order + i - 2 - order + 1
        BY <4>1, <1>5, <3>1, FS_Interval
      <4>3. order + i - 2 - order + 1 = i - 1
        BY <1>5
      <4>4. QED
        BY <2>2, <4>2, <4>3
    <3>4. QED
      BY <3>2, <3>3
  <2> HIDE DEF o, below
  <2>4. pick(i) \in held
    BY <2>1, <2>3
  <2> HIDE DEF pick
  <2>5. QED
    BY <2>4
<1>8. n - order \in Nat
  BY <1>1, <1>2
<1>9. Resent(d, order) = [i \in 1..(n - order) |-> d.server_buff[pick(i)]]
  BY <1>6 DEF Resent
<1> HIDE DEF pick, held, below
<1>10. /\ DOMAIN Resent(d, order) = 1..(n - order)
       /\ \A i \in 1..(n - order) : Resent(d, order)[i] = d.server_buff[pick(i)]
       /\ Resent(d, order) = [i \in 1..(n - order) |-> Resent(d, order)[i]]
  BY <1>9
<1>11. QED
  BY <1>7, <1>8, <1>10

\* They are messages.
LEMMA ResentType ==
  ASSUME NEW d \in Data, Last(d), NEW order \in DOMAIN d.server_buff
  PROVE  Resent(d, order) \in Seq(Sent)
<1>1. PICK n \in Nat :
        /\ \A i \in 1..n : \E o \in DOMAIN d.server_buff : Resent(d, order)[i] = d.server_buff[o]
        /\ Resent(d, order) = [i \in 1..n |-> Resent(d, order)[i]]
  BY ResentKept
<1>2. PICK D \in SUBSET Nat : d.server_buff \in [D -> Sent]
  BY DEF Data, Buffers
<1>3. \A i \in 1..n : Resent(d, order)[i] \in Sent
  BY <1>1, <1>2
<1> HIDE DEF Sent
<1>4. [i \in 1..n |-> Resent(d, order)[i]] \in Seq(Sent)
  BY <1>3
<1>5. QED
  BY <1>1, <1>4

-----------------------------------------------------------------------------
(* The handlers of the gateway.  What they have to keep of the invariant.  *)

Gateway ==
  /\ GatewayType /\ down \in [Socks -> Seq(Sent)] /\ logins \in Seq(Logins)
  /\ Last(data) /\ RequestsInOrder /\ Noted

\* A request in the order of requests: it is taken, kept or passed over.
LEMMA InOrderKeeps ==
  ASSUME Inv, exists, data.session # 0,
         NEW d \in Data, Last(d), d.session = data.session, d.client_order = data.client_order,
         NEW p \in Ordered, NEW rest \in Seq(Ordered), NEW answer \in BOOLEAN, NEW m,
         answer => m \in Messages /\ m.order = d.server_order,
         InOrder(d, p, rest, answer, m)
  PROVE  /\ exists' \in BOOLEAN /\ data' \in Data /\ Last(data')
         /\ data'.sock \in {0, d.sock} /\ (~exists' => data'.sock = 0)
         /\ posted' \in Seq(Ordered) /\ taken' \in Seq(Nat)
         /\ down' \in [Socks -> Seq(Sent)] /\ RequestsInOrder'
<1>1. /\ NetType /\ taken \in Seq(Nat) /\ exists \in BOOLEAN /\ data.client_order = Len(taken) + 1
      /\ (\A i \in DOMAIN taken : taken[i] = i) /\ down \in [Socks -> Seq(Sent)]
  BY DEF Inv, Types, GatewayType, NetType, RequestsInOrder
<1>2. p.order \in Nat /\ d.client_order \in Nat /\ Len(taken) \in Nat /\ d.server_order # 0
  BY <1>1 DEF Ordered, Data, Last, Started
<1>3. CASE InTurn(d, p)
  <2> DEFINE e == Turn(d, p)
  <2>1. /\ data' = (IF answer THEN Say(e, m) ELSE e)
        /\ down' = (IF answer THEN Put(d.sock, <<m>>) ELSE down)
        /\ posted' = rest \o Reposted(d) /\ taken' = Append(taken, p.order) /\ exists' = exists
    BY <1>3 DEF InOrder
  <2>2. /\ e \in Data /\ Last(e) /\ e.sock = d.sock /\ e.client_order = d.client_order + 1
        /\ e.session = d.session /\ e.server_order = d.server_order
    BY TurnType
  <2> HIDE DEF e
  <2>3. /\ data' \in Data /\ Last(data') /\ data'.sock = d.sock
        /\ data'.client_order = d.client_order + 1
    <3>1. CASE answer
      BY <3>1, <2>1, <2>2, SayType
    <3>2. CASE ~answer
      BY <3>2, <2>1, <2>2
    <3>3. QED
      BY <3>1, <3>2
  <2>4. down' \in [Socks -> Seq(Sent)]
    <3>1. CASE answer
      <4>1. <<m>> \in Seq(Sent)
        <5>1. m \in Sent
          BY <3>1, <1>2, <2>2, SayType
        <5>2. QED
          BY <5>1
      <4>2. QED
        BY <3>1, <2>1, <4>1, <1>1, PutType
    <3>2. CASE ~answer
      BY <3>2, <2>1, <1>1
    <3>3. QED
      BY <3>1, <3>2
  <2>5. posted' \in Seq(Ordered)
    <3>1. Reposted(d) \in Seq(Ordered)
      BY RepostedType
    <3>2. QED
      BY <2>1, <3>1
  <2>6. p.order = Len(taken) + 1
    BY <1>1, <1>3 DEF InTurn
  <2>7. taken' \in Seq(Nat) /\ Len(taken') = Len(taken) + 1 /\ \A i \in DOMAIN taken' : taken'[i] = i
    BY <1>1, <1>2, <2>1, <2>6
  <2>8. RequestsInOrder'
    BY <1>1, <2>3, <2>7 DEF RequestsInOrder
  <2>9. QED
    BY <1>1, <2>1, <2>3, <2>4, <2>5, <2>7, <2>8
<1>4. CASE ~InTurn(d, p) /\ p.order > d.client_order
  <2>1. /\ data' = Push(d, p) /\ exists' = ~Hoards(d) /\ posted' = rest /\ taken' = taken
        /\ down' = (IF Hoards(d) THEN down ELSE
                      Put(d.sock, <<[kind |-> "order", order |-> 0, n |-> d.client_order]>>))
    BY <1>4 DEF InOrder
  <2>2. /\ data' \in Data /\ Last(data') /\ (~exists' => data'.sock = 0)
        /\ (exists' => data'.sock = d.sock /\ data'.client_order = d.client_order)
    BY <2>1, PushType
  <2>3. down' \in [Socks -> Seq(Sent)]
    <3>1. <<[kind |-> "order", order |-> 0, n |-> d.client_order]>> \in Seq(Sent)
      <4>1. [kind |-> "order", order |-> 0, n |-> d.client_order] \in Sent
        BY <1>2 DEF Messages, Sent
      <4>2. QED
        BY <4>1
    <3>2. QED
      BY <1>1, <2>1, <3>1, PutType
  <2>4. RequestsInOrder'
    BY <1>1, <2>1, <2>2 DEF RequestsInOrder
  <2>5. exists' \in BOOLEAN
    BY <2>1
  <2>6. QED
    BY <1>1, <2>1, <2>2, <2>3, <2>4, <2>5
<1>5. CASE ~InTurn(d, p) /\ ~(p.order > d.client_order)
  <2>1. data' = d /\ exists' = exists /\ down' = down /\ posted' = rest /\ taken' = taken
    BY <1>5 DEF InOrder
  <2>2. RequestsInOrder'
    BY <1>1, <2>1 DEF RequestsInOrder
  <2>3. QED
    BY <1>1, <2>1, <2>2
<1>6. QED
  BY <1>3, <1>4, <1>5

\* A role bound to another connection.
LEMMA BoundType ==
  ASSUME NEW d \in Data, Last(d), NEW s \in Socks \cup {0}, s # 0 => d.server_order >= 1
  PROVE  /\ Bound(d, s) \in Data /\ Last(Bound(d, s)) /\ Bound(d, s).sock = s
         /\ Bound(d, s).session = d.session /\ Bound(d, s).client_order = d.client_order
         /\ Bound(d, s).server_order = d.server_order /\ Bound(d, s).server_buff = d.server_buff
<1>1. Bound(d, s) = [d EXCEPT !.sock = s]
  BY DEF Bound
<1>2. /\ Bound(d, s) \in Data /\ Bound(d, s).sock = s
      /\ Bound(d, s).session = d.session /\ Bound(d, s).client_order = d.client_order
      /\ Bound(d, s).server_order = d.server_order /\ Bound(d, s).server_buff = d.server_buff
  BY <1>1 DEF Data
<1>3. QED
  BY <1>2 DEF Last, Latest, Started

\* A connection the role is bound to becomes one of its own.
LEMMA UpdateSock ==
  ASSUME Inv, NEW s \in Socks, update_sock(s)
  PROVE  sock_map' \subseteq Socks /\ cool' \subseteq Socks /\ s \in sock_map'
<1>1. /\ sock_map \subseteq Socks /\ cool \subseteq Socks /\ data.sock \in Socks \cup {0}
      /\ (data.sock # 0 => data.sock \in sock_map) /\ 0 \notin Socks
  BY DEF Inv, Types, GatewayType, Noted, Data, Socks
<1>2. /\ cool' = (IF data.sock \notin {0, s} THEN cool \cup {data.sock} ELSE cool)
      /\ sock_map' = (IF data.sock = s THEN sock_map ELSE (sock_map \ {data.sock}) \cup {s})
  BY DEF update_sock
<1>3. s # 0
  BY <1>1
<1>4. QED
  BY <1>1, <1>2, <1>3

\* A request from outside for the game server.
LEMMA ListenKeeps ==
  ASSUME Inv, NEW s \in Socks \cup {0}, NEW p \in Ordered, NEW rest \in Seq(Ordered), Listen(s, p, rest)
  PROVE  Gateway'
<1>1. /\ GatewayType /\ NetType /\ Last(data) /\ RequestsInOrder /\ Noted
      /\ logins' = logins /\ logins \in Seq(Logins)
  <2>1. UNCHANGED <<logins>>
    BY DEF Listen
  <2>2. logins' = logins
    BY <2>1
  <2>3. QED
    BY <2>2 DEF Inv, Types, GameType
<1>2. CASE s # 0 /\ s \in cool
  <2>1. /\ posted' = rest /\ UNCHANGED <<exists, data, sock_map, cool, taken, down>>
    BY <1>2 DEF Listen
  <2>2. QED
    BY <1>1, <2>1 DEF Gateway, GatewayType, NetType, Last, Latest, Started, RequestsInOrder, Noted
<1>3. CASE ~(s # 0 /\ s \in cool) /\ ~check_session(p)
  <2>1. /\ posted' = rest /\ UNCHANGED <<exists, data, sock_map, cool, taken>>
        /\ down' = Put(s, <<Raw("error")>>)
    BY <1>3 DEF Listen
  <2>2. down' \in [Socks -> Seq(Sent)]
    BY <1>1, <2>1, RawType, PutType
  <2>3. QED
    BY <1>1, <2>1, <2>2 DEF Gateway, GatewayType, Last, Latest, Started, RequestsInOrder, Noted
<1>4. CASE ~(s # 0 /\ s \in cool) /\ check_session(p)
  <2> DEFINE d == IF s = 0 THEN data ELSE Bound(data, s)
  <2>1. exists /\ data.session # 0 /\ data \in Data
    BY <1>1, <1>4 DEF check_session, GatewayType
  <2>2. d \in Data /\ Last(d) /\ d.session = data.session /\ d.client_order = data.client_order
    BY <1>1, <2>1, BoundType DEF Last, Started
  <2>3. d.sock = IF s = 0 THEN data.sock ELSE s
    BY <1>1, <2>1, BoundType DEF Last, Started
  <2>4. /\ InOrder(d, p, rest, FALSE, Raw("none"))
        /\ IF s = 0 THEN UNCHANGED <<sock_map, cool>> ELSE update_sock(s)
    BY <1>4 DEF Listen
  <2> HIDE DEF d
  <2>5. /\ exists' \in BOOLEAN /\ data' \in Data /\ Last(data')
        /\ data'.sock \in {0, d.sock} /\ (~exists' => data'.sock = 0)
        /\ posted' \in Seq(Ordered) /\ taken' \in Seq(Nat)
        /\ down' \in [Socks -> Seq(Sent)] /\ RequestsInOrder'
    BY <2>1, <2>2, <2>4, InOrderKeeps
  <2>6. sock_map' \subseteq Socks /\ cool' \subseteq Socks /\ (d.sock # 0 => d.sock \in sock_map')
    <3>1. CASE s = 0
      <4>1. sock_map' = sock_map /\ cool' = cool
        BY <3>1, <2>4
      <4>2. d.sock = data.sock
        BY <3>1, <2>3
      <4>3. QED
        BY <1>1, <4>1, <4>2 DEF GatewayType, Noted
    <3>2. CASE s # 0
      BY <3>2, <2>3, <2>4, UpdateSock
    <3>3. QED
      BY <3>1, <3>2
  <2>7. Noted' /\ Last(data)'
    BY <2>5, <2>6 DEF Noted, Last, Latest
  <2>8. QED
    BY <1>1, <2>5, <2>6, <2>7 DEF Gateway, GatewayType
<1>5. QED
  BY <1>2, <1>3, <1>4

\* A ping is answered in the same order.
LEMMA PingKeeps ==
  ASSUME Inv, NEW p \in Ordered, NEW rest \in Seq(Ordered), PQSystemPing(p, rest)
  PROVE  Gateway'
<1>1. /\ GatewayType /\ NetType /\ Last(data) /\ RequestsInOrder /\ Noted
      /\ UNCHANGED <<sock_map, cool, logins>> /\ logins \in Seq(Logins)
  BY DEF Inv, Types, PQSystemPing, GameType
<1>2. CASE ~check_session(p)
  <2>1. posted' = rest /\ UNCHANGED <<exists, data, taken, down>>
    BY <1>2 DEF PQSystemPing
  <2>2. QED
    BY <1>1, <2>1 DEF Gateway, GatewayType, NetType, Last, Latest, Started, RequestsInOrder, Noted
<1>3. CASE check_session(p)
  <2> DEFINE m == Numbered(data, "ping", 0)
  <2>1. exists /\ data.session # 0 /\ data \in Data
    BY <1>1, <1>3 DEF check_session, GatewayType
  <2>2. m \in Messages /\ m.order = data.server_order
    BY <2>1 DEF Numbered, Messages, Data
  <2>3. InOrder(data, p, rest, TRUE, m)
    BY <1>3 DEF PQSystemPing
  <2> HIDE DEF m
  <2>4. /\ exists' \in BOOLEAN /\ data' \in Data /\ Last(data')
        /\ data'.sock \in {0, data.sock} /\ (~exists' => data'.sock = 0)
        /\ posted' \in Seq(Ordered) /\ taken' \in Seq(Nat)
        /\ down' \in [Socks -> Seq(Sent)] /\ RequestsInOrder'
    BY <1>1, <2>1, <2>2, <2>3, InOrderKeeps
  <2>5. Noted' /\ Last(data)'
    BY <1>1, <2>4 DEF Noted, Last, Latest
  <2>6. QED
    BY <1>1, <2>4, <2>5 DEF Gateway, GatewayType
<1>4. QED
  BY <1>2, <1>3

\* A login is passed on.
LEMMA PassLogin ==
  ASSUME Inv, NEW s \in Socks, NEW p \in Requests, NEW rest \in Seq(Ordered), PQSystemLogin(s, p, rest)
  PROVE  Gateway'
<1>1. /\ GatewayType /\ NetType /\ Last(data) /\ RequestsInOrder /\ Noted
      /\ logins \in Seq(Logins)
  BY DEF Inv, Types, GameType
<1>2. /\ logins' = Append(logins, [session |-> p.session, sock |-> s])
      /\ posted' = rest /\ UNCHANGED <<exists, data, sock_map, cool, taken, down>>
  BY DEF PQSystemLogin
<1>3. logins' \in Seq(Logins)
  <2>1. [session |-> p.session, sock |-> s] \in Logins
    BY DEF Requests, Logins
  <2>2. QED
    BY <1>1, <1>2, <2>1
<1>4. QED
  BY <1>1, <1>2, <1>3 DEF Gateway, GatewayType, NetType, Last, Latest, Started, RequestsInOrder, Noted

\* What is kept is sent again, or an error.
LEMMA ResendKeeps ==
  ASSUME Inv, NEW p \in Requests, NEW rest \in Seq(Ordered), PQSystemResend(p, rest)
  PROVE  Gateway'
<1>1. /\ GatewayType /\ NetType /\ Last(data) /\ RequestsInOrder /\ Noted
      /\ logins \in Seq(Logins)
  BY DEF Inv, Types, GameType
<1>2. posted' = rest /\ UNCHANGED <<exists, data, sock_map, cool, taken, logins>>
  BY DEF PQSystemResend
<1>3. down' \in [Socks -> Seq(Sent)]
  <2>1. CASE check_session(p) /\ p.order \in DOMAIN data.server_buff
    <3>1. Resent(data, p.order) \in Seq(Sent)
      BY <1>1, <2>1, ResentType DEF GatewayType
    <3>2. down' = Put(data.sock, Resent(data, p.order))
      BY <2>1 DEF PQSystemResend
    <3>3. QED
      BY <1>1, <3>1, <3>2, PutType
  <2>2. CASE ~(check_session(p) /\ p.order \in DOMAIN data.server_buff)
    <3>1. down' = Put(data.sock, <<Raw("error")>>)
      BY <2>2 DEF PQSystemResend
    <3>2. QED
      BY <1>1, <3>1, RawType, PutType
  <2>3. QED
    BY <2>1, <2>2
<1>4. QED
  BY <1>1, <1>2, <1>3 DEF Gateway, GatewayType, Last, Latest, Started, RequestsInOrder, Noted

\* A message from outside; what is not kept comes over a connection.
LEMMA OutsideKeeps ==
  ASSUME Inv, NEW s \in Socks \cup {0}, NEW p \in Requests, s = 0 => p \in Ordered,
         NEW rest \in Seq(Ordered), Outside(s, p, rest)
  PROVE  Gateway'
<1>1. CASE p.kind = "req"
  <2>1. p \in Ordered
    BY <1>1 DEF Requests, Ordered
  <2>2. Listen(s, p, rest)
    BY <1>1 DEF Outside
  <2>3. QED
    BY <2>1, <2>2, ListenKeeps
<1>2. CASE p.kind = "ping"
  <2>1. p \in Ordered
    BY <1>2 DEF Requests, Ordered
  <2>2. PQSystemPing(p, rest)
    BY <1>2 DEF Outside
  <2>3. QED
    BY <2>1, <2>2, PingKeeps
<1>3. CASE p.kind = "login"
  <2>1. s \in Socks
    BY <1>3 DEF Ordered
  <2>2. PQSystemLogin(s, p, rest)
    BY <1>3 DEF Outside
  <2>3. QED
    BY <2>1, <2>2, PassLogin
<1>4. CASE p.kind = "resend"
  <2>1. PQSystemResend(p, rest)
    BY <1>4 DEF Outside
  <2>2. QED
    BY <2>1, ResendKeeps
<1>5. p.kind \in {"req", "ping", "login", "resend"}
  BY DEF Requests
<1>6. QED
  BY <1>1, <1>2, <1>3, <1>4, <1>5

-----------------------------------------------------------------------------
(* The steps.                                                              *)

\* The rest of a connection's messages are messages.
LEMMA UpTail ==
  ASSUME NetType, NEW s \in Socks, up[s] # <<>>
  PROVE  Head(up[s]) \in Requests /\ [up EXCEPT ![s] = Tail(@)] \in [Socks -> Seq(Requests)]
<1>1. up \in [Socks -> Seq(Requests)]
  BY DEF NetType
<1> HIDE DEF Requests
<1>2. up[s] \in Seq(Requests)
  BY <1>1
<1>3. Head(up[s]) \in Requests /\ Tail(up[s]) \in Seq(Requests)
  BY <1>2
<1>4. QED
  BY <1>1, <1>3

\* The next message of a connection keeps the invariant.
LEMMA ReceiveKeeps ==
  ASSUME Inv, NEW s \in Socks, Receive(s)
  PROVE  Inv'
<1>1. /\ up[s] # <<>> /\ up' = [up EXCEPT ![s] = Tail(@)] /\ Outside(s, Head(up[s]), posted)
      /\ UNCHANGED <<last_sock, open, closing, session, from_game, said, client, got>>
  BY DEF Receive
<1>2. NetType /\ GameType /\ ClientType /\ posted \in Seq(Ordered) /\ s # 0
  BY DEF Inv, Types, GatewayType, Socks
<1>3. Head(up[s]) \in Requests /\ up' \in [Socks -> Seq(Requests)]
  BY <1>1, <1>2, UpTail
<1>4. Gateway'
  BY <1>1, <1>2, <1>3, OutsideKeeps
<1>5. NetType' /\ GameType' /\ ClientType'
  BY <1>1, <1>2, <1>3, <1>4 DEF Gateway, NetType, GameType, ClientType
<1>6. QED
  BY <1>4, <1>5 DEF Inv, Types, Gateway

\* So does the next reposted request.
LEMMA RepeatKeeps ==
  ASSUME Inv, Repeat
  PROVE  Inv'
<1>1. /\ posted # <<>> /\ Outside(0, Head(posted), Tail(posted))
      /\ UNCHANGED <<up, last_sock, open, closing, session, from_game, said, client, got>>
  BY DEF Repeat
<1>2. NetType /\ GameType /\ ClientType /\ posted \in Seq(Ordered)
  BY DEF Inv, Types, GatewayType
<1>3. Head(posted) \in Ordered /\ Tail(posted) \in Seq(Ordered)
  <2> HIDE DEF Ordered
  <2> QED BY <1>1, <1>2
<1>4. Head(posted) \in Requests
  BY <1>3 DEF Ordered, Requests
<1>5. Gateway'
  BY <1>1, <1>3, <1>4, OutsideKeeps
<1>6. NetType' /\ GameType' /\ ClientType'
  BY <1>1, <1>2, <1>5 DEF Gateway, NetType, GameType, ClientType
<1>7. QED
  BY <1>5, <1>6 DEF Inv, Types, Gateway

\* And the end of a connection: the role it was bound to goes offline.
LEMMA CloseKeeps ==
  ASSUME Inv, NEW s \in Socks, Close(s)
  PROVE  Inv'
<1>1. /\ closing' = closing \ {s} /\ cool' = cool \cup {s} /\ sock_map' = sock_map \ {s}
      /\ data' = (IF s \in sock_map /\ exists THEN Bound(data, 0) ELSE data)
      /\ UNCHANGED <<exists, posted, taken, last_sock, open, up, down, session, logins, from_game, said>>
      /\ UNCHANGED <<client, got>>
  BY DEF Close, Bound, game
<1>2. /\ GatewayType /\ NetType /\ GameType /\ ClientType
      /\ Last(data) /\ RequestsInOrder /\ Noted /\ data \in Data /\ s # 0
  BY DEF Inv, Types, GatewayType, Socks
<1>3. /\ data' \in Data /\ Last(data') /\ data'.session = data.session
      /\ data'.client_order = data.client_order
      /\ data'.sock = IF s \in sock_map /\ exists THEN 0 ELSE data.sock
  BY <1>1, <1>2, BoundType
<1>4. GatewayType'
  BY <1>1, <1>2, <1>3 DEF GatewayType
<1>5. NetType' /\ GameType' /\ ClientType'
  BY <1>1, <1>2 DEF NetType, GameType, ClientType
<1>6. RequestsInOrder'
  BY <1>1, <1>2, <1>3 DEF RequestsInOrder
<1>7. Noted'
  BY <1>1, <1>2, <1>3 DEF Noted, GatewayType
<1>8. Last(data)'
  BY <1>3 DEF Last, Latest, Started
<1>9. QED
  BY <1>4, <1>5, <1>6, <1>7, <1>8 DEF Inv, Types

\* A login of the game server: numbers and kept messages start again.
LEMMA LoginKeeps ==
  ASSUME Inv, NEW m \in Said, m.sock \in Socks, PRSystemLogin(m)
  PROVE  /\ exists' = TRUE /\ data' \in Data /\ Last(data') /\ taken' = <<>>
         /\ sock_map' \subseteq Socks /\ cool' \subseteq Socks /\ down' \in [Socks -> Seq(Sent)]
         /\ RequestsInOrder' /\ Noted'
<1> DEFINE d == Reset([data EXCEPT !.session = m.session])
<1>1. data \in Data /\ NetType /\ m.session \in Nat
  BY DEF Inv, Types, GatewayType, Said
<1>2. Empty \in Buffers(Sent) /\ Empty \in Buffers(Ordered) /\ DOMAIN Empty = {}
  BY EmptyType DEF EmptyData, Data, Empty
<1>3. /\ d \in Data /\ d.server_order = 1 /\ d.client_order = 1 /\ d.server_buff = Empty
  <2> HIDE DEF Empty
  <2> QED BY <1>1, <1>2 DEF Reset, Data
<1> HIDE DEF d
<1>4. Last(d)
  <2>1. Latest(d) = {}
    BY <1>3, SessionAssumption DEF Latest
  <2>2. QED
    BY <1>2, <1>3, <2>1 DEF Last, Started
<1>5. /\ exists' = TRUE /\ data' = Bound(d, m.sock) /\ taken' = <<>> /\ update_sock(m.sock)
      /\ down' = Put(m.sock, <<[kind |-> "login", order |-> 0, n |-> m.session]>>)
  BY DEF PRSystemLogin, d
<1>6. data' \in Data /\ Last(data') /\ data'.sock = m.sock /\ data'.client_order = 1
  BY <1>3, <1>4, <1>5, BoundType
<1>7. sock_map' \subseteq Socks /\ cool' \subseteq Socks /\ m.sock \in sock_map'
  BY <1>5, UpdateSock
<1>8. down' \in [Socks -> Seq(Sent)]
  <2>1. [kind |-> "login", order |-> 0, n |-> m.session] \in Sent
    BY <1>1 DEF Messages, Sent
  <2>2. <<[kind |-> "login", order |-> 0, n |-> m.session]>> \in Seq(Sent)
    <3> HIDE DEF Sent
    <3> QED BY <2>1
  <2>3. QED
    BY <1>1, <1>5, <2>2, PutType
<1>9. RequestsInOrder' /\ Noted'
  BY <1>5, <1>6, <1>7 DEF RequestsInOrder, Noted
<1>10. QED
  BY <1>5, <1>6, <1>7, <1>8, <1>9

\* A kick ends the session.
LEMMA KickKeeps ==
  ASSUME Inv, PRSystemKick
  PROVE  /\ exists' = TRUE /\ data' \in Data /\ Last(data') /\ UNCHANGED <<taken, sock_map, cool>>
         /\ down' \in [Socks -> Seq(Sent)] /\ RequestsInOrder' /\ Noted'
<1>1. data \in Data /\ NetType /\ Last(data) /\ RequestsInOrder /\ Noted
  BY DEF Inv, Types, GatewayType
<1>2. /\ exists' = TRUE /\ data' = [data EXCEPT !.session = 0] /\ UNCHANGED <<sock_map, cool, taken>>
      /\ down' = Put(data.sock, <<Raw("error")>>)
  BY DEF PRSystemKick
<1>3. /\ data' \in Data /\ data'.session = 0 /\ data'.sock = data.sock
      /\ data'.server_order = data.server_order /\ data'.server_buff = data.server_buff
  BY <1>1, <1>2 DEF Data
<1>4. Last(data')
  BY <1>1, <1>3 DEF Last, Latest, Started
<1>5. down' \in [Socks -> Seq(Sent)]
  BY <1>1, <1>2, RawType, PutType
<1>6. RequestsInOrder' /\ Noted'
  BY <1>1, <1>2, <1>3 DEF RequestsInOrder, Noted
<1>7. QED
  BY <1>2, <1>3, <1>4, <1>5, <1>6

\* A load that failed: the gateway forgets the role.
LEMMA UnusualKeeps ==
  ASSUME Inv, UnusualError
  PROVE  /\ exists' = FALSE /\ data' \in Data /\ data'.sock = 0 /\ Last(data')
         /\ UNCHANGED <<taken, sock_map, cool>>
         /\ down' \in [Socks -> Seq(Sent)] /\ RequestsInOrder' /\ Noted'
<1>1. NetType /\ RequestsInOrder
  BY DEF Inv, Types
<1>2. /\ exists' = FALSE /\ data' = EmptyData /\ UNCHANGED <<sock_map, cool, taken>>
      /\ down' = Put(data.sock, <<Raw("error")>>)
  BY DEF UnusualError
<1>3. data' \in Data /\ Last(data') /\ data'.sock = 0
  BY <1>2, EmptyType
<1>4. down' \in [Socks -> Seq(Sent)]
  BY <1>1, <1>2, RawType, PutType
<1>5. RequestsInOrder' /\ Noted'
  BY <1>1, <1>2, <1>3 DEF RequestsInOrder, Noted
<1>6. QED
  BY <1>2, <1>3, <1>4, <1>5

\* A message of the game server is numbered, kept and passed on.
LEMMA ForwardKeeps ==
  ASSUME Inv, NEW m \in Said, Forward(m)
  PROVE  /\ data' \in Data /\ data'.sock = data.sock /\ Last(data')
         /\ UNCHANGED <<exists, taken, sock_map, cool>>
         /\ down' \in [Socks -> Seq(Sent)] /\ RequestsInOrder' /\ Noted'
<1> DEFINE x == Numbered(data, "data", m.n)
<1>1. data \in Data /\ NetType /\ Last(data) /\ RequestsInOrder /\ Noted
  BY DEF Inv, Types, GatewayType
<1>2. x \in Messages /\ x.order = data.server_order
  BY <1>1 DEF Numbered, Messages, Data, Said
<1>3. /\ data' = (IF exists THEN Say(data, x) ELSE data)
      /\ down' = (IF exists THEN Put(data.sock, <<x>>) ELSE down)
      /\ UNCHANGED <<exists, sock_map, cool, taken>>
  BY DEF Forward
<1> HIDE DEF x
<1>4. /\ data' \in Data /\ Last(data') /\ data'.sock = data.sock
      /\ data'.session = data.session /\ data'.client_order = data.client_order
  BY <1>1, <1>2, <1>3, SayType
<1>5. down' \in [Socks -> Seq(Sent)]
  <2>1. ASSUME data.sock \in open
        PROVE  <<x>> \in Seq(Sent)
    <3>1. data.sock # 0
      BY <1>1, <2>1 DEF NetType, Socks
    <3>2. x.order # 0
      BY <1>1, <1>2, <3>1 DEF Last, Started
    <3>3. x \in Sent
      BY <1>2, <3>2 DEF Sent
    <3>4. QED
      BY <3>3
  <2>2. QED
    BY <1>1, <1>3, <2>1, PutType DEF NetType
<1>6. RequestsInOrder' /\ Noted'
  BY <1>1, <1>3, <1>4 DEF RequestsInOrder, Noted
<1>7. QED
  BY <1>3, <1>4, <1>5, <1>6

\* And the next message of the game server.
LEMMA FromGameKeeps ==
  ASSUME Inv, FromGame
  PROVE  Inv'
<1> DEFINE m == Head(from_game)
<1>1. /\ GatewayType /\ NetType /\ GameType /\ ClientType /\ data \in Data
  BY DEF Inv, Types, GatewayType
<1>2. m \in Said /\ from_game' \in Seq(Said)
  <2>1. from_game # <<>> /\ from_game' = Tail(from_game) /\ from_game \in Seq(Said)
    BY <1>1 DEF FromGame, GameType
  <2> HIDE DEF Said
  <2>2. QED
    BY <2>1
<1>3. /\ UNCHANGED <<posted, last_sock, open, closing, up, session, logins, said, client, got>>
      /\ CASE m.kind = "login"   -> PRSystemLogin(m)
           [] m.kind = "data"    -> Forward(m)
           [] m.kind = "kick"    -> PRSystemKick
           [] m.kind = "unusual" -> UnusualError
  BY DEF FromGame
<1> HIDE DEF m
<1>4. /\ exists' \in BOOLEAN /\ data' \in Data /\ (~exists' => data'.sock = 0) /\ Last(data')
      /\ taken' \in Seq(Nat) /\ sock_map' \subseteq Socks /\ cool' \subseteq Socks
      /\ down' \in [Socks -> Seq(Sent)] /\ RequestsInOrder' /\ Noted'
  <2>1. /\ exists \in BOOLEAN /\ taken \in Seq(Nat) /\ sock_map \subseteq Socks /\ cool \subseteq Socks
        /\ (~exists => data.sock = 0)
    BY <1>1 DEF GatewayType
  <2>2. CASE m.kind = "login"
    <3>1. PRSystemLogin(m) /\ m.sock \in Socks
      BY <1>2, <1>3, <2>2 DEF Said
    <3>2. <<>> \in Seq(Nat) /\ TRUE \in BOOLEAN
      OBVIOUS
    <3>3. QED
      BY <1>2, <3>1, <3>2, LoginKeeps
  <2>3. CASE m.kind = "data"
    <3>1. Forward(m)
      BY <1>3, <2>3
    <3>2. QED
      BY <1>2, <2>1, <3>1, ForwardKeeps
  <2>4. CASE m.kind = "kick"
    <3>1. PRSystemKick
      BY <1>3, <2>4
    <3>2. QED
      BY <2>1, <3>1, KickKeeps
  <2>5. CASE m.kind = "unusual"
    <3>1. UnusualError
      BY <1>3, <2>5
    <3>2. QED
      BY <2>1, <3>1, UnusualKeeps
  <2>6. m.kind \in {"login", "data", "kick", "unusual"}
    BY <1>2 DEF Said
  <2>7. QED
    BY <2>2, <2>3, <2>4, <2>5, <2>6
<1>5. GatewayType'
  BY <1>1, <1>3, <1>4 DEF GatewayType
<1>6. NetType' /\ GameType' /\ ClientType'
  BY <1>1, <1>2, <1>3, <1>4 DEF NetType, GameType, ClientType
<1>7. Last(data)'
  BY <1>4 DEF Last, Latest, Started
<1>8. QED
  BY <1>4, <1>5, <1>6, <1>7 DEF Inv, Types

\* A step that leaves the gateway alone keeps its part of the invariant.
LEMMA GatewayAlone ==
  ASSUME Inv, UNCHANGED gateway, NetType', GameType', ClientType'
  PROVE  Inv'
<1>1. UNCHANGED <<exists, data, sock_map, cool, posted, taken>>
  BY DEF gateway
<1>2. GatewayType' /\ Last(data)' /\ RequestsInOrder' /\ Noted'
  BY <1>1 DEF Inv, Types, GatewayType, Last, Latest, Started, RequestsInOrder, Noted
<1>3. QED
  BY <1>2 DEF Inv, Types

\* What the game server does.
LEMMA GameKeeps ==
  ASSUME Inv, GameLogin \/ GameSay \/ GameFault("kick") \/ GameFault("unusual")
  PROVE  Inv'
<1>1. NetType /\ GameType /\ ClientType
  BY DEF Inv, Types
<1>2. /\ UNCHANGED gateway
      /\ UNCHANGED <<last_sock, open, closing, up, down, session, client, got>>
  BY DEF GameLogin, GameSay, GameFault, net
<1>3. NetType' /\ ClientType'
  BY <1>1, <1>2 DEF NetType, ClientType
<1>4. CASE GameLogin
  <2> DEFINE l == Head(logins)
             m == [kind |-> "login", session |-> session, sock |-> l.sock, n |-> 0]
  <2>1. /\ logins # <<>> /\ logins' = Tail(logins)
        /\ \/ from_game' = Append(from_game, m) /\ said' = 0
           \/ UNCHANGED <<from_game, said>>
    BY <1>4 DEF GameLogin
  <2>2. l \in Logins /\ logins' \in Seq(Logins)
    BY <1>1, <2>1 DEF GameType
  <2>3. m \in Said
    BY <1>1, <2>2 DEF Said, GameType, Logins
  <2> HIDE DEF m, l
  <2>4. from_game' \in Seq(Said) /\ said' \in Nat
    <3> HIDE DEF Said
    <3>1. from_game \in Seq(Said) /\ said \in Nat
      BY <1>1 DEF GameType
    <3>2. CASE from_game' = Append(from_game, m) /\ said' = 0
      BY <3>1, <3>2, <2>3
    <3>3. CASE UNCHANGED <<from_game, said>>
      BY <3>1, <3>3
    <3>4. QED
      BY <2>1, <3>2, <3>3
  <2>5. GameType'
    BY <1>1, <1>2, <2>2, <2>4 DEF GameType
  <2>6. QED
    BY <1>2, <1>3, <2>5, GatewayAlone
<1>5. CASE GameSay
  <2> DEFINE m == [kind |-> "data", session |-> 0, sock |-> 0, n |-> said']
  <2>1. said' = said + 1 /\ from_game' = Append(from_game, m) /\ logins' = logins
    BY <1>5 DEF GameSay
  <2>2. said' \in Nat
    BY <1>1, <2>1 DEF GameType
  <2>3. m \in Said
    BY <2>2 DEF Said
  <2> HIDE DEF m
  <2>4. from_game' \in Seq(Said)
    <3> HIDE DEF Said
    <3> QED BY <1>1, <2>1, <2>3 DEF GameType
  <2>5. GameType'
    BY <1>1, <1>2, <2>1, <2>2, <2>4 DEF GameType
  <2>6. QED
    BY <1>2, <1>3, <2>5, GatewayAlone
<1>6. ASSUME NEW kind \in {"kick", "unusual"}, GameFault(kind)
      PROVE  Inv'
  <2> DEFINE m == [kind |-> kind, session |-> 0, sock |-> 0, n |-> 0]
  <2>1. from_game' = Append(from_game, m) /\ logins' = logins /\ said' = said
    BY <1>6 DEF GameFault
  <2>2. m \in Said
    BY DEF Said
  <2> HIDE DEF m
  <2>3. from_game' \in Seq(Said)
    <3> HIDE DEF Said
    <3> QED BY <1>1, <2>1, <2>2 DEF GameType
  <2>4. GameType'
    BY <1>1, <1>2, <2>1, <2>3 DEF GameType
  <2>5. QED
    BY <1>2, <1>3, <2>4, GatewayAlone
<1>7. QED
  BY <1>4, <1>5, <1>6

\* A new connection and the first message over it.
LEMMA ConnectType ==
  ASSUME NetType, Connect, NEW p \in Requests
  PROVE  /\ last_sock' \in 0..MaxSocks /\ last_sock' \in Socks
         /\ open' \subseteq Socks /\ last_sock' \in open'
         /\ [up EXCEPT ![last_sock'] = <<p>>] \in [Socks -> Seq(Requests)]
<1>1. /\ last_sock < MaxSocks /\ last_sock' = last_sock + 1 /\ open' = open \cup {last_sock'}
      /\ last_sock \in 0..MaxSocks /\ open \subseteq Socks /\ up \in [Socks -> Seq(Requests)]
      /\ MaxSocks \in Nat
  BY SessionAssumption DEF NetType, Connect
<1>2. last_sock' \in 0..MaxSocks /\ last_sock' \in Socks
  BY <1>1 DEF Socks
<1>3. <<p>> \in Seq(Requests)
  <2> HIDE DEF Requests
  <2> QED OBVIOUS
<1>4. QED
  BY <1>1, <1>2, <1>3

\* A new session's connection and its login.
LEMMA LoginStep ==
  ASSUME Inv, Login
  PROVE  Inv'
<1> DEFINE p == Packet("login", session', 0)
<1>1. NetType /\ GameType /\ ClientType
  BY DEF Inv, Types
<1>2. /\ session' = session + 1 /\ Connect /\ up' = [up EXCEPT ![last_sock'] = <<p>>]
      /\ client' = [client EXCEPT !.sock = last_sock']
      /\ UNCHANGED gateway /\ UNCHANGED <<closing, down, logins, from_game, said, got>>
  BY DEF Login
<1>3. session' \in Nat
  BY <1>1, <1>2 DEF GameType
<1>4. p \in Requests
  BY <1>3 DEF Packet, Requests
<1> HIDE DEF p
<1>5. /\ last_sock' \in 0..MaxSocks /\ open' \subseteq Socks /\ last_sock' \in open'
      /\ up' \in [Socks -> Seq(Requests)]
  BY <1>1, <1>2, <1>4, ConnectType
<1>6. NetType' /\ GameType' /\ ClientType'
  <2>1. NetType'
    BY <1>1, <1>2, <1>5 DEF NetType
  <2>2. GameType'
    BY <1>1, <1>2, <1>3 DEF GameType
  <2>3. ClientType'
    BY <1>1, <1>2, <1>5 DEF ClientType
  <2>4. QED
    BY <2>1, <2>2, <2>3
<1>7. QED
  BY <1>2, <1>6, GatewayAlone

\* A new connection of the same session.
LEMMA ReconnectStep ==
  ASSUME Inv, Reconnect
  PROVE  Inv'
<1> DEFINE p == Packet("req", client.session, client.client_order)
           next == client.client_order + 1
<1>1. NetType /\ GameType /\ ClientType
  BY DEF Inv, Types
<1>2. /\ Connect /\ up' = [up EXCEPT ![last_sock'] = <<p>>]
      /\ client' = [client EXCEPT !.sock = last_sock', !.client_order = next]
      /\ UNCHANGED gateway /\ UNCHANGED <<closing, down, session, logins, from_game, said, got>>
  BY DEF Reconnect, game
<1>3. p \in Requests /\ next \in Nat
  BY <1>1 DEF Packet, Requests, ClientType
<1> HIDE DEF p, next
<1>4. /\ last_sock' \in 0..MaxSocks /\ open' \subseteq Socks /\ last_sock' \in open'
      /\ up' \in [Socks -> Seq(Requests)]
  BY <1>1, <1>2, <1>3, ConnectType
<1>5. NetType'
  BY <1>1, <1>2, <1>4 DEF NetType
<1>6. GameType'
  BY <1>1, <1>2 DEF GameType
<1>7. ClientType'
  BY <1>1, <1>2, <1>3, <1>4 DEF ClientType
<1>8. QED
  BY <1>2, <1>5, <1>6, <1>7, GatewayAlone

\* A message after those under way over a connection.
LEMMA UpAppend ==
  ASSUME NetType, NEW s \in Socks, NEW p \in Requests
  PROVE  [up EXCEPT ![s] = Append(@, p)] \in [Socks -> Seq(Requests)]
<1>1. up \in [Socks -> Seq(Requests)]
  BY DEF NetType
<1> HIDE DEF Requests
<1>2. up[s] \in Seq(Requests)
  BY <1>1
<1>3. Append(up[s], p) \in Seq(Requests)
  BY <1>2
<1>4. QED
  BY <1>1, <1>3

\* A request over the connection, or lost.
LEMMA SendStep ==
  ASSUME Inv, NEW kind \in {"req", "ping"}, Send(kind)
  PROVE  Inv'
<1> DEFINE p == Packet(kind, client.session, client.client_order)
           next == client.client_order + 1
<1>1. NetType /\ GameType /\ ClientType
  BY DEF Inv, Types
<1>2. /\ client' = [client EXCEPT !.client_order = next]
      /\ up' = (IF client.sock = 0 THEN up ELSE [up EXCEPT ![client.sock] = Append(@, p)])
      /\ UNCHANGED gateway
      /\ UNCHANGED <<last_sock, open, closing, down, session, logins, from_game, said, got>>
  BY DEF Send, game
<1>3. p \in Requests /\ next \in Nat
  BY <1>1 DEF Packet, Requests, ClientType
<1> HIDE DEF p, next
<1>4. up' \in [Socks -> Seq(Requests)]
  <2>1. CASE client.sock = 0
    BY <1>1, <1>2, <2>1 DEF NetType
  <2>2. CASE client.sock # 0
    <3>1. client.sock \in Socks
      BY <1>1, <2>2 DEF ClientType, NetType
    <3>2. QED
      BY <1>1, <1>2, <1>3, <2>2, <3>1, UpAppend
  <2>3. QED
    BY <2>1, <2>2
<1>5. NetType'
  BY <1>1, <1>2, <1>4 DEF NetType
<1>6. GameType'
  BY <1>1, <1>2 DEF GameType
<1>7. ClientType'
  BY <1>1, <1>2, <1>3 DEF ClientType
<1>8. QED
  BY <1>2, <1>5, <1>6, <1>7, GatewayAlone

\* The messages that arrive of a connection that ends are messages.
LEMMA UpCut ==
  ASSUME NetType, NEW s \in Socks, NEW n \in 0..Len(up[s])
  PROVE  [up EXCEPT ![s] = SubSeq(@, 1, n)] \in [Socks -> Seq(Requests)]
<1>1. up \in [Socks -> Seq(Requests)]
  BY DEF NetType
<1> HIDE DEF Requests
<1>2. up[s] \in Seq(Requests)
  BY <1>1
<1>3. SubSeq(up[s], 1, n) \in Seq(Requests)
  BY <1>2
<1>4. QED
  BY <1>1, <1>3

\* What the client does with the next message of its connection.
LEMMA ClientReceiveStep ==
  ASSUME Inv, ClientReceive
  PROVE  Inv'
<1> DEFINE s == client.sock
           m == Head(down[s])
           numbered == m.order # 0
           again == Packet("resend", client.session, client.server_order)
           missed == Packet("req", client.session, m.n)
           next == client.server_order + 1
           fields(c) == c \in [sock : open' \cup {0}, session : Nat, logged : BOOLEAN,
                               client_order : Nat, server_order : Nat]
<1>1. NetType /\ GameType /\ ClientType
  BY DEF Inv, Types
<1>2. s \in Socks /\ s \in open /\ down[s] # <<>> /\ down' = [down EXCEPT ![s] = Tail(@)]
  BY <1>1 DEF ClientReceive, ClientType, NetType
<1>3. m \in Sent /\ down' \in [Socks -> Seq(Sent)]
  <2>1. down \in [Socks -> Seq(Sent)]
    BY <1>1 DEF NetType
  <2> HIDE DEF Sent
  <2>2. down[s] \in Seq(Sent)
    BY <1>2, <2>1
  <2>3. Head(down[s]) \in Sent /\ Tail(down[s]) \in Seq(Sent)
    BY <1>2, <2>2
  <2>4. QED
    BY <1>2, <2>1, <2>3
<1>4. m.order \in Nat /\ m.n \in Nat /\ m.kind \in {"data", "ping", "login", "order", "error"}
  BY <1>3 DEF Messages, Sent
<1>5. again \in Requests /\ missed \in Requests /\ next \in Nat
  BY <1>1, <1>4 DEF Packet, Requests, ClientType
<1>6. /\ client.session \in Nat /\ client.logged \in BOOLEAN /\ client.client_order \in Nat
      /\ client.server_order \in Nat /\ got \in Seq(Nat) /\ up \in [Socks -> Seq(Requests)]
      /\ open \subseteq Socks /\ closing \subseteq Socks
  BY <1>1 DEF ClientType, NetType
<1>7. /\ UNCHANGED gateway /\ UNCHANGED <<last_sock, session, logins, from_game, said>>
  BY DEF ClientReceive, game
<1>8. /\ open' \subseteq Socks /\ closing' \subseteq Socks /\ up' \in [Socks -> Seq(Requests)]
      /\ fields(client') /\ got' \in Seq(Nat)
  <2>1. CASE numbered /\ client.logged /\ Expected(m.order)
    <3>1. /\ UNCHANGED <<open, closing, up>> /\ client' = [client EXCEPT !.server_order = next]
          /\ got' = (IF m.kind = "data" THEN Append(got, m.n) ELSE got)
      BY <2>1 DEF ClientReceive
    <3> HIDE DEF m, next
    <3>2. fields(client')
      BY <1>1, <1>5, <3>1 DEF ClientType
    <3>3. got' \in Seq(Nat)
      BY <1>4, <1>6, <3>1
    <3>4. QED
      BY <1>6, <3>1, <3>2, <3>3
  <2>2. CASE numbered /\ ~(client.logged /\ Expected(m.order))
    <3>1. /\ UNCHANGED <<open, closing, client, got>>
          /\ up' = (IF client.logged /\ m.order > client.server_order
                      THEN [up EXCEPT ![s] = Append(@, again)] ELSE up)
      BY <2>2 DEF ClientReceive
    <3> HIDE DEF m, again
    <3>2. up' \in [Socks -> Seq(Requests)]
      BY <1>1, <1>2, <1>5, <1>6, <3>1, UpAppend
    <3>3. fields(client')
      BY <1>1, <3>1 DEF ClientType
    <3>4. QED
      BY <1>6, <3>1, <3>2, <3>3
  <2>3. CASE ~numbered /\ m.kind = "login"
    <3>1. /\ client' = [sock |-> s, session |-> m.n, logged |-> TRUE,
                        client_order |-> 1, server_order |-> 1]
          /\ got' = <<>> /\ UNCHANGED <<up, open, closing>>
      BY <2>3 DEF ClientReceive
    <3> HIDE DEF m, s
    <3>2. fields(client')
      BY <1>2, <1>4, <3>1
    <3>3. QED
      BY <1>6, <3>1, <3>2
  <2>4. CASE ~numbered /\ m.kind = "order"
    <3>1. /\ up' = up \/ up' = [up EXCEPT ![s] = Append(@, missed)]
          /\ UNCHANGED <<client, got, open, closing>>
      BY <2>4 DEF ClientReceive
    <3> HIDE DEF m, missed
    <3>2. up' \in [Socks -> Seq(Requests)]
      <4>1. CASE up' = up
        BY <4>1, <1>6
      <4>2. CASE up' = [up EXCEPT ![s] = Append(@, missed)]
        <5> HIDE DEF s
        <5>1. [up EXCEPT ![s] = Append(@, missed)] \in [Socks -> Seq(Requests)]
          BY <1>1, <1>2, <1>5, UpAppend
        <5>2. QED
          BY <4>2, <5>1
      <4>3. QED
        BY <3>1, <4>1, <4>2
    <3>3. fields(client')
      BY <1>1, <3>1 DEF ClientType
    <3>4. QED
      BY <1>6, <3>1, <3>2, <3>3
  <2>5. CASE ~numbered /\ m.kind = "error"
    <3>1. /\ End(s) /\ client' = [client EXCEPT !.sock = 0, !.logged = FALSE] /\ got' = got
          /\ \E i \in 0..Len(up[s]) : up' = [up EXCEPT ![s] = SubSeq(@, 1, i)]
      BY <2>5 DEF ClientReceive
    <3> HIDE DEF m, s
    <3>2. up' \in [Socks -> Seq(Requests)]
      BY <1>1, <1>2, <3>1, UpCut
    <3>3. open' \subseteq Socks /\ closing' \subseteq Socks
      BY <1>2, <1>6, <3>1 DEF End
    <3>4. fields(client')
      BY <1>1, <3>1 DEF ClientType
    <3>5. QED
      BY <1>6, <3>1, <3>2, <3>3, <3>4
  <2>6. m.kind \in {"login", "order", "error"} \/ numbered
    BY <1>3 DEF Sent
  <2>7. QED
    BY <2>1, <2>2, <2>3, <2>4, <2>5, <2>6
<1>9. NetType' /\ GameType' /\ ClientType'
  <2>1. NetType'
    BY <1>1, <1>3, <1>7, <1>8 DEF NetType
  <2>2. GameType'
    BY <1>1, <1>7 DEF GameType
  <2>3. ClientType'
    BY <1>8 DEF ClientType
  <2>4. QED
    BY <2>1, <2>2, <2>3
<1>10. QED
  BY <1>7, <1>9, GatewayAlone

\* A connection breaks.
LEMMA BreakStep ==
  ASSUME Inv, client.sock # 0, NEW i \in 0..Len(up[client.sock]), Break(i)
  PROVE  Inv'
<1> DEFINE s == client.sock
<1>1. NetType /\ GameType /\ ClientType
  BY DEF Inv, Types
<1>2. s \in Socks
  BY <1>1 DEF ClientType, NetType
<1>3. /\ open' = open \ {s} /\ closing' = closing \cup {s}
      /\ up' = [up EXCEPT ![s] = SubSeq(@, 1, i)] /\ down' = [down EXCEPT ![s] = <<>>]
      /\ client' = [client EXCEPT !.sock = 0]
      /\ UNCHANGED gateway /\ UNCHANGED <<last_sock, session, logins, from_game, said, got>>
  BY DEF Break, End, game
<1>4. up' \in [Socks -> Seq(Requests)]
  BY <1>1, <1>2, <1>3, UpCut
<1>5. NetType'
  BY <1>1, <1>2, <1>3, <1>4 DEF NetType
<1>6. GameType'
  BY <1>1, <1>3 DEF GameType
<1>7. ClientType'
  BY <1>1, <1>3 DEF ClientType
<1>8. QED
  BY <1>3, <1>5, <1>6, <1>7, GatewayAlone

-----------------------------------------------------------------------------
(* The invariant is inductive.                                             *)

\* The invariant holds in the initial state.
LEMMA InitInv == Init => Inv
<1> SUFFICES ASSUME Init PROVE Inv
  OBVIOUS
<1>1. /\ exists = FALSE /\ data = EmptyData /\ sock_map = {} /\ cool = {} /\ posted = <<>> /\ taken = <<>>
      /\ last_sock = 0 /\ open = {} /\ closing = {}
      /\ up = [s \in Socks |-> <<>>] /\ down = [s \in Socks |-> <<>>]
      /\ session = 0 /\ logins = <<>> /\ from_game = <<>> /\ said = 0 /\ got = <<>>
      /\ client = [sock |-> 0, session |-> 0, logged |-> FALSE, client_order |-> 1, server_order |-> 1]
  BY DEF Init
<1>2. data \in Data /\ Last(data) /\ data.sock = 0
  BY <1>1, EmptyType
<1>3. GatewayType
  <2>1. posted \in Seq(Ordered) /\ taken \in Seq(Nat)
    BY <1>1
  <2>2. exists \in BOOLEAN /\ sock_map \subseteq Socks /\ cool \subseteq Socks
    BY <1>1
  <2>3. QED
    BY <1>2, <2>1, <2>2 DEF GatewayType
<1>4. NetType
  BY <1>1, SessionAssumption DEF NetType
<1>5. GameType /\ ClientType
  BY <1>1 DEF GameType, ClientType
<1>6. RequestsInOrder /\ Noted
  BY <1>1, <1>2 DEF RequestsInOrder, Noted
<1>7. QED
  BY <1>2, <1>3, <1>4, <1>5, <1>6 DEF Inv, Types

\* A stutter keeps it.
LEMMA StutterInv ==
  ASSUME Inv, UNCHANGED vars
  PROVE  Inv'
<1>1. NetType' /\ GameType' /\ ClientType'
  BY DEF vars, net, game, Inv, Types, NetType, GameType, ClientType
<1>2. UNCHANGED gateway
  BY DEF vars
<1>3. QED
  BY <1>1, <1>2, GatewayAlone

\* What holds initially and is kept by every step holds always.
LEMMA Invariant == Spec => []Inv
<1>1. Inv /\ [Next]_vars => Inv'
  <2> SUFFICES ASSUME Inv, [Next]_vars PROVE Inv'
    OBVIOUS
  <2>1. ASSUME NEW s \in Socks, Receive(s)
        PROVE  Inv'
    BY <2>1, ReceiveKeeps
  <2>2. ASSUME NEW s \in Socks, Close(s)
        PROVE  Inv'
    BY <2>2, CloseKeeps
  <2>3. CASE Repeat
    BY <2>3, RepeatKeeps
  <2>4. CASE FromGame
    BY <2>4, FromGameKeeps
  <2>5. CASE GameLogin \/ GameSay \/ GameFault("kick") \/ GameFault("unusual")
    BY <2>5, GameKeeps
  <2>6. CASE Login
    BY <2>6, LoginStep
  <2>7. CASE Send("req") \/ Send("ping")
    BY <2>7, SendStep
  <2>8. CASE Reconnect
    BY <2>8, ReconnectStep
  <2>9. CASE ClientReceive
    BY <2>9, ClientReceiveStep
  <2>10. ASSUME client.sock # 0, NEW i \in 0..Len(up[client.sock]), Break(i)
         PROVE  Inv'
    BY <2>10, BreakStep
  <2>11. CASE UNCHANGED vars
    BY <2>11, StutterInv
  <2>12. QED
    BY <2>1, <2>2, <2>3, <2>4, <2>5, <2>6, <2>7, <2>8, <2>9, <2>10, <2>11 DEF Next
<1>2. QED
  BY InitInv, <1>1, PTL DEF Spec

\* Stray connections are connections that were noted.
StrayType == stray \subseteq Socks

LEMMA StrayAreSocks == Spec => []StrayType
<1>1. Init => StrayType
  BY DEF Init, StrayType
<1>2. Inv /\ Inv' /\ StrayType /\ [Next]_vars => StrayType'
  <2> SUFFICES ASSUME Inv, Inv', StrayType, [Next]_vars PROVE stray' \subseteq Socks
    BY DEF StrayType
  <2> USE DEF StrayType
  <2>1. sock_map' \subseteq Socks /\ (data.sock # 0 => data.sock \in Socks)
    BY DEF Inv, Types, GatewayType, Data
  <2>2. LeavesNoted => stray' \subseteq Socks
    BY <2>1 DEF LeavesNoted
  <2>3. ASSUME NEW s \in Socks, Close(s)
        PROVE  stray' \subseteq Socks
    BY <2>1, <2>3 DEF Close
  <2>4. UNCHANGED gateway => stray' \subseteq Socks
    BY DEF gateway
  <2>5. CASE (\E s \in Socks : Receive(s)) \/ Repeat \/ FromGame
    BY <2>2, <2>5 DEF Receive, Repeat, FromGame
  <2>6. CASE GameLogin \/ GameSay \/ GameFault("kick") \/ GameFault("unusual")
    BY <2>4, <2>6 DEF GameLogin, GameSay, GameFault
  <2>7. CASE Login \/ Send("req") \/ Send("ping") \/ Reconnect \/ ClientReceive
    BY <2>4, <2>7 DEF Login, Send, Reconnect, ClientReceive
  <2>8. CASE \E i \in 0..Len(up[client.sock]) : Break(i)
    BY <2>4, <2>8 DEF Break
  <2>9. CASE UNCHANGED vars
    BY <2>4, <2>9 DEF vars
  <2>10. QED
    BY <2>3, <2>5, <2>6, <2>7, <2>8, <2>9 DEF Next
<1>3. QED
  BY Invariant, <1>1, <1>2, PTL DEF Spec

\* Every variable has its type: in particular a connection a client uses
\* stands, and what is kept are numbered requests and messages.
THEOREM SessionTypes == Spec => []TypeOK
<1>1. Inv /\ StrayType => TypeOK
  <2> SUFFICES ASSUME Inv, StrayType PROVE TypeOK
    OBVIOUS
  <2>1. /\ GatewayType /\ NetType /\ ClientType /\ data \in Data /\ exists \in BOOLEAN
    BY DEF Inv, Types, GatewayType
  <2>2. /\ data.session \in Nat /\ data.sock \in Socks \cup {0}
        /\ data.server_order \in Nat /\ data.client_order \in Nat
        /\ data.server_buff \in Buffers(Sent) /\ data.client_buff \in Buffers(Ordered)
    BY <2>1 DEF Data
  <2>3. /\ data.server_buff \in [DOMAIN data.server_buff -> Messages]
    <3>1. PICK D \in SUBSET Nat : data.server_buff \in [D -> Sent]
      BY <2>2 DEF Buffers
    <3>2. DOMAIN data.server_buff = D /\ Sent \subseteq Messages
      BY <3>1 DEF Sent
    <3> HIDE DEF Sent, Messages
    <3>3. QED
      BY <3>1, <3>2
  <2>4. data.client_buff \in [DOMAIN data.client_buff -> Requests]
    <3>1. PICK D \in SUBSET Nat : data.client_buff \in [D -> Ordered]
      BY <2>2 DEF Buffers
    <3>2. DOMAIN data.client_buff = D /\ Ordered \subseteq Requests
      BY <3>1 DEF Ordered, Requests
    <3> HIDE DEF Ordered, Requests
    <3>3. QED
      BY <3>1, <3>2
  <2>5. posted \in Seq(Requests)
    <3>1. posted \in Seq(Ordered) /\ Ordered \subseteq Requests
      BY <2>1 DEF GatewayType, Ordered, Requests
    <3> HIDE DEF Ordered, Requests
    <3>2. QED
      BY <3>1
  <2>6. down \in [Socks -> Seq(Messages)]
    <3>1. down \in [Socks -> Seq(Sent)] /\ Sent \subseteq Messages
      BY <2>1 DEF NetType, Sent
    <3> HIDE DEF Sent, Messages
    <3>2. ASSUME NEW s \in Socks
          PROVE  down[s] \in Seq(Messages)
      <4>1. down[s] \in Seq(Sent)
        BY <3>1
      <4>2. QED
        BY <3>1, <4>1
    <3>3. QED
      BY <3>1, <3>2
  <2>7. QED
    BY <2>1, <2>2, <2>3, <2>4, <2>5, <2>6 DEF GatewayType, NetType, ClientType, StrayType, TypeOK
<1>2. QED
  BY Invariant, StrayAreSocks, <1>1, PTL

\* Since it was logged in a role's requests are taken one by one in the order
\* they were numbered, whatever is lost, kept or sent again (pack_order_*).
THEOREM TakenInOrder == Spec => []RequestsInOrder
<1>1. Inv => RequestsInOrder
  BY DEF Inv
<1>2. QED
  BY Invariant, <1>1, PTL

\* The gateway keeps the last BUFFER_MAX messages to a role without a gap, up
\* to the one it sent last (user::write, buffer_push).
THEOREM GatewayKeepsLast == Spec => []KeepsLast
<1>1. Inv => KeepsLast
  BY DEF Inv, Last, Latest, KeepsLast
<1>2. QED
  BY Invariant, <1>1, PTL

-----------------------------------------------------------------------------
(***************************************************************************)
(* A client reads what the game server said (AnswersInOrder).  It needs    *)
(* the sessions: a role's login is on its way, through the connection, the *)
(* gateway and the game server, or it was answered and the numbers of the  *)
(* gateway and the client count the same messages.                         *)
(***************************************************************************)
(* The inductive invariant.                                                *)

\* There is one connection, the newest one; those to come are empty.
Newest ==
  /\ \A s \in Socks : s > last_sock => up[s] = <<>> /\ down[s] = <<>>
  /\ data.sock <= last_sock /\ client.sock \in {0, last_sock} /\ open \subseteq {client.sock}

\* Logins on their way are of sessions and connections made.
SentBefore ==
  \A s \in Socks : \A i \in DOMAIN up[s] : up[s][i].kind = "login" => up[s][i].session <= session
TakenBefore ==
  \A i \in DOMAIN logins : logins[i].session <= session /\ logins[i].sock <= last_sock
PassedBefore ==
  \A i \in DOMAIN from_game : from_game[i].kind = "login" =>
    from_game[i].session <= session /\ from_game[i].sock <= last_sock

\* What the game server says waits for nothing else (a bound of the model).
OnlyFirst == \A i \in DOMAIN from_game : from_game[i].kind = "data" => i = 1

Past == Newest /\ SentBefore /\ TakenBefore /\ PassedBefore /\ OnlyFirst

\* The login of the newest session is at none of its stations.
NotSent(s) == \A i \in DOMAIN up[s] : up[s][i].kind = "login" => up[s][i].session # session
NotTaken   == \A i \in DOMAIN logins : logins[i].session # session
NotPassed  == \A i \in DOMAIN from_game : from_game[i].kind = "login" => from_game[i].session # session
NoneBehind(i) == \A j \in DOMAIN from_game : j > i => from_game[j].kind # "login"

\* Until it is answered nobody writes to its connection.
Unanswered ==
  /\ last_sock \in Socks /\ ~client.logged
  /\ down[last_sock] = <<>> /\ data.sock # last_sock
  /\ \A i \in DOMAIN logins : logins[i].session # session => logins[i].sock # last_sock
  /\ \A i \in DOMAIN from_game : from_game[i].kind = "login" /\ from_game[i].session # session
                                   => from_game[i].sock # last_sock
  /\ \A s \in Socks : s # last_sock => NotSent(s)

OnConnection ==
  /\ Unanswered /\ NotTaken /\ NotPassed
  /\ Len(up[last_sock]) = 1
  /\ up[last_sock][1].kind = "login" /\ up[last_sock][1].session = session

AtGame ==
  /\ Unanswered /\ NotPassed /\ up[last_sock] = <<>>
  /\ \E i \in DOMAIN logins :
       /\ logins[i].session = session /\ logins[i].sock = last_sock
       /\ \A j \in DOMAIN logins : j # i => logins[j].session # session

AtGateway ==
  /\ Unanswered /\ NotTaken /\ up[last_sock] = <<>> /\ said = 0
  /\ \E i \in DOMAIN from_game :
       /\ from_game[i].kind = "login" /\ from_game[i].sock = last_sock
       /\ NoneBehind(i)
       /\ \A j \in DOMAIN from_game : from_game[j].kind = "login" /\ j # i => from_game[j].session # session

\* A log of a session: log[o] is how much of what the game server said has a
\* number below o.
Follows(log, m) ==
  /\ m.kind # "login"
  /\ m.order # 0 => /\ m.order \in 1..Len(log) - 1
                    /\ log[m.order + 1] = log[m.order] + (IF m.kind = "data" THEN 1 ELSE 0)
                    /\ m.kind = "data" => m.n = log[m.order + 1]

InFlight == from_game # <<>> /\ from_game[1].kind = "data"

\* The gateway counts by the log, or has forgotten the role until it logs in.
Counts(d, log) ==
  /\ d.server_order = Len(log)
  /\ \A o \in DOMAIN d.server_buff : Follows(log, d.server_buff[o])
Saying(log) ==
  IF InFlight THEN from_game[1].n = said /\ said = log[Len(log)] + 1 ELSE said = log[Len(log)]
Gone(d) == d.sock = 0 /\ d.session = 0
Numbers(log) == Gone(data) \/ (exists /\ Counts(data, log) /\ Saying(log))

\* The client reads by the log, from the answer to its login on.
Reads(log) ==
  /\ client.logged =>
       /\ client.server_order \in 1..Len(log) /\ Len(got) = log[client.server_order]
       /\ client.sock # 0 => \A i \in DOMAIN down[client.sock] : Follows(log, down[client.sock][i])
  /\ ~client.logged =>
       /\ down[client.sock] # <<>>
       /\ down[client.sock][1].kind = "login" /\ down[client.sock][1].order = 0
       /\ \A i \in DOMAIN down[client.sock] : i # 1 => Follows(log, down[client.sock][i])

Log(log) == log # <<>> /\ log[1] = 0 /\ Numbers(log) /\ Reads(log)

Answered ==
  /\ NotTaken /\ NotPassed /\ \A s \in Socks : NotSent(s)
  /\ client.logged \/ client.sock # 0 =>
       /\ NoneBehind(0)
       /\ \E log \in Seq(Nat) : Log(log)

Told == \A i \in DOMAIN got : got[i] = i

AInv == Past /\ Told /\ (OnConnection \/ AtGame \/ AtGateway \/ Answered)

-----------------------------------------------------------------------------
(* Lemmas about sequences, logs and what is written.                       *)

\* The rest of a sequence.
LEMMA TailItems ==
  ASSUME NEW T, NEW q \in Seq(T), q # <<>>
  PROVE  /\ Head(q) = q[1] /\ 1 \in DOMAIN q /\ Tail(q) \in Seq(T)
         /\ \A i \in DOMAIN Tail(q) : i + 1 \in DOMAIN q /\ Tail(q)[i] = q[i + 1]
         /\ \A i \in DOMAIN q : i # 1 => i - 1 \in DOMAIN Tail(q) /\ Tail(q)[i - 1] = q[i]
  OBVIOUS

\* A sequence with one more entry.
LEMMA AppendItems ==
  ASSUME NEW T, NEW q \in Seq(T), NEW x \in T
  PROVE  /\ Append(q, x) \in Seq(T) /\ Len(Append(q, x)) = Len(q) + 1
         /\ Append(q, x)[Len(q) + 1] = x
         /\ \A i \in DOMAIN q : i \in DOMAIN Append(q, x) /\ Append(q, x)[i] = q[i]
         /\ \A i \in DOMAIN Append(q, x) : i \in DOMAIN q \/ i = Len(q) + 1
         /\ DOMAIN q = 1..Len(q) /\ DOMAIN Append(q, x) = 1..(Len(q) + 1)
  OBVIOUS

\* Two sequences, one behind the other.
LEMMA ConcatItems ==
  ASSUME NEW T, NEW q \in Seq(T), NEW r \in Seq(T)
  PROVE  /\ q \o r \in Seq(T) /\ Len(q \o r) = Len(q) + Len(r)
         /\ \A i \in DOMAIN q : i \in DOMAIN (q \o r) /\ (q \o r)[i] = q[i]
         /\ \A i \in DOMAIN (q \o r) : i \in DOMAIN q \/ (i - Len(q) \in DOMAIN r /\ (q \o r)[i] = r[i - Len(q)])
  OBVIOUS

\* A log goes on by at most one number in a step.
Longer(log, more) == more \in Seq(Nat) /\ (more = log \/ \E x \in Nat : more = Append(log, x))

\* It begins as it did.
LEMMA LongerItems ==
  ASSUME NEW log \in Seq(Nat), NEW more, Longer(log, more)
  PROVE  /\ Len(more) \in Nat /\ Len(log) \in Nat /\ Len(log) <= Len(more)
         /\ \A i \in 1..Len(log) : more[i] = log[i]
<1>1. CASE more = log
  BY <1>1
<1>2. ASSUME NEW x \in Nat, more = Append(log, x)
      PROVE  /\ Len(more) \in Nat /\ Len(log) \in Nat /\ Len(log) <= Len(more)
             /\ \A i \in 1..Len(log) : more[i] = log[i]
  BY <1>2, AppendItems
<1>3. QED
  BY <1>1, <1>2 DEF Longer

\* What followed it still does.
LEMMA FollowsMore ==
  ASSUME NEW log \in Seq(Nat), NEW more, Longer(log, more), NEW m \in Messages, Follows(log, m)
  PROVE  Follows(more, m)
<1>1. /\ Len(more) \in Nat /\ Len(log) \in Nat /\ Len(log) <= Len(more)
      /\ \A i \in 1..Len(log) : more[i] = log[i]
  BY LongerItems
<1>2. m.kind # "login"
  BY DEF Follows
<1>3. ASSUME m.order # 0
      PROVE  /\ m.order \in 1..Len(more) - 1
             /\ more[m.order + 1] = more[m.order] + (IF m.kind = "data" THEN 1 ELSE 0)
             /\ m.kind = "data" => m.n = more[m.order + 1]
  <2>1. /\ m.order \in 1..Len(log) - 1
        /\ log[m.order + 1] = log[m.order] + (IF m.kind = "data" THEN 1 ELSE 0)
        /\ m.kind = "data" => m.n = log[m.order + 1]
    BY <1>3 DEF Follows
  <2>2. m.order \in 1..Len(log) /\ m.order + 1 \in 1..Len(log) /\ m.order \in 1..Len(more) - 1
    <3>1. Len(more) \in Nat /\ Len(log) \in Nat /\ Len(log) <= Len(more)
      BY <1>1
    <3>2. m.order \in 1..Len(log) - 1
      BY <2>1
    <3>3. QED
      BY <3>1, <3>2
  <2>3. QED
    BY <1>1, <2>1, <2>2
<1>4. QED
  BY <1>2, <1>3 DEF Follows

\* A message that takes the next number makes the log longer.
LEMMA CountsSay ==
  ASSUME NEW d \in Data, Last(d), NEW log \in Seq(Nat), log # <<>>, Counts(d, log),
         NEW m \in Messages, m.order = d.server_order, m.kind \in {"data", "ping"},
         NEW x \in Nat, x = log[Len(log)] + (IF m.kind = "data" THEN 1 ELSE 0),
         m.kind = "data" => m.n = x
  PROVE  /\ Longer(log, Append(log, x)) /\ Counts(Say(d, m), Append(log, x))
         /\ Follows(Append(log, x), m)
         /\ Append(log, x)[Len(Append(log, x))] = x
<1> DEFINE more == Append(log, x)
<1>1. /\ Len(log) \in Nat /\ Len(log) >= 1 /\ d.server_order = Len(log)
      /\ \A o \in DOMAIN d.server_buff : Follows(log, d.server_buff[o])
  BY DEF Counts
<1>2. /\ more \in Seq(Nat) /\ Len(more) = Len(log) + 1 /\ more[Len(log) + 1] = x
      /\ more[Len(log)] = log[Len(log)] /\ more[Len(more)] = x
  BY <1>1, AppendItems
<1>3. Longer(log, more)
  BY <1>2 DEF Longer
<1> HIDE DEF more
<1>4. Follows(more, m)
  <2>1. m.order \in 1..Len(more) - 1
    BY <1>1, <1>2
  <2>2. more[m.order + 1] = x /\ more[m.order] = log[Len(log)]
    BY <1>1, <1>2
  <2>3. QED
    BY <2>1, <2>2 DEF Follows
<1>5. PICK D \in SUBSET Nat : d.server_buff \in [D -> Sent]
  BY DEF Data, Buffers
<1>6. ASSUME NEW o \in DOMAIN d.server_buff
      PROVE  Follows(more, d.server_buff[o])
  <2>1. d.server_buff[o] \in Messages
    BY <1>5 DEF Sent
  <2>2. QED
    BY <1>1, <1>3, <2>1, FollowsMore
<1> DEFINE buff == Kept(d.server_buff, m.order, m)
           all == [o \in DOMAIN d.server_buff \cup {m.order} |-> IF o = m.order THEN m ELSE d.server_buff[o]]
<1>7. ASSUME NEW o \in DOMAIN buff
      PROVE  Follows(more, buff[o])
  <2>1. \A i \in DOMAIN all : Follows(more, all[i])
    BY <1>4, <1>6
  <2>2. buff = all \/ \E S : buff = Restrict(all, DOMAIN all \ S)
    <3> HIDE DEF all
    <3> QED BY DEF Kept, all
  <2> HIDE DEF all, buff
  <2>3. CASE buff = all
    BY <2>1, <2>3
  <2>4. ASSUME NEW S, buff = Restrict(all, DOMAIN all \ S)
        PROVE  Follows(more, buff[o])
    <3>1. o \in DOMAIN all /\ buff[o] = all[o]
      BY <2>4 DEF Restrict
    <3>2. QED
      BY <2>1, <3>1
  <2>5. QED
    BY <2>2, <2>3, <2>4
<1>8. Say(d, m).server_order = d.server_order + 1 /\ Say(d, m).server_buff = buff
  <2> HIDE DEF buff
  <2>1. Say(d, m) = [d EXCEPT !.server_order = @ + 1, !.server_buff = buff]
    BY <1>1 DEF Say, buff
  <2>2. QED
    BY <2>1 DEF Data
<1>9. Counts(Say(d, m), more)
  <2> HIDE DEF buff
  <2> QED BY <1>1, <1>2, <1>7, <1>8 DEF Counts
<1>10. QED
  BY <1>2, <1>3, <1>4, <1>9 DEF more

\* What is written to a connection is on its way behind the rest.
LEMMA PutAt ==
  ASSUME NetType, NEW s, NEW out, NEW q \in Socks
  PROVE  Put(s, out)[q] = IF q = s /\ s \in open THEN down[q] \o out ELSE down[q]
  BY DEF Put, NetType

-----------------------------------------------------------------------------
(* What the gateway writes.                                                *)

\* A step writes to connections what follows a log.
Writes(more) ==
  \A q \in Socks : \/ down'[q] = down[q]
                   \/ \E out \in Seq(Sent) : /\ down'[q] = down[q] \o out
                                             /\ \A i \in DOMAIN out : Follows(more, out[i])

\* The gateway numbers by the log that goes on.
NumbersOn(log) == \E more : Longer(log, more) /\ Numbers(more)' /\ Writes(more)

\* Nothing is written to one connection, and the role is not bound to it.
Leaves(q) == down'[q] = down[q] /\ data'.sock # q

\* One write of what follows the log.
LEMMA PutWrites ==
  ASSUME NetType, NEW more, NEW s, NEW out, down' = Put(s, out),
         s \in open => out \in Seq(Sent) /\ \A i \in DOMAIN out : Follows(more, out[i])
  PROVE  Writes(more)
<1>1. ASSUME NEW q \in Socks
      PROVE  \/ down'[q] = down[q]
             \/ \E o \in Seq(Sent) : down'[q] = down[q] \o o /\ \A i \in DOMAIN o : Follows(more, o[i])
  <2>1. down'[q] = IF q = s /\ s \in open THEN down[q] \o out ELSE down[q]
    BY PutAt
  <2> HIDE DEF Sent
  <2>2. QED
    BY <2>1
<1>2. QED
  BY <1>1 DEF Writes

\* A write of one message.
LEMMA PutOne ==
  ASSUME NetType, NEW more, NEW s, NEW m, down' = Put(s, <<m>>),
         s \in open => m \in Sent /\ Follows(more, m)
  PROVE  Writes(more)
<1>1. s \in open => <<m>> \in Seq(Sent) /\ \A i \in DOMAIN <<m>> : Follows(more, <<m>>[i])
  <2> HIDE DEF Sent
  <2>1. DOMAIN <<m>> = 1..1 /\ <<m>>[1] = m
    OBVIOUS
  <2>2. \A i \in DOMAIN <<m>> : <<m>>[i] = m
    BY <2>1
  <2>3. QED
    BY <2>2
<1>2. QED
  BY <1>1, PutWrites

\* An error has no number.
LEMMA ErrorFollows ==
  ASSUME NEW log
  PROVE  Follows(log, Raw("error"))
  BY DEF Follows, Raw

\* What is sent again follows the log.
LEMMA ResentFollows ==
  ASSUME NEW d \in Data, Last(d), NEW order \in DOMAIN d.server_buff, NEW log, Counts(d, log)
  PROVE  \A i \in DOMAIN Resent(d, order) : Follows(log, Resent(d, order)[i])
<1>1. \A i \in DOMAIN Resent(d, order) : \E o \in DOMAIN d.server_buff : Resent(d, order)[i] = d.server_buff[o]
  BY ResentKept
<1>2. QED
  BY <1>1 DEF Counts

\* The order of requests writes to the role's connection only.
LEMMA InOrderLeaves ==
  ASSUME NetType, NEW d, NEW p, NEW rest, NEW answer, NEW m, InOrder(d, p, rest, answer, m),
         NEW q \in Socks, q # d.sock
  PROVE  down'[q] = down[q]
<1>1. down' = down \/ \E out : down' = Put(d.sock, out)
  BY DEF InOrder
<1>2. QED
  BY <1>1, PutAt

\* And it goes on with the log.
LEMMA InOrderLog ==
  ASSUME NetType, exists,
         NEW d \in Data, Last(d), NEW p \in Ordered, NEW rest, NEW answer \in BOOLEAN, NEW m,
         answer => m \in Messages /\ m.order = d.server_order /\ m.kind = "ping",
         InOrder(d, p, rest, answer, m),
         NEW log \in Seq(Nat), log # <<>>, Counts(d, log)
  PROVE  \E more : /\ Longer(log, more) /\ Writes(more) /\ more[Len(more)] = log[Len(log)]
                   /\ (Gone(data') \/ (exists' /\ Counts(data', more)))
<1> DEFINE last == log[Len(log)]
           Goal(more) == /\ Longer(log, more) /\ Writes(more) /\ more[Len(more)] = last
                         /\ (Gone(data') \/ (exists' /\ Counts(data', more)))
<1>1. Len(log) \in Nat /\ Len(log) >= 1 /\ last \in Nat /\ Longer(log, log)
  BY DEF Longer
<1>2. CASE InTurn(d, p)
  <2> DEFINE e == Turn(d, p)
  <2>1. /\ data' = (IF answer THEN Say(e, m) ELSE e) /\ exists' = exists
        /\ down' = (IF answer THEN Put(d.sock, <<m>>) ELSE down)
    BY <1>2 DEF InOrder
  <2>2. /\ e \in Data /\ Last(e) /\ e.server_order = d.server_order /\ e.server_buff = d.server_buff
    BY TurnType
  <2> HIDE DEF e
  <2>3. Counts(e, log)
    BY <2>2 DEF Counts
  <2>4. CASE answer
    <3>1. m \in Messages /\ m.order = e.server_order /\ m.kind = "ping" /\ m.order # 0
      BY <1>1, <2>2, <2>4 DEF Counts
    <3>2. last = log[Len(log)] + (IF m.kind = "data" THEN 1 ELSE 0)
      BY <1>1, <3>1
    <3> DEFINE more == Append(log, last)
    <3>3. /\ Longer(log, more) /\ Counts(Say(e, m), more)
          /\ Follows(more, m) /\ more[Len(more)] = last
      <4> HIDE DEF last
      <4> QED BY <1>1, <2>2, <2>3, <3>1, <3>2, CountsSay
    <3> HIDE DEF more, last
    <3>4. m \in Sent
      BY <3>1 DEF Sent
    <3>5. Writes(more)
      BY <2>1, <2>4, <3>3, <3>4, PutOne
    <3>6. Goal(more)
      BY <2>1, <2>4, <3>3, <3>5
    <3>7. QED
      BY <3>6 DEF last
  <2>5. CASE ~answer
    <3>1. Writes(log)
      BY <2>1, <2>5 DEF Writes
    <3>2. Goal(log)
      BY <1>1, <2>1, <2>3, <2>5, <3>1
    <3>3. QED
      BY <3>2
  <2>6. QED
    BY <2>4, <2>5
<1>3. CASE ~InTurn(d, p) /\ p.order > d.client_order
  <2> DEFINE missing == [kind |-> "order", order |-> 0, n |-> d.client_order]
  <2>1. /\ data' = Push(d, p) /\ exists' = ~Hoards(d)
        /\ down' = (IF Hoards(d) THEN down ELSE Put(d.sock, <<missing>>))
    BY <1>3 DEF InOrder
  <2>2. missing \in Sent /\ Follows(log, missing)
    <3>1. missing \in Sent
      BY DEF Data, Messages, Sent
    <3>2. Follows(log, missing)
      BY DEF Follows
    <3>3. QED
      BY <3>1, <3>2
  <2> HIDE DEF missing
  <2>3. Writes(log)
    <3>1. CASE Hoards(d)
      BY <2>1, <3>1 DEF Writes
    <3>2. CASE ~Hoards(d)
      BY <2>1, <2>2, <3>2, PutOne
    <3>3. QED
      BY <3>1, <3>2
  <2>4. Gone(data') \/ (exists' /\ Counts(data', log))
    <3>1. CASE Hoards(d)
      BY <2>1, <3>1 DEF Push, EmptyData, Gone
    <3>2. CASE ~Hoards(d)
      <4>1. Push(d, p).server_order = d.server_order /\ Push(d, p).server_buff = d.server_buff
        BY <3>2, PushType
      <4>2. QED
        BY <2>1, <3>2, <4>1 DEF Counts
    <3>3. QED
      BY <3>1, <3>2
  <2>5. Goal(log)
    BY <1>1, <2>3, <2>4
  <2>6. QED
    BY <2>5
<1>4. CASE ~InTurn(d, p) /\ ~(p.order > d.client_order)
  <2>1. data' = d /\ exists' = exists /\ down' = down
    BY <1>4 DEF InOrder
  <2>2. Writes(log)
    BY <2>1 DEF Writes
  <2>3. Goal(log)
    BY <1>1, <2>1, <2>2
  <2>4. QED
    BY <2>3
<1>5. QED
  BY <1>2, <1>3, <1>4

-----------------------------------------------------------------------------
(* Messages from outside.                                                  *)

\* The order of requests leaves a role bound to its connection, or to none.
LEMMA InOrderBound ==
  ASSUME NEW d \in Data, Last(d), NEW p \in Ordered, NEW rest, NEW answer, NEW m,
         InOrder(d, p, rest, answer, m)
  PROVE  data'.sock \in {0, d.sock}
<1>1. CASE InTurn(d, p)
  <2>1. data' = (IF answer THEN Say(Turn(d, p), m) ELSE Turn(d, p))
    BY <1>1 DEF InOrder
  <2>2. Turn(d, p) \in Data /\ Turn(d, p).sock = d.sock
    BY TurnType
  <2>3. Say(Turn(d, p), m).sock = Turn(d, p).sock
    <3> DEFINE e == Turn(d, p)
               buff == IF m.order = 0 THEN e.server_buff ELSE Kept(e.server_buff, m.order, m)
    <3>1. Say(e, m) = [e EXCEPT !.server_order = @ + 1, !.server_buff = buff]
      BY DEF Say
    <3> HIDE DEF e, buff
    <3>2. e \in Data
      BY <2>2 DEF e
    <3>3. Say(e, m).sock = e.sock
      BY <3>1, <3>2 DEF Data
    <3>4. QED
      BY <3>3 DEF e
  <2>4. QED
    BY <2>1, <2>2, <2>3
<1>2. CASE ~InTurn(d, p) /\ p.order > d.client_order
  <2>1. data' = Push(d, p)
    BY <1>2 DEF InOrder
  <2>2. QED
    BY <2>1, PushType
<1>3. CASE ~InTurn(d, p) /\ ~(p.order > d.client_order)
  BY <1>3 DEF InOrder
<1>4. QED
  BY <1>1, <1>2, <1>3

\* The data in the order of requests: the role's, bound to the connection.
Of(s) == IF s = 0 THEN data ELSE Bound(data, s)

LEMMA OfType ==
  ASSUME Inv, data.session # 0, NEW s \in Socks \cup {0}
  PROVE  /\ Of(s) \in Data /\ Last(Of(s)) /\ Of(s).sock = (IF s = 0 THEN data.sock ELSE s)
         /\ Of(s).server_order = data.server_order /\ Of(s).server_buff = data.server_buff
<1>1. data \in Data /\ Last(data) /\ data.server_order >= 1
  BY DEF Inv, Types, GatewayType, Last, Started
<1>2. QED
  BY <1>1, BoundType DEF Of

\* A message over a connection concerns that and the role's.
LEMMA OutsideLeaves ==
  ASSUME Inv, NEW s \in Socks \cup {0}, NEW p \in Requests, NEW rest, Outside(s, p, rest),
         NEW q \in Socks, q # s, q # data.sock
  PROVE  Leaves(q)
<1>1. NetType /\ data \in Data /\ Last(data) /\ q # 0
  BY DEF Inv, Types, GatewayType, Socks
<1>2. CASE p.kind = "req"
  <2>1. Listen(s, p, rest) /\ p \in Ordered
    BY <1>2 DEF Outside, Requests, Ordered
  <2>2. CASE s # 0 /\ s \in cool
    BY <2>1, <2>2 DEF Listen, Leaves
  <2>3. CASE ~(s # 0 /\ s \in cool) /\ ~check_session(p)
    <3>1. data' = data /\ down' = Put(s, <<Raw("error")>>)
      BY <2>1, <2>3 DEF Listen
    <3>2. QED
      BY <1>1, <3>1, PutAt DEF Leaves
  <2>4. CASE ~(s # 0 /\ s \in cool) /\ check_session(p)
    <3>1. data.session # 0
      BY <2>4 DEF check_session
    <3>2. InOrder(Of(s), p, rest, FALSE, Raw("none"))
      BY <2>1, <2>4 DEF Listen, Of
    <3>3. Of(s) \in Data /\ Last(Of(s)) /\ Of(s).sock # q
      BY <3>1, OfType
    <3>4. QED
      BY <1>1, <2>1, <3>2, <3>3, InOrderLeaves, InOrderBound DEF Leaves
  <2>5. QED
    BY <2>2, <2>3, <2>4
<1>3. CASE p.kind = "ping"
  <2>1. PQSystemPing(p, rest) /\ p \in Ordered
    BY <1>3 DEF Outside, Requests, Ordered
  <2>2. CASE check_session(p)
    <3>1. InOrder(data, p, rest, TRUE, Numbered(data, "ping", 0))
      BY <2>1, <2>2 DEF PQSystemPing
    <3>2. QED
      BY <1>1, <2>1, <3>1, InOrderLeaves, InOrderBound DEF Leaves
  <2>3. CASE ~check_session(p)
    BY <2>1, <2>3 DEF PQSystemPing, Leaves
  <2>4. QED
    BY <2>2, <2>3
<1>4. CASE p.kind = "login"
  BY <1>4 DEF Outside, PQSystemLogin, Leaves
<1>5. CASE p.kind = "resend"
  <2>1. data' = data /\ \E out : down' = Put(data.sock, out)
    BY <1>5 DEF Outside, PQSystemResend
  <2>2. QED
    BY <1>1, <2>1, PutAt DEF Leaves
<1>6. QED
  BY <1>2, <1>3, <1>4, <1>5 DEF Requests

\* Only a login is passed on.
LEMMA OutsideLogins ==
  ASSUME NEW s, NEW p \in Requests, NEW rest, Outside(s, p, rest)
  PROVE  IF p.kind = "login" THEN logins' = Append(logins, [session |-> p.session, sock |-> s])
         ELSE logins' = logins
  BY DEF Outside, Requests, Listen, PQSystemPing, PQSystemLogin, PQSystemResend

\* The log goes on as long as the game server has the same to say.
LEMMA SameSaying ==
  ASSUME NEW log \in Seq(Nat), NEW more, Saying(log), more[Len(more)] = log[Len(log)],
         UNCHANGED <<from_game, said>>
  PROVE  Saying(more)'
  BY DEF Saying, InFlight

\* A message from outside goes on with the log.
LEMMA OutsideLog ==
  ASSUME Inv, NEW s \in Socks \cup {0}, NEW p \in Requests, NEW rest, Outside(s, p, rest),
         UNCHANGED <<from_game, said>>,
         NEW log \in Seq(Nat), log # <<>>, Numbers(log)
  PROVE  NumbersOn(log)
<1>1. NetType /\ data \in Data /\ Last(data) /\ Longer(log, log)
  BY DEF Inv, Types, GatewayType, Longer
<1>2. Raw("error") \in Sent /\ Follows(log, Raw("error"))
  BY RawType, ErrorFollows
<1>3. ASSUME UNCHANGED <<exists, data>>, Writes(log)
      PROVE  NumbersOn(log)
  <2>1. Numbers(log)'
    BY <1>3 DEF Numbers, Gone, Counts, Saying, InFlight
  <2>2. QED
    BY <1>1, <1>3, <2>1 DEF NumbersOn
<1>4. ASSUME NEW d \in Data, Last(d), d.server_order = data.server_order, d.server_buff = data.server_buff,
             p \in Ordered, check_session(p),
             NEW answer \in BOOLEAN, NEW m, InOrder(d, p, rest, answer, m),
             answer => m \in Messages /\ m.order = d.server_order /\ m.kind = "ping"
      PROVE  NumbersOn(log)
  <2>1. exists /\ Counts(data, log) /\ Saying(log)
    BY <1>4 DEF check_session, Numbers, Gone
  <2>2. Counts(d, log)
    BY <1>4, <2>1 DEF Counts
  <2>3. PICK more : /\ Longer(log, more) /\ Writes(more) /\ more[Len(more)] = log[Len(log)]
                    /\ (Gone(data') \/ (exists' /\ Counts(data', more)))
    BY <1>1, <1>4, <2>1, <2>2, InOrderLog
  <2>4. Saying(more)'
    BY <2>1, <2>3, SameSaying
  <2>5. Numbers(more)'
    BY <2>3, <2>4 DEF Numbers, Gone, Counts
  <2>6. QED
    BY <2>3, <2>5 DEF NumbersOn
<1>5. CASE p.kind = "req"
  <2>1. Listen(s, p, rest) /\ p \in Ordered
    BY <1>5 DEF Outside, Requests, Ordered
  <2>2. CASE s # 0 /\ s \in cool
    <3>1. UNCHANGED <<exists, data, down>>
      BY <2>1, <2>2 DEF Listen
    <3>2. QED
      BY <1>3, <3>1 DEF Writes
  <2>3. CASE ~(s # 0 /\ s \in cool) /\ ~check_session(p)
    <3>1. UNCHANGED <<exists, data>> /\ down' = Put(s, <<Raw("error")>>)
      BY <2>1, <2>3 DEF Listen
    <3>2. QED
      BY <1>1, <1>2, <1>3, <3>1, PutOne
  <2>4. CASE ~(s # 0 /\ s \in cool) /\ check_session(p)
    <3>1. InOrder(Of(s), p, rest, FALSE, Raw("none")) /\ data.session # 0
      BY <2>1, <2>4 DEF Listen, Of, check_session
    <3>2. QED
      BY <1>4, <2>1, <2>4, <3>1, OfType
  <2>5. QED
    BY <2>2, <2>3, <2>4
<1>6. CASE p.kind = "ping"
  <2>1. PQSystemPing(p, rest) /\ p \in Ordered
    BY <1>6 DEF Outside, Requests, Ordered
  <2>2. CASE check_session(p)
    <3> DEFINE m == Numbered(data, "ping", 0)
    <3>1. InOrder(data, p, rest, TRUE, m)
      BY <2>1, <2>2 DEF PQSystemPing
    <3>2. m \in Messages /\ m.order = data.server_order /\ m.kind = "ping"
      BY <1>1 DEF Numbered, Messages, Data
    <3> HIDE DEF m
    <3>3. QED
      BY <1>1, <1>4, <2>1, <2>2, <3>1, <3>2
  <2>3. CASE ~check_session(p)
    <3>1. UNCHANGED <<exists, data, down>>
      BY <2>1, <2>3 DEF PQSystemPing
    <3>2. QED
      BY <1>3, <3>1 DEF Writes
  <2>4. QED
    BY <2>2, <2>3
<1>7. CASE p.kind = "login"
  <2>1. UNCHANGED <<exists, data, down>>
    BY <1>7 DEF Outside, PQSystemLogin
  <2>2. QED
    BY <1>3, <2>1 DEF Writes
<1>8. CASE p.kind = "resend"
  <2>1. PQSystemResend(p, rest) /\ UNCHANGED <<exists, data>>
    BY <1>8 DEF Outside, PQSystemResend
  <2>2. CASE check_session(p) /\ p.order \in DOMAIN data.server_buff
    <3>1. Counts(data, log)
      BY <2>2 DEF check_session, Numbers, Gone
    <3>2. /\ Resent(data, p.order) \in Seq(Sent)
          /\ \A i \in DOMAIN Resent(data, p.order) : Follows(log, Resent(data, p.order)[i])
      BY <1>1, <2>2, <3>1, ResentType, ResentFollows
    <3>3. down' = Put(data.sock, Resent(data, p.order))
      BY <2>1, <2>2 DEF PQSystemResend
    <3>4. Writes(log)
      BY <1>1, <3>2, <3>3, PutWrites
    <3>5. QED
      BY <1>3, <2>1, <3>4
  <2>3. CASE ~(check_session(p) /\ p.order \in DOMAIN data.server_buff)
    <3>1. down' = Put(data.sock, <<Raw("error")>>)
      BY <2>1, <2>3 DEF PQSystemResend
    <3>2. QED
      BY <1>1, <1>2, <1>3, <2>1, <3>1, PutOne
  <2>4. QED
    BY <2>2, <2>3
<1>9. QED
  BY <1>5, <1>6, <1>7, <1>8 DEF Requests

-----------------------------------------------------------------------------
(* Messages of the game server.                                            *)

\* The next message, and what is behind it.
LEMMA FromGameHead ==
  ASSUME Inv, FromGame
  PROVE  /\ from_game # <<>> /\ from_game \in Seq(Said) /\ from_game[1] \in Said
         /\ Head(from_game) = from_game[1] /\ from_game' = Tail(from_game)
         /\ \A i \in DOMAIN from_game' : i + 1 \in DOMAIN from_game /\ from_game'[i] = from_game[i + 1]
         /\ \A i \in DOMAIN from_game : i # 1 => i - 1 \in DOMAIN from_game' /\ from_game'[i - 1] = from_game[i]
         /\ OnlyFirst => ~InFlight' /\ OnlyFirst'
         /\ CASE from_game[1].kind = "login"   -> PRSystemLogin(from_game[1])
              [] from_game[1].kind = "data"    -> Forward(from_game[1])
              [] from_game[1].kind = "kick"    -> PRSystemKick
              [] from_game[1].kind = "unusual" -> UnusualError
         /\ UNCHANGED <<posted, last_sock, open, closing, up, session, logins, said, client, got>>
<1>1. from_game \in Seq(Said)
  BY DEF Inv, Types, GameType
<1>2. from_game # <<>> /\ from_game' = Tail(from_game)
  BY DEF FromGame
<1> HIDE DEF Said
<1>3. /\ Head(from_game) = from_game[1] /\ 1 \in DOMAIN from_game /\ from_game' \in Seq(Said)
      /\ \A i \in DOMAIN from_game' : i + 1 \in DOMAIN from_game /\ from_game'[i] = from_game[i + 1]
      /\ \A i \in DOMAIN from_game : i # 1 => i - 1 \in DOMAIN from_game' /\ from_game'[i - 1] = from_game[i]
  BY <1>1, <1>2, TailItems
<1>4. from_game[1] \in Said
  BY <1>1, <1>3
<1>5. ASSUME OnlyFirst
      PROVE  ~InFlight' /\ OnlyFirst'
  <2>1. \A i \in DOMAIN from_game' : i \in Nat /\ i >= 1
    BY <1>3
  <2>2. \A i \in DOMAIN from_game' : from_game'[i].kind # "data"
    <3> SUFFICES ASSUME NEW i \in DOMAIN from_game' PROVE from_game'[i].kind # "data"
      OBVIOUS
    <3>1. i + 1 \in DOMAIN from_game /\ from_game'[i] = from_game[i + 1] /\ i + 1 # 1
      BY <1>3, <2>1
    <3>2. QED
      BY <1>5, <3>1 DEF OnlyFirst
  <2>3. from_game' # <<>> => 1 \in DOMAIN from_game'
    BY <1>3
  <2>4. QED
    BY <2>2, <2>3 DEF InFlight, OnlyFirst
<1>6. QED
  BY <1>1, <1>2, <1>3, <1>4, <1>5 DEF FromGame

\* A login starts a new log.
LEMMA LoginLog ==
  ASSUME Inv, FromGame, from_game[1].kind = "login"
  PROVE  LET m == from_game[1] IN
         /\ exists' /\ data'.sock = m.sock /\ data'.server_order = 1 /\ DOMAIN data'.server_buff = {}
         /\ down' = Put(m.sock, <<[kind |-> "login", order |-> 0, n |-> m.session]>>)
         /\ m.sock \in Socks /\ m.session \in Nat
<1> DEFINE m == from_game[1]
           d == Reset([data EXCEPT !.session = m.session])
<1>1. PRSystemLogin(m) /\ m \in Said /\ data \in Data
  BY FromGameHead DEF Inv, Types, GatewayType
<1>2. m.sock \in Socks /\ m.session \in Nat
  BY <1>1 DEF Said
<1>3. /\ exists' = TRUE /\ data' = Bound(d, m.sock)
      /\ down' = Put(m.sock, <<[kind |-> "login", order |-> 0, n |-> m.session]>>)
  BY <1>1 DEF PRSystemLogin
<1>4. /\ data'.sock = m.sock /\ data'.server_order = 1 /\ data'.server_buff = Empty
  BY <1>1, <1>3 DEF Bound, Reset, Data
<1>5. DOMAIN Empty = {}
  BY DEF Empty
<1>6. QED
  BY <1>2, <1>3, <1>4, <1>5

\* The others concern the role's connection.
LEMMA FromGameLeaves ==
  ASSUME Inv, FromGame, NEW q \in Socks, q # data.sock,
         from_game[1].kind = "login" => from_game[1].sock # q
  PROVE  Leaves(q)
<1>1. NetType /\ q # 0 /\ from_game[1] \in Said
  BY FromGameHead DEF Inv, Types, Socks
<1>2. CASE from_game[1].kind = "login"
  <2>1. data'.sock = from_game[1].sock /\ \E out : down' = Put(from_game[1].sock, out)
    BY <1>2, LoginLog
  <2>2. QED
    BY <1>1, <1>2, <2>1, PutAt DEF Leaves
<1>3. CASE from_game[1].kind = "data"
  <2>1. Forward(from_game[1])
    BY <1>3, FromGameHead
  <2>2. data'.sock = data.sock
    BY <1>1, <2>1, ForwardKeeps
  <2>3. down' = down \/ \E out : down' = Put(data.sock, out)
    BY <2>1 DEF Forward
  <2>4. QED
    BY <1>1, <2>2, <2>3, PutAt DEF Leaves
<1>4. CASE from_game[1].kind = "kick"
  <2>1. data' = [data EXCEPT !.session = 0] /\ data \in Data /\ \E out : down' = Put(data.sock, out)
    BY <1>4, FromGameHead DEF PRSystemKick, Inv, Types, GatewayType
  <2>2. data'.sock = data.sock
    BY <2>1 DEF Data
  <2>3. QED
    BY <1>1, <2>1, <2>2, PutAt DEF Leaves
<1>5. CASE from_game[1].kind = "unusual"
  <2>1. data'.sock = 0 /\ \E out : down' = Put(data.sock, out)
    BY <1>5, FromGameHead DEF UnusualError, EmptyData
  <2>2. QED
    BY <1>1, <2>1, PutAt DEF Leaves
<1>6. QED
  BY <1>1, <1>2, <1>3, <1>4, <1>5 DEF Said

\* And go on with the log: what the game server says takes its number.
LEMMA FromGameLog ==
  ASSUME Inv, FromGame, OnlyFirst, from_game[1].kind # "login",
         NEW log \in Seq(Nat), log # <<>>, Numbers(log)
  PROVE  NumbersOn(log)
<1> DEFINE m == from_game[1]
<1>1. /\ NetType /\ data \in Data /\ Last(data) /\ m \in Said /\ said \in Nat
      /\ ~InFlight' /\ said' = said /\ from_game # <<>> /\ Longer(log, log) /\ 0 \notin open
  <2>1. NetType /\ data \in Data /\ Last(data) /\ said \in Nat
    BY DEF Inv, Types, GatewayType, GameType
  <2>2. 0 \notin open
    BY <2>1 DEF NetType, Socks
  <2>3. m \in Said /\ ~InFlight' /\ said' = said /\ from_game # <<>>
    BY FromGameHead
  <2>4. Longer(log, log)
    BY DEF Longer
  <2>5. QED
    BY <2>1, <2>2, <2>3, <2>4
<1>2. Raw("error") \in Sent /\ Follows(log, Raw("error"))
  BY RawType, ErrorFollows
<1>3. CASE m.kind = "data"
  <2> DEFINE x == Numbered(data, "data", m.n)
  <2>1. /\ data' = (IF exists THEN Say(data, x) ELSE data)
        /\ down' = (IF exists THEN Put(data.sock, <<x>>) ELSE down)
        /\ exists' = exists
    BY <1>3, FromGameHead DEF Forward
  <2>2. x \in Messages /\ x.order = data.server_order /\ x.kind = "data" /\ x.n = m.n
    BY <1>1 DEF Numbered, Messages, Data, Said
  <2> HIDE DEF x
  <2>3. CASE Gone(data)
    <3>1. Gone(data')
      BY <1>1, <2>1, <2>2, <2>3, SayType DEF Gone
    <3>2. Writes(log)
      <4>1. data.sock \notin open
        BY <1>1, <2>3 DEF Gone
      <4>2. down' = down
        BY <2>1, <4>1 DEF Put
      <4>3. QED
        BY <4>2 DEF Writes
    <3>3. QED
      BY <1>1, <3>1, <3>2 DEF NumbersOn, Numbers, Gone
  <2>4. CASE ~Gone(data)
    <3>1. exists /\ Counts(data, log) /\ Saying(log)
      BY <2>4 DEF Numbers
    <3>2. m.n = said /\ said = log[Len(log)] + 1
      BY <1>1, <1>3, <3>1 DEF Saying, InFlight
    <3>0. PICK n \in Nat : n = said
      BY <1>1
    <3> DEFINE more == Append(log, n)
    <3> HIDE DEF m
    <3>3. /\ Longer(log, more) /\ Counts(Say(data, x), more)
          /\ Follows(more, x) /\ more[Len(more)] = n
      BY <1>1, <2>2, <3>0, <3>1, <3>2, CountsSay
    <3> HIDE DEF more
    <3>4. x.order # 0
      BY <2>2, <3>1 DEF Counts
    <3>5. x \in Sent
      BY <2>2, <3>4 DEF Sent
    <3>6. Writes(more)
      BY <1>1, <2>1, <3>1, <3>3, <3>5, PutOne
    <3>7. Saying(more)'
      BY <1>1, <3>0, <3>3 DEF Saying
    <3>8. Numbers(more)'
      BY <2>1, <3>1, <3>3, <3>7 DEF Numbers, Counts
    <3>9. QED
      BY <3>3, <3>6, <3>8 DEF NumbersOn
  <2>5. QED
    BY <2>3, <2>4
<1>4. CASE m.kind = "kick"
  <2>1. /\ data' = [data EXCEPT !.session = 0] /\ exists' = TRUE
        /\ down' = Put(data.sock, <<Raw("error")>>)
    BY <1>4, FromGameHead DEF PRSystemKick
  <2>2. /\ data'.session = 0 /\ data'.sock = data.sock
        /\ data'.server_order = data.server_order /\ data'.server_buff = data.server_buff
    BY <1>1, <2>1 DEF Data
  <2>3. Writes(log)
    BY <1>1, <1>2, <2>1, PutOne
  <2>4. Numbers(log)'
    <3>1. CASE Gone(data)
      BY <2>2, <3>1 DEF Numbers, Gone
    <3>2. CASE ~Gone(data)
      <4>1. Counts(data, log) /\ Saying(log) /\ ~InFlight
        BY <1>4, <3>2 DEF Numbers, InFlight
      <4>2. Saying(log)'
        BY <1>1, <4>1 DEF Saying
      <4>3. QED
        BY <2>1, <2>2, <4>1, <4>2 DEF Numbers, Counts
    <3>3. QED
      BY <3>1, <3>2
  <2>5. QED
    BY <1>1, <2>3, <2>4 DEF NumbersOn
<1>5. CASE m.kind = "unusual"
  <2>1. data' = EmptyData /\ down' = Put(data.sock, <<Raw("error")>>)
    BY <1>5, FromGameHead DEF UnusualError
  <2>2. Writes(log)
    BY <1>1, <1>2, <2>1, PutOne
  <2>3. Numbers(log)'
    BY <2>1 DEF Numbers, Gone, EmptyData
  <2>4. QED
    BY <1>1, <2>2, <2>3 DEF NumbersOn
<1>6. QED
  BY <1>1, <1>3, <1>4, <1>5 DEF Said

-----------------------------------------------------------------------------
(* What a step leaves as it is.                                            *)

\* No login is new on the connections, at the game server, or from it.
UpFewer ==
  \A s \in Socks : \A i \in DOMAIN up'[s] :
    up'[s][i].kind = "login" => \E j \in DOMAIN up[s] : up'[s][i] = up[s][j]
LoginsFewer == \A i \in DOMAIN logins' : \E j \in DOMAIN logins : logins'[i] = logins[j]
GameFewer ==
  \A i \in DOMAIN from_game' :
    from_game'[i].kind = "login" => \E j \in DOMAIN from_game : from_game'[i] = from_game[j]

\* The connections to come stay empty.
LEMMA NewestOn ==
  ASSUME Inv, Inv', Newest, last_sock' = last_sock,
         \A q \in Socks : q > last_sock => Leaves(q) /\ up'[q] = up[q],
         client'.sock \in {0, client.sock}, open' \subseteq open \cap {client'.sock}
  PROVE  Newest'
<1>1. data' \in Data /\ last_sock \in 0..MaxSocks /\ MaxSocks \in Nat
  BY SessionAssumption DEF Inv, Types, GatewayType, NetType
<1>2. data'.sock \in Socks \cup {0}
  BY <1>1 DEF Data
<1>3. data'.sock <= last_sock
  <2>1. CASE data'.sock = 0
    BY <1>1, <2>1
  <2>2. ASSUME data'.sock \in Socks, data'.sock > last_sock
        PROVE  FALSE
    BY <2>2 DEF Leaves
  <2>3. QED
    BY <1>1, <1>2, <2>1, <2>2 DEF Socks
<1>4. QED
  BY <1>3 DEF Newest, Leaves

\* Logins that are not new are of sessions made.
LEMMA BeforeOn ==
  ASSUME Inv, session' = session, last_sock' = last_sock
  PROVE  /\ SentBefore /\ UpFewer => SentBefore'
         /\ TakenBefore /\ LoginsFewer => TakenBefore'
         /\ PassedBefore /\ GameFewer => PassedBefore'
<1>1. ASSUME SentBefore, UpFewer
      PROVE  SentBefore'
  BY <1>1 DEF SentBefore, UpFewer
<1>2. ASSUME TakenBefore, LoginsFewer
      PROVE  TakenBefore'
  BY <1>2 DEF TakenBefore, LoginsFewer
<1>3. ASSUME PassedBefore, GameFewer
      PROVE  PassedBefore'
  BY <1>3 DEF PassedBefore, GameFewer
<1>4. QED
  BY <1>1, <1>2, <1>3

\* And not of the newest one, if it had none there.
LEMMA NotOn ==
  ASSUME Inv, session' = session
  PROVE  /\ \A s \in Socks : NotSent(s) /\ UpFewer => NotSent(s)'
         /\ NotTaken /\ LoginsFewer => NotTaken'
         /\ NotPassed /\ GameFewer => NotPassed'
<1>1. ASSUME NEW s \in Socks, NotSent(s), UpFewer
      PROVE  NotSent(s)'
  BY <1>1 DEF NotSent, UpFewer
<1>2. ASSUME NotTaken, LoginsFewer
      PROVE  NotTaken'
  BY <1>2 DEF NotTaken, LoginsFewer
<1>3. ASSUME NotPassed, GameFewer
      PROVE  NotPassed'
  BY <1>3 DEF NotPassed, GameFewer
<1>4. QED
  BY <1>1, <1>2, <1>3

\* A login that is not answered stays so while its connection is left alone.
LEMMA UnansweredOn ==
  ASSUME Inv, Unanswered, session' = session, last_sock' = last_sock, ~client'.logged,
         Leaves(last_sock), UpFewer,
         \A i \in DOMAIN logins' : \/ \E j \in DOMAIN logins : logins'[i] = logins[j]
                                   \/ logins'[i].session = session \/ logins'[i].sock # last_sock,
         \A i \in DOMAIN from_game' : from_game'[i].kind = "login" =>
           \/ \E j \in DOMAIN from_game : from_game'[i] = from_game[j]
           \/ from_game'[i].session = session
  PROVE  Unanswered'
<1>1. /\ last_sock \in Socks /\ down[last_sock] = <<>> /\ data.sock # last_sock
      /\ \A s \in Socks : s # last_sock => NotSent(s)
      /\ \A i \in DOMAIN logins : logins[i].session # session => logins[i].sock # last_sock
      /\ \A i \in DOMAIN from_game : from_game[i].kind = "login" /\ from_game[i].session # session
                                       => from_game[i].sock # last_sock
  BY DEF Unanswered
<1>2. \A s \in Socks : s # last_sock => NotSent(s)'
  BY <1>1, NotOn
<1>3. down'[last_sock] = <<>> /\ data'.sock # last_sock
  BY <1>1 DEF Leaves
<1>4. \A i \in DOMAIN logins' : logins'[i].session # session => logins'[i].sock # last_sock
  BY <1>1
<1>5. \A i \in DOMAIN from_game' : from_game'[i].kind = "login" /\ from_game'[i].session # session
                                     => from_game'[i].sock # last_sock
  BY <1>1
<1>6. QED
  BY <1>1, <1>2, <1>3, <1>4, <1>5 DEF Unanswered

\* The client reads by the log that goes on, if it does nothing itself.
LEMMA ReadsOn ==
  ASSUME Inv, Newest, NEW log \in Seq(Nat), log # <<>>, log[1] = 0, Reads(log),
         NEW more, Longer(log, more), Writes(more), UNCHANGED <<client, got>>,
         client.logged \/ client.sock # 0
  PROVE  more # <<>> /\ more[1] = 0 /\ Reads(more)'
<1> DEFINE q == client.sock
<1>1. /\ Len(more) \in Nat /\ Len(log) \in Nat /\ Len(log) <= Len(more) /\ Len(log) >= 1
      /\ \A i \in 1..Len(log) : more[i] = log[i]
  BY LongerItems
<1>2. more # <<>> /\ more[1] = 0
  BY <1>1
<1>3. client.logged => client'.server_order \in 1..Len(more) /\ Len(got') = more[client'.server_order]
  <2>1. client.logged => client.server_order \in 1..Len(log) /\ Len(got) = log[client.server_order]
    BY DEF Reads
  <2>2. client.logged => client.server_order \in 1..Len(more)
    BY <1>1, <2>1
  <2>3. QED
    BY <1>1, <2>1, <2>2
<1>4. ASSUME q # 0
      PROVE  /\ DOMAIN down[q] \subseteq DOMAIN down'[q]
             /\ \A i \in DOMAIN down[q] : down'[q][i] = down[q][i]
             /\ \A i \in DOMAIN down'[q] : i \in DOMAIN down[q] \/ Follows(more, down'[q][i])
  <2>1. q \in Socks /\ down[q] \in Seq(Sent)
    <3>1. q \in Socks
      BY <1>4 DEF Inv, Types, ClientType, NetType
    <3>2. QED
      BY <3>1 DEF Inv, Types, NetType
  <2>2. CASE down'[q] = down[q]
    BY <2>2
  <2>3. ASSUME NEW out \in Seq(Sent), down'[q] = down[q] \o out, \A i \in DOMAIN out : Follows(more, out[i])
        PROVE  /\ DOMAIN down[q] \subseteq DOMAIN down'[q]
               /\ \A i \in DOMAIN down[q] : down'[q][i] = down[q][i]
               /\ \A i \in DOMAIN down'[q] : i \in DOMAIN down[q] \/ Follows(more, down'[q][i])
    <3>1. /\ \A i \in DOMAIN down[q] : i \in DOMAIN down'[q] /\ down'[q][i] = down[q][i]
          /\ \A i \in DOMAIN down'[q] : \/ i \in DOMAIN down[q]
                                        \/ \E k \in DOMAIN out : down'[q][i] = out[k]
      <4> DEFINE r == down[q]
      <4>1. r \in Seq(Sent)
        BY <2>1
      <4> HIDE DEF r, Sent
      <4>2. /\ \A i \in DOMAIN r : i \in DOMAIN (r \o out) /\ (r \o out)[i] = r[i]
            /\ \A i \in DOMAIN (r \o out) : i \in DOMAIN r \/ (i - Len(r) \in DOMAIN out /\ (r \o out)[i] = out[i - Len(r)])
        BY <2>3, <4>1, ConcatItems
      <4>3. QED
        BY <2>3, <4>2 DEF r
    <3>2. QED
      BY <2>3, <3>1
  <2>4. QED
    BY <2>1, <2>2, <2>3 DEF Writes
<1>5. ASSUME q # 0, NEW i \in DOMAIN down[q], Follows(log, down[q][i])
      PROVE  Follows(more, down'[q][i])
  <2>1. q \in Socks
    BY <1>5 DEF Inv, Types, ClientType, NetType
  <2>2. down[q] \in Seq(Sent)
    BY <2>1 DEF Inv, Types, NetType
  <2>3. down[q][i] \in Messages
    <3>1. down[q][i] \in Sent
      <4> HIDE DEF Sent
      <4> QED BY <1>5, <2>2
    <3>2. QED
      BY <3>1 DEF Sent
  <2>4. QED
    BY <1>4, <1>5, <2>3, FollowsMore
<1>6. CASE client.logged
  <2>1. ASSUME q # 0, NEW i \in DOMAIN down'[q]
        PROVE  Follows(more, down'[q][i])
    BY <1>4, <1>5, <1>6, <2>1 DEF Reads
  <2>2. QED
    BY <1>2, <1>3, <1>6, <2>1 DEF Reads
<1>7. CASE ~client.logged
  <2>1. /\ q # 0 /\ down[q] # <<>> /\ down[q][1].kind = "login" /\ down[q][1].order = 0
        /\ \A i \in DOMAIN down[q] : i # 1 => Follows(log, down[q][i])
    BY <1>7 DEF Reads
  <2>2. 1 \in DOMAIN down[q]
    <3>1. q \in Socks
      BY <2>1 DEF Inv, Types, ClientType, NetType
    <3>2. down[q] \in Seq(Sent)
      BY <3>1 DEF Inv, Types, NetType
    <3> HIDE DEF Sent
    <3>3. QED
      BY <2>1, <3>2
  <2>3. down'[q] # <<>> /\ down'[q][1].kind = "login" /\ down'[q][1].order = 0
    BY <1>4, <2>1, <2>2
  <2>4. ASSUME NEW i \in DOMAIN down'[q], i # 1
        PROVE  Follows(more, down'[q][i])
    BY <1>4, <1>5, <2>1, <2>4
  <2>5. QED
    BY <1>2, <1>7, <2>3, <2>4 DEF Reads
<1>8. QED
  BY <1>6, <1>7

\* The gateway goes on with any log.
GoesOn == \A log \in Seq(Nat) : log # <<>> /\ Numbers(log) /\ NoneBehind(0) => NumbersOn(log)

\* A login that was answered stays so, if the gateway goes on with the log.
LEMMA AnsweredOn ==
  ASSUME Inv, Newest, Answered, session' = session, UNCHANGED <<client, got>>,
         UpFewer, NotTaken', GameFewer, client.logged \/ client.sock # 0 => GoesOn
  PROVE  Answered'
<1>1. NotTaken' /\ NotPassed' /\ \A s \in Socks : NotSent(s)'
  BY NotOn DEF Answered
<1>2. ASSUME client.logged \/ client.sock # 0
      PROVE  NoneBehind(0)' /\ \E log \in Seq(Nat) : Log(log)'
  <2>1. PICK log \in Seq(Nat) : Log(log)
    BY <1>2 DEF Answered
  <2>2. NoneBehind(0)
    BY <1>2 DEF Answered
  <2>3. log # <<>> /\ log[1] = 0 /\ Numbers(log) /\ Reads(log)
    BY <2>1 DEF Log
  <2>4. PICK more : Longer(log, more) /\ Numbers(more)' /\ Writes(more)
    BY <1>2, <2>2, <2>3 DEF GoesOn, NumbersOn
  <2>5. more # <<>> /\ more[1] = 0 /\ Reads(more)'
    BY <1>2, <2>3, <2>4, ReadsOn
  <2>6. more \in Seq(Nat) /\ Log(more)'
    BY <2>4, <2>5 DEF Longer, Log
  <2>7. NoneBehind(0)'
    <3>1. ASSUME NEW j \in DOMAIN from_game', j > 0, from_game'[j].kind = "login"
          PROVE  FALSE
      <4>1. PICK k \in DOMAIN from_game : from_game'[j] = from_game[k]
        BY <3>1 DEF GameFewer
      <4>2. k > 0
        <5>1. from_game \in Seq(Said)
          BY DEF Inv, Types, GameType
        <5> HIDE DEF Said
        <5>2. QED
          BY <5>1
      <4>3. QED
        BY <2>2, <3>1, <4>1, <4>2 DEF NoneBehind
    <3>2. QED
      BY <3>1 DEF NoneBehind
  <2>8. QED
    BY <2>6, <2>7
<1>3. QED
  BY <1>1, <1>2 DEF Answered

\* A login of an older session may be taken meanwhile.
LoginsOlder ==
  logins' = logins \/ \E l \in Logins : l.session # session /\ logins' = Append(logins, l)

LEMMA TakenOlder ==
  ASSUME Inv, LoginsOlder
  PROVE  /\ \A i \in DOMAIN logins : i \in DOMAIN logins' /\ logins'[i] = logins[i]
         /\ \A i \in DOMAIN logins' : i \in DOMAIN logins \/ logins'[i].session # session
         /\ NotTaken /\ session' = session => NotTaken'
<1>1. logins \in Seq(Logins)
  BY DEF Inv, Types, GameType
<1>2. /\ \A i \in DOMAIN logins : i \in DOMAIN logins' /\ logins'[i] = logins[i]
      /\ \A i \in DOMAIN logins' : i \in DOMAIN logins \/ logins'[i].session # session
  <2>1. CASE logins' = logins
    BY <2>1
  <2>2. ASSUME NEW l \in Logins, l.session # session, logins' = Append(logins, l)
        PROVE  /\ \A i \in DOMAIN logins : i \in DOMAIN logins' /\ logins'[i] = logins[i]
               /\ \A i \in DOMAIN logins' : i \in DOMAIN logins \/ logins'[i].session # session
    <3> HIDE DEF Logins
    <3> QED BY <1>1, <2>2, AppendItems
  <2>3. QED
    BY <2>1, <2>2 DEF LoginsOlder
<1>3. QED
  BY <1>2 DEF NotTaken

\* A login under way stays where it is.
LEMMA WaitingOn ==
  ASSUME Inv, session' = session, last_sock' = last_sock, Unanswered', up'[last_sock] = up[last_sock],
         LoginsOlder, UNCHANGED <<from_game, said>>
  PROVE  /\ OnConnection => OnConnection'
         /\ AtGame => AtGame'
         /\ AtGateway => AtGateway'
<1>1. NotTaken => NotTaken'
  BY TakenOlder
<1>2. NotPassed => NotPassed'
  BY DEF NotPassed
<1>3. OnConnection => OnConnection'
  BY <1>1, <1>2 DEF OnConnection
<1>4. ASSUME AtGame
      PROVE  AtGame'
  <2>1. PICK i \in DOMAIN logins : /\ logins[i].session = session /\ logins[i].sock = last_sock
                                   /\ \A j \in DOMAIN logins : j # i => logins[j].session # session
    BY <1>4 DEF AtGame
  <2>2. i \in DOMAIN logins' /\ logins'[i].session = session /\ logins'[i].sock = last_sock
    BY <2>1, TakenOlder
  <2>3. \A j \in DOMAIN logins' : j # i => logins'[j].session # session
    BY <2>1, TakenOlder
  <2>4. NotPassed' /\ up'[last_sock] = <<>>
    BY <1>2, <1>4 DEF AtGame
  <2>5. QED
    BY <2>2, <2>3, <2>4 DEF AtGame
<1>5. AtGateway => AtGateway'
  BY <1>1 DEF AtGateway, NoneBehind
<1>6. QED
  BY <1>3, <1>4, <1>5

-----------------------------------------------------------------------------
(* The steps.                                                              *)

\* The next message of a connection, and what is behind it.
LEMMA ReceiveHead ==
  ASSUME Inv, NEW s \in Socks, up[s] # <<>>, up' = [up EXCEPT ![s] = Tail(@)]
  PROVE  /\ Head(up[s]) = up[s][1] /\ 1 \in DOMAIN up[s] /\ up[s][1] \in Requests
         /\ UpFewer /\ (\A q \in Socks : q # s => up'[q] = up[q])
         /\ Len(up[s]) = 1 => up'[s] = <<>>
<1>1. up \in [Socks -> Seq(Requests)]
  BY DEF Inv, Types, NetType
<1> HIDE DEF Requests
<1>2. up[s] \in Seq(Requests)
  BY <1>1
<1>3. /\ Head(up[s]) = up[s][1] /\ 1 \in DOMAIN up[s]
      /\ \A i \in DOMAIN Tail(up[s]) : i + 1 \in DOMAIN up[s] /\ Tail(up[s])[i] = up[s][i + 1]
      /\ Len(up[s]) = 1 => Tail(up[s]) = <<>>
  BY <1>2, TailItems
<1>4. up'[s] = Tail(up[s]) /\ \A q \in Socks : q # s => up'[q] = up[q]
  BY <1>1
<1>5. UpFewer
  <2>1. ASSUME NEW q \in Socks, NEW i \in DOMAIN up'[q]
        PROVE  \E j \in DOMAIN up[q] : up'[q][i] = up[q][j]
    <3>1. CASE q = s
      BY <1>3, <1>4, <3>1
    <3>2. CASE q # s
      BY <1>4, <3>2
    <3>3. QED
      BY <3>1, <3>2
  <2>2. QED
    BY <2>1 DEF UpFewer
<1>6. up[s][1] \in Requests
  BY <1>2, <1>3
<1>7. QED
  BY <1>3, <1>4, <1>5, <1>6

\* A message that is no login.
LEMMA OutsideStep ==
  ASSUME Inv, Inv', AInv, NEW s \in Socks \cup {0}, NEW p \in Requests, NEW rest, Outside(s, p, rest),
         p.kind # "login", s <= last_sock, UpFewer, \A q \in Socks : q # s => up'[q] = up[q],
         OnConnection \/ AtGame \/ AtGateway => s # last_sock,
         UNCHANGED <<last_sock, open, session, from_game, said, client, got>>
  PROVE  AInv'
<1>1. logins' = logins
  BY OutsideLogins
<1>2. LoginsFewer /\ GameFewer /\ OnlyFirst' /\ LoginsOlder
  BY <1>1 DEF LoginsFewer, GameFewer, AInv, Past, OnlyFirst, LoginsOlder
<1>3. /\ data.sock <= last_sock /\ last_sock \in Nat
      /\ client.sock \in {0, last_sock} /\ open \subseteq {client.sock}
  BY DEF AInv, Past, Newest, Inv, Types, NetType
<1>4. Newest'
  <2>1. ASSUME NEW q \in Socks, q > last_sock
        PROVE  Leaves(q) /\ up'[q] = up[q]
    <3>1. data.sock \in Int /\ s \in Int /\ q \in Int
      BY SessionAssumption DEF Inv, Types, GatewayType, Data, Socks
    <3>2. q # s /\ q # data.sock
      BY <1>3, <2>1, <3>1
    <3>3. QED
      BY <3>2, OutsideLeaves
  <2>2. QED
    BY <1>3, <2>1, NewestOn DEF AInv, Past
<1>5. Past'
  BY <1>2, <1>4, BeforeOn DEF AInv, Past
<1>6. ASSUME OnConnection \/ AtGame \/ AtGateway
      PROVE  (OnConnection \/ AtGame \/ AtGateway)'
  <2>1. Unanswered /\ s # last_sock
    BY <1>6 DEF OnConnection, AtGame, AtGateway
  <2>2. Leaves(last_sock) /\ up'[last_sock] = up[last_sock]
    BY <2>1, OutsideLeaves DEF Unanswered
  <2>3. Unanswered'
    BY <1>1, <2>1, <2>2, UnansweredOn DEF Unanswered
  <2>4. QED
    BY <1>2, <1>6, <2>2, <2>3, WaitingOn
<1>7. ASSUME Answered
      PROVE  Answered'
  <2>1. NotTaken'
    BY <1>2, <1>7, NotOn DEF Answered
  <2>2. GoesOn
    BY OutsideLog DEF GoesOn
  <2>3. QED
    BY <1>2, <1>7, <2>1, <2>2, AnsweredOn DEF AInv, Past
<1>8. QED
  BY <1>5, <1>6, <1>7 DEF AInv, Told

\* The next message of a connection.
LEMMA ReceiveStep ==
  ASSUME Inv, Inv', AInv, NEW s \in Socks, Receive(s)
  PROVE  AInv'
<1> DEFINE p == up[s][1]
<1>1. /\ up[s] # <<>> /\ up' = [up EXCEPT ![s] = Tail(@)] /\ Outside(s, Head(up[s]), posted)
      /\ UNCHANGED <<last_sock, open, session, from_game, said, client, got>>
  BY DEF Receive
<1>2. /\ Head(up[s]) = p /\ 1 \in DOMAIN up[s] /\ p \in Requests
      /\ UpFewer /\ (\A q \in Socks : q # s => up'[q] = up[q])
      /\ Len(up[s]) = 1 => up'[s] = <<>>
  BY <1>1, ReceiveHead
<1>3. s <= last_sock /\ last_sock \in Nat /\ s \in Nat /\ s # 0
  BY <1>1 DEF AInv, Past, Newest, Inv, Types, NetType, Socks
<1>4. Outside(s, p, posted)
  BY <1>1, <1>2
<1>5. CASE p.kind # "login"
  <2>1. OnConnection \/ AtGame \/ AtGateway => s # last_sock
    BY <1>1, <1>5 DEF OnConnection, AtGame, AtGateway
  <2> HIDE DEF p
  <2>2. QED
    BY <1>1, <1>2, <1>3, <1>4, <1>5, <2>1, OutsideStep
<1>6. CASE p.kind = "login"
  <2> DEFINE l == [session |-> p.session, sock |-> s]
  <2>1. logins' = Append(logins, l) /\ UNCHANGED <<exists, data, down>>
    BY <1>4, <1>6 DEF Outside, PQSystemLogin
  <2>2. l \in Logins /\ p.session <= session /\ logins \in Seq(Logins)
    BY <1>2, <1>6 DEF Requests, Logins, AInv, Past, SentBefore, Inv, Types, GameType
  <2>3. l.session = p.session /\ l.sock = s
    OBVIOUS
  <2>4. /\ Len(logins) + 1 \in DOMAIN logins' /\ logins'[Len(logins) + 1] = l /\ Len(logins) + 1 \notin DOMAIN logins
        /\ \A i \in DOMAIN logins : i \in DOMAIN logins' /\ logins'[i] = logins[i]
        /\ \A i \in DOMAIN logins' : i \in DOMAIN logins \/ i = Len(logins) + 1
    <3> HIDE DEF l, Logins
    <3>1. Len(logins) \in Nat /\ DOMAIN logins = 1..Len(logins)
      BY <2>2
    <3>2. QED
      BY <2>1, <2>2, <3>1, AppendItems
  <2> HIDE DEF p, l
  <2>5. GameFewer /\ OnlyFirst'
    BY <1>1 DEF GameFewer, AInv, Past, OnlyFirst
  <2>6. \A q \in Socks : q # data.sock => Leaves(q)
    BY <2>1 DEF Leaves
  <2>7. Newest'
    <3>1. ASSUME NEW q \in Socks, q > last_sock
          PROVE  Leaves(q) /\ up'[q] = up[q]
      <4>1. data.sock <= last_sock /\ data.sock \in Int /\ q \in Int
        BY SessionAssumption DEF AInv, Past, Newest, Inv, Types, GatewayType, Data, Socks
      <4>2. q # s /\ q # data.sock
        BY <1>3, <3>1, <4>1
      <4>3. QED
        BY <1>2, <2>6, <4>2
    <3>2. client'.sock \in {0, client.sock} /\ open' \subseteq open \cap {client'.sock} /\ Newest
      BY <1>1 DEF AInv, Past, Newest
    <3>3. QED
      BY <1>1, <3>1, <3>2, NewestOn
  <2>8. TakenBefore'
    <3>1. \A i \in DOMAIN logins : logins[i].session <= session /\ logins[i].sock <= last_sock
      BY DEF AInv, Past, TakenBefore
    <3>2. \A i \in DOMAIN logins' : logins'[i].session <= session /\ logins'[i].sock <= last_sock
      BY <1>3, <2>2, <2>3, <2>4, <3>1
    <3>3. QED
      BY <1>1, <3>2 DEF TakenBefore
  <2>9. Past'
    BY <1>1, <1>2, <2>5, <2>7, <2>8, BeforeOn DEF AInv, Past
  <2>10. \A i \in DOMAIN logins' : \/ \E j \in DOMAIN logins : logins'[i] = logins[j]
                                   \/ logins'[i] = l
    BY <2>4
  <2>11. ASSUME Unanswered, p.session = session \/ s # last_sock
         PROVE  Unanswered'
    <3>1. Leaves(last_sock)
      BY <2>6, <2>11 DEF Unanswered
    <3>2. \A i \in DOMAIN logins' : \/ \E j \in DOMAIN logins : logins'[i] = logins[j]
                                    \/ logins'[i].session = session \/ logins'[i].sock # last_sock
      BY <2>3, <2>10, <2>11
    <3>3. QED
      BY <1>1, <1>2, <2>11, <3>1, <3>2, UnansweredOn DEF Unanswered
  <2>12. CASE OnConnection /\ s = last_sock
    <3>1. p.session = session /\ up'[last_sock] = <<>> /\ Unanswered /\ NotTaken /\ NotPassed
      BY <1>2, <2>12 DEF OnConnection, p
    <3>2. Unanswered' /\ NotPassed'
      BY <1>1, <2>5, <2>11, <3>1, NotOn
    <3>3. \A j \in DOMAIN logins' : j # Len(logins) + 1 => logins'[j].session # session
      BY <2>4, <3>1 DEF NotTaken
    <3>4. AtGame'
      BY <1>1, <2>3, <2>4, <2>12, <3>1, <3>2, <3>3 DEF AtGame
    <3>5. QED
      BY <1>1, <2>9, <3>4 DEF AInv, Told
  <2>13. ASSUME OnConnection \/ AtGame \/ AtGateway, s # last_sock
         PROVE  AInv'
    <3>1. Unanswered
      BY <2>13 DEF OnConnection, AtGame, AtGateway
    <3>2. p.session # session
      BY <1>2, <1>6, <2>13, <3>1 DEF Unanswered, NotSent, p
    <3>3. LoginsOlder
      BY <2>1, <2>2, <2>3, <3>2 DEF LoginsOlder
    <3>4. Unanswered' /\ up'[last_sock] = up[last_sock]
      BY <1>2, <2>11, <2>13, <3>1 DEF Unanswered
    <3>5. (OnConnection \/ AtGame \/ AtGateway)'
      BY <1>1, <2>13, <3>3, <3>4, WaitingOn
    <3>6. QED
      BY <1>1, <2>9, <3>5 DEF AInv, Told
  <2>14. CASE Answered
    <3>1. p.session # session
      BY <1>2, <1>6, <2>14 DEF Answered, NotSent, p
    <3>2. NotTaken'
      <4>1. NotTaken
        BY <2>14 DEF Answered
      <4>2. LoginsOlder
        BY <2>1, <2>2, <2>3, <3>1 DEF LoginsOlder
      <4>3. QED
        BY <1>1, <4>1, <4>2, TakenOlder
    <3>3. GoesOn
      <4>1. \A log \in Seq(Nat) : log # <<>> /\ Numbers(log) => NumbersOn(log)
        BY <1>1, <1>2, <1>4, OutsideLog
      <4>2. QED
        BY <4>1 DEF GoesOn
    <3>4. Answered'
      BY <1>1, <1>2, <2>5, <2>14, <3>2, <3>3, AnsweredOn DEF AInv, Past
    <3>5. QED
      BY <1>1, <2>9, <3>4 DEF AInv, Told
  <2>15. ASSUME AtGame \/ AtGateway
         PROVE  s # last_sock
    BY <1>1, <2>15 DEF AtGame, AtGateway
  <2>16. QED
    BY <2>12, <2>13, <2>14, <2>15 DEF AInv
<1>7. QED
  BY <1>5, <1>6

\* The next reposted request.
LEMMA RepeatStep ==
  ASSUME Inv, Inv', AInv, Repeat
  PROVE  AInv'
<1>1. /\ posted # <<>> /\ Outside(0, Head(posted), Tail(posted))
      /\ UNCHANGED <<up, last_sock, open, session, from_game, said, client, got>>
  BY DEF Repeat
<1>2. Head(posted) \in Ordered
  <2>1. posted \in Seq(Ordered)
    BY DEF Inv, Types, GatewayType
  <2> HIDE DEF Ordered
  <2>2. QED
    BY <1>1, <2>1
<1> DEFINE p == Head(posted)
<1>3. p \in Requests /\ p.kind # "login"
  BY <1>2 DEF Ordered, Requests
<1>4. UpFewer
  BY <1>1 DEF UpFewer
<1>5. 0 <= last_sock /\ (OnConnection \/ AtGame \/ AtGateway => 0 # last_sock)
  BY DEF Inv, Types, NetType, OnConnection, AtGame, AtGateway, Unanswered, Socks
<1> HIDE DEF p
<1>6. QED
  BY <1>1, <1>3, <1>4, <1>5, OutsideStep DEF p

\* The end of a connection.
LEMMA CloseStep ==
  ASSUME Inv, Inv', AInv, NEW s \in Socks, Close(s)
  PROVE  AInv'
<1>1. /\ data' = (IF s \in sock_map /\ exists THEN Bound(data, 0) ELSE data)
      /\ UNCHANGED <<exists, up, down, last_sock, open, session, logins, from_game, said, client, got>>
  BY DEF Close, Bound, game
<1>2. data \in Data /\ Last(data)
  BY DEF Inv, Types, GatewayType
<1>3. /\ data'.sock \in {0, data.sock} /\ data'.session = data.session
      /\ data'.server_order = data.server_order /\ data'.server_buff = data.server_buff
  BY <1>1, <1>2, BoundType
<1>4. \A q \in Socks : q # data.sock => Leaves(q)
  BY <1>1, <1>3 DEF Leaves, Socks
<1>5. UpFewer /\ LoginsFewer /\ GameFewer /\ LoginsOlder /\ OnlyFirst'
  BY <1>1 DEF UpFewer, LoginsFewer, GameFewer, LoginsOlder, AInv, Past, OnlyFirst
<1>6. Newest'
  <2>1. ASSUME NEW q \in Socks, q > last_sock
        PROVE  Leaves(q) /\ up'[q] = up[q]
    <3>1. data.sock <= last_sock /\ data.sock \in Int /\ q \in Int /\ last_sock \in Int
      BY SessionAssumption DEF AInv, Past, Newest, Inv, Types, GatewayType, Data, Socks, NetType
    <3>2. q # data.sock
      BY <2>1, <3>1
    <3>3. QED
      BY <1>1, <1>4, <3>2
  <2>2. client'.sock \in {0, client.sock} /\ open' \subseteq open \cap {client'.sock} /\ Newest
    BY <1>1 DEF AInv, Past, Newest
  <2>3. QED
    BY <1>1, <2>1, <2>2, NewestOn
<1>7. Past'
  BY <1>1, <1>5, <1>6, BeforeOn DEF AInv, Past
<1>8. ASSUME OnConnection \/ AtGame \/ AtGateway
      PROVE  (OnConnection \/ AtGame \/ AtGateway)'
  <2>1. Unanswered
    BY <1>8 DEF OnConnection, AtGame, AtGateway
  <2>2. Leaves(last_sock)
    BY <1>4, <2>1 DEF Unanswered
  <2>3. Unanswered'
    BY <1>1, <1>5, <2>1, <2>2, UnansweredOn DEF Unanswered
  <2>4. QED
    BY <1>1, <1>5, <1>8, <2>3, WaitingOn
<1>9. ASSUME Answered
      PROVE  Answered'
  <2>1. NotTaken'
    BY <1>1, <1>5, <1>9, NotOn DEF Answered
  <2>2. ASSUME NEW log \in Seq(Nat), Numbers(log)
        PROVE  NumbersOn(log)
    <3>1. Numbers(log)'
      BY <1>1, <1>3, <2>2 DEF Numbers, Gone, Counts, Saying, InFlight
    <3>2. Writes(log) /\ Longer(log, log)
      BY <1>1 DEF Writes, Longer
    <3>3. QED
      BY <3>1, <3>2 DEF NumbersOn
  <2>3. GoesOn
    BY <2>2 DEF GoesOn
  <2>4. QED
    BY <1>1, <1>5, <1>9, <2>1, <2>3, AnsweredOn DEF AInv, Past
<1>10. QED
  BY <1>1, <1>7, <1>8, <1>9 DEF AInv, Told

\* The answer to the newest login: the gateway and the client begin a log.
LEMMA LoginAnswered ==
  ASSUME Inv, Inv', AInv, FromGame, AtGateway, from_game[1].kind = "login",
         from_game[1].sock = last_sock, NoneBehind(1)
  PROVE  Answered'
<1> DEFINE m == from_game[1]
           a == [kind |-> "login", order |-> 0, n |-> m.session]
<1>1. /\ exists' /\ data'.sock = m.sock /\ data'.server_order = 1 /\ DOMAIN data'.server_buff = {}
      /\ down' = Put(last_sock, <<a>>)
  BY LoginLog
<1>2. /\ \A i \in DOMAIN from_game' : i + 1 \in DOMAIN from_game /\ from_game'[i] = from_game[i + 1]
      /\ ~InFlight' /\ UNCHANGED <<last_sock, open, up, session, logins, said, client, got>>
      /\ from_game' \in Seq(Said)
  <2>1. from_game' \in Seq(Said)
    BY DEF Inv, Types, GameType
  <2>2. QED
    BY <2>1, FromGameHead DEF AInv, Past
<1>3. /\ Unanswered /\ NotTaken /\ up[last_sock] = <<>> /\ said = 0
  BY DEF AtGateway
<1>4. ASSUME NEW j \in DOMAIN from_game'
      PROVE  from_game'[j].kind # "login"
  <2>1. j \in Nat /\ j >= 1
    <3> HIDE DEF Said
    <3> QED BY <1>2
  <2>2. j + 1 \in DOMAIN from_game /\ from_game'[j] = from_game[j + 1] /\ j + 1 > 1
    BY <1>2, <2>1
  <2>3. QED
    BY <2>2 DEF NoneBehind
<1>5. NotTaken' /\ NotPassed' /\ NoneBehind(0)'
  BY <1>2, <1>3, <1>4 DEF NotTaken, NotPassed, NoneBehind
<1>6. \A s \in Socks : NotSent(s)'
  <2>1. NotSent(last_sock)
    BY <1>3 DEF NotSent
  <2>2. \A s \in Socks : NotSent(s)
    BY <1>3, <2>1 DEF Unanswered
  <2>3. QED
    BY <1>2, <2>2 DEF NotSent
<1>7. ASSUME client.logged \/ client.sock # 0
      PROVE  Log(<<0>>)'
  <2>1. ~client.logged /\ client.sock = last_sock /\ last_sock \in open /\ last_sock \in Socks
    BY <1>3, <1>7 DEF Unanswered, AInv, Past, Newest, Inv, Types, ClientType
  <2>2. down'[last_sock] = <<a>>
    <3>1. down'[last_sock] = down[last_sock] \o <<a>>
      BY <1>1, <2>1, PutAt DEF Inv, Types
    <3>2. down[last_sock] = <<>>
      BY <1>3 DEF Unanswered
    <3> HIDE DEF a
    <3>3. QED
      BY <3>1, <3>2
  <2>3. Len(<<0>>) = 1 /\ <<0>>[1] = 0 /\ <<0>> # <<>> /\ <<0>> \in Seq(Nat)
    OBVIOUS
  <2>4. Numbers(<<0>>)'
    <3>1. Counts(data', <<0>>)
      BY <1>1, <2>3 DEF Counts
    <3>2. Saying(<<0>>)'
      BY <1>2, <1>3, <2>3 DEF Saying
    <3>3. QED
      BY <1>1, <3>1, <3>2 DEF Numbers, Counts
  <2>5. Reads(<<0>>)'
    <3>1. /\ down'[last_sock] # <<>> /\ down'[last_sock][1] = a
          /\ \A i \in DOMAIN down'[last_sock] : i = 1
      <4> HIDE DEF a
      <4> QED BY <2>2
    <3>2. a.kind = "login" /\ a.order = 0
      OBVIOUS
    <3> HIDE DEF a
    <3>3. QED
      BY <1>2, <2>1, <3>1, <3>2 DEF Reads
  <2>6. QED
    BY <2>3, <2>4, <2>5 DEF Log
<1>8. ASSUME client'.logged \/ client'.sock # 0
      PROVE  \E log \in Seq(Nat) : Log(log)'
  <2>1. <<0>> \in Seq(Nat)
    OBVIOUS
  <2>2. QED
    BY <1>2, <1>7, <1>8, <2>1
<1>9. QED
  BY <1>5, <1>6, <1>8 DEF Answered

\* The next message of the game server.
LEMMA FromGameStep ==
  ASSUME Inv, Inv', AInv, FromGame
  PROVE  AInv'
<1> DEFINE m == from_game[1]
<1>1. /\ from_game # <<>> /\ m \in Said
      /\ \A i \in DOMAIN from_game' : i + 1 \in DOMAIN from_game /\ from_game'[i] = from_game[i + 1]
      /\ \A i \in DOMAIN from_game : i # 1 => i - 1 \in DOMAIN from_game' /\ from_game'[i - 1] = from_game[i]
      /\ ~InFlight' /\ OnlyFirst'
      /\ UNCHANGED <<last_sock, open, up, session, logins, said, client, got>>
  BY FromGameHead DEF AInv, Past
<1>2. from_game \in Seq(Said) /\ from_game' \in Seq(Said)
  BY DEF Inv, Types, GameType
<1>3. 1 \in DOMAIN from_game /\ DOMAIN from_game \subseteq Nat \ {0} /\ DOMAIN from_game' \subseteq Nat \ {0}
  <2> HIDE DEF Said
  <2> QED BY <1>1, <1>2
<1>4. UpFewer /\ LoginsFewer /\ LoginsOlder
  BY <1>1 DEF UpFewer, LoginsFewer, LoginsOlder
<1>5. GameFewer
  BY <1>1 DEF GameFewer
<1>6. \A q \in Socks : q # data.sock /\ (m.kind = "login" => m.sock # q) => Leaves(q)
  BY FromGameLeaves
<1>7. m.kind = "login" => m.session <= session /\ m.sock <= last_sock /\ m.sock \in Socks
  BY <1>1, <1>3 DEF AInv, Past, PassedBefore, Said
<1> HIDE DEF m
<1>8. Newest'
  <2>1. ASSUME NEW q \in Socks, q > last_sock
        PROVE  Leaves(q) /\ up'[q] = up[q]
    <3>1. /\ data.sock <= last_sock /\ data.sock \in Int /\ q \in Int /\ last_sock \in Int
          /\ m.kind = "login" => m.sock \in Int
      <4>1. data.sock <= last_sock /\ data.sock \in Int /\ q \in Int /\ last_sock \in Int
        BY SessionAssumption DEF AInv, Past, Newest, Inv, Types, GatewayType, Data, Socks, NetType
      <4>2. \A x \in Socks : x \in Int
        BY SessionAssumption DEF Socks
      <4>3. QED
        BY <1>7, <4>1, <4>2
    <3>2. q # data.sock /\ (m.kind = "login" => m.sock # q)
      BY <1>7, <2>1, <3>1
    <3>3. QED
      BY <1>1, <1>6, <3>2
  <2>2. client'.sock \in {0, client.sock} /\ open' \subseteq open \cap {client'.sock} /\ Newest
    BY <1>1 DEF AInv, Past, Newest
  <2>3. QED
    BY <1>1, <2>1, <2>2, NewestOn
<1>9. Past'
  BY <1>1, <1>4, <1>5, <1>8, BeforeOn DEF AInv, Past
<1>10. ASSUME Unanswered, m.kind = "login" => m.session # session
       PROVE  Unanswered'
  <2>1. m.kind = "login" => m.sock # last_sock
    BY <1>3, <1>10 DEF Unanswered, m
  <2>2. Leaves(last_sock)
    BY <1>6, <1>10, <2>1 DEF Unanswered
  <2>3. QED
    BY <1>1, <1>4, <1>5, <1>10, <2>2, UnansweredOn DEF Unanswered, LoginsFewer, GameFewer
<1>11. CASE OnConnection \/ AtGame
  <2>1. Unanswered /\ NotPassed
    BY <1>11 DEF OnConnection, AtGame
  <2>2. m.kind = "login" => m.session # session
    BY <1>3, <2>1 DEF NotPassed, m
  <2>3. Unanswered' /\ NotPassed'
    BY <1>1, <1>5, <1>10, <2>1, <2>2, NotOn
  <2>4. (OnConnection \/ AtGame)'
    BY <1>1, <1>11, <2>3 DEF OnConnection, AtGame, NotTaken
  <2>5. QED
    BY <1>1, <1>9, <2>4 DEF AInv, Told
<1>12. CASE AtGateway
  <2>1. PICK i \in DOMAIN from_game :
          /\ from_game[i].kind = "login" /\ from_game[i].sock = last_sock /\ NoneBehind(i)
          /\ \A j \in DOMAIN from_game : from_game[j].kind = "login" /\ j # i => from_game[j].session # session
    BY <1>12 DEF AtGateway
  <2>2. CASE i = 1
    <3>1. Answered'
      BY <1>12, <2>1, <2>2, LoginAnswered
    <3>2. QED
      BY <1>1, <1>9, <3>1 DEF AInv, Told
  <2>3. CASE i # 1
    <3>1. m.kind = "login" => m.session # session
      BY <1>3, <2>1, <2>3 DEF m
    <3>2. Unanswered' /\ NotTaken' /\ up'[last_sock] = <<>> /\ said' = 0
      BY <1>1, <1>10, <1>12, <3>1 DEF AtGateway, NotTaken
    <3>3. i - 1 \in DOMAIN from_game' /\ from_game'[i - 1] = from_game[i] /\ i \in Nat
      BY <1>1, <1>3, <2>3
    <3>4. ASSUME NEW j \in DOMAIN from_game', from_game'[j].kind = "login"
          PROVE  ~(j > i - 1) /\ (j # i - 1 => from_game'[j].session # session)
      <4>1. j + 1 \in DOMAIN from_game /\ from_game'[j] = from_game[j + 1] /\ j \in Nat
        BY <1>1, <1>3
      <4>2. ~(j + 1 > i) /\ (j + 1 # i => from_game'[j].session # session)
        BY <2>1, <3>4, <4>1 DEF NoneBehind
      <4>3. QED
        BY <3>3, <4>1, <4>2
    <3>5. AtGateway'
      <4>1. PICK k \in DOMAIN from_game' : k = i - 1
        BY <3>3
      <4>2. NoneBehind(k)' /\ from_game'[k].kind = "login" /\ from_game'[k].sock = last_sock
        BY <2>1, <3>3, <3>4, <4>1 DEF NoneBehind
      <4>3. \A j \in DOMAIN from_game' : from_game'[j].kind = "login" /\ j # k => from_game'[j].session # session
        BY <3>4, <4>1
      <4>4. QED
        BY <1>1, <3>2, <4>2, <4>3 DEF AtGateway
    <3>6. QED
      BY <1>1, <1>9, <3>5 DEF AInv, Told
  <2>4. QED
    BY <2>2, <2>3
<1>13. CASE Answered
  <2>1. NotTaken'
    BY <1>1, <1>4, <1>13, NotOn DEF Answered
  <2>2. client.logged \/ client.sock # 0 => GoesOn
    <3>1. ASSUME client.logged \/ client.sock # 0
          PROVE  m.kind # "login"
      <4>1. NoneBehind(0) /\ 1 > 0
        BY <1>13, <3>1 DEF Answered
      <4>2. QED
        BY <1>3, <4>1 DEF NoneBehind, m
    <3>2. OnlyFirst
      BY DEF AInv, Past
    <3>3. QED
      BY <3>1, <3>2, FromGameLog DEF GoesOn, m
  <2>3. Answered'
    BY <1>1, <1>4, <1>5, <1>13, <2>1, <2>2, AnsweredOn DEF AInv, Past
  <2>4. QED
    BY <1>1, <1>9, <2>3 DEF AInv, Told
<1>14. QED
  BY <1>11, <1>12, <1>13 DEF AInv

\* A step of the game server or the client's that leaves the gateway alone.
LEMMA GatewayLeaves ==
  ASSUME UNCHANGED <<data, down>>, NEW q, q # data.sock
  PROVE  Leaves(q)
  BY DEF Leaves

\* The game server answers a login of the newest session.
LEMMA GameLoginStep ==
  ASSUME Inv, Inv', AInv, GameLogin
  PROVE  AInv'
<1> DEFINE l == logins[1]
           m == [kind |-> "login", session |-> session, sock |-> l.sock, n |-> 0]
<1>1. /\ logins # <<>> /\ logins' = Tail(logins) /\ Head(logins) = l /\ 1 \in DOMAIN logins
      /\ UNCHANGED <<exists, data, up, down, last_sock, open, session, client, got>>
      /\ \A i \in DOMAIN logins' : i + 1 \in DOMAIN logins /\ logins'[i] = logins[i + 1]
      /\ \A i \in DOMAIN logins : i # 1 => i - 1 \in DOMAIN logins' /\ logins'[i - 1] = logins[i]
  <2>1. /\ logins # <<>> /\ logins' = Tail(logins) /\ logins \in Seq(Logins)
        /\ UNCHANGED <<exists, data, up, down, last_sock, open, session, client, got>>
    BY DEF GameLogin, gateway, net, Inv, Types, GameType
  <2> HIDE DEF Logins
  <2>2. QED
    BY <2>1, TailItems
<1>2. IF l.session = session THEN from_game' = Append(from_game, m) /\ said' = 0
      ELSE UNCHANGED <<from_game, said>>
  BY <1>1 DEF GameLogin
<1>3. /\ from_game \in Seq(Said) /\ from_game' \in Seq(Said) /\ logins \in Seq(Logins)
      /\ logins' \in Seq(Logins) /\ session \in Nat /\ last_sock \in Nat
  BY DEF Inv, Types, GameType, NetType
<1>4. DOMAIN logins \subseteq Nat \ {0} /\ DOMAIN logins' \subseteq Nat \ {0} /\ l \in Logins
  <2> HIDE DEF Logins
  <2> QED BY <1>1, <1>3
<1>5. m \in Said
  BY <1>3, <1>4 DEF Logins, Said
<1>6. m.kind = "login" /\ m.session = session /\ m.sock = l.sock
  OBVIOUS
<1>7. l.session <= session /\ l.sock <= last_sock
  BY <1>1 DEF AInv, Past, TakenBefore
<1> HIDE DEF l, m
<1>8. UpFewer /\ LoginsFewer /\ \A q \in Socks : q # data.sock => Leaves(q)
  BY <1>1, GatewayLeaves DEF UpFewer, LoginsFewer
<1>9. Newest'
  <2>1. ASSUME NEW q \in Socks, q > last_sock
        PROVE  Leaves(q) /\ up'[q] = up[q]
    <3>1. data.sock <= last_sock /\ data.sock \in Int /\ q \in Int /\ last_sock \in Int
      BY SessionAssumption DEF AInv, Past, Newest, Inv, Types, GatewayType, Data, Socks, NetType
    <3>2. q # data.sock
      BY <2>1, <3>1
    <3>3. QED
      BY <1>1, <1>8, <3>2
  <2>2. client'.sock \in {0, client.sock} /\ open' \subseteq open \cap {client'.sock} /\ Newest
    BY <1>1 DEF AInv, Past, Newest
  <2>3. QED
    BY <1>1, <2>1, <2>2, NewestOn
<1>10. CASE l.session = session
  <2>1. from_game' = Append(from_game, m) /\ said' = 0
    BY <1>2, <1>10
  <2>2. /\ Len(from_game) + 1 \in DOMAIN from_game' /\ from_game'[Len(from_game) + 1] = m
        /\ \A i \in DOMAIN from_game : i \in DOMAIN from_game' /\ from_game'[i] = from_game[i]
        /\ \A i \in DOMAIN from_game' : i \in DOMAIN from_game \/ i = Len(from_game) + 1
        /\ Len(from_game) \in Nat /\ DOMAIN from_game' = 1..(Len(from_game) + 1)
    <3> HIDE DEF Said
    <3>1. Len(from_game) \in Nat
      BY <1>3
    <3>2. QED
      BY <1>3, <1>5, <2>1, <3>1, AppendItems
  <2>3. AtGame
    BY <1>1, <1>10 DEF AInv, l, OnConnection, AtGateway, Answered, NotTaken
  <2>4. PICK i \in DOMAIN logins : /\ logins[i].session = session /\ logins[i].sock = last_sock
                                   /\ \A j \in DOMAIN logins : j # i => logins[j].session # session
    BY <2>3 DEF AtGame
  <2>5. i = 1 /\ l.sock = last_sock
    BY <1>1, <1>10, <2>4 DEF l
  <2>6. NotTaken'
    <3>1. ASSUME NEW j \in DOMAIN logins'
          PROVE  logins'[j].session # session
      <4>1. j + 1 \in DOMAIN logins /\ logins'[j] = logins[j + 1] /\ j + 1 # 1
        BY <1>1, <1>4
      <4>2. QED
        BY <2>4, <2>5, <4>1
    <3>2. QED
      BY <1>1, <3>1 DEF NotTaken
  <2>7. Unanswered /\ NotPassed /\ up[last_sock] = <<>>
    BY <2>3 DEF AtGame
  <2>8. Unanswered'
    <3>1. Leaves(last_sock)
      BY <1>8, <2>7 DEF Unanswered
    <3>2. \A k \in DOMAIN from_game' : \/ \E j \in DOMAIN from_game : from_game'[k] = from_game[j]
                                       \/ from_game'[k].session = session
      BY <1>6, <2>2
    <3>3. QED
      BY <1>1, <1>8, <2>7, <3>1, <3>2, UnansweredOn DEF Unanswered, LoginsFewer
  <2>9. AtGateway'
    <3>1. PICK k \in DOMAIN from_game' : k = Len(from_game) + 1
      BY <2>2
    <3>2. NoneBehind(k)'
      BY <2>2, <3>1 DEF NoneBehind
    <3>3. from_game'[k].kind = "login" /\ from_game'[k].sock = last_sock
      BY <1>6, <2>2, <2>5, <3>1
    <3>4. \A j \in DOMAIN from_game' : from_game'[j].kind = "login" /\ j # k => from_game'[j].session # session
      BY <2>2, <2>7, <3>1 DEF NotPassed
    <3>5. QED
      BY <1>1, <2>1, <2>6, <2>7, <2>8, <3>2, <3>3, <3>4 DEF AtGateway
  <2>10. PassedBefore' /\ OnlyFirst'
    <3>1. \A k \in DOMAIN from_game' : k \in DOMAIN from_game \/ from_game'[k] = m
      BY <2>2
    <3>2. OnlyFirst'
      BY <1>6, <2>2, <3>1 DEF AInv, Past, OnlyFirst
    <3>3. m.session <= session /\ m.sock <= last_sock
      BY <1>3, <1>6, <1>7
    <3>4. PassedBefore'
      BY <1>1, <2>2, <3>1, <3>3 DEF AInv, Past, PassedBefore
    <3>5. QED
      BY <3>2, <3>4
  <2>11. QED
    BY <1>1, <1>8, <1>9, <2>9, <2>10, BeforeOn DEF AInv, Past, Told
<1>11. CASE l.session # session
  <2>1. UNCHANGED <<from_game, said>>
    BY <1>2, <1>11
  <2>2. GameFewer /\ OnlyFirst'
    BY <2>1 DEF GameFewer, AInv, Past, OnlyFirst
  <2>3. Past'
    BY <1>1, <1>8, <1>9, <2>2, BeforeOn DEF AInv, Past
  <2>4. Unanswered => Unanswered'
    <3>1. Unanswered => Leaves(last_sock)
      BY <1>8 DEF Unanswered
    <3>2. QED
      BY <1>1, <1>8, <2>2, <3>1, UnansweredOn DEF Unanswered, LoginsFewer, GameFewer
  <2>5. (NotTaken => NotTaken') /\ (NotPassed => NotPassed') /\ (NoneBehind(0) => NoneBehind(0)')
    BY <1>1, <1>8, <2>1, <2>2, NotOn DEF NoneBehind
  <2>6. OnConnection => OnConnection'
    BY <1>1, <2>4, <2>5 DEF OnConnection
  <2>7. AtGateway => AtGateway'
    BY <1>1, <2>1, <2>4, <2>5 DEF AtGateway, NoneBehind
  <2>8. ASSUME AtGame
        PROVE  AtGame'
    <3>1. PICK i \in DOMAIN logins : /\ logins[i].session = session /\ logins[i].sock = last_sock
                                     /\ \A j \in DOMAIN logins : j # i => logins[j].session # session
      BY <2>8 DEF AtGame
    <3>2. i # 1 /\ i \in Nat
      BY <1>4, <1>11, <3>1 DEF l
    <3>3. PICK k \in DOMAIN logins' : k = i - 1 /\ logins'[k] = logins[i]
      BY <1>1, <3>2
    <3>4. ASSUME NEW j \in DOMAIN logins', j # k
          PROVE  logins'[j].session # session
      <4>1. j + 1 \in DOMAIN logins /\ logins'[j] = logins[j + 1] /\ j \in Nat
        BY <1>1, <1>4
      <4>2. j + 1 # i
        BY <3>2, <3>3, <3>4, <4>1
      <4>3. QED
        BY <3>1, <4>1, <4>2
    <3>5. QED
      BY <1>1, <2>4, <2>5, <2>8, <3>1, <3>3, <3>4 DEF AtGame
  <2>9. ASSUME Answered
        PROVE  Answered'
    <3>1. NotTaken'
      BY <2>5, <2>9 DEF Answered
    <3>2. ASSUME NEW log \in Seq(Nat), Numbers(log)
          PROVE  NumbersOn(log)
      <4>1. Numbers(log)'
        BY <1>1, <2>1, <3>2 DEF Numbers, Gone, Counts, Saying, InFlight
      <4>2. Writes(log) /\ Longer(log, log)
        BY <1>1 DEF Writes, Longer
      <4>3. QED
        BY <4>1, <4>2 DEF NumbersOn
    <3>3. GoesOn
      BY <3>2 DEF GoesOn
    <3>4. QED
      BY <1>1, <1>8, <2>2, <2>9, <3>1, <3>3, AnsweredOn DEF AInv, Past
  <2>10. QED
    BY <1>1, <2>3, <2>6, <2>7, <2>8, <2>9 DEF AInv, Told
<1>12. QED
  BY <1>10, <1>11

\* A message of the game server goes behind the others; it is no login.
LEMMA SaidStep ==
  ASSUME Inv, Inv', AInv, NEW m \in Said, m.kind # "login", from_game' = Append(from_game, m),
         m.kind = "data" => from_game = <<>> /\ said' = said + 1 /\ m.n = said',
         m.kind # "data" => said' = said,
         UNCHANGED <<exists, data, up, down, last_sock, open, session, logins, client, got>>
  PROVE  AInv'
<1>1. from_game \in Seq(Said)
  BY DEF Inv, Types, GameType
<1>2. /\ \A i \in DOMAIN from_game : i \in DOMAIN from_game' /\ from_game'[i] = from_game[i]
      /\ \A i \in DOMAIN from_game' : i \in DOMAIN from_game \/ (i = Len(from_game) + 1 /\ from_game'[i] = m)
      /\ Len(from_game) \in Nat /\ from_game' # <<>>
      /\ from_game = <<>> => from_game'[1] = m
      /\ from_game # <<>> => from_game'[1] = from_game[1]
      /\ DOMAIN from_game = 1..Len(from_game)
  <2> HIDE DEF Said
  <2>1. Len(from_game) \in Nat
    BY <1>1
  <2>2. /\ \A i \in DOMAIN from_game : i \in DOMAIN from_game' /\ from_game'[i] = from_game[i]
        /\ \A i \in DOMAIN from_game' : i \in DOMAIN from_game \/ i = Len(from_game) + 1
        /\ DOMAIN from_game' = 1..(Len(from_game) + 1) /\ from_game'[Len(from_game) + 1] = m
        /\ DOMAIN from_game = 1..Len(from_game)
    BY <1>1, AppendItems
  <2>3. from_game = <<>> => Len(from_game) = 0
    OBVIOUS
  <2>4. from_game # <<>> => 1 \in DOMAIN from_game
    BY <1>1
  <2>5. 1 \in DOMAIN from_game'
    BY <2>1, <2>2
  <2>6. QED
    BY <2>1, <2>2, <2>3, <2>4, <2>5
<1>3. GameFewer
  <2>1. ASSUME NEW i \in DOMAIN from_game', from_game'[i].kind = "login"
        PROVE  \E j \in DOMAIN from_game : from_game'[i] = from_game[j]
    BY <1>2, <2>1
  <2>2. QED
    BY <2>1 DEF GameFewer
<1>4. OnlyFirst'
  <2>1. ASSUME NEW i \in DOMAIN from_game', from_game'[i].kind = "data"
        PROVE  i = 1
    <3>1. CASE i \in DOMAIN from_game
      BY <1>2, <2>1, <3>1 DEF AInv, Past, OnlyFirst
    <3>2. CASE i = Len(from_game) + 1 /\ from_game'[i] = m
      BY <2>1, <3>2
    <3>3. QED
      BY <1>2, <3>1, <3>2
  <2>2. QED
    BY <2>1 DEF OnlyFirst
<1>5. UpFewer /\ LoginsFewer /\ LoginsOlder
  BY DEF UpFewer, LoginsFewer, LoginsOlder
<1>6. Newest'
  BY DEF AInv, Past, Newest
<1>7. Past'
  BY <1>3, <1>4, <1>5, <1>6, BeforeOn DEF AInv, Past
<1>8. Unanswered => Unanswered'
  <2>1. Unanswered => Leaves(last_sock)
    BY GatewayLeaves DEF Unanswered
  <2>2. QED
    BY <1>3, <1>5, <2>1, UnansweredOn DEF Unanswered, LoginsFewer, GameFewer
<1>9. (NotTaken => NotTaken') /\ (NotPassed => NotPassed')
  BY <1>3, <1>5, NotOn
<1>10. (OnConnection => OnConnection') /\ (AtGame => AtGame')
  BY <1>8, <1>9 DEF OnConnection, AtGame
<1>11. ASSUME AtGateway
       PROVE  AtGateway'
  <2>1. PICK i \in DOMAIN from_game :
          /\ from_game[i].kind = "login" /\ from_game[i].sock = last_sock /\ NoneBehind(i)
          /\ \A j \in DOMAIN from_game : from_game[j].kind = "login" /\ j # i => from_game[j].session # session
    BY <1>11 DEF AtGateway
  <2>2. said' = said
    BY <2>1
  <2>3. i \in DOMAIN from_game' /\ from_game'[i] = from_game[i]
    BY <1>2
  <2>4. \A j \in DOMAIN from_game' : from_game'[j].kind = "login" => j \in DOMAIN from_game /\ from_game'[j] = from_game[j]
    BY <1>2
  <2>5. NoneBehind(i)'
    BY <2>1, <2>4 DEF NoneBehind
  <2>6. \A j \in DOMAIN from_game' : from_game'[j].kind = "login" /\ j # i => from_game'[j].session # session
    BY <2>1, <2>4
  <2>7. QED
    BY <1>8, <1>9, <1>11, <2>1, <2>2, <2>3, <2>5, <2>6 DEF AtGateway
<1>12. ASSUME Answered
       PROVE  Answered'
  <2>1. NotTaken'
    BY <1>9, <1>12 DEF Answered
  <2>2. ASSUME NEW log \in Seq(Nat), Numbers(log)
        PROVE  NumbersOn(log)
    <3>1. Saying(log) => Saying(log)'
      <4>1. CASE m.kind = "data"
        <5>1. Saying(log) => said = log[Len(log)]
          BY <4>1 DEF Saying, InFlight
        <5>2. InFlight' /\ from_game'[1].n = said' /\ said' = said + 1
          BY <1>2, <4>1 DEF InFlight
        <5>3. QED
          BY <5>1, <5>2 DEF Saying
      <4>2. CASE m.kind # "data"
        <5>1. InFlight' <=> InFlight
          BY <1>2, <4>2 DEF InFlight
        <5>2. InFlight => from_game'[1] = from_game[1]
          BY <1>2 DEF InFlight
        <5>3. QED
          BY <4>2, <5>1, <5>2 DEF Saying
      <4>3. QED
        BY <4>1, <4>2
    <3>2. Numbers(log)'
      BY <2>2, <3>1 DEF Numbers, Gone, Counts
    <3>3. Writes(log) /\ Longer(log, log)
      BY DEF Writes, Longer
    <3>4. QED
      BY <3>2, <3>3 DEF NumbersOn
  <2>3. GoesOn
    BY <2>2 DEF GoesOn
  <2>4. QED
    BY <1>3, <1>5, <1>12, <2>1, <2>3, AnsweredOn DEF AInv, Past
<1>13. QED
  BY <1>7, <1>10, <1>11, <1>12 DEF AInv, Told

\* What the game server says, and its faults.
LEMMA SayFaultStep ==
  ASSUME Inv, Inv', AInv, GameSay \/ GameFault("kick") \/ GameFault("unusual")
  PROVE  AInv'
<1>1. UNCHANGED <<exists, data, up, down, last_sock, open, session, logins, client, got>>
  BY DEF GameSay, GameFault, gateway, net
<1>2. CASE GameSay
  <2> DEFINE m == [kind |-> "data", session |-> 0, sock |-> 0, n |-> said']
  <2>1. from_game = <<>> /\ said' = said + 1 /\ from_game' = Append(from_game, m)
    BY <1>2 DEF GameSay
  <2>2. m \in Said
    BY DEF Inv, Types, GameType, Said
  <2>3. m.kind = "data" /\ m.n = said'
    OBVIOUS
  <2> HIDE DEF m
  <2>4. PICK k \in Said : k = m
    BY <2>2
  <2>5. QED
    BY <1>1, <2>1, <2>3, <2>4, SaidStep
<1>3. ASSUME NEW kind \in {"kick", "unusual"}, GameFault(kind)
      PROVE  AInv'
  <2> DEFINE m == [kind |-> kind, session |-> 0, sock |-> 0, n |-> 0]
  <2>1. from_game' = Append(from_game, m) /\ said' = said
    BY <1>3 DEF GameFault
  <2>2. m \in Said
    BY DEF Said
  <2>3. m.kind \notin {"login", "data"}
    BY <1>3
  <2> HIDE DEF m
  <2>4. QED
    BY <1>1, <2>1, <2>2, <2>3, SaidStep
<1>4. QED
  BY <1>2, <1>3

\* The client's steps leave the numbers of the gateway as they are.
ClientAlone == UNCHANGED <<exists, data, logins, from_game, said>>

LEMMA NumbersApart ==
  ASSUME ClientAlone, NEW log, Numbers(log)
  PROVE  Numbers(log)'
  BY DEF ClientAlone, Numbers, Gone, Counts, Saying, InFlight

\* And where the newest login is, but for the connections.
LEMMA StationsApart ==
  ASSUME ClientAlone, session' = session
  PROVE  /\ NotTaken => NotTaken'
         /\ NotPassed => NotPassed'
         /\ NoneBehind(0) => NoneBehind(0)'
         /\ last_sock' = last_sock => LoginsFewer /\ GameFewer
  BY DEF ClientAlone, NotTaken, NotPassed, NoneBehind, LoginsFewer, GameFewer

\* A new connection.
LEMMA ConnectNewest ==
  ASSUME Inv, Inv', Newest, client.sock = 0, Connect, NEW p, up' = [up EXCEPT ![last_sock'] = <<p>>],
         client'.sock = last_sock', UNCHANGED <<data, down>>
  PROVE  /\ Newest' /\ last_sock \in Nat /\ last_sock' = last_sock + 1 /\ last_sock' \in Socks
         /\ up'[last_sock'] = <<p>> /\ down'[last_sock'] = <<>> /\ data'.sock # last_sock'
         /\ \A s \in Socks : s # last_sock' => up'[s] = up[s]
         /\ DOMAIN <<p>> = {1} /\ <<p>>[1] = p /\ Len(<<p>>) = 1
<1>1. /\ last_sock' = last_sock + 1 /\ last_sock < MaxSocks /\ open' = open \cup {last_sock'}
      /\ last_sock \in 0..MaxSocks /\ MaxSocks \in Nat /\ open \subseteq Socks
      /\ up \in [Socks -> Seq(Requests)] /\ down' = down /\ data' = data
      /\ data.sock \in Int /\ data.sock <= last_sock
  <2>1. last_sock' = last_sock + 1 /\ last_sock < MaxSocks /\ open' = open \cup {last_sock'}
    BY DEF Connect
  <2>2. last_sock \in 0..MaxSocks /\ open \subseteq Socks /\ up \in [Socks -> Seq(Requests)]
    BY DEF Inv, Types, NetType
  <2>3. MaxSocks \in Nat
    BY SessionAssumption
  <2>4. data.sock \in Socks \cup {0}
    BY DEF Inv, Types, GatewayType, Data
  <2>5. data.sock \in Int
    BY <2>3, <2>4 DEF Socks
  <2>6. data.sock <= last_sock
    BY DEF Newest
  <2>7. QED
    BY <2>1, <2>2, <2>3, <2>5, <2>6
<1>2. last_sock' \in Socks /\ last_sock \in Nat
  BY <1>1 DEF Socks
<1>3. open = {}
  BY <1>1 DEF Newest, Socks
<1>4. \A s \in Socks : s # last_sock' => up'[s] = up[s]
  BY <1>1
<1>5. up'[last_sock'] = <<p>> /\ DOMAIN <<p>> = {1} /\ <<p>>[1] = p /\ Len(<<p>>) = 1
  BY <1>1, <1>2
<1>6. down'[last_sock'] = <<>> /\ data'.sock # last_sock' /\ data'.sock <= last_sock'
  <2>1. last_sock' > last_sock
    BY <1>1
  <2>2. down[last_sock'] = <<>>
    BY <1>2, <2>1 DEF Newest
  <2>3. QED
    BY <1>1, <2>2
<1>7. \A s \in Socks : s > last_sock' => up'[s] = <<>> /\ down'[s] = <<>>
  <2>1. ASSUME NEW s \in Socks, s > last_sock'
        PROVE  s > last_sock /\ s # last_sock'
    BY <1>1, <2>1 DEF Socks
  <2>2. QED
    BY <1>1, <1>4, <2>1 DEF Newest
<1>8. Newest'
  BY <1>1, <1>3, <1>6, <1>7 DEF Newest
<1>9. QED
  BY <1>1, <1>2, <1>4, <1>5, <1>6, <1>8

\* A new session: its login is on its connection.
LEMMA LoginOn ==
  ASSUME Inv, Inv', AInv, Login
  PROVE  AInv'
<1> DEFINE p == Packet("login", session', 0)
<1>1. /\ client.sock = 0 /\ ~client.logged /\ session' = session + 1 /\ Connect
      /\ up' = [up EXCEPT ![last_sock'] = <<p>>]
      /\ client' = [client EXCEPT !.sock = last_sock']
      /\ UNCHANGED <<exists, data, down, logins, from_game, said, got>>
  BY DEF Login, gateway
<1>2. client'.sock = last_sock' /\ ~client'.logged /\ session \in Nat
  BY <1>1 DEF Inv, Types, ClientType, GameType
<1>3. p.kind = "login" /\ p.session = session'
  BY DEF Packet
<1> HIDE DEF p
<1>4. /\ Newest' /\ last_sock \in Nat /\ last_sock' = last_sock + 1 /\ last_sock' \in Socks
      /\ up'[last_sock'] = <<p>> /\ down'[last_sock'] = <<>> /\ data'.sock # last_sock'
      /\ \A s \in Socks : s # last_sock' => up'[s] = up[s]
      /\ DOMAIN <<p>> = {1} /\ <<p>>[1] = p /\ Len(<<p>>) = 1
  BY <1>1, <1>2, ConnectNewest DEF AInv, Past
<1>5. /\ \A s \in Socks : \A i \in DOMAIN up[s] :
           up[s][i].kind = "login" => up[s][i].session <= session /\ up[s][i].session \in Int
      /\ \A i \in DOMAIN logins : /\ logins[i].session <= session /\ logins[i].sock <= last_sock
                                  /\ logins[i].session \in Int /\ logins[i].sock \in Int
      /\ \A i \in DOMAIN from_game : from_game[i].kind = "login" =>
           /\ from_game[i].session <= session /\ from_game[i].sock <= last_sock
           /\ from_game[i].session \in Int /\ from_game[i].sock \in Int
  <2>1. \A s \in Socks : \A i \in DOMAIN up[s] : up[s][i] \in Requests
    <3>1. up \in [Socks -> Seq(Requests)]
      BY DEF Inv, Types, NetType
    <3> HIDE DEF Requests
    <3>2. QED
      BY <3>1
  <2>2. (\A i \in DOMAIN logins : logins[i] \in Logins) /\ (\A i \in DOMAIN from_game : from_game[i] \in Said)
    <3>1. logins \in Seq(Logins) /\ from_game \in Seq(Said)
      BY DEF Inv, Types, GameType
    <3> HIDE DEF Logins, Said
    <3>2. QED
      BY <3>1
  <2>3. \A s \in Socks : \A i \in DOMAIN up[s] : up[s][i].session \in Int
    BY <2>1 DEF Requests
  <2>4. \A i \in DOMAIN logins : logins[i].session \in Int /\ logins[i].sock \in Int
    BY <2>2 DEF Logins, Socks
  <2>5. \A i \in DOMAIN from_game : from_game[i].session \in Int /\ from_game[i].sock \in Int
    BY <2>2 DEF Said, Socks
  <2>6. SentBefore /\ TakenBefore /\ PassedBefore
    BY DEF AInv, Past
  <2>7. QED
    BY <2>3, <2>4, <2>5, <2>6 DEF SentBefore, TakenBefore, PassedBefore
<1>6. SentBefore'
  <2>1. ASSUME NEW s \in Socks, NEW i \in DOMAIN up'[s], up'[s][i].kind = "login"
        PROVE  up'[s][i].session <= session'
    <3>1. CASE s = last_sock'
      <4>1. up'[s][i].session = session' /\ session' \in Int
        BY <1>1, <1>2, <1>3, <1>4, <3>1
      <4>2. QED
        BY <4>1
    <3>2. CASE s # last_sock'
      <4>1. up[s][i].session <= session /\ up[s][i].session \in Int /\ up'[s][i] = up[s][i]
        BY <1>4, <1>5, <2>1, <3>2
      <4>2. QED
        BY <1>1, <1>2, <4>1
    <3>3. QED
      BY <3>1, <3>2
  <2>2. QED
    BY <2>1 DEF SentBefore
<1>7. /\ \A i \in DOMAIN logins : /\ logins[i].session <= session' /\ logins[i].sock <= last_sock'
                                  /\ logins[i].session # session' /\ logins[i].sock # last_sock'
      /\ \A i \in DOMAIN from_game : from_game[i].kind = "login" =>
           /\ from_game[i].session <= session' /\ from_game[i].sock <= last_sock'
           /\ from_game[i].session # session' /\ from_game[i].sock # last_sock'
  BY <1>1, <1>2, <1>4, <1>5
<1>8. TakenBefore' /\ PassedBefore' /\ OnlyFirst' /\ NotTaken' /\ NotPassed'
  BY <1>1, <1>7 DEF TakenBefore, PassedBefore, OnlyFirst, NotTaken, NotPassed, AInv, Past
<1>9. \A s \in Socks : s # last_sock' => NotSent(s)'
  <2>1. ASSUME NEW s \in Socks, s # last_sock', NEW i \in DOMAIN up'[s], up'[s][i].kind = "login"
        PROVE  up'[s][i].session # session'
    <3>1. up[s][i].session <= session /\ up[s][i].session \in Int /\ up'[s][i] = up[s][i]
      BY <1>4, <1>5, <2>1
    <3>2. QED
      BY <1>1, <1>2, <3>1
  <2>2. QED
    BY <2>1 DEF NotSent
<1>10. Unanswered'
  BY <1>1, <1>2, <1>4, <1>7, <1>9 DEF Unanswered
<1>11. OnConnection'
  BY <1>3, <1>4, <1>8, <1>10 DEF OnConnection
<1>12. QED
  BY <1>1, <1>4, <1>6, <1>8, <1>11 DEF AInv, Past, Told

\* While the role is logged in, or the client has something to read, it was answered.
LEMMA ReadsAnswered ==
  ASSUME Inv, AInv, client.logged \/ (client.sock # 0 /\ down[client.sock] # <<>>)
  PROVE  /\ Answered /\ NoneBehind(0) /\ NotTaken /\ NotPassed /\ \A s \in Socks : NotSent(s)
         /\ \E log \in Seq(Nat) : log # <<>> /\ log[1] = 0 /\ Numbers(log) /\ Reads(log)
<1>1. Answered
  BY DEF AInv, Past, Newest, OnConnection, AtGame, AtGateway, Unanswered
<1>2. QED
  BY <1>1 DEF Answered, Log

\* A new connection of the same session.
LEMMA ReconnectOn ==
  ASSUME Inv, Inv', AInv, Reconnect
  PROVE  AInv'
<1> DEFINE p == Packet("req", client.session, client.client_order)
<1>1. /\ client.sock = 0 /\ client.logged /\ Connect /\ session' = session
      /\ up' = [up EXCEPT ![last_sock'] = <<p>>]
      /\ client' = [client EXCEPT !.sock = last_sock', !.client_order = @ + 1]
      /\ UNCHANGED <<exists, data, down, logins, from_game, said, got>>
  BY DEF Reconnect, gateway, game
<1>2. /\ client'.sock = last_sock' /\ client'.logged /\ client'.server_order = client.server_order
  BY <1>1 DEF Inv, Types, ClientType
<1>3. p.kind = "req"
  BY DEF Packet
<1> HIDE DEF p
<1>4. /\ Newest' /\ last_sock \in Nat /\ last_sock' = last_sock + 1 /\ last_sock' \in Socks
      /\ up'[last_sock'] = <<p>> /\ down'[last_sock'] = <<>>
      /\ \A s \in Socks : s # last_sock' => up'[s] = up[s]
      /\ DOMAIN <<p>> = {1} /\ <<p>>[1] = p
  BY <1>1, <1>2, ConnectNewest DEF AInv, Past
<1>5. /\ NoneBehind(0) /\ NotTaken /\ NotPassed /\ \A s \in Socks : NotSent(s)
      /\ \E log \in Seq(Nat) : log # <<>> /\ log[1] = 0 /\ Numbers(log) /\ Reads(log)
  BY <1>1, ReadsAnswered
<1>6. UpFewer
  <2>1. ASSUME NEW s \in Socks, NEW i \in DOMAIN up'[s], up'[s][i].kind = "login"
        PROVE  \E j \in DOMAIN up[s] : up'[s][i] = up[s][j]
    <3>1. s # last_sock'
      BY <1>3, <1>4, <2>1
    <3>2. QED
      BY <1>4, <2>1, <3>1
  <2>2. QED
    BY <2>1 DEF UpFewer
<1>7. ClientAlone
  BY <1>1 DEF ClientAlone
<1>8. NotTaken' /\ NotPassed' /\ NoneBehind(0)' /\ \A s \in Socks : NotSent(s)'
  BY <1>1, <1>5, <1>6, <1>7, StationsApart, NotOn
<1>9. PICK log \in Seq(Nat) : log # <<>> /\ log[1] = 0 /\ Numbers(log) /\ Reads(log)
  BY <1>5
<1>10. Reads(log)'
  BY <1>1, <1>2, <1>4, <1>9 DEF Reads
<1>11. Answered'
  BY <1>7, <1>8, <1>9, <1>10, NumbersApart DEF Answered, Log
<1>12. SentBefore' /\ OnlyFirst'
  BY <1>1, <1>6 DEF SentBefore, UpFewer, OnlyFirst, AInv, Past
<1>13. TakenBefore' /\ PassedBefore'
  <2>1. \A i \in DOMAIN logins : logins[i].sock \in Int
    <3>1. logins \in Seq(Logins)
      BY DEF Inv, Types, GameType
    <3>2. \A i \in DOMAIN logins : logins[i] \in Logins
      <4> HIDE DEF Logins
      <4> QED BY <3>1
    <3>3. QED
      BY <3>2 DEF Logins, Socks
  <2>2. \A i \in DOMAIN from_game : from_game[i].sock \in Int
    <3>1. from_game \in Seq(Said)
      BY DEF Inv, Types, GameType
    <3>2. \A i \in DOMAIN from_game : from_game[i] \in Said
      <4> HIDE DEF Said
      <4> QED BY <3>1
    <3>3. QED
      BY <3>2 DEF Said, Socks
  <2>3. TakenBefore /\ PassedBefore
    BY DEF AInv, Past
  <2>4. QED
    BY <1>1, <1>4, <2>1, <2>2, <2>3 DEF TakenBefore, PassedBefore
<1>14. QED
  BY <1>1, <1>4, <1>11, <1>12, <1>13 DEF AInv, Past, Told

\* A step of the client over its connection, its login answered.
LEMMA ClientOn ==
  ASSUME Inv, Inv', AInv, ClientAlone, session' = session, last_sock' = last_sock, UpFewer,
         \A q \in Socks : q > last_sock => up'[q] = up[q] /\ down'[q] = down[q],
         client'.sock \in {0, client.sock}, open' \subseteq open \cap {client'.sock}, Told',
         Answered,
         client'.logged \/ client'.sock # 0 =>
           NoneBehind(0) /\ \E log \in Seq(Nat) : log # <<>> /\ log[1] = 0 /\ Numbers(log) /\ Reads(log)'
  PROVE  AInv'
<1>1. LoginsFewer /\ GameFewer /\ OnlyFirst'
  BY StationsApart DEF ClientAlone, OnlyFirst, AInv, Past
<1>2. Newest'
  <2>1. Newest /\ data.sock <= last_sock /\ last_sock \in Nat /\ data' = data
    BY DEF AInv, Past, Newest, Inv, Types, NetType, ClientAlone
  <2>2. data.sock \in Int /\ \A q \in Socks : q \in Int
    BY SessionAssumption DEF Inv, Types, GatewayType, Data, Socks
  <2>3. \A q \in Socks : q > last_sock => Leaves(q) /\ up'[q] = up[q]
    BY <2>1, <2>2 DEF Leaves
  <2>4. QED
    BY <2>1, <2>3, NewestOn
<1>3. Past'
  BY <1>1, <1>2, BeforeOn DEF AInv, Past
<1>4. NotTaken' /\ NotPassed' /\ \A s \in Socks : NotSent(s)'
  BY <1>1, NotOn DEF Answered
<1>5. ASSUME client'.logged \/ client'.sock # 0
      PROVE  NoneBehind(0)' /\ \E log \in Seq(Nat) : Log(log)'
  <2>1. NoneBehind(0)
    BY <1>5
  <2>2. PICK log \in Seq(Nat) : log # <<>> /\ log[1] = 0 /\ Numbers(log) /\ Reads(log)'
    BY <1>5
  <2>3. Numbers(log)'
    BY <2>2, NumbersApart
  <2>4. NoneBehind(0)'
    BY <2>1, StationsApart
  <2>5. Log(log)'
    BY <2>2, <2>3 DEF Log
  <2>6. QED
    BY <2>4, <2>5
<1>6. Answered'
  BY <1>4, <1>5 DEF Answered
<1>7. QED
  BY <1>3, <1>6 DEF AInv

\* A packet that is no login, behind those under way.
LEMMA AppendFewer ==
  ASSUME NetType, NEW s \in Socks, NEW p \in Requests, p.kind # "login",
         up' \in {up, [up EXCEPT ![s] = Append(@, p)]}
  PROVE  UpFewer /\ \A q \in Socks : q # s => up'[q] = up[q]
<1>1. up \in [Socks -> Seq(Requests)]
  BY DEF NetType
<1>2. \A q \in Socks : up'[q] = up[q] \/ (q = s /\ up'[q] = Append(up[q], p))
  BY <1>1
<1>3. ASSUME NEW q \in Socks, NEW i \in DOMAIN up'[q], up'[q][i].kind = "login"
      PROVE  \E j \in DOMAIN up[q] : up'[q][i] = up[q][j]
  <2>1. CASE up'[q] = up[q]
    BY <2>1
  <2>2. CASE q = s /\ up'[q] = Append(up[q], p)
    <3> HIDE DEF Requests
    <3>1. up[q] \in Seq(Requests)
      BY <1>1
    <3>2. /\ up'[q][Len(up[q]) + 1] = p
          /\ \A k \in DOMAIN up[q] : up'[q][k] = up[q][k]
          /\ i \in DOMAIN up[q] \/ i = Len(up[q]) + 1
      BY <2>2, <3>1, AppendItems
    <3>3. QED
      BY <1>3, <3>2
  <2>3. QED
    BY <1>2, <2>1, <2>2
<1>4. QED
  BY <1>2, <1>3 DEF UpFewer

\* What arrives of the packets under way over a connection that ends.
LEMMA CutFewer ==
  ASSUME NetType, NEW s \in Socks, NEW n \in 0..Len(up[s]), up' = [up EXCEPT ![s] = SubSeq(@, 1, n)]
  PROVE  /\ UpFewer /\ \A q \in Socks : q # s => up'[q] = up[q]
         /\ n = 0 => up'[s] = <<>>
         /\ n = Len(up[s]) => up'[s] = up[s]
<1>1. up \in [Socks -> Seq(Requests)]
  BY DEF NetType
<1> HIDE DEF Requests
<1>2. up[s] \in Seq(Requests) /\ up'[s] = SubSeq(up[s], 1, n) /\ \A q \in Socks : q # s => up'[q] = up[q]
  BY <1>1
<1>3. \A i \in DOMAIN up'[s] : i \in DOMAIN up[s] /\ up'[s][i] = up[s][i]
  BY <1>2
<1>4. (n = 0 => up'[s] = <<>>) /\ (n = Len(up[s]) => up'[s] = up[s])
  <2> DEFINE q == up[s]
  <2>1. Len(q) \in Nat /\ Len(SubSeq(q, 1, n)) = n /\ SubSeq(q, 1, n) \in Seq(Requests)
    BY <1>2
  <2>2. n = 0 => SubSeq(q, 1, n) = <<>>
    BY <2>1
  <2>3. n = Len(q) => SubSeq(q, 1, n) = q
    BY <1>2, <2>1
  <2>4. QED
    BY <1>2, <2>2, <2>3
<1>5. UpFewer
  <2>1. ASSUME NEW q \in Socks, NEW i \in DOMAIN up'[q]
        PROVE  \E j \in DOMAIN up[q] : up'[q][i] = up[q][j]
    <3>1. CASE q = s
      BY <1>3, <3>1
    <3>2. CASE q # s
      BY <1>2, <3>2
    <3>3. QED
      BY <3>1, <3>2
  <2>2. QED
    BY <2>1 DEF UpFewer
<1>6. QED
  BY <1>2, <1>4, <1>5

\* A request over the connection, or lost.
LEMMA SendOn ==
  ASSUME Inv, Inv', AInv, NEW kind \in {"req", "ping"}, Send(kind)
  PROVE  AInv'
<1> DEFINE p == Packet(kind, client.session, client.client_order)
           next == client.client_order + 1
           s == client.sock
<1>1. /\ client.logged /\ client' = [client EXCEPT !.client_order = next]
      /\ up' = (IF s = 0 THEN up ELSE [up EXCEPT ![s] = Append(@, p)])
      /\ UNCHANGED <<exists, data, last_sock, open, down, session, logins, from_game, said, got>>
  BY DEF Send, game, gateway
<1>2. client'.sock = s /\ client'.logged /\ client'.server_order = client.server_order
  <2> HIDE DEF next
  <2> QED BY <1>1 DEF Inv, Types, ClientType
<1>3. p \in Requests /\ p.kind # "login"
  BY DEF Packet, Requests, Inv, Types, ClientType
<1> HIDE DEF p, next
<1>4. /\ up \in [Socks -> Seq(Requests)] /\ s \in Socks \cup {0} /\ last_sock \in Nat
      /\ s \in {0, last_sock} /\ open \subseteq {s} /\ open \subseteq Socks
  BY DEF Inv, Types, NetType, ClientType, AInv, Past, Newest
<1>5. UpFewer
  <2>1. CASE s = 0
    BY <1>1, <2>1 DEF UpFewer
  <2>2. CASE s # 0
    <3>1. s \in Socks /\ NetType
      BY <1>4, <2>2 DEF Inv, Types
    <3>2. up' = [up EXCEPT ![s] = Append(@, p)]
      BY <1>1, <2>2
    <3>3. QED
      BY <1>3, <3>1, <3>2, AppendFewer
  <2>3. QED
    BY <2>1, <2>2
<1>6. \A q \in Socks : q > last_sock => up'[q] = up[q] /\ down'[q] = down[q]
  <2>1. ASSUME NEW q \in Socks, q > last_sock
        PROVE  q # s
    BY <1>4, <2>1 DEF Socks
  <2>2. QED
    BY <1>1, <1>4, <2>1
<1>7. /\ Answered /\ NoneBehind(0)
      /\ \E log \in Seq(Nat) : log # <<>> /\ log[1] = 0 /\ Numbers(log) /\ Reads(log)
  BY <1>1, ReadsAnswered
<1>8. \A log : Reads(log) => Reads(log)'
  BY <1>1, <1>2 DEF Reads
<1>9. Told' /\ ClientAlone
  BY <1>1 DEF AInv, Told, ClientAlone
<1>10. QED
  BY <1>1, <1>2, <1>4, <1>5, <1>6, <1>7, <1>8, <1>9, ClientOn

\* What the client's next message is, and what is behind it.
LEMMA NextMessage ==
  ASSUME Inv, AInv, client.sock # 0, down[client.sock] # <<>>,
         down' = [down EXCEPT ![client.sock] = Tail(@)], NEW log \in Seq(Nat), Reads(log)
  PROVE  LET m == Head(down[client.sock])
         IN /\ m \in Sent
            /\ client.logged \/ (m.kind = "login" /\ m.order = 0)
            /\ client.logged => Follows(log, m)
            /\ client.sock \in Socks
            /\ \A q \in Socks : q # client.sock => down'[q] = down[q]
            /\ \A i \in DOMAIN down'[client.sock] : Follows(log, down'[client.sock][i])
<1> DEFINE s == client.sock
<1>1. down \in [Socks -> Seq(Sent)] /\ s \in Socks
  BY DEF Inv, Types, NetType, ClientType
<1>2. down'[s] = Tail(down[s]) /\ \A q \in Socks : q # s => down'[q] = down[q]
  <2> HIDE DEF Sent
  <2> QED BY <1>1
<1>3. /\ Head(down[s]) = down[s][1] /\ 1 \in DOMAIN down[s] /\ down[s][1] \in Sent
      /\ \A i \in DOMAIN Tail(down[s]) : i + 1 \in DOMAIN down[s] /\ Tail(down[s])[i] = down[s][i + 1] /\ i + 1 # 1
  <2> HIDE DEF Sent
  <2>1. down[s] \in Seq(Sent)
    BY <1>1
  <2>2. /\ Head(down[s]) = down[s][1] /\ 1 \in DOMAIN down[s]
        /\ \A i \in DOMAIN Tail(down[s]) : i + 1 \in DOMAIN down[s] /\ Tail(down[s])[i] = down[s][i + 1]
    BY <2>1, TailItems
  <2>3. \A i \in DOMAIN Tail(down[s]) : i + 1 # 1
    BY <2>1
  <2>4. QED
    BY <2>1, <2>2, <2>3
<1>4. \A i \in DOMAIN down[s] : i # 1 \/ client.logged => Follows(log, down[s][i])
  BY <1>1 DEF Reads
<1>5. client.logged \/ (down[s][1].kind = "login" /\ down[s][1].order = 0)
  BY DEF Reads
<1>6. QED
  BY <1>1, <1>2, <1>3, <1>4, <1>5

\* A message with the number the client expects is processed.
LEMMA ProcessedOn ==
  ASSUME Inv, Told, NEW log \in Seq(Nat), Reads(log), client.logged, NEW m \in Sent, Follows(log, m),
         m.order # 0, Expected(m.order), client' = [client EXCEPT !.server_order = @ + 1],
         got' = IF m.kind = "data" THEN Append(got, m.n) ELSE got,
         client.sock # 0, \A i \in DOMAIN down'[client.sock] : Follows(log, down'[client.sock][i])
  PROVE  Told' /\ Reads(log)'
<1>1. /\ m.order \in 1..Len(log) - 1 /\ log[m.order + 1] = log[m.order] + (IF m.kind = "data" THEN 1 ELSE 0)
      /\ m.kind = "data" => m.n = log[m.order + 1]
      /\ m.order = client.server_order /\ Len(got) = log[client.server_order] /\ Len(log) \in Nat
  BY DEF Follows, Reads, Expected
<1>2. /\ client'.server_order = client.server_order + 1 /\ client'.sock = client.sock /\ client'.logged
      /\ got \in Seq(Nat) /\ m.n \in Nat
  BY DEF Inv, Types, ClientType, Sent, Messages
<1>3. CASE m.kind = "data"
  <2>1. got' = Append(got, m.n) /\ m.n = Len(got) + 1
    BY <1>1, <1>3
  <2>2. /\ Len(got') = Len(got) + 1 /\ got'[Len(got) + 1] = m.n
        /\ \A i \in DOMAIN got : got'[i] = got[i]
        /\ \A i \in DOMAIN got' : i \in DOMAIN got \/ i = Len(got) + 1
    BY <1>2, <2>1, AppendItems
  <2>3. Told'
    BY <2>1, <2>2 DEF Told
  <2>4. Len(got') = log[client'.server_order] /\ client'.server_order \in 1..Len(log)
    BY <1>1, <1>2, <1>3, <2>2
  <2>5. QED
    BY <1>2, <2>3, <2>4 DEF Reads
<1>4. CASE m.kind # "data"
  <2>1. got' = got
    BY <1>4
  <2>2. Len(log) \in Nat /\ log[m.order] \in Nat
    BY <1>1
  <2>3. log[m.order + 1] = log[m.order]
    BY <1>1, <1>4, <2>2
  <2>4. client'.server_order = m.order + 1 /\ m.order + 1 \in 1..Len(log)
    <3>1. m.order \in Int /\ m.order >= 1 /\ m.order <= Len(log) - 1 /\ Len(log) \in Nat
      BY <1>1
    <3>2. m.order + 1 \in 1..Len(log)
      BY <3>1
    <3>3. client'.server_order = m.order + 1
      BY <1>1, <1>2
    <3>4. QED
      BY <3>2, <3>3
  <2>5. Len(got') = log[client'.server_order] /\ client'.server_order \in 1..Len(log)
    BY <1>1, <2>1, <2>3, <2>4
  <2>6. QED
    BY <1>2, <2>1, <2>5 DEF Reads, Told
<1>5. QED
  BY <1>3, <1>4

\* What the client does with the next message of its connection.
LEMMA ClientReceiveOn ==
  ASSUME Inv, Inv', AInv, ClientReceive
  PROVE  AInv'
<1> DEFINE s == client.sock
           m == Head(down[s])
<1>1. /\ s # 0 /\ down[s] # <<>> /\ down' = [down EXCEPT ![s] = Tail(@)]
      /\ session' = session /\ last_sock' = last_sock /\ ClientAlone
  BY DEF ClientReceive, gateway, game, ClientAlone
<1>2. /\ Answered /\ NoneBehind(0)
      /\ \E log \in Seq(Nat) : log # <<>> /\ log[1] = 0 /\ Numbers(log) /\ Reads(log)
  BY <1>1, ReadsAnswered
<1>3. PICK log \in Seq(Nat) : log # <<>> /\ log[1] = 0 /\ Numbers(log) /\ Reads(log)
  BY <1>2
<1>4. /\ m \in Sent /\ s \in Socks
      /\ client.logged \/ (m.kind = "login" /\ m.order = 0)
      /\ client.logged => Follows(log, m)
      /\ \A q \in Socks : q # s => down'[q] = down[q]
      /\ \A i \in DOMAIN down'[s] : Follows(log, down'[s][i])
  BY <1>1, <1>3, NextMessage
<1>5. /\ s = last_sock /\ open \subseteq {s} /\ open \subseteq Socks /\ last_sock \in Nat /\ NetType
      /\ client.sock \in open \cup {0}
  BY <1>1 DEF Inv, Types, NetType, ClientType, AInv, Past, Newest
<1>6. \A q \in Socks : q > last_sock => q # s
  BY <1>5
<1>7. Told
  BY DEF AInv
<1>8. CASE m.order # 0 /\ client.logged /\ Expected(m.order)
  <2>1. /\ client' = [client EXCEPT !.server_order = @ + 1]
        /\ got' = (IF m.kind = "data" THEN Append(got, m.n) ELSE got)
        /\ UNCHANGED <<up, open>>
    BY <1>8 DEF ClientReceive
  <2>2. client'.sock = s /\ client'.logged
    BY <1>8, <2>1 DEF Inv, Types, ClientType
  <2> HIDE DEF m
  <2>3. Told' /\ Reads(log)'
    BY <1>1, <1>3, <1>4, <1>7, <1>8, <2>1, ProcessedOn
  <2>4. UpFewer /\ open' \subseteq open \cap {client'.sock}
    BY <1>5, <2>1, <2>2 DEF UpFewer
  <2>5. \A q \in Socks : q > last_sock => up'[q] = up[q] /\ down'[q] = down[q]
    BY <1>4, <1>6, <2>1
  <2>6. QED
    BY <1>1, <1>2, <1>3, <2>2, <2>3, <2>4, <2>5, ClientOn
<1>9. CASE client.logged /\ IF m.order # 0 THEN ~Expected(m.order) ELSE m.kind = "order"
  <2> DEFINE r == Packet("resend", client.session, client.server_order)
             p == Packet("req", client.session, m.n)
  <2>1. /\ client' = client /\ got' = got /\ open' = open
        /\ up' \in {up, [up EXCEPT ![s] = Append(@, r)], [up EXCEPT ![s] = Append(@, p)]}
    BY <1>9 DEF ClientReceive
  <2>2. r \in Requests /\ r.kind # "login" /\ p \in Requests /\ p.kind # "login"
    BY <1>4 DEF Packet, Requests, Inv, Types, ClientType, Sent, Messages
  <2> HIDE DEF r, p
  <2> HIDE DEF m
  <2>3. UpFewer /\ \A q \in Socks : q # s => up'[q] = up[q]
    BY <1>4, <1>5, <2>1, <2>2, AppendFewer
  <2>4. Reads(log)' /\ Told'
    BY <1>1, <1>3, <1>4, <1>7, <1>9, <2>1 DEF Reads, Told
  <2>5. QED
    BY <1>1, <1>2, <1>3, <1>4, <1>5, <1>6, <2>1, <2>3, <2>4, ClientOn
<1>10. CASE m.kind = "login" /\ m.order = 0
  <2>1. /\ client' = [sock |-> s, session |-> m.n, logged |-> TRUE, client_order |-> 1, server_order |-> 1]
        /\ got' = <<>> /\ UNCHANGED <<up, open>>
    BY <1>10 DEF ClientReceive
  <2>2. client'.sock = s /\ client'.logged /\ client'.server_order = 1
    BY <2>1
  <2> HIDE DEF m
  <2>3. Len(log) \in Nat /\ Len(log) >= 1 /\ Len(got') = 0
    BY <1>3, <2>1
  <2>4. Reads(log)' /\ Told'
    BY <1>1, <1>3, <1>4, <2>1, <2>2, <2>3 DEF Reads, Told
  <2>5. UpFewer /\ open' \subseteq open \cap {client'.sock}
    BY <1>5, <2>1, <2>2 DEF UpFewer
  <2>6. \A q \in Socks : q > last_sock => up'[q] = up[q] /\ down'[q] = down[q]
    BY <1>4, <1>6, <2>1
  <2>7. QED
    BY <1>1, <1>2, <1>3, <2>2, <2>4, <2>5, <2>6, ClientOn
<1>11. CASE m.kind = "error" /\ m.order = 0
  <2>1. /\ open' = open \ {s} /\ client' = [client EXCEPT !.sock = 0, !.logged = FALSE] /\ got' = got
        /\ up' \in {[up EXCEPT ![s] = SubSeq(@, 1, i)] : i \in 0..Len(up[s])}
    BY <1>11 DEF ClientReceive, End
  <2>2. client'.sock = 0 /\ ~client'.logged
    BY <2>1 DEF Inv, Types, ClientType
  <2> HIDE DEF m
  <2>3. PICK i \in 0..Len(up[s]) : up' = [up EXCEPT ![s] = SubSeq(@, 1, i)]
    BY <2>1
  <2>4. UpFewer /\ \A q \in Socks : q # s => up'[q] = up[q]
    BY <1>4, <1>5, <2>3, CutFewer
  <2>5. open' \subseteq open \cap {client'.sock} /\ Told'
    BY <1>5, <1>7, <2>1 DEF Told
  <2>6. \A q \in Socks : q > last_sock => up'[q] = up[q] /\ down'[q] = down[q]
    BY <1>4, <1>6, <2>4
  <2>7. QED
    BY <1>1, <1>2, <2>2, <2>4, <2>5, <2>6, ClientOn
<1>12. m.order = 0 => m.kind \in {"login", "order", "error"}
  BY <1>4 DEF Sent
<1>13. QED
  BY <1>4, <1>8, <1>9, <1>10, <1>11, <1>12

\* A connection breaks, and with it the login on its way over it.
LEMMA BreakOn ==
  ASSUME Inv, Inv', AInv, client.sock # 0, NEW n \in 0..Len(up[client.sock]), Break(n)
  PROVE  AInv'
<1> DEFINE s == client.sock
<1>1. /\ open' = open \ {s} /\ client' = [client EXCEPT !.sock = 0]
      /\ up' = [up EXCEPT ![s] = SubSeq(@, 1, n)] /\ down' = [down EXCEPT ![s] = <<>>]
      /\ UNCHANGED <<session, last_sock, got, logins, from_game, said, data>> /\ ClientAlone
  BY DEF Break, End, game, gateway, ClientAlone
<1>2. /\ s \in Socks /\ s = last_sock /\ open \subseteq {s} /\ last_sock \in Nat /\ NetType
      /\ client'.sock = 0 /\ client'.logged = client.logged /\ client'.server_order = client.server_order
  BY <1>1 DEF Inv, Types, NetType, ClientType, AInv, Past, Newest
<1>3. /\ UpFewer /\ \A q \in Socks : q # s => up'[q] = up[q]
      /\ n = 0 => up'[s] = <<>>
      /\ n = Len(up[s]) => up'[s] = up[s]
  BY <1>1, <1>2, CutFewer
<1>4. down'[s] = <<>> /\ \A q \in Socks : q # s => down'[q] = down[q]
  <2>1. down \in [Socks -> Seq(Sent)]
    BY <1>2 DEF NetType
  <2> HIDE DEF Sent
  <2>2. QED
    BY <1>1, <1>2, <2>1
<1>5. /\ \A q \in Socks : q > last_sock => up'[q] = up[q] /\ down'[q] = down[q]
      /\ open' \subseteq open \cap {client'.sock} /\ Told'
  BY <1>1, <1>2, <1>3, <1>4 DEF AInv, Told
<1>6. CASE Answered
  <2>1. ASSUME client'.logged \/ client'.sock # 0
        PROVE  NoneBehind(0) /\ \E log \in Seq(Nat) : log # <<>> /\ log[1] = 0 /\ Numbers(log) /\ Reads(log)'
    <3>1. client.logged
      BY <1>2, <2>1
    <3>2. NoneBehind(0) /\ \E log \in Seq(Nat) : log # <<>> /\ log[1] = 0 /\ Numbers(log) /\ Reads(log)
      BY <3>1, ReadsAnswered
    <3>3. \A log : Reads(log) => Reads(log)'
      BY <1>1, <1>2, <3>1 DEF Reads
    <3>4. QED
      BY <3>2, <3>3
  <2>2. QED
    BY <1>1, <1>2, <1>3, <1>5, <1>6, <2>1, ClientOn
<1>7. CASE OnConnection \/ AtGame \/ AtGateway
  <2>1. Unanswered /\ ~client'.logged
    BY <1>2, <1>7 DEF OnConnection, AtGame, AtGateway, Unanswered
  <2>2. Leaves(last_sock)
    BY <1>1, <1>2, <1>4, <2>1 DEF Leaves, Unanswered
  <2>3. Unanswered'
    BY <1>1, <1>3, <2>1, <2>2, UnansweredOn
  <2>4. LoginsFewer /\ GameFewer /\ LoginsOlder /\ OnlyFirst'
    BY <1>1 DEF LoginsFewer, GameFewer, LoginsOlder, OnlyFirst, AInv, Past
  <2>5. Past'
    <3>1. \A q \in Socks : q > last_sock => Leaves(q) /\ up'[q] = up[q]
      <4>1. data.sock \in Socks \cup {0} /\ data.sock <= last_sock
        BY DEF Inv, Types, GatewayType, Data, AInv, Past, Newest
      <4>2. \A q \in Socks : q > last_sock => q # data.sock
        BY <1>2, <4>1, SessionAssumption DEF Socks
      <4>3. QED
        BY <1>1, <1>5, <4>2 DEF Leaves
    <3>2. Newest'
      BY <1>1, <1>2, <1>5, <3>1, NewestOn DEF AInv, Past
    <3>3. QED
      BY <1>1, <1>3, <2>4, <3>2, BeforeOn DEF AInv, Past
  <2>6. CASE n = Len(up[s])
    <3>1. up'[last_sock] = up[last_sock]
      BY <1>2, <1>3, <2>6
    <3>2. QED
      BY <1>1, <1>5, <1>7, <2>3, <2>4, <2>5, <3>1, WaitingOn DEF AInv
  <2>7. CASE n # Len(up[s])
    <3>1. n = 0 /\ OnConnection
      <4>1. up[s] # <<>>
        BY <2>7
      <4>2. OnConnection
        BY <1>2, <1>7, <4>1 DEF AtGame, AtGateway
      <4>3. Len(up[s]) = 1
        BY <1>2, <4>2 DEF OnConnection
      <4>4. QED
        BY <2>7, <4>2, <4>3
    <3>2. NotTaken' /\ NotPassed'
      BY <1>1, <2>4, <3>1, NotOn DEF OnConnection
    <3>3. \A q \in Socks : NotSent(q)'
      <4>1. ASSUME NEW q \in Socks, q # s
            PROVE  NotSent(q)'
        BY <1>1, <1>2, <2>3, <4>1 DEF Unanswered, NotSent
      <4>2. ASSUME NEW q \in Socks, q = s
            PROVE  NotSent(q)'
        BY <1>3, <3>1, <4>2 DEF NotSent
      <4>3. QED
        BY <4>1, <4>2
    <3>4. Answered'
      BY <1>2, <2>1, <3>2, <3>3 DEF Answered
    <3>5. QED
      BY <1>5, <2>5, <3>4 DEF AInv
  <2>8. QED
    BY <2>6, <2>7
<1>8. QED
  BY <1>6, <1>7 DEF AInv

-----------------------------------------------------------------------------
(* The invariant is inductive.                                             *)

\* It holds in the initial state: nobody has logged in.
LEMMA InitA == Init => AInv
<1> SUFFICES ASSUME Init PROVE AInv
  OBVIOUS
<1>1. /\ data.sock = 0 /\ last_sock = 0 /\ open = {} /\ logins = <<>> /\ from_game = <<>> /\ got = <<>>
      /\ client.sock = 0 /\ ~client.logged
      /\ \A s \in Socks : up[s] = <<>> /\ down[s] = <<>>
  BY DEF Init, EmptyData
<1>2. Newest
  BY <1>1 DEF Newest
<1>3. SentBefore /\ TakenBefore /\ PassedBefore /\ OnlyFirst
  BY <1>1 DEF SentBefore, TakenBefore, PassedBefore, OnlyFirst
<1>4. Answered
  BY <1>1 DEF Answered, NotTaken, NotPassed, NotSent
<1>5. Told
  BY <1>1 DEF Told
<1>6. QED
  BY <1>2, <1>3, <1>4, <1>5 DEF AInv, Past

\* A stutter keeps it.
LEMMA StutterA ==
  ASSUME AInv, UNCHANGED vars
  PROVE  AInv'
<1>1. UNCHANGED <<exists, data, last_sock, open, up, down, session, logins, from_game, said, client, got>>
  BY DEF vars, gateway, net, game
<1>2. Past' /\ Told'
  BY <1>1 DEF AInv, Past, Told, Newest, SentBefore, TakenBefore, PassedBefore, OnlyFirst
<1>3. /\ NotTaken' = NotTaken /\ NotPassed' = NotPassed /\ (\A s : NotSent(s)' = NotSent(s))
      /\ \A i : NoneBehind(i)' = NoneBehind(i)
  BY <1>1 DEF NotTaken, NotPassed, NotSent, NoneBehind
<1>4. Unanswered' = Unanswered
  BY <1>1 DEF Unanswered, NotSent
<1>5. \A log : Log(log) => Log(log)'
  BY <1>1 DEF Log, Numbers, Gone, Counts, Saying, InFlight, Reads
<1>6. Answered => Answered'
  BY <1>1, <1>3, <1>5 DEF Answered
<1>7. (OnConnection => OnConnection') /\ (AtGame => AtGame') /\ (AtGateway => AtGateway')
  BY <1>1, <1>3, <1>4 DEF OnConnection, AtGame, AtGateway
<1>8. QED
  BY <1>2, <1>6, <1>7 DEF AInv

\* What holds initially and is kept by every step holds always.
LEMMA AnswersInvariant == Spec => []AInv
<1>1. AInv /\ Inv /\ Inv' /\ [Next]_vars => AInv'
  <2> SUFFICES ASSUME AInv, Inv, Inv', [Next]_vars PROVE AInv'
    OBVIOUS
  <2>1. ASSUME NEW s \in Socks, Receive(s)
        PROVE  AInv'
    BY <2>1, ReceiveStep
  <2>2. ASSUME NEW s \in Socks, Close(s)
        PROVE  AInv'
    BY <2>2, CloseStep
  <2>3. CASE Repeat
    BY <2>3, RepeatStep
  <2>4. CASE FromGame
    BY <2>4, FromGameStep
  <2>5. CASE GameLogin
    BY <2>5, GameLoginStep
  <2>6. CASE GameSay \/ GameFault("kick") \/ GameFault("unusual")
    BY <2>6, SayFaultStep
  <2>7. CASE Login
    BY <2>7, LoginOn
  <2>8. CASE Send("req") \/ Send("ping")
    BY <2>8, SendOn
  <2>9. CASE Reconnect
    BY <2>9, ReconnectOn
  <2>10. CASE ClientReceive
    BY <2>10, ClientReceiveOn
  <2>11. ASSUME client.sock # 0, NEW n \in 0..Len(up[client.sock]), Break(n)
         PROVE  AInv'
    BY <2>11, BreakOn
  <2>12. CASE UNCHANGED vars
    BY <2>12, StutterA
  <2>13. QED
    BY <2>1, <2>2, <2>3, <2>4, <2>5, <2>6, <2>7, <2>8, <2>9, <2>10, <2>11, <2>12 DEF Next
<1>2. QED
  BY InitA, Invariant, <1>1, PTL DEF Spec

\* What the client processes is what the game server said since it answered
\* the client's login, in order and without a gap, over however many
\* connections; and the gateway keeps the last messages for it.
THEOREM ReadsWhatWasSaid == Spec => []AnswersInOrder
<1>1. AInv /\ KeepsLast => AnswersInOrder
  BY DEF AInv, Told, AnswersInOrder
<1>2. QED
  BY AnswersInvariant, GatewayKeepsLast, <1>1, PTL

-----------------------------------------------------------------------------
(***************************************************************************)
(* A role goes offline by the end of its own connection (EndTakesOffline). *)
(* Stray connections are easy: they are collected where they arise.  That  *)
(* nothing is taken over a connection whose end was handled needs the      *)
(* sessions again: the client has never heard of the session of a login    *)
(* that is answered there, so it has no request of it.                     *)
(***************************************************************************)

\* Every connection made stands, is to be handled or is not read any more.
Placed == \A s \in Socks : s <= last_sock => s \in open \cup closing \cup cool

\* What is sent again is no answer to a login.
Clean == \A o \in DOMAIN data.server_buff : data.server_buff[o].kind # "login"

\* The only connections noted that the role is not bound to are stray.
Strays == sock_map \subseteq {data.sock} \cup stray

\* The client has been told of a session, or is about to be.
InUp(n)     == \E s \in Socks : \E i \in DOMAIN up[s] : up[s][i].kind # "login" /\ up[s][i].session = n
InDown(n)   == \E s \in Socks : \E i \in DOMAIN down[s] : down[s][i].kind = "login" /\ down[s][i].n = n
InPosted(n) == \E i \in DOMAIN posted : posted[i].session = n
InBuff(n)   == \E o \in DOMAIN data.client_buff : data.client_buff[o].session = n
Heard(n)    == client.session = n \/ InUp(n) \/ InDown(n) \/ InPosted(n) \/ InBuff(n)

\* The login of the newest session has not come to the game server.
ToAnswer == ~NotTaken \/ \E s \in Socks : ~NotSent(s)

\* Sessions are answered once, and not heard of before.
Unheard ==
  /\ \A n \in Nat : Heard(n) => n <= session
  /\ ToAnswer => ~Heard(session)
  /\ \A i \in DOMAIN from_game : from_game[i].kind = "login" => ~Heard(from_game[i].session)
  /\ \A i, j \in DOMAIN from_game :
       from_game[i].kind = "login" /\ from_game[j].kind = "login" /\ i # j
         => from_game[i].session # from_game[j].session

\* Over a connection whose end was handled nothing was taken or can be.
Dead  == data.sock # 0 /\ data.sock \notin open \cup closing
Quiet == Dead => taken = <<>> /\ (data.session = 0 \/ ~Heard(data.session))

EInv == Placed /\ Clean /\ Strays /\ Unheard /\ Quiet

HeardFewer == \A n : Heard(n)' => Heard(n)

\* A step by which no session is heard of or answered.
LEMMA UnheardOn ==
  ASSUME Unheard, HeardFewer, ToAnswer' => ToAnswer, UNCHANGED <<session, from_game>>
  PROVE  Unheard'
BY DEF Unheard, HeardFewer

\* What remains to be shown of the next state.
LEMMA UnheardNext ==
  ASSUME \A n \in Nat : Heard(n)' => n <= session',
         \A n : ToAnswer' /\ n = session' => ~Heard(n)',
         \A n : \A i \in DOMAIN from_game' :
           from_game'[i].kind = "login" /\ n = from_game'[i].session => ~Heard(n)',
         \A i, j \in DOMAIN from_game' :
           from_game'[i].kind = "login" /\ from_game'[j].kind = "login" /\ i # j
             => from_game'[i].session # from_game'[j].session
  PROVE  Unheard'
BY DEF Unheard

\* A step that leaves the role where it is.
LEMMA QuietOn ==
  ASSUME Quiet, HeardFewer, data'.sock \in {0, data.sock}, data'.session \in {0, data.session}, taken' = taken,
         data'.sock # 0 /\ data.sock \in open \cup closing => data.sock \in open' \cup closing'
  PROVE  Quiet'
BY DEF Quiet, Dead, HeardFewer

-----------------------------------------------------------------------------
(* Where what is under way comes from.                                     *)

\* Nothing new is under way to the gateway, but for one message.
UpFrom(p) == \A q \in Socks : \A i \in DOMAIN up'[q] : up'[q][i] = p \/ \E j \in DOMAIN up[q] : up'[q][i] = up[q][j]
UpOld     == \A q \in Socks : \A i \in DOMAIN up'[q] : \E j \in DOMAIN up[q] : up'[q][i] = up[q][j]

\* No answer to a login is written.
DownOld == \A q \in Socks : \A i \in DOMAIN down'[q] :
             down'[q][i].kind = "login" => \E j \in DOMAIN down[q] : down'[q][i] = down[q][j]

\* The next message of a connection is taken.
LEMMA UpTaken ==
  ASSUME NetType, NEW s \in Socks, up[s] # <<>>, up' = [up EXCEPT ![s] = Tail(@)]
  PROVE  UpOld
<1>1. up \in [Socks -> Seq(Requests)]
  BY DEF NetType
<1> HIDE DEF Requests
<1>2. \A i \in DOMAIN Tail(up[s]) : i + 1 \in DOMAIN up[s] /\ Tail(up[s])[i] = up[s][i + 1]
  BY <1>1, TailItems
<1>3. up'[s] = Tail(up[s]) /\ \A q \in Socks : q # s => up'[q] = up[q]
  BY <1>1
<1>4. QED
  BY <1>2, <1>3 DEF UpOld

\* A message is sent.
LEMMA UpSent ==
  ASSUME NetType, NEW s \in Socks, NEW p \in Requests, up' = [up EXCEPT ![s] = Append(@, p)]
  PROVE  UpFrom(p)
<1>1. up \in [Socks -> Seq(Requests)]
  BY DEF NetType
<1> HIDE DEF Requests
<1>2. up[s] \in Seq(Requests) /\ up'[s] = Append(up[s], p) /\ \A q \in Socks : q # s => up'[q] = up[q]
  BY <1>1
<1>3. \A i \in DOMAIN Append(up[s], p) : (i \in DOMAIN up[s] /\ Append(up[s], p)[i] = up[s][i]) \/ Append(up[s], p)[i] = p
  BY <1>2, AppendItems
<1>4. QED
  BY <1>2, <1>3 DEF UpFrom

\* What has not arrived is lost.
LEMMA UpLost ==
  ASSUME NetType, NEW s \in Socks, NEW n \in 0..Len(up[s]), up' = [up EXCEPT ![s] = SubSeq(@, 1, n)]
  PROVE  UpOld
<1>1. up \in [Socks -> Seq(Requests)]
  BY DEF NetType
<1> HIDE DEF Requests
<1>2. up[s] \in Seq(Requests) /\ up'[s] = SubSeq(up[s], 1, n) /\ \A q \in Socks : q # s => up'[q] = up[q]
  BY <1>1
<1>3. \A i \in DOMAIN SubSeq(up[s], 1, n) : i \in DOMAIN up[s] /\ SubSeq(up[s], 1, n)[i] = up[s][i]
  BY <1>2
<1>4. QED
  BY <1>2, <1>3 DEF UpOld

\* Writing something else than an answer to a login.
LEMMA PutOld ==
  ASSUME NetType, NEW s, NEW out, down' = Put(s, out),
         s \in open => out \in Seq(Sent) /\ \A i \in DOMAIN out : out[i].kind # "login"
  PROVE  DownOld
<1>1. down \in [Socks -> Seq(Sent)]
  BY DEF NetType
<1> HIDE DEF Sent
<1>2. ASSUME NEW q \in Socks, NEW i \in DOMAIN down'[q], down'[q][i].kind = "login"
      PROVE  \E j \in DOMAIN down[q] : down'[q][i] = down[q][j]
  <2>1. down'[q] = IF q = s /\ s \in open THEN down[q] \o out ELSE down[q]
    BY PutAt
  <2>2. CASE q = s /\ s \in open
    <3>1. down[q] \in Seq(Sent) /\ out \in Seq(Sent) /\ down'[q] = down[q] \o out
      BY <1>1, <2>1, <2>2
    <3>2. \/ i \in DOMAIN down[q] /\ down'[q][i] = down[q][i]
          \/ i - Len(down[q]) \in DOMAIN out /\ down'[q][i] = out[i - Len(down[q])]
      BY <1>2, <3>1, ConcatItems
    <3>3. QED
      BY <1>2, <2>2, <3>2
  <2>3. CASE ~(q = s /\ s \in open)
    BY <1>2, <2>1, <2>3
  <2>4. QED
    BY <2>2, <2>3
<1>3. QED
  BY <1>2 DEF DownOld

LEMMA PutOneOld ==
  ASSUME NetType, NEW s, NEW m, down' = Put(s, <<m>>), s \in open => m \in Sent /\ m.kind # "login"
  PROVE  DownOld
<1>1. s \in open => <<m>> \in Seq(Sent) /\ \A i \in DOMAIN <<m>> : <<m>>[i].kind # "login"
  <2> HIDE DEF Sent
  <2>1. DOMAIN <<m>> = 1..1 /\ <<m>>[1] = m
    OBVIOUS
  <2>2. QED
    BY <2>1
<1>2. QED
  BY <1>1, PutOld

\* The buffer holds what it held and the new message.
LEMMA KeptItems ==
  ASSUME NEW buff, NEW order, NEW m, NEW o \in DOMAIN Kept(buff, order, m)
  PROVE  Kept(buff, order, m)[o] = m \/ (o \in DOMAIN buff /\ Kept(buff, order, m)[o] = buff[o])
<1> DEFINE all == [x \in DOMAIN buff \cup {order} |-> IF x = order THEN m ELSE buff[x]]
           k == Kept(buff, order, m)
<1>1. \A x \in DOMAIN all : all[x] = m \/ (x \in DOMAIN buff /\ all[x] = buff[x])
  OBVIOUS
<1>2. k = all \/ \E S : k = Restrict(all, DOMAIN all \ S)
  <2> HIDE DEF all
  <2> QED BY DEF Kept, all
<1> HIDE DEF all, k
<1>3. o \in DOMAIN all /\ k[o] = all[o]
  BY <1>2 DEF Restrict, k
<1>4. QED
  BY <1>1, <1>3 DEF k

\* A message that is no answer to a login is kept, and no request.
LEMMA SayItems ==
  ASSUME NEW d \in Data, NEW m, m.kind # "login"
  PROVE  /\ Say(d, m).client_buff = d.client_buff /\ Say(d, m).session = d.session /\ Say(d, m).sock = d.sock
         /\ (\A o \in DOMAIN d.server_buff : d.server_buff[o].kind # "login") =>
              \A o \in DOMAIN Say(d, m).server_buff : Say(d, m).server_buff[o].kind # "login"
<1> DEFINE buff == IF m.order = 0 THEN d.server_buff ELSE Kept(d.server_buff, m.order, m)
<1>1. Say(d, m) = [d EXCEPT !.server_order = @ + 1, !.server_buff = buff]
  BY DEF Say
<1>2. (\A o \in DOMAIN d.server_buff : d.server_buff[o].kind # "login") => \A o \in DOMAIN buff : buff[o].kind # "login"
  BY KeptItems
<1> HIDE DEF buff
<1>3. /\ Say(d, m).client_buff = d.client_buff /\ Say(d, m).session = d.session /\ Say(d, m).sock = d.sock
      /\ Say(d, m).server_buff = buff
  BY <1>1 DEF Data
<1>4. QED
  BY <1>2, <1>3

\* The order of requests brings no request that was not there.
LEMMA InOrderItems ==
  ASSUME NetType, NEW d \in Data, Last(d), NEW p \in Ordered, NEW rest \in Seq(Ordered), NEW answer \in BOOLEAN,
         NEW m, answer => m \in Messages /\ m.order = d.server_order /\ m.kind = "ping" /\ m.order # 0,
         InOrder(d, p, rest, answer, m)
  PROVE  /\ (\A o \in DOMAIN d.server_buff : d.server_buff[o].kind # "login") => Clean'
         /\ \A o \in DOMAIN data'.client_buff :
              data'.client_buff[o] = p \/ \E x \in DOMAIN d.client_buff : data'.client_buff[o] = d.client_buff[x]
         /\ \A i \in DOMAIN posted' : \/ \E j \in DOMAIN rest : posted'[i] = rest[j]
                                      \/ \E x \in DOMAIN d.client_buff : posted'[i] = d.client_buff[x]
         /\ DownOld /\ data'.session \in {0, d.session}
<1>1. CASE InTurn(d, p)
  <2> DEFINE e == Turn(d, p)
             buff == Restrict(d.client_buff, DOMAIN d.client_buff \ {d.client_order + 1})
  <2>1. /\ data' = (IF answer THEN Say(e, m) ELSE e)
        /\ down' = (IF answer THEN Put(d.sock, <<m>>) ELSE down)
        /\ posted' = rest \o Reposted(d)
    BY <1>1 DEF InOrder
  <2>2. /\ e \in Data /\ e.session = d.session /\ e.server_buff = d.server_buff
    BY TurnType
  <2>3. e.client_buff = buff
    <3>1. e = [d EXCEPT !.client_order = @ + 1, !.client_buff = buff]
      BY DEF Turn
    <3> HIDE DEF e, buff
    <3>2. QED
      BY <3>1 DEF Data
  <2>4. \A o \in DOMAIN buff : o \in DOMAIN d.client_buff /\ buff[o] = d.client_buff[o]
    BY DEF Restrict
  <2> HIDE DEF e, buff
  <2>5. data'.client_buff = e.client_buff /\ data'.session = d.session
    BY <2>1, <2>2, SayItems
  <2>6. (\A o \in DOMAIN d.server_buff : d.server_buff[o].kind # "login") => Clean'
    <3>1. CASE answer
      <4>1. data' = Say(e, m) /\ m.kind # "login"
        BY <2>1, <3>1
      <4>2. QED
        BY <2>2, <4>1, SayItems DEF Clean
    <3>2. CASE ~answer
      BY <2>1, <2>2, <3>2 DEF Clean
    <3>3. QED
      BY <3>1, <3>2
  <2>7. DownOld
    <3>1. CASE answer
      <4>1. m \in Sent /\ m.kind # "login"
        BY <3>1 DEF Sent
      <4>2. QED
        BY <2>1, <3>1, <4>1, PutOneOld
    <3>2. CASE ~answer
      BY <2>1, <3>2 DEF DownOld
    <3>3. QED
      BY <3>1, <3>2
  <2>8. \A i \in DOMAIN posted' : \/ \E j \in DOMAIN rest : posted'[i] = rest[j]
                                  \/ \E x \in DOMAIN d.client_buff : posted'[i] = d.client_buff[x]
    <3>1. Reposted(d) \in Seq(Ordered)
      BY RepostedType
    <3>2. \A i \in DOMAIN Reposted(d) : \E x \in DOMAIN d.client_buff : Reposted(d)[i] = d.client_buff[x]
      <4>1. CASE d.client_order + 1 \in DOMAIN d.client_buff
        <5> DEFINE r == d.client_buff[d.client_order + 1]
        <5>1. Reposted(d) = <<r>>
          BY <4>1 DEF Reposted
        <5> HIDE DEF r
        <5>2. DOMAIN <<r>> = {1} /\ <<r>>[1] = r
          OBVIOUS
        <5>3. QED
          BY <4>1, <5>1, <5>2 DEF r
      <4>2. CASE d.client_order + 1 \notin DOMAIN d.client_buff
        BY <4>2 DEF Reposted
      <4>3. QED
        BY <4>1, <4>2
    <3> HIDE DEF Ordered
    <3>3. ASSUME NEW i \in DOMAIN posted'
          PROVE  \/ \E j \in DOMAIN rest : posted'[i] = rest[j]
                 \/ \E x \in DOMAIN d.client_buff : posted'[i] = d.client_buff[x]
      <4>1. \/ i \in DOMAIN rest /\ posted'[i] = rest[i]
            \/ i - Len(rest) \in DOMAIN Reposted(d) /\ posted'[i] = Reposted(d)[i - Len(rest)]
        BY <2>1, <3>1, <3>3, ConcatItems
      <4>2. QED
        BY <3>2, <4>1
    <3>4. QED
      BY <3>3
  <2>9. QED
    BY <2>2, <2>3, <2>4, <2>5, <2>6, <2>7, <2>8
<1>2. CASE ~InTurn(d, p) /\ p.order > d.client_order
  <2>1. /\ data' = Push(d, p) /\ posted' = rest
        /\ down' = (IF Hoards(d) THEN down ELSE
                      Put(d.sock, <<[kind |-> "order", order |-> 0, n |-> d.client_order]>>))
    BY <1>2 DEF InOrder
  <2>2. DownOld
    <3>1. CASE Hoards(d)
      BY <2>1, <3>1 DEF DownOld
    <3>2. CASE ~Hoards(d)
      <4> DEFINE a == [kind |-> "order", order |-> 0, n |-> d.client_order]
      <4>1. a \in Sent /\ a.kind # "login"
        BY DEF Sent, Messages, Data
      <4> HIDE DEF a
      <4>2. down' = Put(d.sock, <<a>>)
        BY <2>1, <3>2 DEF a
      <4>3. QED
        BY <4>1, <4>2, PutOneOld
    <3>3. QED
      BY <3>1, <3>2
  <2>3. CASE Hoards(d)
    <3>1. data' = EmptyData
      BY <2>1, <2>3 DEF Push
    <3>2. data'.session = 0 /\ DOMAIN data'.server_buff = {} /\ DOMAIN data'.client_buff = {}
      BY <3>1 DEF EmptyData, Empty
    <3>3. QED
      BY <2>1, <2>2, <3>2 DEF Clean
  <2>4. CASE ~Hoards(d)
    <3> DEFINE f == d.client_buff
               buff == [o \in DOMAIN f \cup {p.order} |-> IF o = p.order THEN p ELSE f[o]]
    <3>1. Push(d, p) = [d EXCEPT !.client_buff = buff]
      BY <2>4 DEF Push
    <3>2. \A o \in DOMAIN buff : buff[o] = p \/ \E x \in DOMAIN f : buff[o] = f[x]
      OBVIOUS
    <3> HIDE DEF buff
    <3>3. data'.client_buff = buff /\ data'.session = d.session /\ data'.server_buff = d.server_buff
      BY <2>1, <3>1 DEF Data
    <3>4. QED
      BY <2>1, <2>2, <3>2, <3>3 DEF Clean
  <2>5. QED
    BY <2>3, <2>4
<1>3. CASE ~InTurn(d, p) /\ ~(p.order > d.client_order)
  <2>1. data' = d /\ posted' = rest /\ down' = down
    BY <1>3 DEF InOrder
  <2>2. QED
    BY <2>1 DEF Clean, DownOld
<1>4. QED
  BY <1>1, <1>2, <1>3

\* A message from outside tells of no session but its own.
LEMMA OutsideItems ==
  ASSUME Inv, Clean, NEW s \in Socks \cup {0}, NEW p \in Requests, NEW rest \in Seq(Ordered), Outside(s, p, rest)
  PROVE  /\ Clean' /\ DownOld /\ data'.session \in {0, data.session}
         /\ \A o \in DOMAIN data'.client_buff :
              (p.kind # "login" /\ data'.client_buff[o] = p) \/ \E x \in DOMAIN data.client_buff : data'.client_buff[o] = data.client_buff[x]
         /\ \A i \in DOMAIN posted' : \/ \E j \in DOMAIN rest : posted'[i] = rest[j]
                                      \/ \E x \in DOMAIN data.client_buff : posted'[i] = data.client_buff[x]
<1> DEFINE Same == data' = data /\ posted' = rest
<1>1. NetType /\ data \in Data /\ Last(data)
  BY DEF Inv, Types, GatewayType
<1>2. ASSUME Same, DownOld
      PROVE  /\ Clean' /\ DownOld /\ data'.session \in {0, data.session}
             /\ \A o \in DOMAIN data'.client_buff : \E x \in DOMAIN data.client_buff : data'.client_buff[o] = data.client_buff[x]
             /\ \A i \in DOMAIN posted' : \E j \in DOMAIN rest : posted'[i] = rest[j]
  BY <1>2 DEF Clean
<1>3. down' = down => DownOld
  BY DEF DownOld
<1>4. \A x : down' = Put(x, <<Raw("error")>>) => DownOld
  <2>1. Raw("error") \in Sent /\ Raw("error").kind # "login"
    BY RawType DEF Raw
  <2>2. QED
    BY <1>1, <2>1, PutOneOld
<1>5. CASE p.kind = "req"
  <2>1. Listen(s, p, rest) /\ p \in Ordered
    BY <1>5 DEF Outside, Requests, Ordered
  <2>2. CASE (s # 0 /\ s \in cool) \/ ~check_session(p)
    <3>1. Same /\ (down' = down \/ down' = Put(s, <<Raw("error")>>))
      BY <2>1, <2>2 DEF Listen
    <3>2. QED
      BY <1>2, <1>3, <1>4, <3>1
  <2>3. CASE ~(s # 0 /\ s \in cool) /\ check_session(p)
    <3>1. data.session # 0
      BY <2>3 DEF check_session
    <3>2. InOrder(Of(s), p, rest, FALSE, Raw("none"))
      BY <2>1, <2>3 DEF Listen, Of
    <3>3. Of(s) \in Data /\ Last(Of(s)) /\ Of(s).server_buff = data.server_buff
      BY <3>1, OfType
    <3>4. Of(s).client_buff = data.client_buff /\ Of(s).session = data.session
      BY <1>1 DEF Of, Bound, Data
    <3>5. /\ (\A o \in DOMAIN Of(s).server_buff : Of(s).server_buff[o].kind # "login") => Clean'
          /\ \A o \in DOMAIN data'.client_buff :
               data'.client_buff[o] = p \/ \E x \in DOMAIN Of(s).client_buff : data'.client_buff[o] = Of(s).client_buff[x]
          /\ \A i \in DOMAIN posted' : \/ \E j \in DOMAIN rest : posted'[i] = rest[j]
                                       \/ \E x \in DOMAIN Of(s).client_buff : posted'[i] = Of(s).client_buff[x]
          /\ DownOld /\ data'.session \in {0, Of(s).session}
      <4> HIDE DEF Of
      <4>1. QED
        BY <1>1, <2>1, <3>2, <3>3, InOrderItems
    <3>6. QED
      BY <1>5, <3>3, <3>4, <3>5 DEF Clean
  <2>4. QED
    BY <2>2, <2>3
<1>6. CASE p.kind = "ping"
  <2>1. PQSystemPing(p, rest) /\ p \in Ordered
    BY <1>6 DEF Outside, Requests, Ordered
  <2>2. CASE ~check_session(p)
    <3>1. Same /\ down' = down
      BY <2>1, <2>2 DEF PQSystemPing
    <3>2. QED
      BY <1>2, <1>3, <3>1
  <2>3. CASE check_session(p)
    <3> DEFINE m == Numbered(data, "ping", 0)
    <3>1. data.session # 0 /\ InOrder(data, p, rest, TRUE, m)
      BY <2>1, <2>3 DEF PQSystemPing, check_session
    <3>2. m \in Messages /\ m.order = data.server_order /\ m.kind = "ping" /\ m.order # 0
      BY <1>1, <3>1 DEF Numbered, Messages, Data, Last, Started
    <3> HIDE DEF m
    <3>3. QED
      BY <1>1, <1>6, <2>1, <3>1, <3>2, InOrderItems DEF Clean
  <2>4. QED
    BY <2>2, <2>3
<1>7. CASE p.kind = "login"
  <2>1. Same /\ down' = down
    BY <1>7 DEF Outside, PQSystemLogin
  <2>2. QED
    BY <1>2, <1>3, <2>1
<1>8. CASE p.kind = "resend"
  <2>1. PQSystemResend(p, rest)
    BY <1>8 DEF Outside
  <2>2. Same
    BY <2>1 DEF PQSystemResend
  <2>3. DownOld
    <3>1. CASE check_session(p) /\ p.order \in DOMAIN data.server_buff
      <4>1. down' = Put(data.sock, Resent(data, p.order))
        BY <2>1, <3>1 DEF PQSystemResend
      <4>2. Resent(data, p.order) \in Seq(Sent)
        BY <1>1, <3>1, ResentType
      <4>3. \A i \in DOMAIN Resent(data, p.order) : Resent(data, p.order)[i].kind # "login"
        <5>1. \A i \in DOMAIN Resent(data, p.order) : \E o \in DOMAIN data.server_buff : Resent(data, p.order)[i] = data.server_buff[o]
          BY <1>1, <3>1, ResentKept
        <5>2. QED
          BY <5>1 DEF Clean
      <4>4. QED
        BY <1>1, <4>1, <4>2, <4>3, PutOld
    <3>2. CASE ~(check_session(p) /\ p.order \in DOMAIN data.server_buff)
      BY <1>4, <2>1, <3>2 DEF PQSystemResend
    <3>3. QED
      BY <3>1, <3>2
  <2>4. QED
    BY <1>2, <2>2, <2>3
<1>9. QED
  BY <1>5, <1>6, <1>7, <1>8 DEF Requests

\* What is told of after a step was told of before, when it comes from there.
LEMMA HeardFrom ==
  ASSUME UpOld, DownOld, client'.session = client.session,
         \A i \in DOMAIN posted' : InPosted(posted'[i].session) \/ InBuff(posted'[i].session) \/ Heard(posted'[i].session),
         \A o \in DOMAIN data'.client_buff :
           InBuff(data'.client_buff[o].session) \/ Heard(data'.client_buff[o].session)
  PROVE  HeardFewer
<1>1. ASSUME NEW n, InUp(n)'
      PROVE  InUp(n)
  BY <1>1 DEF InUp, UpOld
<1>2. ASSUME NEW n, InDown(n)'
      PROVE  InDown(n)
  BY <1>2 DEF InDown, DownOld
<1>3. ASSUME NEW n, InPosted(n)' \/ InBuff(n)'
      PROVE  Heard(n)
  BY <1>3 DEF InPosted, InBuff, Heard
<1>4. QED
  BY <1>1, <1>2, <1>3 DEF HeardFewer, Heard

LEMMA OutsideHeard ==
  ASSUME Inv, Clean, NEW s \in Socks \cup {0}, NEW p \in Requests, NEW rest \in Seq(Ordered), Outside(s, p, rest),
         p.kind # "login" => Heard(p.session),
         \A i \in DOMAIN rest : \E j \in DOMAIN posted : rest[i] = posted[j],
         UpOld, client' = client
  PROVE  HeardFewer /\ Clean' /\ data'.session \in {0, data.session}
<1>1. /\ Clean' /\ DownOld /\ data'.session \in {0, data.session}
      /\ \A o \in DOMAIN data'.client_buff :
           (p.kind # "login" /\ data'.client_buff[o] = p) \/ \E x \in DOMAIN data.client_buff : data'.client_buff[o] = data.client_buff[x]
      /\ \A i \in DOMAIN posted' : \/ \E j \in DOMAIN rest : posted'[i] = rest[j]
                                   \/ \E x \in DOMAIN data.client_buff : posted'[i] = data.client_buff[x]
  BY OutsideItems
<1>2. \A i \in DOMAIN posted' : InPosted(posted'[i].session) \/ InBuff(posted'[i].session)
  <2>1. ASSUME NEW i \in DOMAIN posted', NEW j \in DOMAIN rest, posted'[i] = rest[j]
        PROVE  InPosted(posted'[i].session)
    BY <2>1 DEF InPosted
  <2>2. ASSUME NEW i \in DOMAIN posted', NEW x \in DOMAIN data.client_buff, posted'[i] = data.client_buff[x]
        PROVE  InBuff(posted'[i].session)
    BY <2>2 DEF InBuff
  <2>3. QED
    BY <1>1, <2>1, <2>2
<1>3. \A o \in DOMAIN data'.client_buff : InBuff(data'.client_buff[o].session) \/ Heard(data'.client_buff[o].session)
  <2>1. ASSUME NEW o \in DOMAIN data'.client_buff, NEW x \in DOMAIN data.client_buff,
               data'.client_buff[o] = data.client_buff[x]
        PROVE  InBuff(data'.client_buff[o].session)
    BY <2>1 DEF InBuff
  <2>2. QED
    BY <1>1, <2>1
<1>4. QED
  BY <1>1, <1>2, <1>3, HeardFrom

\* The order of requests leaves the role bound as it is, or forgets it.
LEMMA InOrderStands ==
  ASSUME NEW d \in Data, Last(d), NEW p \in Ordered, NEW rest, NEW answer, NEW m, InOrder(d, p, rest, answer, m)
  PROVE  data'.sock = d.sock \/ (~exists' /\ data'.sock = 0)
<1>1. CASE InTurn(d, p)
  <2>1. data' = (IF answer THEN Say(Turn(d, p), m) ELSE Turn(d, p))
    BY <1>1 DEF InOrder
  <2>2. Turn(d, p) \in Data /\ Turn(d, p).sock = d.sock
    BY TurnType
  <2>3. Say(Turn(d, p), m).sock = Turn(d, p).sock
    <3> DEFINE e == Turn(d, p)
               buff == IF m.order = 0 THEN e.server_buff ELSE Kept(e.server_buff, m.order, m)
    <3>1. Say(e, m) = [e EXCEPT !.server_order = @ + 1, !.server_buff = buff]
      BY DEF Say
    <3>2. e \in Data
      BY <2>2
    <3> HIDE DEF e, buff
    <3>3. Say(e, m).sock = e.sock
      BY <3>1, <3>2 DEF Data
    <3>4. QED
      BY <3>3 DEF e
  <2>4. QED
    BY <2>1, <2>2, <2>3
<1>2. CASE ~InTurn(d, p) /\ p.order > d.client_order
  <2>1. data' = Push(d, p) /\ exists' = ~Hoards(d)
    BY <1>2 DEF InOrder
  <2>2. QED
    BY <2>1, PushType
<1>3. CASE ~InTurn(d, p) /\ ~(p.order > d.client_order)
  BY <1>3 DEF InOrder
<1>4. QED
  BY <1>1, <1>2, <1>3

\* What a message from outside may do to the role and its connections.
LEMMA OutsideRole ==
  ASSUME Inv, NEW s \in Socks \cup {0}, NEW p \in Requests, NEW rest, Outside(s, p, rest)
  PROVE  \/ UNCHANGED <<exists, data, sock_map, cool, taken>>
         \/ /\ p.kind # "login" /\ p.session = data.session /\ data.session # 0 /\ exists
            /\ \/ UNCHANGED <<sock_map, cool>> /\ (data'.sock = data.sock \/ (~exists' /\ data'.sock = 0))
               \/ s # 0 /\ s \notin cool /\ update_sock(s) /\ (data'.sock = s \/ (~exists' /\ data'.sock = 0))
<1>1. data \in Data /\ Last(data)
  BY DEF Inv, Types, GatewayType
<1>2. check_session(p) => p.session = data.session /\ data.session # 0 /\ exists
  BY DEF check_session
<1>3. CASE p.kind = "req"
  <2>1. Listen(s, p, rest) /\ p \in Ordered
    BY <1>3 DEF Outside, Requests, Ordered
  <2>2. CASE (s # 0 /\ s \in cool) \/ ~check_session(p)
    BY <2>1, <2>2 DEF Listen
  <2>3. CASE ~(s # 0 /\ s \in cool) /\ check_session(p)
    <3>1. InOrder(Of(s), p, rest, FALSE, Raw("none")) /\ IF s = 0 THEN UNCHANGED <<sock_map, cool>> ELSE update_sock(s)
      BY <2>1, <2>3 DEF Listen, Of
    <3>2. Of(s) \in Data /\ Last(Of(s)) /\ Of(s).sock = (IF s = 0 THEN data.sock ELSE s)
      BY <1>2, <2>3, OfType
    <3>3. data'.sock = Of(s).sock \/ (~exists' /\ data'.sock = 0)
      BY <2>1, <3>1, <3>2, InOrderStands
    <3>4. QED
      BY <1>2, <1>3, <2>3, <3>1, <3>2, <3>3
  <2>4. QED
    BY <2>2, <2>3
<1>4. CASE p.kind = "ping"
  <2>1. PQSystemPing(p, rest) /\ p \in Ordered /\ UNCHANGED <<sock_map, cool>>
    BY <1>4 DEF Outside, Requests, Ordered, PQSystemPing
  <2>2. CASE ~check_session(p)
    BY <2>1, <2>2 DEF PQSystemPing
  <2>3. CASE check_session(p)
    <3>1. InOrder(data, p, rest, TRUE, Numbered(data, "ping", 0))
      BY <2>1, <2>3 DEF PQSystemPing
    <3>2. QED
      BY <1>1, <1>2, <1>4, <2>1, <2>3, <3>1, InOrderStands
  <2>4. QED
    BY <2>2, <2>3
<1>5. CASE p.kind = "login"
  BY <1>5 DEF Outside, PQSystemLogin
<1>6. CASE p.kind = "resend"
  BY <1>6 DEF Outside, PQSystemResend
<1>7. QED
  BY <1>3, <1>4, <1>5, <1>6 DEF Requests

\* A message from outside, of a connection that was made or of none.
LEMMA OutsideEnds ==
  ASSUME Inv, EInv, NEW s \in Socks \cup {0}, NEW p \in Requests, NEW rest \in Seq(Ordered), Outside(s, p, rest),
         LeavesNoted, s # 0 => s \in open \cup closing \cup cool,
         p.kind # "login" => Heard(p.session),
         \A i \in DOMAIN rest : \E j \in DOMAIN posted : rest[i] = posted[j],
         UpOld, ToAnswer' => ToAnswer, UNCHANGED <<last_sock, open, closing, session, from_game, client>>
  PROVE  EInv'
<1>1. HeardFewer /\ Clean' /\ data'.session \in {0, data.session}
  BY OutsideHeard DEF EInv
<1>2. Unheard'
  BY <1>1, UnheardOn DEF EInv
<1>3. CASE UNCHANGED <<exists, data, sock_map, cool, taken>>
  <2>1. stray' = stray
    BY <1>3 DEF LeavesNoted
  <2>2. Placed' /\ Strays'
    BY <1>3, <2>1 DEF EInv, Placed, Strays
  <2>3. Quiet'
    BY <1>1, <1>3 DEF EInv, Quiet, Dead, HeardFewer
  <2>4. QED
    BY <1>1, <1>2, <2>2, <2>3 DEF EInv
<1>4. CASE /\ p.kind # "login" /\ p.session = data.session /\ data.session # 0 /\ exists
           /\ \/ UNCHANGED <<sock_map, cool>> /\ (data'.sock = data.sock \/ (~exists' /\ data'.sock = 0))
              \/ s # 0 /\ s \notin cool /\ update_sock(s) /\ (data'.sock = s \/ (~exists' /\ data'.sock = 0))
  <2>1. ~Dead
    BY <1>4 DEF EInv, Quiet
  <2>2. data'.sock \in {0, data.sock} \/ (data'.sock = s /\ s \in open \cup closing)
    BY <1>4
  <2>3. ~Dead'
    BY <2>1, <2>2 DEF Dead
  <2>4. cool \subseteq cool'
    BY <1>4 DEF update_sock
  <2>5. Placed'
    BY <2>4 DEF EInv, Placed
  <2>6. Strays'
    <3>1. ~exists' => stray' = stray \cup sock_map'
      BY <1>4 DEF LeavesNoted
    <3>2. exists' => stray' = stray
      BY DEF LeavesNoted
    <3>3. sock_map \subseteq {data.sock} \cup stray
      BY DEF EInv, Strays
    <3>4. exists' => sock_map' \subseteq {data'.sock} \cup stray
      BY <1>4, <3>3 DEF update_sock
    <3>5. QED
      BY <3>1, <3>2, <3>4 DEF Strays
  <2>7. QED
    BY <1>1, <1>2, <2>3, <2>5, <2>6 DEF EInv, Quiet
<1>5. QED
  BY <1>3, <1>4, OutsideRole

-----------------------------------------------------------------------------
(* The steps of the gateway.                                               *)

\* What a request under way tells of.
LEMMA ReceiveEnds ==
  ASSUME Inv, AInv, EInv, NEW s \in Socks, Receive(s)
  PROVE  EInv'
<1> DEFINE p == up[s][1]
<1>1. /\ up[s] # <<>> /\ up' = [up EXCEPT ![s] = Tail(@)] /\ Outside(s, Head(up[s]), posted) /\ LeavesNoted
      /\ UNCHANGED <<last_sock, open, closing, session, from_game, client>>
  BY DEF Receive
<1>2. Head(up[s]) = p /\ 1 \in DOMAIN up[s] /\ p \in Requests /\ UpFewer
  BY <1>1, ReceiveHead
<1>3. s <= last_sock
  BY <1>1 DEF AInv, Past, Newest, Inv, Types, NetType, Socks
<1>4. s \in open \cup closing \cup cool
  BY <1>3 DEF EInv, Placed
<1>5. p.kind # "login" => Heard(p.session)
  BY <1>2 DEF Heard, InUp
<1>6. UpOld
  BY <1>1, UpTaken DEF Inv, Types
<1>7. ToAnswer' => ToAnswer
  <2>1. \A q \in Socks : ~NotSent(q)' => ~NotSent(q)
    BY <1>1, <1>2 DEF NotSent, UpFewer
  <2>2. CASE p.kind # "login"
    <3>1. logins' = logins
      BY <1>1, <1>2, <2>2, OutsideLogins
    <3>2. QED
      BY <1>1, <2>1, <3>1 DEF ToAnswer, NotTaken
  <2>3. CASE p.kind = "login"
    <3> DEFINE l == [session |-> p.session, sock |-> s]
    <3>1. logins' = Append(logins, l)
      BY <1>1, <1>2, <2>3, OutsideLogins
    <3>2. l \in Logins /\ logins \in Seq(Logins) /\ l.session = p.session
      BY <1>2 DEF Requests, Logins, Inv, Types, GameType
    <3> HIDE DEF l, p, Logins
    <3>3. \A i \in DOMAIN logins' : logins'[i] = l \/ (i \in DOMAIN logins /\ logins'[i] = logins[i])
      BY <3>1, <3>2, AppendItems
    <3>4. ~NotTaken' => ~NotTaken \/ p.session = session
      BY <1>1, <3>2, <3>3 DEF NotTaken
    <3>5. p.session = session => ~NotSent(s)
      BY <1>2, <2>3 DEF NotSent, p
    <3>6. QED
      BY <2>1, <3>4, <3>5 DEF ToAnswer
  <2>4. QED
    BY <2>2, <2>3
<1>8. posted \in Seq(Ordered) /\ Outside(s, p, posted)
  BY <1>1, <1>2 DEF Inv, Types, GatewayType
<1> HIDE DEF p
<1>9. QED
  BY <1>1, <1>2, <1>4, <1>5, <1>6, <1>7, <1>8, OutsideEnds

LEMMA RepeatEnds ==
  ASSUME Inv, EInv, Repeat
  PROVE  EInv'
<1> DEFINE p == Head(posted)
<1>1. /\ posted # <<>> /\ Outside(0, p, Tail(posted)) /\ LeavesNoted
      /\ UNCHANGED <<up, last_sock, open, closing, session, from_game, client>>
  BY DEF Repeat
<1>2. posted \in Seq(Ordered)
  BY DEF Inv, Types, GatewayType
<1>3. /\ p = posted[1] /\ 1 \in DOMAIN posted /\ p \in Ordered /\ Tail(posted) \in Seq(Ordered)
      /\ \A i \in DOMAIN Tail(posted) : i + 1 \in DOMAIN posted /\ Tail(posted)[i] = posted[i + 1]
  <2> HIDE DEF Ordered
  <2> QED BY <1>1, <1>2, TailItems
<1>4. Heard(p.session)
  BY <1>3 DEF Heard, InPosted
<1>5. p \in Requests /\ p.kind # "login"
  BY <1>3 DEF Ordered, Requests
<1>6. logins' = logins
  BY <1>1, <1>5, OutsideLogins
<1>7. UpOld /\ (ToAnswer' => ToAnswer)
  BY <1>1, <1>6 DEF UpOld, ToAnswer, NotTaken, NotSent
<1> HIDE DEF p
<1>8. QED
  BY <1>1, <1>3, <1>4, <1>5, <1>7, OutsideEnds

\* The end of a connection is handled: a role bound to it is offline.
LEMMA CloseEnds ==
  ASSUME Inv, EInv, NEW s \in Socks, Close(s)
  PROVE  EInv'
<1>1. /\ closing' = closing \ {s} /\ cool' = cool \cup {s} /\ sock_map' = sock_map \ {s}
      /\ data' = (IF s \in sock_map /\ exists THEN Bound(data, 0) ELSE data)
      /\ stray' = (IF s \in sock_map /\ exists /\ data.sock \notin {0, s} THEN stray \cup {data.sock} ELSE stray)
      /\ UNCHANGED <<posted, taken, up, down, last_sock, open, session, logins, from_game, client>>
  BY DEF Close, Bound, game
<1>2. /\ data \in Data /\ Last(data) /\ (data.sock # 0 => data.sock \in sock_map /\ exists)
  BY DEF Inv, Types, GatewayType, Noted
<1>3. /\ data'.sock = (IF s \in sock_map /\ exists THEN 0 ELSE data.sock) /\ data'.session = data.session
      /\ data'.server_buff = data.server_buff /\ data'.client_buff = data.client_buff
  <2>1. /\ Bound(data, 0).sock = 0 /\ Bound(data, 0).session = data.session
        /\ Bound(data, 0).server_buff = data.server_buff /\ Bound(data, 0).client_buff = data.client_buff
    BY <1>2 DEF Bound, Data
  <2>2. QED
    BY <1>1, <2>1
<1>4. HeardFewer
  BY <1>1, <1>3 DEF HeardFewer, Heard, InUp, InDown, InPosted, InBuff
<1>5. Unheard'
  BY <1>1, <1>4, UnheardOn DEF EInv, ToAnswer, NotTaken, NotSent
<1>6. Placed' /\ Clean'
  BY <1>1, <1>3 DEF EInv, Placed, Clean
<1>7. data.sock = s => data'.sock # s
  BY <1>2, <1>3 DEF Socks
<1>8. Quiet'
  <2>1. data'.sock # 0 => data'.sock = data.sock /\ data.sock # s
    BY <1>3, <1>7
  <2>2. Dead' => Dead
    BY <1>1, <2>1 DEF Dead
  <2>3. QED
    BY <1>1, <1>3, <1>4, <2>2 DEF EInv, Quiet, HeardFewer
<1>9. Strays'
  BY <1>1, <1>2, <1>3 DEF EInv, Strays
<1>10. QED
  BY <1>5, <1>6, <1>8, <1>9 DEF EInv

\* The answer to a login: its session was not heard of before.
LEMMA LoginEnds ==
  ASSUME Inv, AInv, EInv, FromGame, from_game[1].kind = "login"
  PROVE  EInv'
<1> DEFINE m == from_game[1]
           a == [kind |-> "login", order |-> 0, n |-> m.session]
<1>1. /\ from_game # <<>> /\ from_game' = Tail(from_game) /\ PRSystemLogin(Head(from_game)) /\ LeavesNoted
      /\ UNCHANGED <<posted, last_sock, open, closing, up, session, logins, client>>
  BY FromGameHead DEF FromGame, AInv, Past
<1>2. from_game \in Seq(Said) /\ from_game' \in Seq(Said)
  BY <1>1 DEF Inv, Types, GameType
<1>3. /\ Head(from_game) = m /\ 1 \in DOMAIN from_game /\ DOMAIN from_game \subseteq Nat
      /\ \A i \in DOMAIN from_game' : i + 1 \in DOMAIN from_game /\ from_game'[i] = from_game[i + 1] /\ i + 1 # 1 /\ i \in Nat
  <2> HIDE DEF Said
  <2>1. /\ Head(from_game) = from_game[1] /\ 1 \in DOMAIN from_game
        /\ \A i \in DOMAIN from_game' : i + 1 \in DOMAIN from_game /\ from_game'[i] = from_game[i + 1]
    BY <1>1, <1>2, TailItems
  <2>2. DOMAIN from_game \subseteq Nat /\ \A i \in DOMAIN from_game' : i + 1 # 1 /\ i \in Nat
    BY <1>2
  <2>3. QED
    BY <2>1, <2>2
<1>4. m.kind = "login" /\ m \in Said /\ m.sock \in Socks /\ m.session \in Nat
  BY <1>2, <1>3 DEF Said
<1>5. PRSystemLogin(m)
  BY <1>1, <1>3
<1>6. /\ exists' = TRUE /\ taken' = <<>> /\ update_sock(m.sock) /\ down' = Put(m.sock, <<a>>)
      /\ data' = Bound(Reset([data EXCEPT !.session = m.session]), m.sock)
  BY <1>5 DEF PRSystemLogin
<1>7. data'.sock = m.sock /\ data'.session = m.session /\ DOMAIN data'.server_buff = {} /\ DOMAIN data'.client_buff = {}
  <2>1. data \in Data
    BY DEF Inv, Types, GatewayType
  <2>2. QED
    BY <1>6, <2>1 DEF Bound, Reset, Data, Empty
<1>8. ~Heard(m.session) /\ m.session <= session /\ session \in Nat
  BY <1>3, <1>4 DEF EInv, Unheard, AInv, Past, PassedBefore, Inv, Types, GameType
<1>9. \A q \in Socks : \/ down'[q] = down[q]
                       \/ m.sock \in open /\ q = m.sock /\ down'[q] = down[q] \o <<a>>
  BY <1>6, PutAt DEF Inv, Types
<1>10. a \in Sent /\ a.kind = "login" /\ a.n = m.session
  BY <1>4 DEF Sent, Messages
<1> HIDE DEF m, a
<1>11. ASSUME NEW q \in Socks, NEW i \in DOMAIN down'[q]
       PROVE  (m.sock \in open /\ down'[q][i] = a) \/ \E j \in DOMAIN down[q] : down'[q][i] = down[q][j]
  <2>1. down[q] \in Seq(Sent) /\ <<a>> \in Seq(Sent) /\ DOMAIN <<a>> = {1} /\ <<a>>[1] = a
    <3>1. down[q] \in Seq(Sent)
      BY DEF Inv, Types, NetType
    <3> HIDE DEF Sent
    <3>2. QED
      BY <1>10, <3>1
  <2> HIDE DEF Sent
  <2>2. CASE down'[q] = down[q]
    BY <2>2
  <2>3. CASE m.sock \in open /\ q = m.sock /\ down'[q] = down[q] \o <<a>>
    <3> DEFINE out == <<a>>
    <3>0. out \in Seq(Sent) /\ down'[q] = down[q] \o out /\ DOMAIN out = {1} /\ out[1] = a
      BY <2>1, <2>3
    <3> HIDE DEF out
    <3>1. \/ i \in DOMAIN down[q] /\ down'[q][i] = down[q][i]
          \/ i - Len(down[q]) \in DOMAIN out /\ down'[q][i] = out[i - Len(down[q])]
      BY <1>11, <2>1, <3>0, ConcatItems
    <3>2. QED
      BY <2>3, <3>0, <3>1
  <2>4. QED
    BY <1>9, <2>2, <2>3
<1>12. ASSUME NEW n, Heard(n)'
       PROVE  Heard(n) \/ (n = m.session /\ m.sock \in open)
  <2>1. client'.session = client.session /\ (InUp(n)' => InUp(n)) /\ (InPosted(n)' => InPosted(n)) /\ ~InBuff(n)'
    BY <1>1, <1>7 DEF InUp, InPosted, InBuff
  <2>2. InDown(n)' => InDown(n) \/ (n = m.session /\ m.sock \in open)
    BY <1>10, <1>11 DEF InDown
  <2>3. QED
    BY <1>12, <2>1, <2>2 DEF Heard
<1>13. Unheard'
  <2>1. ASSUME NEW n \in Nat, Heard(n)'
        PROVE  n <= session
    BY <1>8, <1>12, <2>1 DEF EInv, Unheard
  <2>2. ToAnswer => m.session # session
    <3>1. m.session = session => AtGateway
      BY <1>3, <1>4 DEF AInv, OnConnection, AtGame, Answered, NotPassed, m
    <3>2. ASSUME AtGateway
          PROVE  ~ToAnswer
      <4>1. NotSent(last_sock) /\ NotTaken /\ \A s \in Socks : s # last_sock => NotSent(s)
        BY <3>2 DEF AtGateway, Unanswered, NotSent
      <4>2. QED
        BY <4>1 DEF ToAnswer
    <3>3. QED
      BY <3>1, <3>2
  <2>3. ToAnswer' => ToAnswer
    BY <1>1 DEF ToAnswer, NotTaken, NotSent
  <2>4. ASSUME NEW n, ToAnswer', n = session'
        PROVE  ~Heard(n)'
    <3>1. n = session /\ ~Heard(session) /\ n # m.session
      BY <1>1, <2>2, <2>3, <2>4 DEF EInv, Unheard
    <3>2. QED
      BY <1>12, <3>1
  <2>5. ASSUME NEW n, NEW i \in DOMAIN from_game', from_game'[i].kind = "login", n = from_game'[i].session
        PROVE  ~Heard(n)'
    <3>1. i + 1 \in DOMAIN from_game /\ from_game'[i] = from_game[i + 1] /\ i + 1 # 1
      BY <1>3
    <3>2. n # m.session /\ ~Heard(n)
      BY <1>3, <1>4, <2>5, <3>1 DEF EInv, Unheard, m
    <3>3. QED
      BY <1>12, <3>2
  <2>6. ASSUME NEW i \in DOMAIN from_game', NEW j \in DOMAIN from_game',
               from_game'[i].kind = "login", from_game'[j].kind = "login", i # j
        PROVE  from_game'[i].session # from_game'[j].session
    <3>1. i + 1 # j + 1
      BY <1>3, <2>6
    <3>2. QED
      BY <1>3, <2>6, <3>1 DEF EInv, Unheard
  <2>7. \A n \in Nat : Heard(n)' => n <= session'
    BY <1>1, <2>1
  <2>8. QED
    BY <2>4, <2>5, <2>6, <2>7, UnheardNext
<1>14. Quiet'
  <2>1. Dead' => m.sock \notin open
    BY <1>1, <1>7 DEF Dead
  <2>2. ASSUME NEW n, Dead', n = m.session
        PROVE  ~Heard(n)'
    BY <1>8, <1>12, <2>1, <2>2
  <2>3. ASSUME NEW n, Dead', n = data'.session
        PROVE  ~Heard(n)'
    BY <1>7, <2>2, <2>3
  <2>4. QED
    BY <1>6, <2>3 DEF Quiet
<1>15. Placed' /\ Clean' /\ Strays'
  <2>1. stray' = stray /\ cool \subseteq cool'
    BY <1>6 DEF LeavesNoted, update_sock, FromGame
  <2>2. Strays'
    BY <1>6, <1>7, <1>1, <2>1 DEF EInv, Strays, update_sock, LeavesNoted
  <2>3. QED
    BY <1>1, <1>7, <2>1, <2>2 DEF EInv, Placed, Clean
<1>16. QED
  BY <1>13, <1>14, <1>15 DEF EInv

\* Another message of the game server concerns the role as it is.
LEMMA FromGameEnds ==
  ASSUME Inv, AInv, EInv, FromGame
  PROVE  EInv'
<1> DEFINE m == from_game[1]
<1>1. /\ from_game # <<>> /\ from_game \in Seq(Said) /\ m \in Said
      /\ \A i \in DOMAIN from_game' : i + 1 \in DOMAIN from_game /\ from_game'[i] = from_game[i + 1]
      /\ m.kind = "data" => Forward(m)
      /\ m.kind = "kick" => PRSystemKick
      /\ m.kind = "unusual" => UnusualError
      /\ UNCHANGED <<posted, last_sock, open, closing, up, session, logins, client>> /\ LeavesNoted
  BY FromGameHead DEF FromGame
<1>2. NetType /\ data \in Data /\ Last(data) /\ (~exists => data.sock = 0)
  BY DEF Inv, Types, GatewayType
<1> HIDE DEF m
<1>3. ASSUME m.kind # "login"
      PROVE  /\ data'.sock \in {0, data.sock} /\ data'.session \in {0, data.session} /\ Clean' /\ DownOld
             /\ data'.client_buff = data.client_buff \/ DOMAIN data'.client_buff = {}
             /\ UNCHANGED <<sock_map, cool, taken>> /\ (data'.sock = data.sock \/ (exists /\ ~exists') \/ data.sock = 0)
  <2>0. \A x : down' = Put(x, <<Raw("error")>>) => DownOld
    <3>1. Raw("error") \in Sent /\ Raw("error").kind # "login"
      BY RawType DEF Raw
    <3>2. QED
      BY <1>2, <3>1, PutOneOld
  <2>1. CASE m.kind = "data"
    <3> DEFINE x == Numbered(data, "data", m.n)
    <3>1. x.kind = "data" /\ x.order = data.server_order /\ x \in Messages
      BY <1>1, <1>2 DEF Numbered, Messages, Data, Said
    <3>2. /\ data' = (IF exists THEN Say(data, x) ELSE data)
          /\ down' = (IF exists THEN Put(data.sock, <<x>>) ELSE down)
          /\ UNCHANGED <<exists, sock_map, cool, taken>>
      BY <1>1, <2>1 DEF Forward
    <3> HIDE DEF x
    <3>3. data.sock \in open => x \in Sent /\ x.kind # "login"
      BY <1>2, <3>1 DEF Last, Started, Sent, NetType, Socks
    <3>4. DownOld
      <4>1. down' = down => DownOld
        BY DEF DownOld
      <4>2. QED
        BY <1>2, <3>2, <3>3, <4>1, PutOneOld
    <3>5. /\ data'.client_buff = data.client_buff /\ data'.session = data.session /\ data'.sock = data.sock
          /\ Clean'
      BY <1>2, <3>1, <3>2, SayItems DEF EInv, Clean
    <3>6. QED
      BY <3>2, <3>4, <3>5
  <2>2. CASE m.kind = "kick"
    <3>1. data' = [data EXCEPT !.session = 0] /\ down' = Put(data.sock, <<Raw("error")>>) /\ UNCHANGED <<sock_map, cool, taken>>
      BY <1>1, <2>2 DEF PRSystemKick
    <3>2. /\ data'.client_buff = data.client_buff /\ data'.session = 0 /\ data'.sock = data.sock
          /\ data'.server_buff = data.server_buff
      BY <1>2, <3>1 DEF Data
    <3>3. Clean'
      BY <3>2 DEF EInv, Clean
    <3>4. QED
      BY <2>0, <3>1, <3>2, <3>3
  <2>3. CASE m.kind = "unusual"
    <3>1. exists' = FALSE /\ data' = EmptyData /\ down' = Put(data.sock, <<Raw("error")>>) /\ UNCHANGED <<sock_map, cool, taken>>
      BY <1>1, <2>3 DEF UnusualError
    <3>2. data'.sock = 0 /\ data'.session = 0 /\ DOMAIN data'.client_buff = {} /\ DOMAIN data'.server_buff = {}
      BY <3>1 DEF EmptyData, Empty
    <3>3. QED
      BY <1>2, <2>0, <3>1, <3>2 DEF Clean, GatewayType, Inv, Types
  <2>4. QED
    BY <1>1, <1>3, <2>1, <2>2, <2>3 DEF Said
<1>4. CASE m.kind # "login"
  <2>1. HeardFewer
    <3>1. UpOld
      BY <1>1 DEF UpOld
    <3>2. \A i \in DOMAIN posted' : InPosted(posted'[i].session)
      BY <1>1 DEF InPosted
    <3>3. \A o \in DOMAIN data'.client_buff : InBuff(data'.client_buff[o].session)
      BY <1>3, <1>4 DEF InBuff
    <3>4. QED
      BY <1>1, <1>3, <1>4, <3>1, <3>2, <3>3, HeardFrom
  <2>2. ToAnswer' => ToAnswer
    BY <1>1 DEF ToAnswer, NotTaken, NotSent
  <2>3. Unheard'
    <3>1. \A n \in Nat : Heard(n)' => n <= session'
      BY <1>1, <2>1 DEF EInv, Unheard, HeardFewer
    <3>2. \A n : ToAnswer' /\ n = session' => ~Heard(n)'
      BY <1>1, <2>1, <2>2 DEF EInv, Unheard, HeardFewer
    <3>3. ASSUME NEW n, NEW i \in DOMAIN from_game', from_game'[i].kind = "login", n = from_game'[i].session
          PROVE  ~Heard(n)'
      BY <1>1, <2>1, <3>3 DEF EInv, Unheard, HeardFewer
    <3>4. ASSUME NEW i \in DOMAIN from_game', NEW j \in DOMAIN from_game',
                 from_game'[i].kind = "login", from_game'[j].kind = "login", i # j
          PROVE  from_game'[i].session # from_game'[j].session
      <4>1. i + 1 # j + 1
        <5>1. i \in Nat /\ j \in Nat
          BY FromGameKeeps, <1>1 DEF FromGame
        <5>2. QED
          BY <3>4, <5>1
      <4>2. QED
        BY <1>1, <3>4, <4>1 DEF EInv, Unheard
    <3>5. QED
      BY <3>1, <3>2, <3>3, <3>4, UnheardNext
  <2>4. Quiet'
    BY <1>1, <1>3, <1>4, <2>1, QuietOn DEF EInv
  <2>5. Placed'
    BY <1>1, <1>3, <1>4 DEF EInv, Placed
  <2>6. Strays'
    <3>1. CASE exists /\ ~exists'
      BY <1>1, <1>3, <1>4, <3>1 DEF LeavesNoted, Strays
    <3>2. CASE ~(exists /\ ~exists')
      BY <1>1, <1>3, <1>4, <3>2 DEF LeavesNoted, EInv, Strays, Inv, Types, GatewayType
    <3>3. QED
      BY <3>1, <3>2
  <2>7. QED
    BY <1>3, <1>4, <2>3, <2>4, <2>5, <2>6 DEF EInv
<1>5. CASE m.kind = "login"
  BY <1>5, LoginEnds DEF m
<1>6. QED
  BY <1>4, <1>5

-----------------------------------------------------------------------------
(* The steps of the game server.                                           *)

\* It sends one more message.
LEMMA PassedOn ==
  ASSUME Inv, EInv, NEW m \in Said, from_game' = Append(from_game, m), ToAnswer' => ToAnswer,
         m.kind = "login" => m.session = session /\ ~Heard(session) /\ NotPassed,
         UNCHANGED <<gateway, net, session, client>>
  PROVE  EInv'
<1>1. UNCHANGED <<exists, data, sock_map, cool, posted, taken, stray, last_sock, open, closing, up, down, session, client>>
  BY DEF gateway, net
<1>2. HeardFewer
  BY <1>1 DEF HeardFewer, Heard, InUp, InDown, InPosted, InBuff
<1>3. \A i \in DOMAIN from_game' : \/ i = Len(from_game) + 1 /\ from_game'[i] = m
                                   \/ i \in DOMAIN from_game /\ from_game'[i] = from_game[i]
  <2>1. from_game \in Seq(Said)
    BY DEF Inv, Types, GameType
  <2> HIDE DEF Said
  <2>2. /\ Append(from_game, m)[Len(from_game) + 1] = m
        /\ \A i \in DOMAIN from_game : Append(from_game, m)[i] = from_game[i]
        /\ \A i \in DOMAIN Append(from_game, m) : i \in DOMAIN from_game \/ i = Len(from_game) + 1
    BY <2>1, AppendItems
  <2> DEFINE more == Append(from_game, m)
  <2>3. more[Len(from_game) + 1] = m /\ \A i \in DOMAIN from_game : more[i] = from_game[i]
    BY <2>2
  <2>4. \A i \in DOMAIN more : i \in DOMAIN from_game \/ i = Len(from_game) + 1
    BY <2>2
  <2>5. from_game' = more
    OBVIOUS
  <2> HIDE DEF more
  <2>6. QED
    BY <2>3, <2>4, <2>5
<1>4. \A n \in Nat : Heard(n)' => n <= session'
  BY <1>1, <1>2 DEF EInv, Unheard, HeardFewer
<1>5. \A n : ToAnswer' /\ n = session' => ~Heard(n)'
  BY <1>1, <1>2 DEF EInv, Unheard, HeardFewer
<1>6. ASSUME NEW n, NEW i \in DOMAIN from_game', from_game'[i].kind = "login", n = from_game'[i].session
      PROVE  ~Heard(n)'
  <2>1. ~Heard(n)
    BY <1>3, <1>6 DEF EInv, Unheard
  <2>2. QED
    BY <1>2, <2>1 DEF HeardFewer
<1>7. ASSUME NEW i \in DOMAIN from_game', NEW j \in DOMAIN from_game',
             from_game'[i].kind = "login", from_game'[j].kind = "login", i # j
      PROVE  from_game'[i].session # from_game'[j].session
  BY <1>3, <1>7 DEF EInv, Unheard, NotPassed
<1>8. Unheard'
  BY <1>4, <1>5, <1>6, <1>7, UnheardNext
<1>9. Quiet'
  BY <1>1, <1>2, QuietOn DEF EInv
<1>10. QED
  BY <1>1, <1>8, <1>9 DEF EInv, Placed, Clean, Strays

LEMMA GameLoginEnds ==
  ASSUME Inv, AInv, EInv, GameLogin
  PROVE  EInv'
<1> DEFINE l == logins[1]
           m == [kind |-> "login", session |-> session, sock |-> l.sock, n |-> 0]
<1>1. /\ logins # <<>> /\ logins \in Seq(Logins) /\ logins' = Tail(logins) /\ session \in Nat
      /\ UNCHANGED <<gateway, net, session, client>> /\ up' = up
  BY DEF GameLogin, net, Inv, Types, GameType
<1>2. /\ Head(logins) = l /\ 1 \in DOMAIN logins /\ l \in Logins
      /\ \A i \in DOMAIN logins' : i + 1 \in DOMAIN logins /\ logins'[i] = logins[i + 1]
  <2> HIDE DEF Logins
  <2> QED BY <1>1, TailItems
<1>3. IF l.session = session THEN from_game' = Append(from_game, m) ELSE from_game' = from_game
  BY <1>2 DEF GameLogin
<1>4. ToAnswer' => ToAnswer
  BY <1>1, <1>2 DEF ToAnswer, NotTaken, NotSent
<1>5. CASE l.session # session
  <2>1. UNCHANGED <<exists, data, sock_map, cool, posted, taken, stray, last_sock, open, closing, up, down, session, client, from_game>>
    BY <1>1, <1>3, <1>5 DEF gateway, net
  <2>2. HeardFewer
    BY <2>1 DEF HeardFewer, Heard, InUp, InDown, InPosted, InBuff
  <2>3. Unheard' /\ Quiet'
    BY <1>4, <2>1, <2>2, UnheardOn, QuietOn DEF EInv
  <2>4. QED
    BY <2>1, <2>3 DEF EInv, Placed, Clean, Strays
<1>6. CASE l.session = session
  <2>1. ~NotTaken
    BY <1>2, <1>6 DEF NotTaken
  <2>2. ~Heard(session) /\ NotPassed
    BY <2>1 DEF EInv, Unheard, ToAnswer, AInv, OnConnection, AtGame, AtGateway, Answered
  <2>3. m \in Said /\ m.session = session
    BY <1>1, <1>2 DEF Said, Logins
  <2> HIDE DEF m
  <2>4. QED
    BY <1>1, <1>3, <1>4, <1>6, <2>2, <2>3, PassedOn
<1>7. QED
  BY <1>5, <1>6

LEMMA SayFaultEnds ==
  ASSUME Inv, EInv, GameSay \/ GameFault("kick") \/ GameFault("unusual")
  PROVE  EInv'
<1>1. UNCHANGED <<gateway, net, session, logins, client>> /\ up' = up
  BY DEF GameSay, GameFault, net
<1>2. ToAnswer' => ToAnswer
  BY <1>1 DEF ToAnswer, NotTaken, NotSent
<1>3. \E m \in Said : m.kind # "login" /\ from_game' = Append(from_game, m)
  <2>1. said' = said + 1 => [kind |-> "data", session |-> 0, sock |-> 0, n |-> said'] \in Said
    BY DEF Inv, Types, GameType, Said
  <2>2. \A kind \in {"kick", "unusual"} : [kind |-> kind, session |-> 0, sock |-> 0, n |-> 0] \in Said
    BY DEF Said
  <2>3. QED
    BY <2>1, <2>2 DEF GameSay, GameFault
<1>4. QED
  BY <1>1, <1>2, <1>3, PassedOn

-----------------------------------------------------------------------------
(* The steps of the client.                                                *)

\* They tell of no session but of the client's, and end no connection unseen.
LEMMA ClientEnds ==
  ASSUME Inv, EInv, UNCHANGED gateway, UNCHANGED <<session, logins, from_game>>, NEW p, UpFrom(p), DownOld,
         p.kind # "login" => p.session = client.session, UpFewer,
         client'.session = client.session \/ InDown(client'.session),
         open \cup closing \subseteq open' \cup closing', last_sock' # last_sock => last_sock' \in open',
         last_sock' \in {last_sock, last_sock + 1}
  PROVE  EInv'
<1>1. UNCHANGED <<exists, data, sock_map, cool, posted, taken, stray, session, logins, from_game>>
  BY DEF gateway
<1>2. HeardFewer
  <2>1. ASSUME NEW n, InUp(n)'
        PROVE  Heard(n)
    BY <2>1 DEF InUp, UpFrom, Heard
  <2>2. ASSUME NEW n, InDown(n)'
        PROVE  Heard(n)
    BY <2>2 DEF InDown, DownOld, Heard
  <2>3. ASSUME NEW n, n = client'.session
        PROVE  Heard(n)
    BY <2>3 DEF Heard
  <2>4. ASSUME NEW n, InPosted(n)' \/ InBuff(n)'
        PROVE  Heard(n)
    BY <1>1, <2>4 DEF InPosted, InBuff, Heard
  <2>5. QED
    BY <2>1, <2>2, <2>3, <2>4 DEF HeardFewer, Heard
<1>3. ToAnswer' => ToAnswer
  BY <1>1 DEF ToAnswer, NotTaken, NotSent, UpFewer
<1>4. Unheard'
  BY <1>1, <1>2, <1>3, UnheardOn DEF EInv
<1>5. Quiet'
  BY <1>1, <1>2, QuietOn DEF EInv
<1>6. Placed'
  <2>1. ASSUME NEW s \in Socks, s <= last_sock'
        PROVE  s <= last_sock \/ s \in open'
    BY <2>1 DEF Socks, Inv, Types, NetType
  <2>2. QED
    BY <1>1, <2>1 DEF EInv, Placed
<1>7. QED
  BY <1>1, <1>4, <1>5, <1>6 DEF EInv, Clean, Strays

\* The first packet of a new connection.
LEMMA UpFirst ==
  ASSUME Inv, Connect, NEW p \in Requests, up' = [up EXCEPT ![last_sock'] = <<p>>]
  PROVE  UpFrom(p) /\ last_sock' = last_sock + 1 /\ last_sock' \in Socks /\ last_sock' \in open' /\ open \subseteq open'
<1>1. /\ last_sock' = last_sock + 1 /\ last_sock < MaxSocks /\ open' = open \cup {last_sock'}
      /\ last_sock \in 0..MaxSocks /\ up \in [Socks -> Seq(Requests)] /\ MaxSocks \in Nat
  BY SessionAssumption DEF Connect, Inv, Types, NetType
<1>2. last_sock' \in Socks
  BY <1>1 DEF Socks
<1> HIDE DEF Requests
<1>3. up'[last_sock'] = <<p>> /\ \A q \in Socks : q # last_sock' => up'[q] = up[q]
  BY <1>1, <1>2
<1>4. DOMAIN <<p>> = {1} /\ <<p>>[1] = p
  OBVIOUS
<1>5. UpFrom(p)
  BY <1>3, <1>4 DEF UpFrom
<1>6. QED
  BY <1>1, <1>2, <1>5

\* A new session, of which nothing was heard before.
LEMMA NewSessionEnds ==
  ASSUME Inv, EInv, Login
  PROVE  EInv'
<1> DEFINE p == Packet("login", session', 0)
<1>1. /\ session' = session + 1 /\ session \in Nat /\ Connect /\ up' = [up EXCEPT ![last_sock'] = <<p>>]
      /\ client' = [client EXCEPT !.sock = last_sock']
      /\ UNCHANGED <<gateway, closing, down, logins, from_game>>
  BY DEF Login, Inv, Types, GameType
<1>2. UNCHANGED <<exists, data, sock_map, cool, posted, taken, stray>>
  BY <1>1 DEF gateway
<1>3. p \in Requests /\ p.kind = "login" /\ client'.session = client.session
  BY <1>1 DEF Packet, Requests, Inv, Types, ClientType
<1> HIDE DEF p
<1>4. UpFrom(p) /\ last_sock' = last_sock + 1 /\ last_sock' \in Socks /\ last_sock' \in open' /\ open \subseteq open'
  BY <1>1, <1>3, UpFirst
<1>5. HeardFewer
  BY <1>1, <1>2, <1>3, <1>4 DEF HeardFewer, Heard, InUp, InDown, InPosted, InBuff, UpFrom
<1>6. Unheard'
  <2>1. \A n \in Nat : Heard(n)' => n <= session'
    BY <1>1, <1>5 DEF EInv, Unheard, HeardFewer
  <2>2. ASSUME NEW n, n = session'
        PROVE  ~Heard(n)'
    <3>1. n \in Nat /\ ~(n <= session)
      BY <1>1, <2>2
    <3>2. QED
      BY <1>5, <3>1 DEF EInv, Unheard, HeardFewer
  <2>3. ASSUME NEW n, NEW i \in DOMAIN from_game', from_game'[i].kind = "login", n = from_game'[i].session
        PROVE  ~Heard(n)'
    BY <1>1, <1>5, <2>3 DEF EInv, Unheard, HeardFewer
  <2>4. \A i, j \in DOMAIN from_game' :
          from_game'[i].kind = "login" /\ from_game'[j].kind = "login" /\ i # j
            => from_game'[i].session # from_game'[j].session
    BY <1>1 DEF EInv, Unheard
  <2>5. QED
    BY <2>1, <2>2, <2>3, <2>4, UnheardNext
<1>7. Quiet'
  BY <1>1, <1>2, <1>4, <1>5, QuietOn DEF EInv
<1>8. Placed'
  <2>1. \A s \in Socks : s <= last_sock' => s <= last_sock \/ s = last_sock'
    BY <1>4 DEF Socks, Inv, Types, NetType
  <2>2. QED
    BY <1>1, <1>2, <1>4, <2>1 DEF EInv, Placed
<1>9. QED
  BY <1>2, <1>6, <1>7, <1>8 DEF EInv, Clean, Strays

LEMMA ReconnectEnds ==
  ASSUME Inv, EInv, Reconnect
  PROVE  EInv'
<1> DEFINE p == Packet("req", client.session, client.client_order)
           next == client.client_order + 1
<1>1. /\ Connect /\ up' = [up EXCEPT ![last_sock'] = <<p>>] /\ down' = down
      /\ client' = [client EXCEPT !.sock = last_sock', !.client_order = next]
      /\ UNCHANGED gateway /\ UNCHANGED <<closing, session, logins, from_game>>
  BY DEF Reconnect, game
<1>2. p \in Requests /\ p.kind = "req" /\ p.session = client.session
  BY DEF Packet, Requests, Inv, Types, ClientType
<1> HIDE DEF p, next
<1>3. client'.session = client.session
  BY <1>1 DEF Inv, Types, ClientType
<1>4. UpFrom(p) /\ last_sock' = last_sock + 1 /\ last_sock' \in Socks /\ last_sock' \in open' /\ open \subseteq open'
  BY <1>1, <1>2, UpFirst
<1>5. UpFewer /\ DownOld
  BY <1>1, <1>2, <1>4 DEF UpFewer, UpFrom, DownOld
<1>6. QED
  BY <1>1, <1>2, <1>3, <1>4, <1>5, ClientEnds

LEMMA SendEnds ==
  ASSUME Inv, EInv, NEW kind \in {"req", "ping"}, Send(kind)
  PROVE  EInv'
<1> DEFINE p == Packet(kind, client.session, client.client_order)
           next == client.client_order + 1
           s == client.sock
<1>1. /\ up' = (IF s = 0 THEN up ELSE [up EXCEPT ![s] = Append(@, p)]) /\ down' = down
      /\ client' = [client EXCEPT !.client_order = next]
      /\ UNCHANGED gateway /\ UNCHANGED <<last_sock, open, closing, session, logins, from_game>>
  BY DEF Send, game
<1>2. p \in Requests /\ p.kind # "login" /\ p.session = client.session
  BY DEF Packet, Requests, Inv, Types, ClientType
<1> HIDE DEF p, next
<1>3. client'.session = client.session /\ s \in Socks \cup {0} /\ NetType
  BY <1>1 DEF Inv, Types, ClientType, NetType
<1>4. UpFrom(p)
  <2>1. CASE s = 0
    BY <1>1, <2>1 DEF UpFrom
  <2>2. CASE s # 0
    BY <1>1, <1>2, <1>3, <2>2, UpSent
  <2>3. QED
    BY <2>1, <2>2
<1>5. UpFewer /\ DownOld
  BY <1>1, <1>2, <1>4 DEF UpFewer, UpFrom, DownOld
<1>6. QED
  BY <1>1, <1>2, <1>3, <1>4, <1>5, ClientEnds

LEMMA ClientReceiveEnds ==
  ASSUME Inv, EInv, ClientReceive
  PROVE  EInv'
<1> DEFINE s == client.sock
           m == Head(down[s])
           r == Packet("resend", client.session, client.server_order)
           p == Packet("req", client.session, m.n)
<1>1. /\ s # 0 /\ down[s] # <<>> /\ down' = [down EXCEPT ![s] = Tail(@)]
      /\ UNCHANGED gateway /\ UNCHANGED <<last_sock, session, logins, from_game>>
      /\ \/ up' = up
         \/ up' = [up EXCEPT ![s] = Append(@, r)]
         \/ up' = [up EXCEPT ![s] = Append(@, p)]
         \/ \E i \in 0..Len(up[s]) : up' = [up EXCEPT ![s] = SubSeq(@, 1, i)]
      /\ open \cup closing \subseteq open' \cup closing'
      /\ \/ client' = client
         \/ client' = [client EXCEPT !.server_order = @ + 1]
         \/ client' = [client EXCEPT !.sock = 0, !.logged = FALSE]
         \/ /\ m.kind = "login"
            /\ client' = [sock |-> s, session |-> m.n, logged |-> TRUE, client_order |-> 1, server_order |-> 1]
  <2>1. /\ s # 0 /\ down[s] # <<>> /\ down' = [down EXCEPT ![s] = Tail(@)]
        /\ UNCHANGED gateway /\ UNCHANGED <<last_sock, session, logins, from_game>>
    BY DEF ClientReceive, game
  <2>2. m.kind \in {"login", "order", "error"} \/ m.order # 0
    <3>1. down \in [Socks -> Seq(Sent)] /\ s \in Socks
      BY <2>1 DEF Inv, Types, NetType, ClientType
    <3>2. m \in Sent
      <4> HIDE DEF Sent
      <4> QED BY <2>1, <3>1, TailItems
    <3>3. QED
      BY <3>2 DEF Sent
  <2> HIDE DEF m
  <2>3. CASE m.order # 0
    BY <2>1, <2>3 DEF ClientReceive, m
  <2>4. CASE m.order = 0 /\ m.kind = "login"
    BY <2>1, <2>4 DEF ClientReceive, m
  <2>5. CASE m.order = 0 /\ m.kind = "order"
    BY <2>1, <2>5 DEF ClientReceive, m
  <2>6. CASE m.order = 0 /\ m.kind = "error"
    BY <2>1, <2>6 DEF ClientReceive, m, End
  <2>7. QED
    BY <2>2, <2>3, <2>4, <2>5, <2>6
<1>2. s \in Socks /\ NetType /\ down \in [Socks -> Seq(Sent)] /\ client.session \in Nat /\ client.server_order \in Nat
  BY <1>1 DEF Inv, Types, NetType, ClientType
<1>3. /\ m = down[s][1] /\ 1 \in DOMAIN down[s] /\ m \in Sent
      /\ \A i \in DOMAIN Tail(down[s]) : i + 1 \in DOMAIN down[s] /\ Tail(down[s])[i] = down[s][i + 1]
  <2> HIDE DEF Sent
  <2> QED BY <1>1, <1>2, TailItems
<1>4. /\ r \in Requests /\ r.kind # "login" /\ r.session = client.session
      /\ p \in Requests /\ p.kind # "login" /\ p.session = client.session
  BY <1>2, <1>3 DEF Packet, Requests, Sent, Messages
<1>5. client'.session = client.session \/ InDown(client'.session)
  <2>1. m.kind = "login" => InDown(m.n)
    BY <1>2, <1>3 DEF InDown
  <2>2. client \in [sock : open \cup {0}, session : Nat, logged : BOOLEAN, client_order : Nat, server_order : Nat]
    BY DEF Inv, Types, ClientType
  <2> HIDE DEF m, s
  <2>3. CASE client' = client \/ client' = [client EXCEPT !.server_order = @ + 1]
    BY <2>2, <2>3
  <2>4. CASE client' = [client EXCEPT !.sock = 0, !.logged = FALSE]
    BY <2>2, <2>4
  <2>5. CASE m.kind = "login" /\ client' = [sock |-> s, session |-> m.n, logged |-> TRUE,
                                           client_order |-> 1, server_order |-> 1]
    BY <2>1, <2>5
  <2>6. QED
    BY <1>1, <2>3, <2>4, <2>5
<1> HIDE DEF m, r, p
<1>6. DownOld
  <2>1. down'[s] = Tail(down[s]) /\ \A q \in Socks : q # s => down'[q] = down[q]
    <3> HIDE DEF Sent
    <3> QED BY <1>1, <1>2
  <2> DEFINE rest == Tail(down[s])
  <2>2. down'[s] = rest /\ \A i \in DOMAIN rest : i + 1 \in DOMAIN down[s] /\ rest[i] = down[s][i + 1]
    BY <1>3, <2>1
  <2> HIDE DEF rest
  <2>3. \A i \in DOMAIN down'[s] : \E j \in DOMAIN down[s] : down'[s][i] = down[s][j]
    BY <2>2
  <2>4. QED
    BY <2>1, <2>3 DEF DownOld
<1>7. UpFrom(r) \/ UpFrom(p)
  <2>1. UpOld => UpFrom(r)
    BY DEF UpOld, UpFrom
  <2>2. up' = up => UpOld
    BY DEF UpOld
  <2>3. ASSUME NEW i \in 0..Len(up[s]), up' = [up EXCEPT ![s] = SubSeq(@, 1, i)]
        PROVE  UpOld
    BY <1>2, <2>3, UpLost
  <2>4. QED
    BY <1>1, <1>2, <1>4, <2>1, <2>2, <2>3, UpSent
<1>8. UpFewer
  BY <1>4, <1>7 DEF UpFewer, UpFrom
<1>9. QED
  BY <1>1, <1>4, <1>5, <1>6, <1>7, <1>8, ClientEnds

LEMMA BreakEnds ==
  ASSUME Inv, EInv, client.sock # 0, NEW n \in 0..Len(up[client.sock]), Break(n)
  PROVE  EInv'
<1> DEFINE s == client.sock
           p == Packet("req", client.session, 0)
<1>1. /\ open' = open \ {s} /\ closing' = closing \cup {s} /\ client' = [client EXCEPT !.sock = 0]
      /\ up' = [up EXCEPT ![s] = SubSeq(@, 1, n)] /\ down' = [down EXCEPT ![s] = <<>>]
      /\ UNCHANGED gateway /\ UNCHANGED <<last_sock, session, logins, from_game>>
  BY DEF Break, End, game
<1>2. s \in Socks /\ NetType /\ client'.session = client.session
  BY <1>1 DEF Inv, Types, NetType, ClientType
<1>3. DownOld
  <2>1. \A q \in Socks : down'[q] = IF q = s THEN <<>> ELSE down[q]
    <3>1. down \in [Socks -> Seq(Sent)]
      BY <1>2 DEF NetType
    <3> HIDE DEF Sent
    <3>2. QED
      BY <1>1, <3>1
  <2>2. QED
    BY <2>1 DEF DownOld
<1>4. p.session = client.session
  BY DEF Packet
<1> HIDE DEF p
<1>5. UpFrom(p) /\ UpFewer
  <2>1. UpOld
    BY <1>1, <1>2, UpLost
  <2>2. QED
    BY <2>1 DEF UpOld, UpFrom, UpFewer
<1>6. QED
  BY <1>1, <1>2, <1>3, <1>4, <1>5, ClientEnds

-----------------------------------------------------------------------------
(* Ends are seen.                                                          *)

LEMMA InitE == Init => EInv
<1> SUFFICES ASSUME Init PROVE EInv
  OBVIOUS
<1>1. /\ data.sock = 0 /\ sock_map = {} /\ posted = <<>> /\ last_sock = 0 /\ session = 0 /\ logins = <<>>
      /\ from_game = <<>> /\ client.session = 0 /\ DOMAIN data.server_buff = {} /\ DOMAIN data.client_buff = {}
      /\ \A s \in Socks : up[s] = <<>> /\ down[s] = <<>>
  BY DEF Init, EmptyData, Empty
<1>2. Placed
  BY <1>1 DEF Placed, Socks
<1>3. ~ToAnswer
  BY <1>1 DEF ToAnswer, NotTaken, NotSent
<1>4. \A n : Heard(n) => n = 0
  BY <1>1 DEF Heard, InUp, InDown, InPosted, InBuff
<1>5. Unheard
  BY <1>1, <1>3, <1>4 DEF Unheard
<1>6. QED
  BY <1>1, <1>2, <1>5 DEF EInv, Clean, Strays, Quiet, Dead

LEMMA StutterE ==
  ASSUME EInv, UNCHANGED vars
  PROVE  EInv'
<1>1. UNCHANGED <<exists, data, sock_map, cool, posted, taken, stray, last_sock, open, closing, up, down,
                  session, logins, from_game, client>>
  BY DEF vars, gateway, net, game
<1>2. HeardFewer
  BY <1>1 DEF HeardFewer, Heard, InUp, InDown, InPosted, InBuff
<1>3. Unheard' /\ Quiet'
  BY <1>1, <1>2, UnheardOn, QuietOn DEF EInv, ToAnswer, NotTaken, NotSent
<1>4. QED
  BY <1>1, <1>3 DEF EInv, Placed, Clean, Strays

\* What holds initially and is kept by every step holds always.
LEMMA EndsInvariant == Spec => []EInv
<1>1. EInv /\ AInv /\ Inv /\ [Next]_vars => EInv'
  <2> SUFFICES ASSUME EInv, AInv, Inv, [Next]_vars PROVE EInv'
    OBVIOUS
  <2>1. ASSUME NEW s \in Socks, Receive(s)
        PROVE  EInv'
    BY <2>1, ReceiveEnds
  <2>2. ASSUME NEW s \in Socks, Close(s)
        PROVE  EInv'
    BY <2>2, CloseEnds
  <2>3. CASE Repeat
    BY <2>3, RepeatEnds
  <2>4. CASE FromGame
    BY <2>4, FromGameEnds
  <2>5. CASE GameLogin
    BY <2>5, GameLoginEnds
  <2>6. CASE GameSay \/ GameFault("kick") \/ GameFault("unusual")
    BY <2>6, SayFaultEnds
  <2>7. CASE Login
    BY <2>7, NewSessionEnds
  <2>8. CASE Send("req") \/ Send("ping")
    BY <2>8, SendEnds
  <2>9. CASE Reconnect
    BY <2>9, ReconnectEnds
  <2>10. CASE ClientReceive
    BY <2>10, ClientReceiveEnds
  <2>11. ASSUME client.sock # 0, NEW n \in 0..Len(up[client.sock]), Break(n)
         PROVE  EInv'
    BY <2>11, BreakEnds
  <2>12. CASE UNCHANGED vars
    BY <2>12, StutterE
  <2>13. QED
    BY <2>1, <2>2, <2>3, <2>4, <2>5, <2>6, <2>7, <2>8, <2>9, <2>10, <2>11, <2>12 DEF Next
<1>2. QED
  BY InitE, Invariant, AnswersInvariant, <1>1, PTL DEF Spec

\* A role that is bound to a connection is found when the connection's end is
\* handled: it stands or its end is to come, and it is noted.  The exception
\* is a login answered over a connection whose end was handled before: then
\* nothing has been taken since.  And whatever else is noted is stray, so that
\* the end of no other connection takes a live role offline.
THEOREM OfflineByItsEnd == Spec => []EndTakesOffline
<1>1. Inv /\ EInv => EndTakesOffline
  BY DEF Inv, Noted, EInv, Quiet, Dead, Strays, EndTakesOffline
<1>2. QED
  BY Invariant, EndsInvariant, <1>1, PTL
=============================================================================
