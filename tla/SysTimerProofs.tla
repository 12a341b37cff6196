--------------------------- MODULE SysTimerProofs ---------------------------
(***************************************************************************)
(* Proofs about SysTimer for any keys, periods, wheel and bounds.          *)
(***************************************************************************)
EXTENDS SysTimer, SequenceTheorems, FiniteSetTheorems, WellFoundedInduction, TLAPS

-----------------------------------------------------------------------------
(* Loops.                                                                  *)

\* A set of numbers that is not empty has a smallest element.
LEMMA Least ==
  ASSUME NEW S, S \subseteq Nat, S # {}
  PROVE  \E m \in S : \A k \in S : m <= k
<1>1. PICK m \in S : \A k \in S : ~ (<<k, m>> \in OpToRel(<, Nat))
  BY NatLessThanWellFounded, WFMin
<1>2. ASSUME NEW k \in S
      PROVE  m <= k
  <2>1. k \in Nat /\ m \in Nat
    OBVIOUS
  <2>2. <<k, m>> \notin {xy \in Nat \X Nat : xy[1] < xy[2]}
    BY <1>1 DEF OpToRel
  <2>3. QED
    BY <2>1, <2>2
<1>3. QED
  BY <1>2

\* A loop of n rounds, the i-th of which makes step[i, d] of d.
IsLoop(f, a, step, n) ==
  f = [i \in 0..n |-> IF i = 0 THEN a ELSE step[<<i, f[i - 1]>>]]

LEMMA LoopExists ==
  ASSUME NEW a, NEW step, NEW n \in Nat
  PROVE  \E f : IsLoop(f, a, step, n)
<1> DEFINE S == {m \in Nat : ~ \E f : IsLoop(f, a, step, m)}
<1> SUFFICES ASSUME n \in S PROVE FALSE
  OBVIOUS
<1>1. PICK m \in S : \A k \in S : m <= k
  <2>1. S \in SUBSET Nat /\ S # {}
    OBVIOUS
  <2> HIDE DEF S
  <2>2. QED
    BY <2>1, Least
<1>2. CASE m = 0
  <2> DEFINE f == [i \in 0..0 |-> a]
  <2>1. f = [i \in 0..0 |-> IF i = 0 THEN a ELSE step[<<i, f[i - 1]>>]]
    OBVIOUS
  <2>2. IsLoop(f, a, step, m)
    BY <1>2, <2>1 DEF IsLoop
  <2>3. QED
    BY <2>2
<1>3. CASE m # 0
  <2>1. m - 1 \in Nat /\ m - 1 \notin S
    BY <1>1, <1>3
  <2>2. PICK r : IsLoop(r, a, step, m - 1)
    BY <2>1
  <2>3. \A i \in 0..(m - 1) : r[i] = IF i = 0 THEN a ELSE step[<<i, r[i - 1]>>]
    BY <2>2, Zenon DEF IsLoop
  <2> DEFINE f == [i \in 0..m |-> IF i = m THEN step[<<m, r[m - 1]>>] ELSE r[i]]
  <2>4. ASSUME NEW i \in 0..m
        PROVE  f[i] = IF i = 0 THEN a ELSE step[<<i, f[i - 1]>>]
    <3>1. CASE i = m
      <4>1. m \in 0..m /\ m - 1 \in 0..m /\ m - 1 # m
        BY <2>1
      <4>2. f[m] = step[<<m, r[m - 1]>>] /\ f[m - 1] = r[m - 1]
        BY <4>1
      <4>3. QED
        BY <1>3, <3>1, <4>2
    <3>2. CASE i # m
      <4>1. i \in 0..(m - 1) /\ (i # 0 => i - 1 \in 0..m /\ i - 1 # m)
        BY <3>2
      <4>2. f[i] = r[i] /\ (i # 0 => f[i - 1] = r[i - 1])
        BY <3>2, <4>1
      <4>3. QED
        BY <2>3, <4>1, <4>2
    <3>3. QED
      BY <3>1, <3>2
  <2>5. f = [i \in 0..m |-> f[i]]
    OBVIOUS
  <2> HIDE DEF f
  <2>6. [i \in 0..m |-> f[i]] = [i \in 0..m |-> IF i = 0 THEN a ELSE step[<<i, f[i - 1]>>]]
    BY <2>4
  <2>7. IsLoop(f, a, step, m)
    BY <2>5, <2>6 DEF IsLoop
  <2>8. QED
    BY <2>7
<1>4. QED
  BY <1>2, <1>3

\* What the start has and every round keeps, all rounds have.
LEMMA LoopKeeps ==
  ASSUME NEW D, NEW n \in Nat, NEW f, f[0] \in D, \A i \in 1..n : f[i - 1] \in D => f[i] \in D
  PROVE  \A m \in 0..n : f[m] \in D
<1> DEFINE S == {m \in 0..n : f[m] \notin D}
<1> SUFFICES ASSUME S # {} PROVE FALSE
  OBVIOUS
<1>1. PICK m \in S : \A k \in S : m <= k
  <2>1. S \in SUBSET Nat
    OBVIOUS
  <2> HIDE DEF S
  <2>2. QED
    BY <2>1, Least
<1>2. m \in 0..n /\ f[m] \notin D
  OBVIOUS
<1>3. m # 0
  BY <1>2
<1>4. m - 1 \in 0..n /\ m - 1 \notin S /\ m \in 1..n
  BY <1>1, <1>2, <1>3
<1>5. QED
  BY <1>2, <1>4

\* A loop whose rounds stay in D.
IsLoopIn(f, a, step, n, D) ==
  /\ f = [i \in 0..n |-> f[i]] /\ f[0] = a
  /\ \A i \in 1..n : f[i - 1] \in D /\ f[i] = step[<<i, f[i - 1]>>]

LEMMA LoopIn ==
  ASSUME NEW D, NEW a \in D, NEW n \in Nat, NEW step,
         \A i \in 1..n : \A d \in D : step[<<i, d>>] \in D
  PROVE  \E f : IsLoopIn(f, a, step, n, D)
<1>1. PICK f : IsLoop(f, a, step, n)
  BY LoopExists
<1>2. \A i \in 0..n : f[i] = IF i = 0 THEN a ELSE step[<<i, f[i - 1]>>]
  BY <1>1, Zenon DEF IsLoop
<1>3. f = [i \in 0..n |-> f[i]]
  BY <1>1, Zenon DEF IsLoop
<1>4. 0 \in 0..n /\ (\A i \in 1..n : i \in 0..n /\ i # 0 /\ i - 1 \in 0..n)
  OBVIOUS
<1>5. f[0] = a /\ \A i \in 1..n : f[i] = step[<<i, f[i - 1]>>]
  BY <1>2, <1>4
<1>6. f[0] \in D /\ \A i \in 1..n : f[i - 1] \in D => f[i] \in D
  BY <1>5
<1>7. \A m \in 0..n : f[m] \in D
  BY <1>6, LoopKeeps
<1>8. \A i \in 1..n : f[i - 1] \in D
  BY <1>4, <1>7
<1>9. QED
  BY <1>3, <1>5, <1>8, Zenon DEF IsLoopIn

-----------------------------------------------------------------------------
(* The inductive invariant.                                                *)

Timers(byId) == byId \in [DOMAIN byId -> CLoopData]

\* Of the timers of a key without '#' all but one are marked as removed.
OneAlive(byId) ==
  \A i, j \in DOMAIN byId :
    /\ byId[i].key = byId[j].key /\ byId[i].key \notin HashKeys
    /\ ~byId[i].Delete /\ ~byId[j].Delete
    => i = j

Inv ==
  /\ now \in Nat /\ LoopId \in Nat /\ running \in Nat
  /\ DOMAIN LoopById \subseteq 1..LoopId
  /\ running # 0 => running \in DOMAIN LoopById  \* a callback only marks
  /\ Timers(LoopById) /\ OneAlive(LoopById)

-----------------------------------------------------------------------------
(* What is done to the timers.                                             *)

\* Marking some timers leaves no more of them alive.
LEMMA MarkedKeeps ==
  ASSUME NEW byId, Timers(byId), OneAlive(byId), NEW ids
  PROVE  /\ Timers(Marked(byId, ids)) /\ OneAlive(Marked(byId, ids))
         /\ DOMAIN Marked(byId, ids) = DOMAIN byId
         /\ \A i \in DOMAIN byId : /\ Marked(byId, ids)[i].key = byId[i].key
                                   /\ i \in ids => Marked(byId, ids)[i].Delete
<1> DEFINE m == Marked(byId, ids)
<1>1. DOMAIN m = DOMAIN byId
  BY DEF Marked
<1>2. ASSUME NEW i \in DOMAIN byId
      PROVE  /\ m[i] \in CLoopData /\ m[i].key = byId[i].key
             /\ m[i].Delete = (i \in ids \/ byId[i].Delete)
  <2>1. byId[i] \in CLoopData
    BY DEF Timers
  <2>2. m[i] = IF i \in ids THEN [byId[i] EXCEPT !.Delete = TRUE] ELSE byId[i]
    BY DEF Marked
  <2>3. CASE i \in ids
    <3>1. m[i] = [byId[i] EXCEPT !.Delete = TRUE]
      BY <2>2, <2>3
    <3>2. QED
      BY <2>1, <2>3, <3>1 DEF CLoopData
  <2>4. CASE i \notin ids
    <3>1. m[i] = byId[i]
      BY <2>2, <2>4
    <3>2. QED
      BY <2>1, <2>4, <3>1 DEF CLoopData
  <2>5. QED
    BY <2>3, <2>4
<1>3. m = [i \in DOMAIN m |-> m[i]]
  BY DEF Marked
<1> HIDE DEF m
<1>4. Timers(m)
  BY <1>1, <1>2, <1>3 DEF Timers
<1>5. OneAlive(m)
  BY <1>1, <1>2 DEF OneAlive
<1>6. QED
  BY <1>1, <1>2, <1>4, <1>5 DEF m

\* Freeing some timers, too.
LEMMA DelKeeps ==
  ASSUME NEW byId, Timers(byId), OneAlive(byId), NEW ids
  PROVE  /\ Timers(DelLoop(byId, ids)) /\ OneAlive(DelLoop(byId, ids))
         /\ DOMAIN DelLoop(byId, ids) \subseteq DOMAIN byId
BY DEF DelLoop, Restrict, Timers, OneAlive

\* A change of a timer that keeps its key and its mark.
LEMMA ChangeKeeps ==
  ASSUME NEW byId, Timers(byId), OneAlive(byId), NEW id \in DOMAIN byId,
         NEW d \in CLoopData, d.key = byId[id].key, d.Delete = byId[id].Delete
  PROVE  LET c == [byId EXCEPT ![id] = d]
         IN Timers(c) /\ OneAlive(c) /\ DOMAIN c = DOMAIN byId
BY DEF Timers, OneAlive

\* A timer that is registered once room was made is the only one of its name.
LEMMA WithKeeps ==
  ASSUME Inv, NEW key \in Keys, NEW d \in CLoopData, d.key = key, LoopId' = LoopId + 1
  PROVE  LET c == With(MakeRoom(key), LoopId', d)
         IN /\ Timers(c) /\ OneAlive(c) /\ DOMAIN c \subseteq 1..LoopId'
            /\ DOMAIN LoopById \subseteq DOMAIN c
<1> DEFINE room == MakeRoom(key)
           c == With(room, LoopId', d)
           gone == IF key \in HashKeys THEN {} ELSE LoopKeyList(key)
<1>1. Timers(LoopById) /\ OneAlive(LoopById) /\ DOMAIN LoopById \subseteq 1..LoopId /\ LoopId \in Nat
  BY DEF Inv
<1>2. room = Marked(LoopById, gone)
  BY DEF MakeRoom
<1> HIDE DEF gone, room
<1>3. /\ Timers(room) /\ OneAlive(room) /\ DOMAIN room = DOMAIN LoopById
      /\ \A i \in DOMAIN LoopById : room[i].key = LoopById[i].key /\ (i \in gone => room[i].Delete)
  BY <1>1, <1>2, MarkedKeeps
<1>4. LoopId' \notin DOMAIN room /\ DOMAIN room \subseteq 1..LoopId' /\ LoopId' \in 1..LoopId'
  BY <1>1, <1>3
<1>5. /\ DOMAIN c = DOMAIN room \cup {LoopId'} /\ c[LoopId'] = d
      /\ \A i \in DOMAIN room : c[i] = room[i]
      /\ c = [i \in DOMAIN c |-> c[i]]
  BY <1>4 DEF With
<1> HIDE DEF c
<1>6. Timers(c)
  BY <1>3, <1>5 DEF Timers
<1>7. ASSUME NEW i \in DOMAIN room, room[i].key = key, key \notin HashKeys
      PROVE  room[i].Delete
  <2>1. i \in gone
    BY <1>3, <1>7 DEF gone, LoopKeyList
  <2>2. QED
    BY <1>3, <2>1
<1>8. OneAlive(c)
  BY <1>3, <1>5, <1>7 DEF OneAlive
<1>9. DOMAIN c \subseteq 1..LoopId' /\ DOMAIN LoopById \subseteq DOMAIN c
  BY <1>3, <1>4, <1>5
<1>10. QED
  BY <1>6, <1>8, <1>9 DEF c, room

-----------------------------------------------------------------------------
(* The steps.                                                              *)

\* The turns a timer takes when it is added late.
LEMMA CatchUpType ==
  ASSUME NEW d \in CLoopData, now \in Nat, d.Delay # 0
  PROVE  CatchUp(d) \in CLoopData /\ CatchUp(d).key = d.key
<1> DEFINE turns == ((now - d.Time) + Second * d.Delay - 1) \div (Second * d.Delay)
           time == d.Time + turns * Second * d.Delay
           count == d.LoopCount + turns
<1>1. d.Time \in Nat /\ d.Delay \in Nat /\ d.LoopCount \in Nat /\ Second \in Nat /\ Second # 0
  BY TimerAssumption DEF CLoopData
<1>2. CASE d.Time >= now
  BY <1>2 DEF CatchUp
<1>3. CASE ~(d.Time >= now)
  <2> DEFINE period == Second * d.Delay
  <2>1. period \in Nat /\ period > 0
    BY <1>1
  <2>2. now - d.Time \in Nat /\ now - d.Time + period - 1 \in Nat
    <3> HIDE DEF period
    <3> QED BY <1>1, <1>3, <2>1
  <2>3. turns \in Nat
    <3>1. turns = (now - d.Time + period - 1) \div period
      OBVIOUS
    <3> HIDE DEF period, turns
    <3>2. QED
      BY <2>1, <2>2, <3>1
  <2>4. turns * Second \in Nat /\ turns * Second * d.Delay \in Nat
    <3> HIDE DEF turns
    <3>1. turns * Second \in Nat
      BY <1>1, <2>3
    <3>2. QED
      BY <1>1, <3>1
  <2>5. time \in Nat /\ count \in Nat
    BY <1>1, <2>3, <2>4
  <2>6. CatchUp(d) = [d EXCEPT !.Time = time, !.LoopCount = count]
    BY <1>3 DEF CatchUp
  <2> HIDE DEF time, count, turns
  <2>7. QED
    BY <2>5, <2>6 DEF CLoopData
<1>4. QED
  BY <1>2, <1>3

\* The next turn of a timer.
LEMMA NextTimeType ==
  ASSUME NEW d \in CLoopData
  PROVE  /\ UpdateLoopNextTime(d) \in CLoopData /\ UpdateLoopNextTime(d).key = d.key
         /\ UpdateLoopNextTime(d).Delete = d.Delete
<1> DEFINE time == d.Time + Second * d.Delay
<1>1. d.Time \in Nat /\ Second \in Nat /\ d.Delay \in Nat
  BY TimerAssumption DEF CLoopData
<1>2. Second * d.Delay \in Nat
  BY <1>1
<1>3. time \in Nat
  BY <1>1, <1>2
<1>4. UpdateLoopNextTime(d) = [d EXCEPT !.Time = time]
  BY DEF UpdateLoopNextTime
<1> HIDE DEF time
<1>5. QED
  BY <1>3, <1>4 DEF CLoopData

\* Registration makes room first, whether or not the timer then has turns left.
LEMMA AddLoopKeeps ==
  ASSUME Inv, NEW key \in Keys, NEW timeset \in Nat, NEW end \in Nat, NEW delay \in Nat, NEW max \in Nat,
         AddLoop(key, timeset, end, delay, max)
  PROVE  Inv'
<1> DEFINE d0 == [key |-> key, LoopMax |-> max, LoopCount |-> 0, Time |-> timeset,
                  EndTime |-> end, Delay |-> delay, Delete |-> FALSE]
           d == CatchUp(d0)
<1>1. /\ LoopId' = LoopId + 1 /\ now' = now /\ running' = running /\ delay # 0
      /\ \/ LoopById' = MakeRoom(key)
         \/ LoopById' = With(MakeRoom(key), LoopId', d)
  BY DEF AddLoop, Alloc
<1>2. d0 \in CLoopData /\ d0.Delay # 0 /\ d0.key = key
  BY <1>1 DEF CLoopData
<1>3. now \in Nat /\ LoopId \in Nat /\ running \in Nat /\ (running # 0 => running \in DOMAIN LoopById)
  BY DEF Inv
<1> HIDE DEF d0
<1>4. d \in CLoopData /\ d.key = key
  BY <1>2, <1>3, CatchUpType
<1> HIDE DEF d
<1>5. /\ Timers(LoopById') /\ OneAlive(LoopById') /\ DOMAIN LoopById' \subseteq 1..LoopId'
      /\ DOMAIN LoopById \subseteq DOMAIN LoopById'
  <2>1. CASE LoopById' = MakeRoom(key)
    <3>1. Timers(LoopById) /\ OneAlive(LoopById) /\ DOMAIN LoopById \subseteq 1..LoopId
      BY DEF Inv
    <3>2. /\ Timers(MakeRoom(key)) /\ OneAlive(MakeRoom(key))
          /\ DOMAIN MakeRoom(key) = DOMAIN LoopById
      BY <3>1, MarkedKeeps DEF MakeRoom
    <3>3. QED
      BY <1>1, <1>3, <2>1, <3>1, <3>2
  <2>2. CASE LoopById' = With(MakeRoom(key), LoopId', d)
    BY <1>1, <1>4, <2>2, WithKeeps
  <2>3. QED
    BY <1>1, <2>1, <2>2
<1>6. QED
  BY <1>1, <1>3, <1>5 DEF Inv, Timers, OneAlive

LEMMA AddCallKeeps ==
  ASSUME Inv, NEW key \in Keys, NEW seconds \in Nat, AddCall(key, seconds)
  PROVE  Inv'
<1> DEFINE d0 == [key |-> key, LoopMax |-> 1, LoopCount |-> 0, Time |-> now, EndTime |-> 0,
                  Delay |-> seconds, Delete |-> FALSE]
           d == UpdateLoopNextTime(d0)
<1>1. /\ LoopId' = LoopId + 1 /\ now' = now /\ running' = running
      /\ LoopById' = With(MakeRoom(key), LoopId', d)
  BY DEF AddCall, Alloc
<1>2. now \in Nat /\ LoopId \in Nat /\ running \in Nat /\ (running # 0 => running \in DOMAIN LoopById)
  BY DEF Inv
<1>3. d0 \in CLoopData /\ d0.key = key
  BY <1>2 DEF CLoopData
<1> HIDE DEF d0
<1>4. d \in CLoopData /\ d.key = key
  BY <1>3, NextTimeType
<1> HIDE DEF d
<1>5. /\ Timers(LoopById') /\ OneAlive(LoopById') /\ DOMAIN LoopById' \subseteq 1..LoopId'
      /\ DOMAIN LoopById \subseteq DOMAIN LoopById'
  BY <1>1, <1>4, WithKeeps
<1>6. QED
  BY <1>1, <1>2, <1>5 DEF Inv, Timers, OneAlive

\* Calls that remove, and the clock.
LEMMA RemoveKeeps ==
  ASSUME Inv, NEW ids, LoopById' = Marked(LoopById, ids) \/ LoopById' = DelLoop(LoopById, ids) \/ LoopById' = LoopById,
         LoopId' = LoopId, now' \in Nat, running' = 0 \/ (running' = running /\ DOMAIN LoopById' = DOMAIN LoopById)
  PROVE  Inv'
<1>1. /\ Timers(LoopById) /\ OneAlive(LoopById) /\ DOMAIN LoopById \subseteq 1..LoopId /\ LoopId \in Nat
      /\ running \in Nat /\ (running # 0 => running \in DOMAIN LoopById)
  BY DEF Inv
<1>2. Timers(LoopById') /\ OneAlive(LoopById') /\ DOMAIN LoopById' \subseteq DOMAIN LoopById
  <2>1. CASE LoopById' = Marked(LoopById, ids)
    BY <1>1, <2>1, MarkedKeeps
  <2>2. CASE LoopById' = DelLoop(LoopById, ids)
    BY <1>1, <2>2, DelKeeps
  <2>3. CASE LoopById' = LoopById
    BY <1>1, <2>3
  <2>4. QED
    BY <2>1, <2>2, <2>3
<1>3. QED
  BY <1>1, <1>2 DEF Inv, Timers, OneAlive

\* A callback starts: a turn is counted.
LEMMA OnTimeKeeps ==
  ASSUME Inv, OnTime
  PROVE  Inv'
<1> DEFINE id == Head(loopList)
           count == LoopById[id].LoopCount + 1
           d == [LoopById[id] EXCEPT !.LoopCount = count]
<1>1. Timers(LoopById) /\ OneAlive(LoopById) /\ DOMAIN LoopById \subseteq 1..LoopId /\ LoopId \in Nat
  BY DEF Inv
<1>2. now' = now /\ LoopId' = LoopId /\ now \in Nat /\ running \in Nat
  BY DEF OnTime, Inv
<1>3. CASE id \in DOMAIN LoopById
  <2>1. running' = id /\ LoopById' = [LoopById EXCEPT ![id] = d]
    BY <1>3 DEF OnTime
  <2>2. LoopById[id] \in CLoopData
    BY <1>1, <1>3 DEF Timers
  <2>3. count \in Nat
    BY <2>2 DEF CLoopData
  <2> HIDE DEF count, id
  <2>4. d \in CLoopData /\ d.key = LoopById[id].key /\ d.Delete = LoopById[id].Delete
    BY <2>2, <2>3 DEF CLoopData
  <2> HIDE DEF d
  <2>5. Timers(LoopById') /\ OneAlive(LoopById') /\ DOMAIN LoopById' = DOMAIN LoopById
    BY <1>1, <1>3, <2>1, <2>4, ChangeKeeps
  <2>6. running' \in Nat /\ running' \in DOMAIN LoopById'
    BY <1>1, <1>3, <2>1, <2>5
  <2>7. QED
    BY <1>1, <1>2, <2>5, <2>6 DEF Inv, Timers, OneAlive
<1>4. CASE id \notin DOMAIN LoopById
  <2>1. running' = running /\ LoopById' = LoopById
    BY <1>4 DEF OnTime
  <2>2. QED
    BY <1>2, <2>1, RemoveKeeps
<1>5. QED
  BY <1>3, <1>4

\* A callback returns: the timer is freed, or its next time is set.
LEMMA ReturnKeeps ==
  ASSUME Inv, Return
  PROVE  Inv'
<1>1. Timers(LoopById) /\ OneAlive(LoopById) /\ DOMAIN LoopById \subseteq 1..LoopId /\ LoopId \in Nat
  BY DEF Inv
<1>2. now' = now /\ LoopId' = LoopId /\ now \in Nat /\ running' = 0 /\ running \in DOMAIN LoopById
  BY DEF Return, Inv
<1>3. CASE LoopById[running].Delete
  <2>1. LoopById' = LoopById
    BY <1>3 DEF Return
  <2>2. QED
    BY <1>2, <2>1, RemoveKeeps
<1>4. CASE ~LoopById[running].Delete /\ Finished(LoopById[running])
  <2>1. LoopById' = DelLoop(LoopById, {running})
    BY <1>4 DEF Return
  <2>2. QED
    BY <1>2, <2>1, RemoveKeeps
<1>5. CASE ~LoopById[running].Delete /\ ~Finished(LoopById[running])
  <2> DEFINE d == UpdateLoopNextTime(LoopById[running])
  <2>1. LoopById' = [LoopById EXCEPT ![running] = d]
    BY <1>5 DEF Return, Again
  <2>2. LoopById[running] \in CLoopData
    BY <1>1, <1>2 DEF Timers
  <2>3. d \in CLoopData /\ d.key = LoopById[running].key /\ d.Delete = LoopById[running].Delete
    BY <2>2, NextTimeType
  <2> HIDE DEF d
  <2>4. Timers(LoopById') /\ OneAlive(LoopById') /\ DOMAIN LoopById' = DOMAIN LoopById
    BY <1>1, <1>2, <2>1, <2>3, ChangeKeeps
  <2>5. QED
    BY <1>1, <1>2, <2>4 DEF Inv, Timers, OneAlive
<1>6. QED
  BY <1>3, <1>4, <1>5

\* Process frees what is due and removed while no callback runs.
LEMMA ProcessKeeps ==
  ASSUME Inv, Process
  PROVE  Inv'
<1>1. now' = now /\ LoopId' = LoopId /\ running' = 0 /\ now \in Nat
  BY DEF Process, Inv
<1>2. PICK ids : LoopById' = DelLoop(LoopById, ids)
  BY DEF Process
<1>3. QED
  BY <1>1, <1>2, RemoveKeeps

\* The times and numbers AddLoop is given.
LEMMA LoopArguments ==
  ASSUME now \in Nat, NEW start \in {s * Second : s \in Starts} \cup {now - (now % Second)},
         NEW end \in {s * Second : s \in EndTimes}, NEW max \in Loops, NEW delay \in Delays
  PROVE  start \in Nat /\ end \in Nat /\ max \in Nat /\ delay \in Nat
<1>1. Second \in Nat \ {0} /\ Starts \subseteq Nat /\ EndTimes \subseteq Nat /\ max \in Nat /\ delay \in Nat
  BY TimerAssumption
<1>2. start \in Nat
  <2>1. CASE start = now - (now % Second)
    <3>1. now % Second \in Nat /\ now % Second <= now
      BY <1>1
    <3>2. QED
      BY <2>1, <3>1
  <2>2. CASE start \in {s * Second : s \in Starts}
    BY <1>1, <2>2
  <2>3. QED
    BY <2>1, <2>2
<1>3. end \in Nat
  BY <1>1
<1>4. QED
  BY <1>1, <1>2, <1>3

\* The invariant is inductive.
LEMMA Invariant == Spec => []Inv
<1>1. Init => Inv
  BY DEF Init, Inv, Timers, OneAlive
<1>2. Inv /\ [Next]_vars => Inv'
  <2> SUFFICES ASSUME Inv, [Next]_vars PROVE Inv'
    OBVIOUS
  <2>1. now \in Nat /\ running \in Nat
    BY DEF Inv
  <2>2. ASSUME NEW key \in Keys, NEW delay \in Delays, AddCall(key, delay)
        PROVE  Inv'
    BY <2>2, AddCallKeeps, TimerAssumption
  <2>3. ASSUME NEW key \in Keys, NEW delay \in Delays,
               NEW start \in {s * Second : s \in Starts} \cup {now - (now % Second)},
               NEW end \in {s * Second : s \in EndTimes}, NEW max \in Loops,
               AddLoop(key, start, end, delay, max)
        PROVE  Inv'
    <3>1. start \in Nat /\ end \in Nat /\ delay \in Nat /\ max \in Nat
      BY <2>1, LoopArguments
    <3>2. QED
      BY <2>3, <3>1, AddLoopKeeps
  <2>4. ASSUME NEW id \in Ids, RemoveLoop(id)
        PROVE  Inv'
    <3>1. /\ LoopById' = Marked(LoopById, {id}) /\ LoopId' = LoopId /\ now' = now /\ running' = running
          /\ DOMAIN LoopById' = DOMAIN LoopById
      BY <2>4 DEF RemoveLoop, Marked
    <3>2. QED
      BY <2>1, <3>1, RemoveKeeps
  <2>5. ASSUME NEW key \in Keys, RemoveKey(key)
        PROVE  Inv'
    <3>1. LoopById' = Marked(LoopById, LoopKeyList(key)) /\ LoopId' = LoopId /\ now' = now /\ running' = running
      BY <2>5 DEF RemoveKey
    <3>2. DOMAIN LoopById' = DOMAIN LoopById
      BY <3>1 DEF Marked
    <3>3. QED
      BY <2>1, <3>1, <3>2, RemoveKeeps
  <2>6. CASE Process
    BY <2>6, ProcessKeeps
  <2>7. CASE OnTime
    BY <2>7, OnTimeKeeps
  <2>8. CASE Return
    BY <2>8, ReturnKeeps
  <2>9. CASE Tick
    <3>1. LoopById' = LoopById /\ LoopId' = LoopId /\ now' \in Nat /\ running' = running
      BY <2>1, <2>9 DEF Tick
    <3>2. QED
      BY <3>1, RemoveKeeps
  <2>10. CASE UNCHANGED vars
    <3>1. LoopById' = LoopById /\ LoopId' = LoopId /\ now' \in Nat /\ running' = running
      BY <2>1, <2>10 DEF vars
    <3>2. QED
      BY <3>1, RemoveKeeps
  <2>11. QED
    BY <2>2, <2>3, <2>4, <2>5, <2>6, <2>7, <2>8, <2>9, <2>10 DEF Next
<1>3. QED
  BY <1>1, <1>2, PTL DEF Spec

\* A name without '#' stands for one timer at a time, also when its callback
\* registers it again.
THEOREM OneTimerPerKey == Spec => []OnePerKey
<1>1. Inv => OnePerKey
  <2> SUFFICES ASSUME Inv, NEW key \in Keys \ HashKeys
               PROVE  Cardinality({id \in LoopKeyList(key) : ~LoopById[id].Delete}) <= 1
    BY DEF OnePerKey
  <2> DEFINE alive == {id \in LoopKeyList(key) : ~LoopById[id].Delete}
  <2>1. \A i, j \in alive : i = j
    BY DEF Inv, OneAlive, LoopKeyList
  <2> HIDE DEF alive
  <2>2. CASE alive = {}
    <3>1. Cardinality(alive) = 0
      BY <2>2, FS_EmptySet
    <3>2. QED
      BY <3>1 DEF alive
  <2>3. CASE alive # {}
    <3>1. PICK i : alive = {i}
      BY <2>1, <2>3
    <3>2. Cardinality(alive) = 1
      BY <3>1, FS_Singleton
    <3>3. QED
      BY <3>2 DEF alive
  <2>4. QED
    BY <2>2, <2>3
<1>2. QED
  BY Invariant, <1>1, PTL

-----------------------------------------------------------------------------
(* Sequences.                                                              *)

\* A set of places that has all before each of its own is the first ones.
LEMMA FirstOnes ==
  ASSUME NEW n \in Nat, NEW J \in SUBSET (1..n), \A i \in J, k \in 1..n : k < i => k \in J
  PROVE  Cardinality(J) \in 0..n /\ J = 1..Cardinality(J)
<1>1. IsFiniteSet(J) /\ J \subseteq Nat
  <2>1. IsFiniteSet(1..n)
    BY FS_Interval
  <2>2. IsFiniteSet(J)
    BY <2>1, FS_Subset
  <2>3. QED
    BY <2>2
<1>2. CASE J = {}
  BY <1>2, FS_EmptySet
<1>3. CASE J # {}
  <2> DEFINE rest == (1..(n + 1)) \ J
  <2>1. rest \subseteq Nat /\ n + 1 \in rest
    OBVIOUS
  <2>2. PICK f \in rest : \A k \in rest : f <= k
    <3> HIDE DEF rest
    <3>1. QED
      BY <2>1, Least
  <2>3. f \in 1..(n + 1) /\ f \notin J
    OBVIOUS
  <2>4. J = 1..(f - 1)
    <3>1. \A k \in 1..(f - 1) : k \in J
      <4>1. \A k \in 1..(f - 1) : k \in 1..(n + 1) /\ ~ f <= k
        BY <2>3
      <4>2. QED
        BY <2>2, <4>1
    <3>2. \A k \in J : k \in 1..(f - 1)
      <4>1. \A k \in J : k # f /\ ~ f < k
        BY <2>3
      <4>2. QED
        BY <2>3, <4>1
    <3>3. QED
      BY <3>1, <3>2
  <2>5. f - 1 \in 0..n /\ Cardinality(1..(f - 1)) = f - 1
    <3>1. f - 1 \in Nat
      BY <2>3
    <3>2. Cardinality(1..(f - 1)) = f - 1
      BY <3>1, FS_Interval
    <3>3. QED
      BY <2>3, <3>1, <3>2
  <2>6. QED
    BY <2>4, <2>5
<1>4. QED
  BY <1>2, <1>3

LEMMA InToSet ==
  ASSUME NEW s, NEW x
  PROVE  x \in ToSet(s) <=> \E k \in DOMAIN s : s[k] = x
BY DEF ToSet

\* id behind the first n.
PutBehind(list, n, id) == InsertAt(list, 1 + n, id)

LEMMA Inserted ==
  ASSUME NEW S, NEW list \in Seq(S), NEW id \in S, NEW n \in 0..Len(list),
         NEW r, r = PutBehind(list, n, id)
  PROVE  /\ r \in Seq(S) /\ Len(r) = Len(list) + 1
         /\ \A k \in 1..n : r[k] = list[k]
         /\ r[n + 1] = id
         /\ \A k \in n + 2 .. Len(list) + 1 : r[k] = list[k - 1]
<1> DEFINE a == SubSeq(list, 1, n)
           b == SubSeq(list, n + 1, Len(list))
<1>1. Len(list) \in Nat /\ n \in Nat /\ n <= Len(list)
  OBVIOUS
<1>2. a \in Seq(S) /\ Len(a) = n /\ \A k \in 1..n : a[k] = list[k]
  BY <1>1
<1>3. b \in Seq(S) /\ Len(b) = Len(list) - n /\ \A k \in 1..(Len(list) - n) : b[k] = list[n + k]
  BY <1>1
<1>4. r = (a \o <<id>>) \o b
  <2>1. (1 + n) - 1 = n /\ 1 + n = n + 1
    BY <1>1
  <2>2. QED
    BY <2>1 DEF InsertAt, PutBehind
<1> HIDE DEF a, b
<1> DEFINE c == a \o <<id>>
<1>c. c \in Seq(S) /\ Len(c) = n + 1 /\ c[n + 1] = id /\ \A k \in 1..n : c[k] = list[k]
  BY <1>1, <1>2
<1>d. r = c \o b
  BY <1>4
<1> HIDE DEF c
<1>5. r \in Seq(S) /\ Len(r) = Len(list) + 1
  <2>1. r \in Seq(S) /\ Len(r) = Len(c) + Len(b)
    <3>1. c \in Seq(S) /\ b \in Seq(S)
      BY <1>3, <1>c
    <3>2. QED
      BY <1>d, <3>1, ConcatProperties
  <2>2. QED
    BY <1>1, <1>3, <1>c, <2>1
<1>6. \A k \in 1..n : r[k] = list[k]
  BY <1>1, <1>3, <1>c, <1>d
<1>7. r[n + 1] = id
  BY <1>1, <1>3, <1>c, <1>d
<1>8. ASSUME NEW k \in n + 2 .. Len(list) + 1
      PROVE  r[k] = list[k - 1]
  <2>1. k \in Nat /\ k - (n + 1) \in 1..(Len(list) - n) /\ n + (k - (n + 1)) = k - 1
    BY <1>1
  <2>2. r[k] = b[k - (n + 1)]
    BY <1>1, <1>3, <1>c, <1>d, <2>1
  <2>3. QED
    BY <1>3, <2>1, <2>2
<1>9. QED
  BY <1>5, <1>6, <1>7, <1>8

ByTime(list, byId) == \A i, j \in DOMAIN list : i < j => byId[list[i]].Time <= byId[list[j]].Time

\* A timer put into an ordered list comes behind those before it and in front of the others.
LEMMA InsertKeeps ==
  ASSUME NEW S, NEW list \in Seq(S), NEW id \in S, NEW byId,
         ByTime(list, byId), \A x \in ToSet(list) \cup {id} : byId[x].Time \in Nat
  PROVE  LET r == InsertToLoopList(list, byId, id)
         IN /\ r \in Seq(S) /\ ToSet(r) = ToSet(list) \cup {id} /\ ByTime(r, byId)
            /\ IsInjective(list) /\ id \notin ToSet(list) => IsInjective(r)
<1> DEFINE len == Len(list)
           J == {i \in DOMAIN list : byId[list[i]].Time < byId[id].Time}
           n == Cardinality(J)
           r == InsertToLoopList(list, byId, id)
           t(k) == byId[r[k]].Time
<1>1. len \in Nat /\ DOMAIN list = 1..len /\ \A i \in 1..len : byId[list[i]].Time \in Nat
  BY DEF ToSet
<1>2. n \in 0..len /\ J = 1..n
  <2>1. \A i \in J, k \in 1..len : k < i => k \in J
    BY <1>1 DEF ByTime
  <2> HIDE DEF J
  <2>2. J \in SUBSET (1..len)
    BY <1>1 DEF J
  <2>3. QED
    BY <1>1, <2>1, <2>2, FirstOnes
<1>3. r = PutBehind(list, n, id)
  BY DEF InsertToLoopList, PutBehind
<1>4. /\ r \in Seq(S) /\ Len(r) = len + 1
      /\ \A k \in 1..n : r[k] = list[k]
      /\ r[n + 1] = id
      /\ \A k \in n + 2 .. len + 1 : r[k] = list[k - 1]
  <2> HIDE DEF n, r, J
  <2>1. n \in 0..Len(list)
    BY <1>2
  <2>2. r \in Seq(S) /\ Len(r) = Len(list) + 1
    BY <1>3, <2>1, Inserted
  <2>3. \A k \in 1..n : r[k] = list[k]
    BY <1>3, <2>1, Inserted
  <2>4. r[n + 1] = id
    BY <1>3, <2>1, Inserted
  <2>5. \A k \in n + 2 .. Len(list) + 1 : r[k] = list[k - 1]
    BY <1>3, <2>1, Inserted
  <2>6. QED
    BY <2>2, <2>3, <2>4, <2>5
<1>5. /\ \A i \in 1..n : byId[list[i]].Time < byId[id].Time
      /\ \A i \in 1..len : i > n => byId[id].Time <= byId[list[i]].Time
  <2>1. \A i \in 1..len : i \in 1..n <=> byId[list[i]].Time < byId[id].Time
    BY <1>1, <1>2
  <2> HIDE DEF n, J
  <2>2. QED
    BY <1>1, <1>2, <2>1
<1> HIDE DEF n, r, J
<1>6. DOMAIN r = 1..(len + 1) /\ n \in Nat /\ n <= len
  BY <1>1, <1>2, <1>4
<1> HIDE DEF len
<1>7. \A k \in 1..(len + 1) : k \in 1..n \/ k = n + 1 \/ (k \in n + 2 .. len + 1 /\ k - 1 \in 1..len /\ k - 1 > n)
  BY <1>1, <1>6
<1>8. ToSet(r) = ToSet(list) \cup {id}
  <2>1. ASSUME NEW i \in 1..len
        PROVE  \E k \in 1..(len + 1) : r[k] = list[i]
    <3>1. CASE i <= n
      <4>1. i \in 1..n /\ i \in 1..(len + 1)
        BY <1>1, <1>6, <3>1
      <4>2. QED
        BY <1>4, <4>1
    <3>2. CASE i > n
      <4>1. i + 1 \in n + 2 .. len + 1 /\ (i + 1) - 1 = i /\ i + 1 \in 1..(len + 1)
        BY <1>1, <1>6, <3>2
      <4>2. QED
        BY <1>4, <4>1
    <3>3. QED
      BY <3>1, <3>2, <1>6
  <2>2. \A k \in 1..(len + 1) : r[k] = id \/ \E i \in 1..len : r[k] = list[i]
    <3>1. \A k \in 1..n : k \in 1..len
      BY <1>1, <1>6
    <3>2. QED
      BY <1>4, <1>7, <3>1
  <2>3. n + 1 \in 1..(len + 1)
    BY <1>1, <1>6
  <2>4. \A x : x \in ToSet(r) => x \in ToSet(list) \cup {id}
    BY <1>1, <1>6, <2>2, InToSet
  <2>5. \A x : x \in ToSet(list) \cup {id} => x \in ToSet(r)
    BY <1>1, <1>4, <1>6, <2>1, <2>3, InToSet
  <2>6. QED
    BY <2>4, <2>5
<1>9. ASSUME NEW i \in 1..(len + 1), NEW j \in 1..(len + 1), i < j
      PROVE  t(i) <= t(j)
  <2>1. CASE j \in 1..n
    <3>1. i \in 1..n /\ i \in 1..len /\ j \in 1..len
      BY <1>1, <1>6, <1>9, <2>1
    <3>2. QED
      BY <1>1, <1>4, <1>9, <2>1, <3>1 DEF ByTime
  <2>2. CASE j = n + 1
    <3>1. i \in 1..n /\ i \in 1..len
      BY <1>1, <1>6, <1>9, <2>2
    <3>2. byId[id].Time \in Nat
      OBVIOUS
    <3>3. QED
      BY <1>1, <1>4, <1>5, <2>2, <3>1, <3>2
  <2>3. CASE j \in n + 2 .. len + 1
    <3>1. j - 1 \in 1..len /\ j - 1 > n
      BY <1>1, <1>6, <2>3
    <3>2. t(j) = byId[list[j - 1]].Time
      BY <1>4, <2>3
    <3>3. CASE i \in 1..n
      <4>1. i \in 1..len /\ i < j - 1
        BY <1>1, <1>6, <3>1, <3>3
      <4>2. byId[list[i]].Time <= byId[list[j - 1]].Time
        BY <1>1, <3>1, <4>1 DEF ByTime
      <4>3. QED
        BY <1>4, <3>2, <3>3, <4>2
    <3>4. CASE i = n + 1
      BY <1>4, <1>5, <3>1, <3>2, <3>4
    <3>5. CASE i \in n + 2 .. len + 1
      <4>1. i - 1 \in 1..len /\ i - 1 < j - 1
        BY <1>1, <1>6, <1>9, <3>5, <3>1
      <4>2. t(i) = byId[list[i - 1]].Time
        BY <1>4, <3>5
      <4>3. QED
        BY <1>1, <3>1, <3>2, <4>1, <4>2 DEF ByTime
    <3>6. QED
      BY <1>7, <3>3, <3>4, <3>5
  <2>4. QED
    BY <1>7, <2>1, <2>2, <2>3
<1>10. ASSUME IsInjective(list), id \notin ToSet(list)
       PROVE  IsInjective(r)
  <2>1. \A i \in 1..len : list[i] # id
    BY <1>1, <1>10 DEF ToSet
  <2>2. \A i, j \in 1..len : list[i] = list[j] => i = j
    BY <1>1, <1>10 DEF IsInjective
  <2>3. ASSUME NEW i \in 1..(len + 1), NEW j \in 1..(len + 1), i < j
        PROVE  r[i] # r[j]
    <3>1. CASE j \in 1..n
      <4>1. i \in 1..n /\ i \in 1..len /\ j \in 1..len /\ i # j
        BY <1>1, <1>6, <2>3, <3>1
      <4>2. QED
        BY <1>4, <2>2, <3>1, <4>1
    <3>2. CASE j = n + 1
      <4>1. i \in 1..n /\ i \in 1..len
        BY <1>1, <1>6, <2>3, <3>2
      <4>2. QED
        BY <1>4, <2>1, <3>2, <4>1
    <3>3. CASE j \in n + 2 .. len + 1
      <4>1. j - 1 \in 1..len /\ j - 1 > n /\ r[j] = list[j - 1]
        BY <1>1, <1>4, <1>6, <3>3
      <4>2. CASE i \in 1..n
        <5>1. i \in 1..len /\ i # j - 1
          BY <1>1, <1>6, <4>1, <4>2
        <5>2. QED
          BY <1>4, <2>2, <4>1, <4>2, <5>1
      <4>3. CASE i = n + 1
        BY <1>4, <2>1, <4>1, <4>3
      <4>4. CASE i \in n + 2 .. len + 1
        <5>1. i - 1 \in 1..len /\ i - 1 # j - 1
          BY <1>1, <1>6, <2>3, <4>4
        <5>2. QED
          BY <1>4, <2>2, <4>1, <4>4, <5>1
      <4>5. QED
        BY <1>7, <4>2, <4>3, <4>4
    <3>4. QED
      BY <1>7, <3>1, <3>2, <3>3
  <2>4. \A i, j \in 1..(len + 1) : i = j \/ i < j \/ j < i
    OBVIOUS
  <2>5. QED
    BY <1>6, <2>3, <2>4 DEF IsInjective
<1>11. ByTime(r, byId)
  BY <1>6, <1>9 DEF ByTime
<1>12. QED
  BY <1>4, <1>8, <1>10, <1>11 DEF r

\* What is cut off at n.
LEMMA Cut ==
  ASSUME NEW S, NEW list \in Seq(S), NEW n \in 0..Len(list)
  PROVE  LET a == SubSeq(list, 1, n)
             b == SubSeq(list, n + 1, Len(list))
         IN /\ a \in Seq(S) /\ b \in Seq(S) /\ ToSet(list) = ToSet(a) \cup ToSet(b)
            /\ Len(a) = n /\ \A k \in 1..n : a[k] = list[k]
            /\ IsInjective(list) => /\ IsInjective(a) /\ IsInjective(b)
                                    /\ ToSet(a) \cap ToSet(b) = {}
            /\ \A byId : ByTime(list, byId) => ByTime(b, byId)
<1> DEFINE len == Len(list)
           a == SubSeq(list, 1, n)
           b == SubSeq(list, n + 1, len)
<1>1. len \in Nat /\ n \in Nat /\ n <= len /\ DOMAIN list = 1..len
  OBVIOUS
<1>2. a \in Seq(S) /\ DOMAIN a = 1..n /\ Len(a) = n /\ \A k \in 1..n : a[k] = list[k]
  BY <1>1
<1>3. b \in Seq(S) /\ DOMAIN b = 1..(len - n) /\ \A k \in 1..(len - n) : b[k] = list[n + k]
  BY <1>1
<1> HIDE DEF a, b
<1>4. /\ \A k \in 1..n : k \in 1..len
      /\ \A k \in 1..(len - n) : n + k \in 1..len /\ n + k > n
      /\ \A i \in 1..len : i \in 1..n \/ (i - n \in 1..(len - n) /\ n + (i - n) = i)
  BY <1>1
<1>5. ToSet(list) = ToSet(a) \cup ToSet(b)
  <2>1. \A i \in 1..len : (\E k \in 1..n : a[k] = list[i]) \/ \E k \in 1..(len - n) : b[k] = list[i]
    BY <1>2, <1>3, <1>4
  <2>2. \A x : x \in ToSet(list) => x \in ToSet(a) \cup ToSet(b)
    BY <1>1, <1>2, <1>3, <2>1, InToSet
  <2>3. \A x : x \in ToSet(a) \cup ToSet(b) => x \in ToSet(list)
    BY <1>1, <1>2, <1>3, <1>4, InToSet
  <2>4. QED
    BY <2>2, <2>3
<1>6. ASSUME IsInjective(list)
      PROVE  IsInjective(a) /\ IsInjective(b) /\ ToSet(a) \cap ToSet(b) = {}
  <2>1. \A i, j \in 1..len : list[i] = list[j] => i = j
    BY <1>1, <1>6 DEF IsInjective
  <2>2. IsInjective(a)
    BY <1>2, <1>4, <2>1 DEF IsInjective
  <2>3. IsInjective(b)
    <3>1. \A j, k \in 1..(len - n) : n + j = n + k => j = k
      BY <1>1
    <3>2. QED
      BY <1>3, <1>4, <2>1, <3>1 DEF IsInjective
  <2>4. \A j \in 1..n, k \in 1..(len - n) : a[j] # b[k]
    <3>1. \A j \in 1..n, k \in 1..(len - n) : j # n + k
      BY <1>1
    <3>2. QED
      BY <1>2, <1>3, <1>4, <2>1, <3>1
  <2>5. QED
    BY <1>2, <1>3, <2>2, <2>3, <2>4 DEF ToSet
<1>7. ASSUME NEW byId, ByTime(list, byId)
      PROVE  ByTime(b, byId)
  <2> SUFFICES ASSUME NEW j \in 1..(len - n), NEW k \in 1..(len - n), j < k
               PROVE  byId[b[j]].Time <= byId[b[k]].Time
    BY <1>3 DEF ByTime
  <2>1. n + j < n + k /\ n + j \in 1..len /\ n + k \in 1..len
    BY <1>1
  <2>2. byId[list[n + j]].Time <= byId[list[n + k]].Time
    BY <1>1, <1>7, <2>1 DEF ByTime
  <2>3. QED
    BY <1>3, <2>2
<1>8. QED
  BY <1>2, <1>3, <1>5, <1>6, <1>7 DEF a, b

\* One sequence behind another.
LEMMA Joined ==
  ASSUME NEW S, NEW a \in Seq(S), NEW b \in Seq(S)
  PROVE  /\ a \o b \in Seq(S) /\ ToSet(a \o b) = ToSet(a) \cup ToSet(b)
         /\ IsInjective(a) /\ IsInjective(b) /\ ToSet(a) \cap ToSet(b) = {} => IsInjective(a \o b)
<1> DEFINE m == Len(a)
           n == Len(b)
           q == a \o b
<1>1. m \in Nat /\ n \in Nat /\ DOMAIN a = 1..m /\ DOMAIN b = 1..n
  OBVIOUS
<1>2. /\ q \in Seq(S) /\ DOMAIN q = 1..(m + n)
      /\ \A k \in 1..m : q[k] = a[k]
      /\ \A k \in 1..n : q[m + k] = b[k]
  BY <1>1
<1> HIDE DEF q
<1>3. /\ \A k \in 1..m : k \in 1..(m + n)
      /\ \A k \in 1..n : m + k \in 1..(m + n)
      /\ \A k \in 1..(m + n) : k \in 1..m \/ (k - m \in 1..n /\ m + (k - m) = k)
  BY <1>1
<1>4. \A k \in 1..(m + n) : (k \in 1..m /\ q[k] = a[k]) \/ (k - m \in 1..n /\ m + (k - m) = k /\ q[k] = b[k - m])
  <2>1. ASSUME NEW k \in 1..(m + n), k - m \in 1..n, m + (k - m) = k
        PROVE  q[k] = b[k - m]
    <3>1. q[m + (k - m)] = b[k - m]
      BY <1>2, <2>1
    <3>2. QED
      BY <2>1, <3>1
  <2>2. QED
    BY <1>2, <1>3, <2>1
<1>5. ToSet(q) = ToSet(a) \cup ToSet(b)
  <2>1. \A x : x \in ToSet(q) => x \in ToSet(a) \cup ToSet(b)
    BY <1>1, <1>2, <1>4, InToSet
  <2>2. \A x : x \in ToSet(a) => x \in ToSet(q)
    BY <1>1, <1>2, <1>3, InToSet
  <2>3. \A x : x \in ToSet(b) => x \in ToSet(q)
    BY <1>1, <1>2, <1>3, InToSet
  <2>4. QED
    BY <2>1, <2>2, <2>3
<1>6. ASSUME IsInjective(a), IsInjective(b), ToSet(a) \cap ToSet(b) = {}
      PROVE  IsInjective(q)
  <2>1. \A j, k \in 1..m : a[j] = a[k] => j = k
    BY <1>1, <1>6 DEF IsInjective
  <2>2. \A j, k \in 1..n : b[j] = b[k] => j = k
    BY <1>1, <1>6 DEF IsInjective
  <2>3. \A j \in 1..m, k \in 1..n : a[j] # b[k]
    BY <1>1, <1>6 DEF ToSet
  <2>4. ASSUME NEW j \in 1..(m + n), NEW k \in 1..(m + n), q[j] = q[k]
        PROVE  j = k
    <3>1. CASE j \in 1..m /\ q[j] = a[j] /\ k \in 1..m /\ q[k] = a[k]
      BY <2>1, <2>4, <3>1
    <3>2. CASE j - m \in 1..n /\ k - m \in 1..n /\ m + (j - m) = j /\ m + (k - m) = k /\ q[j] = b[j - m] /\ q[k] = b[k - m]
      <4>1. j - m = k - m
        BY <2>2, <2>4, <3>2
      <4>2. QED
        BY <3>2, <4>1
    <3>3. QED
      BY <1>4, <2>3, <2>4, <3>1, <3>2
  <2>5. QED
    BY <1>2, <2>4 DEF IsInjective
<1>7. QED
  BY <1>2, <1>5, <1>6 DEF q

\* All but those of a set.
LEMMA Without ==
  ASSUME NEW S, NEW q \in Seq(S), NEW freed
  PROVE  /\ Spared(q, freed) \in Seq(S) /\ ToSet(Spared(q, freed)) = ToSet(q) \ freed
         /\ IsInjective(q) => IsInjective(Spared(q, freed))
<1> DEFINE n == Len(q)
           D == Seq(S)
           next(l, k) == IF q[k] \in freed THEN l ELSE Append(l, q[k])
           step == [x \in (1..n) \X D |-> next(x[2], x[1])]
           IsKept(f) == f = [k \in 0..n |-> IF k = 0 THEN <<>> ELSE next(f[k - 1], k)]
           kept == CHOOSE f : IsKept(f)
<1>1. n \in Nat /\ DOMAIN q = 1..n /\ \A k \in 1..n : q[k] \in S
  OBVIOUS
<1>2. <<>> \in D
  OBVIOUS
<1>3. \A l \in D : \A k \in 1..n : next(l, k) \in D
  BY <1>1
<1> HIDE DEF D, next
<1>4. \A i \in 1..n : \A d \in D : step[<<i, d>>] = next(d, i)
  <2>1. ASSUME NEW i \in 1..n, NEW d \in D
        PROVE  step[<<i, d>>] = next(d, i)
    <3>1. PICK x : x = <<i, d>>
      OBVIOUS
    <3>2. x \in (1..n) \X D /\ x[1] = i /\ x[2] = d
      BY <3>1
    <3>3. step[x] = next(x[2], x[1])
      BY <3>2
    <3> HIDE DEF step
    <3>4. QED
      BY <3>1, <3>2, <3>3
  <2>2. QED
    BY <2>1
<1> HIDE DEF step
<1>5. \E f : IsKept(f)
  <2>1. PICK f : IsLoopIn(f, <<>>, step, n, D)
    <3>1. \A i \in 1..n : \A d \in D : step[<<i, d>>] \in D
      BY <1>3, <1>4
    <3>2. QED
      BY <1>1, <1>2, <3>1, LoopIn
  <2>2. \A k \in 0..n : f[k] = IF k = 0 THEN <<>> ELSE next(f[k - 1], k)
    <3>1. \A k \in 0..n : k # 0 => k \in 1..n
      BY <1>1
    <3>2. f[0] = <<>> /\ \A i \in 1..n : f[i - 1] \in D /\ f[i] = step[<<i, f[i - 1]>>]
      BY <2>1, Zenon DEF IsLoopIn
    <3>3. QED
      BY <1>4, <3>1, <3>2
  <2>3. [k \in 0..n |-> f[k]] = [k \in 0..n |-> IF k = 0 THEN <<>> ELSE next(f[k - 1], k)]
    BY <2>2
  <2>4. f = [k \in 0..n |-> f[k]]
    BY <2>1, Zenon DEF IsLoopIn
  <2>5. IsKept(f)
    BY <2>3, <2>4
  <2>6. QED
    BY <2>5
<1>6. IsKept(kept)
  BY <1>5
<1>7. Spared(q, freed) = kept[n]
  BY Zenon DEF Spared, next
<1>8. \A k \in 0..n : kept[k] = IF k = 0 THEN <<>> ELSE next(kept[k - 1], k)
  BY <1>6, Zenon
<1> DEFINE Is(l, k) == /\ l \in Seq(S)
                       /\ \A x : (\E j \in DOMAIN l : l[j] = x) <=> x \notin freed /\ \E i \in 1..k : q[i] = x
                       /\ IsInjective(q) => IsInjective(l)
<1> HIDE DEF kept, n
<1>9. Is(<<>>, 0)
  BY DEF IsInjective
<1>10. ASSUME NEW k \in 1..n, NEW l, Is(l, k - 1)
       PROVE  Is(next(l, k), k)
  <2>1. k \in 1..n /\ n \in Nat /\ q[k] \in S /\ DOMAIN q = 1..n
    BY <1>1
  <2>2. \A i \in 1..k : i \in 1..(k - 1) \/ i = k
    BY <2>1
  <2>3. (\A i \in 1..(k - 1) : i \in 1..k /\ i \in 1..n /\ i # k) /\ k \in 1..k
    BY <2>1
  <2>4. \A x : (\E i \in 1..k : q[i] = x) <=> x = q[k] \/ \E i \in 1..(k - 1) : q[i] = x
    BY <2>2, <2>3
  <2>5. CASE q[k] \in freed
    <3>1. next(l, k) = l
      BY <2>5 DEF next
    <3>2. QED
      BY <1>10, <2>4, <2>5, <3>1
  <2>6. CASE q[k] \notin freed
    <3> DEFINE r == Append(l, q[k])
               m == Len(l)
    <3>1. next(l, k) = r
      BY <2>6 DEF next
    <3>2. l \in Seq(S) /\ m \in Nat /\ DOMAIN l = 1..m
      BY <1>10
    <3>3. /\ r \in Seq(S) /\ DOMAIN r = 1..(m + 1) /\ r[m + 1] = q[k] /\ m + 1 \in 1..(m + 1)
          /\ \A j \in 1..m : r[j] = l[j] /\ j \in 1..(m + 1) /\ j # m + 1
      BY <2>1, <3>2
    <3>4. \A j \in 1..(m + 1) : j \in 1..m \/ j = m + 1
      BY <3>2
    <3> HIDE DEF r, m
    <3>5. \A x : (\E j \in DOMAIN r : r[j] = x) <=> x = q[k] \/ \E j \in DOMAIN l : l[j] = x
      BY <3>2, <3>3, <3>4
    <3>6. \A x : (\E j \in DOMAIN r : r[j] = x) <=> x \notin freed /\ \E i \in 1..k : q[i] = x
      BY <1>10, <2>4, <2>6, <3>5
    <3>7. ASSUME IsInjective(q)
          PROVE  IsInjective(r)
      <4>1. \A i, j \in 1..n : q[i] = q[j] => i = j
        BY <2>1, <3>7 DEF IsInjective
      <4>2. \A j \in 1..m : l[j] # q[k]
        BY <1>10, <2>1, <2>3, <3>2, <4>1
      <4>3. \A i, j \in 1..m : l[i] = l[j] => i = j
        BY <1>10, <3>2, <3>7 DEF IsInjective
      <4>4. \A i, j \in 1..(m + 1) : r[i] = r[j] => i = j
        BY <3>3, <3>4, <4>2, <4>3
      <4>5. QED
        BY <3>3, <4>4 DEF IsInjective
    <3>8. QED
      BY <3>1, <3>3, <3>6, <3>7
  <2>7. QED
    BY <2>5, <2>6
<1> HIDE DEF Is
<1> DEFINE good == [k \in 0..n |-> IF Is(kept[k], k) THEN 1 ELSE 0]
<1>11. \A k \in 0..n : good[k] \in {1}
  <2>1. good[0] \in {1}
    <3>1. 0 \in 0..n /\ kept[0] = <<>>
      BY <1>1, <1>8
    <3>2. QED
      BY <1>9, <3>1
  <2>2. ASSUME NEW i \in 1..n, good[i - 1] \in {1}
        PROVE  good[i] \in {1}
    <3>1. i \in 0..n /\ i # 0 /\ i - 1 \in 0..n
      BY <1>1
    <3>2. Is(kept[i - 1], i - 1) /\ kept[i] = next(kept[i - 1], i)
      BY <1>8, <2>2, <3>1
    <3>3. Is(kept[i], i)
      BY <1>10, <3>2
    <3>4. QED
      BY <3>1, <3>3
  <2> HIDE DEF good
  <2>3. \A i \in 1..n : good[i - 1] \in {1} => good[i] \in {1}
    BY <2>2
  <2> DEFINE E == {1}
  <2>4. good[0] \in E /\ \A i \in 1..n : good[i - 1] \in E => good[i] \in E
    BY <2>1, <2>3
  <2> HIDE DEF E
  <2>5. \A k \in 0..n : good[k] \in E
    BY <1>1, <2>4, LoopKeeps
  <2>6. QED
    BY <2>5 DEF E
<1>12. Is(kept[n], n)
  BY <1>1, <1>11
<1> DEFINE r == Spared(q, freed)
<1>13. /\ r \in Seq(S) /\ (IsInjective(q) => IsInjective(r))
       /\ \A x : (\E j \in DOMAIN r : r[j] = x) <=> x \notin freed /\ \E i \in DOMAIN q : q[i] = x
  BY <1>1, <1>7, <1>12 DEF Is
<1> HIDE DEF r
<1>14. \A x : x \in ToSet(r) <=> x \in ToSet(q) \ freed
  BY <1>13, InToSet
<1>15. QED
  BY <1>13, <1>14 DEF r

\* The first and the others.
LEMMA FirstAndRest ==
  ASSUME NEW S, NEW q \in Seq(S), q # <<>>
  PROVE  /\ Head(q) \in ToSet(q) /\ Tail(q) \in Seq(S) /\ ToSet(q) = ToSet(Tail(q)) \cup {Head(q)}
         /\ IsInjective(q) => IsInjective(Tail(q)) /\ Head(q) \notin ToSet(Tail(q))
<1> DEFINE n == Len(q)
           t == Tail(q)
<1>1. n \in Nat /\ n >= 1 /\ DOMAIN q = 1..n /\ Head(q) = q[1] /\ 1 \in 1..n
  OBVIOUS
<1>2. t \in Seq(S) /\ DOMAIN t = 1..(n - 1) /\ \A k \in 1..(n - 1) : t[k] = q[k + 1]
  BY <1>1
<1> HIDE DEF t
<1>3. /\ \A k \in 1..(n - 1) : k + 1 \in 1..n /\ k + 1 # 1
      /\ \A i \in 1..n : i = 1 \/ (i - 1 \in 1..(n - 1) /\ (i - 1) + 1 = i)
  BY <1>1
<1>4. ToSet(q) = ToSet(t) \cup {Head(q)}
  <2>1. \A i \in 1..n : q[i] = Head(q) \/ \E k \in 1..(n - 1) : t[k] = q[i]
    BY <1>1, <1>2, <1>3
  <2>2. \A x : x \in ToSet(q) => x \in ToSet(t) \cup {Head(q)}
    BY <1>1, <1>2, <2>1, InToSet
  <2>3. \A x : x \in ToSet(t) \cup {Head(q)} => x \in ToSet(q)
    BY <1>1, <1>2, <1>3, InToSet
  <2>4. QED
    BY <2>2, <2>3
<1>5. ASSUME IsInjective(q)
      PROVE  IsInjective(t) /\ Head(q) \notin ToSet(t)
  <2>1. \A i, j \in 1..n : q[i] = q[j] => i = j
    BY <1>1, <1>5 DEF IsInjective
  <2>2. \A j, k \in 1..(n - 1) : j + 1 = k + 1 => j = k
    BY <1>1
  <2>3. IsInjective(t)
    BY <1>2, <1>3, <2>1, <2>2 DEF IsInjective
  <2>4. \A k \in 1..(n - 1) : t[k] # q[1]
    BY <1>1, <1>2, <1>3, <2>1
  <2>5. QED
    BY <1>1, <1>2, <2>3, <2>4 DEF ToSet
<1>6. QED
  BY <1>1, <1>2, <1>4, <1>5 DEF t, ToSet

\* One more at the end.
LEMMA Appended ==
  ASSUME NEW S, NEW q \in Seq(S), NEW id \in S
  PROVE  /\ Append(q, id) \in Seq(S) /\ ToSet(Append(q, id)) = ToSet(q) \cup {id}
         /\ IsInjective(q) /\ id \notin ToSet(q) => IsInjective(Append(q, id))
<1>1. <<id>> \in Seq(S) /\ ToSet(<<id>>) = {id} /\ IsInjective(<<id>>) /\ Append(q, id) = q \o <<id>>
  BY DEF ToSet, IsInjective
<1>2. id \notin ToSet(q) => ToSet(q) \cap ToSet(<<id>>) = {}
  BY <1>1
<1> DEFINE one == <<id>>
<1> HIDE DEF one
<1>3. one \in Seq(S) /\ Append(q, id) = q \o one /\ ToSet(one) = {id} /\ IsInjective(one)
  BY <1>1 DEF one
<1>4. QED
  BY <1>2, <1>3, Joined

-----------------------------------------------------------------------------
(* The queues: the inductive invariant.                                    *)

QueueTypes ==
  /\ CallTime \in Nat /\ LoopId \in 0..MaxIds
  /\ LoopList \in Seq(Ids) /\ loopList \in Seq(Ids) /\ running \in Ids \cup {0}
  /\ CallVec \in [1..Wheel -> Seq(Ids)]

\* A timer that waits has a turn left.
HasTurn(d) == d.LoopMax = 0 \/ d.LoopCount < d.LoopMax
TurnsLeft  == \A id \in Ids : Waiting(id) \/ id \in ToSet(loopList) => HasTurn(LoopById[id])

\* What Process has taken out is due, and what is i places before the hand of
\* the wheel will be when it gets there: either it was added since the wheel
\* turned, or a full second passes before each of its turns.
DueNow  == \A id \in ToSet(loopList) : LoopById[id].Time <= now
OnWheel == \A i \in 1..Wheel : \A id \in ToSet(CallVec[i]) :
  \/ LoopById[id].Time <= now + Second * (i - 1)
  \/ LoopById[id].Time <= CallTime + Second * i

QInv == QueueTypes /\ NoDangling /\ QueuedOnce /\ Sorted /\ TurnsLeft /\ DueNow /\ OnWheel

-----------------------------------------------------------------------------
(* The queues: the steps.                                                  *)

\* No timer leaves the queues but one that is freed or removed.
WaitOn == \A x : Waiting(x) => Waiting(x)'
Stays  == \A x \in DOMAIN LoopById' : Pending(x) /\ ~LoopById[x].Delete => Pending(x)'

\* What is queued has not been freed.
LEMMA QueuedIs ==
  ASSUME Inv, QInv
  PROVE  /\ \A x \in ToSet(LoopList) : x \in Ids /\ x \in DOMAIN LoopById /\ LoopById[x] \in CLoopData /\ HasTurn(LoopById[x])
         /\ \A x \in ToSet(loopList) : x \in Ids /\ x \in DOMAIN LoopById /\ LoopById[x] \in CLoopData /\ HasTurn(LoopById[x])
         /\ \A i \in 1..Wheel : \A x \in ToSet(CallVec[i]) :
              x \in Ids /\ x \in DOMAIN LoopById /\ LoopById[x] \in CLoopData /\ HasTurn(LoopById[x])
         /\ running # 0 => running \in Ids /\ running \in DOMAIN LoopById /\ LoopById[running] \in CLoopData
<1>1. /\ \A x \in ToSet(LoopList) : x \in Ids
      /\ \A x \in ToSet(loopList) : x \in Ids
      /\ \A i \in 1..Wheel : \A x \in ToSet(CallVec[i]) : x \in Ids
      /\ running # 0 => running \in Ids
  <2>1. LoopList \in Seq(Ids) /\ loopList \in Seq(Ids) /\ CallVec \in [1..Wheel -> Seq(Ids)] /\ running \in Ids \cup {0}
    BY DEF QInv, QueueTypes
  <2>2. ASSUME NEW s \in Seq(Ids) PROVE \A x \in ToSet(s) : x \in Ids
    BY DEF ToSet
  <2>3. QED
    BY <2>1, <2>2
<1>2. \A x \in Ids : Pending(x) => x \in DOMAIN LoopById
  BY DEF QInv, NoDangling
<1>3. \A x \in Ids : Waiting(x) \/ x \in ToSet(loopList) => HasTurn(LoopById[x])
  BY DEF QInv, TurnsLeft
<1>4. \A x \in DOMAIN LoopById : LoopById[x] \in CLoopData
  BY DEF Inv, Timers
<1>5. QED
  BY <1>1, <1>2, <1>3, <1>4 DEF Pending, Waiting, InWheel

\* The clock runs, or timers are marked or registered without being queued.
SameTimer(x) ==
  /\ LoopById'[x].Time = LoopById[x].Time
  /\ LoopById'[x].LoopMax = LoopById[x].LoopMax /\ LoopById'[x].LoopCount = LoopById[x].LoopCount

LEMMA Unmoved ==
  ASSUME Inv, QInv, UNCHANGED <<queues, loopList, running>>, LoopId' \in 0..MaxIds,
         now' \in Nat, now' >= now,
         \A x \in DOMAIN LoopById : x \in DOMAIN LoopById' /\ SameTimer(x)
  PROVE  QInv'
<1>1. LoopList' = LoopList /\ CallVec' = CallVec /\ CallTime' = CallTime /\ loopList' = loopList /\ running' = running
  BY DEF queues
<1>2. /\ \A x \in ToSet(LoopList) : x \in DOMAIN LoopById /\ SameTimer(x)
      /\ \A x \in ToSet(loopList) : x \in DOMAIN LoopById /\ SameTimer(x) /\ LoopById[x].Time \in Nat
      /\ \A i \in 1..Wheel : \A x \in ToSet(CallVec[i]) : x \in DOMAIN LoopById /\ SameTimer(x) /\ LoopById[x].Time \in Nat
  BY QueuedIs DEF CLoopData
<1>3. now \in Nat /\ CallTime \in Nat /\ Second \in Nat /\ Wheel \in Nat
  BY TimerAssumption DEF Inv, QInv, QueueTypes
<1>4. QueueTypes'
  BY <1>1 DEF QInv, QueueTypes
<1>5. /\ \A x : InWheel(x)' <=> InWheel(x)
      /\ \A x : Waiting(x)' <=> Waiting(x)
      /\ \A x : Pending(x)' <=> Pending(x)
  BY <1>1 DEF InWheel, Waiting, Pending
<1>6. NoDangling'
  BY <1>5 DEF QInv, NoDangling
<1>7. QueuedOnce'
  BY <1>1, <1>5 DEF QInv, QueuedOnce
<1>8. Sorted'
  BY <1>1, <1>2 DEF QInv, Sorted, ToSet, SameTimer
<1>9. TurnsLeft'
  BY <1>1, <1>2, <1>5 DEF QInv, TurnsLeft, SameTimer, HasTurn, Waiting, InWheel
<1>10. DueNow'
  BY <1>1, <1>2, <1>3 DEF QInv, DueNow, SameTimer
<1>11. OnWheel'
  <2> SUFFICES ASSUME NEW i \in 1..Wheel, NEW x \in ToSet(CallVec[i])
               PROVE  \/ LoopById'[x].Time <= now' + Second * (i - 1)
                      \/ LoopById'[x].Time <= CallTime' + Second * i
    BY <1>1 DEF OnWheel
  <2> DEFINE far == Second * (i - 1)
  <2>1. \/ LoopById[x].Time <= now + far
        \/ LoopById[x].Time <= CallTime + Second * i
    BY DEF QInv, OnWheel
  <2>2. i - 1 \in Nat
    OBVIOUS
  <2>3. far \in Nat
    BY <1>3, <2>2
  <2> HIDE DEF far
  <2>4. LoopById'[x].Time = LoopById[x].Time /\ LoopById[x].Time \in Nat
    BY <1>2 DEF SameTimer
  <2>5. LoopById[x].Time <= now + far => LoopById[x].Time <= now' + far
    BY <1>3, <2>3, <2>4
  <2>6. QED
    BY <1>1, <2>1, <2>4, <2>5 DEF far
<1>12. QED
  BY <1>4, <1>6, <1>7, <1>8, <1>9, <1>10, <1>11 DEF QInv

\* A timer that is in no queue is put into LoopList.
LEMMA Listed ==
  ASSUME Inv, Inv', QInv, NEW id \in Ids, ~Waiting(id), id \notin ToSet(loopList),
         LoopList' = InsertToLoopList(LoopList, LoopById', id),
         CallVec' = CallVec, CallTime' = CallTime, loopList' = loopList, now' = now,
         running' \in {running, 0}, running' # id, LoopId' \in 0..MaxIds,
         id \in DOMAIN LoopById', HasTurn(LoopById'[id]),
         \A x \in DOMAIN LoopById \ {id} : x \in DOMAIN LoopById' /\ SameTimer(x)
  PROVE  QInv' /\ Waiting(id)' /\ WaitOn
<1>1. /\ \A x \in ToSet(LoopList) : x \in Ids /\ x \in DOMAIN LoopById' /\ SameTimer(x) /\ HasTurn(LoopById'[x])
      /\ \A x \in ToSet(loopList) : x \in Ids /\ x \in DOMAIN LoopById' /\ SameTimer(x) /\ HasTurn(LoopById'[x])
      /\ \A i \in 1..Wheel : \A x \in ToSet(CallVec[i]) : x \in DOMAIN LoopById' /\ SameTimer(x) /\ HasTurn(LoopById'[x])
  <2>1. \A x : x \in ToSet(LoopList) \/ x \in ToSet(loopList) \/ (\E i \in 1..Wheel : x \in ToSet(CallVec[i])) => x # id
    BY DEF Waiting, InWheel
  <2>2. \A x \in DOMAIN LoopById \ {id} : HasTurn(LoopById[x]) => HasTurn(LoopById'[x])
    BY DEF SameTimer, HasTurn
  <2>3. QED
    BY <2>1, <2>2, QueuedIs
<1>2. LoopList \in Seq(Ids) /\ running \in Ids \cup {0}
  BY DEF QInv, QueueTypes
<1>3. ByTime(LoopList, LoopById')
  BY <1>1 DEF QInv, Sorted, ByTime, ToSet, SameTimer
<1>4. \A x \in ToSet(LoopList) \cup {id} : LoopById'[x].Time \in Nat
  BY <1>1 DEF Inv, Timers, CLoopData
<1>5. /\ LoopList' \in Seq(Ids) /\ ToSet(LoopList') = ToSet(LoopList) \cup {id} /\ ByTime(LoopList', LoopById')
      /\ IsInjective(LoopList) /\ id \notin ToSet(LoopList) => IsInjective(LoopList')
  BY <1>2, <1>3, <1>4, InsertKeeps
<1>6. QueueTypes'
  BY <1>2, <1>5 DEF QInv, QueueTypes
<1>7. /\ \A x : InWheel(x)' <=> InWheel(x)
      /\ \A x : Waiting(x)' <=> Waiting(x) \/ x = id
      /\ \A x \in Ids : Pending(x)' => Pending(x) \/ x = id
  <2>1. \A x : InWheel(x)' <=> InWheel(x)
    BY DEF InWheel
  <2>2. \A x : Waiting(x)' <=> Waiting(x) \/ x = id
    BY <1>5, <2>1 DEF Waiting
  <2>3. \A x \in Ids : running' = x => running = x
    BY DEF Ids
  <2>4. QED
    BY <2>1, <2>2, <2>3 DEF Pending
<1>8. NoDangling'
  <2>1. \A x \in Ids : Pending(x) /\ x # id => x \in DOMAIN LoopById'
    BY DEF QInv, NoDangling
  <2>2. QED
    BY <1>7, <2>1 DEF NoDangling
<1>9. QueuedOnce'
  <2>1. QueuedOnce /\ id \notin ToSet(LoopList) /\ ~InWheel(id)
    BY DEF QInv, Waiting
  <2>2. ~InWheel(0) /\ 0 \notin ToSet(LoopList) /\ 0 \notin ToSet(loopList)
    <3>1. 0 \notin Ids
      BY DEF Ids
    <3>2. QED
      BY <3>1, QueuedIs DEF InWheel
  <2>3. \A x \in ToSet(LoopList') : ~InWheel(x) /\ x \notin ToSet(loopList) /\ running' # x
    BY <1>5, <2>1, <2>2 DEF QueuedOnce
  <2>4. \A x \in ToSet(loopList) : ~InWheel(x) /\ running' # x
    BY <2>1, <2>2 DEF QueuedOnce
  <2>5. ~InWheel(running')
    BY <2>1, <2>2 DEF QueuedOnce
  <2>6. IsInjective(LoopList')
    BY <1>5, <2>1 DEF QueuedOnce
  <2>7. QED
    BY <1>7, <2>1, <2>3, <2>4, <2>5, <2>6 DEF QueuedOnce
<1>10. Sorted'
  BY <1>5 DEF Sorted, ByTime
<1>11. TurnsLeft'
  BY <1>1, <1>7 DEF TurnsLeft, Waiting, InWheel
<1>12. DueNow'
  BY <1>1 DEF QInv, DueNow, SameTimer
<1>13. OnWheel'
  BY <1>1 DEF QInv, OnWheel, SameTimer
<1>14. QInv'
  BY <1>6, <1>8, <1>9, <1>10, <1>11, <1>12, <1>13 DEF QInv
<1>15. QED
  BY <1>7, <1>14 DEF WaitOn

\* A timer that is in no queue is put on the wheel.
LEMMA PutOnWheel ==
  ASSUME Inv, Inv', QInv, NEW id \in Ids, ~Waiting(id), id \notin ToSet(loopList), NEW i \in 1..Wheel,
         CallVec' = [CallVec EXCEPT ![i] = Append(@, id)], LoopById'[id].Time <= now + Second * (i - 1),
         LoopList' = LoopList, CallTime' = CallTime, loopList' = loopList, now' = now,
         running' = running, running # id, LoopId' \in 0..MaxIds,
         id \in DOMAIN LoopById', HasTurn(LoopById'[id]),
         \A x \in DOMAIN LoopById \ {id} : x \in DOMAIN LoopById' /\ SameTimer(x)
  PROVE  QInv' /\ Waiting(id)' /\ WaitOn
<1>1. /\ \A x \in ToSet(LoopList) : x \in Ids /\ x # id /\ x \in DOMAIN LoopById' /\ SameTimer(x) /\ HasTurn(LoopById'[x])
      /\ \A x \in ToSet(loopList) : x \in Ids /\ x # id /\ x \in DOMAIN LoopById' /\ SameTimer(x) /\ HasTurn(LoopById'[x])
      /\ \A j \in 1..Wheel : \A x \in ToSet(CallVec[j]) : x # id /\ x \in DOMAIN LoopById' /\ SameTimer(x) /\ HasTurn(LoopById'[x])
  <2>1. \A x : x \in ToSet(LoopList) \/ x \in ToSet(loopList) \/ (\E j \in 1..Wheel : x \in ToSet(CallVec[j])) => x # id
    BY DEF Waiting, InWheel
  <2>2. \A x \in DOMAIN LoopById \ {id} : HasTurn(LoopById[x]) => HasTurn(LoopById'[x])
    BY DEF SameTimer, HasTurn
  <2>3. QED
    BY <2>1, <2>2, QueuedIs
<1>2. LoopList \in Seq(Ids) /\ CallVec \in [1..Wheel -> Seq(Ids)] /\ CallVec[i] \in Seq(Ids)
  BY DEF QInv, QueueTypes
<1>3. /\ \A j \in 1..Wheel \ {i} : CallVec'[j] = CallVec[j]
      /\ CallVec'[i] = Append(CallVec[i], id)
  BY <1>2
<1>4. /\ CallVec'[i] \in Seq(Ids) /\ ToSet(CallVec'[i]) = ToSet(CallVec[i]) \cup {id}
      /\ IsInjective(CallVec[i]) /\ id \notin ToSet(CallVec[i]) => IsInjective(CallVec'[i])
  BY <1>2, <1>3, Appended
<1>5. CallVec' \in [1..Wheel -> Seq(Ids)]
  BY <1>2, <1>3, <1>4
<1>6. QueueTypes'
  BY <1>5 DEF QInv, QueueTypes
<1>7. /\ \A x : InWheel(x)' <=> InWheel(x) \/ x = id
      /\ \A x : Waiting(x)' <=> Waiting(x) \/ x = id
      /\ \A x \in Ids : Pending(x)' => Pending(x) \/ x = id
  <2>1. \A x : InWheel(x)' <=> InWheel(x) \/ x = id
    BY <1>3, <1>4 DEF InWheel
  <2>2. QED
    BY <2>1 DEF Waiting, Pending
<1>8. NoDangling'
  <2>1. \A x \in Ids : Pending(x) /\ x # id => x \in DOMAIN LoopById'
    BY DEF QInv, NoDangling
  <2>2. QED
    BY <1>7, <2>1 DEF NoDangling
<1>9. QueuedOnce'
  <2>1. QueuedOnce /\ \A j \in 1..Wheel : id \notin ToSet(CallVec[j])
    BY <1>1 DEF QInv
  <2>2. \A j \in 1..Wheel : IsInjective(CallVec'[j])
    BY <1>3, <1>4, <2>1 DEF QueuedOnce
  <2>3. \A x \in ToSet(LoopList) : ~InWheel(x)' /\ x \notin ToSet(loopList) /\ running # x
    BY <1>1, <1>7, <2>1 DEF QueuedOnce
  <2>4. \A x \in ToSet(loopList) : ~InWheel(x)' /\ running # x
    BY <1>1, <1>7, <2>1 DEF QueuedOnce
  <2>5. ~InWheel(running)'
    BY <1>7, <2>1 DEF QueuedOnce
  <2>6. \A j, k \in 1..Wheel : j # k => ToSet(CallVec'[j]) \cap ToSet(CallVec'[k]) = {}
    <3>1. \A j, k \in 1..Wheel : j # k => ToSet(CallVec[j]) \cap ToSet(CallVec[k]) = {}
      BY <2>1 DEF QueuedOnce
    <3>2. ASSUME NEW j \in 1..Wheel, NEW k \in 1..Wheel, j # k, NEW x \in ToSet(CallVec'[j]), x \in ToSet(CallVec'[k])
          PROVE  FALSE
      <4>1. CASE j = i
        BY <1>3, <1>4, <2>1, <3>1, <3>2, <4>1
      <4>2. CASE k = i
        BY <1>3, <1>4, <2>1, <3>1, <3>2, <4>2
      <4>3. CASE j # i /\ k # i
        BY <1>3, <3>1, <3>2, <4>3
      <4>4. QED
        BY <4>1, <4>2, <4>3
    <3>3. QED
      BY <3>2
  <2>7. QED
    BY <2>1, <2>2, <2>3, <2>4, <2>5, <2>6 DEF QueuedOnce
<1>10. Sorted'
  BY <1>1 DEF QInv, Sorted, ToSet, SameTimer
<1>11. TurnsLeft'
  BY <1>1, <1>7 DEF TurnsLeft, Waiting, InWheel
<1>12. DueNow'
  BY <1>1 DEF QInv, DueNow, SameTimer
<1>13. OnWheel'
  <2> SUFFICES ASSUME NEW j \in 1..Wheel, NEW x \in ToSet(CallVec'[j])
               PROVE  \/ LoopById'[x].Time <= now + Second * (j - 1)
                      \/ LoopById'[x].Time <= CallTime + Second * j
    BY DEF OnWheel
  <2>1. CASE x = id /\ j = i
    BY <2>1
  <2>2. CASE x \in ToSet(CallVec[j])
    BY <1>1, <2>2 DEF QInv, OnWheel, SameTimer
  <2>3. QED
    BY <1>3, <1>4, <2>1, <2>2
<1>14. QInv'
  BY <1>6, <1>8, <1>9, <1>10, <1>11, <1>12, <1>13 DEF QInv
<1>15. QED
  BY <1>7, <1>14 DEF WaitOn

\* A new timer is in no queue, and the others keep their times and turns.
LEMMA FreshId ==
  ASSUME Inv, QInv, LoopId' = LoopId + 1, LoopId < MaxIds
  PROVE  /\ LoopId' \in Ids /\ LoopId' \in 0..MaxIds /\ LoopId' \notin DOMAIN LoopById
         /\ ~Waiting(LoopId') /\ LoopId' \notin ToSet(loopList) /\ running # LoopId'
<1>1. LoopId \in Nat /\ MaxIds \in Nat /\ DOMAIN LoopById \subseteq 1..LoopId
  BY TimerAssumption DEF Inv
<1>2. LoopId' \in Ids /\ LoopId' \in 0..MaxIds /\ LoopId' \notin DOMAIN LoopById
  BY <1>1 DEF Ids
<1>3. ~Pending(LoopId')
  BY <1>2 DEF QInv, NoDangling
<1>4. QED
  BY <1>2, <1>3 DEF Pending

LEMMA MarkedSame ==
  ASSUME NEW byId, Timers(byId), NEW ids, NEW x \in DOMAIN byId
  PROVE  /\ x \in DOMAIN Marked(byId, ids)
         /\ Marked(byId, ids)[x].Time = byId[x].Time
         /\ Marked(byId, ids)[x].LoopMax = byId[x].LoopMax
         /\ Marked(byId, ids)[x].LoopCount = byId[x].LoopCount
<1>1. byId[x] \in CLoopData
  BY DEF Timers
<1>2. x \in DOMAIN Marked(byId, ids) /\ Marked(byId, ids)[x] = IF x \in ids THEN [byId[x] EXCEPT !.Delete = TRUE] ELSE byId[x]
  BY DEF Marked
<1>3. QED
  BY <1>1, <1>2 DEF CLoopData

LEMMA RoomSame ==
  ASSUME Inv, NEW key, NEW id, id \notin DOMAIN LoopById, NEW d,
         LoopById' = With(MakeRoom(key), id, d)
  PROVE  /\ id \in DOMAIN LoopById' /\ LoopById'[id] = d
         /\ \A x \in DOMAIN LoopById : x \in DOMAIN LoopById' /\ SameTimer(x)
<1> DEFINE room == MakeRoom(key)
<1>1. DOMAIN room = DOMAIN LoopById
  BY DEF MakeRoom, Marked
<1>2. \A x \in DOMAIN LoopById : /\ room[x].Time = LoopById[x].Time
                                 /\ room[x].LoopMax = LoopById[x].LoopMax /\ room[x].LoopCount = LoopById[x].LoopCount
  BY MarkedSame DEF MakeRoom, Inv
<1> HIDE DEF room
<1>3. \A x \in DOMAIN LoopById : x \in DOMAIN LoopById' /\ LoopById'[x] = room[x]
  BY <1>1 DEF With, room
<1>4. id \in DOMAIN LoopById' /\ LoopById'[id] = d
  BY DEF With
<1>5. QED
  BY <1>2, <1>3, <1>4 DEF SameTimer

LEMMA AddLoopQueued ==
  ASSUME Inv, Inv', QInv, NEW key \in Keys, NEW timeset \in Nat, NEW end \in Nat, NEW delay \in Nat, NEW max \in Nat,
         AddLoop(key, timeset, end, delay, max)
  PROVE  QInv' /\ Stays
<1> DEFINE d0 == [key |-> key, LoopMax |-> max, LoopCount |-> 0, Time |-> timeset,
                  EndTime |-> end, Delay |-> delay, Delete |-> FALSE]
           d == CatchUp(d0)
<1>1. /\ LoopId' = LoopId + 1 /\ LoopId < MaxIds /\ now' = now /\ running' = running /\ loopList' = loopList
      /\ CallVec' = CallVec /\ CallTime' = CallTime /\ delay # 0
      /\ \/ max # 0 /\ d.LoopCount >= max /\ LoopById' = MakeRoom(key) /\ LoopList' = LoopList
         \/ /\ ~(max # 0 /\ d.LoopCount >= max)
            /\ LoopById' = With(MakeRoom(key), LoopId', d)
            /\ LoopList' = InsertToLoopList(LoopList, LoopById', LoopId')
  BY DEF AddLoop, Alloc
<1>2. /\ LoopId' \in Ids /\ LoopId' \in 0..MaxIds /\ LoopId' \notin DOMAIN LoopById
      /\ ~Waiting(LoopId') /\ LoopId' \notin ToSet(loopList) /\ running # LoopId'
  BY <1>1, FreshId
<1>3. now \in Nat /\ d0 \in CLoopData /\ d0.Delay # 0 /\ d0.LoopMax = max
  BY <1>1 DEF CLoopData, Inv
<1> HIDE DEF d0
<1>4. d \in CLoopData /\ d.LoopMax = max
  <2>1. d \in CLoopData
    BY <1>3, CatchUpType
  <2>2. CatchUp(d0).LoopMax = d0.LoopMax
    BY <1>3 DEF CatchUp, CLoopData
  <2>3. QED
    BY <1>3, <2>1, <2>2
<1> HIDE DEF d
<1>5. CASE max # 0 /\ d.LoopCount >= max /\ LoopById' = MakeRoom(key) /\ LoopList' = LoopList
  <2>1. \A x \in DOMAIN LoopById : x \in DOMAIN LoopById' /\ SameTimer(x)
    BY <1>5, MarkedSame DEF MakeRoom, Inv, SameTimer
  <2>2. QInv'
    BY <1>1, <1>2, <1>3, <1>5, <2>1, Unmoved DEF queues
  <2>3. Stays
    BY <1>1, <1>5 DEF Stays, Pending, Waiting, InWheel
  <2>4. QED
    BY <2>2, <2>3
<1>6. CASE /\ ~(max # 0 /\ d.LoopCount >= max)
           /\ LoopById' = With(MakeRoom(key), LoopId', d)
           /\ LoopList' = InsertToLoopList(LoopList, LoopById', LoopId')
  <2>1. /\ LoopId' \in DOMAIN LoopById' /\ LoopById'[LoopId'] = d
        /\ \A x \in DOMAIN LoopById : x \in DOMAIN LoopById' /\ SameTimer(x)
    BY <1>2, <1>6, RoomSame
  <2>2. HasTurn(d)
    BY <1>4, <1>6 DEF HasTurn, CLoopData
  <2>3. QInv' /\ WaitOn
    BY <1>1, <1>2, <1>6, <2>1, <2>2, Listed
  <2>4. QED
    BY <1>1, <2>3 DEF Stays, WaitOn, Pending
<1>7. QED
  BY <1>1, <1>5, <1>6

LEMMA AddCallQueued ==
  ASSUME Inv, Inv', QInv, NEW key \in Keys, NEW seconds \in Nat, AddCall(key, seconds)
  PROVE  QInv' /\ Stays
<1> DEFINE d0 == [key |-> key, LoopMax |-> 1, LoopCount |-> 0, Time |-> now, EndTime |-> 0,
                  Delay |-> seconds, Delete |-> FALSE]
           d == UpdateLoopNextTime(d0)
<1>1. /\ LoopId' = LoopId + 1 /\ LoopId < MaxIds /\ now' = now /\ running' = running /\ loopList' = loopList
      /\ CallTime' = CallTime /\ LoopById' = With(MakeRoom(key), LoopId', d)
      /\ \/ seconds >= Wheel /\ LoopList' = InsertToLoopList(LoopList, LoopById', LoopId') /\ CallVec' = CallVec
         \/ /\ ~(seconds >= Wheel) /\ LoopList' = LoopList
            /\ CallVec' = [CallVec EXCEPT ![seconds + 1] = Append(@, LoopId')]
  BY DEF AddCall, Alloc
<1>2. /\ LoopId' \in Ids /\ LoopId' \in 0..MaxIds /\ LoopId' \notin DOMAIN LoopById
      /\ ~Waiting(LoopId') /\ LoopId' \notin ToSet(loopList) /\ running # LoopId'
  BY <1>1, FreshId
<1>3. d.LoopMax = 1 /\ d.LoopCount = 0 /\ d.Time = now + Second * seconds
  BY DEF UpdateLoopNextTime
<1> HIDE DEF d0, d
<1>4. /\ LoopId' \in DOMAIN LoopById' /\ LoopById'[LoopId'] = d
      /\ \A x \in DOMAIN LoopById : x \in DOMAIN LoopById' /\ SameTimer(x)
  BY <1>1, <1>2, RoomSame
<1>5. HasTurn(d)
  BY <1>3 DEF HasTurn
<1>6. CASE seconds >= Wheel /\ LoopList' = InsertToLoopList(LoopList, LoopById', LoopId') /\ CallVec' = CallVec
  <2>1. QInv' /\ WaitOn
    BY <1>1, <1>2, <1>4, <1>5, <1>6, Listed
  <2>2. QED
    BY <1>1, <2>1 DEF Stays, WaitOn, Pending
<1>7. CASE /\ ~(seconds >= Wheel) /\ LoopList' = LoopList
           /\ CallVec' = [CallVec EXCEPT ![seconds + 1] = Append(@, LoopId')]
  <2>1. seconds + 1 \in 1..Wheel /\ (seconds + 1) - 1 = seconds
    BY <1>7, TimerAssumption
  <2>2. LoopById'[LoopId'].Time <= now + Second * ((seconds + 1) - 1)
    <3>1. now + Second * seconds \in Nat
      <4>1. Second * seconds \in Nat
        BY TimerAssumption
      <4>2. QED
        BY <4>1 DEF Inv
    <3>2. QED
      BY <1>3, <1>4, <2>1, <3>1
  <2>3. QInv' /\ WaitOn
    BY <1>1, <1>2, <1>4, <1>5, <1>7, <2>1, <2>2, PutOnWheel
  <2>4. QED
    BY <1>1, <2>3 DEF Stays, WaitOn, Pending
<1>8. QED
  BY <1>1, <1>6, <1>7

LEMMA OnTimeQueued ==
  ASSUME Inv, Inv', QInv, OnTime
  PROVE  QInv' /\ Stays
<1> DEFINE id == Head(loopList)
<1>1. /\ running = 0 /\ loopList # <<>> /\ loopList' = Tail(loopList) /\ LoopId' = LoopId /\ now' = now
      /\ LoopList' = LoopList /\ CallVec' = CallVec /\ CallTime' = CallTime
  BY DEF OnTime, queues
<1>2. /\ id \in ToSet(loopList) /\ loopList' \in Seq(Ids) /\ ToSet(loopList) = ToSet(loopList') \cup {id}
      /\ IsInjective(loopList) => IsInjective(loopList') /\ id \notin ToSet(loopList')
  BY <1>1, FirstAndRest DEF QInv, QueueTypes
<1>3. id \in Ids /\ id \in DOMAIN LoopById
  BY <1>2, QueuedIs
<1>4. running' = id /\ LoopById' = [LoopById EXCEPT ![id].LoopCount = @ + 1]
  BY <1>3 DEF OnTime
<1>5. QueuedOnce
  BY DEF QInv
<1> HIDE DEF id
<1>6. /\ DOMAIN LoopById' = DOMAIN LoopById
      /\ \A x \in DOMAIN LoopById \ {id} : LoopById'[x] = LoopById[x]
      /\ LoopById'[id].Time = LoopById[id].Time
  <2>1. DOMAIN LoopById' = DOMAIN LoopById /\ \A x \in DOMAIN LoopById \ {id} : LoopById'[x] = LoopById[x]
    BY <1>4
  <2>2. LoopById[id] \in CLoopData
    BY <1>3 DEF Inv, Timers
  <2>3. LoopById'[id] = [LoopById[id] EXCEPT !.LoopCount = @ + 1]
    BY <1>3, <1>4
  <2>4. QED
    BY <2>1, <2>2, <2>3 DEF CLoopData
<1>7. /\ id \notin ToSet(LoopList) /\ id \notin ToSet(loopList') /\ ~InWheel(id)
  BY <1>2, <1>5 DEF QueuedOnce
<1>8. /\ \A x : InWheel(x)' <=> InWheel(x)
      /\ \A x : Waiting(x)' <=> Waiting(x)
      /\ \A x \in Ids : Pending(x)' => Pending(x)
  BY <1>1, <1>2, <1>4 DEF InWheel, Waiting, Pending
<1>9. QueueTypes'
  BY <1>1, <1>2, <1>3, <1>4 DEF QInv, QueueTypes
<1>10. NoDangling'
  BY <1>6, <1>8 DEF QInv, NoDangling
<1>11. QueuedOnce'
  BY <1>1, <1>2, <1>4, <1>5, <1>7, <1>8 DEF QueuedOnce
<1>12. \A x : Waiting(x) \/ x \in ToSet(loopList') => x # id
  BY <1>7 DEF Waiting
<1>13. /\ \A x \in ToSet(LoopList) : x \in DOMAIN LoopById /\ LoopById'[x] = LoopById[x]
       /\ \A x \in ToSet(loopList') : x \in DOMAIN LoopById /\ LoopById'[x] = LoopById[x]
       /\ \A i \in 1..Wheel : \A x \in ToSet(CallVec[i]) : x \in DOMAIN LoopById /\ LoopById'[x] = LoopById[x]
  BY <1>2, <1>6, <1>7, QueuedIs DEF InWheel
<1>14. Sorted'
  BY <1>1, <1>13 DEF QInv, Sorted, ToSet
<1>15. TurnsLeft'
  <2>1. \A x \in Ids : Waiting(x) \/ x \in ToSet(loopList') => LoopById'[x] = LoopById[x]
    BY <1>13 DEF Waiting, InWheel
  <2>2. QED
    BY <1>2, <1>8, <2>1 DEF QInv, TurnsLeft
<1>16. DueNow'
  BY <1>1, <1>2, <1>13 DEF QInv, DueNow
<1>17. OnWheel'
  BY <1>1, <1>13 DEF QInv, OnWheel
<1>18. Stays
  BY <1>1, <1>2, <1>4, <1>6, <1>8 DEF Stays, Pending, Inv
<1>19. QED
  BY <1>18, <1>9, <1>10, <1>11, <1>14, <1>15, <1>16, <1>17 DEF QInv

LEMMA ReturnQueued ==
  ASSUME Inv, Inv', QInv, Return
  PROVE  QInv' /\ (running \notin DOMAIN LoopById' \/ Stays)
<1>1. /\ running # 0 /\ running' = 0 /\ now' = now /\ LoopId' = LoopId /\ CallVec' = CallVec /\ CallTime' = CallTime
  BY DEF Return
<1>2. running \in Ids /\ running \in DOMAIN LoopById /\ LoopById[running] \in CLoopData
  BY <1>1, QueuedIs
<1>3. ~Waiting(running) /\ running \notin ToSet(loopList)
  <2>1. QueuedOnce
    BY DEF QInv
  <2>2. QED
    BY <2>1 DEF QueuedOnce, Waiting
<1>4. LoopId' \in 0..MaxIds
  BY <1>1 DEF QInv, QueueTypes
<1>5. CASE ~LoopById[running].Delete /\ ~Finished(LoopById[running])
  <2>0. PICK id \in Ids : id = running
    BY <1>2
  <2> DEFINE d == UpdateLoopNextTime(LoopById[running])
  <2>1. /\ LoopById' = [LoopById EXCEPT ![running] = d] /\ loopList' = loopList
        /\ LoopList' = InsertToLoopList(LoopList, LoopById', running)
    BY <1>5 DEF Return, Again
  <2>10. LoopList' = InsertToLoopList(LoopList, LoopById', id) /\ LoopById' = [LoopById EXCEPT ![id] = d]
    BY <2>0, <2>1
  <2>2. d.LoopMax = LoopById[running].LoopMax /\ d.LoopCount = LoopById[running].LoopCount
    BY <1>2 DEF UpdateLoopNextTime, CLoopData
  <2> HIDE DEF d
  <2>3. /\ DOMAIN LoopById' = DOMAIN LoopById /\ LoopById'[running] = d
        /\ \A x \in DOMAIN LoopById \ {running} : LoopById'[x] = LoopById[x]
    BY <1>2, <2>1
  <2>4. HasTurn(LoopById'[id])
    BY <1>2, <1>5, <2>0, <2>2, <2>3 DEF HasTurn, Finished, CLoopData
  <2>5. \A x \in DOMAIN LoopById \ {id} : x \in DOMAIN LoopById' /\ SameTimer(x)
    BY <2>0, <2>3 DEF SameTimer
  <2>6. running' \in {running, 0} /\ running' # id /\ id \in DOMAIN LoopById' /\ ~Waiting(id) /\ id \notin ToSet(loopList)
    BY <1>1, <1>2, <1>3, <2>0, <2>3
  <2>7. QInv' /\ Waiting(id)' /\ WaitOn
    BY <1>1, <1>4, <2>1, <2>10, <2>4, <2>5, <2>6, Listed
  <2>8. ASSUME NEW x, Pending(x)
        PROVE  Pending(x)'
    <3>1. CASE Waiting(x)
      BY <2>7, <3>1 DEF WaitOn, Pending
    <3>2. CASE x \in ToSet(loopList)
      BY <2>1, <3>2 DEF Pending
    <3>3. CASE x = running
      <4>1. x = id
        BY <2>0, <3>3
      <4>2. QED
        BY <2>7, <4>1 DEF Pending
    <3>4. QED
      BY <2>8, <3>1, <3>2, <3>3 DEF Pending
  <2>9. QED
    BY <2>7, <2>8 DEF Stays
<1>6. ASSUME LoopList' = LoopList, loopList' \in {loopList, <<>>},
             \A x \in DOMAIN LoopById \ {running} : x \in DOMAIN LoopById' /\ LoopById'[x] = LoopById[x]
      PROVE  QInv'
  <2>1. /\ loopList \in Seq(Ids) /\ QueuedOnce
    BY DEF QInv, QueueTypes
  <2>2. loopList' \in Seq(Ids) /\ ToSet(loopList') \subseteq ToSet(loopList) /\ IsInjective(loopList')
    <3>1. <<>> \in Seq(Ids) /\ ToSet(<<>>) = {} /\ IsInjective(<<>>)
      BY DEF ToSet, IsInjective
    <3>2. QED
      BY <1>6, <2>1, <3>1 DEF QueuedOnce
  <2>3. ~InWheel(0) /\ 0 \notin ToSet(LoopList) /\ 0 \notin ToSet(loopList)
    <3>1. 0 \notin Ids
      BY DEF Ids
    <3>2. QED
      BY <3>1, QueuedIs DEF InWheel
  <2>4. /\ \A x : InWheel(x)' <=> InWheel(x)
        /\ \A x : Waiting(x)' <=> Waiting(x)
        /\ \A x \in Ids : Pending(x)' => Pending(x) /\ x # running
    <3>1. \A x \in Ids : x # 0
      BY DEF Ids
    <3>2. (\A x : InWheel(x)' <=> InWheel(x)) /\ (\A x : Waiting(x)' <=> Waiting(x))
      BY <1>1, <1>6 DEF InWheel, Waiting
    <3>3. QED
      BY <1>1, <1>3, <2>2, <3>1, <3>2 DEF Pending
  <2>5. /\ \A x \in ToSet(LoopList) : x \in DOMAIN LoopById /\ LoopById'[x] = LoopById[x]
        /\ \A x \in ToSet(loopList) : x \in DOMAIN LoopById /\ LoopById'[x] = LoopById[x]
        /\ \A i \in 1..Wheel : \A x \in ToSet(CallVec[i]) : x \in DOMAIN LoopById /\ LoopById'[x] = LoopById[x]
    BY <1>3, <1>6, QueuedIs DEF Waiting, InWheel
  <2>6. QueueTypes'
    BY <1>1, <1>4, <1>6, <2>2 DEF QInv, QueueTypes
  <2>7. NoDangling'
    BY <1>6, <2>4 DEF QInv, NoDangling
  <2>8. QueuedOnce'
    <3>1. \A x \in ToSet(LoopList) : ~InWheel(x) /\ x \notin ToSet(loopList') /\ 0 # x
      BY <2>1, <2>2, <2>3 DEF QueuedOnce
    <3>2. \A x \in ToSet(loopList') : ~InWheel(x) /\ 0 # x
      BY <2>1, <2>2, <2>3 DEF QueuedOnce
    <3>3. QED
      BY <1>1, <1>6, <2>1, <2>2, <2>3, <2>4, <3>1, <3>2 DEF QueuedOnce
  <2>9. Sorted'
    BY <1>6, <2>5 DEF QInv, Sorted, ToSet
  <2>10. TurnsLeft'
    <3>1. \A x \in Ids : Waiting(x) \/ x \in ToSet(loopList) => LoopById'[x] = LoopById[x]
      BY <2>5 DEF Waiting, InWheel
    <3>2. QED
      BY <2>2, <2>4, <3>1 DEF QInv, TurnsLeft
  <2>11. DueNow'
    BY <1>1, <2>2, <2>5 DEF QInv, DueNow
  <2>12. OnWheel'
    BY <1>1, <2>5 DEF QInv, OnWheel
  <2>13. QED
    BY <2>6, <2>7, <2>8, <2>9, <2>10, <2>11, <2>12 DEF QInv
<1>7. CASE LoopById[running].Delete
  <2>1. LoopById' = LoopById /\ LoopList' = LoopList /\ loopList' = loopList
    BY <1>7 DEF Return
  <2>2. Stays
    BY <1>1, <1>7, <2>1 DEF Stays, Pending, Waiting, InWheel
  <2>3. QED
    BY <1>6, <2>1, <2>2
<1>8. CASE ~LoopById[running].Delete /\ Finished(LoopById[running])
  <2>1. LoopById' = DelLoop(LoopById, {running}) /\ LoopList' = LoopList /\ loopList' = <<>>
    BY <1>8 DEF Return
  <2>2. \A x \in DOMAIN LoopById \ {running} : x \in DOMAIN LoopById' /\ LoopById'[x] = LoopById[x]
    BY <2>1 DEF DelLoop, Restrict
  <2>3. running \notin DOMAIN LoopById'
    BY <2>1 DEF DelLoop, Restrict
  <2>4. QED
    BY <1>6, <2>1, <2>2, <2>3
<1>9. QED
  BY <1>5, <1>7, <1>8

\* What Process takes from the front of LoopList is removed or due.
LEMMA DueLenIs ==
  ASSUME Inv, QInv
  PROVE  /\ DueLen \in 0..Len(LoopList)
         /\ \A k \in 1..DueLen : LoopById[LoopList[k]].Delete \/ LoopById[LoopList[k]].Time <= now
<1> DEFINE len == Len(LoopList)
           later == {i \in DOMAIN LoopList : ~LoopById[LoopList[i]].Delete /\ now < LoopById[LoopList[i]].Time}
<1>1. len \in Nat /\ DOMAIN LoopList = 1..len
  BY DEF QInv, QueueTypes
<1>2. \A i \in 1..len : LoopById[LoopList[i]].Time \in Nat /\ now \in Nat
  BY <1>1, QueuedIs DEF ToSet, CLoopData, Inv
<1>3. DueLen = IF later = {} THEN len ELSE Min(later) - 1
  BY DEF DueLen
<1>4. DueLen \in 0..len /\ \A k \in 1..DueLen : k \in 1..len /\ k \notin later
  <2>1. CASE later = {}
    BY <1>1, <1>3, <2>1
  <2>2. CASE later # {}
    <3>1. later \subseteq 1..len /\ later \subseteq Nat
      BY <1>1
    <3> HIDE DEF later
    <3>2. PICK m \in later : \A x \in later : m <= x
      BY <2>2, <3>1, Least
    <3>3. Min(later) \in later /\ \A x \in later : Min(later) <= x
      BY <3>2 DEF Min
    <3> DEFINE least == Min(later)
    <3>4. least \in 1..len /\ \A k \in 1..(least - 1) : k \in 1..len /\ k \notin later
      <4>1. least \in later /\ \A x \in later : least <= x
        BY <3>3
      <4> HIDE DEF least
      <4>2. least \in 1..len
        BY <3>1, <4>1
      <4>3. QED
        BY <1>1, <4>1, <4>2
    <3>5. DueLen = least - 1
      BY <1>3, <2>2
    <3> HIDE DEF least
    <3>6. QED
      BY <1>1, <3>4, <3>5
  <2>3. QED
    BY <2>1, <2>2
<1>5. QED
  BY <1>1, <1>2, <1>4

\* The hand of the wheel: its list is taken and the others come nearer.
LEMMA WheelTurns ==
  ASSUME QInv
  PROVE  /\ Head(CallVec) = CallVec[1] /\ 1 \in 1..Wheel
         /\ Turned \in [1..Wheel -> Seq(Ids)]
         /\ \A i \in 1..Wheel : \/ i < Wheel /\ i + 1 \in 1..Wheel /\ Turned[i] = CallVec[i + 1]
                                \/ Turned[i] = <<>>
         /\ \A i \in 2..Wheel : i - 1 \in 1..Wheel /\ Turned[i - 1] = CallVec[i]
<1>1. Wheel \in Nat /\ Wheel >= 1 /\ CallVec \in [1..Wheel -> Seq(Ids)]
  BY TimerAssumption DEF QInv, QueueTypes
<1>2. CallVec \in Seq(Seq(Ids)) /\ Len(CallVec) = Wheel /\ CallVec # <<>>
  BY <1>1
<1> DEFINE t == Tail(CallVec)
<1>3. t \in Seq(Seq(Ids)) /\ Len(t) = Wheel - 1 /\ \A i \in 1..(Wheel - 1) : t[i] = CallVec[i + 1]
  BY <1>1, <1>2
<1> HIDE DEF t
<1>4. <<>> \in Seq(Ids)
  OBVIOUS
<1>5. /\ Turned \in Seq(Seq(Ids)) /\ Len(Turned) = Wheel /\ Turned[Wheel] = <<>>
      /\ \A i \in 1..(Wheel - 1) : Turned[i] = CallVec[i + 1]
  <2>1. Turned = Append(t, <<>>)
    BY DEF Turned, t
  <2>2. QED
    BY <1>1, <1>3, <1>4, <2>1
<1>6. Turned \in [1..Wheel -> Seq(Ids)]
  BY <1>5
<1>7. \A i \in 1..Wheel : i = Wheel \/ (i \in 1..(Wheel - 1) /\ i < Wheel /\ i + 1 \in 1..Wheel)
  BY <1>1
<1>8. \A i \in 2..Wheel : i - 1 \in 1..(Wheel - 1) /\ i - 1 \in 1..Wheel /\ (i - 1) + 1 = i
  BY <1>1
<1>9. \A i \in 1..Wheel : \/ i < Wheel /\ i + 1 \in 1..Wheel /\ Turned[i] = CallVec[i + 1]
                          \/ Turned[i] = <<>>
  BY <1>5, <1>7
<1>10. \A i \in 2..Wheel : i - 1 \in 1..Wheel /\ Turned[i - 1] = CallVec[i]
  <2> SUFFICES ASSUME NEW i \in 2..Wheel PROVE i - 1 \in 1..Wheel /\ Turned[i - 1] = CallVec[i]
    OBVIOUS
  <2>1. Turned[i - 1] = CallVec[(i - 1) + 1]
    BY <1>5, <1>8
  <2>2. QED
    BY <1>8, <2>1
<1>11. Head(CallVec) = CallVec[1] /\ 1 \in 1..Wheel
  BY <1>1, <1>2
<1>12. QED
  BY <1>6, <1>9, <1>10, <1>11

LEMMA ProcessQueued ==
  ASSUME Inv, Inv', QInv, Process
  PROVE  QInv' /\ Stays
<1> DEFINE popped == SubSeq(LoopList, 1, DueLen)
           wheel  == IF Turns THEN Head(CallVec) ELSE <<>>
           taken  == popped \o wheel
           freed  == {id \in ToSet(popped) \cup ToSet(wheel) : LoopById[id].Delete}
                       \cup {id \in ToSet(popped) : CheckOvertime(LoopById[id])}
<1>1. /\ running = 0 /\ running' = 0 /\ now' = now /\ LoopId' = LoopId
      /\ loopList' = Spared(taken, freed)
      /\ LoopById' = DelLoop(LoopById, freed) /\ LoopList' = Untaken
      /\ IF Turns THEN CallTime' = now /\ CallVec' = Turned ELSE CallTime' = CallTime /\ CallVec' = CallVec
  BY DEF Process, Spared
<1>2. QueueTypes /\ QueuedOnce /\ now \in Nat /\ CallTime \in Nat /\ Second \in Nat
  BY TimerAssumption DEF QInv, QueueTypes, Inv
<1>3. LoopList \in Seq(Ids) /\ CallVec \in [1..Wheel -> Seq(Ids)]
  BY <1>2 DEF QueueTypes
<1>4. DueLen \in 0..Len(LoopList) /\ \A k \in 1..DueLen : LoopById[LoopList[k]].Delete \/ LoopById[LoopList[k]].Time <= now
  BY DueLenIs
<1>5. /\ popped \in Seq(Ids) /\ LoopList' \in Seq(Ids) /\ ToSet(LoopList) = ToSet(popped) \cup ToSet(LoopList')
      /\ Len(popped) = DueLen /\ \A k \in 1..DueLen : popped[k] = LoopList[k]
      /\ IsInjective(popped) /\ IsInjective(LoopList') /\ ToSet(popped) \cap ToSet(LoopList') = {}
      /\ ByTime(LoopList', LoopById)
  <2>1. ByTime(LoopList, LoopById) /\ IsInjective(LoopList)
    BY <1>2 DEF QInv, Sorted, ByTime, QueuedOnce
  <2>2. QED
    BY <1>1, <1>3, <1>4, <2>1, Cut DEF Untaken
<1>6. \A x \in ToSet(popped) : LoopById[x].Delete \/ LoopById[x].Time <= now
  <2>1. DOMAIN popped = 1..DueLen
    BY <1>4, <1>5
  <2> HIDE DEF popped
  <2>2. QED
    BY <1>4, <1>5, <2>1 DEF ToSet
<1>7. /\ wheel \in Seq(Ids) /\ IsInjective(wheel)
      /\ \A x \in ToSet(wheel) : Turns /\ x \in ToSet(CallVec[1]) /\ 1 \in 1..Wheel
  <2>1. CASE Turns
    <3>1. Head(CallVec) = CallVec[1] /\ 1 \in 1..Wheel
      BY WheelTurns
    <3>2. QED
      BY <1>2, <1>3, <2>1, <3>1 DEF QueuedOnce
  <2>2. CASE ~Turns
    <3>1. <<>> \in Seq(Ids) /\ ToSet(<<>>) = {} /\ IsInjective(<<>>)
      BY DEF ToSet, IsInjective
    <3>2. QED
      BY <2>2, <3>1
  <2>3. QED
    BY <2>1, <2>2
<1>8. freed \subseteq ToSet(popped) \cup ToSet(wheel) /\ \A x \in ToSet(popped) \ freed : ~LoopById[x].Delete
  OBVIOUS
<1> HIDE DEF popped, wheel, freed
<1>9. /\ CallVec' \in [1..Wheel -> Seq(Ids)]
      /\ \A i \in 1..Wheel : IsInjective(CallVec'[i])
      /\ \A i \in 1..Wheel : \E j \in 1..Wheel : ToSet(CallVec'[i]) \subseteq ToSet(CallVec[j]) \ ToSet(wheel)
      /\ \A i, j \in 1..Wheel : i # j => ToSet(CallVec'[i]) \cap ToSet(CallVec'[j]) = {}
  <2>1. /\ \A i \in 1..Wheel : IsInjective(CallVec[i])
        /\ \A i, j \in 1..Wheel : i # j => ToSet(CallVec[i]) \cap ToSet(CallVec[j]) = {}
    BY <1>2 DEF QueuedOnce
  <2>2. CASE Turns
    <3>1. CallVec' = Turned /\ wheel = CallVec[1]
      BY <1>1, <2>2, WheelTurns DEF wheel
    <3>2. /\ Turned \in [1..Wheel -> Seq(Ids)]
          /\ \A i \in 1..Wheel : \/ i < Wheel /\ i + 1 \in 1..Wheel /\ Turned[i] = CallVec[i + 1]
                                 \/ Turned[i] = <<>>
      BY WheelTurns
    <3>3. ToSet(<<>>) = {} /\ IsInjective(<<>>)
      BY DEF ToSet, IsInjective
    <3>4. \A i \in 1..Wheel : IsInjective(Turned[i])
      BY <2>1, <3>2, <3>3
    <3>5. \A i \in 1..Wheel : i + 1 # 1 /\ i \in Nat /\ 1 \in 1..Wheel
      BY TimerAssumption
    <3>6. \A i \in 1..Wheel : \E j \in 1..Wheel : ToSet(Turned[i]) \subseteq ToSet(CallVec[j]) \ ToSet(CallVec[1])
      BY <2>1, <3>2, <3>3, <3>5
    <3>7. \A i, j \in 1..Wheel : i # j => i + 1 # j + 1
      OBVIOUS
    <3>8. \A i, j \in 1..Wheel : i # j => ToSet(Turned[i]) \cap ToSet(Turned[j]) = {}
      BY <2>1, <3>2, <3>3, <3>7
    <3>9. QED
      BY <3>1, <3>2, <3>4, <3>6, <3>8
  <2>3. CASE ~Turns
    <3>1. CallVec' = CallVec /\ wheel = <<>> /\ ToSet(<<>>) = {}
      BY <1>1, <2>3 DEF wheel, ToSet
    <3>2. QED
      BY <1>3, <2>1, <3>1
  <2>4. QED
    BY <2>2, <2>3
<1>10. /\ \A x \in ToSet(popped) : x \in ToSet(LoopList) /\ x \notin ToSet(LoopList') /\ ~InWheel(x)
       /\ \A x \in ToSet(LoopList') : x \in ToSet(LoopList) /\ x \notin ToSet(popped) /\ ~InWheel(x)
       /\ \A x \in ToSet(wheel) : InWheel(x) /\ x \notin ToSet(LoopList) /\ ~InWheel(x)'
       /\ \A x : InWheel(x)' => InWheel(x) /\ x \notin ToSet(wheel)
  <2>1. \A x \in ToSet(wheel) : InWheel(x)
    BY <1>7 DEF InWheel
  <2>2. \A x \in ToSet(LoopList) : ~InWheel(x)
    BY <1>2 DEF QueuedOnce
  <2>3. \A x : InWheel(x)' => InWheel(x) /\ x \notin ToSet(wheel)
    BY <1>9 DEF InWheel
  <2>4. QED
    BY <1>5, <2>1, <2>2, <2>3
<1>11. popped \o wheel \in Seq(Ids) /\ ToSet(popped \o wheel) = ToSet(popped) \cup ToSet(wheel) /\ IsInjective(popped \o wheel)
  <2>1. ToSet(popped) \cap ToSet(wheel) = {}
    BY <1>10
  <2>2. QED
    BY <1>5, <1>7, <2>1, Joined
<1>12. /\ loopList' \in Seq(Ids) /\ IsInjective(loopList')
       /\ ToSet(loopList') = (ToSet(popped) \cup ToSet(wheel)) \ freed
  <2> HIDE DEF taken
  <2>1. taken \in Seq(Ids) /\ ToSet(taken) = ToSet(popped) \cup ToSet(wheel) /\ IsInjective(taken)
    BY <1>11 DEF taken
  <2>2. QED
    BY <1>1, <2>1, Without
<1>13. \A x \in DOMAIN LoopById \ freed : x \in DOMAIN LoopById' /\ LoopById'[x] = LoopById[x]
  BY <1>1 DEF DelLoop, Restrict
<1>14. /\ \A x \in ToSet(LoopList') : x \in DOMAIN LoopById' /\ LoopById'[x] = LoopById[x]
       /\ \A x \in ToSet(loopList') : x \in DOMAIN LoopById' /\ LoopById'[x] = LoopById[x]
       /\ \A i \in 1..Wheel : \A x \in ToSet(CallVec'[i]) : InWheel(x) /\ x \in DOMAIN LoopById' /\ LoopById'[x] = LoopById[x]
  <2>1. /\ \A x \in ToSet(LoopList) : x \in DOMAIN LoopById
        /\ \A x : InWheel(x) => x \in DOMAIN LoopById
    BY QueuedIs DEF InWheel
  <2>2. \A i \in 1..Wheel : \A x \in ToSet(CallVec'[i]) : InWheel(x)'
    BY DEF InWheel
  <2>3. \A x : x \in ToSet(LoopList') \/ InWheel(x)' => x \notin freed
    BY <1>8, <1>10
  <2>4. QED
    BY <1>8, <1>10, <1>12, <1>13, <2>1, <2>2, <2>3
<1>15. QueueTypes'
  <2>1. CallTime' \in Nat
    BY <1>1, <1>2
  <2>2. QED
    BY <1>1, <1>2, <1>5, <1>9, <1>12, <2>1 DEF QueueTypes
<1>16. NoDangling'
  <2>1. \A x \in Ids : x # 0
    BY DEF Ids
  <2>2. QED
    BY <1>1, <1>14, <2>1 DEF NoDangling, Pending, Waiting, InWheel
<1>17. QueuedOnce'
  <2>1. \A x \in ToSet(loopList') : (x \in ToSet(popped) \/ x \in ToSet(wheel)) /\ x \in Ids
    <3>1. \A x \in ToSet(popped) \cup ToSet(wheel) : x \in Ids
      BY <1>7, <1>10, QueuedIs
    <3>2. QED
      BY <1>12, <3>1
  <2>2. \A x : InWheel(x)' => x \in Ids
    <3>1. \A x : InWheel(x) => x \in Ids
      BY QueuedIs DEF InWheel
    <3>2. QED
      BY <1>10, <3>1
  <2>3. \A x \in ToSet(LoopList') : x \in Ids
    BY <1>5 DEF ToSet
  <2>4. 0 \notin Ids
    BY DEF Ids
  <2>5. \A x \in ToSet(LoopList') : ~InWheel(x)' /\ x \notin ToSet(loopList') /\ running' # x
    BY <1>1, <1>10, <2>1, <2>3, <2>4
  <2>6. \A x \in ToSet(loopList') : ~InWheel(x)' /\ running' # x
    BY <1>1, <1>10, <2>1, <2>4
  <2>7. ~InWheel(running)'
    BY <1>1, <2>2, <2>4 DEF InWheel
  <2>8. QED
    BY <1>5, <1>9, <1>12, <2>5, <2>6, <2>7 DEF QueuedOnce
<1>18. Sorted'
  BY <1>5, <1>14 DEF Sorted, ByTime, ToSet
<1>19. TurnsLeft'
  <2>1. \A x \in ToSet(LoopList) \cup ToSet(wheel) : HasTurn(LoopById[x])
    BY <1>7, QueuedIs
  <2>2. \A x : InWheel(x) => HasTurn(LoopById[x])
    BY QueuedIs DEF InWheel
  <2>3. /\ \A x \in ToSet(LoopList') : HasTurn(LoopById[x])
        /\ \A x \in ToSet(loopList') : HasTurn(LoopById[x])
    BY <1>10, <1>12, <2>1
  <2>4. QED
    BY <1>14, <2>2, <2>3 DEF TurnsLeft, Waiting, InWheel
<1>20. DueNow'
  <2> SUFFICES ASSUME NEW x \in ToSet(loopList') PROVE LoopById[x].Time <= now
    BY <1>1, <1>14 DEF DueNow
  <2>1. CASE x \in ToSet(popped)
    BY <1>6, <1>8, <1>12, <2>1
  <2>2. CASE x \in ToSet(wheel)
    <3>1. Turns /\ x \in ToSet(CallVec[1]) /\ 1 \in 1..Wheel
      BY <1>7, <2>2
    <3>2. LoopById[x].Time <= now + Second * (1 - 1) \/ LoopById[x].Time <= CallTime + Second * 1
      BY <3>1 DEF QInv, OnWheel
    <3>3. LoopById[x].Time \in Nat
      BY <3>1, QueuedIs DEF CLoopData
    <3>4. QED
      BY <1>2, <3>1, <3>2, <3>3 DEF Turns
  <2>3. QED
    BY <1>12, <2>1, <2>2
<1>21. OnWheel'
  <2>1. CASE ~Turns
    BY <1>1, <1>14, <2>1 DEF QInv, OnWheel
  <2>2. CASE Turns
    <3> SUFFICES ASSUME NEW i \in 1..Wheel, NEW x \in ToSet(CallVec'[i])
                 PROVE  LoopById[x].Time <= now + Second * i
      BY <1>1, <1>14, <2>2 DEF OnWheel
    <3>1. i + 1 \in 1..Wheel /\ x \in ToSet(CallVec[i + 1])
      <4>1. ToSet(<<>>) = {}
        BY DEF ToSet
      <4>2. QED
        BY <1>1, <2>2, <4>1, WheelTurns
    <3>2. \/ LoopById[x].Time <= now + Second * ((i + 1) - 1)
          \/ LoopById[x].Time <= CallTime + Second * (i + 1)
      BY <3>1 DEF QInv, OnWheel
    <3> DEFINE far == Second * i
    <3>3. far \in Nat /\ Second * ((i + 1) - 1) = far /\ Second * (i + 1) = far + Second
      <4>1. i \in Nat /\ (i + 1) - 1 = i
        OBVIOUS
      <4>2. far \in Nat
        BY <1>2, <4>1
      <4>3. Second * (i + 1) = Second * i + Second
        BY <1>2, <4>1
      <4>4. QED
        BY <4>1, <4>2, <4>3
    <3>4. LoopById[x].Time \in Nat
      BY <3>1, QueuedIs DEF CLoopData
    <3> HIDE DEF far
    <3>5. LoopById[x].Time <= now + far
      BY <1>2, <2>2, <3>2, <3>3, <3>4 DEF Turns
    <3>6. QED
      BY <3>5 DEF far
  <2>3. QED
    BY <2>1, <2>2
<1>22. Stays
  <2>1. \A x : InWheel(x) => InWheel(x)' \/ x \in ToSet(wheel)
    <3>1. CASE Turns
      <4>1. CallVec' = Turned /\ wheel = CallVec[1]
        BY <1>1, <3>1, WheelTurns DEF wheel
      <4>2. \A i \in 1..Wheel : i = 1 \/ i \in 2..Wheel
        OBVIOUS
      <4>3. QED
        BY <4>1, <4>2, WheelTurns DEF InWheel
    <3>2. CASE ~Turns
      BY <1>1, <3>2 DEF InWheel
    <3>3. QED
      BY <3>1, <3>2
  <2>2. \A x \in DOMAIN LoopById' : x \notin freed /\ x # 0
    BY <1>1 DEF DelLoop, Restrict, Inv
  <2>3. \A x : x \notin ToSet(loopList)
    BY DEF Process, ToSet
  <2>4. QED
    BY <1>1, <1>5, <1>12, <2>1, <2>2, <2>3 DEF Stays, Pending, Waiting
<1>23. QED
  BY <1>22, <1>15, <1>16, <1>17, <1>18, <1>19, <1>20, <1>21 DEF QInv

-----------------------------------------------------------------------------
(* The theorems.                                                           *)

LEMMA QueuesInductive == Inv /\ Inv' /\ QInv /\ [Next]_vars => QInv'
<1> SUFFICES ASSUME Inv, Inv', QInv, [Next]_vars PROVE QInv'
  OBVIOUS
<1>1. now \in Nat /\ LoopId \in 0..MaxIds /\ Timers(LoopById)
  BY DEF Inv, QInv, QueueTypes
<1>2. ASSUME NEW key \in Keys, NEW delay \in Delays, AddCall(key, delay)
      PROVE  QInv'
  BY <1>2, AddCallQueued, TimerAssumption
<1>3. ASSUME NEW key \in Keys, NEW delay \in Delays,
             NEW start \in {s * Second : s \in Starts} \cup {now - (now % Second)},
             NEW end \in {s * Second : s \in EndTimes}, NEW max \in Loops,
             AddLoop(key, start, end, delay, max)
      PROVE  QInv'
  <2>1. start \in Nat /\ end \in Nat /\ delay \in Nat /\ max \in Nat
    BY <1>1, LoopArguments
  <2>2. QED
    BY <1>3, <2>1, AddLoopQueued
<1>4. ASSUME NEW ids, LoopById' = Marked(LoopById, ids), UNCHANGED <<now, queues, LoopId, loopList, running>>
      PROVE  QInv'
  <2>1. \A x \in DOMAIN LoopById : x \in DOMAIN LoopById' /\ SameTimer(x)
    BY <1>1, <1>4, MarkedSame DEF SameTimer
  <2>2. QED
    BY <1>1, <1>4, <2>1, Unmoved
<1>5. ASSUME NEW id \in Ids, RemoveLoop(id)
      PROVE  QInv'
  BY <1>4, <1>5 DEF RemoveLoop
<1>6. ASSUME NEW key \in Keys, RemoveKey(key)
      PROVE  QInv'
  BY <1>4, <1>6 DEF RemoveKey
<1>7. ASSUME now' \in {now, now + 1}, LoopById' = LoopById, UNCHANGED <<queues, LoopId, loopList, running>>
      PROVE  QInv'
  <2>1. \A x \in DOMAIN LoopById : x \in DOMAIN LoopById' /\ SameTimer(x)
    BY <1>7 DEF SameTimer
  <2>2. now' \in Nat /\ now' >= now
    BY <1>1, <1>7
  <2>3. QED
    BY <1>1, <1>7, <2>1, <2>2, Unmoved
<1>8. CASE Tick
  BY <1>7, <1>8 DEF Tick
<1>9. CASE UNCHANGED vars
  BY <1>7, <1>9 DEF vars, queues
<1>10. QED
  BY <1>2, <1>3, <1>5, <1>6, <1>8, <1>9, ProcessQueued, OnTimeQueued, ReturnQueued DEF Next

LEMMA QueuesInvariant == Spec => [](Inv /\ QInv)
<1>1. Init => QInv
  <2> SUFFICES ASSUME Init PROVE QInv
    OBVIOUS
  <2>1. <<>> \in Seq(Ids) /\ ToSet(<<>>) = {} /\ IsInjective(<<>>) /\ 0 \in 0..MaxIds
    BY TimerAssumption DEF ToSet, IsInjective
  <2>2. \A id \in Ids : id # 0
    BY DEF Ids
  <2>3. \A i \in 1..Wheel : CallVec[i] = <<>>
    BY DEF Init
  <2>4. \A x : ~InWheel(x)
    BY <2>1, <2>3 DEF InWheel
  <2>5. QueueTypes
    BY <2>1 DEF Init, QueueTypes
  <2>6. NoDangling /\ TurnsLeft /\ DueNow /\ OnWheel
    BY <2>1, <2>2, <2>3, <2>4 DEF Init, NoDangling, TurnsLeft, DueNow, OnWheel, Pending, Waiting
  <2>7. QueuedOnce /\ Sorted
    BY <2>1, <2>3, <2>4 DEF Init, QueuedOnce, Sorted
  <2>8. QED
    BY <2>5, <2>6, <2>7 DEF QInv
<1>2. QED
  BY <1>1, QueuesInductive, Invariant, PTL DEF Spec

\* The queues hold pointers to timers that callbacks free, mark and register
\* again while Process walks over them (systimemgr.cpp:393, 418).  None of
\* them has been freed, none is in two queues or in one twice, and LoopList
\* stays in the order of time.
THEOREM QueuesSound == Spec => []Queues
<1>1. Inv /\ QInv => Queues
  BY DEF Inv, QInv, QueueTypes, Timers, TypeOK, Queues
<1>2. QED
  BY <1>1, QueuesInvariant, PTL

\* No callback starts before its time or more often than it was asked for,
\* wherever the timer waited and however irregularly Process is called.
THEOREM NeverEarlyOrTooOften == Spec => RunsInTime
<1> DEFINE timer == LoopById[running']
           Turn  == now >= timer.Time /\ (timer.LoopMax # 0 => timer.LoopCount < timer.LoopMax)
<1>1. Inv /\ QInv /\ [Next]_vars => [running = 0 /\ running' # 0 => Turn]_vars
  <2> SUFFICES ASSUME Inv, QInv, Next, running = 0, running' # 0
               PROVE  Turn
    BY DEF vars
  <2>1. OnTime
    BY DEF Next, AddCall, AddLoop, Alloc, RemoveLoop, RemoveKey, Process, Return, Tick
  <2>2. Head(loopList) \in ToSet(loopList) /\ running' = Head(loopList)
    <3>1. loopList \in Seq(Ids) /\ loopList # <<>>
      BY <2>1 DEF OnTime, QInv, QueueTypes
    <3>2. QED
      BY <2>1, <3>1, FirstAndRest DEF OnTime
  <2>3. timer.Time <= now /\ timer.Time \in Nat /\ now \in Nat /\ HasTurn(timer)
    BY <2>2, QueuedIs DEF QInv, DueNow, CLoopData, Inv
  <2>4. QED
    BY <2>3 DEF HasTurn
<1>2. QED
  BY <1>1, QueuesInvariant, PTL DEF Spec, RunsInTime

\* A timer that nobody removed leaves the queues only when it is freed, or
\* behind one that had its last turn (systimemgr.cpp:393).
THEOREM OnlyBehindFinished == Spec => LostBehindFinished
<1> DEFINE Lost(id) == Pending(id) /\ ~LoopById[id].Delete /\ id \in DOMAIN LoopById' /\ ~Pending(id)'
           Behind   == running # 0 /\ running \notin DOMAIN LoopById'
<1>1. Inv /\ Inv' /\ QInv /\ [Next]_vars => [\A id \in DOMAIN LoopById : Lost(id) => Behind]_vars
  <2> SUFFICES ASSUME Inv, Inv', QInv, Next PROVE Stays \/ Behind
    BY DEF Stays
  <2>1. now \in Nat
    BY DEF Inv
  <2>2. ASSUME LoopList' = LoopList, CallVec' = CallVec, loopList' = loopList, running' = running
        PROVE  Stays
    BY <2>2 DEF Stays, Pending, Waiting, InWheel
  <2>3. ASSUME NEW key \in Keys, NEW delay \in Delays, AddCall(key, delay)
        PROVE  Stays
    BY <2>3, AddCallQueued, TimerAssumption
  <2>4. ASSUME NEW key \in Keys, NEW delay \in Delays,
               NEW start \in {s * Second : s \in Starts} \cup {now - (now % Second)},
               NEW end \in {s * Second : s \in EndTimes}, NEW max \in Loops,
               AddLoop(key, start, end, delay, max)
        PROVE  Stays
    <3>1. start \in Nat /\ end \in Nat /\ delay \in Nat /\ max \in Nat
      BY <2>1, LoopArguments
    <3>2. QED
      BY <2>4, <3>1, AddLoopQueued
  <2>5. ASSUME NEW id \in Ids, RemoveLoop(id)
        PROVE  Stays
    BY <2>2, <2>5 DEF RemoveLoop, queues
  <2>6. ASSUME NEW key \in Keys, RemoveKey(key)
        PROVE  Stays
    BY <2>2, <2>6 DEF RemoveKey, queues
  <2>7. CASE Tick
    BY <2>2, <2>7 DEF Tick, queues
  <2>8. CASE Return
    <3>1. running # 0
      BY <2>8 DEF Return
    <3>2. QED
      BY <2>8, <3>1, ReturnQueued
  <2>9. QED
    BY <2>3, <2>4, <2>5, <2>6, <2>7, <2>8, ProcessQueued, OnTimeQueued DEF Next
<1>2. QED
  BY <1>1, QueuesInvariant, PTL DEF Spec, LostBehindFinished
=============================================================================
