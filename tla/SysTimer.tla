------------------------------ MODULE SysTimer ------------------------------
(***************************************************************************)
(* CSysTimeMgr (common/systimemgr.cpp): the timers of every server         *)
(* process.  Timers wait in LoopList, ordered by their next time, or in    *)
(* CallVec, a wheel of one list per second.  The message loop calls        *)
(* Process when it is idle; Process takes out what is due and runs the     *)
(* callbacks one by one on the same thread, and a callback may add and     *)
(* remove timers, its own and those still to run included.                 *)
(*                                                                         *)
(* Time is counted in ticks, Second ticks to a second; UpdateLoopNextTime  *)
(* adds a number of seconds (types Minute to Year add more, and the        *)
(* calendar is left out).                                                  *)
(***************************************************************************)
EXTENDS Integers, SequencesExt

CONSTANTS
  Keys,      \* names of timers
  HashKeys,  \* those that start with '#'
  Second,    \* ticks per second: 1000 in the code
  Wheel,     \* lists of CallVec: 256 in the code
  Starts,    \* times of day given to AddLoop, in seconds
  EndTimes,  \* end times, in seconds; 0 for none
  Loops,     \* repetitions asked for; 0 for no limit
  Delays,    \* periods and delays, in seconds
  MaxTime,   \* bound on the clock
  MaxIds     \* bound on timers added

ASSUME TimerAssumption ==
  /\ HashKeys \subseteq Keys
  /\ Second \in Nat \ {0} /\ Wheel \in Nat \ {0}
  /\ Starts \subseteq Nat /\ EndTimes \subseteq Nat /\ Loops \subseteq Nat /\ Delays \subseteq Nat
  /\ MaxTime \in Nat /\ MaxIds \in Nat

VARIABLES
  now,       \* the clock
  LoopById,  \* every timer that has not been freed
  LoopList,  \* ids of timers by their next time
  CallVec,   \* ids of timers by the second of the wheel they run in
  CallTime,  \* when the wheel last turned
  LoopId,    \* the last id given out
  loopList,  \* ids Process has still to run
  running    \* the timer whose callback runs, or 0

queues == <<LoopList, CallVec, CallTime>>
vars   == <<now, LoopById, LoopList, CallVec, CallTime, LoopId, loopList, running>>

Ids   == 1..MaxIds
CLoopData == [key : Keys, LoopMax : Nat, LoopCount : Nat, Time : Nat, EndTime : Nat,
              Delay : Nat, Delete : BOOLEAN]

-----------------------------------------------------------------------------
(* Timers.                                                                 *)

CheckOvertime(d) == d.EndTime # 0 /\ d.EndTime < d.Time

Valid(id) ==
  /\ id \in DOMAIN LoopById /\ ~LoopById[id].Delete
  /\ LoopById[id].LoopMax = 0 \/ LoopById[id].LoopCount < LoopById[id].LoopMax

UpdateLoopNextTime(d) == [d EXCEPT !.Time = @ + Second * d.Delay]

\* While its time has passed a timer that is added takes a turn.
CatchUp(d) ==
  IF d.Time >= now THEN d
  ELSE LET turns == ((now - d.Time) + Second * d.Delay - 1) \div (Second * d.Delay)
       IN [d EXCEPT !.Time = @ + turns * Second * d.Delay, !.LoopCount = @ + turns]

\* The id of a timer before those of its time or later (lower_bound).
InsertToLoopList(list, byId, id) ==
  InsertAt(list, 1 + Cardinality({i \in DOMAIN list : byId[list[i]].Time < byId[id].Time}), id)

\* The timers of a set of ids marked as removed.
Marked(byId, ids) == [id \in DOMAIN byId |->
  IF id \in ids THEN [byId[id] EXCEPT !.Delete = TRUE] ELSE byId[id]]

LoopKeyList(key) == {id \in DOMAIN LoopById : LoopById[id].key = key}

\* What is registered once a timer of this key is to be added.
MakeRoom(key) == Marked(LoopById, IF key \in HashKeys THEN {} ELSE LoopKeyList(key))

With(byId, id, d) == [x \in DOMAIN byId \cup {id} |-> IF x = id THEN d ELSE byId[x]]
DelLoop(byId, ids) == Restrict(byId, DOMAIN byId \ ids)

-----------------------------------------------------------------------------
(* Calls of handlers and callbacks.                                        *)

\* The logic thread is in a handler or in a callback.
Calling == running # 0 \/ loopList = <<>>

Alloc ==
  /\ Calling /\ LoopId < MaxIds
  /\ LoopId' = LoopId + 1
  /\ UNCHANGED <<now, CallTime, loopList, running>>

\* With no time of day the timer starts at the last full second.
AddLoop(key, timeset, end, delay, max) ==
  LET d == CatchUp([key |-> key, LoopMax |-> max, LoopCount |-> 0, Time |-> timeset,
                    EndTime |-> end, Delay |-> delay, Delete |-> FALSE])
  IN /\ Alloc
     /\ delay # 0
     /\ IF max # 0 /\ d.LoopCount >= max
          THEN /\ LoopById' = MakeRoom(key)
               /\ UNCHANGED LoopList
          ELSE /\ LoopById' = With(MakeRoom(key), LoopId', d)
               /\ LoopList' = InsertToLoopList(LoopList, LoopById', LoopId')
     /\ UNCHANGED CallVec

\* Mutant: a second registration does not replace the first.
AddCall_kept(key, seconds) ==
  /\ Alloc
  /\ LoopById' = With(LoopById, LoopId', UpdateLoopNextTime(
       [key |-> key, LoopMax |-> 1, LoopCount |-> 0, Time |-> now, EndTime |-> 0,
        Delay |-> seconds, Delete |-> FALSE]))
  /\ IF seconds >= Wheel
       THEN /\ LoopList' = InsertToLoopList(LoopList, LoopById', LoopId')
            /\ UNCHANGED CallVec
       ELSE /\ CallVec' = [CallVec EXCEPT ![seconds + 1] = Append(@, LoopId')]
            /\ UNCHANGED LoopList

AddCall(key, seconds) ==
  /\ Alloc
  /\ LoopById' = With(MakeRoom(key), LoopId', UpdateLoopNextTime(
       [key |-> key, LoopMax |-> 1, LoopCount |-> 0, Time |-> now, EndTime |-> 0,
        Delay |-> seconds, Delete |-> FALSE]))
  /\ IF seconds >= Wheel
       THEN /\ LoopList' = InsertToLoopList(LoopList, LoopById', LoopId')
            /\ UNCHANGED CallVec
       ELSE /\ CallVec' = [CallVec EXCEPT ![seconds + 1] = Append(@, LoopId')]
            /\ UNCHANGED LoopList

RemoveLoop(id) ==
  /\ Calling
  /\ id \in DOMAIN LoopById /\ LoopById' = Marked(LoopById, {id})
  /\ UNCHANGED <<now, queues, LoopId, loopList, running>>

RemoveKey(key) ==
  /\ Calling
  /\ LoopById' = Marked(LoopById, LoopKeyList(key))
  /\ UNCHANGED <<now, queues, LoopId, loopList, running>>

-----------------------------------------------------------------------------
(* Process.                                                                *)

\* How many timers at the front of LoopList are removed or due.
DueLen ==
  LET later == {i \in DOMAIN LoopList : ~LoopById[LoopList[i]].Delete /\ now < LoopById[LoopList[i]].Time}
  IN IF later = {} THEN Len(LoopList) ELSE Min(later) - 1

Turns == now > CallTime + Second

Turned  == Append(Tail(CallVec), <<>>)
Untaken == SubSeq(LoopList, DueLen + 1, Len(LoopList))

\* What Process has taken out, but for the timers that are freed.
Spared(q, freed) ==
  LET kept[k \in 0..Len(q)] ==
        IF k = 0 THEN <<>>
        ELSE IF q[k] \in freed THEN kept[k - 1] ELSE Append(kept[k - 1], q[k])
  IN kept[Len(q)]

Process ==
  /\ running = 0 /\ loopList = <<>>
  /\ LET popped == SubSeq(LoopList, 1, DueLen)
         wheel  == IF Turns THEN Head(CallVec) ELSE <<>>
         taken  == popped \o wheel
         freed  == {id \in ToSet(popped) \cup ToSet(wheel) : LoopById[id].Delete}
                     \cup {id \in ToSet(popped) : CheckOvertime(LoopById[id])}
     IN /\ loopList' = Spared(taken, freed)
        /\ LoopById' = DelLoop(LoopById, freed)
        /\ LoopList' = Untaken
        /\ IF Turns
             THEN CallTime' = now /\ CallVec' = Turned
             ELSE UNCHANGED <<CallTime, CallVec>>
  /\ UNCHANGED <<now, LoopId, running>>

\* The next callback starts: removed or not, the timer is run.
OnTime ==
  /\ running = 0 /\ loopList # <<>>
  /\ loopList' = Tail(loopList)
  /\ LET id == Head(loopList)
     IN IF id \in DOMAIN LoopById
          THEN /\ running' = id
               /\ LoopById' = [LoopById EXCEPT ![id].LoopCount = @ + 1]
          ELSE UNCHANGED <<running, LoopById>>
  /\ UNCHANGED <<now, queues, LoopId>>

\* Mutant: one turn too many.
Finished_after(d) == d.LoopCount > d.LoopMax /\ d.LoopMax # 0

\* The callback returns.  When the timer has had its last turn, Process
\* returns too: what is left of loopList is in no queue any more.
Finished(d) == d.LoopCount >= d.LoopMax /\ d.LoopMax # 0

\* Mutants: inserted by the time that has passed; not inserted.
Again_stale(id) ==
  /\ LoopById' = [LoopById EXCEPT ![id] = UpdateLoopNextTime(@)]
  /\ LoopList' = InsertToLoopList(LoopList, LoopById, id)

Again_dropped(id) ==
  /\ LoopById' = [LoopById EXCEPT ![id] = UpdateLoopNextTime(@)]
  /\ UNCHANGED LoopList

Again(id) ==
  /\ LoopById' = [LoopById EXCEPT ![id] = UpdateLoopNextTime(@)]
  /\ LoopList' = InsertToLoopList(LoopList, LoopById', id)

Return ==
  /\ running # 0 /\ running' = 0
  /\ IF LoopById[running].Delete
       THEN UNCHANGED <<LoopById, LoopList, loopList>>
     ELSE IF Finished(LoopById[running])
       THEN /\ LoopById' = DelLoop(LoopById, {running})
            /\ loopList' = <<>>
            /\ UNCHANGED LoopList
       ELSE Again(running) /\ UNCHANGED loopList
  /\ UNCHANGED <<now, CallVec, CallTime, LoopId>>

Tick ==
  /\ now < MaxTime /\ now' = now + 1
  /\ UNCHANGED <<LoopById, queues, LoopId, loopList, running>>

-----------------------------------------------------------------------------
Init ==
  /\ now = 0 /\ LoopById = [id \in {} |-> 0] /\ LoopList = <<>>
  /\ CallVec = [i \in 1..Wheel |-> <<>>] /\ CallTime = 0
  /\ LoopId = 0 /\ loopList = <<>> /\ running = 0

Next ==
  \/ \E key \in Keys, delay \in Delays :
       \/ AddCall(key, delay)
       \/ \E start \in {s * Second : s \in Starts} \cup {now - (now % Second)},
             end \in {s * Second : s \in EndTimes}, max \in Loops :
            AddLoop(key, start, end, delay, max)
  \/ \E id \in Ids : RemoveLoop(id)
  \/ \E key \in Keys : RemoveKey(key)
  \/ Process \/ OnTime \/ Return \/ Tick

Spec == Init /\ [][Next]_vars

-----------------------------------------------------------------------------
(* Properties.                                                             *)

\* Every variable has its type.
TypeOK ==
  /\ now \in Nat /\ CallTime \in Nat /\ LoopId \in 0..MaxIds
  /\ DOMAIN LoopById \subseteq 1..LoopId /\ LoopById \in [DOMAIN LoopById -> CLoopData]
  /\ LoopList \in Seq(Ids) /\ loopList \in Seq(Ids) /\ running \in Ids \cup {0}
  /\ CallVec \in [1..Wheel -> Seq(Ids)]

InWheel(id) == \E i \in 1..Wheel : id \in ToSet(CallVec[i])
Waiting(id) == id \in ToSet(LoopList) \/ InWheel(id)
Pending(id) == Waiting(id) \/ id \in ToSet(loopList) \/ running = id

NoDangling == \A id \in Ids : Pending(id) => id \in DOMAIN LoopById

QueuedOnce ==
  /\ IsInjective(LoopList) /\ IsInjective(loopList)
  /\ \A i \in 1..Wheel : IsInjective(CallVec[i])
  /\ \A id \in ToSet(LoopList) : ~InWheel(id) /\ id \notin ToSet(loopList) /\ running # id
  /\ \A id \in ToSet(loopList) : ~InWheel(id) /\ running # id
  /\ \A i, j \in 1..Wheel : i # j => ToSet(CallVec[i]) \cap ToSet(CallVec[j]) = {}
  /\ ~InWheel(running)

Sorted == \A i, j \in DOMAIN LoopList :
  i < j => LoopById[LoopList[i]].Time <= LoopById[LoopList[j]].Time

\* The queues hold pointers to timers that callbacks free, mark and register
\* again while Process walks over them (systimemgr.cpp:393, 418).  None of
\* them has been freed, none is in two queues or in one twice, so that it
\* neither runs nor is freed twice, and LoopList stays in the order of time,
\* so that Process misses none when it stops at the first that is not due.
Queues == TypeOK /\ NoDangling /\ QueuedOnce /\ Sorted

\* A name without '#' stands for one timer at a time (systimemgr.h:275), also
\* when its callback registers it again.
OnePerKey == \A key \in Keys \ HashKeys :
  Cardinality({id \in LoopKeyList(key) : ~LoopById[id].Delete}) <= 1

\* No callback starts before its time or more often than it was asked for,
\* wherever the timer waited and however irregularly Process is called, turns
\* it was too late for included.
RunsInTime ==
  [][running = 0 /\ running' # 0 =>
       LET timer == LoopById[running'] IN
       /\ now >= timer.Time
       /\ timer.LoopMax # 0 => timer.LoopCount < timer.LoopMax]_vars

\* A timer that nobody removed leaves the queues only when it is freed, or
\* behind one that had its last turn (systimemgr.cpp:393): this is the exact
\* extent to which a timer with Loop = 0 stops (systimemgr.h:272 has it go on).
LostBehindFinished ==
  [][\A id \in DOMAIN LoopById :
       Pending(id) /\ ~LoopById[id].Delete /\ id \in DOMAIN LoopById' /\ ~Pending(id)'
         => running # 0 /\ running \notin DOMAIN LoopById']_vars
=============================================================================
