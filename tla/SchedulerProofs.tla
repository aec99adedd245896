--------------------------- MODULE SchedulerProofs ---------------------------
(***************************************************************************)
(* Proofs about Scheduler, for any number of processes, priorities, locks  *)
(* and events.                                                             *)
(***************************************************************************)
EXTENDS Scheduler, SequenceTheorems, TLAPS

-----------------------------------------------------------------------------
(***************************************************************************)
(* Arithmetic and queues.                                                  *)
(***************************************************************************)

\* A clamped priority selects one of the queues.
LEMMA ClampType == ASSUME NEW n \in Nat PROVE Clamp(n) \in Level
  BY SchedulerAssumption DEF Clamp, Level

\* A sleep counter cut to 32 bits is a natural number.
LEMMA AsUint32Type == ASSUME NEW r \in Int PROVE AsUint32(r) \in Nat
  BY SchedulerAssumption DEF AsUint32

\* push_back adds one member; a queue without it stays without duplicates.
LEMMA AppendFacts ==
  ASSUME NEW S, NEW q \in Seq(S), NEW e \in S
  PROVE  /\ Append(q, e) \in Seq(S)
         /\ Len(Append(q, e)) = Len(q) + 1
         /\ Append(q, e) # <<>>
         /\ \A x : Contains(Append(q, e), x) <=> Contains(q, x) \/ x = e
         /\ IsInjective(q) /\ ~Contains(q, e) => IsInjective(Append(q, e))
<1>1. /\ Append(q, e) \in Seq(S)
      /\ Len(Append(q, e)) = Len(q) + 1
      /\ \A i \in 1 .. Len(q) : Append(q, e)[i] = q[i]
      /\ Append(q, e)[Len(q) + 1] = e
  BY AppendProperties
<1>2. Len(q) \in Nat /\ DOMAIN q = 1 .. Len(q)
  BY LenProperties
<1>3. DOMAIN Append(q, e) = 1 .. Len(q) + 1
  BY <1>1, LenProperties
<1>4. Append(q, e) # <<>>
  BY <1>1, <1>2, EmptySeq
<1>5. \A x : Contains(Append(q, e), x) <=> Contains(q, x) \/ x = e
  BY <1>1, <1>2 DEF Contains
<1>6. IsInjective(q) /\ ~Contains(q, e) => IsInjective(Append(q, e))
  BY <1>1, <1>2, <1>3 DEF Contains, IsInjective
<1> QED BY <1>1, <1>4, <1>5, <1>6

\* pop_front removes exactly the front, when there are no duplicates.
LEMMA TailFacts ==
  ASSUME NEW S, NEW q \in Seq(S), q # <<>>
  PROVE  /\ Head(q) \in S
         /\ Tail(q) \in Seq(S)
         /\ Len(Tail(q)) = Len(q) - 1
         /\ Contains(q, Head(q))
         /\ IsInjective(q) =>
              /\ IsInjective(Tail(q))
              /\ \A x : Contains(Tail(q), x) <=> Contains(q, x) /\ x # Head(q)
<1>1. /\ Head(q) \in S /\ Tail(q) \in Seq(S)
      /\ Len(Tail(q)) = Len(q) - 1
      /\ \A i \in 1 .. Len(Tail(q)) : Tail(q)[i] = q[i + 1]
  BY HeadTailProperties
<1>2. Len(q) \in Nat /\ DOMAIN q = 1 .. Len(q) /\ Len(q) # 0
  BY LenProperties, EmptySeq
<1>3. DOMAIN Tail(q) = 1 .. Len(q) - 1
  BY <1>1, LenProperties
<1>4. Head(q) = q[1]
  OBVIOUS
<1>5. Contains(q, Head(q))
  BY <1>2, <1>4 DEF Contains
<1>6. ASSUME IsInjective(q)
      PROVE  /\ IsInjective(Tail(q))
             /\ \A x : Contains(Tail(q), x) <=> Contains(q, x) /\ x # Head(q)
  <2>1. IsInjective(Tail(q))
    BY <1>1, <1>2, <1>3, <1>6 DEF IsInjective
  <2>2. ASSUME NEW x, Contains(Tail(q), x) PROVE Contains(q, x) /\ x # Head(q)
    <3>1. PICK i \in 1 .. Len(q) - 1 : q[i + 1] = x
      BY <1>1, <2>2 DEF Contains
    <3>2. i + 1 \in 1 .. Len(q) /\ i + 1 # 1
      BY <1>2
    <3> QED BY <1>2, <1>4, <1>6, <3>1, <3>2 DEF Contains, IsInjective
  <2>3. ASSUME NEW x, Contains(q, x), x # Head(q) PROVE Contains(Tail(q), x)
    <3>1. PICK i \in 1 .. Len(q) : q[i] = x
      BY <2>3 DEF Contains
    <3>2. i - 1 \in 1 .. Len(Tail(q))
      BY <1>1, <1>2, <1>4, <2>3, <3>1
    <3>3. Tail(q)[i - 1] = x
      BY <1>1, <3>1, <3>2
    <3> QED BY <3>2, <3>3 DEF Contains
  <2> QED BY <2>1, <2>2, <2>3
<1> QED BY <1>1, <1>5, <1>6

\* The empty queue has no member and no duplicate.
LEMMA EmptyFacts == IsInjective(<<>>) /\ \A x : ~Contains(<<>>, x)
  BY DEF IsInjective, Contains

-----------------------------------------------------------------------------
(***************************************************************************)
(* Types.  What TypeOK needs to be inductive is where control stands: the  *)
(* loops of tickSleepers_ and of SignalEvent stay within their queue, and  *)
(* a trap has a process.                                                   *)
(***************************************************************************)
Control ==
    /\ phase = "tick" => todo <= Len(sleeping)
    /\ phase \in {"idle", "tick"} => cur = NoProc
    /\ phase \in {"cpu", "signal", "cleanup"} => cur \in Proc
    /\ phase = "signal" => todo \in EventId

LockType  == [held : BOOLEAN, ownerPid : Proc \cup {NoProc}, waitQueue : Seq(Proc)]
EventType == [signaled : BOOLEAN, waitQueue : Seq(Proc)]

TInv == TypeOK /\ Control

\* An event that is signalled, or whose queue changes, keeps its type.
LEMMA EventUpdate ==
  ASSUME events \in [EventId -> EventType], NEW e \in EventId, NEW q \in Seq(Proc)
  PROVE  /\ [events EXCEPT ![e].signaled = TRUE] \in [EventId -> EventType]
         /\ [events EXCEPT ![e].waitQueue = q] \in [EventId -> EventType]
<1>1. events[e] \in EventType
  OBVIOUS
<1>2. /\ [events[e] EXCEPT !.signaled = TRUE] \in EventType
      /\ [events[e] EXCEPT !.waitQueue = q] \in EventType
  BY <1>1 DEF EventType
<1> QED BY <1>2

\* Pushing a process onto its ready queue.
LEMMA PushFacts ==
  ASSUME TypeOK, NEW rdy \in [Level -> Seq(Proc)], NEW p \in Proc
  PROVE  LET c == Clamp(priority[p]) IN
         /\ c \in Level
         /\ Push(rdy, p) \in [Level -> Seq(Proc)]
         /\ \A k \in Level, x \in Proc :
              Contains(Push(rdy, p)[k], x) <=> Contains(rdy[k], x) \/ (k = c /\ x = p)
         /\ \A k \in Level : IsInjective(rdy[k]) /\ ~Contains(rdy[c], p)
              => IsInjective(Push(rdy, p)[k])
<1> DEFINE c == Clamp(priority[p])
<1>1. c \in Level
  BY ClampType DEF TypeOK
<1>2. rdy[c] \in Seq(Proc)
  BY <1>1
<1>3. /\ Append(rdy[c], p) \in Seq(Proc)
      /\ \A x : Contains(Append(rdy[c], p), x) <=> Contains(rdy[c], x) \/ x = p
      /\ IsInjective(rdy[c]) /\ ~Contains(rdy[c], p) => IsInjective(Append(rdy[c], p))
  BY <1>2, AppendFacts
<1>4. Push(rdy, p) = [rdy EXCEPT ![c] = Append(rdy[c], p)]
  BY DEF Push
<1> HIDE DEF c
<1>5. /\ Push(rdy, p) \in [Level -> Seq(Proc)]
      /\ Push(rdy, p)[c] = Append(rdy[c], p)
      /\ \A k \in Level : k # c => Push(rdy, p)[k] = rdy[k]
  BY <1>1, <1>3, <1>4
<1>6. \A k \in Level, x \in Proc :
        Contains(Push(rdy, p)[k], x) <=> Contains(rdy[k], x) \/ (k = c /\ x = p)
  BY <1>3, <1>5
<1>7. \A k \in Level : IsInjective(rdy[k]) /\ ~Contains(rdy[c], p)
        => IsInjective(Push(rdy, p)[k])
  BY <1>3, <1>5
<1> QED BY <1>1, <1>5, <1>6, <1>7 DEF c

\* A released lock is a lock.
LEMMA ReleasedType ==
  ASSUME NEW k \in LockType PROVE Released(k) \in LockType
<1>1. CASE k.waitQueue = <<>>
  BY <1>1, EmptySeq DEF Released, LockType
<1>2. CASE k.waitQueue # <<>>
  <2>1. Head(k.waitQueue) \in Proc /\ Tail(k.waitQueue) \in Seq(Proc)
    BY <1>2, TailFacts DEF LockType
  <2> QED BY <1>2, <2>1 DEF Released, LockType
<1> QED BY <1>1, <1>2

\* The constructor of OS establishes the types.
LEMMA InitTInv == Init => TInv
  BY SchedulerAssumption, EmptySeq DEF Init, TInv, TypeOK, Control, Level, ProcState

\* The next turn of the loop.
LEMMA NextIterationFacts ==
  ASSUME NEW slp \in Seq(Proc), NextIteration(slp), sleeping' = slp
  PROVE  /\ Control'
         /\ phase' \in {"idle", "tick", "cpu", "signal", "cleanup"}
         /\ todo' \in Nat
         /\ cur' \in Proc \cup {NoProc}
         /\ cur' = NoProc /\ phase' = "tick"
  BY LenProperties DEF NextIteration, Control

\* Every step of the OS keeps the types.
LEMMA TInvStep == TInv /\ [Next]_vars => TInv'
<1> SUFFICES ASSUME TInv, [Next]_vars PROVE TInv'
  OBVIOUS
<1> USE SchedulerAssumption
<1>a. TypeOK /\ Control
  BY DEF TInv
<1>1. ASSUME NEW p \in Proc, NEW prio \in Priorities, CreateProcess(p, prio)
      PROVE  TInv'
  <2>1. Clamp(prio) \in Level /\ prio \in Nat
    BY ClampType
  <2>2. ready[Clamp(prio)] \in Seq(Proc)
    BY <1>a, <2>1 DEF TypeOK
  <2>3. Append(ready[Clamp(prio)], p) \in Seq(Proc)
    BY <2>2
  <2> QED BY <1>a, <1>1, <2>1, <2>3 DEF TInv, TypeOK, Control, CreateProcess, ProcState
<1>2. CASE Run
  BY <1>a, <1>2, NextIterationFacts DEF TInv, TypeOK, Run
<1>3. CASE TickSleeper
  <2> DEFINE p == Head(sleeping)
             c == IF sleepCounter[p] > 0 THEN sleepCounter[p] - 1 ELSE 0
  <2>1. sleeping # <<>> /\ sleeping \in Seq(Proc)
    BY <1>a, <1>3, EmptySeq DEF TickSleeper, TypeOK, Control
  <2>2. /\ p \in Proc /\ Tail(sleeping) \in Seq(Proc)
        /\ Len(Tail(sleeping)) = Len(sleeping) - 1
    BY <2>1, TailFacts
  <2>3. /\ Append(Tail(sleeping), p) \in Seq(Proc)
        /\ Len(Append(Tail(sleeping), p)) = Len(sleeping)
    BY <2>1, <2>2, AppendFacts, LenProperties
  <2>4. c \in Nat /\ Push(ready, p) \in [Level -> Seq(Proc)]
    <3>1. sleepCounter[p] \in Nat
      BY <1>a, <2>2 DEF TypeOK
    <3>2. ready \in [Level -> Seq(Proc)]
      BY <1>a DEF TypeOK
    <3>3. c \in Nat
      BY <3>1
    <3> HIDE DEF p, c
    <3>4. Push(ready, p) \in [Level -> Seq(Proc)]
      BY <1>a, <2>2, <3>2, PushFacts
    <3> QED BY <3>3, <3>4
  <2>5. Len(sleeping) \in Nat
    BY <2>1, LenProperties
  <2>6. /\ phase = "tick" /\ todo > 0 /\ todo' = todo - 1
        /\ UNCHANGED <<phase, cur, priority, locks, events>>
        /\ \/ /\ sleeping' = Tail(sleeping)
              /\ UNCHANGED <<sleepCounter, state, ready>>
           \/ /\ sleepCounter' = [sleepCounter EXCEPT ![p] = c]
              /\ sleeping' = Tail(sleeping)
              /\ state' = [state EXCEPT ![p] = "Ready"]
              /\ ready' = Push(ready, p)
           \/ /\ sleepCounter' = [sleepCounter EXCEPT ![p] = c]
              /\ sleeping' = Append(Tail(sleeping), p)
              /\ UNCHANGED <<state, ready>>
    BY <1>3 DEF TickSleeper
  <2> HIDE DEF p, c
  <2>7. Control'
    BY <1>a, <2>2, <2>3, <2>5, <2>6 DEF Control, TypeOK
  <2>8. sleeping' \in Seq(Proc) /\ ready' \in [Level -> Seq(Proc)]
    BY <1>a, <2>2, <2>3, <2>4, <2>6 DEF TypeOK
  <2>9. sleepCounter' \in [Proc -> Nat]
    BY <1>a, <2>2, <2>4, <2>6 DEF TypeOK
  <2>10. state' \in [Proc -> ProcState]
    <3>1. state \in [Proc -> ProcState] /\ "Ready" \in ProcState
      BY <1>a DEF TypeOK, ProcState
    <3> QED BY <2>6, <3>1
  <2>11. todo' \in Nat
    BY <1>a, <2>6 DEF TypeOK
  <2> QED BY <1>a, <2>6, <2>7, <2>8, <2>9, <2>10, <2>11 DEF TInv, TypeOK
<1>4. CASE Dispatch
  <2>1. PICK k \in Nonempty :
          /\ ready' = [ready EXCEPT ![k] = Tail(@)]
          /\ IF state[Head(ready[k])] = "Terminated"
             THEN NextIteration(sleeping) /\ UNCHANGED state
             ELSE /\ phase' = "cpu" /\ cur' = Head(ready[k])
                  /\ state' = [state EXCEPT ![Head(ready[k])] = "Running"]
                  /\ UNCHANGED todo
    BY <1>4 DEF Dispatch
  <2>2. k \in Level /\ ready[k] \in Seq(Proc) /\ ready[k] # <<>>
    BY <1>a DEF Nonempty, TypeOK
  <2>3. Head(ready[k]) \in Proc /\ Tail(ready[k]) \in Seq(Proc)
    BY <2>2, TailFacts
  <2>4. UNCHANGED <<priority, sleepCounter, sleeping, locks, events>>
    BY <1>4 DEF Dispatch
  <2>5. CASE state[Head(ready[k])] = "Terminated"
    BY <1>a, <2>1, <2>2, <2>3, <2>4, <2>5, NextIterationFacts DEF TInv, TypeOK
  <2>6. CASE state[Head(ready[k])] # "Terminated"
    BY <1>a, <2>1, <2>2, <2>3, <2>4, <2>6 DEF TInv, TypeOK, Control, ProcState
  <2> QED BY <2>5, <2>6
<1>5. CASE SpinForSleepers
  BY <1>a, <1>5, NextIterationFacts DEF TInv, TypeOK, SpinForSleepers
<1>6. CASE Return
  BY <1>a, <1>6 DEF TInv, TypeOK, Control, Return
<1>7. CASE Requeue
  <2>1. cur \in Proc
    BY <1>a, <1>7 DEF Requeue, Control
  <2>2. Push(ready, cur) \in [Level -> Seq(Proc)]
    BY <1>a, <2>1, PushFacts DEF TypeOK
  <2> QED BY <1>a, <1>7, <2>1, <2>2, NextIterationFacts
          DEF TInv, TypeOK, Requeue, ProcState
<1>8. CASE Exit
  BY <1>a, <1>8 DEF TInv, TypeOK, Control, Exit, ProcState
<1>9. ASSUME NEW r \in Args, Sleep(r) PROVE TInv'
  <2>1. cur \in Proc /\ sleeping \in Seq(Proc)
    BY <1>a, <1>9 DEF Sleep, Control, TypeOK
  <2>2. Append(sleeping, cur) \in Seq(Proc)
    BY <2>1
  <2>3. AsUint32(r) \in Nat
    BY AsUint32Type
  <2> QED BY <1>a, <1>9, <2>1, <2>2, <2>3, NextIterationFacts
          DEF TInv, TypeOK, Sleep, ProcState
<1>10. ASSUME NEW r \in Args, AcquireLock(r) PROVE TInv'
  <2> DEFINE l == AsInt(r)
  <2>1. cur \in Proc
    BY <1>a, <1>10 DEF AcquireLock, Control
  <2>2. Push(ready, cur) \in [Level -> Seq(Proc)]
    BY <1>a, <2>1, PushFacts DEF TypeOK
  <2>3. /\ NextIteration(sleeping)
        /\ UNCHANGED <<priority, sleepCounter, sleeping, events>>
    BY <1>10 DEF AcquireLock
  <2>4. ready' \in [Level -> Seq(Proc)] /\ state' \in [Proc -> ProcState]
    BY <1>a, <1>10, <2>1, <2>2 DEF AcquireLock, TypeOK, ProcState
  <2>5. locks' \in [LockId -> LockType]
    <3>1. locks \in [LockId -> LockType]
      BY <1>a DEF TypeOK, LockType
    <3>2. CASE UNCHANGED locks
      BY <3>1, <3>2
    <3>3. CASE l \in LockId /\ locks' = [locks EXCEPT ![l].held = TRUE,
                                                    ![l].ownerPid = cur]
      BY <2>1, <3>1, <3>3 DEF LockType
    <3>4. CASE l \in LockId /\ locks' = [locks EXCEPT ![l].waitQueue = Append(@, cur)]
      <4>1. locks[l].waitQueue \in Seq(Proc)
        BY <3>1, <3>4 DEF LockType
      <4>2. Append(locks[l].waitQueue, cur) \in Seq(Proc)
        BY <2>1, <4>1
      <4> QED BY <3>1, <3>4, <4>2 DEF LockType
    <3> QED BY <1>10, <3>2, <3>3, <3>4 DEF AcquireLock
  <2> QED BY <1>a, <2>3, <2>4, <2>5, NextIterationFacts DEF TInv, TypeOK, LockType
<1>11. ASSUME NEW r \in Args, ReleaseLock(r) PROVE TInv'
  <2> DEFINE l == AsInt(r)
  <2>1. cur \in Proc
    BY <1>a, <1>11 DEF ReleaseLock, Control
  <2>2. /\ NextIteration(sleeping)
        /\ UNCHANGED <<priority, sleepCounter, sleeping, events>>
    BY <1>11 DEF ReleaseLock
  <2>3. CASE l \in LockId /\ Owns(cur, l) /\ locks[l].waitQueue # <<>>
    <3> DEFINE q == Head(locks[l].waitQueue)
    <3>1. q \in Proc /\ Released(locks[l]) \in LockType
      BY <1>a, <2>3, TailFacts, ReleasedType DEF TypeOK, LockType
    <3>2. Push(ready, q) \in [Level -> Seq(Proc)]
      BY <1>a, <3>1, PushFacts DEF TypeOK
    <3>3. Push(Push(ready, q), cur) \in [Level -> Seq(Proc)]
      BY <1>a, <2>1, <3>2, PushFacts
    <3>4. /\ state' = [state EXCEPT ![q] = "Ready", ![cur] = "Ready"]
          /\ ready' = Push(Push(ready, q), cur)
          /\ locks' = [locks EXCEPT ![l] = Released(@)]
      BY <1>11, <2>3 DEF ReleaseLock
    <3> HIDE DEF q, l
    <3> QED BY <1>a, <2>1, <2>2, <3>1, <3>3, <3>4, NextIterationFacts
            DEF TInv, TypeOK, ProcState, LockType
  <2>4. CASE ~(l \in LockId /\ Owns(cur, l) /\ locks[l].waitQueue # <<>>)
    <3>1. Push(ready, cur) \in [Level -> Seq(Proc)]
      BY <1>a, <2>1, PushFacts DEF TypeOK
    <3>2. /\ state' = [state EXCEPT ![cur] = "Ready"]
          /\ ready' = Push(ready, cur)
      BY <1>11, <2>4 DEF ReleaseLock
    <3>3. locks' \in [LockId -> LockType]
      <4>1. locks \in [LockId -> LockType]
        BY <1>a DEF TypeOK, LockType
      <4>2. \/ UNCHANGED locks
            \/ l \in LockId /\ locks' = [locks EXCEPT ![l] = Released(locks[l])]
        BY <1>11, <2>4 DEF ReleaseLock
      <4> HIDE DEF l
      <4> QED BY <4>1, <4>2, ReleasedType
    <3> QED BY <1>a, <2>1, <2>2, <3>1, <3>2, <3>3, NextIterationFacts
            DEF TInv, TypeOK, ProcState, LockType
  <2> QED BY <2>3, <2>4
<1>12. ASSUME NEW r \in Args, WaitEvent(r) PROVE TInv'
  <2>1. cur \in Proc
    BY <1>a, <1>12 DEF WaitEvent, Control
  <2>2. Push(ready, cur) \in [Level -> Seq(Proc)]
    BY <1>a, <2>1, PushFacts DEF TypeOK
  <2>3. /\ NextIteration(sleeping)
        /\ UNCHANGED <<priority, sleepCounter, sleeping, locks>>
    BY <1>12 DEF WaitEvent
  <2>4. ready' \in [Level -> Seq(Proc)] /\ state' \in [Proc -> ProcState]
    BY <1>a, <1>12, <2>1, <2>2 DEF WaitEvent, TypeOK, ProcState
  <2>5. events' \in [EventId -> [signaled : BOOLEAN, waitQueue : Seq(Proc)]]
    <3> DEFINE e == AsInt(r)
    <3>1. events \in [EventId -> EventType]
      BY <1>a DEF TypeOK, EventType
    <3>2. CASE UNCHANGED events
      BY <3>1, <3>2 DEF EventType
    <3>3. CASE e \in EventId /\ events' = [events EXCEPT ![e].signaled = FALSE]
      BY <3>1, <3>3 DEF EventType
    <3>4. CASE e \in EventId /\ events' = [events EXCEPT ![e].waitQueue = Append(@, cur)]
      <4>1. events[e].waitQueue \in Seq(Proc)
        BY <3>1, <3>4 DEF EventType
      <4>2. Append(events[e].waitQueue, cur) \in Seq(Proc)
        BY <2>1, <4>1
      <4> QED BY <3>1, <3>4, <4>2 DEF EventType
    <3> QED BY <1>12, <3>2, <3>3, <3>4 DEF WaitEvent
  <2> QED BY <1>a, <2>3, <2>4, <2>5, NextIterationFacts DEF TInv, TypeOK
<1>13. ASSUME NEW r \in Args, SignalEvent(r) PROVE TInv'
  <2>1. cur \in Proc
    BY <1>a, <1>13 DEF SignalEvent, Control
  <2>2. Push(ready, cur) \in [Level -> Seq(Proc)]
    BY <1>a, <2>1, PushFacts DEF TypeOK
  <2>3. UNCHANGED <<priority, sleepCounter, sleeping, locks>>
    BY <1>13 DEF SignalEvent
  <2>4. ready' \in [Level -> Seq(Proc)] /\ state' \in [Proc -> ProcState]
    BY <1>a, <1>13, <2>1, <2>2 DEF SignalEvent, TypeOK, ProcState
  <2>5. events' \in [EventId -> [signaled : BOOLEAN, waitQueue : Seq(Proc)]]
    <3>1. \/ UNCHANGED events
          \/ /\ AsInt(r) \in EventId
             /\ events' = [events EXCEPT ![AsInt(r)].signaled = TRUE]
      BY <1>13 DEF SignalEvent
    <3>2. events \in [EventId -> EventType] /\ <<>> \in Seq(Proc)
      BY <1>a DEF TypeOK, EventType
    <3>3. events' \in [EventId -> EventType]
      BY <3>1, <3>2, EventUpdate
    <3> QED BY <3>3 DEF EventType
  <2>6. CASE NextIteration(sleeping)
    <3>1. sleeping \in Seq(Proc) /\ sleeping' = sleeping
      BY <1>a, <2>3 DEF TypeOK
    <3>2. /\ Control' /\ todo' \in Nat /\ cur' \in Proc \cup {NoProc}
          /\ phase' \in {"idle", "tick", "cpu", "signal", "cleanup"}
      BY <2>6, <3>1, NextIterationFacts
    <3> QED BY <1>a, <2>3, <2>4, <2>5, <3>2 DEF TInv, TypeOK
  <2>7. CASE ~NextIteration(sleeping)
    <3>1. /\ AsInt(r) \in EventId /\ phase' = "signal" /\ todo' = AsInt(r)
          /\ UNCHANGED <<cur, state, ready, events>>
      BY <1>13, <2>7 DEF SignalEvent
    <3>2. todo' \in Nat /\ todo' \in EventId
      BY <3>1 DEF EventId
    <3> QED BY <1>a, <2>1, <2>3, <3>1, <3>2 DEF TInv, TypeOK, Control
  <2> QED BY <2>6, <2>7
<1>14. CASE SignalWake
  <2> DEFINE q == Head(events[todo].waitQueue)
  <2>1. todo \in EventId /\ events[todo].waitQueue \in Seq(Proc)
    BY <1>a, <1>14 DEF SignalWake, Control, TypeOK
  <2>2. q \in Proc /\ Tail(events[todo].waitQueue) \in Seq(Proc)
    BY <1>14, <2>1, TailFacts DEF SignalWake
  <2>3. Push(ready, q) \in [Level -> Seq(Proc)]
    BY <1>a, <2>2, PushFacts DEF TypeOK
  <2>4. /\ state' = [state EXCEPT ![q] = "Ready"]
        /\ ready' = Push(ready, q)
        /\ events' = [events EXCEPT ![todo].waitQueue = Tail(@)]
        /\ phase = "signal"
        /\ UNCHANGED <<phase, todo, cur, priority, sleepCounter, sleeping, locks>>
    BY <1>14 DEF SignalWake
  <2> HIDE DEF q
  <2>5. events' \in [EventId -> [signaled : BOOLEAN, waitQueue : Seq(Proc)]]
    <3>1. events \in [EventId -> EventType]
      BY <1>a DEF TypeOK, EventType
    <3>2. events' = [events EXCEPT ![todo].waitQueue = Tail(events[todo].waitQueue)]
      BY <2>4
    <3>3. events' \in [EventId -> EventType]
      BY <2>1, <2>2, <3>1, <3>2, EventUpdate
    <3> QED BY <3>3 DEF EventType
  <2>6. state' \in [Proc -> ProcState]
    <3>1. state \in [Proc -> ProcState] /\ "Ready" \in ProcState
      BY <1>a DEF TypeOK, ProcState
    <3> QED BY <2>4, <3>1
  <2>7. ready' \in [Level -> Seq(Proc)]
    BY <2>3, <2>4
  <2>8. Control'
    BY <1>a, <2>1, <2>4 DEF Control
  <2>9. TypeOK'
    BY <1>a, <2>4, <2>5, <2>6, <2>7 DEF TypeOK
  <2> QED BY <2>8, <2>9 DEF TInv
<1>15. CASE SignalDone
  <2>1. cur \in Proc
    BY <1>a, <1>15 DEF SignalDone, Control
  <2>2. Push(ready, cur) \in [Level -> Seq(Proc)]
    BY <1>a, <2>1, PushFacts DEF TypeOK
  <2> QED BY <1>a, <1>15, <2>1, <2>2, NextIterationFacts
          DEF TInv, TypeOK, SignalDone, ProcState
<1>16. CASE CleanupLock
  <2>1. cur \in Proc /\ todo \in LockId
    BY <1>a, <1>16 DEF CleanupLock, Control
  <2>2. CASE Owns(cur, todo) /\ locks[todo].waitQueue # <<>>
    <3> DEFINE q == Head(locks[todo].waitQueue)
    <3>1. q \in Proc /\ Released(locks[todo]) \in LockType
      BY <1>a, <2>1, <2>2, TailFacts, ReleasedType DEF TypeOK, LockType
    <3>2. Push(ready, q) \in [Level -> Seq(Proc)]
      BY <1>a, <3>1, PushFacts DEF TypeOK
    <3>3. /\ state' = [state EXCEPT ![q] = "Ready"]
          /\ ready' = Push(ready, q)
          /\ locks' = [locks EXCEPT ![todo] = Released(@)]
          /\ phase = "cleanup" /\ todo' = todo + 1
          /\ UNCHANGED <<phase, cur, priority, sleepCounter, sleeping, events>>
      BY <1>16, <2>2 DEF CleanupLock
    <3> HIDE DEF q
    <3> QED BY <1>a, <2>1, <3>1, <3>2, <3>3
            DEF TInv, TypeOK, Control, ProcState, LockType
  <2>3. CASE ~(Owns(cur, todo) /\ locks[todo].waitQueue # <<>>)
    <3>1. /\ UNCHANGED <<phase, cur, state, priority, sleepCounter, ready,
                         sleeping, events>>
          /\ phase = "cleanup" /\ todo' = todo + 1
      BY <1>16, <2>3 DEF CleanupLock
    <3>2. locks' \in [LockId -> LockType]
      <4>1. locks \in [LockId -> LockType]
        BY <1>a DEF TypeOK, LockType
      <4>2. UNCHANGED locks \/ locks' = [locks EXCEPT ![todo] = Released(locks[todo])]
        BY <1>16, <2>3 DEF CleanupLock
      <4> QED BY <2>1, <4>1, <4>2, ReleasedType
    <3> QED BY <1>a, <2>1, <3>1, <3>2 DEF TInv, TypeOK, Control, LockType
  <2> QED BY <2>2, <2>3
<1>17. CASE CleanupDone
  BY <1>a, <1>17, NextIterationFacts DEF TInv, TypeOK, CleanupDone
<1>18. CASE UNCHANGED vars
  BY <1>a, <1>18 DEF TInv, TypeOK, Control, vars
<1> QED BY <1>1, <1>2, <1>3, <1>4, <1>5, <1>6, <1>7, <1>8, <1>9, <1>10, <1>11,
          <1>12, <1>13, <1>14, <1>15, <1>16, <1>17, <1>18
       DEF Next, LoopStep, TrapStep, HandlerStep

\* Type correctness: in particular no queue is popped when it is empty, no
\* lock or event is indexed out of its array, and sleepCounter never wraps.
THEOREM TypeCorrect == Spec => []TypeOK
<1>1. Init => TInv
  BY InitTInv
<1>2. TInv /\ [Next]_vars => TInv'
  BY TInvStep
<1>3. TInv => TypeOK
  BY DEF TInv
<1> QED BY <1>1, <1>2, <1>3, PTL DEF Spec

-----------------------------------------------------------------------------
(***************************************************************************)
(* The queues.  QueuedOnce and NobodyLost together say that each kind of   *)
(* queue agrees with the process states; the parts below say it of a given *)
(* queue and a given state function, so that a step can be followed one    *)
(* move at a time.                                                         *)
(***************************************************************************)
ReadyOK(rdy, st) ==
    \A k \in Level :
        /\ IsInjective(rdy[k])
        /\ \A p \in Proc : Contains(rdy[k], p) <=>
                           st[p] = "Ready" /\ Clamp(priority[p]) = k

SleepOK(slp, st) ==
    /\ IsInjective(slp)
    /\ \A p \in Proc : Contains(slp, p) <=> st[p] = "WaitingSleep"

\* Wait queues wq of the locks or of the events, indexed by Id.
WaitOK(Id, wq, w, st) ==
    /\ \A i \in Id : IsInjective(wq[i])
    /\ \A p \in Proc, i, j \in Id :
         Contains(wq[i], p) /\ Contains(wq[j], p) => i = j
    /\ \A p \in Proc : (\E i \in Id : Contains(wq[i], p)) <=> st[p] = w

LockQueues  == [l \in LockId |-> locks[l].waitQueue]
EventQueues == [e \in EventId |-> events[e].waitQueue]

RunOK == \A p \in Proc : state[p] = "Running" <=> p = cur /\ phase \in {"cpu", "signal"}

Queues ==
    /\ ReadyOK(ready, state)
    /\ SleepOK(sleeping, state)
    /\ WaitOK(LockId, LockQueues, "WaitingLock", state)
    /\ WaitOK(EventId, EventQueues, "WaitingEvent", state)
    /\ RunOK

CleanupDead == phase = "cleanup" => state[cur] = "Terminated"

QInv == TInv /\ Queues /\ CleanupDead

\* The parts make up the two properties.
LEMMA QueuesSuffice == TypeOK /\ Queues => QueuedOnce /\ NobodyLost
<1> SUFFICES ASSUME TypeOK, Queues PROVE QueuedOnce /\ NobodyLost
  OBVIOUS
<1>1. \A p \in Proc : Clamp(priority[p]) \in Level
  BY ClampType DEF TypeOK
<1>2. \A l \in LockId : LockQueues[l] = locks[l].waitQueue
  BY DEF LockQueues
<1>3. \A e \in EventId : EventQueues[e] = events[e].waitQueue
  BY DEF EventQueues
<1>4. QueuedOnce
  BY <1>2, <1>3 DEF Queues, QueuedOnce, ReadyOK, SleepOK, WaitOK
<1>5. NobodyLost
  BY <1>1, <1>2, <1>3 DEF Queues, NobodyLost, ReadyOK, SleepOK, WaitOK, RunOK
<1> QED BY <1>4, <1>5

\* enqueueReady_ of a process that is not ready.
LEMMA ReadyPush ==
  ASSUME TypeOK, NEW rdy \in [Level -> Seq(Proc)], NEW st \in [Proc -> ProcState],
         ReadyOK(rdy, st), NEW p \in Proc, st[p] # "Ready"
  PROVE  ReadyOK(Push(rdy, p), [st EXCEPT ![p] = "Ready"])
<1>1. /\ Clamp(priority[p]) \in Level
      /\ \A k \in Level, x \in Proc :
           Contains(Push(rdy, p)[k], x) <=>
             Contains(rdy[k], x) \/ (k = Clamp(priority[p]) /\ x = p)
      /\ \A k \in Level : IsInjective(rdy[k]) /\ ~Contains(rdy[Clamp(priority[p])], p)
           => IsInjective(Push(rdy, p)[k])
  BY PushFacts
<1> QED BY <1>1 DEF ReadyOK

\* pickNextReady_ takes the front of a queue.
LEMMA ReadyPop ==
  ASSUME TypeOK, ReadyOK(ready, state), NEW k \in Level, ready[k] # <<>>,
         NEW s \in ProcState, s # "Ready"
  PROVE  LET p == Head(ready[k])
         IN  /\ p \in Proc /\ state[p] = "Ready" /\ Clamp(priority[p]) = k
             /\ ReadyOK([ready EXCEPT ![k] = Tail(@)], [state EXCEPT ![p] = s])
<1> DEFINE p == Head(ready[k])
<1>1. ready[k] \in Seq(Proc) /\ IsInjective(ready[k])
  BY DEF TypeOK, ReadyOK
<1>2. /\ p \in Proc /\ Contains(ready[k], p)
      /\ IsInjective(Tail(ready[k]))
      /\ \A x : Contains(Tail(ready[k]), x) <=> Contains(ready[k], x) /\ x # p
  BY <1>1, TailFacts
<1>3. ready \in [Level -> Seq(Proc)] /\ state \in [Proc -> ProcState]
  BY DEF TypeOK
<1> HIDE DEF p
<1>4. state[p] = "Ready" /\ Clamp(priority[p]) = k
  BY <1>2 DEF ReadyOK
<1>5. ReadyOK([ready EXCEPT ![k] = Tail(@)], [state EXCEPT ![p] = s])
  BY <1>2, <1>3, <1>4 DEF ReadyOK
<1> QED BY <1>2, <1>4, <1>5 DEF p

\* A step that makes nobody start or stop sleeping.
LEMMA SleepKeep ==
  ASSUME NEW slp, NEW st, NEW su, SleepOK(slp, st),
         \A p \in Proc : st[p] = "WaitingSleep" <=> su[p] = "WaitingSleep"
  PROVE  SleepOK(slp, su)
  BY DEF SleepOK

\* A step that makes nobody start or stop waiting.
LEMMA WaitKeep ==
  ASSUME NEW Id, NEW wq, NEW w, NEW st, NEW su, WaitOK(Id, wq, w, st),
         \A p \in Proc : st[p] = w <=> su[p] = w
  PROVE  WaitOK(Id, wq, w, su)
  BY DEF WaitOK

\* sleeping_.push_back of a process that does not sleep.
LEMMA SleepPush ==
  ASSUME NEW slp \in Seq(Proc), NEW st \in [Proc -> ProcState], SleepOK(slp, st),
         NEW p \in Proc, st[p] # "WaitingSleep"
  PROVE  SleepOK(Append(slp, p), [st EXCEPT ![p] = "WaitingSleep"])
<1>1. /\ \A x : Contains(Append(slp, p), x) <=> Contains(slp, x) \/ x = p
      /\ IsInjective(slp) /\ ~Contains(slp, p) => IsInjective(Append(slp, p))
  BY AppendFacts
<1> QED BY <1>1 DEF SleepOK

\* The front of the sleep list is taken off it, or moved to its end.
LEMMA SleepPop ==
  ASSUME NEW slp \in Seq(Proc), slp # <<>>, NEW st \in [Proc -> ProcState],
         SleepOK(slp, st)
  PROVE  LET p == Head(slp)
         IN  /\ p \in Proc /\ st[p] = "WaitingSleep"
             /\ SleepOK(Tail(slp), [st EXCEPT ![p] = "Ready"])
             /\ SleepOK(Append(Tail(slp), p), st)
<1> DEFINE p == Head(slp)
<1>1. /\ p \in Proc /\ Tail(slp) \in Seq(Proc) /\ Contains(slp, p)
      /\ IsInjective(Tail(slp))
      /\ \A x : Contains(Tail(slp), x) <=> Contains(slp, x) /\ x # p
  BY TailFacts DEF SleepOK
<1> HIDE DEF p
<1>2. st[p] = "WaitingSleep"
  BY <1>1 DEF SleepOK
<1>3. SleepOK(Tail(slp), [st EXCEPT ![p] = "Ready"])
  BY <1>1 DEF SleepOK
<1>4. /\ \A x : Contains(Append(Tail(slp), p), x) <=> Contains(Tail(slp), x) \/ x = p
      /\ IsInjective(Append(Tail(slp), p))
  BY <1>1, AppendFacts
<1>5. SleepOK(Append(Tail(slp), p), st)
  BY <1>1, <1>2, <1>4 DEF SleepOK
<1> QED BY <1>1, <1>2, <1>3, <1>5 DEF p

\* A process starts to wait for i.
LEMMA WaitPush ==
  ASSUME NEW Id, NEW wq \in [Id -> Seq(Proc)], NEW w \in ProcState,
         NEW st \in [Proc -> ProcState], WaitOK(Id, wq, w, st),
         NEW i \in Id, NEW p \in Proc, st[p] # w
  PROVE  WaitOK(Id, [wq EXCEPT ![i] = Append(@, p)], w, [st EXCEPT ![p] = w])
<1> DEFINE wr == [wq EXCEPT ![i] = Append(@, p)]
           su == [st EXCEPT ![p] = w]
<1>1. /\ \A x : Contains(Append(wq[i], p), x) <=> Contains(wq[i], x) \/ x = p
      /\ IsInjective(wq[i]) /\ ~Contains(wq[i], p) => IsInjective(Append(wq[i], p))
  BY AppendFacts
<1>2. \A j \in Id : ~Contains(wq[j], p)
  BY DEF WaitOK
<1>3. wr[i] = Append(wq[i], p) /\ \A j \in Id : j # i => wr[j] = wq[j]
  OBVIOUS
<1>4. su[p] = w /\ \A x \in Proc : x # p => su[x] = st[x]
  OBVIOUS
<1> HIDE DEF wr, su
<1>5. \A j \in Id, x \in Proc : Contains(wr[j], x) <=> Contains(wq[j], x) \/ (j = i /\ x = p)
  BY <1>1, <1>3
<1>6. \A j \in Id : IsInjective(wr[j])
  BY <1>1, <1>2, <1>3 DEF WaitOK
<1>7. \A x \in Proc, j, k \in Id : Contains(wr[j], x) /\ Contains(wr[k], x) => j = k
  BY <1>2, <1>5 DEF WaitOK
<1>8. \A x \in Proc : (\E j \in Id : Contains(wr[j], x)) <=> su[x] = w
  BY <1>4, <1>5 DEF WaitOK
<1> QED BY <1>6, <1>7, <1>8 DEF WaitOK, wr, su

\* The first process that waits for i is woken.
LEMMA WaitPop ==
  ASSUME NEW Id, NEW wq \in [Id -> Seq(Proc)], NEW w \in ProcState, w # "Ready",
         NEW st \in [Proc -> ProcState], WaitOK(Id, wq, w, st),
         NEW i \in Id, wq[i] # <<>>
  PROVE  LET p == Head(wq[i])
         IN  /\ p \in Proc /\ st[p] = w
             /\ WaitOK(Id, [wq EXCEPT ![i] = Tail(@)], w, [st EXCEPT ![p] = "Ready"])
<1> DEFINE p  == Head(wq[i])
           wr == [wq EXCEPT ![i] = Tail(@)]
           su == [st EXCEPT ![p] = "Ready"]
<1>1. /\ p \in Proc /\ Contains(wq[i], p)
      /\ IsInjective(Tail(wq[i]))
      /\ \A x : Contains(Tail(wq[i]), x) <=> Contains(wq[i], x) /\ x # p
  BY TailFacts DEF WaitOK
<1>2. wr[i] = Tail(wq[i]) /\ \A j \in Id : j # i => wr[j] = wq[j]
  OBVIOUS
<1>3. su[p] = "Ready" /\ \A x \in Proc : x # p => su[x] = st[x]
  BY <1>1
<1> HIDE DEF p, wr, su
<1>4. st[p] = w
  BY <1>1 DEF WaitOK
<1>5. \A j \in Id, x \in Proc : Contains(wr[j], x) <=> Contains(wq[j], x) /\ x # p
  <2>1. \A j \in Id : Contains(wq[j], p) => j = i
    BY <1>1 DEF WaitOK
  <2>2. \A x \in Proc : Contains(wr[i], x) <=> Contains(wq[i], x) /\ x # p
    BY <1>1, <1>2
  <2> QED BY <1>2, <2>1, <2>2
<1>6. \A j \in Id : IsInjective(wr[j])
  BY <1>1, <1>2 DEF WaitOK
<1>7. WaitOK(Id, wr, w, su)
  BY <1>3, <1>5, <1>6 DEF WaitOK
<1> QED BY <1>1, <1>4, <1>7 DEF p, wr, su

\* A new OS has empty queues and no process.
LEMMA InitQInv == Init => QInv
<1> SUFFICES ASSUME Init PROVE QInv
  OBVIOUS
<1>1. TInv
  BY InitTInv
<1>2. ReadyOK(ready, state) /\ SleepOK(sleeping, state)
  BY EmptyFacts DEF Init, ReadyOK, SleepOK
<1>3. WaitOK(LockId, LockQueues, "WaitingLock", state)
  BY EmptyFacts DEF Init, WaitOK, LockQueues
<1>4. WaitOK(EventId, EventQueues, "WaitingEvent", state)
  BY EmptyFacts DEF Init, WaitOK, EventQueues
<1>5. RunOK /\ CleanupDead
  BY DEF Init, RunOK, CleanupDead
<1> QED BY <1>1, <1>2, <1>3, <1>4, <1>5 DEF QInv, Queues

\* The wait queues are functions of queues.
LEMMA QueueTypes ==
  ASSUME TypeOK
  PROVE  /\ LockQueues \in [LockId -> Seq(Proc)]
         /\ EventQueues \in [EventId -> Seq(Proc)]
         /\ state \in [Proc -> ProcState] /\ ready \in [Level -> Seq(Proc)]
         /\ sleeping \in Seq(Proc)
  BY DEF TypeOK, LockQueues, EventQueues

\* The common end of a trap that does not block: the running process goes to
\* the back of its ready queue, and no wait queue changes.
LEMMA RequeueQueues ==
  ASSUME QInv, TypeOK', phase \in {"cpu", "signal"},
         state' = [state EXCEPT ![cur] = "Ready"], ready' = Push(ready, cur),
         sleeping' = sleeping, priority' = priority, phase' = "tick",
         LockQueues' = LockQueues, EventQueues' = EventQueues
  PROVE  Queues'
<1>1. /\ TypeOK /\ Queues /\ cur \in Proc /\ state[cur] = "Running"
      /\ state \in [Proc -> ProcState] /\ ready \in [Level -> Seq(Proc)]
  BY DEF QInv, TInv, TypeOK, Control, Queues, RunOK
<1>2. /\ state'[cur] = "Ready"
      /\ \A p \in Proc : p # cur => state'[p] = state[p]
  BY <1>1
<1>3. ReadyOK(ready', state')
  BY <1>1, ReadyPush DEF Queues
<1>4. SleepOK(sleeping', state')
  BY <1>1, <1>2, SleepKeep DEF Queues
<1>5. WaitOK(LockId, LockQueues', "WaitingLock", state')
  BY <1>1, <1>2, WaitKeep DEF Queues
<1>6. WaitOK(EventId, EventQueues', "WaitingEvent", state')
  BY <1>1, <1>2, WaitKeep DEF Queues
<1>7. RunOK'
  BY <1>1, <1>2 DEF Queues, RunOK
<1> QED BY <1>3, <1>4, <1>5, <1>6, <1>7 DEF Queues, ReadyOK

\* A step that moves no process.
LEMMA StillQueues ==
  ASSUME Queues, UNCHANGED <<state, priority, ready, sleeping, locks, events>>, RunOK'
  PROVE  Queues'
<1>1. LockQueues' = LockQueues /\ EventQueues' = EventQueues
  BY DEF LockQueues, EventQueues
<1> QED BY <1>1 DEF Queues, ReadyOK, SleepOK, WaitOK

\* A step that leaves the wait queues of the locks or the events alone.
LEMMA SameQueues ==
  /\ (\A l \in LockId : locks'[l].waitQueue = locks[l].waitQueue)
       => LockQueues' = LockQueues
  /\ (\A e \in EventId : events'[e].waitQueue = events[e].waitQueue)
       => EventQueues' = EventQueues
  BY DEF LockQueues, EventQueues

\* Every step keeps the queues and the process states in agreement.
LEMMA QueuesStep == QInv /\ [Next]_vars => Queues' /\ CleanupDead'
<1> SUFFICES ASSUME QInv, [Next]_vars PROVE Queues' /\ CleanupDead'
  OBVIOUS
<1> USE SchedulerAssumption
<1>a. TypeOK /\ Control /\ Queues /\ CleanupDead
  BY DEF QInv, TInv
<1>b. TypeOK' /\ Control'
  BY TInvStep DEF QInv, TInv
<1>c. /\ LockQueues \in [LockId -> Seq(Proc)]
      /\ EventQueues \in [EventId -> Seq(Proc)]
      /\ state \in [Proc -> ProcState] /\ ready \in [Level -> Seq(Proc)]
      /\ sleeping \in Seq(Proc)
  BY <1>a, QueueTypes
<1>d. /\ UNCHANGED locks => LockQueues' = LockQueues
      /\ UNCHANGED events => EventQueues' = EventQueues
  BY DEF LockQueues, EventQueues
<1>e. phase \in {"cpu", "signal"} => cur \in Proc /\ state[cur] = "Running"
  BY <1>a DEF Control, Queues, RunOK
<1>1. ASSUME NEW p \in Proc, NEW prio \in Priorities, CreateProcess(p, prio)
      PROVE  Queues' /\ CleanupDead'
  <2> DEFINE c == Clamp(prio)
  <2>1. c \in Level /\ ready[c] \in Seq(Proc)
    BY <1>c, ClampType
  <2>2. /\ \A x : Contains(Append(ready[c], p), x) <=> Contains(ready[c], x) \/ x = p
        /\ IsInjective(ready[c]) /\ ~Contains(ready[c], p)
             => IsInjective(Append(ready[c], p))
    BY <2>1, AppendFacts
  <2>3. /\ state[p] = "New" /\ phase = "idle" /\ phase' = phase /\ cur' = cur
        /\ state' = [state EXCEPT ![p] = "Ready"]
        /\ priority' = [priority EXCEPT ![p] = prio]
        /\ ready' = [ready EXCEPT ![c] = Append(@, p)]
        /\ UNCHANGED <<sleeping, locks, events>>
    BY <1>1 DEF CreateProcess
  <2>4. /\ state'[p] = "Ready" /\ priority'[p] = prio
        /\ \A x \in Proc : x # p => state'[x] = state[x] /\ priority'[x] = priority[x]
        /\ ready'[c] = Append(ready[c], p)
        /\ \A k \in Level : k # c => ready'[k] = ready[k]
    BY <1>a, <1>c, <2>1, <2>3 DEF TypeOK
  <2>5. \A k \in Level : ~Contains(ready[k], p)
    BY <1>a, <2>3 DEF Queues, ReadyOK
  <2>6. Clamp(prio) = c
    OBVIOUS
  <2> HIDE DEF c
  <2>7. \A k \in Level : IsInjective(ready'[k])
    BY <1>a, <2>1, <2>2, <2>4, <2>5 DEF Queues, ReadyOK
  <2>8. \A k \in Level, x \in Proc :
          Contains(ready'[k], x) <=> Contains(ready[k], x) \/ (k = c /\ x = p)
    BY <2>2, <2>4
  <2>9. ASSUME NEW k \in Level, NEW x \in Proc
        PROVE  Contains(ready'[k], x) <=> state'[x] = "Ready" /\ Clamp(priority'[x]) = k
    <3>1. CASE x = p
      BY <2>4, <2>5, <2>6, <2>8, <3>1
    <3>2. CASE x # p
      BY <1>a, <2>4, <2>8, <3>2 DEF Queues, ReadyOK
    <3> QED BY <3>1, <3>2
  <2>10. ReadyOK(ready, state)'
    BY <2>7, <2>9 DEF ReadyOK, Clamp
  <2>11. SleepOK(sleeping', state')
    BY <1>a, <2>3, <2>4 DEF Queues, SleepOK
  <2>12. WaitOK(LockId, LockQueues', "WaitingLock", state')
    BY <1>a, <1>d, <2>3, <2>4 DEF Queues, WaitOK
  <2>13. WaitOK(EventId, EventQueues', "WaitingEvent", state')
    BY <1>a, <1>d, <2>3, <2>4 DEF Queues, WaitOK
  <2>14. RunOK'
    BY <1>a, <2>3, <2>4 DEF Queues, RunOK
  <2> QED BY <2>3, <2>10, <2>11, <2>12, <2>13, <2>14 DEF Queues, CleanupDead
<1>2. CASE Run \/ SpinForSleepers \/ Return \/ CleanupDone
  <2>1. /\ UNCHANGED <<state, priority, ready, sleeping, locks, events>>
        /\ phase \in {"idle", "tick", "cleanup"} /\ phase' \in {"idle", "tick"}
    BY <1>2 DEF Run, SpinForSleepers, Return, CleanupDone, NextIteration
  <2>2. RunOK'
    BY <1>a, <2>1 DEF Queues, RunOK
  <2> QED BY <1>a, <2>1, <2>2, StillQueues DEF CleanupDead
<1>3. CASE TickSleeper
  <2> DEFINE p == Head(sleeping)
             c == IF sleepCounter[p] > 0 THEN sleepCounter[p] - 1 ELSE 0
  <2>1. sleeping # <<>>
    BY <1>a, <1>c, <1>3, EmptySeq DEF TickSleeper, TypeOK, Control
  <2>2. /\ p \in Proc /\ state[p] = "WaitingSleep"
        /\ SleepOK(Tail(sleeping), [state EXCEPT ![p] = "Ready"])
        /\ SleepOK(Append(Tail(sleeping), p), state)
    BY <1>a, <1>c, <2>1, SleepPop DEF Queues
  <2>3. /\ phase = "tick" /\ UNCHANGED <<phase, cur, priority, locks, events>>
        /\ \/ /\ sleeping' = Tail(sleeping)
              /\ state' = [state EXCEPT ![p] = "Ready"]
              /\ ready' = Push(ready, p)
           \/ /\ sleeping' = Append(Tail(sleeping), p)
              /\ UNCHANGED <<state, ready>>
    BY <1>3, <2>2 DEF TickSleeper
  <2> HIDE DEF p, c
  <2>4. CASE sleeping' = Append(Tail(sleeping), p) /\ UNCHANGED <<state, ready>>
    <3>1. RunOK'
      BY <1>a, <2>3, <2>4 DEF Queues, RunOK
    <3> QED BY <1>a, <1>d, <2>2, <2>3, <2>4, <3>1
            DEF Queues, ReadyOK, SleepOK, WaitOK, CleanupDead
  <2>5. CASE /\ sleeping' = Tail(sleeping)
             /\ state' = [state EXCEPT ![p] = "Ready"]
             /\ ready' = Push(ready, p)
    <3>1. /\ state'[p] = "Ready"
          /\ \A x \in Proc : x # p => state'[x] = state[x]
      BY <1>c, <2>2, <2>5
    <3>2. ReadyOK(ready', state')
      BY <1>a, <1>c, <2>2, <2>5, ReadyPush DEF Queues
    <3>3. WaitOK(LockId, LockQueues', "WaitingLock", state')
      BY <1>a, <1>d, <2>2, <2>3, <3>1, WaitKeep DEF Queues
    <3>4. WaitOK(EventId, EventQueues', "WaitingEvent", state')
      BY <1>a, <1>d, <2>2, <2>3, <3>1, WaitKeep DEF Queues
    <3>5. RunOK'
      BY <1>a, <2>2, <2>3, <3>1 DEF Queues, RunOK
    <3> QED BY <2>2, <2>3, <2>5, <3>2, <3>3, <3>4, <3>5
            DEF Queues, ReadyOK, CleanupDead
  <2> QED BY <2>3, <2>4, <2>5
<1>4. CASE Dispatch
  <2>1. PICK k \in Nonempty :
          /\ ready' = [ready EXCEPT ![k] = Tail(@)]
          /\ state[Head(ready[k])] # "Terminated" =>
                /\ phase' = "cpu" /\ cur' = Head(ready[k])
                /\ state' = [state EXCEPT ![Head(ready[k])] = "Running"]
    BY <1>4 DEF Dispatch
  <2> DEFINE p == Head(ready[k])
  <2>2. k \in Level /\ ready[k] # <<>>
    BY DEF Nonempty
  <2>3. "Running" \in ProcState
    BY DEF ProcState
  <2>4. /\ p \in Proc /\ state[p] = "Ready"
        /\ ReadyOK([ready EXCEPT ![k] = Tail(@)], [state EXCEPT ![p] = "Running"])
    BY <1>a, <2>2, <2>3, ReadyPop DEF Queues
  <2>5. /\ phase = "tick" /\ phase' = "cpu" /\ cur' = p
        /\ state' = [state EXCEPT ![p] = "Running"]
        /\ UNCHANGED <<priority, sleeping, locks, events>>
    BY <1>4, <2>1, <2>4 DEF Dispatch
  <2>6. ReadyOK(ready', state')
    BY <2>1, <2>4, <2>5
  <2> HIDE DEF p
  <2>7. /\ state'[p] = "Running"
        /\ \A x \in Proc : x # p => state'[x] = state[x]
    BY <1>c, <2>4, <2>5
  <2>8. SleepOK(sleeping', state')
    BY <1>a, <2>4, <2>5, <2>7 DEF Queues, SleepOK
  <2>9. WaitOK(LockId, LockQueues', "WaitingLock", state')
    BY <1>a, <1>d, <2>4, <2>5, <2>7, WaitKeep DEF Queues
  <2>10. WaitOK(EventId, EventQueues', "WaitingEvent", state')
    BY <1>a, <1>d, <2>4, <2>5, <2>7, WaitKeep DEF Queues
  <2>11. RunOK'
    BY <1>a, <2>4, <2>5, <2>7 DEF Queues, RunOK
  <2> QED BY <2>5, <2>6, <2>8, <2>9, <2>10, <2>11 DEF Queues, ReadyOK, CleanupDead
<1>5. CASE Requeue \/ SignalDone
  <2>1. /\ phase \in {"cpu", "signal"} /\ phase' = "tick"
        /\ state' = [state EXCEPT ![cur] = "Ready"] /\ ready' = Push(ready, cur)
        /\ UNCHANGED <<priority, sleeping, locks, events>>
    BY <1>5 DEF Requeue, SignalDone, NextIteration
  <2> QED BY <1>b, <1>d, <2>1, RequeueQueues DEF CleanupDead
<1>6. CASE Exit
  <2>1. /\ phase = "cpu" /\ phase' = "cleanup" /\ cur' = cur
        /\ state' = [state EXCEPT ![cur] = "Terminated"]
        /\ UNCHANGED <<priority, ready, sleeping, locks, events>>
    BY <1>6 DEF Exit
  <2>2. /\ state'[cur] = "Terminated"
        /\ \A x \in Proc : x # cur => state'[x] = state[x]
    BY <1>c, <1>e, <2>1
  <2>3. ReadyOK(ready', state')
    BY <1>a, <1>e, <2>1, <2>2 DEF Queues, ReadyOK
  <2>4. SleepOK(sleeping', state')
    BY <1>a, <1>e, <2>1, <2>2 DEF Queues, SleepOK
  <2>5. WaitOK(LockId, LockQueues', "WaitingLock", state')
    BY <1>a, <1>d, <1>e, <2>1, <2>2, WaitKeep DEF Queues
  <2>6. WaitOK(EventId, EventQueues', "WaitingEvent", state')
    BY <1>a, <1>d, <1>e, <2>1, <2>2, WaitKeep DEF Queues
  <2>7. RunOK'
    BY <1>a, <1>e, <2>1, <2>2 DEF Queues, RunOK
  <2> QED BY <2>1, <2>2, <2>3, <2>4, <2>5, <2>6, <2>7
          DEF Queues, ReadyOK, CleanupDead
<1>7. ASSUME NEW r \in Args, Sleep(r) PROVE Queues' /\ CleanupDead'
  <2>1. /\ phase = "cpu" /\ phase' = "tick"
        /\ state' = [state EXCEPT ![cur] = "WaitingSleep"]
        /\ sleeping' = Append(sleeping, cur)
        /\ UNCHANGED <<priority, ready, locks, events>>
    BY <1>7 DEF Sleep, NextIteration
  <2>2. /\ state'[cur] = "WaitingSleep"
        /\ \A x \in Proc : x # cur => state'[x] = state[x]
    BY <1>c, <1>e, <2>1
  <2>3. ReadyOK(ready', state')
    BY <1>a, <1>e, <2>1, <2>2 DEF Queues, ReadyOK
  <2>4. SleepOK(sleeping', state')
    BY <1>a, <1>c, <1>e, <2>1, SleepPush DEF Queues
  <2>5. WaitOK(LockId, LockQueues', "WaitingLock", state')
    BY <1>a, <1>d, <1>e, <2>1, <2>2, WaitKeep DEF Queues
  <2>6. WaitOK(EventId, EventQueues', "WaitingEvent", state')
    BY <1>a, <1>d, <1>e, <2>1, <2>2, WaitKeep DEF Queues
  <2>7. RunOK'
    BY <1>a, <1>e, <2>1, <2>2 DEF Queues, RunOK
  <2> QED BY <2>1, <2>3, <2>4, <2>5, <2>6, <2>7 DEF Queues, ReadyOK, CleanupDead
<1>8. ASSUME NEW r \in Args, AcquireLock(r) PROVE Queues' /\ CleanupDead'
  <2> DEFINE l == AsInt(r)
  <2>1. /\ phase = "cpu" /\ phase' = "tick"
        /\ UNCHANGED <<priority, sleeping, events>>
    BY <1>8 DEF AcquireLock, NextIteration
  <2>2. CASE ~(l \in LockId /\ locks[l].held)
    <3>1. /\ state' = [state EXCEPT ![cur] = "Ready"] /\ ready' = Push(ready, cur)
          /\ \/ UNCHANGED locks
             \/ /\ l \in LockId
                /\ locks' = [locks EXCEPT ![l].held = TRUE, ![l].ownerPid = cur]
      BY <1>8, <2>2 DEF AcquireLock
    <3>2. LockQueues' = LockQueues
      <4> HIDE DEF l
      <4>1. locks \in [LockId -> LockType]
        BY <1>a DEF TypeOK, LockType
      <4>2. CASE UNCHANGED locks
        BY <4>2, <1>d
      <4>3. CASE /\ l \in LockId
                 /\ locks' = [locks EXCEPT ![l].held = TRUE, ![l].ownerPid = cur]
        <5>1. \A m \in LockId : locks'[m].waitQueue = locks[m].waitQueue
          BY <4>1, <4>3 DEF LockType
        <5> QED BY <5>1, SameQueues
      <4> QED BY <3>1, <4>2, <4>3
    <3> QED BY <1>b, <1>d, <2>1, <3>1, <3>2, RequeueQueues DEF CleanupDead
  <2>3. CASE l \in LockId /\ locks[l].held
    <3>1. /\ locks' = [locks EXCEPT ![l].waitQueue = Append(@, cur)]
          /\ state' = [state EXCEPT ![cur] = "WaitingLock"]
          /\ UNCHANGED ready
      BY <1>8, <2>3 DEF AcquireLock
    <3>2. LockQueues' = [LockQueues EXCEPT ![l] = Append(@, cur)]
      BY <1>a, <2>3, <3>1 DEF LockQueues, TypeOK
    <3>3. /\ state'[cur] = "WaitingLock"
          /\ \A x \in Proc : x # cur => state'[x] = state[x]
      BY <1>c, <1>e, <2>1, <3>1
    <3> HIDE DEF l
    <3>4. ReadyOK(ready', state')
      BY <1>a, <1>e, <2>1, <3>1, <3>3 DEF Queues, ReadyOK
    <3>5. SleepOK(sleeping', state')
      BY <1>a, <1>e, <2>1, <3>3 DEF Queues, SleepOK
    <3>6. WaitOK(LockId, LockQueues', "WaitingLock", state')
      <4>1. "WaitingLock" \in ProcState
        BY DEF ProcState
      <4>2. WaitOK(LockId, LockQueues, "WaitingLock", state) /\ state[cur] # "WaitingLock"
        BY <1>a, <1>e, <2>1 DEF Queues
      <4> QED BY <1>c, <1>e, <2>1, <2>3, <3>1, <3>2, <4>1, <4>2, WaitPush
    <3>7. WaitOK(EventId, EventQueues', "WaitingEvent", state')
      BY <1>a, <1>d, <1>e, <2>1, <3>3, WaitKeep DEF Queues
    <3>8. RunOK'
      BY <1>a, <1>e, <2>1, <3>3 DEF Queues, RunOK
    <3> QED BY <2>1, <3>4, <3>5, <3>6, <3>7, <3>8 DEF Queues, ReadyOK, CleanupDead
  <2> QED BY <2>2, <2>3
<1>9. ASSUME NEW r \in Args, ReleaseLock(r) PROVE Queues' /\ CleanupDead'
  <2> DEFINE l == AsInt(r)
  <2>1. /\ phase = "cpu" /\ phase' = "tick"
        /\ UNCHANGED <<priority, sleeping, events>>
    BY <1>9 DEF ReleaseLock, NextIteration
  <2>2. CASE ~(l \in LockId /\ Owns(cur, l) /\ locks[l].waitQueue # <<>>)
    <3>1. /\ state' = [state EXCEPT ![cur] = "Ready"] /\ ready' = Push(ready, cur)
          /\ \/ UNCHANGED locks
             \/ /\ l \in LockId /\ locks[l].waitQueue = <<>>
                /\ locks' = [locks EXCEPT ![l] = Released(locks[l])]
      BY <1>9, <2>2 DEF ReleaseLock
    <3>2. LockQueues' = LockQueues
      <4> HIDE DEF l
      <4>1. locks \in [LockId -> LockType]
        BY <1>a DEF TypeOK, LockType
      <4>2. CASE UNCHANGED locks
        BY <4>2, <1>d
      <4>3. CASE /\ l \in LockId /\ locks[l].waitQueue = <<>>
                 /\ locks' = [locks EXCEPT ![l] = Released(locks[l])]
        <5>1. \A m \in LockId : locks'[m].waitQueue = locks[m].waitQueue
          BY <4>1, <4>3 DEF LockType, Released
        <5> QED BY <5>1, SameQueues
      <4> QED BY <3>1, <4>2, <4>3
    <3> QED BY <1>b, <1>d, <2>1, <3>1, <3>2, RequeueQueues DEF CleanupDead
  <2>3. CASE l \in LockId /\ Owns(cur, l) /\ locks[l].waitQueue # <<>>
    <3> DEFINE q  == Head(LockQueues[l])
               st == [state EXCEPT ![q] = "Ready"]
    <3>1. LockQueues[l] = locks[l].waitQueue
      BY <2>3 DEF LockQueues
    <3>2. /\ state' = [state EXCEPT ![q] = "Ready", ![cur] = "Ready"]
          /\ ready' = Push(Push(ready, q), cur)
          /\ locks' = [locks EXCEPT ![l] = Released(locks[l])]
      BY <1>9, <2>3, <3>1 DEF ReleaseLock
    <3>3. LockQueues' = [LockQueues EXCEPT ![l] = Tail(@)]
      BY <1>a, <2>3, <3>2 DEF LockQueues, TypeOK, Released
    <3>4. "WaitingLock" \in ProcState /\ "Ready" \in ProcState
      BY DEF ProcState
    <3>5. /\ q \in Proc /\ state[q] = "WaitingLock"
          /\ WaitOK(LockId, LockQueues', "WaitingLock", st)
      <4>1. WaitOK(LockId, LockQueues, "WaitingLock", state)
        BY <1>a DEF Queues
      <4>2. l \in LockId /\ LockQueues[l] # <<>>
        BY <2>3, <3>1
      <4> HIDE DEF l
      <4>3. /\ q \in Proc /\ state[q] = "WaitingLock"
            /\ WaitOK(LockId, [LockQueues EXCEPT ![l] = Tail(@)], "WaitingLock", st)
        BY <1>c, <3>4, <4>1, <4>2, WaitPop
      <4> QED BY <3>3, <4>3
    <3>6. /\ st \in [Proc -> ProcState] /\ st[cur] = "Running"
          /\ state' = [st EXCEPT ![cur] = "Ready"]
      BY <1>c, <1>e, <2>1, <3>2, <3>4, <3>5
    <3>7. ReadyOK(Push(ready, q), st)
      BY <1>a, <1>c, <3>5, ReadyPush DEF Queues
    <3>8. Push(ready, q) \in [Level -> Seq(Proc)]
      BY <1>a, <1>c, <3>5, PushFacts
    <3>9. /\ state'[cur] = "Ready" /\ state'[q] = "Ready"
          /\ \A x \in Proc : x # cur /\ x # q => state'[x] = state[x]
          /\ \A x \in Proc : x # cur => state'[x] = st[x]
      BY <1>c, <1>e, <2>1, <3>2, <3>5
    <3> HIDE DEF l, q, st
    <3>10. ReadyOK(ready', state')
      <4>1. cur \in Proc /\ st[cur] # "Ready"
        BY <1>e, <2>1, <3>6
      <4>2. ReadyOK(Push(Push(ready, q), cur), [st EXCEPT ![cur] = "Ready"])
        BY <1>a, <3>6, <3>7, <3>8, <4>1, ReadyPush
      <4> QED BY <3>2, <3>6, <4>2
    <3>11. SleepOK(sleeping', state')
      BY <1>a, <1>e, <2>1, <3>5, <3>9 DEF Queues, SleepOK
    <3>12. WaitOK(LockId, LockQueues', "WaitingLock", state')
      BY <1>e, <2>1, <3>5, <3>6, <3>9, WaitKeep
    <3>13. WaitOK(EventId, EventQueues', "WaitingEvent", state')
      BY <1>a, <1>d, <1>e, <2>1, <3>5, <3>9, WaitKeep DEF Queues
    <3>14. RunOK'
      BY <1>a, <1>e, <2>1, <3>5, <3>9 DEF Queues, RunOK
    <3> QED BY <2>1, <3>10, <3>11, <3>12, <3>13, <3>14 DEF Queues, ReadyOK, CleanupDead
  <2> QED BY <2>2, <2>3
<1>10. ASSUME NEW r \in Args, WaitEvent(r) PROVE Queues' /\ CleanupDead'
  <2> DEFINE e == AsInt(r)
  <2>1. /\ phase = "cpu" /\ phase' = "tick"
        /\ UNCHANGED <<priority, sleeping, locks>>
    BY <1>10 DEF WaitEvent, NextIteration
  <2>2. CASE ~(e \in EventId /\ ~events[e].signaled)
    <3>1. /\ state' = [state EXCEPT ![cur] = "Ready"] /\ ready' = Push(ready, cur)
          /\ \/ UNCHANGED events
             \/ e \in EventId /\ events' = [events EXCEPT ![e].signaled = FALSE]
      BY <1>10, <2>2 DEF WaitEvent
    <3>2. EventQueues' = EventQueues
      <4> HIDE DEF e
      <4>1. events \in [EventId -> EventType]
        BY <1>a DEF TypeOK, EventType
      <4>2. CASE UNCHANGED events
        BY <4>2, <1>d
      <4>3. CASE e \in EventId /\ events' = [events EXCEPT ![e].signaled = FALSE]
        <5>1. \A m \in EventId : events'[m].waitQueue = events[m].waitQueue
          BY <4>1, <4>3 DEF EventType
        <5> QED BY <5>1, SameQueues
      <4> QED BY <3>1, <4>2, <4>3
    <3>3. Queues'
      BY <1>b, <1>d, <2>1, <3>1, <3>2, RequeueQueues
    <3> QED BY <2>1, <3>3 DEF CleanupDead
  <2>3. CASE e \in EventId /\ ~events[e].signaled
    <3>1. /\ events' = [events EXCEPT ![e].waitQueue = Append(@, cur)]
          /\ state' = [state EXCEPT ![cur] = "WaitingEvent"]
          /\ UNCHANGED ready
      BY <1>10, <2>3 DEF WaitEvent
    <3>2. EventQueues' = [EventQueues EXCEPT ![e] = Append(@, cur)]
      BY <1>a, <2>3, <3>1 DEF EventQueues, TypeOK
    <3>3. /\ state'[cur] = "WaitingEvent"
          /\ \A x \in Proc : x # cur => state'[x] = state[x]
      BY <1>c, <1>e, <2>1, <3>1
    <3> HIDE DEF e
    <3>4. ReadyOK(ready', state')
      BY <1>a, <1>e, <2>1, <3>1, <3>3 DEF Queues, ReadyOK
    <3>5. SleepOK(sleeping', state')
      BY <1>a, <1>e, <2>1, <3>3 DEF Queues, SleepOK
    <3>6. WaitOK(EventId, EventQueues', "WaitingEvent", state')
      <4>1. "WaitingEvent" \in ProcState
        BY DEF ProcState
      <4>2. WaitOK(EventId, EventQueues, "WaitingEvent", state) /\ state[cur] # "WaitingEvent"
        BY <1>a, <1>e, <2>1 DEF Queues
      <4> QED BY <1>c, <1>e, <2>1, <2>3, <3>1, <3>2, <4>1, <4>2, WaitPush
    <3>7. WaitOK(LockId, LockQueues', "WaitingLock", state')
      BY <1>a, <1>d, <1>e, <2>1, <3>3, WaitKeep DEF Queues
    <3>8. RunOK'
      BY <1>a, <1>e, <2>1, <3>3 DEF Queues, RunOK
    <3> QED BY <2>1, <3>4, <3>5, <3>6, <3>7, <3>8 DEF Queues, ReadyOK, CleanupDead
  <2> QED BY <2>2, <2>3
<1>11. ASSUME NEW r \in Args, SignalEvent(r) PROVE Queues' /\ CleanupDead'
  <2> DEFINE e == AsInt(r)
  <2>1. phase = "cpu" /\ UNCHANGED <<priority, sleeping, locks>>
    BY <1>11 DEF SignalEvent
  <2>2. CASE ~(e \in EventId /\ events[e].waitQueue # <<>>)
    <3>1. /\ state' = [state EXCEPT ![cur] = "Ready"] /\ ready' = Push(ready, cur)
          /\ phase' = "tick"
          /\ \/ UNCHANGED events
             \/ e \in EventId /\ events' = [events EXCEPT ![e].signaled = TRUE]
      BY <1>11, <2>2 DEF SignalEvent, NextIteration
    <3>2. EventQueues' = EventQueues
      <4> HIDE DEF e
      <4>1. events \in [EventId -> EventType]
        BY <1>a DEF TypeOK, EventType
      <4>2. CASE UNCHANGED events
        BY <4>2, <1>d
      <4>3. CASE e \in EventId /\ events' = [events EXCEPT ![e].signaled = TRUE]
        <5>1. \A m \in EventId : events'[m].waitQueue = events[m].waitQueue
          BY <4>1, <4>3 DEF EventType
        <5> QED BY <5>1, SameQueues
      <4> QED BY <3>1, <4>2, <4>3
    <3> QED BY <1>b, <1>d, <2>1, <3>1, <3>2, RequeueQueues DEF CleanupDead
  <2>3. CASE e \in EventId /\ events[e].waitQueue # <<>>
    <3>1. phase' = "signal" /\ UNCHANGED <<cur, state, ready, events>>
      BY <1>11, <2>3 DEF SignalEvent
    <3>2. RunOK'
      BY <1>a, <2>1, <3>1 DEF Queues, RunOK
    <3> QED BY <1>a, <2>1, <3>1, <3>2, StillQueues DEF CleanupDead
  <2> QED BY <2>2, <2>3
<1>12. CASE SignalWake
  <2> DEFINE q == Head(EventQueues[todo])
  <2>1. todo \in EventId /\ phase = "signal"
    BY <1>a, <1>12 DEF SignalWake, Control
  <2>2. EventQueues[todo] = events[todo].waitQueue
    BY <2>1 DEF EventQueues
  <2>3. /\ state' = [state EXCEPT ![q] = "Ready"] /\ ready' = Push(ready, q)
        /\ events[todo].waitQueue # <<>>
        /\ events' = [events EXCEPT ![todo].waitQueue = Tail(@)]
        /\ UNCHANGED <<phase, cur, priority, sleeping, locks>>
    BY <1>12, <2>2 DEF SignalWake
  <2>4. EventQueues' = [EventQueues EXCEPT ![todo] = Tail(@)]
    BY <1>a, <2>1, <2>3 DEF EventQueues, TypeOK
  <2>5. "WaitingEvent" \in ProcState
    BY DEF ProcState
  <2>6. /\ q \in Proc /\ state[q] = "WaitingEvent"
        /\ WaitOK(EventId, EventQueues', "WaitingEvent", state')
    <3>1. WaitOK(EventId, EventQueues, "WaitingEvent", state)
      BY <1>a DEF Queues
    <3>2. EventQueues[todo] # <<>>
      BY <2>2, <2>3
    <3>3. /\ q \in Proc /\ state[q] = "WaitingEvent"
          /\ WaitOK(EventId, [EventQueues EXCEPT ![todo] = Tail(@)],
                    "WaitingEvent", [state EXCEPT ![q] = "Ready"])
      BY <1>c, <2>1, <2>5, <3>1, <3>2, WaitPop
    <3> QED BY <2>3, <2>4, <3>3
  <2> HIDE DEF q
  <2>7. /\ state'[q] = "Ready"
        /\ \A x \in Proc : x # q => state'[x] = state[x]
    BY <1>c, <2>3, <2>6
  <2>8. ReadyOK(ready', state')
    BY <1>a, <1>c, <2>3, <2>6, ReadyPush DEF Queues
  <2>9. SleepOK(sleeping', state')
    BY <1>a, <2>3, <2>6, <2>7 DEF Queues, SleepOK
  <2>10. WaitOK(LockId, LockQueues', "WaitingLock", state')
    <3>1. \A x \in Proc : state[x] = "WaitingLock" <=> state'[x] = "WaitingLock"
      BY <2>6, <2>7
    <3>2. WaitOK(LockId, LockQueues, "WaitingLock", state')
      BY <1>a, <3>1, WaitKeep DEF Queues
    <3> QED BY <1>d, <2>3, <3>2
  <2>11. RunOK'
    BY <1>a, <2>3, <2>6, <2>7 DEF Queues, RunOK
  <2>12. Queues'
    <3>1. ReadyOK(ready, state)'
      BY <2>3, <2>8 DEF ReadyOK
    <3>2. SleepOK(sleeping, state)' /\ WaitOK(LockId, LockQueues, "WaitingLock", state)'
      BY <2>9, <2>10 DEF SleepOK, WaitOK
    <3>3. WaitOK(EventId, EventQueues, "WaitingEvent", state)'
      BY <2>6 DEF WaitOK
    <3> QED BY <2>11, <3>1, <3>2, <3>3 DEF Queues
  <2>13. CleanupDead'
    BY <2>1, <2>3 DEF CleanupDead
  <2> QED BY <2>12, <2>13
<1>13. CASE CleanupLock
  <2>1. /\ phase = "cleanup" /\ todo \in LockId /\ cur \in Proc
        /\ state[cur] = "Terminated"
        /\ UNCHANGED <<phase, cur, priority, sleeping, events>>
    BY <1>a, <1>13 DEF CleanupLock, Control, CleanupDead
  <2>2. CASE ~(Owns(cur, todo) /\ locks[todo].waitQueue # <<>>)
    <3>1. /\ UNCHANGED <<state, ready>>
          /\ \/ UNCHANGED locks
             \/ /\ locks[todo].waitQueue = <<>>
                /\ locks' = [locks EXCEPT ![todo] = Released(locks[todo])]
      BY <1>13, <2>2 DEF CleanupLock
    <3>2. LockQueues' = LockQueues
      <4>1. locks \in [LockId -> LockType]
        BY <1>a DEF TypeOK, LockType
      <4>2. CASE UNCHANGED locks
        BY <4>2, <1>d
      <4>3. CASE /\ locks[todo].waitQueue = <<>>
                 /\ locks' = [locks EXCEPT ![todo] = Released(locks[todo])]
        <5>1. \A m \in LockId : locks'[m].waitQueue = locks[m].waitQueue
          BY <2>1, <4>1, <4>3 DEF LockType, Released
        <5> QED BY <5>1, SameQueues
      <4> QED BY <3>1, <4>2, <4>3
    <3>3. RunOK'
      BY <1>a, <2>1, <3>1 DEF Queues, RunOK
    <3> QED BY <1>a, <1>d, <2>1, <3>1, <3>2, <3>3
            DEF Queues, ReadyOK, SleepOK, WaitOK, CleanupDead
  <2>3. CASE Owns(cur, todo) /\ locks[todo].waitQueue # <<>>
    <3> DEFINE q == Head(LockQueues[todo])
    <3>1. LockQueues[todo] = locks[todo].waitQueue
      BY <2>1 DEF LockQueues
    <3>2. /\ state' = [state EXCEPT ![q] = "Ready"] /\ ready' = Push(ready, q)
          /\ locks' = [locks EXCEPT ![todo] = Released(locks[todo])]
      BY <1>13, <2>3, <3>1 DEF CleanupLock
    <3>3. LockQueues' = [LockQueues EXCEPT ![todo] = Tail(@)]
      BY <1>a, <2>1, <2>3, <3>2 DEF LockQueues, TypeOK, Released
    <3>4. "WaitingLock" \in ProcState
      BY DEF ProcState
    <3>5. /\ q \in Proc /\ state[q] = "WaitingLock"
          /\ WaitOK(LockId, LockQueues', "WaitingLock", state')
      <4>1. WaitOK(LockId, LockQueues, "WaitingLock", state)
        BY <1>a DEF Queues
      <4>2. LockQueues[todo] # <<>>
        BY <2>3, <3>1
      <4>3. /\ q \in Proc /\ state[q] = "WaitingLock"
            /\ WaitOK(LockId, [LockQueues EXCEPT ![todo] = Tail(@)],
                      "WaitingLock", [state EXCEPT ![q] = "Ready"])
        BY <1>c, <2>1, <3>4, <4>1, <4>2, WaitPop
      <4> QED BY <3>2, <3>3, <4>3
    <3> HIDE DEF q
    <3>6. /\ state'[q] = "Ready"
          /\ \A x \in Proc : x # q => state'[x] = state[x]
      BY <1>c, <3>2, <3>5
    <3>7. ReadyOK(ready', state')
      BY <1>a, <1>c, <3>2, <3>5, ReadyPush DEF Queues
    <3>8. SleepOK(sleeping', state')
      BY <1>a, <2>1, <3>5, <3>6 DEF Queues, SleepOK
    <3>9. WaitOK(EventId, EventQueues', "WaitingEvent", state')
      BY <1>a, <1>d, <2>1, <3>5, <3>6, WaitKeep DEF Queues
    <3>10. RunOK' /\ CleanupDead'
      BY <1>a, <2>1, <3>5, <3>6 DEF Queues, RunOK, CleanupDead
    <3> QED BY <2>1, <3>5, <3>7, <3>8, <3>9, <3>10 DEF Queues, ReadyOK
  <2> QED BY <2>2, <2>3
<1>14. CASE UNCHANGED vars
  <2>1. RunOK'
    BY <1>a, <1>14 DEF Queues, RunOK, vars
  <2> QED BY <1>a, <1>14, <2>1, StillQueues DEF CleanupDead, vars
<1> QED BY <1>1, <1>2, <1>3, <1>4, <1>5, <1>6, <1>7, <1>8, <1>9, <1>10, <1>11,
          <1>12, <1>13, <1>14
       DEF Next, LoopStep, TrapStep, HandlerStep

\* The inductive invariant of the two queue theorems.
LEMMA QInvStep == QInv /\ [Next]_vars => QInv'
  BY TInvStep, QueuesStep DEF QInv

\* The queues never hold a process twice, or one that is in another state:
\* what enqueueReady_, tickSleepers_, SignalEvent, ReleaseLock and
\* cleanupProcess_ push was taken off every other queue before.
THEOREM QueuedOnceHolds == Spec => []QueuedOnce
<1>1. QInv => QueuedOnce
  BY QueuesSuffice DEF QInv, TInv
<1> QED BY <1>1, InitQInv, QInvStep, PTL DEF Spec

\* No handler of run() drops a process: a ready, sleeping or blocked process
\* stands in a queue that will wake it.
THEOREM NobodyLostHolds == Spec => []NobodyLost
<1>1. QInv => NobodyLost
  BY QueuesSuffice DEF QInv, TInv
<1> QED BY <1>1, InitQInv, QInvStep, PTL DEF Spec

-----------------------------------------------------------------------------
(***************************************************************************)
(* Events.                                                                 *)
(***************************************************************************)

\* WaitEvent queues only when no signal is pending, SignalEvent leaves one
\* pending only when nobody waits: no order of the two misses a wake-up.
THEOREM NoMissedSignalHolds == Spec => []NoMissedSignal
<1>1. Init => NoMissedSignal
  BY DEF Init, NoMissedSignal
<1>2. ASSUME TypeOK, NoMissedSignal, [Next]_vars PROVE NoMissedSignal'
  <2>a. events \in [EventId -> EventType]
    BY <1>2 DEF TypeOK, EventType
  <2>1. CASE UNCHANGED events
    BY <1>2, <2>1 DEF NoMissedSignal
  <2>2. CASE \E r \in Args : WaitEvent(r)
    <3>1. PICK r \in Args : WaitEvent(r)
      BY <2>2
    <3> DEFINE e == AsInt(r)
    <3>2. \/ UNCHANGED events
          \/ e \in EventId /\ events' = [events EXCEPT ![e].signaled = FALSE]
          \/ /\ e \in EventId /\ ~events[e].signaled
             /\ events' = [events EXCEPT ![e].waitQueue = Append(@, cur)]
      BY <3>1 DEF WaitEvent
    <3> HIDE DEF e
    <3>3. CASE e \in EventId /\ events' = [events EXCEPT ![e].signaled = FALSE]
      BY <1>2, <2>a, <3>3 DEF NoMissedSignal, EventType
    <3>4. CASE /\ e \in EventId /\ ~events[e].signaled
               /\ events' = [events EXCEPT ![e].waitQueue = Append(@, cur)]
      BY <1>2, <2>a, <3>4 DEF NoMissedSignal, EventType
    <3> QED BY <2>1, <3>2, <3>3, <3>4
  <2>3. CASE \E r \in Args : SignalEvent(r)
    <3>1. PICK r \in Args : SignalEvent(r)
      BY <2>3
    <3> DEFINE e == AsInt(r)
    <3>2. \/ UNCHANGED events
          \/ /\ e \in EventId /\ events[e].waitQueue = <<>>
             /\ events' = [events EXCEPT ![e].signaled = TRUE]
      BY <3>1 DEF SignalEvent
    <3> HIDE DEF e
    <3>3. CASE /\ e \in EventId /\ events[e].waitQueue = <<>>
               /\ events' = [events EXCEPT ![e].signaled = TRUE]
      BY <1>2, <2>a, <3>3 DEF NoMissedSignal, EventType
    <3> QED BY <2>1, <3>2, <3>3
  <2>4. CASE SignalWake
    <3>1. /\ events[todo].waitQueue # <<>>
          /\ events' = [events EXCEPT ![todo].waitQueue = Tail(@)]
      BY <2>4 DEF SignalWake
    <3> QED BY <1>2, <2>a, <3>1 DEF NoMissedSignal, EventType
  <2> QED BY <1>2, <2>1, <2>2, <2>3, <2>4
          DEF Next, LoopStep, TrapStep, HandlerStep, vars, CreateProcess, Run,
              TickSleeper, Dispatch, SpinForSleepers, Return, Requeue, Exit, Sleep,
              AcquireLock, ReleaseLock, SignalDone, CleanupLock, CleanupDone
<1> QED BY <1>1, <1>2, TypeCorrect, PTL DEF Spec

-----------------------------------------------------------------------------
(***************************************************************************)
(* Locks.  A holder stays alive until it releases, or until the loop of    *)
(* cleanupProcess_ has passed the lock.                                    *)
(***************************************************************************)
Alive == {p \in Proc : state[p] \notin {"New", "Terminated"}}

\* LocksNeverStranded of one lock.
LockSafe(l) ==
    /\ locks[l].held <=> locks[l].ownerPid # NoProc
    /\ locks[l].waitQueue # <<>> => locks[l].held
    /\ locks[l].held =>
          \/ locks[l].ownerPid \in Alive
          \/ phase = "cleanup" /\ locks[l].ownerPid = cur /\ todo <= l

\* The locks are safe one by one.
LEMMA StrandedIsSafe ==
  /\ TypeOK => (LocksNeverStranded <=> \A l \in LockId : LockSafe(l))
  /\ TypeOK' => (LocksNeverStranded' <=> \A l \in LockId : LockSafe(l)')
  BY SchedulerAssumption DEF TypeOK, LocksNeverStranded, LockSafe, Alive

\* Only Exit, and only of the running process, ends a life.
LEMMA StaysAlive ==
  ASSUME QInv, [Next]_vars
  PROVE  /\ Exit => \A p \in Alive : p # cur => p \in Alive'
         /\ ~Exit => Alive \subseteq Alive'
<1> USE SchedulerAssumption
<1>a. state \in [Proc -> ProcState]
  BY DEF QInv, TInv, TypeOK
<1>1. CASE Exit
  BY <1>a, <1>1 DEF Exit, Alive
<1>2. CASE TickSleeper \/ Dispatch \/ Requeue
  BY <1>a, <1>2 DEF TickSleeper, Dispatch, Requeue, Exit, Alive
<1>3. CASE SignalWake \/ SignalDone \/ CleanupLock
  BY <1>a, <1>3 DEF SignalWake, SignalDone, CleanupLock, Exit, Alive
<1>4. CASE \E r \in Args : Sleep(r) \/ AcquireLock(r) \/ WaitEvent(r)
  BY <1>a, <1>4 DEF Sleep, AcquireLock, WaitEvent, Exit, Alive
<1>5. CASE \E r \in Args : ReleaseLock(r) \/ SignalEvent(r)
  BY <1>a, <1>5 DEF ReleaseLock, SignalEvent, Exit, Alive
<1>6. CASE \E p \in Proc, prio \in Priorities : CreateProcess(p, prio)
  BY <1>a, <1>6 DEF CreateProcess, Exit, Alive
<1>7. CASE UNCHANGED state
  BY <1>1, <1>7 DEF Alive
<1> QED BY <1>1, <1>2, <1>3, <1>4, <1>5, <1>6, <1>7
       DEF Next, LoopStep, TrapStep, HandlerStep, vars, Run, SpinForSleepers,
           Return, CleanupDone

\* A lock that a step does not touch, when the step neither ends a process
\* nor belongs to cleanupProcess_, stays as safe as it was.
LEMMA LockKeep ==
  ASSUME QInv, LocksNeverStranded, [Next]_vars, NEW l \in LockId,
         locks'[l] = locks[l], phase \notin {"cleanup"}, ~Exit
  PROVE  LockSafe(l)'
<1>1. LockSafe(l) /\ Alive \subseteq Alive'
  BY StaysAlive, StrandedIsSafe DEF QInv, TInv
<1> QED BY <1>1 DEF LockSafe

\* Every step keeps every lock safe.
LEMMA LocksStep ==
  QInv /\ LocksNeverStranded /\ [Next]_vars => LocksNeverStranded'
<1> SUFFICES ASSUME QInv, LocksNeverStranded, [Next]_vars, NEW l \in LockId
             PROVE  LockSafe(l)'
  BY TInvStep, StrandedIsSafe DEF QInv, TInv
<1> USE SchedulerAssumption
<1>a. TypeOK /\ Control /\ locks \in [LockId -> LockType] /\ LockSafe(l)
  BY StrandedIsSafe DEF QInv, TInv, TypeOK, LockType
<1>b. l \in Int /\ todo \in Nat
  BY <1>a DEF TypeOK, LockId
<1>c. phase = "cpu" => cur \in Proc /\ state[cur] = "Running"
  BY DEF QInv, TInv, Control, Queues, RunOK
<1>d. state' \in [Proc -> ProcState]
  BY TInvStep DEF QInv, TInv, TypeOK
<1>1. CASE locks'[l] = locks[l] /\ phase # "cleanup" /\ ~Exit
  BY <1>1, LockKeep
<1>2. CASE Exit
  <2>1. /\ phase = "cpu" /\ phase' = "cleanup" /\ cur' = cur /\ todo' = 0
        /\ UNCHANGED locks
    BY <1>2 DEF Exit
  <2>2. \A p \in Alive : p # cur => p \in Alive'
    BY <1>2, StaysAlive
  <2>3. 0 <= l
    BY DEF LockId
  <2> QED BY <1>a, <2>1, <2>2, <2>3 DEF LockSafe
<1>3. CASE CleanupDone
  <2>1. phase = "cleanup" /\ phase' = "tick" /\ todo \notin LockId /\ UNCHANGED <<locks, state>>
    BY <1>3 DEF CleanupDone, NextIteration
  <2>2. ~(todo <= l)
    BY <1>b, <2>1 DEF LockId
  <2> QED BY <1>a, <2>1, <2>2 DEF LockSafe, Alive
<1>4. CASE CleanupLock
  <2>1. /\ phase = "cleanup" /\ phase' = "cleanup" /\ cur' = cur /\ todo' = todo + 1
        /\ todo \in LockId
    BY <1>4 DEF CleanupLock
  <2>2. Alive \subseteq Alive'
    BY <1>4, StaysAlive DEF CleanupLock, Exit
  <2>3. CASE l # todo
    <3>1. locks'[l] = locks[l]
      BY <1>4, <1>a, <2>3 DEF CleanupLock
    <3>2. todo <= l => todo' <= l
      BY <1>b, <2>1, <2>3
    <3> QED BY <1>a, <2>1, <2>2, <3>1, <3>2 DEF LockSafe
  <2>4. CASE l = todo /\ ~Owns(cur, l)
    <3>1. locks'[l] = locks[l]
      BY <1>4, <2>4 DEF CleanupLock
    <3> QED BY <1>a, <2>2, <2>4, <3>1 DEF LockSafe, Owns
  <2>5. CASE l = todo /\ Owns(cur, l) /\ locks[l].waitQueue = <<>>
    <3>1. locks'[l] = Released(locks[l])
      BY <1>4, <1>a, <2>5 DEF CleanupLock
    <3> QED BY <2>5, <3>1 DEF LockSafe, Released
  <2>6. CASE l = todo /\ Owns(cur, l) /\ locks[l].waitQueue # <<>>
    <3> DEFINE q == Head(locks[l].waitQueue)
    <3>1. locks'[l] = Released(locks[l]) /\ state' = [state EXCEPT ![q] = "Ready"]
      BY <1>4, <1>a, <2>6 DEF CleanupLock
    <3>2. q \in Proc
      BY <1>a, <2>6, TailFacts DEF LockType
    <3>3. q \in Alive'
      BY <1>a, <3>1, <3>2 DEF Alive, TypeOK
    <3>4. /\ locks'[l].held /\ locks'[l].ownerPid = q
      BY <2>6, <3>1 DEF Released
    <3> QED BY <3>2, <3>3, <3>4 DEF LockSafe
  <2> QED BY <2>3, <2>4, <2>5, <2>6
<1>5. ASSUME NEW r \in Args, AcquireLock(r) PROVE LockSafe(l)'
  <2> DEFINE m == AsInt(r)
  <2>1. CASE locks'[l] = locks[l]
    BY <1>1, <1>5, <2>1 DEF AcquireLock, Exit, NextIteration
  <2>2. CASE locks'[l] # locks[l]
    <3>1. /\ phase = "cpu"
          /\ \/ /\ locks' = [locks EXCEPT ![m].held = TRUE, ![m].ownerPid = cur]
                /\ state' = [state EXCEPT ![cur] = "Ready"]
             \/ /\ locks[m].held
                /\ locks' = [locks EXCEPT ![m].waitQueue = Append(@, cur)]
                /\ state' = [state EXCEPT ![cur] = "WaitingLock"]
      BY <1>5, <2>2 DEF AcquireLock
    <3>2. l = m
      <4> HIDE DEF m
      <4> QED BY <1>a, <2>2, <3>1
    <3> HIDE DEF m
    <3>3. Alive \subseteq Alive'
      BY <1>5, StaysAlive DEF AcquireLock, Exit, NextIteration
    <3>4. cur \in Alive'
      BY <1>a, <1>c, <3>1 DEF Alive, TypeOK
    <3>5. CASE locks' = [locks EXCEPT ![m].held = TRUE, ![m].ownerPid = cur]
      <4>1. locks'[l].held /\ locks'[l].ownerPid = cur
        BY <1>a, <3>2, <3>5 DEF LockType
      <4>2. cur # NoProc
        BY <1>c, <3>1
      <4> QED BY <3>4, <4>1, <4>2 DEF LockSafe
    <3>6. CASE /\ locks[m].held
               /\ locks' = [locks EXCEPT ![m].waitQueue = Append(@, cur)]
      <4>1. locks'[l].held /\ locks'[l].ownerPid = locks[l].ownerPid /\ locks[l].held
        BY <1>a, <3>2, <3>6 DEF LockType
      <4> QED BY <1>a, <3>1, <3>3, <4>1 DEF LockSafe
    <3> QED BY <3>1, <3>5, <3>6
  <2> QED BY <2>1, <2>2
<1>6. ASSUME NEW r \in Args, ReleaseLock(r) PROVE LockSafe(l)'
  <2> DEFINE m == AsInt(r)
  <2>1. CASE locks'[l] = locks[l]
    BY <1>1, <1>6, <2>1 DEF ReleaseLock, Exit, NextIteration
  <2>2. CASE locks'[l] # locks[l]
    <3>1. /\ locks' = [locks EXCEPT ![m] = Released(locks[m])]
          /\ locks[m].waitQueue # <<>> =>
               state' = [state EXCEPT ![Head(locks[m].waitQueue)] = "Ready",
                                      ![cur] = "Ready"]
      BY <1>6, <2>2 DEF ReleaseLock
    <3> HIDE DEF m
    <3>2. l = m /\ locks'[l] = Released(locks[l])
      BY <1>a, <2>2, <3>1
    <3>3. CASE locks[l].waitQueue = <<>>
      BY <3>2, <3>3 DEF LockSafe, Released
    <3>4. CASE locks[l].waitQueue # <<>>
      <4> DEFINE q == Head(locks[l].waitQueue)
      <4>1. q \in Proc /\ locks'[l].held /\ locks'[l].ownerPid = q
        BY <1>a, <3>2, <3>4, TailFacts DEF LockType, Released
      <4>2. state' = [state EXCEPT ![q] = "Ready", ![cur] = "Ready"]
        BY <3>1, <3>2, <3>4
      <4> HIDE DEF q
      <4>3. q \in Alive'
        BY <1>a, <4>1, <4>2 DEF Alive, TypeOK
      <4> QED BY <4>1, <4>3 DEF LockSafe
    <3> QED BY <3>3, <3>4
  <2> QED BY <2>1, <2>2
<1>7. CASE UNCHANGED vars
  BY <1>a, <1>7 DEF LockSafe, Alive, vars
<1>8. CASE UNCHANGED locks /\ phase # "cleanup"
  BY <1>1, <1>2, <1>8
<1> QED BY <1>2, <1>3, <1>4, <1>5, <1>6, <1>7, <1>8
       DEF Next, LoopStep, TrapStep, HandlerStep, CreateProcess, Run, TickSleeper,
           Dispatch, SpinForSleepers, Return, Requeue, Sleep, WaitEvent,
           SignalEvent, SignalWake, SignalDone

\* A lock somebody waits for always has a holder that can still release it:
\* ReleaseLock and cleanupProcess_ hand it on, and only to a waiter.
THEOREM LocksNeverStrandedHolds == Spec => []LocksNeverStranded
<1>1. Init => LocksNeverStranded
  BY DEF Init, LocksNeverStranded
<1> QED BY <1>1, InitQInv, QInvStep, LocksStep, PTL DEF Spec

-----------------------------------------------------------------------------
(***************************************************************************)
(* The main loop.                                                          *)
(***************************************************************************)

\* With every ready queue empty no process is ready.
LEMMA NobodyReady ==
  ASSUME TypeOK, NobodyLost, Nonempty = {}, NEW p \in Proc
  PROVE  state[p] # "Ready"
<1>1. Clamp(priority[p]) \in Level
  BY ClampType DEF TypeOK
<1>2. ready[Clamp(priority[p])] = <<>>
  BY <1>1 DEF Nonempty
<1> QED BY <1>2, EmptyFacts DEF NobodyLost

\* run() returns only when nothing can move: pickNextReady_ found every ready
\* queue empty, nobody sleeps, and every lock that is waited for is held by a
\* process that waits as well.
THEOREM ReturnsOnlyWhenStuckHolds == Spec => []ReturnsOnlyWhenStuck
<1>1. Init => ReturnsOnlyWhenStuck
  BY DEF Init, ReturnsOnlyWhenStuck
<1>2. ASSUME QInv, LocksNeverStranded, ReturnsOnlyWhenStuck, [Next]_vars
      PROVE  ReturnsOnlyWhenStuck'
  <2>a. TypeOK /\ Control /\ NobodyLost
    BY <1>2, QueuesSuffice DEF QInv, TInv
  <2>1. CASE Return
    <3>1. /\ phase = "tick" /\ Nonempty = {} /\ sleeping = <<>>
          /\ UNCHANGED <<state, locks>>
      BY <2>1 DEF Return
    <3>2. \A p \in Proc : state[p] \notin {"Ready", "WaitingSleep", "Running"}
      BY <2>a, <3>1, NobodyReady, EmptyFacts DEF NobodyLost
    <3>3. ASSUME NEW l \in LockId, locks[l].waitQueue # <<>>
          PROVE  state[locks[l].ownerPid] \in {"WaitingLock", "WaitingEvent"}
      <4> DEFINE o == locks[l].ownerPid
      <4>1. o \in Proc
        BY <1>2, <2>a, <3>3 DEF LocksNeverStranded, TypeOK
      <4>2. state[o] \notin {"New", "Terminated"}
        BY <1>2, <3>1, <3>3 DEF LocksNeverStranded
      <4>3. state[o] \in ProcState
        BY <2>a, <4>1 DEF TypeOK
      <4> QED BY <3>2, <4>1, <4>2, <4>3 DEF ProcState
    <3> QED BY <3>1, <3>2, <3>3 DEF ReturnsOnlyWhenStuck
  <2>2. ASSUME NEW p \in Proc, NEW prio \in Priorities, CreateProcess(p, prio)
        PROVE  ReturnsOnlyWhenStuck'
    <3>1. /\ phase = "idle" /\ state[p] = "New"
          /\ state' = [state EXCEPT ![p] = "Ready"] /\ UNCHANGED locks
      BY <2>2 DEF CreateProcess
    <3>2. \A l \in LockId : locks[l].waitQueue # <<>> => locks[l].ownerPid # p
      BY <1>2, <3>1 DEF LocksNeverStranded
    <3>3. \A x \in Proc : x # p => state'[x] = state[x]
      BY <2>a, <3>1 DEF TypeOK
    <3>4. \A l \in LockId : locks[l].waitQueue # <<>> => locks[l].ownerPid \in Proc
      BY <1>2, <2>a DEF LocksNeverStranded, TypeOK
    <3>5. state'[p] = "Ready"
      BY <2>a, <3>1 DEF TypeOK
    <3> QED BY <1>2, <3>1, <3>2, <3>3, <3>4, <3>5 DEF ReturnsOnlyWhenStuck
  <2>3. CASE phase' # "idle"
    BY <2>3 DEF ReturnsOnlyWhenStuck
  <2>4. CASE UNCHANGED vars
    BY <1>2, <2>4 DEF ReturnsOnlyWhenStuck, vars
  <2> QED BY <1>2, <2>1, <2>2, <2>3, <2>4
          DEF Next, LoopStep, TrapStep, HandlerStep, Run, TickSleeper, Dispatch,
              SpinForSleepers, Requeue, Exit, Sleep, AcquireLock, ReleaseLock,
              WaitEvent, SignalEvent, SignalWake, SignalDone, CleanupLock,
              CleanupDone, NextIteration
<1> QED BY <1>1, <1>2, InitQInv, QInvStep, LocksNeverStrandedHolds, PTL DEF Spec

\* The process contextSwitchTo_ puts on the processor is of the most urgent
\* priority that is ready: pickNextReady_ scans the queues from level 1 up,
\* and by NobodyLost it finds there every process that is ready.
THEOREM MostUrgentRunsHolds == Spec => MostUrgentRuns
<1> DEFINE Urgent ==
      \A p, q \in Proc :
         state[p] # "Running" /\ state'[p] = "Running" /\ state[q] = "Ready"
         => Clamp(priority[p]) <= Clamp(priority[q])
<1>1. ASSUME QInv, [Next]_vars PROVE [Urgent]_vars
  <2>a. TypeOK /\ Queues /\ NobodyLost /\ state \in [Proc -> ProcState]
    BY <1>1, QueuesSuffice DEF QInv, TInv, TypeOK
  <2>1. CASE Dispatch
    <3>1. PICK k \in Nonempty :
            /\ \A j \in Nonempty : k <= j
            /\ state' \in {state, [state EXCEPT ![Head(ready[k])] = "Running"]}
      BY <2>1 DEF Dispatch
    <3> DEFINE h == Head(ready[k])
    <3>2. k \in Level /\ ready[k] # <<>> /\ "Running" \in ProcState
      BY DEF Nonempty, ProcState
    <3>3. h \in Proc /\ Clamp(priority[h]) = k
      BY <2>a, <3>2, ReadyPop DEF Queues
    <3>4. ASSUME NEW q \in Proc, state[q] = "Ready" PROVE k <= Clamp(priority[q])
      <4>1. Clamp(priority[q]) \in Level
        BY <2>a, ClampType DEF TypeOK
      <4>2. ready[Clamp(priority[q])] # <<>>
        BY <2>a, <3>4, EmptyFacts DEF NobodyLost
      <4> QED BY <3>1, <4>1, <4>2 DEF Nonempty
    <3> HIDE DEF h
    <3>5. \A p \in Proc : state[p] # "Running" /\ state'[p] = "Running" => p = h
      BY <2>a, <3>1, <3>3 DEF h
    <3> QED BY <3>3, <3>4, <3>5
  <2>2. CASE \A p \in Proc : state'[p] = "Running" => state[p] = "Running"
    BY <2>2
  <2>3. CASE \E p \in Proc, prio \in Priorities : CreateProcess(p, prio)
    BY <2>a, <2>2, <2>3 DEF CreateProcess
  <2>4. CASE TickSleeper \/ Requeue \/ Exit \/ SignalWake \/ SignalDone \/ CleanupLock
    BY <2>a, <2>2, <2>4
       DEF TickSleeper, Requeue, Exit, SignalWake, SignalDone, CleanupLock
  <2>5. CASE \E r \in Args : \/ Sleep(r) \/ AcquireLock(r) \/ ReleaseLock(r)
                            \/ WaitEvent(r) \/ SignalEvent(r)
    BY <2>a, <2>2, <2>5
       DEF Sleep, AcquireLock, ReleaseLock, WaitEvent, SignalEvent
  <2>6. CASE UNCHANGED state
    BY <2>2, <2>6
  <2> QED BY <1>1, <2>1, <2>3, <2>4, <2>5, <2>6
          DEF Next, LoopStep, TrapStep, HandlerStep, vars, Run, SpinForSleepers,
              Return, CleanupDone
<1>2. MostUrgentRuns <=> [][Urgent]_vars
  BY DEF MostUrgentRuns
<1> QED BY <1>1, <1>2, InitQInv, QInvStep, PTL DEF Spec
=============================================================================
