------------------------------ MODULE Scheduler ------------------------------
(***************************************************************************)
(* The process scheduler of OS.cpp: the main loop of OS::run, the ready    *)
(* queues, the sleep list, and the locks and events processes block on.    *)
(*                                                                         *)
(* The OS is one thread.  `phase' is its program counter:                  *)
(*   "idle"     outside run(); processes may be created, run() called      *)
(*   "tick"     in tickSleepers_, `todo' sleepers left to look at; when    *)
(*              none is left, pickNextReady_ comes next                    *)
(*   "cpu"      CPU::Run executes process `cur', until it traps            *)
(*   "signal"   in the wake-up loop of Trap::SignalEvent, on event `todo'  *)
(*   "cleanup"  in the lock loop of cleanupProcess_, at lock `todo'        *)
(* A loop of the code is one action per iteration; no other action is      *)
(* enabled until it is done.  What a process computes between two traps is *)
(* left open: in phase "cpu" any trap may come, with any value of r1.      *)
(*                                                                         *)
(* A process is identified with its index in processes_ and with its pid   *)
(* (pids are handed out once, in index order).                             *)
(***************************************************************************)
EXTENDS Integers, Sequences, SequencesExt

CONSTANTS Proc,        \* the processes that may ever be created
          NoProc,      \* ownerPid 0, and no running process
          MaxPrio,     \* number of priority levels (32)
          Priorities,  \* the priorities a caller may ask for
          NumLocks,    \* NUM_LOCKS
          NumEvents,   \* NUM_EVENTS
          WordMod,     \* number of values of a machine word (2^32)
          Args         \* the values register r1 may hold at a trap (int64)

ASSUME SchedulerAssumption ==
    /\ NoProc \notin Proc
    /\ MaxPrio \in Nat \ {0}
    /\ Priorities \subseteq Nat
    /\ NumLocks \in Nat
    /\ NumEvents \in Nat
    /\ WordMod \in Nat \ {0}
    /\ Args \subseteq Int

VARIABLES phase,         \* program counter of the OS
          todo,          \* loop variable of the current phase
          cur,           \* the process `p' of run(), or NoProc
          state,         \* pcb.state
          priority,      \* pcb.priority
          sleepCounter,  \* pcb.sleepCounter
          ready,         \* ready_
          sleeping,      \* sleeping_
          locks,         \* locks_
          events         \* events_

vars == <<phase, todo, cur, state, priority, sleepCounter, ready, sleeping,
          locks, events>>

Level   == 1 .. MaxPrio
LockId  == 0 .. NumLocks - 1
EventId == 0 .. NumEvents - 1

\* procstate.h.  WaitingIO is missing: the Input traps assign it and
\* enqueueReady_ overwrites it before anyone can look.
ProcState == {"New", "Ready", "Running", "WaitingSleep", "WaitingLock",
              "WaitingEvent", "Terminated"}

TypeOK ==
    /\ phase \in {"idle", "tick", "cpu", "signal", "cleanup"}
    /\ todo \in Nat
    /\ cur \in Proc \cup {NoProc}
    /\ state \in [Proc -> ProcState]
    /\ priority \in [Proc -> Nat]
    /\ sleepCounter \in [Proc -> Nat]
    /\ ready \in [Level -> Seq(Proc)]
    /\ sleeping \in Seq(Proc)
    /\ locks \in [LockId -> [held : BOOLEAN, ownerPid : Proc \cup {NoProc},
                             waitQueue : Seq(Proc)]]
    /\ events \in [EventId -> [signaled : BOOLEAN, waitQueue : Seq(Proc)]]

Init ==
    /\ phase = "idle"
    /\ todo = 0
    /\ cur = NoProc
    /\ state = [p \in Proc |-> "New"]
    /\ priority = [p \in Proc |-> 16]
    /\ sleepCounter = [p \in Proc |-> 0]
    /\ ready = [k \in Level |-> <<>>]
    /\ sleeping = <<>>
    /\ locks = [l \in LockId |->
                  [held |-> FALSE, ownerPid |-> NoProc, waitQueue |-> <<>>]]
    /\ events = [e \in EventId |-> [signaled |-> FALSE, waitQueue |-> <<>>]]

-----------------------------------------------------------------------------
\* static_cast<int> and static_cast<uint32_t> of an int64 register.
AsInt(r)    == ((r + WordMod \div 2) % WordMod) - (WordMod \div 2)
AsUint32(r) == r % WordMod

\* enqueueReady_: the queue a priority selects, and a push onto it.
Clamp(prio) == IF prio < 1 THEN 1 ELSE IF prio > MaxPrio THEN MaxPrio ELSE prio

Push(rdy, p) == [rdy EXCEPT ![Clamp(priority[p])] = Append(@, p)]

\* Two slips: a sleeper is not counted; no sleeper is.
MutNextIteration(slp) == phase' = "tick" /\ todo' = Len(slp) - 1 /\ cur' = NoProc
MutNoTick(slp)        == phase' = "tick" /\ todo' = 0 /\ cur' = NoProc

\* The top of the while loop in run(): tickSleepers_ takes the length of the
\* sleep list (`slp' now) and no process is current.
NextIteration(slp) ==
    /\ phase' = "tick"
    /\ todo' = Len(slp)
    /\ cur' = NoProc

-----------------------------------------------------------------------------
(***************************************************************************)
(* Outside run().                                                          *)
(***************************************************************************)

\* createProcessFromAsm, when the program assembles and its image fits.
CreateProcess(p, prio) ==
    /\ phase = "idle"
    /\ state[p] = "New"
    /\ priority' = [priority EXCEPT ![p] = prio]
    /\ state' = [state EXCEPT ![p] = "Ready"]
    /\ ready' = [ready EXCEPT ![Clamp(prio)] = Append(@, p)]
    /\ UNCHANGED <<phase, todo, cur, sleepCounter, sleeping, locks, events>>

\* run() is called.
Run ==
    /\ phase = "idle"
    /\ NextIteration(sleeping)
    /\ UNCHANGED <<state, priority, sleepCounter, ready, sleeping, locks, events>>

-----------------------------------------------------------------------------
(***************************************************************************)
(* The head of the loop: tick the sleepers, pick a process.                *)
(***************************************************************************)

\* One iteration of tickSleepers_.
TickSleeper ==
    /\ phase = "tick"
    /\ todo > 0
    /\ LET p == Head(sleeping)
           c == IF sleepCounter[p] > 0 THEN sleepCounter[p] - 1 ELSE 0
       IN  IF state[p] # "WaitingSleep"
           THEN /\ sleeping' = Tail(sleeping)
                /\ UNCHANGED <<sleepCounter, state, ready>>
           ELSE /\ sleepCounter' = [sleepCounter EXCEPT ![p] = c]
                /\ IF c = 0
                   THEN /\ sleeping' = Tail(sleeping)
                        /\ state' = [state EXCEPT ![p] = "Ready"]
                        /\ ready' = Push(ready, p)
                   ELSE /\ sleeping' = Append(Tail(sleeping), p)
                        /\ UNCHANGED <<state, ready>>
    /\ todo' = todo - 1
    /\ UNCHANGED <<phase, cur, priority, locks, events>>

\* Two slips: the scan of the ready queues stops a level early; starts late.
MutNonempty == {k \in Level : k < MaxPrio /\ ready[k] # <<>>}
MutScan     == {k \in Level : k > 1 /\ ready[k] # <<>>}

Nonempty == {k \in Level : ready[k] # <<>>}

\* pickNextReady_ finds a process; contextSwitchTo_ makes it run.
Dispatch ==
    /\ phase = "tick"
    /\ todo = 0
    /\ \E k \in Nonempty :
         LET p == Head(ready[k])
         IN  /\ \A j \in Nonempty : k <= j
             /\ ready' = [ready EXCEPT ![k] = Tail(@)]
             /\ IF state[p] = "Terminated"
                THEN /\ NextIteration(sleeping)
                     /\ UNCHANGED state
                ELSE /\ phase' = "cpu"
                     /\ cur' = p
                     /\ state' = [state EXCEPT ![p] = "Running"]
                     /\ UNCHANGED todo
    /\ UNCHANGED <<priority, sleepCounter, sleeping, locks, events>>

\* No process is ready, some sleep: go round the loop once more.
SpinForSleepers ==
    /\ phase = "tick"
    /\ todo = 0
    /\ Nonempty = {}
    /\ sleeping # <<>>
    /\ NextIteration(sleeping)
    /\ UNCHANGED <<state, priority, sleepCounter, ready, sleeping, locks, events>>

\* No process is ready and none sleeps: run() returns.
Return ==
    /\ phase = "tick"
    /\ todo = 0
    /\ Nonempty = {}
    /\ sleeping = <<>>
    /\ phase' = "idle"
    /\ UNCHANGED <<todo, cur, state, priority, sleepCounter, ready, sleeping,
                   locks, events>>

-----------------------------------------------------------------------------
(***************************************************************************)
(* The traps.  Every action below is one case of the switch in run().      *)
(***************************************************************************)

\* QuantumExpired, None, Input and Inputc: back to the ready queue.  The traps
\* and faults that only concern memory end the same way.
Requeue ==
    /\ phase = "cpu"
    /\ state' = [state EXCEPT ![cur] = "Ready"]
    /\ ready' = Push(ready, cur)
    /\ NextIteration(sleeping)
    /\ UNCHANGED <<priority, sleepCounter, sleeping, locks, events>>

\* Sleep for r1 turns of the loop, one at least; r1 is cut to 32 bits.
Sleep(r) ==
    /\ phase = "cpu"
    /\ state' = [state EXCEPT ![cur] = "WaitingSleep"]
    /\ sleepCounter' = [sleepCounter EXCEPT ![cur] = IF r <= 0 THEN 1 ELSE AsUint32(r)]
    /\ sleeping' = Append(sleeping, cur)
    /\ NextIteration(Append(sleeping, cur))
    /\ UNCHANGED <<priority, ready, locks, events>>

\* AcquireLock takes a free lock, queues for a held one (its own included),
\* and ignores an id that names no lock.
AcquireLock(r) ==
    LET l == AsInt(r) IN
    /\ phase = "cpu"
    /\ \/ /\ l \notin LockId
          /\ state' = [state EXCEPT ![cur] = "Ready"]
          /\ ready' = Push(ready, cur)
          /\ UNCHANGED locks
       \/ /\ l \in LockId
          /\ ~locks[l].held
          /\ locks' = [locks EXCEPT ![l].held = TRUE, ![l].ownerPid = cur]
          /\ state' = [state EXCEPT ![cur] = "Ready"]
          /\ ready' = Push(ready, cur)
       \/ /\ l \in LockId
          /\ locks[l].held
          /\ locks' = [locks EXCEPT ![l].waitQueue = Append(@, cur)]
          /\ state' = [state EXCEPT ![cur] = "WaitingLock"]
          /\ UNCHANGED ready
    /\ NextIteration(sleeping)
    /\ UNCHANGED <<priority, sleepCounter, sleeping, events>>

\* A slip: the id 0 counts as no lock.
MutOwns(p, l) == l > 0 /\ locks[l].held /\ locks[l].ownerPid = p

Owns(p, l) == locks[l].held /\ locks[l].ownerPid = p

\* Two slips: the first waiter is not taken off the queue; the others are
\* dropped with it.
MutKeepWaiting(lock) ==
    [lock EXCEPT !.held = lock.waitQueue # <<>>,
                 !.ownerPid = IF lock.waitQueue # <<>> THEN Head(lock.waitQueue) ELSE NoProc]
MutDropWaiters(lock) == [held |-> FALSE, ownerPid |-> NoProc, waitQueue |-> <<>>]

\* What releasing a lock makes of it: the first waiter owns it, or nobody.
Released(lock) ==
    IF lock.waitQueue # <<>>
    THEN [held |-> TRUE, ownerPid |-> Head(lock.waitQueue),
          waitQueue |-> Tail(lock.waitQueue)]
    ELSE [held |-> FALSE, ownerPid |-> NoProc, waitQueue |-> <<>>]

\* ReleaseLock by the owner wakes the first waiter, then requeues the owner;
\* by anyone else, or with an id that names no lock, it is ignored.
ReleaseLock(r) ==
    LET l == AsInt(r) IN
    /\ phase = "cpu"
    /\ \/ /\ l \in LockId
          /\ Owns(cur, l)
          /\ locks[l].waitQueue # <<>>
          /\ LET q == Head(locks[l].waitQueue)
             IN  /\ state' = [state EXCEPT ![q] = "Ready", ![cur] = "Ready"]
                 /\ ready' = Push(Push(ready, q), cur)
          /\ locks' = [locks EXCEPT ![l] = Released(@)]
       \/ /\ l \in LockId
          /\ Owns(cur, l)
          /\ locks[l].waitQueue = <<>>
          /\ state' = [state EXCEPT ![cur] = "Ready"]
          /\ ready' = Push(ready, cur)
          /\ locks' = [locks EXCEPT ![l] = Released(@)]
       \/ /\ l \in LockId => ~Owns(cur, l)
          /\ state' = [state EXCEPT ![cur] = "Ready"]
          /\ ready' = Push(ready, cur)
          /\ UNCHANGED locks
    /\ NextIteration(sleeping)
    /\ UNCHANGED <<priority, sleepCounter, sleeping, events>>

\* WaitEvent consumes a pending signal or queues for the next one.
WaitEvent(r) ==
    LET e == AsInt(r) IN
    /\ phase = "cpu"
    /\ \/ /\ e \notin EventId
          /\ state' = [state EXCEPT ![cur] = "Ready"]
          /\ ready' = Push(ready, cur)
          /\ UNCHANGED events
       \/ /\ e \in EventId
          /\ events[e].signaled
          /\ events' = [events EXCEPT ![e].signaled = FALSE]
          /\ state' = [state EXCEPT ![cur] = "Ready"]
          /\ ready' = Push(ready, cur)
       \/ /\ e \in EventId
          /\ ~events[e].signaled
          /\ events' = [events EXCEPT ![e].waitQueue = Append(@, cur)]
          /\ state' = [state EXCEPT ![cur] = "WaitingEvent"]
          /\ UNCHANGED ready
    /\ NextIteration(sleeping)
    /\ UNCHANGED <<priority, sleepCounter, sleeping, locks>>

\* A slip: the signal is recorded even when there are waiters to wake.
MutSignalEvent(r) ==
    LET e == AsInt(r) IN
    /\ phase = "cpu"
    /\ e \in EventId
    /\ events' = [events EXCEPT ![e].signaled = TRUE]
    /\ phase' = "signal"
    /\ todo' = e
    /\ UNCHANGED <<cur, state, priority, sleepCounter, ready, sleeping, locks>>

\* SignalEvent: with waiters it enters the wake-up loop, without it leaves the
\* signal pending.
SignalEvent(r) ==
    LET e == AsInt(r) IN
    /\ phase = "cpu"
    /\ \/ /\ e \notin EventId
          /\ state' = [state EXCEPT ![cur] = "Ready"]
          /\ ready' = Push(ready, cur)
          /\ NextIteration(sleeping)
          /\ UNCHANGED events
       \/ /\ e \in EventId
          /\ events[e].waitQueue = <<>>
          /\ events' = [events EXCEPT ![e].signaled = TRUE]
          /\ state' = [state EXCEPT ![cur] = "Ready"]
          /\ ready' = Push(ready, cur)
          /\ NextIteration(sleeping)
       \/ /\ e \in EventId
          /\ events[e].waitQueue # <<>>
          /\ phase' = "signal"
          /\ todo' = e
          /\ UNCHANGED <<cur, state, ready, events>>
    /\ UNCHANGED <<priority, sleepCounter, sleeping, locks>>

\* One iteration of the wake-up loop.
SignalWake ==
    /\ phase = "signal"
    /\ events[todo].waitQueue # <<>>
    /\ LET q == Head(events[todo].waitQueue)
       IN  /\ state' = [state EXCEPT ![q] = "Ready"]
           /\ ready' = Push(ready, q)
    /\ events' = [events EXCEPT ![todo].waitQueue = Tail(@)]
    /\ UNCHANGED <<phase, todo, cur, priority, sleepCounter, sleeping, locks>>

\* The end of the loop: the signalling process goes to the ready queue.
SignalDone ==
    /\ phase = "signal"
    /\ events[todo].waitQueue = <<>>
    /\ state' = [state EXCEPT ![cur] = "Ready"]
    /\ ready' = Push(ready, cur)
    /\ NextIteration(sleeping)
    /\ UNCHANGED <<priority, sleepCounter, sleeping, locks, events>>

\* Trap::Exit, or an exception other than a page fault: cleanupProcess_ marks
\* the process and starts on its locks.
Exit ==
    /\ phase = "cpu"
    /\ state' = [state EXCEPT ![cur] = "Terminated"]
    /\ phase' = "cleanup"
    /\ todo' = 0
    /\ UNCHANGED <<cur, priority, sleepCounter, ready, sleeping, locks, events>>

\* One iteration of the lock loop of cleanupProcess_.
CleanupLock ==
    /\ phase = "cleanup"
    /\ todo \in LockId
    /\ \/ /\ Owns(cur, todo)
          /\ locks[todo].waitQueue # <<>>
          /\ LET q == Head(locks[todo].waitQueue)
             IN  /\ state' = [state EXCEPT ![q] = "Ready"]
                 /\ ready' = Push(ready, q)
          /\ locks' = [locks EXCEPT ![todo] = Released(@)]
       \/ /\ Owns(cur, todo)
          /\ locks[todo].waitQueue = <<>>
          /\ locks' = [locks EXCEPT ![todo] = Released(@)]
          /\ UNCHANGED <<state, ready>>
       \/ /\ ~Owns(cur, todo)
          /\ UNCHANGED <<state, ready, locks>>
    /\ todo' = todo + 1
    /\ UNCHANGED <<phase, cur, priority, sleepCounter, sleeping, events>>

CleanupDone ==
    /\ phase = "cleanup"
    /\ todo \notin LockId
    /\ NextIteration(sleeping)
    /\ UNCHANGED <<state, priority, sleepCounter, ready, sleeping, locks, events>>

-----------------------------------------------------------------------------
LoopStep == TickSleeper \/ Dispatch \/ SpinForSleepers \/ Return

TrapStep ==
    \/ Requeue \/ Exit
    \/ \E r \in Args : \/ Sleep(r)
                       \/ AcquireLock(r) \/ ReleaseLock(r)
                       \/ WaitEvent(r) \/ SignalEvent(r)

HandlerStep == SignalWake \/ SignalDone \/ CleanupLock \/ CleanupDone

Next ==
    \/ \E p \in Proc, prio \in Priorities : CreateProcess(p, prio)
    \/ Run
    \/ LoopStep
    \/ TrapStep
    \/ HandlerStep

Spec == Init /\ [][Next]_vars

\* Once called, run() keeps going until it returns: nothing it calls blocks,
\* and CPU::Run gives the processor back after timeQuantum steps at the latest.
FairSpec == Spec /\ WF_vars(LoopStep \/ TrapStep \/ HandlerStep)

-----------------------------------------------------------------------------
(***************************************************************************)
(* Safety.                                                                 *)
(***************************************************************************)

\* No process is in two places, or in one place twice: what stands in a queue
\* is in the state of that queue, and the queues have no duplicates.
QueuedOnce ==
    /\ \A k \in Level :
         /\ IsInjective(ready[k])
         /\ \A p \in Proc : Contains(ready[k], p) =>
               state[p] = "Ready" /\ Clamp(priority[p]) = k
    /\ IsInjective(sleeping)
    /\ \A p \in Proc : Contains(sleeping, p) => state[p] = "WaitingSleep"
    /\ \A l \in LockId :
         /\ IsInjective(locks[l].waitQueue)
         /\ \A p \in Proc : Contains(locks[l].waitQueue, p) =>
               /\ state[p] = "WaitingLock"
               /\ \A m \in LockId : Contains(locks[m].waitQueue, p) => m = l
    /\ \A e \in EventId :
         /\ IsInjective(events[e].waitQueue)
         /\ \A p \in Proc : Contains(events[e].waitQueue, p) =>
               /\ state[p] = "WaitingEvent"
               /\ \A f \in EventId : Contains(events[f].waitQueue, p) => f = e

\* No process is lost: whatever its state promises it waits for, it stands in
\* the queue from which that will wake it; the running one is `cur'.
NobodyLost ==
    \A p \in Proc :
        /\ state[p] = "Ready" => Contains(ready[Clamp(priority[p])], p)
        /\ state[p] = "WaitingSleep" => Contains(sleeping, p)
        /\ state[p] = "WaitingLock" =>
              \E l \in LockId : Contains(locks[l].waitQueue, p)
        /\ state[p] = "WaitingEvent" =>
              \E e \in EventId : Contains(events[e].waitQueue, p)
        /\ state[p] = "Running" <=> p = cur /\ phase \in {"cpu", "signal"}

\* A lock with waiters is held, and its holder is a process that can still
\* release it: no sequence of releases and exits strands the queue.
LocksNeverStranded ==
    \A l \in LockId :
        /\ locks[l].held <=> locks[l].ownerPid # NoProc
        /\ locks[l].waitQueue # <<>> => locks[l].held
        /\ locks[l].held =>
              \/ state[locks[l].ownerPid] \notin {"New", "Terminated"}
              \/ phase = "cleanup" /\ locks[l].ownerPid = cur /\ todo <= l

\* A pending signal and a waiter for it never coexist: no wake-up is lost
\* between WaitEvent and SignalEvent.
NoMissedSignal ==
    \A e \in EventId : events[e].signaled => events[e].waitQueue = <<>>

\* run() gives up only when nothing can ever move again: nobody sleeps, and
\* whoever holds a lock others wait for is blocked itself.
ReturnsOnlyWhenStuck ==
    phase = "idle" =>
        /\ \A p \in Proc : state[p] # "WaitingSleep"
        /\ \A l \in LockId : locks[l].waitQueue # <<>> =>
              state[locks[l].ownerPid] \in {"WaitingLock", "WaitingEvent"}

\* Strict priorities: whoever is given the processor, no ready process has a
\* more urgent (smaller, clamped) priority.
MostUrgentRuns ==
    [][\A p, q \in Proc :
          state[p] # "Running" /\ state'[p] = "Running" /\ state[q] = "Ready"
          => Clamp(priority[p]) <= Clamp(priority[q])]_vars

-----------------------------------------------------------------------------
(***************************************************************************)
(* Liveness, under FairSpec.                                               *)
(***************************************************************************)

\* Whoever sleeps wakes up, however busy the ready queues are: the sleep list
\* is ticked on every turn of the loop.
SleepersWake ==
    \A p \in Proc : state[p] = "WaitingSleep" ~> state[p] = "Ready"

\* Round robin: while run() is active, a ready process of the most urgent
\* priority present gets the processor.
MostUrgent(p) == \A q \in Proc : state[q] \notin {"New", "Terminated"} =>
                    Clamp(priority[p]) <= Clamp(priority[q])

UrgentProcessRuns ==
    \A p \in Proc :
        phase # "idle" /\ state[p] = "Ready" /\ MostUrgent(p)
        ~> state[p] = "Running"
=============================================================================
