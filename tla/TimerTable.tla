----------------------------- MODULE TimerTable -----------------------------
(***************************************************************************)
(* CTimer (Timer.cpp) with its clock and the real order of its queue: the  *)
(* times Timer abstracts, the heap that std::priority_queue keeps with     *)
(* CompareTimerInfo, and the handle list.                                  *)
(*                                                                         *)
(* The service thread holds the mutex of the queue from top() until it     *)
(* unlocks it or waits, so that nobody pushes meanwhile; callers that hold *)
(* the mutex of the table cancel and arm timers at any time, between any   *)
(* two readings of the clock.  Atomic here and not in Timer: what a caller *)
(* does under the mutex of the table, the heap functions, a reading of the *)
(* clock with the assignment of the ExpiredTime computed from it.          *)
(* Callbacks make no calls.                                                *)
(*                                                                         *)
(* A cell is represented by what it points to, in the array of the heap or *)
(* in the hand of a thread: StopTimer, RestartTimer and DeleteTimer put    *)
(* NULL where the timer has its cell, and nothing moves.                   *)
(***************************************************************************)
EXTENDS HandleList, TimeSpec

CONSTANTS
    NULL,       \* a cancelled cell
    NONE,       \* no cell
    Callers,    \* threads that arm timers; any number may stop and delete them
    Svc,        \* the service thread
    Settings,   \* the pairs of uIntervalMs and bAutoReset in use
    Start,      \* nanoseconds on the clock at first
    Delays,     \* nanoseconds the clock may advance at a time
    MaxNow,     \* bound: the clock
    MaxQueue    \* bound: cells queued

ASSUME TableAssumption ==
    /\ NULL \notin Handles /\ NONE \notin Handles \cup {NULL} /\ Svc \notin Callers
    /\ Settings \subseteq Nat \X BOOLEAN
    /\ Start \in Nat /\ Delays \subseteq Nat \ {0} /\ MaxNow \in Nat /\ MaxQueue \in Nat

VARIABLES
    active,     \* slots whose TimerState is TimerActive
    autoReset,  \* slots whose bAutoReset is true
    interval, expires,  \* interval and ExpiredTime of each slot
    queue,      \* the array of m_ActiveTimerQueue
    hand,       \* the cell each thread is about to push
    opening,    \* timers CreateTimer has not queued: nobody has their handle yet
    signals,    \* callers that have pushed and not yet signalled
    now,        \* what getTime and gettimeofday return
    svc,        \* timerServiceFunc: step, and its locals and that of WaitOnObject:
    timer, read, sleepTime, wake,  \* pTimerInfo, now, uSleepTime, timeout
    since, due,     \* history: when each timer was last set, when the one found
                    \* expired was due
    slept, cancels  \* history: when the wait began, a cell was cancelled

slots == <<active, autoReset, interval, expires>>
cells == <<queue, hand, opening, signals>>
service == <<svc, timer, read, sleepTime, wake>>
history == <<since, due, slept, cancels>>
tableVars == <<listVars, slots, cells, now, service, history>>

Threads == Callers \cup {Svc}
Zero == Time(0)

InitTable ==
    /\ InitList
    /\ active = {} /\ autoReset = {}
    /\ interval = [h \in Handles |-> Zero] /\ expires = [h \in Handles |-> Zero]
    /\ queue = <<>> /\ hand = [t \in Threads |-> NONE] /\ opening = {} /\ signals = {}
    /\ now = Time(Start)
    /\ svc = "awake" /\ timer = NULL /\ read = Zero /\ sleepTime = 0 /\ wake = Zero
    /\ since = [h \in Handles |-> 0] /\ due = 0 /\ slept = 0 /\ cancels = FALSE

----------------------------------------------------------------------------
(* The heap, as push_heap and pop_heap of the C++ library keep it. *)

\* x is to come after y, when the slots' times are at
CompareReversed(x, y, at) == y = NULL \/ (x # NULL /\ comp_timespec(at[x], at[y]) = -1)  \* mutant
CompareTimerInfo(x, y, at) == y = NULL \/ (x # NULL /\ comp_timespec(at[y], at[x]) = -1)

\* The array q with v moved up from the hole at i
SiftUp(q, i, v, at) ==
    LET up[j \in DOMAIN q] ==
            IF j > 1 /\ CompareTimerInfo(q[j \div 2], v, at)
            THEN [up[j \div 2] EXCEPT ![j] = q[j \div 2]]
            ELSE [q EXCEPT ![j] = v]
    IN up[i]

Push(q, v, at) == SiftUp(Append(q, v), Len(q) + 1, v, at)

\* The child that moves up into a hole
Child(q, i, at) ==
    IF 2 * i = Len(q) \/ CompareTimerInfo(q[2 * i + 1], q[2 * i], at) THEN 2 * i ELSE 2 * i + 1

Pop(q, at) ==
    LET rest == SubSeq(q, 1, Len(q) - 1)
        hole[i \in DOMAIN rest] == IF 2 * i > Len(rest) THEN i ELSE hole[Child(rest, i, at)]
        sunk[i \in DOMAIN rest] ==
            IF 2 * i > Len(rest) THEN rest
            ELSE LET c == Child(rest, i, at) IN [sunk[c] EXCEPT ![i] = rest[c]]
    IN IF rest = <<>> THEN <<>> ELSE SiftUp(sunk[1], hole[1], q[Len(q)], at)

----------------------------------------------------------------------------
(* The API.  Callers pass handles they were given. *)

Given(h) == h \in valid \ opening

\* *pHeapContainer = NULL, wherever the timer's cell is
Cancelled(h, c) == [i \in DOMAIN c |-> IF c[i] = h THEN NULL ELSE c[i]]
Cancel(h) ==
    /\ queue' = Cancelled(h, queue)
    /\ cancels' = (cancels \/ Cancelled(h, queue) # queue \/ Cancelled(h, hand) # hand)

\* ExpiredTime is set
Set(h, length) ==
    /\ expires' = [expires EXCEPT ![h] = add_timespec(now, length)]
    /\ since' = [since EXCEPT ![h] = Ns(now)]

\* A caller may allocate a cell
Free(c) == hand[c] = NONE /\ c \notin signals

CreateTimer(c, ms, activate, auto) ==
    \E h \in Handles :
        /\ GetNewHandle(h)
        /\ interval' = [interval EXCEPT ![h] = Interval(ms)]
        /\ autoReset' = IF auto THEN autoReset \cup {h} ELSE autoReset \ {h}
        /\ Set(h, Interval(ms))
        /\ IF activate
           THEN /\ Free(c) /\ hand' = [hand EXCEPT ![c] = h]
                /\ active' = active \cup {h} /\ opening' = opening \cup {h}
           ELSE active' = active \ {h} /\ UNCHANGED <<hand, opening>>
        /\ UNCHANGED <<queue, signals, now, service, due, slept, cancels>>

StopTimer(h) ==
    /\ Given(h)
    /\ active' = active \ {h}
    /\ Cancel(h) /\ hand' = Cancelled(h, hand)
    /\ UNCHANGED <<listVars, autoReset, interval, expires, opening, signals, now, service,
                   since, due, slept>>

KeepsOld(c, h) ==  \* mutant
    /\ Given(h) /\ Free(c)
    /\ active' = active \cup {h}
    /\ hand' = [hand EXCEPT ![c] = h]
    /\ Set(h, interval[h])
    /\ UNCHANGED <<listVars, autoReset, interval, queue, opening, signals, now, service,
                   due, slept, cancels>>
RestartTimer(c, h) ==
    /\ Given(h) /\ Free(c)
    /\ active' = active \cup {h}
    /\ Cancel(h) /\ hand' = [Cancelled(h, hand) EXCEPT ![c] = h]
    /\ Set(h, interval[h])
    /\ UNCHANGED <<listVars, autoReset, interval, opening, signals, now, service, due, slept>>

\* What the slot holds is forgotten unless the service thread has the timer: the
\* code leaves it there, and nobody else reads it before CreateTimer fills it.
DeleteTimer(h) ==
    /\ Given(h) /\ FreeHandle(h)
    /\ Cancel(h) /\ hand' = Cancelled(h, hand)
    /\ IF h = timer THEN UNCHANGED <<slots, since>>
       ELSE /\ active' = active \ {h} /\ autoReset' = autoReset \ {h}
            /\ interval' = [interval EXCEPT ![h] = Zero]
            /\ expires' = [expires EXCEPT ![h] = Zero] /\ since' = [since EXCEPT ![h] = 0]
    /\ UNCHANGED <<opening, signals, now, service, due, slept>>

\* The service thread holds the mutex of the queue
Inside == svc \in {"top", "look", "carrying", "falling"}

\* The new cell, or what became of it, is queued ...
PushCell(c) ==
    /\ hand[c] # NONE /\ ~Inside /\ Len(queue) < MaxQueue
    /\ queue' = Push(queue, hand[c], expires)
    /\ hand' = [hand EXCEPT ![c] = NONE] /\ opening' = opening \ {hand[c]}
    /\ signals' = signals \cup {c}
    /\ UNCHANGED <<listVars, slots, now, service, history>>

\* ... and the service thread signalled, if it waits.
Signal(c) ==
    /\ c \in signals
    /\ signals' = signals \ {c}
    /\ svc' = CASE svc = "asleep" -> "awake" [] svc = "parked" -> "woken" [] OTHER -> svc
    /\ UNCHANGED <<listVars, slots, queue, hand, opening, now, timer, read, sleepTime, wake,
                   history>>

\* Takes every cell off the queue and pushes it again; with a cancelled cell,
\* or more than MAX_TIMER_COUNT, it reads or writes where it may not.
DumpTimersQueue ==
    LET left[n \in 0 .. Len(queue)] == IF n = 0 THEN queue ELSE Pop(left[n - 1], expires)
        refilled[n \in 0 .. Len(queue)] ==
            IF n = 0 THEN <<>> ELSE Push(refilled[n - 1], left[n - 1][1], expires)
    IN /\ ~Inside /\ Len(queue) <= Size /\ \A i \in DOMAIN queue : queue[i] # NULL
       /\ queue' = refilled[Len(queue)]
       /\ UNCHANGED <<listVars, slots, hand, opening, signals, now, service, history>>

----------------------------------------------------------------------------
(* The service thread: the loop of timerServiceFunc. *)

TimedOut == svc = "asleep" /\ comp_timespec(wake, now) # 1
Runs == svc \in {"awake", "woken"} \/ TimedOut

\* The queue is seen empty and its mutex released; the wait begins in another step.
SeeEmpty ==
    /\ svc = "awake" /\ queue = <<>>
    /\ svc' = "parking" /\ cancels' = (\E t \in Threads : hand[t] = NULL)
    /\ UNCHANGED <<listVars, slots, cells, now, timer, read, sleepTime, wake, since, due, slept>>

Park ==
    /\ svc = "parking" /\ svc' = "parked"
    /\ UNCHANGED <<listVars, slots, cells, now, timer, read, sleepTime, wake, history>>

\* top(); of an empty queue, after a late signal, it is undefined
TakeTop ==
    /\ Runs /\ queue # <<>> /\ queue[1] # NULL
    /\ svc' = "top" /\ timer' = queue[1]
    /\ read' = Zero /\ wake' = Zero /\ slept' = 0
    /\ UNCHANGED <<listVars, slots, cells, now, sleepTime, since, due, cancels>>

DropCancelled ==
    /\ Runs /\ queue # <<>> /\ queue[1] = NULL
    /\ queue' = Pop(queue, expires)
    /\ svc' = "awake" /\ timer' = NULL
    /\ UNCHANGED <<listVars, slots, hand, opening, signals, now, read, sleepTime, wake, history>>

ReadClock ==
    /\ svc = "top"
    /\ svc' = "look" /\ read' = now
    /\ UNCHANGED <<listVars, slots, cells, now, timer, sleepTime, wake, history>>

Expired == comp_timespec(expires[timer], read) # 1

\* Popped, and active as asserted
Expire ==
    /\ svc = "look" /\ Expired /\ timer \in active
    /\ queue' = Pop(queue, expires) /\ hand' = [hand EXCEPT ![Svc] = queue[1]]
    /\ due' = since[timer] + Ns(interval[timer])
    /\ svc' = "carrying" /\ read' = Zero
    /\ UNCHANGED <<listVars, slots, opening, signals, now, timer, sleepTime, wake, since,
                   slept, cancels>>

\* A one-shot timer armed again since it was popped would be suspended with a
\* cell queued, and fail the assertion later: the run expired of Timer.
Overtaken == timer \notin autoReset /\ timer \in active /\ hand[Svc] # timer

Settle ==
    /\ svc = "carrying" /\ ~Overtaken
    /\ IF timer \in autoReset
       THEN /\ Set(timer, interval[timer])
            /\ queue' = Push(queue, hand[Svc], expires')
            /\ UNCHANGED active
       ELSE active' = active \ {timer} /\ UNCHANGED <<expires, since, queue>>
    /\ hand' = [hand EXCEPT ![Svc] = NONE]
    /\ svc' = "calling"
    /\ UNCHANGED <<listVars, autoReset, interval, opening, signals, now, timer, read,
                   sleepTime, wake, due, slept, cancels>>

CallBack ==
    /\ svc = "calling" /\ svc' = "awake" /\ timer' = NULL /\ due' = 0
    /\ UNCHANGED <<listVars, slots, cells, now, read, sleepTime, wake, since, slept, cancels>>

ComputeSleep ==
    /\ svc = "look" /\ ~Expired
    /\ svc' = "falling" /\ sleepTime' = SleepTime(diff_timespec(expires[timer], read))
    /\ UNCHANGED <<listVars, slots, cells, now, timer, read, wake, history>>

\* WaitOnObject reads the clock again, and waits
Sleep ==
    /\ svc = "falling"
    /\ svc' = "asleep" /\ wake' = Timeout(now, sleepTime) /\ slept' = Ns(now)
    /\ sleepTime' = 0
    /\ UNCHANGED <<listVars, slots, cells, now, timer, read, since, due, cancels>>

Tick(d) ==
    /\ Ns(now) + d <= MaxNow
    /\ now' = Time(Ns(now) + d)
    /\ UNCHANGED <<listVars, slots, cells, service, history>>

ApiNext ==
    \/ \E c \in Callers, s \in Settings, activate \in BOOLEAN : CreateTimer(c, s[1], activate, s[2])
    \/ \E h \in Handles : StopTimer(h) \/ DeleteTimer(h) \/ \E c \in Callers : RestartTimer(c, h)
    \/ \E c \in Callers : PushCell(c) \/ Signal(c)
    \/ DumpTimersQueue

ServiceNext ==
    \/ SeeEmpty \/ Park \/ TakeTop \/ DropCancelled \/ ReadClock
    \/ Expire \/ Settle \/ CallBack \/ ComputeSleep \/ Sleep

TableNext == ApiNext \/ ServiceNext \/ \E d \in Delays : Tick(d)

TableSpec == InitTable /\ [][TableNext]_tableVars

----------------------------------------------------------------------------
(* What the table must guarantee. *)

Queued == {queue[i] : i \in DOMAIN queue} \ {NULL}
Held == {hand[t] : t \in Threads} \ {NULL, NONE}

\* Type invariant.
TypeOK ==
    /\ valid \subseteq Handles /\ active \subseteq Handles /\ autoReset \subseteq Handles
    /\ interval \in [Handles -> Times] /\ expires \in [Handles -> Times]
    /\ queue \in Seq(Handles \cup {NULL}) /\ Len(queue) <= MaxQueue
    /\ hand \in [Threads -> Handles \cup {NULL, NONE}] /\ opening \subseteq valid
    /\ signals \subseteq Callers
    /\ now \in Times /\ read \in Times /\ wake \in Times /\ sleepTime \in Nat
    /\ svc \in {"awake", "parking", "parked", "woken", "top", "look", "carrying", "calling",
                "falling", "asleep"}
    /\ timer \in Handles \cup {NULL}

\* No cell is lost and none doubled, whatever is cancelled inside the heap or in
\* the hand of a thread: each active timer has one cell, queued or on its way
\* to the queue, and no other timer has one (Timer.cpp:159, 193, 203, 234, 411).
QueueMatches ==
    /\ Queued \cap Held = {} /\ Queued \cup Held = valid \cap active
    /\ \A i, j \in DOMAIN queue : queue[i] = queue[j] /\ queue[i] # NULL => i = j
    /\ \A t, u \in Threads : hand[t] = hand[u] /\ hand[t] \in Handles => t = u

\* The callback of a timer begins no earlier than its interval after the time
\* it was set from when the service thread found it expired (Timer.cpp:387).  A
\* timer that is restarted, or deleted and created anew, between that and the
\* callback at 424 is called all the same, however little of the new interval
\* has passed.
NeverEarly == svc = "calling" => due <= Ns(now)

\* The service thread reads the clock for the difference (Timer.cpp:375) and
\* again for the end of the wait (WaitableObject.h:115).  From the second
\* reading on it sleeps no longer than the timer it took to be the next had
\* left at the first, although its sleep is computed in microseconds: it
\* oversleeps by the time between the two and no more, once the callers that
\* have queued something have signalled.
WakesInTime ==
    svc = "asleep" /\ timer \in Queued /\ signals = {} =>
        Ns(wake) - slept <= Ns(expires[timer]) - Ns(read)

\* As long as nothing queued has been cancelled, the first timer of the queue
\* is one that expires first.
OrderedUntilCancelled ==
    ~cancels => \A h \in Queued : Ns(expires[queue[1]]) <= Ns(expires[h])
=============================================================================
