------------------------------- MODULE Timer -------------------------------
(***************************************************************************)
(* CTimer (Timer.cpp): a table of timers, a priority queue of the active   *)
(* ones, client threads that call the API and one service thread that      *)
(* sleeps until the first timer expires and calls its callback.            *)
(*                                                                         *)
(* A queue element is a heap-allocated cell holding a pointer to a slot of *)
(* the table.  A timer is taken off the queue by writing NULL through the  *)
(* cell its slot remembers (pHeapContainer); the service thread later pops *)
(* the NULL cell and frees it.  The table is protected by m_TimerListMutex *)
(* and the queue by the mutex of its CWaitableObject, but the service      *)
(* thread reads slots and cells under the queue mutex only, so its steps   *)
(* interleave with those of a client inside StopTimer or RestartTimer.     *)
(*                                                                         *)
(* Abstractions.  Wall time: a comparison of an ExpiredTime with now may   *)
(* come out either way, a timed wait may time out at any moment.  The      *)
(* order of the queue: top() is any element (cells are overwritten in      *)
(* place, so the array need not be a heap).  An assertion that fails, or a *)
(* step without defined behaviour, sets fault and ends the behaviour.      *)
(***************************************************************************)
EXTENDS Naturals, FiniteSets

CONSTANTS
    Clients,       \* threads that call the API
    Svc,           \* the service thread
    Handles,       \* the slots of m_TimerList
    Cells,         \* the addresses new TimerInfo_t* returns
    NULL,
    AutoResets,    \* the values of bAutoReset in use
    TriggerFlags,  \* the values of bTriggerSvcRoutine in use
    Reentrant,     \* callbacks call the timer API
    RacingDelete,  \* a timer may be deleted while another call uses it
    MaxLate        \* bound: late callbacks of a timer that are counted

ASSUME ConstantsAssumption ==
    /\ Svc \notin Clients
    /\ NULL \notin Clients \cup {Svc} \cup Handles \cup Cells
    /\ AutoResets \subseteq BOOLEAN /\ TriggerFlags \subseteq BOOLEAN
    /\ Reentrant \in BOOLEAN /\ RacingDelete \in BOOLEAN /\ MaxLate \in Nat

VARIABLES
    valid,       \* slots handed out (bValid)
    active,      \* slots whose TimerState is TimerActive
    autoReset,   \* slots whose bAutoReset is true
    heap,        \* pHeapContainer of each slot
    points,      \* what each cell points to
    allocated,   \* cells allocated and not yet freed
    queue,       \* cells in m_ActiveTimerQueue
    listOwner,   \* holder of m_TimerListMutex
    queueOwner,  \* holder of m_ConditionMutex
    triggered,   \* m_bTriggered
    pc, op, arg, cell,                     \* each API call: step and locals
    svcPc, sawEmpty, svcCell, svcTimer,    \* timerServiceFunc: step and locals
    stop, exited,                          \* m_bStopTimerSvc, m_bThreadExited
    cancelled,                             \* pthread_cancel was called
    life,                                  \* progress of the destructor
    fault,
    quiet, late  \* history: timers stopped or deleted, callbacks begun since

slotVars == <<valid, active, autoReset, heap>>
cellVars == <<points, allocated>>
apiVars  == <<pc, op, arg, cell>>
svcVars  == <<svcPc, sawEmpty, svcCell, svcTimer>>
dtorVars == <<stop, exited, cancelled, life>>
history  == <<quiet, late>>
memory   == <<slotVars, cellVars>>
sync     == <<listOwner, queueOwner, triggered>>
locals   == <<op, arg, cell>>
svcLocals == <<sawEmpty, svcCell, svcTimer>>
rest     == <<dtorVars, fault, history>>
env      == <<svcVars, rest>>
vars == <<slotVars, cellVars, queue, listOwner, queueOwner, triggered,
          apiVars, svcVars, dtorVars, fault, history>>

Threads == Clients \cup {Svc}
Creates == {"createActive", "createSuspended"}
Ops     == Creates \cup {"stop", "restart", "delete"}

Init ==
    /\ valid = {} /\ active = {} /\ autoReset = {}
    /\ heap = [h \in Handles |-> NULL]
    /\ points = [c \in Cells |-> NULL]
    /\ allocated = {} /\ queue = {}
    /\ listOwner = NULL /\ queueOwner = NULL /\ triggered = FALSE
    /\ pc = [t \in Threads |-> "idle"] /\ op = [t \in Threads |-> NULL]
    /\ arg = [t \in Threads |-> NULL] /\ cell = [t \in Threads |-> NULL]
    /\ svcPc = "start" /\ sawEmpty = FALSE
    /\ svcCell = NULL /\ svcTimer = NULL
    /\ stop = FALSE /\ exited = TRUE /\ cancelled = FALSE /\ life = "alive"
    /\ fault = "none"
    /\ quiet = {} /\ late = [h \in Handles |-> 0]

\* An assertion fails or behaviour is undefined: the program stops here.
Fail(what) ==
    /\ fault' = what
    /\ UNCHANGED <<memory, queue, sync, apiVars, svcVars, dtorVars, history>>

(***************************************************************************)
(* The API: CreateTimer, StopTimer, RestartTimer, DeleteTimer              *)
(***************************************************************************)
At(t, label) == pc[t] = label
Goto(t, label) == pc' = [pc EXCEPT ![t] = label]
Return(t) ==
    /\ Goto(t, "idle")
    /\ op' = [op EXCEPT ![t] = NULL]
    /\ arg' = [arg EXCEPT ![t] = NULL]
    /\ cell' = [cell EXCEPT ![t] = NULL]

\* A call indexes m_TimerList[h] until it has left the table's mutex.
Uses(t, h) == arg[t] = h /\ pc[t] \in {"lock", "body", "mark", "arm", "trig"}

\* CreateTimer has not queued its timer: nobody was given the handle yet.
Opening(h) == \E t \in Threads :
    arg[t] = h /\ op[t] \in Creates /\ pc[t] \in {"fill", "unlock", "qlock", "push"}

\* Callers know the handle, and unless RacingDelete they do not delete a
\* timer while another call uses it.
MayCall(o, h) ==
    /\ h \in valid /\ ~Opening(h)
    /\ RacingDelete \/ \A t \in Threads :
           Uses(t, h) => o # "delete" /\ op[t] # "delete"

Call(t) ==
    /\ At(t, "idle")
    /\ IF t = Svc THEN svcPc = "incall" ELSE life = "alive"
    /\ \E o \in Ops, h \in Handles \cup {NULL} :
          /\ IF o \in Creates THEN h = NULL ELSE h # NULL /\ MayCall(o, h)
          /\ op' = [op EXCEPT ![t] = o]
          /\ arg' = [arg EXCEPT ![t] = h]
    /\ Goto(t, "lock")
    /\ UNCHANGED <<memory, queue, sync, cell, env>>

Lock(t) ==
    /\ At(t, "lock") /\ listOwner = NULL
    /\ listOwner' = t
    /\ Goto(t, "body")
    /\ UNCHANGED <<memory, queue, queueOwner, triggered, locals, env>>

\* operator[] asserts that the slot is in use
BadHandle(t) ==
    /\ At(t, "body") /\ op[t] \notin Creates /\ arg[t] \notin valid
    /\ Fail("badHandle")

\* GetNewHandle found no free slot; CreateTimer asserts
NoHandleLeft(t) ==
    /\ At(t, "body") /\ op[t] \in Creates /\ valid = Handles
    /\ Fail("noHandle")

NewHandle(t) ==
    /\ At(t, "body") /\ op[t] \in Creates
    /\ \E h \in Handles \ valid :
          /\ valid' = valid \cup {h}
          /\ active' = IF op[t] = "createActive" THEN active \cup {h}
                                                 ELSE active \ {h}
          /\ arg' = [arg EXCEPT ![t] = h]
    /\ Goto(t, "fill")
    /\ UNCHANGED <<autoReset, heap, cellVars, queue, sync, op, cell, env>>

\* *pHeapContainer = &m_TimerList[h], in a cell new returned
NewCell(t, h) == \E c \in Cells \ allocated :
    /\ allocated' = allocated \cup {c}
    /\ points' = [points EXCEPT ![c] = h]
    /\ heap' = [heap EXCEPT ![h] = c]
    /\ cell' = [cell EXCEPT ![t] = c]

\* new throws with the mutex held: the model's memory is Cells.
NoMemory(t) ==
    /\ At(t, "arm") \/ (At(t, "fill") /\ op[t] = "createActive")
    /\ allocated = Cells
    /\ Fail("noMemory")

Fill(t) ==
    /\ At(t, "fill")
    /\ \E a \in AutoResets :
          autoReset' = IF a THEN autoReset \cup {arg[t]} ELSE autoReset \ {arg[t]}
    /\ \/ op[t] = "createActive" /\ NewCell(t, arg[t])
       \/ /\ op[t] = "createSuspended"
          /\ heap' = [heap EXCEPT ![arg[t]] = NULL]
          /\ UNCHANGED <<cellVars, cell>>
    /\ quiet' = quiet \ {arg[t]}
    /\ late' = [late EXCEPT ![arg[t]] = 0]
    /\ Goto(t, "unlock")
    /\ UNCHANGED <<valid, active, queue, sync, op, arg, svcVars, dtorVars, fault>>

\* Write NULL through the slot's pHeapContainer.
NoMark(h)   == UNCHANGED points  \* mutant
MarkCell(h) == points' = [points EXCEPT ![heap[h]] = NULL]

\* pHeapContainer = NULL
NoForget(h) == UNCHANGED heap  \* mutant
Forget(h)   == heap' = [heap EXCEPT ![h] = NULL]

\* A suspended timer has nothing to stop.
NoUnlock(t)  == IF arg[t] \in active THEN "mark" ELSE "idle"  \* mutant
AfterStop(t) == IF arg[t] \in active THEN "mark" ELSE "unlock"

StopSuspend(t) ==
    /\ At(t, "body") /\ op[t] = "stop" /\ arg[t] \in valid
    /\ active' = active \ {arg[t]}
    /\ Goto(t, AfterStop(t))
    /\ UNCHANGED <<valid, autoReset, heap, cellVars, queue, sync, locals, env>>

StopMark(t) ==
    /\ At(t, "mark")
    /\ IF heap[arg[t]] # NULL THEN MarkCell(arg[t]) ELSE UNCHANGED points
    /\ Forget(arg[t])
    /\ \E f \in TriggerFlags : Goto(t, IF f THEN "trig" ELSE "unlock")
    /\ UNCHANGED <<valid, active, autoReset, allocated, queue, sync, locals, env>>

RestartMark(t) ==
    /\ At(t, "body") /\ op[t] = "restart" /\ arg[t] \in valid
    /\ IF arg[t] \in active /\ heap[arg[t]] # NULL
          THEN MarkCell(arg[t]) ELSE UNCHANGED points
    /\ Goto(t, "arm")
    /\ UNCHANGED <<slotVars, allocated, queue, sync, locals, env>>

RestartArm(t) ==
    /\ At(t, "arm")
    /\ active' = active \cup {arg[t]}
    /\ NewCell(t, arg[t])
    /\ quiet' = quiet \ {arg[t]}
    /\ late' = [late EXCEPT ![arg[t]] = 0]
    /\ \E f \in TriggerFlags : Goto(t, IF f THEN "trig" ELSE "unlock")
    /\ UNCHANGED <<valid, autoReset, queue, sync, op, arg, svcVars, dtorVars,
                   fault>>

\* The callback of bTriggerSvcRoutine runs with m_TimerListMutex held.
TriggerCallback(t) ==
    /\ At(t, "trig")
    /\ Goto(t, "unlock")
    /\ UNCHANGED <<memory, queue, sync, locals, env>>

DeleteFree(t) ==
    /\ At(t, "body") /\ op[t] = "delete" /\ arg[t] \in valid
    /\ IF heap[arg[t]] # NULL THEN MarkCell(arg[t]) ELSE UNCHANGED points
    /\ valid' = valid \ {arg[t]}
    /\ Goto(t, "unlock")
    /\ UNCHANGED <<active, autoReset, heap, allocated, queue, sync, locals, env>>

\* Created active, or restarted: its cell has to be queued.
AlwaysQueues(t) == op[t] \in Creates \cup {"restart"}  \* mutant
Queues(t)       == cell[t] # NULL

Unlock(t) ==
    /\ At(t, "unlock")
    /\ listOwner' = NULL
    /\ IF Queues(t) THEN Goto(t, "qlock") /\ UNCHANGED locals
                    ELSE Return(t)
    /\ quiet' = IF op[t] \in {"stop", "delete"} THEN quiet \cup {arg[t]} ELSE quiet
    /\ UNCHANGED <<memory, queue, queueOwner, triggered, svcVars, dtorVars,
                   fault, late>>

QueueLock(t) ==
    /\ At(t, "qlock") /\ queueOwner = NULL
    /\ queueOwner' = t
    /\ Goto(t, "push")
    /\ UNCHANGED <<memory, queue, listOwner, triggered, locals, env>>

\* CreateTimer reads the slot again, RestartTimer pushes its local copy.
Pushed(t) == IF op[t] = "restart" THEN cell[t] ELSE heap[arg[t]]

Push(t) ==
    /\ At(t, "push") /\ Pushed(t) \in allocated \ queue
    /\ queue' = queue \cup {Pushed(t)}
    /\ Goto(t, "qunlock")
    /\ UNCHANGED <<memory, sync, locals, env>>

\* A null, freed or already queued cell goes onto the queue.
BadPush(t) ==
    /\ At(t, "push") /\ Pushed(t) \notin allocated \ queue
    /\ Fail("badPush")

QueueUnlock(t) ==
    /\ At(t, "qunlock")
    /\ queueOwner' = NULL
    /\ Goto(t, "trigger")
    /\ UNCHANGED <<memory, queue, listOwner, triggered, locals, env>>

SetTrigger(t) ==
    /\ At(t, "trigger")
    /\ triggered' = TRUE
    /\ Goto(t, "signal")
    /\ UNCHANGED <<memory, queue, listOwner, queueOwner, locals, env>>

\* pthread_cond_signal: lost unless the service thread is in a wait
Waiting == svcPc \in {"parked", "asleep"}
WakeLabel == IF svcPc = "parked" THEN "unpark" ELSE "wake"
CondSignal == svcPc' = IF Waiting THEN WakeLabel ELSE svcPc

Signal(t) ==
    /\ At(t, "signal")
    /\ CondSignal
    /\ Return(t)
    /\ UNCHANGED <<memory, queue, sync, svcLocals, rest>>

ApiStep(t) ==
    \/ Lock(t) \/ BadHandle(t) \/ NoHandleLeft(t) \/ NewHandle(t) \/ NoMemory(t)
    \/ Fill(t)
    \/ StopSuspend(t) \/ StopMark(t) \/ RestartMark(t) \/ RestartArm(t)
    \/ TriggerCallback(t) \/ DeleteFree(t) \/ Unlock(t) \/ QueueLock(t)
    \/ Push(t) \/ BadPush(t) \/ QueueUnlock(t) \/ SetTrigger(t) \/ Signal(t)

(***************************************************************************)
(* The service thread: timerServiceFunc                                    *)
(***************************************************************************)
SvcStart ==
    /\ svcPc = "start"
    /\ exited' = FALSE
    /\ svcPc' = "first"
    /\ UNCHANGED <<memory, queue, sync, apiVars, svcLocals, stop, cancelled,
                   life, fault, history>>

\* sawEmpty decides, and is not read again.
SvcLock ==
    /\ svcPc \in {"first", "relock"} /\ queueOwner = NULL
    /\ queueOwner' = Svc
    /\ svcPc' = IF svcPc = "first" THEN "loop"
                ELSE IF sawEmpty THEN "park" ELSE "top"
    /\ sawEmpty' = FALSE
    /\ UNCHANGED <<memory, queue, listOwner, triggered, apiVars, svcCell, svcTimer, rest>>

\* The top of the loop: reached with or without the queue's mutex
SvcTest ==
    /\ svcPc = "loop" /\ ~stop
    /\ sawEmpty' = (queue = {})
    /\ svcPc' = "release"
    /\ UNCHANGED <<memory, queue, sync, apiVars, svcCell, svcTimer, rest>>

SvcExit ==
    /\ svcPc = "loop" /\ stop
    /\ exited' = TRUE
    /\ svcPc' = "done"
    /\ UNCHANGED <<memory, queue, sync, apiVars, svcLocals, stop, cancelled,
                   life, fault, history>>

\* The mutex becomes free even when another thread holds it.
SvcRelease ==
    /\ svcPc = "release"
    /\ queueOwner' = NULL
    /\ svcPc' = "relock"
    /\ UNCHANGED <<memory, queue, listOwner, triggered, apiVars, svcLocals, rest>>

\* pthread_cond_wait and pthread_cond_timedwait release the mutex.
SvcWait ==
    /\ svcPc \in {"park", "sleep"}
    /\ queueOwner' = NULL
    /\ svcPc' = IF svcPc = "park" THEN "parked" ELSE "asleep"
    /\ UNCHANGED <<memory, queue, listOwner, triggered, apiVars, svcLocals, rest>>

SpuriousWakeup ==
    /\ Waiting
    /\ svcPc' = WakeLabel
    /\ UNCHANGED <<memory, queue, sync, apiVars, svcLocals, rest>>

SvcTimeout ==
    /\ svcPc = "asleep"
    /\ svcPc' = "timedout"
    /\ UNCHANGED <<memory, queue, sync, apiVars, svcLocals, rest>>

\* A wake-up without m_bTriggered goes back to wait.
SvcRewait ==
    /\ svcPc \in {"unpark", "wake"} /\ queueOwner = NULL /\ ~triggered
    /\ queueOwner' = Svc
    /\ svcPc' = IF svcPc = "unpark" THEN "park" ELSE "sleep"
    /\ UNCHANGED <<memory, queue, listOwner, triggered, apiVars, svcLocals, rest>>

\* WaitOnObject() returns: leave if asked to stop, else go and read top()
SvcUnpark ==
    /\ svcPc = "unpark" /\ queueOwner = NULL /\ triggered
    /\ triggered' = FALSE
    /\ queueOwner' = IF stop THEN NULL ELSE Svc
    /\ exited' = (exited \/ stop)
    /\ svcPc' = IF stop THEN "done" ELSE "top"
    /\ UNCHANGED <<memory, queue, listOwner, apiVars, svcLocals, stop,
                   cancelled, life, fault, history>>

\* WaitOnObject(uSleepTime) returns, signalled or timed out
SvcAwake ==
    /\ svcPc = "timedout" \/ (svcPc = "wake" /\ triggered)
    /\ queueOwner = NULL
    /\ queueOwner' = Svc
    /\ triggered' = FALSE
    /\ svcPc' = "loop"
    /\ UNCHANGED <<memory, queue, listOwner, apiVars, svcLocals, rest>>

SvcTop ==
    /\ svcPc = "top"
    /\ \E c \in queue :
          /\ svcCell' = c
          /\ svcTimer' = points[c]
          /\ svcPc' = IF points[c] = NULL THEN "drop" ELSE "look"
    /\ UNCHANGED <<memory, queue, sync, apiVars, sawEmpty, rest>>

\* top() of an empty priority_queue
EmptyTop ==
    /\ svcPc = "top" /\ queue = {}
    /\ Fail("emptyTop")

SvcDrop ==
    /\ svcPc = "drop"
    /\ queue' = queue \ {svcCell}
    /\ allocated' = allocated \ {svcCell}
    /\ queueOwner' = NULL
    /\ svcCell' = NULL
    /\ svcPc' = "loop"
    /\ UNCHANGED <<slotVars, points, listOwner, triggered, apiVars, sawEmpty,
                   svcTimer, rest>>

\* ExpiredTime <= now
SvcPop ==
    /\ svcPc = "look"
    /\ queue' = queue \ {svcCell}
    /\ svcPc' = "expire"
    /\ UNCHANGED <<memory, sync, apiVars, svcLocals, rest>>

\* ExpiredTime > now: sleep until then
SvcSleep ==
    /\ svcPc = "look"
    /\ svcCell' = NULL /\ svcTimer' = NULL
    /\ svcPc' = "sleep"
    /\ UNCHANGED <<memory, queue, sync, apiVars, sawEmpty, rest>>

SvcExpire ==
    /\ svcPc = "expire" /\ svcTimer \in active
    /\ svcPc' = "settle"
    /\ UNCHANGED <<memory, queue, sync, apiVars, svcLocals, rest>>

\* assert(pTimerInfo->TimerState == TimerActive)
NotActive ==
    /\ svcPc = "expire" /\ svcTimer \notin active
    /\ Fail("notActive")

\* push(ppTimerInfo)
NoRequeue   == UNCHANGED queue              \* mutant
RequeueLate == queue' = queue \cup {svcCell'}  \* mutant
Requeue     == queue' = queue \cup {svcCell}

\* Queue an auto-reset timer again, suspend a one-shot one; release the mutex.
SvcSettle ==
    /\ svcPc = "settle"
    /\ svcCell' = NULL
    /\ IF svcTimer \in autoReset
          THEN Requeue /\ UNCHANGED active
          ELSE active' = active \ {svcTimer} /\ UNCHANGED queue
    /\ queueOwner' = NULL
    /\ svcPc' = "call"
    /\ UNCHANGED <<valid, autoReset, heap, cellVars, listOwner, triggered,
                   apiVars, sawEmpty, svcTimer, rest>>

\* The callback begins, with no mutex held.  late counts up to MaxLate.
SvcCall ==
    /\ svcPc = "call"
    /\ late' = IF svcTimer \in quiet /\ late[svcTimer] < MaxLate
                  THEN [late EXCEPT ![svcTimer] = @ + 1] ELSE late
    /\ svcTimer' = NULL
    /\ svcPc' = IF Reentrant THEN "incall" ELSE "loop"
    /\ UNCHANGED <<memory, queue, sync, apiVars, sawEmpty, svcCell, dtorVars,
                   fault, quiet>>

SvcReturn ==
    /\ svcPc = "incall" /\ At(Svc, "idle")
    /\ svcPc' = "loop"
    /\ UNCHANGED <<memory, queue, sync, apiVars, svcLocals, rest>>

\* Two threads inside the queue, because SvcRelease freed a mutex it did not
\* hold.  The accesses may still come out as if they were serial (the other
\* actions), or tear the vector or pop an element that was not read.
Inside ==
    {t \in Threads : At(t, "push")} \cup
    {t \in {Svc} : svcPc \in {"top", "drop", "look", "settle"}}

Collide ==
    /\ \E t, u \in Inside : t # u
    /\ Fail("collide")

SvcStep ==
    \/ SvcStart \/ SvcLock \/ SvcTest \/ SvcExit \/ SvcRelease \/ SvcWait
    \/ SvcRewait \/ SvcUnpark \/ SvcAwake \/ SvcTop \/ EmptyTop \/ SvcDrop
    \/ SvcPop \/ SvcSleep \/ SvcExpire \/ NotActive \/ SvcSettle \/ SvcCall
    \/ SvcReturn \/ SvcTimeout

(***************************************************************************)
(* The destructor, called once no client is in a call                      *)
(***************************************************************************)
DtorStop ==
    /\ life = "alive" /\ \A t \in Clients : At(t, "idle")
    /\ stop' = TRUE
    /\ life' = "stopping"
    /\ UNCHANGED <<memory, queue, sync, apiVars, svcVars, exited, cancelled,
                   fault, history>>

DtorTrigger ==
    /\ life = "stopping"
    /\ triggered' = TRUE
    /\ life' = "signalling"
    /\ UNCHANGED <<memory, queue, listOwner, queueOwner, apiVars, svcVars,
                   stop, exited, cancelled, fault, history>>

DtorSignal ==
    /\ life = "signalling"
    /\ CondSignal
    /\ life' = "polling"
    /\ UNCHANGED <<memory, queue, sync, apiVars, svcLocals, stop, exited,
                   cancelled, fault, history>>

\* m_bThreadExited is seen set, or 30 polls have passed.
PollForever == exited  \* mutant
PollEnds    == TRUE

\* A thread that has not exited by then is cancelled.
DtorPoll ==
    /\ life = "polling" /\ PollEnds
    /\ cancelled' = ~exited
    /\ life' = "closing"
    /\ UNCHANGED <<memory, queue, sync, apiVars, svcVars, stop, exited, fault,
                   history>>

\* The table's mutex is locked and destroyed, then the members are.
DtorDestroy ==
    /\ life = "closing" /\ listOwner = NULL
    /\ life' = "destroyed"
    /\ UNCHANGED <<memory, queue, sync, apiVars, svcVars, stop, exited,
                   cancelled, fault, history>>

\* The condition waits are the service thread's cancellation points.
SvcCancelled ==
    /\ cancelled /\ Waiting /\ queueOwner = NULL
    /\ queueOwner' = Svc
    /\ svcPc' = "done"
    /\ UNCHANGED <<memory, queue, listOwner, triggered, apiVars, svcLocals, rest>>

\* The service thread goes on, or is still waiting, in a destroyed object.
UseAfterDestroy ==
    /\ life = "destroyed" /\ svcPc # "done" /\ ~(cancelled /\ Waiting)
    /\ Fail("useAfterDestroy")

DtorStep == DtorStop \/ DtorTrigger \/ DtorSignal \/ DtorPoll \/ DtorDestroy

Next ==
    /\ fault = "none"
    /\ \/ /\ life # "destroyed"
          /\ \/ \E t \in Threads : Call(t) \/ ApiStep(t)
             \/ SvcStep \/ SpuriousWakeup \/ Collide \/ DtorStep
       \/ SvcCancelled \/ UseAfterDestroy

Spec == Init /\ [][Next]_vars
=============================================================================
