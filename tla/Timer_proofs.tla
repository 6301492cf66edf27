---------------------------- MODULE Timer_proofs ----------------------------
(***************************************************************************)
(* The safety of CTimer for any number of clients, timers and cells.       *)
(* IInv is the inductive invariant: the table's mutex excludes, each call  *)
(* is where its locals say, and every cell has one owner - the queue, the  *)
(* service thread, or a call that has yet to queue it.                     *)
(***************************************************************************)
EXTENDS TimerProps, FiniteSetTheorems, TLAPS

\* The mutex of the table excludes.
ListLock == \A t \in Threads :
    pc[t] \in {"body", "fill", "mark", "arm", "trig", "unlock"} => listOwner = t

\* What the locals of a call are at each of its steps.
CallLocals == \A t \in Threads :
    /\ pc[t] = "idle" => arg[t] = NULL /\ op[t] = NULL
    /\ pc[t] # "idle" => op[t] \in Ops
    /\ pc[t] \in {"idle", "lock", "body", "fill", "mark", "arm"} => cell[t] = NULL
    /\ pc[t] \in {"lock", "body"} => (op[t] \in Creates <=> arg[t] = NULL)
    /\ pc[t] \notin {"idle", "lock", "body"} => arg[t] \in Handles
    /\ pc[t] = "fill" => op[t] \in Creates
    /\ pc[t] = "mark" => op[t] = "stop"
    /\ pc[t] = "arm" => op[t] = "restart"
    /\ pc[t] = "trig" => op[t] \in {"stop", "restart"}
    /\ pc[t] \in {"qlock", "push"} => cell[t] # NULL
    /\ cell[t] # NULL => op[t] \in {"createActive", "restart"}

\* What the locals of the service thread are at each of its steps.
SvcLocals ==
    /\ svcPc \in {"drop", "look", "expire", "settle"} => svcCell \in Cells
    /\ svcPc \in {"look", "expire", "settle", "call"} => svcTimer \in Handles

Control == TypeOK /\ ListLock /\ CallLocals /\ SvcLocals

\* A timer being created, and a deleted one, is in nobody else's hands.
OpeningBy(t) == op[t] \in Creates /\ pc[t] \in {"fill", "unlock", "qlock", "push"}
Exclusive ==
    /\ \A t \in Threads : arg[t] \in Handles /\ Uses(t, arg[t]) => arg[t] \in valid
    /\ \A t \in Threads : OpeningBy(t) => arg[t] \in valid
    /\ \A t, u \in Threads : OpeningBy(t) => ~Uses(u, arg[t])
    /\ \A t, u \in Threads : OpeningBy(t) /\ OpeningBy(u) /\ t # u => arg[t] # arg[u]
    /\ \A t, u \in Threads :
           op[t] = "delete" /\ Uses(t, arg[t]) /\ Uses(u, arg[t]) => t = u

\* The slots between two steps of a call that are about to get a new cell.
Refilling(h) == \E t \in Threads : arg[t] = h /\ pc[t] \in {"fill", "arm"}

\* Every cell has at most one owner.
SvcOwns == /\ svcPc \in {"drop", "look"} => svcCell \in queue
           /\ svcPc \in {"expire", "settle"} => svcCell \in allocated \ queue
           /\ svcPc = "drop" => points[svcCell] = NULL
           /\ svcPc \in {"look", "expire", "settle"} =>
                  points[svcCell] \in {svcTimer, NULL}
CallOwns ==
    /\ \A t \in Threads, c \in Cells : Carries(t, c) =>
           /\ c \in allocated \ queue
           /\ svcPc \in {"expire", "settle"} => c # svcCell
    /\ \A t, u \in Threads, c \in Cells : Carries(t, c) /\ Carries(u, c) => t = u
Owners == queue \subseteq allocated /\ SvcOwns /\ CallOwns

\* A slot and its cell refer to each other.
Linked ==
    /\ \A h \in valid : ~Refilling(h) /\ heap[h] # NULL =>
           heap[h] \in allocated /\ points[heap[h]] = h
    /\ \A t \in Threads : OpeningBy(t) /\ cell[t] # NULL => heap[arg[t]] = cell[t]

\* An active timer has a pending cell; a slot about to lose its cell is not active.
Live ==
    /\ \A h \in valid \cap active : ~Refilling(h) => heap[h] \in Pending
    /\ \A t \in Threads :
           pc[t] = "mark" \/ (pc[t] = "fill" /\ op[t] = "createSuspended")
               => arg[t] \notin active

IInv == Control /\ Exclusive /\ Owners /\ Linked /\ Live

-----------------------------------------------------------------------------
USE ConstantsAssumption DEF memory, sync, locals, svcLocals, rest, env, slotVars, cellVars, apiVars,
        svcVars, dtorVars, history, At, Goto, Return, Fail, Threads,
        Forget, AfterStop, Queues, Requeue, PollEnds,
        ConstantsAssumption

LEMMA TypeStep == ASSUME Control, [Next]_vars PROVE TypeOK'
<1>. USE DEF Control, TypeOK, ApiLabels, SvcLabels, Faults, Ops, Creates
<1>1. ASSUME NEW t \in Threads, Call(t) PROVE TypeOK'
  BY <1>1 DEF Call, MayCall, Opening, Uses
<1>2. ASSUME NEW t \in Threads, Lock(t) PROVE TypeOK'
  BY <1>2 DEF Lock
<1>3. ASSUME NEW t \in Threads, NewHandle(t) PROVE TypeOK'
  BY <1>3 DEF NewHandle
<1>4. ASSUME NEW t \in Threads, Fill(t) PROVE TypeOK'
  BY <1>4 DEF Fill, NewCell, CallLocals
<1>5. ASSUME NEW t \in Threads, StopSuspend(t) PROVE TypeOK'
  BY <1>5 DEF StopSuspend
<1>6. ASSUME NEW t \in Threads, StopMark(t) PROVE TypeOK'
  BY <1>6 DEF StopMark, MarkCell, CallLocals
<1>7. ASSUME NEW t \in Threads, RestartMark(t) PROVE TypeOK'
  BY <1>7 DEF RestartMark, MarkCell
<1>8. ASSUME NEW t \in Threads, RestartArm(t) PROVE TypeOK'
  BY <1>8 DEF RestartArm, NewCell, CallLocals
<1>9. ASSUME NEW t \in Threads, TriggerCallback(t) PROVE TypeOK'
  BY <1>9 DEF TriggerCallback
<1>10. ASSUME NEW t \in Threads, DeleteFree(t) PROVE TypeOK'
  BY <1>10 DEF DeleteFree, MarkCell
<1>11. ASSUME NEW t \in Threads, Unlock(t) PROVE TypeOK'
  BY <1>11 DEF Unlock, CallLocals
<1>12. ASSUME NEW t \in Threads, QueueLock(t) PROVE TypeOK'
  BY <1>12 DEF QueueLock
<1>13. ASSUME NEW t \in Threads, Push(t) PROVE TypeOK'
  BY <1>13 DEF Push, Pushed
<1>14. ASSUME NEW t \in Threads, QueueUnlock(t) PROVE TypeOK'
  BY <1>14 DEF QueueUnlock
<1>15. ASSUME NEW t \in Threads, SetTrigger(t) PROVE TypeOK'
  BY <1>15 DEF SetTrigger
<1>16. ASSUME NEW t \in Threads, Signal(t) PROVE TypeOK'
  BY <1>16 DEF Signal, CondSignal, Waiting, WakeLabel
<1>17. ASSUME NEW t \in Threads, BadHandle(t) \/ NoHandleLeft(t) \/
      NoMemory(t) \/ BadPush(t) PROVE TypeOK'
  BY <1>17 DEF BadHandle, NoHandleLeft, NoMemory, BadPush, Pushed
<1>18. CASE SvcStart
  <2>1. exited' \in BOOLEAN
    BY <1>18, Zenon DEF SvcStart
  <2>. QED
    BY <1>18, <2>1 DEF SvcStart
<1>19. CASE SvcLock
  <2>1. sawEmpty' \in BOOLEAN
    BY <1>19, Zenon DEF SvcLock
  <2>. QED
    BY <1>19, <2>1 DEF SvcLock
<1>20. CASE SvcTest
  BY <1>20 DEF SvcTest
<1>21. CASE SvcExit
  BY <1>21 DEF SvcExit
<1>22. CASE SvcRelease
  BY <1>22 DEF SvcRelease
<1>23. CASE SvcWait
  BY <1>23 DEF SvcWait
<1>24. CASE SvcRewait
  BY <1>24 DEF SvcRewait
<1>25. CASE SvcUnpark
  <2>1. triggered' \in BOOLEAN /\ exited' \in BOOLEAN
    BY <1>25, Zenon DEF SvcUnpark
  <2>. QED
    BY <1>25, <2>1 DEF SvcUnpark
<1>26. CASE SvcAwake
  <2>1. triggered' \in BOOLEAN
    BY <1>26, Zenon DEF SvcAwake
  <2>. QED
    BY <1>26, <2>1 DEF SvcAwake
<1>27. CASE SvcTop
  BY <1>27 DEF SvcTop
<1>28. CASE SvcDrop
  BY <1>28 DEF SvcDrop
<1>29. CASE SvcPop
  BY <1>29 DEF SvcPop
<1>30. CASE SvcSleep
  BY <1>30 DEF SvcSleep
<1>31. CASE SvcExpire
  BY <1>31 DEF SvcExpire
<1>32. CASE SvcSettle
  BY <1>32 DEF SvcSettle, SvcLocals
<1>33. CASE SvcCall
  BY <1>33 DEF SvcCall
<1>34. CASE SvcReturn
  BY <1>34 DEF SvcReturn
<1>35. CASE SvcTimeout
  BY <1>35 DEF SvcTimeout
<1>36. CASE SpuriousWakeup
  BY <1>36 DEF SpuriousWakeup, Waiting, WakeLabel
<1>37. CASE SvcCancelled
  BY <1>37 DEF SvcCancelled, Waiting
<1>38. CASE EmptyTop \/ NotActive \/ Collide \/ UseAfterDestroy
  BY <1>38 DEF EmptyTop, NotActive, Collide, UseAfterDestroy, Inside, Waiting
<1>39. CASE DtorStop
  BY <1>39 DEF DtorStop
<1>40. CASE DtorTrigger
  BY <1>40 DEF DtorTrigger
<1>41. CASE DtorSignal
  BY <1>41 DEF DtorSignal, CondSignal, Waiting, WakeLabel
<1>42. CASE DtorPoll
  BY <1>42 DEF DtorPoll
<1>43. CASE DtorDestroy
  BY <1>43 DEF DtorDestroy
<1>44. CASE UNCHANGED vars
  BY <1>44 DEF vars
<1>. QED
  BY <1>1, <1>2, <1>3, <1>4, <1>5, <1>6, <1>7, <1>8, <1>9, <1>10, <1>11,
     <1>12, <1>13, <1>14, <1>15, <1>16, <1>17, <1>18, <1>19, <1>20, <1>21, <1>22,
     <1>23, <1>24, <1>25, <1>26, <1>27, <1>28, <1>29, <1>30, <1>31, <1>32, <1>33,
     <1>34, <1>35, <1>36, <1>37, <1>38, <1>39, <1>40, <1>41, <1>42, <1>43, <1>44
     DEF Next, ApiStep, SvcStep, DtorStep

LEMMA ListLockStep ==
    ASSUME Control, [Next]_vars
    PROVE ListLock'
<1>. USE DEF Control, TypeOK, ListLock
<1>1. ASSUME NEW t \in Threads, Lock(t) PROVE ListLock'
  BY <1>1 DEF Lock
<1>2. ASSUME NEW t \in Threads, Unlock(t) PROVE ListLock'
  BY <1>2 DEF Unlock
<1>3. ASSUME NEW t \in Threads, Call(t) \/ NewHandle(t) \/ Fill(t) \/
      StopSuspend(t) \/ StopMark(t) \/ RestartMark(t) \/ RestartArm(t) \/
      TriggerCallback(t) \/ DeleteFree(t) \/ QueueLock(t) \/ Push(t) \/
      QueueUnlock(t) \/ SetTrigger(t) \/ Signal(t) PROVE ListLock'
  BY <1>3 DEF Call, NewHandle, Fill, StopSuspend, StopMark, RestartMark,
         RestartArm, TriggerCallback, DeleteFree, QueueLock, Push, QueueUnlock,
         SetTrigger, Signal, MayCall, Opening, Uses, NewCell, MarkCell, Pushed,
         CondSignal, Waiting, WakeLabel
<1>4. ASSUME NEW t \in Threads, BadHandle(t) \/ NoHandleLeft(t) \/ NoMemory(t)
      \/ BadPush(t) PROVE ListLock'
  BY <1>4 DEF BadHandle, NoHandleLeft, NoMemory, BadPush, Pushed
<1>5. CASE SvcStart \/ SvcLock \/ SvcTest \/ SvcExit \/ SvcRelease \/ SvcWait
      \/ SvcRewait \/ SvcUnpark \/ SvcAwake \/ SvcTop \/ SvcDrop \/ SvcPop \/
      SvcSleep \/ SvcExpire \/ SvcSettle \/ SvcCall \/ SvcReturn \/ SvcTimeout \/
      SpuriousWakeup \/ SvcCancelled
  BY <1>5 DEF SvcStart, SvcLock, SvcTest, SvcExit, SvcRelease, SvcWait,
         SvcRewait, SvcUnpark, SvcAwake, SvcTop, SvcDrop, SvcPop, SvcSleep, SvcExpire,
         SvcSettle, SvcCall, SvcReturn, SvcTimeout, SpuriousWakeup, SvcCancelled,
         Waiting, WakeLabel
<1>6. CASE EmptyTop \/ NotActive \/ Collide \/ UseAfterDestroy
  BY <1>6 DEF EmptyTop, NotActive, Collide, UseAfterDestroy, Inside, Waiting
<1>7. CASE DtorStop \/ DtorTrigger \/ DtorSignal \/ DtorPoll \/ DtorDestroy
  BY <1>7 DEF DtorStop, DtorTrigger, DtorSignal, DtorPoll, DtorDestroy,
         CondSignal, Waiting, WakeLabel
<1>8. CASE UNCHANGED vars
  BY <1>8 DEF vars
<1>. QED
  BY <1>1, <1>2, <1>3, <1>4, <1>5, <1>6, <1>7, <1>8 DEF Next, ApiStep,
     SvcStep, DtorStep

LEMMA CallLocalsStep ==
    ASSUME Control, [Next]_vars
    PROVE CallLocals'
<1>. USE DEF Control, TypeOK, CallLocals, ApiLabels, Ops, Creates
<1>1. ASSUME NEW t \in Threads, Call(t) PROVE CallLocals'
  BY <1>1 DEF Call, MayCall, Opening, Uses
<1>2. ASSUME NEW t \in Threads, NewHandle(t) PROVE CallLocals'
  BY <1>2 DEF NewHandle
<1>3. ASSUME NEW t \in Threads, Fill(t) PROVE CallLocals'
  BY <1>3 DEF Fill, NewCell
<1>4. ASSUME NEW t \in Threads, StopSuspend(t) PROVE CallLocals'
  BY <1>4 DEF StopSuspend
<1>5. ASSUME NEW t \in Threads, StopMark(t) PROVE CallLocals'
  BY <1>5 DEF StopMark, MarkCell
<1>6. ASSUME NEW t \in Threads, RestartMark(t) PROVE CallLocals'
  BY <1>6 DEF RestartMark, MarkCell
<1>7. ASSUME NEW t \in Threads, RestartArm(t) PROVE CallLocals'
  BY <1>7 DEF RestartArm, NewCell
<1>8. ASSUME NEW t \in Threads, DeleteFree(t) PROVE CallLocals'
  BY <1>8 DEF DeleteFree, MarkCell
<1>9. ASSUME NEW t \in Threads, Unlock(t) PROVE CallLocals'
  BY <1>9 DEF Unlock
<1>10. ASSUME NEW t \in Threads, Push(t) PROVE CallLocals'
  BY <1>10 DEF Push, Pushed
<1>11. ASSUME NEW t \in Threads, TriggerCallback(t) \/ SetTrigger(t) \/
      QueueUnlock(t) \/ QueueLock(t) \/ Lock(t) \/ Signal(t) PROVE CallLocals'
  BY <1>11 DEF TriggerCallback, SetTrigger, QueueUnlock, QueueLock, Lock,
         Signal, CondSignal, Waiting, WakeLabel
<1>12. ASSUME NEW t \in Threads, BadHandle(t) \/ NoHandleLeft(t) \/
      NoMemory(t) \/ BadPush(t) PROVE CallLocals'
  BY <1>12 DEF BadHandle, NoHandleLeft, NoMemory, BadPush, Pushed
<1>13. CASE SvcStart \/ SvcLock \/ SvcTest \/ SvcExit \/ SvcRelease \/ SvcWait
      \/ SvcRewait \/ SvcUnpark \/ SvcAwake \/ SvcTop \/ SvcDrop \/ SvcPop \/
      SvcSleep \/ SvcExpire \/ SvcSettle \/ SvcCall \/ SvcReturn \/ SvcTimeout \/
      SpuriousWakeup \/ SvcCancelled
  BY <1>13 DEF SvcStart, SvcLock, SvcTest, SvcExit, SvcRelease, SvcWait,
         SvcRewait, SvcUnpark, SvcAwake, SvcTop, SvcDrop, SvcPop, SvcSleep, SvcExpire,
         SvcSettle, SvcCall, SvcReturn, SvcTimeout, SpuriousWakeup, SvcCancelled,
         Waiting, WakeLabel
<1>14. CASE EmptyTop \/ NotActive \/ Collide \/ UseAfterDestroy
  BY <1>14 DEF EmptyTop, NotActive, Collide, UseAfterDestroy, Inside, Waiting
<1>15. CASE DtorStop \/ DtorTrigger \/ DtorSignal \/ DtorPoll \/ DtorDestroy
  BY <1>15 DEF DtorStop, DtorTrigger, DtorSignal, DtorPoll, DtorDestroy,
         CondSignal, Waiting, WakeLabel
<1>16. CASE UNCHANGED vars
  BY <1>16 DEF vars
<1>. QED
  BY <1>1, <1>2, <1>3, <1>4, <1>5, <1>6, <1>7, <1>8, <1>9, <1>10, <1>11,
     <1>12, <1>13, <1>14, <1>15, <1>16 DEF Next, ApiStep, SvcStep, DtorStep

LEMMA SvcLocalsStep ==
    ASSUME Control, [Next]_vars
    PROVE SvcLocals'
<1>. USE DEF Control, TypeOK, SvcLocals
<1>1. ASSUME NEW t \in Threads, Call(t) \/ Lock(t) \/ NewHandle(t) \/ Fill(t)
      \/ StopSuspend(t) \/ StopMark(t) \/ RestartMark(t) \/ RestartArm(t) \/
      TriggerCallback(t) \/ DeleteFree(t) \/ Unlock(t) \/ QueueLock(t) \/ Push(t) \/
      QueueUnlock(t) \/ SetTrigger(t) \/ Signal(t) PROVE SvcLocals'
  BY <1>1 DEF Call, Lock, NewHandle, Fill, StopSuspend, StopMark, RestartMark,
         RestartArm, TriggerCallback, DeleteFree, Unlock, QueueLock, Push, QueueUnlock,
         SetTrigger, Signal, MayCall, Opening, Uses, NewCell, MarkCell, Pushed,
         CondSignal, Waiting, WakeLabel
<1>2. ASSUME NEW t \in Threads, BadHandle(t) \/ NoHandleLeft(t) \/ NoMemory(t)
      \/ BadPush(t) PROVE SvcLocals'
  BY <1>2 DEF BadHandle, NoHandleLeft, NoMemory, BadPush, Pushed
<1>3. CASE SvcStart \/ SvcLock \/ SvcTest \/ SvcExit \/ SvcRelease \/ SvcWait
      \/ SvcRewait \/ SvcUnpark \/ SvcAwake \/ SvcReturn \/ SvcTimeout \/
      SpuriousWakeup \/ SvcCancelled
  BY <1>3 DEF SvcStart, SvcLock, SvcTest, SvcExit, SvcRelease, SvcWait,
         SvcRewait, SvcUnpark, SvcAwake, SvcReturn, SvcTimeout, SpuriousWakeup,
         SvcCancelled, Waiting, WakeLabel
<1>4. CASE SvcTop
  BY <1>4 DEF SvcTop
<1>5. CASE SvcDrop
  BY <1>5 DEF SvcDrop
<1>6. CASE SvcPop
  BY <1>6 DEF SvcPop
<1>7. CASE SvcSleep
  BY <1>7 DEF SvcSleep
<1>8. CASE SvcExpire
  BY <1>8 DEF SvcExpire
<1>9. CASE SvcSettle
  BY <1>9 DEF SvcSettle
<1>10. CASE SvcCall
  BY <1>10 DEF SvcCall
<1>11. CASE EmptyTop \/ NotActive \/ Collide \/ UseAfterDestroy
  BY <1>11 DEF EmptyTop, NotActive, Collide, UseAfterDestroy, Inside, Waiting
<1>12. CASE DtorStop \/ DtorTrigger \/ DtorSignal \/ DtorPoll \/ DtorDestroy
  BY <1>12 DEF DtorStop, DtorTrigger, DtorSignal, DtorPoll, DtorDestroy,
         CondSignal, Waiting, WakeLabel
<1>13. CASE UNCHANGED vars
  BY <1>13 DEF vars
<1>. QED
  BY <1>1, <1>2, <1>3, <1>4, <1>5, <1>6, <1>7, <1>8, <1>9, <1>10, <1>11,
     <1>12, <1>13 DEF Next, ApiStep, SvcStep, DtorStep

LEMMA ControlInit == ASSUME Init PROVE Control
<1>1. /\ triggered \in BOOLEAN /\ sawEmpty \in BOOLEAN /\ stop \in BOOLEAN
      /\ exited \in BOOLEAN /\ cancelled \in BOOLEAN
  BY Zenon DEF Init
<1>. QED
  BY <1>1 DEF Init, Control, TypeOK, ListLock, CallLocals, SvcLocals, ApiLabels,
         SvcLabels, Faults, Ops, Creates

\* Every variable keeps its type, the table's mutex excludes, and the locals of
\* each thread fit its step.
THEOREM ControlCorrect == Spec => []Control
<1>1. Init => Control
  BY ControlInit
<1>2. Control /\ [Next]_vars => Control'
  BY TypeStep, ListLockStep, CallLocalsStep, SvcLocalsStep DEF Control
<1>. QED
  BY <1>1, <1>2, PTL DEF Spec

\* TypeOK, for any number of clients, timers and cells.
THEOREM TypeCorrect == Spec => []TypeOK
BY ControlCorrect, PTL DEF Control

\* From here on callers do not delete a timer that another call uses.
LEMMA ExclusiveStep ==
    ASSUME ~RacingDelete, Control, Exclusive, [Next]_vars
    PROVE Exclusive'
<1>. USE DEF Control, TypeOK, CallLocals, ListLock, Exclusive, OpeningBy, Uses,
               Ops, Creates
<1>1. ASSUME NEW t \in Threads, Call(t) PROVE Exclusive'
  BY <1>1 DEF Call, MayCall, Opening, Uses
<1>2. ASSUME NEW t \in Threads, NewHandle(t) PROVE Exclusive'
  BY <1>2 DEF NewHandle
<1>3. ASSUME NEW t \in Threads, Fill(t) PROVE Exclusive'
  BY <1>3 DEF Fill, NewCell
<1>4. ASSUME NEW t \in Threads, StopSuspend(t) PROVE Exclusive'
  BY <1>4 DEF StopSuspend
<1>5. ASSUME NEW t \in Threads, StopMark(t) PROVE Exclusive'
  BY <1>5 DEF StopMark, MarkCell
<1>6. ASSUME NEW t \in Threads, RestartMark(t) PROVE Exclusive'
  BY <1>6 DEF RestartMark, MarkCell
<1>7. ASSUME NEW t \in Threads, RestartArm(t) PROVE Exclusive'
  BY <1>7 DEF RestartArm, NewCell
<1>8. ASSUME NEW t \in Threads, DeleteFree(t) PROVE Exclusive'
  BY <1>8 DEF DeleteFree, MarkCell
<1>9. ASSUME NEW t \in Threads, Unlock(t) PROVE Exclusive'
  BY <1>9 DEF Unlock
<1>10. ASSUME NEW t \in Threads, Push(t) PROVE Exclusive'
  BY <1>10 DEF Push, Pushed
<1>11. ASSUME NEW t \in Threads, TriggerCallback(t) \/ SetTrigger(t) \/
      QueueUnlock(t) \/ QueueLock(t) \/ Lock(t) \/ Signal(t) PROVE Exclusive'
  BY <1>11 DEF TriggerCallback, SetTrigger, QueueUnlock, QueueLock, Lock,
         Signal, CondSignal, Waiting, WakeLabel
<1>12. ASSUME NEW t \in Threads, BadHandle(t) \/ NoHandleLeft(t) \/
      NoMemory(t) \/ BadPush(t) PROVE Exclusive'
  BY <1>12 DEF BadHandle, NoHandleLeft, NoMemory, BadPush, Pushed
<1>13. CASE SvcStart \/ SvcLock \/ SvcTest \/ SvcExit \/ SvcRelease \/ SvcWait
      \/ SvcRewait \/ SvcUnpark \/ SvcAwake \/ SvcTop \/ SvcDrop \/ SvcPop \/
      SvcSleep \/ SvcExpire \/ SvcSettle \/ SvcCall \/ SvcReturn \/ SvcTimeout \/
      SpuriousWakeup \/ SvcCancelled
  BY <1>13 DEF SvcStart, SvcLock, SvcTest, SvcExit, SvcRelease, SvcWait,
         SvcRewait, SvcUnpark, SvcAwake, SvcTop, SvcDrop, SvcPop, SvcSleep, SvcExpire,
         SvcSettle, SvcCall, SvcReturn, SvcTimeout, SpuriousWakeup, SvcCancelled,
         Waiting, WakeLabel
<1>14. CASE EmptyTop \/ NotActive \/ Collide \/ UseAfterDestroy
  BY <1>14 DEF EmptyTop, NotActive, Collide, UseAfterDestroy, Inside, Waiting
<1>15. CASE DtorStop \/ DtorTrigger \/ DtorSignal \/ DtorPoll \/ DtorDestroy
  BY <1>15 DEF DtorStop, DtorTrigger, DtorSignal, DtorPoll, DtorDestroy,
         CondSignal, Waiting, WakeLabel
<1>16. CASE UNCHANGED vars
  BY <1>16 DEF vars
<1>. QED
  BY <1>1, <1>2, <1>3, <1>4, <1>5, <1>6, <1>7, <1>8, <1>9, <1>10, <1>11,
     <1>12, <1>13, <1>14, <1>15, <1>16 DEF Next, ApiStep, SvcStep, DtorStep

LEMMA OwnersStep ==
    ASSUME ~RacingDelete, IInv, [Next]_vars
    PROVE Owners'
<1>. USE DEF IInv, Control, TypeOK, CallLocals, SvcLocals, ListLock,
               Exclusive, OpeningBy, Uses, Owners, SvcOwns, CallOwns, Carries,
               Linked, Refilling, Ops, Creates
<1>1. ASSUME NEW t \in Threads, Call(t) PROVE Owners'
  BY <1>1 DEF Call, MayCall, Opening, Uses
<1>2. ASSUME NEW t \in Threads, NewHandle(t) PROVE Owners'
  BY <1>2 DEF NewHandle
<1>3. ASSUME NEW t \in Threads, Fill(t) PROVE Owners'
  BY <1>3 DEF Fill, NewCell
<1>4. ASSUME NEW t \in Threads, StopSuspend(t) PROVE Owners'
  BY <1>4 DEF StopSuspend
<1>5. ASSUME NEW t \in Threads, StopMark(t) PROVE Owners'
  BY <1>5 DEF StopMark, MarkCell
<1>6. ASSUME NEW t \in Threads, RestartMark(t) PROVE Owners'
  BY <1>6 DEF RestartMark, MarkCell
<1>7. ASSUME NEW t \in Threads, RestartArm(t) PROVE Owners'
  BY <1>7 DEF RestartArm, NewCell
<1>8. ASSUME NEW t \in Threads, DeleteFree(t) PROVE Owners'
  BY <1>8 DEF DeleteFree, MarkCell
<1>9. ASSUME NEW t \in Threads, Unlock(t) PROVE Owners'
  BY <1>9 DEF Unlock
<1>10. ASSUME NEW t \in Threads, Push(t) PROVE Owners'
  BY <1>10 DEF Push, Pushed
<1>11. ASSUME NEW t \in Threads, TriggerCallback(t) \/ SetTrigger(t) \/
      QueueUnlock(t) \/ QueueLock(t) \/ Lock(t) \/ Signal(t) PROVE Owners'
  BY <1>11 DEF TriggerCallback, SetTrigger, QueueUnlock, QueueLock, Lock,
         Signal, CondSignal, Waiting, WakeLabel
<1>12. ASSUME NEW t \in Threads, BadHandle(t) \/ NoHandleLeft(t) \/
      NoMemory(t) \/ BadPush(t) PROVE Owners'
  BY <1>12 DEF BadHandle, NoHandleLeft, NoMemory, BadPush, Pushed
<1>13. CASE SvcStart \/ SvcLock \/ SvcTest \/ SvcExit \/ SvcRelease \/ SvcWait
      \/ SvcRewait \/ SvcUnpark \/ SvcAwake \/ SvcReturn \/ SvcTimeout \/
      SpuriousWakeup \/ SvcCancelled
  BY <1>13 DEF SvcStart, SvcLock, SvcTest, SvcExit, SvcRelease, SvcWait,
         SvcRewait, SvcUnpark, SvcAwake, SvcReturn, SvcTimeout, SpuriousWakeup,
         SvcCancelled, Waiting, WakeLabel
<1>14. CASE SvcTop
  BY <1>14 DEF SvcTop
<1>15. CASE SvcDrop
  BY <1>15 DEF SvcDrop
<1>16. CASE SvcPop
  BY <1>16 DEF SvcPop
<1>17. CASE SvcSleep
  BY <1>17 DEF SvcSleep
<1>18. CASE SvcExpire
  BY <1>18 DEF SvcExpire
<1>19. CASE SvcSettle
  BY <1>19 DEF SvcSettle
<1>20. CASE SvcCall
  BY <1>20 DEF SvcCall
<1>21. CASE EmptyTop \/ NotActive \/ Collide \/ UseAfterDestroy
  BY <1>21 DEF EmptyTop, NotActive, Collide, UseAfterDestroy, Inside, Waiting
<1>22. CASE DtorStop \/ DtorTrigger \/ DtorSignal \/ DtorPoll \/ DtorDestroy
  BY <1>22 DEF DtorStop, DtorTrigger, DtorSignal, DtorPoll, DtorDestroy,
         CondSignal, Waiting, WakeLabel
<1>23. CASE UNCHANGED vars
  BY <1>23 DEF vars
<1>. QED
  BY <1>1, <1>2, <1>3, <1>4, <1>5, <1>6, <1>7, <1>8, <1>9, <1>10, <1>11,
     <1>12, <1>13, <1>14, <1>15, <1>16, <1>17, <1>18, <1>19, <1>20, <1>21, <1>22,
     <1>23 DEF Next, ApiStep, SvcStep, DtorStep

LEMMA LinkedStep ==
    ASSUME ~RacingDelete, IInv, [Next]_vars
    PROVE Linked'
<1>. USE DEF IInv, Control, TypeOK, CallLocals, SvcLocals, ListLock,
               Exclusive, OpeningBy, Uses, Owners, SvcOwns, CallOwns, Carries,
               Linked, Refilling, Ops, Creates
<1>1. ASSUME NEW t \in Threads, Call(t) PROVE Linked'
  BY <1>1 DEF Call, MayCall, Opening, Uses
<1>2. ASSUME NEW t \in Threads, NewHandle(t) PROVE Linked'
  BY <1>2 DEF NewHandle
<1>3. ASSUME NEW t \in Threads, Fill(t) PROVE Linked'
  BY <1>3 DEF Fill, NewCell
<1>4. ASSUME NEW t \in Threads, StopSuspend(t) PROVE Linked'
  BY <1>4 DEF StopSuspend
<1>5. ASSUME NEW t \in Threads, StopMark(t) PROVE Linked'
  BY <1>5 DEF StopMark, MarkCell
<1>6. ASSUME NEW t \in Threads, RestartMark(t) PROVE Linked'
  BY <1>6 DEF RestartMark, MarkCell
<1>7. ASSUME NEW t \in Threads, RestartArm(t) PROVE Linked'
  BY <1>7 DEF RestartArm, NewCell
<1>8. ASSUME NEW t \in Threads, DeleteFree(t) PROVE Linked'
  BY <1>8 DEF DeleteFree, MarkCell
<1>9. ASSUME NEW t \in Threads, Unlock(t) PROVE Linked'
  BY <1>9 DEF Unlock
<1>10. ASSUME NEW t \in Threads, Push(t) PROVE Linked'
  BY <1>10 DEF Push, Pushed
<1>11. ASSUME NEW t \in Threads, TriggerCallback(t) \/ SetTrigger(t) \/
      QueueUnlock(t) \/ QueueLock(t) \/ Lock(t) \/ Signal(t) PROVE Linked'
  BY <1>11 DEF TriggerCallback, SetTrigger, QueueUnlock, QueueLock, Lock,
         Signal, CondSignal, Waiting, WakeLabel
<1>12. ASSUME NEW t \in Threads, BadHandle(t) \/ NoHandleLeft(t) \/
      NoMemory(t) \/ BadPush(t) PROVE Linked'
  BY <1>12 DEF BadHandle, NoHandleLeft, NoMemory, BadPush, Pushed
<1>13. CASE SvcStart \/ SvcLock \/ SvcTest \/ SvcExit \/ SvcRelease \/ SvcWait
      \/ SvcRewait \/ SvcUnpark \/ SvcAwake \/ SvcReturn \/ SvcTimeout \/
      SpuriousWakeup \/ SvcCancelled
  BY <1>13 DEF SvcStart, SvcLock, SvcTest, SvcExit, SvcRelease, SvcWait,
         SvcRewait, SvcUnpark, SvcAwake, SvcReturn, SvcTimeout, SpuriousWakeup,
         SvcCancelled, Waiting, WakeLabel
<1>14. CASE SvcTop
  BY <1>14 DEF SvcTop
<1>15. CASE SvcDrop
  BY <1>15 DEF SvcDrop
<1>16. CASE SvcPop
  BY <1>16 DEF SvcPop
<1>17. CASE SvcSleep
  BY <1>17 DEF SvcSleep
<1>18. CASE SvcExpire
  BY <1>18 DEF SvcExpire
<1>19. CASE SvcSettle
  BY <1>19 DEF SvcSettle
<1>20. CASE SvcCall
  BY <1>20 DEF SvcCall
<1>21. CASE EmptyTop \/ NotActive \/ Collide \/ UseAfterDestroy
  BY <1>21 DEF EmptyTop, NotActive, Collide, UseAfterDestroy, Inside, Waiting
<1>22. CASE DtorStop \/ DtorTrigger \/ DtorSignal \/ DtorPoll \/ DtorDestroy
  BY <1>22 DEF DtorStop, DtorTrigger, DtorSignal, DtorPoll, DtorDestroy,
         CondSignal, Waiting, WakeLabel
<1>23. CASE UNCHANGED vars
  BY <1>23 DEF vars
<1>. QED
  BY <1>1, <1>2, <1>3, <1>4, <1>5, <1>6, <1>7, <1>8, <1>9, <1>10, <1>11,
     <1>12, <1>13, <1>14, <1>15, <1>16, <1>17, <1>18, <1>19, <1>20, <1>21, <1>22,
     <1>23 DEF Next, ApiStep, SvcStep, DtorStep

LEMMA LiveStep ==
    ASSUME ~RacingDelete, IInv, [Next]_vars
    PROVE Live'
<1>. USE DEF IInv, Control, TypeOK, CallLocals, SvcLocals, ListLock,
               Exclusive, OpeningBy, Uses, Owners, SvcOwns, CallOwns, Carries,
               Linked, Refilling, Ops, Creates, Live, Pending
<1>1. ASSUME NEW t \in Threads, Call(t) PROVE Live'
  BY <1>1 DEF Call, MayCall, Opening, Uses
<1>2. ASSUME NEW t \in Threads, NewHandle(t) PROVE Live'
  BY <1>2 DEF NewHandle
<1>3. ASSUME NEW t \in Threads, Fill(t) PROVE Live'
  BY <1>3 DEF Fill, NewCell
<1>4. ASSUME NEW t \in Threads, StopSuspend(t) PROVE Live'
  BY <1>4 DEF StopSuspend
<1>5. ASSUME NEW t \in Threads, StopMark(t) PROVE Live'
  BY <1>5 DEF StopMark, MarkCell
<1>6. ASSUME NEW t \in Threads, RestartMark(t) PROVE Live'
  BY <1>6 DEF RestartMark, MarkCell
<1>7. ASSUME NEW t \in Threads, RestartArm(t) PROVE Live'
  BY <1>7 DEF RestartArm, NewCell
<1>8. ASSUME NEW t \in Threads, DeleteFree(t) PROVE Live'
  BY <1>8 DEF DeleteFree, MarkCell
<1>9. ASSUME NEW t \in Threads, Unlock(t) PROVE Live'
  BY <1>9 DEF Unlock
<1>10. ASSUME NEW t \in Threads, Push(t) PROVE Live'
  BY <1>10 DEF Push, Pushed
<1>11. ASSUME NEW t \in Threads, TriggerCallback(t) \/ SetTrigger(t) \/
      QueueUnlock(t) \/ QueueLock(t) \/ Lock(t) \/ Signal(t) PROVE Live'
  BY <1>11 DEF TriggerCallback, SetTrigger, QueueUnlock, QueueLock, Lock,
         Signal, CondSignal, Waiting, WakeLabel
<1>12. ASSUME NEW t \in Threads, BadHandle(t) \/ NoHandleLeft(t) \/
      NoMemory(t) \/ BadPush(t) PROVE Live'
  BY <1>12 DEF BadHandle, NoHandleLeft, NoMemory, BadPush, Pushed
<1>13. CASE SvcStart \/ SvcLock \/ SvcTest \/ SvcExit \/ SvcRelease \/ SvcWait
      \/ SvcRewait \/ SvcUnpark \/ SvcAwake \/ SvcReturn \/ SvcTimeout \/
      SpuriousWakeup \/ SvcCancelled
  BY <1>13 DEF SvcStart, SvcLock, SvcTest, SvcExit, SvcRelease, SvcWait,
         SvcRewait, SvcUnpark, SvcAwake, SvcReturn, SvcTimeout, SpuriousWakeup,
         SvcCancelled, Waiting, WakeLabel
<1>14. CASE SvcTop
  BY <1>14 DEF SvcTop
<1>15. CASE SvcDrop
  BY <1>15 DEF SvcDrop
<1>16. CASE SvcPop
  BY <1>16 DEF SvcPop
<1>17. CASE SvcSleep
  BY <1>17 DEF SvcSleep
<1>18. CASE SvcExpire
  BY <1>18 DEF SvcExpire
<1>19. CASE SvcSettle
  BY <1>19 DEF SvcSettle
<1>20. CASE SvcCall
  BY <1>20 DEF SvcCall
<1>21. CASE EmptyTop \/ NotActive \/ Collide \/ UseAfterDestroy
  BY <1>21 DEF EmptyTop, NotActive, Collide, UseAfterDestroy, Inside, Waiting
<1>22. CASE DtorStop \/ DtorTrigger \/ DtorSignal \/ DtorPoll \/ DtorDestroy
  BY <1>22 DEF DtorStop, DtorTrigger, DtorSignal, DtorPoll, DtorDestroy,
         CondSignal, Waiting, WakeLabel
<1>23. CASE UNCHANGED vars
  BY <1>23 DEF vars
<1>. QED
  BY <1>1, <1>2, <1>3, <1>4, <1>5, <1>6, <1>7, <1>8, <1>9, <1>10, <1>11,
     <1>12, <1>13, <1>14, <1>15, <1>16, <1>17, <1>18, <1>19, <1>20, <1>21, <1>22,
     <1>23 DEF Next, ApiStep, SvcStep, DtorStep

THEOREM Invariance == ~RacingDelete => (Spec => []IInv)
<1>. SUFFICES ASSUME ~RacingDelete PROVE Spec => []IInv
  OBVIOUS
<1>1. Init => IInv
  BY ControlInit DEF Init, IInv, Exclusive, OpeningBy, Uses, Owners, SvcOwns,
     CallOwns, Carries, Linked, Live
<1>2. IInv /\ [Next]_vars => Control'
  BY TypeStep, ListLockStep, CallLocalsStep, SvcLocalsStep DEF IInv, Control
<1>3. IInv /\ [Next]_vars => IInv'
  BY <1>2, ExclusiveStep, OwnersStep, LinkedStep, LiveStep DEF IInv
<1>. QED
  BY <1>1, <1>3, PTL DEF Spec

\* With callers that keep to the discipline, an active timer is never lost.
THEOREM ActiveTimersQueued == ~RacingDelete => (Spec => []ActiveQueued)
<1>1. IInv => ActiveQueued
  BY DEF IInv, Control, TypeOK, Linked, Live, ActiveQueued, Changing, Refilling,
     Pending, Owners, SvcOwns, SvcLocals
<1>. QED
  BY <1>1, Invariance, PTL

\* No cell that is queued, carried or remembered has been freed.
THEOREM CellsSafe == ~RacingDelete => (Spec => []CellSafety)
<1>1. IInv => CellSafety
  BY DEF IInv, CellSafety, Linked, Owners, SvcOwns, CallOwns, Pending, Changing,
     Refilling
<1>. QED
  BY <1>1, Invariance, PTL

\* The service thread frees only cells that nobody refers to.
THEOREM FreesUnreferenced == ~RacingDelete => (Spec => FreedIsUnreferenced)
<1>. DEFINE A == \A c \in allocated \ allocated' :
          /\ \A h \in valid : heap[h] = c => Changing(h)
          /\ \A t \in Threads : ~Carries(t, c)
          /\ c \notin queue'
<1>1. ASSUME IInv, [Next]_vars PROVE [A]_vars
  <2>. USE <1>1
  <2>1. ASSUME NEW t \in Threads, Call(t) \/ Lock(t) \/ NewHandle(t) \/ Fill(t)
        \/ StopSuspend(t) \/ StopMark(t) \/ RestartMark(t) \/ RestartArm(t) PROVE
        [A]_vars
    BY <2>1 DEF Call, Lock, NewHandle, Fill, StopSuspend, StopMark, RestartMark,
           RestartArm, MayCall, Opening, Uses, NewCell, MarkCell
  <2>2. ASSUME NEW t \in Threads, TriggerCallback(t) \/ DeleteFree(t) \/
        Unlock(t) \/ QueueLock(t) \/ Push(t) \/ QueueUnlock(t) \/ SetTrigger(t) \/
        Signal(t) PROVE [A]_vars
    BY <2>2 DEF TriggerCallback, DeleteFree, Unlock, QueueLock, Push,
           QueueUnlock, SetTrigger, Signal, MarkCell, Pushed, CondSignal, Waiting,
           WakeLabel
  <2>3. ASSUME NEW t \in Threads, BadHandle(t) \/ NoHandleLeft(t) \/ NoMemory(t)
        \/ BadPush(t) PROVE [A]_vars
    BY <2>3 DEF BadHandle, NoHandleLeft, NoMemory, BadPush, Pushed
  <2>4. CASE SvcDrop
    BY <2>4 DEF SvcDrop, IInv, Control, TypeOK, SvcLocals, Owners, SvcOwns,
           CallOwns, Linked, Refilling, Changing
  <2>5. CASE SvcStart \/ SvcLock \/ SvcTest \/ SvcExit \/ SvcRelease \/ SvcWait
        \/ SvcRewait \/ SvcUnpark \/ SvcAwake \/ SvcTop
    BY <2>5 DEF SvcStart, SvcLock, SvcTest, SvcExit, SvcRelease, SvcWait,
           SvcRewait, SvcUnpark, SvcAwake, SvcTop
  <2>6. CASE SvcPop \/ SvcSleep \/ SvcExpire \/ SvcSettle \/ SvcCall \/
        SvcReturn \/ SvcTimeout \/ SpuriousWakeup \/ SvcCancelled
    BY <2>6 DEF SvcPop, SvcSleep, SvcExpire, SvcSettle, SvcCall, SvcReturn,
           SvcTimeout, SpuriousWakeup, SvcCancelled, Waiting, WakeLabel
  <2>7. CASE EmptyTop \/ NotActive \/ Collide \/ UseAfterDestroy
    BY <2>7 DEF EmptyTop, NotActive, Collide, UseAfterDestroy, Inside, Waiting
  <2>8. CASE DtorStop \/ DtorTrigger \/ DtorSignal \/ DtorPoll \/ DtorDestroy
    BY <2>8 DEF DtorStop, DtorTrigger, DtorSignal, DtorPoll, DtorDestroy,
           CondSignal, Waiting, WakeLabel
  <2>9. CASE UNCHANGED vars
    BY <2>9 DEF vars
  <2>. QED
    BY <2>1, <2>2, <2>3, <2>4, <2>5, <2>6, <2>7, <2>8, <2>9 DEF Next, ApiStep,
       SvcStep, DtorStep
<1>. QED
  BY <1>1, Invariance, PTL DEF Spec, FreedIsUnreferenced

\* No call finds its handle gone, and every cell pushed is a fresh one.
THEOREM GoodHandles == ~RacingDelete => (Spec => []HandlesAreGood)
<1>1. Init => HandlesAreGood
  BY DEF Init, HandlesAreGood
<1>2. ASSUME IInv, HandlesAreGood, [Next]_vars PROVE HandlesAreGood'
  <2>. USE <1>2 DEF HandlesAreGood
  <2>1. ASSUME NEW t \in Threads, Call(t) \/ Lock(t) \/ NewHandle(t) \/ Fill(t)
        \/ StopSuspend(t) \/ StopMark(t) \/ RestartMark(t) \/ RestartArm(t) PROVE
        HandlesAreGood'
    BY <2>1 DEF Call, Lock, NewHandle, Fill, StopSuspend, StopMark, RestartMark,
           RestartArm, MayCall, Opening, Uses, NewCell, MarkCell
  <2>2. ASSUME NEW t \in Threads, TriggerCallback(t) \/ DeleteFree(t) \/
        Unlock(t) \/ QueueLock(t) \/ Push(t) \/ QueueUnlock(t) \/ SetTrigger(t) \/
        Signal(t) PROVE HandlesAreGood'
    BY <2>2 DEF TriggerCallback, DeleteFree, Unlock, QueueLock, Push,
           QueueUnlock, SetTrigger, Signal, MarkCell, Pushed, CondSignal, Waiting,
           WakeLabel
  <2>3. ASSUME NEW t \in Threads, NoHandleLeft(t) \/ NoMemory(t) PROVE
        HandlesAreGood'
    BY <2>3 DEF NoHandleLeft, NoMemory
  <2>4. ASSUME NEW t \in Threads, BadHandle(t) PROVE HandlesAreGood'
    BY <2>4 DEF BadHandle, IInv, Control, TypeOK, CallLocals, Exclusive,
           Uses, Creates
  <2>5. ASSUME NEW t \in Threads, BadPush(t) PROVE HandlesAreGood'
    BY <2>5 DEF BadPush, Pushed, IInv, Control, TypeOK, CallLocals,
           Owners, CallOwns, Carries, Linked, OpeningBy, Creates
  <2>6. CASE SvcStart \/ SvcLock \/ SvcTest \/ SvcExit \/ SvcRelease \/ SvcWait
        \/ SvcRewait \/ SvcUnpark \/ SvcAwake \/ SvcTop
    BY <2>6 DEF SvcStart, SvcLock, SvcTest, SvcExit, SvcRelease, SvcWait,
           SvcRewait, SvcUnpark, SvcAwake, SvcTop
  <2>7. CASE SvcDrop \/ SvcPop \/ SvcSleep \/ SvcExpire \/ SvcSettle \/ SvcCall
        \/ SvcReturn \/ SvcTimeout \/ SpuriousWakeup \/ SvcCancelled
    BY <2>7 DEF SvcDrop, SvcPop, SvcSleep, SvcExpire, SvcSettle, SvcCall,
           SvcReturn, SvcTimeout, SpuriousWakeup, SvcCancelled, Waiting, WakeLabel
  <2>8. CASE EmptyTop \/ NotActive \/ Collide \/ UseAfterDestroy
    BY <2>8 DEF EmptyTop, NotActive, Collide, UseAfterDestroy, Inside, Waiting
  <2>9. CASE DtorStop \/ DtorTrigger \/ DtorSignal \/ DtorPoll \/ DtorDestroy
    BY <2>9 DEF DtorStop, DtorTrigger, DtorSignal, DtorPoll, DtorDestroy,
           CondSignal, Waiting, WakeLabel
  <2>10. CASE UNCHANGED vars
    BY <2>10 DEF vars
  <2>. QED
    BY <2>1, <2>2, <2>3, <2>4, <2>5, <2>6, <2>7, <2>8, <2>9, <2>10 DEF Next,
       ApiStep, SvcStep, DtorStep
<1>. QED
  BY <1>1, <1>2, Invariance, PTL DEF Spec

(***************************************************************************)
(* Auto-reset timers.  When no timer is one-shot, table and queue agree    *)
(* even if callers race a delete with other calls.  AutoInv is inductive   *)
(* without the discipline that IInv needs, because it says nothing of who  *)
(* owns a cell: only that a cell which points to a slot is the one that    *)
(* slot remembers, and is, or will be, queued while its timer is active.   *)
(***************************************************************************)
SvcCells ==
    /\ queue \subseteq allocated
    /\ svcPc \in {"drop", "look"} => svcCell \in queue
    /\ svcPc \in {"expire", "settle"} => svcCell \in allocated
    /\ svcPc = "drop" => points[svcCell] = NULL
    /\ svcPc \in {"look", "expire", "settle"} =>
           points[svcCell] \in {svcTimer, NULL} /\ svcTimer \in autoReset

\* A cell that points to a slot is the one the slot remembers.
Pointed == \A c \in Cells : points[c] # NULL =>
    /\ c \in allocated
    /\ points[c] \in valid \cap autoReset /\ heap[points[c]] = c
    /\ ~Refilling(points[c])

\* A call that carries c will push it: CreateTimer pushes what its slot remembers.
WillQueue(c) ==
    \/ c \in queue \/ (c = svcCell /\ svcPc \in {"expire", "settle"})
    \/ \E t \in Threads : Carries(t, c) /\ (op[t] = "restart" \/ arg[t] = points[c])

\* Between calls an active timer has its cell, and a suspended one has none.
Agreed == \A h \in valid : ~Changing(h) =>
    IF h \in active
    THEN heap[h] \in Cells /\ points[heap[h]] = h /\ WillQueue(heap[h])
    ELSE heap[h] = NULL

\* What a call that is changing a slot has done to it so far.
Midway ==
    /\ \A h \in valid \ autoReset : \E t \in Threads : arg[t] = h /\ pc[t] = "fill"
    /\ \A t \in Threads :
       /\ pc[t] \in {"fill", "mark", "arm"} => arg[t] \in valid
       /\ pc[t] = "fill" => (arg[t] \in active <=> op[t] = "createActive")
       /\ pc[t] = "mark" => /\ arg[t] \notin active
                            /\ heap[arg[t]] \in Cells /\ points[heap[arg[t]]] = arg[t]

\* A timer that was stopped or deleted is in no cell, and if the service thread
\* is about to call it, that is the first time.
Counted ==
    /\ \A h \in Handles : late[h] <= 1 /\ (late[h] > 0 => h \in quiet)
    /\ \A c \in Cells : points[c] \notin quiet
    /\ \A t \in Threads : pc[t] \in {"trig", "unlock"} /\ op[t] \in {"stop", "delete"} =>
           \A c \in Cells : points[c] # arg[t]
    /\ svcPc \in {"look", "expire", "settle", "call"} => late[svcTimer] = 0

AutoInv == Control /\ SvcCells /\ Pointed /\ Agreed /\ Midway /\ Counted

\* Without one-shot timers a created timer is an auto-reset one.
LEMMA FillResets ==
    ASSUME FALSE \notin AutoResets, NEW t \in Threads, Fill(t)
    PROVE autoReset' = autoReset \cup {arg[t]}
<1>1. PICK a \in AutoResets :
         autoReset' = IF a THEN autoReset \cup {arg[t]} ELSE autoReset \ {arg[t]}
  BY Zenon DEF Fill
<1>2. a = TRUE
  BY Zenon
<1>. QED
  BY <1>1, <1>2, Zenon

\* While a slot waits for its cell, none points to it.
LEMMA NotYetPointed ==
    ASSUME AutoInv, NEW t \in Threads, pc[t] \in {"fill", "arm"}
    PROVE arg[t] \in valid /\ \A c \in Cells : points[c] # arg[t]
<1>1. arg[t] \in valid /\ arg[t] # NULL
  BY DEF AutoInv, Midway, Control, CallLocals
<1>2. Refilling(arg[t])
  BY DEF Refilling
<1>. QED
  BY <1>1, <1>2 DEF AutoInv, Pointed

\* A step keeps the cell of the service thread what its step says it is.
LEMMA SvcCellsStep == ASSUME FALSE \notin AutoResets, AutoInv, [Next]_vars PROVE SvcCells'
<1>. USE DEF AutoInv, Control, TypeOK, CallLocals, SvcLocals, ListLock, SvcCells, Pointed, Agreed, Midway,
        Counted, WillQueue, Carries, Changing, Refilling, Ops, Creates
<1>1. ASSUME NEW t \in Threads, Call(t) PROVE SvcCells'
  BY <1>1 DEF Call, MayCall, Opening, Uses
<1>2. ASSUME NEW t \in Threads, NewHandle(t) PROVE SvcCells'
  BY <1>2 DEF NewHandle
<1>3. ASSUME NEW t \in Threads, Fill(t) PROVE SvcCells'
  <2>1. autoReset' = autoReset \cup {arg[t]}
    BY <1>3, FillResets
  <2>. QED
    BY <1>3, <2>1 DEF Fill, NewCell
<1>4. ASSUME NEW t \in Threads, StopSuspend(t) PROVE SvcCells'
  BY <1>4 DEF StopSuspend
<1>5. ASSUME NEW t \in Threads, StopMark(t) PROVE SvcCells'
  BY <1>5 DEF StopMark, MarkCell
<1>6. ASSUME NEW t \in Threads, RestartMark(t) PROVE SvcCells'
  BY <1>6 DEF RestartMark, MarkCell
<1>7. ASSUME NEW t \in Threads, RestartArm(t) PROVE SvcCells'
  BY <1>7 DEF RestartArm, NewCell
<1>8. ASSUME NEW t \in Threads, DeleteFree(t) PROVE SvcCells'
  BY <1>8 DEF DeleteFree, MarkCell
<1>9. ASSUME NEW t \in Threads, Unlock(t) PROVE SvcCells'
  BY <1>9 DEF Unlock
<1>10. ASSUME NEW t \in Threads, Push(t) PROVE SvcCells'
  BY <1>10 DEF Push, Pushed
<1>11. ASSUME NEW t \in Threads, TriggerCallback(t) \/ SetTrigger(t) \/ QueueUnlock(t) \/
      QueueLock(t) \/ Lock(t) \/ Signal(t) PROVE SvcCells'
  BY <1>11 DEF TriggerCallback, SetTrigger, QueueUnlock, QueueLock, Lock, Signal, CondSignal,
         Waiting, WakeLabel
<1>12. ASSUME NEW t \in Threads, BadHandle(t) \/ NoHandleLeft(t) \/ NoMemory(t) \/ BadPush(t) PROVE SvcCells'
  BY <1>12 DEF BadHandle, NoHandleLeft, NoMemory, BadPush
<1>13. CASE SvcStart \/ SvcLock \/ SvcTest \/ SvcExit \/ SvcRelease \/ SvcWait \/ SvcRewait \/
      SvcUnpark \/ SvcAwake \/ SvcReturn \/ SvcTimeout \/ SpuriousWakeup \/ SvcCancelled
  BY <1>13 DEF SvcStart, SvcLock, SvcTest, SvcExit, SvcRelease, SvcWait, SvcRewait, SvcUnpark,
         SvcAwake, SvcReturn, SvcTimeout, SpuriousWakeup, SvcCancelled, Waiting, WakeLabel
<1>14. CASE SvcTop
  BY <1>14 DEF SvcTop
<1>15. CASE SvcDrop
  BY <1>15 DEF SvcDrop
<1>16. CASE SvcPop
  BY <1>16 DEF SvcPop
<1>17. CASE SvcSleep
  BY <1>17 DEF SvcSleep
<1>18. CASE SvcExpire
  BY <1>18 DEF SvcExpire
<1>19. CASE SvcSettle
  BY <1>19 DEF SvcSettle
<1>20. CASE SvcCall
  BY <1>20 DEF SvcCall
<1>21. CASE EmptyTop \/ NotActive \/ Collide \/ UseAfterDestroy
  BY <1>21 DEF EmptyTop, NotActive, Collide, UseAfterDestroy
<1>22. CASE DtorStop \/ DtorTrigger \/ DtorSignal \/ DtorPoll \/ DtorDestroy
  BY <1>22 DEF DtorStop, DtorTrigger, DtorSignal, DtorPoll, DtorDestroy, CondSignal, Waiting, WakeLabel
<1>23. CASE UNCHANGED vars
  BY <1>23 DEF vars
<1>. QED
  BY <1>1, <1>2, <1>3, <1>4, <1>5, <1>6, <1>7, <1>8, <1>9, <1>10, <1>11,
     <1>12, <1>13, <1>14, <1>15, <1>16, <1>17, <1>18, <1>19, <1>20, <1>21, <1>22, <1>23
  DEF Next, ApiStep, SvcStep, DtorStep

\* A step lets a cell point to a slot only if the slot remembers it.
LEMMA PointedStep == ASSUME FALSE \notin AutoResets, AutoInv, [Next]_vars PROVE Pointed'
<1>. USE DEF AutoInv, Control, TypeOK, CallLocals, SvcLocals, ListLock, SvcCells, Pointed, Agreed, Midway,
        Counted, WillQueue, Carries, Changing, Refilling, Ops, Creates
<1>1. ASSUME NEW t \in Threads, Call(t) PROVE Pointed'
  BY <1>1 DEF Call, MayCall, Opening, Uses
<1>2. ASSUME NEW t \in Threads, NewHandle(t) PROVE Pointed'
  BY <1>2 DEF NewHandle
<1>3. ASSUME NEW t \in Threads, Fill(t) PROVE Pointed'
  <2>1. autoReset' = autoReset \cup {arg[t]}
    BY <1>3, FillResets
  <2>2. \A h \in Handles : Refilling(h) <=> h = arg[t]
    BY <1>3 DEF Fill
  <2>3. \A h \in Handles : ~Refilling(h)'
    BY <1>3 DEF Fill
  <2>4. \A c \in Cells : points[c] # arg[t]
    BY <1>3, NotYetPointed DEF Fill
  <2>. QED
    BY <1>3, <2>1, <2>3, <2>4 DEF Fill, NewCell
<1>4. ASSUME NEW t \in Threads, StopSuspend(t) PROVE Pointed'
  BY <1>4 DEF StopSuspend
<1>5. ASSUME NEW t \in Threads, StopMark(t) PROVE Pointed'
  BY <1>5 DEF StopMark, MarkCell
<1>6. ASSUME NEW t \in Threads, RestartMark(t) PROVE Pointed'
  BY <1>6 DEF RestartMark, MarkCell
<1>7. ASSUME NEW t \in Threads, RestartArm(t) PROVE Pointed'
  <2>2. \A h \in Handles : Refilling(h) <=> h = arg[t]
    BY <1>7 DEF RestartArm
  <2>3. \A h \in Handles : ~Refilling(h)'
    BY <1>7 DEF RestartArm
  <2>4. \A c \in Cells : points[c] # arg[t]
    BY <1>7, NotYetPointed DEF RestartArm
  <2>5. arg[t] \in valid \cap autoReset
    BY <1>7 DEF RestartArm
  <2>. QED
    BY <1>7, <2>2, <2>3, <2>4, <2>5 DEF RestartArm, NewCell
<1>8. ASSUME NEW t \in Threads, DeleteFree(t) PROVE Pointed'
  BY <1>8 DEF DeleteFree, MarkCell
<1>9. ASSUME NEW t \in Threads, Unlock(t) PROVE Pointed'
  BY <1>9 DEF Unlock
<1>10. ASSUME NEW t \in Threads, Push(t) PROVE Pointed'
  BY <1>10 DEF Push, Pushed
<1>11. ASSUME NEW t \in Threads, TriggerCallback(t) \/ SetTrigger(t) \/ QueueUnlock(t) \/
      QueueLock(t) \/ Lock(t) \/ Signal(t) PROVE Pointed'
  BY <1>11 DEF TriggerCallback, SetTrigger, QueueUnlock, QueueLock, Lock, Signal, CondSignal,
         Waiting, WakeLabel
<1>12. ASSUME NEW t \in Threads, BadHandle(t) \/ NoHandleLeft(t) \/ NoMemory(t) \/ BadPush(t) PROVE Pointed'
  BY <1>12 DEF BadHandle, NoHandleLeft, NoMemory, BadPush
<1>13. CASE SvcStart \/ SvcLock \/ SvcTest \/ SvcExit \/ SvcRelease \/ SvcWait \/ SvcRewait \/
      SvcUnpark \/ SvcAwake \/ SvcReturn \/ SvcTimeout \/ SpuriousWakeup \/ SvcCancelled
  BY <1>13 DEF SvcStart, SvcLock, SvcTest, SvcExit, SvcRelease, SvcWait, SvcRewait, SvcUnpark,
         SvcAwake, SvcReturn, SvcTimeout, SpuriousWakeup, SvcCancelled, Waiting, WakeLabel
<1>14. CASE SvcTop
  BY <1>14 DEF SvcTop
<1>15. CASE SvcDrop
  BY <1>15 DEF SvcDrop
<1>16. CASE SvcPop
  BY <1>16 DEF SvcPop
<1>17. CASE SvcSleep
  BY <1>17 DEF SvcSleep
<1>18. CASE SvcExpire
  BY <1>18 DEF SvcExpire
<1>19. CASE SvcSettle
  BY <1>19 DEF SvcSettle
<1>20. CASE SvcCall
  BY <1>20 DEF SvcCall
<1>21. CASE EmptyTop \/ NotActive \/ Collide \/ UseAfterDestroy
  BY <1>21 DEF EmptyTop, NotActive, Collide, UseAfterDestroy
<1>22. CASE DtorStop \/ DtorTrigger \/ DtorSignal \/ DtorPoll \/ DtorDestroy
  BY <1>22 DEF DtorStop, DtorTrigger, DtorSignal, DtorPoll, DtorDestroy, CondSignal, Waiting, WakeLabel
<1>23. CASE UNCHANGED vars
  BY <1>23 DEF vars
<1>. QED
  BY <1>1, <1>2, <1>3, <1>4, <1>5, <1>6, <1>7, <1>8, <1>9, <1>10, <1>11,
     <1>12, <1>13, <1>14, <1>15, <1>16, <1>17, <1>18, <1>19, <1>20, <1>21, <1>22, <1>23
  DEF Next, ApiStep, SvcStep, DtorStep

\* A step keeps table and queue in agreement between calls.
LEMMA AgreedStep == ASSUME FALSE \notin AutoResets, AutoInv, [Next]_vars PROVE Agreed'
<1>. USE DEF AutoInv, Control, TypeOK, CallLocals, SvcLocals, ListLock, SvcCells, Pointed, Agreed, Midway,
        Counted, WillQueue, Carries, Changing, Refilling, Ops, Creates
<1>1. ASSUME NEW t \in Threads, Call(t) PROVE Agreed'
  BY <1>1 DEF Call, MayCall, Opening, Uses
<1>2. ASSUME NEW t \in Threads, NewHandle(t) PROVE Agreed'
  BY <1>2 DEF NewHandle
<1>3. ASSUME NEW t \in Threads, Fill(t) PROVE Agreed'
  BY <1>3 DEF Fill, NewCell
<1>4. ASSUME NEW t \in Threads, StopSuspend(t) PROVE Agreed'
  BY <1>4 DEF StopSuspend
<1>5. ASSUME NEW t \in Threads, StopMark(t) PROVE Agreed'
  <2>1. \A h \in Handles : Changing(h) <=> h = arg[t]
    BY <1>5 DEF StopMark
  <2>2. arg[t] \in Handles \ active /\ op[t] = "stop"
    BY <1>5 DEF StopMark
  <2>3. heap' = [heap EXCEPT ![arg[t]] = NULL]
    BY <1>5 DEF StopMark
  <2>4. \A h \in Handles : h # arg[t] /\ heap[h] \in Cells /\ points[heap[h]] = h
            => points'[heap[h]] = h
    BY <1>5, <2>2 DEF StopMark, MarkCell
  <2>5. \A c \in Cells : points[c] # NULL /\ points[c] # arg[t] /\ WillQueue(c) /\ points'[c] = points[c]
            => WillQueue(c)'
    BY <1>5 DEF StopMark, MarkCell
  <2>. QED
    BY <1>5, <2>1, <2>2, <2>3, <2>4, <2>5 DEF StopMark
<1>6. ASSUME NEW t \in Threads, RestartMark(t) PROVE Agreed'
  BY <1>6 DEF RestartMark, MarkCell
<1>7. ASSUME NEW t \in Threads, RestartArm(t) PROVE Agreed'
  BY <1>7 DEF RestartArm, NewCell
<1>8. ASSUME NEW t \in Threads, DeleteFree(t) PROVE Agreed'
  BY <1>8 DEF DeleteFree, MarkCell
<1>9. ASSUME NEW t \in Threads, Unlock(t) PROVE Agreed'
  BY <1>9 DEF Unlock
<1>10. ASSUME NEW t \in Threads, Push(t) PROVE Agreed'
  BY <1>10 DEF Push, Pushed
<1>11. ASSUME NEW t \in Threads, TriggerCallback(t) \/ SetTrigger(t) \/ QueueUnlock(t) \/
      QueueLock(t) \/ Lock(t) \/ Signal(t) PROVE Agreed'
  BY <1>11 DEF TriggerCallback, SetTrigger, QueueUnlock, QueueLock, Lock, Signal, CondSignal,
         Waiting, WakeLabel
<1>12. ASSUME NEW t \in Threads, BadHandle(t) \/ NoHandleLeft(t) \/ NoMemory(t) \/ BadPush(t) PROVE Agreed'
  BY <1>12 DEF BadHandle, NoHandleLeft, NoMemory, BadPush
<1>13. CASE SvcStart \/ SvcLock \/ SvcTest \/ SvcExit \/ SvcRelease \/ SvcWait \/ SvcRewait \/
      SvcUnpark \/ SvcAwake \/ SvcReturn \/ SvcTimeout \/ SpuriousWakeup \/ SvcCancelled
  BY <1>13 DEF SvcStart, SvcLock, SvcTest, SvcExit, SvcRelease, SvcWait, SvcRewait, SvcUnpark,
         SvcAwake, SvcReturn, SvcTimeout, SpuriousWakeup, SvcCancelled, Waiting, WakeLabel
<1>14. CASE SvcTop
  BY <1>14 DEF SvcTop
<1>15. CASE SvcDrop
  BY <1>15 DEF SvcDrop
<1>16. CASE SvcPop
  BY <1>16 DEF SvcPop
<1>17. CASE SvcSleep
  BY <1>17 DEF SvcSleep
<1>18. CASE SvcExpire
  BY <1>18 DEF SvcExpire
<1>19. CASE SvcSettle
  BY <1>19 DEF SvcSettle
<1>20. CASE SvcCall
  BY <1>20 DEF SvcCall
<1>21. CASE EmptyTop \/ NotActive \/ Collide \/ UseAfterDestroy
  BY <1>21 DEF EmptyTop, NotActive, Collide, UseAfterDestroy
<1>22. CASE DtorStop \/ DtorTrigger \/ DtorSignal \/ DtorPoll \/ DtorDestroy
  BY <1>22 DEF DtorStop, DtorTrigger, DtorSignal, DtorPoll, DtorDestroy, CondSignal, Waiting, WakeLabel
<1>23. CASE UNCHANGED vars
  BY <1>23 DEF vars
<1>. QED
  BY <1>1, <1>2, <1>3, <1>4, <1>5, <1>6, <1>7, <1>8, <1>9, <1>10, <1>11,
     <1>12, <1>13, <1>14, <1>15, <1>16, <1>17, <1>18, <1>19, <1>20, <1>21, <1>22, <1>23
  DEF Next, ApiStep, SvcStep, DtorStep

\* A step leaves a slot that is being changed as its call expects it.
LEMMA MidwayStep == ASSUME FALSE \notin AutoResets, AutoInv, [Next]_vars PROVE Midway'
<1>. USE DEF AutoInv, Control, TypeOK, CallLocals, SvcLocals, ListLock, SvcCells, Pointed, Agreed, Midway,
        Counted, WillQueue, Carries, Changing, Refilling, Ops, Creates
<1>1. ASSUME NEW t \in Threads, Call(t) PROVE Midway'
  BY <1>1 DEF Call, MayCall, Opening, Uses
<1>2. ASSUME NEW t \in Threads, NewHandle(t) PROVE Midway'
  BY <1>2 DEF NewHandle
<1>3. ASSUME NEW t \in Threads, Fill(t) PROVE Midway'
  <2>1. autoReset' = autoReset \cup {arg[t]}
    BY <1>3, FillResets
  <2>2. \A u \in Threads : pc'[u] \notin {"fill", "mark", "arm"}
    BY <1>3 DEF Fill
  <2>3. valid' \subseteq autoReset'
    BY <1>3, <2>1 DEF Fill
  <2>. QED
    BY <2>2, <2>3
<1>4. ASSUME NEW t \in Threads, StopSuspend(t) PROVE Midway'
  BY <1>4 DEF StopSuspend
<1>5. ASSUME NEW t \in Threads, StopMark(t) PROVE Midway'
  BY <1>5 DEF StopMark, MarkCell
<1>6. ASSUME NEW t \in Threads, RestartMark(t) PROVE Midway'
  BY <1>6 DEF RestartMark, MarkCell
<1>7. ASSUME NEW t \in Threads, RestartArm(t) PROVE Midway'
  BY <1>7 DEF RestartArm, NewCell
<1>8. ASSUME NEW t \in Threads, DeleteFree(t) PROVE Midway'
  BY <1>8 DEF DeleteFree, MarkCell
<1>9. ASSUME NEW t \in Threads, Unlock(t) PROVE Midway'
  BY <1>9 DEF Unlock
<1>10. ASSUME NEW t \in Threads, Push(t) PROVE Midway'
  BY <1>10 DEF Push, Pushed
<1>11. ASSUME NEW t \in Threads, TriggerCallback(t) \/ SetTrigger(t) \/ QueueUnlock(t) \/
      QueueLock(t) \/ Lock(t) \/ Signal(t) PROVE Midway'
  BY <1>11 DEF TriggerCallback, SetTrigger, QueueUnlock, QueueLock, Lock, Signal, CondSignal,
         Waiting, WakeLabel
<1>12. ASSUME NEW t \in Threads, BadHandle(t) \/ NoHandleLeft(t) \/ NoMemory(t) \/ BadPush(t) PROVE Midway'
  BY <1>12 DEF BadHandle, NoHandleLeft, NoMemory, BadPush
<1>13. CASE SvcStart \/ SvcLock \/ SvcTest \/ SvcExit \/ SvcRelease \/ SvcWait \/ SvcRewait \/
      SvcUnpark \/ SvcAwake \/ SvcReturn \/ SvcTimeout \/ SpuriousWakeup \/ SvcCancelled
  BY <1>13 DEF SvcStart, SvcLock, SvcTest, SvcExit, SvcRelease, SvcWait, SvcRewait, SvcUnpark,
         SvcAwake, SvcReturn, SvcTimeout, SpuriousWakeup, SvcCancelled, Waiting, WakeLabel
<1>14. CASE SvcTop
  BY <1>14 DEF SvcTop
<1>15. CASE SvcDrop
  BY <1>15 DEF SvcDrop
<1>16. CASE SvcPop
  BY <1>16 DEF SvcPop
<1>17. CASE SvcSleep
  BY <1>17 DEF SvcSleep
<1>18. CASE SvcExpire
  BY <1>18 DEF SvcExpire
<1>19. CASE SvcSettle
  BY <1>19 DEF SvcSettle
<1>20. CASE SvcCall
  BY <1>20 DEF SvcCall
<1>21. CASE EmptyTop \/ NotActive \/ Collide \/ UseAfterDestroy
  BY <1>21 DEF EmptyTop, NotActive, Collide, UseAfterDestroy
<1>22. CASE DtorStop \/ DtorTrigger \/ DtorSignal \/ DtorPoll \/ DtorDestroy
  BY <1>22 DEF DtorStop, DtorTrigger, DtorSignal, DtorPoll, DtorDestroy, CondSignal, Waiting, WakeLabel
<1>23. CASE UNCHANGED vars
  BY <1>23 DEF vars
<1>. QED
  BY <1>1, <1>2, <1>3, <1>4, <1>5, <1>6, <1>7, <1>8, <1>9, <1>10, <1>11,
     <1>12, <1>13, <1>14, <1>15, <1>16, <1>17, <1>18, <1>19, <1>20, <1>21, <1>22, <1>23
  DEF Next, ApiStep, SvcStep, DtorStep

\* A step calls a timer that was stopped at most once.
LEMMA CountedStep == ASSUME FALSE \notin AutoResets, AutoInv, [Next]_vars PROVE Counted'
<1>. USE DEF AutoInv, Control, TypeOK, CallLocals, SvcLocals, ListLock, SvcCells, Pointed, Agreed, Midway,
        Counted, WillQueue, Carries, Changing, Refilling, Ops, Creates
<1>1. ASSUME NEW t \in Threads, Call(t) PROVE Counted'
  BY <1>1 DEF Call, MayCall, Opening, Uses
<1>2. ASSUME NEW t \in Threads, NewHandle(t) PROVE Counted'
  BY <1>2 DEF NewHandle
<1>3. ASSUME NEW t \in Threads, Fill(t) PROVE Counted'
  BY <1>3 DEF Fill, NewCell
<1>4. ASSUME NEW t \in Threads, StopSuspend(t) PROVE Counted'
  BY <1>4 DEF StopSuspend
<1>5. ASSUME NEW t \in Threads, StopMark(t) PROVE Counted'
  BY <1>5 DEF StopMark, MarkCell
<1>6. ASSUME NEW t \in Threads, RestartMark(t) PROVE Counted'
  BY <1>6 DEF RestartMark, MarkCell
<1>7. ASSUME NEW t \in Threads, RestartArm(t) PROVE Counted'
  BY <1>7 DEF RestartArm, NewCell
<1>8. ASSUME NEW t \in Threads, DeleteFree(t) PROVE Counted'
  BY <1>8 DEF DeleteFree, MarkCell
<1>9. ASSUME NEW t \in Threads, Unlock(t) PROVE Counted'
  BY <1>9 DEF Unlock
<1>10. ASSUME NEW t \in Threads, Push(t) PROVE Counted'
  BY <1>10 DEF Push, Pushed
<1>11. ASSUME NEW t \in Threads, TriggerCallback(t) \/ SetTrigger(t) \/ QueueUnlock(t) \/
      QueueLock(t) \/ Lock(t) \/ Signal(t) PROVE Counted'
  BY <1>11 DEF TriggerCallback, SetTrigger, QueueUnlock, QueueLock, Lock, Signal, CondSignal,
         Waiting, WakeLabel
<1>12. ASSUME NEW t \in Threads, BadHandle(t) \/ NoHandleLeft(t) \/ NoMemory(t) \/ BadPush(t) PROVE Counted'
  BY <1>12 DEF BadHandle, NoHandleLeft, NoMemory, BadPush
<1>13. CASE SvcStart \/ SvcLock \/ SvcTest \/ SvcExit \/ SvcRelease \/ SvcWait \/ SvcRewait \/
      SvcUnpark \/ SvcAwake \/ SvcReturn \/ SvcTimeout \/ SpuriousWakeup \/ SvcCancelled
  BY <1>13 DEF SvcStart, SvcLock, SvcTest, SvcExit, SvcRelease, SvcWait, SvcRewait, SvcUnpark,
         SvcAwake, SvcReturn, SvcTimeout, SpuriousWakeup, SvcCancelled, Waiting, WakeLabel
<1>14. CASE SvcTop
  BY <1>14 DEF SvcTop
<1>15. CASE SvcDrop
  BY <1>15 DEF SvcDrop
<1>16. CASE SvcPop
  BY <1>16 DEF SvcPop
<1>17. CASE SvcSleep
  BY <1>17 DEF SvcSleep
<1>18. CASE SvcExpire
  BY <1>18 DEF SvcExpire
<1>19. CASE SvcSettle
  BY <1>19 DEF SvcSettle
<1>20. CASE SvcCall
  BY <1>20 DEF SvcCall
<1>21. CASE EmptyTop \/ NotActive \/ Collide \/ UseAfterDestroy
  BY <1>21 DEF EmptyTop, NotActive, Collide, UseAfterDestroy
<1>22. CASE DtorStop \/ DtorTrigger \/ DtorSignal \/ DtorPoll \/ DtorDestroy
  BY <1>22 DEF DtorStop, DtorTrigger, DtorSignal, DtorPoll, DtorDestroy, CondSignal, Waiting, WakeLabel
<1>23. CASE UNCHANGED vars
  BY <1>23 DEF vars
<1>. QED
  BY <1>1, <1>2, <1>3, <1>4, <1>5, <1>6, <1>7, <1>8, <1>9, <1>10, <1>11,
     <1>12, <1>13, <1>14, <1>15, <1>16, <1>17, <1>18, <1>19, <1>20, <1>21, <1>22, <1>23
  DEF Next, ApiStep, SvcStep, DtorStep


LEMMA AutoInit == ASSUME Init PROVE AutoInv
<1>1. Control
  BY ControlInit
<1>2. SvcCells /\ Pointed /\ Agreed /\ Midway
  BY DEF Init, SvcCells, Pointed, Agreed, Midway
<1>3. Counted
  <2>1. \A h \in Handles : late[h] = 0
    BY DEF Init
  <2>. QED
    BY <2>1 DEF Init, Counted
<1>. QED
  BY <1>1, <1>2, <1>3 DEF AutoInv

LEMMA AutoStep == ASSUME FALSE \notin AutoResets, AutoInv, [Next]_vars PROVE AutoInv'
<1>1. Control'
  BY TypeStep, ListLockStep, CallLocalsStep, SvcLocalsStep DEF AutoInv, Control
<1>. QED
  BY <1>1, SvcCellsStep, PointedStep, AgreedStep, MidwayStep, CountedStep DEF AutoInv

\* With auto-reset timers only, cells, slots and calls agree in every state.
THEOREM AutoCorrect == ASSUME FALSE \notin AutoResets PROVE Spec => []AutoInv
<1>1. Init => AutoInv
  BY AutoInit
<1>2. AutoInv /\ [Next]_vars => AutoInv'
  BY AutoStep
<1>. QED
  BY <1>1, <1>2, PTL DEF Spec

\* With auto-reset timers only, an active timer has exactly one pending cell
\* and a suspended one has none, however callers race their deletes.
THEOREM OneCellPerTimer == ASSUME FALSE \notin AutoResets PROVE Spec => []OneLiveCell
<1>1. AutoInv => OneLiveCell
  <2>1. SUFFICES ASSUME AutoInv, NEW h \in valid, ~Changing(h)
        PROVE Cardinality({c \in Pending : points[c] = h}) = IF h \in active THEN 1 ELSE 0
    BY DEF OneLiveCell
  <2>2. Pending \subseteq Cells /\ h # NULL
    BY <2>1 DEF AutoInv, Control, TypeOK, SvcLocals, Pending
  <2>3. \A c \in Pending : points[c] = h => heap[h] = c
    BY <2>1, <2>2 DEF AutoInv, Pointed
  <2>4. CASE h \in active
    <3>1. heap[h] \in Pending /\ points[heap[h]] = h
      BY <2>1, <2>4 DEF AutoInv, Agreed, WillQueue, Pending
    <3>2. {c \in Pending : points[c] = h} = {heap[h]}
      BY <2>3, <3>1
    <3>. QED
      BY <3>2, <2>4, FS_Singleton
  <2>5. CASE h \notin active
    <3>1. heap[h] = NULL
      BY <2>1, <2>5 DEF AutoInv, Agreed
    <3>2. {c \in Pending : points[c] = h} = {}
      BY <2>2, <2>3, <3>1
    <3>. QED
      BY <3>2, <2>5, FS_EmptySet
  <2>. QED
    BY <2>4, <2>5
<1>. QED
  BY <1>1, AutoCorrect, PTL

\* With auto-reset timers only, a timer that was stopped or deleted is called
\* back at most once more: the service thread had chosen it before.
THEOREM OneLateCall == ASSUME FALSE \notin AutoResets PROVE Spec => []AtMostOneLateCall
<1>1. AutoInv => AtMostOneLateCall
  BY DEF AutoInv, Counted, AtMostOneLateCall
<1>. QED
  BY <1>1, AutoCorrect, PTL
=============================================================================
