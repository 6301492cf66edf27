-------------------------- MODULE TcpServer_proofs --------------------------
(***************************************************************************)
(* The safety of CTcpServer for any number of threads, descriptors and     *)
(* connections: while it serves, while the application closes nothing, and *)
(* from its constructor to its destructor.                                 *)
(*                                                                         *)
(* IInv is the inductive invariant: the mutex is held by the call that     *)
(* closes, the lists of the server thread hold listed handles in the steps *)
(* that use them, and a descriptor accept has just returned is either new  *)
(* to the list or that of an entry marked closed.                          *)
(***************************************************************************)
EXTENDS TcpServerLife, TLAPS

\* What the locals of the server thread and of a call are at each step.
Locals ==
    /\ srvPc \in {"erase", "recv", "ask", "insert"} => cur \in Handles
    /\ \A t \in Threads : pc[t] \in {"find", "send", "lock", "close", "mark"} =>
           arg[t] \in Handles
    /\ \A t \in Threads : pc[t] \in {"close", "mark"} => arg[t] \in todo[t]

\* What is on close_list and data_list at each step of the server thread.
Lists ==
    /\ srvPc \in {"select", "blocked", "walk"} => \A h \in Handles : closeList[h] = 0
    /\ srvPc \notin {"data", "recv", "callback", "done"} => dataList = {}
    /\ srvPc \in {"data", "recv", "callback"} => \A h \in dataList : closeList[h] <= 2
    /\ srvPc = "recv" => cur \in clients \ dataList /\ closeList[cur] <= 2

\* A descriptor returned by accept that is on the list is on it as closed, or
\* the call that closed it is about to mark it.
AboutToMark(h) == \E t \in Threads : At(t, "mark") /\ arg[t] = h
NewSocket ==
    srvPc \in {"ask", "insert"} =>
        IF cur \in clients THEN cur \in closed \/ AboutToMark(cur) ELSE IsOpen(cur)

IInv == /\ TypeOK /\ Locals /\ Lists /\ CondemnedAreListed
        /\ MutexHeld /\ IteratorsValid /\ NewSocket /\ ListedIsOpen

-----------------------------------------------------------------------------
USE ServerAssumption DEF Threads, system, peers, list, server, sets, lists, calls, SrvAt,
        SrvGoto, At, Goto, Return, IsOpen, ServerAssumption

\* A step keeps every variable in its type.
LEMMA TypeStep == ASSUME IInv, [Next]_vars PROVE TypeOK'
<1>. USE DEF IInv, TypeOK, Locals, Lists, SrvLabels, ApiLabels
<1>1. CASE Peer
  BY <1>1 DEF Peer, Connect, PeerSend, PeerEnd, PeerStalls, PeerReads
<1>2. CASE BuildSelectList
  <2>1. readListen' \in BOOLEAN
    BY <1>2, Zenon DEF BuildSelectList
  <2>. QED
    BY <1>2, <2>1 DEF BuildSelectList, AfterBuild, ToClose
<1>3. CASE Drop
  BY <1>3 DEF Drop, ToClose
<1>4. CASE Erase
  BY <1>4 DEF Erase, ListIsFree, ToClose
<1>5. CASE Select
  BY <1>5 DEF Select
<1>6. CASE SelectReturns
  <2>1. readListen' \in BOOLEAN
    BY <1>6, Zenon DEF SelectReturns
  <2>. QED
    BY <1>6, <2>1 DEF SelectReturns, Ready
<1>7. CASE Walk
  BY <1>7 DEF Walk, ToRead, Condemns, Times
<1>8. CASE NextData
  BY <1>8 DEF NextData
<1>9. CASE RecvData
  BY <1>9 DEF RecvData
<1>10. CASE RecvEnd
  BY <1>10 DEF RecvEnd, CloseEnded, CloseLater
<1>11. CASE RecvError
  BY <1>11 DEF RecvError, CloseLater, Broken
<1>12. CASE CallbackReturns
  BY <1>12 DEF CallbackReturns
<1>13. CASE DataDone
  BY <1>13 DEF DataDone
<1>14. CASE NoAccept
  BY <1>14 DEF NoAccept
<1>15. CASE Accept
  BY <1>15 DEF Accept, FreeHandles
<1>16. CASE Ask
  BY <1>16 DEF Ask
<1>17. CASE Insert
  BY <1>17 DEF Insert
<1>18. ASSUME NEW t \in Threads, Call(t) PROVE TypeOK'
  BY <1>18 DEF Call, MayCall
<1>19. ASSUME NEW t \in Threads, CallAll(t) PROVE TypeOK'
  BY <1>19 DEF CallAll, MayCall
<1>20. ASSUME NEW t \in Threads, Find(t) PROVE TypeOK'
  BY <1>20 DEF Find
<1>21. ASSUME NEW t \in Threads, Send(t) PROVE TypeOK'
  BY <1>21 DEF Send
<1>22. ASSUME NEW t \in Threads, Lock(t) PROVE TypeOK'
  BY <1>22 DEF Lock
<1>23. ASSUME NEW t \in Threads, Shutdown(t) PROVE TypeOK'
  BY <1>23 DEF Shutdown
<1>24. ASSUME NEW t \in Threads, Close(t) PROVE TypeOK'
  BY <1>24 DEF Close
<1>25. ASSUME NEW t \in Threads, Mark(t) PROVE TypeOK'
  BY <1>25 DEF Mark, MarkClosed, Release
<1>26. CASE UNCHANGED vars
  BY <1>26 DEF vars
<1>. QED
  BY <1>1, <1>2, <1>3, <1>4, <1>5, <1>6, <1>7, <1>8, <1>9, <1>10, <1>11,
     <1>12, <1>13, <1>14, <1>15, <1>16, <1>17, <1>18, <1>19, <1>20,
     <1>21, <1>22, <1>23, <1>24, <1>25, <1>26 DEF Next, SrvStep, ApiStep

\* A step leaves the locals of each thread set where they are used next.
LEMMA LocalsStep == ASSUME IInv, [Next]_vars PROVE Locals'
<1>. USE DEF IInv, TypeOK, Locals, Lists
<1>1. CASE Peer
  BY <1>1 DEF Peer, Connect, PeerSend, PeerEnd, PeerStalls, PeerReads
<1>2. CASE BuildSelectList
  BY <1>2 DEF BuildSelectList, AfterBuild
<1>3. CASE Drop
  BY <1>3 DEF Drop, ToClose
<1>4. CASE Erase
  BY <1>4 DEF Erase
<1>5. CASE Select
  BY <1>5 DEF Select
<1>6. CASE SelectReturns
  BY <1>6 DEF SelectReturns
<1>7. CASE Walk
  BY <1>7 DEF Walk
<1>8. CASE NextData
  BY <1>8 DEF NextData
<1>9. CASE RecvData
  BY <1>9 DEF RecvData
<1>10. CASE RecvEnd
  BY <1>10 DEF RecvEnd
<1>11. CASE RecvError
  BY <1>11 DEF RecvError
<1>12. CASE CallbackReturns
  BY <1>12 DEF CallbackReturns
<1>13. CASE DataDone
  BY <1>13 DEF DataDone
<1>14. CASE NoAccept
  BY <1>14 DEF NoAccept
<1>15. CASE Accept
  BY <1>15 DEF Accept, FreeHandles
<1>16. CASE Ask
  BY <1>16 DEF Ask
<1>17. CASE Insert
  BY <1>17 DEF Insert
<1>18. ASSUME NEW t \in Threads, Call(t) PROVE Locals'
  BY <1>18 DEF Call
<1>19. ASSUME NEW t \in Threads, CallAll(t) PROVE Locals'
  BY <1>19 DEF CallAll
<1>20. ASSUME NEW t \in Threads, Find(t) PROVE Locals'
  BY <1>20 DEF Find
<1>21. ASSUME NEW t \in Threads, Send(t) PROVE Locals'
  BY <1>21 DEF Send
<1>22. ASSUME NEW t \in Threads, Lock(t) PROVE Locals'
  BY <1>22 DEF Lock
<1>23. ASSUME NEW t \in Threads, Shutdown(t) PROVE Locals'
  BY <1>23 DEF Shutdown
<1>24. ASSUME NEW t \in Threads, Close(t) PROVE Locals'
  BY <1>24 DEF Close
<1>25. ASSUME NEW t \in Threads, Mark(t) PROVE Locals'
  BY <1>25 DEF Mark, MarkClosed, Release
<1>26. CASE UNCHANGED vars
  BY <1>26 DEF vars
<1>. QED
  BY <1>1, <1>2, <1>3, <1>4, <1>5, <1>6, <1>7, <1>8, <1>9, <1>10, <1>11,
     <1>12, <1>13, <1>14, <1>15, <1>16, <1>17, <1>18, <1>19, <1>20,
     <1>21, <1>22, <1>23, <1>24, <1>25, <1>26 DEF Next, SrvStep, ApiStep

\* A step leaves on close_list and data_list only what the next one may find there,
\* and only listed handles.
LEMMA ListsStep == ASSUME IInv, [Next]_vars PROVE Lists' /\ CondemnedAreListed'
<1>. USE DEF IInv, TypeOK, Locals, Lists, CondemnedAreListed, ToClose
<1>1. CASE Peer
  BY <1>1 DEF Peer, Connect, PeerSend, PeerEnd, PeerStalls, PeerReads
<1>2. CASE BuildSelectList
  BY <1>2 DEF BuildSelectList, AfterBuild
<1>3. CASE Drop
  BY <1>3 DEF Drop
<1>4. CASE Erase
  BY <1>4 DEF Erase, ListIsFree
<1>5. CASE Select
  BY <1>5 DEF Select
<1>6. CASE SelectReturns
  BY <1>6 DEF SelectReturns
<1>7. CASE Walk
  <2>1. \A h \in Handles : Condemns(h) \in 0 .. 2 /\ (Condemns(h) > 0 => h \in clients)
    BY DEF Condemns, Times, IteratorsValid
  <2>2. /\ dataList' \subseteq clients /\ clients' = clients /\ srvPc' = "data"
        /\ closeList' = [h \in Handles |-> Condemns(h)]
    BY <1>7, <2>1 DEF Walk, ToRead
  <2>. QED
    BY <2>1, <2>2
<1>8. CASE NextData
  BY <1>8 DEF NextData
<1>9. CASE RecvData
  BY <1>9 DEF RecvData
<1>10. CASE RecvEnd
  BY <1>10 DEF RecvEnd, CloseEnded, CloseLater
<1>11. CASE RecvError
  BY <1>11 DEF RecvError, CloseLater, Broken
<1>12. CASE CallbackReturns
  BY <1>12 DEF CallbackReturns
<1>13. CASE DataDone
  BY <1>13 DEF DataDone
<1>14. CASE NoAccept
  BY <1>14 DEF NoAccept
<1>15. CASE Accept
  BY <1>15 DEF Accept
<1>16. CASE Ask
  BY <1>16 DEF Ask
<1>17. CASE Insert
  BY <1>17 DEF Insert
<1>18. ASSUME NEW t \in Threads, Call(t) PROVE Lists' /\ CondemnedAreListed'
  BY <1>18 DEF Call
<1>19. ASSUME NEW t \in Threads, CallAll(t) PROVE Lists' /\
      CondemnedAreListed'
  BY <1>19 DEF CallAll
<1>20. ASSUME NEW t \in Threads, Find(t) PROVE Lists' /\ CondemnedAreListed'
  BY <1>20 DEF Find
<1>21. ASSUME NEW t \in Threads, Send(t) PROVE Lists' /\ CondemnedAreListed'
  BY <1>21 DEF Send
<1>22. ASSUME NEW t \in Threads, Lock(t) PROVE Lists' /\ CondemnedAreListed'
  BY <1>22 DEF Lock
<1>23. ASSUME NEW t \in Threads, Shutdown(t) PROVE Lists' /\
      CondemnedAreListed'
  BY <1>23 DEF Shutdown
<1>24. ASSUME NEW t \in Threads, Close(t) PROVE Lists' /\ CondemnedAreListed'
  BY <1>24 DEF Close
<1>25. ASSUME NEW t \in Threads, Mark(t) PROVE Lists' /\ CondemnedAreListed'
  BY <1>25 DEF Mark, MarkClosed, Release
<1>26. CASE UNCHANGED vars
  BY <1>26 DEF vars
<1>. QED
  BY <1>1, <1>2, <1>3, <1>4, <1>5, <1>6, <1>7, <1>8, <1>9, <1>10, <1>11,
     <1>12, <1>13, <1>14, <1>15, <1>16, <1>17, <1>18, <1>19, <1>20,
     <1>21, <1>22, <1>23, <1>24, <1>25, <1>26 DEF Next, SrvStep, ApiStep

\* A step keeps the mutex with the call that closes, and its entries listed.
LEMMA MutexStep == ASSUME IInv, [Next]_vars PROVE MutexHeld' /\ IteratorsValid'
<1>. USE DEF IInv, TypeOK, Locals, MutexHeld, Closing, IteratorsValid
<1>1. CASE Peer
  BY <1>1 DEF Peer, Connect, PeerSend, PeerEnd, PeerStalls, PeerReads
<1>2. CASE BuildSelectList
  BY <1>2 DEF BuildSelectList
<1>3. CASE Drop
  BY <1>3 DEF Drop
<1>4. CASE Erase
  BY <1>4 DEF Erase, ListIsFree
<1>5. CASE Select
  BY <1>5 DEF Select
<1>6. CASE SelectReturns
  BY <1>6 DEF SelectReturns
<1>7. CASE Walk
  BY <1>7 DEF Walk
<1>8. CASE NextData
  BY <1>8 DEF NextData
<1>9. CASE RecvData
  BY <1>9 DEF RecvData
<1>10. CASE RecvEnd
  BY <1>10 DEF RecvEnd
<1>11. CASE RecvError
  BY <1>11 DEF RecvError
<1>12. CASE CallbackReturns
  BY <1>12 DEF CallbackReturns
<1>13. CASE DataDone
  BY <1>13 DEF DataDone
<1>14. CASE NoAccept
  BY <1>14 DEF NoAccept
<1>15. CASE Accept
  BY <1>15 DEF Accept
<1>16. CASE Ask
  BY <1>16 DEF Ask
<1>17. CASE Insert
  BY <1>17 DEF Insert
<1>18. ASSUME NEW t \in Threads, Call(t) PROVE MutexHeld' /\ IteratorsValid'
  BY <1>18 DEF Call, MayCall
<1>19. ASSUME NEW t \in Threads, CallAll(t) PROVE MutexHeld' /\
      IteratorsValid'
  BY <1>19 DEF CallAll, MayCall
<1>20. ASSUME NEW t \in Threads, Find(t) PROVE MutexHeld' /\ IteratorsValid'
  BY <1>20 DEF Find
<1>21. ASSUME NEW t \in Threads, Send(t) PROVE MutexHeld' /\ IteratorsValid'
  BY <1>21 DEF Send
<1>22. ASSUME NEW t \in Threads, Lock(t) PROVE MutexHeld' /\ IteratorsValid'
  BY <1>22 DEF Lock
<1>23. ASSUME NEW t \in Threads, Shutdown(t) PROVE MutexHeld' /\
      IteratorsValid'
  BY <1>23 DEF Shutdown
<1>24. ASSUME NEW t \in Threads, Close(t) PROVE MutexHeld' /\ IteratorsValid'
  BY <1>24 DEF Close
<1>25. ASSUME NEW t \in Threads, Mark(t) PROVE MutexHeld' /\ IteratorsValid'
  BY <1>25 DEF Mark, MarkClosed, Release
<1>26. CASE UNCHANGED vars
  BY <1>26 DEF vars
<1>. QED
  BY <1>1, <1>2, <1>3, <1>4, <1>5, <1>6, <1>7, <1>8, <1>9, <1>10, <1>11,
     <1>12, <1>13, <1>14, <1>15, <1>16, <1>17, <1>18, <1>19, <1>20,
     <1>21, <1>22, <1>23, <1>24, <1>25, <1>26 DEF Next, SrvStep, ApiStep

\* A step keeps the descriptors of the listed entries open, new ones included.
LEMMA SocketStep == ASSUME IInv, [Next]_vars PROVE NewSocket' /\ ListedIsOpen'
<1>. USE DEF IInv, TypeOK, Locals, MutexHeld, Closing, IteratorsValid, NewSocket,
        AboutToMark, ListedIsOpen
<1>1. CASE Peer
  BY <1>1 DEF Peer, Connect, PeerSend, PeerEnd, PeerStalls, PeerReads
<1>2. CASE BuildSelectList
  BY <1>2 DEF BuildSelectList, AfterBuild
<1>3. CASE Drop
  BY <1>3 DEF Drop
<1>4. CASE Erase
  BY <1>4 DEF Erase, ListIsFree
<1>5. CASE Select
  BY <1>5 DEF Select
<1>6. CASE SelectReturns
  BY <1>6 DEF SelectReturns
<1>7. CASE Walk
  BY <1>7 DEF Walk
<1>8. CASE NextData
  BY <1>8 DEF NextData
<1>9. CASE RecvData
  BY <1>9 DEF RecvData
<1>10. CASE RecvEnd
  BY <1>10 DEF RecvEnd
<1>11. CASE RecvError
  BY <1>11 DEF RecvError
<1>12. CASE CallbackReturns
  BY <1>12 DEF CallbackReturns
<1>13. CASE DataDone
  BY <1>13 DEF DataDone
<1>14. CASE NoAccept
  BY <1>14 DEF NoAccept
<1>15. CASE Accept
  BY <1>15 DEF Accept, FreeHandles
<1>16. CASE Ask
  BY <1>16 DEF Ask
<1>17. CASE Insert
  BY <1>17 DEF Insert
<1>18. ASSUME NEW t \in Threads, Call(t) PROVE NewSocket' /\ ListedIsOpen'
  BY <1>18 DEF Call, MayCall
<1>19. ASSUME NEW t \in Threads, CallAll(t) PROVE NewSocket' /\ ListedIsOpen'
  BY <1>19 DEF CallAll, MayCall
<1>20. ASSUME NEW t \in Threads, Find(t) PROVE NewSocket' /\ ListedIsOpen'
  BY <1>20 DEF Find
<1>21. ASSUME NEW t \in Threads, Send(t) PROVE NewSocket' /\ ListedIsOpen'
  BY <1>21 DEF Send
<1>22. ASSUME NEW t \in Threads, Lock(t) PROVE NewSocket' /\ ListedIsOpen'
  BY <1>22 DEF Lock
<1>23. ASSUME NEW t \in Threads, Shutdown(t) PROVE NewSocket' /\ ListedIsOpen'
  BY <1>23 DEF Shutdown
<1>24. ASSUME NEW t \in Threads, Close(t) PROVE NewSocket' /\ ListedIsOpen'
  BY <1>24 DEF Close
<1>25. ASSUME NEW t \in Threads, Mark(t) PROVE NewSocket' /\ ListedIsOpen'
  BY <1>25 DEF Mark, MarkClosed, Release
<1>26. CASE UNCHANGED vars
  BY <1>26 DEF vars
<1>. QED
  BY <1>1, <1>2, <1>3, <1>4, <1>5, <1>6, <1>7, <1>8, <1>9, <1>10, <1>11,
     <1>12, <1>13, <1>14, <1>15, <1>16, <1>17, <1>18, <1>19, <1>20,
     <1>21, <1>22, <1>23, <1>24, <1>25, <1>26 DEF Next, SrvStep, ApiStep

\* The inductive invariant holds of the initial states.
LEMMA InvInit == Init => IInv
<1>. SUFFICES ASSUME Init PROVE IInv
  OBVIOUS
<1>1. readListen \in BOOLEAN
  BY Zenon DEF Init
<1>2. TypeOK
  BY <1>1 DEF Init, TypeOK, SrvLabels, ApiLabels
<1>3. MutexHeld
  BY DEF Init, MutexHeld, Closing
<1>. QED
  BY <1>2, <1>3 DEF Init, IInv, Locals, Lists, CondemnedAreListed, ToClose, Closing,
                    IteratorsValid, NewSocket, ListedIsOpen

\* No step breaks it.
LEMMA InvStep == ASSUME IInv, [Next]_vars PROVE IInv'
BY TypeStep, LocalsStep, ListsStep, MutexStep, SocketStep DEF IInv

\* The inductive invariant holds of every behaviour.
THEOREM Invariance == Spec => []IInv
<1>1. IInv /\ [Next]_vars => IInv'
  BY InvStep
<1>. QED
  BY InvInit, <1>1, PTL DEF Spec

\* Every variable of the server keeps its type.
THEOREM TypeCorrect == Spec => []TypeOK
<1>1. IInv => TypeOK
  BY DEF IInv
<1>. QED
  BY Invariance, <1>1, PTL

\* The mutex of the client list is held by the call that closes, and by it only.
THEOREM MutexCorrect == Spec => []MutexHeld
<1>1. IInv => MutexHeld
  BY DEF IInv
<1>. QED
  BY Invariance, <1>1, PTL

\* No entry is erased under a loop over the client list.
THEOREM IteratorsStayValid == Spec => []IteratorsValid
<1>1. IInv => IteratorsValid
  BY DEF IInv
<1>. QED
  BY Invariance, <1>1, PTL

\* An entry that is not marked closed is that of an open descriptor.
THEOREM ListedAreOpen == Spec => []ListedIsOpen
<1>1. IInv => ListedIsOpen
  BY DEF IInv
<1>. QED
  BY Invariance, <1>1, PTL

\* The server thread reads and removes the entries it found.
THEOREM CondemnedStayListed == Spec => []CondemnedAreListed
<1>1. IInv => CondemnedAreListed
  BY DEF IInv
<1>. QED
  BY Invariance, <1>1, PTL

(***************************************************************************)
(* While the application closes nothing, with IInv: no entry is marked     *)
(* closed, so what select reports is still there when it is used.          *)
(***************************************************************************)
NobodyCloses ==
    /\ owner = NULL /\ closed = {}
    /\ \A t \in Threads : pc[t] \in {"idle", "find", "send"}

\* A connection is waiting or has one descriptor.
OneDescriptor ==
    /\ fresh \cap backlog = {}
    /\ \A h \in Handles : sock[h] \notin fresh \cup backlog
    /\ \A g, h \in Handles : IsOpen(h) /\ sock[g] = sock[h] => g = h

\* What the server thread selects is open, what it is to read is readable, and
\* what it is to close has been ended by the other side.
ReadsReady ==
    /\ srvPc \in {"drop", "erase", "select", "blocked"} => \A h \in reads : IsOpen(h)
    /\ srvPc = "walk" => errors = {} /\ \A h \in reads : Readable(h)
    /\ \A h \in dataList : Readable(h)
    /\ srvPc = "recv" => Readable(cur)
ToCloseEnded ==
    /\ \A h \in ToClose : IsOpen(h) /\ Ended(sock[h])
    /\ srvPc = "erase" => IsOpen(cur) /\ Ended(sock[cur])

Served == IInv /\ NobodyCloses /\ OneDescriptor /\ ReadsReady /\ ToCloseEnded

\* No step of a call that closes is possible.
LEMMA NoClosing ==
    ASSUME Calls \subseteq {"send"}, Served, NEW t \in Threads
    PROVE ~(CallAll(t) \/ Lock(t) \/ Shutdown(t) \/ Close(t) \/ Mark(t))
BY DEF Served, NobodyCloses, CallAll, Lock, Shutdown, Close, Mark

\* A step of a call changes nothing but the step of that call.
LEMMA OnlySends ==
    ASSUME Calls \subseteq {"send"}, Served, NEW t \in Threads,
           Call(t) \/ CallAll(t) \/ ApiStep(t)
    PROVE /\ UNCHANGED <<system, list, server>>
          /\ \A u \in Threads : pc'[u] \in {"idle", "find", "send"}
<1>1. Call(t) \/ Find(t) \/ Send(t)
  BY NoClosing DEF ApiStep
<1>. QED
  BY <1>1 DEF Served, NobodyCloses, IInv, TypeOK, ApiLabels, Call, Find, Send

\* Nobody begins to close.
LEMMA NobodyClosesStep == ASSUME Calls \subseteq {"send"}, Served, [Next]_vars PROVE NobodyCloses'
<1>. USE DEF Served, IInv, TypeOK, Locals, NobodyCloses, ListIsFree
<1>1. CASE Peer
  BY <1>1 DEF Peer, Connect, PeerSend, PeerEnd, PeerStalls, PeerReads
<1>2. CASE BuildSelectList
  BY <1>2 DEF BuildSelectList, AfterBuild
<1>3. CASE Drop
  BY <1>3 DEF Drop
<1>4. CASE Erase
  BY <1>4 DEF Erase
<1>5. CASE Select
  BY <1>5 DEF Select
<1>6. CASE SelectReturns
  BY <1>6 DEF SelectReturns, Ready
<1>7. CASE Walk
  BY <1>7 DEF Walk, ToRead, Condemns, Times
<1>8. CASE NextData
  BY <1>8 DEF NextData
<1>9. CASE RecvData
  BY <1>9 DEF RecvData
<1>10. CASE RecvEnd
  BY <1>10 DEF RecvEnd, CloseEnded, CloseLater
<1>11. CASE RecvError
  BY <1>11 DEF RecvError, Broken, CloseLater
<1>12. CASE CallbackReturns \/ DataDone \/ NoAccept
  BY <1>12 DEF CallbackReturns, DataDone, NoAccept
<1>13. CASE Accept
  BY <1>13 DEF Accept, FreeHandles
<1>14. CASE Ask
  BY <1>14 DEF Ask
<1>15. CASE Insert
  BY <1>15 DEF Insert
<1>16. ASSUME NEW t \in Threads, Call(t) \/ CallAll(t) \/ ApiStep(t) PROVE NobodyCloses'
  BY <1>16, OnlySends
<1>17. CASE UNCHANGED vars
  BY <1>17 DEF vars
<1>. QED
  BY <1>1, <1>2, <1>3, <1>4, <1>5, <1>6, <1>7, <1>8, <1>9, <1>10,
     <1>11, <1>12, <1>13, <1>14, <1>15, <1>16, <1>17 DEF Next, SrvStep

\* Accept gives a waiting connection a descriptor of its own.
LEMMA OneDescriptorStep == ASSUME Calls \subseteq {"send"}, Served, [Next]_vars PROVE OneDescriptor'
<1>. USE DEF Served, IInv, TypeOK, Locals, NobodyCloses, OneDescriptor
<1>1. CASE Peer
  BY <1>1 DEF Peer, Connect, PeerSend, PeerEnd, PeerStalls, PeerReads
<1>2. CASE BuildSelectList
  BY <1>2 DEF BuildSelectList, AfterBuild
<1>3. CASE Drop
  BY <1>3 DEF Drop
<1>4. CASE Erase
  BY <1>4 DEF Erase
<1>5. CASE Select
  BY <1>5 DEF Select
<1>6. CASE SelectReturns
  BY <1>6 DEF SelectReturns, Ready
<1>7. CASE Walk
  BY <1>7 DEF Walk, ToRead, Condemns, Times
<1>8. CASE NextData
  BY <1>8 DEF NextData
<1>9. CASE RecvData
  BY <1>9 DEF RecvData
<1>10. CASE RecvEnd
  BY <1>10 DEF RecvEnd, CloseEnded, CloseLater
<1>11. CASE RecvError
  BY <1>11 DEF RecvError, Broken, CloseLater
<1>12. CASE CallbackReturns \/ DataDone \/ NoAccept
  BY <1>12 DEF CallbackReturns, DataDone, NoAccept
<1>13. CASE Accept
  BY <1>13 DEF Accept, FreeHandles
<1>14. CASE Ask
  BY <1>14 DEF Ask
<1>15. CASE Insert
  BY <1>15 DEF Insert
<1>16. ASSUME NEW t \in Threads, Call(t) \/ CallAll(t) \/ ApiStep(t) PROVE OneDescriptor'
  BY <1>16, OnlySends
<1>17. CASE UNCHANGED vars
  BY <1>17 DEF vars
<1>. QED
  BY <1>1, <1>2, <1>3, <1>4, <1>5, <1>6, <1>7, <1>8, <1>9, <1>10,
     <1>11, <1>12, <1>13, <1>14, <1>15, <1>16, <1>17 DEF Next, SrvStep

\* What was reported readable stays readable until the server thread reads it.
LEMMA ReadsReadyStep == ASSUME Calls \subseteq {"send"}, Served, [Next]_vars PROVE ReadsReady'
<1>. USE DEF Served, IInv, TypeOK, Locals, NobodyCloses, OneDescriptor, ReadsReady, Lists, Readable, Ended
<1>1. CASE Peer
  BY <1>1 DEF Peer, Connect, PeerSend, PeerEnd, PeerStalls, PeerReads
<1>2. CASE BuildSelectList
  BY <1>2 DEF BuildSelectList, AfterBuild, ListedIsOpen
<1>3. CASE Drop
  BY <1>3 DEF Drop
<1>4. CASE Erase
  BY <1>4 DEF Erase
<1>5. CASE Select
  BY <1>5 DEF Select
<1>6. CASE SelectReturns
  BY <1>6 DEF SelectReturns, Ready
<1>7. CASE Walk
  BY <1>7 DEF Walk, ToRead, Condemns, Times
<1>8. CASE NextData
  BY <1>8 DEF NextData
<1>9. CASE RecvData
  BY <1>9 DEF RecvData
<1>10. CASE RecvEnd
  BY <1>10 DEF RecvEnd, CloseEnded, CloseLater
<1>11. CASE RecvError
  BY <1>11 DEF RecvError, Broken, CloseLater
<1>12. CASE CallbackReturns \/ DataDone \/ NoAccept
  BY <1>12 DEF CallbackReturns, DataDone, NoAccept
<1>13. CASE Accept
  BY <1>13 DEF Accept, FreeHandles
<1>14. CASE Ask
  BY <1>14 DEF Ask
<1>15. CASE Insert
  BY <1>15 DEF Insert
<1>16. ASSUME NEW t \in Threads, Call(t) \/ CallAll(t) \/ ApiStep(t) PROVE ReadsReady'
  BY <1>16, OnlySends
<1>17. CASE UNCHANGED vars
  BY <1>17 DEF vars
<1>. QED
  BY <1>1, <1>2, <1>3, <1>4, <1>5, <1>6, <1>7, <1>8, <1>9, <1>10,
     <1>11, <1>12, <1>13, <1>14, <1>15, <1>16, <1>17 DEF Next, SrvStep

\* Only what the other side has ended is put on close_list.
LEMMA ToCloseEndedStep == ASSUME Calls \subseteq {"send"}, Served, [Next]_vars PROVE ToCloseEnded'
<1>. USE DEF Served, IInv, TypeOK, Locals, NobodyCloses, ReadsReady, ToCloseEnded, ToClose, Ended, Readable
<1>1. CASE Peer
  BY <1>1 DEF Peer, Connect, PeerSend, PeerEnd, PeerStalls, PeerReads
<1>2. CASE BuildSelectList
  BY <1>2 DEF BuildSelectList, AfterBuild
<1>3. CASE Drop
  BY <1>3 DEF Drop
<1>4. CASE Erase
  BY <1>4 DEF Erase
<1>5. CASE Select
  BY <1>5 DEF Select
<1>6. CASE SelectReturns
  BY <1>6 DEF SelectReturns, Ready
<1>7. CASE Walk
  BY <1>7 DEF Walk, ToRead, Condemns, Times
<1>8. CASE NextData
  BY <1>8 DEF NextData
<1>9. CASE RecvData
  BY <1>9 DEF RecvData
<1>10. CASE RecvEnd
  BY <1>10 DEF RecvEnd, CloseEnded, CloseLater
<1>11. CASE RecvError
  BY <1>11 DEF RecvError, Broken, CloseLater
<1>12. CASE CallbackReturns \/ DataDone \/ NoAccept
  BY <1>12 DEF CallbackReturns, DataDone, NoAccept
<1>13. CASE Accept
  BY <1>13 DEF Accept, FreeHandles
<1>14. CASE Ask
  <2>1. ToClose \subseteq clients /\ cur \notin clients
    BY <1>14 DEF Ask, CondemnedAreListed, NewSocket, AboutToMark
  <2>. QED
    BY <1>14, <2>1 DEF Ask
<1>15. CASE Insert
  BY <1>15 DEF Insert
<1>16. ASSUME NEW t \in Threads, Call(t) \/ CallAll(t) \/ ApiStep(t) PROVE ToCloseEnded'
  BY <1>16, OnlySends
<1>17. CASE UNCHANGED vars
  BY <1>17 DEF vars
<1>. QED
  BY <1>1, <1>2, <1>3, <1>4, <1>5, <1>6, <1>7, <1>8, <1>9, <1>10,
     <1>11, <1>12, <1>13, <1>14, <1>15, <1>16, <1>17 DEF Next, SrvStep

\* What Served says holds of every behaviour in which nothing is closed.
THEOREM ServedCorrect == ASSUME Calls \subseteq {"send"} PROVE Spec => []Served
<1>1. Init => Served
  BY InvInit DEF Init, Served, NobodyCloses, OneDescriptor, ReadsReady, ToCloseEnded, ToClose
<1>2. Served /\ [Next]_vars => Served'
  <2>1. SUFFICES ASSUME Served, [Next]_vars PROVE Served'
    OBVIOUS
  <2>2. IInv'
    BY <2>1, InvStep DEF Served
  <2>. QED
    BY <2>1, <2>2, NobodyClosesStep, OneDescriptorStep, ReadsReadyStep, ToCloseEndedStep
       DEF Served
<1>. QED
  BY <1>1, <1>2, PTL DEF Spec

\* While the application closes nothing, recv never blocks the server thread.
THEOREM RecvStaysReady == ASSUME Calls \subseteq {"send"} PROVE Spec => []RecvIsReady
<1>1. Served => RecvIsReady
  BY DEF Served, ReadsReady, RecvIsReady
<1>. QED
  BY ServedCorrect, <1>1, PTL

\* While the application closes nothing, only connections that the other side
\* has ended leave the list.
THEOREM OnlyEndedAreDropped == ASSUME Calls \subseteq {"send"} PROVE Spec => OnlyEndedDropped
<1>1. Served /\ [Next]_vars
        => [\A h \in clients \ clients' : IsOpen(h) => Ended(sock[h])]_vars
  <2>1. SUFFICES ASSUME Served, [Next]_vars, NEW h \in clients \ clients'
        PROVE Ended(sock[h])
    OBVIOUS
  <2>2. Erase
    <3>1. ~Peer /\ ~UNCHANGED vars
      BY <2>1 DEF Peer, Connect, PeerSend, PeerEnd, PeerStalls, PeerReads, vars
    <3>2. ASSUME NEW t \in Threads, Call(t) \/ CallAll(t) \/ ApiStep(t) PROVE FALSE
      BY <2>1, <3>2, OnlySends
    <3>. QED
      BY <2>1, <3>1, <3>2 DEF Next, SrvStep, BuildSelectList, Drop, Select, SelectReturns,
         Walk, NextData, RecvData, RecvEnd, RecvError, CallbackReturns, DataDone, NoAccept,
         Accept, Ask, Insert
  <2>. QED
    BY <2>1, <2>2 DEF Erase, Served, ToCloseEnded
<1>. QED
  BY ServedCorrect, <1>1, PTL DEF Spec, OnlyEndedDropped

(***************************************************************************)
(* The whole life of the server, from its constructor to its destructor.   *)
(* Every step is one of TcpServer, starts or ends the thread, or is of the *)
(* destructor, which finds it ended, or never started and its lists empty. *)
(***************************************************************************)
LifeInv ==
    /\ IInv
    /\ cancelled => started
    /\ ~started => srvPc = "build" /\ ToClose = {} /\ dataList = {}
    /\ life \in {"closing", "destroyed"} => srvPc \in {"build", "done"}
    /\ life \in {"closing", "destroyed"} /\ started => srvPc = "done"

USE DEF vars, Unmoved

\* A step of TcpServer after the thread was started.
LEMMA RunningStep ==
    ASSUME LifeInv, Unmoved, [Next]_vars,
           started, srvPc # "done" \/ srvPc' = "done"
    PROVE  LifeInv'
<1>1. IInv'
  BY InvStep DEF LifeInv
<1> QED  BY <1>1 DEF LifeInv

\* One that does not touch the server thread either.
LEMMA QuietStep ==
    ASSUME LifeInv, Unmoved, [Next]_vars, UNCHANGED <<srvPc, closeList, dataList>>
    PROVE  LifeInv'
<1>1. IInv'
  BY InvStep DEF LifeInv
<1> QED  BY <1>1 DEF LifeInv, ToClose

LEMMA LifeStep == ASSUME LifeInv, [LifeNext]_lifeVars PROVE LifeInv'
<1>1. CASE Construct
  <2>1. IInv'
    BY <1>1, InvStep DEF Construct, LifeInv
  <2> QED  BY <1>1, <2>1 DEF Construct, LifeInv, vars, ToClose
<1>2. CASE StartSeverThread
  <2>1. IInv'
    BY <1>2 DEF StartSeverThread, LifeInv, IInv, TypeOK, SrvLabels, ApiLabels, Locals, Lists,
                CondemnedAreListed, ToClose, MutexHeld, Closing, IteratorsValid, NewSocket,
                AboutToMark, ListedIsOpen
  <2> QED  BY <1>2, <2>1 DEF StartSeverThread, LifeInv
<1>3. CASE CloseListenSocket
  <2>1. IInv'
    BY <1>3 DEF CloseListenSocket, LifeInv, IInv, TypeOK, SrvLabels, ApiLabels, Locals, Lists,
                CondemnedAreListed, ToClose, MutexHeld, Closing, IteratorsValid, NewSocket,
                AboutToMark, ListedIsOpen
  <2> QED  BY <1>3, <2>1 DEF CloseListenSocket, LifeInv, ToClose
<1>4. CASE CloseClients
  <2>1. /\ srvPc \in {"build", "done"} /\ UNCHANGED <<srvPc, closeList, dataList, started>>
        /\ srvPc = "build" => ToClose = {} /\ dataList = {}
        /\ \A t \in Threads : ~Closing(t)
    BY <1>4 DEF CloseClients, LifeInv, IInv, MutexHeld
  <2>2. TypeOK'
    BY <1>4 DEF CloseClients, LifeInv, IInv, TypeOK
  <2>3. Locals' /\ Lists' /\ CondemnedAreListed'
    BY <1>4, <2>1 DEF CloseClients, LifeInv, IInv, Locals, Lists, CondemnedAreListed, ToClose
  <2>4. MutexHeld' /\ IteratorsValid' /\ NewSocket' /\ ListedIsOpen'
    BY <1>4, <2>1 DEF CloseClients, LifeInv, IInv, MutexHeld, Closing, IteratorsValid, NewSocket,
                      ListedIsOpen
  <2> QED  BY <1>4, <2>1, <2>2, <2>3, <2>4 DEF CloseClients, LifeInv, IInv, ToClose
<1>5. CASE LifePeer /\ Unmoved
  <2>1. [Next]_vars
    BY <1>5 DEF LifePeer, Next
  <2>2. UNCHANGED <<srvPc, closeList, dataList>>
    BY <1>5 DEF LifePeer, Peer, Connect, PeerSend, PeerEnd, PeerStalls, PeerReads
  <2> HIDE DEF vars
  <2> QED  BY <1>5, <2>1, <2>2, QuietStep
<1>6. CASE ServerThread /\ Unmoved
  <2>1. CASE SrvStep
    <3>1. srvPc # "done"
      BY <2>1 DEF SrvStep, BuildSelectList, Drop, Erase, Select, SelectReturns, Walk, NextData,
                  RecvData, RecvEnd, RecvError, CallbackReturns, DataDone, NoAccept, Accept, Ask,
                  Insert
    <3>2. started /\ [Next]_vars
      BY <1>6, <2>1 DEF ServerThread, Next
    <3> HIDE DEF vars, Unmoved
    <3> QED  BY <1>6, <3>1, <3>2, RunningStep
  <2>2. CASE Alive(Srv) /\ ApiStep(Srv)
    <3>1. started /\ [Next]_vars /\ srvPc # "done"
      BY <1>6, <2>2 DEF ServerThread, Next, Alive
    <3> HIDE DEF vars, Unmoved
    <3> QED  BY <1>6, <3>1, RunningStep
  <2> QED  BY <1>6, <2>1, <2>2 DEF ServerThread
<1>7. CASE ServerThreadCalls /\ Unmoved
  <2>1. started /\ [Next]_vars /\ srvPc # "done"
    BY <1>7 DEF ServerThreadCalls, Next, Alive
  <2> HIDE DEF vars, Unmoved
  <2> QED  BY <1>7, <2>1, RunningStep
<1>8. CASE StopSeverThread
  <2>1. IInv'
    BY <1>8, InvStep DEF StopSeverThread, LifeInv
  <2> QED  BY <1>8, <2>1 DEF StopSeverThread, LifeInv, ToClose
<1>9. CASE Cancelled
  <2>1. IInv'
    BY <1>9 DEF Cancelled, LifeInv, IInv, TypeOK, SrvLabels, ApiLabels, Locals, Lists,
                CondemnedAreListed, ToClose, MutexHeld, Closing, IteratorsValid, NewSocket,
                AboutToMark, ListedIsOpen
  <2>2. started
    BY <1>9 DEF Cancelled, LifeInv
  <2> QED  BY <1>9, <2>1, <2>2 DEF Cancelled, LifeInv
<1>10. ASSUME NEW t \in Callers, ApiStep(t) \/ CallerCalls(t), Unmoved PROVE LifeInv'
  <2>1. [Next]_vars
    BY <1>10 DEF CallerCalls, Next, Alive
  <2>2. UNCHANGED <<srvPc, closeList, dataList>>
    BY <1>10 DEF CallerCalls, Call, CallAll, ApiStep, Find, Send, Lock, Shutdown, Close, Mark
  <2> HIDE DEF vars
  <2> QED  BY <1>10, <2>1, <2>2, QuietStep
<1>11. CASE UNCHANGED lifeVars
  <2>1. [Next]_vars /\ UNCHANGED <<srvPc, closeList, dataList>>
    BY <1>11 DEF lifeVars
  <2>2. Unmoved
    BY <1>11 DEF lifeVars
  <2> HIDE DEF vars, Unmoved
  <2> QED  BY <2>1, <2>2, QuietStep
<1> QED
  BY <1>1, <1>2, <1>3, <1>4, <1>5, <1>6, <1>7, <1>8, <1>9, <1>10, <1>11
  DEF LifeNext

\* The invariant of the running server holds from its construction on.
THEOREM LifeInvariance == LifeSpec => []LifeInv
<1>1. LifeInit => LifeInv
  BY InvInit DEF LifeInit, LifeInv, Init, ToClose
<1>2. LifeInv /\ [LifeNext]_lifeVars => LifeInv'
  BY LifeStep
<1> QED  BY <1>1, <1>2, PTL DEF LifeSpec

\* Every variable keeps its type.
THEOREM LifeTypeCorrect == LifeSpec => []TypeOK
BY LifeInvariance, PTL DEF LifeInv, IInv

\* The mutex is held by the call that closes, and by it only.
THEOREM LifeMutexCorrect == LifeSpec => []MutexHeld
BY LifeInvariance, PTL DEF LifeInv, IInv

\* No entry is erased under a loop over the client list.
THEOREM LifeIteratorsStayValid == LifeSpec => []IteratorsValid
BY LifeInvariance, PTL DEF LifeInv, IInv

\* An entry that is not marked closed is that of an open descriptor.
THEOREM LifeListedAreOpen == LifeSpec => []ListedIsOpen
BY LifeInvariance, PTL DEF LifeInv, IInv

\* The server thread reads and removes the entries it found.
THEOREM LifeCondemnedStayListed == LifeSpec => []CondemnedAreListed
BY LifeInvariance, PTL DEF LifeInv, IInv
=============================================================================
