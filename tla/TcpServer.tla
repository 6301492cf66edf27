----------------------------- MODULE TcpServer -----------------------------
(***************************************************************************)
(* CTcpServer (tcp_server.cpp): one thread that selects on a listening     *)
(* socket and all client sockets, and the threads of the application,      *)
(* which send to clients and close connections by their handle, the        *)
(* socket's descriptor.  The client list is protected by a mutex; a closed *)
(* connection stays on it, marked bClosed, until the server thread removes *)
(* it.  A descriptor that has been closed may be given out again by accept.*)
(*                                                                         *)
(* The system's sockets are modelled as the code uses them: sock[h] is the *)
(* connection open at descriptor h.  Client sockets are blocking, the      *)
(* listening one is not: a client that stays and does not read holds up    *)
(* whoever sends to it.  The server's lists hold handles; the order in     *)
(* which it takes them is left open.  Connection callbacks make no calls,  *)
(* data callbacks may.  Client peers send no urgent data, so a successful  *)
(* select reports no exceptional condition on an open socket.              *)
(***************************************************************************)
EXTENDS Naturals, FiniteSets

CONSTANTS
    Callers,             \* threads of the application
    Srv,                 \* the server thread
    Handles,             \* socket descriptors
    Conns,               \* connections peers may make
    NULL,
    MaxConnections,      \* MAX_CONNECTIONS (500)
    Calls,               \* the calls of the API in use
    ConnectionCallback,  \* a connection callback is registered
    WideSize             \* size_t is wider than unsigned

AllCalls == {"send", "close", "closeAll"}

ASSUME ServerAssumption ==
    /\ Srv \notin Callers
    /\ NULL \notin Callers \cup {Srv} \cup Handles \cup Conns
    /\ MaxConnections \in Nat /\ Calls \subseteq AllCalls
    /\ ConnectionCallback \in BOOLEAN /\ WideSize \in BOOLEAN

VARIABLES
    sock,        \* the connection open at each descriptor
    fresh,       \* connections not made yet
    backlog,     \* made and waiting to be accepted
    inbox,       \* connections with bytes to read
    full,        \* connections whose other end does not read: no room to send
    peer,        \* whether the other end is open, closed or reset
    shut,        \* connections shut down at this end
    clients,     \* the handles in m_ClientList
    closed,      \* those marked bClosed
    owner,       \* holder of m_ClientListMutex
    srvPc, cur,                 \* start(): step and current handle
    reads, readListen, errors,  \* m_ReadSocks, m_ErrorSocks
    closeList, dataList,        \* close_list (with repetitions), data_list
    pc, arg, todo               \* API calls: step, handle, handles to close

peers  == <<fresh, backlog, inbox, full, peer>>
system == <<sock, peers, shut>>
list   == <<clients, closed, owner>>
sets   == <<reads, readListen, errors>>
lists  == <<closeList, dataList>>
server == <<srvPc, cur, sets, lists>>
calls  == <<pc, arg, todo>>
vars   == <<system, list, server, calls>>

Threads == Callers \cup {Srv}

Init ==
    /\ sock = [h \in Handles |-> NULL]
    /\ fresh = Conns /\ backlog = {} /\ inbox = {} /\ full = {} /\ shut = {}
    /\ peer = [c \in Conns |-> "open"]
    /\ clients = {} /\ closed = {} /\ owner = NULL
    /\ srvPc = "build" /\ cur = NULL
    /\ reads = {} /\ readListen = FALSE /\ errors = {}
    /\ closeList = [h \in Handles |-> 0] /\ dataList = {}
    /\ pc = [t \in Threads |-> "idle"] /\ arg = [t \in Threads |-> NULL]
    /\ todo = [t \in Threads |-> {}]

IsOpen(h) == sock[h] # NULL
Ended(c) == peer[c] # "open" \/ c \in shut
Readable(h) == IsOpen(h) /\ (sock[h] \in inbox \/ Ended(sock[h]))

(***************************************************************************)
(* The other ends                                                          *)
(***************************************************************************)
Connect(c) ==
    /\ c \in fresh
    /\ fresh' = fresh \ {c} /\ backlog' = backlog \cup {c}
    /\ UNCHANGED <<sock, inbox, full, peer, shut, list, server, calls>>

\* What happens to a connection that is closed at this end no longer matters.
Live(c) == c \in backlog \/ \E h \in Handles : sock[h] = c

PeerSend(c) ==
    /\ Live(c) /\ c \notin inbox /\ peer[c] = "open"
    /\ inbox' = inbox \cup {c}
    /\ UNCHANGED <<sock, fresh, backlog, full, peer, shut, list, server, calls>>

PeerEnd(c) ==
    /\ Live(c) /\ peer[c] = "open"
    /\ \E how \in {"closed", "reset"} :
          /\ peer' = [peer EXCEPT ![c] = how]
          /\ inbox' = IF how = "reset" THEN inbox \ {c} ELSE inbox
    /\ full' = full \ {c}
    /\ UNCHANGED <<sock, fresh, backlog, shut, list, server, calls>>

\* The buffers of both ends fill up with what is being sent, and the peer makes
\* room by reading, or does not.
PeerStalls(c) ==
    /\ c \notin full /\ peer[c] = "open"
    /\ \E t \in Threads : pc[t] = "send" /\ arg[t] \in Handles /\ sock[arg[t]] = c
    /\ full' = full \cup {c}
    /\ UNCHANGED <<sock, fresh, backlog, inbox, peer, shut, list, server, calls>>

PeerReads(c) ==
    /\ c \in full /\ peer[c] = "open"
    /\ full' = full \ {c}
    /\ UNCHANGED <<sock, fresh, backlog, inbox, peer, shut, list, server, calls>>

Peer == \E c \in Conns :
    Connect(c) \/ PeerSend(c) \/ PeerEnd(c) \/ PeerStalls(c) \/ PeerReads(c)

(***************************************************************************)
(* The server thread: start()                                              *)
(***************************************************************************)
SrvAt(label) == srvPc = label
SrvGoto(label) == srvPc' = label
ToClose == {h \in Handles : closeList[h] > 0}

ToSelect == "select"  \* mutant: close_list is never served
AfterBuild == IF ToClose = {} THEN "select" ELSE "drop"

BuildSelectList ==
    /\ SrvAt("build") /\ owner = NULL
    /\ reads' = clients /\ errors' = clients /\ readListen' = TRUE
    /\ SrvGoto(AfterBuild)
    /\ UNCHANGED <<system, list, cur, lists, calls>>

\* The callback for a handle on close_list (CloseConnectionCallback)
Drop ==
    /\ SrvAt("drop")
    /\ \E h \in ToClose :
          /\ cur' = h
          /\ closeList' = [closeList EXCEPT ![h] = @ - 1]
    /\ SrvGoto("erase")
    /\ UNCHANGED <<system, list, sets, dataList, calls>>

Unlocked == TRUE  \* mutant: the list is changed without its mutex
ListIsFree == owner = NULL

Erase ==
    /\ SrvAt("erase") /\ ListIsFree
    /\ clients' = clients \ {cur} /\ closed' = closed \ {cur}
    /\ cur' = NULL
    /\ SrvGoto(IF ToClose = {} THEN "select" ELSE "drop")
    /\ UNCHANGED <<system, owner, sets, lists, calls>>

\* select is entered: a closed descriptor makes it fail with EBADF and leave
\* the sets as they are.
Select ==
    /\ SrvAt("select")
    /\ SrvGoto(IF \E h \in reads : ~IsOpen(h) THEN "walk" ELSE "blocked")
    /\ UNCHANGED <<system, list, cur, sets, lists, calls>>

ReadyStale == reads  \* mutant: the set is not what select returned
Ready == {h \in reads : Readable(h)}

\* A descriptor closed while select waits may or may not be reported.
SelectReturns ==
    /\ SrvAt("blocked")
    /\ \E gone \in SUBSET {h \in reads : ~IsOpen(h)} :
          /\ reads' = Ready \cup gone
          /\ errors' \in {{}, gone}
    /\ readListen' = (backlog # {})
    /\ readListen' \/ reads' # {}
    /\ SrvGoto("walk")
    /\ UNCHANGED <<system, list, cur, lists, calls>>

\* The walk over the client list under its mutex
Times(b) == IF b THEN 1 ELSE 0
CondemnsErased(h) == Times(h \in errors) + Times(h \in closed)                 \* mutant
CondemnsReadable(h) == Times(h \in clients \cap reads) + Times(h \in closed)  \* mutant
Condemns(h) == Times(h \in clients \cap errors) + Times(h \in closed)
WrongSet == clients \cap errors  \* mutant
ToRead == clients \cap reads
Walk ==
    /\ SrvAt("walk") /\ owner = NULL
    /\ dataList' = ToRead
    /\ closeList' = [h \in Handles |-> closeList[h] + Condemns(h)]
    /\ SrvGoto("data")
    /\ UNCHANGED <<system, list, cur, sets, calls>>

NextData ==
    /\ SrvAt("data")
    /\ \E h \in dataList : cur' = h /\ dataList' = dataList \ {h}
    /\ SrvGoto("recv")
    /\ UNCHANGED <<system, list, sets, closeList, calls>>

CloseLater == closeList' = [closeList EXCEPT ![cur] = @ + 1]

RecvData ==
    /\ SrvAt("recv") /\ IsOpen(cur) /\ sock[cur] \in inbox
    /\ inbox' = inbox \ {sock[cur]}
    /\ SrvGoto("callback")
    /\ UNCHANGED <<sock, fresh, backlog, full, peer, shut, list, cur, sets, lists, calls>>

\* recv returned 0: of a reset connection, when its error has been reported
CloseNever == UNCHANGED closeList  \* mutant: the end is overlooked
CloseEnded == IF ConnectionCallback THEN CloseLater ELSE UNCHANGED closeList
RecvEnd ==
    /\ SrvAt("recv") /\ IsOpen(cur) /\ sock[cur] \notin inbox
    /\ Ended(sock[cur])
    /\ CloseEnded
    /\ SrvGoto("data") /\ cur' = NULL
    /\ UNCHANGED <<system, list, sets, dataList, calls>>

\* recv returned -1, once for a reset connection: as a size_t wider than unsigned it is not (unsigned)-1
\* but a length, and goes to the data callback.
Broken(h) == IF IsOpen(h) THEN peer[sock[h]] = "reset" /\ sock[h] \notin inbox ELSE TRUE
RecvError ==
    /\ SrvAt("recv") /\ Broken(cur)
    /\ IF WideSize
       THEN SrvGoto("callback") /\ UNCHANGED <<cur, closeList>>
       ELSE CloseLater /\ SrvGoto("data") /\ cur' = NULL
    /\ peer' = IF IsOpen(cur) THEN [peer EXCEPT ![sock[cur]] = "closed"] ELSE peer
    /\ UNCHANGED <<sock, fresh, backlog, inbox, full, shut, list, sets, dataList, calls>>

CallbackReturns ==
    /\ SrvAt("callback") /\ pc[Srv] = "idle"
    /\ SrvGoto("data") /\ cur' = NULL
    /\ UNCHANGED <<system, list, sets, lists, calls>>

DataDone ==
    /\ SrvAt("data") /\ dataList = {}
    /\ SrvGoto(IF readListen THEN "accept" ELSE "build")
    /\ UNCHANGED <<system, list, cur, sets, lists, calls>>

HasRoom == Cardinality(clients) < MaxConnections
FreeHandles == {h \in Handles : ~IsOpen(h)}

\* HandleConnection: no room, nothing to accept, or no descriptor left
NoAccept ==
    /\ SrvAt("accept")
    /\ ~HasRoom \/ backlog = {} \/ FreeHandles = {}
    /\ SrvGoto("build")
    /\ UNCHANGED <<system, list, cur, sets, lists, calls>>

Accept ==
    /\ SrvAt("accept") /\ HasRoom
    /\ \E c \in backlog, h \in FreeHandles :
          /\ sock' = [sock EXCEPT ![h] = c]
          /\ backlog' = backlog \ {c}
          /\ cur' = h
    /\ SrvGoto(IF ConnectionCallback THEN "ask" ELSE "insert")
    /\ UNCHANGED <<fresh, inbox, full, peer, shut, list, sets, lists, calls>>

\* The connection callback takes the connection, or has it closed.
Ask ==
    /\ SrvAt("ask")
    /\ \/ SrvGoto("insert") /\ UNCHANGED <<sock, cur>>
       \/ SrvGoto("build") /\ sock' = [sock EXCEPT ![cur] = NULL] /\ cur' = NULL
    /\ UNCHANGED <<peers, shut, list, sets, lists, calls>>

\* map::insert leaves an entry that is there as it is.
Insert ==
    /\ SrvAt("insert") /\ owner = NULL
    /\ clients' = clients \cup {cur}
    /\ SrvGoto("build") /\ cur' = NULL
    /\ UNCHANGED <<system, closed, owner, sets, lists, calls>>

SrvStep ==
    \/ BuildSelectList \/ Drop \/ Erase \/ Select \/ SelectReturns \/ Walk
    \/ NextData \/ RecvData \/ RecvEnd \/ RecvError \/ CallbackReturns \/ DataDone
    \/ NoAccept \/ Accept \/ Ask \/ Insert

(***************************************************************************)
(* The API: SendToClient, CloseConnection, CloseAllConnections             *)
(***************************************************************************)
At(t, label) == pc[t] = label
Goto(t, label) == pc' = [pc EXCEPT ![t] = label]
Return(t) == Goto(t, "idle") /\ arg' = [arg EXCEPT ![t] = NULL]
MayCall(t) == At(t, "idle") /\ (t = Srv => SrvAt("callback"))

Call(t) ==
    /\ MayCall(t)
    /\ \/ "send" \in Calls /\ Goto(t, "find")
       \/ "close" \in Calls /\ Goto(t, "lock")
    /\ \E h \in Handles : arg' = [arg EXCEPT ![t] = h]
    /\ UNCHANGED <<system, list, server, todo>>

CallAll(t) ==
    /\ MayCall(t) /\ "closeAll" \in Calls
    /\ Goto(t, "lockAll")
    /\ UNCHANGED <<system, list, server, arg, todo>>

Find(t) ==
    /\ At(t, "find") /\ owner = NULL
    /\ IF arg[t] \in clients
       THEN Goto(t, "send") /\ UNCHANGED arg
       ELSE Return(t)
    /\ UNCHANGED <<system, list, server, todo>>

\* The mutex is not held.  send() fails on a descriptor that is closed, shut
\* down or has lost its peer, and waits for room on any other.
NoRoom(h) == IsOpen(h) /\ sock[h] \in full \ shut
HeldUp(t) == At(t, "send") /\ NoRoom(arg[t])
Send(t) ==
    /\ At(t, "send") /\ ~NoRoom(arg[t])
    /\ Return(t)
    /\ UNCHANGED <<system, list, server, todo>>

Lock(t) ==
    /\ pc[t] \in {"lock", "lockAll"} /\ owner = NULL
    /\ todo' = [todo EXCEPT ![t] = IF At(t, "lock") THEN clients \cap {arg[t]} ELSE clients]
    /\ IF todo'[t] = {}
       THEN Return(t) /\ UNCHANGED owner
       ELSE Goto(t, "shutdown") /\ owner' = t /\ UNCHANGED arg
    /\ UNCHANGED <<system, clients, closed, server>>

\* The callback, then shutdown() of a connection that is still open
Shutdown(t) ==
    /\ At(t, "shutdown")
    /\ \E h \in todo[t] :
          /\ arg' = [arg EXCEPT ![t] = h]
          /\ shut' = IF IsOpen(h) THEN shut \cup {sock[h]} ELSE shut
    /\ Goto(t, "close")
    /\ UNCHANGED <<sock, peers, list, server, todo>>

Close(t) ==
    /\ At(t, "close")
    /\ sock' = [sock EXCEPT ![arg[t]] = NULL]
    /\ Goto(t, "mark")
    /\ UNCHANGED <<peers, shut, list, server, arg, todo>>

MarkNothing(t) == UNCHANGED closed  \* mutant: bClosed is not set
MarkClosed(t) == closed' = closed \cup {arg[t]}
Keep(t) == UNCHANGED owner  \* mutant: the mutex is not released
Release(t) == owner' = IF todo'[t] = {} THEN NULL ELSE t

Mark(t) ==
    /\ At(t, "mark")
    /\ MarkClosed(t)
    /\ todo' = [todo EXCEPT ![t] = @ \ {arg[t]}]
    /\ Release(t)
    /\ IF todo'[t] = {} THEN Return(t) ELSE Goto(t, "shutdown") /\ UNCHANGED arg
    /\ UNCHANGED <<system, clients, server>>

ApiStep(t) == Find(t) \/ Send(t) \/ Lock(t) \/ Shutdown(t) \/ Close(t) \/ Mark(t)
\* The server thread makes no calls when it has ended (see TcpServerLife).
Alive(t) == t = Srv => srvPc # "done"

Next ==
    \/ Peer
    \/ SrvStep
    \/ \E t \in Threads : Alive(t) /\ (Call(t) \/ CallAll(t) \/ ApiStep(t))

Spec == Init /\ [][Next]_vars
=============================================================================
