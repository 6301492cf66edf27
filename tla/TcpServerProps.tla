--------------------------- MODULE TcpServerProps ---------------------------
(***************************************************************************)
(* What CTcpServer must guarantee, stated over TcpServer.                  *)
(***************************************************************************)
EXTENDS TcpServer

\* Type invariant of the sockets, the client list, the server thread's lists
\* and the calls of the API.
SrvLabels == {"build", "drop", "erase", "select", "blocked", "walk", "data",
              "recv", "callback", "accept", "ask", "insert", "done"}
ApiLabels == {"idle", "find", "send", "lock", "lockAll", "shutdown", "close", "mark"}
TypeOK ==
    /\ sock \in [Handles -> Conns \cup {NULL}]
    /\ fresh \subseteq Conns /\ backlog \subseteq Conns
    /\ inbox \subseteq Conns /\ full \subseteq Conns /\ shut \subseteq Conns
    /\ peer \in [Conns -> {"open", "closed", "reset"}]
    /\ clients \subseteq Handles /\ closed \subseteq Handles
    /\ owner \in Threads \cup {NULL}
    /\ srvPc \in SrvLabels /\ cur \in Handles \cup {NULL}
    /\ reads \subseteq Handles /\ errors \subseteq Handles
    /\ readListen \in BOOLEAN
    /\ closeList \in [Handles -> 0 .. 3] /\ dataList \subseteq Handles
    /\ pc \in [Threads -> ApiLabels] /\ arg \in [Threads -> Handles \cup {NULL}]
    /\ todo \in [Threads -> SUBSET Handles]

Closing(t) == pc[t] \in {"shutdown", "close", "mark"}

\* The mutex is held exactly by the call that is closing connections, from
\* its search of the list to its last mark (tcp_server.cpp:436-475): no call
\* ends, fails or is overtaken without releasing it, and none shares it.
MutexHeld == \A t \in Threads : Closing(t) <=> owner = t

\* The loops of CloseAllConnections and CloseConnection walk entries that
\* stay in the map: the server thread never erases one under them, and every
\* entry they mark is still listed ("the iterator will be corrupted",
\* tcp_server.cpp:444, 467).
IteratorsValid ==
    /\ \A t \in Threads : Closing(t) => todo[t] \subseteq clients
    /\ closed \subseteq clients

\* An entry that is not marked closed has an open descriptor, except while
\* the call that closed it is about to mark it: a descriptor that close() has
\* given back, and accept may have given out again, is never taken for the
\* old connection's.
ListedIsOpen ==
    \A h \in clients \ closed :
        IsOpen(h) \/ \E t \in Threads : At(t, "mark") /\ arg[t] = h

\* What the server thread is going to read or remove was put on its lists for
\* an entry that is still there: nothing erased and added again since is read
\* or removed in its place.
CondemnedAreListed ==
    srvPc \in {"walk", "data", "recv", "callback", "accept", "ask", "insert", "build"} =>
        ToClose \cup dataList \subseteq clients

\* While the application closes nothing, the server takes off its list only
\* connections the other end has ended.
OnlyEndedDropped ==
    [][\A h \in clients \ clients' : IsOpen(h) => Ended(sock[h])]_vars

\* While the application closes nothing, recv (tcp_server.cpp:316, on a blocking
\* socket) is called only when it will not block: a client that sends nothing
\* does not hold up the one server thread.  One that does not read may, in send
\* (529); and once a closed descriptor has made select fail with EBADF, the read
\* set still holds every client and recv blocks on an idle one.
RecvIsReady == srvPc = "recv" => Readable(cur)

(***************************************************************************)
(* Fairness.  The server thread and every call are scheduled, callbacks    *)
(* that are not held up in a send return, a send that keeps finding room   *)
(* is done in the end, and whoever keeps finding the mutex free gets it.   *)
(* Peers do what they like: nothing makes one read.                        *)
(***************************************************************************)
FairSpec ==
    /\ Spec
    /\ SF_vars(SrvStep)
    /\ \A t \in Threads : SF_vars(Alive(t) /\ ApiStep(t))

\* While the application closes nothing, bytes that arrive on a listed
\* connection reach the data callback, or the connection leaves the list -
\* unless the callback hangs for ever in a send (tcp_server.cpp:529) to a client
\* that stays and does not read: then the one thread serves nobody any more.
DataDelivered ==
    \/ \A h \in Handles :
          (h \in clients /\ sock[h] \in inbox)
              ~> h \notin clients \/ sock[h] \notin inbox
    \/ <>[]HeldUp(Srv)

\* While the application closes nothing, a connection the other end has closed
\* or reset leaves the list, with the same exception.
EndIsNoticed ==
    \/ \A h \in Handles :
          (h \in clients /\ IsOpen(h) /\ peer[sock[h]] # "open")
              ~> h \notin clients
    \/ <>[]HeldUp(Srv)

(***************************************************************************)
(* What comments say of CTcpServer, and its code does not do.              *)
(***************************************************************************)

\* tcp_server.cpp:177: a bad descriptor in select "should not cause a problem":
\* a connection that no end has closed stays on the list.
HealthyIsKept == [][\A h \in clients \ clients' : h \in closed \/ (IsOpen(h) => Ended(sock[h]))]_vars
=============================================================================
