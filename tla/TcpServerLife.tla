--------------------------- MODULE TcpServerLife ---------------------------
(***************************************************************************)
(* The life of a CTcpServer: the constructor binds a listening socket or   *)
(* leaves none, StartSeverThread runs start() in a thread, which ends at   *)
(* once without a socket it can listen on, and the destructor closes what  *)
(* is left on the client list.  A thread is started once.                  *)
(*                                                                         *)
(* The application destroys the server when no call is running and the     *)
(* thread has ended.  It has to guess when that is: StopSeverThread only   *)
(* asks the thread to end, and returns at once.                            *)
(***************************************************************************)
EXTENDS TcpServerProps

VARIABLES
    life,     \* of the object: none, alive, closing, destroyed
    socket,   \* m_ListenSocket: none, bound, listening
    started,  \* StartSeverThread was called
    cancelled \* pthread_cancel was called

lifeVars == <<vars, life, socket, started, cancelled>>

LifeInit ==
    /\ Init
    /\ life = "none" /\ socket = "none" /\ started = FALSE /\ cancelled = FALSE

Construct ==
    /\ life = "none"
    /\ life' = "alive" /\ socket' \in {"none", "bound"}
    /\ UNCHANGED <<vars, started, cancelled>>

StartSeverThread ==
    /\ life = "alive" /\ ~started
    /\ started' = TRUE
    /\ \/ /\ socket = "bound"
          /\ socket' = "listening" /\ UNCHANGED srvPc
       \/ SrvGoto("done") /\ UNCHANGED socket
    /\ UNCHANGED <<system, list, cur, sets, lists, calls, life, cancelled>>

StopSeverThread ==
    /\ started /\ ~cancelled
    /\ cancelled' = TRUE
    /\ UNCHANGED <<vars, life, socket, started>>

\* The thread is cancelled in a system call or in a callback, its own or one
\* that CloseConnection makes; a mutex it holds stays locked.
CancelPoint ==
    \/ srvPc \in {"drop", "select", "blocked", "recv", "accept", "ask"}
    \/ srvPc = "callback" /\ pc[Srv] \in {"idle", "send", "shutdown", "close"}
Cancelled ==
    /\ cancelled /\ CancelPoint
    /\ SrvGoto("done")
    /\ UNCHANGED <<system, list, cur, sets, lists, calls, life, socket, started, cancelled>>

\* Peers reach a listening socket only.
LifePeer == socket = "listening" /\ Peer

ServerThread == started /\ (SrvStep \/ (Alive(Srv) /\ ApiStep(Srv)))
ServerThreadCalls == started /\ Alive(Srv) /\ (Call(Srv) \/ CallAll(Srv))

CallerCalls(t) == life = "alive" /\ (Call(t) \/ CallAll(t))

\* The destructor: the listening socket, and with it connections that were
\* never accepted
CloseListenSocket ==
    /\ life = "alive"
    /\ \A t \in Callers : At(t, "idle")
    /\ started => SrvAt("done")
    /\ life' = "closing" /\ socket' = "none" /\ backlog' = {}
    /\ UNCHANGED <<sock, fresh, inbox, full, peer, shut, list, server, calls, started, cancelled>>

\* Then, under the mutex, every connection on the list, closed or not
CloseClients ==
    /\ life = "closing" /\ owner = NULL
    /\ life' = "destroyed"
    /\ shut' = shut \cup ({sock[h] : h \in clients} \ {NULL})
    /\ sock' = [h \in Handles |-> IF h \in clients THEN NULL ELSE sock[h]]
    /\ clients' = {} /\ closed' = {}
    /\ UNCHANGED <<peers, owner, server, calls, socket, started, cancelled>>

Unmoved == UNCHANGED <<life, socket, started, cancelled>>

LifeNext ==
    \/ Construct \/ StartSeverThread \/ StopSeverThread \/ Cancelled
    \/ CloseListenSocket \/ CloseClients
    \/ /\ \/ LifePeer \/ ServerThread \/ ServerThreadCalls
          \/ \E t \in Callers : ApiStep(t) \/ CallerCalls(t)
       /\ Unmoved

LifeSpec == LifeInit /\ [][LifeNext]_lifeVars

\* Fairness: every thread that is in the middle of something is scheduled, and
\* one that keeps finding the mutex free gets it in the end.
FairLifeSpec ==
    /\ LifeSpec
    /\ SF_lifeVars(ServerThread /\ Unmoved)
    /\ \A t \in Callers : SF_lifeVars(ApiStep(t) /\ Unmoved)
    /\ WF_lifeVars(CloseClients)

----------------------------------------------------------------------------
\* The thread was cancelled in a callback or a system call that it made with
\* the mutex of the client list locked (tcp_server.cpp:443, 464-466).
DiedWithMutex == SrvAt("done") /\ owner = Srv

\* Every call returns, those of the data callback too: callers, callback and
\* server thread never wait for each other.  The only calls that never do find
\* the mutex, or are, in the hands of a cancelled thread, or are held up for
\* ever in send (tcp_server.cpp:529), because the socket is blocking and their
\* own client stays and does not read; even then nobody else's call is.
CallsReturn ==
    \A t \in Threads :
        \/ pc[t] # "idle" ~>
               pc[t] = "idle" \/ DiedWithMutex \/ (t = Srv /\ SrvAt("done"))
        \/ <>[]HeldUp(t)

\* The destructor ends, whatever was going on before, with the same exception.
DestructorEnds == life = "closing" ~> life = "destroyed" \/ DiedWithMutex
=============================================================================
