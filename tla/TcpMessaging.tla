---------------------------- MODULE TcpMessaging ----------------------------
(***************************************************************************)
(* CTcpMessaging (tcp_messaging.cpp): a CMessaging whose xmitMsg sends on  *)
(* a TCP socket.  The application connects, sends and disconnects from one *)
(* thread, and may connect again.  Its peer feeds what all connections     *)
(* bring, one after the other, to one CMessaging, as the test does, and    *)
(* sends nothing back.  A disconnect loses no byte that send() has taken.  *)
(***************************************************************************)
EXTENDS Messaging

CONSTANT MaxConnects  \* bound: calls of connect

ASSUME TcpMessagingAssumption == MaxConnects \in Nat

VARIABLES
    alive,       \* the destructor has not run
    socket,      \* m_socket, NoSocket for -1
    open,        \* the sockets the process has open
    connects,    \* calls of connect so far; a socket is the number of its call
    overwritten  \* history: the sockets connect found in m_socket

conn == <<alive, socket, open, connects, overwritten>>
tcpVars == <<vars, conn>>

NoSocket == 0

TcpInit ==
    /\ Init
    /\ alive = TRUE /\ socket = NoSocket /\ open = {} /\ connects = 0 /\ overwritten = {}

----------------------------------------------------------------------------
(* The application, between its calls of sendMessage *)

Ready == alive /\ part = "idle" /\ UNCHANGED vars

\* The address is no address: the socket of an earlier connect stays in use.
BadAddress ==
    /\ Ready /\ connects < MaxConnects
    /\ connects' = connects + 1
    /\ UNCHANGED <<alive, socket, open, overwritten>>

KeepNewSocket == open' = open \cup {connects'}  \* mutant
CloseNewSocket == UNCHANGED open

\* socket() puts what it returns into m_socket, whatever was there;
\* if ::connect fails, the new socket is closed again.
Connect ==
    /\ Ready /\ connects < MaxConnects
    /\ connects' = connects + 1
    /\ overwritten' = overwritten \cup ({socket} \ {NoSocket})
    /\ \/ socket' = connects' /\ open' = open \cup {connects'}
       \/ socket' = NoSocket /\ CloseNewSocket
    /\ UNCHANGED alive

CloseSocket ==
    /\ open' = open \ {socket} /\ socket' = NoSocket
    /\ UNCHANGED <<connects, overwritten>>

Disconnect == Ready /\ socket # NoSocket /\ CloseSocket /\ UNCHANGED alive

Destroy == Ready /\ CloseSocket /\ alive' = FALSE

----------------------------------------------------------------------------
(* sendMessage of a CTcpMessaging *)

Send(m) == alive /\ SendMessage(m) /\ UNCHANGED conn

\* Without a socket xmitMsg returns -1.
CanSend == socket # NoSocket

XmitMsg ==
    /\ \/ XmitError
       \/ CanSend /\ (XmitNothing \/ \E n \in 1 .. Len(Piece) - bytesSent : XmitSome(n))
    /\ UNCHANGED conn

Peer == (Receive \/ Loop \/ GetMsg) /\ UNCHANGED conn

TcpNext ==
    \/ BadAddress \/ Connect \/ Disconnect \/ Destroy
    \/ \E m \in Messages : Send(m)
    \/ XmitMsg \/ Peer

TcpSpec == TcpInit /\ [][TcpNext]_tcpVars

\* Fairness: send() and recv() return, so that sendMessage and processChunk go
\* on once called; the peer reads on while bytes arrive.
FairTcpSpec ==
    /\ TcpSpec
    /\ WF_tcpVars(XmitMsg)
    /\ WF_tcpVars(Loop /\ UNCHANGED conn) /\ WF_tcpVars(Receive /\ UNCHANGED conn)

----------------------------------------------------------------------------
\* Every socket the process has open is the one in m_socket, which the
\* destructor closes, or one that a later connect has overwritten: whatever
\* way connect fails (tcp_messaging.cpp:66-81), it keeps none.
SocketsAccounted ==
    /\ open \subseteq overwritten \cup ({socket} \ {NoSocket})
    /\ socket # NoSocket => socket \in open
    /\ ~alive => open \subseteq overwritten
=============================================================================
