----------------------------- MODULE UdpServer -----------------------------
(***************************************************************************)
(* CUdpServer (udp_server.cpp): a socket, a data callback, and a thread    *)
(* that hands every datagram it receives to the callback.  The thread ends *)
(* only by being cancelled; StopServerThread cancels the thread that was   *)
(* started last, and does not wait for it.                                 *)
(*                                                                         *)
(* Datagrams are numbered as they arrive at the socket, and so are reports *)
(* that one which was sent found nobody, for which recv returns -1; what   *)
(* the network does to datagrams before is left open, so one it duplicates *)
(* arrives as two.                                                         *)
(* The application constructs the server once, may register the callback   *)
(* and start and stop threads at any time, and destroys the server when no *)
(* thread is left.  SendToClient changes nothing here.                     *)
(***************************************************************************)
EXTENDS Naturals, Sequences

CONSTANTS
    Servers,      \* threads that may be started
    NULL,
    Room,         \* datagrams the socket's receive buffer holds
    MaxArrivals   \* bound: datagrams and errors that arrive

ASSUME UdpAssumption == NULL \notin Servers /\ Room \in Nat \ {0} /\ MaxArrivals \in Nat

VARIABLES
    life,        \* of the object: none, opened, bound, alive, failed, destroyed
    open,        \* m_Socket is a socket
    registered,  \* m_pNewDataCallback is set
    buffer,      \* the socket's receive buffer
    arrived,     \* datagrams and errors arrived so far
    broken,      \* an error waits to be reported by recv
    blank,       \* those of length zero
    tpc, got,    \* each thread: step of start(), datagram received
    threadId,    \* m_threadId
    cancelled,   \* threads pthread_cancel was called for
    given,       \* history: the datagrams given to the callback, in order
    stopped,     \* history: the threads StopServerThread was called for
    late         \* history: callbacks each of them began after that

object == <<life, open, registered>>
socket == <<buffer, arrived, blank, broken>>
threads == <<tpc, got, threadId, cancelled>>
udpVars == <<object, socket, threads, given, stopped, late>>

UdpInit ==
    /\ life = "none" /\ open = FALSE /\ registered = FALSE
    /\ buffer = <<>> /\ arrived = 0 /\ blank = {} /\ broken = FALSE
    /\ tpc = [t \in Servers |-> "new"] /\ got = [t \in Servers |-> 0]
    /\ threadId = NULL /\ cancelled = {}
    /\ given = <<>> /\ stopped = {} /\ late = [t \in Servers |-> 0]

----------------------------------------------------------------------------
(* The application *)

\* initServer: socket(), which may fail ...
InitServer ==
    /\ life = "none"
    /\ \/ life' = "opened" /\ open' = TRUE
       \/ life' = "failed" /\ UNCHANGED open
    /\ UNCHANGED <<registered, socket, threads, given, stopped, late>>

CloseSocket == open' = FALSE

\* ... and bind(), which may fail when the socket is there.
BindSocket ==
    /\ life = "opened"
    /\ \/ life' \in {"bound", "alive"} /\ UNCHANGED open
       \/ life' = "failed" /\ CloseSocket
    /\ UNCHANGED <<registered, socket, threads, given, stopped, late>>

\* The constructor of a connected server goes on to connect to its peer.
ConnectPeer ==
    /\ life = "bound"
    /\ \/ life' = "alive" /\ UNCHANGED open
       \/ life' = "failed" /\ CloseSocket
    /\ UNCHANGED <<registered, socket, threads, given, stopped, late>>

RegisterDataCallback ==
    /\ life = "alive"
    /\ registered' = TRUE
    /\ UNCHANGED <<life, open, socket, threads, given, stopped, late>>

StartServerThread(t) ==
    /\ life = "alive" /\ tpc[t] = "new"
    /\ tpc' = [tpc EXCEPT ![t] = "start"] /\ threadId' = t
    /\ UNCHANGED <<object, socket, got, cancelled, given, stopped, late>>

CancelsNone == UNCHANGED cancelled  \* mutant
CancelsThread == cancelled' = cancelled \cup {threadId}
StopServerThread ==
    /\ life = "alive" /\ threadId # NULL /\ threadId \notin stopped
    /\ CancelsThread
    /\ stopped' = stopped \cup {threadId}
    /\ UNCHANGED <<object, socket, tpc, got, threadId, given, late>>

Gone(t) == tpc[t] \in {"new", "done"}

Destroy ==
    /\ life = "alive" /\ \A t \in Servers : Gone(t)
    /\ life' = "destroyed" /\ CloseSocket
    /\ UNCHANGED <<registered, socket, threads, given, stopped, late>>

----------------------------------------------------------------------------
(* The network and the server threads: start() *)

HasRoom == Len(buffer) < Room

\* A datagram that finds the receive buffer full is lost.
Arrive ==
    /\ open /\ life # "opened" /\ arrived < MaxArrivals
    /\ arrived' = arrived + 1
    /\ blank' \in {blank, blank \cup {arrived'}}
    /\ buffer' = IF HasRoom THEN Append(buffer, arrived') ELSE buffer
    /\ UNCHANGED <<object, broken, threads, given, stopped, late>>

ErrorArrives ==
    /\ life = "alive" /\ arrived < MaxArrivals
    /\ arrived' = arrived + 1 /\ broken' = TRUE
    /\ UNCHANGED <<object, buffer, blank, threads, given, stopped, late>>

Begin(t) ==
    /\ tpc[t] = "start"
    /\ tpc' = [tpc EXCEPT ![t] = IF open THEN "recv" ELSE "done"]
    /\ UNCHANGED <<object, socket, got, threadId, cancelled, given, stopped, late>>

LeavesIt == UNCHANGED buffer  \* mutant
TakesIt == buffer' = Tail(buffer)
Recv(t) ==
    /\ tpc[t] = "recv" /\ t \notin cancelled /\ buffer # <<>>
    /\ got' = [got EXCEPT ![t] = Head(buffer)] /\ TakesIt
    /\ tpc' = [tpc EXCEPT ![t] = "check"]
    /\ UNCHANGED <<object, arrived, blank, broken, threadId, cancelled, given, stopped, late>>

\* recv returned -1
RecvError(t) ==
    /\ tpc[t] = "recv" /\ t \notin cancelled /\ broken
    /\ broken' = FALSE
    /\ got' = [got EXCEPT ![t] = 0] /\ tpc' = [tpc EXCEPT ![t] = "check"]
    /\ UNCHANGED <<object, buffer, arrived, blank, threadId, cancelled, given, stopped, late>>

EndsLoop == "done"  \* mutant: while(nResults > 0 ...)
NextTurn == "recv"  \* while(1)

HasData(n) == n # 0 /\ n \notin blank  \* nResults > 0
Check(t) ==
    /\ tpc[t] = "check"
    /\ IF HasData(got[t]) /\ registered
       THEN /\ tpc' = [tpc EXCEPT ![t] = "callback"]
            /\ given' = Append(given, got[t])
            /\ late' = [late EXCEPT ![t] = IF t \in stopped THEN @ + 1 ELSE @]
            /\ UNCHANGED got
       ELSE /\ tpc' = [tpc EXCEPT ![t] = NextTurn] /\ got' = [got EXCEPT ![t] = 0]
            /\ UNCHANGED <<given, late>>
    /\ UNCHANGED <<object, socket, threadId, cancelled, stopped>>

CallbackReturns(t) ==
    /\ tpc[t] = "callback"
    /\ tpc' = [tpc EXCEPT ![t] = "recv"] /\ got' = [got EXCEPT ![t] = 0]
    /\ UNCHANGED <<object, socket, threadId, cancelled, given, stopped, late>>

\* recv is a cancellation point, and a callback may reach one.
Cancelled(t) ==
    /\ t \in cancelled /\ tpc[t] \in {"recv", "callback"}
    /\ tpc' = [tpc EXCEPT ![t] = "done"] /\ got' = [got EXCEPT ![t] = 0]
    /\ UNCHANGED <<object, socket, threadId, cancelled, given, stopped, late>>

ServerStep(t) ==
    Begin(t) \/ Recv(t) \/ RecvError(t) \/ Check(t) \/ CallbackReturns(t) \/ Cancelled(t)

UdpNext ==
    \/ InitServer \/ BindSocket \/ ConnectPeer \/ RegisterDataCallback
    \/ StopServerThread \/ Destroy
    \/ Arrive \/ ErrorArrives
    \/ \E t \in Servers : StartServerThread(t) \/ ServerStep(t)

UdpSpec == UdpInit /\ [][UdpNext]_udpVars

----------------------------------------------------------------------------
(* What the server must guarantee. *)

ItemsOf(q) == {q[i] : i \in DOMAIN q}
Held == {got[t] : t \in {u \in Servers : tpc[u] = "check"}}

\* Type invariant.
UdpTypeOK ==
    /\ life \in {"none", "opened", "bound", "alive", "failed", "destroyed"}
    /\ open \in BOOLEAN /\ registered \in BOOLEAN /\ broken \in BOOLEAN
    /\ arrived \in 0 .. MaxArrivals /\ blank \subseteq 1 .. arrived
    /\ buffer \in Seq(1 .. arrived) /\ Len(buffer) <= Room
    /\ got \in [Servers -> 0 .. arrived]
    /\ tpc \in [Servers -> {"new", "start", "recv", "check", "callback", "done"}]
    /\ threadId \in Servers \cup {NULL} /\ cancelled \subseteq Servers
    /\ given \in Seq(1 .. arrived)
    /\ stopped \subseteq Servers /\ late \in [Servers -> Nat]

\* However many threads were started, a datagram is given to the callback once
\* at most, and then no thread has it in hand and it is not in the buffer.
GivenOnce ==
    /\ \A i, j \in DOMAIN given : given[i] = given[j] => i = j
    /\ ItemsOf(given) \cap (ItemsOf(buffer) \cup Held) = {}

OneServer == \A t, u \in Servers : tpc[t] # "new" /\ tpc[u] # "new" => t = u

\* With one thread, datagrams reach the callback in the order they arrived in.
\* (A second one that is started may overtake it, even after StopServerThread.)
GivenInOrder ==
    OneServer =>
        \A i, j \in DOMAIN given : i < j => given[i] < given[j]

\* After StopServerThread has returned (udp_server.cpp:263), the thread it
\* stopped calls back at most once: for a datagram it had received before.
AtMostOneLateDatagram == \A t \in Servers : late[t] <= 1

\* A constructor that fails at socket, bind or connect, and a destructor, leave no
\* socket open, and one is open whenever a thread is in the loop that receives
\* from it.  (udp_server.cpp:89, 101, 184; it is the application that destroys
\* the server only when its threads have ended.)
Inside(t) == tpc[t] \in {"recv", "check", "callback"}
NoSocketLeft ==
    /\ life \in {"failed", "destroyed"} => ~open
    /\ \A t \in Servers : Inside(t) => open

\* The threads are scheduled, callbacks return.
UdpFairness == \A t \in Servers : WF_udpVars(ServerStep(t))

Serving(t) == tpc[t] # "new" /\ t \notin stopped

\* A datagram in the receive buffer is received, unless every thread that was
\* started has been stopped: no datagram, empty or not, and no error ends the loop.
DatagramReceived ==
    \A n \in 1 .. MaxArrivals :
        n \in ItemsOf(buffer) ~> n \notin ItemsOf(buffer) \/ \A t \in Servers : ~Serving(t)
=============================================================================
