-------------------------- MODULE UdpServer_proofs --------------------------
(***************************************************************************)
(* Proofs about CUdpServer, for any number of threads and datagrams.       *)
(***************************************************************************)
EXTENDS UdpServer, TLAPS

\* The elements of a sequence over S, which is one over every larger set too.
LEMMA WiderSeq ==
    ASSUME NEW S, NEW T, S \subseteq T, NEW q \in Seq(S)
    PROVE  q \in Seq(T) /\ \A i \in DOMAIN q : q[i] \in S
<1>1. Len(q) \in Nat /\ DOMAIN q = 1 .. Len(q)
  OBVIOUS
<1>2. \A i \in 1 .. Len(q) : q[i] \in S
  OBVIOUS
<1>3. q \in [1 .. Len(q) -> T]
  <2>1. q = [i \in 1 .. Len(q) |-> q[i]]
    OBVIOUS
  <2> QED  BY <1>2, <2>1
<1> QED  BY <1>1, <1>2, <1>3

\* A thread that has begun its late callback receives no more: it is cancelled
\* where it would, so that it cannot begin another.
LateInv ==
    /\ stopped \subseteq cancelled /\ late \in [Servers -> {0, 1}]
    /\ \A t \in Servers : late[t] = 1 => t \in stopped /\ tpc[t] \in {"recv", "callback", "done"}

TpcOK == tpc \in [Servers -> {"new", "start", "recv", "check", "callback", "done"}]

LEMMA LateStep == TpcOK /\ LateInv /\ [UdpNext]_udpVars => TpcOK' /\ LateInv'
<1> SUFFICES ASSUME TpcOK, LateInv, [UdpNext]_udpVars PROVE TpcOK' /\ LateInv'
  OBVIOUS
<1> USE DEF TpcOK, LateInv
<1>1. ASSUME UNCHANGED <<threads, stopped, late>> PROVE TpcOK' /\ LateInv'
  BY <1>1 DEF threads
<1>2. CASE InitServer \/ BindSocket \/ ConnectPeer \/ RegisterDataCallback \/ Destroy \/ Arrive \/ ErrorArrives
  BY <1>1, <1>2 DEF InitServer, BindSocket, ConnectPeer, RegisterDataCallback, Destroy, Arrive,
                         ErrorArrives
<1>3. CASE StopServerThread
  BY <1>3 DEF StopServerThread, CancelsThread
<1>4. ASSUME NEW t \in Servers, StartServerThread(t) PROVE TpcOK' /\ LateInv'
  BY <1>4 DEF StartServerThread
<1>5. ASSUME NEW t \in Servers, ServerStep(t) PROVE TpcOK' /\ LateInv'
  <2>1. CASE Begin(t)  BY <2>1 DEF Begin
  <2>2. CASE Recv(t) \/ RecvError(t)  BY <2>2 DEF Recv, RecvError
  <2>3. CASE Check(t)
    <3>1. CASE HasData(got[t]) /\ registered
      BY <2>3, <3>1 DEF Check
    <3>2. CASE ~(HasData(got[t]) /\ registered)
      BY <2>3, <3>2 DEF Check, NextTurn
    <3> QED  BY <3>1, <3>2
  <2>4. CASE CallbackReturns(t)  BY <2>4 DEF CallbackReturns
  <2>5. CASE Cancelled(t)  BY <2>5 DEF Cancelled
  <2> QED  BY <1>5, <2>1, <2>2, <2>3, <2>4, <2>5 DEF ServerStep
<1>6. CASE UNCHANGED udpVars
  BY <1>1, <1>6 DEF udpVars
<1> QED  BY <1>2, <1>3, <1>4, <1>5, <1>6 DEF UdpNext

\* After StopServerThread the thread it stopped calls back once at most.
THEOREM UdpAtMostOneLate == UdpSpec => []AtMostOneLateDatagram
<1>1. UdpInit => TpcOK /\ LateInv
  BY DEF UdpInit, TpcOK, LateInv
<1>2. LateInv => AtMostOneLateDatagram
  <2>1. ASSUME LateInv, NEW t \in Servers PROVE late[t] <= 1
    <3>1. late[t] = 0 \/ late[t] = 1
      BY <2>1 DEF LateInv
    <3> QED  BY <3>1
  <2> QED  BY <2>1 DEF AtMostOneLateDatagram
<1> QED  BY <1>1, <1>2, LateStep, PTL DEF UdpSpec

\* The object has a socket exactly while it is being built or alive, and only a
\* thread of one that is alive runs.
SocketInv ==
    /\ open <=> life \in {"opened", "bound", "alive"}
    /\ \A t \in Servers : tpc[t] = "start" \/ Inside(t) => life = "alive"

LEMMA SocketStep == TpcOK /\ SocketInv /\ [UdpNext]_udpVars => SocketInv'
<1> SUFFICES ASSUME TpcOK, SocketInv, [UdpNext]_udpVars PROVE SocketInv'
  OBVIOUS
<1> USE DEF TpcOK, SocketInv, Inside
<1>1. CASE InitServer \/ BindSocket \/ ConnectPeer
  BY <1>1 DEF InitServer, BindSocket, ConnectPeer, CloseSocket, threads
<1>2. CASE Destroy
  BY <1>2 DEF Destroy, CloseSocket, Gone, threads
<1>3. CASE RegisterDataCallback \/ StopServerThread \/ Arrive \/ ErrorArrives
  BY <1>3 DEF RegisterDataCallback, StopServerThread, Arrive, ErrorArrives, object, threads
<1>4. ASSUME NEW t \in Servers, StartServerThread(t) PROVE SocketInv'
  BY <1>4 DEF StartServerThread, object
<1>5. ASSUME NEW t \in Servers, ServerStep(t) PROVE SocketInv'
  <2>1. UNCHANGED object /\ (tpc[t] = "start" \/ Inside(t))
    BY <1>5 DEF ServerStep, Begin, Recv, RecvError, Check, CallbackReturns, Cancelled
  <2>2. \A u \in Servers : u # t => tpc'[u] = tpc[u]
    BY <1>5 DEF ServerStep, Begin, Recv, RecvError, Check, CallbackReturns, Cancelled
  <2> QED  BY <2>1, <2>2 DEF object
<1>6. CASE UNCHANGED udpVars
  BY <1>6 DEF udpVars, object, threads
<1> QED  BY <1>1, <1>2, <1>3, <1>4, <1>5, <1>6 DEF UdpNext

\* A constructor that fails at socket, bind or connect, and the destructor, leave
\* no socket open, and no thread is in its loop without one.
THEOREM UdpNoSocketLeft == UdpSpec => []NoSocketLeft
<1>1. UdpInit => TpcOK /\ LateInv /\ SocketInv
  BY DEF UdpInit, TpcOK, LateInv, SocketInv, Inside
<1>2. SocketInv => NoSocketLeft
  BY DEF SocketInv, NoSocketLeft
<1> QED  BY <1>1, <1>2, LateStep, SocketStep, PTL DEF UdpSpec

(***************************************************************************)
(* Where each datagram is.  Those in the buffer are in order; one that a   *)
(* thread holds has left the buffer, and one that was given has left the   *)
(* thread.  With one thread all that was given arrived before what is held *)
(* and that before what is in the buffer.                                  *)
(***************************************************************************)
Holds(t) == tpc[t] = "check" /\ got[t] # 0

TypesInv ==
    /\ arrived \in Nat /\ TpcOK
    /\ buffer \in Seq(1 .. arrived) /\ given \in Seq(1 .. arrived)
    /\ got \in [Servers -> Nat]
    /\ \A t \in Servers : Holds(t) => got[t] \in 1 .. arrived

ApartInv ==
    /\ \A i, j \in DOMAIN given : given[i] = given[j] => i = j
    /\ \A i \in DOMAIN given, j \in DOMAIN buffer : given[i] # buffer[j]
    /\ \A t \in Servers : Holds(t) =>
          /\ \A i \in DOMAIN given : given[i] # got[t]
          /\ \A j \in DOMAIN buffer : got[t] # buffer[j]
          /\ \A u \in Servers : Holds(u) /\ got[u] = got[t] => u = t

SortedInv == \A i, j \in DOMAIN buffer : i < j => buffer[i] < buffer[j]

InOrderInv ==
    OneServer =>
        /\ \A i, j \in DOMAIN given : i < j => given[i] < given[j]
        /\ \A i \in DOMAIN given, j \in DOMAIN buffer : given[i] < buffer[j]
        /\ \A t \in Servers : Holds(t) =>
              /\ \A i \in DOMAIN given : given[i] < got[t]
              /\ \A j \in DOMAIN buffer : got[t] < buffer[j]

DatagramInv == TypesInv /\ SortedInv /\ ApartInv /\ InOrderInv

LEMMA DatagramInit == UdpInit => DatagramInv
BY DEF UdpInit, DatagramInv, TypesInv, TpcOK, SortedInv, ApartInv, InOrderInv, Holds

\* A thread that is started stays started.
LEMMA OneServerBefore ==
    ASSUME TpcOK, TpcOK', \A t \in Servers : tpc[t] # "new" => tpc'[t] # "new", OneServer'
    PROVE  OneServer
BY DEF OneServer, TpcOK

\* A step that changes neither the datagrams nor who holds one.
LEMMA QuietStep ==
    ASSUME DatagramInv, TpcOK', UNCHANGED <<buffer, arrived, given>>,
           got' \in [Servers -> Nat],
           \A t \in Servers : tpc'[t] = "check" /\ got'[t] # 0 => Holds(t) /\ got'[t] = got[t],
           \A t \in Servers : tpc[t] # "new" => tpc'[t] # "new"
    PROVE  DatagramInv'
<1>1. OneServer' => OneServer
  BY OneServerBefore DEF DatagramInv, TypesInv
<1>2. TypesInv' /\ SortedInv'
  BY DEF DatagramInv, TypesInv, SortedInv, Holds
<1>3. ApartInv'
  BY DEF DatagramInv, ApartInv, Holds
<1>4. InOrderInv'
  BY <1>1 DEF DatagramInv, InOrderInv, Holds
<1> QED  BY <1>2, <1>3, <1>4 DEF DatagramInv

LEMMA ArriveStep == ASSUME DatagramInv, Arrive \/ ErrorArrives PROVE DatagramInv'
<1> DEFINE n == arrived + 1
<1>1. /\ arrived' = n /\ n \in Nat /\ 1 .. arrived \subseteq 1 .. arrived'
      /\ UNCHANGED <<tpc, got, given>>
  BY DEF Arrive, ErrorArrives, threads, DatagramInv, TypesInv
<1>2. OneServer' <=> OneServer
  BY <1>1 DEF OneServer
<1>3. CASE buffer' = buffer
  <2>1. TypesInv'
    BY <1>1, <1>3 DEF DatagramInv, TypesInv, TpcOK, Holds
  <2>2. SortedInv' /\ ApartInv'
    BY <1>1, <1>3 DEF DatagramInv, SortedInv, ApartInv, Holds
  <2>3. InOrderInv'
    BY <1>1, <1>2, <1>3 DEF DatagramInv, InOrderInv, Holds
  <2> QED  BY <2>1, <2>2, <2>3 DEF DatagramInv
<1>4. CASE buffer' = Append(buffer, n)
  <2>1. /\ buffer \in Seq(1 .. arrived) /\ Len(buffer) \in Nat
        /\ DOMAIN buffer = 1 .. Len(buffer)
        /\ \A j \in DOMAIN buffer : buffer[j] \in Nat /\ buffer[j] < n
    BY <1>1 DEF DatagramInv, TypesInv
  <2>2. /\ buffer' \in Seq(1 .. arrived') /\ DOMAIN buffer' = 1 .. Len(buffer) + 1
        /\ buffer'[Len(buffer) + 1] = n
        /\ \A j \in DOMAIN buffer' : j # Len(buffer) + 1 => j \in DOMAIN buffer /\ buffer'[j] = buffer[j]
    <3>1. buffer \in Seq(1 .. arrived') /\ n \in 1 .. arrived'
      <4>1. n \in 1 .. arrived'
        BY <1>1 DEF DatagramInv, TypesInv
      <4> QED  BY <1>1, <2>1, <4>1, WiderSeq
    <3> QED  BY <1>4, <2>1, <3>1
  <2>3. TypesInv'
    BY <1>1, <2>2 DEF DatagramInv, TypesInv, TpcOK, Holds
  <2>4. SortedInv'
    BY <2>1, <2>2 DEF DatagramInv, SortedInv
  <2>5. /\ \A i \in DOMAIN given : given[i] \in Nat /\ given[i] < n
        /\ \A t \in Servers : Holds(t) => got[t] \in Nat /\ got[t] < n
    BY <1>1 DEF DatagramInv, TypesInv
  <2>6. ApartInv'
    BY <1>1, <2>2, <2>5 DEF DatagramInv, ApartInv, Holds
  <2>7. InOrderInv'
    BY <1>1, <1>2, <2>2, <2>5 DEF DatagramInv, InOrderInv, Holds
  <2> QED  BY <2>3, <2>4, <2>6, <2>7 DEF DatagramInv
<1> QED  BY <1>3, <1>4 DEF Arrive, ErrorArrives

LEMMA RecvStep == ASSUME DatagramInv, NEW t \in Servers, Recv(t) PROVE DatagramInv'
<1>1. /\ UNCHANGED <<arrived, given>> /\ tpc[t] = "recv"
      /\ buffer # <<>> /\ buffer' = Tail(buffer)
      /\ got' = [got EXCEPT ![t] = buffer[1]] /\ tpc' = [tpc EXCEPT ![t] = "check"]
  BY DEF Recv, TakesIt
<1>2. /\ buffer \in Seq(1 .. arrived) /\ Len(buffer) \in Nat \ {0} /\ 1 \in DOMAIN buffer
      /\ buffer' \in Seq(1 .. arrived) /\ DOMAIN buffer' = 1 .. Len(buffer) - 1
      /\ \A j \in DOMAIN buffer' :
            j + 1 \in DOMAIN buffer /\ 1 < j + 1 /\ buffer'[j] = buffer[j + 1]
  BY <1>1 DEF DatagramInv, TypesInv
<1>3. /\ got' \in [Servers -> Nat] /\ TpcOK'
      /\ got'[t] = buffer[1] /\ buffer[1] \in 1 .. arrived
      /\ \A u \in Servers : u # t => got'[u] = got[u] /\ tpc'[u] = tpc[u]
  BY <1>1, <1>2 DEF DatagramInv, TypesInv, TpcOK
<1>4. TypesInv'
  BY <1>1, <1>2, <1>3 DEF DatagramInv, TypesInv, Holds
<1>5. SortedInv'
  BY <1>2 DEF DatagramInv, SortedInv
<1>6. \A j \in DOMAIN buffer' : buffer[1] < buffer'[j] /\ buffer[1] # buffer'[j]
  <2>1. \A j \in DOMAIN buffer' : buffer[1] < buffer'[j]
    BY <1>2 DEF DatagramInv, SortedInv
  <2>2. \A j \in DOMAIN buffer : buffer[j] \in 1 .. arrived
    BY <1>2, WiderSeq
  <2> QED  BY <1>2, <2>1, <2>2
<1>7. ApartInv'
  <2>1. \A i \in DOMAIN given, j \in DOMAIN buffer' : given[i] # buffer'[j]
    BY <1>2 DEF DatagramInv, ApartInv
  <2>2. ASSUME NEW u \in Servers, Holds(u)', NEW v \in Servers, Holds(v)', got'[u] = got'[v]
        PROVE  u = v
    BY <1>1, <1>2, <1>3, <2>2 DEF DatagramInv, ApartInv, Holds
  <2>3. ASSUME NEW u \in Servers, Holds(u)'
        PROVE  /\ \A i \in DOMAIN given : given[i] # got'[u]
               /\ \A j \in DOMAIN buffer' : got'[u] # buffer'[j]
    BY <1>1, <1>2, <1>3, <1>6, <2>3 DEF DatagramInv, ApartInv, Holds
  <2> QED  BY <1>1, <2>1, <2>2, <2>3 DEF DatagramInv, ApartInv
<1>8. InOrderInv'
  <2> SUFFICES ASSUME OneServer' PROVE InOrderInv'
    BY DEF InOrderInv
  <2>1. OneServer
    BY <1>1, <1>3, OneServerBefore DEF DatagramInv, TypesInv, TpcOK
  <2>2. \A u \in Servers : Holds(u)' => u = t
    BY <1>1, <1>3, <2>1 DEF OneServer, Holds
  <2>3. \A i \in DOMAIN given : given[i] < buffer[1]
    BY <1>2, <2>1 DEF DatagramInv, InOrderInv
  <2> QED  BY <1>1, <1>2, <1>3, <1>6, <2>1, <2>2, <2>3 DEF DatagramInv, InOrderInv
<1> QED  BY <1>4, <1>5, <1>7, <1>8 DEF DatagramInv

LEMMA GiveStep ==
    ASSUME DatagramInv, NEW t \in Servers, Check(t), HasData(got[t]) /\ registered
    PROVE  DatagramInv'
<1> DEFINE g == got[t]  m == Len(given) + 1
<1>1. /\ UNCHANGED <<arrived, buffer, got>> /\ Holds(t)
      /\ tpc' = [tpc EXCEPT ![t] = "callback"] /\ given' = Append(given, g)
  BY DEF Check, Holds, HasData, socket
<1>2. /\ given \in Seq(1 .. arrived) /\ Len(given) \in Nat /\ g \in 1 .. arrived
      /\ DOMAIN given = 1 .. Len(given)
  BY <1>1 DEF DatagramInv, TypesInv
<1>3. /\ given' \in Seq(1 .. arrived) /\ DOMAIN given' = 1 .. m /\ given'[m] = g
      /\ \A i \in DOMAIN given' : i # m => i \in DOMAIN given /\ i < m /\ given'[i] = given[i]
  BY <1>1, <1>2
<1>4. TpcOK' /\ \A u \in Servers : Holds(u)' => u # t /\ Holds(u)
  BY <1>1 DEF DatagramInv, TypesInv, TpcOK, Holds
<1> HIDE DEF g, m
<1>5. TypesInv' /\ SortedInv'
  BY <1>1, <1>3, <1>4 DEF DatagramInv, TypesInv, SortedInv
<1>6. /\ \A i \in DOMAIN given : given[i] # g
      /\ \A j \in DOMAIN buffer : g # buffer[j]
      /\ \A u \in Servers : Holds(u)' => got[u] # g
  BY <1>1, <1>4 DEF DatagramInv, ApartInv, g
<1>7. ApartInv'
  <2>1. \A i, j \in DOMAIN given' : given'[i] = given'[j] => i = j
    BY <1>3, <1>6 DEF DatagramInv, ApartInv
  <2>2. \A i \in DOMAIN given', j \in DOMAIN buffer : given'[i] # buffer[j]
    BY <1>3, <1>6 DEF DatagramInv, ApartInv
  <2>3. \A u \in Servers : Holds(u)' => \A i \in DOMAIN given' : given'[i] # got[u]
    BY <1>3, <1>4, <1>6 DEF DatagramInv, ApartInv
  <2>4. \A u, v \in Servers : Holds(u)' /\ Holds(v)' /\ got[v] = got[u] => v = u
    BY <1>4 DEF DatagramInv, ApartInv
  <2>5. \A u \in Servers : Holds(u)' => \A j \in DOMAIN buffer : got[u] # buffer[j]
    BY <1>4 DEF DatagramInv, ApartInv
  <2> QED  BY <1>1, <2>1, <2>2, <2>3, <2>4, <2>5 DEF ApartInv
<1>8. InOrderInv'
  <2> SUFFICES ASSUME OneServer' PROVE InOrderInv'
    BY DEF InOrderInv
  <2>1. OneServer
    BY <1>1, <1>4, OneServerBefore DEF DatagramInv, TypesInv, TpcOK
  <2>2. \A u \in Servers : ~Holds(u)'
    BY <1>1, <1>4, <2>1 DEF OneServer, Holds
  <2>3. /\ \A i \in DOMAIN given : given[i] < g
        /\ \A j \in DOMAIN buffer : g < buffer[j]
        /\ \A i, j \in DOMAIN given : i < j => given[i] < given[j]
        /\ \A i \in DOMAIN given, j \in DOMAIN buffer : given[i] < buffer[j]
    BY <1>1, <2>1 DEF DatagramInv, InOrderInv, g
  <2>4. \A i, j \in DOMAIN given' : i < j => given'[i] < given'[j]
    <3>1. m \in Nat /\ DOMAIN given' \subseteq Nat /\ \A j \in DOMAIN given' : j <= m
      BY <1>2, <1>3 DEF m
    <3> QED  BY <1>3, <2>3, <3>1
  <2>5. \A i \in DOMAIN given', j \in DOMAIN buffer : given'[i] < buffer[j]
    BY <1>3, <2>3
  <2> QED  BY <1>1, <2>2, <2>4, <2>5 DEF InOrderInv
<1> QED  BY <1>5, <1>7, <1>8 DEF DatagramInv

LEMMA DatagramStep == DatagramInv /\ [UdpNext]_udpVars => DatagramInv'
<1> SUFFICES ASSUME DatagramInv, [UdpNext]_udpVars PROVE DatagramInv'
  OBVIOUS
<1>1. TpcOK /\ got \in [Servers -> Nat]
  BY DEF DatagramInv, TypesInv
<1>2. ASSUME UNCHANGED <<buffer, arrived, tpc, got, given>> PROVE DatagramInv'
  BY <1>1, <1>2, QuietStep DEF TpcOK, Holds
<1>3. CASE InitServer \/ BindSocket \/ ConnectPeer \/ RegisterDataCallback \/ Destroy \/ StopServerThread
  BY <1>2, <1>3 DEF InitServer, BindSocket, ConnectPeer, RegisterDataCallback, Destroy, StopServerThread,
                    socket, threads
<1>4. ASSUME NEW t \in Servers, NEW label \in {"start", "recv", "callback", "done"},
             tpc' = [tpc EXCEPT ![t] = label], got' = got \/ got' = [got EXCEPT ![t] = 0],
             UNCHANGED <<buffer, arrived, given>>
      PROVE  DatagramInv'
  <2>1. TpcOK' /\ got' \in [Servers -> Nat]
    BY <1>1, <1>4 DEF TpcOK
  <2>2. \A u \in Servers : tpc'[u] = "check" /\ got'[u] # 0 => Holds(u) /\ got'[u] = got[u]
    BY <1>1, <1>4 DEF TpcOK, Holds
  <2>3. \A u \in Servers : tpc[u] # "new" => tpc'[u] # "new"
    BY <1>1, <1>4 DEF TpcOK
  <2> QED  BY <1>4, <2>1, <2>2, <2>3, QuietStep
<1>5. ASSUME NEW t \in Servers, StartServerThread(t) PROVE DatagramInv'
  BY <1>4, <1>5 DEF StartServerThread, socket
<1>6. ASSUME NEW t \in Servers, ServerStep(t) PROVE DatagramInv'
  <2>1. CASE Begin(t)
    <3>1. PICK label \in {"recv", "done"} : tpc' = [tpc EXCEPT ![t] = label]
      BY <2>1 DEF Begin
    <3> QED  BY <1>4, <2>1, <3>1 DEF Begin, socket
  <2>2. CASE Recv(t)  BY <2>2, RecvStep
  <2>6. CASE RecvError(t)
    <3>1. /\ tpc' = [tpc EXCEPT ![t] = "check"] /\ got' = [got EXCEPT ![t] = 0]
          /\ UNCHANGED <<buffer, arrived, given>> /\ tpc[t] = "recv"
      BY <2>6 DEF RecvError
    <3>2. TpcOK' /\ got' \in [Servers -> Nat]
      BY <1>1, <3>1 DEF TpcOK
    <3>3. /\ \A u \in Servers : tpc'[u] = "check" /\ got'[u] # 0 => Holds(u) /\ got'[u] = got[u]
          /\ \A u \in Servers : tpc[u] # "new" => tpc'[u] # "new"
      BY <1>1, <3>1 DEF TpcOK, Holds
    <3> QED  BY <3>1, <3>2, <3>3, QuietStep
  <2>3. CASE Check(t)
    <3>1. CASE HasData(got[t]) /\ registered
      BY <2>3, <3>1, GiveStep
    <3>2. CASE ~(HasData(got[t]) /\ registered)
      BY <1>4, <2>3, <3>2 DEF Check, NextTurn, socket
    <3> QED  BY <3>1, <3>2
  <2>4. CASE CallbackReturns(t)
    BY <1>4, <2>4 DEF CallbackReturns, socket
  <2>5. CASE Cancelled(t)
    BY <1>4, <2>5 DEF Cancelled, socket
  <2> QED  BY <1>6, <2>1, <2>2, <2>3, <2>4, <2>5, <2>6 DEF ServerStep
<1>7. CASE UNCHANGED udpVars
  BY <1>2, <1>7 DEF udpVars, socket, threads
<1> QED  BY <1>3, <1>5, <1>6, <1>7, ArriveStep DEF UdpNext

\* No datagram is given to the callback twice, however many threads serve.
THEOREM UdpGivenOnce == UdpSpec => []GivenOnce
<1>1. DatagramInv => GivenOnce
  <2> SUFFICES ASSUME DatagramInv PROVE GivenOnce
    OBVIOUS
  <2>1. \A i \in DOMAIN given : given[i] # 0
    BY DEF DatagramInv, TypesInv
  <2> QED  BY <2>1 DEF DatagramInv, ApartInv, GivenOnce, ItemsOf, Held, Holds
<1> QED  BY <1>1, DatagramInit, DatagramStep, PTL DEF UdpSpec

\* One thread gives the datagrams in the order of their arrival.
THEOREM UdpGivenInOrder == UdpSpec => []GivenInOrder
<1>1. DatagramInv => GivenInOrder
  BY DEF DatagramInv, InOrderInv, GivenInOrder
<1> QED  BY <1>1, DatagramInit, DatagramStep, PTL DEF UdpSpec

\* Every variable keeps its type: beside the datagrams, the server and what is
\* known of its threads.
PlainTypes ==
    /\ life \in {"none", "opened", "bound", "alive", "failed", "destroyed"}
    /\ open \in BOOLEAN /\ registered \in BOOLEAN /\ broken \in BOOLEAN
    /\ arrived <= MaxArrivals /\ blank \subseteq 1 .. arrived /\ Len(buffer) <= Room
    /\ \A t \in Servers : got[t] <= arrived
    /\ threadId \in Servers \cup {NULL} /\ cancelled \subseteq Servers
    /\ stopped \subseteq Servers /\ late \in [Servers -> Nat]

LEMMA PlainTypesStep == DatagramInv /\ PlainTypes /\ [UdpNext]_udpVars => PlainTypes'
<1> SUFFICES ASSUME DatagramInv, PlainTypes, [UdpNext]_udpVars PROVE PlainTypes'
  OBVIOUS
<1> USE DEF PlainTypes
<1>1. arrived \in Nat /\ got \in [Servers -> Nat] /\ buffer \in Seq(1 .. arrived)
  BY DEF DatagramInv, TypesInv
<1>2. ASSUME NEW t \in Servers, NEW n \in 0 .. arrived, got' = [got EXCEPT ![t] = n],
             arrived' = arrived
      PROVE  \A u \in Servers : got'[u] <= arrived'
  BY <1>1, <1>2
<1>3. CASE InitServer \/ BindSocket \/ ConnectPeer \/ RegisterDataCallback \/ Destroy \/ StopServerThread
  BY <1>3 DEF InitServer, BindSocket, ConnectPeer, RegisterDataCallback, Destroy, StopServerThread,
              CloseSocket, CancelsThread, object, socket, threads
<1>4. CASE Arrive
  <2>1. /\ arrived' = arrived + 1 /\ arrived' <= MaxArrivals
        /\ blank' \in {blank, blank \cup {arrived'}}
        /\ UNCHANGED <<object, broken, threads, stopped, late>>
    BY <1>1, <1>4, UdpAssumption DEF Arrive, UdpAssumption
  <2>2. Len(buffer') <= Room
    BY <1>1, <1>4, UdpAssumption DEF Arrive, HasRoom, UdpAssumption
  <2>3. blank' \subseteq 1 .. arrived' /\ \A t \in Servers : got'[t] <= arrived'
    BY <1>1, <2>1 DEF threads
  <2> QED  BY <2>1, <2>2, <2>3 DEF object, threads
<1>8. CASE ErrorArrives
  <2>1. /\ arrived' = arrived + 1 /\ arrived' <= MaxArrivals
        /\ UNCHANGED <<object, buffer, blank, threads, stopped, late>> /\ broken' = TRUE
    BY <1>1, <1>8, UdpAssumption DEF ErrorArrives, UdpAssumption
  <2>2. blank' \subseteq 1 .. arrived' /\ \A t \in Servers : got'[t] <= arrived'
    BY <1>1, <2>1 DEF threads
  <2> QED  BY <2>1, <2>2 DEF object, threads
<1>5. ASSUME NEW t \in Servers, StartServerThread(t) PROVE PlainTypes'
  BY <1>5 DEF StartServerThread, object, socket
<1>6. ASSUME NEW t \in Servers, ServerStep(t) PROVE PlainTypes'
  <2>1. CASE Begin(t)
    BY <2>1 DEF Begin, object, socket
  <2>2. CASE Recv(t)
    <3>1. /\ UNCHANGED <<object, arrived, blank, broken, threadId, cancelled, stopped, late>>
          /\ buffer # <<>> /\ buffer' = Tail(buffer) /\ got' = [got EXCEPT ![t] = Head(buffer)]
      BY <2>2 DEF Recv, TakesIt
    <3>2. Head(buffer) \in 1 .. arrived /\ Len(buffer') <= Len(buffer) /\ Len(buffer) \in Nat
      BY <1>1, <3>1
    <3>3. Len(buffer') <= Room
      BY <1>1, <3>1, <3>2, UdpAssumption DEF UdpAssumption
    <3>4. \A u \in Servers : got'[u] <= arrived'
      <4>1. Head(buffer) \in 0 .. arrived
        BY <1>1, <3>2
      <4> QED  BY <1>2, <3>1, <4>1
    <3> QED  BY <3>1, <3>3, <3>4 DEF object
  <2>5. CASE RecvError(t)
    <3>1. /\ UNCHANGED <<object, buffer, arrived, blank, threadId, cancelled, stopped, late>>
          /\ broken' \in BOOLEAN /\ got' = [got EXCEPT ![t] = 0]
      BY <2>5 DEF RecvError
    <3>2. \A u \in Servers : got'[u] <= arrived'
      BY <1>1, <1>2, <3>1
    <3> QED  BY <3>1, <3>2 DEF object
  <2>3. CASE Check(t)
    <3>1. /\ UNCHANGED <<object, socket, threadId, cancelled, stopped>>
          /\ got' = got \/ got' = [got EXCEPT ![t] = 0]
      BY <2>3 DEF Check
    <3>2. late' \in [Servers -> Nat]
      BY <2>3 DEF Check
    <3>3. \A u \in Servers : got'[u] <= arrived'
      BY <1>1, <1>2, <3>1 DEF socket
    <3> QED  BY <3>1, <3>2, <3>3 DEF object, socket
  <2>4. CASE CallbackReturns(t) \/ Cancelled(t)
    <3>1. /\ UNCHANGED <<object, socket, threadId, cancelled, stopped, late>>
          /\ got' = [got EXCEPT ![t] = 0]
      BY <2>4 DEF CallbackReturns, Cancelled
    <3>2. \A u \in Servers : got'[u] <= arrived'
      BY <1>1, <1>2, <3>1 DEF socket
    <3> QED  BY <3>1, <3>2 DEF object, socket
  <2> QED  BY <1>6, <2>1, <2>2, <2>3, <2>4, <2>5 DEF ServerStep
<1>7. CASE UNCHANGED udpVars
  BY <1>7 DEF udpVars, object, socket, threads
<1> QED  BY <1>3, <1>4, <1>5, <1>6, <1>7, <1>8 DEF UdpNext

\* Every variable keeps its type, the numbers of datagrams among them.
THEOREM UdpTypeCorrect == UdpSpec => []UdpTypeOK
<1>1. UdpInit => PlainTypes
  <2> SUFFICES ASSUME UdpInit PROVE PlainTypes
    OBVIOUS
  <2>1. arrived <= MaxArrivals /\ Len(buffer) <= Room
    BY UdpAssumption DEF UdpInit, UdpAssumption
  <2>2. blank \subseteq 1 .. arrived /\ \A t \in Servers : got[t] <= arrived
    BY DEF UdpInit
  <2> QED  BY <2>1, <2>2 DEF UdpInit, PlainTypes
<1>2. DatagramInv /\ PlainTypes => UdpTypeOK
  <2>1. ASSUME DatagramInv, PlainTypes PROVE got \in [Servers -> 0 .. arrived]
    <3>1. arrived \in Nat /\ got \in [Servers -> Nat] /\ \A t \in Servers : got[t] <= arrived
      BY <2>1 DEF DatagramInv, TypesInv, PlainTypes
    <3>2. ASSUME NEW t \in Servers PROVE got[t] \in 0 .. arrived
      <4>1. got[t] \in Nat /\ got[t] <= arrived
        BY <3>1
      <4> QED  BY <3>1, <4>1
    <3> QED  BY <3>1, <3>2
  <2>2. ASSUME DatagramInv, PlainTypes PROVE arrived \in 0 .. MaxArrivals
    BY <2>2, UdpAssumption DEF DatagramInv, TypesInv, PlainTypes, UdpAssumption
  <2> QED  BY <2>1, <2>2 DEF DatagramInv, TypesInv, TpcOK, PlainTypes, UdpTypeOK
<1> QED  BY <1>1, <1>2, DatagramInit, DatagramStep, PlainTypesStep, PTL DEF UdpSpec
=============================================================================
