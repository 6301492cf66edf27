-------------------------- MODULE Messaging_proofs --------------------------
(***************************************************************************)
(* Proofs about Messaging and TcpMessaging.                                *)
(*                                                                         *)
(* The bytes that are held or on the wire are, before a send fails half    *)
(* way, the frames of the messages sent and not yet taken, one after the   *)
(* other, and as much of the next frame as has been written.  That the     *)
(* receiver finds the frames again rests on the length field: it reads the *)
(* number that was written, whatever the base and the width, and the sum   *)
(* it compares with does not wrap for a message that fits (MessagesFit).   *)
(***************************************************************************)
EXTENDS TcpMessaging, DataLemmas, SequenceTheorems

----------------------------------------------------------------------------
(* Division, and the length field *)

\* A product of positive naturals is one.
LEMMA Products ==
    ASSUME NEW a \in Nat \ {0}, NEW b \in Nat \ {0}
    PROVE  a * b \in Nat \ {0}
OBVIOUS

\* A quotient is the only one with a remainder less than the divisor.
LEMMA OneQuotient ==
    ASSUME NEW d \in Nat \ {0}, NEW q \in Nat, NEW p \in Nat, NEW r \in Nat, NEW s \in Nat,
           r < d, s < d, d * q + r = d * p + s
    PROVE  q = p /\ r = s
<1>1. ASSUME NEW u \in Nat, NEW v \in Nat, u < v PROVE d * u + d <= d * v
  <2>1. u + 1 <= v
    BY <1>1
  <2>2. d * (v - (u + 1)) >= 0
    BY <2>1
  <2> QED  BY <2>2
<1>2. ~(q < p)
  BY <1>1, d * q \in Nat, d * p \in Nat
<1>3. ~(p < q)
  BY <1>1, d * q \in Nat, d * p \in Nat
<1>4. q = p
  BY <1>2, <1>3
<1> QED  BY <1>4, d * q \in Nat

\* Division by a natural, and the remainder.
LEMMA Division ==
    ASSUME NEW n \in Nat, NEW d \in Nat \ {0}
    PROVE  /\ n \div d \in Nat /\ n % d \in Nat /\ n % d < d
           /\ n = d * (n \div d) + (n % d)
OBVIOUS

\* Division by a product is division by its factors, one after the other.
LEMMA DivisionByFactors ==
    ASSUME NEW n \in Nat, NEW a \in Nat \ {0}, NEW b \in Nat \ {0}
    PROVE  n \div (b * a) = (n \div a) \div b
<1> DEFINE q == n \div a  r == n % a  u == q \div b  s == q % b
           c == b * a
<1>1. q \in Nat /\ r \in Nat /\ r < a /\ n = a * q + r
  BY Division
<1>2. u \in Nat /\ s \in Nat /\ s < b /\ q = b * u + s
  BY <1>1, Division
<1>3. c \in Nat \ {0}
  BY Products
<1>4. (n \div c) \in Nat /\ (n % c) \in Nat /\ n % c < c /\ n = c * (n \div c) + (n % c)
  BY <1>3, Division
<1> HIDE DEF q, r, u, s
<1>5. n = c * u + (a * s + r)
  <2>1. a * (b * u + s) = c * u + a * s
    BY <1>2, <1>3
  <2> QED  BY <1>1, <1>2, <2>1
<1>6. a * s + r \in Nat /\ a * s + r < c
  <2>1. a * (b - (s + 1)) \in Nat
    BY <1>2
  <2>2. a * (b - (s + 1)) = c - a * s - a
    BY <1>2
  <2>3. a * s \in Nat
    BY <1>2
  <2> QED  BY <1>1, <1>3, <2>1, <2>2, <2>3
<1> DEFINE t == a * s + r  v == n \div c  w == n % c
<1>7. c * v + w = c * u + t /\ v \in Nat /\ w \in Nat /\ w < c /\ t \in Nat /\ t < c
  BY <1>4, <1>5, <1>6
<1> HIDE DEF c, t, v, w
<1>8. v = u
  BY <1>2, <1>3, <1>7, OneQuotient
<1> QED  BY <1>8 DEF u, q, c, v

\* Powers of the base.
LEMMA Powers ==
    /\ Power \in [0 .. LengthBytes -> Nat \ {0}]
    /\ Power[0] = 1 /\ \A i \in 1 .. LengthBytes : Power[i] = Base * Power[i - 1]
<1> DEFINE V == Nat \ {0}
           D == 0 .. LengthBytes
           G == [i \in 1 .. LengthBytes |-> [v \in V |-> Base * v]]
<1>0. Base \in Nat \ {0} /\ LengthBytes \in Nat
  BY MessagingAssumption
<1>1. /\ 1 \in V /\ G \in [1 .. LengthBytes -> [V -> V]]
      /\ \A i \in 1 .. LengthBytes, v \in V : G[i][v] = Base * v
  <2>1. \A v \in V : Base * v \in V
    BY <1>0, Products
  <2> HIDE DEF V
  <2>2. [v \in V |-> Base * v] \in [V -> V]
    BY <2>1
  <2>3. 1 \in V
    BY DEF V
  <2> QED  BY <2>2, <2>3
<1> HIDE DEF V, G
<1>2. PICK f \in [0 .. LengthBytes -> V] : Iterates(f, 1, LengthBytes, G)
  BY <1>0, <1>1, IterationDefines
<1>3. f = [n \in D |-> IF n = 0 THEN 1 ELSE Base * f[n - 1]]
  <2>1. ASSUME NEW n \in D, n # 0 PROVE f[n] = Base * f[n - 1]
    <3>1. n \in 1 .. LengthBytes /\ n - 1 \in 0 .. LengthBytes
      BY <1>0, <2>1
    <3>2. f[n - 1] \in V
      BY <1>2, <3>1
    <3> QED  BY <1>1, <1>2, <3>1, <3>2 DEF Iterates
  <2> QED  BY <1>2, <2>1 DEF Iterates
<1>4. Power = [n \in D |-> IF n = 0 THEN 1 ELSE Base * Power[n - 1]]
  BY <1>3, Zenon DEF Power
<1>5. \A i \in 1 .. LengthBytes : Power[i] = Base * Power[i - 1]
  BY <1>0, <1>4
<1>6. ASSUME NEW i \in D PROVE Power[i] \in V
  <2> DEFINE S == {k \in Nat : k <= LengthBytes => Power[k] \in V}
  <2>1. 0 \in S
    BY <1>0, <1>1, <1>4
  <2>2. ASSUME NEW k \in Nat, k \in S PROVE k + 1 \in S
    <3>0. SUFFICES ASSUME k + 1 <= LengthBytes PROVE Power[k + 1] \in V
      OBVIOUS
    <3>1. k + 1 \in 1 .. LengthBytes /\ (k + 1) - 1 = k /\ Power[k] \in V
      BY <1>0, <2>2, <3>0
    <3>2. Power[k + 1] = Base * Power[k]
      BY <1>5, <3>1
    <3> QED  BY <1>0, <3>1, <3>2, Products DEF V
  <2>3. Nat \subseteq S
    <3> HIDE DEF S
    <3> QED  BY <2>1, <2>2, NaturalsByInduction
  <2> QED  BY <1>0, <2>3
<1>7. Power = [i \in D |-> Power[i]]
  BY <1>4
<1>8. Power[0] = 1
  BY <1>0, <1>4
<1>9. Power \in [D -> V]
  BY <1>6, <1>7
<1> QED  BY <1>5, <1>8, <1>9 DEF V


\* What processChunk computes from the bytes of a header, one after the other.
LEMMA LengthRead ==
    ASSUME NEW h \in Seq(Bytes), Len(h) = HeaderSize
    PROVE  \E value \in [0 .. LengthBytes -> Nat] :
               /\ value[0] = 0
               /\ \A i \in 1 .. LengthBytes : value[i] = value[i - 1] * Base + h[i + 1]
               /\ LengthIn(h) = value[LengthBytes]
<1> DEFINE D == 0 .. LengthBytes
           G == [i \in 1 .. LengthBytes |-> [v \in Nat |-> v * Base + h[i + 1]]]
           value == CHOOSE value : value = [i \in D |-> IF i = 0 THEN 0 ELSE value[i - 1] * Base + h[i + 1]]
<1>0. Base \in Nat \ {0} /\ LengthBytes \in Nat
  BY MessagingAssumption
<1>1. \A i \in 1 .. LengthBytes, v \in Nat : v * Base + h[i + 1] \in Nat
  <2>1. ASSUME NEW i \in 1 .. LengthBytes, NEW v \in Nat PROVE v * Base + h[i + 1] \in Nat
    <3>1. h[i + 1] \in Nat
      BY <1>0 DEF Bytes, HeaderSize
    <3> QED  BY <1>0, <3>1
  <2> QED  BY <2>1
<1>2. G \in [1 .. LengthBytes -> [Nat -> Nat]]
  BY <1>1
<1>3. \A i \in 1 .. LengthBytes, v \in Nat : G[i][v] = v * Base + h[i + 1]
  OBVIOUS
<1> HIDE DEF G
<1>4. PICK f \in [0 .. LengthBytes -> Nat] : Iterates(f, 0, LengthBytes, G)
  BY <1>0, <1>2, IterationDefines
<1>5. \A i \in 1 .. LengthBytes : i - 1 \in 0 .. LengthBytes
  BY <1>0
<1>6. \A i \in 1 .. LengthBytes : f[i] = f[i - 1] * Base + h[i + 1]
  BY <1>3, <1>4, <1>5 DEF Iterates
<1>7. \A i \in D : i # 0 => i \in 1 .. LengthBytes
  BY <1>0
<1>8. f = [i \in D |-> IF i = 0 THEN 0 ELSE f[i - 1] * Base + h[i + 1]]
  BY <1>4, <1>6, <1>7 DEF Iterates
<1>9. value = [i \in D |-> IF i = 0 THEN 0 ELSE value[i - 1] * Base + h[i + 1]]
  BY <1>8, Zenon
<1>10. LengthIn(h) = value[LengthBytes]
  BY Zenon DEF LengthIn
<1> HIDE DEF value
<1>11. value[0] = 0 /\ \A i \in 1 .. LengthBytes : value[i] = value[i - 1] * Base + h[i + 1]
  BY <1>0, <1>9
<1>12. ASSUME NEW i \in D PROVE value[i] \in Nat
  <2> DEFINE S == {k \in Nat : k <= LengthBytes => value[k] \in Nat}
  <2>1. 0 \in S
    BY <1>11
  <2>2. ASSUME NEW k \in Nat, k \in S PROVE k + 1 \in S
    <3>0. SUFFICES ASSUME k + 1 <= LengthBytes PROVE value[k + 1] \in Nat
      OBVIOUS
    <3>1. k + 1 \in 1 .. LengthBytes /\ (k + 1) - 1 = k /\ value[k] \in Nat
      BY <1>0, <2>2, <3>0
    <3>2. value[k + 1] = value[k] * Base + h[(k + 1) + 1]
      BY <1>11, <3>1
    <3>3. value[k] * Base + h[(k + 1) + 1] \in Nat
      BY <1>1, <3>1
    <3> QED  BY <3>2, <3>3
  <2>3. Nat \subseteq S
    <3> HIDE DEF S
    <3> QED  BY <2>1, <2>2, NaturalsByInduction
  <2> QED  BY <1>0, <2>3
<1>13. value = [i \in D |-> value[i]]
  BY <1>9
<1>14. value \in [0 .. LengthBytes -> Nat]
  BY <1>12, <1>13
<1> QED  BY <1>10, <1>11, <1>14

\* A header.
LEMMA Headers ==
    ASSUME NEW n \in Nat
    PROVE  /\ Header(n) \in Seq(Bytes) /\ Len(Header(n)) = HeaderSize /\ Header(n)[1] = STX
           /\ \A i \in 1 .. LengthBytes : Header(n)[i + 1] = (n \div Power[LengthBytes - i]) % Base
<1>0. Base \in Nat \ {0} /\ Base > 3 /\ LengthBytes \in Nat
  BY MessagingAssumption
<1>1. ASSUME NEW i \in 1 .. LengthBytes PROVE (n \div Power[LengthBytes - i]) % Base \in Bytes
  <2>1. LengthBytes - i \in 0 .. LengthBytes
    BY <1>0
  <2>2. Power[LengthBytes - i] \in Nat \ {0}
    BY <2>1, Powers
  <2>3. n \div Power[LengthBytes - i] \in Nat
    BY <2>2, Division
  <2> HIDE DEF Power
  <2>4. (n \div Power[LengthBytes - i]) % Base \in 0 .. Base - 1
    BY <1>0, <2>3, Division
  <2> QED  BY <2>4 DEF Bytes
<1>2. LengthField(n) \in [1 .. LengthBytes -> Bytes]
  BY <1>1 DEF LengthField
<1>3. LengthField(n) \in Seq(Bytes) /\ Len(LengthField(n)) = LengthBytes
  BY <1>0, <1>2
<1>4. STX \in Bytes
  BY <1>0 DEF STX, Bytes
<1>5. \A i \in 1 .. LengthBytes : LengthField(n)[i] = (n \div Power[LengthBytes - i]) % Base
  BY DEF LengthField
<1> QED  BY <1>0, <1>3, <1>4, <1>5 DEF Header, HeaderSize

\* The receiver reads the length that the sender has written.
LEMMA LengthSurvives ==
    ASSUME NEW n \in Nat, n < UINT
    PROVE  LengthIn(Header(n)) = n
<1>0. Base \in Nat \ {0} /\ LengthBytes \in Nat /\ LengthBytes - 0 = LengthBytes
  BY MessagingAssumption
<1>1. PICK value \in [0 .. LengthBytes -> Nat] :
          /\ value[0] = 0
          /\ \A i \in 1 .. LengthBytes : value[i] = value[i - 1] * Base + Header(n)[i + 1]
          /\ LengthIn(Header(n)) = value[LengthBytes]
  BY Headers, LengthRead
<1> DEFINE S == {k \in Nat : k <= LengthBytes => value[k] = n \div Power[LengthBytes - k]}
<1>2. 0 \in S
  <2>1. Power[LengthBytes] \in Nat \ {0} /\ n < Power[LengthBytes]
    BY <1>0, Powers DEF UINT
  <2>2. n \div Power[LengthBytes] = 0
    BY <2>1, OneQuotient, Division
  <2> QED  BY <1>0, <1>1, <2>2
<1>3. ASSUME NEW k \in Nat, k \in S PROVE k + 1 \in S
  <2>0. SUFFICES ASSUME k + 1 <= LengthBytes PROVE value[k + 1] = n \div Power[LengthBytes - (k + 1)]
    OBVIOUS
  <2> DEFINE i == k + 1  P == Power[LengthBytes - i]  q == n \div P
  <2>1. /\ i \in 1 .. LengthBytes /\ i - 1 = k /\ value[k] = n \div Power[LengthBytes - k]
        /\ LengthBytes - k \in 1 .. LengthBytes /\ (LengthBytes - k) - 1 = LengthBytes - i
        /\ LengthBytes - i \in 0 .. LengthBytes
    BY <1>0, <1>3, <2>0
  <2>2. P \in Nat \ {0} /\ Power[LengthBytes - k] = Base * P
    BY <2>1, Powers
  <2>3. q \in Nat
    BY <2>2, Division
  <2>4. value[i] = value[k] * Base + (q % Base)
    BY <1>1, <2>1, Headers
  <2> HIDE DEF P
  <2>5. value[k] = q \div Base
    <3>1. n \div (Base * P) = (n \div P) \div Base
      BY <1>0, <2>2, DivisionByFactors
    <3> QED  BY <2>1, <2>2, <3>1 DEF q
  <2> HIDE DEF q
  <2>6. q = Base * (q \div Base) + (q % Base) /\ q \div Base \in Nat
    BY <1>0, <2>3, Division
  <2>7. value[i] = q
    BY <1>0, <2>4, <2>5, <2>6
  <2> QED  BY <2>7 DEF q, P
<1>4. Nat \subseteq S
  <2> HIDE DEF S
  <2> QED  BY <1>2, <1>3, NaturalsByInduction
<1>5. value[LengthBytes] = n \div Power[0] /\ Power[0] = 1
  BY <1>0, <1>4, Powers
<1> QED  BY <1>1, <1>5


----------------------------------------------------------------------------
(* Types *)

\* What is being sent, and how far, in the parts of sendMessage.
SendInv ==
    /\ part # "idle" => msg \in Messages
    /\ part = "trailer" => bytesSent = 0

TypeInv == TypeOK /\ SendInv

\* The constants, and the numbers made of them.
LEMMA ConstantTypes ==
    /\ Base \in Nat \ {0} /\ Base > 3 /\ LengthBytes \in Nat \ {0} /\ UINT \in Nat \ {0}
    /\ HeaderSize \in Nat /\ HeaderSize > 0 /\ TrailerSize = 1
    /\ STX \in Bytes /\ ETX \in Bytes /\ Messages \subseteq Seq(Bytes)
    /\ SendRetry \in Nat \ {0} /\ MaxSends \in Nat
<1>1. LengthBytes \in 0 .. LengthBytes
  BY MessagingAssumption
<1>2. UINT \in Nat \ {0}
  BY <1>1, Powers DEF UINT
<1> QED  BY <1>2, MessagingAssumption DEF HeaderSize, TrailerSize, STX, ETX, Bytes

\* A message is bytes.
LEMMA MessageType ==
    ASSUME NEW m \in Messages \cup {<<>>}
    PROVE  m \in Seq(Bytes) /\ Len(m) \in Nat
<1>1. m \in Seq(Bytes)
  <2>1. <<>> \in Seq(Bytes)
    OBVIOUS
  <2>2. Messages \subseteq Seq(Bytes)
    BY ConstantTypes
  <2> QED  BY <2>1, <2>2, Zenon
<1> QED  BY <1>1

\* The bytes that xmitWithRetry is given.
LEMMA PieceType ==
    ASSUME TypeOK
    PROVE  Piece \in Seq(Bytes) /\ msg \in Seq(Bytes) /\ Len(msg) \in Nat
<1>1. msg \in Seq(Bytes) /\ Len(msg) \in Nat
  BY MessageType DEF TypeOK
<1>2. Header(Len(msg)) \in Seq(Bytes)
  BY <1>1, Headers
<1>3. <<ETX>> \in Seq(Bytes) /\ <<>> \in Seq(Bytes)
  BY ConstantTypes
<1> QED  BY <1>1, <1>2, <1>3 DEF Piece

\* Nothing is left to send of a part that has been sent.
LEMMA BeginKeeps ==
    ASSUME TypeOK, NEW p \in {"idle", "header", "body", "trailer"}, Begin(p), msg' \in Messages \cup {<<>>}
    PROVE  /\ part' = p /\ bytesSent' = 0 /\ retryCounter' = 0
           /\ bytesSent' \in 0 .. Len(Piece)' /\ retryCounter' \in 0 .. SendRetry - 1
<1>1. part' = p /\ bytesSent' = 0 /\ retryCounter' = 0
  BY DEF Begin
<1>2. msg' \in Seq(Bytes) /\ Len(msg') \in Nat
  BY MessageType
<1>3. Header(Len(msg')) \in Seq(Bytes)
  BY <1>2, Headers
<1>4. Piece' \in Seq(Bytes)
  BY <1>1, <1>2, <1>3, ConstantTypes DEF Piece
<1>5. Len(Piece') \in Nat
  BY <1>4
<1> QED  BY <1>1, <1>5, ConstantTypes

\* The length in a header is a natural, and so is the length of the frame.
LEMMA MsgLengthType ==
    ASSUME TypeOK, HeaderIsHere
    PROVE  /\ MsgLength \in Nat /\ Needed \in Nat
           /\ FrameLength \in Nat /\ FrameLength = HeaderSize + MsgLength + 1
<1> DEFINE h == SubSeq(held, 1, HeaderSize)
<1>1. h \in Seq(Bytes) /\ Len(h) = HeaderSize
  BY ConstantTypes DEF TypeOK, HeaderIsHere
<1> HIDE DEF h
<1>2. LengthIn(h) \in Nat
  <2>1. LengthBytes \in 0 .. LengthBytes
    BY ConstantTypes
  <2> QED  BY <1>1, <2>1, LengthRead
<1>3. MsgLength \in Nat
  BY <1>2 DEF MsgLength, h
<1>4. FrameLength \in Nat /\ FrameLength = HeaderSize + MsgLength + 1
  BY <1>3, ConstantTypes DEF FrameLength
<1>5. MsgLength + HeaderSize + TrailerSize \in Nat
  BY <1>3, ConstantTypes
<1>6. Needed \in Nat
  BY <1>5, ConstantTypes, Division DEF Needed
<1> QED  BY <1>3, <1>4, <1>6

\* The types hold at first.
LEMMA TypeInit == Init => TypeInv
<1>1. ASSUME Init PROVE TypeOK
  <2>1. Piece = <<>>
    BY <1>1 DEF Init, Piece
  <2>2. bytesSent \in 0 .. Len(Piece) /\ retryCounter \in 0 .. SendRetry - 1 /\ calls \in 0 .. MaxSends
    BY <1>1, <2>1, ConstantTypes DEF Init
  <2>3. \A T : <<>> \in Seq(T)
    OBVIOUS
  <2>4. /\ part \in {"idle", "header", "body", "trailer"} /\ msg \in Messages \cup {<<>>}
        /\ inLoop \in BOOLEAN /\ results \in BOOLEAN /\ failed \in BOOLEAN
    BY <1>1 DEF Init
  <2>5. wire \in Seq(Bytes) /\ held \in Seq(Bytes) /\ sent \in Seq(Messages)
    BY <1>1, <2>3, Zenon DEF Init
  <2>6. msgQueue \in Seq(Seq(Bytes) \cup {NULL}) /\ received \in Seq(Seq(Bytes) \cup {NULL})
    BY <1>1, <2>3, Zenon DEF Init
  <2> QED  BY <2>2, <2>4, <2>5, <2>6 DEF TypeOK
<1> QED  BY <1>1 DEF TypeInv, SendInv, Init


\* The types of either end.
SendTypes ==
    /\ part \in {"idle", "header", "body", "trailer"} /\ msg \in Messages \cup {<<>>}
    /\ bytesSent \in 0 .. Len(Piece) /\ retryCounter \in 0 .. SendRetry - 1
    /\ calls \in 0 .. MaxSends /\ failed \in BOOLEAN /\ sent \in Seq(Messages)
    /\ SendInv
RecvTypes ==
    /\ held \in Seq(Bytes) /\ inLoop \in BOOLEAN /\ results \in BOOLEAN
    /\ msgQueue \in Seq(Seq(Bytes) \cup {NULL}) /\ received \in Seq(Seq(Bytes) \cup {NULL})

\* The types are those of the sender, of the receiver and of the wire.
LEMMA TypeParts == TypeInv <=> SendTypes /\ RecvTypes /\ wire \in Seq(Bytes)
BY DEF TypeInv, TypeOK, SendTypes, RecvTypes

\* The same after a step.
LEMMA TypePartsAfter == SendTypes' /\ RecvTypes' /\ wire' \in Seq(Bytes) => TypeInv'
BY DEF TypeInv, TypeOK, SendTypes, RecvTypes

\* What leaves the sender alone keeps its types.
LEMMA SameSendTypes == SendTypes /\ UNCHANGED sendVars => SendTypes'
BY DEF SendTypes, SendInv, sendVars, Piece

\* What leaves the receiver alone keeps its types.
LEMMA SameRecvTypes == RecvTypes /\ UNCHANGED recvVars => RecvTypes'
BY DEF RecvTypes, recvVars

\* sendMessage.
LEMMA SendMessageTypes ==
    ASSUME TypeInv, NEW m \in Messages, SendMessage(m)
    PROVE  TypeInv'
<1>1. calls' \in 0 .. MaxSends /\ msg' \in Messages /\ UNCHANGED <<failed, sent, wire, recvVars>>
  BY ConstantTypes DEF SendMessage, TypeInv, TypeOK
<1>2. part' = "header" /\ bytesSent' \in 0 .. Len(Piece)' /\ retryCounter' \in 0 .. SendRetry - 1
  BY <1>1, BeginKeeps DEF SendMessage, TypeInv
<1>3. SendTypes'
  BY <1>1, <1>2, TypeParts DEF SendTypes, SendInv
<1>4. RecvTypes' /\ wire' \in Seq(Bytes)
  BY <1>1, TypeParts, SameRecvTypes
<1> QED  BY <1>3, <1>4, TypePartsAfter

\* A transmission that fails.
LEMMA FailTypes ==
    ASSUME TypeInv, Fail
    PROVE  SendTypes'
<1>1. msg' = msg /\ calls' = calls /\ sent' = sent /\ msg' \in Messages \cup {<<>>} /\ TypeOK
  BY DEF Fail, TypeInv, TypeOK
<1>2. part' = "idle" /\ bytesSent' \in 0 .. Len(Piece)' /\ retryCounter' \in 0 .. SendRetry - 1
  BY <1>1, BeginKeeps DEF Fail
<1>3. failed' \in BOOLEAN
  BY DEF Fail
<1> QED  BY <1>1, <1>2, <1>3, TypeParts DEF SendTypes, SendInv

\* xmitMsg returns -1.
LEMMA XmitErrorTypes == TypeInv /\ XmitError => TypeInv'
BY FailTypes, TypeParts, TypePartsAfter, SameRecvTypes DEF XmitError

\* xmitMsg returns 0.
LEMMA XmitNothingTypes ==
    ASSUME TypeInv, XmitNothing
    PROVE  TypeInv'
<1>1. RecvTypes' /\ wire' \in Seq(Bytes)
  BY TypeParts, SameRecvTypes DEF XmitNothing
<1>2. CASE Counted >= SendRetry
  BY <1>1, <1>2, FailTypes, TypePartsAfter DEF XmitNothing
<1>3. CASE ~(Counted >= SendRetry)
  <2>1. retryCounter' = Counted /\ UNCHANGED <<part, msg, bytesSent, calls, sent, failed>>
    BY <1>3 DEF XmitNothing
  <2>2. Counted \in 0 .. SendRetry - 1
    BY <1>3, ConstantTypes, TypeParts DEF SendTypes, Counted
  <2>3. Piece' = Piece
    BY <2>1 DEF Piece
  <2>4. SendTypes'
    BY <2>1, <2>2, <2>3, TypeParts DEF SendTypes, SendInv
  <2> QED  BY <1>1, <2>4, TypePartsAfter
<1> QED  BY <1>2, <1>3

\* A part has been sent.
LEMMA FinishTypes ==
    ASSUME TypeInv, part # "idle", UNCHANGED <<msg, calls, failed>>, Finish
    PROVE  SendTypes'
<1>0. /\ TypeOK /\ msg' \in Messages /\ calls' \in 0 .. MaxSends /\ failed' \in BOOLEAN
      /\ sent \in Seq(Messages) /\ part \in {"idle", "header", "body", "trailer"}
  BY DEF TypeInv, TypeOK, SendInv
<1>1. \E p \in {"idle", "body", "trailer"} : Begin(p)
  BY DEF Finish
<1>2. sent' = sent \/ sent' = Append(sent, msg)
  BY DEF Finish
<1>3. sent' \in Seq(Messages)
  BY <1>0, <1>2
<1>4. PICK p \in {"idle", "body", "trailer"} : Begin(p)
  BY <1>1
<1>5. p \in {"idle", "header", "body", "trailer"} /\ msg' \in Messages \cup {<<>>}
  BY <1>0
<1>6. part' = p /\ bytesSent' = 0 /\ bytesSent' \in 0 .. Len(Piece)' /\ retryCounter' \in 0 .. SendRetry - 1
  BY <1>0, <1>4, <1>5, BeginKeeps
<1> QED  BY <1>0, <1>3, <1>5, <1>6 DEF SendTypes, SendInv

\* xmitMsg takes some bytes.
LEMMA XmitSomeTypes ==
    ASSUME TypeInv, NEW n \in 1 .. Len(Piece) - bytesSent, XmitSome(n)
    PROVE  TypeInv'
<1>0. TypeOK /\ bytesSent \in 0 .. Len(Piece) /\ Piece \in Seq(Bytes) /\ wire \in Seq(Bytes)
  BY PieceType DEF TypeInv, TypeOK
<1>1. wire' \in Seq(Bytes)
  <2>1. SubSeq(Piece, bytesSent + 1, bytesSent + n) \in Seq(Bytes)
    BY <1>0
  <2> HIDE DEF Piece
  <2> QED  BY <1>0, <2>1 DEF XmitSome
<1>2. RecvTypes'
  BY TypeParts, SameRecvTypes DEF XmitSome
<1>3. CASE bytesSent + n >= Len(Piece)
  <2>1. SendTypes'
    BY <1>3, FinishTypes DEF XmitSome
  <2> QED  BY <1>1, <1>2, <2>1, TypePartsAfter
<1>4. CASE ~(bytesSent + n >= Len(Piece))
  <2>1. /\ bytesSent' = bytesSent + n /\ retryCounter' = 0
        /\ UNCHANGED <<part, sent, msg, calls, failed>>
    BY <1>4 DEF XmitSome
  <2>2. Piece' = Piece
    BY <2>1 DEF Piece
  <2>3. bytesSent' \in 0 .. Len(Piece)' /\ retryCounter' \in 0 .. SendRetry - 1
    BY <1>0, <1>4, <2>1, <2>2, ConstantTypes
  <2>4. part # "trailer"
    <3>1. SUFFICES ASSUME part = "trailer" PROVE FALSE
      OBVIOUS
    <3>2. Len(Piece) = 1 /\ bytesSent = 0
      BY <3>1 DEF Piece, TypeInv, SendInv
    <3> QED  BY <1>4, <3>2
  <2>5. SendTypes'
    BY <2>1, <2>3, <2>4, TypeParts DEF SendTypes, SendInv
  <2> QED  BY <1>1, <1>2, <2>5, TypePartsAfter
<1> QED  BY <1>3, <1>4


\* The receiver leaves the sender alone.
LEMMA ReceiverKeepsSender == TypeInv /\ UNCHANGED <<sendVars, wire>> => SendTypes' /\ wire' \in Seq(Bytes)
BY TypeParts, SameSendTypes DEF sendVars

\* A chunk arrives.
LEMMA ProcessChunkTypes ==
    ASSUME TypeInv, NEW n \in 1 .. Len(wire), ProcessChunk(n)
    PROVE  TypeInv'
<1>0. held \in Seq(Bytes) /\ wire \in Seq(Bytes)
  BY DEF TypeInv, TypeOK
<1>1. SubSeq(wire, 1, n) \in Seq(Bytes) /\ SubSeq(wire, n + 1, Len(wire)) \in Seq(Bytes)
  BY <1>0
<1>2. held' \in Seq(Bytes) /\ wire' \in Seq(Bytes)
  BY <1>0, <1>1 DEF ProcessChunk
<1>3. SendTypes'
  BY TypeParts, SameSendTypes DEF ProcessChunk
<1>4. RecvTypes'
  BY <1>2, TypeParts DEF ProcessChunk, RecvTypes
<1> QED  BY <1>2, <1>3, <1>4, TypePartsAfter

\* What is left behind a message is bytes.
LEMMA RestType ==
    ASSUME TypeOK, HeaderIsHere, IsWhole
    PROVE  Rest \in Seq(Bytes) /\ SubSeq(held, HeaderSize + 1, FrameLength - 1) \in Seq(Bytes)
<1>0. held \in Seq(Bytes)
  BY DEF TypeOK
<1>1. Rest \in Seq(Bytes)
  BY <1>0, MsgLengthType DEF Rest
<1>2. SubSeq(held, HeaderSize + 1, FrameLength - 1) \in Seq(Bytes)
  <2>1. /\ HeaderSize + 1 \in Nat /\ FrameLength - 1 \in Nat
        /\ HeaderSize + 1 > 0 /\ FrameLength - 1 <= Len(held)
    BY <1>0, MsgLengthType, ConstantTypes DEF IsWhole
  <2> QED  BY <1>0, <2>1
<1> QED  BY <1>1, <1>2

\* One way round the loop.
LEMMA LoopTypes ==
    ASSUME TypeInv, Loop
    PROVE  TypeInv'
<1>0. TypeOK /\ held \in Seq(Bytes) /\ msgQueue \in Seq(Seq(Bytes) \cup {NULL})
  BY DEF TypeInv, TypeOK
<1>1. UNCHANGED <<sendVars, wire, received>>
  BY DEF Loop, InLoop, ShortHeader, BadStart, Incomplete, TakeMessage, BadTrailer, TakeMissing
<1>2. SendTypes' /\ wire' \in Seq(Bytes)
  BY <1>1, ReceiverKeepsSender
<1>3. ASSUME held' \in Seq(Bytes), inLoop' \in BOOLEAN, results' \in BOOLEAN,
             msgQueue' \in Seq(Seq(Bytes) \cup {NULL})
      PROVE  TypeInv'
  <2>1. RecvTypes'
    BY <1>1, <1>3, TypeParts DEF RecvTypes
  <2> QED  BY <1>2, <2>1, TypePartsAfter
<1>4. /\ inLoop \in BOOLEAN /\ inLoop' \in BOOLEAN /\ results' \in BOOLEAN
  BY <1>0 DEF TypeOK, Loop, ShortHeader, BadStart, Incomplete, TakeMessage, BadTrailer, TakeMissing,
              Return, Again
<1>5. CASE ShortHeader \/ BadStart \/ Incomplete
  <2>1. held' = held \/ held' = <<>>
    BY <1>5 DEF ShortHeader, BadStart, Incomplete
  <2>2. msgQueue' = msgQueue
    BY <1>5 DEF ShortHeader, BadStart, Incomplete
  <2>3. <<>> \in Seq(Bytes)
    OBVIOUS
  <2>4. held' \in Seq(Bytes)
    BY <1>0, <2>1, <2>3, Zenon
  <2> QED  BY <1>0, <1>3, <1>4, <2>2, <2>4
<1>6. CASE TakeMessage \/ BadTrailer
  <2> DEFINE body == SubSeq(held, HeaderSize + 1, FrameLength - 1)
  <2>1. /\ HeaderIsHere /\ IsWhole /\ held' = Rest
        /\ msgQueue' = msgQueue \/ msgQueue' = Append(msgQueue, body)
    BY <1>6 DEF TakeMessage, BadTrailer, Completes, Starts
  <2>2. body \in Seq(Bytes) /\ Rest \in Seq(Bytes)
    BY <1>0, <2>1, RestType
  <2> HIDE DEF body
  <2>3. msgQueue' \in Seq(Seq(Bytes) \cup {NULL})
    <3>1. body \in Seq(Bytes) \cup {NULL}
      BY <2>2
    <3> QED  BY <1>0, <2>1, <3>1
  <2> QED  BY <1>3, <1>4, <2>1, <2>2, <2>3
<1>7. CASE TakeMissing
  <2> DEFINE body == SubSeq(held, HeaderSize + 1, Len(held))
             filled == Len(body) = MsgLength
             left == IF filled THEN <<>> ELSE body
             entry == IF filled THEN body ELSE NULL
  <2>1. body \in Seq(Bytes)
    BY <1>0, ConstantTypes
  <2>2. left \in Seq(Bytes)
    BY <2>1
  <2>3. held' = IF left = <<>> THEN <<>> ELSE Tail(left)
    BY <1>7 DEF TakeMissing
  <2>4. msgQueue' = msgQueue \/ msgQueue' = Append(msgQueue, entry)
    BY <1>7 DEF TakeMissing
  <2>5. entry \in Seq(Bytes) \cup {NULL}
    BY <2>1
  <2> HIDE DEF body, filled, left, entry
  <2>6. held' \in Seq(Bytes)
    BY <2>2, <2>3
  <2>7. msgQueue' \in Seq(Seq(Bytes) \cup {NULL})
    BY <1>0, <2>4, <2>5
  <2> QED  BY <1>3, <1>4, <2>6, <2>7
<1> QED  BY <1>5, <1>6, <1>7 DEF Loop

\* getMsg.
LEMMA GetMsgTypes ==
    ASSUME TypeInv, GetMsg
    PROVE  TypeInv'
<1> DEFINE M == Seq(Bytes) \cup {NULL}
<1>0. msgQueue \in Seq(M) /\ received \in Seq(M)
  BY DEF TypeInv, TypeOK
<1>1. SendTypes' /\ wire' \in Seq(Bytes)
  BY ReceiverKeepsSender DEF GetMsg
<1>2. msgQueue' \in Seq(M) /\ received' \in Seq(M)
  <2> HIDE DEF M
  <2>1. Head(msgQueue) \in M /\ Tail(msgQueue) \in Seq(M)
    BY <1>0 DEF GetMsg
  <2> QED  BY <1>0, <2>1 DEF GetMsg
<1>3. RecvTypes'
  BY <1>2, TypeParts DEF GetMsg, RecvTypes
<1> QED  BY <1>1, <1>3, TypePartsAfter

\* Every step keeps the types.
LEMMA TypeStep == TypeInv /\ [Next]_vars => TypeInv'
<1> SUFFICES ASSUME TypeInv, [Next]_vars PROVE TypeInv'
  OBVIOUS
<1>1. ASSUME NEW m \in Messages, SendMessage(m) PROVE TypeInv'
  BY <1>1, SendMessageTypes
<1>2. CASE Transmit
  BY <1>2, XmitErrorTypes, XmitNothingTypes, XmitSomeTypes DEF Transmit
<1>3. CASE Receive
  BY <1>3, ProcessChunkTypes DEF Receive
<1>4. CASE Loop
  BY <1>4, LoopTypes
<1>5. CASE GetMsg
  BY <1>5, GetMsgTypes
<1>6. CASE UNCHANGED vars
  <2>1. UNCHANGED sendVars /\ UNCHANGED recvVars /\ UNCHANGED wire
    BY <1>6 DEF vars
  <2> QED  BY <2>1, TypeParts, TypePartsAfter, SameSendTypes, SameRecvTypes
<1> QED  BY <1>1, <1>2, <1>3, <1>4, <1>5, <1>6 DEF Next

\* The types, and what is known of the message being sent.
THEOREM MessagingTyped == Spec => []TypeInv
BY TypeInit, TypeStep, PTL DEF Spec

\* The state of both ends keeps its types (Messaging.TypeOK), whatever is sent.
THEOREM MessagingTypeOK == Spec => []TypeOK
BY MessagingTyped, PTL DEF TypeInv


----------------------------------------------------------------------------
(* A stream made of frames *)

\* The bytes of a message on the wire.
Frame(m) == Header(Len(m)) \o m \o <<ETX>>

\* A frame, byte by byte.
LEMMA FrameType ==
    ASSUME NEW m \in Seq(Bytes)
    PROVE  /\ Frame(m) \in Seq(Bytes) /\ Len(Frame(m)) = HeaderSize + Len(m) + 1
           /\ \A i \in 1 .. HeaderSize : Frame(m)[i] = Header(Len(m))[i]
           /\ \A i \in 1 .. Len(m) : Frame(m)[HeaderSize + i] = m[i]
           /\ Frame(m)[HeaderSize + Len(m) + 1] = ETX
<1> DEFINE h == Header(Len(m))
<1>1. Len(m) \in Nat
  OBVIOUS
<1>2. h \in Seq(Bytes) /\ Len(h) = HeaderSize
  BY <1>1, Headers
<1>3. <<ETX>> \in Seq(Bytes) /\ Len(<<ETX>>) = 1 /\ <<ETX>>[1] = ETX
  BY ConstantTypes
<1>4. Frame(m) = (h \o m) \o <<ETX>>
  BY DEF Frame
<1> HIDE DEF h
<1>5. /\ h \o m \in Seq(Bytes) /\ Len(h \o m) = HeaderSize + Len(m)
      /\ \A i \in 1 .. HeaderSize : (h \o m)[i] = h[i]
      /\ \A i \in 1 .. Len(m) : (h \o m)[HeaderSize + i] = m[i]
  BY <1>2, ConstantTypes
<1> DEFINE g == h \o m
<1> HIDE DEF g
<1>6. /\ Frame(m) = g \o <<ETX>> /\ g \in Seq(Bytes) /\ Len(g) = HeaderSize + Len(m)
      /\ \A i \in 1 .. HeaderSize : g[i] = h[i]
      /\ \A i \in 1 .. Len(m) : g[HeaderSize + i] = m[i]
  BY <1>4, <1>5 DEF g
<1>7. Frame(m) \in Seq(Bytes) /\ Len(Frame(m)) = HeaderSize + Len(m) + 1
  <2> DEFINE e == <<ETX>>
  <2>1. g \in Seq(Bytes) /\ e \in Seq(Bytes) /\ Len(e) = 1
    BY <1>3, <1>6
  <2> HIDE DEF e
  <2>2. g \o e \in Seq(Bytes) /\ Len(g \o e) = Len(g) + Len(e)
    BY <2>1, ConcatProperties
  <2> QED  BY <1>6, <2>1, <2>2 DEF e
<1>8. \A i \in 1 .. Len(g) : Frame(m)[i] = g[i]
  BY <1>3, <1>6
<1>9. Frame(m)[Len(g) + 1] = ETX
  BY <1>3, <1>6, ConstantTypes
<1>10. \A i \in 1 .. HeaderSize : i \in 1 .. Len(g)
  BY <1>1, <1>6, ConstantTypes
<1>11. \A i \in 1 .. Len(m) : HeaderSize + i \in 1 .. Len(g)
  BY <1>1, <1>6, ConstantTypes
<1> QED  BY <1>6, <1>7, <1>8, <1>9, <1>10, <1>11 DEF h

\* The stream s is the frames of the messages ms, and then t: rest[k] is what
\* follows the first k frames.
Splits(s, ms, t) ==
    \E rest \in [0 .. Len(ms) -> Seq(Bytes)] :
        /\ rest[0] = s /\ rest[Len(ms)] = t
        /\ \A k \in 1 .. Len(ms) : rest[k - 1] = Frame(ms[k]) \o rest[k]

\* A stream without frames.
LEMMA NothingSplits ==
    ASSUME NEW s \in Seq(Bytes)
    PROVE  Splits(s, <<>>, s)
<1> DEFINE rest == [k \in 0 .. 0 |-> s]
<1>1. Len(<<>>) = 0
  OBVIOUS
<1>2. rest \in [0 .. 0 -> Seq(Bytes)] /\ rest[0] = s /\ \A k \in 1 .. 0 : FALSE
  OBVIOUS
<1> HIDE DEF rest
<1> QED  BY <1>1, <1>2 DEF Splits

\* A stream without frames is what is left.
LEMMA SplitsNothing ==
    ASSUME NEW s, NEW t, Splits(s, <<>>, t)
    PROVE  s = t
BY DEF Splits

\* Bytes that are added to the stream come behind the last frame.
LEMMA SplitsMore ==
    ASSUME NEW s, NEW ms \in Seq(Messages), NEW t, NEW u \in Seq(Bytes), Splits(s, ms, t)
    PROVE  Splits(s \o u, ms, t \o u)
<1>1. PICK rest \in [0 .. Len(ms) -> Seq(Bytes)] :
          /\ rest[0] = s /\ rest[Len(ms)] = t
          /\ \A k \in 1 .. Len(ms) : rest[k - 1] = Frame(ms[k]) \o rest[k]
  BY DEF Splits
<1> DEFINE more == [k \in 0 .. Len(ms) |-> rest[k] \o u]
<1>2. Len(ms) \in Nat
  OBVIOUS
<1>3. \A k \in 0 .. Len(ms) : rest[k] \o u \in Seq(Bytes)
  BY <1>1
<1>4. more \in [0 .. Len(ms) -> Seq(Bytes)]
  BY <1>3
<1>5. more[0] = s \o u /\ more[Len(ms)] = t \o u
  BY <1>1, <1>2
<1>6. ASSUME NEW k \in 1 .. Len(ms) PROVE more[k - 1] = Frame(ms[k]) \o more[k]
  <2>1. k - 1 \in 0 .. Len(ms) /\ k \in 0 .. Len(ms) /\ ms[k] \in Seq(Bytes)
    BY <1>2, ConstantTypes
  <2>2. Frame(ms[k]) \in Seq(Bytes) /\ rest[k] \in Seq(Bytes)
    BY <1>1, <2>1, FrameType
  <2>3. (Frame(ms[k]) \o rest[k]) \o u = Frame(ms[k]) \o (rest[k] \o u)
    <3> DEFINE f == Frame(ms[k])  r == rest[k]
    <3>1. f \in Seq(Bytes) /\ r \in Seq(Bytes)
      BY <2>2
    <3> HIDE DEF f, r
    <3>2. (f \o r) \o u = f \o (r \o u)
      BY <3>1, ConcatAssociative
    <3> QED  BY <3>2 DEF f, r
  <2> QED  BY <1>1, <2>1, <2>3
<1> HIDE DEF more
<1> QED  BY <1>4, <1>5, <1>6 DEF Splits

\* A whole frame behind the others is one more.
LEMMA SplitsFrame ==
    ASSUME NEW s, NEW ms \in Seq(Messages), NEW m \in Messages, Splits(s, ms, Frame(m))
    PROVE  Splits(s, Append(ms, m), <<>>)
<1>1. PICK rest \in [0 .. Len(ms) -> Seq(Bytes)] :
          /\ rest[0] = s /\ rest[Len(ms)] = Frame(m)
          /\ \A k \in 1 .. Len(ms) : rest[k - 1] = Frame(ms[k]) \o rest[k]
  BY DEF Splits
<1> DEFINE n == Len(ms)
           more == [k \in 0 .. n + 1 |-> IF k = n + 1 THEN <<>> ELSE rest[k]]
           ns == Append(ms, m)
<1>2. n \in Nat /\ Len(ns) = n + 1 /\ ns[n + 1] = m /\ \A k \in 1 .. n : ns[k] = ms[k]
  OBVIOUS
<1>3. <<>> \in Seq(Bytes)
  OBVIOUS
<1>4. more \in [0 .. n + 1 -> Seq(Bytes)]
  BY <1>1, <1>2, <1>3
<1>5. more[0] = s /\ more[n + 1] = <<>> /\ \A k \in 0 .. n : more[k] = rest[k]
  BY <1>1, <1>2
<1> HIDE DEF more, ns
<1>6. ASSUME NEW k \in 1 .. n + 1 PROVE more[k - 1] = Frame(ns[k]) \o more[k]
  <2>1. CASE k = n + 1
    <3>1. more[k - 1] = Frame(m) /\ ns[k] = m /\ more[k] = <<>>
      BY <1>1, <1>2, <1>5, <2>1
    <3>2. Frame(m) \in Seq(Bytes)
      BY FrameType, ConstantTypes
    <3>3. Frame(m) \o <<>> = Frame(m)
      BY <3>2
    <3> QED  BY <3>1, <3>3
  <2>2. CASE k # n + 1
    <3>1. k \in 1 .. n /\ k - 1 \in 0 .. n /\ k \in 0 .. n
      BY <1>2, <2>2
    <3> QED  BY <1>1, <1>2, <1>5, <3>1
  <2> QED  BY <2>1, <2>2
<1> QED  BY <1>2, <1>4, <1>5, <1>6 DEF Splits, ns

\* The first frame, and the stream behind it.
LEMMA SplitsFirst ==
    ASSUME NEW s, NEW ms \in Seq(Messages), NEW t, Splits(s, ms, t), Len(ms) > 0
    PROVE  \E r \in Seq(Bytes) : s = Frame(ms[1]) \o r /\ Splits(r, Tail(ms), t)
<1>1. PICK rest \in [0 .. Len(ms) -> Seq(Bytes)] :
          /\ rest[0] = s /\ rest[Len(ms)] = t
          /\ \A k \in 1 .. Len(ms) : rest[k - 1] = Frame(ms[k]) \o rest[k]
  BY DEF Splits
<1> DEFINE n == Len(ms)
           less == [k \in 0 .. n - 1 |-> rest[k + 1]]
           ns == Tail(ms)
<1>2. n \in Nat /\ Len(ns) = n - 1 /\ \A k \in 1 .. n - 1 : ns[k] = ms[k + 1]
  OBVIOUS
<1>3. less \in [0 .. n - 1 -> Seq(Bytes)]
  BY <1>1, <1>2
<1>4. less[n - 1] = t /\ \A k \in 0 .. n - 1 : less[k] = rest[k + 1]
  BY <1>1, <1>2
<1> HIDE DEF less, ns
<1>5. ASSUME NEW k \in 1 .. n - 1 PROVE less[k - 1] = Frame(ns[k]) \o less[k]
  <2>1. k \in 1 .. n /\ k + 1 \in 1 .. n /\ (k + 1) - 1 = k /\ k - 1 \in 0 .. n - 1 /\ (k - 1) + 1 = k
        /\ k \in 0 .. n - 1
    BY <1>2
  <2>2. rest[k] = Frame(ms[k + 1]) \o rest[k + 1]
    BY <1>1, <2>1
  <2> QED  BY <1>2, <1>4, <2>1, <2>2
<1>6. less[0] = rest[1] /\ rest[1] \in Seq(Bytes) /\ rest[0] = Frame(ms[1]) \o rest[1]
  <2>1. 0 \in 0 .. n - 1 /\ 1 \in 0 .. Len(ms) /\ 1 \in 1 .. Len(ms) /\ 1 - 1 = 0 /\ 0 + 1 = 1
    BY <1>2
  <2> QED  BY <1>1, <1>4, <2>1
<1>7. Splits(rest[1], ns, t)
  BY <1>2, <1>3, <1>4, <1>5, <1>6 DEF Splits
<1> QED  BY <1>1, <1>6, <1>7 DEF ns


----------------------------------------------------------------------------
(* Prefixes *)

\* What follows a prefix when an element is added at the end.
Grows(d, s, m) ==
    /\ IsPrefix(d, Append(s, m))
    /\ SubSeq(Append(s, m), Len(d) + 1, Len(Append(s, m))) = Append(SubSeq(s, Len(d) + 1, Len(s)), m)

\* A prefix stays one.
LEMMA PrefixGrows ==
    ASSUME NEW S, NEW d \in Seq(S), NEW s \in Seq(S), NEW m \in S, IsPrefix(d, s)
    PROVE  Grows(d, s, m)
<1> DEFINE a == Append(s, m)  i == Len(d) + 1
<1>1. /\ a \in Seq(S) /\ Len(a) = Len(s) + 1 /\ a[Len(s) + 1] = m /\ \A k \in 1 .. Len(s) : a[k] = s[k]
      /\ Len(d) \in Nat /\ Len(s) \in Nat /\ i \in Nat /\ i >= 1
  OBVIOUS
<1>2. Len(d) <= Len(s) /\ SubSeq(d, 1, Len(d)) = SubSeq(s, 1, Len(d))
  BY DEF IsPrefix
<1> HIDE DEF a
<1>3. SubSeq(a, 1, Len(d)) = SubSeq(s, 1, Len(d))
  BY <1>1, <1>2
<1>4. IsPrefix(d, a)
  BY <1>1, <1>2, <1>3 DEF IsPrefix
<1>5. SubSeq(a, i, Len(s) + 1) = Append(SubSeq(s, i, Len(s)), m)
  <2> DEFINE p == SubSeq(a, i, Len(s) + 1)  q == SubSeq(s, i, Len(s))  r == Append(q, m)
  <2>1. /\ q \in Seq(S) /\ Len(q) = Len(s) - Len(d) /\ \A k \in 1 .. Len(q) : q[k] = s[k + Len(d)]
    BY <1>1, <1>2
  <2>2. /\ p \in Seq(S) /\ Len(p) = Len(s) - Len(d) + 1 /\ \A k \in 1 .. Len(p) : p[k] = a[k + Len(d)]
    BY <1>1, <1>2
  <2> HIDE DEF p, q
  <2>3. /\ r \in Seq(S) /\ Len(r) = Len(q) + 1 /\ \A k \in 1 .. Len(q) : r[k] = q[k]
        /\ r[Len(q) + 1] = m
    BY <2>1
  <2> HIDE DEF r
  <2>4. ASSUME NEW k \in 1 .. Len(p) PROVE p[k] = r[k]
    <3>1. CASE k \in 1 .. Len(q)
      <4>1. k + Len(d) \in 1 .. Len(s)
        BY <1>1, <2>1, <3>1
      <4> QED  BY <1>1, <2>1, <2>2, <2>3, <3>1, <4>1
    <3>2. CASE k \notin 1 .. Len(q)
      <4>1. k = Len(q) + 1 /\ k + Len(d) = Len(s) + 1
        BY <1>1, <1>2, <2>1, <2>2, <3>2
      <4> QED  BY <1>1, <2>2, <2>3, <4>1
    <3> QED  BY <3>1, <3>2
  <2>5. p = r
    <3>1. Len(p) = Len(r)
      BY <1>1, <2>1, <2>2, <2>3
    <3> QED  BY <2>2, <2>3, <2>4, <3>1, SeqEqual
  <2> QED  BY <2>5 DEF p, q, r
<1> QED  BY <1>1, <1>4, <1>5 DEF a, Grows

\* A prefix that takes the next element stays one.
LEMMA PrefixNext ==
    ASSUME NEW S, NEW d \in Seq(S), NEW s \in Seq(S), IsPrefix(d, s), Len(d) < Len(s)
    PROVE  LET e == Append(d, s[Len(d) + 1])  p == SubSeq(s, Len(d) + 1, Len(s))
           IN  /\ IsPrefix(e, s) /\ Len(p) > 0 /\ p[1] = s[Len(d) + 1]
               /\ SubSeq(s, Len(e) + 1, Len(s)) = Tail(p)
<1> DEFINE e == Append(d, s[Len(d) + 1])  p == SubSeq(s, Len(d) + 1, Len(s))
<1>1. /\ Len(d) \in Nat /\ Len(s) \in Nat /\ s[Len(d) + 1] \in S
  OBVIOUS
<1>2. /\ e \in Seq(S) /\ Len(e) = Len(d) + 1 /\ e[Len(d) + 1] = s[Len(d) + 1]
      /\ \A k \in 1 .. Len(d) : e[k] = d[k]
  BY <1>1
<1>3. p \in Seq(S) /\ Len(p) = Len(s) - Len(d) /\ \A k \in 1 .. Len(p) : p[k] = s[k + Len(d)]
  BY <1>1
<1>4. \A k \in 1 .. Len(d) : d[k] = s[k]
  <2>1. SubSeq(d, 1, Len(d)) = SubSeq(s, 1, Len(d))
    BY DEF IsPrefix
  <2>2. ASSUME NEW k \in 1 .. Len(d) PROVE d[k] = s[k]
    <3>1. SubSeq(d, 1, Len(d))[k] = d[k] /\ SubSeq(s, 1, Len(d))[k] = s[k]
      BY <1>1
    <3> QED  BY <2>1, <3>1
  <2> QED  BY <2>2
<1> HIDE DEF e, p
<1>5. IsPrefix(e, s)
  <2>1. \A k \in 1 .. Len(e) : e[k] = s[k]
    BY <1>1, <1>2, <1>4
  <2>2. Len(e) <= Len(s)
    BY <1>1, <1>2
  <2>3. SubSeq(e, 1, Len(e)) = SubSeq(s, 1, Len(e))
    BY <1>1, <1>2, <2>1, <2>2
  <2> QED  BY <2>2, <2>3 DEF IsPrefix
<1>6. Len(p) > 0 /\ p[1] = s[Len(d) + 1]
  BY <1>1, <1>3
<1>7. SubSeq(s, Len(e) + 1, Len(s)) = Tail(p)
  <2> DEFINE q == SubSeq(s, Len(e) + 1, Len(s))  r == Tail(p)
  <2>1. q \in Seq(S) /\ Len(q) = Len(s) - Len(d) - 1 /\ \A k \in 1 .. Len(q) : q[k] = s[k + Len(d) + 1]
    BY <1>1, <1>2
  <2>2. r \in Seq(S) /\ Len(r) = Len(p) - 1 /\ \A k \in 1 .. Len(r) : r[k] = p[k + 1]
    BY <1>3, <1>6
  <2> HIDE DEF q, r
  <2>3. ASSUME NEW k \in 1 .. Len(q) PROVE q[k] = r[k]
    <3>1. k \in 1 .. Len(r) /\ k + 1 \in 1 .. Len(p) /\ (k + 1) + Len(d) = k + Len(d) + 1
      BY <1>1, <1>3, <2>1, <2>2
    <3> QED  BY <1>3, <2>1, <2>2, <3>1
  <2>4. Len(q) = Len(r)
    BY <1>1, <1>3, <2>1, <2>2
  <2>5. q = r
    BY <2>1, <2>2, <2>3, <2>4, SeqEqual
  <2> QED  BY <2>5 DEF q, r
<1> QED  BY <1>5, <1>6, <1>7 DEF e, p

\* What has a prefix keeps it.
LEMMA PrefixLonger ==
    ASSUME NEW S, NEW d \in Seq(S), NEW s \in Seq(S), NEW m \in S, IsPrefix(s, d)
    PROVE  IsPrefix(s, Append(d, m))
BY PrefixGrows DEF Grows

\* A prefix that is not shorter is all.
LEMMA PrefixOfEqualLength ==
    ASSUME NEW S, NEW d \in Seq(S), NEW s \in Seq(S), IsPrefix(d, s), Len(d) >= Len(s)
    PROVE  d = s
<1>1. Len(d) = Len(s) /\ SubSeq(d, 1, Len(d)) = SubSeq(s, 1, Len(d))
  BY DEF IsPrefix
<1> QED  BY <1>1, SubSeqFull


\* A concatenation, point by point.
Joins(s, a, b) ==
    /\ Len(s) = Len(a) + Len(b)
    /\ \A i \in 1 .. Len(a) : s[i] = a[i]
    /\ \A i \in 1 .. Len(b) : s[Len(a) + i] = b[i]

\* A concatenation joins.
LEMMA ConcatJoins ==
    ASSUME NEW S, NEW a \in Seq(S), NEW b \in Seq(S)
    PROVE  a \o b \in Seq(S) /\ Joins(a \o b, a, b)
BY DEF Joins

\* Two ways to cut one sequence agree from the front on.
LEMMA SameFront ==
    ASSUME NEW S, NEW a \in Seq(S), NEW b \in Seq(S), NEW c \in Seq(S), NEW d \in Seq(S), a \o b = c \o d
    PROVE  /\ \A i \in 1 .. Len(a) : i <= Len(c) => a[i] = c[i]
           /\ Len(a) >= Len(c) => SubSeq(a, Len(c) + 1, Len(a)) \o b = d
<1> DEFINE s == a \o b  n == Len(a)  m == Len(c)
<1>0. s \in Seq(S) /\ Joins(s, a, b) /\ Joins(s, c, d)
  <2>1. Joins(a \o b, a, b) /\ Joins(c \o d, c, d) /\ a \o b \in Seq(S)
    BY ConcatJoins
  <2> QED  BY <2>1, Zenon
<1> HIDE DEF s
<1>1. /\ n \in Nat /\ m \in Nat /\ Len(b) \in Nat /\ Len(d) \in Nat
      /\ s \in Seq(S) /\ Len(s) = n + Len(b) /\ Len(s) = m + Len(d)
  BY <1>0 DEF Joins
<1>2. (\A i \in 1 .. n : s[i] = a[i]) /\ (\A i \in 1 .. Len(b) : s[n + i] = b[i])
  BY <1>0 DEF Joins
<1>3. (\A i \in 1 .. m : s[i] = c[i]) /\ (\A i \in 1 .. Len(d) : s[m + i] = d[i])
  BY <1>0 DEF Joins
<1>4. ASSUME NEW i \in 1 .. n, i <= m PROVE a[i] = c[i]
  BY <1>1, <1>2, <1>3, <1>4
<1>5. ASSUME n >= m PROVE SubSeq(a, m + 1, n) \o b = d
  <2> DEFINE p == SubSeq(a, m + 1, n)  q == p \o b
  <2>1. p \in Seq(S) /\ Len(p) = n - m /\ \A k \in 1 .. Len(p) : p[k] = a[m + k]
    BY <1>1, <1>5
  <2> HIDE DEF p
  <2>2. /\ q \in Seq(S) /\ Len(q) = Len(p) + Len(b)
        /\ (\A k \in 1 .. Len(p) : q[k] = p[k]) /\ \A k \in 1 .. Len(b) : q[Len(p) + k] = b[k]
    BY <2>1, SMTT(30)
  <2> HIDE DEF q
  <2>3. Len(q) = Len(d)
    BY <1>1, <2>1, <2>2
  <2>4. ASSUME NEW k \in 1 .. Len(q) PROVE q[k] = d[k]
    <3>1. CASE k \in 1 .. Len(p)
      <4>1. m + k \in 1 .. n
        BY <1>1, <2>1, <3>1
      <4>2. d[k] = s[m + k]
        BY <1>1, <1>3, <2>3
      <4> QED  BY <1>2, <2>1, <2>2, <3>1, <4>1, <4>2
    <3>2. CASE k \notin 1 .. Len(p)
      <4> DEFINE j == k - Len(p)
      <4>1. j \in 1 .. Len(b) /\ k = Len(p) + j /\ m + k = n + j
        BY <1>1, <2>1, <2>2, <3>2
      <4>2. d[k] = s[m + k]
        BY <1>1, <1>3, <2>3
      <4> QED  BY <1>2, <2>2, <4>1, <4>2
    <3> QED  BY <3>1, <3>2
  <2>5. q = d
    BY <2>2, <2>3, <2>4, SeqEqual
  <2> QED  BY <2>5 DEF p, q
<1> QED  BY <1>4, <1>5

----------------------------------------------------------------------------
(* What is in transit *)

\* No message is so long that the length of its frame would wrap.
MessagesFit == \A m \in Messages : Len(m) + HeaderSize + TrailerSize < UINT

\* The bytes of the frame of msg that have been written.
Written ==
    CASE part = "header"  -> bytesSent
      [] part = "body"    -> HeaderSize + bytesSent
      [] part = "trailer" -> HeaderSize + Len(msg)
      [] OTHER -> 0

\* The messages sent and not yet taken off the stream.
Pending == SubSeq(sent, Len(Delivered) + 1, Len(sent))

\* What has come out is the beginning of what was sent, and what is on its way
\* is the frames of the rest, and what there is of the next one: after a failure
\* half way, anything.
InTransit ==
    /\ IsPrefix(Delivered, sent)
    /\ \E t \in Seq(Bytes) :
           /\ Splits(held \o wire, Pending, t)
           /\ ~failed => t = SubSeq(Frame(msg), 1, Written)

\* After a failure half way all that was sent may have come out, and more.
PastFailure == failed /\ IsPrefix(sent, Delivered)

\* processChunk has left no whole message in the assembler.
Exhausted ==
    ~inLoop /\ Len(Delivered) < Len(sent) => Len(held) < Len(Frame(sent[Len(Delivered) + 1]))

StreamInv == TypeInv /\ (InTransit \/ PastFailure) /\ Exhausted

\* The header of a message, wherever it is read.
LEMMA ReadsFrame ==
    ASSUME TypeOK, MessagesFit, HeaderIsHere, NEW m \in Messages,
           \A i \in 1 .. Len(held) : i <= Len(Frame(m)) => held[i] = Frame(m)[i]
    PROVE  /\ Starts /\ MsgLength = Len(m) /\ FrameLength = Len(Frame(m)) /\ Needed = FrameLength
           /\ IsWhole => /\ held[FrameLength] = ETX
                         /\ SubSeq(held, HeaderSize + 1, FrameLength - 1) = m
<1>1. m \in Seq(Bytes) /\ Len(m) \in Nat /\ Len(m) + HeaderSize + TrailerSize < UINT
  BY ConstantTypes DEF MessagesFit
<1>2. held \in Seq(Bytes) /\ Len(held) >= HeaderSize /\ Len(held) \in Nat
  BY DEF TypeOK, HeaderIsHere
<1> DEFINE f == Frame(m)  h == Header(Len(m))
<1>3. /\ f \in Seq(Bytes) /\ Len(f) = HeaderSize + Len(m) + 1
      /\ (\A i \in 1 .. HeaderSize : f[i] = h[i])
      /\ (\A i \in 1 .. Len(m) : f[HeaderSize + i] = m[i]) /\ f[HeaderSize + Len(m) + 1] = ETX
  BY <1>1, FrameType
<1>4. h \in Seq(Bytes) /\ Len(h) = HeaderSize /\ h[1] = STX
  BY <1>1, Headers
<1>5. \A i \in 1 .. Len(held) : i <= Len(f) => held[i] = f[i]
  OBVIOUS
<1> HIDE DEF f, h
<1>6. \A i \in 1 .. HeaderSize : held[i] = h[i]
  BY <1>1, <1>2, <1>3, <1>5, ConstantTypes
<1>7. SubSeq(held, 1, HeaderSize) = h
  <2> DEFINE p == SubSeq(held, 1, HeaderSize)
  <2>1. p \in Seq(Bytes) /\ Len(p) = HeaderSize /\ \A k \in 1 .. HeaderSize : p[k] = held[k]
    BY <1>2, ConstantTypes
  <2> HIDE DEF p
  <2>2. p = h
    BY <1>4, <1>6, <2>1, SeqEqual
  <2> QED  BY <2>2 DEF p
<1>8. Len(m) < UINT
  BY <1>1, ConstantTypes
<1>9. MsgLength = Len(m)
  BY <1>1, <1>7, <1>8, LengthSurvives DEF MsgLength, h
<1>10. Starts
  <2>1. held[1] = STX
    BY <1>4, <1>6, ConstantTypes
  <2> QED  BY <2>1 DEF Starts
<1>11. FrameLength = Len(m) + HeaderSize + TrailerSize /\ FrameLength = Len(f)
  BY <1>1, <1>3, <1>9, ConstantTypes DEF FrameLength
<1>12. Needed = FrameLength
  <2>1. FrameLength \in Nat /\ FrameLength < UINT /\ UINT \in Nat \ {0}
    BY <1>1, <1>11, ConstantTypes
  <2>2. FrameLength % UINT = FrameLength
    BY <2>1
  <2> QED  BY <2>2 DEF Needed, FrameLength
<1>13. ASSUME IsWhole PROVE held[FrameLength] = ETX /\ SubSeq(held, HeaderSize + 1, FrameLength - 1) = m
  <2>1. FrameLength \in 1 .. Len(held) /\ FrameLength = HeaderSize + Len(m) + 1
    BY <1>1, <1>2, <1>11, <1>13, ConstantTypes DEF IsWhole
  <2>2. held[FrameLength] = ETX
    BY <1>1, <1>3, <1>5, <1>11, <2>1
  <2> DEFINE p == SubSeq(held, HeaderSize + 1, FrameLength - 1)
  <2>3. p \in Seq(Bytes) /\ Len(p) = Len(m) /\ \A k \in 1 .. Len(p) : p[k] = held[HeaderSize + k]
    BY <1>1, <1>2, <2>1, ConstantTypes
  <2> HIDE DEF p
  <2>4. ASSUME NEW k \in 1 .. Len(m) PROVE held[HeaderSize + k] = m[k]
    <3>1. HeaderSize + k \in 1 .. Len(held) /\ HeaderSize + k <= Len(f)
      BY <1>1, <1>2, <1>3, <2>1, ConstantTypes
    <3> QED  BY <1>3, <1>5, <3>1
  <2>5. p = m
    BY <1>1, <2>3, <2>4, SeqEqual
  <2> QED  BY <2>2, <2>5 DEF p
<1> QED  BY <1>9, <1>10, <1>11, <1>12, <1>13 DEF f

\* A part of a message, from where the sender is in its frame.
LEMMA PieceOfFrame ==
    ASSUME TypeInv, part # "idle", NEW n \in 1 .. Len(Piece) - bytesSent
    PROVE  /\ Written \in Nat /\ Written + n <= Len(Frame(msg))
           /\ SubSeq(Piece, bytesSent + 1, bytesSent + n) = SubSeq(Frame(msg), Written + 1, Written + n)
           /\ part = "header" /\ n + bytesSent = Len(Piece) => Written + n = HeaderSize
           /\ part = "body" /\ n + bytesSent = Len(Piece) => Written + n = HeaderSize + Len(msg)
           /\ part = "trailer" => Written + n = Len(Frame(msg)) /\ n + bytesSent = Len(Piece)
<1>1. msg \in Seq(Bytes) /\ Len(msg) \in Nat /\ Piece \in Seq(Bytes) /\ bytesSent \in Nat
  BY PieceType DEF TypeInv, TypeOK
<1> DEFINE f == Frame(msg)  h == Header(Len(msg))
<1>2. /\ f \in Seq(Bytes) /\ Len(f) = HeaderSize + Len(msg) + 1
      /\ (\A i \in 1 .. HeaderSize : f[i] = h[i])
      /\ (\A i \in 1 .. Len(msg) : f[HeaderSize + i] = msg[i]) /\ f[HeaderSize + Len(msg) + 1] = ETX
  BY <1>1, FrameType
<1>3. h \in Seq(Bytes) /\ Len(h) = HeaderSize
  BY <1>1, Headers
<1> DEFINE off == CASE part = "header" -> 0 [] part = "body" -> HeaderSize
                    [] OTHER -> HeaderSize + Len(msg)
<1>4. part \in {"header", "body", "trailer"} /\ (part = "trailer" => bytesSent = 0)
  BY DEF TypeInv, TypeOK, SendInv
<1>5. /\ off \in Nat /\ Written = off + bytesSent /\ off + Len(Piece) <= Len(f)
      /\ \A k \in 1 .. Len(Piece) : Piece[k] = f[off + k]
  <2>1. CASE part = "header"
    BY <1>1, <1>2, <1>3, <2>1, ConstantTypes DEF Written, Piece
  <2>2. CASE part = "body"
    BY <1>1, <1>2, <2>2, ConstantTypes DEF Written, Piece
  <2>3. CASE part = "trailer"
    BY <1>1, <1>2, <1>4, <2>3, ConstantTypes DEF Written, Piece
  <2> QED  BY <1>4, <2>1, <2>2, <2>3
<1>6. /\ part = "header" => Len(Piece) = HeaderSize /\ off = 0
      /\ part = "body" => Len(Piece) = Len(msg) /\ off = HeaderSize
      /\ part = "trailer" => Len(Piece) = 1 /\ off = HeaderSize + Len(msg)
  BY <1>3 DEF Piece
<1> DEFINE p == Piece
<1>7. p \in Seq(Bytes) /\ Len(p) \in Nat /\ n \in Nat /\ n > 0 /\ bytesSent + n <= Len(p)
  BY <1>1
<1> HIDE DEF f, h, off, p
<1>8. SubSeq(p, bytesSent + 1, bytesSent + n) = SubSeq(f, Written + 1, Written + n)
  <2> DEFINE q == SubSeq(p, bytesSent + 1, bytesSent + n)  r == SubSeq(f, Written + 1, Written + n)
  <2>0. Written \in Nat /\ Written + n <= Len(f) /\ off \in Nat
    BY <1>1, <1>2, <1>5, <1>7 DEF p
  <2>1. q \in Seq(Bytes) /\ Len(q) = n /\ \A k \in 1 .. n : q[k] = p[bytesSent + k]
    BY <1>1, <1>7
  <2>2. r \in Seq(Bytes) /\ Len(r) = n /\ \A k \in 1 .. n : r[k] = f[Written + k]
    BY <1>2, <1>7, <2>0
  <2> HIDE DEF q, r
  <2>3. ASSUME NEW k \in 1 .. n PROVE q[k] = r[k]
    <3>1. bytesSent + k \in 1 .. Len(p) /\ off + (bytesSent + k) = Written + k
      BY <1>1, <1>5, <1>7, <2>0
    <3> QED  BY <1>5, <2>1, <2>2, <3>1 DEF p
  <2>4. q = r
    BY <2>1, <2>2, <2>3, SeqEqual
  <2> QED  BY <2>4 DEF q, r
<1>9. Written \in Nat /\ Written + n <= Len(f)
  BY <1>1, <1>2, <1>5, <1>7 DEF p
<1>10. part = "header" /\ n + bytesSent = Len(p) => Written + n = HeaderSize
  BY <1>1, <1>5, <1>6, <1>7, ConstantTypes DEF p
<1>11. part = "body" /\ n + bytesSent = Len(p) => Written + n = HeaderSize + Len(msg)
  BY <1>1, <1>5, <1>6, <1>7, ConstantTypes DEF p
<1>12. part = "trailer" => Written + n = Len(f) /\ n + bytesSent = Len(p)
  <2>1. SUFFICES ASSUME part = "trailer" PROVE Written + n = Len(f) /\ n + bytesSent = Len(p)
    OBVIOUS
  <2>2. Len(p) = 1 /\ off = HeaderSize + Len(msg) /\ bytesSent = 0 /\ n = 1
    <3>1. Len(p) = 1 /\ off = HeaderSize + Len(msg)
      BY <1>6, <2>1 DEF p
    <3>2. bytesSent = 0
      BY <1>4, <2>1
    <3> QED  BY <1>7, <3>1, <3>2
  <2> QED  BY <1>1, <1>2, <1>5, <2>2, ConstantTypes
<1> QED  BY <1>8, <1>9, <1>10, <1>11, <1>12 DEF f, p


----------------------------------------------------------------------------
(* The invariant of the stream *)

\* What a receiver may hand over.
Entries == Seq(Bytes) \cup {NULL}

\* The types of all that the invariant of the stream speaks of.
LEMMA StreamTypes ==
    ASSUME TypeInv
    PROVE  /\ held \in Seq(Bytes) /\ wire \in Seq(Bytes) /\ held \o wire \in Seq(Bytes)
           /\ sent \in Seq(Messages) /\ sent \in Seq(Entries) /\ Pending \in Seq(Messages)
           /\ received \in Seq(Entries) /\ msgQueue \in Seq(Entries) /\ Delivered \in Seq(Entries)
           /\ msg \in Seq(Bytes) /\ Messages \subseteq Entries
<1>1. /\ held \in Seq(Bytes) /\ wire \in Seq(Bytes) /\ sent \in Seq(Messages)
      /\ received \in Seq(Entries) /\ msgQueue \in Seq(Entries)
  BY DEF TypeInv, TypeOK, Entries
<1>2. Messages \subseteq Entries
  BY ConstantTypes DEF Entries
<1>3. sent \in Seq(Entries)
  BY <1>1, <1>2
<1>4. Delivered \in Seq(Entries)
  BY <1>1 DEF Delivered
<1>5. Pending \in Seq(Messages)
  BY <1>1, <1>4 DEF Pending
<1>6. msg \in Seq(Bytes)
  BY PieceType DEF TypeInv
<1> QED  BY <1>1, <1>2, <1>3, <1>4, <1>5, <1>6

\* The stream at first.
LEMMA StreamInit == Init => StreamInv
<1> SUFFICES ASSUME Init PROVE StreamInv
  OBVIOUS
<1>1. TypeInv
  BY TypeInit
<1>2. /\ sent = <<>> /\ Delivered = <<>> /\ held \o wire = <<>> /\ Written = 0 /\ msg \in Seq(Bytes)
  BY <1>1, StreamTypes DEF Init, Delivered, Written
<1>3. Pending = <<>>
  BY <1>2 DEF Pending
<1>4. Splits(held \o wire, Pending, <<>>)
  <2>1. <<>> \in Seq(Bytes)
    OBVIOUS
  <2>2. Splits(<<>>, <<>>, <<>>)
    BY <2>1, NothingSplits
  <2> QED  BY <1>2, <1>3, <2>2
<1>5. SubSeq(Frame(msg), 1, Written) = <<>>
  BY <1>2, FrameType
<1>6. IsPrefix(Delivered, sent)
  BY <1>2 DEF IsPrefix
<1>7. <<>> \in Seq(Bytes)
  OBVIOUS
<1>8. InTransit
  BY <1>4, <1>5, <1>6, <1>7 DEF InTransit
<1>9. Exhausted
  BY <1>2 DEF Exhausted
<1> QED  BY <1>1, <1>8, <1>9 DEF StreamInv

\* Nothing is different for the receiver.
LEMMA SameStream ==
    ASSUME StreamInv, TypeInv', UNCHANGED sent, Delivered' = Delivered,
           (held \o wire)' = held \o wire, failed => failed',
           ~failed' => SubSeq(Frame(msg), 1, Written)' = SubSeq(Frame(msg), 1, Written),
           inLoop' \/ UNCHANGED <<held, inLoop>>
    PROVE  StreamInv'
<1>1. Pending' = Pending
  BY DEF Pending
<1>2. InTransit => InTransit'
  BY <1>1 DEF InTransit
<1>3. PastFailure => PastFailure'
  BY DEF PastFailure
<1>4. Exhausted'
  BY DEF StreamInv, Exhausted
<1> QED  BY <1>2, <1>3, <1>4 DEF StreamInv

\* Nothing of a frame.
LEMMA NothingWritten ==
    ASSUME NEW m \in Seq(Bytes)
    PROVE  SubSeq(Frame(m), 1, 0) = <<>>
BY FrameType

\* sendMessage begins with no byte written.
LEMMA SendMessageStream ==
    ASSUME StreamInv, NEW m \in Messages, SendMessage(m)
    PROVE  StreamInv'
<1>1. TypeInv /\ TypeInv'
  BY SendMessageTypes DEF StreamInv
<1>2. Delivered' = Delivered /\ UNCHANGED <<sent, held, wire, inLoop, failed>>
  BY DEF SendMessage, recvVars, Delivered
<1>3. Written = 0 /\ Written' = 0
  BY DEF SendMessage, Begin, Written
<1>4. msg \in Seq(Bytes) /\ msg' \in Seq(Bytes)
  BY <1>1, StreamTypes, ConstantTypes DEF SendMessage
<1>5. SubSeq(Frame(msg), 1, Written) = <<>>
  BY <1>3, <1>4, NothingWritten
<1>6. SubSeq(Frame(msg'), 1, Written') = <<>>
  BY <1>3, <1>4, NothingWritten
<1> QED  BY <1>1, <1>2, <1>5, <1>6, SameStream

\* A failure leaves what has been written behind, unless it is nothing.
LEMMA FailStream ==
    ASSUME StreamInv, TypeInv', part # "idle", Fail, UNCHANGED <<wire, recvVars>>
    PROVE  StreamInv'
<1>1. Delivered' = Delivered /\ UNCHANGED <<sent, held, wire, inLoop, msg>> /\ (failed => failed')
  BY DEF Fail, recvVars, Delivered
<1>2. ASSUME ~failed' PROVE Written = 0 /\ Written' = 0
  <2>1. ~HalfWay
    BY <1>2, Zenon DEF Fail
  <2>2. part = "header" /\ ~(bytesSent > 0) /\ bytesSent \in Nat
    BY <2>1, PieceType DEF HalfWay, StreamInv, TypeInv, TypeOK
  <2>3. part' = "idle"
    BY DEF Fail, Begin
  <2> QED  BY <2>2, <2>3 DEF Written
<1> QED  BY <1>1, <1>2, SameStream

\* A retry.
LEMMA XmitNothingStream ==
    ASSUME StreamInv, XmitNothing
    PROVE  StreamInv'
<1>1. TypeInv /\ TypeInv'
  BY XmitNothingTypes DEF StreamInv
<1>2. CASE Counted >= SendRetry
  BY <1>1, <1>2, FailStream DEF XmitNothing
<1>3. CASE ~(Counted >= SendRetry)
  <2>1. UNCHANGED <<part, msg, bytesSent, sent, failed, wire, held, inLoop>> /\ Delivered' = Delivered
    BY <1>3 DEF XmitNothing, recvVars, Delivered
  <2>2. Written' = Written
    BY <2>1 DEF Written
  <2> QED  BY <1>1, <2>1, <2>2, SameStream
<1> QED  BY <1>2, <1>3

\* A chunk changes hands.
LEMMA ProcessChunkStream ==
    ASSUME StreamInv, NEW n \in 1 .. Len(wire), ProcessChunk(n)
    PROVE  StreamInv'
<1>1. TypeInv /\ TypeInv' /\ held \in Seq(Bytes) /\ wire \in Seq(Bytes)
  BY ProcessChunkTypes, StreamTypes DEF StreamInv
<1>2. UNCHANGED <<sent, failed, part, msg, bytesSent>> /\ Delivered' = Delivered /\ inLoop'
  BY DEF ProcessChunk, sendVars, Delivered
<1>3. Written' = Written
  BY <1>2 DEF Written
<1>4. (held \o wire)' = held \o wire
  <2> DEFINE p == SubSeq(wire, 1, n)  q == SubSeq(wire, n + 1, Len(wire))
  <2>1. p \in Seq(Bytes) /\ q \in Seq(Bytes) /\ p \o q = wire
    <3>1. p \in Seq(Bytes) /\ q \in Seq(Bytes)
      BY <1>1
    <3>2. p \o q = SubSeq(wire, 1, Len(wire))
      BY <1>1, ConcatAdjacentSubSeq
    <3> QED  BY <1>1, <3>1, <3>2, SubSeqFull
  <2>2. held' = held \o p /\ wire' = q
    BY DEF ProcessChunk
  <2> HIDE DEF p, q
  <2>3. (held \o p) \o q = held \o (p \o q)
    <3>1. held \in Seq(Bytes) /\ p \in Seq(Bytes) /\ q \in Seq(Bytes)
      BY <1>1, <2>1
    <3> QED  BY <3>1, ConcatAssociative
  <2> QED  BY <2>1, <2>2, <2>3
<1> QED  BY <1>1, <1>2, <1>3, <1>4, SameStream

\* getMsg delivers nothing new.
LEMMA GetMsgStream ==
    ASSUME StreamInv, GetMsg
    PROVE  StreamInv' /\ Delivered' = Delivered
<1>1. TypeInv /\ TypeInv' /\ received \in Seq(Entries) /\ msgQueue \in Seq(Entries)
  BY GetMsgTypes, StreamTypes DEF StreamInv
<1>2. UNCHANGED <<sent, failed, part, msg, bytesSent, held, inLoop, wire>>
  BY DEF GetMsg, sendVars
<1>3. Written' = Written
  BY <1>2 DEF Written
<1>4. Delivered' = Delivered
  <2> DEFINE x == Head(msgQueue)  q == Tail(msgQueue)
  <2>1. x \in Entries /\ q \in Seq(Entries) /\ msgQueue = <<x>> \o q
    BY <1>1 DEF GetMsg
  <2>2. received' = Append(received, x) /\ msgQueue' = q
    BY DEF GetMsg
  <2> HIDE DEF x, q
  <2>3. Append(received, x) = received \o <<x>>
    BY <1>1, <2>1
  <2>4. (received \o <<x>>) \o q = received \o (<<x>> \o q)
    BY <1>1, <2>1, ConcatAssociative
  <2> QED  BY <2>1, <2>2, <2>3, <2>4 DEF Delivered
<1> QED  BY <1>1, <1>2, <1>3, <1>4, SameStream


\* Before a failure, the assembler holds less than the message being sent when
\* all the messages before it have come out.
LEMMA HoldsLess ==
    ASSUME StreamInv, ~failed, Len(Delivered) >= Len(sent)
    PROVE  /\ held \o wire = SubSeq(Frame(msg), 1, Written)
           /\ Delivered = sent
<1>1. TypeInv /\ InTransit
  BY DEF StreamInv, PastFailure
<1>2. PICK t \in Seq(Bytes) : Splits(held \o wire, Pending, t) /\ t = SubSeq(Frame(msg), 1, Written)
  BY <1>1 DEF InTransit
<1>3. Delivered = sent
  BY <1>1, StreamTypes, PrefixOfEqualLength DEF InTransit
<1>4. Pending = <<>>
  BY <1>1, <1>3, StreamTypes DEF Pending
<1> QED  BY <1>2, <1>3, <1>4, SplitsNothing

\* What has been written of a message is less than its frame.
LEMMA WrittenInFrame ==
    ASSUME TypeInv
    PROVE  /\ Written \in Nat /\ Written < Len(Frame(msg))
           /\ SubSeq(Frame(msg), 1, Written) \in Seq(Bytes) /\ Len(SubSeq(Frame(msg), 1, Written)) = Written
           /\ \A i \in 1 .. Written : SubSeq(Frame(msg), 1, Written)[i] = Frame(msg)[i]
<1>1. msg \in Seq(Bytes) /\ Len(msg) \in Nat /\ bytesSent \in 0 .. Len(Piece) /\ Piece \in Seq(Bytes)
  BY PieceType DEF TypeInv, TypeOK
<1>2. Frame(msg) \in Seq(Bytes) /\ Len(Frame(msg)) = HeaderSize + Len(msg) + 1
  BY <1>1, FrameType
<1>3. Len(Header(Len(msg))) = HeaderSize
  BY <1>1, Headers
<1>4. Written \in Nat /\ Written < Len(Frame(msg))
  BY <1>1, <1>2, <1>3, ConstantTypes DEF Written, Piece
<1> QED  BY <1>2, <1>4

\* What xmitMsg takes is the next of the frame.
LEMMA XmitSomeStream ==
    ASSUME StreamInv, NEW n \in 1 .. Len(Piece) - bytesSent, XmitSome(n)
    PROVE  StreamInv'
<1> DEFINE p == SubSeq(Piece, bytesSent + 1, bytesSent + n)
           f == Frame(msg)
<1>1. TypeInv /\ TypeInv' /\ TypeOK /\ part # "idle"
  BY XmitSomeTypes DEF StreamInv, TypeInv, XmitSome
<1>2. /\ held \in Seq(Bytes) /\ wire \in Seq(Bytes) /\ sent \in Seq(Messages) /\ sent \in Seq(Entries)
      /\ Delivered \in Seq(Entries) /\ msg \in Seq(Bytes) /\ Messages \subseteq Entries
      /\ Pending \in Seq(Messages)
  BY <1>1, StreamTypes
<1>3. /\ Written \in Nat /\ Written + n <= Len(f) /\ p = SubSeq(f, Written + 1, Written + n)
      /\ part = "header" /\ n + bytesSent = Len(Piece) => Written + n = HeaderSize
      /\ part = "body" /\ n + bytesSent = Len(Piece) => Written + n = HeaderSize + Len(msg)
      /\ part = "trailer" => Written + n = Len(f) /\ n + bytesSent = Len(Piece)
  BY <1>1, PieceOfFrame
<1>4. f \in Seq(Bytes) /\ Len(f) \in Nat /\ n \in Nat
  BY <1>2, FrameType
<1> HIDE DEF p, f
<1>5. p \in Seq(Bytes)
  BY <1>3, <1>4
<1>6. /\ UNCHANGED <<msg, calls, failed, recvVars>> /\ Delivered' = Delivered /\ UNCHANGED <<held, inLoop>>
      /\ wire' = wire \o p
  BY DEF XmitSome, recvVars, Delivered, p
<1>7. msg \in Messages
  BY <1>1 DEF TypeInv, SendInv
<1>8. (held \o wire)' = (held \o wire) \o p
  <2>1. held \in Seq(Bytes) /\ wire \in Seq(Bytes)
    BY <1>2
  <2>2. (held \o wire) \o p = held \o (wire \o p)
    BY <1>5, <2>1, ConcatAssociative
  <2> QED  BY <1>6, <2>2
<1>9. SubSeq(f, 1, Written) \o p = SubSeq(f, 1, Written + n)
  <2>1. SubSeq(f, 1, Written) \o SubSeq(f, Written + 1, Written + n) = SubSeq(f, 1, Written + n)
    BY <1>3, <1>4, ConcatAdjacentSubSeq
  <2> QED  BY <1>3, <2>1
<1>10. CASE sent' = sent /\ (~failed => Written' = Written + n)
  <2>1. Pending' = Pending
    BY <1>6, <1>10 DEF Pending
  <2>2. ASSUME InTransit PROVE InTransit'
    <3>1. PICK t \in Seq(Bytes) :
              /\ Splits(held \o wire, Pending, t)
              /\ ~failed => t = SubSeq(Frame(msg), 1, Written)
      BY <2>2 DEF InTransit
    <3>2. Splits((held \o wire)', Pending', t \o p)
      BY <1>2, <1>5, <1>8, <2>1, <3>1, SplitsMore
    <3>3. ~failed' => t \o p = SubSeq(Frame(msg), 1, Written)'
      BY <1>6, <1>9, <1>10, <3>1 DEF f
    <3>4. \E u \in Seq(Bytes) :
              /\ Splits((held \o wire)', Pending', u)
              /\ ~failed' => u = SubSeq(Frame(msg), 1, Written)'
      <4>1. t \o p \in Seq(Bytes)
        BY <1>5
      <4> QED  BY <3>2, <3>3, <4>1, Zenon
    <3>5. IsPrefix(Delivered, sent)'
      BY <1>6, <1>10, <2>2 DEF InTransit
    <3> QED  BY <3>4, <3>5 DEF InTransit
  <2>3. PastFailure => PastFailure'
    BY <1>6, <1>10 DEF PastFailure
  <2>4. Exhausted'
    BY <1>6, <1>10 DEF StreamInv, Exhausted
  <2> QED  BY <1>1, <2>2, <2>3, <2>4 DEF StreamInv
<1>11. CASE ~failed /\ sent' = Append(sent, msg) /\ Written' = 0 /\ Written + n = Len(f)
  <2>1. InTransit /\ ~failed'
    BY <1>6, <1>11 DEF StreamInv, PastFailure
  <2>2. PICK t \in Seq(Bytes) : Splits(held \o wire, Pending, t) /\ t = SubSeq(Frame(msg), 1, Written)
    BY <1>11, <2>1 DEF InTransit
  <2>3. t \o p = f
    BY <1>4, <1>9, <1>11, <2>2, SubSeqFull DEF f
  <2>4. Splits((held \o wire)', Pending, f)
    BY <1>2, <1>5, <1>8, <2>2, <2>3, SplitsMore
  <2>5. Splits((held \o wire)', Append(Pending, msg), <<>>)
    BY <1>2, <1>7, <2>4, SplitsFrame DEF f
  <2>6. IsPrefix(Delivered, sent)' /\ Pending' = Append(Pending, msg)
    <3>1. IsPrefix(Delivered, sent) /\ msg \in Entries
      BY <1>2, <1>7, <2>1 DEF InTransit
    <3>2. /\ IsPrefix(Delivered, Append(sent, msg))
          /\ SubSeq(Append(sent, msg), Len(Delivered) + 1, Len(Append(sent, msg)))
             = Append(SubSeq(sent, Len(Delivered) + 1, Len(sent)), msg)
      <4>1. sent \in Seq(Entries) /\ Delivered \in Seq(Entries)
        BY <1>2
      <4>2. IsPrefix(Delivered, sent)
        BY <3>1
      <4>3. msg \in Entries
        BY <3>1
      <4>4. \A m \in Entries : Grows(Delivered, sent, m)
        BY <4>1, <4>2, PrefixGrows
      <4> QED  BY <4>3, <4>4 DEF Grows
    <3> QED  BY <1>6, <1>11, <3>2 DEF Pending
  <2>7. SubSeq(Frame(msg), 1, Written)' = <<>> /\ <<>> \in Seq(Bytes)
    BY <1>2, <1>6, <1>11, NothingWritten
  <2>8. InTransit'
    BY <2>5, <2>6, <2>7 DEF InTransit
  <2>9. Exhausted'
    <3>1. SUFFICES ASSUME ~inLoop
                   PROVE  Len(held) < Len(Frame(Append(sent, msg)[Len(Delivered) + 1]))
      BY <1>6, <1>11 DEF Exhausted
    <3>2. CASE Len(Delivered) < Len(sent)
      <4>1. Append(sent, msg)[Len(Delivered) + 1] = sent[Len(Delivered) + 1]
        BY <1>2, <1>7, <3>2
      <4> QED  BY <3>1, <3>2, <4>1 DEF StreamInv, Exhausted
    <3>3. CASE ~(Len(Delivered) < Len(sent))
      <4>1. held \o wire = SubSeq(f, 1, Written) /\ Delivered = sent
        <5>1. Len(Delivered) >= Len(sent)
          BY <1>2, <3>3
        <5> QED  BY <1>11, <5>1, HoldsLess DEF f
      <4>2. Append(sent, msg)[Len(Delivered) + 1] = msg
        BY <1>2, <1>7, <4>1
      <4>3. Len(held) <= Written /\ Written < Len(f)
        <5>1. Len(held \o wire) = Len(held) + Len(wire)
          BY <1>2
        <5>2. Len(SubSeq(f, 1, Written)) = Written /\ Written < Len(f)
          BY <1>1, WrittenInFrame DEF f
        <5>3. Len(held) \in Nat /\ Len(wire) \in Nat
          BY <1>2
        <5> QED  BY <1>3, <4>1, <5>1, <5>2, <5>3
      <4>4. Len(held) < Len(f)
        BY <1>2, <1>3, <1>4, <4>3
      <4> QED  BY <4>2, <4>4 DEF f
    <3> QED  BY <3>2, <3>3
  <2> QED  BY <1>1, <2>8, <2>9 DEF StreamInv
<1>12. CASE ~(bytesSent + n >= Len(Piece))
  <2>1. bytesSent' = bytesSent + n /\ UNCHANGED <<part, sent>>
    BY <1>12 DEF XmitSome
  <2>2. bytesSent \in Nat /\ part # "trailer" /\ part \in {"header", "body", "trailer"}
    BY <1>1, <1>3, <1>4, <1>12, PieceType DEF TypeOK
  <2>3. Written' = Written + n
    BY <1>4, <1>6, <2>1, <2>2, ConstantTypes DEF Written
  <2> QED  BY <1>10, <2>1, <2>3
<1>13. CASE bytesSent + n >= Len(Piece)
  <2>0. Finish /\ n + bytesSent = Len(Piece) /\ part \in {"header", "body", "trailer"}
    BY <1>1, <1>13, PieceType DEF XmitSome, TypeOK
  <2>1. CASE part = "header"
    <3>1. part' = "body" /\ bytesSent' = 0 /\ sent' = sent
      BY <2>0, <2>1 DEF Finish, Begin
    <3>2. Written' = HeaderSize
      BY <3>1, ConstantTypes DEF Written
    <3> QED  BY <1>3, <1>10, <2>0, <2>1, <3>1, <3>2
  <2>2. CASE part = "body"
    <3>1. part' = "trailer" /\ sent' = sent
      BY <2>0, <2>2 DEF Finish, Begin
    <3>2. Written' = HeaderSize + Len(msg)
      BY <1>6, <3>1 DEF Written
    <3> QED  BY <1>3, <1>10, <2>0, <2>2, <3>1, <3>2
  <2>3. CASE part = "trailer"
    <3>1. part' = "idle" /\ sent' = IF failed THEN sent ELSE Append(sent, msg)
      BY <2>0, <2>3 DEF Finish, Begin
    <3>2. Written' = 0
      BY <3>1 DEF Written
    <3> QED  BY <1>3, <1>10, <1>11, <2>3, <3>1, <3>2
  <2> QED  BY <2>0, <2>1, <2>2, <2>3
<1> QED  BY <1>12, <1>13


\* A message that has been sent is at the front, whole as soon as it is taken.
LEMMA FrontIsFrame ==
    ASSUME TypeInv, MessagesFit, InTransit, Len(Delivered) < Len(sent)
    PROVE  LET m == sent[Len(Delivered) + 1]
           IN  /\ m \in Messages /\ Frame(m) \in Seq(Bytes) /\ Len(Frame(m)) > HeaderSize
               /\ IsPrefix(Append(Delivered, m), sent)
               /\ HeaderIsHere =>
                      /\ Starts /\ Needed = Len(Frame(m)) /\ FrameLength = Needed
                      /\ IsWhole => /\ held[FrameLength] = ETX
                                    /\ SubSeq(held, HeaderSize + 1, FrameLength - 1) = m
                                    /\ \E t \in Seq(Bytes) :
                                          /\ Splits(Rest \o wire, Tail(Pending), t)
                                          /\ ~failed => t = SubSeq(Frame(msg), 1, Written)
               /\ SubSeq(sent, Len(Append(Delivered, m)) + 1, Len(sent)) = Tail(Pending)
<1> DEFINE m == sent[Len(Delivered) + 1]
<1>1. /\ held \in Seq(Bytes) /\ wire \in Seq(Bytes) /\ sent \in Seq(Messages)
      /\ sent \in Seq(Entries) /\ Delivered \in Seq(Entries) /\ Pending \in Seq(Messages)
  BY StreamTypes
<1>2. PICK t \in Seq(Bytes) :
          /\ Splits(held \o wire, Pending, t)
          /\ ~failed => t = SubSeq(Frame(msg), 1, Written)
  BY DEF InTransit
<1>3. /\ IsPrefix(Append(Delivered, m), sent) /\ Len(Pending) > 0 /\ Pending[1] = m
      /\ SubSeq(sent, Len(Append(Delivered, m)) + 1, Len(sent)) = Tail(Pending)
  <2>1. IsPrefix(Delivered, sent)
    BY DEF InTransit
  <2>2. sent \in Seq(Entries) /\ Delivered \in Seq(Entries)
    BY <1>1
  <2> QED  BY <2>1, <2>2, PrefixNext DEF Pending
<1>4. m \in Messages
  BY <1>1
<1>5. /\ m \in Seq(Bytes) /\ Len(m) \in Nat
      /\ Frame(m) \in Seq(Bytes) /\ Len(Frame(m)) = HeaderSize + Len(m) + 1
  BY <1>4, ConstantTypes, FrameType, SMTT(30)
<1> HIDE DEF m
<1>6. PICK r \in Seq(Bytes) : held \o wire = Frame(m) \o r /\ Splits(r, Tail(Pending), t)
  BY <1>1, <1>2, <1>3, SplitsFirst
<1>7. /\ \A i \in 1 .. Len(held) : i <= Len(Frame(m)) => held[i] = Frame(m)[i]
      /\ Len(held) >= Len(Frame(m)) => SubSeq(held, Len(Frame(m)) + 1, Len(held)) \o wire = r
  <2> DEFINE f == Frame(m)
  <2>1. f \in Seq(Bytes) /\ held \in Seq(Bytes) /\ wire \in Seq(Bytes) /\ held \o wire = f \o r
    BY <1>1, <1>5, <1>6
  <2> HIDE DEF f
  <2>2. /\ \A i \in 1 .. Len(held) : i <= Len(f) => held[i] = f[i]
        /\ Len(held) >= Len(f) => SubSeq(held, Len(f) + 1, Len(held)) \o wire = r
    BY <2>1, SameFront
  <2> QED  BY <2>2 DEF f
<1>8. ASSUME HeaderIsHere
      PROVE  /\ Starts /\ MsgLength = Len(m) /\ FrameLength = Len(Frame(m)) /\ Needed = FrameLength
             /\ IsWhole => /\ held[FrameLength] = ETX
                           /\ SubSeq(held, HeaderSize + 1, FrameLength - 1) = m
  BY <1>4, <1>7, <1>8, ReadsFrame DEF TypeInv
<1>9. ASSUME HeaderIsHere, IsWhole
      PROVE  \E u \in Seq(Bytes) :
                 /\ Splits(Rest \o wire, Tail(Pending), u)
                 /\ ~failed => u = SubSeq(Frame(msg), 1, Written)
  <2>1. Rest \o wire = r
    BY <1>7, <1>8, <1>9 DEF IsWhole, Rest
  <2> QED  BY <1>2, <1>6, <2>1
<1>10. Len(Frame(m)) > HeaderSize
  BY <1>5, ConstantTypes
<1> QED  BY <1>3, <1>4, <1>5, <1>8, <1>9, <1>10 DEF m

\* What processChunk adds to the queue is bytes or a message without them.
LEMMA LoopQueue ==
    ASSUME TypeInv, Loop
    PROVE  msgQueue' = msgQueue \/ \E x \in Entries : msgQueue' = Append(msgQueue, x)
<1>1. CASE ShortHeader \/ BadStart \/ Incomplete \/ BadTrailer
  BY <1>1 DEF ShortHeader, BadStart, Incomplete, BadTrailer
<1>2. CASE TakeMessage
  <2>1. SubSeq(held, HeaderSize + 1, FrameLength - 1) \in Seq(Bytes)
    BY <1>2, RestType DEF TypeInv, TakeMessage, Completes, Starts
  <2> QED  BY <1>2, <2>1 DEF TakeMessage, Entries
<1>3. CASE TakeMissing
  <2> DEFINE body == SubSeq(held, HeaderSize + 1, Len(held))
             entry == IF Len(body) = MsgLength THEN body ELSE NULL
  <2>1. body \in Seq(Bytes)
    BY ConstantTypes DEF TypeInv, TypeOK
  <2>2. entry \in Entries
    BY <2>1 DEF Entries
  <2>3. msgQueue' = msgQueue \/ msgQueue' = Append(msgQueue, entry)
    BY <1>3 DEF TakeMissing
  <2> HIDE DEF entry
  <2> QED  BY <2>2, <2>3
<1> QED  BY <1>1, <1>2, <1>3 DEF Loop

\* What a way round the loop can change.
LEMMA LoopDelivers ==
    ASSUME TypeInv, Loop
    PROVE  /\ UNCHANGED <<sendVars, wire, received>>
           /\ Delivered' = Delivered \/ \E x \in Entries : Delivered' = Append(Delivered, x)
<1>1. UNCHANGED <<sendVars, wire, received>>
  BY DEF Loop, InLoop, ShortHeader, BadStart, Incomplete, TakeMessage, BadTrailer, TakeMissing
<1>2. received \in Seq(Entries) /\ msgQueue \in Seq(Entries)
  BY StreamTypes
<1>3. \A x \in Entries : received \o Append(msgQueue, x) = Append(received \o msgQueue, x)
  BY <1>2
<1> QED  BY <1>1, <1>3, LoopQueue DEF Delivered


\* The loop on a stream that begins with a message: it is taken when it is
\* whole, and otherwise nothing is.
LEMMA LoopTakesNext ==
    ASSUME StreamInv, MessagesFit, Loop, InTransit, Len(Delivered) < Len(sent)
    PROVE  /\ StreamInv'
           /\ Delivered' = Delivered \/ Delivered' = Append(Delivered, sent[Len(Delivered) + 1])
<1> DEFINE m == sent[Len(Delivered) + 1]
<1>1. TypeInv /\ TypeInv' /\ UNCHANGED <<sendVars, wire, received>>
  BY LoopTypes, LoopDelivers DEF StreamInv
<1>2. UNCHANGED <<sent, failed, part, msg, bytesSent, wire, received>>
  BY <1>1 DEF sendVars
<1>3. Written' = Written
  BY <1>2 DEF Written
<1>4. /\ m \in Messages /\ Frame(m) \in Seq(Bytes) /\ Len(Frame(m)) > HeaderSize
      /\ IsPrefix(Append(Delivered, m), sent)
      /\ HeaderIsHere =>
             /\ Starts /\ Needed = Len(Frame(m)) /\ FrameLength = Needed
             /\ IsWhole => /\ held[FrameLength] = ETX
                           /\ SubSeq(held, HeaderSize + 1, FrameLength - 1) = m
                           /\ \E t \in Seq(Bytes) :
                                 /\ Splits(Rest \o wire, Tail(Pending), t)
                                 /\ ~failed => t = SubSeq(Frame(msg), 1, Written)
      /\ SubSeq(sent, Len(Append(Delivered, m)) + 1, Len(sent)) = Tail(Pending)
  BY <1>1, FrontIsFrame
<1>5. /\ Len(Frame(m)) \in Nat /\ Len(held) \in Nat /\ HeaderSize \in Nat
      /\ msgQueue \in Seq(Entries) /\ received \in Seq(Entries) /\ m \in Entries
  <2>1. held \in Seq(Bytes) /\ msgQueue \in Seq(Entries) /\ received \in Seq(Entries) /\ m \in Entries
    BY <1>1, <1>4, StreamTypes
  <2> HIDE DEF m
  <2> QED  BY <1>4, <2>1, ConstantTypes
<1> HIDE DEF m
<1>6. ASSUME UNCHANGED <<held, msgQueue>>, Len(held) < Len(Frame(m))
      PROVE  StreamInv' /\ Delivered' = Delivered
  <2>1. Delivered' = Delivered
    BY <1>2, <1>6 DEF Delivered
  <2>2. Pending' = Pending
    BY <1>2, <2>1 DEF Pending
  <2>3. InTransit'
    BY <1>2, <1>3, <1>6, <2>1, <2>2 DEF InTransit
  <2>4. Exhausted'
    BY <1>2, <1>6, <2>1 DEF Exhausted, m
  <2> QED  BY <1>1, <2>1, <2>3, <2>4 DEF StreamInv
<1>7. CASE ShortHeader
  BY <1>4, <1>5, <1>6, <1>7 DEF ShortHeader, HeaderIsHere
<1>8. CASE BadStart
  BY <1>4, <1>8 DEF BadStart
<1>9. CASE Incomplete
  <2>1. Starts /\ ~Completes /\ HeaderIsHere /\ UNCHANGED <<held, msgQueue>>
    BY <1>9 DEF Incomplete, Starts
  <2> QED  BY <1>4, <1>5, <1>6, <2>1 DEF Completes
<1>10. CASE TakeMessage
  <2>1. HeaderIsHere /\ IsWhole /\ held' = Rest /\ UNCHANGED inLoop /\ inLoop
        /\ msgQueue' = Append(msgQueue, SubSeq(held, HeaderSize + 1, FrameLength - 1))
    BY <1>10 DEF TakeMessage, Completes, Starts, Again, InLoop
  <2>2. msgQueue' = Append(msgQueue, m)
    BY <1>4, <2>1
  <2>3. Delivered' = Append(Delivered, m)
    BY <1>2, <1>5, <2>2 DEF Delivered
  <2>4. Pending' = Tail(Pending)
    BY <1>2, <1>4, <2>3 DEF Pending
  <2>5. IsPrefix(Delivered, sent)'
    BY <1>2, <1>4, <2>3
  <2>6. \E t \in Seq(Bytes) :
            /\ Splits((held \o wire)', Pending', t)
            /\ ~failed' => t = SubSeq(Frame(msg), 1, Written)'
    BY <1>2, <1>3, <1>4, <2>1, <2>4
  <2>7. InTransit'
    BY <2>5, <2>6 DEF InTransit
  <2>8. Exhausted'
    BY <2>1 DEF Exhausted
  <2> QED  BY <1>1, <2>3, <2>7, <2>8 DEF StreamInv, m
<1>11. CASE BadTrailer
  BY <1>4, <1>11 DEF BadTrailer, Completes, Starts
<1>12. CASE TakeMissing
  <2>1. HeaderIsHere /\ Len(held) >= Needed /\ ~IsWhole
    BY <1>12 DEF TakeMissing, Completes, Starts
  <2> QED  BY <1>4, <1>5, <2>1 DEF IsWhole
<1> QED  BY <1>7, <1>8, <1>9, <1>10, <1>11, <1>12 DEF Loop, m

\* The loop when all that was sent has come out and no send has failed.
LEMMA LoopWaits ==
    ASSUME StreamInv, MessagesFit, Loop, ~failed, Len(Delivered) >= Len(sent)
    PROVE  StreamInv' /\ Delivered' = Delivered
<1>1. TypeInv /\ TypeInv' /\ UNCHANGED <<sendVars, wire, received>>
  BY LoopTypes, LoopDelivers DEF StreamInv
<1>2. UNCHANGED <<sent, failed, part, msg, bytesSent, wire, received>>
  BY <1>1 DEF sendVars
<1>3. Written' = Written
  BY <1>2 DEF Written
<1>4. held \o wire = SubSeq(Frame(msg), 1, Written) /\ Delivered = sent
  BY HoldsLess
<1> DEFINE s == SubSeq(Frame(msg), 1, Written)
<1>5. /\ Written \in Nat /\ Written < Len(Frame(msg)) /\ s \in Seq(Bytes) /\ Len(s) = Written
      /\ \A i \in 1 .. Written : s[i] = Frame(msg)[i]
  BY <1>1, WrittenInFrame
<1>6. held \in Seq(Bytes) /\ wire \in Seq(Bytes) /\ msg \in Seq(Bytes) /\ held \o wire = s
  BY <1>1, <1>4, StreamTypes
<1> HIDE DEF s
<1>7. /\ Len(held) \in Nat /\ Len(held) < Len(Frame(msg))
      /\ \A i \in 1 .. Len(held) : held[i] = Frame(msg)[i]
  <2>1. Joins(s, held, wire)
    <3>1. Joins(held \o wire, held, wire)
      BY <1>6, ConcatJoins
    <3> QED  BY <1>6, <3>1
  <2>2. Len(held) \in Nat /\ Len(wire) \in Nat
    BY <1>6
  <2> QED  BY <1>5, <2>1, <2>2 DEF Joins
<1>8. ASSUME HeaderIsHere PROVE Starts /\ ~Completes
  <2>1. Len(held) > 0 /\ Written > 0
    <3>1. Len(held) >= HeaderSize
      BY <1>8 DEF HeaderIsHere
    <3>2. Len(s) = Len(held) + Len(wire) /\ Len(wire) \in Nat
      BY <1>6
    <3> QED  BY <1>5, <1>7, <3>1, <3>2, ConstantTypes
  <2>2. msg \in Messages
    BY <1>1, <2>1 DEF TypeInv, SendInv, Written
  <2>3. Starts /\ FrameLength = Len(Frame(msg)) /\ Needed = FrameLength
    BY <1>1, <1>7, <1>8, <2>2, ReadsFrame DEF TypeInv
  <2>4. Len(Frame(msg)) \in Nat
    BY <1>6, FrameType
  <2> QED  BY <1>7, <2>3, <2>4 DEF Completes
<1>9. UNCHANGED <<held, msgQueue>>
  <2>1. CASE ShortHeader \/ Incomplete
    BY <2>1 DEF ShortHeader, Incomplete
  <2>2. CASE BadStart
    BY <1>8, <2>2 DEF BadStart
  <2>3. CASE TakeMessage \/ BadTrailer \/ TakeMissing
    BY <1>8, <2>3 DEF TakeMessage, BadTrailer, TakeMissing, Completes, Starts
  <2> QED  BY <2>1, <2>2, <2>3 DEF Loop
<1>10. Delivered' = Delivered
  BY <1>2, <1>9 DEF Delivered
<1>11. Pending' = Pending
  BY <1>2, <1>10 DEF Pending
<1>12. InTransit'
  BY <1>2, <1>3, <1>9, <1>10, <1>11 DEF InTransit, StreamInv, PastFailure
<1>13. Exhausted'
  BY <1>2, <1>4, <1>10, StreamTypes DEF Exhausted
<1> QED  BY <1>1, <1>10, <1>12, <1>13 DEF StreamInv

\* The loop after a failure half way, when all that was sent before has come out.
LEMMA LoopGoesOn ==
    ASSUME StreamInv, Loop, failed, Len(Delivered) >= Len(sent)
    PROVE  /\ StreamInv' /\ IsPrefix(sent, Delivered)
           /\ Delivered' = Delivered \/ \E x \in Entries : Delivered' = Append(Delivered, x)
<1>1. TypeInv /\ TypeInv' /\ UNCHANGED <<sendVars, wire, received>>
  BY LoopTypes, LoopDelivers DEF StreamInv
<1>2. UNCHANGED <<sent, failed>>
  BY <1>1 DEF sendVars
<1>3. sent \in Seq(Entries) /\ Delivered \in Seq(Entries)
  BY <1>1, StreamTypes
<1>4. IsPrefix(sent, Delivered)
  <2>1. CASE InTransit
    <3>1. Delivered = sent
      BY <1>3, <2>1, PrefixOfEqualLength DEF InTransit
    <3> QED  BY <1>3, <3>1 DEF IsPrefix
  <2>2. CASE PastFailure
    BY <2>2 DEF PastFailure
  <2> QED  BY <2>1, <2>2 DEF StreamInv
<1>5. Delivered' = Delivered \/ \E x \in Entries : Delivered' = Append(Delivered, x)
  BY <1>1, LoopDelivers
<1>6. IsPrefix(sent, Delivered')
  BY <1>3, <1>4, <1>5, PrefixLonger
<1>7. PastFailure'
  BY <1>2, <1>6 DEF PastFailure
<1>8. Exhausted'
  <2>1. Len(Delivered') >= Len(sent) /\ Len(Delivered') \in Nat
    BY <1>3, <1>5
  <2> QED  BY <1>2, <1>3, <2>1 DEF Exhausted
<1> QED  BY <1>1, <1>4, <1>5, <1>7, <1>8 DEF StreamInv

\* One way round the loop.
LEMMA LoopStream ==
    ASSUME StreamInv, MessagesFit, Loop
    PROVE  StreamInv'
<1>1. sent \in Seq(Entries) /\ Delivered \in Seq(Entries)
  BY StreamTypes DEF StreamInv
<1>2. CASE Len(Delivered) < Len(sent)
  <2>1. InTransit
    <3>1. PastFailure => Len(sent) <= Len(Delivered)
      BY DEF PastFailure, IsPrefix
    <3> QED  BY <1>1, <1>2, <3>1 DEF StreamInv
  <2> QED  BY <1>2, <2>1, LoopTakesNext
<1>3. CASE Len(Delivered) >= Len(sent)
  BY <1>3, LoopWaits, LoopGoesOn
<1> QED  BY <1>1, <1>2, <1>3

\* Every step keeps the invariant.
LEMMA StreamStep == StreamInv /\ MessagesFit /\ [Next]_vars => StreamInv'
<1> SUFFICES ASSUME StreamInv, MessagesFit, [Next]_vars PROVE StreamInv'
  OBVIOUS
<1>0. TypeInv'
  BY TypeStep DEF StreamInv
<1>1. ASSUME NEW m \in Messages, SendMessage(m) PROVE StreamInv'
  BY <1>1, SendMessageStream
<1>2. CASE XmitError
  BY <1>0, <1>2, FailStream DEF XmitError
<1>3. CASE XmitNothing
  BY <1>3, XmitNothingStream
<1>4. ASSUME NEW n \in 1 .. Len(Piece) - bytesSent, XmitSome(n) PROVE StreamInv'
  BY <1>4, XmitSomeStream
<1>5. CASE Receive
  BY <1>5, ProcessChunkStream DEF Receive
<1>6. CASE Loop
  BY <1>6, LoopStream
<1>7. CASE GetMsg
  BY <1>7, GetMsgStream
<1>8. CASE UNCHANGED vars
  <2>1. UNCHANGED <<sent, failed, part, msg, bytesSent, wire, held, inLoop>> /\ Delivered' = Delivered
    BY <1>8 DEF vars, sendVars, recvVars, Delivered
  <2>2. Written' = Written
    BY <2>1 DEF Written
  <2> QED  BY <1>0, <2>1, <2>2, SameStream
<1> QED  BY <1>1, <1>2, <1>3, <1>4, <1>5, <1>6, <1>7, <1>8 DEF Next, Transmit


----------------------------------------------------------------------------
(* What follows from the invariant *)

\* All bytes have been processed: no whole message is left.
LEMMA NothingLeft ==
    ASSUME StreamInv, MessagesFit
    PROVE  NothingHeldBack
<1> SUFFICES ASSUME wire = <<>>, ~inLoop
             PROVE  IsPrefix(sent, Delivered) /\ (part = "idle" /\ ~failed => held = <<>>)
  BY DEF NothingHeldBack
<1>1. /\ TypeInv /\ held \in Seq(Bytes) /\ held \o wire = held /\ sent \in Seq(Messages)
      /\ sent \in Seq(Entries) /\ Delivered \in Seq(Entries) /\ Pending \in Seq(Messages)
  BY StreamTypes DEF StreamInv
<1>2. ~(Len(Delivered) < Len(sent))
  <2>1. SUFFICES ASSUME Len(Delivered) < Len(sent) PROVE FALSE
    OBVIOUS
  <2> DEFINE m == sent[Len(Delivered) + 1]
  <2>2. InTransit
    <3>1. PastFailure => Len(sent) <= Len(Delivered)
      BY DEF PastFailure, IsPrefix
    <3> QED  BY <1>1, <2>1, <3>1 DEF StreamInv
  <2>3. PICK t \in Seq(Bytes) : Splits(held, Pending, t)
    BY <1>1, <2>2 DEF InTransit
  <2>4. Len(Pending) > 0 /\ Pending[1] = m
    <3>1. IsPrefix(Delivered, sent)
      BY <2>2 DEF InTransit
    <3> QED  BY <1>1, <2>1, <3>1, PrefixNext DEF Pending
  <2>5. m \in Messages /\ m \in Seq(Bytes)
    BY <1>1, <2>1, ConstantTypes
  <2> HIDE DEF m
  <2>6. PICK r \in Seq(Bytes) : held = Frame(m) \o r
    BY <1>1, <2>3, <2>4, SplitsFirst
  <2>7. Frame(m) \in Seq(Bytes)
    BY <2>5, FrameType
  <2> DEFINE f == Frame(m)
  <2>8. f \in Seq(Bytes) /\ held = f \o r
    BY <2>6, <2>7
  <2> HIDE DEF f
  <2>9. Len(held) >= Len(f)
    BY <2>8
  <2>10. Len(held) < Len(f)
    BY <2>1 DEF StreamInv, Exhausted, m, f
  <2> QED  BY <1>1, <2>8, <2>9, <2>10
<1>3. IsPrefix(sent, Delivered)
  <2>1. CASE InTransit
    <3>1. Delivered = sent
      BY <1>1, <1>2, <2>1, PrefixOfEqualLength DEF InTransit
    <3> QED  BY <1>1, <3>1 DEF IsPrefix
  <2>2. CASE PastFailure
    BY <2>2 DEF PastFailure
  <2> QED  BY <2>1, <2>2 DEF StreamInv
<1>4. ASSUME part = "idle", ~failed PROVE held = <<>>
  <2>1. held = SubSeq(Frame(msg), 1, Written)
    BY <1>1, <1>2, <1>4, HoldsLess
  <2>2. Written = 0 /\ msg \in Seq(Bytes)
    BY <1>1, <1>4, StreamTypes DEF Written
  <2> QED  BY <2>1, <2>2, NothingWritten
<1> QED  BY <1>3, <1>4

\* What has come out is a prefix.
LEMMA Intact == StreamInv => IntactPrefix
BY DEF StreamInv, InTransit, PastFailure, IntactPrefix

\* Every step of the two ends is a step of the channel, or none.
LEMMA StepOfChannel ==
    ASSUME StreamInv, MessagesFit, [Next]_vars
    PROVE  [Channel!Next]_Channel!vars
<1> USE DEF Channel!Next, Channel!vars
<1>0. /\ TypeInv /\ sent \in Seq(Entries) /\ Delivered \in Seq(Entries) /\ failed \in BOOLEAN
  BY StreamTypes DEF StreamInv, TypeInv, TypeOK
<1>1. ASSUME UNCHANGED <<sent, failed>>, Delivered' = Delivered PROVE [Channel!Next]_Channel!vars
  BY <1>1
<1>2. ASSUME NEW m \in Messages, SendMessage(m) PROVE [Channel!Next]_Channel!vars
  BY <1>1, <1>2 DEF SendMessage, recvVars, Delivered
<1>3. ASSUME Fail, UNCHANGED <<wire, recvVars>> PROVE [Channel!Next]_Channel!vars
  <2>1. UNCHANGED sent /\ Delivered' = Delivered /\ (failed => failed') /\ failed' \in BOOLEAN
    BY <1>3 DEF Fail, recvVars, Delivered
  <2>2. CASE failed' = failed
    BY <1>1, <2>1, <2>2
  <2>3. CASE failed' # failed
    BY <1>0, <2>1, <2>3 DEF Channel!Break
  <2> QED  BY <2>2, <2>3
<1>4. CASE XmitNothing
  <2>1. CASE Counted >= SendRetry
    BY <1>3, <1>4, <2>1 DEF XmitNothing
  <2>2. CASE ~(Counted >= SendRetry)
    BY <1>1, <1>4, <2>2 DEF XmitNothing, recvVars, Delivered
  <2> QED  BY <2>1, <2>2
<1>5. ASSUME NEW n \in 1 .. Len(Piece) - bytesSent, XmitSome(n) PROVE [Channel!Next]_Channel!vars
  <2>1. UNCHANGED failed /\ Delivered' = Delivered
    BY <1>5 DEF XmitSome, recvVars, Delivered
  <2>2. UNCHANGED sent \/ (~failed /\ sent' = Append(sent, msg) /\ part # "idle")
    BY <1>5 DEF XmitSome, Finish
  <2>3. part # "idle" => msg \in Messages
    BY <1>0 DEF TypeInv, SendInv
  <2>4. ASSUME ~failed, sent' = Append(sent, msg), msg \in Messages PROVE Channel!Send(msg)
    BY <2>1, <2>4 DEF Channel!Send
  <2> QED  BY <1>1, <2>1, <2>2, <2>3, <2>4
<1>6. CASE Receive
  <2>1. UNCHANGED <<sent, failed>> /\ Delivered' = Delivered
    BY <1>6 DEF Receive, ProcessChunk, sendVars, Delivered
  <2> QED  BY <1>1, <2>1
<1>7. CASE Loop
  <2>1. UNCHANGED <<sent, failed>>
    BY <1>0, <1>7, LoopDelivers DEF sendVars
  <2>2. CASE Len(Delivered) < Len(sent)
    <3>1. InTransit
      <4>1. PastFailure => Len(sent) <= Len(Delivered)
        BY DEF PastFailure, IsPrefix
      <4> QED  BY <1>0, <2>2, <4>1 DEF StreamInv
    <3>2. Delivered' = Delivered \/ Delivered' = Append(Delivered, sent[Len(Delivered) + 1])
      BY <1>7, <2>2, <3>1, LoopTakesNext
    <3> QED  BY <1>1, <2>1, <2>2, <3>2 DEF Channel!Deliver
  <2>3. CASE Len(Delivered) >= Len(sent) /\ ~failed
    BY <1>1, <1>7, <2>1, <2>3, LoopWaits
  <2>4. CASE Len(Delivered) >= Len(sent) /\ failed
    <3>1. Delivered' = Delivered \/ \E x \in Entries : Delivered' = Append(Delivered, x)
      BY <1>7, <2>4, LoopGoesOn
    <3>2. ASSUME NEW x \in Entries, Delivered' = Append(Delivered, x) PROVE Channel!DeliverUnspecified
      <4>1. IsPrefix(Delivered, Append(Delivered, x))
        <5>1. IsPrefix(Delivered, Delivered)
          BY <1>0 DEF IsPrefix
        <5> QED  BY <1>0, <5>1, PrefixLonger
      <4>2. Len(Append(Delivered, x)) = Len(Delivered) + 1
        BY <1>0
      <4>3. Len(Delivered') = Len(Delivered) + 1 /\ IsPrefix(Delivered, Delivered')
        BY <3>2, <4>1, <4>2
      <4> QED  BY <2>1, <2>4, <4>3, Zenon DEF Channel!DeliverUnspecified, Channel!IsPrefix, IsPrefix
    <3> QED  BY <1>1, <2>1, <3>1, <3>2
  <2> QED  BY <1>0, <2>2, <2>3, <2>4
<1>8. CASE GetMsg
  BY <1>1, <1>8, GetMsgStream DEF GetMsg, sendVars
<1>9. CASE UNCHANGED vars
  BY <1>1, <1>9 DEF vars, sendVars, recvVars, Delivered
<1>10. CASE XmitError
  BY <1>3, <1>10 DEF XmitError
<1> QED  BY <1>2, <1>4, <1>5, <1>6, <1>7, <1>8, <1>9, <1>10 DEF Next, Transmit

\* The invariant of the stream.
THEOREM StreamCorrect == MessagesFit /\ Spec => []StreamInv
<1> SUFFICES ASSUME MessagesFit PROVE Spec => []StreamInv
  OBVIOUS
<1>1. Init => StreamInv
  BY StreamInit
<1>2. StreamInv /\ [Next]_vars => StreamInv'
  BY StreamStep
<1> QED  BY <1>1, <1>2, PTL DEF Spec

\* Whatever fails and however the stream is cut, what comes out begins with the
\* messages sent until a send failed half way (Messaging.IntactPrefix), if the
\* length of no message wraps when header and trailer are added.
THEOREM MessagingIntactPrefix == MessagesFit /\ Spec => []IntactPrefix
BY StreamCorrect, Intact, PTL

\* When all bytes have been processed, every message sent before such a failure
\* has come out (Messaging.NothingHeldBack).
THEOREM MessagingNothingHeldBack == MessagesFit /\ Spec => []NothingHeldBack
<1> SUFFICES ASSUME MessagesFit PROVE Spec => []NothingHeldBack
  OBVIOUS
<1>1. StreamInv => NothingHeldBack
  BY NothingLeft
<1> QED  BY <1>1, StreamCorrect, PTL

\* The two ends implement the message channel, step by step; that it delivers in
\* the end needs fairness.
THEOREM MessagingIsChannel == MessagesFit /\ Spec => Channel!Init /\ [][Channel!Next]_Channel!vars
<1> SUFFICES ASSUME MessagesFit PROVE Spec => Channel!Init /\ [][Channel!Next]_Channel!vars
  OBVIOUS
<1>1. Init => Channel!Init
  BY DEF Init, Delivered, Channel!Init
<1>2. StreamInv /\ [Next]_vars => [Channel!Next]_Channel!vars
  BY StepOfChannel
<1> QED  BY <1>1, <1>2, StreamCorrect, PTL DEF Spec


----------------------------------------------------------------------------
(* CTcpMessaging *)

\* A socket has the number of its call of connect, which is never NoSocket.
SocketInv == SocketsAccounted /\ connects \in Nat

\* Every step keeps count of the sockets.
LEMMA SocketsStep ==
    ASSUME SocketInv, [TcpNext]_tcpVars
    PROVE  SocketInv'
<1> USE DEF SocketsAccounted, SocketInv, NoSocket
<1>1. ASSUME UNCHANGED conn PROVE SocketInv'
  BY <1>1 DEF conn
<1>2. CASE BadAddress
  BY <1>2 DEF BadAddress
<1>3. CASE Connect
  <2>1. /\ alive /\ UNCHANGED alive /\ connects' = connects + 1
        /\ overwritten' = overwritten \cup ({socket} \ {NoSocket})
    BY <1>3 DEF Connect, Ready
  <2>2. CASE socket' = connects' /\ open' = open \cup {connects'}
    BY <2>1, <2>2
  <2>3. CASE socket' = NoSocket /\ CloseNewSocket
    BY <2>1, <2>3 DEF CloseNewSocket
  <2> QED  BY <1>3, <2>2, <2>3 DEF Connect
<1>4. CASE Disconnect
  BY <1>4 DEF Disconnect, CloseSocket, Ready
<1>5. CASE Destroy
  BY <1>5 DEF Destroy, CloseSocket
<1>6. ASSUME NEW m \in Messages, Send(m) PROVE SocketInv'
  BY <1>1, <1>6 DEF Send
<1>7. CASE XmitMsg
  BY <1>1, <1>7 DEF XmitMsg
<1>8. CASE Peer
  BY <1>1, <1>8 DEF Peer
<1>9. CASE UNCHANGED tcpVars
  BY <1>1, <1>9 DEF tcpVars
<1> QED  BY <1>2, <1>3, <1>4, <1>5, <1>6, <1>7, <1>8, <1>9 DEF TcpNext

\* However connect fails and however often it is called, no socket is left open
\* but the one in m_socket and those a later connect has overwritten
\* (TcpMessaging.SocketsAccounted).
THEOREM TcpSocketsAccounted == TcpSpec => []SocketsAccounted
<1>1. TcpInit => SocketInv
  BY DEF TcpInit, SocketInv, SocketsAccounted
<1>2. SocketInv => SocketsAccounted
  BY DEF SocketInv
<1> QED  BY <1>1, <1>2, SocketsStep, PTL DEF TcpSpec

\* Every step of CTcpMessaging is one of CMessaging, or none.
LEMMA StepOfMessaging ==
    ASSUME [TcpNext]_tcpVars
    PROVE  [Next]_vars
<1>1. CASE BadAddress \/ Connect \/ Disconnect \/ Destroy
  BY <1>1 DEF BadAddress, Connect, Disconnect, Destroy, Ready
<1>2. ASSUME NEW m \in Messages, Send(m) PROVE Next
  BY <1>2 DEF Send, Next
<1>3. CASE XmitMsg
  BY <1>3 DEF XmitMsg, Next, Transmit
<1>4. CASE Peer
  BY <1>4 DEF Peer, Next
<1>5. CASE UNCHANGED tcpVars
  BY <1>5 DEF tcpVars
<1> QED  BY <1>1, <1>2, <1>3, <1>4, <1>5 DEF TcpNext

\* A CTcpMessaging is a CMessaging: connecting, disconnecting and transmitting on
\* a socket that may be gone add nothing to what the two ends can do.
THEOREM TcpIsMessaging == TcpSpec => Spec
<1>1. TcpInit => Init
  BY DEF TcpInit
<1> QED  BY <1>1, StepOfMessaging, PTL DEF TcpSpec, Spec

\* The same of both ends over TCP.
THEOREM TcpMessagingCorrect ==
    MessagesFit /\ TcpSpec => [](TypeOK /\ IntactPrefix /\ NothingHeldBack /\ SocketsAccounted)
BY TcpIsMessaging, MessagingTypeOK, MessagingIntactPrefix, MessagingNothingHeldBack,
   TcpSocketsAccounted, PTL
=============================================================================
