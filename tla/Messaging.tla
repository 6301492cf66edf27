----------------------------- MODULE Messaging -----------------------------
(***************************************************************************)
(* CMessaging (Messaging.cpp) at both ends of a byte stream.  The sender   *)
(* writes header, body and trailer with a low-level xmitMsg that may take  *)
(* only part of what it is given, nothing, or fail; the receiver appends   *)
(* each chunk that arrives to its assembler and takes complete messages    *)
(* off the front.  Nothing but the framing tells messages apart: after a   *)
(* send that fails half way the receiver reads the next message at the     *)
(* wrong place.  A send that fails before its first byte leaves no trace.  *)
(*                                                                         *)
(* The medium is a reliable ordered stream (TCP) that delivers any number  *)
(* of bytes at a time.  The assembler is used through ByteStream, which    *)
(* Assembler implements.  The length field has LengthBytes bytes of base   *)
(* Base, most significant first, and unsigned holds just that many values. *)
(***************************************************************************)
EXTENDS Naturals, SequencesExt

CONSTANTS
    Messages,     \* what callers send
    Base,         \* values of a byte (256)
    LengthBytes,  \* bytes of the length field (4)
    SendRetry,    \* SEND_RETRY (5)
    MaxSends,     \* bound: calls of sendMessage
    NULL          \* a message whose bytes were never written

ASSUME MessagingAssumption ==
    /\ Base \in Nat /\ Base > 3 /\ LengthBytes \in Nat \ {0}
    /\ SendRetry \in Nat \ {0} /\ MaxSends \in Nat
    /\ Messages \subseteq Seq(0 .. Base - 1)

VARIABLES
    part,          \* what sendMessage is transmitting, "idle" outside it
    msg,           \* its pBuffer[0 .. uLength-1]
    bytesSent,     \* locals of xmitWithRetry
    retryCounter,
    calls,         \* calls of sendMessage so far
    wire,          \* bytes accepted by xmitMsg and not yet received
    held,          \* the stream in m_assembler
    inLoop,        \* processChunk is running
    results,       \* its bResults
    msgQueue,      \* m_MsgQueue
    sent, failed, received  \* history: messages accepted before a send failed
                            \* half way, that failure, what getMsg returned

sendVars == <<part, msg, bytesSent, retryCounter, calls, sent, failed>>
recvVars == <<held, inLoop, results, msgQueue, received>>
vars == <<sendVars, wire, recvVars>>

Bytes == 0 .. Base - 1
Power[n \in 0 .. LengthBytes] == IF n = 0 THEN 1 ELSE Base * Power[n - 1]
UINT == Power[LengthBytes]
STX == 2
ETX == 3
HeaderSize == 1 + LengthBytes
TrailerSize == 1

LengthField(n) == [i \in 1 .. LengthBytes |-> (n \div Power[LengthBytes - i]) % Base]
Header(n) == <<STX>> \o LengthField(n)
LengthIn(header) ==
    LET value[i \in 0 .. LengthBytes] ==
            IF i = 0 THEN 0 ELSE value[i - 1] * Base + header[i + 1]
    IN value[LengthBytes]

\* The bytes of the part that xmitWithRetry has been given
Piece == CASE part = "header"  -> Header(Len(msg))
           [] part = "body"    -> msg
           [] part = "trailer" -> <<ETX>>
           [] OTHER -> <<>>

Init ==
    /\ part = "idle" /\ msg = <<>> /\ bytesSent = 0 /\ retryCounter = 0 /\ calls = 0
    /\ wire = <<>> /\ held = <<>> /\ inLoop = FALSE /\ results = FALSE
    /\ msgQueue = <<>>
    /\ sent = <<>> /\ failed = FALSE /\ received = <<>>

----------------------------------------------------------------------------
(* The sender.  xmitWithRetry starts anew for each part. *)

BeginLate(p) == part' = p /\ UNCHANGED bytesSent /\ retryCounter' = 0  \* mutant
Begin(p) == part' = p /\ bytesSent' = 0 /\ retryCounter' = 0

SendMessage(m) ==
    /\ part = "idle" /\ calls < MaxSends
    /\ msg' = m /\ calls' = calls + 1
    /\ Begin("header")
    /\ UNCHANGED <<sent, failed, wire, recvVars>>

HalfWay == part # "header" \/ bytesSent > 0

Fail ==
    /\ Begin("idle")
    /\ failed' = (failed \/ HalfWay)
    /\ UNCHANGED <<msg, calls, sent>>

\* xmitMsg returned -1
XmitError == part # "idle" /\ Fail /\ UNCHANGED <<wire, recvVars>>

Wrapped == (retryCounter + 1) % SendRetry  \* mutant: the counter is too narrow
Counted == retryCounter + 1

\* xmitMsg returned 0: sleep and try again, up to SendRetry times in a row
XmitNothing ==
    /\ part # "idle"
    /\ IF Counted >= SendRetry
       THEN Fail
       ELSE /\ retryCounter' = Counted
            /\ UNCHANGED <<part, msg, bytesSent, calls, sent, failed>>
    /\ UNCHANGED <<wire, recvVars>>

Finish ==
    CASE part = "header" -> Begin("body") /\ UNCHANGED sent
      [] part = "body" -> Begin("trailer") /\ UNCHANGED sent
      [] OTHER -> /\ Begin("idle")
                  /\ sent' = IF failed THEN sent ELSE Append(sent, msg)

\* xmitMsg took n bytes
XmitSome(n) ==
    /\ part # "idle"
    /\ wire' = wire \o SubSeq(Piece, bytesSent + 1, bytesSent + n)
    /\ IF bytesSent + n >= Len(Piece)
       THEN Finish
       ELSE /\ bytesSent' = bytesSent + n /\ retryCounter' = 0
            /\ UNCHANGED <<part, sent>>
    /\ UNCHANGED <<msg, calls, failed, recvVars>>

Transmit ==
    XmitError \/ XmitNothing \/ \E n \in 1 .. Len(Piece) - bytesSent : XmitSome(n)

----------------------------------------------------------------------------
(* The receiver: processChunk, one action for each way round its loop. *)

ProcessChunk(n) ==
    /\ ~inLoop
    /\ held' = held \o SubSeq(wire, 1, n)
    /\ wire' = SubSeq(wire, n + 1, Len(wire))
    /\ inLoop' = TRUE /\ results' = FALSE
    /\ UNCHANGED <<sendVars, msgQueue, received>>

InLoop == inLoop /\ UNCHANGED <<sendVars, wire, received>>
Return == inLoop' = FALSE
Again == UNCHANGED inLoop

HeaderIsHere == Len(held) >= HeaderSize
MsgLength == LengthIn(SubSeq(held, 1, HeaderSize))
\* What the code compares with Size(), in unsigned arithmetic, and the truth
Needed == (MsgLength + HeaderSize + TrailerSize) % UINT
FrameLength == MsgLength + HeaderSize + TrailerSize
Starts == HeaderIsHere /\ held[1] = STX
CountsNoTrailer == Starts /\ Len(held) >= Needed - 1  \* mutant
Completes == Starts /\ Len(held) >= Needed
Rest == SubSeq(held, FrameLength + 1, Len(held))

ShortHeader ==
    /\ InLoop /\ ~HeaderIsHere
    /\ Return /\ UNCHANGED <<held, results, msgQueue>>

BadStart ==
    /\ InLoop /\ HeaderIsHere /\ ~Starts
    /\ held' = <<>>
    /\ Return /\ UNCHANGED <<results, msgQueue>>

Incomplete ==
    /\ InLoop /\ Starts /\ ~Completes
    /\ Return /\ UNCHANGED <<held, results, msgQueue>>

IsWhole == Len(held) >= FrameLength

TakeMessage ==
    /\ InLoop /\ Completes /\ IsWhole /\ held[FrameLength] = ETX
    /\ held' = Rest
    /\ msgQueue' = Append(msgQueue, SubSeq(held, HeaderSize + 1, FrameLength - 1))
    /\ results' = TRUE
    /\ Again

BadTrailer ==
    /\ InLoop /\ Completes /\ IsWhole /\ held[FrameLength] # ETX
    /\ held' = Rest
    /\ Return /\ UNCHANGED <<results, msgQueue>>

\* The sum has wrapped: unless the body ends what is there, Pop refuses to
\* fill the message; when nothing is left to pop, the trailer is an
\* uninitialised byte.
TakeMissing ==
    LET body == SubSeq(held, HeaderSize + 1, Len(held))
        filled == Len(body) = MsgLength
        left == IF filled THEN <<>> ELSE body
        trailers == IF left = <<>> THEN Bytes ELSE {Head(left)}
    IN /\ InLoop /\ Completes /\ ~IsWhole
       /\ held' = IF left = <<>> THEN <<>> ELSE Tail(left)
       /\ \/ /\ ETX \in trailers
             /\ msgQueue' = Append(msgQueue, IF filled THEN body ELSE NULL)
             /\ results' = TRUE
             /\ Again
          \/ /\ trailers # {ETX}
             /\ Return /\ UNCHANGED <<results, msgQueue>>

GetMsg ==
    /\ ~inLoop /\ msgQueue # <<>>
    /\ received' = Append(received, Head(msgQueue))
    /\ msgQueue' = Tail(msgQueue)
    /\ UNCHANGED <<sendVars, wire, held, inLoop, results>>

Loop == ShortHeader \/ BadStart \/ Incomplete \/ TakeMessage \/ BadTrailer \/ TakeMissing
Receive == \E n \in 1 .. Len(wire) : ProcessChunk(n)

Next ==
    \/ \E m \in Messages : SendMessage(m)
    \/ Transmit \/ Receive \/ Loop \/ GetMsg

Spec == Init /\ [][Next]_vars

----------------------------------------------------------------------------
\* Type invariant of both ends and of the stream between them.
TypeOK ==
    /\ part \in {"idle", "header", "body", "trailer"} /\ msg \in Messages \cup {<<>>}
    /\ bytesSent \in 0 .. Len(Piece) /\ retryCounter \in 0 .. SendRetry - 1
    /\ calls \in 0 .. MaxSends
    /\ wire \in Seq(Bytes) /\ held \in Seq(Bytes)
    /\ inLoop \in BOOLEAN /\ results \in BOOLEAN /\ failed \in BOOLEAN
    /\ sent \in Seq(Messages)
    /\ msgQueue \in Seq(Seq(Bytes) \cup {NULL})
    /\ received \in Seq(Seq(Bytes) \cup {NULL})

Delivered == received \o msgQueue

\* However the stream is cut into chunks and whatever fails later, what the
\* receiver has taken off it begins with the messages sent until a send fails
\* half way: none of them changed, split, merged, doubled or overtaken, and
\* nothing of a message that was refused before its first byte.
IntactPrefix ==
    \/ IsPrefix(Delivered, sent)
    \/ failed /\ IsPrefix(sent, Delivered)

\* Nothing is held back: when all bytes have been processed, every message
\* sent before such a failure has come out, although processChunk runs
\* only when a chunk arrives, and nothing is left of it in the assembler.
NothingHeldBack ==
    wire = <<>> /\ ~inLoop =>
        /\ IsPrefix(sent, Delivered)
        /\ part = "idle" /\ ~failed => held = <<>>

\* The two ends implement the message channel.  When failures stop, every
\* accepted message is handed over (Messaging.cpp:80-104, 113-167).
Channel == INSTANCE MessageChannel WITH received <- Delivered, broken <- failed
ImplementsChannel == Channel!Spec

\* Fairness: sendMessage and processChunk go on once called (xmitMsg and
\* recv return), and the receiver is run again while bytes arrive.
FairSpec == Spec /\ WF_vars(Transmit) /\ WF_vars(Loop) /\ WF_vars(Receive)

\* sendMessage returns: it may retry for ever only if it makes progress.
SendReturns == part # "idle" ~> part = "idle"
=============================================================================
