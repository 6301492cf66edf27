--------------------------- MODULE MessageChannel ---------------------------
(***************************************************************************)
(* What CMessaging promises: messages arrive whole, once and in the order  *)
(* in which sendMessage accepted them, up to the first send that fails.    *)
(* A failed send may leave part of a message in the byte stream, and what  *)
(* is received after the messages before it is then unspecified.           *)
(***************************************************************************)
EXTENDS Naturals, SequencesExt

CONSTANT Messages

VARIABLES sent,      \* the messages accepted before the first failure
          received,  \* the messages handed over, in order
          broken     \* a send has failed

vars == <<sent, received, broken>>

Init == sent = <<>> /\ received = <<>> /\ broken = FALSE

Send(m) == ~broken /\ sent' = Append(sent, m) /\ UNCHANGED <<received, broken>>

Break == broken' = TRUE /\ UNCHANGED <<sent, received>>

Deliver ==
    /\ Len(received) < Len(sent)
    /\ received' = Append(received, sent[Len(received) + 1])
    /\ UNCHANGED <<sent, broken>>

DeliverUnspecified ==
    /\ broken /\ Len(received) >= Len(sent)
    /\ Len(received') = Len(received) + 1 /\ IsPrefix(received, received')
    /\ UNCHANGED <<sent, broken>>

Next == (\E m \in Messages : Send(m)) \/ Break \/ Deliver \/ DeliverUnspecified

Spec == Init /\ [][Next]_vars /\ WF_vars(Deliver)
=============================================================================
