----------------------------- MODULE ByteStream -----------------------------
(***************************************************************************)
(* What CAssembler promises: the bytes appended to it form one stream,     *)
(* whatever the fragments they came in.  Every operation says in reply     *)
(* what it returned to its caller.                                         *)
(***************************************************************************)
EXTENDS Sequences, Naturals

CONSTANTS Fragments,  \* what callers append
          Sizes,      \* the sizes callers ask for
          Offsets     \* the offsets callers ask for

VARIABLES stream, reply

vars == <<stream, reply>>

Refused == [ok |-> FALSE, data |-> <<>>]
Taken(n, offset) ==
    IF n > 0 /\ offset + n <= Len(stream)
    THEN [ok |-> TRUE, data |-> SubSeq(stream, offset + 1, offset + n)]
    ELSE Refused
After(n) == SubSeq(stream, n + 1, Len(stream))

Init == stream = <<>> /\ reply = Refused

AppendBytes(f) ==
    /\ stream' = stream \o f
    /\ reply' = [ok |-> TRUE, data |-> <<Len(stream')>>]

Peek(n, offset) == reply' = Taken(n, offset) /\ UNCHANGED stream

Pop(n) ==
    /\ reply' = Taken(n, 0)
    /\ stream' = IF reply'.ok THEN After(n) ELSE stream

Trim(n) ==
    /\ n <= Len(stream)
    /\ stream' = After(n)
    /\ UNCHANGED reply

Clear == stream' = <<>> /\ UNCHANGED reply

Next ==
    \/ \E f \in Fragments : AppendBytes(f)
    \/ \E n \in Sizes, offset \in Offsets : Peek(n, offset)
    \/ \E n \in Sizes : Pop(n) \/ Trim(n)
    \/ Clear

Spec == Init /\ [][Next]_vars
=============================================================================
