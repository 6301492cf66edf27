----------------------------- MODULE Assembler -----------------------------
(***************************************************************************)
(* CAssembler (assembler.cpp): a list of blocks, each the unread part of   *)
(* one appended buffer, and a running total m_Size kept beside it.  A      *)
(* block may have length 0 and Trim may leave part of one.  Peek searches  *)
(* the list twice, for the block its first byte is in and for the block    *)
(* its last byte is in, and copies from the one to the other.              *)
(*                                                                         *)
(* unsigned is arithmetic modulo UINT.  A copy that would leave a block or *)
(* run past the end of the list has no defined result: its data is NULL.   *)
(***************************************************************************)
EXTENDS Naturals, SequencesExt

CONSTANTS
    Fragments,  \* what callers append
    Sizes,      \* the sizes callers ask for
    Offsets,    \* the offsets callers ask for
    UINT,       \* 2^32
    MaxHeld,    \* bound: bytes held at once
    MaxBlocks,  \* bound: blocks in the list
    NULL

Bytes == 0 .. 255

ASSUME ArgumentsAssumption ==
    /\ Fragments \subseteq Seq(Bytes) /\ NULL \notin Seq(Bytes)
    /\ UINT \in Nat \ {0} /\ MaxHeld \in 0 .. UINT - 1 /\ MaxBlocks \in Nat
    /\ Sizes \subseteq 0 .. UINT - 1 /\ Offsets \subseteq 0 .. UINT - 1

VARIABLES
    blocks,  \* m_Blocks: pData[0 .. length-1] of each block
    size,    \* m_Size
    reply    \* what the last operation returned

vars == <<blocks, size, reply>>

Add(a, b) == (a + b) % UINT
Subtract(a, b) == (UINT + a - b) % UINT

\* depth when the walk has passed the first k blocks
Depth(k) ==
    LET depth[i \in 0 .. Len(blocks)] ==
            IF i = 0 THEN 0 ELSE depth[i - 1] + Len(blocks[i])
    IN depth[k]

\* The walk stops at the first of the blocks that reach far enough, or leaves
\* its iterator at the last block: that block and the depth before it.
Walk(reaching) ==
    IF reaching # {}
    THEN [block |-> Min(reaching), depth |-> Depth(Min(reaching) - 1)]
    ELSE [block |-> Len(blocks), depth |-> Depth(Len(blocks))]

StartOf(offset) == Walk({k \in DOMAIN blocks : Depth(k) > offset})
EndTooLate(last) == Walk({k \in DOMAIN blocks : Depth(k) > last})  \* mutant
EndOf(last) == Walk({k \in DOMAIN blocks : Depth(k) >= last})

\* memcpy of n bytes from block k
Copy(k, from, n) ==
    IF from + n <= Len(blocks[k]) THEN SubSeq(blocks[k], from + 1, from + n) ELSE NULL

\* The copy of Peek once both blocks are known
Copied(start, end, from, upto, n) ==
    LET head == Copy(start, from, Subtract(Len(blocks[start]), from))
        tail == Copy(end, 0, upto)
    IN CASE start = end -> Copy(start, from, n)
         [] start > end -> NULL
         [] OTHER -> IF NULL \in {head, tail} THEN NULL
                     ELSE head \o FlattenSeq(SubSeq(blocks, start + 1, end - 1)) \o tail

Refused == [ok |-> FALSE, data |-> <<>>]

Peeked(n, offset) ==
    LET last  == Add(offset, n)
        start == StartOf(offset)
        end   == EndOf(last)
    IN IF last > size \/ n = 0 THEN Refused
       ELSE [ok |-> TRUE,
             data |-> IF blocks = <<>> THEN NULL
                      ELSE Copied(start.block, end.block,
                                  Subtract(offset, start.depth),
                                  Subtract(last, end.depth), n)]

\* The blocks when n bytes have been taken off the front: the loop removes
\* whole blocks while n lasts and cuts the first one it does not cover.
Kept(n) == {k \in DOMAIN blocks : Depth(k - 1) >= n \/ Depth(k) > n}
From(k, first) == <<first>> \o SubSeq(blocks, k + 1, Len(blocks))

TrimmedBlocks(n) ==  \* mutant: the cut block keeps its start
    IF Kept(n) = {} THEN <<>> ELSE From(Min(Kept(n)), blocks[Min(Kept(n))])
Trimmed(n) ==
    LET k == Min(Kept(n))
    IN IF Kept(n) = {} THEN <<>>
       ELSE From(k, SubSeq(blocks[k], n - Depth(k - 1) + 1, Len(blocks[k])))

Init == blocks = <<>> /\ size = 0 /\ reply = Refused

AppendBlock(f) ==
    /\ size + Len(f) <= MaxHeld /\ Len(blocks) < MaxBlocks
    /\ blocks' = blocks \o <<f>>
    /\ size' = Add(size, Len(f))
    /\ reply' = [ok |-> TRUE, data |-> <<size'>>]

Peek(n, offset) == reply' = Peeked(n, offset) /\ UNCHANGED <<blocks, size>>

TakeOff(n) == blocks' = Trimmed(n) /\ size' = Subtract(size, n)

Pop(n) ==
    /\ reply' = Peeked(n, 0)
    /\ IF reply'.ok THEN TakeOff(n) ELSE UNCHANGED <<blocks, size>>

\* Callers trim no more than Size() (Messaging.cpp:142, 146).
Trim(n) ==
    /\ n <= size
    /\ TakeOff(n)
    /\ UNCHANGED reply

Clear == blocks' = <<>> /\ size' = 0 /\ UNCHANGED reply

Next ==
    \/ \E f \in Fragments : AppendBlock(f)
    \/ \E n \in Sizes, offset \in Offsets : Peek(n, offset)
    \/ \E n \in Sizes : Pop(n) \/ Trim(n)
    \/ Clear

Spec == Init /\ [][Next]_vars

----------------------------------------------------------------------------
\* m_Size, which CMessaging decides by, is the number of bytes in the blocks
\* after any history of appends, cuts, whole removals and clears.
SizeIsTotal == size = Len(FlattenSeq(blocks))

\* The block list implements one stream of bytes: every operation returns
\* what it would return of the concatenation of all that was appended and
\* not yet taken, however it was fragmented (assembler.cpp:67-174).
Stream == INSTANCE ByteStream WITH stream <- FlattenSeq(blocks)
ImplementsStream == Stream!Spec
=============================================================================
