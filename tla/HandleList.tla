----------------------------- MODULE HandleList -----------------------------
(***************************************************************************)
(* Handle_List (Lists.h): an array of Size slots with a valid bit each and *)
(* a list of the free handles, the last one freed first.  IsGoodHandle     *)
(* also accepts Size, one past the array, and then reads whatever is in    *)
(* memory there; FreeHandle of a handle that is not good is an assertion   *)
(* that fails.                                                             *)
(***************************************************************************)
EXTENDS Integers, Sequences, FiniteSets

CONSTANT Size  \* m_uSize

ASSUME SizeAssumption == Size \in Nat

VARIABLES
    freeHandles,  \* m_FreeHandle_List
    valid,        \* the slots whose bValid is set
    count         \* m_uCount

listVars == <<freeHandles, valid, count>>

Handles == 0 .. Size - 1

InitList ==
    /\ freeHandles = [i \in 1 .. Size |-> i - 1]
    /\ valid = {} /\ count = 0

\* The answers IsGoodHandle can give for any unsigned i
IsGoodHandle(i) ==
    CASE i > Size -> {FALSE}
      [] i = Size -> BOOLEAN
      [] OTHER    -> {i \in valid}

GetNewHandle(h) ==
    /\ freeHandles # <<>> /\ h = Head(freeHandles)
    /\ freeHandles' = Tail(freeHandles)
    /\ valid' = valid \cup {h} /\ count' = count + 1

FreeKeepsValid(h) ==  \* mutant
    /\ IsGoodHandle(h) = {TRUE}
    /\ freeHandles' = <<h>> \o freeHandles
    /\ UNCHANGED valid /\ count' = count - 1
FreeHandle(h) ==
    /\ IsGoodHandle(h) = {TRUE}
    /\ freeHandles' = <<h>> \o freeHandles
    /\ valid' = valid \ {h} /\ count' = count - 1

ListNext == \E h \in Handles : GetNewHandle(h) \/ FreeHandle(h)

ListSpec == InitList /\ [][ListNext]_listVars

----------------------------------------------------------------------------
\* The free list and the valid bits say the same: every handle is on the
\* list once or in use, and GetCount says how many are in use (Lists.h:63-91).
FreeIsComplement ==
    /\ \A i, j \in DOMAIN freeHandles : freeHandles[i] = freeHandles[j] => i = j
    /\ {freeHandles[i] : i \in DOMAIN freeHandles} = Handles \ valid
    /\ count = Cardinality(valid)

\* Handles are given out as a pool gives them: never one that is in use
\* (GetNewHandle, Lists.h:63).
Pool == INSTANCE HandlePool WITH used <- valid, given <- count
ImplementsPool == Pool!Spec
=============================================================================
