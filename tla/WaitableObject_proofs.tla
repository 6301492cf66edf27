------------------------ MODULE WaitableObject_proofs ------------------------
(***************************************************************************)
(* Proofs about CWaitableObject, for any number of threads.                *)
(***************************************************************************)
EXTENDS WaitableObject, FiniteSetTheorems, TLAPS

\* The inductive invariant: the three invariants of the waitable object need
\* each other, for the flag is reset only when the count says that no thread
\* waits, and then none is owed.
WaitInv == WaitTypeOK /\ CountIsWaiting /\ OwedSeesFlag

LEMMA CountedIsFinite == IsFiniteSet(Counted) /\ Cardinality(Counted) \in Nat
<1>1. IsFiniteSet(Counted)
  BY WaitAssumption, FS_Subset DEF Counted
<1> QED  BY <1>1, FS_CardinalityType

LEMMA WaitInitInv == WaitInit => WaitInv
<1> SUFFICES ASSUME WaitInit PROVE WaitInv
  OBVIOUS
<1>1. Counted = {}
  BY DEF WaitInit, Counted
<1> QED
  BY <1>1, FS_EmptySet, WaitAssumption DEF WaitInit, WaitInv, WaitTypeOK, CountIsWaiting, OwedSeesFlag

\* A step that neither begins nor ends a wait, nor touches the flag.
LEMMA InsideStep ==
    ASSUME WaitInv, WaitTypeOK', Counted' = Counted, UNCHANGED <<waiters, owed, triggered>>
    PROVE  WaitInv'
BY DEF WaitInv, CountIsWaiting, OwedSeesFlag

LEMMA WaiterStepInv ==
    ASSUME WaitInv, NEW w \in Waiters, WaiterStep(w) \/ Spurious(w) \/ TimesOut(w)
    PROVE  WaitInv'
<1> USE DEF WaitAt, WaitGoto, WaitTypeOK, WaitInv, call
<1>1. CASE LockMutex(w)
  <2>1. WaitTypeOK' /\ Counted' = Counted
    BY <1>1 DEF LockMutex, Counted
  <2> QED  BY <1>1, <2>1, InsideStep DEF LockMutex
<1>2. CASE Enter(w)
  <2>1. WaitTypeOK'
    BY <1>2 DEF Enter
  <2>2. w \notin Counted /\ Counted' = Counted \cup {w}
    BY <1>2 DEF Enter, Counted
  <2>3. Cardinality(Counted') = Cardinality(Counted) + 1
    BY <2>2, CountedIsFinite, FS_AddElement
  <2> QED  BY <1>2, <2>1, <2>2, <2>3 DEF Enter, CountIsWaiting, OwedSeesFlag
<1>3. CASE CondWait(w)
  <2>1. WaitTypeOK' /\ Counted' = Counted
    BY <1>3 DEF CondWait, Counted
  <2> QED  BY <1>3, <2>1, InsideStep DEF CondWait
<1>4. CASE Reacquire(w)
  <2>1. WaitTypeOK' /\ Counted' = Counted
    BY <1>4 DEF Reacquire, Counted
  <2> QED  BY <1>4, <2>1, InsideStep DEF Reacquire
<1>5. CASE Check(w)
  <2>1. WaitTypeOK' /\ Counted' = Counted
    BY <1>5 DEF Check, Counted
  <2> QED  BY <1>5, <2>1, InsideStep DEF Check
<1>6. CASE Leave(w)
  <2>1. w \in Counted /\ Counted' = Counted \ {w}
    BY <1>6 DEF Leave, Counted
  <2>2. Cardinality(Counted') = Cardinality(Counted) - 1 /\ IsFiniteSet(Counted')
    BY <2>1, CountedIsFinite, FS_RemoveElement
  <2>3. waiters' = Cardinality(Counted') /\ waiters' \in Nat
    BY <1>6, <2>2, FS_CardinalityType DEF Leave, CountIsWaiting
  <2>4. WaitTypeOK'
    BY <1>6, <2>3 DEF Leave, KeepFlag
  <2>5. owed' \subseteq Counted'
    BY <1>6, <2>1 DEF Leave, OwedSeesFlag
  <2>6. owed' # {} => triggered'
    <3>1. owed' # {} => waiters' # 0
      BY <2>2, <2>3, <2>5, FS_EmptySet
    <3> QED  BY <1>6, <3>1 DEF Leave, KeepFlag, OwedSeesFlag
  <2> QED  BY <2>3, <2>4, <2>5, <2>6 DEF CountIsWaiting, OwedSeesFlag
<1>7. CASE UnlockMutex(w)
  <2>1. WaitTypeOK' /\ Counted' = Counted
    BY <1>7 DEF UnlockMutex, Counted
  <2> QED  BY <1>7, <2>1, InsideStep DEF UnlockMutex
<1>8. CASE Spurious(w) \/ TimesOut(w)
  <2>1. WaitTypeOK' /\ Counted' = Counted
    BY <1>8 DEF Spurious, TimesOut, Wake, Counted
  <2> QED  BY <1>8, <2>1, InsideStep DEF Spurious, TimesOut, Wake
<1> QED
  BY <1>1, <1>2, <1>3, <1>4, <1>5, <1>6, <1>7, <1>8 DEF WaiterStep

LEMMA SignalStepInv ==
    ASSUME WaitInv, NEW s \in Signallers, SetFlag(s) \/ Notify(s)
    PROVE  WaitInv'
<1> USE DEF WaitTypeOK, WaitInv, call
<1>1. CASE SetFlag(s)
  <2>1. WaitTypeOK' /\ Counted' = Counted
    BY <1>1, WaitAssumption DEF SetFlag, Counted, Blocked
  <2> QED  BY <1>1, <2>1 DEF SetFlag, CountIsWaiting, OwedSeesFlag
<1>2. CASE Notify(s)
  <2>1. PICK woken \in SUBSET Blocked : WakeSet(woken)
    BY <1>2 DEF Notify, WakeOne
  <2>2. by' \in Signallers \cup {NULL} /\ due' \in (SUBSET Waiters) \cup {NULL}
        /\ (by' # NULL => due' # NULL)
    BY <1>2, WaitAssumption DEF Notify, WakeOne, WakeSet, Blocked
  <2>3. WaitTypeOK' /\ Counted' = Counted
    BY <1>2, <2>1, <2>2 DEF Notify, WakeSet, Blocked, WaitAt, Counted
  <2> QED  BY <1>2, <2>3, InsideStep DEF Notify
<1> QED  BY <1>1, <1>2

LEMMA WaitStepInv == WaitInv /\ [WaitNext]_waitVars => WaitInv'
<1>1. ASSUME WaitInv, UNCHANGED waitVars PROVE WaitInv'
  BY <1>1 DEF waitVars, call, WaitInv, WaitTypeOK, CountIsWaiting, OwedSeesFlag, Counted
<1> QED  BY <1>1, WaiterStepInv, SignalStepInv DEF WaitNext

THEOREM WaitTyped == WaitSpec => []WaitTypeOK
<1>1. WaitInv => WaitTypeOK
  BY DEF WaitInv
<1> QED  BY <1>1, WaitInitInv, WaitStepInv, PTL DEF WaitSpec

\* The count is the number of threads in WaitOnObject.
THEOREM WaitCountIsWaiting == WaitSpec => []CountIsWaiting
<1>1. WaitInv => CountIsWaiting
  BY DEF WaitInv
<1> QED  BY <1>1, WaitInitInv, WaitStepInv, PTL DEF WaitSpec

\* A waiter that a signal was meant for sees the flag until it returns.
THEOREM WaitOwedSeesFlag == WaitSpec => []OwedSeesFlag
<1>1. WaitInv => OwedSeesFlag
  BY DEF WaitInv
<1> QED  BY <1>1, WaitInitInv, WaitStepInv, PTL DEF WaitSpec
=============================================================================
