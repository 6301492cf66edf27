-------------------------- MODULE TimerTable_proofs --------------------------
(***************************************************************************)
(* Proofs about the time arithmetic of CTimer, its handle list and its     *)
(* table, for any size of the table and any length of a second.            *)
(***************************************************************************)
EXTENDS TimerTable, DataLemmas, FiniteSetTheorems, TLAPS

\* The units are positive.
LEMMA UnitsAreNat == K \in Nat \ {0} /\ MILLION \in Nat \ {0} /\ BILLION \in Nat \ {0}
                     /\ BILLION = MILLION * K
  BY TimeAssumption DEF MILLION, BILLION

\* A whole second outweighs any number of nanoseconds below it.
LEMMA SecondsDominate ==
    ASSUME NEW x \in Int, NEW y \in Int, NEW b \in Nat, x > y
    PROVE  x * b >= y * b + b
<1>1. (x - y - 1) * b >= 0
  <2>1. x - y - 1 \in Nat  OBVIOUS
  <2> QED  BY <2>1
<1>2. (x - y - 1) * b = x * b - y * b - b
  OBVIOUS
<1> QED  BY <1>1, <1>2

\* comp_timespec compares the times as numbers of nanoseconds.
THEOREM CompIsOrder ==
    ASSUME NEW a \in Times, NEW b \in Times
    PROVE  /\ comp_timespec(a, b) = 1 <=> Ns(a) > Ns(b)
           /\ comp_timespec(a, b) = -1 <=> Ns(a) < Ns(b)
           /\ comp_timespec(a, b) = 0 <=> Ns(a) = Ns(b)
<1> DEFINE B == BILLION
<1>1. /\ a.sec \in Nat /\ b.sec \in Nat /\ B \in Nat \ {0}
      /\ a.nsec \in 0 .. B - 1 /\ b.nsec \in 0 .. B - 1
  BY UnitsAreNat DEF Times
<1>2. a.sec * B \in Int /\ b.sec * B \in Int
  BY <1>1
<1>3. a.sec > b.sec => a.sec * B >= b.sec * B + B
  BY <1>1, SecondsDominate
<1>4. b.sec > a.sec => b.sec * B >= a.sec * B + B
  BY <1>1, SecondsDominate
<1>5. a.sec = b.sec => a.sec * B = b.sec * B
  OBVIOUS
<1> HIDE DEF B
<1>6. Ns(a) = a.sec * B + a.nsec /\ Ns(b) = b.sec * B + b.nsec
  BY DEF Ns, B
<1> DEFINE p == a.sec * B  q == b.sec * B
<1> HIDE DEF p, q
<1>7. /\ Ns(a) = p + a.nsec /\ Ns(b) = q + b.nsec /\ p \in Int /\ q \in Int
      /\ a.sec > b.sec => p >= q + B
      /\ b.sec > a.sec => q >= p + B
      /\ a.sec = b.sec => p = q
  BY <1>2, <1>3, <1>4, <1>5, <1>6 DEF p, q
<1>8. CASE a.sec > b.sec
  BY <1>1, <1>7, <1>8 DEF comp_timespec
<1>9. CASE a.sec < b.sec
  BY <1>1, <1>7, <1>9 DEF comp_timespec
<1>10. CASE a.sec = b.sec
  BY <1>1, <1>7, <1>10 DEF comp_timespec
<1> QED  BY <1>1, <1>8, <1>9, <1>10

\* The carry out of a sum of two fractions of a second.
LEMMA Carry ==
    ASSUME NEW b \in Nat \ {0}, NEW n \in 0 .. 2 * b - 1
    PROVE  /\ n \div b = (IF n < b THEN 0 ELSE 1)
           /\ n % b = (IF n < b THEN n ELSE n - b)
<1>1. CASE n < b  BY <1>1
<1>2. CASE n >= b  BY <1>2
<1> QED  BY <1>1, <1>2

\* add_timespec is the sum, and normalized.
THEOREM AddIsSum ==
    ASSUME NEW a \in Times, NEW b \in Times
    PROVE  add_timespec(a, b) \in Times /\ Ns(add_timespec(a, b)) = Ns(a) + Ns(b)
<1> DEFINE B == BILLION
<1>1. /\ a.sec \in Nat /\ b.sec \in Nat /\ B \in Nat \ {0}
      /\ a.nsec \in 0 .. B - 1 /\ b.nsec \in 0 .. B - 1
  BY UnitsAreNat DEF Times
<1> DEFINE n == a.nsec + b.nsec
<1>2. n \in 0 .. 2 * B - 1
  BY <1>1
<1>3. add_timespec(a, b) = [sec |-> a.sec + b.sec + n \div B, nsec |-> n % B]
  BY DEF add_timespec
<1>4. n \div B = (IF n < B THEN 0 ELSE 1) /\ n % B = (IF n < B THEN n ELSE n - B)
  BY <1>1, <1>2, Carry
<1>5. add_timespec(a, b) \in Times
  BY <1>1, <1>2, <1>3, <1>4 DEF Times
<1>6. Ns(add_timespec(a, b)) = (a.sec + b.sec + n \div B) * B + (n % B)
  BY <1>3 DEF Ns
<1>7. Ns(a) + Ns(b) = (a.sec + b.sec) * B + n
  BY <1>1 DEF Ns
<1>8. (a.sec + b.sec + n \div B) * B + (n % B) = (a.sec + b.sec) * B + n
  BY <1>1, <1>2, <1>4
<1> QED  BY <1>5, <1>6, <1>7, <1>8

\* diff_timespec is the difference, and normalized when the first time is not
\* the earlier one.
THEOREM DiffIsDifference ==
    ASSUME NEW a \in Times, NEW b \in Times, Ns(a) >= Ns(b)
    PROVE  diff_timespec(a, b) \in Times /\ Ns(diff_timespec(a, b)) = Ns(a) - Ns(b)
<1> DEFINE B == BILLION
<1>1. /\ a.sec \in Nat /\ b.sec \in Nat /\ B \in Nat \ {0}
      /\ a.nsec \in 0 .. B - 1 /\ b.nsec \in 0 .. B - 1
  BY UnitsAreNat DEF Times
<1>2. comp_timespec(a, b) # -1
  BY CompIsOrder, <1>1 DEF Ns
<1>3. CASE a.nsec < b.nsec
  <2>1. a.sec > b.sec
    BY <1>1, <1>2, <1>3 DEF comp_timespec
  <2>2. diff_timespec(a, b) = [sec |-> a.sec - 1 - b.sec, nsec |-> B + a.nsec - b.nsec]
    BY <1>3 DEF diff_timespec
  <2>3. diff_timespec(a, b) \in Times
    BY <1>1, <1>3, <2>1, <2>2 DEF Times
  <2>4. (a.sec - 1 - b.sec) * B + (B + a.nsec - b.nsec)
          = (a.sec * B + a.nsec) - (b.sec * B + b.nsec)
    BY <1>1
  <2> QED  BY <2>2, <2>3, <2>4 DEF Ns
<1>4. CASE a.nsec >= b.nsec
  <2>1. a.sec >= b.sec
    BY <1>1, <1>2, <1>4 DEF comp_timespec
  <2>2. diff_timespec(a, b) = [sec |-> a.sec - b.sec, nsec |-> a.nsec - b.nsec]
    BY <1>1, <1>4 DEF diff_timespec
  <2>3. diff_timespec(a, b) \in Times
    BY <1>1, <1>4, <2>1, <2>2 DEF Times
  <2>4. (a.sec - b.sec) * B + (a.nsec - b.nsec)
          = (a.sec * B + a.nsec) - (b.sec * B + b.nsec)
    BY <1>1
  <2> QED  BY <2>2, <2>3, <2>4 DEF Ns
<1> QED  BY <1>1, <1>3, <1>4

\* What a division leaves.
LEMMA Division ==
    ASSUME NEW n \in Nat, NEW b \in Nat \ {0}
    PROVE  /\ n \div b \in Nat /\ n % b \in 0 .. b - 1
           /\ n = b * (n \div b) + (n % b)
  OBVIOUS

\* A quotient times its divisor is at most what was divided.
LEMMA Truncates ==
    ASSUME NEW n \in Nat, NEW b \in Nat \ {0}
    PROVE  n \div b \in Nat /\ (n \div b) * b <= n
  BY Division

\* A remainder is at most what was divided.
LEMMA ModIsSmaller ==
    ASSUME NEW n \in Nat, NEW b \in Nat \ {0}
    PROVE  n % b \in Nat /\ n % b <= n
<1>1. n \div b \in Nat /\ n % b \in Nat /\ n = b * (n \div b) + (n % b)
  BY Division
<1>2. b * (n \div b) >= 0
  BY <1>1
<1> QED  BY <1>1, <1>2

\* The service thread reads the clock for the difference (Timer.cpp:375, 430),
\* and WaitOnObject reads it again for the end of the wait
\* (WaitableObject.h:115).  Counted from the second reading the wait never
\* lasts longer than what was left at the first, whatever is lost in
\* microseconds or in 32 bits: it ends no later after the time due than the
\* second reading comes after the first.
THEOREM SleepIsNotLate ==
    ASSUME NEW first \in Times, NEW from \in Times, NEW until \in Times,
           Ns(until) >= Ns(first)
    PROVE  Ns(Timeout(from, SleepTime(diff_timespec(until, first)))) - Ns(from)
              <= Ns(until) - Ns(first)
<1> DEFINE d == diff_timespec(until, first)
           qd == d.nsec \div K      qf == from.nsec \div K
           us == SleepTime(d)       usec == qf + us
           u == usec \div MILLION   r == usec % MILLION
<1>1. /\ K \in Nat \ {0} /\ MILLION \in Nat \ {0} /\ UINT \in Nat \ {0}
      /\ BILLION = MILLION * K
  BY UnitsAreNat, TimeAssumption
<1>2. /\ from.sec \in Nat /\ from.nsec \in Nat /\ d.sec \in Nat /\ d.nsec \in Nat
      /\ Ns(d) = Ns(until) - Ns(first)
  BY UnitsAreNat, DiffIsDifference DEF Times
<1>3. Ns(d) = d.sec * BILLION + d.nsec /\ Ns(from) = from.sec * BILLION + from.nsec
  BY DEF Ns
<1>4. us = (qd + d.sec * MILLION) % UINT
  BY DEF SleepTime
<1>5. Ns(Timeout(from, us)) = (from.sec + u) * BILLION + r * K
  BY DEF Timeout, Ns
<1> HIDE DEF d
<1>6. qd \in Nat /\ qd * K <= d.nsec /\ qf \in Nat /\ qf * K <= from.nsec
  BY <1>1, <1>2, Truncates
<1> HIDE DEF qd, qf, us
<1>7. d.sec * MILLION \in Nat /\ qd + d.sec * MILLION \in Nat
  BY <1>1, <1>2, <1>6
<1>8. us \in Nat /\ us <= qd + d.sec * MILLION
  BY <1>1, <1>4, <1>7, ModIsSmaller
<1>9. usec \in Nat
  BY <1>6, <1>8
<1>11. usec = qf + us
  OBVIOUS
<1> HIDE DEF usec
<1>10. u \in Nat /\ r \in Nat /\ usec = MILLION * u + r
  BY <1>1, <1>9, Division
<1> HIDE DEF u, r
<1>12. (from.sec + u) * BILLION + r * K = from.sec * BILLION + usec * K
  <2>1. (from.sec + u) * (MILLION * K) + r * K
          = from.sec * (MILLION * K) + (MILLION * u + r) * K
    BY <1>1, <1>2, <1>10
  <2> QED  BY <1>1, <1>10, <2>1
<1>13. usec * K <= (qf + (qd + d.sec * MILLION)) * K
  <2>1. (qf + (qd + d.sec * MILLION) - usec) * K >= 0
    <3>1. qf + (qd + d.sec * MILLION) - usec \in Nat
      BY <1>6, <1>7, <1>8, <1>11
    <3> QED  BY <1>1, <3>1
  <2> QED  BY <1>1, <1>6, <1>7, <1>9, <2>1
<1>14. (qf + (qd + d.sec * MILLION)) * K = qf * K + qd * K + d.sec * BILLION
  BY <1>1, <1>2, <1>6
<1>15. usec * K <= from.nsec + d.nsec + d.sec * BILLION
  <2>1. usec * K \in Int /\ qf * K \in Int /\ qd * K \in Int /\ d.sec * BILLION \in Int
    BY <1>1, <1>2, <1>6, <1>9
  <2> QED  BY <1>2, <1>6, <1>13, <1>14, <2>1
<1>16. Ns(Timeout(from, us)) <= Ns(from) + Ns(d)
  <2>1. from.sec * BILLION \in Int /\ usec * K \in Int /\ d.sec * BILLION \in Int
    BY <1>1, <1>2, <1>9
  <2> QED  BY <1>2, <1>3, <1>5, <1>12, <1>15, <2>1
<1>17. Ns(from) \in Int /\ Ns(until) \in Int /\ Ns(first) \in Int
  BY UnitsAreNat DEF Ns, Times
<1>18. Ns(Timeout(from, us)) \in Int
  BY <1>1, <1>2, <1>5, <1>9, <1>12
<1>19. Ns(Timeout(from, us)) - Ns(from) <= Ns(until) - Ns(first)
  BY <1>2, <1>16, <1>17, <1>18
<1> QED  BY <1>19 DEF us, d

(***************************************************************************)
(* The handle list.                                                        *)
(***************************************************************************)

\* The inductive invariant: FreeIsComplement and the types it needs.
ListInv ==
    /\ freeHandles \in Seq(Handles) /\ valid \in SUBSET Handles /\ count \in Nat
    /\ FreeIsComplement

\* The list is finite.
LEMMA HandlesFinite == IsFiniteSet(Handles)
  BY SizeAssumption, FS_Interval DEF Handles

\* The list is right at first.
LEMMA ListInit == InitList => ListInv
<1> SUFFICES ASSUME InitList PROVE ListInv
  OBVIOUS
<1>1. freeHandles \in [1 .. Size -> Handles] /\ freeHandles \in Seq(Handles)
  BY SizeAssumption DEF InitList, Handles
<1>2. DOMAIN freeHandles = 1 .. Size
  BY <1>1
<1>3. {freeHandles[i] : i \in DOMAIN freeHandles} = Handles
  <2>1. ASSUME NEW h \in Handles PROVE h + 1 \in 1 .. Size /\ freeHandles[h + 1] = h
    BY SizeAssumption DEF InitList, Handles
  <2> QED  BY <1>1, <1>2, <2>1
<1>4. \A i, j \in DOMAIN freeHandles : freeHandles[i] = freeHandles[j] => i = j
  BY <1>2, SizeAssumption DEF InitList
<1> QED
  BY <1>1, <1>3, <1>4, FS_EmptySet DEF ListInv, FreeIsComplement, InitList

\* GetNewHandle takes a handle that is not in use.
LEMMA GetKeepsList ==
    ASSUME ListInv, NEW h, GetNewHandle(h)
    PROVE  ListInv' /\ h \in Handles \ valid
<1> DEFINE f == freeHandles
<1>1. /\ f \in Seq(Handles) /\ f # <<>> /\ h = f[1] /\ Len(f) \in Nat \ {0}
      /\ DOMAIN f = 1 .. Len(f)
  BY DEF ListInv, GetNewHandle
<1>2. h \in Handles \ valid
  BY <1>1 DEF ListInv, FreeIsComplement
<1>3. /\ f' \in Seq(Handles) /\ DOMAIN f' = 1 .. Len(f) - 1
      /\ \A i \in DOMAIN f' : f'[i] = f[i + 1]
  BY <1>1 DEF GetNewHandle
<1>4. \A i, j \in DOMAIN f' : f'[i] = f'[j] => i = j
  BY <1>1, <1>3, SMTT(30) DEF ListInv, FreeIsComplement
<1>5. {f'[i] : i \in DOMAIN f'} = Handles \ valid'
  <2>1. ASSUME NEW x \in Handles \ valid' PROVE \E i \in DOMAIN f' : f'[i] = x
    <3>1. PICK i \in DOMAIN f : f[i] = x
      BY <2>1 DEF ListInv, FreeIsComplement, GetNewHandle
    <3>2. i # 1
      BY <1>1, <2>1, <3>1 DEF GetNewHandle
    <3> QED  BY <1>1, <1>3, <3>1, <3>2, i - 1 \in DOMAIN f'
  <2>2. ASSUME NEW i \in DOMAIN f' PROVE f'[i] \in Handles \ valid'
    <3>1. i + 1 \in DOMAIN f /\ f'[i] = f[i + 1] /\ i + 1 # 1
      BY <1>1, <1>3
    <3>2. f[i + 1] \in Handles \ valid /\ f[i + 1] # h
      BY <1>1, <3>1 DEF ListInv, FreeIsComplement
    <3> QED  BY <3>1, <3>2 DEF GetNewHandle
  <2> QED  BY <2>1, <2>2
<1>6. IsFiniteSet(valid) /\ count' = Cardinality(valid') /\ count' \in Nat
  <2>1. IsFiniteSet(valid)
    BY HandlesFinite, FS_Subset DEF ListInv
  <2>2. Cardinality(valid \cup {h}) = Cardinality(valid) + 1 /\ Cardinality(valid) \in Nat
    BY <1>2, <2>1, FS_AddElement, FS_CardinalityType
  <2> QED  BY <2>1, <2>2 DEF ListInv, FreeIsComplement, GetNewHandle
<1>7. valid' \in SUBSET Handles
  BY <1>2 DEF ListInv, GetNewHandle
<1> QED  BY <1>2, <1>3, <1>4, <1>5, <1>6, <1>7 DEF ListInv, FreeIsComplement

\* FreeHandle gives back a handle that is in use.
LEMMA FreeKeepsList ==
    ASSUME ListInv, NEW h \in Handles, FreeHandle(h)
    PROVE  ListInv' /\ h \in valid
<1> DEFINE f == freeHandles
<1>1. f \in Seq(Handles) /\ Len(f) \in Nat /\ DOMAIN f = 1 .. Len(f)
  BY DEF ListInv
<1>2. h \in valid
  BY SizeAssumption DEF FreeHandle, IsGoodHandle, Handles
<1>3. /\ f' \in Seq(Handles) /\ DOMAIN f' = 1 .. Len(f) + 1
      /\ f'[1] = h /\ \A i \in DOMAIN f' \ {1} : f'[i] = f[i - 1]
  BY <1>1 DEF FreeHandle
<1>4. \A i \in DOMAIN f : f[i] \in Handles \ valid
  BY DEF ListInv, FreeIsComplement
<1>5. \A i, j \in DOMAIN f' : f'[i] = f'[j] => i = j
  <2>1. \A i \in DOMAIN f' \ {1} : i - 1 \in DOMAIN f /\ f'[i] = f[i - 1] /\ f'[i] # h
    BY <1>1, <1>2, <1>3, <1>4
  <2>2. \A i, j \in DOMAIN f : f[i] = f[j] => i = j
    BY DEF ListInv, FreeIsComplement
  <2> QED  BY <1>1, <1>3, <2>1, <2>2
<1>6. {f'[i] : i \in DOMAIN f'} = Handles \ valid'
  <2>1. ASSUME NEW x \in Handles \ valid' PROVE \E i \in DOMAIN f' : f'[i] = x
    <3>1. CASE x = h  BY <1>1, <1>3, <3>1
    <3>2. CASE x # h
      <4>1. PICK i \in DOMAIN f : f[i] = x
        BY <2>1, <3>2 DEF ListInv, FreeIsComplement, FreeHandle
      <4> QED  BY <1>1, <1>3, <4>1, i + 1 \in DOMAIN f' \ {1}
    <3> QED  BY <3>1, <3>2
  <2>2. ASSUME NEW i \in DOMAIN f' PROVE f'[i] \in Handles \ valid'
    BY <1>1, <1>3, <1>4 DEF FreeHandle
  <2> QED  BY <2>1, <2>2
<1>7. count' = Cardinality(valid') /\ count' \in Nat
  <2>1. IsFiniteSet(valid)
    BY HandlesFinite, FS_Subset DEF ListInv
  <2>2. /\ Cardinality(valid \ {h}) = Cardinality(valid) - 1
        /\ IsFiniteSet(valid \ {h})
    BY <1>2, <2>1, FS_RemoveElement
  <2>3. Cardinality(valid \ {h}) \in Nat
    BY <2>2, FS_CardinalityType
  <2> QED  BY <2>2, <2>3 DEF ListInv, FreeIsComplement, FreeHandle
<1>8. valid' \in SUBSET Handles
  BY DEF ListInv, FreeHandle
<1> QED  BY <1>2, <1>3, <1>5, <1>6, <1>7, <1>8 DEF ListInv, FreeIsComplement

\* A step of the list keeps its invariant, and is one of the pool.
LEMMA ListStep == ListInv /\ [ListNext]_listVars => ListInv' /\ [Pool!Next]_<<valid, count>>
<1> SUFFICES ASSUME ListInv, [ListNext]_listVars
             PROVE  ListInv' /\ [Pool!Next]_<<valid, count>>
  OBVIOUS
<1>1. ASSUME NEW h \in Handles, GetNewHandle(h)
      PROVE  ListInv' /\ [Pool!Next]_<<valid, count>>
  <2>1. ListInv' /\ h \in Handles \ valid
    BY <1>1, GetKeepsList
  <2> QED  BY <1>1, <2>1 DEF GetNewHandle, Pool!Next, Pool!GetNewHandle
<1>2. ASSUME NEW h \in Handles, FreeHandle(h)
      PROVE  ListInv' /\ [Pool!Next]_<<valid, count>>
  <2>1. ListInv' /\ h \in valid
    BY <1>2, FreeKeepsList
  <2> QED  BY <1>2, <2>1 DEF FreeHandle, Pool!Next, Pool!FreeHandle
<1>3. CASE UNCHANGED listVars
  BY <1>3 DEF listVars, ListInv, FreeIsComplement
<1> QED  BY <1>1, <1>2, <1>3 DEF ListNext

\* The free list, the valid bits and the count never disagree.
THEOREM ListIsConsistent == ListSpec => []FreeIsComplement
<1>1. ListInv => FreeIsComplement
  BY DEF ListInv
<1> QED  BY <1>1, ListInit, ListStep, PTL DEF ListSpec

\* The handle list gives handles out as a pool does.
THEOREM ListIsPool == ListSpec => ImplementsPool
<1>1. InitList => Pool!Init
  BY DEF InitList, Pool!Init
<1> QED  BY <1>1, ListInit, ListStep, PTL DEF ListSpec, ImplementsPool, Pool!Spec

(***************************************************************************)
(* The table of CTimer.                                                    *)
(***************************************************************************)

\* Every step of the table is a step of the list, or leaves it alone.
LEMMA TableStepsList == TableNext => [ListNext]_listVars
<1> SUFFICES ASSUME TableNext PROVE [ListNext]_listVars
  OBVIOUS
<1>1. ASSUME NEW c, NEW ms, NEW activate, NEW auto, CreateTimer(c, ms, activate, auto)
      PROVE  ListNext
  BY <1>1 DEF CreateTimer, ListNext
<1>2. ASSUME NEW h \in Handles, DeleteTimer(h) PROVE ListNext
  BY <1>2 DEF DeleteTimer, ListNext
<1>3. ASSUME NEW h \in Handles, NEW c, StopTimer(h) \/ RestartTimer(c, h)
      PROVE  UNCHANGED listVars
  BY <1>3 DEF StopTimer, RestartTimer
<1>4. ASSUME NEW c, PushCell(c) \/ Signal(c) \/ DumpTimersQueue PROVE UNCHANGED listVars
  BY <1>4 DEF PushCell, Signal, DumpTimersQueue
<1>5. CASE ServiceNext
  BY <1>5 DEF ServiceNext, SeeEmpty, Park, TakeTop, DropCancelled, ReadClock, Expire, Settle,
     CallBack, ComputeSleep, Sleep
<1>6. ASSUME NEW d, Tick(d) PROVE UNCHANGED listVars
  BY <1>6 DEF Tick
<1> QED  BY <1>1, <1>2, <1>3, <1>4, <1>5, <1>6 DEF TableNext, ApiNext

\* The table uses its handle list as the handle list is meant to be used, so
\* that no two timers share a slot.
THEOREM TableUsesList == TableSpec => ListSpec
<1>1. InitTable => InitList
  BY DEF InitTable
<1>2. [TableNext]_tableVars => [ListNext]_listVars
  BY TableStepsList DEF tableVars, listVars
<1> QED  BY <1>1, <1>2, PTL DEF TableSpec, ListSpec

\* The list of the table is consistent.
THEOREM TableFreeIsComplement == TableSpec => []FreeIsComplement
BY TableUsesList, ListIsConsistent, PTL

\* The table gives its handles out as a pool does.
THEOREM TableIsPool == TableSpec => ImplementsPool
BY TableUsesList, ListIsPool, PTL

\* The interval of CreateTimer is normalized.
LEMMA IntervalIsTime == ASSUME NEW ms \in Nat PROVE Interval(ms) \in Times
<1>1. ms \div K \in Nat /\ ms % K \in 0 .. K - 1
  BY UnitsAreNat, Division
<1>2. (ms % K) * MILLION \in 0 .. BILLION - 1
  <2> DEFINE r == ms % K
  <2>1. r \in Nat /\ K - 1 - r \in Nat
    BY <1>1, UnitsAreNat
  <2> HIDE DEF r
  <2>2. r * MILLION >= 0 /\ (K - 1 - r) * MILLION >= 0
    BY <2>1, UnitsAreNat
  <2>3. (K - 1 - r) * MILLION = MILLION * K - MILLION - r * MILLION
    BY <2>1, UnitsAreNat
  <2>4. r * MILLION \in 0 .. BILLION - 1
    BY <2>1, <2>2, <2>3, UnitsAreNat
  <2> QED  BY <2>4 DEF r
<1> QED  BY <1>1, <1>2 DEF Interval, Times

\* A number of nanoseconds is a normalized time.
LEMMA TimeIsTime == ASSUME NEW n \in Nat PROVE Time(n) \in Times
BY UnitsAreNat, Division DEF Time, Times

\* ... and the number it is.
LEMMA TimeIsNs == ASSUME NEW n \in Nat PROVE Ns(Time(n)) = n
<1> DEFINE B == BILLION  q == n \div B  r == n % B
<1>1. B \in Nat \ {0}
  BY UnitsAreNat
<1> HIDE DEF B
<1>2. q \in Nat /\ r \in Nat /\ n = B * q + r
  BY <1>1, Division
<1>3. Ns(Time(n)) = q * B + r
  BY DEF Time, Ns, B
<1> HIDE DEF q, r
<1> QED  BY <1>1, <1>2, <1>3

\* A time is a natural number of nanoseconds.
LEMMA NsIsNat == ASSUME NEW t \in Times PROVE Ns(t) \in Nat
BY UnitsAreNat DEF Times, Ns

\* Zero is a time.
LEMMA ZeroIsTime == Zero \in Times /\ Ns(Zero) = 0
<1>1. Zero = [sec |-> 0, nsec |-> 0]
  BY UnitsAreNat, Carry, 0 \in 0 .. 2 * BILLION - 1 DEF Zero, Time
<1> QED  BY <1>1, UnitsAreNat DEF Times, Ns

\* The expiry of every slot is its interval after it was last set.
ArmedInv ==
    /\ now \in Times
    /\ interval \in [Handles -> Times] /\ expires \in [Handles -> Times]
    /\ since \in [Handles -> Nat]
    /\ \A h \in Handles : Ns(expires[h]) = since[h] + Ns(interval[h])

\* Every step keeps the expiries.
LEMMA ArmedStep == ArmedInv /\ [TableNext]_tableVars => ArmedInv'
<1> SUFFICES ASSUME ArmedInv, [TableNext]_tableVars PROVE ArmedInv'
  OBVIOUS
<1>1. ASSUME NEW t \in Times
      PROVE  add_timespec(now, t) \in Times /\ Ns(add_timespec(now, t)) = Ns(now) + Ns(t)
  BY <1>1, AddIsSum DEF ArmedInv
<1>2. Ns(now) \in Nat
  BY NsIsNat DEF ArmedInv
<1>3. ASSUME NEW h \in Handles, Set(h, interval[h]), UNCHANGED <<now, interval>>
      PROVE  ArmedInv'
  BY <1>1, <1>2, <1>3 DEF Set, ArmedInv
<1>4. ASSUME NEW c, NEW set \in Settings, NEW activate,
             CreateTimer(c, set[1], activate, set[2])
      PROVE  ArmedInv'
  <2>1. Interval(set[1]) \in Times
    BY IntervalIsTime, TableAssumption
  <2>2. PICK h \in Handles :
          /\ interval' = [interval EXCEPT ![h] = Interval(set[1])]
          /\ expires' = [expires EXCEPT ![h] = add_timespec(now, Interval(set[1]))]
          /\ since' = [since EXCEPT ![h] = Ns(now)]
          /\ now' = now
    BY <1>4 DEF CreateTimer, Set
  <2> QED  BY <1>1, <1>2, <2>1, <2>2 DEF ArmedInv
<1>5. ASSUME NEW c, NEW h \in Handles, RestartTimer(c, h) PROVE ArmedInv'
  BY <1>3, <1>5 DEF RestartTimer
<1>6. ASSUME NEW h \in Handles, DeleteTimer(h) PROVE ArmedInv'
  BY <1>6, ZeroIsTime DEF DeleteTimer, ArmedInv, slots
<1>7. CASE Settle
  <2>1. CASE timer \in autoReset /\ timer \in Handles
    BY <1>3, <1>7, <2>1 DEF Settle
  <2>2. CASE timer \in autoReset /\ timer \notin Handles
    BY <1>7, <2>2 DEF Settle, Set, ArmedInv
  <2>3. CASE timer \notin autoReset
    BY <1>7, <2>3 DEF Settle, ArmedInv
  <2> QED  BY <2>1, <2>2, <2>3
<1>8. ASSUME NEW d \in Delays, Tick(d) PROVE ArmedInv'
  <2>1. now' \in Times
    BY <1>2, <1>8, TimeIsTime, TableAssumption DEF Tick
  <2> QED  BY <1>8, <2>1 DEF Tick, ArmedInv, slots, history
<1>9. ASSUME UNCHANGED <<now, interval, expires, since>> PROVE ArmedInv'
  BY <1>9 DEF ArmedInv
<1>10. ASSUME NEW h \in Handles, StopTimer(h) PROVE ArmedInv'
  BY <1>9, <1>10 DEF StopTimer
<1>11. ASSUME NEW c, PushCell(c) \/ Signal(c) \/ DumpTimersQueue PROVE ArmedInv'
  BY <1>9, <1>11 DEF PushCell, Signal, DumpTimersQueue, slots, history
<1>12. CASE \/ SeeEmpty \/ Park \/ TakeTop \/ DropCancelled \/ ReadClock
            \/ Expire \/ CallBack \/ ComputeSleep \/ Sleep
  BY <1>9, <1>12 DEF SeeEmpty, Park, TakeTop, DropCancelled, ReadClock, Expire, CallBack,
     ComputeSleep, Sleep, slots, history
<1>13. CASE UNCHANGED tableVars
  BY <1>9, <1>13 DEF tableVars, slots, history
<1>14. CASE ApiNext
  BY <1>4, <1>5, <1>6, <1>10, <1>11, <1>14 DEF ApiNext
<1>15. CASE ServiceNext
  BY <1>7, <1>12, <1>15 DEF ServiceNext
<1> QED  BY <1>8, <1>13, <1>14, <1>15 DEF TableNext

(***************************************************************************)
(* The heap: push_heap and pop_heap are recursive functions in TimerTable; *)
(* what they return is proved by induction on the place in the array, with *)
(* the lemmas of DataLemmas.                                               *)
(***************************************************************************)

\* What a place in the array of the heap may hold
Elems == Handles \cup {NULL}

\* The parent of a place, and its children.
LEMMA Halves ==
    /\ \A j \in Nat : j > 1 => j \div 2 \in Nat /\ 1 <= j \div 2 /\ j \div 2 < j
    /\ \A i \in Nat, c \in Nat : c \div 2 = i <=> c = 2 * i \/ c = 2 * i + 1
  OBVIOUS

\* The parent of the hole at i is to come after v, and moves into it.
Moves(q, i, v, at) == i > 1 /\ CompareTimerInfo(q[i \div 2], v, at)

\* The array q with x at i
Put(q, i, x) == [q EXCEPT ![i] = x]

\* The recursion of SiftUp.
LEMMA SiftUpRecursion ==
    ASSUME NEW q \in Seq(Elems), NEW v \in Elems, NEW at
    PROVE  \A i \in DOMAIN q :
              SiftUp(q, i, v, at) =
                 IF Moves(q, i, v, at)
                 THEN Put(SiftUp(q, i \div 2, v, at), i, q[i \div 2])
                 ELSE Put(q, i, v)
<1> DEFINE D == DOMAIN q
           V == [D -> Elems]
           Step == [j \in D |-> [f \in [D -> V] |->
                       IF Moves(q, j, v, at) THEN [f[j \div 2] EXCEPT ![j] = q[j \div 2]]
                                   ELSE [q EXCEPT ![j] = v]]]
           rank == [j \in D |-> j]
           up == CHOOSE up : up = [j \in D |-> IF j > 1 /\ CompareTimerInfo(q[j \div 2], v, at)
                                               THEN [up[j \div 2] EXCEPT ![j] = q[j \div 2]]
                                               ELSE [q EXCEPT ![j] = v]]
<1>1. Len(q) \in Nat /\ D = 1 .. Len(q) /\ q \in V
  OBVIOUS
<1>2. \A j \in D : j > 1 => j \div 2 \in D /\ j \div 2 < j
  BY <1>1, Halves
<1>3. Step \in [D -> [[D -> V] -> V]]
  <2>1. ASSUME NEW j \in D, NEW f \in [D -> V]
        PROVE  (IF Moves(q, j, v, at)
                THEN [f[j \div 2] EXCEPT ![j] = q[j \div 2]]
                ELSE [q EXCEPT ![j] = v]) \in V
    <3>1. CASE Moves(q, j, v, at)
      <4>1. j \div 2 \in D
        BY <3>1, <1>2 DEF Moves
      <4>2. f[j \div 2] \in V /\ q[j \div 2] \in Elems
        BY <4>1, <1>1
      <4> QED  BY <3>1, <4>2
    <3>2. CASE ~Moves(q, j, v, at)
      BY <3>2, <1>1
    <3> QED  BY <3>1, <3>2
  <2> HIDE DEF V
  <2> QED  BY <2>1
<1>4. rank \in [D -> Nat] /\ \A j \in D : rank[j] < Len(q) + 1
  BY <1>1
<1>5. \A i \in D : \A g, h \in [D -> V] :
         (\A j \in D : rank[j] < rank[i] => g[j] = h[j]) => Step[i][g] = Step[i][h]
  BY <1>1, <1>2 DEF Moves
<1>6. Recursion(D, V, Step, rank, Len(q) + 1)
  <2> DEFINE b == Len(q) + 1
  <2>1. V # {} /\ b \in Nat
    BY <1>1
  <2>2. rank \in [D -> Nat] /\ \A i \in D : rank[i] < b
    BY <1>4
  <2> HIDE DEF D, V, Step, rank, b
  <2>3. \A i \in D : \A g, h \in [D -> V] :
         (\A j \in D : rank[j] < rank[i] => g[j] = h[j]) => Step[i][g] = Step[i][h]
    BY <1>5, Zenon
  <2>4. Step \in [D -> [[D -> V] -> V]]
    BY <1>3
  <2>5. Recursion(D, V, Step, rank, b)
    BY <2>1, <2>2, <2>3, <2>4, Zenon DEF Recursion
  <2> QED  BY <2>5 DEF b
<1>7. PICK f \in [D -> V] : \A j \in D : f[j] = Step[j][f]
  <2> HIDE DEF D, V, Step, rank
  <2> QED  BY <1>6, RecursionDefines DEF Defines
<1>10. f = [j \in D |-> IF j > 1 /\ CompareTimerInfo(q[j \div 2], v, at)
                         THEN [f[j \div 2] EXCEPT ![j] = q[j \div 2]]
                         ELSE [q EXCEPT ![j] = v]]
  BY <1>7 DEF Moves
<1>8. up = [j \in D |-> IF j > 1 /\ CompareTimerInfo(q[j \div 2], v, at)
                              THEN [up[j \div 2] EXCEPT ![j] = q[j \div 2]]
                              ELSE [q EXCEPT ![j] = v]]
  BY <1>10, Zenon
<1>9. \A i : SiftUp(q, i, v, at) = up[i]
  BY DEF SiftUp
<1> HIDE DEF up
<1> QED
  BY <1>8, <1>9, <1>2 DEF Moves, Put

\* The arrays of n places
Arr(n) == [1 .. n -> Elems]

\* An array of n places is a sequence of length n ...
LEMMA ArrIsSeq ==
    ASSUME NEW n \in Nat, NEW q \in Arr(n)
    PROVE  q \in Seq(Elems) /\ Len(q) = n /\ DOMAIN q = 1 .. n
  BY DEF Arr

\* ... and conversely.
LEMMA SeqIsArr ==
    ASSUME NEW q \in Seq(Elems)
    PROVE  Len(q) \in Nat /\ q \in Arr(Len(q)) /\ DOMAIN q = 1 .. Len(q)
  BY DEF Arr

\* Writes to different places commute.
LEMMA PutsCommute ==
    ASSUME NEW q, NEW i, NEW p, NEW x, NEW y, i # p
    PROVE  Put(Put(q, i, x), p, y) = Put(Put(q, p, y), i, x)
  BY DEF Put

\* What a write does.
LEMMA PutIsArr ==
    ASSUME NEW n \in Nat, NEW q \in Arr(n), NEW i \in 1 .. n, NEW x \in Elems
    PROVE  /\ Put(q, i, x) \in Arr(n) /\ Put(q, i, x)[i] = x
           /\ \A j \in 1 .. n : j # i => Put(q, i, x)[j] = q[j]
  BY DEF Arr, Put

\* SiftUp as its recursion, and what it returns.
LEMMA SiftUpUnfolds ==
    ASSUME NEW n \in Nat, NEW q \in Arr(n), NEW v \in Elems, NEW at
    PROVE  /\ \A i \in 1 .. n :
                 Moves(q, i, v, at) =>
                    SiftUp(q, i, v, at) = Put(SiftUp(q, i \div 2, v, at), i, q[i \div 2])
           /\ \A i \in 1 .. n :
                 ~Moves(q, i, v, at) =>
                    SiftUp(q, i, v, at) = Put(q, i, v)
           /\ \A i \in 1 .. n : SiftUp(q, i, v, at) \in Arr(n)
<1>1. \A i \in 1 .. n :
         SiftUp(q, i, v, at) =
            IF Moves(q, i, v, at)
            THEN Put(SiftUp(q, i \div 2, v, at), i, q[i \div 2])
            ELSE Put(q, i, v)
  BY ArrIsSeq, SiftUpRecursion
<1> DEFINE S == {i \in Nat : i \in 1 .. n => SiftUp(q, i, v, at) \in Arr(n)}
<1>2. ASSUME NEW i \in Nat, \A m \in Nat : m < i => m \in S, i \in 1 .. n
      PROVE  SiftUp(q, i, v, at) \in Arr(n)
  <2>1. CASE Moves(q, i, v, at)
    <3>1. i \div 2 \in 1 .. n /\ i \div 2 < i
      BY <1>2, <2>1, Halves DEF Moves
    <3>2. SiftUp(q, i \div 2, v, at) \in Arr(n) /\ q[i \div 2] \in Elems
      BY <1>2, <3>1, PutIsArr DEF Arr
    <3>3. SiftUp(q, i, v, at) = Put(SiftUp(q, i \div 2, v, at), i, q[i \div 2])
      BY <1>1, <1>2, <2>1
    <3> QED  BY <1>2, <3>2, <3>3, PutIsArr
  <2>2. CASE ~Moves(q, i, v, at)
    <3>1. SiftUp(q, i, v, at) = Put(q, i, v)
      BY <1>1, <1>2, <2>2
    <3> QED  BY <1>2, <3>1, PutIsArr
  <2> QED  BY <2>1, <2>2
<1>3. Nat \subseteq S
  <2>1. \A i \in Nat : (\A m \in Nat : m < i => m \in S) => i \in S
    BY <1>2
  <2> HIDE DEF S
  <2> QED  BY <2>1, NaturalsByStrongInduction
<1> QED  BY <1>1, <1>3

\* What is written below the hole does not matter to the way up.
LEMMA SiftUpIsLocal ==
    ASSUME NEW n \in Nat, NEW q \in Arr(n), NEW v \in Elems, NEW at,
           NEW i \in 1 .. n, NEW x \in Elems
    PROVE  \A p \in 1 .. n : p < i =>
              SiftUp(Put(q, i, x), p, v, at) = Put(SiftUp(q, p, v, at), i, x)
<1> DEFINE r == Put(q, i, x)
           S == {p \in Nat : p \in 1 .. n /\ p < i =>
                    SiftUp(r, p, v, at) = Put(SiftUp(q, p, v, at), i, x)}
<1>1. r \in Arr(n) /\ \A j \in 1 .. n : j < i => r[j] = q[j]
  BY PutIsArr
<1>2. ASSUME NEW p \in Nat, \A m \in Nat : m < p => m \in S, p \in 1 .. n, p < i
      PROVE  SiftUp(r, p, v, at) = Put(SiftUp(q, p, v, at), i, x)
  <2>1. p > 1 => p \div 2 \in 1 .. n /\ p \div 2 < p /\ r[p \div 2] = q[p \div 2]
    BY <1>1, <1>2, Halves
  <2>2. CASE Moves(q, p, v, at)
    <3> DEFINE s == SiftUp(q, p \div 2, v, at)
    <3>1. SiftUp(r, p \div 2, v, at) = Put(s, i, x) /\ s \in Arr(n)
      BY <1>2, <2>1, <2>2, SiftUpUnfolds DEF Moves
    <3>2. SiftUp(r, p, v, at) = Put(SiftUp(r, p \div 2, v, at), p, q[p \div 2])
      <4>1. Moves(r, p, v, at)
        BY <2>1, <2>2 DEF Moves
      <4>2. r[p \div 2] = q[p \div 2]
        BY <2>1, <2>2 DEF Moves
      <4> HIDE DEF r
      <4> QED  BY <1>1, <1>2, <4>1, <4>2, SiftUpUnfolds
    <3>3. SiftUp(q, p, v, at) = Put(s, p, q[p \div 2])
      BY <1>2, <2>1, <2>2, SiftUpUnfolds
    <3> HIDE DEF s
    <3> QED  BY <1>2, <3>1, <3>2, <3>3, PutsCommute
  <2>3. CASE ~Moves(q, p, v, at)
    <3>1. SiftUp(r, p, v, at) = Put(r, p, v)
      <4>1. ~Moves(r, p, v, at)
        BY <2>1, <2>3 DEF Moves
      <4> HIDE DEF r
      <4> QED  BY <1>1, <1>2, <4>1, SiftUpUnfolds
    <3>2. SiftUp(q, p, v, at) = Put(q, p, v)
      BY <1>2, <2>1, <2>3, SiftUpUnfolds
    <3> QED  BY <1>2, <3>1, <3>2, PutsCommute
  <2> QED  BY <2>2, <2>3
<1>3. Nat \subseteq S
  <2>1. \A p \in Nat : (\A m \in Nat : m < p => m \in S) => p \in S
    BY <1>2
  <2> HIDE DEF S
  <2> QED  BY <2>1, NaturalsByStrongInduction
<1> QED  BY <1>3

\* SiftUp as a loop: the parent moves into the hole, or v does.
LEMMA SiftUpMoves ==
    ASSUME NEW n \in Nat, NEW q \in Arr(n), NEW v \in Elems, NEW at, NEW i \in 1 .. n
    PROVE  /\ Moves(q, i, v, at) =>
                 /\ i \div 2 \in 1 .. n /\ i \div 2 < i
                 /\ Put(q, i, q[i \div 2]) \in Arr(n)
                 /\ SiftUp(q, i, v, at)
                       = SiftUp(Put(q, i, q[i \div 2]), i \div 2, v, at)
           /\ ~Moves(q, i, v, at) =>
                 SiftUp(q, i, v, at) = Put(q, i, v)
<1>1. CASE Moves(q, i, v, at)
  <2>1. i \div 2 \in 1 .. n /\ i \div 2 < i
    BY <1>1, Halves DEF Moves
  <2>2. q[i \div 2] \in Elems /\ Put(q, i, q[i \div 2]) \in Arr(n)
    BY <2>1, PutIsArr DEF Arr
  <2>3. SiftUp(Put(q, i, q[i \div 2]), i \div 2, v, at)
           = Put(SiftUp(q, i \div 2, v, at), i, q[i \div 2])
    BY <2>1, <2>2, SiftUpIsLocal
  <2>4. SiftUp(q, i, v, at) = Put(SiftUp(q, i \div 2, v, at), i, q[i \div 2])
    BY <1>1, SiftUpUnfolds
  <2> QED  BY <1>1, <2>1, <2>2, <2>3, <2>4
<1>2. CASE ~Moves(q, i, v, at)
  BY <1>2, SiftUpUnfolds
<1> QED  BY <1>1, <1>2

\* The array r after children have moved up into the hole that starts at i, and
\* where the hole ends.
SunkFrom(r, i, at) ==
    LET sunk[j \in DOMAIN r] ==
            IF 2 * j > Len(r) THEN r
            ELSE LET c == Child(r, j, at) IN [sunk[c] EXCEPT ![j] = r[c]]
    IN sunk[i]

HoleFrom(r, i, at) ==
    LET hole[j \in DOMAIN r] == IF 2 * j > Len(r) THEN j ELSE hole[Child(r, j, at)]
    IN hole[i]

\* Pop in terms of the way down and the way up.
LEMMA PopUnfolds ==
    ASSUME NEW q, NEW at
    PROVE  LET r == SubSeq(q, 1, Len(q) - 1)
           IN Pop(q, at) =
                IF r = <<>> THEN <<>>
                ELSE SiftUp(SunkFrom(r, 1, at), HoleFrom(r, 1, at), q[Len(q)], at)
BY Zenon DEF Pop, SunkFrom, HoleFrom

\* One entry is to come before the other, or one of them is cancelled.
Fits(x, y, at) == x = NULL \/ y = NULL \/ Ns(at[x]) <= Ns(at[y])

\* CompareTimerInfo(x, y): y is cancelled, or x expires after y.
LEMMA CompareMeans ==
    ASSUME NEW at \in [Handles -> Times], NEW x \in Elems, NEW y \in Elems
    PROVE  CompareTimerInfo(x, y, at)
              <=> y = NULL \/ (x # NULL /\ y # NULL /\ Ns(at[y]) < Ns(at[x]))
<1>1. CASE x # NULL /\ y # NULL
  <2>1. at[x] \in Times /\ at[y] \in Times
    BY <1>1 DEF Elems
  <2> QED  BY <1>1, <2>1, CompIsOrder DEF CompareTimerInfo
<1> QED  BY <1>1 DEF CompareTimerInfo

\* Either answer of CompareTimerInfo says which may be above the other.
LEMMA CompareFits ==
    ASSUME NEW at \in [Handles -> Times], NEW x \in Elems, NEW y \in Elems
    PROVE  /\ CompareTimerInfo(x, y, at) => Fits(y, x, at)
           /\ ~CompareTimerInfo(x, y, at) => Fits(x, y, at)
<1>1. x # NULL => Ns(at[x]) \in Nat
  BY NsIsNat DEF Elems
<1>2. y # NULL => Ns(at[y]) \in Nat
  BY NsIsNat DEF Elems
<1> QED  BY <1>1, <1>2, CompareMeans DEF Fits

\* The order is transitive, through a timer.
LEMMA FitsThrough ==
    ASSUME NEW at \in [Handles -> Times], NEW x \in Elems, NEW y \in Elems, NEW z \in Elems,
           y # NULL, Fits(x, y, at), Fits(y, z, at)
    PROVE  Fits(x, z, at)
<1>1. \A e \in Elems : e # NULL => Ns(at[e]) \in Nat
  BY NsIsNat DEF Elems
<1> QED  BY <1>1 DEF Fits

(* What an array holds. *)

Entries(q, I) == {q[i] : i \in I}
Distinct(q, I) == \A i, j \in I : q[i] = q[j] /\ q[i] # NULL => i = j

\* At the places J of t are the entries that s has at the places I, each once.
Holds(t, J, s, I) == Entries(t, J) = Entries(s, I) /\ (Distinct(s, I) => Distinct(t, J))

\* The last write to a place counts.
LEMMA PutTwice == ASSUME NEW q, NEW i, NEW x, NEW y
                  PROVE Put(Put(q, i, x), i, y) = Put(q, i, y)
BY DEF Put

\* Two places exchanged.
LEMMA SwapHolds ==
    ASSUME NEW n \in Nat, NEW q \in Arr(n), NEW i \in 1 .. n, NEW p \in 1 .. n, i # p,
           NEW v \in Elems
    PROVE  Holds(Put(Put(q, i, q[p]), p, v), 1 .. n, Put(q, i, v), 1 .. n)
<1> DEFINE t == Put(Put(q, i, q[p]), p, v)  s == Put(q, i, v)
<1>1. q[p] \in Elems
  BY DEF Arr
<1>2. Put(q, i, q[p]) \in Arr(n) /\ t \in Arr(n) /\ s \in Arr(n)
  BY <1>1, PutIsArr
<1>3. /\ t[p] = v /\ t[i] = q[p] /\ \A j \in 1 .. n : j # i /\ j # p => t[j] = q[j]
      /\ s[i] = v /\ \A j \in 1 .. n : j # i => s[j] = q[j]
  BY <1>1, <1>2, PutIsArr
<1> HIDE DEF t, s
<1>4. Entries(t, 1 .. n) = Entries(s, 1 .. n)
  <2>1. \A j \in 1 .. n : \E k \in 1 .. n : t[j] = s[k]
    BY <1>3
  <2>2. \A j \in 1 .. n : \E k \in 1 .. n : s[j] = t[k]
    BY <1>3
  <2> QED  BY <2>1, <2>2 DEF Entries
<1>5. Distinct(s, 1 .. n) => Distinct(t, 1 .. n)
  BY <1>3 DEF Distinct
<1> QED  BY <1>4, <1>5 DEF Holds, t, s

\* Nothing is lost or duplicated on the way up.
LEMMA SiftUpHolds ==
    ASSUME NEW n \in Nat, NEW v \in Elems, NEW at
    PROVE  \A i \in 1 .. n : \A q \in Arr(n) :
              Holds(SiftUp(q, i, v, at), 1 .. n, Put(q, i, v), 1 .. n)
<1> DEFINE S == {i \in Nat : i \in 1 .. n => \A q \in Arr(n) :
                    Holds(SiftUp(q, i, v, at), 1 .. n, Put(q, i, v), 1 .. n)}
<1>1. ASSUME NEW i \in Nat, \A m \in Nat : m < i => m \in S, i \in 1 .. n, NEW q \in Arr(n)
      PROVE  Holds(SiftUp(q, i, v, at), 1 .. n, Put(q, i, v), 1 .. n)
  <2>1. CASE Moves(q, i, v, at)
    <3> DEFINE p == i \div 2  r == Put(q, i, q[p])
    <3>1. p \in 1 .. n /\ p < i /\ r \in Arr(n) /\ SiftUp(q, i, v, at) = SiftUp(r, p, v, at)
      BY <1>1, <2>1, SiftUpMoves
    <3>2. Holds(SiftUp(r, p, v, at), 1 .. n, Put(r, p, v), 1 .. n)
      BY <1>1, <3>1
    <3>3. Holds(Put(r, p, v), 1 .. n, Put(q, i, v), 1 .. n)
      BY <1>1, <3>1, SwapHolds
    <3> QED  BY <3>1, <3>2, <3>3 DEF Holds
  <2>2. CASE ~Moves(q, i, v, at)
    <3>1. SiftUp(q, i, v, at) = Put(q, i, v)
      BY <1>1, <2>2, SiftUpMoves
    <3> QED  BY <3>1 DEF Holds
  <2> QED  BY <2>1, <2>2
<1>2. Nat \subseteq S
  <2>1. \A i \in Nat : (\A m \in Nat : m < i => m \in S) => i \in S
    BY <1>1
  <2> HIDE DEF S
  <2> QED  BY <2>1, NaturalsByStrongInduction
<1> QED  BY <1>2

(* The order of a heap: no entry is to come after one below it. *)
Ordered(q, I, at) == \A j \in I : j > 1 => Fits(q[j \div 2], q[j], at)

\* ... but for the hole at i, whose parent fits the children of the hole.
OrderedAround(q, I, i, at) ==
    /\ \A j \in I : j > 1 /\ j # i /\ j \div 2 # i => Fits(q[j \div 2], q[j], at)
    /\ \A j \in I : i > 1 /\ j \div 2 = i => Fits(q[i \div 2], q[j], at)

\* v fits above the children of i
Above(v, q, I, i, at) == \A j \in I : j \div 2 = i => Fits(v, q[j], at)

\* The hole moves to the parent, when v is to come before it.
LEMMA UpOneLevel ==
    ASSUME NEW n \in Nat, NEW q \in Arr(n), NEW i \in 1 .. n, NEW v \in Handles,
           NEW at \in [Handles -> Times], OrderedAround(q, 1 .. n, i, at),
           Above(v, q, 1 .. n, i, at), Moves(q, i, v, at)
    PROVE  LET r == Put(q, i, q[i \div 2])
           IN OrderedAround(r, 1 .. n, i \div 2, at) /\ Above(v, r, 1 .. n, i \div 2, at)
<1> DEFINE p == i \div 2
           r == Put(q, i, q[p])
<1>0. v \in Elems
  BY DEF Elems
<1>1. p \in 1 .. n /\ p < i /\ r \in Arr(n)
  <2>1. p \in 1 .. n /\ p < i
    BY Halves DEF Moves
  <2>2. q[p] \in Elems
    BY <2>1 DEF Arr
  <2> QED  BY <2>1, <2>2, PutIsArr
<1>2. q[p] \in Elems /\ r[i] = q[p] /\ \A j \in 1 .. n : j # i => r[j] = q[j]
  <2>1. q[p] \in Elems
    BY <1>1 DEF Arr
  <2> QED  BY <1>1, <2>1, PutIsArr
<1>3. q[p] # NULL /\ Fits(v, q[p], at) /\ v \in Elems
  BY <1>1, <1>2, CompareMeans, CompareFits, TableAssumption DEF Moves, Elems
<1>4. \A j \in 1 .. n : j > 1 => j \div 2 \in 1 .. n /\ j \div 2 < j
  BY Halves
<1>5. \A j \in 1 .. n : q[j] \in Elems
  BY DEF Arr
<1> HIDE DEF p, r
<1>6. p = i \div 2 /\ i > 1
  BY DEF p, Moves
<1>7. ASSUME NEW j \in 1 .. n, j > 1, j # p, j \div 2 # p PROVE Fits(r[j \div 2], r[j], at)
  <2>1. j # i
    BY <1>6, <1>7
  <2>2. r[j] = q[j]
    BY <1>2, <2>1
  <2>3. CASE j \div 2 = i
    BY <1>2, <1>6, <2>2, <2>3 DEF OrderedAround
  <2>4. CASE j \div 2 # i
    <3>1. r[j \div 2] = q[j \div 2]
      BY <1>2, <1>4, <1>7, <2>4
    <3> QED  BY <1>7, <2>1, <2>2, <2>4, <3>1 DEF OrderedAround
  <2> QED  BY <2>3, <2>4
<1>8. ASSUME NEW j \in 1 .. n, j \div 2 = p PROVE Fits(q[p], r[j], at)
  <2>1. CASE j = i
    <3>1. r[j] = q[p]
      BY <1>2, <2>1
    <3> QED  BY <1>2, <3>1, NsIsNat DEF Fits, Elems
  <2>2. CASE j # i
    <3>1. r[j] = q[j]
      BY <1>2, <2>2
    <3>2. j > 1
      BY <1>1, <1>8, Halves
    <3> QED  BY <1>1, <1>4, <1>6, <1>8, <2>2, <3>1, <3>2 DEF OrderedAround
  <2> QED  BY <2>1, <2>2
<1>9. \A j \in 1 .. n : r[j] \in Elems
  BY <1>1, <1>2, <1>5
<1>10. Above(v, r, 1 .. n, p, at)
  <2>1. ASSUME NEW j \in 1 .. n, j \div 2 = p PROVE Fits(v, r[j], at)
    BY <1>2, <1>3, <1>8, <1>9, <2>1, FitsThrough
  <2> QED  BY <2>1 DEF Above
<1>11. ASSUME NEW j \in 1 .. n, p > 1, j \div 2 = p PROVE Fits(r[p \div 2], r[j], at)
  <2>1. p \div 2 \in 1 .. n /\ p \div 2 < p
    BY <1>1, <1>4, <1>11
  <2>2. p # i /\ p \div 2 # i /\ r[p \div 2] = q[p \div 2]
    BY <1>1, <1>2, <2>1
  <2>3. Fits(q[p \div 2], q[p], at)
    BY <1>1, <1>11, <2>2 DEF OrderedAround
  <2> QED  BY <1>2, <1>3, <1>5, <1>8, <1>9, <1>11, <2>1, <2>2, <2>3, FitsThrough
<1>12. OrderedAround(r, 1 .. n, p, at)
  BY <1>7, <1>11 DEF OrderedAround
<1> QED  BY <1>10, <1>12 DEF p, r

\* v stays in the hole, when its parent is not to come after it.
LEMMA UpStays ==
    ASSUME NEW n \in Nat, NEW q \in Arr(n), NEW i \in 1 .. n, NEW v \in Elems,
           NEW at \in [Handles -> Times], OrderedAround(q, 1 .. n, i, at),
           Above(v, q, 1 .. n, i, at), ~Moves(q, i, v, at)
    PROVE  Ordered(Put(q, i, v), 1 .. n, at)
<1> DEFINE r == Put(q, i, v)
<1>1. r[i] = v /\ \A j \in 1 .. n : j # i => r[j] = q[j]
  BY PutIsArr
<1>2. \A j \in 1 .. n : j > 1 => j \div 2 \in 1 .. n /\ j \div 2 < j
  BY Halves
<1> HIDE DEF r
<1>3. ASSUME NEW j \in 1 .. n, j > 1 PROVE Fits(r[j \div 2], r[j], at)
  <2>1. CASE j = i
    <3>1. r[j \div 2] = q[j \div 2] /\ q[j \div 2] \in Elems
      BY <1>1, <1>2, <1>3, <2>1 DEF Arr
    <3> QED  BY <1>1, <1>3, <2>1, <3>1, CompareFits DEF Moves
  <2>2. CASE j \div 2 = i
    BY <1>1, <1>2, <1>3, <2>2 DEF Above
  <2>3. CASE j # i /\ j \div 2 # i
    BY <1>1, <1>2, <1>3, <2>3 DEF OrderedAround
  <2> QED  BY <2>1, <2>2, <2>3
<1> QED  BY <1>3 DEF Ordered, r

\* A timer moves up to where it restores the order.
LEMMA SiftUpOrders ==
    ASSUME NEW n \in Nat, NEW v \in Handles, NEW at \in [Handles -> Times]
    PROVE  \A i \in 1 .. n : \A q \in Arr(n) :
              OrderedAround(q, 1 .. n, i, at) /\ Above(v, q, 1 .. n, i, at)
                => Ordered(SiftUp(q, i, v, at), 1 .. n, at)
<1> DEFINE S == {i \in Nat : i \in 1 .. n => \A q \in Arr(n) :
                    OrderedAround(q, 1 .. n, i, at) /\ Above(v, q, 1 .. n, i, at)
                       => Ordered(SiftUp(q, i, v, at), 1 .. n, at)}
<1>0. v \in Elems
  BY DEF Elems
<1>1. ASSUME NEW i \in Nat, \A m \in Nat : m < i => m \in S, i \in 1 .. n, NEW q \in Arr(n),
             OrderedAround(q, 1 .. n, i, at), Above(v, q, 1 .. n, i, at)
      PROVE  Ordered(SiftUp(q, i, v, at), 1 .. n, at)
  <2>1. CASE Moves(q, i, v, at)
    <3> DEFINE p == i \div 2  r == Put(q, i, q[p])
    <3>1. p \in 1 .. n /\ p < i /\ r \in Arr(n) /\ SiftUp(q, i, v, at) = SiftUp(r, p, v, at)
      BY <1>0, <1>1, <2>1, SiftUpMoves
    <3>2. OrderedAround(r, 1 .. n, p, at) /\ Above(v, r, 1 .. n, p, at)
      BY <1>1, <2>1, UpOneLevel
    <3> HIDE DEF p, r
    <3>3. p \in S
      BY <1>1, <3>1
    <3> QED  BY <3>1, <3>2, <3>3
  <2>2. CASE ~Moves(q, i, v, at)
    <3>1. SiftUp(q, i, v, at) = Put(q, i, v)
      BY <1>0, <1>1, <2>2, SiftUpMoves
    <3>2. Ordered(Put(q, i, v), 1 .. n, at)
      BY <1>0, <1>1, <2>2, UpStays
    <3> QED  BY <3>1, <3>2
  <2> QED  BY <2>1, <2>2
<1>2. Nat \subseteq S
  <2>1. \A i \in Nat : (\A m \in Nat : m < i => m \in S) => i \in S
    BY <1>1
  <2> HIDE DEF S
  <2> QED  BY <2>1, NaturalsByStrongInduction
<1> QED  BY <1>2

\* The value in the hole is not read on the way up.
LEMMA SiftUpIgnoresHole ==
    ASSUME NEW n \in Nat, NEW q \in Arr(n), NEW i \in 1 .. n, NEW v \in Elems, NEW at,
           NEW x \in Elems
    PROVE  SiftUp(Put(q, i, x), i, v, at) = SiftUp(q, i, v, at)
<1> DEFINE p == i \div 2  r == Put(q, i, x)
<1>1. r \in Arr(n) /\ i > 1 => p \in 1 .. n /\ p < i
  BY Halves
<1>2. r \in Arr(n) /\ (i > 1 => r[p] = q[p])
  BY <1>1, PutIsArr
<1>3. Moves(r, i, v, at) <=> Moves(q, i, v, at)
  BY <1>2 DEF Moves
<1>4. CASE Moves(q, i, v, at)
  <2>1. i > 1
    BY <1>4 DEF Moves
  <2>2. Put(r, i, r[p]) = Put(q, i, q[p])
    BY <1>2, <2>1, PutTwice
  <2>3. SiftUp(q, i, v, at) = SiftUp(Put(q, i, q[p]), p, v, at)
    BY <1>4, SiftUpMoves
  <2>4. SiftUp(r, i, v, at) = SiftUp(Put(r, i, r[p]), p, v, at)
    <3> HIDE DEF r
    <3> QED  BY <1>2, <1>3, <1>4, SiftUpMoves
  <2> QED  BY <2>2, <2>3, <2>4
<1>5. CASE ~Moves(q, i, v, at)
  <2>1. SiftUp(q, i, v, at) = Put(q, i, v)
    BY <1>5, SiftUpMoves
  <2>2. SiftUp(r, i, v, at) = Put(r, i, v)
    <3> HIDE DEF r
    <3> QED  BY <1>2, <1>3, <1>5, SiftUpMoves
  <2> QED  BY <2>1, <2>2, PutTwice
<1> QED  BY <1>4, <1>5

\* The child of a hole that is not a leaf.
LEMMA ChildIsBelow ==
    ASSUME NEW n \in Nat, NEW q \in Arr(n), NEW i \in 1 .. n, 2 * i <= n, NEW at
    PROVE  LET c == Child(q, i, at)
           IN c \in 1 .. n /\ c > i /\ c \div 2 = i /\ (c = 2 * i \/ c = 2 * i + 1)
<1>1. Len(q) = n
  BY ArrIsSeq
<1>2. Child(q, i, at) = 2 * i \/ (2 * i # n /\ Child(q, i, at) = 2 * i + 1)
  BY <1>1 DEF Child
<1>3. (2 * i) \div 2 = i /\ (2 * i + 1) \div 2 = i
  OBVIOUS
<1> QED  BY <1>2, <1>3

\* The recursions of pop_heap on the way down.
LEMMA SinkUnfolds ==
    ASSUME NEW n \in Nat \ {0}, NEW q \in Arr(n), NEW at
    PROVE  /\ \A i \in 1 .. n : 2 * i > n =>
                 SunkFrom(q, i, at) = q /\ HoleFrom(q, i, at) = i
           /\ \A i \in 1 .. n : 2 * i <= n =>
                 LET c == Child(q, i, at) IN
                 /\ SunkFrom(q, i, at) = Put(SunkFrom(q, c, at), i, q[c])
                 /\ HoleFrom(q, i, at) = HoleFrom(q, c, at)
           /\ \A i \in 1 .. n : SunkFrom(q, i, at) \in Arr(n) /\ HoleFrom(q, i, at) \in 1 .. n
<1> DEFINE D == 1 .. n
           C(j) == Child(q, j, at)
           rank == [j \in D |-> n - j]
           V == Arr(n)
           Step == [j \in D |-> [f \in [D -> V] |->
                       IF 2 * j > n THEN q ELSE Put(f[C(j)], j, q[C(j)])]]
           HStep == [j \in D |-> [f \in [D -> D] |-> IF 2 * j > n THEN j ELSE f[C(j)]]]
           sunk == CHOOSE sunk : sunk = [j \in DOMAIN q |->
                       IF 2 * j > Len(q) THEN q
                       ELSE LET c == Child(q, j, at) IN [sunk[c] EXCEPT ![j] = q[c]]]
           hole == CHOOSE hole : hole = [j \in DOMAIN q |->
                       IF 2 * j > Len(q) THEN j ELSE hole[Child(q, j, at)]]
<1>1. q \in V /\ DOMAIN q = D /\ Len(q) = n
  BY ArrIsSeq
<1>2. \A j \in D : 2 * j <= n => C(j) \in D /\ n - C(j) < n - j /\ n - C(j) \in Nat
  BY ChildIsBelow
<1> HIDE DEF C
<1>3. rank \in [D -> Nat] /\ \A j \in D : rank[j] < n + 1
  OBVIOUS
<1>19. \A j \in D : ~(2 * j > n) => C(j) \in D /\ rank[C(j)] < rank[j]
  BY <1>2
<1>4. Recursion(D, V, Step, rank, n + 1)
  <2>1. Step \in [D -> [[D -> V] -> V]]
    <3>1. ASSUME NEW j \in D, NEW f \in [D -> V], ~(2 * j > n)
          PROVE  Put(f[C(j)], j, q[C(j)]) \in V
      <4>1. C(j) \in D /\ f[C(j)] \in V /\ q[C(j)] \in Elems
        BY <1>2, <3>1 DEF Arr
      <4> QED  BY <4>1, PutIsArr
    <3> HIDE DEF V, D
    <3> QED  BY <1>1, <3>1
  <2>2. \A i \in D : \A g, h \in [D -> V] :
           (\A j \in D : rank[j] < rank[i] => g[j] = h[j]) => Step[i][g] = Step[i][h]
    <3>1. ASSUME NEW i \in D, NEW g \in [D -> V], NEW h \in [D -> V],
                 \A j \in D : rank[j] < rank[i] => g[j] = h[j]
          PROVE  Step[i][g] = Step[i][h]
      <4>1. CASE 2 * i > n  BY <4>1
      <4>2. CASE ~(2 * i > n)
        <5>1. C(i) \in D /\ rank[C(i)] < rank[i]
          BY <1>19, <4>2, Zenon
        <5>2. g[C(i)] = h[C(i)]
          BY <3>1, <5>1
        <5> QED  BY <4>2, <5>2
      <4> QED  BY <4>1, <4>2
    <3> HIDE DEF D, V, Step, rank
    <3> QED  BY <3>1, Zenon
  <2> DEFINE b == n + 1
  <2>3. V # {} /\ b \in Nat /\ \A i \in D : rank[i] < b
    BY <1>1, <1>3
  <2> HIDE DEF D, V, Step, rank, b
  <2>4. Recursion(D, V, Step, rank, b)
    BY <1>3, <2>1, <2>2, <2>3, Zenon DEF Recursion
  <2> QED  BY <2>4 DEF b
<1>5. PICK f \in [D -> V] : \A j \in D : f[j] = Step[j][f]
  <2> HIDE DEF D, V, Step, rank
  <2> QED  BY <1>4, RecursionDefines DEF Defines
<1>6. f = [j \in DOMAIN q |->
              IF 2 * j > Len(q) THEN q
              ELSE LET c == Child(q, j, at) IN [f[c] EXCEPT ![j] = q[c]]]
  BY <1>1, <1>5 DEF C, Put
<1>7. sunk = [j \in DOMAIN q |->
                 IF 2 * j > Len(q) THEN q
                 ELSE LET c == Child(q, j, at) IN [sunk[c] EXCEPT ![j] = q[c]]]
  BY <1>6, Zenon
<1>8. \A i : SunkFrom(q, i, at) = sunk[i]
  BY DEF SunkFrom
<1> HIDE DEF sunk
<1>9. Recursion(D, D, HStep, rank, n + 1)
  <2>1. HStep \in [D -> [[D -> D] -> D]]
    BY <1>2
  <2>2. \A i \in D : \A g, h \in [D -> D] :
           (\A j \in D : rank[j] < rank[i] => g[j] = h[j]) => HStep[i][g] = HStep[i][h]
    <3>1. ASSUME NEW i \in D, NEW g \in [D -> D], NEW h \in [D -> D],
                 \A j \in D : rank[j] < rank[i] => g[j] = h[j]
          PROVE  HStep[i][g] = HStep[i][h]
      <4>1. CASE 2 * i > n  BY <4>1
      <4>2. CASE ~(2 * i > n)
        <5>1. C(i) \in D /\ rank[C(i)] < rank[i]
          BY <1>19, <4>2, Zenon
        <5>2. g[C(i)] = h[C(i)]
          <6> HIDE DEF D, rank
          <6> QED  BY <3>1, <5>1, Zenon
        <5> QED  BY <4>2, <5>2
      <4> QED  BY <4>1, <4>2
    <3> HIDE DEF D, HStep, rank
    <3> QED  BY <3>1, Zenon
  <2> DEFINE b == n + 1
  <2>3. b \in Nat /\ (\A i \in D : rank[i] < b) /\ 1 \in D
    BY <1>3
  <2> HIDE DEF D, HStep, rank, b
  <2>4. Recursion(D, D, HStep, rank, b)
    BY <1>3, <2>1, <2>2, <2>3, Zenon DEF Recursion
  <2> QED  BY <2>4 DEF b
<1>10. PICK g \in [D -> D] : \A j \in D : g[j] = HStep[j][g]
  <2> HIDE DEF D, HStep, rank
  <2> QED  BY <1>9, RecursionDefines DEF Defines
<1>11. g = [j \in DOMAIN q |-> IF 2 * j > Len(q) THEN j ELSE g[Child(q, j, at)]]
  BY <1>1, <1>10 DEF C
<1>12. hole = [j \in DOMAIN q |-> IF 2 * j > Len(q) THEN j ELSE hole[Child(q, j, at)]]
  BY <1>11, Zenon
<1>13. \A i : HoleFrom(q, i, at) = hole[i]
  BY DEF HoleFrom
<1> HIDE DEF hole
<1>14. ASSUME NEW i \in D, 2 * i > n
       PROVE  SunkFrom(q, i, at) = q /\ HoleFrom(q, i, at) = i
  BY <1>1, <1>7, <1>8, <1>12, <1>13, <1>14
<1>15. ASSUME NEW i \in D, 2 * i <= n
       PROVE  /\ SunkFrom(q, i, at) = Put(SunkFrom(q, C(i), at), i, q[C(i)])
              /\ HoleFrom(q, i, at) = HoleFrom(q, C(i), at)
  <2>0. ~(2 * i > Len(q)) /\ i \in DOMAIN q
    BY <1>1, <1>15
  <2>1. sunk[i] = [sunk[C(i)] EXCEPT ![i] = q[C(i)]]
    BY <1>7, <2>0, Zenon DEF C
  <2>2. hole[i] = hole[C(i)]
    BY <1>12, <2>0, Zenon DEF C
  <2> QED  BY <1>8, <1>13, <2>1, <2>2 DEF Put
<1> DEFINE S == {k \in Nat : \A i \in D : n - i = k =>
                    SunkFrom(q, i, at) \in Arr(n) /\ HoleFrom(q, i, at) \in D}
<1>16. ASSUME NEW k \in Nat, \A m \in Nat : m < k => m \in S, NEW i \in D, n - i = k
       PROVE  SunkFrom(q, i, at) \in Arr(n) /\ HoleFrom(q, i, at) \in D
  <2>1. CASE 2 * i > n
    BY <1>1, <1>14, <2>1
  <2>2. CASE 2 * i <= n
    <3>1. C(i) \in D /\ n - C(i) < k /\ n - C(i) \in Nat
      BY <1>2, <1>16, <2>2
    <3>2. SunkFrom(q, C(i), at) \in Arr(n) /\ HoleFrom(q, C(i), at) \in D
      BY <1>16, <3>1
    <3>3. q[C(i)] \in Elems
      BY <3>1 DEF Arr
    <3>4. Put(SunkFrom(q, C(i), at), i, q[C(i)]) \in Arr(n)
      BY <3>2, <3>3, PutIsArr
    <3> QED  BY <1>15, <2>2, <3>2, <3>4
  <2> QED  BY <2>1, <2>2
<1>17. Nat \subseteq S
  <2>1. \A k \in Nat : (\A m \in Nat : m < k => m \in S) => k \in S
    BY <1>16
  <2> HIDE DEF S
  <2> QED  BY <2>1, NaturalsByStrongInduction
<1>18. \A i \in D : SunkFrom(q, i, at) \in Arr(n) /\ HoleFrom(q, i, at) \in D
  <2>1. \A i \in D : n - i \in Nat
    OBVIOUS
  <2> QED  BY <1>17, <2>1
<1> QED  BY <1>14, <1>15, <1>18 DEF C

\* What was written above a hole does not matter to its way down.
LEMMA SinkIsLocal ==
    ASSUME NEW n \in Nat \ {0}, NEW q \in Arr(n), NEW at, NEW i \in 1 .. n, NEW x \in Elems
    PROVE  \A p \in 1 .. n : p > i =>
              /\ SunkFrom(Put(q, i, x), p, at) = Put(SunkFrom(q, p, at), i, x)
              /\ HoleFrom(Put(q, i, x), p, at) = HoleFrom(q, p, at)
<1> DEFINE r == Put(q, i, x)
           Same(p) == /\ SunkFrom(r, p, at) = Put(SunkFrom(q, p, at), i, x)
                      /\ HoleFrom(r, p, at) = HoleFrom(q, p, at)
           S == {k \in Nat : \A p \in 1 .. n : p > i /\ n - p = k => Same(p)}
<1>1. r \in Arr(n) /\ \A j \in 1 .. n : j # i => r[j] = q[j]
  BY PutIsArr
<1>2. Len(r) = n /\ Len(q) = n
  BY <1>1, ArrIsSeq
<1> HIDE DEF r
<1>3. ASSUME NEW k \in Nat, \A m \in Nat : m < k => m \in S, NEW p \in 1 .. n, p > i, n - p = k
      PROVE  Same(p)
  <2>1. CASE 2 * p > n
    <3>1. SunkFrom(q, p, at) = q /\ HoleFrom(q, p, at) = p
      BY <2>1, SinkUnfolds
    <3>2. SunkFrom(r, p, at) = r /\ HoleFrom(r, p, at) = p
      BY <1>1, <2>1, SinkUnfolds
    <3> QED  BY <3>1, <3>2 DEF r
  <2>2. CASE 2 * p <= n
    <3> DEFINE c == Child(q, p, at)
    <3>1. 2 * p \in 1 .. n /\ 2 * p # i /\ (2 * p # n => 2 * p + 1 \in 1 .. n /\ 2 * p + 1 # i)
      BY <1>3, <2>2
    <3>2. Child(r, p, at) = c
      BY <1>1, <1>2, <3>1 DEF Child
    <3>3. c \in 1 .. n /\ c > p
      BY <2>2, ChildIsBelow
    <3> HIDE DEF c
    <3>4. c > i /\ n - c \in Nat /\ n - c < k
      BY <1>3, <3>3
    <3>5. Same(c)
      BY <1>3, <3>3, <3>4
    <3>6. /\ SunkFrom(q, p, at) = Put(SunkFrom(q, c, at), p, q[c])
          /\ HoleFrom(q, p, at) = HoleFrom(q, c, at)
      BY <2>2, SinkUnfolds DEF c
    <3>7. /\ SunkFrom(r, p, at) = Put(SunkFrom(r, c, at), p, r[c])
          /\ HoleFrom(r, p, at) = HoleFrom(r, c, at)
      BY <1>1, <2>2, <3>2, SinkUnfolds
    <3>8. r[c] = q[c] /\ p # i
      BY <1>1, <1>3, <3>3, <3>4
    <3> QED  BY <3>5, <3>6, <3>7, <3>8, PutsCommute
  <2> QED  BY <2>1, <2>2
<1>4. Nat \subseteq S
  <2>1. \A k \in Nat : (\A m \in Nat : m < k => m \in S) => k \in S
    BY <1>3
  <2> HIDE DEF S
  <2> QED  BY <2>1, NaturalsByStrongInduction
<1>5. \A p \in 1 .. n : n - p \in Nat
  OBVIOUS
<1>6. \A p \in 1 .. n : p > i => Same(p)
  <2> HIDE DEF Same
  <2> QED  BY <1>4, <1>5
<1> QED  BY <1>6 DEF r

\* The way down as a loop: the child moves into the hole.
LEMMA SinkMoves ==
    ASSUME NEW n \in Nat \ {0}, NEW q \in Arr(n), NEW at, NEW i \in 1 .. n, 2 * i <= n
    PROVE  LET c == Child(q, i, at)  r == Put(q, i, q[c])
           IN /\ c \in 1 .. n /\ c > i /\ c \div 2 = i /\ r \in Arr(n)
              /\ SunkFrom(q, i, at) = SunkFrom(r, c, at)
              /\ HoleFrom(q, i, at) = HoleFrom(r, c, at)
<1> DEFINE c == Child(q, i, at)  r == Put(q, i, q[c])
<1>1. c \in 1 .. n /\ c > i /\ c \div 2 = i
  BY ChildIsBelow
<1>2. q[c] \in Elems
  BY <1>1 DEF Arr
<1>3. r \in Arr(n)
  BY <1>2, PutIsArr
<1>4. /\ SunkFrom(q, i, at) = Put(SunkFrom(q, c, at), i, q[c])
      /\ HoleFrom(q, i, at) = HoleFrom(q, c, at)
  BY SinkUnfolds
<1>5. /\ SunkFrom(r, c, at) = Put(SunkFrom(q, c, at), i, q[c])
      /\ HoleFrom(r, c, at) = HoleFrom(q, c, at)
  BY <1>1, <1>2, SinkIsLocal
<1> QED  BY <1>1, <1>3, <1>4, <1>5

\* The order around the hole is kept as it goes down.
LEMMA DownOneLevel ==
    ASSUME NEW n \in Nat \ {0}, NEW q \in Arr(n), NEW at \in [Handles -> Times],
           NEW i \in 1 .. n, 2 * i <= n, OrderedAround(q, 1 .. n, i, at)
    PROVE  LET c == Child(q, i, at)
           IN OrderedAround(Put(q, i, q[c]), 1 .. n, c, at)
<1> DEFINE c == Child(q, i, at)  r == Put(q, i, q[c])
<1>1. /\ c \in 1 .. n /\ c > i /\ c \div 2 = i /\ (c = 2 * i \/ c = 2 * i + 1)
  BY ChildIsBelow
<1>2. q[c] \in Elems
  BY <1>1 DEF Arr
<1>3. r[i] = q[c] /\ \A j \in 1 .. n : j # i => r[j] = q[j]
  BY <1>2, PutIsArr
<1>4. ASSUME NEW j \in 1 .. n, j \div 2 = i, j # c PROVE Fits(q[c], q[j], at)
  <2>1. Len(q) = n /\ q[j] \in Elems
    BY ArrIsSeq DEF Arr
  <2>2. (j = 2 * i /\ c = 2 * i + 1) \/ (j = 2 * i + 1 /\ c = 2 * i)
    BY <1>1, <1>4
  <2>3. CASE c = 2 * i + 1 /\ j = 2 * i
    <3>1. ~CompareTimerInfo(q[c], q[j], at)
      BY <2>3 DEF Child
    <3> QED  BY <1>2, <2>1, <3>1, CompareFits
  <2>4. CASE c = 2 * i /\ j = 2 * i + 1
    <3>1. 2 * i # n
      BY <2>4
    <3>2. CompareTimerInfo(q[j], q[c], at)
      BY <2>1, <2>4, <3>1 DEF Child
    <3> QED  BY <1>2, <2>1, <3>2, CompareFits
  <2> QED  BY <2>2, <2>3, <2>4
<1> HIDE DEF c, r
<1>5. \A j \in 1 .. n : j > 1 => j \div 2 \in 1 .. n /\ j \div 2 < j
  BY Halves
<1>6. ASSUME NEW j \in 1 .. n, j > 1, j # c, j \div 2 # c PROVE Fits(r[j \div 2], r[j], at)
  <2>1. CASE j = i
    <3>1. j \div 2 # i /\ r[j \div 2] = q[i \div 2]
      BY <1>3, <1>5, <1>6, <2>1
    <3> QED  BY <1>1, <1>3, <1>6, <2>1, <3>1 DEF OrderedAround
  <2>2. CASE j \div 2 = i
    <3>1. j # i /\ r[j] = q[j]
      BY <1>3, <1>5, <1>6, <2>2
    <3> QED  BY <1>3, <1>4, <1>6, <2>2, <3>1
  <2>3. CASE j # i /\ j \div 2 # i
    BY <1>3, <1>5, <1>6, <2>3 DEF OrderedAround
  <2> QED  BY <2>1, <2>2, <2>3
<1>7. ASSUME NEW j \in 1 .. n, j \div 2 = c PROVE Fits(r[c \div 2], r[j], at)
  <2>1. j > 1 /\ j # i /\ j \div 2 # i
    BY <1>1, <1>7, Halves
  <2> QED  BY <1>1, <1>3, <1>7, <2>1 DEF OrderedAround
<1> QED  BY <1>6, <1>7 DEF OrderedAround, c, r

\* What is kept while the hole goes down from the root of r: the order, if
\* there was one, around the hole, the entries with v in the hole, and the way back up.
Sinking(n, r, v, at, s, i) ==
    /\ s \in Arr(n) /\ i \in 1 .. n
    /\ Ordered(r, 1 .. n, at) => OrderedAround(s, 1 .. n, i, at)
    /\ Holds(Put(s, i, v), 1 .. n, Put(r, 1, v), 1 .. n)
    /\ SiftUp(s, i, NULL, at) = Put(r, 1, NULL)

\* Two arrays with the same entries.
LEMMA SameEntries ==
    ASSUME NEW t, NEW J, NEW s, NEW I,
           \A j \in J : \E i \in I : t[j] = s[i], \A i \in I : \E j \in J : s[i] = t[j]
    PROVE  Entries(t, J) = Entries(s, I)
BY DEF Entries

\* Holding the same entries is transitive.
LEMMA HoldsThrough ==
    ASSUME NEW t, NEW J, NEW s, NEW I, NEW q, NEW H, Holds(t, J, s, I), Holds(s, I, q, H)
    PROVE  Holds(t, J, q, H)
BY DEF Holds

\* An entry is a timer or cancelled.
LEMMA NullIsElem == NULL \in Elems /\ Handles \subseteq Elems /\ NULL \notin Handles
BY TableAssumption DEF Elems

\* One step down keeps all of it.
LEMMA SinkOneLevel ==
    ASSUME NEW n \in Nat \ {0}, NEW r \in Arr(n), NEW v \in Elems,
           NEW at \in [Handles -> Times], NEW s, NEW i,
           Sinking(n, r, v, at, s, i), 2 * i <= n
    PROVE  LET c == Child(s, i, at) IN Sinking(n, r, v, at, Put(s, i, s[c]), c)
<1> DEFINE c == Child(s, i, at)  t == Put(s, i, s[c])
<1>1. s \in Arr(n) /\ i \in 1 .. n
  BY DEF Sinking
<1>2. c \in 1 .. n /\ c > i /\ c \div 2 = i /\ t \in Arr(n)
  BY <1>1, SinkMoves
<1>3. s[c] \in Elems
  BY <1>1, <1>2 DEF Arr
<1>4. Ordered(r, 1 .. n, at) => OrderedAround(t, 1 .. n, c, at)
  <2> SUFFICES ASSUME Ordered(r, 1 .. n, at) PROVE OrderedAround(t, 1 .. n, c, at)
    OBVIOUS
  <2>1. OrderedAround(s, 1 .. n, i, at)
    BY DEF Sinking
  <2> QED  BY <1>1, <2>1, DownOneLevel
<1>5. Holds(Put(t, c, v), 1 .. n, Put(r, 1, v), 1 .. n)
  <2>1. Holds(Put(t, c, v), 1 .. n, Put(s, i, v), 1 .. n)
    BY <1>1, <1>2, SwapHolds
  <2>2. Holds(Put(s, i, v), 1 .. n, Put(r, 1, v), 1 .. n)
    BY DEF Sinking
  <2> QED  BY <2>1, <2>2, HoldsThrough
<1>6. SiftUp(t, c, NULL, at) = Put(r, 1, NULL)
  <2>1. t[i] = s[c] /\ t[c] = s[c]
    <3>1. c # i
      BY <1>1, <1>2
    <3> HIDE DEF c
    <3> QED  BY <1>1, <1>2, <1>3, <3>1, PutIsArr
  <2>2. Put(t, c, t[i]) = t
    <3> HIDE DEF t, c
    <3> QED  BY <1>2, <2>1 DEF Put, Arr
  <2>3. SiftUp(t, i, NULL, at) = SiftUp(s, i, NULL, at)
    BY <1>1, <1>3, NullIsElem, SiftUpIgnoresHole
  <2> HIDE DEF t, c
  <2>4. Moves(t, c, NULL, at)
    BY <1>1, <1>2 DEF Moves, CompareTimerInfo
  <2>5. SiftUp(t, c, NULL, at) = SiftUp(Put(t, c, t[i]), i, NULL, at)
    BY <1>2, <2>4, NullIsElem, SiftUpMoves
  <2> QED  BY <2>2, <2>3, <2>5 DEF Sinking
<1> HIDE DEF c, t
<1>7. Sinking(n, r, v, at, t, c)
  BY <1>2, <1>4, <1>5, <1>6 DEF Sinking
<1> QED  BY <1>7 DEF t, c

\* The hole ends at a leaf.
LEMMA SinkEnds ==
    ASSUME NEW n \in Nat \ {0}, NEW r \in Arr(n), NEW v \in Elems,
           NEW at \in [Handles -> Times]
    PROVE  \A i \in 1 .. n : \A s \in Arr(n) : Sinking(n, r, v, at, s, i) =>
              /\ Sinking(n, r, v, at, SunkFrom(s, i, at), HoleFrom(s, i, at))
              /\ 2 * HoleFrom(s, i, at) > n
<1> DEFINE Ends(s, i) == /\ Sinking(n, r, v, at, SunkFrom(s, i, at), HoleFrom(s, i, at))
                         /\ 2 * HoleFrom(s, i, at) > n
           S == {k \in Nat : \A i \in 1 .. n : n - i = k =>
                    \A s \in Arr(n) : Sinking(n, r, v, at, s, i) => Ends(s, i)}
<1>1. ASSUME NEW k \in Nat, \A m \in Nat : m < k => m \in S, NEW i \in 1 .. n, n - i = k,
             NEW s \in Arr(n), Sinking(n, r, v, at, s, i)
      PROVE  Ends(s, i)
  <2>1. CASE 2 * i > n
    BY <1>1, <2>1, SinkUnfolds
  <2>2. CASE 2 * i <= n
    <3> DEFINE c == Child(s, i, at)  t == Put(s, i, s[c])
    <3>1. /\ c \in 1 .. n /\ c > i /\ t \in Arr(n)
          /\ SunkFrom(s, i, at) = SunkFrom(t, c, at)
          /\ HoleFrom(s, i, at) = HoleFrom(t, c, at)
      BY <2>2, SinkMoves
    <3>2. Sinking(n, r, v, at, t, c)
      BY <1>1, <2>2, SinkOneLevel
    <3> HIDE DEF c, t
    <3>3. n - c \in Nat /\ n - c < k
      BY <1>1, <3>1
    <3>4. Ends(t, c)
      BY <1>1, <3>1, <3>2, <3>3
    <3> QED  BY <3>1, <3>4
  <2> QED  BY <2>1, <2>2
<1>2. Nat \subseteq S
  <2>1. \A k \in Nat : (\A m \in Nat : m < k => m \in S) => k \in S
    BY <1>1
  <2> HIDE DEF S
  <2> QED  BY <2>1, NaturalsByStrongInduction
<1>3. \A i \in 1 .. n : n - i \in Nat
  OBVIOUS
<1>4. \A i \in 1 .. n : \A s \in Arr(n) : Sinking(n, r, v, at, s, i) => Ends(s, i)
  <2> HIDE DEF Ends
  <2> QED  BY <1>2, <1>3
<1> QED  BY <1>4

\* push adds one entry, and keeps the order if it is that of a timer: a cell
\* cancelled before it is pushed goes to the root, and what it displaces may
\* come to be above what expires earlier.
LEMMA PushKeeps ==
    ASSUME NEW m \in Nat, NEW q \in Arr(m), NEW h \in Elems, NEW at \in [Handles -> Times]
    PROVE  /\ Push(q, h, at) \in Arr(m + 1)
           /\ Holds(Push(q, h, at), 1 .. m + 1, Append(q, h), 1 .. m + 1)
           /\ h \in Handles /\ Ordered(q, 1 .. m, at)
                 => Ordered(Push(q, h, at), 1 .. m + 1, at)
<1> DEFINE n == m + 1  a == Append(q, h)
<1>1. q \in Seq(Elems) /\ Len(q) = m /\ h \in Elems
  BY ArrIsSeq
<1>2. a \in Seq(Elems) /\ Len(a) = n /\ a[n] = h /\ \A j \in 1 .. m : a[j] = q[j]
  BY <1>1
<1>3. a \in Arr(n) /\ n \in 1 .. n /\ n \in Nat
  <2> HIDE DEF a
  <2>1. a \in Arr(Len(a))
    BY <1>2, SeqIsArr
  <2> QED  BY <1>2, <2>1
<1>4. Push(q, h, at) = SiftUp(a, n, h, at)
  BY <1>1 DEF Push
<1>5. Put(a, n, h) = a
  <2> HIDE DEF a
  <2> QED  BY <1>2, <1>3 DEF Put, Arr
<1>6. ASSUME Ordered(q, 1 .. m, at)
      PROVE  OrderedAround(a, 1 .. n, n, at) /\ Above(h, a, 1 .. n, n, at)
  <2>1. \A j \in 1 .. n : j \div 2 # n
    OBVIOUS
  <2>2. ASSUME NEW j \in 1 .. n, j > 1, j # n PROVE Fits(a[j \div 2], a[j], at)
    <3>1. j \in 1 .. m /\ j \div 2 \in 1 .. m
      BY <2>2, Halves
    <3>2. Fits(q[j \div 2], q[j], at)
      BY <1>6, <2>2, <3>1 DEF Ordered
    <3> QED  BY <1>2, <3>1, <3>2
  <2> HIDE DEF a, n
  <2> QED  BY <2>1, <2>2 DEF OrderedAround, Above
<1> HIDE DEF a, n
<1>7. SiftUp(a, n, h, at) \in Arr(n)
  BY <1>1, <1>3, SiftUpUnfolds
<1>8. Holds(SiftUp(a, n, h, at), 1 .. n, a, 1 .. n)
  BY <1>1, <1>3, <1>5, SiftUpHolds
<1>9. h \in Handles /\ Ordered(q, 1 .. m, at) => Ordered(SiftUp(a, n, h, at), 1 .. n, at)
  BY <1>3, <1>6, SiftUpOrders
<1> QED  BY <1>4, <1>7, <1>8, <1>9 DEF a, n

\* pop takes the first entry, and keeps the order.
LEMMA PopKeeps ==
    ASSUME NEW m \in Nat \ {0}, NEW q \in Arr(m), NEW at \in [Handles -> Times]
    PROVE  /\ Pop(q, at) \in Arr(m - 1)
           /\ Holds(Pop(q, at), 1 .. m - 1, q, 2 .. m)
           /\ Ordered(q, 1 .. m, at) => Ordered(Pop(q, at), 1 .. m - 1, at)
<1> DEFINE n == m - 1  r == SubSeq(q, 1, n)  v == q[m]
<1>1. q \in Seq(Elems) /\ Len(q) = m /\ v \in Elems /\ n \in Nat
  BY ArrIsSeq DEF Arr
<1>2. r \in Seq(Elems) /\ Len(r) = n /\ \A j \in 1 .. n : r[j] = q[j]
  BY <1>1
<1>3. r \in Arr(n)
  BY <1>2, SeqIsArr
<1>4. CASE n = 0
  <2>1. r = <<>>
    BY <1>2, <1>4
  <2>2. Pop(q, at) = <<>>
    BY <1>1, <2>1, PopUnfolds
  <2>3. Pop(q, at) \in Arr(n)
    BY <1>3, <2>1, <2>2
  <2>4. 1 .. n = {} /\ 2 .. m = {}
    BY <1>4
  <2> HIDE DEF n
  <2> QED  BY <2>3, <2>4 DEF Holds, Entries, Distinct, Ordered, n
<1>5. CASE n # 0
  <2> DEFINE s == SunkFrom(r, 1, at)  i == HoleFrom(r, 1, at)
  <2>1. r # <<>> /\ n \in Nat \ {0} /\ 1 \in 1 .. n
    BY <1>1, <1>2, <1>5
  <2>2. Pop(q, at) = SiftUp(s, i, v, at)
    BY <1>1, <2>1, PopUnfolds
  <2>3. Ordered(q, 1 .. m, at) => Ordered(r, 1 .. n, at)
    <3>1. ASSUME Ordered(q, 1 .. m, at), NEW j \in 1 .. n, j > 1
          PROVE  Fits(r[j \div 2], r[j], at)
      <4>1. j \div 2 \in 1 .. n /\ j \in 1 .. m
        BY <3>1, Halves
      <4>2. Fits(q[j \div 2], q[j], at)
        BY <3>1, <4>1 DEF Ordered
      <4> QED  BY <1>2, <4>1, <4>2
    <3> HIDE DEF r, n
    <3> QED  BY <3>1 DEF Ordered
  <2> HIDE DEF r, n, v
  <2>4. Sinking(n, r, v, at, r, 1)
    <3>1. Ordered(r, 1 .. n, at) => OrderedAround(r, 1 .. n, 1, at)
      BY DEF Ordered, OrderedAround
    <3>2. ~Moves(r, 1, NULL, at)
      BY DEF Moves
    <3>3. SiftUp(r, 1, NULL, at) = Put(r, 1, NULL)
      BY <1>3, <2>1, <3>2, NullIsElem, SiftUpMoves
    <3> QED  BY <1>3, <2>1, <3>1, <3>3 DEF Sinking, Holds
  <2>5. Sinking(n, r, v, at, s, i) /\ 2 * i > n
    BY <1>1, <1>3, <2>1, <2>4, SinkEnds
  <2> HIDE DEF s, i
  <2>6. s \in Arr(n) /\ i \in 1 .. n
    BY <2>5 DEF Sinking
  <2>7. SiftUp(s, i, v, at) \in Arr(n)
    BY <1>1, <2>6, SiftUpUnfolds
  <2>8. Holds(SiftUp(s, i, v, at), 1 .. n, q, 2 .. m)
    <3>1. Holds(SiftUp(s, i, v, at), 1 .. n, Put(s, i, v), 1 .. n)
      BY <1>1, <2>6, SiftUpHolds
    <3>2. Holds(Put(s, i, v), 1 .. n, Put(r, 1, v), 1 .. n)
      BY <2>5 DEF Sinking
    <3>3. Holds(Put(r, 1, v), 1 .. n, q, 2 .. m)
      <4> DEFINE t == Put(r, 1, v)
      <4>1. t[1] = q[m] /\ \A j \in 2 .. n : t[j] = q[j]
        BY <1>1, <1>2, <1>3, <2>1, PutIsArr, SMTT(30) DEF v
      <4> HIDE DEF t
      <4>2. m = n + 1
        BY DEF n
      <4>3. Entries(t, 1 .. n) = Entries(q, 2 .. m)
        <5>1. \A j \in 1 .. n : \E k \in 2 .. m : t[j] = q[k]
          BY <2>1, <4>1, <4>2
        <5>2. ASSUME NEW k \in 2 .. m PROVE \E j \in 1 .. n : q[k] = t[j]
          <6>1. CASE k = m
            BY <2>1, <4>1, <6>1
          <6>2. CASE k # m
            <7>1. k \in 2 .. n /\ k \in 1 .. n
              BY <2>1, <4>2, <6>2
            <7> QED  BY <4>1, <7>1
          <6> QED  BY <6>1, <6>2
        <5>3. \A k \in 2 .. m : \E j \in 1 .. n : q[k] = t[j]
          BY <5>2
        <5> DEFINE J == 1 .. n  I == 2 .. m
        <5>4. (\A j \in J : \E k \in I : t[j] = q[k]) /\ \A k \in I : \E j \in J : q[k] = t[j]
          BY <5>1, <5>3
        <5> HIDE DEF I, J
        <5>5. Entries(t, J) = Entries(q, I)
          BY <5>4, SameEntries
        <5> QED  BY <5>5 DEF I, J
      <4>4. Distinct(q, 2 .. m) => Distinct(t, 1 .. n)
        BY <2>1, <4>1, <4>2 DEF Distinct
      <4> QED  BY <4>3, <4>4 DEF Holds, t
    <3> QED  BY <3>1, <3>2, <3>3, HoldsThrough
  <2>9. ASSUME Ordered(r, 1 .. n, at)
        PROVE  Ordered(SiftUp(s, i, v, at), 1 .. n, at)
    <3>1. CASE v = NULL
      <4>1. SiftUp(s, i, v, at) = Put(r, 1, NULL)
        BY <2>5, <3>1 DEF Sinking
      <4> DEFINE t == Put(r, 1, NULL)
      <4>2. t[1] = NULL /\ \A j \in 1 .. n : j # 1 => t[j] = r[j]
        BY <1>3, <2>1, NullIsElem, PutIsArr
      <4>3. \A j \in 1 .. n : j > 1 => j \div 2 \in 1 .. n
        BY <2>1, Halves
      <4> HIDE DEF t
      <4>4. Ordered(t, 1 .. n, at)
        BY <2>9, <4>2, <4>3 DEF Ordered, Fits
      <4> QED  BY <4>1, <4>4 DEF t
    <3>2. CASE v # NULL
      <4>1. v \in Handles
        BY <1>1, <3>2 DEF Elems
      <4>2. \A j \in 1 .. n : j \div 2 # i
        BY <2>1, <2>5, <2>6, Halves
      <4> QED  BY <2>1, <2>5, <2>6, <2>9, <4>1, <4>2, SiftUpOrders DEF Sinking, Above
    <3> QED  BY <3>1, <3>2
  <2> QED  BY <2>2, <2>3, <2>7, <2>8, <2>9 DEF n
<1> QED  BY <1>4, <1>5

\* Pop returns an array ...
LEMMA PopType ==
    ASSUME NEW q \in Seq(Elems), NEW at
    PROVE  Pop(q, at) \in Seq(Elems)
<1> DEFINE n == Len(q) - 1  r == SubSeq(q, 1, n)
<1>1. CASE r = <<>>
  <2>1. Pop(q, at) = <<>>
    BY <1>1, PopUnfolds
  <2> QED  BY <2>1
<1>2. CASE r # <<>>
  <2>1. r \in Seq(Elems) /\ n \in Nat \ {0} /\ Len(r) = n /\ q[Len(q)] \in Elems
    BY <1>2
  <2>2. r \in Arr(n) /\ 1 \in 1 .. n
    <3> HIDE DEF r
    <3>1. r \in Arr(Len(r))
      BY <2>1, SeqIsArr
    <3> QED  BY <2>1, <3>1
  <2> DEFINE s == SunkFrom(r, 1, at)  i == HoleFrom(r, 1, at)
  <2>3. s \in Arr(n) /\ i \in 1 .. n
    <3> HIDE DEF r, n
    <3> QED  BY <2>1, <2>2, SinkUnfolds
  <2>4. Pop(q, at) = SiftUp(s, i, q[Len(q)], at)
    BY <1>2, PopUnfolds
  <2> HIDE DEF s, i, n
  <2>5. SiftUp(s, i, q[Len(q)], at) \in Arr(n)
    BY <2>1, <2>3, SiftUpUnfolds
  <2> QED  BY <2>1, <2>4, <2>5, ArrIsSeq
<1> QED  BY <1>1, <1>2

\* ... and so does Push.
LEMMA PushType ==
    ASSUME NEW q \in Seq(Elems), NEW v \in Elems, NEW at
    PROVE  Push(q, v, at) \in Seq(Elems)
<1> DEFINE a == Append(q, v)  n == Len(q) + 1
<1>1. a \in Seq(Elems) /\ Len(a) = n /\ n \in Nat /\ n \in 1 .. n
  OBVIOUS
<1> HIDE DEF a, n
<1>2. a \in Arr(n)
  BY <1>1, SeqIsArr
<1>3. SiftUp(a, n, v, at) \in Arr(n)
  BY <1>1, <1>2, SiftUpUnfolds
<1> QED  BY <1>1, <1>3, ArrIsSeq DEF Push, a, n

\* The queue that DumpTimersQueue leaves.
Dumped(q, at) ==
    LET left[n \in 0 .. Len(q)] == IF n = 0 THEN q ELSE Pop(left[n - 1], at)
        refilled[n \in 0 .. Len(q)] ==
            IF n = 0 THEN <<>> ELSE Push(refilled[n - 1], left[n - 1][1], at)
    IN refilled[Len(q)]

\* DumpTimersQueue leaves that queue.
LEMMA DumpUnfolds == DumpTimersQueue => queue' = Dumped(queue, expires)
BY Zenon DEF DumpTimersQueue, Dumped

\* Taking the cells of q off the heap, and pushing them again.
DumpRun(N, q, at, left, refilled) ==
    /\ left[0] = q /\ refilled[0] = <<>> /\ Dumped(q, at) = refilled[N]
    /\ \A n \in 1 .. N :
          /\ left[n - 1] \in Arr(N - n + 1) /\ left[n - 1][1] \in Elems
          /\ left[n] = Pop(left[n - 1], at)
          /\ refilled[n] = Push(refilled[n - 1], left[n - 1][1], at)

\* The two loops of DumpTimersQueue.
LEMMA DumpRecursions ==
    ASSUME NEW N \in Nat, NEW q \in Arr(N), NEW at \in [Handles -> Times]
    PROVE  \E left, refilled : DumpRun(N, q, at, left, refilled)
<1> DEFINE D == 0 .. N
           V == Seq(Elems)
           rank == [n \in D |-> n]
           LStep == [n \in D |-> [f \in [D -> V] |-> IF n = 0 THEN q ELSE Pop(f[n - 1], at)]]
           left == CHOOSE left : left = [n \in 0 .. Len(q) |->
                      IF n = 0 THEN q ELSE Pop(left[n - 1], at)]
           refilled == CHOOSE refilled : refilled = [n \in 0 .. Len(q) |->
                      IF n = 0 THEN <<>> ELSE Push(refilled[n - 1], left[n - 1][1], at)]
<1>1. q \in V /\ Len(q) = N
  BY ArrIsSeq
<1>2. /\ rank \in [D -> Nat] /\ (\A n \in D : rank[n] < N + 1) /\ N + 1 \in Nat
      /\ \A n \in D : n # 0 => n - 1 \in D /\ rank[n - 1] < rank[n]
  OBVIOUS
<1>3. Recursion(D, V, LStep, rank, N + 1)
  <2>1. LStep \in [D -> [[D -> V] -> V]]
    <3>1. ASSUME NEW n \in D, NEW f \in [D -> V], n # 0 PROVE Pop(f[n - 1], at) \in V
      <4>1. f[n - 1] \in V
        BY <1>2, <3>1
      <4> QED  BY <4>1, PopType
    <3> HIDE DEF V, D
    <3> QED  BY <1>1, <3>1
  <2>2. ASSUME NEW i \in D, NEW g \in [D -> V], NEW h \in [D -> V],
               \A j \in D : rank[j] < rank[i] => g[j] = h[j]
        PROVE  LStep[i][g] = LStep[i][h]
    <3>1. i # 0 => g[i - 1] = h[i - 1]
      <4> HIDE DEF D, rank
      <4> QED  BY <1>2, <2>2, Zenon
    <3> QED  BY <3>1
  <2> DEFINE b == N + 1
  <2> HIDE DEF D, V, LStep, rank, b
  <2>3. V # {} /\ b \in Nat /\ \A i \in D : rank[i] < b
    BY <1>1, <1>2 DEF b
  <2>4. Recursion(D, V, LStep, rank, b)
    BY <1>2, <2>1, <2>2, <2>3, Zenon DEF Recursion
  <2> QED  BY <2>4 DEF b
<1>4. PICK f \in [D -> V] : \A n \in D : f[n] = LStep[n][f]
  <2> HIDE DEF D, V, LStep, rank
  <2> QED  BY <1>3, RecursionDefines DEF Defines
<1>5. f = [n \in 0 .. Len(q) |-> IF n = 0 THEN q ELSE Pop(f[n - 1], at)]
  BY <1>1, <1>4
<1>6. left = [n \in 0 .. Len(q) |-> IF n = 0 THEN q ELSE Pop(left[n - 1], at)]
  BY <1>5, Zenon
<1> HIDE DEF left
<1>7. /\ left[0] = q
      /\ \A n \in 1 .. N : left[n] = Pop(left[n - 1], at)
  BY <1>1, <1>6
<1> DEFINE S == {n \in Nat : n <= N => left[n] \in Arr(N - n)}
<1>8. 0 \in S
  BY <1>7
<1>9. ASSUME NEW n \in Nat, n \in S PROVE n + 1 \in S
  <2> SUFFICES ASSUME n + 1 <= N
               PROVE  left[n + 1] \in Arr(N - (n + 1))
    OBVIOUS
  <2> DEFINE m == N - n
  <2>1. m \in Nat \ {0} /\ N - (n + 1) = m - 1 /\ n + 1 \in 1 .. N /\ (n + 1) - 1 = n
    OBVIOUS
  <2>2. left[n] \in Arr(m)
    BY <1>9
  <2>3. left[n + 1] = Pop(left[n], at)
    BY <1>7, <2>1
  <2> HIDE DEF m
  <2>4. Pop(left[n], at) \in Arr(m - 1)
    BY <2>1, <2>2, PopKeeps
  <2> QED  BY <2>1, <2>3, <2>4
<1>10. Nat \subseteq S
  <2> HIDE DEF S
  <2> QED  BY <1>8, <1>9, NaturalsByInduction
<1>11. \A n \in 0 .. N : left[n] \in Arr(N - n)
  BY <1>10
<1>12. ASSUME NEW n \in 1 .. N
       PROVE  left[n - 1] \in Arr(N - n + 1) /\ left[n - 1][1] \in Elems
  <2>1. n - 1 \in 0 .. N /\ N - (n - 1) = N - n + 1 /\ 1 \in 1 .. N - n + 1
    OBVIOUS
  <2>2. left[n - 1] \in Arr(N - n + 1)
    BY <1>11, <2>1
  <2> QED  BY <2>1, <2>2 DEF Arr
<1> DEFINE RStep == [n \in D |-> [g \in [D -> V] |->
                        IF n = 0 THEN <<>> ELSE Push(g[n - 1], left[n - 1][1], at)]]
<1>14. Recursion(D, V, RStep, rank, N + 1)
  <2>1. RStep \in [D -> [[D -> V] -> V]]
    <3>1. ASSUME NEW n \in D, NEW g \in [D -> V], n # 0
          PROVE  Push(g[n - 1], left[n - 1][1], at) \in V
      <4>1. g[n - 1] \in V /\ left[n - 1][1] \in Elems
        BY <1>2, <1>12, <3>1
      <4> QED  BY <4>1, PushType
    <3>2. <<>> \in V
      OBVIOUS
    <3> HIDE DEF V, D
    <3> QED  BY <3>1, <3>2
  <2>2. ASSUME NEW i \in D, NEW g \in [D -> V], NEW h \in [D -> V],
               \A j \in D : rank[j] < rank[i] => g[j] = h[j]
        PROVE  RStep[i][g] = RStep[i][h]
    <3>1. i # 0 => g[i - 1] = h[i - 1]
      <4> HIDE DEF D, rank
      <4> QED  BY <1>2, <2>2, Zenon
    <3> QED  BY <3>1
  <2> DEFINE b == N + 1
  <2> HIDE DEF D, V, RStep, rank, b
  <2>3. V # {} /\ b \in Nat /\ \A i \in D : rank[i] < b
    BY <1>1, <1>2 DEF b
  <2>4. Recursion(D, V, RStep, rank, b)
    BY <1>2, <2>1, <2>2, <2>3, Zenon DEF Recursion
  <2> QED  BY <2>4 DEF b
<1>15. PICK g \in [D -> V] : \A n \in D : g[n] = RStep[n][g]
  <2> HIDE DEF D, V, RStep, rank
  <2> QED  BY <1>14, RecursionDefines DEF Defines
<1>16. g = [n \in 0 .. Len(q) |-> IF n = 0 THEN <<>> ELSE Push(g[n - 1], left[n - 1][1], at)]
  BY <1>1, <1>15
<1>17. refilled = [n \in 0 .. Len(q) |->
                      IF n = 0 THEN <<>> ELSE Push(refilled[n - 1], left[n - 1][1], at)]
  BY <1>16, Zenon
<1>18. Dumped(q, at) = refilled[Len(q)]
  BY Zenon DEF Dumped, left
<1> HIDE DEF refilled
<1>19. /\ refilled[0] = <<>>
       /\ \A n \in 1 .. N : refilled[n] = Push(refilled[n - 1], left[n - 1][1], at)
  BY <1>1, <1>17
<1>20. DumpRun(N, q, at, left, refilled)
  BY <1>1, <1>7, <1>12, <1>18, <1>19 DEF DumpRun
<1> QED  BY <1>20

\* The first entry and the others.
LEMMA FirstAndRest ==
    ASSUME NEW m \in Nat \ {0}, NEW q \in Arr(m)
    PROVE  /\ Entries(q, 1 .. m) = {q[1]} \cup Entries(q, 2 .. m)
           /\ Distinct(q, 1 .. m) => /\ Distinct(q, 2 .. m)
                                     /\ q[1] # NULL => q[1] \notin Entries(q, 2 .. m)
<1>1. 1 .. m = {1} \cup 2 .. m /\ 1 \notin 2 .. m
  OBVIOUS
<1> DEFINE I == 2 .. m
<1> HIDE DEF I
<1>2. Entries(q, {1} \cup I) = {q[1]} \cup Entries(q, I)
  BY DEF Entries
<1>3. ASSUME 1 \notin I, Distinct(q, {1} \cup I)
      PROVE  Distinct(q, I) /\ (q[1] # NULL => q[1] \notin Entries(q, I))
  BY <1>3 DEF Distinct, Entries
<1> QED  BY <1>1, <1>2, <1>3 DEF I

\* The entries and one more.
LEMMA AndLast ==
    ASSUME NEW n \in Nat, NEW r \in Arr(n), NEW h \in Elems
    PROVE  /\ Entries(Append(r, h), 1 .. n + 1) = Entries(r, 1 .. n) \cup {h}
           /\ Distinct(r, 1 .. n) /\ (h # NULL => h \notin Entries(r, 1 .. n))
                 => Distinct(Append(r, h), 1 .. n + 1)
<1> DEFINE a == Append(r, h)  I == 1 .. n
<1>1. 1 .. n + 1 = I \cup {n + 1} /\ n + 1 \notin I
  OBVIOUS
<1>2. a[n + 1] = h /\ \A i \in I : a[i] = r[i]
  BY ArrIsSeq
<1> HIDE DEF I, a
<1>3. Entries(a, I \cup {n + 1}) = Entries(r, I) \cup {h}
  BY <1>2 DEF Entries
<1>4. Distinct(r, I) /\ (h # NULL => h \notin Entries(r, I)) => Distinct(a, I \cup {n + 1})
  BY <1>2 DEF Distinct, Entries
<1> QED  BY <1>1, <1>3, <1>4 DEF a, I

\* Nothing is lost or duplicated by DumpTimersQueue, and what it leaves is in
\* order even if it was not before.
LEMMA DumpKeeps ==
    ASSUME NEW N \in Nat, NEW q \in Arr(N), NEW at \in [Handles -> Times],
           Distinct(q, 1 .. N), NULL \notin Entries(q, 1 .. N)
    PROVE  /\ Dumped(q, at) \in Arr(N)
           /\ Holds(Dumped(q, at), 1 .. N, q, 1 .. N)
           /\ Ordered(Dumped(q, at), 1 .. N, at)
<1>1. PICK left, refilled : DumpRun(N, q, at, left, refilled)
  BY DumpRecursions
<1> DEFINE E == Entries(q, 1 .. N)
           L(n) == Entries(left[n], 1 .. N - n)
           R(n) == Entries(refilled[n], 1 .. n)
           Split(n) == /\ refilled[n] \in Arr(n) /\ Ordered(refilled[n], 1 .. n, at)
                       /\ L(n) \cup R(n) = E /\ L(n) \cap R(n) = {}
                       /\ Distinct(left[n], 1 .. N - n) /\ Distinct(refilled[n], 1 .. n)
           S == {n \in Nat : n <= N => Split(n)}
<1>2. 0 \in S
  <2>1. <<>> \in Arr(0)
    <3>1. <<>> \in Seq(Elems) /\ Len(<<>>) = 0
      OBVIOUS
    <3> QED  BY <3>1, SeqIsArr
  <2>2. 1 .. 0 = {} /\ N - 0 = N
    OBVIOUS
  <2>3. Ordered(<<>>, {}, at) /\ Entries(<<>>, {}) = {} /\ Distinct(<<>>, {})
    BY DEF Ordered, Entries, Distinct
  <2>4. L(0) = E /\ R(0) = {} /\ Distinct(left[0], 1 .. N - 0)
    BY <1>1, <2>2, <2>3 DEF DumpRun
  <2>5. Split(0)
    BY <1>1, <2>1, <2>2, <2>3, <2>4 DEF DumpRun
  <2> QED  BY <2>5
<1>3. ASSUME NEW n \in Nat, n \in S PROVE n + 1 \in S
  <2> SUFFICES ASSUME n + 1 <= N PROVE Split(n + 1)
    OBVIOUS
  <2> DEFINE m == N - n  l == left[n]  r == refilled[n]  h == l[1]
             I == 1 .. n + 1
  <2>1. /\ m \in Nat \ {0} /\ N - (n + 1) = m - 1 /\ n + 1 \in 1 .. N /\ (n + 1) - 1 = n
        /\ N - (n + 1) + 1 = m /\ n <= N /\ 1 \in 1 .. m
    OBVIOUS
  <2>2. /\ l \in Arr(m) /\ h \in Elems
        /\ left[n + 1] = Pop(l, at) /\ refilled[n + 1] = Push(r, h, at)
    BY <1>1, <2>1 DEF DumpRun
  <2>3. /\ r \in Arr(n) /\ Ordered(r, 1 .. n, at)
        /\ Entries(l, 1 .. m) \cup Entries(r, 1 .. n) = E
        /\ Entries(l, 1 .. m) \cap Entries(r, 1 .. n) = {}
        /\ Distinct(l, 1 .. m) /\ Distinct(r, 1 .. n)
    <3>1. Split(n)
      BY <1>3, <2>1
    <3> QED  BY <3>1
  <2>4. L(n + 1) = Entries(Pop(l, at), 1 .. m - 1) /\ R(n + 1) = Entries(Push(r, h, at), I)
    BY <2>1, <2>2
  <2> HIDE DEF m, l, r, h, L, R, E
  <2>5. h \in Entries(l, 1 .. m) /\ h \in Handles
    <3>1. h \in Entries(l, 1 .. m)
      BY <2>1 DEF Entries, h
    <3>2. h # NULL
      BY <2>3, <3>1 DEF E
    <3> QED  BY <2>2, <3>1, <3>2 DEF Elems
  <2>6. Holds(Pop(l, at), 1 .. m - 1, l, 2 .. m)
    BY <2>1, <2>2, PopKeeps
  <2>7. /\ Push(r, h, at) \in Arr(n + 1)
        /\ Holds(Push(r, h, at), I, Append(r, h), I)
        /\ Ordered(Push(r, h, at), I, at)
    BY <2>2, <2>3, <2>5, PushKeeps
  <2>8. /\ Entries(l, 1 .. m) = {h} \cup Entries(l, 2 .. m) /\ h \notin Entries(l, 2 .. m)
        /\ Distinct(l, 2 .. m)
    BY <2>1, <2>2, <2>3, <2>5, FirstAndRest, NullIsElem DEF h
  <2>9. /\ Entries(Append(r, h), I) = Entries(r, 1 .. n) \cup {h}
        /\ Distinct(Append(r, h), I)
    <3>1. h \notin Entries(r, 1 .. n)
      BY <2>3, <2>5
    <3> QED  BY <2>2, <2>3, <3>1, AndLast
  <2>10. L(n + 1) = Entries(l, 2 .. m) /\ Distinct(Pop(l, at), 1 .. m - 1)
    BY <2>4, <2>6, <2>8 DEF Holds
  <2>11. R(n + 1) = Entries(r, 1 .. n) \cup {h} /\ Distinct(Push(r, h, at), I)
    BY <2>4, <2>7, <2>9 DEF Holds
  <2>12. L(n + 1) \cup R(n + 1) = E /\ L(n + 1) \cap R(n + 1) = {}
    BY <2>3, <2>8, <2>10, <2>11
  <2> QED  BY <2>1, <2>2, <2>7, <2>10, <2>11, <2>12
<1>4. Split(N)
  <2>1. Nat \subseteq S
    <3> HIDE DEF S
    <3> QED  BY <1>2, <1>3, NaturalsByInduction
  <2> HIDE DEF Split
  <2>2. N \in S
    BY <2>1
  <2> QED  BY <2>2
<1>5. Entries(refilled[N], 1 .. N) = E
  <2>1. N - N = 0 /\ 1 .. 0 = {}
    OBVIOUS
  <2>2. L(N) = {}
    BY <2>1 DEF Entries
  <2>3. L(N) \cup R(N) = E
    BY <1>4
  <2> QED  BY <2>2, <2>3
<1> QED  BY <1>1, <1>4, <1>5 DEF Holds, DumpRun

(***************************************************************************)
(* The queue, the cells in hand, and the invariant of the table.           *)
(***************************************************************************)

\* The timers that have a cell in the array q
Timers(q) == Entries(q, DOMAIN q) \ {NULL}

\* The array q has one cell for each of its timers.
Cells(q) == q \in Seq(Elems) /\ Distinct(q, DOMAIN q)

\* The array q is a heap by the times at, with nothing cancelled.
Heap(q, at) == NULL \notin Entries(q, DOMAIN q) /\ Ordered(q, DOMAIN q, at)

\* The entries that are not cancelled are timers.
LEMMA TimersType ==
    ASSUME NEW q \in Seq(Elems)
    PROVE  Timers(q) \subseteq Handles /\ \A i \in DOMAIN q : q[i] # NULL => q[i] \in Timers(q)
<1>1. \A i \in DOMAIN q : q[i] \in Elems
  OBVIOUS
<1> QED  BY <1>1 DEF Timers, Entries, Elems

\* The first entry of an array that is not empty.
LEMMA FirstIsElem ==
    ASSUME NEW q \in Seq(Elems), q # <<>>
    PROVE  /\ 1 \in DOMAIN q /\ q[1] \in Elems /\ Len(q) \in Nat \ {0}
           /\ q[1] # NULL => q[1] \in Handles /\ q[1] \in Timers(q)
<1>1. 1 \in DOMAIN q /\ q[1] \in Elems /\ Len(q) \in Nat \ {0}
  OBVIOUS
<1> QED  BY <1>1 DEF Timers, Entries, Elems

\* Only the times of the timers queued matter.
LEMMA HeapRetime ==
    ASSUME NEW q \in Seq(Elems), NEW at, NEW to, Heap(q, at),
           \A h \in Timers(q) : to[h] = at[h]
    PROVE  Heap(q, to)
<1>1. \A i \in DOMAIN q : q[i] # NULL => to[q[i]] = at[q[i]]
  BY TimersType
<1>2. \A j \in DOMAIN q : j > 1 => j \div 2 \in DOMAIN q
  <2>1. DOMAIN q = 1 .. Len(q) /\ Len(q) \in Nat
    OBVIOUS
  <2> QED  BY <2>1, Halves
<1>3. Ordered(q, DOMAIN q, to)
  BY <1>1, <1>2 DEF Heap, Ordered, Fits
<1> QED  BY <1>3 DEF Heap

\* A cell is cancelled where it is.
LEMMA CellsCancel ==
    ASSUME NEW q, NEW h \in Handles, Cells(q)
    PROVE  /\ Cells(Cancelled(h, q)) /\ Timers(Cancelled(h, q)) = Timers(q) \ {h}
           /\ Len(Cancelled(h, q)) = Len(q)
           /\ q # <<>> => /\ Cancelled(h, q) # <<>>
                          /\ Cancelled(h, q)[1] = q[1] \/ Cancelled(h, q)[1] = NULL
<1> DEFINE c == Cancelled(h, q)
           n == Len(q)
<1>1. n \in Nat /\ q \in Arr(n) /\ DOMAIN q = 1 .. n
  BY SeqIsArr DEF Cells
<1>2. c \in Arr(n) /\ DOMAIN c = 1 .. n
  BY <1>1, NullIsElem DEF Arr, Cancelled
<1>3. /\ \A i \in 1 .. n : q[i] = h => c[i] = NULL
      /\ \A i \in 1 .. n : q[i] # h => c[i] = q[i]
  BY <1>1 DEF Cancelled
<1> HIDE DEF c, n
<1>4. c \in Seq(Elems) /\ Len(c) = n
  BY <1>1, <1>2, ArrIsSeq
<1>5. Timers(c) = Timers(q) \ {h}
  BY <1>1, <1>2, <1>3, NullIsElem DEF Timers, Entries
<1>6. Distinct(c, 1 .. n)
  BY <1>1, <1>3 DEF Cells, Distinct
<1>7. q # <<>> => c # <<>> /\ (c[1] = q[1] \/ c[1] = NULL)
  <2> SUFFICES ASSUME q # <<>> PROVE c # <<>> /\ (c[1] = q[1] \/ c[1] = NULL)
    OBVIOUS
  <2>1. 1 \in 1 .. n
    BY <1>1, FirstIsElem DEF Cells
  <2>2. c # <<>>
    BY <1>1, <1>4, <2>1
  <2> QED  BY <1>3, <2>1, <2>2
<1> QED  BY <1>2, <1>4, <1>5, <1>6, <1>7 DEF Cells, c, n

\* A cell whose timer has no other is pushed.
LEMMA CellsPush ==
    ASSUME NEW q, NEW at \in [Handles -> Times], NEW v \in Elems, Cells(q), v \notin Timers(q)
    PROVE  /\ Cells(Push(q, v, at)) /\ Timers(Push(q, v, at)) = Timers(q) \cup ({v} \ {NULL})
           /\ Len(Push(q, v, at)) = Len(q) + 1
           /\ v # NULL /\ Heap(q, at) => Heap(Push(q, v, at), at)
<1> DEFINE n == Len(q)  t == Push(q, v, at)  a == Append(q, v)  I == 1 .. n + 1
<1>1. n \in Nat /\ q \in Arr(n) /\ DOMAIN q = 1 .. n
  BY SeqIsArr DEF Cells
<1>2. /\ t \in Arr(n + 1) /\ Holds(t, I, a, I)
      /\ v # NULL /\ Ordered(q, 1 .. n, at) => Ordered(t, I, at)
  <2>1. v # NULL => v \in Handles
    BY DEF Elems
  <2> HIDE DEF n
  <2> QED  BY <1>1, <2>1, PushKeeps
<1>3. Entries(a, I) = Entries(q, 1 .. n) \cup {v}
  <2> HIDE DEF n
  <2> QED  BY <1>1, AndLast
<1>4. Timers(q) = Entries(q, 1 .. n) \ {NULL} /\ Distinct(q, 1 .. n)
  BY <1>1 DEF Cells, Timers
<1>5. Distinct(a, I)
  <2> HIDE DEF n
  <2>1. v # NULL => v \notin Entries(q, 1 .. n)
    BY <1>4
  <2> QED  BY <1>1, <1>4, <2>1, AndLast
<1>6. t \in Seq(Elems) /\ Len(t) = n + 1 /\ DOMAIN t = I
  <2> HIDE DEF t
  <2>1. n + 1 \in Nat
    BY <1>1
  <2> QED  BY <1>2, <2>1, ArrIsSeq
<1> HIDE DEF t, a, n, I
<1>7. Entries(t, I) = Entries(q, 1 .. n) \cup {v} /\ Distinct(t, I)
  BY <1>2, <1>3, <1>5 DEF Holds
<1>8. Cells(t) /\ Timers(t) = Timers(q) \cup ({v} \ {NULL})
  BY <1>4, <1>6, <1>7 DEF Cells, Timers
<1>9. v # NULL /\ Heap(q, at) => Heap(t, at)
  BY <1>1, <1>2, <1>6, <1>7 DEF Heap
<1> QED  BY <1>6, <1>8, <1>9 DEF t, n

\* The first entry is popped.
LEMMA CellsPop ==
    ASSUME NEW q, NEW at \in [Handles -> Times], Cells(q), q # <<>>
    PROVE  /\ Cells(Pop(q, at)) /\ Timers(Pop(q, at)) = Timers(q) \ {q[1]}
           /\ Len(Pop(q, at)) = Len(q) - 1
           /\ Heap(q, at) => Heap(Pop(q, at), at)
<1> DEFINE m == Len(q)  t == Pop(q, at)  I == 1 .. m - 1
<1>1. m \in Nat \ {0} /\ q \in Arr(m) /\ DOMAIN q = 1 .. m /\ 1 \in 1 .. m
  BY SeqIsArr DEF Cells
<1>2. /\ t \in Arr(m - 1) /\ Holds(t, I, q, 2 .. m)
      /\ Ordered(q, 1 .. m, at) => Ordered(t, I, at)
  <2> HIDE DEF m
  <2> QED  BY <1>1, PopKeeps
<1>3. Timers(q) = Entries(q, 1 .. m) \ {NULL} /\ Distinct(q, 1 .. m)
  BY <1>1 DEF Cells, Timers
<1>4. /\ Entries(q, 1 .. m) = {q[1]} \cup Entries(q, 2 .. m)
      /\ Distinct(q, 2 .. m) /\ (q[1] # NULL => q[1] \notin Entries(q, 2 .. m))
  <2> HIDE DEF m
  <2> QED  BY <1>1, <1>3, FirstAndRest
<1>5. t \in Seq(Elems) /\ Len(t) = m - 1 /\ DOMAIN t = I
  <2> HIDE DEF t
  <2>1. m - 1 \in Nat
    BY <1>1
  <2> QED  BY <1>2, <2>1, ArrIsSeq
<1> HIDE DEF t, m, I
<1>6. Entries(t, I) = Entries(q, 2 .. m) /\ Distinct(t, I)
  BY <1>2, <1>4 DEF Holds
<1>7. Cells(t) /\ Timers(t) = Timers(q) \ {q[1]}
  BY <1>3, <1>4, <1>5, <1>6 DEF Cells, Timers
<1>8. Heap(q, at) => Heap(t, at)
  BY <1>1, <1>2, <1>4, <1>5, <1>6 DEF Heap
<1> QED  BY <1>5, <1>7, <1>8 DEF t, m

\* DumpTimersQueue leaves a heap of the same timers.
LEMMA CellsDump ==
    ASSUME NEW q, NEW at \in [Handles -> Times], Cells(q), NULL \notin Entries(q, DOMAIN q)
    PROVE  /\ Cells(Dumped(q, at)) /\ Timers(Dumped(q, at)) = Timers(q)
           /\ Len(Dumped(q, at)) = Len(q) /\ Heap(Dumped(q, at), at)
<1> DEFINE n == Len(q)  t == Dumped(q, at)  I == 1 .. n
<1>1. n \in Nat /\ q \in Arr(n) /\ DOMAIN q = I
  BY SeqIsArr DEF Cells
<1>2. t \in Arr(n) /\ Holds(t, I, q, I) /\ Ordered(t, I, at)
  <2>1. Distinct(q, I) /\ NULL \notin Entries(q, I)
    BY <1>1 DEF Cells
  <2> HIDE DEF n
  <2> QED  BY <1>1, <2>1, DumpKeeps
<1> HIDE DEF t, n
<1>3. t \in Seq(Elems) /\ Len(t) = n /\ DOMAIN t = I
  BY <1>1, <1>2, ArrIsSeq
<1> HIDE DEF I
<1>4. Cells(t) /\ Timers(t) = Timers(q) /\ Heap(t, at)
  BY <1>1, <1>2, <1>3 DEF Cells, Heap, Timers, Holds
<1> QED  BY <1>3, <1>4 DEF t, n

\* The first timer of a heap is one that expires first.
LEMMA HeapFirst ==
    ASSUME NEW q \in Seq(Elems), NEW at \in [Handles -> Times], Heap(q, at)
    PROVE  \A h \in Timers(q) : Ns(at[q[1]]) <= Ns(at[h])
<1> DEFINE n == Len(q)
<1>1. n \in Nat /\ q \in Arr(n) /\ DOMAIN q = 1 .. n
  BY SeqIsArr
<1>2. \A i \in 1 .. n : q[i] # NULL /\ Ns(at[q[i]]) \in Nat
  <2>1. \A i \in 1 .. n : q[i] # NULL
    BY <1>1 DEF Heap, Entries
  <2>2. \A i \in 1 .. n : q[i] \in Handles
    BY <1>1, <2>1, TimersType
  <2> QED  BY <2>1, <2>2, NsIsNat
<1> HIDE DEF n
<1> DEFINE S == {i \in Nat : i \in 1 .. n => Ns(at[q[1]]) <= Ns(at[q[i]])}
<1>3. ASSUME NEW i \in Nat, \A m \in Nat : m < i => m \in S, i \in 1 .. n
      PROVE  Ns(at[q[1]]) <= Ns(at[q[i]])
  <2>1. CASE i = 1
    BY <1>2, <1>3, <2>1
  <2>2. CASE i > 1
    <3> DEFINE p == i \div 2
    <3>1. p \in Nat /\ p < i /\ p \in 1 .. n /\ 1 \in 1 .. n
      BY <1>1, <1>3, <2>2, Halves
    <3>2. Fits(q[p], q[i], at)
      BY <1>1, <1>3, <2>2 DEF Heap, Ordered
    <3> HIDE DEF p
    <3>3. Ns(at[q[1]]) <= Ns(at[q[p]])
      BY <1>3, <3>1
    <3> QED  BY <1>2, <1>3, <3>1, <3>2, <3>3 DEF Fits
  <2> QED  BY <1>3, <2>1, <2>2
<1>4. Nat \subseteq S
  <2>1. \A i \in Nat : (\A m \in Nat : m < i => m \in S) => i \in S
    BY <1>3
  <2> HIDE DEF S
  <2> QED  BY <2>1, NaturalsByStrongInduction
<1>5. ASSUME NEW h \in Timers(q) PROVE Ns(at[q[1]]) <= Ns(at[h])
  <2>1. PICK i \in 1 .. n : h = q[i]
    BY <1>1 DEF Timers, Entries
  <2> QED  BY <1>4, <2>1
<1> QED  BY <1>5

\* The end of a timed wait is a time.
LEMMA TimeoutIsTime ==
    ASSUME NEW from \in Times, NEW us \in Nat
    PROVE  Timeout(from, us) \in Times
<1> DEFINE usec == from.nsec \div K + us  r == usec % MILLION
<1>1. K \in Nat \ {0} /\ MILLION \in Nat \ {0} /\ BILLION = MILLION * K
  BY UnitsAreNat
<1>2. from.sec \in Nat /\ from.nsec \in Nat
  BY UnitsAreNat DEF Times
<1>3. usec \in Nat
  BY <1>1, <1>2, Truncates
<1>4. Timeout(from, us) = [sec |-> from.sec + usec \div MILLION, nsec |-> r * K]
  BY DEF Timeout
<1> HIDE DEF usec
<1>5. usec \div MILLION \in Nat /\ r \in 0 .. MILLION - 1
  BY <1>1, <1>3, Division
<1> HIDE DEF r
<1>6. r * K \in 0 .. BILLION - 1
  <2>1. MILLION - 1 - r \in Nat /\ r \in Nat
    BY <1>1, <1>5
  <2>2. (MILLION - 1 - r) * K >= 0 /\ r * K >= 0
    BY <1>1, <2>1
  <2>3. (MILLION - 1 - r) * K = MILLION * K - K - r * K
    BY <1>1, <2>1
  <2> DEFINE rk == r * K
  <2>4. rk \in Nat
    BY <1>1, <2>1
  <2> HIDE DEF rk
  <2>5. BILLION - K - rk >= 0 /\ rk >= 0
    BY <1>1, <2>2, <2>3 DEF rk
  <2> QED  BY <1>1, <2>4, <2>5, UnitsAreNat DEF rk
<1> QED  BY <1>2, <1>4, <1>5, <1>6 DEF Times

\* A sleep is a number of microseconds.
LEMMA SleepTimeIsNat == ASSUME NEW d \in Times PROVE SleepTime(d) \in Nat
<1>1. d.nsec \in Nat /\ d.sec \in Nat
  BY UnitsAreNat DEF Times
<1>2. d.nsec \div K \in Nat /\ d.sec * MILLION \in Nat
  BY <1>1, UnitsAreNat, Truncates
<1> QED  BY <1>2, TimeAssumption, ModIsSmaller DEF SleepTime

(* The cells that threads are about to push. *)

\* The timers whose cell is in a hand
Kept(f) == {f[t] : t \in Threads} \ {NULL, NONE}

\* No two hands hold the cell of the same timer.
Hands(f) ==
    /\ f \in [Threads -> Handles \cup {NULL, NONE}]
    /\ \A t, u \in Threads : f[t] = f[u] /\ f[t] \in Handles => t = u

\* A hand holds a timer's cell, a cancelled one, or none.
LEMMA HandHolds == NONE \notin Elems /\ NULL # NONE /\ NULL \notin Handles /\ NONE \notin Handles
BY TableAssumption DEF Elems

\* A cell is cancelled in the hand that has it.
LEMMA HandCancel ==
    ASSUME NEW f, NEW h \in Handles, Hands(f)
    PROVE  /\ Hands(Cancelled(h, f)) /\ Kept(Cancelled(h, f)) = Kept(f) \ {h}
           /\ \A t \in Threads : Cancelled(h, f)[t] = IF f[t] = h THEN NULL ELSE f[t]
<1> DEFINE c == Cancelled(h, f)
<1>1. \A t \in Threads : c[t] = IF f[t] = h THEN NULL ELSE f[t]
  BY DEF Hands, Cancelled
<1>2. c \in [Threads -> Handles \cup {NULL, NONE}]
  BY DEF Hands, Cancelled
<1> HIDE DEF c
<1>3. Hands(c)
  BY <1>1, <1>2, HandHolds DEF Hands
<1>4. Kept(c) = Kept(f) \ {h}
  BY <1>1, HandHolds DEF Kept
<1> QED  BY <1>1, <1>3, <1>4 DEF c

\* A thread takes a cell.
LEMMA HandTake ==
    ASSUME NEW f, NEW t \in Threads, NEW x \in Elems, Hands(f), f[t] = NONE, x \notin Kept(f)
    PROVE  LET g == [f EXCEPT ![t] = x]
           IN Hands(g) /\ Kept(g) = Kept(f) \cup ({x} \ {NULL})
<1> DEFINE g == [f EXCEPT ![t] = x]
<1>1. g[t] = x /\ \A u \in Threads \ {t} : g[u] = f[u]
  BY DEF Hands
<1>2. g \in [Threads -> Handles \cup {NULL, NONE}]
  BY DEF Hands, Elems
<1> HIDE DEF g
<1>3. \A u \in Threads \ {t} : f[u] \in Handles => f[u] # x
  BY HandHolds DEF Kept
<1>4. Hands(g)
  BY <1>1, <1>2, <1>3 DEF Hands
<1>5. Kept(g) = Kept(f) \cup ({x} \ {NULL})
  BY <1>1, HandHolds DEF Kept
<1> QED  BY <1>4, <1>5 DEF g

\* A thread gives its cell away.
LEMMA HandGive ==
    ASSUME NEW f, NEW t \in Threads, Hands(f), f[t] # NONE
    PROVE  LET g == [f EXCEPT ![t] = NONE]
           IN /\ Hands(g) /\ Kept(g) = Kept(f) \ {f[t]}
              /\ f[t] \in Elems /\ (f[t] # NULL => f[t] \in Kept(f))
<1> DEFINE g == [f EXCEPT ![t] = NONE]
<1>1. g[t] = NONE /\ \A u \in Threads \ {t} : g[u] = f[u]
  BY DEF Hands
<1>2. g \in [Threads -> Handles \cup {NULL, NONE}]
  BY DEF Hands
<1> HIDE DEF g
<1>3. f[t] \in Elems /\ (f[t] # NULL => f[t] \in Kept(f))
  BY DEF Hands, Elems, Kept
<1>4. \A u \in Threads \ {t} : f[u] = f[t] => f[u] = NULL
  BY <1>3, HandHolds DEF Hands, Elems
<1>5. Hands(g)
  BY <1>1, <1>2, HandHolds DEF Hands
<1>6. Kept(g) = Kept(f) \ {f[t]}
  BY <1>1, <1>4, HandHolds DEF Kept
<1> QED  BY <1>3, <1>5, <1>6 DEF g

(* The invariant. *)

\* Each active timer has one cell, in the queue or in a hand.
CellsInv ==
    /\ Cells(queue) /\ Len(queue) <= MaxQueue /\ Hands(hand)
    /\ Timers(queue) \cap Kept(hand) = {} /\ Timers(queue) \cup Kept(hand) = valid \cap active

\* The queue is a heap unless something was cancelled since it was last empty.
OrderInv == ~cancels => Heap(queue, expires) /\ \A t \in Threads : hand[t] # NULL

\* What the service thread has found is still so wherever it goes on from it.
ServiceInv ==
    /\ active \subseteq Handles /\ autoReset \subseteq Handles
    /\ opening \subseteq valid /\ signals \subseteq Callers
    /\ read \in Times /\ wake \in Times /\ sleepTime \in Nat /\ due \in Nat /\ slept \in Nat
    /\ svc \in {"awake", "parking", "parked", "woken", "top", "look", "carrying", "calling",
                "falling", "asleep"}
    /\ timer \in Handles \cup {NULL}
    /\ svc \in {"top", "look", "carrying", "calling", "falling"} => timer \in Handles
    /\ svc # "carrying" => hand[Svc] = NONE
    /\ svc = "carrying" => hand[Svc] \in {timer, NULL} /\ Len(queue) < MaxQueue
    /\ svc \in {"top", "look", "falling"} => queue # <<>> /\ queue[1] \in {timer, NULL}
    /\ svc = "look" => Ns(read) <= Ns(now)
    /\ svc \in {"carrying", "calling"} => due <= Ns(now)
    /\ svc = "falling" /\ timer \in Timers(queue) =>
         /\ Ns(expires[timer]) > Ns(read)
         /\ sleepTime = SleepTime(diff_timespec(expires[timer], read))
    /\ svc = "asleep" /\ timer \in Timers(queue) /\ signals = {} =>
         Ns(wake) - slept <= Ns(expires[timer]) - Ns(read)

\* The inductive invariant of the table.
TableInv == ListInv /\ ArmedInv /\ CellsInv /\ OrderInv /\ ServiceInv

\* The invariant speaks of what the properties speak of.
LEMMA QueuedAndHeld == Queued = Timers(queue) /\ Held = Kept(hand)
BY DEF Queued, Held, Timers, Entries, Kept

\* The types that the steps need.
LEMMA StateTypes ==
    ASSUME TableInv
    PROVE  /\ queue \in Seq(Elems) /\ Len(queue) \in Nat /\ valid \subseteq Handles
           /\ expires \in [Handles -> Times] /\ now \in Times
           /\ \A h \in Handles : expires[h] \in Times /\ Ns(expires[h]) \in Nat
           /\ Ns(now) \in Nat /\ Ns(read) \in Nat
           /\ Timers(queue) \subseteq valid \cap active /\ Kept(hand) \subseteq valid \cap active
           /\ Svc \in Threads /\ Callers \subseteq Threads /\ Svc \notin Callers
<1>1. queue \in Seq(Elems) /\ valid \subseteq Handles /\ expires \in [Handles -> Times]
      /\ now \in Times /\ read \in Times
  BY DEF TableInv, CellsInv, Cells, ListInv, ArmedInv, ServiceInv
<1>2. Timers(queue) \subseteq valid \cap active /\ Kept(hand) \subseteq valid \cap active
  BY DEF TableInv, CellsInv
<1> QED  BY <1>1, <1>2, NsIsNat, TableAssumption DEF Threads

\* What a step of a caller or of the clock leaves the service thread: nothing
\* moves in the queue that it holds, nothing that it waits for is set anew.
Undisturbed ==
    /\ UNCHANGED <<service, due, slept>> /\ now' \in Times /\ Ns(now) <= Ns(now')
    /\ active' \subseteq Handles /\ autoReset' \subseteq Handles
    /\ opening' \subseteq valid' /\ signals' \subseteq Callers
    /\ hand'[Svc] = hand[Svc] \/ (hand[Svc] \in Handles /\ hand'[Svc] = NULL)
    /\ Inside => /\ Len(queue') = Len(queue)
                 /\ queue # <<>> => queue' # <<>> /\ queue'[1] \in {queue[1], NULL}
    /\ Inside \/ signals' = {} =>
          \A g \in Timers(queue') : g \in Timers(queue) /\ expires'[g] = expires[g]
    /\ signals' = {} => signals = {}

\* Such a step keeps what the service thread has found.
LEMMA ServiceUndisturbed == ASSUME TableInv, Undisturbed PROVE ServiceInv'
<1>1. /\ svc' = svc /\ timer' = timer /\ read' = read /\ sleepTime' = sleepTime /\ wake' = wake
      /\ due' = due /\ slept' = slept
  BY DEF Undisturbed, service
<1>2. Ns(now) \in Nat /\ Ns(read) \in Nat /\ Ns(now') \in Nat /\ Ns(now) <= Ns(now')
  BY StateTypes, NsIsNat DEF Undisturbed
<1>3. /\ svc # "carrying" => hand'[Svc] = NONE
      /\ svc = "carrying" => hand'[Svc] \in {timer, NULL} /\ Len(queue') < MaxQueue
  BY HandHolds DEF Undisturbed, TableInv, ServiceInv, Inside
<1>4. svc \in {"top", "look", "falling"} => queue' # <<>> /\ queue'[1] \in {timer, NULL}
  BY DEF Undisturbed, TableInv, ServiceInv, Inside
<1>5. svc = "look" => Ns(read) <= Ns(now')
  BY <1>2 DEF TableInv, ServiceInv
<1>6. svc \in {"carrying", "calling"} => due <= Ns(now')
  <2>1. due \in Nat
    BY DEF TableInv, ServiceInv
  <2> QED  BY <1>2, <2>1 DEF TableInv, ServiceInv
<1>7. svc = "falling" /\ timer \in Timers(queue') =>
         /\ Ns(expires'[timer]) > Ns(read)
         /\ sleepTime = SleepTime(diff_timespec(expires'[timer], read))
  BY DEF Undisturbed, TableInv, ServiceInv, Inside
<1>8. svc = "asleep" /\ timer \in Timers(queue') /\ signals' = {} =>
         Ns(wake) - slept <= Ns(expires'[timer]) - Ns(read)
  BY DEF Undisturbed, TableInv, ServiceInv
<1>9. /\ active' \subseteq Handles /\ autoReset' \subseteq Handles
      /\ opening' \subseteq valid' /\ signals' \subseteq Callers
  BY DEF Undisturbed
<1> QED
  BY <1>1, <1>3, <1>4, <1>5, <1>6, <1>7, <1>8, <1>9 DEF TableInv, ServiceInv

\* CreateTimer keeps the invariant: its handle was not in use, and has no cell.
LEMMA CreateKeeps ==
    ASSUME TableInv, ArmedInv', NEW c \in Callers, NEW ms, NEW activate, NEW auto,
           CreateTimer(c, ms, activate, auto)
    PROVE  CellsInv' /\ OrderInv' /\ ServiceInv'
<1>1. PICK h \in Handles :
         /\ GetNewHandle(h)
         /\ autoReset' = IF auto THEN autoReset \cup {h} ELSE autoReset \ {h}
         /\ expires' = [expires EXCEPT ![h] = add_timespec(now, Interval(ms))]
         /\ IF activate
            THEN /\ hand[c] = NONE /\ hand' = [hand EXCEPT ![c] = h]
                 /\ active' = active \cup {h} /\ opening' = opening \cup {h}
            ELSE active' = active \ {h} /\ UNCHANGED <<hand, opening>>
         /\ UNCHANGED <<queue, signals, now, service, due, slept, cancels>>
  BY DEF CreateTimer, Set, Free
<1>2. h \notin valid /\ valid' = valid \cup {h}
  BY <1>1, GetKeepsList DEF GetNewHandle, TableInv
<1>3. h \notin Timers(queue) /\ h \notin Kept(hand) /\ c \in Threads /\ c # Svc /\ h \in Elems
  BY <1>2, StateTypes, NullIsElem
<1>4. \A g \in Timers(queue) : expires'[g] = expires[g]
  BY <1>1, <1>3, StateTypes DEF TableInv, ArmedInv
<1>5. /\ Hands(hand') /\ hand'[Svc] = hand[Svc]
      /\ activate => Kept(hand') = Kept(hand) \cup {h}
      /\ ~activate => Kept(hand') = Kept(hand)
      /\ \A t \in Threads : hand'[t] = NULL => hand[t] = NULL
  <2>1. Hands(hand)
    BY DEF TableInv, CellsInv
  <2>2. CASE activate
    <3>1. /\ Hands(hand') /\ Kept(hand') = Kept(hand) \cup ({h} \ {NULL})
      BY <1>1, <1>3, <2>1, <2>2, HandTake
    <3>2. \A t \in Threads : hand'[t] = IF t = c THEN h ELSE hand[t]
      BY <1>1, <2>1, <2>2 DEF Hands
    <3> QED  BY <1>3, <2>2, <3>1, <3>2, NullIsElem, StateTypes
  <2>3. CASE ~activate
    BY <1>1, <2>1, <2>3
  <2> QED  BY <2>2, <2>3
<1>6. CellsInv'
  <2>1. valid' \cap active' = IF activate THEN (valid \cap active) \cup {h} ELSE valid \cap active
    BY <1>1, <1>2
  <2>2. Timers(queue') = Timers(queue)
    BY <1>1
  <2> QED  BY <1>1, <1>3, <1>5, <2>1, <2>2 DEF TableInv, CellsInv
<1>7. OrderInv'
  <2> SUFFICES ASSUME ~cancels PROVE Heap(queue, expires') /\ \A t \in Threads : hand'[t] # NULL
    BY <1>1 DEF OrderInv
  <2>1. Heap(queue, expires) /\ \A t \in Threads : hand[t] # NULL
    BY DEF TableInv, OrderInv
  <2>2. Heap(queue, expires')
    BY <1>4, <2>1, StateTypes, HeapRetime
  <2> QED  BY <1>5, <2>1, <2>2
<1>8. Undisturbed
  <2>1. autoReset' \subseteq Handles /\ active' \subseteq Handles /\ opening' \subseteq valid'
        /\ signals' \subseteq Callers
    BY <1>1, <1>2 DEF TableInv, ServiceInv
  <2>2. Ns(now) <= Ns(now') /\ now' \in Times
    BY <1>1, StateTypes
  <2> QED  BY <1>1, <1>4, <1>5, <2>1, <2>2 DEF Undisturbed
<1> QED  BY <1>6, <1>7, <1>8, ServiceUndisturbed

\* What cancelling the cell of a timer does.
LEMMA CancelDoes ==
    ASSUME TableInv, NEW h \in Handles
    PROVE  /\ Cells(Cancelled(h, queue)) /\ Timers(Cancelled(h, queue)) = Timers(queue) \ {h}
           /\ Len(Cancelled(h, queue)) = Len(queue)
           /\ queue # <<>> => /\ Cancelled(h, queue) # <<>>
                              /\ Cancelled(h, queue)[1] \in {queue[1], NULL}
           /\ Hands(Cancelled(h, hand)) /\ Kept(Cancelled(h, hand)) = Kept(hand) \ {h}
           /\ \A t \in Threads :
                 Cancelled(h, hand)[t] = IF hand[t] = h THEN NULL ELSE hand[t]
<1>1. Cells(queue) /\ Hands(hand)
  BY DEF TableInv, CellsInv
<1>2. /\ Cells(Cancelled(h, queue)) /\ Timers(Cancelled(h, queue)) = Timers(queue) \ {h}
      /\ Len(Cancelled(h, queue)) = Len(queue)
      /\ queue # <<>> => /\ Cancelled(h, queue) # <<>>
                         /\ Cancelled(h, queue)[1] \in {queue[1], NULL}
  BY <1>1, CellsCancel
<1>3. /\ Hands(Cancelled(h, hand)) /\ Kept(Cancelled(h, hand)) = Kept(hand) \ {h}
      /\ \A t \in Threads : Cancelled(h, hand)[t] = IF hand[t] = h THEN NULL ELSE hand[t]
  BY <1>1, HandCancel
<1> QED  BY <1>2, <1>3

\* A queue in which nothing was cancelled stays a heap, if the timers in it
\* keep their times.
LEMMA CancelOrders ==
    ASSUME TableInv, NEW h \in Handles, Cancel(h), ~cancels',
           \A g \in Timers(queue) \ {h} : expires'[g] = expires[g]
    PROVE  /\ Heap(queue', expires')
           /\ \A t \in Threads : Cancelled(h, hand)[t] # NULL
<1>1. ~cancels /\ Cancelled(h, queue) = queue /\ Cancelled(h, hand) = hand /\ queue' = queue
  BY DEF Cancel
<1>2. Timers(queue) \ {h} = Timers(queue)
  BY <1>1, CancelDoes
<1>3. Heap(queue, expires) /\ \A t \in Threads : hand[t] # NULL
  BY <1>1 DEF TableInv, OrderInv
<1>4. Heap(queue, expires')
  BY <1>2, <1>3, StateTypes, HeapRetime
<1> QED  BY <1>1, <1>3, <1>4

\* StopTimer keeps the invariant.
LEMMA StopKeeps ==
    ASSUME TableInv, NEW h \in Handles, StopTimer(h)
    PROVE  CellsInv' /\ OrderInv' /\ ServiceInv'
<1>1. /\ active' = active \ {h} /\ queue' = Cancelled(h, queue) /\ hand' = Cancelled(h, hand)
      /\ Cancel(h)
      /\ UNCHANGED <<valid, autoReset, expires, opening, signals, now, service, due, slept>>
  BY DEF StopTimer, Cancel, listVars
<1>2. valid' \cap active' = (valid \cap active) \ {h}
  BY <1>1
<1>3. CellsInv'
  BY <1>1, <1>2, CancelDoes DEF TableInv, CellsInv
<1>4. OrderInv'
  BY <1>1, CancelOrders DEF OrderInv
<1>5. Undisturbed
  <2>1. autoReset' \subseteq Handles /\ active' \subseteq Handles /\ opening' \subseteq valid'
        /\ signals' \subseteq Callers
    BY <1>1 DEF TableInv, ServiceInv
  <2>2. Ns(now) <= Ns(now') /\ now' \in Times
    BY <1>1, StateTypes
  <2>3. hand'[Svc] = hand[Svc] \/ (hand[Svc] \in Handles /\ hand'[Svc] = NULL)
    BY <1>1, CancelDoes, StateTypes
  <2> QED  BY <1>1, <2>1, <2>2, <2>3, CancelDoes DEF Undisturbed
<1> QED  BY <1>3, <1>4, <1>5, ServiceUndisturbed

\* DeleteTimer does.
LEMMA DeleteKeeps ==
    ASSUME TableInv, NEW h \in Handles, DeleteTimer(h)
    PROVE  CellsInv' /\ OrderInv' /\ ServiceInv'
<1>1. /\ queue' = Cancelled(h, queue) /\ hand' = Cancelled(h, hand) /\ Cancel(h)
      /\ valid' = valid \ {h} /\ h \notin opening
      /\ active' \in {active, active \ {h}} /\ autoReset' \subseteq autoReset
      /\ expires' \in {expires, [expires EXCEPT ![h] = Zero]}
      /\ UNCHANGED <<opening, signals, now, service, due, slept>>
  BY DEF DeleteTimer, Cancel, FreeHandle, Given, slots
<1>2. valid' \cap active' = (valid \cap active) \ {h}
  BY <1>1
<1>3. \A g \in Timers(queue) \ {h} : expires'[g] = expires[g]
  BY <1>1, StateTypes
<1>4. CellsInv'
  BY <1>1, <1>2, CancelDoes DEF TableInv, CellsInv
<1>5. OrderInv'
  BY <1>1, <1>3, CancelOrders DEF OrderInv
<1>6. Undisturbed
  <2>1. autoReset' \subseteq Handles /\ active' \subseteq Handles /\ opening' \subseteq valid'
        /\ signals' \subseteq Callers
    BY <1>1 DEF TableInv, ServiceInv
  <2>2. Ns(now) <= Ns(now') /\ now' \in Times
    BY <1>1, StateTypes
  <2>3. hand'[Svc] = hand[Svc] \/ (hand[Svc] \in Handles /\ hand'[Svc] = NULL)
    BY <1>1, CancelDoes, StateTypes
  <2> QED  BY <1>1, <1>3, <2>1, <2>2, <2>3, CancelDoes DEF Undisturbed
<1> QED  BY <1>4, <1>5, <1>6, ServiceUndisturbed

\* RestartTimer does: the old cell is cancelled and the new one in hand.
LEMMA RestartKeeps ==
    ASSUME TableInv, NEW c \in Callers, NEW h \in Handles, RestartTimer(c, h)
    PROVE  CellsInv' /\ OrderInv' /\ ServiceInv'
<1> DEFINE f == Cancelled(h, hand)
<1>1. /\ h \in valid /\ hand[c] = NONE /\ active' = active \cup {h}
      /\ queue' = Cancelled(h, queue) /\ hand' = [f EXCEPT ![c] = h] /\ Cancel(h)
      /\ expires' = [expires EXCEPT ![h] = add_timespec(now, interval[h])]
      /\ UNCHANGED <<valid, autoReset, opening, signals, now, service, due, slept>>
  BY DEF RestartTimer, Given, Free, Cancel, Set, listVars
<1>2. /\ Hands(f) /\ Kept(f) = Kept(hand) \ {h} /\ f[c] = NONE /\ c \in Threads /\ c # Svc
      /\ f[Svc] = IF hand[Svc] = h THEN NULL ELSE hand[Svc]
  BY <1>1, CancelDoes, StateTypes, HandHolds
<1>3. /\ Hands(hand') /\ Kept(hand') = (Kept(hand) \ {h}) \cup {h}
      /\ \A t \in Threads : hand'[t] = IF t = c THEN h ELSE f[t]
  <2> HIDE DEF f
  <2>1. /\ Hands([f EXCEPT ![c] = h])
        /\ Kept([f EXCEPT ![c] = h]) = (Kept(hand) \ {h}) \cup ({h} \ {NULL})
    <3>1. h \in Elems /\ h \notin Kept(f)
      BY <1>2, NullIsElem
    <3>2. LET g == [f EXCEPT ![c] = h]
          IN Hands(g) /\ Kept(g) = Kept(f) \cup ({h} \ {NULL})
      BY <1>2, <3>1, HandTake
    <3> QED  BY <1>2, <3>2
  <2>2. \A t \in Threads : hand'[t] = IF t = c THEN h ELSE f[t]
    BY <1>1, <1>2 DEF Hands
  <2> QED  BY <1>1, <2>1, <2>2, HandHolds
<1>4. valid' \cap active' = ((valid \cap active) \ {h}) \cup {h}
  BY <1>1
<1>5. \A g \in Timers(queue) \ {h} : expires'[g] = expires[g]
  BY <1>1, StateTypes
<1>6. CellsInv'
  <2>1. /\ Cells(queue') /\ Timers(queue') = Timers(queue) \ {h} /\ Len(queue') = Len(queue)
    BY <1>1, CancelDoes
  <2> QED  BY <1>3, <1>4, <2>1 DEF TableInv, CellsInv
<1>7. OrderInv'
  <2> SUFFICES ASSUME ~cancels'
               PROVE  Heap(queue', expires') /\ \A t \in Threads : hand'[t] # NULL
    BY DEF OrderInv
  <2>1. Heap(queue', expires') /\ \A t \in Threads : f[t] # NULL
    BY <1>1, <1>5, CancelOrders
  <2> QED  BY <1>3, <2>1, HandHolds
<1>8. Undisturbed
  <2>1. autoReset' \subseteq Handles /\ active' \subseteq Handles /\ opening' \subseteq valid'
        /\ signals' \subseteq Callers
    BY <1>1 DEF TableInv, ServiceInv
  <2>2. Ns(now) <= Ns(now') /\ now' \in Times
    BY <1>1, StateTypes
  <2>3. hand'[Svc] = hand[Svc] \/ (hand[Svc] \in Handles /\ hand'[Svc] = NULL)
    BY <1>2, <1>3, StateTypes
  <2> QED  BY <1>1, <1>5, <2>1, <2>2, <2>3, CancelDoes DEF Undisturbed
<1> QED  BY <1>6, <1>7, <1>8, ServiceUndisturbed

\* A caller queues its cell.
LEMMA PushCellKeeps ==
    ASSUME TableInv, NEW c \in Callers, PushCell(c)
    PROVE  CellsInv' /\ OrderInv' /\ ServiceInv'
<1> DEFINE v == hand[c]
<1>1. /\ v # NONE /\ ~Inside /\ Len(queue) < MaxQueue
      /\ queue' = Push(queue, v, expires) /\ hand' = [hand EXCEPT ![c] = NONE]
      /\ opening' = opening \ {v} /\ signals' = signals \cup {c}
      /\ UNCHANGED <<valid, active, autoReset, expires, now, service, due, slept, cancels>>
  BY DEF PushCell, listVars, slots, history
<1>2. c \in Threads /\ c # Svc /\ Hands(hand) /\ Cells(queue)
  BY StateTypes DEF TableInv, CellsInv
<1> HIDE DEF v
<1>3. /\ Hands(hand') /\ Kept(hand') = Kept(hand) \ {v}
      /\ v \in Elems /\ (v # NULL => v \in Kept(hand))
  BY <1>1, <1>2, HandGive DEF v
<1>4. \A t \in Threads : hand'[t] = IF t = c THEN NONE ELSE hand[t]
  BY <1>1, <1>2 DEF Hands
<1>5. v \notin Timers(queue)
  BY <1>3 DEF TableInv, CellsInv, Timers
<1>6. /\ Cells(queue') /\ Timers(queue') = Timers(queue) \cup ({v} \ {NULL})
      /\ Len(queue') = Len(queue) + 1
      /\ v # NULL /\ Heap(queue, expires) => Heap(queue', expires)
  BY <1>1, <1>2, <1>3, <1>5, StateTypes, CellsPush
<1>7. CellsInv'
  <2>1. Len(queue') <= MaxQueue
    BY <1>1, <1>6, StateTypes, TableAssumption
  <2>2. valid' \cap active' = valid \cap active
    BY <1>1
  <2>3. NULL \notin Kept(hand)
    BY DEF Kept
  <2> QED  BY <1>3, <1>6, <2>1, <2>2, <2>3 DEF TableInv, CellsInv
<1>8. OrderInv'
  <2> SUFFICES ASSUME ~cancels PROVE Heap(queue', expires) /\ \A t \in Threads : hand'[t] # NULL
    BY <1>1 DEF OrderInv
  <2>1. Heap(queue, expires) /\ \A t \in Threads : hand[t] # NULL
    BY DEF TableInv, OrderInv
  <2> QED  BY <1>2, <1>4, <1>6, <2>1, HandHolds DEF v
<1>9. Undisturbed
  <2>1. autoReset' \subseteq Handles /\ active' \subseteq Handles /\ opening' \subseteq valid'
        /\ signals' \subseteq Callers /\ signals' # {}
    BY <1>1 DEF TableInv, ServiceInv
  <2>2. Ns(now) <= Ns(now') /\ now' \in Times
    BY <1>1, StateTypes
  <2>3. hand'[Svc] = hand[Svc]
    BY <1>2, <1>4, StateTypes
  <2> QED  BY <1>1, <2>1, <2>2, <2>3 DEF Undisturbed
<1> QED  BY <1>7, <1>8, <1>9, ServiceUndisturbed

\* A step that leaves the cells and the times alone.
LEMMA CellsUnchanged ==
    ASSUME TableInv, UNCHANGED <<valid, active, expires, queue, hand>>
    PROVE  CellsInv' /\ (UNCHANGED cancels => OrderInv')
<1>1. CellsInv'
  BY DEF TableInv, CellsInv
<1>2. UNCHANGED cancels => OrderInv'
  BY DEF TableInv, OrderInv
<1> QED  BY <1>1, <1>2

\* It signals: the service thread is not asleep any more.
LEMMA SignalKeeps ==
    ASSUME TableInv, NEW c \in Callers, Signal(c)
    PROVE  CellsInv' /\ OrderInv' /\ ServiceInv'
<1>1. /\ signals' = signals \ {c}
      /\ svc' = (CASE svc = "asleep" -> "awake" [] svc = "parked" -> "woken" [] OTHER -> svc)
      /\ UNCHANGED <<valid, active, autoReset, expires, queue, hand, opening, now, timer, read,
                     sleepTime, wake, due, slept, cancels>>
  BY DEF Signal, listVars, slots, history
<1>2. CASE svc \in {"asleep", "parked"}
  <2>1. svc' \in {"awake", "woken"}
    BY <1>1, <1>2
  <2>2. svc # "carrying"
    BY <1>2
  <2> QED  BY <1>1, <2>1, <2>2, CellsUnchanged DEF TableInv, ServiceInv
<1>3. CASE svc \notin {"asleep", "parked"}
  <2>1. svc' = svc
    BY <1>1, <1>3
  <2> QED  BY <1>1, <1>3, <2>1, CellsUnchanged DEF TableInv, ServiceInv
<1> QED  BY <1>2, <1>3

\* DumpTimersQueue takes the cells off the queue and puts them back.
LEMMA DumpKeepsTable ==
    ASSUME TableInv, DumpTimersQueue
    PROVE  CellsInv' /\ OrderInv' /\ ServiceInv'
<1>1. /\ queue' = Dumped(queue, expires) /\ ~Inside /\ NULL \notin Entries(queue, DOMAIN queue)
      /\ UNCHANGED <<valid, active, autoReset, expires, hand, opening, signals, now, service,
                     due, slept, cancels>>
  BY DumpUnfolds DEF DumpTimersQueue, Entries, listVars, slots, history
<1>2. /\ Cells(queue') /\ Timers(queue') = Timers(queue) /\ Len(queue') = Len(queue)
      /\ Heap(queue', expires)
  <2>1. Cells(queue)
    BY DEF TableInv, CellsInv
  <2> QED  BY <1>1, <2>1, StateTypes, CellsDump
<1>3. CellsInv'
  BY <1>1, <1>2 DEF TableInv, CellsInv
<1>4. OrderInv'
  BY <1>1, <1>2 DEF TableInv, OrderInv
<1>5. Undisturbed
  <2>1. autoReset' \subseteq Handles /\ active' \subseteq Handles /\ opening' \subseteq valid'
        /\ signals' \subseteq Callers
    BY <1>1 DEF TableInv, ServiceInv
  <2>2. Ns(now) <= Ns(now') /\ now' \in Times
    BY <1>1, StateTypes
  <2> QED  BY <1>1, <1>2, <2>1, <2>2 DEF Undisturbed
<1> QED  BY <1>3, <1>4, <1>5, ServiceUndisturbed

\* The clock advances.
LEMMA TickKeeps ==
    ASSUME TableInv, ArmedInv', NEW d \in Delays, Tick(d)
    PROVE  CellsInv' /\ OrderInv' /\ ServiceInv'
<1>1. /\ now' = Time(Ns(now) + d)
      /\ UNCHANGED <<valid, active, autoReset, expires, queue, hand, opening, signals, service,
                     due, slept, cancels>>
  BY DEF Tick, listVars, slots, cells, history
<1>2. Ns(now) <= Ns(now')
  <2>1. Ns(now) + d \in Nat /\ Ns(now) <= Ns(now) + d
    BY StateTypes, TableAssumption
  <2>2. Ns(Time(Ns(now) + d)) = Ns(now) + d
    BY <2>1, TimeIsNs
  <2> QED  BY <1>1, <2>1, <2>2
<1>3. Undisturbed
  <2>1. autoReset' \subseteq Handles /\ active' \subseteq Handles /\ opening' \subseteq valid'
        /\ signals' \subseteq Callers
    BY <1>1 DEF TableInv, ServiceInv
  <2>2. now' \in Times
    BY DEF ArmedInv
  <2>3. Inside /\ queue # <<>> => queue' # <<>> /\ queue'[1] \in {queue[1], NULL}
    BY <1>1
  <2> QED  BY <1>1, <1>2, <2>1, <2>2, <2>3 DEF Undisturbed
<1> QED  BY <1>1, <1>3, CellsUnchanged, ServiceUndisturbed

\* The queue is seen empty, and the wait begins.
LEMMA SeeEmptyKeeps ==
    ASSUME TableInv, SeeEmpty \/ Park
    PROVE  CellsInv' /\ OrderInv' /\ ServiceInv'
<1>1. /\ UNCHANGED <<valid, active, autoReset, expires, queue, hand, opening, signals, now,
                     timer, read, sleepTime, wake, due, slept>>
      /\ svc \in {"awake", "parking"} /\ svc' \in {"parking", "parked"}
  BY DEF SeeEmpty, Park, listVars, slots, cells, history
<1>2. ServiceInv'
  BY <1>1 DEF TableInv, ServiceInv
<1>3. OrderInv'
  <2>1. CASE SeeEmpty
    <3>1. queue = <<>> /\ cancels' = (\E t \in Threads : hand[t] = NULL)
      BY <2>1 DEF SeeEmpty
    <3>2. Heap(queue', expires')
      BY <1>1, <3>1 DEF Heap, Entries, Ordered
    <3> QED  BY <1>1, <3>1, <3>2 DEF OrderInv
  <2>2. CASE Park
    BY <1>1, <2>2, CellsUnchanged DEF Park, history
  <2> QED  BY <2>1, <2>2
<1> QED  BY <1>1, <1>2, <1>3, CellsUnchanged

\* The first cell is looked at, then the clock.
LEMMA TakeTopKeeps ==
    ASSUME TableInv, TakeTop \/ ReadClock
    PROVE  CellsInv' /\ OrderInv' /\ ServiceInv'
<1>1. UNCHANGED <<valid, active, autoReset, expires, queue, hand, opening, signals, now, due,
                  cancels>>
  BY DEF TakeTop, ReadClock, listVars, slots, cells, history
<1>2. CASE TakeTop
  <2>1. /\ svc # "carrying" /\ queue # <<>> /\ queue[1] # NULL /\ svc' = "top"
        /\ timer' = queue[1] /\ read' = Zero /\ wake' = Zero /\ slept' = 0
        /\ sleepTime' = sleepTime
    BY <1>2 DEF TakeTop, Runs, TimedOut
  <2>2. timer' \in Handles
    BY <2>1, StateTypes, FirstIsElem
  <2>3. ServiceInv'
    BY <1>1, <2>1, <2>2, ZeroIsTime DEF TableInv, ServiceInv
  <2> QED  BY <1>1, <2>3, CellsUnchanged
<1>3. CASE ReadClock
  <2>1. /\ svc = "top" /\ svc' = "look" /\ read' = now
        /\ UNCHANGED <<timer, sleepTime, wake, slept>>
    BY <1>3 DEF ReadClock, history
  <2>2. now \in Times /\ Ns(now) <= Ns(now)
    BY StateTypes
  <2>3. ServiceInv'
    BY <1>1, <2>1, <2>2 DEF TableInv, ServiceInv
  <2> QED  BY <1>1, <2>3, CellsUnchanged
<1> QED  BY <1>2, <1>3

\* A cancelled cell is dropped.
LEMMA DropKeeps ==
    ASSUME TableInv, DropCancelled
    PROVE  CellsInv' /\ OrderInv' /\ ServiceInv'
<1>1. /\ svc # "carrying" /\ queue # <<>> /\ queue[1] = NULL /\ queue' = Pop(queue, expires)
      /\ svc' = "awake" /\ timer' = NULL
      /\ UNCHANGED <<valid, active, autoReset, expires, hand, opening, signals, now, read,
                     sleepTime, wake, due, slept, cancels>>
  BY DEF DropCancelled, Runs, TimedOut, listVars, slots, history
<1>2. /\ Cells(queue') /\ Timers(queue') = Timers(queue) \ {NULL} /\ Len(queue') = Len(queue) - 1
  <2>1. Cells(queue)
    BY DEF TableInv, CellsInv
  <2> QED  BY <1>1, <2>1, StateTypes, CellsPop
<1>3. Timers(queue') = Timers(queue) /\ Len(queue') <= MaxQueue
  BY <1>2, StateTypes, TableAssumption DEF Timers, TableInv, CellsInv
<1>4. CellsInv'
  BY <1>1, <1>2, <1>3 DEF TableInv, CellsInv
<1>5. cancels
  <2>1. NULL \in Entries(queue, DOMAIN queue)
    BY <1>1, StateTypes, FirstIsElem DEF Entries
  <2> QED  BY <2>1 DEF TableInv, OrderInv, Heap
<1>6. OrderInv'
  BY <1>1, <1>5 DEF OrderInv
<1>7. ServiceInv'
  BY <1>1 DEF TableInv, ServiceInv
<1> QED  BY <1>4, <1>6, <1>7

\* A timer found expired is popped: it was due by the time read.
LEMMA ExpireKeeps ==
    ASSUME TableInv, Expire
    PROVE  CellsInv' /\ OrderInv' /\ ServiceInv'
<1> DEFINE v == queue[1]
<1>1. /\ svc = "look" /\ comp_timespec(expires[timer], read) # 1
      /\ queue' = Pop(queue, expires) /\ hand' = [hand EXCEPT ![Svc] = v]
      /\ due' = since[timer] + Ns(interval[timer])
      /\ svc' = "carrying" /\ read' = Zero
      /\ UNCHANGED <<valid, active, autoReset, expires, opening, signals, now, timer, sleepTime,
                     wake, slept, cancels>>
  BY DEF Expire, Expired, listVars, slots
<1>2. /\ timer \in Handles /\ hand[Svc] = NONE /\ queue # <<>> /\ v \in {timer, NULL}
      /\ Ns(read) <= Ns(now) /\ read \in Times
  BY <1>1 DEF TableInv, ServiceInv
<1> HIDE DEF v
<1>3. Cells(queue) /\ Hands(hand) /\ Svc \in Threads /\ v \in Elems
  BY <1>2, StateTypes, NullIsElem DEF TableInv, CellsInv
<1>4. v # NULL => v \in Timers(queue)
  BY <1>2, StateTypes, FirstIsElem DEF v
<1>5. v \notin Kept(hand)
  BY <1>4 DEF TableInv, CellsInv, Kept
<1>6. /\ Hands(hand') /\ Kept(hand') = Kept(hand) \cup ({v} \ {NULL})
      /\ \A t \in Threads : hand'[t] = IF t = Svc THEN v ELSE hand[t]
  <2>1. Hands(hand') /\ Kept(hand') = Kept(hand) \cup ({v} \ {NULL})
    BY <1>1, <1>2, <1>3, <1>5, HandTake
  <2>2. \A t \in Threads : hand'[t] = IF t = Svc THEN v ELSE hand[t]
    BY <1>1, <1>3 DEF Hands
  <2> QED  BY <2>1, <2>2
<1>7. /\ Cells(queue') /\ Timers(queue') = Timers(queue) \ {v} /\ Len(queue') = Len(queue) - 1
      /\ Heap(queue, expires) => Heap(queue', expires)
  BY <1>1, <1>2, <1>3, StateTypes, CellsPop DEF v
<1>8. Len(queue) <= MaxQueue /\ Len(queue) \in Nat
  BY StateTypes DEF TableInv, CellsInv
<1>9. CellsInv'
  <2>1. Len(queue') <= MaxQueue
    BY <1>7, <1>8, TableAssumption
  <2>2. valid' \cap active' = valid \cap active
    BY <1>1
  <2>3. NULL \notin Timers(queue)
    BY DEF Timers
  <2> QED  BY <1>4, <1>6, <1>7, <2>1, <2>2, <2>3 DEF TableInv, CellsInv
<1>10. OrderInv'
  <2> SUFFICES ASSUME ~cancels PROVE Heap(queue', expires) /\ \A t \in Threads : hand'[t] # NULL
    BY <1>1 DEF OrderInv
  <2>1. Heap(queue, expires) /\ \A t \in Threads : hand[t] # NULL
    BY DEF TableInv, OrderInv
  <2>2. v # NULL
    <3>1. v \in Entries(queue, DOMAIN queue)
      BY <1>2, StateTypes, FirstIsElem DEF Entries, v
    <3> QED  BY <2>1, <3>1 DEF Heap
  <2> QED  BY <1>6, <1>7, <2>1, <2>2
<1>11. due' \in Nat /\ due' <= Ns(now)
  <2>1. due' = Ns(expires[timer]) /\ expires[timer] \in Times
    BY <1>1, <1>2 DEF TableInv, ArmedInv
  <2>2. Ns(expires[timer]) <= Ns(read)
    BY <1>1, <1>2, <2>1, CompIsOrder, NsIsNat
  <2> QED  BY <1>2, <2>1, <2>2, StateTypes
<1>12. ServiceInv'
  <2>1. hand'[Svc] \in {timer, NULL} /\ Len(queue') < MaxQueue
    BY <1>2, <1>3, <1>6, <1>7, <1>8, TableAssumption
  <2> QED  BY <1>1, <1>2, <1>11, <2>1, ZeroIsTime DEF TableInv, ServiceInv
<1> QED  BY <1>9, <1>10, <1>12

\* It is queued again, or suspended.
LEMMA SettleKeeps ==
    ASSUME TableInv, ArmedInv', Settle
    PROVE  CellsInv' /\ OrderInv' /\ ServiceInv'
<1> DEFINE v == hand[Svc]
<1>1. /\ svc = "carrying" /\ ~Overtaken /\ hand' = [hand EXCEPT ![Svc] = NONE]
      /\ svc' = "calling"
      /\ UNCHANGED <<valid, autoReset, opening, signals, now, timer, read, sleepTime, wake, due,
                     slept, cancels>>
  BY DEF Settle, listVars
<1>2. /\ timer \in Handles /\ v \in {timer, NULL} /\ Len(queue) < MaxQueue /\ due <= Ns(now)
  BY <1>1 DEF TableInv, ServiceInv
<1>3. Cells(queue) /\ Hands(hand) /\ Svc \in Threads /\ v # NONE
  BY <1>2, StateTypes, HandHolds DEF TableInv, CellsInv
<1>4. /\ Hands(hand') /\ Kept(hand') = Kept(hand) \ {v}
      /\ v \in Elems /\ (v # NULL => v \in Kept(hand))
      /\ \A t \in Threads : hand'[t] = IF t = Svc THEN NONE ELSE hand[t]
  <2> HIDE DEF v
  <2>1. /\ Hands(hand') /\ Kept(hand') = Kept(hand) \ {v}
        /\ v \in Elems /\ (v # NULL => v \in Kept(hand))
    BY <1>1, <1>3, HandGive DEF v
  <2>2. \A t \in Threads : hand'[t] = IF t = Svc THEN NONE ELSE hand[t]
    BY <1>1, <1>3 DEF Hands
  <2> QED  BY <2>1, <2>2
<1>5. v \notin Timers(queue) /\ NULL \notin Kept(hand)
  <2> HIDE DEF v
  <2> QED  BY <1>4 DEF TableInv, CellsInv, Timers, Kept
<1>6. ~cancels => /\ Heap(queue, expires) /\ v = timer /\ v # NULL
                  /\ \A t \in Threads : hand'[t] # NULL
  <2>1. ~cancels => Heap(queue, expires) /\ \A t \in Threads : hand[t] # NULL
    BY DEF TableInv, OrderInv
  <2> QED  BY <1>2, <1>3, <1>4, <2>1, HandHolds
<1>7. CASE timer \in autoReset
  <2>1. /\ queue' = Push(queue, v, expires') /\ active' = active
        /\ expires' = [expires EXCEPT ![timer] = add_timespec(now, interval[timer])]
    BY <1>7 DEF Settle, Set
  <2> HIDE DEF v
  <2>2. expires' \in [Handles -> Times]
    BY DEF ArmedInv
  <2>3. /\ Cells(queue') /\ Timers(queue') = Timers(queue) \cup ({v} \ {NULL})
        /\ Len(queue') = Len(queue) + 1
        /\ v # NULL /\ Heap(queue, expires') => Heap(queue', expires')
    BY <1>3, <1>4, <1>5, <2>1, <2>2, CellsPush
  <2>4. CellsInv'
    <3>1. Len(queue') <= MaxQueue
      BY <1>2, <2>3, StateTypes, TableAssumption
    <3>2. valid' \cap active' = valid \cap active
      BY <1>1, <2>1
    <3> QED  BY <1>4, <1>5, <2>3, <3>1, <3>2 DEF TableInv, CellsInv
  <2>5. OrderInv'
    <3> SUFFICES ASSUME ~cancels
                 PROVE  Heap(queue', expires') /\ \A t \in Threads : hand'[t] # NULL
      BY <1>1 DEF OrderInv
    <3>1. \A g \in Timers(queue) : expires'[g] = expires[g]
      BY <1>5, <1>6, <2>1, StateTypes
    <3>2. Heap(queue, expires')
      BY <1>6, <3>1, StateTypes, HeapRetime
    <3> QED  BY <1>6, <2>3, <3>2
  <2>6. ServiceInv'
    BY <1>1, <1>2, <1>3, <1>4, <2>1 DEF TableInv, ServiceInv
  <2> QED  BY <2>4, <2>5, <2>6
<1>8. CASE timer \notin autoReset
  <2>1. active' = active \ {timer} /\ UNCHANGED <<expires, queue>>
    BY <1>8 DEF Settle
  <2>2. timer \in active => v = timer
    BY <1>1, <1>8 DEF Overtaken
  <2> HIDE DEF v
  <2>3. CellsInv'
    <3>1. valid' \cap active' = (valid \cap active) \ {v}
      BY <1>1, <1>2, <2>1, <2>2, HandHolds, StateTypes
    <3> QED  BY <1>4, <1>5, <2>1, <3>1 DEF TableInv, CellsInv
  <2>4. OrderInv'
    BY <1>1, <1>6, <2>1 DEF OrderInv
  <2>5. ServiceInv'
    BY <1>1, <1>2, <1>3, <1>4, <2>1 DEF TableInv, ServiceInv
  <2> QED  BY <2>3, <2>4, <2>5
<1> QED  BY <1>7, <1>8

\* The callback begins.
LEMMA CallBackKeeps ==
    ASSUME TableInv, CallBack
    PROVE  CellsInv' /\ OrderInv' /\ ServiceInv'
<1>1. /\ svc = "calling" /\ svc' = "awake" /\ timer' = NULL /\ due' = 0
      /\ UNCHANGED <<valid, active, autoReset, expires, queue, hand, opening, signals, now, read,
                     sleepTime, wake, slept, cancels>>
  BY DEF CallBack, listVars, slots, cells
<1>2. ServiceInv'
  BY <1>1 DEF TableInv, ServiceInv
<1> QED  BY <1>1, <1>2, CellsUnchanged

\* The sleep is computed from what the timer has left ...
LEMMA ComputeSleepKeeps ==
    ASSUME TableInv, ComputeSleep
    PROVE  CellsInv' /\ OrderInv' /\ ServiceInv'
<1> DEFINE d == diff_timespec(expires[timer], read)
<1>1. /\ svc = "look" /\ comp_timespec(expires[timer], read) = 1
      /\ svc' = "falling" /\ sleepTime' = SleepTime(d)
      /\ UNCHANGED <<valid, active, autoReset, expires, queue, hand, opening, signals, now, timer,
                     read, wake, due, slept, cancels>>
  BY DEF ComputeSleep, Expired, listVars, slots, cells, history
<1>2. timer \in Handles /\ read \in Times
  BY <1>1 DEF TableInv, ServiceInv
<1>3. expires[timer] \in Times /\ Ns(expires[timer]) > Ns(read)
  BY <1>1, <1>2, StateTypes, CompIsOrder
<1>4. sleepTime' \in Nat
  <2>1. Ns(expires[timer]) >= Ns(read)
    BY <1>2, <1>3, NsIsNat
  <2>2. d \in Times
    BY <1>2, <1>3, <2>1, DiffIsDifference
  <2> HIDE DEF d
  <2> QED  BY <1>1, <2>2, SleepTimeIsNat
<1>5. ServiceInv'
  BY <1>1, <1>2, <1>3, <1>4 DEF TableInv, ServiceInv
<1> QED  BY <1>1, <1>5, CellsUnchanged

\* ... and begins at another reading of the clock.
LEMMA SleepKeeps ==
    ASSUME TableInv, Sleep
    PROVE  CellsInv' /\ OrderInv' /\ ServiceInv'
<1>1. /\ svc = "falling" /\ svc' = "asleep" /\ wake' = Timeout(now, sleepTime)
      /\ slept' = Ns(now) /\ sleepTime' = 0
      /\ UNCHANGED <<valid, active, autoReset, expires, queue, hand, opening, signals, now, timer,
                     read, due, cancels>>
  BY DEF Sleep, listVars, slots, cells
<1>2. timer \in Handles /\ read \in Times /\ sleepTime \in Nat
  BY <1>1 DEF TableInv, ServiceInv
<1>3. wake' \in Times /\ slept' \in Nat
  BY <1>1, <1>2, StateTypes, TimeoutIsTime
<1>4. timer \in Timers(queue) => Ns(wake') - slept' <= Ns(expires[timer]) - Ns(read)
  <2> SUFFICES ASSUME timer \in Timers(queue)
               PROVE  Ns(wake') - slept' <= Ns(expires[timer]) - Ns(read)
    OBVIOUS
  <2>1. /\ Ns(expires[timer]) > Ns(read)
        /\ sleepTime = SleepTime(diff_timespec(expires[timer], read))
    BY <1>1 DEF TableInv, ServiceInv
  <2>2. expires[timer] \in Times /\ Ns(expires[timer]) >= Ns(read) /\ now \in Times
    BY <1>2, <2>1, StateTypes
  <2>3. Ns(Timeout(now, SleepTime(diff_timespec(expires[timer], read)))) - Ns(now)
           <= Ns(expires[timer]) - Ns(read)
    BY <1>2, <2>2, SleepIsNotLate
  <2> QED  BY <1>1, <2>1, <2>3
<1>5. ServiceInv'
  BY <1>1, <1>2, <1>3, <1>4 DEF TableInv, ServiceInv
<1> QED  BY <1>1, <1>5, CellsUnchanged

\* The invariant holds at first ...
LEMMA TableInit == InitTable => TableInv
<1> SUFFICES ASSUME InitTable PROVE TableInv
  OBVIOUS
<1>1. ListInv
  BY ListInit DEF InitTable
<1>2. ArmedInv
  BY ZeroIsTime, TimeIsTime, TableAssumption DEF InitTable, ArmedInv
<1>3. queue = <<>> /\ valid \cap active = {} /\ Svc \in Threads
  BY DEF InitTable, InitList, Threads
<1>4. \A t \in Threads : hand[t] = NONE
  BY DEF InitTable
<1>5. CellsInv /\ OrderInv
  <2>1. queue \in Seq(Elems) /\ DOMAIN queue = {} /\ Len(queue) = 0
    BY <1>3
  <2>2. Cells(queue) /\ Heap(queue, expires) /\ Timers(queue) = {}
    BY <2>1 DEF Cells, Heap, Timers, Entries, Distinct, Ordered
  <2>3. Hands(hand) /\ Kept(hand) = {}
    BY <1>4, HandHolds DEF InitTable, Hands, Kept
  <2> QED  BY <1>3, <1>4, <2>1, <2>2, <2>3, HandHolds, TableAssumption DEF CellsInv, OrderInv
<1>6. ServiceInv
  BY <1>3, <1>4, ZeroIsTime DEF InitTable, ServiceInv
<1> QED  BY <1>1, <1>2, <1>5, <1>6 DEF TableInv

\* ... and every step keeps it.
LEMMA TableStep == TableInv /\ [TableNext]_tableVars => TableInv'
<1> SUFFICES ASSUME TableInv, [TableNext]_tableVars PROVE TableInv'
  OBVIOUS
<1>1. ListInv'
  <2>1. [ListNext]_listVars
    BY TableStepsList DEF tableVars, listVars
  <2> QED  BY <2>1, ListStep DEF TableInv
<1>2. ArmedInv'
  BY ArmedStep DEF TableInv
<1> DEFINE Rest == CellsInv /\ OrderInv /\ ServiceInv
<1>3. ASSUME ApiNext PROVE Rest'
  <2>1. ASSUME NEW c \in Callers, NEW set \in Settings, NEW activate \in BOOLEAN,
               CreateTimer(c, set[1], activate, set[2])
        PROVE  Rest'
    BY <1>2, <2>1, CreateKeeps
  <2>2. ASSUME NEW h \in Handles, StopTimer(h) PROVE Rest'
    BY <2>2, StopKeeps
  <2>3. ASSUME NEW h \in Handles, DeleteTimer(h) PROVE Rest'
    BY <2>3, DeleteKeeps
  <2>4. ASSUME NEW h \in Handles, NEW c \in Callers, RestartTimer(c, h) PROVE Rest'
    BY <2>4, RestartKeeps
  <2>5. ASSUME NEW c \in Callers, PushCell(c) PROVE Rest'
    BY <2>5, PushCellKeeps
  <2>6. ASSUME NEW c \in Callers, Signal(c) PROVE Rest'
    BY <2>6, SignalKeeps
  <2>7. CASE DumpTimersQueue  BY <2>7, DumpKeepsTable
  <2> HIDE DEF Rest
  <2> QED  BY <1>3, <2>1, <2>2, <2>3, <2>4, <2>5, <2>6, <2>7 DEF ApiNext
<1>4. ASSUME ServiceNext PROVE Rest'
  <2>1. CASE SeeEmpty \/ Park  BY <2>1, SeeEmptyKeeps
  <2>2. CASE TakeTop \/ ReadClock  BY <2>2, TakeTopKeeps
  <2>3. CASE DropCancelled  BY <2>3, DropKeeps
  <2>4. CASE Expire  BY <2>4, ExpireKeeps
  <2>5. CASE Settle  BY <1>2, <2>5, SettleKeeps
  <2>6. CASE CallBack  BY <2>6, CallBackKeeps
  <2>7. CASE ComputeSleep  BY <2>7, ComputeSleepKeeps
  <2>8. CASE Sleep  BY <2>8, SleepKeeps
  <2> HIDE DEF Rest
  <2> QED  BY <1>4, <2>1, <2>2, <2>3, <2>4, <2>5, <2>6, <2>7, <2>8 DEF ServiceNext
<1>5. ASSUME NEW d \in Delays, Tick(d) PROVE Rest'
  BY <1>2, <1>5, TickKeeps
<1>6. ASSUME UNCHANGED tableVars PROVE Rest'
  <2>1. UNCHANGED <<valid, active, autoReset, expires, queue, hand, opening, signals, now, svc,
                    timer, read, sleepTime, wake, due, slept, cancels>>
    BY <1>6 DEF tableVars, listVars, slots, cells, service, history
  <2>2. ServiceInv'
    BY <2>1 DEF TableInv, ServiceInv
  <2> QED  BY <2>1, <2>2, CellsUnchanged
<1>7. Rest'
  <2> HIDE DEF Rest
  <2> QED  BY <1>3, <1>4, <1>5, <1>6 DEF TableNext
<1> QED  BY <1>1, <1>2, <1>7 DEF TableInv

\* The table keeps its invariant, for any times, timers and length of the queue.
THEOREM TableCorrect == TableSpec => []TableInv
BY TableInit, TableStep, PTL DEF TableSpec

\* Every variable of the table keeps its type (CTimer's members, Timer.h:59-83).
THEOREM TableTypeCorrect == TableSpec => []TypeOK
<1>1. TableInv => TypeOK
  BY DEF TableInv, ListInv, ArmedInv, CellsInv, Cells, Hands, ServiceInv, TypeOK, Elems
<1> QED  BY <1>1, TableCorrect, PTL

\* Each active timer has one cell, in the queue or in the hand of the thread
\* that is to queue it, and no other timer has one, whatever the heap functions
\* move and whatever is cancelled in it or on its way.
THEOREM TableQueueMatches == TableSpec => []QueueMatches
<1>1. TableInv => QueueMatches
  BY QueuedAndHeld DEF TableInv, CellsInv, Cells, Hands, Distinct, QueueMatches
<1> QED  BY <1>1, TableCorrect, PTL

\* The callback of a timer begins no earlier than its interval after the time
\* it was set from when the service thread found it expired (Timer.cpp:387);
\* what callers do to the timer between that and the callback is not waited for.
THEOREM TableNeverEarly == TableSpec => []NeverEarly
<1>1. TableInv => NeverEarly
  BY DEF TableInv, ServiceInv, NeverEarly
<1> QED  BY <1>1, TableCorrect, PTL

\* From its second reading of the clock on, the service thread sleeps no longer
\* than the timer it took to be the next had left at the first.
THEOREM TableWakesInTime == TableSpec => []WakesInTime
<1>1. TableInv => WakesInTime
  BY QueuedAndHeld DEF TableInv, ServiceInv, WakesInTime
<1> QED  BY <1>1, TableCorrect, PTL

\* As long as nothing queued has been cancelled, the first timer of the queue is
\* one that expires first.
THEOREM TableOrdered == TableSpec => []OrderedUntilCancelled
<1>1. TableInv => OrderedUntilCancelled
  <2> SUFFICES ASSUME TableInv, ~cancels, NEW h \in Queued
               PROVE  Ns(expires[queue[1]]) <= Ns(expires[h])
    BY DEF OrderedUntilCancelled
  <2>1. Heap(queue, expires)
    BY DEF TableInv, OrderInv
  <2> QED  BY <2>1, QueuedAndHeld, StateTypes, HeapFirst
<1> QED  BY <1>1, TableCorrect, PTL
=============================================================================
