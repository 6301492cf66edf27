------------------------------ MODULE TimeSpec ------------------------------
(***************************************************************************)
(* The struct timespec arithmetic of CTimer (Timer.cpp) and of the timed   *)
(* wait of CWaitableObject.  A second is K milliseconds, a millisecond K   *)
(* microseconds and a microsecond K nanoseconds; K is 1000.                *)
(***************************************************************************)
EXTENDS Integers

CONSTANTS
    K,
    UINT  \* values of unsigned int (2^32)

ASSUME TimeAssumption == K \in Nat \ {0} /\ UINT \in Nat \ {0}

MILLION == K * K
BILLION == K * K * K

Times == [sec : Nat, nsec : 0 .. BILLION - 1]

comp_timespec(a, b) ==
    CASE a.sec > b.sec \/ (a.sec = b.sec /\ a.nsec > b.nsec) -> 1
      [] a.sec = b.sec /\ a.nsec = b.nsec -> 0
      [] OTHER -> -1

Unnormalized(a, b) ==  \* mutant
    [sec |-> a.sec + b.sec, nsec |-> a.nsec + b.nsec]
NoCarry(a, b) ==  \* mutant
    [sec |-> a.sec + b.sec, nsec |-> (a.nsec + b.nsec) % BILLION]
add_timespec(a, b) ==
    [sec  |-> a.sec + b.sec + (a.nsec + b.nsec) \div BILLION,
     nsec |-> (a.nsec + b.nsec) % BILLION]

NoBorrow(a, b) ==  \* mutant
    IF a.nsec < b.nsec
    THEN [sec |-> a.sec - b.sec, nsec |-> BILLION + a.nsec - b.nsec]
    ELSE [sec |-> a.sec - b.sec, nsec |-> a.nsec - b.nsec]
diff_timespec(a, b) ==
    IF a.nsec < b.nsec
    THEN [sec |-> a.sec - 1 - b.sec, nsec |-> BILLION + a.nsec - b.nsec]
    ELSE [sec |-> a.sec - b.sec, nsec |-> a.nsec - b.nsec]

\* CreateTimer's interval for uIntervalMs
Interval(ms) == [sec |-> ms \div K, nsec |-> (ms % K) * MILLION]

\* uSleepTime: microseconds in an unsigned int
SleepTime(diff) == (diff.nsec \div K + diff.sec * MILLION) % UINT

\* The end of WaitOnObject(us), whose own reading of the clock is now, which
\* gettimeofday gives to the microsecond
Timeout(now, us) ==
    LET usec == now.nsec \div K + us
    IN [sec |-> now.sec + usec \div MILLION, nsec |-> (usec % MILLION) * K]

----------------------------------------------------------------------------
\* The reference: a time as nanoseconds
Ns(t) == t.sec * BILLION + t.nsec
Time(n) == [sec |-> n \div BILLION, nsec |-> n % BILLION]
=============================================================================
