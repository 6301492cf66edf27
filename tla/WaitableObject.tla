--------------------------- MODULE WaitableObject ---------------------------
(***************************************************************************)
(* CWaitableObject (WaitableObject.h): a mutex, a condition variable, a    *)
(* flag that tells a signal from a spurious wakeup, and a count of the     *)
(* threads that wait, the last of which resets the flag.  Any number of    *)
(* threads wait, with or without a timeout, and signal; signallers do not  *)
(* hold the mutex, as in Timer.cpp.                                        *)
(*                                                                         *)
(* m_ClassMutex is held only for the assignments of one step.  A condition *)
(* variable may wake a thread that nobody signalled, and a signal finds    *)
(* only the threads that are blocked when it is sent.                      *)
(***************************************************************************)
EXTENDS Naturals, FiniteSets

CONSTANTS Waiters, Signallers, NULL

ASSUME WaitAssumption ==
    /\ IsFiniteSet(Waiters)
    /\ NULL \notin Waiters \cup Signallers /\ \A some \in SUBSET Waiters : NULL # some

VARIABLES
    mutex,      \* holder of m_ConditionMutex
    triggered,  \* m_bTriggered
    waiters,    \* m_WaiterCount
    wpc, timed, status,  \* each waiter: step, whether its wait has a timeout, status
    spc,        \* each signaller: between the two halves of Signal or SignalBroadcast
    owed,       \* history: the waiters counted when the flag was last set
    by, due     \* history of one call of Signal, any: the caller until it has
                \* notified, and who was blocked at the call or is woken by it


call     == <<by, due>>
waitVars == <<mutex, triggered, waiters, wpc, timed, status, spc, owed, call>>

WaitInit ==
    /\ mutex = NULL /\ triggered = FALSE /\ waiters = 0
    /\ wpc = [w \in Waiters |-> "out"] /\ timed = {}
    /\ status = [w \in Waiters |-> "ok"]
    /\ spc = [s \in Signallers |-> "idle"] /\ owed = {}
    /\ by = NULL /\ due = NULL

WaitAt(w, label) == wpc[w] = label
WaitGoto(w, label) == wpc' = [wpc EXCEPT ![w] = label]

Blocked == {w \in Waiters : WaitAt(w, "blocked")}
Counted == {w \in Waiters : wpc[w] \in {"counted", "blocked", "woken", "checking", "leaving"}}

----------------------------------------------------------------------------
(* LockMutex, WaitOnObject, UnlockMutex *)

LockMutex(w) ==
    /\ WaitAt(w, "out") /\ mutex = NULL
    /\ mutex' = w /\ WaitGoto(w, "locked")
    /\ UNCHANGED <<triggered, waiters, timed, status, spc, owed, call>>

Enter(w) ==
    /\ WaitAt(w, "locked")
    /\ waiters' = waiters + 1 /\ WaitGoto(w, "counted")
    /\ timed' \in {timed \cup {w}, timed \ {w}}
    /\ UNCHANGED <<mutex, triggered, status, spc, owed, call>>

\* pthread_cond_wait and pthread_cond_timedwait: give up the mutex and block
CondWait(w) ==
    /\ WaitAt(w, "counted")
    /\ mutex' = NULL /\ WaitGoto(w, "blocked")
    /\ UNCHANGED <<triggered, waiters, timed, status, spc, owed, call>>

Wake(w, why) ==
    /\ WaitAt(w, "blocked")
    /\ status' = [status EXCEPT ![w] = why] /\ WaitGoto(w, "woken")
    /\ UNCHANGED <<mutex, triggered, waiters, timed, spc, owed, call>>

Spurious(w) == Wake(w, "ok")
TimesOut(w) == w \in timed /\ Wake(w, "timedout")

\* ... and return with the mutex
Reacquire(w) ==
    /\ WaitAt(w, "woken") /\ mutex = NULL
    /\ mutex' = w /\ WaitGoto(w, "checking")
    /\ UNCHANGED <<triggered, waiters, timed, status, spc, owed, call>>

\* while (status == 0 && m_bTriggered == false)
IgnoresStatus(w) == ~triggered  \* mutant: a timeout does not end the loop
WaitsAgain(w) == status[w] = "ok" /\ ~triggered
Check(w) ==
    /\ WaitAt(w, "checking")
    /\ WaitGoto(w, IF WaitsAgain(w) THEN "counted" ELSE "leaving")
    /\ UNCHANGED <<mutex, triggered, waiters, timed, status, spc, owed, call>>

AlwaysReset == FALSE  \* mutant: whoever leaves first resets the flag
KeepFlag == triggered /\ waiters' # 0
Leave(w) ==
    /\ WaitAt(w, "leaving")
    /\ waiters' = waiters - 1
    /\ triggered' = KeepFlag
    /\ owed' = owed \ {w}
    /\ IF due # NULL /\ w \in due THEN by' = NULL /\ due' = {} ELSE UNCHANGED call
    /\ WaitGoto(w, "left")
    /\ UNCHANGED <<mutex, timed, status, spc>>

UnlockMutex(w) ==
    /\ WaitAt(w, "left")
    /\ mutex' = NULL /\ WaitGoto(w, "out")
    /\ UNCHANGED <<triggered, waiters, timed, status, spc, owed, call>>

WaiterStep(w) ==
    LockMutex(w) \/ Enter(w) \/ CondWait(w) \/ Reacquire(w) \/ Check(w) \/ Leave(w) \/ UnlockMutex(w)

----------------------------------------------------------------------------
(* Signal, SignalBroadcast *)

SetFlag(s) ==
    /\ spc[s] = "idle"
    /\ triggered' = TRUE /\ owed' = owed \cup Counted
    /\ \E whom \in {"one", "all"} :
          /\ spc' = [spc EXCEPT ![s] = whom]
          /\ \/ whom = "one" /\ due = NULL /\ Blocked # {} /\ by' = s /\ due' = Blocked
             \/ UNCHANGED call
    /\ UNCHANGED <<mutex, waiters, wpc, timed, status>>

WakeSet(woken) ==
    /\ wpc' = [w \in Waiters |-> IF w \in woken THEN "woken" ELSE wpc[w]]
    /\ status' = [w \in Waiters |-> IF w \in woken THEN "ok" ELSE status[w]]

WakeNone == {{}}  \* mutant
WakeOne == IF Blocked = {} THEN {{}} ELSE {{w} : w \in Blocked}
Notify(s) ==
    /\ spc[s] # "idle"
    /\ \E woken \in IF spc[s] = "one" THEN WakeOne ELSE {Blocked} :
          /\ WakeSet(woken)
          /\ due' = IF by = s THEN due \cup woken ELSE due
    /\ by' = IF by = s THEN NULL ELSE by
    /\ spc' = [spc EXCEPT ![s] = "idle"]
    /\ UNCHANGED <<mutex, triggered, waiters, timed, owed>>

WaitNext ==
    \/ \E w \in Waiters : WaiterStep(w) \/ Spurious(w) \/ TimesOut(w)
    \/ \E s \in Signallers : SetFlag(s) \/ Notify(s)

WaitSpec == WaitInit /\ [][WaitNext]_waitVars

----------------------------------------------------------------------------
(* What a waitable object must guarantee. *)

\* Type invariant.
WaitTypeOK ==
    /\ mutex \in Waiters \cup {NULL} /\ triggered \in BOOLEAN /\ waiters \in Nat
    /\ wpc \in [Waiters -> {"out", "locked", "counted", "blocked", "woken", "checking",
                            "leaving", "left"}]
    /\ timed \subseteq Waiters /\ status \in [Waiters -> {"ok", "timedout"}]
    /\ spc \in [Signallers -> {"idle", "one", "all"}] /\ owed \subseteq Waiters
    /\ by \in Signallers \cup {NULL} /\ due \in (SUBSET Waiters) \cup {NULL}
    /\ by # NULL => due # NULL

\* The count that decides who resets the flag is the number of threads in
\* WaitOnObject (WaitableObject.h:85-96), whatever they were woken by.
CountIsWaiting == waiters = Cardinality(Counted)

\* No waiter that a signal is meant for finds the flag reset by another one
\* that has left before it: a thread that was waiting when the flag was set
\* sees it set until it returns (WaitableObject.h:90, 94).
OwedSeesFlag == owed \subseteq Counted /\ (owed # {} => triggered)

\* Threads in the library are scheduled and get the mutex in the end when they
\* keep finding it free.  The end of a timeout is a point in time, which a loop
\* of spurious wakeups does not put off.  Nobody need come to wait, or signal.
WaitFairness ==
    /\ \A w \in Waiters : SF_waitVars(wpc[w] # "out" /\ WaiterStep(w)) /\ SF_waitVars(TimesOut(w))
    /\ \A s \in Signallers : WF_waitVars(Notify(s))

\* SignalBroadcast releases every waiter that was waiting when it was called
\* and is blocked when it wakes the waiters ("a signal to all the waiters",
\* WaitableObject.h:70), although the others reset what they share.
BroadcastReleases ==
    \A w \in Waiters :
        (w \in owed /\ WaitAt(w, "blocked") /\ \E s \in Signallers : spc[s] = "all")
            ~> WaitAt(w, "out")

\* Signal releases one of the waiters that were blocked when it was called, or
\* the later one that it woke in their place ("a signal to one the waiters",
\* WaitableObject.h:62): although others leave, time out or come in between and
\* reset what they share, a signal that somebody waited for is not lost.
SignalReleases == due \notin {NULL, {}} ~> due = {}

\* A wait with a timeout ends, whatever is or is not signalled.
TimedWaitEnds ==
    \A w \in Waiters : (w \in timed /\ WaitAt(w, "blocked")) ~> WaitAt(w, "out")
=============================================================================
