----------------------------- MODULE TimerProps -----------------------------
(***************************************************************************)
(* What CTimer must guarantee, stated over the specification of Timer.     *)
(***************************************************************************)
EXTENDS Timer

\* Type invariant of every variable of CTimer and its threads.
ApiLabels == {"idle", "lock", "body", "fill", "mark", "arm", "trig", "unlock",
              "qlock", "push", "qunlock", "trigger", "signal"}
SvcLabels == {"start", "first", "loop", "release", "relock", "park", "parked",
              "unpark", "top", "drop", "look", "expire", "settle", "call",
              "incall", "sleep", "asleep", "wake", "timedout", "done"}
Faults == {"none", "badHandle", "noHandle", "noMemory", "badPush", "emptyTop",
           "notActive", "collide", "useAfterDestroy"}
TypeOK ==
    /\ valid \subseteq Handles /\ active \subseteq Handles
    /\ autoReset \subseteq Handles /\ quiet \subseteq Handles
    /\ heap \in [Handles -> Cells \cup {NULL}]
    /\ points \in [Cells -> Handles \cup {NULL}]
    /\ allocated \subseteq Cells /\ queue \subseteq Cells
    /\ listOwner \in Threads \cup {NULL} /\ queueOwner \in Threads \cup {NULL}
    /\ triggered \in BOOLEAN
    /\ pc \in [Threads -> ApiLabels] /\ op \in [Threads -> Ops \cup {NULL}]
    /\ arg \in [Threads -> Handles \cup {NULL}]
    /\ cell \in [Threads -> Cells \cup {NULL}]
    /\ svcPc \in SvcLabels /\ sawEmpty \in BOOLEAN
    /\ svcCell \in Cells \cup {NULL} /\ svcTimer \in Handles \cup {NULL}
    /\ stop \in BOOLEAN /\ exited \in BOOLEAN /\ cancelled \in BOOLEAN
    /\ life \in {"alive", "stopping", "signalling", "polling", "closing", "destroyed"}
    /\ fault \in Faults
    /\ late \in [Handles -> 0 .. MaxLate]

\* A call or the service thread is between removing a cell from a slot or the
\* queue and the statement that completes it.
Changing(h) == \E t \in Threads : arg[t] = h /\ pc[t] \in {"fill", "mark", "arm"}

\* Cells that are queued, or that a thread holds and is about to queue.
Carries(t, c) == cell[t] = c /\ pc[t] \in {"trig", "unlock", "qlock", "push"}
Pending == queue \cup {c \in Cells : \E t \in Threads : Carries(t, c)}
                 \cup {c \in {svcCell} : svcPc \in {"expire", "settle"}}

\* An active timer is never lost: outside the middle of a call, the cell its
\* slot remembers points back to it and is in the queue, or in the hands of a
\* thread that is about to queue it.  So the timer can still expire, and
\* StopTimer and DeleteTimer still reach the cell that must be cancelled.
ActiveQueued ==
    \A h \in valid \cap active : ~Changing(h) =>
        /\ heap[h] \in Pending
        /\ points[heap[h]] = h

\* No dangling cell: everything queued, carried by a thread or remembered by
\* a slot in use is memory that has not been freed.
CellSafety ==
    /\ Pending \subseteq allocated
    /\ \A h \in valid : heap[h] # NULL /\ ~Changing(h) => heap[h] \in allocated

\* The service thread frees a cell (Timer.cpp:383) only when no slot in use,
\* and no thread about to queue it, still refers to it.
FreedIsUnreferenced ==
    [][\A c \in allocated \ allocated' :
          /\ \A h \in valid : heap[h] = c => Changing(h)
          /\ \A t \in Threads : ~Carries(t, c)
          /\ c \notin queue']_vars

\* With callers that do not delete a timer another call is using, no call ever
\* finds a handle gone that it was given, and only fresh cells are queued.
HandlesAreGood == fault \notin {"badHandle", "badPush"}

\* After StopTimer or DeleteTimer has returned, at most one more callback of
\* that timer begins until it is restarted or its slot is handed out again:
\* the one the service thread had already decided on.
AtMostOneLateCall == \A h \in Handles : late[h] <= 1

\* With auto-reset timers only, the queue says exactly what the table says:
\* a timer is active iff one pending cell points to it, and never two do.
OneLiveCell ==
    \A h \in valid : ~Changing(h) =>
        Cardinality({c \in Pending : points[c] = h}) = (IF h \in active THEN 1 ELSE 0)

(***************************************************************************)
(* Fairness.  Threads inside the library are scheduled, and one that keeps *)
(* finding its mutex free gets it in the end (strong fairness of its only  *)
(* enabled step).  Nothing makes clients call, or a condition variable     *)
(* wake up spuriously.  Time passes: a timer seen at the top again and     *)
(* again is seen expired in the end.                                       *)
(***************************************************************************)
Running == fault = "none" /\ life # "destroyed"
Scheduling ==
    /\ \A t \in Threads : SF_vars(Running /\ ApiStep(t))
    /\ SF_vars(Running /\ SvcStep)
    /\ SF_vars(Running /\ DtorStep /\ life # "alive")
TimePasses == SF_vars(Running /\ SvcPop)
FairSpec  == Spec /\ Scheduling
TimedSpec == FairSpec /\ TimePasses

\* The object is gone or the program has failed.
Halted == ~Running

\* Every API call returns, a client's or a callback's, whatever mutexes the
\* service thread frees under it.
CallsReturn == \A t \in Threads : pc[t] # "idle" ~> pc[t] = "idle" \/ Halted

\* The destructor ends even when the service thread never saw its signal.
DestructorEnds == life = "stopping" ~> Halted

(***************************************************************************)
(* What comments and tests say of CTimer, and its code does not do.        *)
(***************************************************************************)

\* Timer.cpp:390: "at this point we should always have an active timer"
ExpiredTimerIsActive == fault # "notActive"

\* Timer_test.cpp, singleTimer: a timer created active calls back in the end
\* (unless it is stopped, deleted or restarted, or the CTimer is destroyed).
ActiveTimerFires ==
    \A h \in Handles :
        (h \in valid \cap active) ~>
            \/ svcTimer = h /\ svcPc = "call"
            \/ h \notin valid \cap active \/ (\E t \in Threads : Uses(t, h))
            \/ stop \/ Halted
=============================================================================
