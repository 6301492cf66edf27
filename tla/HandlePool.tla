----------------------------- MODULE HandlePool -----------------------------
(***************************************************************************)
(* What Handle_List (Lists.h) promises: a handle given out is one nobody   *)
(* holds, and none is refused while one is left.                           *)
(***************************************************************************)
EXTENDS Integers

CONSTANT Handles

VARIABLES
    used,  \* the handles that are in use
    given  \* how many have been given out and not returned

Init == used = {} /\ given = 0

GetNewHandle == \E h \in Handles \ used : used' = used \cup {h} /\ given' = given + 1
FreeHandle   == \E h \in used : used' = used \ {h} /\ given' = given - 1

Next == GetNewHandle \/ FreeHandle

Spec == Init /\ [][Next]_<<used, given>>
=============================================================================
