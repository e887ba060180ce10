------------------------------ MODULE BundleFeed ------------------------------
(***************************************************************************)
(* What the bundle server, its crashes, restarts and purges included, is   *)
(* to one OPA that polls one resource: a place where versions come and go, *)
(* and a client that only ever activates what was at the place after it    *)
(* had asked, and never something older than it has had before.            *)
(***************************************************************************)
EXTENDS Naturals

CONSTANT None           \* no archive, nothing on its way, no bundle

VARIABLES
    place,      \* version of the valid archive at the place, or None
    taken,      \* version on its way to the client, or None
    active,     \* version the client works with, or None
    last        \* newest version the client has ever worked with

Init == place = None /\ taken = None /\ active = None /\ last = 0

\* Whatever the server does to the place.
Change == place' \in Nat \cup {None} /\ UNCHANGED <<taken, active, last>>

Take == place # None /\ taken' = place /\ UNCHANGED <<place, active, last>>

\* What was on its way is lost.
Drop == taken' = None /\ UNCHANGED <<place, active, last>>

Activate ==
    /\ taken # None /\ taken >= last
    /\ active' = taken /\ last' = taken /\ taken' = None
    /\ UNCHANGED place

\* The client starts anew, with nothing.
Forget == active' = None /\ taken' = None /\ UNCHANGED <<place, last>>

Spec == Init /\ [][Change \/ Take \/ Drop \/ Activate \/ Forget]_<<place, taken, active, last>>
=============================================================================
