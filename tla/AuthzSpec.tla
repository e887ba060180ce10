------------------------------ MODULE AuthzSpec ------------------------------
(***************************************************************************)
(* What authorisation promises: a request is decided at one moment, by the *)
(* first entry of the authz file that verifies its token then.  Only of a  *)
(* token that comes into force while it is looked at is the decision left  *)
(* open, and even it passes only by an entry that is good for it.          *)
(***************************************************************************)
EXTENDS AuthzData

VARIABLES allowed, token, path, clock, began, verdict

vars == <<allowed, token, path, clock, began, verdict>>

Init ==
    /\ allowed \in AllowedLists /\ token \in Tokens /\ path \in Paths
    /\ clock \in 0..MaxClock /\ began = clock /\ verdict = "pending"

Tick ==
    /\ verdict = "pending" /\ clock' = clock + 1
    /\ UNCHANGED <<allowed, token, path, began, verdict>>

Decide ==
    /\ verdict = "pending"
    /\ \/ verdict' = Decision(allowed, token, path, clock)
       \/ /\ began < token.from /\ token.from <= clock
          /\ verdict' \in {"pass", "deny"}
          /\ verdict' = "pass" => Earned(allowed, token, path, clock)
    /\ UNCHANGED <<allowed, token, path, clock, began>>

Next == Tick \/ Decide

Spec == Init /\ [][Next]_vars
=============================================================================
