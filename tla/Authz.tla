-------------------------------- MODULE Authz --------------------------------
(***************************************************************************)
(* AuthZMiddleware and the loop of parseJwt over the entries of the authz  *)
(* file, one entry at a time.  The clock is read anew for every entry that *)
(* verifies the token, so time passes within a decision.                   *)
(***************************************************************************)
EXTENDS AuthzData

VARIABLES
    allowed,    \* AD.Allowed
    token,      \* the token in the request's header
    path,       \* r.URL.Path
    clock,      \* time.Now()
    i,          \* position of the loop, 0 before ParseNoVerify
    verdict,    \* "pending", "pass" to the next handler, or "deny" with 401
    began       \* history: when the decision began

vars == <<allowed, token, path, clock, i, verdict, began>>
inputs == <<allowed, token, path, began>>

Init ==
    /\ allowed \in AllowedLists /\ token \in Tokens /\ path \in Paths
    /\ clock \in 0..MaxClock /\ began = clock
    /\ i = 0 /\ verdict = "pending"

Tick ==
    /\ verdict = "pending" /\ clock < MaxClock
    /\ clock' = clock + 1
    /\ UNCHANGED <<inputs, i, verdict>>

\* jwt.ParseNoVerify of what follows the scheme in the header; a header too
\* short to hold a token is answered like a token that does not parse.
Parse ==
    /\ verdict = "pending" /\ i = 0
    /\ IF token.parses THEN i' = 1 /\ verdict' = verdict
                       ELSE i' = i /\ verdict' = "deny"
    /\ UNCHANGED <<inputs, clock>>

\* Mutant of SkipEntry: the loop advances twice.
SkipTwo ==
    /\ verdict = "pending" /\ i \in 1..Len(allowed)
    /\ ~(Verifies(allowed[i], token) /\ ValidAt(token, clock))
    /\ i' = i + 2
    /\ UNCHANGED <<inputs, clock, verdict>>

\* The entry makes no verifier, does not verify the token, or the claims are
\* not good for it now: continue.
SkipEntry ==
    /\ verdict = "pending" /\ i \in 1..Len(allowed)
    /\ ~(Verifies(allowed[i], token) /\ ValidAt(token, clock))
    /\ i' = i + 1
    /\ UNCHANGED <<inputs, clock, verdict>>

\* Mutant of SettleEntry: an entry without the entitlement is skipped as well.
SettleEntryFor ==
    /\ verdict = "pending" /\ i \in 1..Len(allowed)
    /\ Verifies(allowed[i], token) /\ ValidAt(token, clock)
    /\ IF Entitles(allowed[i], path) THEN verdict' = "pass" /\ i' = i
                                     ELSE verdict' = verdict /\ i' = i + 1
    /\ UNCHANGED <<inputs, clock>>

\* Mutant of SettleEntry: the time claim is not looked at.
SettleEntryAnytime ==
    /\ verdict = "pending" /\ i \in 1..Len(allowed)
    /\ Verifies(allowed[i], token)
    /\ verdict' = IF Entitles(allowed[i], path) THEN "pass" ELSE "deny"
    /\ UNCHANGED <<inputs, clock, i>>

\* It settles the matter, for or against.
SettleEntry ==
    /\ verdict = "pending" /\ i \in 1..Len(allowed)
    /\ Verifies(allowed[i], token) /\ ValidAt(token, clock)
    /\ verdict' = IF Entitles(allowed[i], path) THEN "pass" ELSE "deny"
    /\ UNCHANGED <<inputs, clock, i>>

\* No entry did.
Exhausted ==
    /\ verdict = "pending" /\ i > Len(allowed)
    /\ verdict' = "deny"
    /\ UNCHANGED <<inputs, clock, i>>

Next == Tick \/ Parse \/ SkipEntry \/ SettleEntry \/ Exhausted

Spec == Init /\ [][Next]_vars

-----------------------------------------------------------------------------
(* Properties.                                                              *)

TypeOK ==
    /\ allowed \in AllowedLists /\ token \in Tokens /\ path \in Paths
    /\ clock \in 0..MaxClock /\ began \in 0..MaxClock
    /\ i \in 0..Len(allowed) + 1
    /\ verdict \in {"pending", "pass", "deny"}

\* The token came into force while the loop was running.
Matured == began < token.from /\ token.from <= clock

\* The verdict is the one some single moment of the loop would have given, with
\* the first entry that verifies the token deciding alone: unless the token came
\* into force on the way, when entries seen before and after that moment mix.
DecidedAtOneMoment ==
    verdict # "pending" /\ ~Matured
      => \E now \in began..clock : verdict = Decision(allowed, token, path, now)

\* Even then nothing passes without an entry that verifies and entitles it at
\* the moment of the verdict.
PassIsEarned == verdict = "pass" => Earned(allowed, token, path, clock)

\* For every token and however the clock runs in between, the loop over the entries
\* is the decision at one moment that AuthzSpec promises.
Promise == INSTANCE AuthzSpec WITH
    allowed <- allowed, token <- token, path <- path,
    clock <- clock, began <- began, verdict <- verdict

ImplementsPromise == Promise!Spec
=============================================================================
