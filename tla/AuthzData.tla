------------------------------ MODULE AuthzData ------------------------------
(***************************************************************************)
(* The data AuthZMiddleware decides on: the entries of the authz file      *)
(* (AuthzData) and the bearer token of a request                           *)
(* (ch3-pbac/examples/bundle-server, pkg/model/middleware.go).             *)
(***************************************************************************)
EXTENDS Naturals, Sequences

CONSTANTS
    Secrets,        \* keys tokens are signed with
    NoSecret,       \* the empty "secret", which makes no verifier
    Audiences,
    Entitlements,
    Paths,          \* request paths
    Within,         \* the pairs <<path, entitlement>> with the one within the other
    AllowedLists,   \* contents the authz file may have
    Tokens,         \* tokens requests may carry
    MaxClock        \* bound: seconds a decision may take

Entry == [secret: Secrets \cup {NoSecret}, aud: Audiences, ents: SUBSET Entitlements]

\* A token that does not parse has whatever in its other fields; the claims of
\* one that does may still not unmarshal.  It is valid from "from" until "until".
Token == [parses: BOOLEAN, signer: Secrets, claims: BOOLEAN,
          aud: SUBSET Audiences, from: Nat, until: Nat]

ASSUME ListsAssumption  == AllowedLists \subseteq Seq(Entry)
ASSUME TokensAssumption == Tokens \subseteq Token
ASSUME ClockAssumption  == MaxClock \in Nat

\* The verifier made from the entry's secret accepts the token, its claims can
\* be read, and it is for the entry's audience.
Verifies(e, tok) ==
    e.secret # NoSecret /\ tok.signer = e.secret /\ tok.claims /\ e.aud \in tok.aud

\* jwt.RegisteredClaims.IsValidAt
ValidAt(tok, now) == tok.from <= now /\ now < tok.until

\* Some entitlement of the entry is a substring of the path.
Entitles(e, path) == \E x \in e.ents : <<path, x>> \in Within

\* The entry that settles the matter at a given moment is the first that
\* verifies the token while it is valid; the entries after it are not consulted.
Settles(allowed, tok, i, now) ==
    /\ Verifies(allowed[i], tok) /\ ValidAt(tok, now)
    /\ \A j \in 1..i - 1 : ~Verifies(allowed[j], tok)

Decision(allowed, tok, path, now) ==
    IF tok.parses /\ \E i \in 1..Len(allowed) :
                        Settles(allowed, tok, i, now) /\ Entitles(allowed[i], path)
    THEN "pass" ELSE "deny"

\* Some entry verifies the token, which is in force, and entitles it to the path.
Earned(allowed, tok, path, now) ==
    /\ tok.parses /\ ValidAt(tok, now)
    /\ \E k \in 1..Len(allowed) : Verifies(allowed[k], tok) /\ Entitles(allowed[k], path)
=============================================================================
