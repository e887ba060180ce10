------------------------------- MODULE MCAuthz -------------------------------
EXTENDS Authz

\* Two clients and an entry without a secret; what each may reach.
Entries == {[secret |-> s, aud |-> "opa", ents |-> e] :
              s \in {"k1", "k2", NoSecret}, e \in {{}, {"main"}, {"bundles"}}}
Lists == {<<>>} \cup {<<a>> : a \in Entries} \cup {<<a, b>> : a, b \in Entries}
           \cup {<<a, [a EXCEPT !.aud = "ops"], b>> : a, b \in Entries}

\* "/v1/bundles/signed-main.tar.gz" contains both, "/v1/bundles/x" only one.
PathSet == {"signed-main", "other"}
Contained == {<<"signed-main", "main">>, <<"signed-main", "bundles">>,
              <<"other", "bundles">>}

TokenOf(from, until) ==
    [parses |-> TRUE, signer |-> "k1", claims |-> TRUE, aud |-> {"opa"},
     from |-> from, until |-> until]
SomeTokens ==
    {TokenOf(0, u) : u \in {0, 2, 9}} \cup {TokenOf(1, 2), TokenOf(2, 9)} \cup
    {[TokenOf(0, 9) EXCEPT !.aud = {"ops", "opa"}], [TokenOf(0, 9) EXCEPT !.aud = {}],
     [TokenOf(0, 9) EXCEPT !.claims = FALSE], [TokenOf(0, 9) EXCEPT !.parses = FALSE]}
=============================================================================
