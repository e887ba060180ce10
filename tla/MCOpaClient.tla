----------------------------- MODULE MCOpaClient -----------------------------
EXTENDS OpaClient

Main == [name |-> "main", file |-> "signed-main", dir |-> "bundles",
         ts |-> FALSE, build |-> TRUE, sign |-> TRUE]

Server(load, persist, purge, bundles) ==
    [enable |-> TRUE, load |-> load, persist |-> persist, purge |-> purge,
     authz |-> purge, etag |-> TRUE, dirList |-> FALSE, tls |-> TRUE,
     outDir |-> "bundles", bundles |-> bundles]

\* One server that builds anew, keeps the registry and does not sign, one that
\* purges and authorizes, one that loads the registry, and one that loads it and
\* only serves what is there.
PolledConfigs ==
    {Server(FALSE, TRUE, FALSE, <<[Main EXCEPT !.sign = FALSE]>>),
     Server(FALSE, TRUE, TRUE, <<Main>>),
     Server(TRUE, FALSE, FALSE, <<Main>>), Server(TRUE, FALSE, FALSE, <<>>)}

MainFile == <<"signed-main", 0>>
=============================================================================
