--------------------------- MODULE MCBundleServer ---------------------------
EXTENDS BundleServer, ServerConfig

Main == [name |-> "main", file |-> "signed-main", dir |-> "bundles",
         ts |-> FALSE, build |-> TRUE, sign |-> TRUE]
Jimmy == [Main EXCEPT !.name = "jimmy", !.file = "signed-jimmy"]

Server(load, purge, bundles) ==
    [enable |-> TRUE, load |-> load, persist |-> TRUE, purge |-> purge,
     authz |-> ~load, etag |-> TRUE, dirList |-> load, tls |-> TRUE,
     outDir |-> "bundles", bundles |-> bundles]

\* A server that starts anew, with two bundles, and purges; one that loads the
\* registry, which may still have both, builds one of them and keeps it all.
Servers == {Server(FALSE, TRUE, <<Main, Jimmy>>), Server(TRUE, FALSE, <<Main>>)}

\* The files that have these settings, with TLS on or off, whatever else they
\* have or miss.
ServeConfigs == Accepted(Files({[s EXCEPT !.tls = t] : s \in Servers, t \in BOOLEAN}))

GracefulConfigs == {Server(FALSE, TRUE, <<Main>>)}
=============================================================================
