------------------------------ MODULE MCBundler ------------------------------
(***************************************************************************)
(* Small configurations of the bundle server.  The two bundles are those   *)
(* of the shipped server-config.json that matter here: one with a fixed    *)
(* file name, signed, and one with a time stamp in its name.               *)
(***************************************************************************)
EXTENDS Bundler

Main == [name |-> "main", file |-> "signed-main", dir |-> "bundles",
         ts |-> FALSE, build |-> TRUE, sign |-> TRUE]
Ray  == [name |-> "ray", file |-> "unsigned-ray", dir |-> "bundles",
         ts |-> TRUE, build |-> TRUE, sign |-> FALSE]

Server(load, persist, purge, bundles) ==
    [enable |-> TRUE, load |-> load, persist |-> persist, purge |-> purge,
     authz |-> TRUE, etag |-> TRUE, dirList |-> FALSE, tls |-> TRUE,
     outDir |-> "bundles", bundles |-> bundles]

Skip(b) == [b EXCEPT !.build = FALSE]

Shipped == Server(FALSE, TRUE, TRUE, <<Ray, Main>>)

\* Restarts that keep one bundle, with and without the two registry flags; that
\* change to the other bundle; that only serve; and both bundles in one run, so
\* that a failure of the second meets the first, as shipped with the purge or
\* with a registry that was loaded.
LifeConfigs ==
    {Server(FALSE, FALSE, FALSE, <<Main>>), Server(FALSE, TRUE, FALSE, <<Main>>),
     Server(TRUE, TRUE, FALSE, <<Main>>), Server(TRUE, TRUE, FALSE, <<Skip(Main), Ray>>),
     Shipped, [Shipped EXCEPT !.enable = FALSE],
     Server(TRUE, FALSE, FALSE, <<Main, Ray>>)}

\* The first start of a server that loads its registry.
LoadFirstConfigs == {Server(TRUE, TRUE, FALSE, <<Main>>)}

\* A bundle with an output directory of its own.
ArchiveConfigs == {Server(FALSE, TRUE, TRUE, <<[Main EXCEPT !.dir = "archive"]>>)}
=============================================================================
