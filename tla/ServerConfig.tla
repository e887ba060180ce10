----------------------------- MODULE ServerConfig -----------------------------
(***************************************************************************)
(* Which server-config.json files a bundle server starts with: LoadConfig  *)
(* and the validation of pkg/model/config.go.  A file is what it says of   *)
(* the settings that steer the server, which of the strings that must be   *)
(* there are, and whether TLS has its certificate and its key.             *)
(***************************************************************************)

CONSTANT Unreadable      \* a file that is missing or is no JSON

\* The strings tagged "required": a missing one and an empty one are the same.
Required == {"name", "server-address", "server-port", "health", "info", "api",
             "bundle-uri", "bundle-out-dir"}

\* Files with these settings (records with a field tls), one string missing at most.
Files(settings) ==
    [config: settings, given: {Required \ S : S \in {{}} \cup {{x} : x \in Required}},
     cert: BOOLEAN, key: BOOLEAN] \cup {Unreadable}

\* "required" means "not the zero value": of the TLS flag it demands TRUE, and of
\* a struct nothing.
FieldsValid(f) == f.given = Required /\ f.config.tls

\* TLS needs a certificate and a key.
DependencyValidator(f) == f.config.tls => f.cert /\ f.key

\* A file that cannot be read is parsed as if it were empty, which fails as well.
LoadConfig(f) == f # Unreadable /\ FieldsValid(f) /\ DependencyValidator(f)

\* The settings a server may find itself with.
Accepted(files) == {f.config : f \in {g \in files : LoadConfig(g)}}
=============================================================================
