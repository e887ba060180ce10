----------------------------- MODULE BundleServer -----------------------------
(***************************************************************************)
(* The HTTP side of the bundle server composed with its life on disk: each *)
(* request goes through the middleware chain and the file server in a      *)
(* goroutine of its own, interleaved with the purge and cut by the end of  *)
(* the process.  The registry is read without a lock: nothing writes it    *)
(* once the listener is up.                                                *)
(***************************************************************************)
EXTENDS Bundler

CONSTANT Requests       \* requests that may be in flight at a time

VARIABLES
    req,            \* what each of them has come to
    listener        \* how the process listens, if it does

allvars == <<vars, req, listener>>

\* What the path of a request leads to: an archive, the bundle URI itself without
\* and with a slash at its end, or one of the four handlers that answer from
\* memory; and the archive that the whole URL ends in, if any (base).  That is the
\* one of the path, unless a query follows, which may end in the name of any.
Target ==
    [kind: {"file"}, name: FileName, base: FileName \cup {None}] \cup
    [kind: {"root", "slash", "api"}, name: {None}, base: FileName \cup {None}]

\* An archive, and no query.
Plain(file) == [kind |-> "file", name |-> file, base |-> file]

\* Where it is: the next stage to run, or how it ended.
Stages == {"authz", "etag", "nolist", "handler", "send"}
Ends   == {"done", "cut"}

\* The ETag of its If-None-Match; whether it has a condition that a file meets
\* whatever its ETag (If-None-Match: *, an If-Modified-Since that is late enough);
\* the headers and the body of its answer.
Request == [at: Stages \cup Ends, target: Target,
            inm: Digest \cup {None}, held: BOOLEAN, etag: Digest \cup {None},
            body: Content \cup {None}, status: {200, 304, 401, 404}]

ASSUME RequestAssumption == None \notin Request

ReqTypeOK ==
    /\ req \in [Requests -> Request \cup {None}]
    /\ listener \in {"none", "tls", "plain"}

InFlight(r) == req[r] # None /\ req[r].at \in Stages

ServerInit == Init /\ req = [r \in Requests |-> None] /\ listener = "none"

-----------------------------------------------------------------------------
\* A request is routed; the stages not configured are not in its chain.
Arrive(r, t, inm, held) ==
    /\ listener # "none" /\ ~InFlight(r)
    /\ req' = [req EXCEPT ![r] =
                 [at |-> IF cfg.authz THEN "authz" ELSE "etag", target |-> t,
                  inm |-> inm, held |-> held, etag |-> None, body |-> None, status |-> 200]]
    /\ UNCHANGED <<vars, listener>>

At(r, stage) == req[r] # None /\ req[r].at = stage

Go(r, stage, next) ==
    /\ At(r, stage)
    /\ req' = [req EXCEPT ![r] = next]
    /\ UNCHANGED <<vars, listener>>

Answer(r, status) == [req[r] EXCEPT !.at = "done", !.status = status]

\* AuthZMiddleware lets the request through or answers 401.
AuthZMiddleware(r) ==
    \/ Go(r, "authz", [req[r] EXCEPT !.at = "etag"])
    \/ Go(r, "authz", Answer(r, 401))

\* Mutant of EtagMiddleware: the whole reference is taken for the ETag.
EtagMiddlewareRef(r) ==
    LET t == req[r].target
        known == cfg.etag /\ t.base # None /\ mem.refs[t.base] # None
    IN  Go(r, "etag", [req[r] EXCEPT
          !.at = "nolist", !.etag = IF known THEN mem.refs[t.base] ELSE None])

\* EtagMiddleware sets the header when the last element of the URL, the query
\* included, is a key of the registry, whatever the path leads to.
EtagMiddleware(r) ==
    LET t == req[r].target
        known == cfg.etag /\ t.base # None /\ mem.refs[t.base] # None
    IN  Go(r, "etag", [req[r] EXCEPT
          !.at = "nolist",
          !.etag = IF known THEN mem.refs[t.base].etag ELSE None])

\* NoListMiddleware stops the paths that end in a slash.
NoListMiddleware(r) ==
    Go(r, "nolist", IF ~cfg.dirList /\ req[r].target.kind = "slash"
                    THEN Answer(r, 404) ELSE [req[r] EXCEPT !.at = "handler"])

\* Health, service information, registry and configuration are answered from
\* memory.
ApiHandlers(r) ==
    At(r, "handler") /\ req[r].target.kind = "api" /\ Go(r, "handler", Answer(r, 200))

\* Mutant of Quoted: the ETag is set as a quoted string.
QuotedDigest(etag) == etag # None

\* EtagMiddleware sets the digest as it is, and net/http compares only ETags that
\* are quoted strings, in the header as in If-None-Match.
Quoted(etag) == FALSE

NotModified(r) == req[r].held \/ (Quoted(req[r].etag) /\ req[r].inm = req[r].etag)

\* http.FileServer opens the file in the top-level output directory: from then
\* on its bytes are the request's, removed or not.  The directory itself is
\* listed; it has no ETag, but a time of modification.
FileServer(r) ==
    /\ At(r, "handler")
    /\ LET t == req[r].target
           file == disk[<<cfg.outDir, t.name>>]
       IN  \/ /\ t.kind \in {"root", "slash"}
              /\ \E status \in {200} \cup (IF req[r].held THEN {304} ELSE {}) :
                   Go(r, "handler", Answer(r, status))
           \/ /\ t.kind = "file"
              /\ Go(r, "handler",
                    IF file = None THEN Answer(r, 404)
                    ELSE IF NotModified(r) THEN Answer(r, 304)
                    ELSE [req[r] EXCEPT !.at = "send", !.body = file])

\* The body is copied out.
Send(r) == Go(r, "send", Answer(r, 200))

\* What becomes of the requests when the process takes a step of its own: its
\* end cuts those in flight, since nothing waits for them.
AfterProcess ==
    [r \in Requests |->
       IF pc = "off" THEN None
       ELSE IF pc' = "off" /\ InFlight(r) THEN [req[r] EXCEPT !.at = "cut"]
       ELSE req[r]]

\* The listener comes up after the build, on TLS or plainly, or fails for want of
\* its port, certificate or key, which is only printed; it goes only with the
\* process, so that it is still there while the purge runs.
Listen ==
    CASE pc = "built" /\ pc' = "serving" -> {IF cfg.tls THEN "tls" ELSE "plain", "none"}
      [] pc' = "off" -> {"none"}
      [] OTHER -> {listener}

Lifecycle == Next /\ req' = AfterProcess /\ listener' \in Listen

Handle(r) ==
    \/ AuthZMiddleware(r) \/ EtagMiddleware(r) \/ NoListMiddleware(r)
    \/ ApiHandlers(r) \/ FileServer(r) \/ Send(r)

ServerNext ==
    \/ Lifecycle
    \/ \E r \in Requests :
         (\E t \in Target, held \in BOOLEAN : Arrive(r, t, None, held)) \/ Handle(r)

ServerSpec == ServerInit /\ [][ServerNext]_allvars

-----------------------------------------------------------------------------
(* Properties.                                                              *)

\* The bundles built go to the directory that is served.
AllServed(c) ==
    \A i \in DOMAIN c.bundles : c.bundles[i].build => c.bundles[i].dir = c.outDir

\* The registry the process started from can be relied on: it was not loaded,
\* or every run before kept it true.
Reliable == cfg.load => clean

\* So do all runs: the registry knows names, the file server one directory.
OneDirectory == \A c \in Configs : c.outDir = cfg.outDir /\ AllServed(c)

\* An archive that is answered with an ETag is whole and is the very build that
\* ETag was computed for, although header and body are taken in two steps with
\* the purge in between, and although the registry may be that of an earlier run.
\* A query can put the ETag of another archive there.
EtagDescribesBody ==
    \A r \in Requests :
      /\ req[r] # None /\ req[r].at = "done"
      /\ req[r].body # None /\ req[r].etag # None
      /\ req[r].target.base = req[r].target.name
      /\ Reliable /\ OneDirectory /\ DistinctOutputs(cfg)
      => BuiltAs(req[r].body, req[r].etag)

\* What this run has registered is there for the asking until the purge begins.
RegisteredIsServed ==
    \A r \in Requests :
      /\ pc = "serving" /\ req[r] # None /\ req[r].at = "done"
      /\ req[r].target.name \in fresh
      /\ AllServed(cfg) /\ DistinctOutputs(cfg)
      => req[r].status # 404

\* "Graceful shutdown" (main.go:140): an orderly end of the process leaves no
\* request it had accepted without its answer.
GracefulShutdown ==
    exit = "shutdown" => \A r \in Requests : req[r] # None => req[r].at # "cut"
=============================================================================
