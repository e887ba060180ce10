------------------------------ MODULE OpaClient ------------------------------
(***************************************************************************)
(* OPA as the client of the bundle server (ch3-pbac/examples/bundle-server *)
(* opa-conf.yaml): it polls one resource with the ETag of its last         *)
(* download, one request at a time, activates a signed archive it has      *)
(* received whole, and keeps what it has when a poll fails.  Other         *)
(* requests change nothing a client sees, so its own is the only one here. *)
(***************************************************************************)
EXTENDS BundleServer

CONSTANTS
    Opa,            \* the request slot of the client
    Resource,       \* the file it asks for
    OutDir,         \* the directory all configurations serve
    MaxLosses       \* bound: restarts of OPA, and answers it does not wait for

ASSUME ClientAssumption ==
    /\ Requests = {Opa} /\ Resource \in FileName /\ OutDir \in Dirs
    /\ MaxLosses \in Nat /\ None \notin Version
    /\ \A c \in Configs : c.outDir = OutDir

VARIABLES
    inbox,      \* the outcome of a poll, not yet looked at
    active,     \* the bundle OPA has activated
    have,       \* the ETag that came with it
    losses,
    newest      \* history: the newest version it has ever activated

client == <<active, have, losses, newest>>
feedvars == <<allvars, inbox, client>>

ClientTypeOK ==
    /\ inbox \in Request \cup {None}
    /\ active \in Content \cup {None} /\ have \in Digest \cup {None}
    /\ losses \in 0..MaxLosses /\ newest \in Version

ClientInit ==
    /\ ServerInit
    /\ inbox = None /\ active = None /\ have = None /\ losses = 0 /\ newest = 0

-----------------------------------------------------------------------------
\* The server or its process takes a step; the end of the request, answered or
\* cut, is what OPA finds.
ServerStep ==
    /\ Lifecycle \/ Handle(Opa)
    /\ inbox' = IF InFlight(Opa) /\ ~InFlight(Opa)' THEN req'[Opa] ELSE inbox
    /\ UNCHANGED client

\* A connection that is refused leaves everything as it was.
Poll ==
    /\ inbox = None
    /\ Arrive(Opa, Plain(Resource), have, FALSE)
    /\ UNCHANGED <<inbox, client>>

\* OPA verifies the signature (with the key of its own configuration, whatever
\* key the archive names) over all that an archive is to hold: one without it, or
\* cut short when it was written or sent, is no bundle.
Valid(content) == content # None /\ content.whole /\ content.signed

Good(m) == m.at = "done" /\ m.status = 200 /\ Valid(m.body)

\* A bundle is activated; "not modified" changes nothing; after a poll that
\* fails the bundle is kept and the ETag forgotten.
Receive ==
    /\ inbox # None /\ inbox' = None
    /\ active' = IF Good(inbox) THEN inbox.body ELSE active
    /\ newest' = IF Good(inbox) THEN inbox.body.etag.ver ELSE newest
    /\ have' = CASE Good(inbox) -> inbox.etag
                 [] inbox.at = "done" /\ inbox.status = 304 -> have
                 [] OTHER -> None
    /\ UNCHANGED <<allvars, losses>>

\* What becomes of the request when its client is gone.
Abandoned == [req EXCEPT ![Opa] = IF InFlight(Opa) THEN [@ EXCEPT !.at = "cut"] ELSE @]

\* OPA does not wait any longer, or it starts anew: it persists nothing.
Lose ==
    /\ losses < MaxLosses /\ losses' = losses + 1
    /\ req' = Abandoned /\ inbox' = None /\ have' = None
    /\ active' \in {active, None}
    /\ UNCHANGED <<vars, listener, newest>>

ClientNext == ServerStep \/ Poll \/ Receive \/ Lose

\* Besides the process of Bundler, handlers run to their end and OPA goes on
\* polling; nobody has to start or stop anything.
ClientSpec ==
    /\ ClientInit /\ [][ClientNext]_feedvars
    /\ WF_feedvars(ServerStep /\ Process) /\ WF_feedvars(ServerStep /\ Handle(Opa))
    /\ WF_feedvars(Poll) /\ WF_feedvars(Receive)

-----------------------------------------------------------------------------
(* Properties.                                                              *)

Place == <<OutDir, Resource>>

VersionOf(content) == IF Valid(content) THEN content.etag.ver ELSE None

\* Through crashes, failed builds, purges and restarts on both sides, with
\* whatever registry the server has loaded, OPA activates only what was in the
\* place after it had asked, and never goes back to an older version.
Feed == INSTANCE BundleFeed WITH
    place  <- VersionOf(disk[Place]),
    taken  <- IF InFlight(Opa) THEN VersionOf(req[Opa].body)
              ELSE IF inbox # None /\ Good(inbox) THEN VersionOf(inbox.body) ELSE None,
    active <- VersionOf(active),
    last   <- newest

ImplementsFeed == Feed!Spec

\* Once the server stays up with a whole, signed archive in the place, and lets OPA's
\* requests pass, OPA comes to have that archive and keeps it, whatever it had
\* before and however far the registry, and so the ETags, are behind the files.
CatchesUp ==
    <>[](pc = "serving" /\ VersionOf(disk[Place]) # None) /\ []<>At(Opa, "etag")
      => <>[](active = disk[Place])
=============================================================================
