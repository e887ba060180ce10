--------------------------- MODULE OpaClientProofs ---------------------------
(***************************************************************************)
(* OPA's view of the server implements BundleFeed, for every set of        *)
(* configurations that serve one directory.  What the client has activated *)
(* or is about to receive is a version of an archive that was at its       *)
(* place; material only advances, so that whatever is written there later  *)
(* is no older.                                                            *)
(***************************************************************************)
EXTENDS OpaClient, BundleServerProofs

\* A version that any archive written to the place from now on will reach.
Held(v) == Recorded(v) /\ (disk[Place] # None => v <= disk[Place].etag.ver)

\* A content the client may still come to activate.
Coming(content) ==
    content # None => Held(content.etag.ver) /\ newest <= content.etag.ver

ClientInv ==
    /\ ClientTypeOK
    /\ Held(newest)
    /\ InFlight(Opa) => /\ inbox = None /\ Coming(req[Opa].body)
                        /\ req[Opa].target = Plain(Resource)
    /\ inbox # None => Coming(inbox.body)

WholeInv == BuildInv /\ VersionInv /\ ListenInv /\ ClientInv

\* The client's place is in the directory of whatever configuration is in force.
LEMMA PlaceType ==
    /\ Opa \in Requests /\ Place \in Path /\ Resource \in FileName
    /\ \A c \in Configs : c.outDir = OutDir
  BY ClientAssumption DEF Place, Path

LEMMA StepHeld ==
    ASSUME TypeInv, [Next]_vars, NEW v \in Nat, Held(v) PROVE Held(v)'
<1>1. Recorded(v)'
  BY StepRecorded DEF Held
<1>2. disk'[Place] # None => v <= disk'[Place].etag.ver
  BY StepArchive, PlaceType DEF Held, Recorded
<1> QED BY <1>1, <1>2 DEF Held

\* What is on its way stays good to activate while the process works.
LEMMA StepComing ==
    ASSUME TypeInv, [Next]_vars, newest' = newest, NEW c \in Content, Coming(c)
    PROVE  Coming(c)'
<1>1. c.etag.ver \in Nat
  BY BoundsAssumption DEF Content, Digest, Version
<1> QED BY <1>1, StepHeld DEF Coming

\* What a handler makes of its request, as far as the client can tell.
LEMMA Handled ==
    ASSUME TypeInv, ListenInv, NEW r \in Requests, Handle(r)
    PROVE  /\ InFlight(r) /\ req[r] \in Request /\ req'[r] \in Request
           /\ req'[r].target = req[r].target
           /\ \/ req'[r].at = "done" /\ req'[r].body = req[r].body
              \/ req'[r].at \in Stages /\ req'[r].body = req[r].body
              \/ /\ req'[r].at = "send" /\ req'[r].body # None
                 /\ req'[r].body = disk[<<cfg.outDir, req[r].target.name>>]
<1> DEFINE file == disk[<<cfg.outDir, req[r].target.name>>]
           Goal == /\ InFlight(r) /\ req[r] \in Request
                   /\ req'[r].target = req[r].target
                   /\ \/ req'[r].at = "done" /\ req'[r].body = req[r].body
                      \/ req'[r].at \in Stages /\ req'[r].body = req[r].body
                      \/ req'[r].at = "send" /\ req'[r].body # None /\ req'[r].body = file
<1>1. ASSUME NEW stage \in Stages, NEW next, Go(r, stage, next)
      PROVE  InFlight(r) /\ req[r] \in Request /\ req'[r] = next
  BY <1>1, HandlerFields DEF Go, At, InFlight
<1>2. ASSUME NEW stage \in Stages, NEW s, Go(r, stage, Answer(r, s))
      PROVE  Goal
  <2>1. InFlight(r) /\ req[r] \in Request /\ req'[r] = Answer(r, s)
    BY <1>1, <1>2
  <2> QED BY <2>1 DEF Answer, Request
<1>3. ASSUME NEW stage \in Stages, NEW a \in Stages, Go(r, stage, [req[r] EXCEPT !.at = a])
      PROVE  Goal
  <2>1. InFlight(r) /\ req[r] \in Request /\ req'[r] = [req[r] EXCEPT !.at = a]
    BY <1>1, <1>3
  <2> QED BY <2>1 DEF Request
<1>4. ASSUME NEW e, Go(r, "etag", [req[r] EXCEPT !.at = "nolist", !.etag = e])
      PROVE  Goal
  <2>1. /\ InFlight(r) /\ req[r] \in Request
        /\ req'[r] = [req[r] EXCEPT !.at = "nolist", !.etag = e]
    BY <1>1, <1>4 DEF Stages
  <2> QED BY <2>1 DEF Request, Stages
<1>5. ASSUME NEW b, b # None, b = file, Go(r, "handler", [req[r] EXCEPT !.at = "send", !.body = b])
      PROVE  Goal
  <2>1. /\ InFlight(r) /\ req[r] \in Request
        /\ req'[r] = [req[r] EXCEPT !.at = "send", !.body = b]
    BY <1>1, <1>5 DEF Stages
  <2>2. req'[r].at = "send" /\ req'[r].body = b /\ req'[r].target = req[r].target
    BY <2>1 DEF Request
  <2> QED BY <1>5, <2>1, <2>2
<1>6. Goal
  <2> USE DEF Stages
  <2>1. AuthZMiddleware(r) => Goal
    <3>1. Go(r, "authz", [req[r] EXCEPT !.at = "etag"]) => Goal
      BY <1>3
    <3>2. Go(r, "authz", Answer(r, 401)) => Goal
      BY <1>2
    <3> QED BY <3>1, <3>2 DEF AuthZMiddleware
  <2>2. EtagMiddleware(r) => Goal
    BY <1>4 DEF EtagMiddleware
  <2>3. NoListMiddleware(r) => Goal
    <3>1. Go(r, "nolist", [req[r] EXCEPT !.at = "handler"]) => Goal
      BY <1>3
    <3>2. Go(r, "nolist", Answer(r, 404)) => Goal
      BY <1>2
    <3> QED BY <3>1, <3>2 DEF NoListMiddleware
  <2>4. ApiHandlers(r) \/ Send(r) => Goal
    BY <1>2 DEF ApiHandlers, Send
  <2>5. FileServer(r) => Goal
    <3> SUFFICES ASSUME FileServer(r) PROVE Goal
      OBVIOUS
    <3>1. \/ \E s \in {200, 304, 404} : Go(r, "handler", Answer(r, s))
          \/ /\ file # None
             /\ Go(r, "handler", [req[r] EXCEPT !.at = "send", !.body = file])
      BY DEF FileServer
    <3> HIDE DEF Goal
    <3> QED BY <1>2, <1>5, <3>1
  <2> QED BY <2>1, <2>2, <2>3, <2>4, <2>5 DEF Handle
<1>7. req'[r] \in Request
  BY StageStep DEF RequestStep, Handed, ListenInv, ReqTypeOK
<1> QED BY <1>6, <1>7

-----------------------------------------------------------------------------
(* The invariant.                                                           *)

\* To the server a client is requests that come and go.
LEMMA ClientMoves ==
    ASSUME [ClientNext]_feedvars, ListenInv, ClientInv
    PROVE  ServerMove \/ Lose
<1>1. Poll => Asked(Opa)
  <2>1. Plain(Resource) \in Target
    BY PlaceType DEF Target, Plain
  <2>2. have \in Digest \cup {None}
    BY DEF ClientInv, ClientTypeOK
  <2> QED BY <2>1, <2>2 DEF Poll, Asked
<1> QED BY <1>1, PlaceType DEF ClientNext, ServerStep, Receive, ServerMove, RequestStep, feedvars

LEMMA LoseKeeps ==
    ASSUME ListenInv, Lose
    PROVE  UNCHANGED <<vars, listener>> /\ ListenInv' /\ ~InFlight(Opa)'
<1>1. UNCHANGED <<vars, listener>> /\ pc' = pc /\ cfg' = cfg /\ listener' = listener
  BY DEF Lose, vars
<1>2. PICK n : /\ req' = [req EXCEPT ![Opa] = n]
               /\ n = IF InFlight(Opa) THEN [req[Opa] EXCEPT !.at = "cut"] ELSE req[Opa]
  BY DEF Lose, Abandoned, ListenInv, ReqTypeOK
<1>3. n \in Request \cup {None} /\ (n = None \/ n.at \notin Stages) /\ (req[Opa] = None => n = None)
  <2>1. CASE InFlight(Opa)
    <3>1. req[Opa] \in Request
      BY <2>1, PlaceType DEF InFlight, ListenInv, ReqTypeOK
    <3>2. n \in Request
      BY <1>2, <2>1, <3>1, SetAt DEF Ends
    <3>3. n.at = "cut"
      BY <1>2, <2>1, <3>1 DEF Request
    <3> QED BY <2>1, <3>2, <3>3 DEF InFlight, Stages
  <2>2. CASE ~InFlight(Opa)
    BY <1>2, <2>2, PlaceType DEF InFlight, ListenInv, ReqTypeOK
  <2> QED BY <2>1, <2>2
<1>4. req' \in [Requests -> Request \cup {None}] /\ ~InFlight(Opa)'
  BY <1>2, <1>3, PlaceType DEF ListenInv, ReqTypeOK, InFlight
<1>5. \A r \in Requests : InFlight(r)' => InFlight(r)
  BY <1>2, <1>4, PlaceType DEF ListenInv, ReqTypeOK, InFlight
<1>6. pc \in Building \cup {"built"} => \A r \in Requests : req'[r] = None
  BY <1>2, <1>3, PlaceType DEF ListenInv, ReqTypeOK
<1> QED BY <1>1, <1>4, <1>5, <1>6 DEF ListenInv, ReqTypeOK, Up, Purging, Building

LEMMA ClientStep ==
    ASSUME BuildInv, VersionInv, ListenInv, ClientInv, [ClientNext]_feedvars
    PROVE  [Next]_vars /\ ListenInv'
<1>1. CASE ServerMove
  BY <1>1, ServerTakesSteps, StepListen
<1>2. CASE Lose
  BY <1>2, LoseKeeps
<1> QED BY <1>1, <1>2, ClientMoves

\* The archive at the place is one the client may activate.
LEMMA PlaceComing ==
    ASSUME TypeInv, VersionInv, ClientInv PROVE Coming(disk[Place])
  BY PlaceType DEF Coming, Held, VersionInv, FilesBound, ClientInv, TypeInv, TypeOK, Recorded,
     Content, Digest, Version

LEMMA ServerStepKeeps ==
    ASSUME BuildInv, VersionInv, ListenInv, ListenInv', ClientInv, ServerStep
    PROVE  ClientInv'
<1>0. /\ TypeInv /\ [Next]_vars /\ UNCHANGED client /\ newest' = newest /\ newest \in Nat
      /\ Opa \in Requests
  <2>1. ServerMove
    BY PlaceType DEF ServerStep, ServerMove, RequestStep
  <2> QED BY <2>1, ServerTakesSteps, PlaceType, BoundsAssumption
      DEF BuildInv, ServerStep, client, ClientInv, ClientTypeOK, Version
<1>1. ASSUME NEW c \in Content \cup {None}, Coming(c) PROVE Coming(c)'
  BY <1>0, <1>1, StepComing DEF Coming
<1>2. Held(newest)'
  BY <1>0, StepHeld DEF ClientInv, Held
<1>3. InFlight(Opa)' => /\ InFlight(Opa) /\ req'[Opa].target = req[Opa].target
                        /\ req'[Opa].body \in {req[Opa].body, disk[Place]}
  <2>1. CASE Lifecycle
    BY <1>0, <2>1, ProcessStep
  <2>2. CASE Handle(Opa)
    <3>1. InFlight(Opa) /\ req[Opa].target.name = Resource /\ cfg.outDir = OutDir
      <4>1. InFlight(Opa)
        BY <1>0, <2>2, Handled
      <4>2. cfg \in Configs
        BY <1>0, <4>1 DEF ListenInv, Up, Purging, TypeInv, TypeOK
      <4> QED BY <4>1, <4>2, PlaceType DEF ClientInv, Plain
    <3> QED BY <1>0, <2>2, <3>1, Handled DEF Place
  <2> QED BY <2>1, <2>2 DEF ServerStep
<1>4. InFlight(Opa)' => inbox' = None /\ Coming(req[Opa].body)'
  <2> SUFFICES ASSUME InFlight(Opa)' PROVE inbox' = None /\ Coming(req[Opa].body)'
    OBVIOUS
  <2>1. inbox' = None
    BY <1>3 DEF ServerStep, ClientInv
  <2>2. PICK b : b = req'[Opa].body
    OBVIOUS
  <2>3. b \in Content \cup {None}
    BY <1>0, <2>2 DEF InFlight, ListenInv, ReqTypeOK, Request
  <2>4. Coming(b)
    BY <1>0, <1>3, <2>2, PlaceComing DEF ClientInv
  <2>5. Coming(b)'
    BY <1>1, <2>3, <2>4
  <2> QED BY <2>1, <2>2, <2>5 DEF Coming
<1>5. inbox' # None => Coming(inbox.body)'
  <2> SUFFICES ASSUME inbox' # None PROVE Coming(inbox.body)'
    OBVIOUS
  <2>1. CASE inbox' = inbox
    <3>1. PICK b : b = inbox.body
      OBVIOUS
    <3>2. b \in Content \cup {None} /\ Coming(b)
      BY <2>1, <3>1 DEF ClientInv, ClientTypeOK, Request
    <3>3. Coming(b)'
      BY <1>1, <3>2
    <3> QED BY <2>1, <3>1, <3>3 DEF Coming
  <2>2. CASE InFlight(Opa) /\ ~InFlight(Opa)' /\ inbox' = req'[Opa]
    <3>1. req[Opa] \in Request
      BY <1>0, <2>2 DEF InFlight, ListenInv, ReqTypeOK
    <3>2. req'[Opa].body = req[Opa].body
      <4>1. CASE Lifecycle
        <5>1. req'[Opa] \in {req[Opa], [req[Opa] EXCEPT !.at = "cut"]}
          BY <1>0, <2>2, <4>1, ProcessStep
        <5> QED BY <3>1, <5>1 DEF Request
      <4>2. CASE Handle(Opa)
        BY <1>0, <2>2, <4>2, Handled DEF InFlight, Stages
      <4> QED BY <4>1, <4>2, <2>2 DEF ServerStep
    <3>3. PICK b : b = req[Opa].body
      OBVIOUS
    <3>4. b \in Content \cup {None} /\ Coming(b)
      BY <2>2, <3>1, <3>3 DEF ClientInv, Request
    <3>5. Coming(b)'
      BY <1>1, <3>4
    <3> QED BY <2>2, <3>2, <3>3, <3>5 DEF Coming
  <2> QED BY <2>1, <2>2 DEF ServerStep
<1>6. ClientTypeOK'
  <2>1. inbox' \in {inbox, req'[Opa]}
    BY DEF ServerStep
  <2>2. req'[Opa] \in Request \cup {None}
    BY <1>0 DEF ListenInv, ReqTypeOK
  <2> QED BY <1>0, <2>1, <2>2 DEF ClientInv, ClientTypeOK, client
<1> QED BY <1>2, <1>3, <1>4, <1>5, <1>6 DEF ClientInv

LEMMA ClientStepKeeps ==
    ASSUME BuildInv, VersionInv, ListenInv, ListenInv', ClientInv, Poll \/ Receive \/ Lose
    PROVE  ClientInv'
<1>0. Opa \in Requests /\ newest \in Nat
  BY PlaceType, BoundsAssumption DEF ClientInv, ClientTypeOK, Version
<1>1. CASE Poll
  <2>1. /\ UNCHANGED <<inbox, active, have, losses, newest>> /\ inbox = None
        /\ UNCHANGED <<disk, material, work>>
    BY <1>1 DEF Poll, Arrive, vars, client
  <2>2. req'[Opa].body = None /\ req'[Opa].target = Plain(Resource)
    BY <1>0, <1>1 DEF Poll, Arrive, ListenInv, ReqTypeOK
  <2> QED BY <2>1, <2>2 DEF ClientInv, ClientTypeOK, Held, Recorded, Coming
<1>2. CASE Receive
  <2>1. UNCHANGED <<disk, material, work, req, losses>> /\ inbox # None /\ inbox' = None
    BY <1>2 DEF Receive, allvars, vars
  <2>2. inbox \in Request /\ Coming(inbox.body)
    BY <2>1 DEF ClientInv, ClientTypeOK
  <2>3. Good(inbox) => /\ inbox.body \in Content /\ inbox.body # None
                       /\ inbox.body.etag.ver \in Version
    BY <2>2 DEF Good, Request, Content, Digest, Valid
  <2>4. newest' \in Version /\ Held(newest)'
    BY <1>2, <2>1, <2>2, <2>3
    DEF Receive, Held, Recorded, Coming, ClientInv, ClientTypeOK
  <2>5. active' \in Content \cup {None} /\ have' \in Digest \cup {None}
    BY <1>2, <2>2, <2>3 DEF Receive, Request, ClientInv, ClientTypeOK
  <2>6. ~InFlight(Opa)'
    BY <2>1 DEF ClientInv, InFlight
  <2> QED BY <2>1, <2>4, <2>5, <2>6 DEF ClientInv, ClientTypeOK
<1>3. CASE Lose
  <2>1. UNCHANGED <<disk, material, work>> /\ ~InFlight(Opa)'
    BY <1>3, LoseKeeps DEF vars
  <2>2. losses' \in 0..MaxLosses
    BY <1>3, ClientAssumption DEF Lose, ClientInv, ClientTypeOK
  <2> QED BY <1>3, <2>1, <2>2 DEF Lose, ClientInv, ClientTypeOK, Held, Recorded
<1> QED BY <1>1, <1>2, <1>3

LEMMA ClientInvariant == ClientSpec => [](BuildInv /\ VersionInv /\ ListenInv /\ ClientInv)
<1>1. ClientInit => Init /\ FreshInv /\ ListenInv /\ ClientInv
  <2> SUFFICES ASSUME ClientInit PROVE Init /\ FreshInv /\ ListenInv /\ ClientInv
    OBVIOUS
  <2>1. Init /\ disk[Place] = None /\ req[Opa] = None
    BY PlaceType DEF ClientInit, ServerInit, Init
  <2>2. FreshInv
    BY <2>1 DEF Init, FreshInv, FreshTrue, PositionInv, Live, Looping, Making, Named, Purging
  <2>3. ListenInv
    BY DEF ClientInit, ServerInit, Init, ListenInv, ReqTypeOK, InFlight, Building
  <2>4. ClientInv
    BY <2>1, ClientAssumption, BoundsAssumption
    DEF ClientInit, ServerInit, Init, ClientInv, ClientTypeOK, Held, Recorded, InFlight, Version
  <2> QED BY <2>1, <2>2, <2>3, <2>4
<1>2. BuildInv /\ VersionInv /\ ListenInv /\ ClientInv /\ [ClientNext]_feedvars
      => BuildInv' /\ VersionInv' /\ ListenInv' /\ ClientInv'
  <2> SUFFICES ASSUME BuildInv, VersionInv, ListenInv, ClientInv, [ClientNext]_feedvars
               PROVE  BuildInv' /\ VersionInv' /\ ListenInv' /\ ClientInv'
    OBVIOUS
  <2>1. [Next]_vars /\ ListenInv'
    BY ClientStep
  <2>2. BuildInv' /\ VersionInv'
    BY <2>1, StepType, StepFreshTrue, StepPosition, StepFileTrue, StepMemTrue,
       StepPersisting, StepWellKeyed, StepFilesBound, StepRefsBound
    DEF BuildInv, FreshInv, CleanInv, VersionInv
  <2>3. UNCHANGED feedvars => ClientInv'
    <3> SUFFICES ASSUME UNCHANGED feedvars PROVE ClientInv'
      OBVIOUS
    <3>1. /\ UNCHANGED <<disk, material, work, req, inbox, newest>>
          /\ UNCHANGED <<active, have, losses>>
      BY DEF feedvars, allvars, vars, client
    <3>2. ClientTypeOK' /\ Held(newest)' /\ (InFlight(Opa)' <=> InFlight(Opa))
      BY <3>1 DEF ClientInv, ClientTypeOK, Held, Recorded, InFlight
    <3> QED BY <3>1, <3>2 DEF ClientInv, Coming, Held, Recorded
  <2> QED BY <2>1, <2>2, <2>3, ServerStepKeeps, ClientStepKeeps DEF ClientNext
<1>3. Init => TypeInv /\ CleanInv /\ VersionInv
  BY InitType DEF Init, CleanInv, FileTrue, MemTrue, Persisting, RegistryWellKeyed, AllTrue,
     NilMap, NoFile, NoRefs, VersionInv, FilesBound, WorkBound, RefsBound
<1> QED BY <1>1, <1>2, <1>3, PTL DEF ClientSpec, BuildInv

\* Whatever the server and its process do under the client, whatever polls fail and
\* whenever it starts anew, it deals in outcomes, bundles and ETags.
THEOREM ClientTyped == ClientSpec => []ClientTypeOK
<1>1. ClientInv => ClientTypeOK
  BY DEF ClientInv
<1> QED BY <1>1, ClientInvariant, PTL

-----------------------------------------------------------------------------
(* The refinement.  The feed's variables are functions of the client's.     *)

Taken ==
    IF InFlight(Opa) THEN VersionOf(req[Opa].body)
    ELSE IF inbox # None /\ Good(inbox) THEN VersionOf(inbox.body) ELSE None

FeedPlace == VersionOf(disk[Place])

\* A step of the feed, or none, in terms of them.
FeedStep ==
    \/ Feed!Change \/ Feed!Take \/ Feed!Drop \/ Feed!Activate \/ Feed!Forget
    \/ UNCHANGED <<FeedPlace, Taken, VersionOf(active), newest>>

LEMMA FeedCases ==
    ASSUME \/ /\ FeedPlace' \in Nat \cup {None} /\ Taken' = Taken
              /\ VersionOf(active)' = VersionOf(active) /\ newest' = newest
           \/ /\ FeedPlace # None /\ Taken' = FeedPlace /\ FeedPlace' = FeedPlace
              /\ VersionOf(active)' = VersionOf(active) /\ newest' = newest
           \/ /\ Taken' = None /\ FeedPlace' = FeedPlace
              /\ VersionOf(active)' = VersionOf(active) /\ newest' = newest
           \/ /\ Taken # None /\ Taken >= newest /\ VersionOf(active)' = Taken
              /\ newest' = Taken /\ Taken' = None /\ FeedPlace' = FeedPlace
           \/ /\ VersionOf(active)' = None /\ Taken' = None
              /\ FeedPlace' = FeedPlace /\ newest' = newest
    PROVE  FeedStep
  BY DEF FeedStep, Feed!Change, Feed!Take, Feed!Drop, Feed!Activate, Feed!Forget,
         FeedPlace, Taken

LEMMA ServerFeeds ==
    ASSUME BuildInv, VersionInv, ListenInv, ListenInv', ClientInv, TypeInv', ServerStep
    PROVE  FeedStep
<1>0. /\ TypeInv /\ TypeOK' /\ [Next]_vars /\ UNCHANGED <<active, newest>> /\ Opa \in Requests
  <2>1. ServerMove
    BY PlaceType DEF ServerStep, ServerMove, RequestStep
  <2> QED BY <2>1, ServerTakesSteps, PlaceType DEF BuildInv, TypeInv, ServerStep, client
<1>1. FeedPlace' \in Nat \cup {None} /\ VersionOf(active)' = VersionOf(active)
  <2>1. disk'[Place] \in Content \cup {None}
    BY <1>0, PlaceType DEF TypeOK
  <2>2. FeedPlace' = IF Valid(disk'[Place])
                     THEN disk'[Place].etag.ver ELSE None
    BY DEF FeedPlace, VersionOf, Valid
  <2>3. FeedPlace' \in Nat \cup {None}
    BY <2>1, <2>2, BoundsAssumption DEF Content, Digest, Version, Valid
  <2> QED BY <1>0, <2>3 DEF VersionOf, Valid
<1>2. CASE ~InFlight(Opa)
  <2>1. ~InFlight(Opa)' /\ inbox' = inbox
    BY <1>0, <1>2, ProcessStep, Handled DEF ServerStep
  <2>2. Taken' = Taken
    BY <1>2, <2>1 DEF Taken
  <2> QED BY <1>0, <1>1, <2>2, FeedCases
<1>3. CASE InFlight(Opa) /\ Lifecycle
  <2>1. req[Opa] \in Request /\ Taken = VersionOf(req[Opa].body) /\ inbox = None
    BY <1>0, <1>3 DEF InFlight, ListenInv, ReqTypeOK, Taken, ClientInv
  <2>2. CASE InFlight(Opa)'
    <3>1. Taken' = Taken
      BY <1>0, <1>3, <2>1, <2>2, ProcessStep DEF Taken, VersionOf, Valid
    <3> QED BY <1>0, <1>1, <3>1, FeedCases
  <2>3. CASE ~InFlight(Opa)'
    <3>1. pc # "off" /\ pc \in Up
      BY <1>0, <1>3 DEF ListenInv, Up, Purging
    <3>2. pc' = "off" /\ req'[Opa] = [req[Opa] EXCEPT !.at = "cut"]
      BY <1>0, <1>3, <2>3, <3>1 DEF Lifecycle, AfterProcess, InFlight
    <3>3. disk' = disk
      BY <1>0, <3>1, <3>2, StepFrame
      DEF Frame, Up, Purging, Unlink, OpenOut, FillOut, PurgeFile, Return
    <3>4. inbox' = req'[Opa] /\ ~Good(req'[Opa])
      <4>1. req'[Opa].at = "cut"
        BY <2>1, <3>2 DEF Request
      <4> QED BY <1>3, <2>3, <4>1 DEF ServerStep, Good, Valid
    <3>5. Taken' = None
      <4>1. ~Good(inbox)'
        BY <3>4 DEF Good, Valid
      <4> QED BY <2>3, <4>1 DEF Taken
    <3> QED BY <1>0, <1>1, <3>3, <3>5, FeedCases DEF FeedPlace, VersionOf, Valid
  <2> QED BY <2>2, <2>3
<1>4. CASE InFlight(Opa) /\ Handle(Opa)
  <2>1. /\ req[Opa] \in Request /\ req'[Opa] \in Request
        /\ Taken = VersionOf(req[Opa].body) /\ inbox = None
        /\ cfg.outDir = OutDir /\ req[Opa].target.name = Resource /\ disk' = disk
    <3>1. cfg \in Configs
      BY <1>0, <1>4 DEF ListenInv, Up, Purging, TypeInv, TypeOK
    <3>2. UNCHANGED vars
      BY <1>0, <1>4, RequestFrame DEF RequestStep
    <3>3. req[Opa] \in Request /\ req'[Opa] \in Request
      BY <1>0, <1>4, Handled
    <3>4. inbox = None /\ req[Opa].target.name = Resource
      BY <1>4 DEF ClientInv, Plain
    <3> QED BY <1>4, <3>1, <3>2, <3>3, <3>4, PlaceType DEF Taken, vars
  <2>2. FeedPlace' = FeedPlace
    BY <2>1 DEF FeedPlace, VersionOf, Valid
  <2>3. CASE req'[Opa].at = "done" /\ req'[Opa].body = req[Opa].body
    <3>1. ~InFlight(Opa)' /\ inbox' = req'[Opa]
      BY <1>4, <2>3 DEF ServerStep, InFlight, Stages
    <3>2. Taken' = VersionOf(req'[Opa].body) \/ Taken' = None
      BY <3>1 DEF Taken, VersionOf, Valid
    <3>3. VersionOf(req'[Opa].body) = VersionOf(req[Opa].body)
      BY <2>3
    <3> QED BY <1>0, <1>1, <2>1, <2>2, <3>2, <3>3, FeedCases
  <2>4. CASE req'[Opa].at \in Stages /\ req'[Opa].body \in {req[Opa].body, disk[Place]}
    <3>1. InFlight(Opa)'
      BY <2>1, <2>4, RequestAssumption DEF InFlight
    <3>2. Taken' = VersionOf(req'[Opa].body)
      BY <3>1 DEF Taken, VersionOf, Valid
    <3>3. Taken' \in {Taken, FeedPlace}
      BY <2>1, <2>4, <3>2 DEF FeedPlace
    <3> QED BY <1>0, <1>1, <2>2, <3>3, FeedCases
  <2> QED BY <1>0, <1>4, <2>1, <2>3, <2>4, Handled DEF Place, Stages
<1> QED BY <1>2, <1>3, <1>4 DEF ServerStep

LEMMA ClientFeeds ==
    ASSUME BuildInv, ListenInv, ListenInv', ClientInv, Poll \/ Receive \/ Lose
    PROVE  FeedStep
<1>0. Opa \in Requests
  BY PlaceType
<1>1. CASE Poll
  <2>1. /\ UNCHANGED <<inbox, active, have, losses, newest, disk>> /\ inbox = None
        /\ ~InFlight(Opa)
    BY <1>1 DEF Poll, Arrive, vars, client
  <2>2. req'[Opa].body = None
    BY <1>0, <1>1 DEF Poll, Arrive, ListenInv, ReqTypeOK
  <2>3. Taken' = None
    BY <2>1, <2>2 DEF Taken, VersionOf, Valid
  <2> QED BY <2>1, <2>3, FeedCases DEF FeedPlace, VersionOf, Valid
<1>2. CASE Receive
  <2>1. UNCHANGED <<disk, req>> /\ inbox # None /\ inbox' = None
    BY <1>2 DEF Receive, allvars, vars
  <2>2. ~InFlight(Opa) /\ ~InFlight(Opa)'
    BY <2>1 DEF ClientInv, InFlight
  <2>3. Taken' = None /\ FeedPlace' = FeedPlace
    BY <2>1, <2>2 DEF Taken, FeedPlace, VersionOf, Valid
  <2>4. CASE Good(inbox)
    <3>1. /\ inbox.body \in Content /\ inbox.body # None
          /\ inbox.body.etag.ver \in Version /\ inbox.body.etag.ver \in Nat /\ newest \in Nat
      BY <2>1, <2>4, BoundsAssumption
      DEF Good, ClientInv, ClientTypeOK, Request, Content, Digest, Version, Valid
    <3>2. Taken = inbox.body.etag.ver /\ newest <= Taken
      BY <2>1, <2>2, <2>4, <3>1 DEF Taken, VersionOf, Good, ClientInv, Coming, Valid
    <3>3. /\ newest' = Taken /\ active' = inbox.body /\ VersionOf(active)' = Taken
      BY <1>2, <2>4, <3>1, <3>2 DEF Receive, VersionOf, Good, Valid
    <3>4. Taken # None
      BY <3>1, <3>2, ClientAssumption
    <3> QED BY <2>3, <3>1, <3>2, <3>3, <3>4, FeedCases
  <2>5. CASE ~Good(inbox)
    <3>1. UNCHANGED <<active, newest>>
      BY <1>2, <2>5 DEF Receive
    <3> QED BY <2>3, <3>1, FeedCases DEF VersionOf, Valid
  <2> QED BY <2>4, <2>5
<1>3. CASE Lose
  <2>1. UNCHANGED <<disk, newest>> /\ ~InFlight(Opa)' /\ inbox' = None
    BY <1>3, LoseKeeps DEF vars, Lose
  <2>2. Taken' = None /\ FeedPlace' = FeedPlace
    BY <2>1 DEF Taken, FeedPlace, VersionOf, Valid
  <2>3. VersionOf(active)' = VersionOf(active) \/ VersionOf(active)' = None
    BY <1>3 DEF Lose, VersionOf, Valid
  <2> QED BY <2>1, <2>2, <2>3, FeedCases
<1> QED BY <1>1, <1>2, <1>3

\* Whatever the server's process, its crashes, its failed builds and purges, and
\* the client's own restarts and lost answers do: the client implements the feed,
\* and so never goes back to a bundle older than one it has had.
THEOREM ClientRefines == ClientSpec => ImplementsFeed
<1>1. ClientInit => Feed!Init
  <2> SUFFICES ASSUME ClientInit PROVE Feed!Init
    OBVIOUS
  <2>1. /\ disk[Place] = None /\ req[Opa] = None /\ inbox = None
        /\ active = None /\ newest = 0
    BY PlaceType DEF ClientInit, ServerInit, Init
  <2> QED BY <2>1 DEF Feed!Init, VersionOf, InFlight, Valid
<1>2. /\ BuildInv /\ VersionInv /\ ListenInv /\ ClientInv
      /\ BuildInv' /\ [ClientNext]_feedvars
      => FeedStep
  <2> SUFFICES ASSUME BuildInv, VersionInv, ListenInv, ClientInv, BuildInv',
                      [ClientNext]_feedvars
               PROVE  FeedStep
    OBVIOUS
  <2>1. ListenInv' /\ TypeInv'
    BY ClientStep DEF BuildInv
  <2>2. CASE UNCHANGED feedvars
    <3>1. UNCHANGED <<disk, req, inbox, active, newest>>
      BY <2>2 DEF feedvars, allvars, vars, client
    <3> QED BY <3>1 DEF FeedStep, FeedPlace, Taken, VersionOf, InFlight, Good, Valid
  <2> QED BY <2>1, <2>2, ServerFeeds, ClientFeeds DEF ClientNext
<1>3. FeedStep => [Feed!Change \/ Feed!Take \/ Feed!Drop \/ Feed!Activate \/ Feed!Forget]_<<
                     FeedPlace, Taken, VersionOf(active), newest>>
  BY DEF FeedStep
<1> QED BY <1>1, <1>2, <1>3, ClientInvariant, PTL
    DEF ClientSpec, ImplementsFeed, Feed!Spec, FeedPlace, Taken
=============================================================================
