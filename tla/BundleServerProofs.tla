------------------------- MODULE BundleServerProofs -------------------------
(***************************************************************************)
(* Safety of the server with its requests, for every set of files it may   *)
(* be configured by and however many requests are in flight.               *)
(***************************************************************************)
EXTENDS BundleServer, BundlerRegistryProofs

\* A request comes, whatever its conditions, or moves a stage on.
Asked(r) ==
    \E t \in Target, inm \in Digest \cup {None}, held \in BOOLEAN : Arrive(r, t, inm, held)
RequestStep(r) == Asked(r) \/ Handle(r)

\* The requests leave the process alone: what is proved of it alone still holds.
LEMMA RequestFrame ==
    ASSUME NEW r \in Requests, RequestStep(r)
    PROVE  UNCHANGED <<vars, listener>>
  BY DEF RequestStep, Asked, Arrive, Handle, AuthZMiddleware, EtagMiddleware, NoListMiddleware,
         ApiHandlers, FileServer, Send, Go

\* The process moves, or a request, or nothing does.
ServerMove ==
    Lifecycle \/ (\E r \in Requests : RequestStep(r)) \/ UNCHANGED allvars

LEMMA NextMoves == [ServerNext]_allvars => ServerMove
  BY DEF ServerNext, ServerMove, RequestStep, Asked

LEMMA ServerTakesSteps == ServerMove => [Next]_vars
<1>1. Lifecycle => Next
  BY DEF Lifecycle
<1>2. ASSUME NEW r \in Requests, RequestStep(r)
      PROVE  UNCHANGED vars
  BY <1>2, RequestFrame
<1> QED BY <1>1, <1>2 DEF ServerMove, allvars

LEMMA ServerIsBundler == ServerSpec => Spec
<1>1. ServerInit => Init
  BY DEF ServerInit
<1> QED BY <1>1, ServerTakesSteps, NextMoves, PTL DEF ServerSpec, Spec

\* What BundlerProofs and its successors show of the process.
BuildInv == TypeInv /\ FreshInv /\ CleanInv

LEMMA BuildInvariant == ServerSpec => []BuildInv
<1>1. Init => FreshInv
  BY DEF Init, FreshInv, FreshTrue, PositionInv, Live, Looping, Making, Named, Purging
<1>2. TypeInv /\ FreshInv /\ [Next]_vars => FreshInv'
  BY StepFreshTrue, StepPosition DEF FreshInv
<1>3. Spec => []FreshInv
  BY <1>1, <1>2, TypeInvariant, PTL DEF Spec
<1> QED BY <1>3, ServerIsBundler, TypeInvariant, CleanInvariant, PTL DEF BuildInv

-----------------------------------------------------------------------------
(* The listener and the requests.                                           *)

Up == Purging \cup {"serving"}

ListenInv ==
    /\ ReqTypeOK
    /\ listener # "none" => pc \in Up /\ listener = IF cfg.tls THEN "tls" ELSE "plain"
    /\ \A r \in Requests : InFlight(r) => listener # "none"
    /\ pc \in Building \cup {"built"} => \A r \in Requests : req[r] = None

\* A stage works on what the one before has left.
LEMMA StageType ==
    ASSUME TypeInv, ListenInv, NEW r \in Requests, NEW stage \in Stages, At(r, stage)
    PROVE  /\ req[r] \in Request /\ listener # "none" /\ pc \in Up
           /\ cfg \in Configs /\ cfg \in Config
           /\ \A f \in FileName : <<cfg.outDir, f>> \in Path
<1>1. req[r] \in Request /\ InFlight(r)
  BY DEF At, InFlight, ListenInv, ReqTypeOK
<1>2. listener # "none" /\ pc \in Up
  BY <1>1 DEF ListenInv
<1>3. cfg \in Configs /\ cfg \in Config
  BY <1>2, ConfigsAssumption DEF TypeInv, TypeOK, Up, Purging
<1> QED BY <1>1, <1>2, <1>3 DEF Config, Path

\* Requests stay requests when a field is set.
LEMMA SetAt ==
    ASSUME NEW q \in Request, NEW a \in Stages \cup Ends
    PROVE  [q EXCEPT !.at = a] \in Request
  BY DEF Request

LEMMA AnswerType ==
    ASSUME NEW r, req[r] \in Request, NEW s \in {200, 304, 401, 404}
    PROVE  Answer(r, s) \in Request
<1> DEFINE p == [req[r] EXCEPT !.at = "done"]
<1>1. Answer(r, s) = [p EXCEPT !.status = s]
  BY DEF Answer, Request
<1>2. p \in Request
  BY SetAt DEF Ends
<1> HIDE DEF p
<1>3. [p EXCEPT !.status = s] \in Request
  BY <1>2 DEF Request
<1> QED BY <1>1, <1>3

LEMMA SetEtag ==
    ASSUME NEW q \in Request, NEW a \in Stages \cup Ends, NEW e \in Digest \cup {None}
    PROVE  [q EXCEPT !.at = a, !.etag = e] \in Request
<1> DEFINE p == [q EXCEPT !.at = a]
<1>1. [q EXCEPT !.at = a, !.etag = e] = [p EXCEPT !.etag = e]
  BY DEF Request
<1>2. p \in Request
  BY SetAt
<1> HIDE DEF p
<1>3. [p EXCEPT !.etag = e] \in Request
  BY <1>2 DEF Request
<1> QED BY <1>1, <1>3

LEMMA SetBody ==
    ASSUME NEW q \in Request, NEW a \in Stages \cup Ends, NEW b \in Content \cup {None}
    PROVE  [q EXCEPT !.at = a, !.body = b] \in Request
<1> DEFINE p == [q EXCEPT !.at = a]
<1>1. [q EXCEPT !.at = a, !.body = b] = [p EXCEPT !.body = b]
  BY DEF Request
<1>2. p \in Request
  BY SetAt
<1> HIDE DEF p
<1>3. [p EXCEPT !.body = b] \in Request
  BY <1>2 DEF Request
<1> QED BY <1>1, <1>3

\* A stage hands on a request, or has its answer.
Handed(r) == listener # "none" /\ \E next \in Request : req' = [req EXCEPT ![r] = next]

LEMMA GoStep ==
    ASSUME TypeInv, ListenInv, NEW r \in Requests, NEW stage \in Stages,
           NEW next \in Request, Go(r, stage, next)
    PROVE  Handed(r)
  BY StageType DEF Go, Handed

LEMMA AnswerStep ==
    ASSUME TypeInv, ListenInv, NEW r \in Requests, NEW stage \in Stages,
           NEW s \in {200, 304, 401, 404}, Go(r, stage, Answer(r, s))
    PROVE  Handed(r)
<1>1. req[r] \in Request
  BY StageType DEF Go
<1>2. Answer(r, s) \in Request
  BY <1>1, AnswerType
<1> QED BY <1>2, GoStep

LEMMA PassStep ==
    ASSUME TypeInv, ListenInv, NEW r \in Requests, NEW stage \in Stages,
           NEW a \in Stages, Go(r, stage, [req[r] EXCEPT !.at = a])
    PROVE  Handed(r)
<1>1. req[r] \in Request
  BY StageType DEF Go
<1>2. [req[r] EXCEPT !.at = a] \in Request
  BY <1>1, SetAt
<1> QED BY <1>2, GoStep

LEMMA StageStep ==
    ASSUME TypeInv, ListenInv, NEW r \in Requests,
           RequestStep(r)
    PROVE  Handed(r)
<1> USE DEF Stages
<1>1. ASSUME NEW t \in Target, NEW i \in Digest \cup {None}, NEW h \in BOOLEAN, Arrive(r, t, i, h)
      PROVE  Handed(r)
  <2> DEFINE n == [at |-> IF cfg.authz THEN "authz" ELSE "etag", target |-> t,
                   inm |-> i, held |-> h, etag |-> None, body |-> None, status |-> 200]
  <2>1. n \in Request
    BY DEF Request
  <2> QED BY <1>1, <2>1 DEF Arrive, Handed
<1>2. CASE AuthZMiddleware(r)
  <2>1. CASE Go(r, "authz", [req[r] EXCEPT !.at = "etag"])
    BY <2>1, PassStep
  <2>2. CASE Go(r, "authz", Answer(r, 401))
    BY <2>2, AnswerStep
  <2> QED BY <1>2, <2>1, <2>2 DEF AuthZMiddleware
<1>3. CASE EtagMiddleware(r)
  <2> DEFINE t == req[r].target
             e == IF cfg.etag /\ t.base # None /\ mem.refs[t.base] # None
                  THEN mem.refs[t.base].etag ELSE None
  <2>1. Go(r, "etag", [req[r] EXCEPT !.at = "nolist", !.etag = e])
    BY <1>3 DEF EtagMiddleware
  <2>2. req[r] \in Request /\ t \in Target
    BY <2>1, StageType DEF Request, Go
  <2>3. e \in Digest \cup {None}
    <3>1. t.base # None => t.base \in FileName
      BY <2>2 DEF Target
    <3>2. \A f \in FileName : mem.refs[f] # None => mem.refs[f].etag \in Digest
      BY EntryType DEF TypeInv, Ref
    <3> QED BY <3>1, <3>2
  <2> HIDE DEF e
  <2>4. [req[r] EXCEPT !.at = "nolist", !.etag = e] \in Request
    BY <2>2, <2>3, SetEtag
  <2> QED BY <2>1, <2>4, GoStep
<1>4. CASE NoListMiddleware(r)
  BY <1>4, AnswerStep, PassStep DEF NoListMiddleware
<1>5. CASE ApiHandlers(r)
  BY <1>5, AnswerStep DEF ApiHandlers
<1>6. CASE FileServer(r)
  <2> DEFINE t == req[r].target
             file == disk[<<cfg.outDir, t.name>>]
  <2>1. req[r] \in Request /\ t \in Target
    BY <1>6, StageType DEF Request, FileServer
  <2>2. t.kind = "file" => file \in Content \cup {None}
    BY <1>6, <2>1, StageType DEF FileServer, Target, TypeInv, TypeOK
  <2>3. file \in Content => [req[r] EXCEPT !.at = "send", !.body = file] \in Request
    BY <2>1, SetBody
  <2>4. \/ \E s \in {200, 304, 404} : Go(r, "handler", Answer(r, s))
        \/ /\ file \in Content
           /\ Go(r, "handler", [req[r] EXCEPT !.at = "send", !.body = file])
    BY <1>6, <2>2 DEF FileServer
  <2> QED BY <2>3, <2>4, GoStep, AnswerStep
<1>7. CASE Send(r)
  BY <1>7, AnswerStep DEF Send
<1> QED BY <1>1, <1>2, <1>3, <1>4, <1>5, <1>6, <1>7 DEF RequestStep, Asked, Handle

\* What the process's own steps make of a request.
LEMMA ProcessStep ==
    ASSUME Lifecycle, NEW r \in Requests
    PROVE  /\ req'[r] \in {None, req[r], [req[r] EXCEPT !.at = "cut"]}
           /\ pc = "off" => req'[r] = None
           /\ req[r] = None => req'[r] = None
           /\ InFlight(r)' => pc' # "off" /\ req'[r] = req[r] /\ InFlight(r)
           /\ req'[r] # None /\ req'[r].at = "done" => req'[r] = req[r]
<1>1. req'[r] = IF pc = "off" THEN None
                ELSE IF pc' = "off" /\ InFlight(r) THEN [req[r] EXCEPT !.at = "cut"]
                ELSE req[r]
  BY DEF Lifecycle, AfterProcess
<1>2. InFlight(r) => [req[r] EXCEPT !.at = "cut"].at = "cut"
  BY DEF InFlight
<1> QED BY <1>1, <1>2 DEF InFlight, Stages

\* The type of a request that is looked at, done or in flight.
LEMMA StepListen == BuildInv /\ ListenInv /\ ServerMove => ListenInv'
<1> SUFFICES ASSUME BuildInv, ListenInv, ServerMove PROVE ListenInv'
  OBVIOUS
<1>0. TypeInv /\ TypeInv' /\ TypeOK /\ Phases
  BY ServerTakesSteps, StepType, StepPhases DEF BuildInv, FreshInv, TypeInv
<1>1. CASE Lifecycle
  <2>1. req' \in [Requests -> Request \cup {None}]
    <3>1. ASSUME NEW r \in Requests PROVE req'[r] \in Request \cup {None}
      <4>1. req[r] # None => [req[r] EXCEPT !.at = "cut"] \in Request
        BY SetAt DEF ListenInv, ReqTypeOK, Ends
      <4> QED BY <1>1, <4>1, ProcessStep DEF ListenInv, ReqTypeOK, Lifecycle, AfterProcess
    <3>2. req' = AfterProcess
      BY <1>1 DEF Lifecycle
    <3> QED BY <3>1, <3>2 DEF AfterProcess
  <2>2. /\ listener' # "none" => pc' \in Up /\ listener' = IF cfg'.tls THEN "tls" ELSE "plain"
        /\ pc' # "off" /\ listener # "none" => listener' = listener
        /\ listener' \in {"none", "tls", "plain"}
    <3>1. CASE pc = "built" /\ pc' = "serving"
      BY <1>0, <1>1, <3>1 DEF Lifecycle, Listen, Phases, Up, ListenInv, ReqTypeOK, Purging
    <3>2. CASE pc' = "off"
      BY <1>1, <3>2 DEF Lifecycle, Listen
    <3>3. CASE ~(pc = "built" /\ pc' = "serving") /\ pc' # "off"
      <4>1. listener' = listener
        BY <1>1, <3>3 DEF Lifecycle, Listen
      <4>2. listener # "none" => pc' \in Up /\ cfg' = cfg
        <5>1. pc' \in PCs
          BY <1>0 DEF TypeInv, TypeOK
        <5> QED BY <1>0, <3>3, <5>1
            DEF Phases, Up, ListenInv, Purging, Building, PCs
      <4> QED BY <4>1, <4>2 DEF ListenInv, ReqTypeOK
    <3> QED BY <3>1, <3>2, <3>3
  <2>3. \A r \in Requests : InFlight(r)' => listener' # "none"
    BY <1>1, <2>2, ProcessStep DEF ListenInv
  <2>4. pc' \in Building \cup {"built"} => \A r \in Requests : req'[r] = None
    BY <1>0, <1>1, ProcessStep DEF ListenInv, Phases
  <2> QED BY <2>1, <2>2, <2>3, <2>4 DEF ListenInv, ReqTypeOK
<1>2. ASSUME NEW r \in Requests, RequestStep(r)
      PROVE  ListenInv'
  <2>1. UNCHANGED <<vars, listener>> /\ pc' = pc /\ cfg' = cfg /\ listener' = listener
    BY <1>2, RequestFrame DEF vars
  <2>2. listener # "none" /\ \E next \in Request : req' = [req EXCEPT ![r] = next]
    BY <1>0, <1>2, StageStep DEF Handed
  <2> QED BY <2>1, <2>2 DEF ListenInv, ReqTypeOK, InFlight, Up, Purging, Building
<1>3. CASE UNCHANGED allvars
  BY <1>3 DEF allvars, vars, ListenInv, ReqTypeOK, InFlight
<1> QED BY <1>1, <1>2, <1>3 DEF ServerMove

LEMMA ListenInvariant == ServerSpec => []ListenInv
<1>1. ServerInit => ListenInv
  BY DEF ServerInit, Init, ListenInv, ReqTypeOK, InFlight, Building
<1> QED BY <1>1, StepListen, NextMoves, BuildInvariant, PTL DEF ServerSpec

\* Whatever is asked for, when it comes and where the process ends under it, the
\* handlers deal in requests, ETags and contents of the right kind.
THEOREM RequestsTyped == ServerSpec => []ReqTypeOK
<1>1. ListenInv => ReqTypeOK
  BY DEF ListenInv
<1> QED BY <1>1, ListenInvariant, PTL

-----------------------------------------------------------------------------
(* What was registered is served.                                           *)

\* What the map points to was written for one of the bundles of the run.
FreshPlaced ==
    pc \in Live => \A f \in fresh : \E b \in BundleConfig :
      /\ \E j \in DOMAIN cfg.bundles : b = cfg.bundles[j]
      /\ WrittenTo(b, mem.refs[f].path)

LEMMA StepPlaced == BuildInv /\ FreshPlaced /\ [Next]_vars => FreshPlaced'
<1> SUFFICES ASSUME BuildInv, FreshPlaced, [Next]_vars, pc' \in Live, NEW f \in fresh'
             PROVE  \E b \in BundleConfig :
                      /\ \E j \in DOMAIN cfg'.bundles : b = cfg'.bundles[j]
                      /\ WrittenTo(b, mem'.refs[f].path)
  BY DEF FreshPlaced
<1>0. TypeInv /\ PositionInv /\ TypeOK /\ LoopInv /\ Phases
  BY StepPhases DEF BuildInv, FreshInv, TypeInv
<1>1. CASE pc \in Live /\ UNCHANGED <<cfg, mem, fresh>>
  BY <1>1 DEF FreshPlaced
<1>2. CASE Register
  <2>1. /\ pc = "register" /\ cfg' = cfg /\ fresh' = fresh \cup {work.name}
        /\ mem' = [mem EXCEPT !.refs[work.name] = RefOf(work)]
        /\ work.name \in FileName /\ mem \in Registry /\ fresh \subseteq FileName
    BY <1>0, <1>2 DEF Register, TypeOK, LoopInv, Named, control
  <2>2. mem'.refs[f] = IF f = work.name THEN RefOf(work) ELSE mem.refs[f]
    BY <2>1 DEF Registry
  <2>3. CASE f = work.name
    <3>1. mem'.refs[f].path = work.path /\ WrittenTo(Current, work.path)
      BY <1>0, <2>1, <2>2, <2>3 DEF RefOf, PositionInv, Named
    <3>2. Current \in BundleConfig /\ idx \in DOMAIN cfg.bundles
      <4>1. cfg.bundles \in Seq(BundleConfig)
        BY <1>0, <2>1, ConfigsAssumption DEF TypeOK, Config
      <4>2. idx \in 1..Len(cfg.bundles)
        BY <1>0, <2>1, <4>1 DEF TypeOK, LoopInv, Making
      <4> QED BY <4>1, <4>2 DEF Current
    <3> QED BY <2>1, <3>1, <3>2 DEF Current
  <2>4. CASE f # work.name
    BY <2>1, <2>2, <2>4 DEF FreshPlaced, Live, PCs, Building, Purging
  <2> QED BY <2>3, <2>4
<1> QED BY <1>0, <1>1, <1>2 DEF Phases

\* Where bundles are served from the directory they are built to, a registered
\* name is a file of that directory.
LEMMA FreshServed ==
    ASSUME BuildInv, FreshPlaced, pc = "serving", AllServed(cfg), DistinctOutputs(cfg),
           NEW f \in fresh
    PROVE  f \in FileName /\ disk[<<cfg.outDir, f>>] # None
<1>1. pc \in Live /\ f \in FileName
  BY DEF Live, PCs, Purging, BuildInv, TypeInv, TypeOK
<1>2. mem.refs[f] # None /\ True(mem.refs[f])
  BY <1>1 DEF BuildInv, FreshInv, FreshTrue
<1>3. mem.refs[f].path[1] = cfg.outDir
  BY <1>1 DEF FreshPlaced, WrittenTo, AllServed
<1>4. mem.refs[f].path \in Path /\ mem.refs[f].path[2] = f
  BY <1>1, <1>2, EntryType DEF BuildInv, TypeInv, CleanInv, RegistryWellKeyed, Ref
<1>5. mem.refs[f].path = <<cfg.outDir, f>>
  BY <1>3, <1>4 DEF Path
<1> QED BY <1>1, <1>2, <1>5 DEF True, BuiltAs

\* The answer "not found" has one of two reasons.
LEMMA NotFound ==
    ASSUME TypeInv, ListenInv, NEW r \in Requests, Handle(r),
           req'[r].at = "done", req'[r].status = 404
    PROVE  LET t == req[r].target
           IN  /\ t \in Target /\ req'[r].target = t
               /\ t.kind = "slash" \/ disk[<<cfg.outDir, t.name>>] = None
<1> USE DEF Stages
<1>0. ASSUME NEW stage \in Stages, NEW next, Go(r, stage, next)
      PROVE  req'[r] = next /\ req[r] \in Request /\ req[r].target \in Target
  <2>1. req[r] \in Request
    BY <1>0, StageType DEF Go
  <2>2. req'[r] = next
    BY <1>0 DEF Go, ListenInv, ReqTypeOK
  <2> QED BY <2>1, <2>2 DEF Request
<1>1. ASSUME NEW s, req[r] \in Request
      PROVE  Answer(r, s).target = req[r].target /\ Answer(r, s).status = s
  BY <1>1 DEF Answer, Request
<1>2. ASSUME NEW stage \in Stages, NEW a \in Stages, Go(r, stage, [req[r] EXCEPT !.at = a])
      PROVE  FALSE
  <2>1. req[r] \in Request /\ req'[r] = [req[r] EXCEPT !.at = a]
    BY <1>0, <1>2
  <2> QED BY <2>1 DEF Request
<1>3. ~AuthZMiddleware(r)
  <2>1. ~Go(r, "authz", [req[r] EXCEPT !.at = "etag"])
    BY <1>2
  <2>2. ~Go(r, "authz", Answer(r, 401))
    BY <1>0, <1>1
  <2> QED BY <2>1, <2>2 DEF AuthZMiddleware
<1>4. ~EtagMiddleware(r)
  <2> SUFFICES ASSUME EtagMiddleware(r) PROVE FALSE
    OBVIOUS
  <2> DEFINE t == req[r].target
             e == IF cfg.etag /\ t.base # None /\ mem.refs[t.base] # None
                  THEN mem.refs[t.base].etag ELSE None
  <2>1. Go(r, "etag", [req[r] EXCEPT !.at = "nolist", !.etag = e])
    BY DEF EtagMiddleware
  <2> HIDE DEF e
  <2>2. req[r] \in Request /\ req'[r] = [req[r] EXCEPT !.at = "nolist", !.etag = e]
    BY <1>0, <2>1
  <2>3. req'[r].at = "nolist"
    BY <2>2 DEF Request
  <2> QED BY <2>3
<1>5. NoListMiddleware(r) => req[r].target.kind = "slash" /\ req[r].target \in Target
                             /\ req'[r].target = req[r].target
  <2>1. ~Go(r, "nolist", [req[r] EXCEPT !.at = "handler"])
    BY <1>2
  <2> QED BY <1>0, <1>1, <2>1 DEF NoListMiddleware
<1>6. ~ApiHandlers(r) /\ ~Send(r)
  BY <1>0, <1>1 DEF ApiHandlers, Send
<1>7. ASSUME FileServer(r)
      PROVE  /\ req[r].target \in Target /\ req'[r].target = req[r].target
             /\ disk[<<cfg.outDir, req[r].target.name>>] = None
  <2> DEFINE file == disk[<<cfg.outDir, req[r].target.name>>]
  <2>1. \/ file = None /\ Go(r, "handler", Answer(r, 404))
        \/ \E s \in {200, 304} : Go(r, "handler", Answer(r, s))
        \/ Go(r, "handler", [req[r] EXCEPT !.at = "send", !.body = file])
    BY <1>7 DEF FileServer
  <2>2. ~Go(r, "handler", [req[r] EXCEPT !.at = "send", !.body = file])
    <3> SUFFICES ASSUME Go(r, "handler", [req[r] EXCEPT !.at = "send", !.body = file])
                 PROVE  FALSE
      OBVIOUS
    <3>1. req[r] \in Request /\ req'[r] = [req[r] EXCEPT !.at = "send", !.body = file]
      BY <1>0
    <3> HIDE DEF file
    <3>2. req'[r].at = "send"
      BY <3>1 DEF Request
    <3> QED BY <3>2
  <2>3. \A s \in {200, 304} : ~Go(r, "handler", Answer(r, s))
    BY <1>0, <1>1
  <2> QED BY <1>0, <1>1, <2>1, <2>2, <2>3
<1> QED BY <1>3, <1>4, <1>5, <1>6, <1>7 DEF Handle

LEMMA StepRegistered ==
    BuildInv /\ FreshPlaced /\ ListenInv /\ RegisteredIsServed /\ ServerMove
      => RegisteredIsServed'
<1> SUFFICES ASSUME BuildInv, FreshPlaced, ListenInv, RegisteredIsServed,
                    ServerMove, NEW r \in Requests,
                    pc' = "serving", req'[r] # None, req'[r].at = "done",
                    req'[r].target.name \in fresh', AllServed(cfg)', DistinctOutputs(cfg)'
             PROVE  req'[r].status # 404
  BY DEF RegisteredIsServed
<1>0. TypeInv /\ Phases
  BY ServerTakesSteps, StepPhases DEF BuildInv, FreshInv
<1>1. CASE Lifecycle
  <2>1. req'[r] = req[r] /\ req[r] # None
    BY <1>1, ProcessStep
  <2>2. pc \in Idle /\ cfg' = cfg /\ fresh' = fresh
    BY <1>0 DEF Phases
  <2>3. pc = "serving"
    BY <2>1, <2>2 DEF ListenInv, Idle
  <2> QED BY <2>1, <2>2, <2>3 DEF RegisteredIsServed, AllServed, DistinctOutputs
<1>2. ASSUME NEW q \in Requests, RequestStep(q)
      PROVE  req'[r].status # 404
  <2>1. /\ pc' = pc /\ cfg' = cfg /\ fresh' = fresh /\ disk' = disk
        /\ AllServed(cfg) /\ DistinctOutputs(cfg)
    BY <1>2, RequestFrame DEF vars, AllServed, DistinctOutputs
  <2>2. \E next \in Request : req' = [req EXCEPT ![q] = next]
    BY <1>0, <1>2, StageStep DEF Handed
  <2>3. CASE q # r
    BY <2>1, <2>2, <2>3 DEF RegisteredIsServed
  <2>4. CASE q = r /\ Asked(q)
    BY <2>4 DEF Asked, Arrive, ListenInv, ReqTypeOK
  <2>5. CASE q = r /\ Handle(r)
    <3> SUFFICES ASSUME req'[r].status = 404 PROVE FALSE
      OBVIOUS
    <3> DEFINE t == req[r].target
    <3>1. /\ t \in Target /\ t.name \in fresh
          /\ t.kind = "slash" \/ disk[<<cfg.outDir, t.name>>] = None
      BY <1>0, <2>1, <2>5, NotFound
    <3>2. t.name \in FileName /\ disk[<<cfg.outDir, t.name>>] # None
      BY <2>1, <3>1, FreshServed
    <3>3. t.kind # "slash"
      BY <3>1, <3>2, NoneAssumption DEF Target
    <3> QED BY <3>1, <3>2, <3>3
  <2> QED BY <1>2, <2>3, <2>4, <2>5 DEF RequestStep
<1>3. CASE UNCHANGED allvars
  BY <1>3 DEF allvars, vars, RegisteredIsServed, AllServed, DistinctOutputs
<1> QED BY <1>1, <1>2, <1>3 DEF ServerMove

\* A server whose bundles go to the directory it serves, to a file each, finds
\* every bundle of this run that is asked for until the purge begins.
THEOREM RegisteredServed == ServerSpec => []RegisteredIsServed
<1>1. ServerInit => FreshPlaced /\ RegisteredIsServed
  BY DEF ServerInit, Init, FreshPlaced, RegisteredIsServed
<1>2. BuildInv /\ FreshPlaced /\ ServerMove => FreshPlaced'
  BY StepPlaced, ServerTakesSteps
<1> QED BY <1>1, <1>2, StepRegistered, NextMoves, BuildInvariant, ListenInvariant, PTL DEF ServerSpec

-----------------------------------------------------------------------------
(***************************************************************************)
(* ETags describe bodies.  The map is true once the build is over: a map   *)
(* that was loaded because no run before has failed, one that was made     *)
(* because its entries are this run's own.  The purge can only remove what *)
(* the map points to, and nothing writes the map after the build.          *)
(***************************************************************************)

\* An archive is not there, or is the one a reference describes.
GoneOrTrue(r) == disk[r.path] = None \/ True(r)

\* A map that was not loaded has this run's own entries only; ...
MapOwn ==
    ~cfg.load /\ pc \in Live => \A f \in FileName : mem.refs[f] # None => f \in fresh

\* ... the map is true while the server is up, but for what the purge removed; ...
MapServed ==
    pc \in Up \cup {"built"} /\ Reliable /\ DistinctOutputs(cfg)
      => \A f \in FileName : mem.refs[f] # None => GoneOrTrue(mem.refs[f])

\* ... and points into the one directory there is, as the registry file does.
Placed ==
    (\A c, d \in Configs : c.outDir = d.outDir /\ AllServed(c))
      => \A f \in FileName : \A r \in {mem.refs[f], regFile.reg.refs[f]} :
           r # None => \A c \in Configs : r.path[1] = c.outDir

MapInv == MapOwn /\ MapServed /\ Placed

LEMMA StepOwn == BuildInv /\ MapOwn /\ [Next]_vars => MapOwn'
<1> SUFFICES ASSUME BuildInv, MapOwn, [Next]_vars PROVE MapOwn'
  OBVIOUS
<1>0. TypeOK /\ LoopInv
  BY DEF BuildInv, TypeInv
<1>a. \A f \in FileName : NilMap.refs[f] = None /\ EmptyMap.refs[f] = None
  BY DEF NilMap, EmptyMap, NoRefs
<1> USE DEF MapOwn, Live, PCs, Building, Purging, env, files, control, history
<1>1. CASE Tick
  BY <1>0, <1>a, <1>1 DEF Tick
<1>2. CASE Edit
  BY <1>0, <1>a, <1>2 DEF Edit
<1>3. ASSUME NEW c \in Configs, Start(c) PROVE MapOwn'
  BY <1>0, <1>a, <1>3 DEF Start
<1>4. CASE LoadRegistry
  BY <1>0, <1>a, <1>4 DEF LoadRegistry, Loaded
<1>5. CASE NextBundle
  BY <1>0, <1>a, <1>5 DEF NextBundle, Return
<1>6. CASE Collect
  BY <1>0, <1>a, <1>6 DEF Collect, Return
<1>7. CASE Sign
  BY <1>0, <1>a, <1>7 DEF Sign, Return
<1>8. CASE StampPath
  BY <1>0, <1>a, <1>8 DEF StampPath
<1>9. CASE StampName
  BY <1>0, <1>a, <1>9 DEF StampName, Return
<1>10. CASE Unlink
  BY <1>0, <1>a, <1>10 DEF Unlink
<1>11. CASE OpenOut
  BY <1>0, <1>a, <1>11 DEF OpenOut, Return
<1>12. CASE FillOut
  BY <1>0, <1>a, <1>12 DEF FillOut, Return
<1>13. CASE Register
  <2>1. work.name \in FileName /\ mem \in Registry /\ pc \in Live
        /\ mem' = [mem EXCEPT !.refs[work.name] = RefOf(work)]
    BY <1>0, <1>13 DEF Register, TypeOK, LoopInv, Named
  <2>2. \A f \in FileName : f # work.name => mem'.refs[f] = mem.refs[f]
    BY <2>1 DEF Registry
  <2> QED BY <1>13, <2>1, <2>2 DEF Register
<1>14. CASE NilMapPanic
  BY <1>0, <1>a, <1>14 DEF NilMapPanic, Exit
<1>15. CASE PersistRemove
  BY <1>0, <1>a, <1>15 DEF PersistRemove
<1>16. CASE PersistCreate
  BY <1>0, <1>a, <1>16 DEF PersistCreate, Return
<1>17. CASE PersistStore
  BY <1>0, <1>a, <1>17 DEF PersistStore, Return
<1>18. CASE Serve
  BY <1>0, <1>a, <1>18 DEF Serve, Exit
<1>19. CASE PurgeList
  BY <1>0, <1>a, <1>19 DEF PurgeList
<1>20. CASE PurgeFile
  BY <1>0, <1>a, <1>20 DEF PurgeFile
<1>21. CASE PurgeFilesDone
  BY <1>0, <1>a, <1>21 DEF PurgeFilesDone
<1>22. CASE PurgeRegistry
  BY <1>0, <1>a, <1>22 DEF PurgeRegistry, Exit
<1>23. CASE Signal
  BY <1>0, <1>a, <1>23 DEF Signal, Exit
<1>24. CASE Kill
  BY <1>0, <1>a, <1>24 DEF Kill, Exit
<1>25. CASE UNCHANGED vars
  BY <1>0, <1>a, <1>25 DEF vars
<1> QED
  BY <1>1, <1>2, <1>3, <1>4, <1>5, <1>6, <1>7, <1>8, <1>9, <1>10, <1>11, <1>12, <1>13, <1>14, <1>15, <1>16, <1>17, <1>18, <1>19, <1>20, <1>21, <1>22, <1>23, <1>24, <1>25 DEF Next, Process

LEMMA StepServed ==
    ASSUME BuildInv, BuildInv', MapInv, MapOwn', [Next]_vars
    PROVE  MapServed'
<1> SUFFICES ASSUME pc' \in Up \cup {"built"}, Reliable', DistinctOutputs(cfg)',
                    NEW f \in FileName, mem'.refs[f] # None
             PROVE  (GoneOrTrue(mem.refs[f]))'
  BY DEF MapServed
<1>0. TypeInv /\ Phases /\ Frame /\ CleanInv' /\ FreshTrue'
  BY StepPhases, StepFrame DEF BuildInv, FreshInv
<1>1. CASE pc' \in Idle
  <2>1. CASE cfg'.load
    BY <1>0, <1>1, <2>1
    DEF Reliable, CleanInv, MemTrue, Idle, Replaced, Purging, GoneOrTrue, True
  <2>2. CASE ~cfg'.load
    <3>1. pc' \in Live /\ f \in fresh'
      BY <1>1, <2>2 DEF MapOwn, Idle, Live, PCs, Building, Purging
    <3> QED BY <1>0, <3>1 DEF FreshTrue, GoneOrTrue, True
  <2> QED BY <2>1, <2>2
<1>2. CASE pc' \in Purging
  <2>1. /\ pc \in Purging \cup {"serving"} /\ cfg' = cfg /\ mem' = mem /\ (clean' => clean)
    BY <1>0, <1>2 DEF Phases
  <2>2. mem.refs[f] \in Ref /\ mem.refs[f].path \in Path
    BY <1>0, <2>1, EntryType DEF TypeInv, Ref
  <2>3. GoneOrTrue(mem.refs[f])
    BY <2>1 DEF MapInv, MapServed, Up, Reliable, DistinctOutputs
  <2>4. disk'[mem.refs[f].path] \in {None, disk[mem.refs[f].path]}
    BY <1>0, <2>1, <2>2
    DEF Frame, Unlink, OpenOut, FillOut, PurgeFile, Purging, TypeInv, TypeOK
  <2> QED BY <2>1, <2>3, <2>4 DEF GoneOrTrue, True
<1> QED BY <1>1, <1>2 DEF Up, Idle

LEMMA StepPlace ==
    ASSUME BuildInv, Placed, [Next]_vars PROVE Placed'
<1> SUFFICES ASSUME \A c, d \in Configs : c.outDir = d.outDir /\ AllServed(c),
                    NEW f \in FileName, NEW r \in {mem'.refs[f], regFile'.reg.refs[f]},
                    r # None, NEW c \in Configs
             PROVE  r.path[1] = c.outDir
  BY DEF Placed, AllServed
<1>0. TypeInv /\ TypeOK /\ LoopInv /\ PositionInv
  BY DEF BuildInv, FreshInv, TypeInv
<1>1. CASE r \in {mem.refs[f], regFile.reg.refs[f]}
  BY <1>1 DEF Placed
<1>2. CASE Register /\ r = RefOf(work)
  <2>1. r.path = work.path /\ pc = "register" /\ cfg \in Configs
    BY <1>0, <1>2 DEF Register, RefOf, TypeOK
  <2>2. WrittenTo(Current, work.path) /\ idx \in DOMAIN cfg.bundles
    <3>1. cfg.bundles \in Seq(BundleConfig)
      BY <2>1, ConfigsAssumption DEF Config
    <3> QED BY <1>0, <2>1, <3>1 DEF TypeOK, LoopInv, PositionInv, Named, Making
  <2>3. AllServed(cfg) /\ cfg.outDir = c.outDir
    BY <2>1
  <2> QED BY <2>1, <2>2, <2>3 DEF WrittenTo, Current, AllServed
<1> QED BY <1>0, <1>1, <1>2, StepEntries

\* Hence what a request finds in the served directory is what its ETag describes.
LEMMA MapDescribes ==
    ASSUME BuildInv, MapInv, pc \in Up, Reliable, OneDirectory, DistinctOutputs(cfg),
           NEW f \in FileName, mem.refs[f] # None, disk[<<cfg.outDir, f>>] # None
    PROVE  BuiltAs(disk[<<cfg.outDir, f>>], mem.refs[f].etag)
<1>1. cfg \in Configs
  BY DEF Up, Purging, BuildInv, TypeInv, TypeOK
<1>2. mem.refs[f].path[1] = cfg.outDir
  BY <1>1 DEF MapInv, Placed, OneDirectory
<1>3. mem.refs[f].path \in Path /\ mem.refs[f].path[2] = f
  BY EntryType DEF BuildInv, TypeInv, CleanInv, RegistryWellKeyed, Ref
<1>4. mem.refs[f].path = <<cfg.outDir, f>>
  BY <1>2, <1>3 DEF Path
<1> QED BY <1>4 DEF MapInv, MapServed, GoneOrTrue, True

\* The headers and the body a request has at each stage.
TagInv(r) ==
    req[r] # None =>
      /\ req[r].at \in {"authz", "etag"} => req[r].etag = None
      /\ req[r].at \in {"authz", "etag", "nolist", "handler"} => req[r].body = None
      /\ req[r].at \in {"nolist", "handler"} /\ req[r].etag # None
           => /\ req[r].target.base # None
              /\ mem.refs[req[r].target.base] # None
              /\ req[r].etag = mem.refs[req[r].target.base].etag
      /\ /\ req[r].at \in {"send", "done"} /\ req[r].body # None /\ req[r].etag # None
         /\ req[r].target.base = req[r].target.name
         /\ Reliable /\ OneDirectory /\ DistinctOutputs(cfg)
         => BuiltAs(req[r].body, req[r].etag)

\* The same request, other things being as they were.
LEMMA TagKept ==
    ASSUME NEW r \in Requests, TagInv(r), req'[r] = req[r], mem' = mem, cfg' = cfg,
           clean' => clean
    PROVE  TagInv(r)'
  BY DEF TagInv, Reliable, OneDirectory, AllServed, DistinctOutputs

\* What a handler leaves of a request, field by field.
LEMMA HandlerFields ==
    ASSUME TypeInv, ListenInv, NEW r \in Requests, NEW stage \in Stages, NEW next,
           Go(r, stage, next)
    PROVE  /\ req'[r] = next /\ req[r] \in Request /\ req[r].at = stage
           /\ mem' = mem /\ cfg' = cfg /\ clean' = clean
  BY StageType DEF Go, At, ListenInv, ReqTypeOK, vars

LEMMA TagHandle ==
    ASSUME BuildInv, MapInv, ListenInv, NEW r \in Requests, TagInv(r), Handle(r)
    PROVE  TagInv(r)'
<1> USE DEF Stages
<1>0. TypeInv
  BY DEF BuildInv
<1>1. ASSUME NEW stage \in Stages, NEW s, Go(r, stage, Answer(r, s))
      PROVE  TagInv(r)'
  <2>1. /\ req'[r] = Answer(r, s) /\ req[r] \in Request /\ req[r].at = stage
        /\ mem' = mem /\ cfg' = cfg /\ clean' = clean
    BY <1>0, <1>1, HandlerFields
  <2>2. /\ req'[r].at = "done" /\ req'[r].etag = req[r].etag /\ req'[r].body = req[r].body
        /\ req'[r].target = req[r].target
    BY <2>1 DEF Answer, Request
  <2>3. req[r] # None
    BY <1>1 DEF Go, At
  <2> QED BY <2>1, <2>2, <2>3
      DEF TagInv, Reliable, OneDirectory, AllServed, DistinctOutputs, BuiltAs
<1>2. ASSUME Go(r, "authz", [req[r] EXCEPT !.at = "etag"])
      PROVE  TagInv(r)'
  <2>1. /\ req'[r] = [req[r] EXCEPT !.at = "etag"] /\ req[r] \in Request /\ req[r].at = "authz"
    BY <1>0, <1>2, HandlerFields
  <2>2. /\ req'[r].at = "etag" /\ req'[r].etag = req[r].etag /\ req'[r].body = req[r].body
    BY <2>1 DEF Request
  <2>3. req[r] # None
    BY <1>2 DEF Go, At
  <2> QED BY <2>1, <2>2, <2>3 DEF TagInv
<1>3. CASE EtagMiddleware(r)
  <2> DEFINE t == req[r].target
             known == cfg.etag /\ t.base # None /\ mem.refs[t.base] # None
             e == IF known THEN mem.refs[t.base].etag ELSE None
  <2>1. Go(r, "etag", [req[r] EXCEPT !.at = "nolist", !.etag = e])
    BY <1>3 DEF EtagMiddleware
  <2>2. e # None => t.base # None /\ mem.refs[t.base] # None /\ e = mem.refs[t.base].etag
    OBVIOUS
  <2> HIDE DEF e
  <2>3. /\ req'[r] = [req[r] EXCEPT !.at = "nolist", !.etag = e]
        /\ req[r] \in Request /\ req[r].at = "etag" /\ mem' = mem
    BY <1>0, <2>1, HandlerFields
  <2>4. /\ req'[r].at = "nolist" /\ req'[r].etag = e /\ req'[r].body = req[r].body
        /\ req'[r].target = t
    BY <2>3 DEF Request
  <2>5. req[r] # None
    BY <2>1 DEF Go, At
  <2> QED BY <2>2, <2>3, <2>4, <2>5 DEF TagInv
<1>4. ASSUME Go(r, "nolist", [req[r] EXCEPT !.at = "handler"])
      PROVE  TagInv(r)'
  <2>1. /\ req'[r] = [req[r] EXCEPT !.at = "handler"] /\ req[r] \in Request
        /\ req[r].at = "nolist" /\ mem' = mem
    BY <1>0, <1>4, HandlerFields
  <2>2. /\ req'[r].at = "handler" /\ req'[r].etag = req[r].etag /\ req'[r].body = req[r].body
        /\ req'[r].target = req[r].target
    BY <2>1 DEF Request
  <2>3. req[r] # None
    BY <1>4 DEF Go, At
  <2> QED BY <2>1, <2>2, <2>3 DEF TagInv
<1>5. ASSUME NEW file, file # None, file = disk[<<cfg.outDir, req[r].target.name>>],
             Go(r, "handler", [req[r] EXCEPT !.at = "send", !.body = file])
      PROVE  TagInv(r)'
  <2> DEFINE t == req[r].target
  <2>1. /\ req'[r] = [req[r] EXCEPT !.at = "send", !.body = file]
        /\ req[r] \in Request /\ req[r].at = "handler"
        /\ mem' = mem /\ cfg' = cfg /\ clean' = clean
    BY <1>0, <1>5, HandlerFields
  <2>2. /\ req'[r].at = "send" /\ req'[r].etag = req[r].etag /\ req'[r].body = file
        /\ req'[r].target = t
    BY <2>1 DEF Request
  <2>3. req[r] # None /\ pc \in Up /\ t \in Target
    BY <1>0, <1>5, StageType DEF Go, At, Request
  <2>4. ASSUME req[r].etag # None, t.base = t.name, Reliable, OneDirectory, DistinctOutputs(cfg)
        PROVE  BuiltAs(file, req[r].etag)
    <3>1. /\ t.name \in FileName /\ mem.refs[t.name] # None
          /\ req[r].etag = mem.refs[t.name].etag
      BY <2>1, <2>3, <2>4 DEF TagInv, Target
    <3> QED BY <1>5, <2>3, <2>4, <3>1, MapDescribes
  <2> QED BY <2>1, <2>2, <2>4
      DEF TagInv, Reliable, OneDirectory, AllServed, DistinctOutputs, BuiltAs
<1>6. AuthZMiddleware(r) => TagInv(r)'
  BY <1>1, <1>2 DEF AuthZMiddleware
<1>7. NoListMiddleware(r) => TagInv(r)'
  BY <1>1, <1>4 DEF NoListMiddleware
<1>8. ApiHandlers(r) \/ Send(r) => TagInv(r)'
  BY <1>1 DEF ApiHandlers, Send
<1>9. FileServer(r) => TagInv(r)'
  <2> SUFFICES ASSUME FileServer(r) PROVE TagInv(r)'
    OBVIOUS
  <2> DEFINE file == disk[<<cfg.outDir, req[r].target.name>>]
  <2>1. \/ \E s \in {200, 304, 404} : Go(r, "handler", Answer(r, s))
        \/ file # None /\ Go(r, "handler", [req[r] EXCEPT !.at = "send", !.body = file])
    BY DEF FileServer
  <2> QED BY <1>1, <1>5, <2>1
<1> QED BY <1>3, <1>6, <1>7, <1>8, <1>9 DEF Handle

LEMMA StepTag ==
    ASSUME BuildInv, BuildInv', MapInv, ListenInv, ListenInv', ServerMove,
           NEW r \in Requests, TagInv(r)
    PROVE  TagInv(r)'
<1>0. TypeInv /\ Phases /\ Frame
  BY ServerTakesSteps, StepPhases, StepFrame DEF BuildInv, FreshInv
<1>1. CASE Lifecycle
  <2>1. CASE req'[r] = None
    BY <2>1 DEF TagInv
  <2>2. CASE req'[r] = req[r] /\ req[r] # None /\ InFlight(r)'
    <3>1. listener' # "none" /\ pc' \in Up
      BY <2>2 DEF ListenInv
    <3> QED BY <1>0, <2>2, <3>1, TagKept DEF Phases, Up
  <2>3. CASE req'[r] = req[r] /\ req[r] # None /\ ~InFlight(r)'
    <3>1. req[r].at \in Ends
      BY <2>3 DEF InFlight, ListenInv, ReqTypeOK, Request
    <3>2. cfg' = cfg /\ (clean' => clean)
      BY <1>0, <1>1, <2>3, ProcessStep DEF Phases, Frame
    <3> QED BY <2>3, <3>1, <3>2
        DEF TagInv, Ends, Reliable, OneDirectory, AllServed, DistinctOutputs
  <2>4. CASE req[r] # None /\ req'[r] = [req[r] EXCEPT !.at = "cut"]
    <3>1. req'[r].at = "cut"
      BY <2>4 DEF ListenInv, ReqTypeOK, Request
    <3> QED BY <3>1 DEF TagInv
  <2> QED BY <1>1, <2>1, <2>2, <2>3, <2>4, ProcessStep
<1>2. ASSUME NEW q \in Requests, RequestStep(q)
      PROVE  TagInv(r)'
  <2>1. UNCHANGED vars /\ mem' = mem /\ cfg' = cfg /\ clean' = clean
    BY <1>2, RequestFrame DEF vars
  <2>2. \E next \in Request : req' = [req EXCEPT ![q] = next]
    BY <1>0, <1>2, StageStep DEF Handed
  <2>3. CASE q # r
    BY <2>1, <2>2, <2>3, TagKept DEF ListenInv, ReqTypeOK
  <2>4. CASE q = r /\ Asked(q)
    BY <2>4 DEF Asked, Arrive, ListenInv, ReqTypeOK, TagInv
  <2>5. CASE q = r /\ Handle(r)
    BY <2>5, TagHandle
  <2> QED BY <1>2, <2>3, <2>4, <2>5 DEF RequestStep
<1>3. CASE UNCHANGED allvars
  BY <1>3, TagKept DEF allvars, vars
<1> QED BY <1>1, <1>2, <1>3 DEF ServerMove

\* Whatever runs came before, as long as the registry was not taken over from one
\* that failed, and all serve the directory they build to: what is answered with
\* an ETag is whole and is what the ETag says, however requests and the purge
\* interleave, unless a query has named another archive.
THEOREM EtagsDescribe == ServerSpec => []EtagDescribesBody
<1> DEFINE Tags == \A r \in Requests : TagInv(r)
<1>1. ServerInit => MapInv /\ Tags
  BY DEF ServerInit, Init, MapInv, MapOwn, MapServed, Placed, TagInv, NilMap, NoFile, NoRefs
<1>2. BuildInv /\ BuildInv' /\ MapInv /\ ServerMove => MapInv'
  BY StepOwn, StepServed, StepPlace, ServerTakesSteps DEF MapInv
<1>3. BuildInv /\ BuildInv' /\ MapInv /\ ListenInv /\ ListenInv' /\ Tags /\ ServerMove
      => Tags'
  BY StepTag
<1>4. Tags => EtagDescribesBody
  BY DEF TagInv, EtagDescribesBody
<1> QED BY <1>1, <1>2, <1>3, <1>4, NextMoves, BuildInvariant, ListenInvariant, PTL DEF ServerSpec
=============================================================================
