# TLA+ models of the Policy-as-Code programs

The repository holds the examples of a book on policy as code. Most of it is
declarative: Rego, Kyverno, Sentinel, Cloud Custodian and CUE policies, Kubernetes
manifests, installation scripts. Two parts are programs with state of their own, both
written in Go:

* the **bundle server** (`src/ch3-pbac/examples/bundle-server`), which builds OPA
  bundles at start-up, registers them, serves them over HTTP and purges them on the way
  out;
* the **magic 8-ball external data provider**
  (`src/ch7-gatekeeper-k8s/examples/external-data-provider/8-ball`), which Gatekeeper
  calls while it admits pods.

The bundle server comes first: it keeps state on disk across restarts, its steps can
fail one by one, and its HTTP side reads what its build side has written. This
directory models its configuration, its build, its life cycle, its registry, its HTTP
chain, its authorization and OPA as its client; the provider with Gatekeeper calling it;
and, of the policies, the mutating admission policy of chapter 5, which computes patches
that an API server applies. Paths below are
relative to `src/ch3-pbac/examples/bundle-server`, or for the provider to
`src/ch7-gatekeeper-k8s/examples/external-data-provider`.

## Inventory

| component | state | operations | what is hard |
| --- | --- | --- | --- |
| bundle builder (`pkg/model/bundler.go` `BuildBundle`) | archives in the output directories, loop locals | walk and read material, hash, sign, name, remove, write, register | each system call may fail or be the last before a kill; files change while they are read, in the order of a map |
| registry (`RegBundles`, `bundle-registry.json`) | a map in memory, a JSON file | load, assign, persist, purge | stale entries of earlier runs, a nil map, a file missing or partial after a crash |
| purge (`PurgeBundles`) | directory listing | list, remove each, remove the registry | partial failure, running next to requests |
| life cycle (`main.go`) | the process | configure, build, enable authorization, serve, wait for a signal, purge, end | panics, signals, restarts with another configuration |
| HTTP chain (`pkg/model/middleware.go`, routes in `main.go`, handlers in `model.go`) | per-request goroutines | authorize, set ETag, stop listings, serve | header and body are taken in separate steps, without a lock |
| authorization (`AuthZMiddleware`, `parseJwt`) | the list from the authz file | try each entry in order | the clock is read per entry; the first match decides alone |
| configuration (`pkg/model/config.go`) | `SC` | parse, validate | conditional validation; a "required" that means "not zero" |
| OPA client (`opa-conf.yaml`) | its active bundle and the ETag that came with it | poll, activate | stale ETags, cut and partial downloads, restarts on both sides |
| 8-ball provider (`8-ball/main.go`, `pkg/model/handlers.go`) | the answers, a `ResponseWriter` per call | start, stop, `Provide`, `Answer`, `HealthCheck` | a handler that goes on after an error, a random answer per call, a panic on a blank one, a process that is up and deaf |
| mutating policy (`ch5-opa-k8s/policy-configmaps/mutate`) | the policies OPA has | deny, patch, make missing parents | order of patches, what is made of denials, policies loaded one by one |
| Gatekeeper templates around it (`test/*.yaml`, `templates/provider-template.yaml`) | none | build keys, read response | keys agreed by convention, a timeout of 1 s racing the answer |
| policies, manifests, scripts of the other chapters | none or external | - | see "Not modelled" |

How they interact: `main` calls `LoadConfig`, then `BuildBundle`, then `EnableAuth`, and
only then starts the listener in a goroutine. From there the registry is only read.
A signal makes `main` run `PurgeBundles` in a deferred function, with the listener still
up; the process then ends. The next start meets on disk whatever this one left. The
requests share with the life cycle the registry map, the configuration and the files.
The provider is another program: Gatekeeper calls it over HTTP once per review, waits
for at most the timeout, and decides on what the template makes of the response.

## Modules

| module | models | proofs |
| --- | --- | --- |
| `Bundler` | process and disk: `BuildBundle`, the registry file, `PurgeBundles`, signals, kills, restarts | `BundlerProofs`, `BundlerRegistryProofs` |
| `ServerConfig` | which configuration files `LoadConfig` accepts | - |
| `BundleServer` | EXTENDS `Bundler` with the listener and requests in flight | `BundleServerProofs` |
| `BundleFeed` | what server and network together are to one polling client: an abstract specification | - |
| `OpaClient` | EXTENDS `BundleServer` with OPA; implements `BundleFeed` | `OpaClientProofs` |
| `AuthzData` | the entries, tokens and what the jwt library says of them | - |
| `AuthzSpec` | what authorization promises: one decision at one moment | - |
| `Authz` | `parseJwt` entry by entry; implements `AuthzSpec` | `AuthzProofs` |
| `Collector` | the inside of `Bundler`'s `Collect`: the walk and the read loop, file by file | `CollectorProofs` |
| `EightBall` | the provider, its handlers, and Gatekeeper's reviews | `EightBallProofs` |
| `MutationPolicy` | the mutating admission policy, kube-mgmt loading it, pods created and updated | `MutationPolicyProofs` |
| `MCBundler`, `MCBundleServer`, `MCOpaClient`, `MCAuthz`, `MCCollector`, `MCEightBall`, `MCMutationPolicy` | small configurations for TLC | - |

Operators whose comment begins with "Mutant of" are plausible bugs in the operation
named there. No specification uses them; each is put in the place of the original to
confirm that a property notices.

### Bundler

`pc` follows the code:

| `pc` | code | action |
| --- | --- | --- |
| `off` | no process | `Start` (main.go 26-74) |
| `load` | bundler.go 37-61 | `LoadRegistry` |
| `loop` | head of the loop, line 63 | `NextBundle` |
| `collect` | 65-116 | `Collect` |
| `sign` | 118-136 | `Sign` |
| `path`, `name` | the two calls of `TsString`, 142-161 | `StampPath`, `StampName` |
| `unlink` | 163-168 | `Unlink` |
| `open`, `fill` | the two halves of `os.WriteFile`, 170-173 | `OpenOut`, `FillOut` |
| `register` | 175-183 | `Register`, `NilMapPanic` |
| `persist`, `create`, `store` | 187-207 with `utils.WriteFile` | `PersistRemove`, `PersistCreate`, `PersistStore` |
| `built` | main.go 76-110 | `Serve` (or the panic of `EnableAuth`) |
| `serving` | main.go 112-153 | `Signal` |
| `list`, `rm`, `purgereg` | bundler.go 212-238 | `PurgeList`, `PurgeFile`, `PurgeFilesDone`, `PurgeRegistry` |

State: `disk` maps an output path to its archive (the digest it was built with, whether
it was signed, and whether it was written to the end), `regFile` is `bundle-registry.json`, `mem` is
`RegBundles`, `cfg` is `SC`. `clock` and `material` are the environment's. `fresh`,
`purgeErr` and `clean` are history variables that only properties read.

Every system call that can fail has a failing disjunct. What the code makes of the
failure is kept: errors of reading, signing, encoding and writing end `BuildBundle`
(and are then only logged by `main`, so `Return` leads to `built`), errors of removing
are logged and passed over. `Kill` is possible at every `pc`, also as the outcome of a
signal that arrives before `signal.Notify`. It ends the process only: what a system call
has written is there for the next start. A machine that loses its power may lose such
writes, since the code never syncs them; that is not modelled.

Abstractions. A bundle's content is the version of the material it was built from, and
MD5 is taken to be injective on versions. (Two builds of one version may in the code
have different ETags, since the digest is taken in the order of a map; the model
identifies them. OPA then downloads the same bundle again.) One `Collect` reads one
version: `Collector` shows that this leaves nothing out as long as at most one file is
edited while the material is being read. A file name is a base and a
stamp, the stamp being 0 without `bundle-ts`. Output directories exist unless a write
fails. A configuration file that is rejected makes `main` panic before it has touched
anything, which is no step.

### ServerConfig

A file is what it sets of the fields `Bundler` reads, which of the eight required
strings it has, and whether it names a certificate and a key. The validator's `required`
means "not the zero value": of `network.tls.enable` (config.go 167) it demands `true`,
so that `main`'s branch without TLS is never taken; of a struct it demands nothing. (What
`main` and `DependencyValidator` do for a server without TLS is modelled all the same.)
`MCBundleServer` gives `BundleServer` the configurations of all files that are accepted.
(`enable-request-logging`, config.go 150, is read nowhere.)

### BundleServer

A request is a goroutine: routed (`Arrive`), `AuthZMiddleware`, `EtagMiddleware`,
`NoListMiddleware`, then the in-memory handlers or `http.FileServer`, which opens the
file in one step and sends it in another. Each stage is an action, so the purge and the
end of the process interleave with it. `listener` is how the process listens: with TLS,
plainly, or not at all when `ListenAndServe` fails, which the goroutine prints while
`main` waits on. `AuthZMiddleware` is a choice here: `Authz` models it in full. `EtagMiddleware` looks up the last element of
the whole URL, query included, in the registry, while the handlers go by the path: a
target therefore has a `name`, the file of its path, and a `base`, the archive its URL
ends in, which is another one when a query says so. Such a request gets the ETag of one
archive with the body of another, or with no archive at all.

The middleware sets the bare digest as ETag, and `net/http` compares only quoted ones
(`Quoted`): an ETag in `If-None-Match` never leads to 304, and comparing is left to the
clients. Conditions that a file meets whatever its ETag, an `If-None-Match: *` or an
`If-Modified-Since` that is late enough, do lead to 304 (`held`). `Range` and `If-Match`
are left out.

### OpaClient

OPA polls one resource with one request at a time: `Poll` sends the ETag of its last
download, `Receive` looks at what has come. A whole archive with its signature is
activated (`Good`), 304 keeps bundle and ETag, anything else keeps the bundle and drops the
ETag. `opa-conf.yaml` names a key, so that an archive without a signature is rejected:
`Valid` asks that the archive was built by a configuration that signs, and that it is whole,
since the signature covers all its files. The key OPA verifies with is the one of its own
configuration (`project-bundle-key`), whatever key the archive names (`main-key` in
`server-config.json`); the two are assumed to belong together. `Lose` is a poll given up,
or a restart of OPA, which persists nothing (`# persist: true` is commented out in
`opa-conf.yaml`). The server's steps are those of `BundleServer`, crashes, failed builds
and purges included; other requests would change nothing it sees.

### Collector

`utils.FileInfos` reads names (`ReadNames`) and looks each up (`Lstat`); the loop over
the map it makes takes the files in any order (`Skip`, `Read`, `ReadFails`) and hashes
(`Hash`). `Edit` writes, creates or removes a file between any two of these. The
directories of the material are taken together: `filepath.Walk` reads the names of one
directory at a time, so a file created in a directory not yet listed would still be
found, which is the moment after the creation. `moments` is a history variable, the
materials there have been since the walk began.

### EightBall

The provider reads its answers when it starts (`Start`; without a file it can parse,
`main` panics). It may come up `deaf`: a listener that cannot have its port or its TLS
files is only printed. `Stop` is a signal, a kill or a failed liveness probe; no handler
is waited for.

Each review makes one call (`Ask`), whose handler goes on by itself: `ReadBody`,
`Unmarshal`, `DrawAnswer`, `Respond` are lines 55-62, 66-74, 76-81 and 83-134 of
`handlers.go`. None of the error paths returns: they complain (`Complain`: status 500
and the Go print of the response) and the handler goes on. The `ResponseWriter` keeps the
first status it is given and appends what is written. A blank answer is reported with
`err.Error()`, and `err` is nil unless the parsing failed: the handler panics
(`aborted`) and the caller gets no response. `Evaluate` is what the template and the
external data client make of a response, `NoResponse` a timeout or a closed connection,
both system errors (`failurePolicy` and retries by the API server are not modelled: a
pod tried again is another review). A call without keys is treated as made; Gatekeeper
may spare it, with the same verdict. The branch for a response that cannot be encoded is
left out, since a struct of strings always can. A pod is the set of its images.

### MutationPolicy

A pod is a JSON tree, a function from paths to values. `Patch` are the three rules of
`200-mutating-pod-labels.yaml` and `Respond` is the `response` rule of
`0-main-both.yaml`, with the precedence of its branches. The `fullPatches` of its
`ensureParentPathsExist` are two variables: `missing`, the paths to be made, which
`MissingPaths` computes and which are sorted so that a parent is `Foremost`, and
`patches`, a set in the code as here. The API server applies them one at a time
(`MakePath`, `ApplyPatch`), each a JSON patch operation `add` (`Applies`, `Add`), and
refuses the pod when one does not apply. The steps are those of one request, which
nothing else of the model sees half done. `PodsAssumption` says that the pods are
typed: what is above a path is an object, and a label is not one. The API server decodes
a pod before it sends it for review. `Deny` stands for the deny rules that other ConfigMaps
may add to the package, as the comments of `isValidRequest` expect them; it is external,
since the library has only a dummy that holds of no request. What matters of a rule is
the message it leaves: `concat` joins messages to a reason, an empty message makes an
empty one and one that is no string makes none (`HasReason`), and a pod without patches
and without a reason is allowed by default (`Respond`), deny rules or not. `Load` is
kube-mgmt loading one ConfigMap after another, in any order OPA accepts, `Restart` an OPA
that has lost them. The window between the webhook and its policies
(`install/up.sh`) is a `Submit` before a `Load`. (`deploy/A-main.yaml` and
`mutate/0-main-both.yaml` are both named `opa-policy-main`: applying one replaces the
other. The model has the second.)

### Authz

One step of the loop over `AD.Allowed` per entry, and a clock that may tick between any
two. `Verifies` collects what does not depend on the time (the key makes a verifier, the
signature is right, the claims unmarshal, the audience matches), `ValidAt` is the jwt
library's `IsValidAt`. Strings are abstracted: that an entitlement is a substring of the
path is the relation `Within`.

## Properties and runs

| run | bounds | checks |
| --- | --- | --- |
| `bundler_life` | 3 starts, 2 edits, 2 seconds, 7 configurations of one or two bundles, with fairness | `TypeOK`, `EtagNeverAhead`, `RegistryWellKeyed`, `CleanRunsKeepRegistryTrue`, `PanicNeedsNilRegistry`, `PurgeLeavesNothing`, `FreshRefsTrue`, `BuildEnds`, `ShutdownEnds` |
| `collector_edits` | 4 files (a policy, two data files with a key in common, one to ignore), 3 contents, 2 edits | `TypeOK`, `SnapshotOfOneMoment`, `DigestCoversArchive` |
| `server_serve` | 1 request at a time, 2 bundles, 3 starts, 1 edit, every accepted file with one of 2 settings | `ReqTypeOK`, `EtagDescribesBody`, `RegisteredIsServed` |
| `opa_client_poll` | 3 starts, 1 edit, 4 configurations (one does not sign), 1 loss on the client's side, with fairness | `ClientTypeOK`, `ImplementsFeed`, `CatchesUp` |
| `authz_loop` | lists of up to 3 entries, 9 tokens, 3 ticks | `TypeOK`, `DecidedAtOneMoment`, `PassIsEarned`, `ImplementsPromise` |
| `eightball_provide` | 2 reviews, 2 pods, 4 answers (one blank), 4 configuration files | `TypeOK`, `AdmittedOnYes`, `OkIsOneDocument` |
| `mutation_patch` | pods with 4 images (one for each kind of objection), any of 3 labels, without labels or without metadata | `TypeOK`, `PatchesApply`, `NothingLost`, `LabelledForGood` |
| `bundler_loadfirst` | 1 start | finds `BuildFailureIsLogged` violated |
| `bundler_archive` | 1 start | finds `PurgeRemovesBuilt` violated |
| `server_graceful` | 1 start, 1 request | finds `GracefulShutdown` violated |
| `eightball_keys` | 1 review | finds `KeysContainImages` violated |
| `eightball_idempotent` | 2 reviews | finds `Idempotent` violated |

What they show:

* `EtagNeverAhead`: a registry entry, in memory or on disk and however old, never claims
  material newer than the archive it points to was built from: whoever trusts an ETag may
  download once too often, and never misses an update. It rests on the order write,
  register, persist; swallowing the error of the write breaks it.
* `RegistryWellKeyed`: the key, the name and the path of an entry agree although the
  clock is read twice.
* `FreshRefsTrue`: what this run registered is on disk, whole, until the purge begins,
  also when the build of a later bundle fails.
* `CleanRunsKeepRegistryTrue`: as long as no run was cut off or failed half-way or left
  its writes unpersisted, the registry on disk is true across restarts, changes of
  configuration and purges. The hypothesis `clean` is needed: a kill after an archive
  was written leaves the registry of the run before.
* `PanicNeedsNilRegistry`: the start-up panic happens only with `load-registry` and
  with no file or one that stores `null`; a partial file is harmless.
* `PurgeLeavesNothing`: a purge without failures leaves neither archives, of whichever
  run, in the served directory, nor a registry.
* `EtagDescribesBody`: an archive answered with an ETag is whole and is the build of
  that ETag, when the registry is not an unreliable one loaded from an earlier run and all
  configurations share one output directory (`OneDirectory`). The second is needed: the
  registry is looked up by name alone, so one that is kept across a change of the served
  directory speaks of files of the old one. It says so of requests whose URL ends in the
  name of the path. For one with a query that ends in the name of another registered
  archive it is false: middleware.go 88 takes the last element of the whole URL, and the
  ETag is that archive's. Clients that poll a resource by its path, as OPA does, never
  see this.
* `RegisteredIsServed`: what this run registered is found until the purge begins.
* `ImplementsFeed`: through crashes, failed and partial writes, purges and restarts on
  both sides, OPA activates only what was in the place after it had asked, whole and
  signed, and never goes back to an older version.
* `CatchesUp`: once the server stays up with a whole, signed archive and lets OPA through, OPA
  comes to have that archive and keeps it, even when a loaded registry makes the ETag
  older than the file. It holds because the ETag is not a quoted string: were it, a
  client whose `If-None-Match` is the stale ETag would be told 304 for ever.
* `DecidedAtOneMoment`: although the clock is read per entry the verdict is the one of a
  single moment, unless the token came into force meanwhile: then an early entry was
  skipped and a later one decides. `PassIsEarned` still holds in that case.
  `ImplementsPromise` says both as a refinement.
* `SnapshotOfOneMoment`: one edit during the walk and the reading cannot tear a bundle:
  archive and digest are those of the material before it or after it. Two edits can, for
  instance of a file already read and then of one not yet read; nothing in the code
  prevents that, and the bound on edits in the property says so.
* `DigestCoversArchive`: however many edits there are, the digest is taken of what the
  archive holds, so a torn bundle still has an ETag of its own.
* `AdmittedOnYes`: reading or parsing may fail, the answer be blank, the call come too
  late; no pod is admitted without a "Y" for its images in answer to its own review,
  although a handler that could not parse the body answers for no keys, which would
  admit anything, had it not set 500 before. `OkIsOneDocument` is the other half.
* `PatchesApply`, `NothingLost`: every patch finds its parent, there or made by a patch
  ahead of it, and none wipes what is next to its path; making parents that exist, or in
  another order, breaks one or the other.
* `LabelledForGood`: a pod admitted by the label rules has the wanted values whatever it
  had there, so an update has nothing to patch. It needs that what deny rules say of the
  pod makes a reason: with an empty message, or one that is no string, `isValidRequest`
  withholds the patches while `response` (0-main-both.yaml 46-47) finds no reason, and
  the pod is admitted without its labels. A pod reviewed before the label rules are loaded
  is excluded by `seen`.
* `BuildEnds`, `ShutdownEnds`: every build leads to serving, or to the end of the
  process; after a signal, whatever fails in the purge, the process ends.

Bounds. Three starts are one to leave something, one to leave something else over it and
one to meet both; two edits tell three versions apart, one per start; two seconds are
enough for the two readings of the clock to differ and for stamped names to coincide or
not. Requests write nothing that another request reads, so one request meets everything
two would; `server_serve` has one edit, which makes a registry and a file differ, and two
bundles that can be taken for each other. A client needs one edit to have something to miss and one loss to forget it;
more of either repeats the same steps, and `OpaClientProofs` has no bound for the safety
part. Three authz entries give a first match, a shadowed one and one in between
that differs in audience; three ticks let a token mature and expire within one list. Two
edits are one more than a bundle survives. Reviews share nothing but the provider; two are
what `Idempotent` compares, and show that handlers do not mix. The pods have each label
the rules want, one they do not know, and each parent of the labels there or missing.

Deadlock is not checked where starts, edits, ticks and reviews are bounded and a loop
ends: a server with nobody to stop it does stop taking steps. `mutation_patch` checks it.

Fairness. `FairSpec` is weak fairness of `Process`, the steps the one goroutine of
`main` takes by itself: the operating system schedules it and its system calls return.
Nothing obliges the environment: `Start`, `Signal`, `Kill`, `Tick` and `Edit` have no
fairness. `OpaClient` adds weak fairness of handlers, which are goroutines, and of OPA's
polling loop; that the server stays up and authorizes OPA are hypotheses of `CatchesUp`.
`EightBall` and `MutationPolicy` assume none.

## Findings

* `bundler_loadfirst`: with `load-registry` and no registry file, `RegBundles.Bundles`
  is never made (bundler.go 38-51) and the first registration (line 183) panics.
* `bundler_archive`: `PurgeBundles` lists the top-level `bundle-out-dir`, while bundles
  are written to their own (lines 214, 156).
* `server_graceful`: the shutdown context is discarded (main.go 156) and main returns
  with requests in flight.
* `eightball_keys`: `test/0-ct.yaml` (line 21) takes the images of a pod from
  `spec.template.spec.containers`, so the call carries no keys and no answer denies
  anything. The other templates beside it use `spec.containers`, as `eightball_provide`
  does.
* `eightball_idempotent`: each call draws a new answer (`8-ball/pkg/model/model.go` 89)
  under a response that says `Idempotent: true` (`handlers.go` 51).

## Proofs

All theorems hold for every value of the constants that meets the assumptions of the
modules (`BoundsAssumption`, `ConfigsAssumption`, `NoneAssumption` of `Bundler`;
`RequestAssumption`; `ClientAssumption`; `ListsAssumption`, `TokensAssumption`,
`ClockAssumption`; `AnswersAssumption`, `KeysFromAssumption`, `NoneAssumption` of
`EightBall`; `FilesAssumption` of `Collector`; `NamesAssumption` and `PodsAssumption` of
`MutationPolicy`), each step checked by tlapm.

* `BundlerProofs!TypeCorrect`: `Spec => []TypeOK`. `TypeOK` alone is not inductive: that
  the position of the loop points at a bundle, and that the work record has a path and a
  name when a step uses them, depends on `pc`. `TypeInv` adds that.
* `BundlerProofs!WellKeyed`: adds to `TypeInv` that the work record's path ends in its
  name from `StampName` on; entries then carry it into memory and file.
* `BundlerProofs!NeverAhead`: entries and archives of a path only ever carry versions up
  to the material, and what `Register` puts into the registry is on disk at that time;
  every other write of an archive carries the version just read, which is at least that
  of every entry there is.
* `BundlerProofs!FreshStaysTrue`: the invariant separates the names registered by
  the bundles already passed from the bundle in the making, which with
  `DistinctOutputs` writes somewhere else.
* `BundlerRegistryProofs!CleanRunsKeepTrue`: in a clean history the map is true but for
  the entry being replaced (`MemTrue`), the file is true whenever the process does not
  write it (`FileTrue`), and nothing is written that will not be persisted.
* `BundlerRegistryProofs!PanicExplained`, `PurgeLeaves`: the map is nil in a build only
  when a file that is missing or stores `null` was loaded; and a name that is no longer
  listed is gone unless its removal failed.
* `BundlerRegistryProofs!BuildsAdvance`, `PurgesAdvance`: what `BuildEnds` and
  `ShutdownEnds` rest on besides fairness. `Ahead` and `PurgeAhead` are natural numbers
  that time and edits leave alone and that every other step lowers, unless it ends the
  build or the purge; none of its failures goes back. That they are natural numbers
  needs that the loop index stays within one of the bundles, and that there are only ever
  finitely many archives, since each was opened in a step (`BoundInv`).
* `BundleServerProofs`: `ListenInv` ties the listener and the requests to the phase of
  the process. `RegisteredServed` adds that registered names are files of the served
  directory. `EtagsDescribe` follows a request: between `EtagMiddleware` and the opening
  of the file the registry does not change, and where it is true of the file
  (`CleanRunsKeepTrue`, or `FreshStaysTrue` for one that was not loaded) so is the header.
* `OpaClientProofs!ClientRefines`: `ImplementsFeed` for every set of configurations that
  serve one directory. What OPA has or is about to receive is a version that every later
  archive of the place will reach (`Held`), because the material only advances: this
  makes each activation one that `BundleFeed` allows. Each step of the composition then
  maps to a step of `BundleFeed` or to a stutter.
* `AuthzProofs`: the invariant says why an entry that verifies the token was skipped: the
  token was not in force when the loop began, or it has run out. `OneMoment` and
  `NonePassesUnearned` follow, and with them `LoopRefines`: `Parse` and `SkipEntry` are
  stutters, the other steps a decision.
* `EightBallProofs!YesOnly`, `OneDocument`, `TypeCorrect`: the invariant `SoundCall`
  relates a call to its review alone. As long as no status is set nothing has failed, so
  nothing is written and the keys are those sent; 200 is set by `Respond` only. `YesOnly`
  needs two hypotheses, which say what the template owes: it takes the images from where
  a pod has them, and every pod has an image.
* `CollectorProofs!TypeCorrect`, `DigestCovers`: a value is added to the archive and to the
  digest in one step, and neither ever loses one.
* `CollectorProofs!OneEditTearsNothing`: `SnapshotInv` says of which moment the bundle is
  going to be. Before the edit, what was read and what is still to be read is the
  material; an edit of a file that is still to be read makes the bundle one of the later
  moment, any other leaves it one of the earlier, and in each case the files that were
  gathered are as they were then. That the digest takes each of them once, in whatever
  order, is a bijection from its positions to the files (`Gathered`).
* `MutationPolicyProofs`: `ToApply` says that pod, missing paths and patches together are
  the labelled pod: the parents of all patches are there or missing, the missing ones are
  not there, and each label is right or among the patches. A path that is not there has
  nothing below it, and neither has a label, so that no `add` of a response takes anything
  away (`AddTakesNothing`): `NothingLost` and the type invariant follow. The foremost of
  the missing paths has no missing parent, and the parents of labels are there when none
  is missing: `PatchesApply`.

Only model-checked: the liveness properties `BuildEnds`, `ShutdownEnds` and `CatchesUp`,
since fairness is out of the prover's reach. Every invariant of a
passing run and both refinements are theorems.

## Not modelled

* Logging of requests and responses, the helpers of the bundle server and of the provider
  that nothing calls, and the provider's `Answer` and `HealthCheck`, which write one
  response and change nothing.
* The other policies: Rego (chapters 2, 5 `deploy`, 7, 11, 14), Kyverno, Sentinel, Cloud
  Custodian, CUE and Checkov. They are stateless predicates on one document, run by
  external engines; a model of one would repeat its text.
* The jsPolicy policies of chapter 9, JavaScript run by an external controller. The one
  that changes state creates a namespace's NetworkPolicy when it is missing and is requeued
  when that fails; it shares nothing with the programs modelled here and is left for an
  extension.
* The installation scripts: sequences of `kubectl` calls without state of their own. What
  their order leaves open is in `MutationPolicy`, as reviews before the policies are there.
* MagTape, OPAL and the authorization webhook of chapter 4: third-party programs whose
  source is not in the repository.
* The scratch program and the tests of the bundle server, which no longer compile against
  the package they test.

How the project is laid out, should it be extended: the components that keep state come
first, each with its safety invariants and their proofs; then what composes them
(`BundleServer` on `Bundler`, `OpaClient` on `BundleServer`); then the abstract
specification the composition implements. A second client of the bundle server, or
Gatekeeper's retries under `failurePolicy`, would be the next compositions.
