------------------------------- MODULE Bundler -------------------------------
(***************************************************************************)
(* The life of one bundle-server process as it touches the file system:    *)
(* BuildBundle at start-up, the wait for a signal, PurgeBundles on the way *)
(* out, and the restarts after an exit, a panic or a kill                  *)
(* (ch3-pbac/examples/bundle-server, main.go and pkg/model/bundler.go).    *)
(*                                                                         *)
(* Every system call that changes the disk is a step of its own, so the    *)
(* process can be killed between any two of them, and each of them can     *)
(* fail.  Bundle material is abstracted to a version number that whoever   *)
(* maintains the policies only ever advances; a digest is the bundle it    *)
(* was computed for and the version of the material it was computed from.  *)
(***************************************************************************)
EXTENDS Naturals, Sequences

CONSTANTS
    BundleNames,    \* values of "bundle-name"
    FileBases,      \* values of "bundle-file-name"
    Dirs,           \* values of the "bundle-out-dir" settings
    Configs,        \* the server-config.json contents a start may find
    MaxClock,       \* bound: seconds the wall clock shows
    MaxEdits,       \* bound: edits of the bundle material
    MaxStarts,      \* bound: starts of the process
    None            \* no file, no registry entry, no bundle in the making

BundleConfig == [name: BundleNames, file: FileBases, dir: Dirs,
                 ts: BOOLEAN, build: BOOLEAN, sign: BOOLEAN]

Config == [enable: BOOLEAN, load: BOOLEAN, persist: BOOLEAN, purge: BOOLEAN,
           authz: BOOLEAN, etag: BOOLEAN, dirList: BOOLEAN, tls: BOOLEAN,
           outDir: Dirs, bundles: Seq(BundleConfig)]

Version  == 0..MaxEdits
Digest   == [bundle: BundleNames, ver: Version]
FileName == FileBases \X (0..MaxClock)      \* base and stamp, 0 for no stamp
Path     == Dirs \X FileName
Content  == [etag: Digest, signed: BOOLEAN, whole: BOOLEAN]
Ref      == [etag: Digest, name: FileName, path: Path]
Registry == [nil: BOOLEAN, refs: [FileName -> Ref \cup {None}]]
RegFile  == [state: {"absent", "partial", "whole"}, reg: Registry]
Work     == [etag: Digest, name: FileName \cup {None}, path: Path \cup {None}]

ASSUME BoundsAssumption == MaxClock \in Nat \ {0} /\ MaxEdits \in Nat
                           /\ MaxStarts \in Nat
ASSUME ConfigsAssumption == Configs \subseteq Config
ASSUME NoneAssumption == /\ None \notin Content /\ None \notin Ref
                         /\ None \notin Work /\ None \notin Config
                         /\ None \notin FileName /\ None \notin Path

VARIABLES
    clock,      \* time.Now().Unix()
    material,   \* version of the files under the bundle-in-dirs
    disk,       \* the bundle archives on disk
    regFile,    \* bundle-registry.json
    pc,         \* where the process is; "off" when there is none
    cfg,        \* SC, the configuration of this run (of the last one when off)
    mem,        \* RegBundles
    idx,        \* position of the loop over SC.Bundles.Bundles
    work,       \* the bundle this iteration of the loop is making
    listing,    \* names PurgeBundles has listed and not yet removed
    starts,     \* number of starts so far
    exit,       \* how the last run ended
    fresh,      \* history: names registered by this run
    purgeErr,   \* history: an operation of the last purge has failed
    clean       \* history: no run was cut off, failed, or left its writes unpersisted

env     == <<clock, material>>
files   == <<disk, regFile>>
control == <<cfg, starts, exit>>
history == <<fresh, purgeErr, clean>>
vars    == <<clock, material, disk, regFile, pc, cfg, mem, idx, work, listing,
             starts, exit, fresh, purgeErr, clean>>

NoRefs   == [f \in FileName |-> None]
EmptyMap == [nil |-> FALSE, refs |-> NoRefs]
NilMap   == [nil |-> TRUE, refs |-> NoRefs]
NoFile   == [state |-> "absent", reg |-> NilMap]

Building == {"load", "loop", "collect", "sign", "path", "name", "unlink",
             "open", "fill", "register", "persist", "create", "store"}
Purging  == {"list", "rm", "purgereg"}
PCs      == Building \cup Purging \cup {"off", "built", "serving"}

Current == cfg.bundles[idx]

Init ==
    /\ clock = 1 /\ material = 0
    /\ disk = [p \in Path |-> None]
    /\ regFile = NoFile
    /\ pc = "off" /\ cfg = None /\ mem = NilMap
    /\ idx = 1 /\ work = None /\ listing = {}
    /\ starts = 0 /\ exit = "none"
    /\ fresh = {} /\ purgeErr = FALSE /\ clean = TRUE

-----------------------------------------------------------------------------
(* The environment: time passes and the bundle material is edited.          *)

Tick ==
    /\ clock < MaxClock
    /\ clock' = clock + 1
    /\ UNCHANGED <<material, files, pc, control, mem, idx, work, listing, history>>

Edit ==
    /\ material < MaxEdits
    /\ material' = material + 1
    /\ UNCHANGED <<clock, files, pc, control, mem, idx, work, listing, history>>

-----------------------------------------------------------------------------
(* Start-up: LoadConfig, then BuildBundle when bundles are enabled.          *)

Start(c) ==
    /\ pc = "off" /\ starts < MaxStarts
    /\ starts' = starts + 1
    /\ cfg' = c /\ mem' = NilMap
    /\ pc' = IF c.enable THEN "load" ELSE "built"
    /\ exit' = "none" /\ fresh' = {} /\ purgeErr' = FALSE
    /\ UNCHANGED <<env, files, idx, work, listing, clean>>

\* Mutant of Loaded: a registry that does not parse leaves the map nil.
LoadedNilOnError ==
    IF ~cfg.load THEN {EmptyMap}
    ELSE IF regFile.state = "whole" THEN {regFile.reg, EmptyMap} ELSE {NilMap}

\* Mutant of Loaded: a registry that is there is loaded, asked for or not.
LoadedAlways ==
    IF regFile.state = "whole" THEN {regFile.reg, EmptyMap} ELSE {EmptyMap}

\* What reading bundle-registry.json can leave in RegBundles: a file that is
\* missing leaves the map nil, one that cannot be read or parsed gives an empty
\* map, and a whole one gives what was stored, a null map included.
Loaded ==
    IF ~cfg.load THEN {EmptyMap}
    ELSE CASE regFile.state = "absent"  -> {NilMap}
           [] regFile.state = "partial" -> {EmptyMap}
           [] regFile.state = "whole"   -> {regFile.reg, EmptyMap}

LoadRegistry ==
    /\ pc = "load" /\ pc' = "loop"
    /\ \E m \in Loaded : mem' = m
    /\ UNCHANGED <<env, files, control, idx, work, listing, history>>

\* BuildBundle returns: its locals go out of scope, its error is only logged.
Return(failed) ==
    /\ pc' = "built"
    /\ idx' = 1 /\ work' = None
    /\ clean' = (clean /\ ~failed)

\* The head of the loop over the configured bundles.
NextBundle ==
    /\ pc = "loop"
    /\ IF idx > Len(cfg.bundles)
       THEN IF cfg.persist THEN /\ pc' = "persist"
                                /\ UNCHANGED <<idx, work, clean>>
                           ELSE Return(FALSE)
       ELSE /\ IF Current.build THEN pc' = "collect" /\ idx' = idx
                                ELSE pc' = "loop" /\ idx' = idx + 1
            /\ UNCHANGED <<work, clean>>
    /\ UNCHANGED <<env, files, control, mem, listing, fresh, purgeErr>>

\* Mutant of Collect: the bundle of an entry that was loaded is not made anew.
CollectRegistered ==
    LET old == mem.refs[<<Current.file, 0>>]
    IN  /\ pc = "collect"
        /\ work' = [etag |-> IF old # None THEN old.etag
                             ELSE [bundle |-> Current.name, ver |-> material],
                    name |-> None, path |-> None]
        /\ pc' = IF Current.sign THEN "sign" ELSE "path"
        /\ UNCHANGED <<env, files, control, mem, idx, listing, history>>

\* FileInfos, the read loop and the hash; any of the reads may fail.
Collect ==
    /\ pc = "collect"
    /\ \/ /\ work' = [etag |-> [bundle |-> Current.name, ver |-> material],
                      name |-> None, path |-> None]
          /\ pc' = IF Current.sign THEN "sign" ELSE "path"
          /\ UNCHANGED <<idx, clean>>
       \/ Return(TRUE)
    /\ UNCHANGED <<env, files, control, mem, listing, fresh, purgeErr>>

\* Signing needs the key file; without it BuildBundle gives up.
Sign ==
    /\ pc = "sign"
    /\ \/ pc' = "path" /\ UNCHANGED <<idx, work, clean>>
       \/ Return(TRUE)
    /\ UNCHANGED <<env, files, control, mem, listing, fresh, purgeErr>>

\* The output name, stamped with the time of the call when bundle-ts is set.
NameNow(b) == <<b.file, IF b.ts THEN clock ELSE 0>>

\* Mutant of StampPath: the file name is left empty.
StampPathOnly ==
    /\ pc = "path" /\ pc' = "unlink"
    /\ work' = [work EXCEPT !.path = <<Current.dir, NameNow(Current)>>]
    /\ UNCHANGED <<env, files, control, mem, idx, listing, history>>

\* TsString is read twice: a first time for the path ...
StampPath ==
    /\ pc = "path" /\ pc' = "name"
    /\ work' = [work EXCEPT !.path = <<Current.dir, NameNow(Current)>>]
    /\ UNCHANGED <<env, files, control, mem, idx, listing, history>>

\* Mutant of StampName: the path of the first reading is kept.
StampNameOnly ==
    /\ pc = "name" /\ pc' = "unlink"
    /\ work' = [work EXCEPT !.name = NameNow(Current)]
    /\ UNCHANGED <<env, files, control, mem, idx, listing, history>>

\* ... and again for the name, from which the path is then made anew; the
\* archive is encoded in memory afterwards, which may fail.
StampName ==
    /\ pc = "name"
    /\ \/ /\ pc' = "unlink"
          /\ work' = [etag |-> work.etag, name |-> NameNow(Current),
                      path |-> <<Current.dir, NameNow(Current)>>]
          /\ UNCHANGED <<idx, clean>>
       \/ Return(TRUE)
    /\ UNCHANGED <<env, files, control, mem, listing, fresh, purgeErr>>

\* A previous file of that name is removed; a failure is logged and ignored.
Unlink ==
    /\ pc = "unlink" /\ pc' = "open"
    /\ \/ disk' = [disk EXCEPT ![work.path] = None] /\ clean' = clean
       \/ disk[work.path] # None /\ disk' = disk /\ clean' = FALSE
    /\ UNCHANGED <<env, regFile, control, mem, idx, work, listing, fresh, purgeErr>>

\* What is written: signed if the configuration asks for it, with an ETag that was
\* taken before and does not show it.
Written(whole) == [etag |-> work.etag, signed |-> Current.sign, whole |-> whole]

\* Mutant of OpenOut: a failure is logged and the bundle registered all the same.
OpenOutLogged ==
    /\ pc = "open"
    /\ \/ /\ disk' = [disk EXCEPT ![work.path] = Written(FALSE)]
          /\ pc' = "fill" /\ clean' = (clean /\ cfg.persist)
       \/ disk' = disk /\ pc' = "register" /\ clean' = clean
    /\ UNCHANGED <<env, regFile, control, mem, idx, work, listing, fresh, purgeErr>>

\* os.WriteFile opens the file, creating or truncating it, ...
OpenOut ==
    /\ pc = "open"
    /\ \/ /\ disk' = [disk EXCEPT ![work.path] = Written(FALSE)]
          /\ pc' = "fill" /\ clean' = (clean /\ cfg.persist)
          /\ UNCHANGED <<idx, work>>
       \/ disk' = disk /\ Return(TRUE)
    /\ UNCHANGED <<env, regFile, control, mem, listing, fresh, purgeErr>>

\* Mutant of FillOut: the same for a write that fails half-way.
FillOutLogged ==
    /\ pc = "fill" /\ pc' = "register"
    /\ \/ disk' = [disk EXCEPT ![work.path] = Written(TRUE)]
       \/ disk' = disk
    /\ UNCHANGED <<env, regFile, control, mem, idx, work, listing, history>>

\* ... and fills it; a failed write leaves what got through.
FillOut ==
    /\ pc = "fill"
    /\ \/ /\ disk' = [disk EXCEPT ![work.path] = Written(TRUE)]
          /\ pc' = "register" /\ UNCHANGED <<idx, work, clean>>
       \/ disk' = disk /\ Return(TRUE)
    /\ UNCHANGED <<env, regFile, control, mem, listing, fresh, purgeErr>>

\* The end of the process, whatever ends it.
Exit(how) ==
    /\ pc' = "off" /\ exit' = how
    /\ mem' = NilMap /\ idx' = 1 /\ work' = None /\ listing' = {}
    /\ UNCHANGED <<env, cfg, starts, fresh>>

\* The entry of RegBundles: keyed by file name, assignable unless the map is nil.
RefOf(w) == [etag |-> w.etag, name |-> w.name, path |-> w.path]

Register ==
    /\ pc = "register" /\ ~mem.nil
    /\ mem' = [mem EXCEPT !.refs[work.name] = RefOf(work)]
    /\ fresh' = fresh \cup {work.name}
    /\ pc' = "loop" /\ idx' = idx + 1 /\ work' = None
    /\ UNCHANGED <<env, files, control, listing, purgeErr, clean>>

\* Assigning to an entry of a nil map panics, and nothing recovers it.
NilMapPanic ==
    /\ pc = "register" /\ mem.nil
    /\ Exit("nilmap")
    /\ clean' = FALSE
    /\ UNCHANGED <<files, purgeErr>>

-----------------------------------------------------------------------------
(* The registry file: removed if it exists, created, filled.                *)

PersistRemove ==
    /\ pc = "persist" /\ pc' = "create"
    /\ \/ regFile' = NoFile /\ clean' = clean
       \/ regFile.state # "absent" /\ regFile' = regFile /\ clean' = FALSE
    /\ UNCHANGED <<env, disk, control, mem, idx, work, listing, fresh, purgeErr>>

\* Mutant of PersistCreate: a failure starts the persisting over.
PersistCreateRetried ==
    /\ pc = "create"
    /\ \/ /\ regFile.state = "absent"
          /\ regFile' = [state |-> "partial", reg |-> NilMap] /\ pc' = "store"
       \/ regFile' = regFile /\ pc' = "persist"
    /\ UNCHANGED <<env, disk, control, mem, idx, work, listing, history>>

\* utils.WriteFile creates a missing file; one that is still there it opens
\* read-only, so that it cannot be overwritten.
PersistCreate ==
    /\ pc = "create"
    /\ \/ /\ regFile.state = "absent"
          /\ regFile' = [state |-> "partial", reg |-> NilMap]
          /\ pc' = "store" /\ UNCHANGED <<idx, work, clean>>
       \/ regFile' = regFile /\ Return(TRUE)
    /\ UNCHANGED <<env, disk, control, mem, listing, fresh, purgeErr>>

PersistStore ==
    /\ pc = "store"
    /\ \/ regFile' = [state |-> "whole", reg |-> mem] /\ Return(FALSE)
       \/ regFile' = regFile /\ Return(TRUE)
    /\ UNCHANGED <<env, disk, control, mem, listing, fresh, purgeErr>>

-----------------------------------------------------------------------------
(* Serving and shutting down.                                               *)

\* EnableAuth may fail after the bundles were built, and then main panics.
Serve ==
    /\ pc = "built"
    /\ \/ /\ pc' = "serving"
          /\ UNCHANGED <<env, control, mem, idx, work, listing, fresh>>
       \/ cfg.authz /\ Exit("authz")
    /\ UNCHANGED <<files, purgeErr, clean>>

\* SIGINT or SIGTERM once main waits for it.
Signal ==
    /\ pc = "serving"
    /\ \/ /\ cfg.purge /\ pc' = "list"
          /\ UNCHANGED <<env, control, mem, idx, work, listing, fresh>>
       \/ ~cfg.purge /\ Exit("shutdown")
    /\ UNCHANGED <<files, purgeErr, clean>>

\* Mutant of PurgeList: only the bundles of the registry are looked for.
PurgeListRegistered ==
    /\ pc = "list" /\ pc' = "rm"
    /\ listing' = {f \in FileName : mem.refs[f] # None}
    /\ UNCHANGED <<env, files, control, mem, idx, work, history>>

\* PurgeBundles lists the top-level output directory only ...
PurgeList ==
    /\ pc = "list"
    /\ \/ /\ listing' = {f \in FileName : disk[<<cfg.outDir, f>>] # None}
          /\ pc' = "rm" /\ UNCHANGED <<purgeErr, clean>>
       \/ pc' = "purgereg" /\ listing' = {} /\ purgeErr' = TRUE /\ clean' = FALSE
    /\ UNCHANGED <<env, files, control, mem, idx, work, fresh>>

\* ... removes what it listed, logging the failures ...
PurgeFile ==
    /\ pc = "rm"
    /\ \E f \in listing :
         /\ listing' = listing \ {f}
         /\ \/ disk' = [disk EXCEPT ![<<cfg.outDir, f>>] = None] /\ UNCHANGED <<purgeErr, clean>>
            \/ disk' = disk /\ purgeErr' = TRUE /\ clean' = FALSE
    /\ UNCHANGED <<env, regFile, pc, control, mem, idx, work, fresh>>

PurgeFilesDone ==
    /\ pc = "rm" /\ listing = {}
    /\ pc' = "purgereg"
    /\ UNCHANGED <<env, files, control, mem, idx, work, listing, history>>

\* Mutant of PurgeRegistry: the registry file is forgotten.
PurgeRegistryKept ==
    /\ pc = "purgereg" /\ Exit("shutdown")
    /\ UNCHANGED <<files, purgeErr, clean>>

\* Mutant of PurgeRegistry: a failure starts the purge over.
PurgeRegistryRetried ==
    /\ pc = "purgereg"
    /\ \/ regFile' = NoFile /\ Exit("shutdown") /\ UNCHANGED <<purgeErr, clean>>
       \/ /\ regFile.state # "absent" /\ regFile' = regFile /\ pc' = "list"
          /\ purgeErr' = TRUE /\ clean' = FALSE
          /\ UNCHANGED <<env, control, mem, idx, work, listing, fresh>>
    /\ UNCHANGED disk

\* ... and the registry file last; then the process is gone.
PurgeRegistry ==
    /\ pc = "purgereg"
    /\ \/ regFile' = NoFile /\ UNCHANGED <<purgeErr, clean>>
       \/ regFile.state # "absent" /\ regFile' = regFile /\ purgeErr' = TRUE /\ clean' = FALSE
    /\ Exit("shutdown")
    /\ UNCHANGED disk

\* The process is killed, or gets a signal before signal.Notify; what its system
\* calls have written stays.  It loses nothing that matters only while no bundle
\* operation is under way.
Kill ==
    /\ pc # "off"
    /\ Exit("killed")
    /\ clean' = (clean /\ pc \in {"built", "serving"})
    /\ UNCHANGED <<files, purgeErr>>

-----------------------------------------------------------------------------
Process ==
    \/ LoadRegistry \/ NextBundle \/ Collect \/ Sign \/ StampPath \/ StampName
    \/ Unlink \/ OpenOut \/ FillOut \/ Register \/ NilMapPanic
    \/ PersistRemove \/ PersistCreate \/ PersistStore
    \/ Serve \/ PurgeList \/ PurgeFile \/ PurgeFilesDone \/ PurgeRegistry

Next ==
    \/ Tick \/ Edit
    \/ \E c \in Configs : Start(c)
    \/ Process \/ Signal \/ Kill

Spec == Init /\ [][Next]_vars

\* The process takes its steps; nothing obliges anyone to start it, to stop it
\* or to edit the material.
FairSpec == Spec /\ WF_vars(Process)

-----------------------------------------------------------------------------
(* Properties.                                                              *)

TypeOK ==
    /\ clock \in 1..MaxClock /\ material \in Version
    /\ disk \in [Path -> Content \cup {None}]
    /\ regFile \in RegFile
    /\ pc \in PCs
    /\ cfg \in Config \cup {None} /\ (pc # "off" => cfg \in Configs)
    /\ mem \in Registry
    /\ idx \in Nat \ {0}
    /\ work \in Work \cup {None}
    /\ listing \subseteq FileName
    /\ starts \in 0..MaxStarts
    /\ exit \in {"none", "nilmap", "authz", "shutdown", "killed"}
    /\ fresh \subseteq FileName
    /\ purgeErr \in BOOLEAN /\ clean \in BOOLEAN

\* The references of the registry in memory and of the registry on disk.
Refs == {mem.refs[f] : f \in FileName} \cup {regFile.reg.refs[f] : f \in FileName}

\* An archive that was written to the end with this ETag.
BuiltAs(content, etag) == content # None /\ content.etag = etag /\ content.whole

\* A reference describes the archive it points to.
True(r) == BuiltAs(disk[r.path], r.etag)

\* No registry, in memory or on disk and however stale, credits the archive at
\* a path with material newer than the archive was built from: BuildBundle
\* writes an archive before it registers it and registers before it persists,
\* so that a kill or an error between any two of its steps leaves an ETag that
\* is behind the archive, never ahead of it.
EtagNeverAhead ==
    \A r \in Refs : r # None /\ disk[r.path] # None => r.etag.ver <= disk[r.path].etag.ver

\* Entries are keyed by the very file name their path ends in, although
\* BuildBundle reads the clock once for the path and once more for the name.
RegistryWellKeyed ==
    \A f \in FileName :
      \A r \in {mem.refs[f], regFile.reg.refs[f]} :
        r # None => r.name = f /\ r.path[2] = f

\* No two bundles a configuration builds share an output file.
DistinctOutputs(c) ==
    \A i, j \in DOMAIN c.bundles :
      i # j /\ c.bundles[i].build /\ c.bundles[j].build
        => <<c.bundles[i].dir, c.bundles[i].file>> # <<c.bundles[j].dir, c.bundles[j].file>>

\* What this run has registered stays true until the purge begins, whatever
\* fails later in the build: the archive is there, whole, with that very ETag.
FreshRefsTrue ==
    pc \notin Purging \cup {"off"} /\ DistinctOutputs(cfg)
      => \A f \in fresh : mem.refs[f] # None /\ True(mem.refs[f])

\* As long as every run so far kept its registry and none was cut off or failed
\* half-way, the registry on disk is true again whenever no build or purge is
\* under way: across restarts, changes of configuration and purges.
CleanRunsKeepRegistryTrue ==
    clean /\ pc \in {"off", "built", "serving"}
      => \A f \in FileName :
           regFile.reg.refs[f] # None => True(regFile.reg.refs[f])

\* The start-up panic on a nil map needs a configuration that loads a registry
\* and finds no file, or finds one that a run without a map had stored.
PanicNeedsNilRegistry ==
    exit = "nilmap" => cfg.load /\ regFile.state # "partial" /\ regFile.reg.nil

\* A shutdown that purges, none of whose removals failed, leaves no archive in
\* the served directory, of this run or of an earlier one, and no registry.
PurgeLeavesNothing ==
    exit = "shutdown" /\ cfg.purge /\ ~purgeErr
      => /\ regFile.state = "absent"
         /\ \A f \in FileName : disk[<<cfg.outDir, f>>] = None

\* BuildBundle ends: whatever fails in it, the process then serves, or is gone.
BuildEnds == pc \in Building ~> pc \in {"serving", "off"}

\* So does the shutdown, whatever fails in the purge.
ShutdownEnds == pc \in Purging ~> pc = "off"

\* main logs "build bundles failure" and serves on when BuildBundle fails
\* (main.go:74-79): no failure to build ends the process.
BuildFailureIsLogged == exit # "nilmap"

\* "Purge bundles and registry" (main.go:159): an orderly shutdown none of whose
\* removals failed leaves none of the bundles this run has built.
PurgeRemovesBuilt ==
    exit = "shutdown" /\ cfg.purge /\ ~purgeErr
      => \A d \in Dirs, f \in fresh : disk[<<d, f>>] = None
=============================================================================
