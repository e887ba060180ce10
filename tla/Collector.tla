------------------------------ MODULE Collector ------------------------------
(***************************************************************************)
(* The inside of Bundler's Collect: FileInfos walks the material, then the *)
(* loop of BuildBundle reads the files in whatever order the map yields    *)
(* them, while someone may be editing                                      *)
(* (ch3-pbac/examples/bundle-server, pkg/model/bundler.go 72-116).         *)
(*                                                                         *)
(* The directories of the material are taken together, a file being known  *)
(* by its path.  The manifest, which opens the digest, does not change.    *)
(***************************************************************************)
EXTENDS Integers, FiniteSets, SequencesExt

CONSTANTS
    Files,          \* paths of the files there may be
    Modules,        \* those whose name contains ".rego"
    DataFiles,      \* those named "data.json"
    Ignored,        \* those named in bundle-ignore-files
    DataKeys,       \* top-level keys of the data
    KeysOf,         \* the keys each data file sets
    Contents,       \* contents a file may have
    Unparsable,     \* those that are not JSON objects
    MaxEdits,       \* bound: edits
    None            \* no such file, no such key

ASSUME FilesAssumption ==
    /\ Modules \subseteq Files /\ DataFiles \subseteq Files \ Modules
    /\ Ignored \subseteq Files /\ Unparsable \subseteq Contents
    /\ KeysOf \in [DataFiles -> SUBSET DataKeys]
    /\ MaxEdits \in Nat /\ None \notin Contents

VARIABLES
    material,       \* the files on disk
    pc,
    names,          \* names the walk has read and not yet looked up
    infos,          \* the map FileInfos makes; the loop takes entries out of it
    modules,        \* modules of the bundle
    data,           \* data of the bundle
    etag,           \* what the digest is taken of
    moments,        \* history: the material since the walk began
    edits           \* number of edits since then

vars == <<material, pc, names, infos, modules, data, etag, moments, edits>>
bundle == <<modules, data, etag>>

Material == [Files -> Contents \cup {None}]

TypeOK ==
    /\ material \in Material
    /\ pc \in {"start", "walk", "read", "done", "failed"}
    /\ names \subseteq Files /\ infos \subseteq Files
    /\ modules \in [Modules -> Contents \cup {None}]
    /\ data \in [DataKeys -> Contents \cup {None}]
    /\ etag \in Seq(Contents)
    /\ moments \subseteq Material /\ edits \in 0..MaxEdits

Init ==
    /\ material \in Material
    /\ pc = "start" /\ names = {} /\ infos = {}
    /\ modules = [f \in Modules |-> None] /\ data = [k \in DataKeys |-> None]
    /\ etag = <<>> /\ moments = {} /\ edits = 0

\* A file is written, created or removed.
Edit(f, c) ==
    /\ pc \in {"walk", "read"} /\ edits < MaxEdits /\ material[f] # c
    /\ material' = [material EXCEPT ![f] = c]
    /\ moments' = moments \cup {material'} /\ edits' = edits + 1
    /\ UNCHANGED <<pc, names, infos, bundle>>

\* filepath.Walk reads the names of what is there ...
ReadNames ==
    /\ pc = "start" /\ pc' = "walk"
    /\ names' = {f \in Files : material[f] # None}
    /\ moments' = {material}
    /\ UNCHANGED <<material, infos, bundle, edits>>

\* ... and looks each of them up; one that has gone meanwhile is an error.
Lstat(f) ==
    /\ pc = "walk" /\ f \in names
    /\ names' = names \ {f}
    /\ IF material[f] # None THEN infos' = infos \cup {f} /\ pc' = pc
                             ELSE infos' = infos /\ pc' = "failed"
    /\ UNCHANGED <<material, bundle, moments, edits>>

Walked ==
    /\ pc = "walk" /\ names = {}
    /\ pc' = "read"
    /\ UNCHANGED <<material, names, infos, bundle, moments, edits>>

Skip(f) ==
    /\ pc = "read" /\ f \in infos \cap Ignored
    /\ infos' = infos \ {f}
    /\ UNCHANGED <<material, pc, names, bundle, moments, edits>>

\* Mutant of AddData: each data file starts from an empty map.
ReplaceData(f, c) ==
    IF f \in DataFiles THEN [k \in DataKeys |-> IF k \in KeysOf[f] THEN c ELSE None]
                       ELSE data

\* data.json is unmarshalled into the data gathered so far, key by key; each
\* file that is read goes into the digest, whatever its kind.
AddData(f, c) ==
    [k \in DataKeys |-> IF f \in DataFiles /\ k \in KeysOf[f] THEN c ELSE data[k]]

AddModule(f, c) == [g \in Modules |-> IF g = f THEN c ELSE modules[g]]

\* Mutant of Read: the digest leaves the modules out.
ReadHashingData(f) ==
    LET c == material[f]
    IN  /\ pc = "read" /\ f \in infos \ Ignored
        /\ c # None /\ ~(f \in DataFiles /\ c \in Unparsable)
        /\ infos' = infos \ {f}
        /\ modules' = AddModule(f, c) /\ data' = AddData(f, c)
        /\ etag' = IF f \in Modules THEN etag ELSE Append(etag, c)
        /\ UNCHANGED <<material, pc, names, moments, edits>>

\* Mutant of Read: the error of reading a file is not looked at.
ReadUnchecked(f) ==
    LET c == material[f]
    IN  /\ pc = "read" /\ f \in infos \ Ignored
        /\ infos' = infos \ {f}
        /\ modules' = AddModule(f, c) /\ data' = AddData(f, c)
        /\ etag' = Append(etag, c)
        /\ UNCHANGED <<material, pc, names, moments, edits>>

Read(f) ==
    LET c == material[f]
    IN  /\ pc = "read" /\ f \in infos \ Ignored
        /\ c # None /\ ~(f \in DataFiles /\ c \in Unparsable)
        /\ infos' = infos \ {f}
        /\ modules' = AddModule(f, c) /\ data' = AddData(f, c)
        /\ etag' = Append(etag, c)
        /\ UNCHANGED <<material, pc, names, moments, edits>>

\* A file that has gone, cannot be read or is no JSON ends the build.
ReadFails ==
    /\ pc = "read" /\ infos \ Ignored # {}
    /\ pc' = "failed"
    /\ UNCHANGED <<material, names, infos, bundle, moments, edits>>

Hash ==
    /\ pc = "read" /\ infos = {}
    /\ pc' = "done"
    /\ UNCHANGED <<material, names, infos, bundle, moments, edits>>

Next ==
    \/ ReadNames \/ Walked \/ ReadFails \/ Hash
    \/ \E f \in Files :
         \/ Lstat(f) \/ Skip(f) \/ Read(f)
         \/ \E c \in Contents \cup {None} : Edit(f, c)

Spec == Init /\ [][Next]_vars

-----------------------------------------------------------------------------
(* Properties.                                                              *)

Taken(m) == {f \in Files \ Ignored : m[f] # None}

\* The archive holds exactly the modules and the data of the material m, a key
\* that several of its files set having the value of one of them, and the digest
\* is taken of exactly the files of m, each once, in some order.
IsBundleOf(m) ==
    /\ \A f \in Modules : modules[f] = IF f \in Taken(m) THEN m[f] ELSE None
    /\ \A k \in DataKeys :
         LET setters == {f \in Taken(m) \cap DataFiles : k \in KeysOf[f]}
         IN  IF setters = {} THEN data[k] = None ELSE \E f \in setters : data[k] = m[f]
    /\ \A c \in Contents :
         Cardinality({i \in DOMAIN etag : etag[i] = c}) =
           Cardinality({f \in Taken(m) : m[f] = c})

\* One edit while BuildBundle walks and reads cannot tear the bundle: archive
\* and digest are those of the material at one moment, the same for both,
\* whatever the order of the map.
\* (Two edits can: this is what Bundler's Collect leaves out.)
SnapshotOfOneMoment ==
    pc = "done" /\ edits <= 1 => \E m \in moments : IsBundleOf(m)

\* However many edits there are and whichever file wins a key, what the digest
\* is taken of is what files held since the walk began, and covers the archive.
DigestCoversArchive ==
    pc = "done" =>
      /\ \A i \in DOMAIN etag :
           \E m \in moments, f \in Files \ Ignored : m[f] = etag[i]
      /\ \A f \in Modules : modules[f] # None => modules[f] \in ToSet(etag)
      /\ \A k \in DataKeys : data[k] # None => data[k] \in ToSet(etag)
=============================================================================
