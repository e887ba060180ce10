---------------------------- MODULE BundlerProofs ----------------------------
(***************************************************************************)
(* Safety of the bundle server for every set of configurations, however    *)
(* many starts, edits and seconds there are.                               *)
(***************************************************************************)
EXTENDS Bundler, TLAPS

(***************************************************************************)
(* The inductive strengthening of the type invariant: what the locals of   *)
(* BuildBundle hold at each place of the loop.                             *)
(***************************************************************************)
Making == {"sign", "path", "name", "unlink", "open", "fill", "register"}
Named  == {"unlink", "open", "fill", "register"}

LoopInv ==
    /\ pc \in Making \cup {"collect"} => idx <= Len(cfg.bundles)
    /\ pc \in Making <=> work # None
    /\ pc \in Named => /\ work.name \in FileName
                       /\ work.path \in Path
                       /\ work.path[2] = work.name
    /\ pc = "register" => BuiltAs(disk[work.path], work.etag)

TypeInv == TypeOK /\ LoopInv

\* The bundle the loop is at is one of the configuration's.
LEMMA CurrentType ==
    ASSUME TypeInv, pc \in Making \cup {"collect"}
    PROVE  Current \in BundleConfig
<1>1. cfg \in Config
  BY ConfigsAssumption DEF TypeInv, TypeOK, Making
<1>2. cfg.bundles \in Seq(BundleConfig)
  BY <1>1 DEF Config
<1>3. idx \in 1..Len(cfg.bundles)
  BY <1>2 DEF TypeInv, TypeOK, LoopInv
<1> QED BY <1>2, <1>3 DEF Current

\* A name made from a bundle's configuration is a file name.
LEMMA NameType ==
    ASSUME TypeInv, NEW b \in BundleConfig
    PROVE  NameNow(b) \in FileName
  BY BoundsAssumption DEF TypeInv, TypeOK, NameNow, FileName, BundleConfig

\* The registries a process can be left with are well-formed.
LEMMA EmptyTypes ==
    /\ NilMap \in Registry /\ EmptyMap \in Registry /\ NoFile \in RegFile
  BY DEF NilMap, EmptyMap, NoRefs, NoFile, Registry, RegFile

LEMMA InitType == Init => TypeInv
<1> SUFFICES ASSUME Init PROVE TypeInv
  OBVIOUS
<1>1. TypeOK
  <2>1. clock \in 1..MaxClock /\ material \in Version /\ starts \in 0..MaxStarts
    BY BoundsAssumption DEF Init, Version
  <2>2. disk \in [Path -> Content \cup {None}]
    BY DEF Init
  <2>3. pc \in PCs /\ pc = "off" /\ exit \in {"none", "nilmap", "authz", "shutdown", "killed"}
    BY DEF Init, PCs
  <2>4. purgeErr \in BOOLEAN /\ clean \in BOOLEAN /\ listing = {} /\ fresh = {}
    BY DEF Init
  <2>5. idx \in Nat \ {0} /\ cfg = None /\ work = None
    BY DEF Init
  <2> QED BY <2>1, <2>2, <2>3, <2>4, <2>5, EmptyTypes DEF Init, TypeOK
<1>2. LoopInv
  BY DEF Init, LoopInv, Making, Named
<1> QED BY <1>1, <1>2 DEF TypeInv

\* Which steps change which variables, and how those that are only reset or
\* counted change.
Frame ==
    /\ Tick \/ UNCHANGED clock
    /\ Edit \/ UNCHANGED material
    /\ Unlink \/ OpenOut \/ FillOut \/ PurgeFile \/ UNCHANGED disk
    /\ PersistRemove \/ PersistCreate \/ PersistStore \/ PurgeRegistry \/ UNCHANGED regFile
    /\ LoadRegistry \/ Register \/ mem' = NilMap \/ UNCHANGED mem
    /\ Collect \/ StampPath \/ StampName \/ work' = None \/ UNCHANGED work
    /\ PurgeList \/ PurgeFile \/ listing' = {} \/ UNCHANGED listing
    /\ Register \/ fresh' = {} \/ UNCHANGED fresh
    /\ idx' \in {1, idx, idx + 1}
    /\ \/ pc = "off" /\ cfg' \in Configs /\ starts < MaxStarts /\ starts' = starts + 1
       \/ cfg' = cfg /\ starts' = starts /\ (pc = "off" => pc' = "off")

LEMMA StepFrame == [Next]_vars => Frame
<1> SUFFICES ASSUME [Next]_vars PROVE Frame
  OBVIOUS
<1> USE DEF Frame, env, files, control, history
<1>1. CASE Tick
  BY <1>1 DEF Tick
<1>2. CASE Edit
  BY <1>2 DEF Edit
<1>3. ASSUME NEW c \in Configs, Start(c) PROVE Frame
  BY <1>3 DEF Start
<1>4. CASE LoadRegistry
  BY <1>4 DEF LoadRegistry
<1>5. CASE NextBundle
  BY <1>5 DEF NextBundle, Return
<1>6. CASE Collect
  BY <1>6 DEF Collect, Return
<1>7. CASE Sign
  BY <1>7 DEF Sign, Return
<1>8. CASE StampPath
  BY <1>8 DEF StampPath
<1>9. CASE StampName
  BY <1>9 DEF StampName, Return
<1>10. CASE Unlink
  BY <1>10 DEF Unlink
<1>11. CASE OpenOut
  BY <1>11 DEF OpenOut, Return
<1>12. CASE FillOut
  BY <1>12 DEF FillOut, Return
<1>13. CASE Register
  BY <1>13 DEF Register
<1>14. CASE NilMapPanic
  BY <1>14 DEF NilMapPanic, Exit
<1>15. CASE PersistRemove
  BY <1>15 DEF PersistRemove
<1>16. CASE PersistCreate
  BY <1>16 DEF PersistCreate, Return
<1>17. CASE PersistStore
  BY <1>17 DEF PersistStore, Return
<1>18. CASE Serve
  BY <1>18 DEF Serve, Exit
<1>19. CASE PurgeList
  BY <1>19 DEF PurgeList
<1>20. CASE PurgeFile
  BY <1>20 DEF PurgeFile
<1>21. CASE PurgeFilesDone
  BY <1>21 DEF PurgeFilesDone
<1>22. CASE PurgeRegistry
  BY <1>22 DEF PurgeRegistry, Exit
<1>23. CASE Signal
  BY <1>23 DEF Signal, Exit
<1>24. CASE Kill
  BY <1>24 DEF Kill, Exit
<1>25. CASE UNCHANGED vars
  BY <1>25 DEF vars
<1> QED
  BY <1>1, <1>2, <1>3, <1>4, <1>5, <1>6, <1>7, <1>8, <1>9, <1>10, <1>11, <1>12, <1>13, <1>14, <1>15, <1>16, <1>17, <1>18, <1>19, <1>20, <1>21, <1>22, <1>23, <1>24, <1>25 DEF Next, Process

-----------------------------------------------------------------------------
(* Type correctness.                                                        *)

\* What a bundle is written as.
LEMMA WrittenType ==
    ASSUME TypeInv, pc \in Making, NEW whole \in BOOLEAN
    PROVE  Written(whole) \in Content /\ Written(whole) # None
<1>1. work.etag \in Digest
  BY DEF TypeInv, TypeOK, LoopInv, Work
<1>2. Current.sign \in BOOLEAN
  BY CurrentType DEF BundleConfig
<1>3. Written(whole) \in Content
  BY <1>1, <1>2 DEF Written, Content
<1> QED BY <1>3, NoneAssumption

LEMMA StepDisk ==
    ASSUME TypeInv, [Next]_vars PROVE disk' \in [Path -> Content \cup {None}]
<1>1. disk \in [Path -> Content \cup {None}] /\ work \in Work \cup {None}
  BY DEF TypeInv, TypeOK
<1>3. CASE Unlink
  BY <1>1, <1>3 DEF Unlink
<1>4. CASE OpenOut
  <2>1. Written(FALSE) \in Content
    BY <1>4, WrittenType DEF OpenOut, Making
  <2> QED BY <1>1, <1>4, <2>1 DEF OpenOut
<1>5. CASE FillOut
  <2>1. Written(TRUE) \in Content
    BY <1>5, WrittenType DEF FillOut, Making
  <2> QED BY <1>1, <1>5, <2>1 DEF FillOut
<1>6. CASE PurgeFile
  BY <1>1, <1>6 DEF PurgeFile
<1> QED BY <1>1, <1>3, <1>4, <1>5, <1>6, StepFrame DEF Frame

LEMMA StepRegFile ==
    ASSUME TypeInv, [Next]_vars PROVE regFile' \in RegFile
<1>1. regFile \in RegFile /\ mem \in Registry
  BY DEF TypeInv, TypeOK
<1>2. CASE PersistRemove
  BY <1>1, <1>2, EmptyTypes DEF PersistRemove
<1>3. CASE PersistCreate
  <2>1. [state |-> "partial", reg |-> NilMap] \in RegFile
    BY EmptyTypes DEF RegFile
  <2> QED BY <1>1, <1>3, <2>1 DEF PersistCreate
<1>4. CASE PersistStore
  <2>1. [state |-> "whole", reg |-> mem] \in RegFile
    BY <1>1 DEF RegFile
  <2> QED BY <1>1, <1>4, <2>1 DEF PersistStore
<1>5. CASE PurgeRegistry
  BY <1>1, <1>5, EmptyTypes DEF PurgeRegistry
<1> QED BY <1>1, <1>2, <1>3, <1>4, <1>5, StepFrame DEF Frame

LEMMA StepMem ==
    ASSUME TypeInv, [Next]_vars PROVE mem' \in Registry
<1>1. CASE LoadRegistry
  <2>1. Loaded \subseteq Registry
    BY EmptyTypes DEF TypeInv, TypeOK, Loaded, RegFile
  <2> QED BY <1>1, <2>1 DEF LoadRegistry
<1>2. CASE Register
  <2>1. work \in Work /\ work.name \in FileName /\ work.path \in Path
    BY <1>2 DEF TypeInv, TypeOK, LoopInv, Register, Making, Named
  <2>2. RefOf(work) \in Ref
    BY <2>1 DEF RefOf, Ref, Work
  <2>3. mem \in Registry /\ mem' = [mem EXCEPT !.refs[work.name] = RefOf(work)]
    BY <1>2 DEF TypeInv, TypeOK, Register
  <2> QED BY <2>1, <2>2, <2>3 DEF Registry
<1> QED BY <1>1, <1>2, EmptyTypes, StepFrame DEF Frame, TypeInv, TypeOK

LEMMA StepWork ==
    ASSUME TypeInv, [Next]_vars PROVE work' \in Work \cup {None}
<1>1. work \in Work \cup {None} /\ (pc \in Making => work \in Work)
  BY DEF TypeInv, TypeOK, LoopInv
<1>2. CASE Collect
  <2>1. Current \in BundleConfig /\ material \in Version
    BY <1>2, CurrentType DEF Collect, TypeInv, TypeOK
  <2>2. [bundle |-> Current.name, ver |-> material] \in Digest
    BY <2>1 DEF BundleConfig, Digest
  <2>3. [etag |-> [bundle |-> Current.name, ver |-> material],
         name |-> None, path |-> None] \in Work
    BY <2>2 DEF Work
  <2> QED BY <1>2, <2>3 DEF Collect, Return
<1>3. ASSUME pc \in Making
      PROVE  NameNow(Current) \in FileName /\ <<Current.dir, NameNow(Current)>> \in Path
  BY <1>3, CurrentType, NameType DEF BundleConfig, Path
<1>4. CASE StampPath
  BY <1>1, <1>3, <1>4 DEF StampPath, Making, Work
<1>5. CASE StampName
  BY <1>1, <1>3, <1>5 DEF StampName, Return, Making, Work
<1> QED BY <1>1, <1>2, <1>4, <1>5, StepFrame DEF Frame

LEMMA StepLists ==
    ASSUME TypeInv, [Next]_vars
    PROVE  listing' \subseteq FileName /\ fresh' \subseteq FileName
<1>1. listing \subseteq FileName /\ fresh \subseteq FileName
  BY DEF TypeInv, TypeOK
<1>2. CASE PurgeList
  BY <1>1, <1>2 DEF PurgeList
<1>3. CASE PurgeFile
  BY <1>1, <1>3 DEF PurgeFile
<1>4. CASE Register
  BY <1>1, <1>4 DEF Register, TypeInv, LoopInv, Named
<1> QED BY <1>1, <1>2, <1>3, <1>4, StepFrame DEF Frame

\* Places, ways out and flags.
ControlOK ==
    /\ pc \in PCs
    /\ exit \in {"none", "nilmap", "authz", "shutdown", "killed"}
    /\ purgeErr \in BOOLEAN /\ clean \in BOOLEAN

LEMMA StepControl == ControlOK /\ [Next]_vars => ControlOK'
<1> SUFFICES ASSUME ControlOK, [Next]_vars PROVE ControlOK'
  OBVIOUS
<1> USE DEF ControlOK, control, history, PCs, Building, Purging
<1>1. CASE Tick
  BY <1>1 DEF Tick
<1>2. CASE Edit
  BY <1>2 DEF Edit
<1>3. ASSUME NEW c \in Configs, Start(c) PROVE ControlOK'
  BY <1>3 DEF Start
<1>4. CASE LoadRegistry
  BY <1>4 DEF LoadRegistry
<1>5. CASE NextBundle
  BY <1>5 DEF NextBundle, Return
<1>6. CASE Collect
  BY <1>6 DEF Collect, Return
<1>7. CASE Sign
  BY <1>7 DEF Sign, Return
<1>8. CASE StampPath
  BY <1>8 DEF StampPath
<1>9. CASE StampName
  BY <1>9 DEF StampName, Return
<1>10. CASE Unlink
  BY <1>10 DEF Unlink
<1>11. CASE OpenOut
  BY <1>11 DEF OpenOut, Return
<1>12. CASE FillOut
  BY <1>12 DEF FillOut, Return
<1>13. CASE Register
  BY <1>13 DEF Register
<1>14. CASE NilMapPanic
  BY <1>14 DEF NilMapPanic, Exit
<1>15. CASE PersistRemove
  BY <1>15 DEF PersistRemove
<1>16. CASE PersistCreate
  BY <1>16 DEF PersistCreate, Return
<1>17. CASE PersistStore
  BY <1>17 DEF PersistStore, Return
<1>18. CASE Serve
  BY <1>18 DEF Serve, Exit
<1>19. CASE PurgeList
  BY <1>19 DEF PurgeList
<1>20. CASE PurgeFile
  BY <1>20 DEF PurgeFile
<1>21. CASE PurgeFilesDone
  BY <1>21 DEF PurgeFilesDone
<1>22. CASE PurgeRegistry
  BY <1>22 DEF PurgeRegistry, Exit
<1>23. CASE Signal
  BY <1>23 DEF Signal, Exit
<1>24. CASE Kill
  BY <1>24 DEF Kill, Exit
<1>25. CASE UNCHANGED vars
  BY <1>25 DEF vars
<1> QED
  BY <1>1, <1>2, <1>3, <1>4, <1>5, <1>6, <1>7, <1>8, <1>9, <1>10, <1>11, <1>12, <1>13, <1>14, <1>15, <1>16, <1>17, <1>18, <1>19, <1>20, <1>21, <1>22, <1>23, <1>24, <1>25 DEF Next, Process

LEMMA StepLoop == TypeInv /\ [Next]_vars => LoopInv'
<1> SUFFICES ASSUME TypeInv, [Next]_vars PROVE LoopInv'
  OBVIOUS
<1>0. TypeOK /\ LoopInv
  BY DEF TypeInv
<1> USE DEF LoopInv, Making, Named, env, files, control, history
<1>1. CASE Tick
  BY <1>0, <1>1 DEF Tick
<1>2. CASE Edit
  BY <1>0, <1>2 DEF Edit
<1>3. ASSUME NEW c \in Configs, Start(c) PROVE LoopInv'
  BY <1>0, <1>3 DEF Start
<1>4. CASE LoadRegistry
  BY <1>0, <1>4 DEF LoadRegistry
<1>5. CASE NextBundle
  <2>1. idx \in Nat /\ Len(cfg.bundles) \in Nat
    <3>1. cfg \in Config
      BY <1>0, <1>5, ConfigsAssumption DEF NextBundle, TypeOK
    <3> QED BY <1>0, <3>1 DEF TypeOK, Config
  <2> QED BY <1>0, <1>5, <2>1 DEF NextBundle, Return
<1>6. CASE Collect
  <2>1. Current \in BundleConfig /\ material \in Version
    BY <1>6, CurrentType DEF Collect, TypeInv, TypeOK
  <2>2. [etag |-> [bundle |-> Current.name, ver |-> material],
         name |-> None, path |-> None] \in Work
    BY <2>1 DEF BundleConfig, Digest, Work
  <2> QED BY <1>0, <1>6, <2>2, NoneAssumption DEF Collect, Return
<1>7. CASE Sign
  BY <1>0, <1>7 DEF Sign, Return
<1>8. CASE StampPath
  <2>1. NameNow(Current) \in FileName /\ <<Current.dir, NameNow(Current)>> \in Path
    BY <1>8, CurrentType, NameType DEF StampPath, BundleConfig, Path
  <2>2. work \in Work
    BY <1>0, <1>8 DEF StampPath, TypeOK
  <2>3. work' \in Work
    BY <1>8, <2>1, <2>2 DEF StampPath, Work
  <2> QED BY <1>0, <1>8, <2>3, NoneAssumption DEF StampPath
<1>9. CASE StampName
  <2>1. NameNow(Current) \in FileName /\ <<Current.dir, NameNow(Current)>> \in Path
    BY <1>9, CurrentType, NameType DEF StampName, BundleConfig, Path
  <2>2. work \in Work
    BY <1>0, <1>9 DEF StampName, TypeOK
  <2>3. CASE pc' = "unlink"
    <3>1. work' = [etag |-> work.etag, name |-> NameNow(Current),
                   path |-> <<Current.dir, NameNow(Current)>>]
      BY <1>9, <2>3 DEF StampName, Return
    <3>2. /\ work' \in Work /\ work'.name = NameNow(Current)
          /\ work'.path = <<Current.dir, NameNow(Current)>>
      BY <2>1, <2>2, <3>1 DEF Work
    <3> QED BY <1>0, <1>9, <2>1, <2>3, <3>2, NoneAssumption DEF StampName, Return
  <2> QED BY <1>0, <1>9, <2>3 DEF StampName, Return
<1>10. CASE Unlink
  BY <1>0, <1>10 DEF Unlink
<1>11. CASE OpenOut
  <2>1. work.path \in Path /\ disk \in [Path -> Content \cup {None}]
    BY <1>0, <1>11 DEF OpenOut, TypeOK
  <2> QED BY <1>0, <1>11, <2>1 DEF OpenOut, Return
<1>12. CASE FillOut
  <2>1. work.path \in Path /\ disk \in [Path -> Content \cup {None}]
    BY <1>0, <1>12 DEF FillOut, TypeOK
  <2>2. BuiltAs(Written(TRUE), work.etag)
    BY <1>0, <1>12, WrittenType DEF FillOut, TypeInv, BuiltAs, Written
  <2> QED BY <1>0, <1>12, <2>1, <2>2 DEF FillOut, Return
<1>13. CASE Register
  BY <1>0, <1>13 DEF Register
<1>14. CASE NilMapPanic
  BY <1>0, <1>14 DEF NilMapPanic, Exit
<1>15. CASE PersistRemove
  BY <1>0, <1>15 DEF PersistRemove
<1>16. CASE PersistCreate
  BY <1>0, <1>16 DEF PersistCreate, Return
<1>17. CASE PersistStore
  BY <1>0, <1>17 DEF PersistStore, Return
<1>18. CASE Serve
  BY <1>0, <1>18 DEF Serve, Exit
<1>19. CASE PurgeList
  BY <1>0, <1>19 DEF PurgeList
<1>20. CASE PurgeFile
  BY <1>0, <1>20 DEF PurgeFile
<1>21. CASE PurgeFilesDone
  BY <1>0, <1>21 DEF PurgeFilesDone
<1>22. CASE PurgeRegistry
  BY <1>0, <1>22 DEF PurgeRegistry, Exit
<1>23. CASE Signal
  BY <1>0, <1>23 DEF Signal, Exit
<1>24. CASE Kill
  BY <1>0, <1>24 DEF Kill, Exit
<1>25. CASE UNCHANGED vars
  BY <1>0, <1>25 DEF vars
<1> QED
  BY <1>1, <1>2, <1>3, <1>4, <1>5, <1>6, <1>7, <1>8, <1>9, <1>10, <1>11, <1>12, <1>13, <1>14, <1>15, <1>16, <1>17, <1>18, <1>19, <1>20, <1>21, <1>22, <1>23, <1>24, <1>25 DEF Next, Process

LEMMA StepType == TypeInv /\ [Next]_vars => TypeInv'
<1> SUFFICES ASSUME TypeInv, [Next]_vars PROVE TypeInv'
  OBVIOUS
<1>1. ControlOK'
  BY StepControl DEF ControlOK, TypeInv, TypeOK
<1>2. clock' \in 1..MaxClock /\ material' \in Version
  BY StepFrame, BoundsAssumption DEF Frame, TypeInv, TypeOK, Version, Tick, Edit
<1>3. cfg' \in Config \cup {None} /\ (pc' # "off" => cfg' \in Configs) /\ starts' \in 0..MaxStarts
  BY StepFrame, BoundsAssumption, ConfigsAssumption DEF Frame, TypeInv, TypeOK
<1>4. idx' \in Nat \ {0}
  BY StepFrame DEF Frame, TypeInv, TypeOK
<1>5. TypeOK'
  BY <1>1, <1>2, <1>3, <1>4, StepDisk, StepRegFile, StepMem, StepWork, StepLists
  DEF TypeOK, ControlOK
<1> QED BY <1>5, StepLoop DEF TypeInv

LEMMA TypeInvariant == Spec => []TypeInv
  BY InitType, StepType, PTL DEF Spec

\* Every state of every run of the server is of the declared type.
THEOREM TypeCorrect == Spec => []TypeOK
<1>1. TypeInv => TypeOK
  BY DEF TypeInv
<1> QED BY <1>1, TypeInvariant, PTL

-----------------------------------------------------------------------------
(* The registry: where its entries come from, and their keys.               *)

\* A registry is only ever copied or dropped, except when a bundle is registered.
LEMMA StepRegistries ==
    ASSUME TypeInv, [Next]_vars
    PROVE  /\ regFile'.reg \in {regFile.reg, NilMap, mem}
           /\ mem' \in {mem, NilMap, EmptyMap, regFile.reg} \/ Register
<1>1. regFile'.reg \in {regFile.reg, NilMap, mem}
  <2>1. PersistRemove \/ PurgeRegistry => regFile' \in {regFile, NoFile}
    BY DEF PersistRemove, PurgeRegistry
  <2>2. PersistCreate => regFile' \in {regFile, [state |-> "partial", reg |-> NilMap]}
    BY DEF PersistCreate
  <2>3. PersistStore => regFile' \in {regFile, [state |-> "whole", reg |-> mem]}
    BY DEF PersistStore
  <2> QED BY <2>1, <2>2, <2>3, StepFrame DEF Frame, NoFile
<1>2. LoadRegistry => mem' \in {NilMap, EmptyMap, regFile.reg}
  <2>1. regFile.state \in {"absent", "partial", "whole"}
    BY DEF TypeInv, TypeOK, RegFile
  <2>2. Loaded \subseteq {NilMap, EmptyMap, regFile.reg}
    BY <2>1 DEF Loaded
  <2> QED BY <2>2 DEF LoadRegistry
<1> QED BY <1>1, <1>2, StepFrame DEF Frame

\* Hence whatever holds of every entry before a step holds of every entry after
\* it that the step did not register.
LEMMA StepEntries ==
    ASSUME TypeInv, [Next]_vars, NEW f \in FileName,
           NEW r \in {mem'.refs[f], regFile'.reg.refs[f]}, r # None
    PROVE  \/ r \in {mem.refs[f], regFile.reg.refs[f]}
           \/ Register /\ f = work.name /\ r = RefOf(work)
<1>1. NilMap.refs[f] = None /\ EmptyMap.refs[f] = None
  BY DEF NilMap, EmptyMap, NoRefs
<1>2. CASE Register
  <2>1. mem' = [mem EXCEPT !.refs[work.name] = RefOf(work)] /\ mem \in Registry
    BY <1>2 DEF Register, TypeInv, TypeOK
  <2>2. mem'.refs[f] = IF f = work.name THEN RefOf(work) ELSE mem.refs[f]
    BY <2>1 DEF Registry
  <2> QED BY <1>1, <1>2, <2>2, StepRegistries
<1> QED BY <1>1, <1>2, StepRegistries

\* Entries are references.
LEMMA EntryType ==
    ASSUME TypeOK, NEW f \in FileName,
           NEW r \in {mem.refs[f], regFile.reg.refs[f]}, r # None
    PROVE  r \in Ref
  BY DEF TypeOK, RegFile, Registry

\* The entry that is registered has the name of its file.
LEMMA StepWellKeyed ==
    TypeInv /\ RegistryWellKeyed /\ [Next]_vars => RegistryWellKeyed'
<1> SUFFICES ASSUME TypeInv, RegistryWellKeyed, [Next]_vars, NEW f \in FileName,
                    NEW r \in {mem'.refs[f], regFile'.reg.refs[f]}, r # None
             PROVE  r.name = f /\ r.path[2] = f
  BY DEF RegistryWellKeyed
<1>1. CASE r \in {mem.refs[f], regFile.reg.refs[f]}
  BY <1>1 DEF RegistryWellKeyed
<1>2. CASE Register /\ f = work.name /\ r = RefOf(work)
  BY <1>2 DEF Register, RefOf, TypeInv, LoopInv, Named
<1> QED BY <1>1, <1>2, StepEntries

\* Whatever name and time a bundle is registered under, in this run or in one
\* whose registry was persisted, its key is the name its file was written to.
THEOREM WellKeyed == Spec => []RegistryWellKeyed
<1>1. Init => RegistryWellKeyed
  BY DEF Init, RegistryWellKeyed, NilMap, NoFile, NoRefs
<1> QED BY <1>1, StepWellKeyed, TypeInvariant, PTL DEF Spec

-----------------------------------------------------------------------------
(***************************************************************************)
(* ETags are never ahead of archives.  The argument: material only         *)
(* advances, so a version that was collected bounds every version recorded *)
(* before it, on disk or in a registry; and while a bundle is being made   *)
(* its version bounds them all, so that replacing an archive can only      *)
(* move it ahead of the entries that point to it.                          *)
(***************************************************************************)
Recorded(v) == v <= material /\ (work # None => v <= work.etag.ver)

RefBound(r) ==
    /\ Recorded(r.etag.ver)
    /\ disk[r.path] # None => r.etag.ver <= disk[r.path].etag.ver

FilesBound == \A p \in Path : disk[p] # None => Recorded(disk[p].etag.ver)
WorkBound  == work # None => work.etag.ver <= material
RefsBound  ==
    \A f \in FileName : \A r \in {mem.refs[f], regFile.reg.refs[f]} :
      r # None => RefBound(r)

VersionInv == FilesBound /\ WorkBound /\ RefsBound

\* How the versions a new one is compared with move.
LEMMA StepVersions ==
    ASSUME TypeInv, [Next]_vars
    PROVE  /\ material \in Nat /\ material' \in Nat /\ material <= material'
           /\ work # None => work.etag.ver \in Nat
           /\ \/ work' = None
              \/ work # None /\ work'.etag = work.etag
              \/ work'.etag.ver = material /\ material' = material
<1>1. material \in Nat /\ (work # None => work \in Work /\ work.etag.ver \in Nat)
  BY BoundsAssumption DEF TypeInv, TypeOK, Version, Work, Digest
<1>2. material' = material \/ material' = material + 1
  BY StepFrame DEF Frame, Edit
<1>3. Collect => work' = None \/ (work'.etag.ver = material /\ material' = material)
  BY DEF Collect, Return, env
<1>4. pc \in Making => work # None
  BY DEF TypeInv, LoopInv
<1>5. StampPath => work # None /\ work'.etag = work.etag
  BY <1>1, <1>4 DEF StampPath, Making, Work
<1>6. StampName => work' = None \/ (work # None /\ work'.etag = work.etag)
  BY <1>4 DEF StampName, Return, Making
<1> QED BY <1>1, <1>2, <1>3, <1>5, <1>6, StepFrame DEF Frame

LEMMA StepRecorded ==
    ASSUME TypeInv, [Next]_vars, NEW v \in Nat, Recorded(v)
    PROVE  Recorded(v)'
  BY StepVersions DEF Recorded

\* How the archive at a path moves: it is removed, left, or is now the work's.
LEMMA StepArchive ==
    ASSUME TypeInv, [Next]_vars, NEW p \in Path
    PROVE  \/ disk'[p] = None
           \/ disk'[p] = disk[p]
           \/ work # None /\ disk'[p].etag = work.etag /\ material' = material
              /\ (work' = None \/ work' = work)
<1>1. disk \in [Path -> Content \cup {None}]
  BY DEF TypeInv, TypeOK
<1>2. Unlink \/ PurgeFile => disk'[p] \in {None, disk[p]}
  BY <1>1 DEF Unlink, PurgeFile
<1>3. CASE OpenOut
  BY <1>1, <1>3 DEF OpenOut, Return, env, TypeInv, LoopInv, Making, Written
<1>4. CASE FillOut
  BY <1>1, <1>4 DEF FillOut, Return, env, TypeInv, LoopInv, Making, Written
<1> QED BY <1>1, <1>2, <1>3, <1>4, StepFrame DEF Frame

\* A bound that held of a reference still holds of it.
LEMMA StepRefBound ==
    ASSUME TypeInv, [Next]_vars, NEW r \in Ref, RefBound(r)
    PROVE  RefBound(r)'
<1>1. r.etag.ver \in Nat /\ r.path \in Path
  BY BoundsAssumption DEF Ref, Digest, Version
<1>2. Recorded(r.etag.ver)'
  BY <1>1, StepRecorded DEF RefBound
<1>3. disk'[r.path] # None => r.etag.ver <= disk'[r.path].etag.ver
  BY <1>1, StepArchive DEF RefBound, Recorded
<1> QED BY <1>2, <1>3 DEF RefBound

LEMMA StepFilesBound ==
    ASSUME TypeInv, FilesBound, WorkBound, [Next]_vars
    PROVE  FilesBound' /\ WorkBound'
<1>1. WorkBound'
  BY StepVersions DEF WorkBound
<1>2. ASSUME NEW p \in Path, disk'[p] # None
      PROVE  (Recorded(disk[p].etag.ver))'
  <2>1. CASE disk'[p] = disk[p]
    <3>1. disk[p].etag.ver \in Nat /\ Recorded(disk[p].etag.ver)
      BY <1>2, <2>1, BoundsAssumption
      DEF TypeInv, TypeOK, Content, Digest, Version, FilesBound
    <3>2. PICK v \in Nat : v = disk[p].etag.ver /\ Recorded(v)
      BY <3>1
    <3> QED BY <2>1, <3>2, StepRecorded DEF Recorded
  <2>2. CASE work # None /\ disk'[p].etag = work.etag /\ material' = material
             /\ (work' = None \/ work' = work)
    BY <2>2, StepVersions DEF WorkBound, Recorded
  <2> QED BY <1>2, <2>1, <2>2, StepArchive
<1> QED BY <1>1, <1>2 DEF FilesBound

LEMMA StepRefsBound ==
    ASSUME TypeInv, VersionInv, [Next]_vars
    PROVE  RefsBound'
<1> SUFFICES ASSUME NEW f \in FileName,
                    NEW r \in {mem'.refs[f], regFile'.reg.refs[f]}, r # None
             PROVE  RefBound(r)'
  BY DEF RefsBound
<1>1. CASE r \in {mem.refs[f], regFile.reg.refs[f]}
  <2>1. r \in Ref /\ RefBound(r)
    BY <1>1, EntryType DEF TypeInv, VersionInv, RefsBound
  <2> QED BY <2>1, StepRefBound
<1>2. CASE Register /\ r = RefOf(work)
  <2>1. /\ r.etag = work.etag /\ r.path = work.path
        /\ work # None /\ work' = None /\ disk' = disk /\ material' = material
    BY <1>2 DEF Register, RefOf, TypeInv, LoopInv, Making, env, files
  <2>2. disk[r.path].etag = work.etag /\ work.etag.ver \in Nat
    BY <1>2, <2>1, StepVersions DEF Register, TypeInv, LoopInv, BuiltAs
  <2> QED BY <2>1, <2>2 DEF RefBound, Recorded, VersionInv, WorkBound
<1> QED BY <1>1, <1>2, StepEntries

LEMMA VersionInvariant == Spec => []VersionInv
<1>1. Init => VersionInv
  BY DEF Init, VersionInv, FilesBound, WorkBound, RefsBound, NilMap, NoFile, NoRefs
<1>2. TypeInv /\ VersionInv /\ [Next]_vars => VersionInv'
  BY StepFilesBound, StepRefsBound DEF VersionInv
<1> QED BY <1>1, <1>2, TypeInvariant, PTL DEF Spec

\* No registry, in memory or on disk, credits an archive with material newer
\* than it was built from, wherever the process is killed and whatever fails.
THEOREM NeverAhead == Spec => []EtagNeverAhead
<1>1. VersionInv => EtagNeverAhead
  BY DEF VersionInv, RefsBound, RefBound, EtagNeverAhead, Refs
<1> QED BY <1>1, VersionInvariant, PTL

-----------------------------------------------------------------------------
(* What a run registers stays true until its purge.  The loop builds each   *)
(* bundle once, so an archive registered earlier in the run was made for an *)
(* earlier position of the loop; when no two bundles share an output file,  *)
(* its path is not the one the loop is writing to.                          *)

Looping == Making \cup {"loop", "collect"}
Live    == PCs \ (Purging \cup {"off"})

\* The bundle b goes to the path p.
WrittenTo(b, p) == b.build /\ p[1] = b.dir /\ p[2][1] = b.file

\* The path p was written for a bundle the loop is past.
MadeEarlier(p) ==
    \E j \in 1..Len(cfg.bundles) : j < idx /\ WrittenTo(cfg.bundles[j], p)

FreshTrue ==
    pc \in Live /\ DistinctOutputs(cfg)
      => \A f \in fresh : mem.refs[f] # None /\ True(mem.refs[f])

PositionInv ==
    /\ pc = "load" => fresh = {}
    /\ pc \in Making \cup {"collect"} => Current.build
    /\ pc \in Named => WrittenTo(Current, work.path)
    /\ pc \in Looping => \A f \in fresh : MadeEarlier(mem.refs[f].path)

FreshInv == PositionInv /\ FreshTrue

\* The loop never writes to an archive this run has registered.
LEMMA PathsApart ==
    ASSUME TypeInv, FreshInv, pc \in Named, DistinctOutputs(cfg), NEW f \in fresh
    PROVE  mem.refs[f].path # work.path
<1>1. idx \in 1..Len(cfg.bundles) /\ DOMAIN cfg.bundles = 1..Len(cfg.bundles)
  <2>1. cfg \in Config
    BY ConfigsAssumption DEF TypeInv, TypeOK, Named
  <2>2. cfg.bundles \in Seq(BundleConfig)
    BY <2>1 DEF Config
  <2> QED BY <2>2 DEF TypeInv, TypeOK, LoopInv, Making, Named
<1>2. PICK j \in 1..Len(cfg.bundles) :
        j < idx /\ WrittenTo(cfg.bundles[j], mem.refs[f].path)
  BY DEF FreshInv, PositionInv, Looping, Making, Named, MadeEarlier
<1>3. WrittenTo(cfg.bundles[idx], work.path)
  BY DEF FreshInv, PositionInv, Current
<1>4. j # idx
  BY <1>1, <1>2
<1> QED BY <1>1, <1>2, <1>3, <1>4 DEF DistinctOutputs, WrittenTo

\* Writing, or removing, the archive of the current bundle keeps those registered.
LEMMA WriteKeepsFresh ==
    ASSUME TypeInv, FreshInv, pc \in Named,
           \A p \in Path : p # work.path => disk'[p] = disk[p],
           mem' = mem, fresh' = fresh, cfg' = cfg
    PROVE  FreshTrue'
<1> SUFFICES ASSUME DistinctOutputs(cfg), NEW f \in fresh
             PROVE  mem.refs[f] # None /\ (True(mem.refs[f]))'
  BY DEF FreshTrue, DistinctOutputs
<1>1. mem.refs[f] # None /\ True(mem.refs[f])
  BY DEF FreshInv, FreshTrue, Live, Named, PCs, Building, Purging
<1>2. mem.refs[f] \in Ref
  BY <1>1, EntryType DEF TypeInv, TypeOK
<1>3. disk'[mem.refs[f].path] = disk[mem.refs[f].path]
  BY <1>2, PathsApart DEF Ref
<1> QED BY <1>1, <1>3 DEF True

LEMMA StepFreshTrue == TypeInv /\ FreshInv /\ [Next]_vars => FreshTrue'
<1> SUFFICES ASSUME TypeInv, FreshInv, [Next]_vars PROVE FreshTrue'
  OBVIOUS
<1>0. FreshTrue /\ LoopInv /\ TypeOK
  BY DEF FreshInv, TypeInv
<1> USE DEF PCs, Building, Purging, Live, env, files, control, history
<1>1. CASE Tick
  BY <1>0, <1>1 DEF Tick, FreshTrue, True, DistinctOutputs
<1>2. CASE Edit
  BY <1>0, <1>2 DEF Edit, FreshTrue, True, DistinctOutputs
<1>3. ASSUME NEW c \in Configs, Start(c) PROVE FreshTrue'
  BY <1>3 DEF Start, FreshTrue
<1>4. CASE LoadRegistry
  BY <1>4 DEF LoadRegistry, FreshTrue, FreshInv, PositionInv
<1>5. CASE NextBundle
  BY <1>0, <1>5 DEF NextBundle, Return, FreshTrue, True, DistinctOutputs
<1>6. CASE Collect
  BY <1>0, <1>6 DEF Collect, Return, FreshTrue, True, DistinctOutputs
<1>7. CASE Sign
  BY <1>0, <1>7 DEF Sign, Return, FreshTrue, True, DistinctOutputs
<1>8. CASE StampPath
  BY <1>0, <1>8 DEF StampPath, FreshTrue, True, DistinctOutputs
<1>9. CASE StampName
  BY <1>0, <1>9 DEF StampName, Return, FreshTrue, True, DistinctOutputs
<1>10. CASE Unlink
  <2>1. pc \in Named /\ (\A p \in Path : p # work.path => disk'[p] = disk[p])
    BY <1>0, <1>10 DEF Unlink, Named, TypeOK
  <2> QED BY <1>10, <2>1, WriteKeepsFresh DEF Unlink
<1>11. CASE OpenOut
  <2>1. pc \in Named /\ (\A p \in Path : p # work.path => disk'[p] = disk[p])
    BY <1>0, <1>11 DEF OpenOut, Named, TypeOK
  <2> QED BY <1>11, <2>1, WriteKeepsFresh DEF OpenOut
<1>12. CASE FillOut
  <2>1. pc \in Named /\ (\A p \in Path : p # work.path => disk'[p] = disk[p])
    BY <1>0, <1>12 DEF FillOut, Named, TypeOK
  <2> QED BY <1>12, <2>1, WriteKeepsFresh DEF FillOut
<1>13. CASE Register
  <2>1. /\ pc = "register" /\ work \in Work /\ work.name \in FileName /\ work.path \in Path
        /\ BuiltAs(disk[work.path], work.etag)
    BY <1>0, <1>13 DEF Register, LoopInv, TypeOK, Making, Named
  <2>2. /\ RefOf(work) \in Ref /\ RefOf(work) # None
        /\ RefOf(work).etag = work.etag /\ RefOf(work).path = work.path
    BY <2>1, NoneAssumption DEF RefOf, Ref, Work
  <2>3. \A f \in FileName :
          mem'.refs[f] = IF f = work.name THEN RefOf(work) ELSE mem.refs[f]
    BY <1>0, <1>13, <2>1 DEF Register, TypeOK, Registry
  <2> SUFFICES ASSUME DistinctOutputs(cfg), NEW f \in fresh \cup {work.name}
               PROVE  mem'.refs[f] # None /\ (True(mem.refs[f]))'
    BY <1>13 DEF Register, FreshTrue, DistinctOutputs
  <2>4. f \in FileName /\ disk' = disk
    BY <1>0, <1>13, <2>1 DEF Register, TypeOK
  <2>5. CASE f = work.name
    BY <2>1, <2>2, <2>3, <2>4, <2>5 DEF True
  <2>6. CASE f # work.name
    BY <1>0, <2>1, <2>3, <2>4, <2>6 DEF True, FreshTrue
  <2> QED BY <2>5, <2>6
<1>14. CASE NilMapPanic
  BY <1>0, <1>14 DEF NilMapPanic, Exit, FreshTrue, True, DistinctOutputs
<1>15. CASE PersistRemove
  BY <1>0, <1>15 DEF PersistRemove, FreshTrue, True, DistinctOutputs
<1>16. CASE PersistCreate
  BY <1>0, <1>16 DEF PersistCreate, Return, FreshTrue, True, DistinctOutputs
<1>17. CASE PersistStore
  BY <1>0, <1>17 DEF PersistStore, Return, FreshTrue, True, DistinctOutputs
<1>18. CASE Serve
  BY <1>0, <1>18 DEF Serve, Exit, FreshTrue, True, DistinctOutputs
<1>19. CASE PurgeList
  BY <1>0, <1>19 DEF PurgeList, FreshTrue, True, DistinctOutputs
<1>20. CASE PurgeFile
  BY <1>0, <1>20 DEF PurgeFile, FreshTrue, True, DistinctOutputs
<1>21. CASE PurgeFilesDone
  BY <1>0, <1>21 DEF PurgeFilesDone, FreshTrue, True, DistinctOutputs
<1>22. CASE PurgeRegistry
  BY <1>0, <1>22 DEF PurgeRegistry, Exit, FreshTrue, True, DistinctOutputs
<1>23. CASE Signal
  BY <1>0, <1>23 DEF Signal, Exit, FreshTrue, True, DistinctOutputs
<1>24. CASE Kill
  BY <1>0, <1>24 DEF Kill, Exit, FreshTrue, True, DistinctOutputs
<1>25. CASE UNCHANGED vars
  BY <1>0, <1>25 DEF vars, FreshTrue, True, DistinctOutputs
<1> QED
  BY <1>1, <1>2, <1>3, <1>4, <1>5, <1>6, <1>7, <1>8, <1>9, <1>10, <1>11, <1>12, <1>13, <1>14, <1>15, <1>16, <1>17, <1>18, <1>19, <1>20, <1>21, <1>22, <1>23, <1>24, <1>25 DEF Next, Process

\* The loop only moves forward.
LEMMA EarlierStaysEarlier ==
    ASSUME TypeInv, cfg' = cfg, idx' \in {idx, idx + 1}, NEW p, MadeEarlier(p)
    PROVE  MadeEarlier(p)'
<1>1. PICK j \in 1..Len(cfg.bundles) : j < idx /\ WrittenTo(cfg.bundles[j], p)
  BY DEF MadeEarlier
<1>3. j < idx'
  BY <1>1 DEF TypeInv, TypeOK
<1> QED BY <1>1, <1>3 DEF MadeEarlier, WrittenTo

LEMMA StepPosition == TypeInv /\ PositionInv /\ [Next]_vars => PositionInv'
<1> SUFFICES ASSUME TypeInv, PositionInv, [Next]_vars PROVE PositionInv'
  OBVIOUS
<1>0. TypeOK /\ LoopInv
  BY DEF TypeInv
<1> USE DEF PositionInv, Making, Named, Looping, env, files, control, history, Current
<1>1. CASE Tick
  BY <1>0, <1>1 DEF Tick, MadeEarlier, WrittenTo
<1>2. CASE Edit
  BY <1>0, <1>2 DEF Edit, MadeEarlier, WrittenTo
<1>3. ASSUME NEW c \in Configs, Start(c) PROVE PositionInv'
  BY <1>3 DEF Start
<1>4. CASE LoadRegistry
  BY <1>0, <1>4 DEF LoadRegistry, MadeEarlier, WrittenTo
<1>5. CASE NextBundle
  <2>1. pc' = "loop" \/ pc' = "collect" => idx' \in {idx, idx + 1} /\ cfg' = cfg
    BY <1>5 DEF NextBundle, Return
  <2>2. ASSUME pc' \in Looping, NEW f \in fresh
        PROVE  MadeEarlier(mem.refs[f].path)'
    <3>1. pc' = "loop" \/ pc' = "collect"
      BY <1>5, <2>2 DEF NextBundle, Return
    <3>2. PICK p : p = mem.refs[f].path /\ MadeEarlier(p)
      BY <1>5, <2>2 DEF NextBundle
    <3>3. MadeEarlier(p)'
      BY <2>1, <3>1, <3>2, EarlierStaysEarlier
    <3> QED BY <1>5, <3>2, <3>3 DEF NextBundle, MadeEarlier
  <2>3. pc' \in Making \cup {"collect"} => Current.build /\ idx' = idx /\ pc' = "collect"
    BY <1>5 DEF NextBundle, Return
  <2> QED BY <1>5, <2>2, <2>3 DEF NextBundle, Return
<1>6. CASE Collect
  BY <1>0, <1>6 DEF Collect, Return, MadeEarlier, WrittenTo
<1>7. CASE Sign
  BY <1>0, <1>7 DEF Sign, Return, MadeEarlier, WrittenTo
<1>8. CASE StampPath
  BY <1>0, <1>8 DEF StampPath, MadeEarlier, WrittenTo
<1>9. CASE StampName
  <2>1. pc' = "unlink" => /\ work'.path = <<Current.dir, NameNow(Current)>>
                          /\ Current.build /\ cfg' = cfg /\ idx' = idx
    BY <1>9 DEF StampName, Return
  <2>2. pc' = "unlink" => WrittenTo(Current, work.path)'
    BY <2>1 DEF WrittenTo, NameNow
  <2> QED BY <1>0, <1>9, <2>1, <2>2 DEF StampName, Return, MadeEarlier, WrittenTo
<1>10. CASE Unlink
  BY <1>0, <1>10 DEF Unlink, MadeEarlier, WrittenTo
<1>11. CASE OpenOut
  BY <1>0, <1>11 DEF OpenOut, Return, MadeEarlier, WrittenTo
<1>12. CASE FillOut
  BY <1>0, <1>12 DEF FillOut, Return, MadeEarlier, WrittenTo
<1>13. CASE Register
  <2>1. /\ work \in Work /\ work.name \in FileName /\ work.path \in Path
        /\ idx \in 1..Len(cfg.bundles) /\ WrittenTo(cfg.bundles[idx], work.path)
    BY <1>0, <1>13 DEF Register, LoopInv, TypeOK
  <2>2. \A f \in FileName :
          mem'.refs[f] = IF f = work.name THEN RefOf(work) ELSE mem.refs[f]
    BY <1>0, <1>13, <2>1 DEF Register, TypeOK, Registry
  <2>3. ASSUME NEW f \in fresh \cup {work.name} PROVE MadeEarlier(mem.refs[f].path)'
    <3>1. f \in FileName
      BY <1>0, <2>1 DEF TypeOK
    <3>2. CASE f = work.name
      <4>1. mem'.refs[f].path = work.path
        BY <2>2, <3>1, <3>2 DEF RefOf
      <4>2. idx < idx' /\ cfg' = cfg
        BY <1>13, <2>1 DEF Register
      <4> QED BY <2>1, <4>1, <4>2 DEF MadeEarlier, WrittenTo
    <3>3. CASE f # work.name
      <4>1. PICK p : p = mem.refs[f].path /\ MadeEarlier(p)
        BY <1>13, <2>3, <3>3 DEF Register
      <4>2. MadeEarlier(p)'
        BY <1>13, <4>1, EarlierStaysEarlier DEF Register
      <4> QED BY <2>2, <3>1, <3>3, <4>1, <4>2 DEF MadeEarlier
    <3> QED BY <3>2, <3>3
  <2> QED BY <1>13, <2>3 DEF Register
<1>14. CASE NilMapPanic
  BY <1>0, <1>14 DEF NilMapPanic, Exit, MadeEarlier, WrittenTo
<1>15. CASE PersistRemove
  BY <1>0, <1>15 DEF PersistRemove, MadeEarlier, WrittenTo
<1>16. CASE PersistCreate
  BY <1>0, <1>16 DEF PersistCreate, Return, MadeEarlier, WrittenTo
<1>17. CASE PersistStore
  BY <1>0, <1>17 DEF PersistStore, Return, MadeEarlier, WrittenTo
<1>18. CASE Serve
  BY <1>0, <1>18 DEF Serve, Exit, MadeEarlier, WrittenTo
<1>19. CASE PurgeList
  BY <1>0, <1>19 DEF PurgeList, MadeEarlier, WrittenTo
<1>20. CASE PurgeFile
  BY <1>0, <1>20 DEF PurgeFile, MadeEarlier, WrittenTo
<1>21. CASE PurgeFilesDone
  BY <1>0, <1>21 DEF PurgeFilesDone, MadeEarlier, WrittenTo
<1>22. CASE PurgeRegistry
  BY <1>0, <1>22 DEF PurgeRegistry, Exit, MadeEarlier, WrittenTo
<1>23. CASE Signal
  BY <1>0, <1>23 DEF Signal, Exit, MadeEarlier, WrittenTo
<1>24. CASE Kill
  BY <1>0, <1>24 DEF Kill, Exit, MadeEarlier, WrittenTo
<1>25. CASE UNCHANGED vars
  BY <1>0, <1>25 DEF vars, MadeEarlier, WrittenTo
<1> QED
  BY <1>1, <1>2, <1>3, <1>4, <1>5, <1>6, <1>7, <1>8, <1>9, <1>10, <1>11, <1>12, <1>13, <1>14, <1>15, <1>16, <1>17, <1>18, <1>19, <1>20, <1>21, <1>22, <1>23, <1>24, <1>25 DEF Next, Process

\* Unless two bundles share an output file, every reference this run has
\* registered describes a whole archive at its path until the purge begins,
\* whatever else of the build fails.
THEOREM FreshStaysTrue == Spec => []FreshRefsTrue
<1>1. Init => FreshInv
  BY DEF Init, FreshInv, FreshTrue, PositionInv, Live, Looping, Making, Named, Purging
<1>2. TypeInv /\ FreshInv /\ [Next]_vars => FreshInv'
  BY StepFreshTrue, StepPosition DEF FreshInv
<1>3. TypeInv /\ FreshInv => FreshRefsTrue
  BY DEF FreshInv, FreshTrue, FreshRefsTrue, Live, TypeInv, TypeOK
<1> QED BY <1>1, <1>2, <1>3, TypeInvariant, PTL DEF Spec
=============================================================================
