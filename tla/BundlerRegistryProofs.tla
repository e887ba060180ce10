------------------------ MODULE BundlerRegistryProofs ------------------------
(***************************************************************************)
(* What a whole life of the server does to its registry: it stays true     *)
(* through runs that keep it, it is nil only when a panic follows from the *)
(* configuration, a purge without failures leaves nothing, and builds and  *)
(* purges come to an end.                                                  *)
(***************************************************************************)
EXTENDS BundlerProofs, FiniteSetTheorems

Idle == {"built", "serving"}

\* How the process moves from phase to phase, and what each phase leaves alone.
Phases ==
    /\ pc' \in Building \cup {"built"} => pc \in Building \cup {"off", "built"}
    /\ pc' = "serving" => pc \in Idle
    /\ pc' \in Purging => pc \in Purging \cup {"serving"}
    /\ pc' \in Purging \cup {"serving"} => UNCHANGED <<cfg, mem, fresh>>
    /\ pc' \in Live => \/ fresh' = {} \/ Register
                       \/ pc \in Live /\ UNCHANGED <<cfg, mem, fresh>>
    /\ clean' => clean
    /\ exit' # exit => exit' = "none" \/ pc' = "off"
    /\ pc = "off" => pc' = "off" \/ exit' = "none"

LEMMA StepPhases == TypeInv /\ PositionInv /\ [Next]_vars => Phases
<1> SUFFICES ASSUME TypeInv, PositionInv, [Next]_vars PROVE Phases
  OBVIOUS
<1>0. (pc = "load" => fresh = {}) /\ clean \in BOOLEAN
  BY DEF PositionInv, TypeInv, TypeOK
<1> USE DEF Phases, Idle, Live, PCs, Building, Purging, env, files, control, history
<1>1. CASE Tick
  BY <1>0, <1>1 DEF Tick
<1>2. CASE Edit
  BY <1>0, <1>2 DEF Edit
<1>3. ASSUME NEW c \in Configs, Start(c) PROVE Phases
  BY <1>0, <1>3 DEF Start
<1>4. CASE LoadRegistry
  BY <1>0, <1>4 DEF LoadRegistry
<1>5. CASE NextBundle
  BY <1>0, <1>5 DEF NextBundle, Return
<1>6. CASE Collect
  BY <1>0, <1>6 DEF Collect, Return
<1>7. CASE Sign
  BY <1>0, <1>7 DEF Sign, Return
<1>8. CASE StampPath
  BY <1>0, <1>8 DEF StampPath
<1>9. CASE StampName
  BY <1>0, <1>9 DEF StampName, Return
<1>10. CASE Unlink
  BY <1>0, <1>10 DEF Unlink
<1>11. CASE OpenOut
  BY <1>0, <1>11 DEF OpenOut, Return
<1>12. CASE FillOut
  <2>1. /\ pc = "fill" /\ pc' \in {"register", "built"}
        /\ UNCHANGED <<cfg, mem, fresh, exit>>
    BY <1>12 DEF FillOut, Return
  <2>2. clean' => clean
    BY <1>0, <1>12 DEF FillOut, Return
  <2> QED BY <2>1, <2>2
<1>13. CASE Register
  BY <1>0, <1>13 DEF Register
<1>14. CASE NilMapPanic
  BY <1>0, <1>14 DEF NilMapPanic, Exit
<1>15. CASE PersistRemove
  BY <1>0, <1>15 DEF PersistRemove
<1>16. CASE PersistCreate
  BY <1>0, <1>16 DEF PersistCreate, Return
<1>17. CASE PersistStore
  BY <1>0, <1>17 DEF PersistStore, Return
<1>18. CASE Serve
  BY <1>0, <1>18 DEF Serve, Exit
<1>19. CASE PurgeList
  BY <1>0, <1>19 DEF PurgeList
<1>20. CASE PurgeFile
  BY <1>0, <1>20 DEF PurgeFile
<1>21. CASE PurgeFilesDone
  BY <1>0, <1>21 DEF PurgeFilesDone
<1>22. CASE PurgeRegistry
  BY <1>0, <1>22 DEF PurgeRegistry, Exit
<1>23. CASE Signal
  BY <1>0, <1>23 DEF Signal, Exit
<1>24. CASE Kill
  BY <1>0, <1>24 DEF Kill, Exit
<1>25. CASE UNCHANGED vars
  BY <1>0, <1>25 DEF vars
<1> QED
  BY <1>1, <1>2, <1>3, <1>4, <1>5, <1>6, <1>7, <1>8, <1>9, <1>10, <1>11, <1>12, <1>13, <1>14, <1>15, <1>16, <1>17, <1>18, <1>19, <1>20, <1>21, <1>22, <1>23, <1>24, <1>25 DEF Next, Process

-----------------------------------------------------------------------------
(* The registry stays true through runs that keep it.                       *)

AllTrue(refs) == \A f \in FileName : refs[f] # None => True(refs[f])

\* The entry whose archive the loop is replacing.
Replaced(f) == pc \in {"open", "fill", "register"} /\ f = work.name

\* The file is true when nothing is built, and during a build that cannot
\* persist, up to the write that makes it unclean; ...
FileTrue ==
    /\ clean
    /\ \/ pc \in Idle \cup {"off", "load"}
       \/ ~cfg.persist /\ pc \in Building \ {"open"}
    => AllTrue(regFile.reg.refs)

\* ... the map is true but for the entry being replaced, ...
MemTrue ==
    clean /\ pc \notin Purging
      => \A f \in FileName : mem.refs[f] # None /\ ~Replaced(f) => True(mem.refs[f])

\* ... and nothing is written that will not be persisted.
Persisting ==
    clean /\ pc \in {"fill", "register", "persist", "create", "store"} => cfg.persist

CleanInv == FileTrue /\ MemTrue /\ Persisting /\ RegistryWellKeyed

LEMMA StepPersisting == TypeInv /\ Persisting /\ [Next]_vars => Persisting'
<1> SUFFICES ASSUME TypeInv, Persisting, [Next]_vars PROVE Persisting'
  OBVIOUS
<1>0. clean \in BOOLEAN
  BY DEF TypeInv, TypeOK
<1> USE DEF Persisting, env, files, control, history
<1>1. CASE Tick
  BY <1>0, <1>1 DEF Tick
<1>2. CASE Edit
  BY <1>0, <1>2 DEF Edit
<1>3. ASSUME NEW c \in Configs, Start(c) PROVE Persisting'
  BY <1>0, <1>3 DEF Start
<1>4. CASE LoadRegistry
  BY <1>0, <1>4 DEF LoadRegistry
<1>5. CASE NextBundle
  BY <1>0, <1>5 DEF NextBundle, Return
<1>6. CASE Collect
  BY <1>0, <1>6 DEF Collect, Return
<1>7. CASE Sign
  BY <1>0, <1>7 DEF Sign, Return
<1>8. CASE StampPath
  BY <1>0, <1>8 DEF StampPath
<1>9. CASE StampName
  BY <1>0, <1>9 DEF StampName, Return
<1>10. CASE Unlink
  BY <1>0, <1>10 DEF Unlink
<1>11. CASE OpenOut
  BY <1>0, <1>11 DEF OpenOut, Return
<1>12. CASE FillOut
  BY <1>0, <1>12 DEF FillOut, Return
<1>13. CASE Register
  BY <1>0, <1>13 DEF Register
<1>14. CASE NilMapPanic
  BY <1>0, <1>14 DEF NilMapPanic, Exit
<1>15. CASE PersistRemove
  BY <1>0, <1>15 DEF PersistRemove
<1>16. CASE PersistCreate
  BY <1>0, <1>16 DEF PersistCreate, Return
<1>17. CASE PersistStore
  BY <1>0, <1>17 DEF PersistStore, Return
<1>18. CASE Serve
  BY <1>0, <1>18 DEF Serve, Exit
<1>19. CASE PurgeList
  BY <1>0, <1>19 DEF PurgeList
<1>20. CASE PurgeFile
  BY <1>0, <1>20 DEF PurgeFile
<1>21. CASE PurgeFilesDone
  BY <1>0, <1>21 DEF PurgeFilesDone
<1>22. CASE PurgeRegistry
  BY <1>0, <1>22 DEF PurgeRegistry, Exit
<1>23. CASE Signal
  BY <1>0, <1>23 DEF Signal, Exit
<1>24. CASE Kill
  BY <1>0, <1>24 DEF Kill, Exit
<1>25. CASE UNCHANGED vars
  BY <1>0, <1>25 DEF vars
<1> QED
  BY <1>1, <1>2, <1>3, <1>4, <1>5, <1>6, <1>7, <1>8, <1>9, <1>10, <1>11, <1>12, <1>13, <1>14, <1>15, <1>16, <1>17, <1>18, <1>19, <1>20, <1>21, <1>22, <1>23, <1>24, <1>25 DEF Next, Process

\* What a write to the current path leaves true.
LEMMA OthersTrue ==
    ASSUME TypeInv, RegistryWellKeyed, pc \in Named,
           \A p \in Path : p # work.path => disk'[p] = disk[p],
           NEW f \in FileName, f # work.name,
           mem.refs[f] # None, True(mem.refs[f]), mem' = mem
    PROVE  (True(mem.refs[f]))'
<1>1. mem.refs[f].path[2] = f /\ mem.refs[f].path \in Path
  BY EntryType DEF RegistryWellKeyed, TypeInv, TypeOK, Ref
<1>2. work.path[2] = work.name
  BY DEF TypeInv, LoopInv
<1> QED BY <1>1, <1>2 DEF True

LEMMA StepMemTrue == TypeInv /\ CleanInv /\ [Next]_vars => MemTrue'
<1> SUFFICES ASSUME TypeInv, CleanInv, [Next]_vars PROVE MemTrue'
  OBVIOUS
<1>0. TypeOK /\ LoopInv /\ FileTrue /\ MemTrue /\ RegistryWellKeyed
  BY DEF TypeInv, CleanInv
<1>a. clean \in BOOLEAN /\ \A f \in FileName : NilMap.refs[f] = None /\ EmptyMap.refs[f] = None
  BY <1>0 DEF TypeOK, NilMap, EmptyMap, NoRefs
<1> USE DEF MemTrue, Replaced, env, files, control, history, Purging
<1>1. CASE Tick
  BY <1>0, <1>a, <1>1 DEF Tick, True
<1>2. CASE Edit
  BY <1>0, <1>a, <1>2 DEF Edit, True
<1>3. ASSUME NEW c \in Configs, Start(c) PROVE MemTrue'
  BY <1>0, <1>a, <1>3 DEF Start, True
<1>4. CASE LoadRegistry
  <2>1. regFile.state \in {"absent", "partial", "whole"}
    BY <1>0 DEF TypeOK, RegFile
  <2>2. mem' \in {NilMap, EmptyMap, regFile.reg}
    BY <1>4, <2>1 DEF LoadRegistry, Loaded
  <2>3. clean => AllTrue(regFile.reg.refs)
    BY <1>0, <1>4 DEF LoadRegistry, FileTrue, Idle
  <2> QED BY <1>a, <1>4, <2>2, <2>3 DEF LoadRegistry, AllTrue, True
<1>5. CASE NextBundle
  BY <1>0, <1>a, <1>5 DEF NextBundle, Return, True
<1>6. CASE Collect
  BY <1>0, <1>a, <1>6 DEF Collect, Return, True
<1>7. CASE Sign
  BY <1>0, <1>a, <1>7 DEF Sign, Return, True
<1>8. CASE StampPath
  BY <1>0, <1>a, <1>8 DEF StampPath, True
<1>9. CASE StampName
  BY <1>0, <1>a, <1>9 DEF StampName, Return, True
<1>10. CASE Unlink
  <2>1. pc \in Named /\ mem' = mem /\ \A p \in Path : p # work.path => disk'[p] = disk[p]
    BY <1>0, <1>10 DEF Unlink, Named, TypeOK
  <2>2. clean' => /\ clean /\ work' = work /\ pc' \in {"open", "fill", "register"}
    BY <1>a, <1>10 DEF Unlink
  <2> SUFFICES ASSUME clean', NEW f \in FileName, mem.refs[f] # None, f # work.name
               PROVE  (True(mem.refs[f]))'
    BY <2>1, <2>2
  <2>3. True(mem.refs[f])
    BY <1>0, <2>1, <2>2 DEF Named
  <2> QED BY <1>0, <2>1, <2>3, OthersTrue
<1>11. CASE OpenOut
  <2>1. pc \in Named /\ mem' = mem /\ \A p \in Path : p # work.path => disk'[p] = disk[p]
    BY <1>0, <1>11 DEF OpenOut, Named, TypeOK
  <2>2. clean' => /\ clean /\ work' = work /\ pc' \in {"open", "fill", "register"}
    BY <1>a, <1>11 DEF OpenOut, Return
  <2> SUFFICES ASSUME clean', NEW f \in FileName, mem.refs[f] # None, f # work.name
               PROVE  (True(mem.refs[f]))'
    BY <2>1, <2>2
  <2>3. True(mem.refs[f])
    BY <1>0, <2>1, <2>2 DEF Named
  <2> QED BY <1>0, <2>1, <2>3, OthersTrue
<1>12. CASE FillOut
  <2>1. pc \in Named /\ mem' = mem /\ \A p \in Path : p # work.path => disk'[p] = disk[p]
    BY <1>0, <1>12 DEF FillOut, Named, TypeOK
  <2>2. clean' => /\ clean /\ work' = work /\ pc' \in {"open", "fill", "register"}
    BY <1>a, <1>12 DEF FillOut, Return
  <2> SUFFICES ASSUME clean', NEW f \in FileName, mem.refs[f] # None, f # work.name
               PROVE  (True(mem.refs[f]))'
    BY <2>1, <2>2
  <2>3. True(mem.refs[f])
    BY <1>0, <2>1, <2>2 DEF Named
  <2> QED BY <1>0, <2>1, <2>3, OthersTrue
<1>13. CASE Register
  <2>1. /\ work.name \in FileName /\ disk' = disk /\ clean' = clean /\ pc = "register"
        /\ BuiltAs(disk[work.path], work.etag)
        /\ mem' = [mem EXCEPT !.refs[work.name] = RefOf(work)] /\ mem \in Registry
    BY <1>0, <1>13 DEF Register, TypeOK, LoopInv, Named
  <2>2. \A f \in FileName :
          mem'.refs[f] = IF f = work.name THEN RefOf(work) ELSE mem.refs[f]
    BY <2>1 DEF Registry
  <2>3. True(RefOf(work))
    BY <2>1 DEF True, RefOf
  <2>4. ASSUME clean, NEW f \in FileName, mem'.refs[f] # None
        PROVE  True(mem'.refs[f])
    BY <1>0, <2>1, <2>2, <2>3, <2>4
  <2> QED BY <2>1, <2>4 DEF True
<1>14. CASE NilMapPanic
  BY <1>0, <1>a, <1>14 DEF NilMapPanic, Exit, True
<1>15. CASE PersistRemove
  BY <1>0, <1>a, <1>15 DEF PersistRemove, True
<1>16. CASE PersistCreate
  BY <1>0, <1>a, <1>16 DEF PersistCreate, Return, True
<1>17. CASE PersistStore
  BY <1>0, <1>a, <1>17 DEF PersistStore, Return, True
<1>18. CASE Serve
  BY <1>0, <1>a, <1>18 DEF Serve, Exit, True
<1>19. CASE PurgeList
  BY <1>0, <1>a, <1>19 DEF PurgeList, True
<1>20. CASE PurgeFile
  BY <1>0, <1>a, <1>20 DEF PurgeFile, True
<1>21. CASE PurgeFilesDone
  BY <1>0, <1>a, <1>21 DEF PurgeFilesDone, True
<1>22. CASE PurgeRegistry
  BY <1>0, <1>a, <1>22 DEF PurgeRegistry, Exit, True
<1>23. CASE Signal
  BY <1>0, <1>a, <1>23 DEF Signal, Exit, True
<1>24. CASE Kill
  BY <1>0, <1>a, <1>24 DEF Kill, Exit, True
<1>25. CASE UNCHANGED vars
  BY <1>0, <1>a, <1>25 DEF vars, True
<1> QED
  BY <1>1, <1>2, <1>3, <1>4, <1>5, <1>6, <1>7, <1>8, <1>9, <1>10, <1>11, <1>12, <1>13, <1>14, <1>15, <1>16, <1>17, <1>18, <1>19, <1>20, <1>21, <1>22, <1>23, <1>24, <1>25 DEF Next, Process

\* What a build returns with is what it has persisted.
LEMMA StepFileTrue == TypeInv /\ CleanInv /\ [Next]_vars => FileTrue'
<1> SUFFICES ASSUME TypeInv, CleanInv, [Next]_vars PROVE FileTrue'
  OBVIOUS
<1>0. TypeOK /\ LoopInv /\ FileTrue /\ MemTrue /\ Persisting
  BY DEF TypeInv, CleanInv
<1>a. clean \in BOOLEAN /\ \A f \in FileName : NoFile.reg.refs[f] = None
  BY <1>0 DEF TypeOK, NoFile, NilMap, NoRefs
<1> USE DEF FileTrue, AllTrue, Idle, Building, env, files, control, history
<1>1. CASE Tick
  BY <1>0, <1>a, <1>1 DEF Tick, True
<1>2. CASE Edit
  BY <1>0, <1>a, <1>2 DEF Edit, True
<1>3. ASSUME NEW c \in Configs, Start(c) PROVE FileTrue'
  BY <1>0, <1>a, <1>3 DEF Start, True
<1>4. CASE LoadRegistry
  BY <1>0, <1>a, <1>4 DEF LoadRegistry, True
<1>5. CASE NextBundle
  BY <1>0, <1>a, <1>5 DEF NextBundle, Return, True
<1>6. CASE Collect
  BY <1>0, <1>a, <1>6 DEF Collect, Return, True
<1>7. CASE Sign
  BY <1>0, <1>a, <1>7 DEF Sign, Return, True
<1>8. CASE StampPath
  BY <1>0, <1>a, <1>8 DEF StampPath, True
<1>9. CASE StampName
  BY <1>0, <1>a, <1>9 DEF StampName, Return, True
<1>10. CASE Unlink
  BY <1>0, <1>a, <1>10 DEF Unlink, True
<1>11. CASE OpenOut
  BY <1>0, <1>a, <1>11 DEF OpenOut, Return, True
<1>12. CASE FillOut
  BY <1>0, <1>a, <1>12 DEF FillOut, Return, True, Persisting
<1>13. CASE Register
  BY <1>0, <1>a, <1>13 DEF Register, True
<1>14. CASE NilMapPanic
  BY <1>0, <1>a, <1>14 DEF NilMapPanic, Exit, True
<1>15. CASE PersistRemove
  BY <1>0, <1>a, <1>15 DEF PersistRemove, True
<1>16. CASE PersistCreate
  BY <1>0, <1>a, <1>16 DEF PersistCreate, Return, True, Persisting
<1>17. CASE PersistStore
  <2>1. clean => /\ cfg.persist
                 /\ \A f \in FileName : mem.refs[f] # None => True(mem.refs[f])
    BY <1>0, <1>17 DEF PersistStore, MemTrue, Replaced, Persisting, Purging
  <2>2. clean' => regFile'.reg.refs = mem.refs /\ clean /\ disk' = disk
    <3>1. clean' => clean /\ disk' = disk /\ regFile' = [state |-> "whole", reg |-> mem]
      BY <1>0, <1>a, <1>17 DEF PersistStore, Return
    <3> QED BY <3>1
  <2> QED BY <2>1, <2>2 DEF True
<1>18. CASE Serve
  BY <1>0, <1>a, <1>18 DEF Serve, Exit, True
<1>19. CASE PurgeList
  BY <1>0, <1>a, <1>19 DEF PurgeList, True
<1>20. CASE PurgeFile
  BY <1>0, <1>a, <1>20 DEF PurgeFile, True
<1>21. CASE PurgeFilesDone
  BY <1>0, <1>a, <1>21 DEF PurgeFilesDone, True
<1>22. CASE PurgeRegistry
  BY <1>0, <1>a, <1>22 DEF PurgeRegistry, Exit, True
<1>23. CASE Signal
  BY <1>0, <1>a, <1>23 DEF Signal, Exit, True
<1>24. CASE Kill
  BY <1>0, <1>a, <1>24 DEF Kill, Exit, True
<1>25. CASE UNCHANGED vars
  BY <1>0, <1>a, <1>25 DEF vars, True
<1> QED
  BY <1>1, <1>2, <1>3, <1>4, <1>5, <1>6, <1>7, <1>8, <1>9, <1>10, <1>11, <1>12, <1>13, <1>14, <1>15, <1>16, <1>17, <1>18, <1>19, <1>20, <1>21, <1>22, <1>23, <1>24, <1>25 DEF Next, Process

LEMMA CleanInvariant == Spec => []CleanInv
<1>1. Init => CleanInv
  BY DEF Init, CleanInv, FileTrue, MemTrue, Persisting, RegistryWellKeyed, AllTrue,
         NilMap, NoFile, NoRefs
<1>2. TypeInv /\ CleanInv /\ [Next]_vars => CleanInv'
  BY StepFileTrue, StepMemTrue, StepPersisting, StepWellKeyed DEF CleanInv
<1> QED BY <1>1, <1>2, TypeInvariant, PTL DEF Spec

\* However many runs, configurations, purges and kills there were: unless one of
\* them has failed, was cut off during a build or a purge, or wrote what it did
\* not persist, the registry on disk describes whole archives at their paths.
THEOREM CleanRunsKeepTrue == Spec => []CleanRunsKeepRegistryTrue
<1>1. CleanInv => CleanRunsKeepRegistryTrue
  BY DEF CleanInv, FileTrue, AllTrue, Idle, CleanRunsKeepRegistryTrue
<1> QED BY <1>1, CleanInvariant, PTL

-----------------------------------------------------------------------------
(* The panic on a nil map.                                                  *)

\* A nil map was loaded, and the registry file it came from is still there.
NilLoaded == cfg.load /\ regFile.state # "partial" /\ regFile.reg.nil

NilInv ==
    /\ regFile.state = "absent" => regFile.reg.nil
    /\ pc \in Looping /\ mem.nil => NilLoaded
    /\ exit = "nilmap" => pc = "off" /\ NilLoaded

LEMMA StepNil == TypeInv /\ NilInv /\ [Next]_vars => NilInv'
<1> SUFFICES ASSUME TypeInv, NilInv, [Next]_vars PROVE NilInv'
  OBVIOUS
<1>0. TypeOK
  BY DEF TypeInv
<1>a. NilMap.nil /\ NoFile.reg.nil /\ ~EmptyMap.nil
  BY DEF NilMap, NoFile, EmptyMap
<1> USE DEF NilInv, NilLoaded, Looping, Making, env, files, control, history
<1>1. CASE Tick
  BY <1>0, <1>a, <1>1 DEF Tick
<1>2. CASE Edit
  BY <1>0, <1>a, <1>2 DEF Edit
<1>3. ASSUME NEW c \in Configs, Start(c) PROVE NilInv'
  BY <1>0, <1>a, <1>3 DEF Start
<1>4. CASE LoadRegistry
  <2>1. regFile.state \in {"absent", "partial", "whole"} /\ (exit = "nilmap" => pc = "off")
    BY <1>0, <1>4 DEF TypeOK, RegFile
  <2>2. mem'.nil => NilLoaded
    <3>1. regFile.state = "absent" => regFile.reg.nil
      BY DEF NilInv
    <3> QED BY <1>a, <1>4, <2>1, <3>1 DEF LoadRegistry, Loaded
  <2> QED BY <1>4, <2>1, <2>2 DEF LoadRegistry
<1>5. CASE NextBundle
  BY <1>0, <1>a, <1>5 DEF NextBundle, Return
<1>6. CASE Collect
  BY <1>0, <1>a, <1>6 DEF Collect, Return
<1>7. CASE Sign
  BY <1>0, <1>a, <1>7 DEF Sign, Return
<1>8. CASE StampPath
  BY <1>0, <1>a, <1>8 DEF StampPath
<1>9. CASE StampName
  BY <1>0, <1>a, <1>9 DEF StampName, Return
<1>10. CASE Unlink
  BY <1>0, <1>a, <1>10 DEF Unlink
<1>11. CASE OpenOut
  BY <1>0, <1>a, <1>11 DEF OpenOut, Return
<1>12. CASE FillOut
  BY <1>0, <1>a, <1>12 DEF FillOut, Return
<1>13. CASE Register
  BY <1>0, <1>a, <1>13 DEF Register
<1>14. CASE NilMapPanic
  BY <1>0, <1>a, <1>14 DEF NilMapPanic, Exit
<1>15. CASE PersistRemove
  BY <1>0, <1>a, <1>15 DEF PersistRemove
<1>16. CASE PersistCreate
  BY <1>0, <1>a, <1>16 DEF PersistCreate, Return
<1>17. CASE PersistStore
  BY <1>0, <1>a, <1>17 DEF PersistStore, Return
<1>18. CASE Serve
  BY <1>0, <1>a, <1>18 DEF Serve, Exit
<1>19. CASE PurgeList
  BY <1>0, <1>a, <1>19 DEF PurgeList
<1>20. CASE PurgeFile
  BY <1>0, <1>a, <1>20 DEF PurgeFile
<1>21. CASE PurgeFilesDone
  BY <1>0, <1>a, <1>21 DEF PurgeFilesDone
<1>22. CASE PurgeRegistry
  BY <1>0, <1>a, <1>22 DEF PurgeRegistry, Exit
<1>23. CASE Signal
  BY <1>0, <1>a, <1>23 DEF Signal, Exit
<1>24. CASE Kill
  BY <1>0, <1>a, <1>24 DEF Kill, Exit
<1>25. CASE UNCHANGED vars
  BY <1>0, <1>a, <1>25 DEF vars
<1> QED
  BY <1>1, <1>2, <1>3, <1>4, <1>5, <1>6, <1>7, <1>8, <1>9, <1>10, <1>11, <1>12, <1>13, <1>14, <1>15, <1>16, <1>17, <1>18, <1>19, <1>20, <1>21, <1>22, <1>23, <1>24, <1>25 DEF Next, Process

\* A start-up panic follows from the configuration and the registry file alone.
THEOREM PanicExplained == Spec => []PanicNeedsNilRegistry
<1>1. Init => NilInv
  BY DEF Init, NilInv, Looping, Making, NoFile, NilMap
<1>2. NilInv => PanicNeedsNilRegistry
  BY DEF NilInv, NilLoaded, PanicNeedsNilRegistry
<1> QED BY <1>1, <1>2, StepNil, TypeInvariant, PTL DEF Spec

-----------------------------------------------------------------------------
(* The purge.                                                               *)

Gone(f) == disk[<<cfg.outDir, f>>] = None

\* What has not failed so far has been listed, and removed when it is not listed
\* any longer.
PurgeInv ==
    /\ pc \in Purging => cfg.purge
    /\ pc = "rm" /\ ~purgeErr => \A f \in FileName \ listing : Gone(f)
    /\ pc = "purgereg" /\ ~purgeErr => \A f \in FileName : Gone(f)
    /\ exit = "shutdown" => pc = "off"
    /\ PurgeLeavesNothing

LEMMA StepPurge == TypeInv /\ PurgeInv /\ [Next]_vars => PurgeInv'
<1> SUFFICES ASSUME TypeInv, PurgeInv, [Next]_vars PROVE PurgeInv'
  OBVIOUS
<1>0. TypeOK
  BY DEF TypeInv
<1> USE DEF PurgeInv, PurgeLeavesNothing, Gone, Purging, env, files, control, history
<1>1. CASE Tick
  BY <1>0, <1>1 DEF Tick
<1>2. CASE Edit
  BY <1>0, <1>2 DEF Edit
<1>3. ASSUME NEW c \in Configs, Start(c) PROVE PurgeInv'
  BY <1>0, <1>3 DEF Start
<1>4. CASE LoadRegistry
  BY <1>0, <1>4 DEF LoadRegistry
<1>5. CASE NextBundle
  BY <1>0, <1>5 DEF NextBundle, Return
<1>6. CASE Collect
  BY <1>0, <1>6 DEF Collect, Return
<1>7. CASE Sign
  BY <1>0, <1>7 DEF Sign, Return
<1>8. CASE StampPath
  BY <1>0, <1>8 DEF StampPath
<1>9. CASE StampName
  BY <1>0, <1>9 DEF StampName, Return
<1>10. CASE Unlink
  BY <1>0, <1>10 DEF Unlink
<1>11. CASE OpenOut
  BY <1>0, <1>11 DEF OpenOut, Return
<1>12. CASE FillOut
  BY <1>0, <1>12 DEF FillOut, Return
<1>13. CASE Register
  BY <1>0, <1>13 DEF Register
<1>14. CASE NilMapPanic
  BY <1>0, <1>14 DEF NilMapPanic, Exit
<1>15. CASE PersistRemove
  BY <1>0, <1>15 DEF PersistRemove
<1>16. CASE PersistCreate
  BY <1>0, <1>16 DEF PersistCreate, Return
<1>17. CASE PersistStore
  BY <1>0, <1>17 DEF PersistStore, Return
<1>18. CASE Serve
  BY <1>0, <1>18 DEF Serve, Exit
<1>19. CASE PurgeList
  BY <1>0, <1>19 DEF PurgeList
<1>20. CASE PurgeFile
  <2>1. disk \in [Path -> Content \cup {None}]
        /\ pc = "rm" /\ pc' = "rm" /\ exit' = exit /\ cfg' = cfg
    BY <1>0, <1>20 DEF PurgeFile, TypeOK
  <2>2. PICK f \in listing :
          /\ listing' = listing \ {f}
          /\ \/ disk' = [disk EXCEPT ![<<cfg.outDir, f>>] = None] /\ UNCHANGED <<purgeErr, clean>>
             \/ disk' = disk /\ purgeErr' = TRUE /\ clean' = FALSE
    BY <1>20 DEF PurgeFile
  <2>3. cfg.outDir \in Dirs /\ listing \subseteq FileName
    BY <1>0, <2>1, ConfigsAssumption DEF TypeOK, Config
  <2>4. ASSUME ~purgeErr', NEW g \in FileName \ listing' PROVE disk'[<<cfg.outDir, g>>] = None
    <3>1. <<cfg.outDir, g>> \in Path /\ <<cfg.outDir, f>> \in Path
      BY <2>2, <2>3 DEF Path
    <3>2. g = f \/ disk[<<cfg.outDir, g>>] = None
      BY <2>1, <2>2, <2>4
    <3> QED BY <2>1, <2>2, <2>4, <3>1, <3>2
  <2> QED BY <2>1, <2>4
<1>21. CASE PurgeFilesDone
  BY <1>0, <1>21 DEF PurgeFilesDone
<1>22. CASE PurgeRegistry
  <2>1. regFile' = NoFile \/ purgeErr'
    BY <1>22 DEF PurgeRegistry
  <2> QED BY <1>0, <1>22, <2>1 DEF PurgeRegistry, Exit, NoFile
<1>23. CASE Signal
  BY <1>0, <1>23 DEF Signal, Exit
<1>24. CASE Kill
  BY <1>0, <1>24 DEF Kill, Exit
<1>25. CASE UNCHANGED vars
  BY <1>0, <1>25 DEF vars
<1> QED
  BY <1>1, <1>2, <1>3, <1>4, <1>5, <1>6, <1>7, <1>8, <1>9, <1>10, <1>11, <1>12, <1>13, <1>14, <1>15, <1>16, <1>17, <1>18, <1>19, <1>20, <1>21, <1>22, <1>23, <1>24, <1>25 DEF Next, Process

\* Whatever was in the served directory and whoever put it there, a purge none
\* of whose removals failed leaves nothing, and no registry.
THEOREM PurgeLeaves == Spec => []PurgeLeavesNothing
<1>1. Init => PurgeInv
  BY DEF Init, PurgeInv, PurgeLeavesNothing, Purging
<1>2. PurgeInv => PurgeLeavesNothing
  BY DEF PurgeInv
<1> QED BY <1>1, <1>2, StepPurge, TypeInvariant, PTL DEF Spec

-----------------------------------------------------------------------------
(* A build and a purge come to an end: what a process step can be said to   *)
(* bring nearer, whatever fails in it.                                      *)

\* How many steps each place of BuildBundle is from the end of its round, counted so
\* that a new round starts below the last one.
StepsOf == [load |-> 9, loop |-> 8, collect |-> 7, sign |-> 6, path |-> 5, name |-> 4,
            unlink |-> 3, open |-> 2, fill |-> 1, register |-> 0,
            persist |-> 7, create |-> 6, store |-> 5]

\* At most as many steps are left of BuildBundle.
Ahead == 9 * (Len(cfg.bundles) + 1 - idx) + StepsOf[pc]

\* The names of the archives in the directory that is purged.
Archives == {f \in FileName : disk[<<cfg.outDir, f>>] # None}

\* At most as many steps are left of PurgeBundles.
PurgeAhead == CASE pc = "list"     -> Cardinality(Archives) + 2
                [] pc = "rm"       -> Cardinality(listing) + 1
                [] pc = "purgereg" -> 0

BuildAdvances ==
    pc \in Building =>
      /\ Ahead \in Nat
      /\ IF Tick \/ Edit THEN UNCHANGED <<pc, Ahead>>
         ELSE pc' \in Building \cup {"built", "off"} /\ (pc' \in Building => Ahead' < Ahead)

PurgeAdvances ==
    pc \in Purging =>
      /\ PurgeAhead \in Nat
      /\ IF Tick \/ Edit THEN UNCHANGED <<pc, PurgeAhead>>
         ELSE pc' \in Purging \cup {"off"} /\ (pc' # "off" => PurgeAhead' < PurgeAhead)

\* The names of all archives.
ArchiveNames == {f \in FileName : \E d \in Dirs : disk[<<d, f>>] # None}

\* The loop does not run past its end, and there are only finitely many archives.
BoundInv ==
    /\ pc = "off" => idx = 1
    /\ pc \in Building => idx <= Len(cfg.bundles) + 1
    /\ IsFiniteSet(ArchiveNames) /\ IsFiniteSet(listing)

\* How a step moves the process: a build forward, with the bundles it has.
Moves ==
    /\ pc \in Building => pc' \in Building \cup {"built", "off"}
    /\ pc \in Building /\ pc' \in Building =>
         /\ cfg' = cfg /\ idx' \in Nat /\ idx' <= Len(cfg.bundles) + 1
         /\ 9 * (Len(cfg.bundles) + 1 - idx') + StepsOf[pc'] < Ahead
    /\ pc \notin Building /\ pc' \in Building => pc = "off" /\ idx' = idx /\ cfg' \in Configs
    /\ pc' = "off" => idx' = 1

LEMMA BundleCount ==
    ASSUME NEW c \in Configs
    PROVE  Len(c.bundles) \in Nat
BY ConfigsAssumption DEF Config

LEMMA StepMoves == TypeInv /\ BoundInv /\ Next => Tick \/ Edit \/ Moves
<1> SUFFICES ASSUME TypeInv, BoundInv, Next, ~Tick, ~Edit
             PROVE  Moves
  OBVIOUS
<1> DEFINE n == Len(cfg.bundles)
<1>0. /\ idx \in Nat \ {0} /\ (pc # "off" => n \in Nat) /\ (pc = "off" => idx = 1)
      /\ (pc \in Building => idx <= n + 1) /\ (pc \in Making \cup {"collect"} => idx <= n)
  BY BundleCount DEF TypeInv, TypeOK, LoopInv, BoundInv
<1> HIDE DEF n
<1>1. SUFFICES /\ pc \in Building => pc' \in Building \cup {"built", "off"}
               /\ pc \in Building /\ pc' \in Building =>
                    /\ cfg' = cfg /\ idx' \in Nat /\ idx' <= n + 1
                    /\ 9 * (n + 1 - idx') + StepsOf[pc'] < 9 * (n + 1 - idx) + StepsOf[pc]
               /\ pc \notin Building /\ pc' \in Building => pc = "off" /\ idx' = idx /\ cfg' \in Configs
               /\ pc' = "off" => idx' = 1
  BY DEF Moves, Ahead, n
<1> USE DEF Building, StepsOf, control, Making, Return, Exit
<1>2. CASE \E c \in Configs : Start(c)
  <2>1. pc = "off" /\ pc' \in {"load", "built"} /\ idx' = idx /\ cfg' \in Configs
    BY <1>2 DEF Start
  <2> QED
    BY <1>0, <1>1, <2>1
<1>3. CASE LoadRegistry
  BY <1>0, <1>1, <1>3 DEF LoadRegistry
<1>4. CASE NextBundle
  <2>1. pc = "loop" /\ cfg' = cfg
    BY <1>4 DEF NextBundle
  <2>2. CASE idx > n
    <3>1. pc' = "built" \/ (pc' = "persist" /\ idx' = idx)
      BY <1>4, <2>2 DEF NextBundle, n
    <3> QED
      BY <1>0, <1>1, <2>1, <3>1
  <2>3. CASE ~(idx > n)
    <3>1. (pc' = "collect" /\ idx' = idx) \/ (pc' = "loop" /\ idx' = idx + 1)
      BY <1>4, <2>3 DEF NextBundle, n
    <3> QED
      BY <1>0, <1>1, <2>1, <2>3, <3>1
  <2> QED
    BY <2>2, <2>3
<1>5. CASE Collect
  BY <1>0, <1>1, <1>5 DEF Collect
<1>6. CASE Sign
  BY <1>0, <1>1, <1>6 DEF Sign
<1>7. CASE StampPath
  BY <1>0, <1>1, <1>7 DEF StampPath
<1>8. CASE StampName
  BY <1>0, <1>1, <1>8 DEF StampName
<1>9. CASE Unlink
  BY <1>0, <1>1, <1>9 DEF Unlink
<1>10. CASE OpenOut
  <2>1. pc = "open" /\ pc' \in {"fill", "built"} /\ cfg' = cfg /\ (pc' = "fill" => idx' = idx)
    BY <1>10 DEF OpenOut
  <2> QED BY <1>0, <1>1, <2>1
<1>11. CASE FillOut
  <2>1. pc = "fill" /\ pc' \in {"register", "built"} /\ cfg' = cfg /\ (pc' = "register" => idx' = idx)
    BY <1>11 DEF FillOut
  <2> QED BY <1>0, <1>1, <2>1
<1>12. CASE Register
  BY <1>0, <1>1, <1>12 DEF Register
<1>13. CASE NilMapPanic
  BY <1>0, <1>1, <1>13 DEF NilMapPanic
<1>14. CASE PersistRemove
  BY <1>0, <1>1, <1>14 DEF PersistRemove
<1>15. CASE PersistCreate
  BY <1>0, <1>1, <1>15 DEF PersistCreate
<1>16. CASE PersistStore
  BY <1>0, <1>1, <1>16 DEF PersistStore
<1>17. CASE Serve
  BY <1>0, <1>1, <1>17 DEF Serve
<1>18. CASE Signal \/ PurgeList \/ PurgeFile \/ PurgeFilesDone \/ PurgeRegistry
  BY <1>0, <1>1, <1>18 DEF Signal, PurgeList, PurgeFile, PurgeFilesDone, PurgeRegistry
<1>19. CASE Kill
  BY <1>0, <1>1, <1>19 DEF Kill
<1> QED
  BY <1>2, <1>3, <1>4, <1>5, <1>6, <1>7, <1>8, <1>9, <1>10, <1>11, <1>12, <1>13, <1>14, <1>15, <1>16, <1>17, <1>18, <1>19 DEF Next, Process

\* Every archive on disk was opened in some step, one at a time.
LEMMA StepArchives == TypeInv /\ BoundInv /\ [Next]_vars => IsFiniteSet(ArchiveNames') /\ IsFiniteSet(listing')
<1> SUFFICES ASSUME TypeInv, BoundInv, [Next]_vars
             PROVE  IsFiniteSet(ArchiveNames') /\ IsFiniteSet(listing')
  OBVIOUS
<1>1. IsFiniteSet(ArchiveNames) /\ IsFiniteSet(listing) /\ disk \in [Path -> Content \cup {None}]
  BY DEF BoundInv, TypeInv, TypeOK
<1>2. IsFiniteSet(ArchiveNames')
  <2>1. CASE \E f \in FileName : ArchiveNames' \subseteq ArchiveNames \cup {f}
    BY <1>1, <2>1, FS_AddElement, FS_Subset
  <2>2. CASE ArchiveNames' \subseteq ArchiveNames
    BY <1>1, <2>2, FS_Subset
  <2>3. (Unlink \/ PurgeFile \/ UNCHANGED disk) => ArchiveNames' \subseteq ArchiveNames
    BY <1>1 DEF Unlink, PurgeFile, ArchiveNames, Path
  <2>4. OpenOut \/ FillOut => \E f \in FileName : ArchiveNames' \subseteq ArchiveNames \cup {f}
    <3> SUFFICES ASSUME OpenOut \/ FillOut
                 PROVE  ArchiveNames' \subseteq ArchiveNames \cup {work.name}
      BY DEF OpenOut, FillOut, TypeInv, LoopInv, Named
    <3>1. work.path \in Path /\ work.path[2] = work.name
      BY DEF OpenOut, FillOut, TypeInv, LoopInv, Named
    <3>2. \A p \in Path : p # work.path => disk'[p] = disk[p]
      BY <1>1, <3>1 DEF OpenOut, FillOut
    <3>3. \A d \in Dirs, f \in FileName : f # work.name => <<d, f>> # work.path
      BY <3>1
    <3> QED
      BY <3>2, <3>3 DEF ArchiveNames, Path
  <2> QED
    BY <2>1, <2>2, <2>3, <2>4, StepFrame DEF Frame
<1>3. IsFiniteSet(listing')
  <2>1. CASE PurgeList
    <3>1. cfg.outDir \in Dirs
      BY <2>1, ConfigsAssumption DEF PurgeList, TypeInv, TypeOK, Config
    <3>2. listing' \subseteq ArchiveNames
      BY <2>1, <3>1 DEF PurgeList, ArchiveNames
    <3> QED
      BY <1>1, <3>2, FS_Subset
  <2>2. CASE listing' \subseteq listing
    BY <1>1, <2>2, FS_Subset
  <2>3. PurgeFile => listing' \subseteq listing
    BY DEF PurgeFile
  <2> QED
    BY <2>1, <2>2, <2>3, StepFrame DEF Frame
<1> QED
  BY <1>2, <1>3

LEMMA BoundInvariant == Spec => []BoundInv
<1>1. Init => BoundInv
  <2> SUFFICES ASSUME Init
               PROVE  BoundInv
    OBVIOUS
  <2>1. ArchiveNames = {} /\ listing = {}
    BY DEF Init, ArchiveNames, Path
  <2> QED
    BY <2>1, FS_EmptySet DEF Init, BoundInv, Building
<1>2. TypeInv /\ BoundInv /\ [Next]_vars => BoundInv'
  <2> SUFFICES ASSUME TypeInv, BoundInv, [Next]_vars
               PROVE  BoundInv'
    OBVIOUS
  <2>1. CASE Tick \/ Edit \/ UNCHANGED vars
    BY <2>1, StepArchives DEF Tick, Edit, vars, control, BoundInv
  <2>2. CASE Moves
    <3>1. pc' \in Building => idx' <= Len(cfg'.bundles) + 1
      BY <2>2, BundleCount DEF Moves, BoundInv
    <3> QED
      BY <2>2, <3>1, StepArchives DEF Moves, BoundInv
  <2> QED
    BY <2>1, <2>2, StepMoves
<1> QED
  BY <1>1, <1>2, TypeInvariant, PTL DEF Spec

\* Time and edits do not set a build back, and every other step, whatever fails in
\* it, brings it nearer to its end, or ends it: what BuildEnds rests on besides
\* fairness.
THEOREM BuildsAdvance == Spec => [][BuildAdvances]_vars
<1>1. TypeInv /\ BoundInv /\ [Next]_vars => [BuildAdvances]_vars
  <2> SUFFICES ASSUME TypeInv, BoundInv, Next, pc \in Building
               PROVE  BuildAdvances
    BY DEF BuildAdvances
  <2>1. Ahead \in Nat
    <3>1. idx \in Nat /\ Len(cfg.bundles) \in Nat /\ idx <= Len(cfg.bundles) + 1
      BY BundleCount DEF TypeInv, TypeOK, BoundInv, Building
    <3>2. StepsOf[pc] \in Nat
      BY DEF Building, StepsOf
    <3> QED
      BY <3>1, <3>2 DEF Ahead
  <2>2. CASE Tick \/ Edit
    BY <2>1, <2>2 DEF Tick, Edit, control, BuildAdvances, Ahead
  <2>3. CASE ~(Tick \/ Edit) /\ Moves
    BY <2>1, <2>3 DEF Moves, BuildAdvances, Ahead
  <2> QED
    BY <2>2, <2>3, StepMoves
<1> QED
  BY <1>1, BoundInvariant, TypeInvariant, PTL DEF Spec

\* So it is with a purge, of which ShutdownEnds speaks.
THEOREM PurgesAdvance == Spec => [][PurgeAdvances]_vars
<1>1. TypeInv /\ BoundInv /\ [Next]_vars => [PurgeAdvances]_vars
  <2> SUFFICES ASSUME TypeInv, BoundInv, Next, pc \in Purging
               PROVE  PurgeAdvances
    BY DEF PurgeAdvances
  <2>1. IsFiniteSet(listing) /\ Cardinality(listing) \in Nat
    BY FS_CardinalityType DEF BoundInv
  <2>2. IsFiniteSet(Archives) /\ Cardinality(Archives) \in Nat
    <3>1. cfg.outDir \in Dirs
      BY ConfigsAssumption DEF Purging, TypeInv, TypeOK, Config
    <3>2. Archives \subseteq ArchiveNames
      BY <3>1 DEF Archives, ArchiveNames
    <3> QED
      BY <3>2, FS_Subset, FS_CardinalityType DEF BoundInv
  <2>3. PurgeAhead \in Nat
    BY <2>1, <2>2 DEF PurgeAhead, Purging
  <2>4. CASE Tick \/ Edit
    BY <2>3, <2>4 DEF Tick, Edit, files, control, PurgeAdvances, PurgeAhead, Archives
  <2>5. CASE ~(Tick \/ Edit)
    <3>1. pc' \in Purging \cup {"off"} /\ (pc' # "off" => PurgeAhead' < PurgeAhead)
      <4>1. CASE PurgeList
        <5>1. \/ pc' = "rm" /\ listing' = Archives
              \/ pc' = "purgereg"
          BY <4>1 DEF PurgeList, Archives
        <5> QED
          BY <2>2, <4>1, <5>1 DEF PurgeList, PurgeAhead, Purging
      <4>2. CASE PurgeFile
        <5>1. PICK f \in listing : listing' = listing \ {f}
          BY <4>2 DEF PurgeFile
        <5>2. Cardinality(listing') = Cardinality(listing) - 1
          BY <2>1, <5>1, FS_RemoveElement
        <5> QED
          BY <2>1, <4>2, <5>2 DEF PurgeFile, PurgeAhead, Purging
      <4>3. CASE PurgeFilesDone
        BY <2>1, <4>3 DEF PurgeFilesDone, PurgeAhead, Purging
      <4>4. CASE PurgeRegistry \/ Kill
        BY <4>4 DEF PurgeRegistry, Kill, Exit
      <4> QED
        BY <2>5, <4>1, <4>2, <4>3, <4>4 DEF Next, Process, Purging, Start, LoadRegistry,
           NextBundle, Collect, Sign, StampPath, StampName, Unlink, OpenOut, FillOut, Register,
           NilMapPanic, PersistRemove, PersistCreate, PersistStore, Serve, Signal
    <3> QED
      BY <2>3, <2>5, <3>1 DEF PurgeAdvances
  <2> QED
    BY <2>4, <2>5
<1> QED
  BY <1>1, BoundInvariant, TypeInvariant, PTL DEF Spec
=============================================================================
