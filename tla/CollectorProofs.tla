--------------------------- MODULE CollectorProofs ---------------------------
(***************************************************************************)
(* The read loop for every material, however many files, contents and      *)
(* edits there are: whatever is in the archive has gone through the        *)
(* digest, and one edit leaves the bundle of one moment.                   *)
(***************************************************************************)
EXTENDS Collector, FiniteSetTheorems, TLAPS

LEMMA InitType == Init => TypeOK
  BY FilesAssumption DEF Init, TypeOK, Material

\* A file that is read leaves a bundle of the declared type.
LEMMA ReadType ==
    ASSUME TypeOK, NEW f \in Files, Read(f)
    PROVE  TypeOK'
<1>1. /\ material[f] \in Contents /\ infos' \subseteq Files
      /\ UNCHANGED <<material, pc, names, moments, edits>>
  BY DEF TypeOK, Read, Material
<1>2. modules' \in [Modules -> Contents \cup {None}]
  BY <1>1 DEF TypeOK, Read, AddModule
<1>3. data' \in [DataKeys -> Contents \cup {None}]
  BY <1>1 DEF TypeOK, Read, AddData
<1>4. etag' \in Seq(Contents)
  BY <1>1 DEF TypeOK, Read
<1> QED BY <1>1, <1>2, <1>3, <1>4 DEF TypeOK

LEMMA StepType == TypeOK /\ [Next]_vars => TypeOK'
<1> SUFFICES ASSUME TypeOK, [Next]_vars PROVE TypeOK'
  OBVIOUS
<1> USE DEF bundle
<1>1. CASE ReadNames
  BY <1>1 DEF TypeOK, ReadNames
<1>2. CASE Walked
  BY <1>2 DEF TypeOK, Walked
<1>3. CASE ReadFails
  BY <1>3 DEF TypeOK, ReadFails
<1>4. CASE Hash
  BY <1>4 DEF TypeOK, Hash
<1>5. ASSUME NEW f \in Files, Lstat(f) PROVE TypeOK'
  BY <1>5 DEF TypeOK, Lstat
<1>6. ASSUME NEW f \in Files, Skip(f) PROVE TypeOK'
  BY <1>6 DEF TypeOK, Skip
<1>7. ASSUME NEW f \in Files, NEW c \in Contents \cup {None}, Edit(f, c) PROVE TypeOK'
  <2>1. material' \in Material
    BY <1>7 DEF TypeOK, Edit, Material
  <2>2. edits' \in 0..MaxEdits
    BY <1>7, FilesAssumption DEF TypeOK, Edit
  <2> QED BY <1>7, <2>1, <2>2 DEF TypeOK, Edit
<1>8. CASE UNCHANGED vars
  BY <1>8 DEF TypeOK, vars
<1> QED BY <1>1, <1>2, <1>3, <1>4, <1>5, <1>6, <1>7, <1>8, ReadType DEF Next

\* Whatever the walk and the loop find on their way, in whatever order.
THEOREM TypeCorrect == Spec => []TypeOK
  BY InitType, StepType, PTL DEF Spec

-----------------------------------------------------------------------------
(* The digest.                                                              *)

\* A value of the archive has gone through the digest.
Covered(c) == c # None => \E i \in DOMAIN etag : etag[i] = c

\* What the digest is taken of is what some file held since the walk began.
Seen(c) == \E m \in moments, f \in Files \ Ignored : m[f] = c

DigestInv ==
    /\ pc # "start" => material \in moments
    /\ pc = "start" => etag = <<>>
    /\ \A i \in DOMAIN etag : Seen(etag[i])
    /\ \A f \in Modules : Covered(modules[f])
    /\ \A k \in DataKeys : Covered(data[k])

\* The loop reads a file, and whatever it makes of it, it appends it to the digest.
LEMMA ReadCovers ==
    ASSUME TypeOK, DigestInv, NEW f \in Files, Read(f)
    PROVE  DigestInv'
<1> DEFINE c == material[f]
<1>1. /\ c \in Contents /\ f \notin Ignored /\ material \in moments /\ pc = "read"
      /\ UNCHANGED <<material, pc, moments>>
  BY DEF TypeOK, Read, Material, DigestInv
<1>2. /\ etag' = Append(etag, c) /\ etag \in Seq(Contents)
      /\ DOMAIN etag = 1..Len(etag) /\ DOMAIN etag' = 1..(Len(etag) + 1)
      /\ etag'[Len(etag) + 1] = c /\ \A i \in DOMAIN etag : etag'[i] = etag[i]
  BY <1>1 DEF TypeOK, Read
<1>3. ASSUME NEW d, Covered(d) \/ d = c PROVE Covered(d)'
  <2>1. CASE d = c
    BY <1>2, <2>1 DEF Covered
  <2>2. CASE Covered(d)
    BY <1>2, <2>2 DEF Covered
  <2> QED BY <1>3, <2>1, <2>2
<1>4. ASSUME NEW i \in DOMAIN etag' PROVE Seen(etag[i])'
  <2>1. etag'[i] = c \/ (i \in DOMAIN etag /\ etag'[i] = etag[i])
    BY <1>2
  <2>2. \E m \in moments, g \in Files \ Ignored : m[g] = etag'[i]
    BY <1>1, <2>1 DEF DigestInv, Seen
  <2> QED BY <1>1, <2>2 DEF Seen
<1>5. ASSUME NEW g \in Modules PROVE Covered(modules[g])'
  <2>1. PICK d : d = modules'[g]
    OBVIOUS
  <2>2. d = c \/ d = modules[g]
    BY <2>1 DEF Read, AddModule
  <2>3. Covered(d)'
    BY <1>3, <2>2 DEF DigestInv
  <2> QED BY <2>1, <2>3 DEF Covered
<1>6. ASSUME NEW k \in DataKeys PROVE Covered(data[k])'
  <2>1. PICK d : d = data'[k]
    OBVIOUS
  <2>2. d = c \/ d = data[k]
    BY <2>1 DEF Read, AddData
  <2>3. Covered(d)'
    BY <1>3, <2>2 DEF DigestInv
  <2> QED BY <2>1, <2>3 DEF Covered
<1> QED BY <1>1, <1>4, <1>5, <1>6 DEF DigestInv

LEMMA StepDigest == TypeOK /\ DigestInv /\ [Next]_vars => DigestInv'
<1> SUFFICES ASSUME TypeOK, DigestInv, [Next]_vars PROVE DigestInv'
  OBVIOUS
<1> USE DEF DigestInv, Covered, Seen, bundle
<1>1. CASE ReadNames
  BY <1>1 DEF ReadNames
<1>2. CASE Walked
  BY <1>2 DEF Walked
<1>3. CASE ReadFails
  BY <1>3 DEF ReadFails
<1>4. CASE Hash
  BY <1>4 DEF Hash
<1>5. ASSUME NEW f \in Files, Lstat(f) PROVE DigestInv'
  BY <1>5 DEF Lstat
<1>6. ASSUME NEW f \in Files, Skip(f) PROVE DigestInv'
  BY <1>6 DEF Skip
<1>7. ASSUME NEW f \in Files, NEW c \in Contents \cup {None}, Edit(f, c) PROVE DigestInv'
  BY <1>7 DEF Edit
<1>8. CASE UNCHANGED vars
  BY <1>8 DEF vars
<1> QED BY <1>1, <1>2, <1>3, <1>4, <1>5, <1>6, <1>7, <1>8, ReadCovers DEF Next

\* However many edits there are and in whatever order the map yields the files:
\* every module and every value of the archive is one the digest was taken of,
\* and every one of these was in a file since the walk began.
THEOREM DigestCovers == Spec => []DigestCoversArchive
<1>1. Init => DigestInv
  BY DEF Init, DigestInv, Covered, Seen
<1>2. TypeOK /\ DigestInv => DigestCoversArchive
  BY DEF TypeOK, DigestInv, DigestCoversArchive, Covered, Seen, ToSet
<1> QED BY <1>1, <1>2, StepDigest, TypeCorrect, PTL DEF Spec

-----------------------------------------------------------------------------
(* The snapshot.                                                            *)

\* The files that are still to be read, of those the walk has found.
Pending == (names \cup infos) \ Ignored

\* What the loop has gathered is what the material m has in the files R, the
\* digest taking each of them once.
Gathered(m, R) ==
    /\ \A f \in Modules : modules[f] = IF f \in R THEN m[f] ELSE None
    /\ \A k \in DataKeys :
         LET setters == {f \in R \cap DataFiles : k \in KeysOf[f]}
         IN  IF setters = {} THEN data[k] = None ELSE \E f \in setters : data[k] = m[f]
    /\ \E src \in Bijection(DOMAIN etag, R) : \A i \in DOMAIN etag : etag[i] = m[src[i]]

\* The bundle in the making is one of m: so far, and also when the files that are
\* pending are read, unless one of them has gone.
Snapshot(m) ==
    /\ Pending \subseteq Taken(m)
    /\ \A f \in Pending : material[f] \in {m[f], None}
    /\ Gathered(m, Taken(m) \ Pending)

\* One edit leaves a choice: a file that was edited before it was read makes the
\* bundle one of the material after the edit, any other one of that before.
SnapshotInv ==
    /\ pc = "start" => /\ names = {} /\ infos = {} /\ etag = <<>> /\ edits = 0
                       /\ \A f \in Modules : modules[f] = None
                       /\ \A k \in DataKeys : data[k] = None
    /\ pc \in {"read", "done"} => names = {}
    /\ pc = "done" => infos = {}
    /\ pc \in {"walk", "read", "done"} =>
         /\ edits = 0 => moments = {material}
         /\ edits <= 1 => \E m \in moments : Snapshot(m)

LEMMA SequenceDomain ==
    ASSUME NEW s \in Seq(Contents), NEW c \in Contents
    PROVE  /\ Len(s) \in Nat /\ DOMAIN s = 1..Len(s)
           /\ DOMAIN Append(s, c) = 1..(Len(s) + 1)
           /\ Append(s, c)[Len(s) + 1] = c
           /\ \A i \in 1..Len(s) : Append(s, c)[i] = s[i]
  OBVIOUS

\* A source of the digest is extended with the file that is read.
LEMMA ExtendSource ==
    ASSUME NEW n \in Nat, NEW R, NEW src \in Bijection(1..n, R), NEW f, f \notin R
    PROVE  LET new == [i \in 1..(n + 1) |-> IF i <= n THEN src[i] ELSE f]
           IN  new \in Bijection(1..(n + 1), R \cup {f})
<1> DEFINE new == [i \in 1..(n + 1) |-> IF i <= n THEN src[i] ELSE f]
<1>1. /\ src \in [1..n -> R]
      /\ \A i, j \in 1..n : src[i] = src[j] => i = j
      /\ \A r \in R : \E i \in 1..n : src[i] = r
  BY DEF Bijection, Injection, Surjection, IsInjective
<1>2. /\ \A i \in 1..n : i \in 1..(n + 1) /\ new[i] = src[i] /\ new[i] \in R
      /\ new[n + 1] = f /\ n + 1 \in 1..(n + 1)
      /\ \A i \in 1..(n + 1) : i \in 1..n \/ i = n + 1
  BY <1>1
<1> HIDE DEF new
<1>3. new \in [1..(n + 1) -> R \cup {f}]
  BY <1>2 DEF new
<1>4. \A i, j \in 1..(n + 1) : new[i] = new[j] => i = j
  BY <1>1, <1>2
<1>5. \A r \in R \cup {f} : \E i \in 1..(n + 1) : new[i] = r
  BY <1>1, <1>2
<1>6. new \in Bijection(1..(n + 1), R \cup {f})
  BY <1>3, <1>4, <1>5 DEF Bijection, Injection, Surjection, IsInjective
<1> QED BY <1>6 DEF new

LEMMA ReadGathers ==
    ASSUME TypeOK, NEW m \in Material, NEW R \in SUBSET Files, Gathered(m, R),
           NEW f \in Files \ R, Read(f), material[f] = m[f]
    PROVE  Gathered(m, R \cup {f})'
<1>1. /\ m[f] \in Contents /\ etag \in Seq(Contents) /\ etag' = Append(etag, m[f])
      /\ modules' = AddModule(f, m[f]) /\ data' = AddData(f, m[f])
  BY DEF TypeOK, Read, Material
<1>2. ASSUME NEW g \in Modules
      PROVE  modules'[g] = IF g \in R \cup {f} THEN m[g] ELSE None
  BY <1>1 DEF Gathered, AddModule
<1>3. ASSUME NEW k \in DataKeys
      PROVE  LET setters == {g \in (R \cup {f}) \cap DataFiles : k \in KeysOf[g]}
             IN  IF setters = {} THEN data'[k] = None
                                 ELSE \E g \in setters : data'[k] = m[g]
  <2> DEFINE before == {g \in R \cap DataFiles : k \in KeysOf[g]}
             setters == {g \in (R \cup {f}) \cap DataFiles : k \in KeysOf[g]}
  <2>1. IF before = {} THEN data[k] = None ELSE \E g \in before : data[k] = m[g]
    BY DEF Gathered
  <2>2. CASE f \in DataFiles /\ k \in KeysOf[f]
    BY <1>1, <2>2 DEF AddData
  <2>3. CASE ~(f \in DataFiles /\ k \in KeysOf[f])
    BY <1>1, <2>1, <2>3 DEF AddData
  <2> QED BY <2>2, <2>3
<1>4. \E src \in Bijection(DOMAIN etag', R \cup {f}) :
        \A i \in DOMAIN etag' : etag'[i] = m[src[i]]
  <2> DEFINE n == Len(etag)
  <2>1. PICK src \in Bijection(DOMAIN etag, R) : \A i \in DOMAIN etag : etag[i] = m[src[i]]
    BY DEF Gathered
  <2> DEFINE new == [i \in 1..(n + 1) |-> IF i <= n THEN src[i] ELSE f]
  <2>2. /\ n \in Nat /\ DOMAIN etag = 1..n /\ DOMAIN etag' = 1..(n + 1)
        /\ etag'[n + 1] = m[f] /\ \A i \in 1..n : etag'[i] = etag[i]
    BY <1>1, SequenceDomain
  <2>3. new \in Bijection(1..(n + 1), R \cup {f})
    BY <2>1, <2>2, ExtendSource
  <2>4. \A i \in 1..(n + 1) : etag'[i] = m[new[i]]
    BY <2>1, <2>2
  <2> HIDE DEF new
  <2> QED BY <2>2, <2>3, <2>4
<1> QED BY <1>2, <1>3, <1>4 DEF Gathered

\* As many positions of the digest as files hold a content.
LEMMA GatheredAll ==
    ASSUME TypeOK, NEW m \in Material, Gathered(m, Taken(m))
    PROVE  IsBundleOf(m)
<1>1. PICK src \in Bijection(DOMAIN etag, Taken(m)) :
        \A i \in DOMAIN etag : etag[i] = m[src[i]]
  BY DEF Gathered
<1>2. /\ src \in [DOMAIN etag -> Taken(m)]
      /\ \A i, j \in DOMAIN etag : src[i] = src[j] => i = j
      /\ \A r \in Taken(m) : \E i \in DOMAIN etag : src[i] = r
  BY DEF Bijection, Injection, Surjection, IsInjective
<1>3. ASSUME NEW c \in Contents
      PROVE  Cardinality({i \in DOMAIN etag : etag[i] = c}) =
               Cardinality({f \in Taken(m) : m[f] = c})
  <2> DEFINE S == {i \in DOMAIN etag : etag[i] = c}
             T == {f \in Taken(m) : m[f] = c}
             part == [i \in S |-> src[i]]
  <2>1. IsFiniteSet(S)
    <3>1. Len(etag) \in Nat /\ DOMAIN etag = 1..Len(etag)
      BY SequenceDomain DEF TypeOK
    <3>2. IsFiniteSet(1..Len(etag))
      BY <3>1, FS_Interval
    <3> QED BY <3>1, <3>2, FS_Subset
  <2>2. part \in Injection(S, T)
    BY <1>1, <1>2 DEF Injection, IsInjective
  <2>3. part \in Surjection(S, T)
    BY <1>1, <1>2 DEF Surjection
  <2>4. ExistsBijection(S, T)
    BY <2>2, <2>3 DEF ExistsBijection, Bijection
  <2> HIDE DEF S, T
  <2>5. Cardinality(T) = Cardinality(S)
    BY <2>1, <2>4, FS_Bijection
  <2> QED BY <2>5 DEF S, T
<1> QED BY <1>3 DEF Gathered, IsBundleOf

LEMMA ReadSnapshot ==
    ASSUME TypeOK, NEW m \in Material, Snapshot(m), pc = "read" => names = {},
           NEW f \in Files, Read(f)
    PROVE  Snapshot(m)'
<1>1. /\ pc = "read" /\ names = {} /\ names' = names /\ f \in infos \ Ignored
      /\ infos' = infos \ {f} /\ material' = material /\ material[f] # None
  BY DEF Read
<1>2. f \in Pending /\ Pending' = Pending \ {f} /\ material[f] = m[f]
  BY <1>1 DEF Pending, Snapshot
<1>3. PICK R : R = Taken(m) \ Pending
  OBVIOUS
<1>4. f \notin R /\ R \in SUBSET Files /\ Taken(m) \ Pending' = R \cup {f}
  BY <1>2, <1>3 DEF Snapshot, Taken
<1>5. Gathered(m, R \cup {f})'
  BY <1>2, <1>3, <1>4, ReadGathers DEF Snapshot
<1> QED BY <1>1, <1>2, <1>4, <1>5 DEF Snapshot

\* The first edit since the walk began.
LEMMA EditSnapshot ==
    ASSUME TypeOK, SnapshotInv, NEW f \in Files, NEW c \in Contents \cup {None}, Edit(f, c),
           edits' <= 1
    PROVE  \E m \in moments' : Snapshot(m)'
<1>1. /\ edits \in Nat /\ edits = 0 /\ pc \in {"walk", "read"}
      /\ UNCHANGED <<pc, names, infos, bundle>>
      /\ material' = [material EXCEPT ![f] = c] /\ material \in Material
      /\ moments = {material} /\ moments' = {material, material'}
      /\ Pending' = Pending /\ material' \in Material
  BY FilesAssumption DEF TypeOK, SnapshotInv, Edit, Pending, Material
<1>2. Snapshot(material)
  BY <1>1 DEF SnapshotInv
<1>3. CASE f \in Pending /\ c # None
  <2>1. Taken(material') = Taken(material)
    BY <1>1, <1>2, <1>3 DEF Taken, Snapshot, Material
  <2>2. \A g \in Taken(material) \ Pending : material'[g] = material[g]
    BY <1>1, <1>3 DEF Material, Taken
  <2>3. Gathered(material, Taken(material) \ Pending)
    BY <1>2 DEF Snapshot
  <2>4. PICK new : new = material'
    OBVIOUS
  <2>5. \A g \in Modules : modules[g] = IF g \in Taken(material) \ Pending THEN new[g] ELSE None
    BY <2>2, <2>3, <2>4 DEF Gathered
  <2>6. ASSUME NEW k \in DataKeys
        PROVE  LET setters == {g \in (Taken(material) \ Pending) \cap DataFiles : k \in KeysOf[g]}
               IN  IF setters = {} THEN data[k] = None ELSE \E g \in setters : data[k] = new[g]
    BY <2>2, <2>3, <2>4 DEF Gathered
  <2>7. \E src \in Bijection(DOMAIN etag, Taken(material) \ Pending) :
          \A i \in DOMAIN etag : etag[i] = new[src[i]]
    <3>1. PICK src \in Bijection(DOMAIN etag, Taken(material) \ Pending) :
            \A i \in DOMAIN etag : etag[i] = material[src[i]]
      BY <2>3 DEF Gathered
    <3>2. \A i \in DOMAIN etag : src[i] \in Taken(material) \ Pending
      BY <3>1 DEF Bijection, Injection
    <3> QED BY <2>2, <2>4, <3>1, <3>2
  <2>8. Taken(new) = Taken(material)
    BY <2>1, <2>4
  <2>9. Gathered(new, Taken(new) \ Pending)'
    BY <1>1, <2>5, <2>6, <2>7, <2>8 DEF Gathered, bundle
  <2>10. Snapshot(new)'
    BY <1>1, <1>2, <2>4, <2>8, <2>9 DEF Snapshot
  <2> QED BY <1>1, <2>4, <2>10
<1>4. CASE ~(f \in Pending /\ c # None)
  <2>1. PICK old : old = material
    OBVIOUS
  <2>2. Pending' \subseteq Taken(old) /\ \A g \in Pending' : material'[g] \in {old[g], None}
    BY <1>1, <1>2, <1>4, <2>1 DEF Snapshot, Material
  <2>3. Gathered(old, Taken(old) \ Pending)'
    BY <1>1, <1>2, <2>1 DEF Snapshot, Gathered, bundle
  <2>4. Snapshot(old)'
    BY <2>2, <2>3 DEF Snapshot
  <2> QED BY <1>1, <2>1, <2>4
<1> QED BY <1>3, <1>4

LEMMA StepSnapshot == TypeOK /\ SnapshotInv /\ [Next]_vars => SnapshotInv'
<1> SUFFICES ASSUME TypeOK, SnapshotInv, [Next]_vars PROVE SnapshotInv'
  OBVIOUS
<1>0. moments \subseteq Material /\ edits \in Nat /\ material \in Material
  BY FilesAssumption DEF TypeOK
\* A step that neither reads a file nor edits one.
<1>a. ASSUME NEW m \in Material, Snapshot(m), UNCHANGED <<material, bundle>>, Pending' = Pending
      PROVE  Snapshot(m)'
  BY <1>a DEF Snapshot, Gathered, bundle
<1>1. CASE ReadNames
  <2>1. PICK m : m = material
    OBVIOUS
  <2>2. Taken(m) = Pending'
    BY <1>1, <2>1 DEF ReadNames, Pending, Taken, SnapshotInv
  <2>3. Gathered(m, {})'
    <3>1. DOMAIN etag' = {} /\ \A g \in Modules : modules'[g] = None
      BY <1>1 DEF ReadNames, SnapshotInv, bundle
    <3>2. \A k \in DataKeys : data'[k] = None
      BY <1>1 DEF ReadNames, SnapshotInv, bundle
    <3>3. [i \in {} |-> i] \in Bijection({}, {})
      BY DEF Bijection, Injection, Surjection, IsInjective
    <3> QED BY <3>1, <3>2, <3>3 DEF Gathered
  <2>4. Snapshot(m)'
    BY <1>1, <2>1, <2>2, <2>3 DEF ReadNames, Snapshot
  <2> QED BY <1>1, <2>1, <2>4 DEF ReadNames, SnapshotInv
<1>2. CASE Walked
  BY <1>0, <1>2, <1>a DEF Walked, SnapshotInv, Pending
<1>3. CASE ReadFails
  BY <1>3 DEF ReadFails, SnapshotInv
<1>4. CASE Hash
  BY <1>0, <1>4, <1>a DEF Hash, SnapshotInv, Pending
<1>5. ASSUME NEW f \in Files, Lstat(f) PROVE SnapshotInv'
  <2>1. CASE material[f] = None
    BY <1>5, <2>1 DEF Lstat, SnapshotInv
  <2>2. CASE material[f] # None
    <3>1. Pending' = Pending
      BY <1>5, <2>2 DEF Lstat, Pending
    <3> QED BY <1>0, <1>5, <1>a, <2>2, <3>1 DEF Lstat, SnapshotInv
  <2> QED BY <2>1, <2>2
<1>6. ASSUME NEW f \in Files, Skip(f) PROVE SnapshotInv'
  <2>1. Pending' = Pending
    BY <1>6 DEF Skip, Pending
  <2> QED BY <1>0, <1>6, <1>a, <2>1 DEF Skip, SnapshotInv
<1>7. ASSUME NEW f \in Files, Read(f) PROVE SnapshotInv'
  <2>1. pc = "read" /\ UNCHANGED <<material, pc, names, moments, edits>>
    BY <1>7 DEF Read
  <2>2. \A m \in Material : Snapshot(m) => Snapshot(m)'
    BY <1>7, ReadSnapshot DEF SnapshotInv
  <2> QED BY <1>0, <2>1, <2>2 DEF SnapshotInv
<1>8. ASSUME NEW f \in Files, NEW c \in Contents \cup {None}, Edit(f, c) PROVE SnapshotInv'
  <2>1. pc \in {"walk", "read"} /\ edits' = edits + 1 /\ UNCHANGED <<pc, names, infos, bundle>>
    BY <1>8 DEF Edit
  <2>2. edits' <= 1 => \E m \in moments' : Snapshot(m)'
    BY <1>8, EditSnapshot
  <2> QED BY <1>0, <2>1, <2>2 DEF SnapshotInv
<1>9. CASE UNCHANGED vars
  BY <1>9 DEF vars, bundle, SnapshotInv, Snapshot, Gathered, Pending
<1> QED BY <1>1, <1>2, <1>3, <1>4, <1>5, <1>6, <1>7, <1>8, <1>9 DEF Next

\* One edit anywhere in the walk and the reading, and any order of the map: archive
\* and digest are those of one moment, for any number of files and contents.
THEOREM OneEditTearsNothing == Spec => []SnapshotOfOneMoment
<1>1. Init => SnapshotInv
  BY DEF Init, SnapshotInv
<1>2. TypeOK /\ SnapshotInv => SnapshotOfOneMoment
  <2> SUFFICES ASSUME TypeOK, SnapshotInv, pc = "done", edits <= 1
               PROVE  \E m \in moments : IsBundleOf(m)
    BY DEF SnapshotOfOneMoment
  <2>1. PICK m \in moments : Snapshot(m)
    BY DEF SnapshotInv
  <2>2. m \in Material /\ Pending = {} /\ Taken(m) \ Pending = Taken(m)
    BY DEF SnapshotInv, Pending, TypeOK
  <2>3. Gathered(m, Taken(m))
    BY <2>1, <2>2 DEF Snapshot
  <2> QED BY <2>2, <2>3, GatheredAll
<1> QED BY <1>1, <1>2, StepSnapshot, TypeCorrect, PTL DEF Spec
=============================================================================
