------------------------- MODULE MutationPolicyProofs -------------------------
(***************************************************************************)
(* Proofs about MutationPolicy, for every set of well-formed pods and      *)
(* whatever deny rules object to.                                          *)
(***************************************************************************)
EXTENDS MutationPolicy, SequenceTheorems, TLAPS

Metadata == <<"metadata">>
Labels == <<"metadata", "labels">>
Keys == DOMAIN Wanted

\* What is still to be applied completes the pod: every parent is there or about
\* to be made, before what is below it, and every label is there or among the
\* patches.
ToApply ==
    verdict = "patch" =>
      /\ patches \subseteq {MakeLabelPatch(k) : k \in Keys}
      /\ missing \subseteq {Metadata, Labels} \ DOMAIN pod
      /\ \A q \in missing : Parents(q) \subseteq DOMAIN pod \cup missing
      /\ patches # {} => {Metadata, Labels} \subseteq DOMAIN pod \cup missing
      /\ \A k \in Keys : HasLabelValue(pod, k, Wanted[k]) \/ MakeLabelPatch(k) \in patches

\* A pod is reviewed as it was submitted.
Reviewed == verdict = "review" => pod = submitted

PolicyInv == TypeOK /\ PatchesApply /\ NothingLost /\ LabelledForGood /\ ToApply /\ Reviewed

-----------------------------------------------------------------------------
(* Paths.                                                                   *)

\* The parents of paths of up to three names.
LEMMA ShortPaths ==
    ASSUME NEW a \in Names, NEW b \in Names, NEW c \in Names
    PROVE  /\ <<a>> \in Seq(Names) /\ Len(<<a>>) = 1 /\ Parents(<<a>>) = {}
           /\ <<a, b>> \in Seq(Names) /\ Len(<<a, b>>) = 2 /\ Parents(<<a, b>>) = {<<a>>}
           /\ <<a, b, c>> \in Seq(Names) /\ Len(<<a, b, c>>) = 3
           /\ Parents(<<a, b, c>>) = {<<a>>, <<a, b>>}
<1> DEFINE r == <<a>>  s == <<a, b>>  t == <<a, b, c>>
<1>1. r \in Seq(Names) /\ Len(r) = 1 /\ r[1] = a
  OBVIOUS
<1>2. s \in Seq(Names) /\ Len(s) = 2 /\ s[1] = a /\ s[2] = b
  OBVIOUS
<1>3. t \in Seq(Names) /\ Len(t) = 3 /\ t[1] = a /\ t[2] = b
  OBVIOUS
<1> HIDE DEF r, s, t
<1>4. ASSUME NEW p \in Seq(Names), NEW q \in Seq(Names),
             Len(p) <= Len(q), \A i \in 1..Len(p) : q[i] = p[i]
      PROVE  SubSeq(q, 1, Len(p)) = p
  <2>1. /\ SubSeq(q, 1, Len(p)) \in Seq(Names) /\ Len(SubSeq(q, 1, Len(p))) = Len(p)
        /\ \A i \in 1..Len(p) : SubSeq(q, 1, Len(p))[i] = q[i]
    BY <1>4
  <2> QED
    BY <1>4, <2>1, SeqEqual
<1>5. SubSeq(s, 1, 1) = r /\ SubSeq(t, 1, 1) = r /\ SubSeq(t, 1, 2) = s
  BY <1>1, <1>2, <1>3, <1>4
<1>6. Parents(r) = {}
  BY <1>1 DEF Parents
<1>7. Parents(s) = {r}
  BY <1>2, <1>5 DEF Parents
<1>8. Parents(t) = {r, s}
  <2>1. 1..Len(t) - 1 = {1, 2}
    BY <1>3
  <2>2. Parents(t) = {SubSeq(t, 1, i) : i \in {1, 2}}
    BY <2>1 DEF Parents
  <2> QED
    BY <1>5, <2>2
<1>9. /\ r \in Seq(Names) /\ Len(r) = 1 /\ Parents(r) = {}
      /\ s \in Seq(Names) /\ Len(s) = 2 /\ Parents(s) = {r}
      /\ t \in Seq(Names) /\ Len(t) = 3 /\ Parents(t) = {r, s}
  BY <1>1, <1>2, <1>3, <1>6, <1>7, <1>8
<1> QED
  BY <1>9 DEF r, s, t

\* The paths that the library makes: those of the labels and their two parents.
LEMMA LabelPaths ==
    /\ \A k \in Keys : LabelPath(k) \in Seq(Names) \ {<<>>} /\ Parents(LabelPath(k)) = {Metadata, Labels}
    /\ Labels \in Seq(Names) \ {<<>>} /\ Parents(Labels) = {Metadata} /\ Len(Labels) = 2
    /\ Metadata \in Seq(Names) \ {<<>>} /\ Parents(Metadata) = {} /\ Len(Metadata) = 1
    /\ \A k, l \in Keys : LabelPath(k) = LabelPath(l) => k = l
    /\ \A k \in Keys : LabelPath(k) \notin {Metadata, Labels}
<1>1. "metadata" \in Names /\ "labels" \in Names /\ \A k \in Keys : k \in Names
  BY NamesAssumption DEF Keys
<1>2. /\ Metadata \in Seq(Names) /\ Len(Metadata) = 1 /\ Parents(Metadata) = {}
      /\ Labels \in Seq(Names) /\ Len(Labels) = 2 /\ Parents(Labels) = {Metadata}
  BY <1>1, ShortPaths DEF Metadata, Labels
<1>3. ASSUME NEW k \in Keys
      PROVE  /\ LabelPath(k) \in Seq(Names) \ {<<>>} /\ Parents(LabelPath(k)) = {Metadata, Labels}
             /\ LabelPath(k) \notin {Metadata, Labels}
  <2>1. PICK p : p = LabelPath(k)
    OBVIOUS
  <2>2. p \in Seq(Names) /\ Len(p) = 3 /\ Parents(p) = {Metadata, Labels}
    BY <1>1, <2>1, ShortPaths DEF LabelPath, Metadata, Labels
  <2>3. p # <<>> /\ p # Metadata /\ p # Labels
    BY <1>2, <2>2
  <2> QED
    BY <2>1, <2>2, <2>3
<1>4. \A k, l \in Keys : LabelPath(k) = LabelPath(l) => k = l
  BY DEF LabelPath
<1>5. Metadata # <<>> /\ Labels # <<>>
  BY DEF Metadata, Labels
<1> QED
  BY <1>2, <1>3, <1>4, <1>5

-----------------------------------------------------------------------------
(* One patch.                                                               *)

\* What a response puts where: an object at a path that was missing, or a label.
Makes(p, path, value) ==
    \/ path \in {Metadata, Labels} \ DOMAIN p /\ value = Obj
    \/ \E k \in Keys : path = LabelPath(k) /\ value = Wanted[k]

LEMMA WantedIsALeaf == \A k \in Keys : Wanted[k] # Obj
<1>1. Wanted.billing # Obj /\ Wanted.env # Obj /\ Wanted.owner # Obj
  BY DEF Wanted, Obj
<1>2. \A k \in Keys : k = "billing" \/ k = "env" \/ k = "owner"
  BY DEF Keys, Wanted
<1> QED
  BY <1>1, <1>2

\* n is p with the value at this path, and nothing else changed.
IsWith(n, p, path, value) ==
    /\ DOMAIN n = DOMAIN p \cup {path} /\ n[path] = value
    /\ \A q \in DOMAIN p \ {path} : n[q] = p[q]

\* Nothing is below a path that is not there, nor below a label, so that such a
\* patch takes nothing away.
LEMMA AddTakesNothing ==
    ASSUME NEW p, WellFormed(p), NEW path, NEW value, Makes(p, path, value)
    PROVE  IsWith(Add(p, path, value), p, path, value)
<1>1. ASSUME NEW r \in DOMAIN p
      PROVE  path \notin Parents(r)
  <2>1. \A q \in Parents(r) : q \in DOMAIN p /\ p[q] = Obj
    BY DEF WellFormed, Applies
  <2>2. \A k \in Keys : LabelPath(k) \in DOMAIN p => p[LabelPath(k)] # Obj
    BY DEF WellFormed, Keys
  <2> QED
    BY <2>1, <2>2 DEF Makes
<1> QED
  BY <1>1 DEF Add, IsWith

\* A pod stays well-formed when such a patch applies to it.
LEMMA AddWellFormed ==
    ASSUME NEW p, WellFormed(p), NEW path, NEW value, Makes(p, path, value), Applies(p, path),
           NEW n, IsWith(n, p, path, value)
    PROVE  WellFormed(n)
<1>1. /\ DOMAIN n = DOMAIN p \cup {path} /\ n[path] = value
      /\ \A q \in DOMAIN p \ {path} : n[q] = p[q]
  BY DEF IsWith
<1>2. /\ \A q \in DOMAIN p : q \in Seq(Names) \ {<<>>} /\ Applies(p, q)
      /\ \A k \in Keys : LabelPath(k) \in DOMAIN p => p[LabelPath(k)] # Obj
      /\ \A q \in {Metadata, Labels} : q \in DOMAIN p => p[q] = Obj
  <2>1. Keys # {}
    BY DEF Keys, Wanted
  <2> QED
    BY <2>1, LabelPaths DEF WellFormed, Keys
<1>3. path \in Seq(Names) \ {<<>>} /\ path \notin Parents(path)
  BY LabelPaths DEF Makes
<1>4. ASSUME NEW r \in DOMAIN n, NEW q \in Parents(r)
      PROVE  q \in DOMAIN n /\ n[q] = Obj
  <2>1. q \in DOMAIN p /\ p[q] = Obj
    BY <1>1, <1>2 DEF Applies
  <2>2. q = path => value = Obj
    BY <1>2, <2>1 DEF Makes
  <2> QED
    BY <1>1, <2>1, <2>2
<1>5. ASSUME NEW k \in Keys
      PROVE  LabelPath(k) \in DOMAIN n => n[LabelPath(k)] # Obj
  BY <1>1, <1>2, LabelPaths, WantedIsALeaf DEF Makes
<1>6. \A q \in {Metadata, Labels} : q \in DOMAIN n => n[q] = Obj
  BY <1>1, <1>2, LabelPaths DEF Makes
<1> QED
  BY <1>1, <1>2, <1>3, <1>4, <1>5, <1>6, LabelPaths DEF WellFormed, Applies, Keys

-----------------------------------------------------------------------------
(* The steps.                                                               *)

\* The response asks for what is missing, and for nothing else.
LEMMA ResponseCompletes ==
    ASSUME PolicyInv, Respond
    PROVE  ToApply'
<1>1. SUFFICES ASSUME verdict' = "patch"
               PROVE  ToApply'
  BY DEF ToApply
<1>2. /\ pod' = pod /\ patches' = Patch(pod) /\ Patch(pod) # {}
      /\ missing' = MissingPaths(pod, patches')
  BY <1>1 DEF Respond
<1>3. Patch(pod) = {MakeLabelPatch(k) : k \in {l \in Keys : ~HasLabelValue(pod, l, Wanted[l])}}
  BY <1>2 DEF Patch, Keys
<1>4. missing' = {Metadata, Labels} \ DOMAIN pod
  <2>1. \A x \in patches' : Parents(x.path) = {Metadata, Labels}
    BY <1>2, <1>3, LabelPaths DEF MakeLabelPatch
  <2> QED
    BY <1>2, <2>1 DEF MissingPaths
<1>5. \A q \in {Metadata, Labels} : Parents(q) \subseteq {Metadata, Labels}
  BY LabelPaths
<1>6. \A k \in Keys : HasLabelValue(pod', k, Wanted[k]) \/ MakeLabelPatch(k) \in patches'
  BY <1>2, <1>3
<1> QED
  BY <1>2, <1>3, <1>4, <1>5, <1>6 DEF ToApply

LEMMA RespondKeepsInv ==
    ASSUME PolicyInv, Respond
    PROVE  PolicyInv'
<1>1. /\ verdict = "review" /\ pod' = pod /\ submitted' = submitted /\ seen' = loaded
      /\ loaded' = loaded /\ pod = submitted /\ WellFormed(pod) /\ loaded \subseteq Policies
  BY DEF Respond, PolicyInv, TypeOK, Reviewed
<1>2. /\ verdict' \in {"noanswer", "patch", "denied", "admitted"}
      /\ verdict' = "patch" => Patch(pod) # {}
      /\ verdict' = "admitted" => Patch(pod) = {} /\ ~HasReason(Deny(pod, loaded))
  BY DEF Respond
<1>4. TypeOK' /\ PatchesApply'
  BY <1>1, <1>2 DEF TypeOK, PatchesApply
<1>5. NothingLost'
  BY <1>1 DEF NothingLost
<1>6. LabelledForGood'
  <2>1. SUFFICES ASSUME verdict' = "admitted", "labels" \in loaded,
                        \/ Deny(pod, loaded) = {} \/ HasReason(Deny(pod, loaded))
                 PROVE  \A k \in DOMAIN Wanted : HasLabelValue(pod, k, Wanted[k])
    BY <1>1 DEF LabelledForGood, HasLabelValue, Deny, HasReason
  <2>2. {MakeLabelPatch(k) : k \in {l \in DOMAIN Wanted : ~HasLabelValue(pod, l, Wanted[l])}} = {}
    BY <1>2, <2>1 DEF Patch, IsValidRequest
  <2> QED
    BY <2>2
<1>7. Reviewed'
  BY <1>1, <1>2 DEF Reviewed
<1> QED
  BY <1>4, <1>5, <1>6, <1>7, ResponseCompletes DEF PolicyInv

\* What one patch of a response does to the pod.
LEMMA PatchKeepsInv ==
    ASSUME PolicyInv, verdict = "patch", NEW path, NEW value,
           Makes(pod, path, value), Applies(pod, path), Apply(path, value)
    PROVE  /\ TypeOK' /\ PatchesApply' /\ NothingLost' /\ LabelledForGood' /\ Reviewed'
           /\ verdict' = "patch" /\ IsWith(pod', pod, path, value)
<1>1. /\ pod' = Add(pod, path, value) /\ verdict' = "patch"
      /\ loaded' = loaded /\ submitted' = submitted /\ seen' = seen
  BY DEF Apply
<1>2. WellFormed(pod)
  BY DEF PolicyInv, TypeOK
<1>3. IsWith(pod', pod, path, value)
  <2>1. IsWith(Add(pod, path, value), pod, path, value)
    BY <1>2, AddTakesNothing
  <2> QED
    BY <1>1, <2>1
<1>4. WellFormed(pod')
  <2>1. PICK n : n = pod'
    OBVIOUS
  <2>2. WellFormed(n)
    BY <1>2, <1>3, <2>1, AddWellFormed
  <2> QED
    BY <2>1, <2>2
<1>5. TypeOK' /\ PatchesApply'
  BY <1>1, <1>4 DEF PolicyInv, TypeOK, PatchesApply
<1>6. NothingLost'
  <2>1. SUFFICES ASSUME NEW q \in DOMAIN submitted, q \notin {LabelPath(k) : k \in DOMAIN Wanted}
                 PROVE  q \in DOMAIN pod' /\ pod'[q] = submitted[q]
    BY <1>1 DEF NothingLost
  <2>2. q \in DOMAIN pod /\ pod[q] = submitted[q]
    BY <2>1 DEF PolicyInv, NothingLost
  <2>3. q # path
    BY <2>1, <2>2 DEF Makes, Keys
  <2> QED
    BY <1>3, <2>2, <2>3 DEF IsWith
<1>7. LabelledForGood' /\ Reviewed'
  BY <1>1 DEF PolicyInv, LabelledForGood, Reviewed
<1> QED
  BY <1>1, <1>3, <1>5, <1>6, <1>7

LEMMA MakePathKeepsInv ==
    ASSUME PolicyInv, NEW path, MakePath(path)
    PROVE  PolicyInv'
<1>1. /\ verdict = "patch" /\ path \in missing /\ Foremost(path, missing) /\ Apply(path, Obj)
      /\ missing' = missing \ {path} /\ patches' = patches
  BY DEF MakePath
<1>2. ToApply
  BY DEF PolicyInv
<1>3. Makes(pod, path, Obj)
  BY <1>1, <1>2 DEF ToApply, Makes
<1>4. Applies(pod, path)
  <2>1. path \in {Metadata, Labels} /\ Parents(path) \subseteq DOMAIN pod \cup missing
    BY <1>1, <1>2 DEF ToApply
  <2>2. Metadata \in missing => path = Metadata
    <3>1. Metadata \in missing => Len(path) <= Len(Metadata)
      BY <1>1 DEF Foremost
    <3>2. Len(Metadata) = 1 /\ Len(Labels) = 2
      BY LabelPaths
    <3> QED
      BY <2>1, <3>1, <3>2
  <2>3. Parents(path) \subseteq {Metadata} /\ Parents(path) \subseteq DOMAIN pod
    BY <2>1, <2>2, LabelPaths
  <2>4. Metadata \in DOMAIN pod => pod[Metadata] = Obj
    <3>1. WellFormed(pod) /\ Keys # {}
      BY <1>1 DEF PolicyInv, TypeOK, Keys, Wanted
    <3> QED
      BY <3>1, LabelPaths DEF WellFormed, Keys
  <2> QED
    BY <2>3, <2>4 DEF Applies
<1>5. /\ TypeOK' /\ PatchesApply' /\ NothingLost' /\ LabelledForGood' /\ Reviewed'
      /\ verdict' = "patch" /\ IsWith(pod', pod, path, Obj)
  BY <1>1, <1>3, <1>4, PatchKeepsInv
<1>6. DOMAIN pod' = DOMAIN pod \cup {path} /\ \A q \in DOMAIN pod \ {path} : pod'[q] = pod[q]
  BY <1>5 DEF IsWith
<1>7. ToApply'
  <2>1. path \in {Metadata, Labels}
    BY <1>1, <1>2 DEF ToApply
  <2>2. ASSUME NEW k \in Keys, HasLabelValue(pod, k, Wanted[k])
        PROVE  HasLabelValue(pod', k, Wanted[k])
    BY <1>6, <2>1, <2>2, LabelPaths DEF HasLabelValue
  <2> QED
    BY <1>1, <1>2, <1>6, <2>2 DEF ToApply
<1> QED
  BY <1>5, <1>7 DEF PolicyInv

LEMMA ApplyPatchKeepsInv ==
    ASSUME PolicyInv, NEW x, ApplyPatch(x)
    PROVE  PolicyInv'
<1>1. /\ verdict = "patch" /\ missing = {} /\ x \in patches /\ Apply(x.path, x.value)
      /\ patches' = patches \ {x} /\ missing' = missing
  BY DEF ApplyPatch
<1>2. ToApply
  BY DEF PolicyInv
<1>3. PICK k \in Keys : x = MakeLabelPatch(k)
  BY <1>1, <1>2 DEF ToApply
<1>4. x.path = LabelPath(k) /\ x.value = Wanted[k]
  BY <1>3 DEF MakeLabelPatch
<1>5. Makes(pod, x.path, x.value)
  BY <1>4 DEF Makes
<1>6. Applies(pod, x.path)
  <2>1. Parents(LabelPath(k)) \subseteq DOMAIN pod
    BY <1>1, <1>2, LabelPaths DEF ToApply
  <2>2. \A q \in Parents(LabelPath(k)) : q \in DOMAIN pod => pod[q] = Obj
    BY <1>1 DEF PolicyInv, TypeOK, WellFormed, Keys
  <2> QED
    BY <1>4, <2>1, <2>2 DEF Applies
<1>7. /\ TypeOK' /\ PatchesApply' /\ NothingLost' /\ LabelledForGood' /\ Reviewed'
      /\ verdict' = "patch" /\ IsWith(pod', pod, x.path, x.value)
  BY <1>1, <1>5, <1>6, PatchKeepsInv
<1>8. /\ DOMAIN pod' = DOMAIN pod \cup {LabelPath(k)} /\ pod'[LabelPath(k)] = Wanted[k]
      /\ \A q \in DOMAIN pod \ {LabelPath(k)} : pod'[q] = pod[q]
  BY <1>4, <1>7 DEF IsWith
<1>9. ToApply'
  <2>1. \A l \in Keys : HasLabelValue(pod', l, Wanted[l]) \/ MakeLabelPatch(l) \in patches'
    <3>1. SUFFICES ASSUME NEW l \in Keys
                   PROVE  HasLabelValue(pod', l, Wanted[l]) \/ MakeLabelPatch(l) \in patches'
      OBVIOUS
    <3>2. CASE l = k
      BY <1>8, <3>2 DEF HasLabelValue
    <3>3. CASE l # k
      <4>1. LabelPath(l) # LabelPath(k)
        BY <3>3, LabelPaths
      <4>2. MakeLabelPatch(l) # x
        BY <1>4, <4>1 DEF MakeLabelPatch
      <4>3. HasLabelValue(pod, l, Wanted[l]) \/ MakeLabelPatch(l) \in patches
        BY <1>1, <1>2 DEF ToApply
      <4> QED
        BY <1>1, <1>8, <4>1, <4>2, <4>3 DEF HasLabelValue
    <3> QED
      BY <3>2, <3>3
  <2> QED
    BY <1>1, <1>2, <1>8, <2>1 DEF ToApply
<1> QED
  BY <1>7, <1>9 DEF PolicyInv

LEMMA PolicyInvInductive == PolicyInv /\ [Next]_vars => PolicyInv'
<1> SUFFICES ASSUME PolicyInv, [Next]_vars
             PROVE  PolicyInv'
  OBVIOUS
<1> USE DEF PolicyInv, TypeOK, PatchesApply, NothingLost, LabelledForGood, ToApply, Reviewed
<1>1. CASE \E policy \in Policies : Load(policy)
  BY <1>1 DEF Load
<1>2. CASE Restart
  BY <1>2 DEF Restart
<1>3. ASSUME NEW p \in Pods \cup (IF verdict = "admitted" THEN {pod} ELSE {}), Submit(p)
      PROVE  PolicyInv'
  <2>1. WellFormed(p)
    BY PodsAssumption
  <2> QED
    BY <1>3, <2>1 DEF Submit
<1>4. CASE Respond
  BY <1>4, RespondKeepsInv
<1>5. CASE Admit
  <2>1. \A k \in Keys : HasLabelValue(pod, k, Wanted[k])
    BY <1>5 DEF Admit
  <2> QED
    BY <1>5, <2>1 DEF Admit, Keys, HasLabelValue
<1>6. CASE \E path \in missing : MakePath(path)
  BY <1>6, MakePathKeepsInv
<1>7. CASE \E x \in patches : ApplyPatch(x)
  BY <1>7, ApplyPatchKeepsInv
<1>8. CASE UNCHANGED vars
  BY <1>8 DEF vars
<1> QED
  BY <1>1, <1>2, <1>3, <1>4, <1>5, <1>6, <1>7, <1>8 DEF Next

LEMMA PolicyInvariant == Spec => []PolicyInv
<1>1. Init => PolicyInv
  BY DEF Init, PolicyInv, TypeOK, PatchesApply, NothingLost, LabelledForGood, ToApply, Reviewed
<1> QED
  BY <1>1, PolicyInvInductive, PTL DEF Spec

-----------------------------------------------------------------------------
(* The theorems.                                                            *)

\* Pods stay well-formed through every sequence of reviews, patches and updates,
\* whatever policies come and go.
THEOREM TypeCorrect == Spec => []TypeOK
BY PolicyInvariant, PTL DEF PolicyInv

\* The patches that ensureParentPathsExist returns apply one after the other to
\* every well-formed pod.
THEOREM ResponsesApply == Spec => []PatchesApply
BY PolicyInvariant, PTL DEF PolicyInv

\* They lose nothing of it but the labels they are to set.
THEOREM PatchesKeepThePod == Spec => []NothingLost
BY PolicyInvariant, PTL DEF PolicyInv

\* A pod the label rules admit has the labels of 200-mutating-pod-labels.yaml.
THEOREM AdmittedIsLabelled == Spec => []LabelledForGood
BY PolicyInvariant, PTL DEF PolicyInv
=============================================================================
