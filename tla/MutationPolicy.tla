---------------------------- MODULE MutationPolicy ----------------------------
(***************************************************************************)
(* The mutating admission policy of ch5-opa-k8s/policy-configmaps/mutate:  *)
(* the library of 0-main-both.yaml, the label rules of                     *)
(* 200-mutating-pod-labels.yaml and whatever deny rules share its package, *)
(* which kube-mgmt loads into OPA one ConfigMap after the other, while     *)
(* pods are created and updated.  A pod is a JSON tree: a function from    *)
(* the paths below its root to values.                                     *)
(***************************************************************************)
EXTENDS Naturals, Sequences

CONSTANTS
    Names,          \* names of the members of JSON objects
    Pods,           \* pods that are submitted
    Objections,     \* of the deny rules: a value in a pod, and what the message is
    None            \* no pod yet

Obj == "{}"         \* the value of an object; any other is a leaf

Policies == {"main", "labels", "deny"}

\* A message that says something, an empty string, no string at all.
Messages == {"text", "empty", "other"}

VARIABLES
    loaded,         \* the policies OPA has
    submitted,      \* the pod as it was submitted
    pod,            \* the pod under review, then as it was admitted
    missing,        \* fullPatches not yet applied: the paths to be made first ...
    patches,        \* ... and the patches proper
    verdict,        \* what became of the pod
    seen            \* history: the policies it was reviewed by

vars == <<loaded, submitted, pod, missing, patches, verdict, seen>>

Init ==
    /\ loaded = {} /\ submitted = None /\ pod = None
    /\ missing = {} /\ patches = {} /\ verdict = "none" /\ seen = {}

-----------------------------------------------------------------------------
(* The label rules.                                                         *)

Wanted == [billing |-> "lob-cc", env |-> "dev", owner |-> "jimmy"]

ASSUME NamesAssumption == {"metadata", "labels"} \cup DOMAIN Wanted \subseteq Names

LabelPath(key) == <<"metadata", "labels", key>>

\* Mutant of HasLabelValue: the label is there, whatever its value.
HasLabel(p, key, value) == LabelPath(key) \in DOMAIN p

HasLabelValue(p, key, value) ==
    LabelPath(key) \in DOMAIN p /\ p[LabelPath(key)] = value

\* Mutant of MakeLabelPatch: the patch has an object for a value.
MakeEmptyPatch(key) == [path |-> LabelPath(key), value |-> Obj]

MakeLabelPatch(key) == [path |-> LabelPath(key), value |-> Wanted[key]]

\* What the deny rules among these policies say of a pod.  The library itself has
\* none that holds of one.
Deny(p, policies) ==
    {m \in Messages : \E q \in DOMAIN p :
       "deny" \in policies /\ [value |-> p[q], message |-> m] \in Objections}

\* The messages joined are a string, and not the empty one.
HasReason(messages) == "text" \in messages /\ "other" \notin messages

IsValidRequest(p) == Deny(p, loaded) = {}

\* The webhook is called for the creation and the update of pods, which is what
\* the rules ask for besides.
Patch(p) ==
    IF "labels" \in loaded /\ IsValidRequest(p)
    THEN {MakeLabelPatch(k) : k \in {l \in DOMAIN Wanted : ~HasLabelValue(p, l, Wanted[l])}}
    ELSE {}

-----------------------------------------------------------------------------
(* ensureParentPathsExist, and JSON patches.                                *)

Parents(path) == {SubSeq(path, 1, i) : i \in 1..Len(path) - 1}

\* Mutant of MissingPaths: every parent is made, there or not.
AllParentPaths(p, new) == UNION {Parents(x.path) : x \in new}

MissingPaths(p, new) == (UNION {Parents(x.path) : x \in new}) \ DOMAIN p

\* Mutant of Foremost: the missing paths are left in no order.
Unordered(path, paths) == TRUE

\* The missing paths are sorted, so that a parent precedes what is below it.
Foremost(path, paths) == \A q \in paths : Len(path) <= Len(q)

\* The operation "add" walks down to the parent, through objects ...
Applies(p, path) == \A q \in Parents(path) : q \in DOMAIN p /\ p[q] = Obj

\* ... and replaces what is at the path with all that is below it.
Add(p, path, value) ==
    [q \in {r \in DOMAIN p : path \notin Parents(r)} \cup {path} |->
       IF q = path THEN value ELSE p[q]]

-----------------------------------------------------------------------------
\* kube-mgmt loads a ConfigMap; OPA takes the label rules only after the library
\* they call.
Load(policy) ==
    /\ policy \notin loaded
    /\ policy = "labels" => "main" \in loaded
    /\ loaded' = loaded \cup {policy}
    /\ UNCHANGED <<submitted, pod, missing, patches, verdict, seen>>

\* OPA starts anew, with no policy.
Restart ==
    /\ loaded # {} /\ loaded' = {}
    /\ UNCHANGED <<submitted, pod, missing, patches, verdict, seen>>

\* A pod is created, or one that was admitted is updated.
Submit(p) ==
    /\ verdict \notin {"review", "patch"} /\ verdict' = "review"
    /\ submitted' = p /\ pod' = p /\ seen' = {} /\ missing' = {} /\ patches' = {}
    /\ UNCHANGED loaded

\* The response of main: no answer without the library, which refuses the pod; no
\* patches and a reason, which denies it; patches; or by default "allowed", also
\* when there are messages of which no reason can be made.
Respond ==
    /\ verdict = "review" /\ seen' = loaded
    /\ verdict' = CASE "main" \notin loaded -> "noanswer"
                    [] "main" \in loaded /\ Patch(pod) # {} -> "patch"
                    [] "main" \in loaded /\ Patch(pod) = {} ->
                         IF HasReason(Deny(pod, loaded)) THEN "denied" ELSE "admitted"
    /\ patches' = IF verdict' = "patch" THEN Patch(pod) ELSE {}
    /\ missing' = MissingPaths(pod, patches')
    /\ UNCHANGED <<loaded, submitted, pod>>

\* The API server applies one patch; when it cannot, the pod is refused.
Apply(path, value) ==
    /\ pod' = IF Applies(pod, path) THEN Add(pod, path, value) ELSE pod
    /\ verdict' = IF Applies(pod, path) THEN verdict ELSE "failed"
    /\ UNCHANGED <<loaded, submitted, seen>>

MakePath(path) ==
    /\ verdict = "patch" /\ path \in missing /\ Foremost(path, missing)
    /\ Apply(path, Obj)
    /\ missing' = missing \ {path} /\ UNCHANGED patches

ApplyPatch(x) ==
    /\ verdict = "patch" /\ missing = {} /\ x \in patches
    /\ Apply(x.path, x.value)
    /\ patches' = patches \ {x} /\ UNCHANGED missing

Admit ==
    /\ verdict = "patch" /\ missing = {} /\ patches = {}
    /\ verdict' = "admitted"
    /\ UNCHANGED <<loaded, submitted, pod, missing, patches, seen>>

Next ==
    \/ \E policy \in Policies : Load(policy)
    \/ Restart
    \/ \E p \in Pods \cup (IF verdict = "admitted" THEN {pod} ELSE {}) : Submit(p)
    \/ Respond \/ Admit
    \/ \E path \in missing : MakePath(path)
    \/ \E x \in patches : ApplyPatch(x)

Spec == Init /\ [][Next]_vars

-----------------------------------------------------------------------------
(* Properties.                                                              *)

\* The parents of every path are objects of the pod, and its labels are strings,
\* as the API server has it of every pod it sends for review.
WellFormed(p) ==
    /\ \A q \in DOMAIN p : q \in Seq(Names) \ {<<>>} /\ Applies(p, q)
    /\ \A k \in DOMAIN Wanted :
         /\ LabelPath(k) \in DOMAIN p => p[LabelPath(k)] # Obj
         /\ \A q \in Parents(LabelPath(k)) : q \in DOMAIN p => p[q] = Obj

ASSUME PodsAssumption == \A p \in Pods : WellFormed(p)

\* Pods stay well-formed, also between the patches.
TypeOK ==
    /\ loaded \subseteq Policies /\ seen \subseteq Policies
    /\ verdict \in {"none", "review", "noanswer", "denied", "patch", "failed", "admitted"}
    /\ verdict # "none" => WellFormed(pod)

\* The patches of a response apply one after the other to any pod: each finds its
\* parent, there before or made by a patch ahead of it.
PatchesApply == verdict # "failed"

\* Labelling a pod loses nothing, at no moment: neither the labels of others nor
\* anything that is next to a path the patches had to make.
NothingLost ==
    verdict # "none" =>
      \A q \in DOMAIN submitted \ {LabelPath(k) : k \in DOMAIN Wanted} :
        q \in DOMAIN pod /\ pod[q] = submitted[q]

\* A pod that is admitted by the label rules has the wanted labels, whatever it
\* had there and whatever was said of it, as long as that makes a reason: when it
\* is submitted again there is nothing left to patch.
LabelledForGood ==
    /\ verdict = "admitted" /\ "labels" \in seen
    /\ Deny(submitted, seen) = {} \/ HasReason(Deny(submitted, seen))
    => \A k \in DOMAIN Wanted : LabelPath(k) \in DOMAIN pod /\ pod[LabelPath(k)] = Wanted[k]
=============================================================================
