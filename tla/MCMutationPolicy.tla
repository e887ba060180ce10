-------------------------- MODULE MCMutationPolicy --------------------------
EXTENDS MutationPolicy, TLC

Labels == <<"metadata", "labels">>

SomeNames == {"metadata", "labels", "billing", "env", "owner", "app", "spec", "image"}

\* A pod with this image and these labels.
Pod(image, labels) ==
    [q \in {<<"spec">>, <<"spec", "image">>, <<"metadata">>, Labels} |->
       IF q = <<"spec", "image">> THEN image ELSE Obj]
    @@ [q \in {LabelPath(k) : k \in DOMAIN labels} |-> labels[q[3]]]

\* A pod without labels, or without metadata at all.
Without(p, path) == [q \in {r \in DOMAIN p : path \notin Parents(r) \cup {r}} |-> p[q]]

SomeLabels == {[k \in keys |-> IF k = "env" THEN env ELSE "jimmy"] :
                 keys \in SUBSET {"app", "env", "owner"}, env \in {"dev", "prod"}}

\* An image that is fine, and one for each message and for two that do not join.
SomeObjections ==
    {[value |-> "unlisted", message |-> "text"], [value |-> "unnamed", message |-> "empty"],
     [value |-> "untold", message |-> "text"], [value |-> "untold", message |-> "other"]}
Images == {"listed"} \cup {o.value : o \in SomeObjections}

SomePods ==
    LET labelled == {Pod(i, l) : i \in Images, l \in SomeLabels}
    IN  labelled \cup {Without(p, Labels) : p \in labelled}
                 \cup {Without(p, <<"metadata">>) : p \in labelled}
=============================================================================
