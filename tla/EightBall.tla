------------------------------ MODULE EightBall ------------------------------
(***************************************************************************)
(* Gatekeeper asking the magic 8-ball provider about the images of a pod   *)
(* (ch7-gatekeeper-k8s/examples/external-data-provider: 8-ball/pkg/model/  *)
(* handlers.go Provide, and the constraint templates under test/).         *)
(*                                                                         *)
(* Each review makes one call; the handler of the call is a goroutine of   *)
(* its own, which goes on when the caller has stopped waiting for it and   *)
(* is lost when the provider stops.  The provider reads its answers when   *)
(* it starts.                                                              *)
(***************************************************************************)
EXTENDS Naturals, Sequences

CONSTANTS
    Reviews,        \* admission reviews; that of a pod tried again is another
    Pods,           \* pods, each the set of its containers' images
    Answers,        \* the answers that may be configured
    Files,          \* the answers of each config file it may find, None for a bad one
    KeysFrom,       \* the field of the object the template takes images from
    None            \* no review yet, no answer drawn, no verdict, no file

Codes  == {"Y", "M", "N", ""}
Answer == [answer: STRING, code: Codes]

ASSUME AnswersAssumption ==
    Answers \subseteq Answer /\ Files \subseteq (SUBSET Answers) \cup {None}
ASSUME KeysFromAssumption ==
    KeysFrom \in {"spec.containers", "spec.template.spec.containers"}

VARIABLES
    call,           \* the call made for each review, as its handler sees it
    review,         \* what Gatekeeper makes of it
    provider,       \* whether the process is there, and whether it listens
    ac              \* AC.Answers, the answers it has loaded

vars == <<call, review, provider, ac>>

\* The handler: where it is, the keys it has parsed, its err, the answer
\* drawn, and what the ResponseWriter has: a status, which only the first
\* WriteHeader sets, and a body, each write appending.
Keys  == SUBSET UNION Pods
Texts == Seq({"struct", "json"})

Call == [at: {"body", "parse", "draw", "items", "sent", "aborted"},
         sent: Keys, keys: Keys, err: {"nil", "error"}, answer: Answers \cup {None},
         status: {0, 200, 500}, body: Texts]

Review == [pod: Pods, verdict: {None, "admit", "deny"}, waits: BOOLEAN]

ASSUME NoneAssumption == None \notin Answers \cup Call \cup Review \cup {"admit", "deny"}

TypeOK ==
    /\ call \in [Reviews -> Call \cup {None}]
    /\ review \in [Reviews -> Review \cup {None}]
    /\ provider \in {"off", "up", "deaf"} /\ ac \subseteq Answers

Init ==
    /\ call = [r \in Reviews |-> None] /\ review = [r \in Reviews |-> None]
    /\ provider = "off" /\ ac = {}

-----------------------------------------------------------------------------
(* The life of the provider.                                                *)

\* A file that is missing, cannot be read or does not parse is an error.
LoadConfig(file) == file # None

\* main panics when its file gives an error.  When it cannot listen, for want of
\* its TLS files or its port, that is only printed.
Start ==
    /\ provider = "off" /\ provider' \in {"up", "deaf"}
    /\ \E file \in Files : LoadConfig(file) /\ ac' = file
    /\ UNCHANGED <<call, review>>

\* A signal, a kill, or a failed probe: no handler is waited for.
Running(r) == call[r] # None /\ call[r].at \in {"body", "parse", "draw", "items"}

Stop ==
    /\ provider # "off" /\ provider' = "off" /\ ac' = {}
    /\ call' = [r \in Reviews |->
                  IF Running(r) THEN [call[r] EXCEPT !.at = "aborted"] ELSE call[r]]
    /\ UNCHANGED review

-----------------------------------------------------------------------------
(* Gatekeeper's side.                                                       *)

\* The keys of the request.  The object under review is a pod: it has its
\* containers under spec, and no spec.template.
KeysOf(pod) == IF KeysFrom = "spec.containers" THEN pod ELSE {}

\* Where nobody listens the connection is refused.
Ask(r, pod) ==
    /\ review[r] = None
    /\ UNCHANGED <<provider, ac>>
    /\ review' = [review EXCEPT ![r] = [pod |-> pod, verdict |-> None, waits |-> TRUE]]
    /\ call' = [call EXCEPT ![r] =
                  [at |-> IF provider = "up" THEN "body" ELSE "aborted",
                   sent |-> KeysOf(pod), keys |-> {}, err |-> "nil", answer |-> None, status |-> 0, body |-> <<>>]]

Decide(r, verdict) ==
    /\ review[r] # None /\ review[r].waits
    /\ review' = [review EXCEPT ![r].verdict = verdict, ![r].waits = FALSE]
    /\ UNCHANGED <<call, provider, ac>>

\* The items of the response that carry an error.
Denied(c) == {k \in c.keys : c.answer.code # "Y"}

\* The response has come: a status other than 200 is a system error, and the
\* template finds a violation in that or in an item with "DENIED".
Evaluate(r) ==
    /\ call[r] # None /\ call[r].at = "sent"
    /\ Decide(r, IF call[r].status = 200 /\ Denied(call[r]) = {} THEN "admit" ELSE "deny")

\* The timeout of the Provider has passed, or the connection was closed without
\* a response: a system error.
NoResponse(r) == Decide(r, "deny")

-----------------------------------------------------------------------------
(* Provide.                                                                 *)

At(r, stage) == call[r] # None /\ call[r].at = stage

Step(r, c) == call' = [call EXCEPT ![r] = c] /\ UNCHANGED <<review, provider, ac>>

Header(c, status) == IF c.status = 0 THEN status ELSE c.status

\* What an error writes: 500 and the response struct, as Go prints it.  There
\* is no return: the handler goes on.
Complain(c) ==
    [c EXCEPT !.status = Header(c, 500), !.body = Append(c.body, "struct")]

ReadBody(r) ==
    /\ At(r, "body")
    /\ \/ Step(r, [call[r] EXCEPT !.at = "parse", !.err = "nil"])
       \/ Step(r, [Complain(call[r]) EXCEPT !.at = "parse", !.err = "error"])

\* Mutant of Unmarshal: the failure is only printed.
UnmarshalPrinted(r) ==
    /\ At(r, "parse")
    /\ \/ Step(r, [call[r] EXCEPT !.at = "draw", !.keys = call[r].sent, !.err = "nil"])
       \/ Step(r, [call[r] EXCEPT !.at = "draw", !.err = "error"])

\* Mutant of Unmarshal: the failure is answered with 400.
UnmarshalBadRequest(r) ==
    /\ At(r, "parse")
    /\ \/ Step(r, [call[r] EXCEPT !.at = "draw", !.keys = call[r].sent, !.err = "nil"])
       \/ Step(r, [call[r] EXCEPT !.at = "draw", !.err = "error", !.status = 400,
                                  !.body = Append(@, "struct")])

\* What was read of the body before an error may parse, and err is nil again; a
\* body that was read to its end may not parse.
Unmarshal(r) ==
    /\ At(r, "parse")
    /\ \/ Step(r, [call[r] EXCEPT !.at = "draw", !.keys = call[r].sent, !.err = "nil"])
       \/ Step(r, [Complain(call[r]) EXCEPT !.at = "draw", !.err = "error"])

Blank(a) == a.answer = "" \/ a.code = ""

\* One answer is drawn for all the keys.  A blank one is reported with the text
\* of err, and the handler panics when there is none; net/http recovers it and
\* closes the connection.  So it does when there are no answers to draw from.
DrawAnswer(r) ==
    /\ At(r, "draw")
    /\ \/ ac = {} /\ Step(r, [call[r] EXCEPT !.at = "aborted"])
       \/ \E a \in ac :
            LET c == [call[r] EXCEPT !.answer = a]
            IN  \/ ~Blank(a) /\ Step(r, [c EXCEPT !.at = "items"])
                \/ Blank(a) /\ c.err = "error" /\ Step(r, [Complain(c) EXCEPT !.at = "items"])
                \/ Blank(a) /\ c.err = "nil" /\ Step(r, [c EXCEPT !.at = "aborted"])

\* Mutant of Respond: the status of the last WriteHeader counts.
RespondOK(r) ==
    /\ At(r, "items")
    /\ Step(r, [call[r] EXCEPT !.at = "sent", !.status = 200,
                               !.body = Append(call[r].body, "json")])

\* The items are made and the response goes out, with what was written before.
Respond(r) ==
    /\ At(r, "items")
    /\ Step(r, [call[r] EXCEPT !.at = "sent", !.status = Header(call[r], 200),
                               !.body = Append(call[r].body, "json")])

Next ==
    \/ Start \/ Stop
    \/ \E r \in Reviews :
         \/ \E pod \in Pods : Ask(r, pod)
         \/ Evaluate(r) \/ NoResponse(r)
         \/ ReadBody(r) \/ Unmarshal(r) \/ DrawAnswer(r) \/ Respond(r)

Spec == Init /\ [][Next]_vars

-----------------------------------------------------------------------------
(* Properties.                                                              *)

\* Whatever fails on the way, and although errors do not end the handler, a pod
\* is admitted only when a "Y" was drawn for each of its images in answer to its
\* very review.
AdmittedOnYes ==
    \A r \in Reviews :
      review[r] # None /\ review[r].verdict = "admit"
        => /\ review[r].pod = call[r].keys
           /\ call[r].answer # None /\ call[r].answer.code = "Y"

\* A response that says 200 is one JSON document: what the error paths print in
\* front of it never comes with that status.
OkIsOneDocument ==
    \A r \in Reviews :
      At(r, "sent") /\ call[r].status = 200 => call[r].body = <<"json">>

\* "build a list of keys containing images" (test/0-ct.yaml:20): the keys of a
\* review's call contain the images of its pod.
KeysContainImages ==
    \A r \in Reviews : call[r] # None => review[r].pod \subseteq call[r].sent

\* The response says "Idempotent: true" (handlers.go:51): two responses to the
\* same keys say the same.
Idempotent ==
    \A r, q \in Reviews :
      /\ At(r, "sent") /\ call[r].status = 200
      /\ At(q, "sent") /\ call[q].status = 200
      /\ call[r].keys = call[q].keys /\ call[r].keys # {}
      => call[r].answer = call[q].answer
=============================================================================
