--------------------------- MODULE EightBallProofs ---------------------------
(***************************************************************************)
(* Proofs about EightBall.  The invariant speaks of each review with its   *)
(* call alone: Sound(c, v).                                                *)
(***************************************************************************)
EXTENDS EightBall, TLAPS

\* What the keys of a call are worth depends on where its handler is: as long as
\* no status is set nothing has failed, so nothing is written, and from "draw" on
\* the keys are those sent.  A status of 200 is only ever set by Respond.
SoundCall(c, v) ==
    /\ c.sent = KeysOf(v.pod)
    /\ c.status = 0 => c.at # "sent" /\ c.body = <<>>
    /\ c.status = 0 /\ c.at \in {"draw", "items"} => c.keys = c.sent
    /\ c.at = "items" => c.answer \in Answers
    /\ c.status = 200 => /\ c.at = "sent" /\ c.keys = c.sent
                         /\ c.answer \in Answers /\ c.body = <<"json">>
    /\ v.verdict = "admit" => c.at = "sent" /\ c.status = 200 /\ Denied(c) = {}

Sound(c, v) == (c = None <=> v = None) /\ (c # None => SoundCall(c, v))

IInv == TypeOK /\ \A r \in Reviews : Sound(call[r], review[r])

-----------------------------------------------------------------------------

\* A call, once made, is a record; so is its review.
LEMMA Records ==
    ASSUME IInv, NEW r \in Reviews, call[r] # None
    PROVE  call[r] \in Call /\ review[r] \in Review /\ SoundCall(call[r], review[r])
  BY DEF IInv, TypeOK, Sound

\* What a step of a handler leaves has to be shown of its own call only.
LEMMA StepKeeps ==
    ASSUME IInv, NEW r \in Reviews, NEW c, Step(r, c),
           call[r] # None, c \in Call, SoundCall(c, review[r])
    PROVE  IInv'
  <1>1. /\ review' = review /\ call' = [call EXCEPT ![r] = c]
        /\ provider' = provider /\ ac' = ac
    BY DEF Step
  <1>2. TypeOK'
    BY <1>1 DEF IInv, TypeOK
  <1>3. ASSUME NEW q \in Reviews PROVE Sound(call'[q], review'[q])
    <2>1. CASE q = r
      <3>1. call'[q] = c /\ review'[q] = review[r]
        BY <1>1, <2>1 DEF IInv, TypeOK
      <3>2. c # None /\ review[r] # None
        BY NoneAssumption DEF IInv, Sound
      <3> QED  BY <3>1, <3>2 DEF Sound
    <2>2. CASE q # r
      BY <1>1, <2>2 DEF IInv, TypeOK
    <2> QED  BY <2>1, <2>2
  <1> QED  BY <1>2, <1>3 DEF IInv

\* So it is of a decision.
LEMMA DecideKeeps ==
    ASSUME IInv, NEW r \in Reviews, NEW verdict \in {"admit", "deny"},
           Decide(r, verdict), call[r] # None,
           verdict = "admit" =>
             call[r].at = "sent" /\ call[r].status = 200 /\ Denied(call[r]) = {}
    PROVE  IInv'
  <1> DEFINE v == [review[r] EXCEPT !.verdict = verdict, !.waits = FALSE]
  <1>0. call[r] \in Call /\ review[r] \in Review /\ SoundCall(call[r], review[r])
    BY Records
  <1>1. v \in Review /\ v.pod = review[r].pod /\ v.verdict = verdict
    BY <1>0 DEF Review
  <1>2. /\ call' = call /\ review' = [review EXCEPT ![r] = v]
        /\ provider' = provider /\ ac' = ac
    BY <1>0 DEF Decide, Review
  <1>3. TypeOK'
    BY <1>1, <1>2 DEF IInv, TypeOK
  <1>4. SoundCall(call[r], v)
    BY <1>0, <1>1 DEF SoundCall
  <1>5. ASSUME NEW q \in Reviews PROVE Sound(call'[q], review'[q])
    <2>1. CASE q = r
      <3>1. call'[q] = call[r] /\ review'[q] = v
        BY <1>2, <2>1 DEF IInv, TypeOK
      <3>2. v # None
        BY <1>1, NoneAssumption
      <3> QED  BY <1>4, <3>1, <3>2 DEF Sound
    <2>2. CASE q # r
      BY <1>2, <2>2 DEF IInv, TypeOK
    <2> QED  BY <2>1, <2>2
  <1> QED  BY <1>3, <1>5 DEF IInv

\* A call whose ResponseWriter has come to s and b, and nothing else has changed.
Wrote(c, s, b) == [c EXCEPT !.status = s, !.body = b]

LEMMA Writing ==
    ASSUME NEW c \in Call, NEW s \in {0, 200, 500}, NEW b \in Texts
    PROVE  LET d == Wrote(c, s, b)
           IN  /\ d \in Call /\ d.status = s /\ d.body = b
               /\ d.sent = c.sent /\ d.at = c.at /\ d.answer = c.answer
               /\ d.keys = c.keys /\ d.err = c.err
  <1> DEFINE d == [c EXCEPT !.status = s, !.body = b]
  <1>1. d \in Call
    BY DEF Call
  <1>2. d.status = s /\ d.body = b
    BY DEF Call
  <1>3. d.sent = c.sent /\ d.at = c.at
    BY DEF Call
  <1>4. d.answer = c.answer
    BY DEF Call
  <1>5. d.keys = c.keys /\ d.err = c.err
    BY DEF Call
  <1> QED  BY <1>1, <1>2, <1>3, <1>4, <1>5 DEF Wrote

\* What an error writes leaves a call sound wherever it goes on, if it had not
\* gone out before.
LEMMA ComplainKeeps ==
    ASSUME NEW c \in Call, NEW v, SoundCall(c, v), c.at # "sent"
    PROVE  /\ Complain(c) \in Call
           /\ Complain(c).status = 500
           /\ Complain(c).sent = c.sent /\ Complain(c).at = c.at
           /\ Complain(c).answer = c.answer /\ Complain(c).keys = c.keys
           /\ Complain(c).err = c.err /\ SoundCall(Complain(c), v)
  <1> DEFINE b == Append(c.body, "struct")
  <1>1. c.status \in {0, 500}
    BY DEF Call, SoundCall
  <1>2. b \in Texts
    <2>1. c.body \in Texts
      BY DEF Call
    <2> QED  BY <2>1 DEF Texts
  <1>3. Complain(c) = Wrote(c, 500, b)
    BY <1>1 DEF Complain, Header, Wrote
  <1> HIDE DEF b
  <1>4. /\ Complain(c) \in Call
        /\ Complain(c).status = 500
        /\ Complain(c).sent = c.sent /\ Complain(c).at = c.at
        /\ Complain(c).answer = c.answer /\ Complain(c).keys = c.keys
        /\ Complain(c).err = c.err
    BY <1>2, <1>3, Writing
  <1>5. v.verdict # "admit"
    BY DEF SoundCall
  <1> QED  BY <1>4, <1>5 DEF SoundCall

-----------------------------------------------------------------------------

LEMMA InitInv == Init => IInv
  BY DEF Init, IInv, TypeOK, Sound

LEMMA StartKeeps ==
    ASSUME IInv, Start
    PROVE  IInv'
  <1>1. ac' \subseteq Answers /\ provider' \in {"off", "up", "deaf"}
    BY AnswersAssumption DEF Start, LoadConfig
  <1>2. call' = call /\ review' = review
    BY DEF Start
  <1> QED  BY <1>1, <1>2 DEF IInv, TypeOK

\* A call that is cut has not gone out, so it was not the ground of an admission.
LEMMA CutKeeps ==
    ASSUME NEW c \in Call, NEW v, SoundCall(c, v), c.at # "sent"
    PROVE  LET d == [c EXCEPT !.at = "aborted"] IN d \in Call /\ SoundCall(d, v)
  <1> DEFINE d == [c EXCEPT !.at = "aborted"]
  <1>1. d \in Call
    BY DEF Call
  <1>2. d.at = "aborted" /\ d.sent = c.sent /\ d.keys = c.keys
    BY DEF Call
  <1>3. d.status = c.status /\ d.body = c.body /\ d.answer = c.answer
    BY DEF Call
  <1> HIDE DEF d
  <1>4. SoundCall(d, v)
    BY <1>2, <1>3 DEF SoundCall
  <1> QED  BY <1>1, <1>4 DEF d

LEMMA StopKeeps ==
    ASSUME IInv, Stop
    PROVE  IInv'
  <1> DEFINE d(r) == IF Running(r) THEN [call[r] EXCEPT !.at = "aborted"] ELSE call[r]
  <1>1. /\ call' = [r \in Reviews |-> d(r)] /\ review' = review
        /\ provider' = "off" /\ ac' = {}
    BY DEF Stop
  <1>2. ASSUME NEW r \in Reviews
        PROVE  d(r) \in Call \cup {None} /\ Sound(d(r), review[r])
    <2>1. CASE Running(r)
      <3>1. call[r] \in Call /\ review[r] \in Review /\ SoundCall(call[r], review[r])
            /\ call[r].at # "sent"
        BY <2>1, Records DEF Running
      <3>2. d(r) \in Call /\ SoundCall(d(r), review[r])
        BY <2>1, <3>1, CutKeeps
      <3> HIDE DEF d
      <3>3. d(r) # None /\ review[r] # None
        BY <3>1, <3>2, NoneAssumption
      <3> QED  BY <3>2, <3>3 DEF Sound
    <2>2. CASE ~Running(r)
      BY <2>2 DEF IInv, TypeOK
    <2> QED  BY <2>1, <2>2
  <1> HIDE DEF d
  <1>3. \A r \in Reviews : call'[r] = d(r)
    BY <1>1
  <1>4. TypeOK'
    BY <1>1, <1>2 DEF IInv, TypeOK
  <1> QED  BY <1>1, <1>2, <1>3, <1>4 DEF IInv

LEMMA AskKeeps ==
    ASSUME IInv, NEW r \in Reviews, NEW pod \in Pods, Ask(r, pod)
    PROVE  IInv'
  <1> DEFINE at == IF provider = "up" THEN "body" ELSE "aborted"
             c == [at |-> at, sent |-> KeysOf(pod), keys |-> {}, err |-> "nil",
                   answer |-> None, status |-> 0, body |-> <<>>]
             v == [pod |-> pod, verdict |-> None, waits |-> TRUE]
  <1>1. /\ review' = [review EXCEPT ![r] = v] /\ call' = [call EXCEPT ![r] = c]
        /\ provider' = provider /\ ac' = ac
    BY DEF Ask
  <1>0. at \in {"body", "aborted"}
    OBVIOUS
  <1> HIDE DEF at
  <1>2. c \in Call
    <2>1. KeysOf(pod) \in Keys /\ {} \in Keys
      BY DEF KeysOf, Keys
    <2>2. <<>> \in Texts
      BY DEF Texts
    <2> QED  BY <1>0, <2>1, <2>2 DEF Call
  <1>3. v \in Review
    BY DEF Review
  <1>4. SoundCall(c, v)
    BY <1>0, NoneAssumption DEF SoundCall
  <1> HIDE DEF c, v
  <1>5. TypeOK'
    BY <1>1, <1>2, <1>3 DEF IInv, TypeOK
  <1>6. ASSUME NEW q \in Reviews PROVE Sound(call'[q], review'[q])
    <2>1. CASE q = r
      <3>1. call'[q] = c /\ review'[q] = v
        BY <1>1, <2>1 DEF IInv, TypeOK
      <3>2. c # None /\ v # None
        BY <1>2, <1>3, NoneAssumption
      <3> QED  BY <1>4, <3>1, <3>2 DEF Sound
    <2>2. CASE q # r
      BY <1>1, <2>2 DEF IInv, TypeOK
    <2> QED  BY <2>1, <2>2
  <1> QED  BY <1>5, <1>6 DEF IInv

\* A call that has come to another place with another err.
Moved(c, at, err) == [c EXCEPT !.at = at, !.err = err]

LEMMA Moving ==
    ASSUME NEW c \in Call, NEW at \in {"parse", "draw"}, NEW err \in {"nil", "error"}
    PROVE  LET d == Moved(c, at, err)
           IN  /\ d \in Call /\ d.at = at /\ d.err = err
               /\ d.sent = c.sent /\ d.answer = c.answer /\ d.keys = c.keys
               /\ d.status = c.status /\ d.body = c.body
  <1> DEFINE d == [c EXCEPT !.at = at, !.err = err]
  <1>1. d \in Call
    BY DEF Call
  <1>2. d.at = at /\ d.err = err
    BY DEF Call
  <1>3. d.sent = c.sent /\ d.answer = c.answer
    BY DEF Call
  <1>4. d.keys = c.keys
    BY DEF Call
  <1>5. d.status = c.status /\ d.body = c.body
    BY DEF Call
  <1> QED  BY <1>1, <1>2, <1>3, <1>4, <1>5 DEF Moved

\* Reading and parsing fail alike: the complaint, then the next place.
LEMMA ComplainAndMove ==
    ASSUME IInv, NEW r \in Reviews, NEW at \in {"parse", "draw"},
           call[r] # None, call[r].at \in {"body", "parse"},
           Step(r, Moved(Complain(call[r]), at, "error"))
    PROVE  IInv'
  <1> DEFINE c == call[r]
             v == review[r]
             d == Moved(Complain(c), at, "error")
  <1>1. c \in Call /\ v \in Review /\ SoundCall(c, v)
    BY Records
  <1>2. Complain(c) \in Call /\ Complain(c).status = 500 /\ SoundCall(Complain(c), v)
        /\ Complain(c).at = c.at
    BY <1>1, ComplainKeeps
  <1>3. d \in Call /\ d.status = 500 /\ d.at = at /\ d.sent = Complain(c).sent
    BY <1>2, Moving
  <1>4. SoundCall(d, v)
    BY <1>2, <1>3 DEF SoundCall
  <1> QED  BY <1>3, <1>4, StepKeeps

LEMMA ReadBodyKeeps ==
    ASSUME IInv, NEW r \in Reviews, ReadBody(r)
    PROVE  IInv'
  <1> DEFINE c == call[r]
             v == review[r]
             d == Moved(c, "parse", "nil")
  <1>1. c # None /\ c.at = "body"
    BY DEF ReadBody, At
  <1>2. c \in Call /\ v \in Review /\ SoundCall(c, v)
    BY <1>1, Records
  <1>3. CASE Step(r, d)
    <2>1. /\ d \in Call /\ d.at = "parse" /\ d.sent = c.sent
          /\ d.status = c.status /\ d.body = c.body
      BY <1>2, Moving
    <2>2. SoundCall(d, v)
      BY <1>1, <1>2, <2>1 DEF SoundCall
    <2> QED  BY <1>1, <1>3, <2>1, <2>2, StepKeeps
  <1>4. CASE Step(r, Moved(Complain(c), "parse", "error"))
    BY <1>1, <1>4, ComplainAndMove
  <1> QED  BY <1>3, <1>4 DEF ReadBody, Moved
\* A call that has parsed its keys.
LEMMA ParsedKeeps ==
    ASSUME IInv, NEW r \in Reviews, call[r] # None, call[r].at = "parse",
           Step(r, [call[r] EXCEPT !.at = "draw", !.keys = call[r].sent, !.err = "nil"])
    PROVE  IInv'
  <1> DEFINE c == call[r]
             v == review[r]
             d == [c EXCEPT !.at = "draw", !.keys = c.sent, !.err = "nil"]
  <1>1. c \in Call /\ v \in Review /\ SoundCall(c, v)
    BY Records
  <1>2. d \in Call
    BY <1>1 DEF Call
  <1>3. d.at = "draw" /\ d.sent = c.sent
    BY <1>1 DEF Call
  <1>4. d.keys = c.sent
    BY <1>1 DEF Call
  <1>5. d.status = c.status /\ d.body = c.body
    BY <1>1 DEF Call
  <1> HIDE DEF d
  <1>6. SoundCall(d, v)
    BY <1>1, <1>3, <1>4, <1>5 DEF SoundCall
  <1> QED  BY <1>2, <1>6, StepKeeps DEF d

LEMMA UnmarshalKeeps ==
    ASSUME IInv, NEW r \in Reviews, Unmarshal(r)
    PROVE  IInv'
  <1>1. call[r] # None /\ call[r].at = "parse"
    BY DEF Unmarshal, At
  <1>2. CASE Step(r, [call[r] EXCEPT !.at = "draw", !.keys = call[r].sent, !.err = "nil"])
    BY <1>1, <1>2, ParsedKeeps
  <1>3. CASE Step(r, Moved(Complain(call[r]), "draw", "error"))
    BY <1>1, <1>3, ComplainAndMove
  <1> QED  BY <1>2, <1>3 DEF Unmarshal, Moved

\* Going on from "draw", or stopping there, leaves a sound call sound when it
\* has drawn an answer.
LEMMA LeaveDraw ==
    ASSUME IInv, NEW r \in Reviews, call[r] # None, call[r].at = "draw",
           NEW c \in Call, SoundCall(c, review[r]), c.at = "draw",
           NEW at \in {"items", "aborted"}, at = "items" => c.answer \in Answers,
           Step(r, [c EXCEPT !.at = at])
    PROVE  IInv'
  <1> DEFINE v == review[r]
             d == [c EXCEPT !.at = at]
  <1>1. d \in Call
    BY DEF Call
  <1>2. d.at = at /\ d.sent = c.sent /\ d.keys = c.keys
    BY DEF Call
  <1>3. d.status = c.status /\ d.body = c.body /\ d.answer = c.answer
    BY DEF Call
  <1> HIDE DEF d
  <1>4. SoundCall(d, v)
    BY <1>2, <1>3 DEF SoundCall
  <1> QED  BY <1>1, <1>4, StepKeeps DEF d

LEMMA DrawAnswerKeeps ==
    ASSUME IInv, NEW r \in Reviews, DrawAnswer(r)
    PROVE  IInv'
  <1> DEFINE v == review[r]
  <1>1. call[r] # None /\ call[r].at = "draw"
    BY DEF DrawAnswer, At
  <1>2. call[r] \in Call /\ SoundCall(call[r], v)
    BY <1>1, Records
  <1>3. CASE ac = {}
    <2>1. Step(r, [call[r] EXCEPT !.at = "aborted"])
      BY <1>3 DEF DrawAnswer
    <2> QED  BY <1>1, <1>2, <2>1, LeaveDraw
  <1>4. CASE ac # {}
    <2>1. PICK a \in Answers :
            LET c == [call[r] EXCEPT !.answer = a]
            IN  \/ Step(r, [c EXCEPT !.at = "items"])
                \/ Step(r, [Complain(c) EXCEPT !.at = "items"])
                \/ Step(r, [c EXCEPT !.at = "aborted"])
      BY <1>4 DEF DrawAnswer, IInv, TypeOK
    <2> DEFINE c == [call[r] EXCEPT !.answer = a]
    <2>2. c \in Call
      BY <1>2 DEF Call
    <2>3. c.at = "draw" /\ c.sent = call[r].sent /\ c.keys = call[r].keys
      BY <1>1, <1>2 DEF Call
    <2>4. c.status = call[r].status /\ c.body = call[r].body /\ c.answer = a
      BY <1>2 DEF Call
    <2> HIDE DEF c
    <2>5. SoundCall(c, v)
      BY <1>1, <1>2, <2>3, <2>4 DEF SoundCall
    <2>6. CASE Step(r, [c EXCEPT !.at = "items"])
      BY <1>1, <2>2, <2>3, <2>4, <2>5, <2>6, LeaveDraw
    <2>7. CASE Step(r, [c EXCEPT !.at = "aborted"])
      BY <1>1, <2>2, <2>3, <2>5, <2>7, LeaveDraw
    <2>8. CASE Step(r, [Complain(c) EXCEPT !.at = "items"])
      <3>1. /\ Complain(c) \in Call /\ SoundCall(Complain(c), v)
            /\ Complain(c).at = "draw" /\ Complain(c).answer = a
        BY <2>2, <2>3, <2>4, <2>5, ComplainKeeps
      <3> QED  BY <1>1, <2>8, <3>1, LeaveDraw
    <2> QED  BY <2>1, <2>6, <2>7, <2>8 DEF c
  <1> QED  BY <1>3, <1>4

\* A call that has been answered.
Sent(c, s, b) == [c EXCEPT !.at = "sent", !.status = s, !.body = b]

LEMMA Sending ==
    ASSUME NEW c \in Call, NEW s \in {0, 200, 500}, NEW b \in Texts
    PROVE  LET d == Sent(c, s, b)
           IN  /\ d \in Call /\ d.at = "sent" /\ d.status = s /\ d.body = b
               /\ d.sent = c.sent /\ d.answer = c.answer /\ d.keys = c.keys
  <1> DEFINE d == [c EXCEPT !.at = "sent", !.status = s, !.body = b]
  <1>1. d \in Call
    BY DEF Call
  <1>2. d.at = "sent" /\ d.status = s
    BY DEF Call
  <1>3. d.body = b /\ d.answer = c.answer
    BY DEF Call
  <1>4. d.sent = c.sent /\ d.keys = c.keys
    BY DEF Call
  <1> QED  BY <1>1, <1>2, <1>3, <1>4 DEF Sent

LEMMA RespondKeeps ==
    ASSUME IInv, NEW r \in Reviews, Respond(r)
    PROVE  IInv'
  <1> DEFINE c == call[r]
             v == review[r]
             s == Header(c, 200)
             b == Append(c.body, "json")
             d == Sent(c, s, b)
  <1>1. c # None /\ c.at = "items" /\ Step(r, d)
    BY DEF Respond, At, Sent
  <1>2. c \in Call /\ SoundCall(c, v)
    BY <1>1, Records
  <1>3. c.status \in {0, 500} /\ s = (IF c.status = 0 THEN 200 ELSE 500)
    BY <1>1, <1>2 DEF Call, SoundCall, Header
  <1>4. b \in Texts
    <2>1. c.body \in Texts
      BY <1>2 DEF Call
    <2> QED  BY <2>1 DEF Texts
  <1>5. ASSUME c.status = 0 PROVE b = <<"json">>
    <2>1. c.body = <<>>
      BY <1>2, <1>5 DEF SoundCall
    <2> QED  BY <2>1
  <1> HIDE DEF s, b
  <1>6. /\ d \in Call /\ d.at = "sent" /\ d.status = s /\ d.body = b
        /\ d.sent = c.sent /\ d.answer = c.answer /\ d.keys = c.keys
    BY <1>2, <1>3, <1>4, Sending
  <1> HIDE DEF d
  <1>7. SoundCall(d, v)
    BY <1>1, <1>2, <1>3, <1>5, <1>6 DEF SoundCall
  <1> QED  BY <1>1, <1>6, <1>7, StepKeeps

LEMMA EvaluateKeeps ==
    ASSUME IInv, NEW r \in Reviews, Evaluate(r)
    PROVE  IInv'
  <1> DEFINE yes == call[r].status = 200 /\ Denied(call[r]) = {}
  <1>1. call[r] # None /\ call[r].at = "sent"
    BY DEF Evaluate
  <1>2. CASE yes
    <2>1. Decide(r, "admit")
      BY <1>2 DEF Evaluate
    <2> QED  BY <1>1, <1>2, <2>1, DecideKeeps
  <1>3. CASE ~yes
    <2>1. Decide(r, "deny")
      BY <1>3 DEF Evaluate
    <2> QED  BY <1>1, <2>1, DecideKeeps
  <1> QED  BY <1>2, <1>3

LEMMA NoResponseKeeps ==
    ASSUME IInv, NEW r \in Reviews, NoResponse(r)
    PROVE  IInv'
  <1>1. Decide(r, "deny")
    BY DEF NoResponse
  <1>2. call[r] # None
    BY <1>1 DEF Decide, IInv, Sound
  <1> QED  BY <1>1, <1>2, DecideKeeps

LEMMA Inductive == IInv /\ [Next]_vars => IInv'
  <1> SUFFICES ASSUME IInv, [Next]_vars PROVE IInv'
    OBVIOUS
  <1>1. ASSUME NEW r \in Reviews, NEW pod \in Pods, Ask(r, pod) PROVE IInv'
    BY <1>1, AskKeeps
  <1>2. ASSUME NEW r \in Reviews, Evaluate(r) PROVE IInv'
    BY <1>2, EvaluateKeeps
  <1>3. ASSUME NEW r \in Reviews, NoResponse(r) PROVE IInv'
    BY <1>3, NoResponseKeeps
  <1>4. ASSUME NEW r \in Reviews, ReadBody(r) PROVE IInv'
    BY <1>4, ReadBodyKeeps
  <1>5. ASSUME NEW r \in Reviews, Unmarshal(r) PROVE IInv'
    BY <1>5, UnmarshalKeeps
  <1>6. ASSUME NEW r \in Reviews, DrawAnswer(r) PROVE IInv'
    BY <1>6, DrawAnswerKeeps
  <1>7. ASSUME NEW r \in Reviews, Respond(r) PROVE IInv'
    BY <1>7, RespondKeeps
  <1>9. CASE Start \/ Stop
    BY <1>9, StartKeeps, StopKeeps
  <1>8. CASE UNCHANGED vars
    BY <1>8 DEF vars, IInv, TypeOK
  <1> QED  BY <1>1, <1>2, <1>3, <1>4, <1>5, <1>6, <1>7, <1>8, <1>9 DEF Next

LEMMA Invariant == Spec => []IInv
  <1> QED  BY InitInv, Inductive, PTL DEF Spec

-----------------------------------------------------------------------------

\* The provider and Gatekeeper keep to their types, for any answers, pods and
\* reviews (handlers.go Provide).
THEOREM TypeCorrect == Spec => []TypeOK
  <1>1. IInv => TypeOK
    BY DEF IInv
  <1> QED  BY <1>1, Invariant, PTL

\* Whatever is printed in front of a response, it does not come with 200: the
\* missing returns of Provide cannot be seen in a good response.
THEOREM OneDocument == Spec => []OkIsOneDocument
  <1>1. IInv => OkIsOneDocument
    BY DEF IInv, OkIsOneDocument, At, Sound, SoundCall
  <1> QED  BY <1>1, Invariant, PTL

\* With a template that takes the images from where a pod has them, and pods that
\* have one, a pod is admitted on a "Y" only, however Provide fails.
THEOREM YesOnly ==
    ASSUME KeysFrom = "spec.containers", {} \notin Pods
    PROVE  Spec => []AdmittedOnYes
  <1>1. IInv => AdmittedOnYes
    <2> SUFFICES ASSUME IInv, NEW r \in Reviews,
                        review[r] # None, review[r].verdict = "admit"
                 PROVE  /\ review[r].pod = call[r].keys
                        /\ call[r].answer # None /\ call[r].answer.code = "Y"
      BY DEF AdmittedOnYes
    <2> DEFINE c == call[r]
    <2>1. c # None
      BY DEF IInv, Sound
    <2>2. c \in Call /\ review[r] \in Review /\ SoundCall(c, review[r])
      BY <2>1, Records
    <2>3. c.status = 200 /\ Denied(c) = {} /\ c.keys = c.sent /\ c.answer \in Answers
      BY <2>2 DEF SoundCall
    <2>4. c.keys = review[r].pod
      BY <2>2, <2>3 DEF SoundCall, KeysOf
    <2>5. PICK k : k \in c.keys
      BY <2>2, <2>4 DEF Review
    <2>6. c.answer.code = "Y"
      BY <2>3, <2>5 DEF Denied
    <2> QED  BY <2>3, <2>4, <2>6, NoneAssumption
  <1> QED  BY <1>1, Invariant, PTL
=============================================================================
