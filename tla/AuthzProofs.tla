----------------------------- MODULE AuthzProofs -----------------------------
(***************************************************************************)
(* The loop of parseJwt decides as if at one moment, for every authz file, *)
(* token and path and however the clock runs meanwhile.  The invariant     *)
(* says why an entry the loop is past did not settle the matter although   *)
(* it verifies the token: the token was not in force when the loop began,  *)
(* or it has run out.                                                      *)
(***************************************************************************)
EXTENDS Authz, TLAPS

Passed ==
    /\ began <= clock
    /\ verdict = "pending" /\ i # 0 => token.parses
    /\ verdict = "pending" =>
         \A j \in 1..i - 1 :
           Verifies(allowed[j], token) => began < token.from \/ token.until <= clock

Decided ==
    verdict # "pending" /\ ~Matured => verdict = Decision(allowed, token, path, clock)

LoopInv == TypeOK /\ Passed /\ Decided /\ PassIsEarned

LEMMA Inputs ==
    ASSUME TypeOK
    PROVE  /\ Len(allowed) \in Nat
           /\ token.from \in Nat /\ token.until \in Nat
           /\ clock \in Nat /\ began \in Nat /\ i \in Nat
<1>1. allowed \in Seq(Entry) /\ token \in Token
  BY ListsAssumption, TokensAssumption DEF TypeOK
<1> QED BY <1>1, ClockAssumption DEF TypeOK, Token

LEMMA InitLoop == Init => LoopInv
<1> SUFFICES ASSUME Init PROVE LoopInv
  OBVIOUS
<1>1. allowed \in Seq(Entry)
  BY ListsAssumption DEF Init
<1>2. TypeOK
  BY <1>1 DEF Init, TypeOK
<1>3. Passed /\ Decided /\ PassIsEarned
  BY <1>2, Inputs DEF Init, Passed, Decided, PassIsEarned
<1> QED BY <1>2, <1>3 DEF LoopInv

\* An entry that verifies a token in force now is the first one to, unless the
\* token came into force on the way.
LEMMA SettledByFirst ==
    ASSUME LoopInv, SettleEntry
    PROVE  Matured \/ (token.parses /\ Settles(allowed, token, i, clock))
<1>1. \A j \in 1..i - 1 : Verifies(allowed[j], token) => Matured
  BY Inputs DEF LoopInv, Passed, SettleEntry, ValidAt, Matured
<1>2. i # 0 /\ token.parses
  BY Inputs DEF LoopInv, Passed, SettleEntry
<1> QED BY <1>1, <1>2 DEF SettleEntry, Settles

LEMMA SettleDecides ==
    ASSUME LoopInv, SettleEntry, ~Matured
    PROVE  verdict' = Decision(allowed, token, path, clock)
<1>1. Settles(allowed, token, i, clock) /\ token.parses /\ i \in 1..Len(allowed)
  BY SettledByFirst DEF SettleEntry
<1>2. ASSUME NEW k \in 1..Len(allowed), Settles(allowed, token, k, clock)
      PROVE  k = i
  BY <1>1, <1>2, Inputs DEF Settles, LoopInv
<1> QED BY <1>1, <1>2 DEF Decision, SettleEntry

LEMMA ExhaustedDecides ==
    ASSUME LoopInv, Exhausted, ~Matured
    PROVE  verdict' = Decision(allowed, token, path, clock)
<1>1. \A k \in 1..Len(allowed) : ~Settles(allowed, token, k, clock)
  BY Inputs DEF LoopInv, Passed, Exhausted, Settles, ValidAt, Matured
<1> QED BY <1>1 DEF Exhausted, Decision

LEMMA ParseDecides ==
    ASSUME LoopInv, Parse, verdict' # "pending"
    PROVE  verdict' = Decision(allowed, token, path, clock)
  BY DEF Parse, Decision

\* Nothing but an entry that settles the matter lets a request pass.
LEMMA StepEarned ==
    ASSUME LoopInv, [Next]_vars
    PROVE  PassIsEarned'
<1>1. CASE SettleEntry
  <2>1. token.parses /\ ValidAt(token, clock) /\ i \in 1..Len(allowed)
    BY <1>1, Inputs DEF LoopInv, Passed, SettleEntry
  <2>2. UNCHANGED <<allowed, token, path, clock>>
    BY <1>1 DEF SettleEntry, inputs
  <2>3. verdict' = "pass" => Entitles(allowed[i], path) /\ Verifies(allowed[i], token)
    BY <1>1 DEF SettleEntry
  <2> QED BY <2>1, <2>2, <2>3 DEF PassIsEarned, Earned
<1>2. CASE UNCHANGED vars
  BY <1>2 DEF LoopInv, PassIsEarned, vars
<1>3. CASE Tick \/ Parse \/ SkipEntry \/ Exhausted
  BY <1>3 DEF Tick, Parse, SkipEntry, Exhausted, PassIsEarned
<1> QED BY <1>1, <1>2, <1>3 DEF Next

LEMMA StepLoop == LoopInv /\ [Next]_vars => LoopInv'
<1> SUFFICES ASSUME LoopInv, [Next]_vars PROVE LoopInv'
  OBVIOUS
<1>0. TypeOK /\ Passed /\ Decided /\ PassIsEarned'
  BY StepEarned DEF LoopInv
<1> USE Inputs DEF inputs, Matured
<1>1. CASE Tick
  <2>1. verdict = "pending" /\ UNCHANGED <<allowed, token, path, began, i, verdict>>
    BY <1>1 DEF Tick
  <2>2. clock' = clock + 1 /\ clock' \in 0..MaxClock
    BY <1>0, <1>1, ClockAssumption DEF Tick, TypeOK
  <2>3. TypeOK'
    BY <1>0, <2>1, <2>2 DEF TypeOK
  <2>4. token.until <= clock => token.until <= clock'
    BY <1>0, <2>2
  <2>5. Passed'
    BY <1>0, <2>1, <2>2, <2>4 DEF Passed, Verifies
  <2>6. Decided'
    BY <2>1 DEF Decided
  <2> QED BY <1>0, <2>3, <2>5, <2>6 DEF LoopInv
<1>2. CASE Parse
  BY <1>0, <1>2, ParseDecides DEF LoopInv, Parse, TypeOK, Passed, Decided, Decision
<1>3. CASE SkipEntry
  BY <1>0, <1>3 DEF LoopInv, SkipEntry, TypeOK, Passed, Decided, ValidAt
<1>4. CASE SettleEntry
  BY <1>0, <1>4, SettleDecides DEF LoopInv, SettleEntry, TypeOK, Passed, Decided
<1>5. CASE Exhausted
  BY <1>0, <1>5, ExhaustedDecides DEF LoopInv, Exhausted, TypeOK, Passed, Decided
<1>6. CASE UNCHANGED vars
  BY <1>0, <1>6 DEF LoopInv, vars, TypeOK, Passed, Decided
<1> QED BY <1>1, <1>2, <1>3, <1>4, <1>5, <1>6 DEF Next

LEMMA LoopInvariant == Spec => []LoopInv
  BY InitLoop, StepLoop, PTL DEF Spec

\* The verdict is the one the first entry to verify the token gives at one
\* moment of the loop, unless the token came into force while it ran.
THEOREM OneMoment == Spec => []DecidedAtOneMoment
<1>1. LoopInv => DecidedAtOneMoment
  BY Inputs DEF LoopInv, Passed, Decided, DecidedAtOneMoment
<1> QED BY <1>1, LoopInvariant, PTL

\* The loop stays within the list of entries and its clock.
THEOREM TypeCorrect == Spec => []TypeOK
<1>1. LoopInv => TypeOK
  BY DEF LoopInv
<1> QED BY <1>1, LoopInvariant, PTL

\* Nothing passes without an entry that verifies and entitles it at that moment,
\* whatever the clock does to the token meanwhile.
THEOREM NonePassesUnearned == Spec => []PassIsEarned
<1>1. LoopInv => PassIsEarned
  BY DEF LoopInv
<1> QED BY <1>1, LoopInvariant, PTL

\* Both modules speak of the same data.
LEMMA SameData ==
    ASSUME NEW a, NEW tok, NEW p, NEW now
    PROVE  /\ Promise!Decision(a, tok, p, now) = Decision(a, tok, p, now)
           /\ Promise!Earned(a, tok, p, now) <=> Earned(a, tok, p, now)
  BY DEF Decision, Settles, Verifies, ValidAt, Entitles, Earned,
         Promise!Decision, Promise!Settles, Promise!Verifies, Promise!ValidAt,
         Promise!Entitles, Promise!Earned

\* A step of the loop is a step of the promise, or nothing it can see.
LEMMA StepRefines ==
    ASSUME LoopInv, LoopInv', [Next]_vars
    PROVE  [Promise!Next]_Promise!vars
<1> USE SameData DEF Promise!Next, Promise!vars, Promise!Decide, inputs
<1>1. CASE Tick
  BY <1>1 DEF Tick, Promise!Tick
<1>2. CASE Parse
  BY <1>2, ParseDecides DEF Parse
<1>3. CASE SkipEntry
  BY <1>3 DEF SkipEntry
<1>4. CASE SettleEntry
  <2>1. verdict = "pending" /\ verdict' \in {"pass", "deny"}
        /\ UNCHANGED <<allowed, token, path, clock, began>>
    BY <1>4 DEF SettleEntry
  <2>2. verdict' = "pass" => Earned(allowed, token, path, clock)
    BY <2>1 DEF LoopInv, PassIsEarned
  <2>3. CASE Matured
    BY <2>1, <2>2, <2>3 DEF Matured
  <2>4. CASE ~Matured
    BY <1>4, <2>1, <2>4, SettleDecides
  <2> QED BY <2>3, <2>4
<1>5. CASE Exhausted
  <2>1. verdict = "pending" /\ verdict' = "deny"
        /\ UNCHANGED <<allowed, token, path, clock, began>>
    BY <1>5 DEF Exhausted
  <2>2. CASE Matured
    BY <2>1, <2>2 DEF Matured
  <2>3. CASE ~Matured
    BY <1>5, <2>1, <2>3, ExhaustedDecides
  <2> QED BY <2>2, <2>3
<1>6. CASE UNCHANGED vars
  BY <1>6 DEF vars
<1> QED BY <1>1, <1>2, <1>3, <1>4, <1>5, <1>6 DEF Next

\* The loop of parseJwt implements the decision at one moment of AuthzSpec.
THEOREM LoopRefines == Spec => ImplementsPromise
<1>1. Init => Promise!Init
  BY DEF Init, Promise!Init
<1>2. LoopInv /\ LoopInv' /\ [Next]_vars => [Promise!Next]_Promise!vars
  BY StepRefines
<1> QED BY <1>1, <1>2, LoopInvariant, PTL DEF Spec, ImplementsPromise, Promise!Spec
=============================================================================
