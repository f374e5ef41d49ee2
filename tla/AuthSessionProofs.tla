------------------------- MODULE AuthSessionProofs --------------------------
(***************************************************************************)
(* For any number of tabs, calls, logins, expiries and failures: one       *)
(* refresh per tab, nothing runs twice, nobody is turned away without a    *)
(* cause, and an ended session grants nothing.                             *)
(***************************************************************************)
EXTENDS AuthSession, TLAPS

USE AuthAssumption

MaybeToken == Token \union {NoToken}
MaybeSession == Session \union {NoSession}

LEMMA Update ==
  ASSUME NEW S, NEW T, NEW f \in [S -> T], NEW x, x \in S, NEW y, y \in T
  PROVE  [f EXCEPT ![x] = y] \in [S -> T]
  OBVIOUS

LEMMA IdleType == Idle \in CallState /\ NoToken \in MaybeToken /\ NoSession \in MaybeSession
  BY DEF Idle, CallState, Stage, Kind, Wire, Answer, MaybeToken, MaybeSession

\* What Sent leaves alone and what it sets.
LEMMA SentFacts ==
  ASSUME NEW k \in CallState, NEW stage \in {"first", "refresh", "retry"},
         NEW credentials \in MaybeToken, NEW jar \in MaybeSession
  PROVE  /\ Sent(k, stage, credentials, jar) \in CallState
         /\ Sent(k, stage, credentials, jar).stage = stage
         /\ Sent(k, stage, credentials, jar).kind = k.kind
         /\ Sent(k, stage, credentials, jar).runs = k.runs
         /\ Sent(k, stage, credentials, jar).wire = "request"
         /\ Sent(k, stage, credentials, jar).answer = "none"
         /\ Sent(k, stage, credentials, jar).granted = NoToken
         /\ Sent(k, stage, credentials, jar).jar \in {jar, NoSession}
         /\ stage = "refresh" \/ k.kind = "restore" =>
              /\ Sent(k, stage, credentials, jar).jar = jar
              /\ Sent(k, stage, credentials, jar).late <=> jar \notin live
         /\ stage # "refresh" /\ k.kind = "protected" =>
              Sent(k, stage, credentials, jar).bearer = credentials
<1> DEFINE refresh == stage = "refresh" \/ k.kind = "restore"
           bearer == IF k.kind = "protected" /\ ~refresh THEN credentials ELSE NoToken
           cookieSent == IF refresh \/ k.kind = "logout" THEN jar ELSE NoSession
           late == refresh /\ jar \notin live
<1>1. Sent(k, stage, credentials, jar) =
        [k EXCEPT !.stage = stage, !.wire = "request", !.answer = "none",
                  !.granted = NoToken, !.bearer = bearer, !.jar = cookieSent, !.late = late]
  BY DEF Sent
<1>2. bearer \in MaybeToken /\ cookieSent \in MaybeSession /\ late \in BOOLEAN
  BY IdleType
<1>3. /\ refresh => cookieSent = jar /\ (late <=> jar \notin live)
      /\ stage # "refresh" /\ k.kind = "protected" => bearer = credentials
      /\ cookieSent \in {jar, NoSession}
  OBVIOUS
<1> HIDE DEF bearer, cookieSent, late
<1>4. QED
  BY <1>1, <1>2, <1>3, IdleType DEF CallState, Stage, Wire, Answer, MaybeToken, MaybeSession

LEMMA Answered ==
  ASSUME TypeOK, NEW c \in Call, NEW answer \in Answer \ {"none"}, NEW granted \in MaybeToken,
         Answers(c, answer, granted)
  PROVE  /\ call' \in [Call -> CallState]
         /\ \A d \in Call \ {c} : call'[d] = call[d]
         /\ call'[c].wire = "response" /\ call'[c].answer = answer
         /\ call'[c].granted = granted
         /\ call'[c].stage = call[c].stage /\ call'[c].kind = call[c].kind
         /\ call'[c].jar = call[c].jar /\ call'[c].runs = call[c].runs
         /\ call'[c].late = call[c].late
<1>1. call[c] \in CallState
  BY DEF TypeOK
<1>2. [call[c] EXCEPT !.wire = "response", !.answer = answer, !.granted = granted] \in CallState
  BY <1>1 DEF CallState, Wire, Answer, MaybeToken
<1>3. call' = [call EXCEPT ![c] = [call[c] EXCEPT !.wire = "response", !.answer = answer,
                                                   !.granted = granted]]
  BY <1>1 DEF Answers, CallState, TypeOK
<1>4. call'[c] = [call[c] EXCEPT !.wire = "response", !.answer = answer, !.granted = granted]
  BY <1>3 DEF TypeOK
<1>5. QED
  BY <1>1, <1>2, <1>3, <1>4 DEF TypeOK, CallState

-----------------------------------------------------------------------------
(* Types. *)

LEMMA CallTypes ==
  ASSUME TypeOK, NEW c \in Call
  PROVE  /\ call[c] \in CallState /\ call[c].jar \in MaybeSession
         /\ call[c].granted \in MaybeToken /\ call[c].granted.session \in MaybeSession
         /\ call[c].kind \in Kind /\ call[c].runs \in 0..2
         /\ store[TabOf[c]] \in MaybeToken /\ cookie \in MaybeSession /\ TabOf[c] \in Tab
  BY IdleType DEF TypeOK, CallState, MaybeToken, MaybeSession, Token, NoToken

LEMMA CookieType ==
  ASSUME TypeOK, NEW c \in Call
  PROVE  CookieAfter(c) \in MaybeSession
  BY CallTypes, IdleType DEF CookieAfter

LEMMA StoreType ==
  ASSUME TypeOK, NEW c \in Call
  PROVE  StoreAfter(c) \in [Tab -> MaybeToken]
<1>1. store \in [Tab -> MaybeToken]
  BY DEF TypeOK, MaybeToken
<1>2. QED
  BY <1>1, CallTypes, IdleType, Update DEF StoreAfter

LEMMA RestoreType ==
  ASSUME TypeOK, NEW c \in Call
  PROVE  RestoreAfter(c) \in [Tab -> {"no", "mount", "invalidated", "reset"}]
  BY CallTypes DEF RestoreAfter, TypeOK

LEMMA ResumedFacts ==
  ASSUME NEW k \in CallState, NEW credentials \in MaybeToken, NEW jar \in MaybeSession
  PROVE  Resumed(k, credentials, jar) \in CallState
  BY SentFacts DEF Resumed

\* The call after its refresh.
AfterRefresh(c) ==
  IF call[c].answer = "ok" THEN Sent(call[c], "retry", call[c].granted, CookieAfter(c)) ELSE Idle

\* What Refreshed does, with LockAfter worked out.
LEMMA RefreshedFacts ==
  ASSUME TypeOK, NEW c \in Call, Refreshed(c)
  PROVE  /\ call[c].wire = "response" /\ InStage(c, "refresh")
         /\ cookie' = CookieAfter(c)
         /\ store' = [store EXCEPT ![TabOf[c]] = call[c].granted]
         /\ locked' = [locked EXCEPT ![TabOf[c]] = FALSE]
         /\ call' \in [Call -> CallState]
         /\ call'[c] = AfterRefresh(c)
         /\ \A d \in Call \ {c} :
              call'[d] = IF TabOf[d] = TabOf[c]
                         THEN Resumed(call[d], call[c].granted, CookieAfter(c))
                         ELSE call[d]
         /\ restore' \in {restore, RestoreAfter(c)}
         /\ UNCHANGED <<created, live, generation, faults>>
<1>1. call' = [d \in Call |->
          IF d = c THEN AfterRefresh(c)
          ELSE IF TabOf[d] = TabOf[c]
               THEN Resumed(call[d], call[c].granted, CookieAfter(c))
               ELSE call[d]]
  BY DEF Refreshed, LockAfter, AfterRefresh
<1>2. AfterRefresh(c) \in CallState
  BY CallTypes, CookieType, SentFacts, IdleType DEF AfterRefresh
<1>3. \A d \in Call : Resumed(call[d], call[c].granted, CookieAfter(c)) \in CallState
  BY CallTypes, CookieType, ResumedFacts
<1>4. call' \in [Call -> CallState]
  BY <1>1, <1>2, <1>3, CallTypes
<1>5. QED
  BY <1>1, <1>4 DEF Refreshed, LockAfter

LEMMA StepType ==
  ASSUME AInv, Next
  PROVE  TypeOK'
<1> USE DEF AInv
<1>1. calm' \in [Call -> BOOLEAN]
  BY DEF Next, Calm
<1>2. ASSUME TokensExpire PROVE TypeOK'
  BY <1>1, <1>2 DEF TypeOK, TokensExpire
<1>3. ASSUME NEW s \in Session, SessionExpires(s) PROVE TypeOK'
  BY <1>1, <1>3 DEF TypeOK, SessionExpires
<1>4. ASSUME NEW t \in Tab, Reload(t) PROVE TypeOK'
  <2>1. call' \in [Call -> CallState]
    BY <1>4, IdleType DEF Reload, TypeOK
  <2>2. faults' \in 0..MaxFaults
    BY <1>4 DEF Reload, TypeOK
  <2>3. QED
    BY <1>1, <1>4, <2>1, <2>2, IdleType DEF TypeOK, Reload, MaybeToken
<1>5. ASSUME NEW c \in Call, HandleProtected(c) PROVE TypeOK'
  <2>1. CASE TokenAccepted(call[c].bearer)
    <3>1. call[c].runs = 0 /\ call[c] \in CallState
      BY <1>5, CallTypes DEF HandleProtected, CallOK
    <3>2. [call[c] EXCEPT !.wire = "response", !.answer = "ok", !.runs = call[c].runs + 1]
            \in CallState
      <4>1. call[c].runs + 1 \in 0..2
        BY <3>1
      <4>2. QED
        BY <3>1, <4>1 DEF CallState, Wire, Answer
    <3>3. call' = [call EXCEPT ![c] = [call[c] EXCEPT !.wire = "response", !.answer = "ok",
                                                       !.runs = call[c].runs + 1]]
      BY <1>5, <2>1 DEF HandleProtected, TypeOK
    <3>4. QED
      BY <1>1, <1>5, <3>2, <3>3 DEF HandleProtected, TypeOK
  <2>2. CASE ~TokenAccepted(call[c].bearer)
    BY <1>1, <1>5, <2>2, Answered, IdleType DEF HandleProtected, TypeOK, Answer
  <2>3. QED
    BY <2>1, <2>2
<1>6. ASSUME NEW c \in Call, HandleLogin(c) PROVE TypeOK'
  <2>1. CASE Answers(c, "unauthorized", NoToken) /\ UNCHANGED <<created, live>>
    BY <1>1, <1>6, <2>1, Answered, IdleType DEF HandleLogin, TypeOK, Answer
  <2>2. CASE /\ created < MaxSessions
             /\ created' = created + 1 /\ live' = live \union {created + 1}
             /\ Answers(c, "ok", [session |-> created + 1, generation |-> generation])
    <3>1. [session |-> created + 1, generation |-> generation] \in MaybeToken
      BY <2>2 DEF TypeOK, MaybeToken, Token, Session
    <3>2. call' \in [Call -> CallState]
      BY <2>2, <3>1, Answered DEF Answer
    <3>3. created' \in 0..MaxSessions /\ live' \subseteq 1..created'
      BY <2>2 DEF TypeOK
    <3>4. QED
      BY <1>1, <1>6, <3>2, <3>3 DEF HandleLogin, TypeOK
  <2>3. QED
    BY <1>6, <2>1, <2>2 DEF HandleLogin, createSessionForUser
<1>7. ASSUME NEW c \in Call, CheckSession(c) PROVE TypeOK'
  <2>1. [call[c] EXCEPT !.wire = "checked"] \in CallState
    BY CallTypes DEF CallState, Wire
  <2>2. call' \in [Call -> CallState]
    BY <1>7, <2>1, Answered, IdleType DEF CheckSession, TypeOK, Answer
  <2>3. QED
    BY <1>1, <1>7, <2>2 DEF CheckSession, TypeOK
<1>8. ASSUME NEW c \in Call, GrantAccess(c) PROVE TypeOK'
  <2>1. [session |-> call[c].jar, generation |-> generation] \in MaybeToken
    BY <1>8, CallTypes DEF GrantAccess, CallOK, MaybeToken, Token, MaybeSession, TypeOK
  <2>2. call' \in [Call -> CallState]
    BY <1>8, <2>1, Answered DEF GrantAccess, Answer
  <2>3. QED
    BY <1>1, <1>8, <2>2 DEF GrantAccess, TypeOK
<1>9. ASSUME NEW c \in Call, HandleLogout(c) PROVE TypeOK'
  <2>1. call' \in [Call -> CallState]
    BY <1>9, Answered, IdleType DEF HandleLogout, Answer
  <2>2. faults' \in 0..MaxFaults
    BY <1>9 DEF HandleLogout, revokeSession, TypeOK
  <2>3. live' \subseteq 1..created /\ created' = created
    BY <1>9 DEF HandleLogout, revokeSession, TypeOK
  <2>4. QED
    BY <1>1, <1>9, <2>1, <2>2, <2>3 DEF HandleLogout, TypeOK
<1>10. ASSUME NEW c \in Call, NEW kind \in MayBe[c], Start(c, kind) PROVE TypeOK'
  <2>1. [Idle EXCEPT !.kind = kind] \in CallState
    BY IdleType DEF CallState
  <2>2. [[Idle EXCEPT !.kind = kind] EXCEPT !.stage = "queued"] \in CallState
    BY <2>1 DEF CallState, Stage
  <2>3. Sent([Idle EXCEPT !.kind = kind], "first", store[TabOf[c]], cookie) \in CallState
    BY <2>1, CallTypes, SentFacts
  <2>4. call' \in [Call -> CallState]
    BY <1>10, <2>2, <2>3, Update DEF Start, TypeOK
  <2>5. restore' \in [Tab -> {"no", "mount", "invalidated", "reset"}]
    BY <1>10 DEF Start, TypeOK
  <2>6. QED
    BY <1>1, <1>10, <2>4, <2>5 DEF Start, TypeOK
<1>11. ASSUME NEW c \in Call, Finish(c) PROVE TypeOK'
  <2>1. call' \in [Call -> CallState]
    BY <1>11, IdleType DEF Finish, TypeOK
  <2>2. QED
    BY <1>1, <1>11, <2>1, CookieType, StoreType, RestoreType
    DEF Finish, TypeOK, MaybeToken, MaybeSession
<1>12. ASSUME NEW c \in Call, Refused(c) PROVE TypeOK'
  <2>1. [call[c] EXCEPT !.stage = "waiting", !.wire = "none", !.answer = "none"] \in CallState
    BY CallTypes DEF CallState, Stage, Wire, Answer
  <2>2. Sent(call[c], "refresh", store[TabOf[c]], cookie) \in CallState
    BY CallTypes, SentFacts
  <2>3. call' \in [Call -> CallState] /\ locked' \in [Tab -> BOOLEAN]
    BY <1>12, <2>1, <2>2, CallTypes DEF Refused, TypeOK
  <2>4. QED
    BY <1>1, <1>12, <2>3 DEF Refused, TypeOK
<1>13. ASSUME NEW c \in Call, Refreshed(c) PROVE TypeOK'
  <2>1. locked' \in [Tab -> BOOLEAN] /\ store \in [Tab -> MaybeToken]
    BY <1>13, RefreshedFacts, CallTypes DEF TypeOK, MaybeToken
  <2>2. restore' \in [Tab -> {"no", "mount", "invalidated", "reset"}]
    BY <1>13, RefreshedFacts, RestoreType DEF TypeOK
  <2>3. store' \in [Tab -> MaybeToken]
    BY <1>13, <2>1, RefreshedFacts, CallTypes, Update
  <2>4. QED
    BY <1>1, <1>13, <2>1, <2>2, <2>3, RefreshedFacts, CookieType
    DEF TypeOK, MaybeToken, MaybeSession
<1>14. ASSUME NEW c \in Call, Lose(c) PROVE TypeOK'
  <2>1. call' \in [Call -> CallState]
    BY <1>14, Answered, IdleType DEF Lose, Answer
  <2>2. faults' \in 0..MaxFaults
    BY <1>14 DEF Lose, TypeOK
  <2>3. QED
    BY <1>1, <1>14, <2>1, <2>2 DEF Lose, TypeOK
<1>15. QED
  BY <1>2, <1>3, <1>4, <1>5, <1>6, <1>7, <1>8, <1>9, <1>10, <1>11, <1>12, <1>13, <1>14
  DEF Next, Api, Arrive

-----------------------------------------------------------------------------
(* Each call for itself. *)

Runs(c) == call[c].runs <= 1
Ended(c) == IsRefresh(c) /\ call[c].late => call[c].granted = NoToken
PerCall(c) == CallOK(c) /\ Runs(c) /\ Ended(c)

LEMMA PerCallNow ==
  ASSUME AInv, NEW c \in Call
  PROVE  PerCall(c)
  BY DEF AInv, PerCall, Runs, Ended, RunsAtMostOnce, EndedSessionGrantsNothing

\* Known(s)' for an s of the state before the step.
KnownAfter(s) == s \in 0..created'

\* An idle call, and one that has just been queued or sent.
Fresh(k) ==
  /\ k.stage \in {"idle", "queued"} /\ k.wire = "none" /\ k.answer = "none"
  /\ k.jar = NoSession /\ k.granted = NoToken /\ k.late = FALSE /\ k.runs = 0

LEMMA FreshCalls ==
  /\ Fresh(Idle)
  /\ \A kind \in Kind : Fresh([[Idle EXCEPT !.kind = kind] EXCEPT !.stage = "queued"])
  BY DEF Fresh, Idle

LEMMA FreshOK ==
  ASSUME TypeOK', NEW c \in Call, Fresh(call'[c])
  PROVE  PerCall(c)'
<1>1. created' \in Nat
  BY DEF TypeOK
<1>2. QED
  BY <1>1 DEF Fresh, PerCall, CallOK, Runs, Ended, Known, IsRefresh, InStage, NoSession, NoToken

LEMMA SentOK ==
  ASSUME TypeOK, TypeOK', NEW c \in Call, NEW k \in CallState,
         NEW stage \in {"first", "refresh", "retry"},
         NEW credentials \in MaybeToken, NEW jar \in MaybeSession,
         call'[c] = Sent(k, stage, credentials, jar),
         k.kind \in {"restore", "logout"} => stage = "first",
         k.runs = 0, Known(jar), created' = created, live' = live
  PROVE  PerCall(c)'
<1>1. /\ call'[c].stage = stage /\ call'[c].kind = k.kind /\ call'[c].runs = 0
      /\ call'[c].wire = "request" /\ call'[c].answer = "none" /\ call'[c].granted = NoToken
      /\ call'[c].jar \in {jar, NoSession}
      /\ stage = "refresh" \/ k.kind = "restore" =>
           call'[c].jar = jar /\ (call'[c].late <=> jar \notin live)
  BY SentFacts
<1>2. Known(call'[c].jar) /\ Known(NoSession)
  BY <1>1 DEF Known, TypeOK, NoSession
<1>3. Ended(c)' /\ Runs(c)'
  BY <1>1 DEF Ended, Runs
<1>4. IsRefresh(c)' => stage = "refresh" \/ k.kind = "restore"
  BY <1>1 DEF IsRefresh, InStage
<1>5. CallOK(c)'
  BY <1>1, <1>2, <1>4 DEF CallOK, Known, NoToken
<1>6. QED
  BY <1>3, <1>5 DEF PerCall

\* A call that the step leaves alone.
LEMMA CallKept ==
  ASSUME AInv, NEW c \in Call, call'[c] = call[c],
         \/ created' = created /\ live' \subseteq live
         \/ created' = created + 1 /\ live' \subseteq live \union {created + 1}
  PROVE  PerCall(c)'
<1>1. PerCall(c) /\ created \in Nat
  BY PerCallNow DEF AInv, TypeOK
<1>2. Runs(c)' /\ Ended(c)'
  BY <1>1 DEF PerCall, Runs, Ended, IsRefresh, InStage
<1>3. Known(call[c].jar)' /\ Known(call[c].granted.session)'
  BY <1>1 DEF PerCall, CallOK, Known
<1>4. call[c].jar \notin live => call[c].jar \notin live'
  BY <1>1 DEF PerCall, CallOK, Known
<1>5. CallOK(c)'
  BY <1>1, <1>3, <1>4 DEF PerCall, CallOK, IsRefresh, InStage
<1>6. QED
  BY <1>2, <1>5 DEF PerCall

\* A call that is answered.
LEMMA AnsweredOK ==
  ASSUME AInv, NEW c \in Call, NEW answer \in Answer \ {"none"}, NEW granted \in MaybeToken,
         Answers(c, answer, granted), call[c].wire # "none",
         (\A s : Known(s) => KnownAfter(s)), KnownAfter(granted.session),
         call[c].kind = "logout" => answer # "unauthorized",
         answer = "unauthorized" => call[c].runs = 0,
         IsRefresh(c) /\ answer = "ok" => granted # NoToken /\ ~call[c].late,
         answer # "ok" => granted = NoToken
  PROVE  PerCall(c)'
<1>1. PerCall(c) /\ call[c] \in CallState /\ TypeOK
  BY PerCallNow, CallTypes DEF AInv
<1>2. /\ call'[c].wire = "response" /\ call'[c].answer = answer /\ call'[c].granted = granted
      /\ call'[c].stage = call[c].stage /\ call'[c].kind = call[c].kind
      /\ call'[c].jar = call[c].jar /\ call'[c].runs = call[c].runs
      /\ call'[c].late = call[c].late
  BY <1>1, Answered
<1>3. KnownAfter(call[c].jar) /\ KnownAfter(granted.session)
  BY <1>1 DEF PerCall, CallOK
<1>4. Known(call[c].jar)' /\ Known(call[c].granted.session)'
  BY <1>2, <1>3 DEF Known, KnownAfter
<1>5. QED
  BY <1>1, <1>2, <1>4 DEF PerCall, CallOK, Runs, Ended, IsRefresh, InStage, Answer

LEMMA StepPerCall ==
  ASSUME AInv, Next, NEW x \in Call
  PROVE  PerCall(x)' /\ Known(cookie)'
<1>0. /\ TypeOK /\ TypeOK' /\ Known(cookie) /\ PerCall(x)
      /\ created \in Nat /\ created' \in Nat /\ created' \in {created, created + 1}
      /\ KnownAfter(NoSession) /\ KnownAfter(NoToken.session)
  <2>1. TypeOK /\ TypeOK' /\ Known(cookie) /\ PerCall(x)
    BY StepType, PerCallNow DEF AInv
  <2>2. created \in Nat /\ created' \in Nat
    BY <2>1 DEF TypeOK
  <2>3. created' \in {created, created + 1}
    BY DEF Next, Api, Arrive, TokensExpire, SessionExpires, Reload, HandleProtected,
           HandleLogin, createSessionForUser, CheckSession, GrantAccess, HandleLogout, Finish, Refused,
           Refreshed, Lose, Start
  <2>4. QED
    BY <2>1, <2>2, <2>3 DEF KnownAfter, NoSession, NoToken
<1>1. \A s : Known(s) => KnownAfter(s)
  BY <1>0 DEF Known, KnownAfter
<1>2. ASSUME UNCHANGED <<created, call, cookie>>, live' \subseteq live
      PROVE  PerCall(x)' /\ Known(cookie)'
  BY <1>0, <1>1, <1>2, CallKept DEF Known, KnownAfter
<1>3. ASSUME NEW t \in Tab, Reload(t) PROVE PerCall(x)' /\ Known(cookie)'
  <2>1. Known(cookie)' /\ created' = created /\ live' = live
    BY <1>0, <1>1, <1>3 DEF Reload, Known, KnownAfter
  <2>2. CASE TabOf[x] = t
    BY <1>0, <1>3, <2>1, <2>2, FreshOK, FreshCalls DEF Reload
  <2>3. CASE TabOf[x] # t
    BY <1>0, <1>3, <2>1, <2>3, CallKept DEF Reload
  <2>4. QED
    BY <2>2, <2>3
<1>4. ASSUME NEW c \in Call, HandleProtected(c) PROVE PerCall(x)' /\ Known(cookie)'
  <2>1. Known(cookie)' /\ created' = created /\ live' = live
    BY <1>0, <1>1, <1>4 DEF HandleProtected, Known, KnownAfter
  <2>2. CASE x # c
    BY <1>0, <1>4, <2>1, <2>2, CallKept DEF HandleProtected, Answers, TypeOK
  <2>3. CASE x = c /\ ~TokenAccepted(call[c].bearer)
    <3>1. Answers(c, "unauthorized", NoToken)
      BY <1>4, <2>3 DEF HandleProtected
    <3>2. call[c].runs = 0
      BY <1>0, <1>1, <1>4, <2>3 DEF HandleProtected, PerCall, CallOK, NoToken
    <3>3. QED
      BY <1>0, <1>1, <2>1, <1>4, <2>3, <3>1, <3>2, AnsweredOK, IdleType DEF HandleProtected, Answer
  <2>4. CASE x = c /\ TokenAccepted(call[c].bearer)
    <3>1. call[c] \in CallState /\ call[c].runs = 0
      BY <1>0, <1>4, <2>4, CallTypes DEF HandleProtected, PerCall, CallOK
    <3>2. call'[c] = [call[c] EXCEPT !.wire = "response", !.answer = "ok",
                                     !.runs = call[c].runs + 1]
      BY <1>0, <1>4, <2>4 DEF HandleProtected, TypeOK
    <3>3. /\ call'[c].wire = "response" /\ call'[c].answer = "ok"
          /\ call'[c].granted = call[c].granted
          /\ call'[c].stage = call[c].stage /\ call'[c].kind = call[c].kind
          /\ call'[c].jar = call[c].jar /\ call'[c].runs = 1
          /\ call'[c].late = call[c].late
      BY <3>1, <3>2 DEF CallState
    <3>4. ~IsRefresh(c)' /\ call[c].kind = "protected" /\ call[c].stage # "refresh"
      BY <1>4, <3>3 DEF HandleProtected, IsRefresh, InStage
    <3>5. call[c].wire = "request" /\ CallOK(c)
      BY <1>0, <1>4, <2>4 DEF HandleProtected, PerCall
    <3>6. Known(call[c].jar)' /\ Known(call[c].granted.session)'
      BY <1>1, <3>3, <3>5 DEF CallOK, Known, KnownAfter
    <3>7. CallOK(c)'
      BY <3>3, <3>4, <3>5, <3>6 DEF CallOK
    <3>8. QED
      BY <1>0, <1>1, <2>1, <2>4, <3>3, <3>4, <3>7 DEF PerCall, Runs, Ended
  <2>5. QED
    BY <2>1, <2>2, <2>3, <2>4
<1>5. ASSUME NEW c \in Call, HandleLogin(c) PROVE PerCall(x)' /\ Known(cookie)'
  <2>1. Known(cookie)'
    BY <1>0, <1>1, <1>5 DEF HandleLogin, Known, KnownAfter
  <2>2. ~IsRefresh(c) /\ call[c].kind = "login" /\ call[c].runs = 0 /\ call[c].wire # "none"
    BY <1>5, PerCallNow DEF HandleLogin, PerCall, CallOK
  <2>3. CASE x # c
    BY <1>1, <2>1, <1>0, <1>5, <2>3, CallKept DEF HandleLogin, createSessionForUser, Answers, TypeOK
  <2>4. CASE x = c /\ Answers(c, "unauthorized", NoToken)
    BY <1>0, <1>1, <2>1, <2>2, <2>4, AnsweredOK, IdleType DEF Answer
  <2>5. CASE /\ x = c /\ created < MaxSessions /\ created' = created + 1
             /\ Answers(c, "ok", [session |-> created + 1, generation |-> generation])
    <3>1. [session |-> created + 1, generation |-> generation] \in MaybeToken
      BY <1>0, <2>5 DEF TypeOK, MaybeToken, Token, Session
    <3>2. KnownAfter(created + 1)
      BY <1>0, <2>5 DEF KnownAfter
    <3>3. QED
      BY <1>0, <1>1, <2>1, <2>2, <2>5, <3>1, <3>2, AnsweredOK DEF Answer
  <2>6. QED
    BY <1>5, <2>1, <2>3, <2>4, <2>5 DEF HandleLogin, createSessionForUser
<1>6. ASSUME NEW c \in Call, CheckSession(c) PROVE PerCall(x)' /\ Known(cookie)'
  <2>1. /\ Known(cookie)'
        /\ created' = created /\ live' = live
    BY <1>0, <1>1, <1>6 DEF CheckSession, Known, KnownAfter
  <2>2. IsRefresh(c) /\ call[c].wire = "request" /\ call[c].runs = 0 /\ PerCall(c)
    BY <1>6, PerCallNow DEF CheckSession, PerCall, CallOK
  <2>3. CASE x # c
    BY <1>0, <1>6, <2>1, <2>3, CallKept DEF CheckSession, Answers, TypeOK
  <2>4. CASE x = c /\ ~SessionAccepted(call[c].jar)
    <3>1. Answers(c, "unauthorized", NoToken) /\ call[c].kind # "logout"
      BY <1>6, <2>2, <2>4 DEF CheckSession, IsRefresh, InStage, PerCall, CallOK
    <3>2. QED
      BY <1>0, <1>1, <2>1, <2>2, <2>4, <3>1, AnsweredOK, IdleType DEF Answer
  <2>5. CASE x = c /\ SessionAccepted(call[c].jar)
    <3>1. call[c] \in CallState /\ ~call[c].late /\ call[c].jar # NoSession
      BY <1>0, <2>2, <2>5, CallTypes
      DEF SessionAccepted, PerCall, CallOK, TypeOK, NoSession, Session
    <3>2. call'[c] = [call[c] EXCEPT !.wire = "checked"]
      BY <1>0, <1>6, <2>5 DEF CheckSession, TypeOK
    <3>3. /\ call'[c].wire = "checked" /\ call'[c].answer = call[c].answer
          /\ call'[c].granted = call[c].granted
          /\ call'[c].stage = call[c].stage /\ call'[c].kind = call[c].kind
          /\ call'[c].jar = call[c].jar /\ call'[c].runs = call[c].runs
          /\ call'[c].late = call[c].late
      BY <3>1, <3>2 DEF CallState
    <3>4. Known(call[c].jar)' /\ Known(call[c].granted.session)'
      BY <1>1, <2>2, <3>3 DEF PerCall, CallOK, Known, KnownAfter
    <3>5. QED
      BY <2>1, <2>2, <2>5, <3>1, <3>3, <3>4 DEF PerCall, CallOK, Runs, Ended, IsRefresh, InStage
  <2>6. QED
    BY <2>1, <2>3, <2>4, <2>5
<1>7. ASSUME NEW c \in Call, GrantAccess(c) PROVE PerCall(x)' /\ Known(cookie)'
  <2>1. Known(cookie)' /\ created' = created /\ live' = live
    BY <1>0, <1>1, <1>7 DEF GrantAccess, Known, KnownAfter
  <2>2. /\ IsRefresh(c) /\ call[c].wire = "checked" /\ call[c].jar # NoSession
        /\ ~call[c].late
    BY <1>7, PerCallNow DEF GrantAccess, PerCall, CallOK
  <2>3. CASE x # c
    BY <1>0, <1>7, <2>1, <2>3, CallKept DEF GrantAccess, Answers, TypeOK
  <2>4. CASE x = c
    <3>1. /\ [session |-> call[c].jar, generation |-> generation] \in MaybeToken
          /\ [session |-> call[c].jar, generation |-> generation] # NoToken
      BY <1>0, <2>2, CallTypes DEF MaybeToken, Token, MaybeSession, TypeOK, NoToken
    <3>2. Answers(c, "ok", [session |-> call[c].jar, generation |-> generation])
      BY <1>7 DEF GrantAccess
    <3>3. KnownAfter(call[c].jar)
      BY <1>1, PerCallNow DEF PerCall, CallOK
    <3>4. QED
      BY <1>0, <1>1, <2>1, <2>2, <2>4, <3>1, <3>2, <3>3, AnsweredOK DEF Answer
  <2>5. QED
    BY <2>1, <2>3, <2>4
<1>8. ASSUME NEW c \in Call, HandleLogout(c) PROVE PerCall(x)' /\ Known(cookie)'
  <2>1. /\ Known(cookie)'
        /\ created' = created /\ live' \subseteq live
    BY <1>0, <1>1, <1>8 DEF HandleLogout, revokeSession, Known, KnownAfter
  <2>2. ~IsRefresh(c)
    BY <1>8, PerCallNow DEF HandleLogout, PerCall, CallOK, IsRefresh, InStage
  <2>3. CASE x # c
    BY <1>0, <1>8, <2>1, <2>3, CallKept DEF HandleLogout, Answers, TypeOK
  <2>4. CASE x = c
    BY <1>0, <1>1, <1>8, <2>1, <2>2, <2>4, AnsweredOK, IdleType DEF HandleLogout, Answer
  <2>5. QED
    BY <2>1, <2>3, <2>4
<1>9. ASSUME NEW c \in Call, NEW kind \in MayBe[c], Start(c, kind)
      PROVE  PerCall(x)' /\ Known(cookie)'
  <2>1. Known(cookie)' /\ created' = created /\ live' = live
    BY <1>0, <1>1, <1>9 DEF Start, Known, KnownAfter
  <2>2. CASE x # c
    BY <1>0, <1>9, <2>1, <2>2, CallKept DEF Start, TypeOK
  <2>3. CASE x = c /\ locked[TabOf[c]]
    <3>1. call'[c] = [[Idle EXCEPT !.kind = kind] EXCEPT !.stage = "queued"] /\ kind \in Kind
      BY <1>0, <1>9, <2>3 DEF Start, TypeOK
    <3>2. QED
      BY <1>1, <2>1, <1>0, <2>3, <3>1, FreshOK, FreshCalls
  <2>4. CASE x = c /\ ~locked[TabOf[c]]
    <3>1. call'[c] = Sent([Idle EXCEPT !.kind = kind], "first", store[TabOf[c]], cookie)
      BY <1>0, <1>9, <2>4 DEF Start, TypeOK
    <3>2. [Idle EXCEPT !.kind = kind] \in CallState /\ [Idle EXCEPT !.kind = kind].runs = 0
      BY IdleType DEF CallState, Idle
    <3>3. QED
      BY <1>0, <2>1, <2>4, <3>1, <3>2, SentOK, CallTypes
  <2>5. QED
    BY <2>1, <2>2, <2>3, <2>4
<1>10. ASSUME NEW c \in Call PROVE Known(CookieAfter(c))
  BY <1>0, PerCallNow DEF CookieAfter, PerCall, CallOK, Known, NoSession
<1>11. ASSUME NEW c \in Call, Finish(c) PROVE PerCall(x)' /\ Known(cookie)'
  <2>1. Known(cookie)' /\ created' = created /\ live' = live
    BY <1>1, <1>10, <1>11 DEF Finish, Known, KnownAfter
  <2>2. CASE x # c
    BY <1>0, <1>11, <2>1, <2>2, CallKept DEF Finish, TypeOK
  <2>3. CASE x = c
    BY <1>1, <2>1, <1>0, <1>11, <2>3, FreshOK, FreshCalls DEF Finish, TypeOK
  <2>4. QED
    BY <2>1, <2>2, <2>3
<1>12. ASSUME NEW c \in Call, Refused(c) PROVE PerCall(x)' /\ Known(cookie)'
  <2>1. Known(cookie)' /\ created' = created /\ live' = live
    BY <1>0, <1>1, <1>12 DEF Refused, Known, KnownAfter
  <2>2. /\ call[c].stage = "first" /\ call[c].wire = "response"
        /\ call[c].answer = "unauthorized" /\ call[c].runs = 0
        /\ call[c].kind \notin {"restore", "logout"} /\ PerCall(c) /\ call[c] \in CallState
    BY <1>0, <1>12, PerCallNow, CallTypes DEF Refused, Retried, InStage, PerCall, CallOK
  <2>3. CASE x # c
    BY <1>0, <1>12, <2>1, <2>3, CallKept DEF Refused, TypeOK
  <2>4. CASE x = c /\ MutexBusy(TabOf[c])
    <3>1. call'[c] = [call[c] EXCEPT !.stage = "waiting", !.wire = "none", !.answer = "none"]
      BY <1>0, <1>12, <2>4 DEF Refused, TypeOK
    <3>2. /\ call'[c].stage = "waiting" /\ call'[c].wire = "none" /\ call'[c].answer = "none"
          /\ call'[c].kind = call[c].kind /\ call'[c].runs = 0 /\ call'[c].jar = call[c].jar
          /\ call'[c].granted = NoToken /\ call'[c].late = call[c].late
      BY <2>2, <3>1 DEF CallState, PerCall, CallOK
    <3>3. Known(call[c].jar)' /\ Known(call[c].granted.session)'
      BY <1>0, <1>1, <2>1, <2>2, <3>2 DEF PerCall, CallOK, Known, KnownAfter
    <3>4. QED
      BY <1>0, <1>1, <2>1, <2>2, <2>4, <3>2, <3>3 DEF PerCall, CallOK, Runs, Ended, IsRefresh, InStage
  <2>5. CASE x = c /\ ~MutexBusy(TabOf[c])
    <3>1. call'[c] = Sent(call[c], "refresh", store[TabOf[c]], cookie)
      BY <1>0, <1>12, <2>5 DEF Refused, TypeOK
    <3>2. QED
      BY <1>0, <2>1, <2>2, <2>5, <3>1, SentOK, CallTypes
  <2>6. QED
    BY <2>1, <2>3, <2>4, <2>5
<1>13. ASSUME NEW c \in Call, Refreshed(c) PROVE PerCall(x)' /\ Known(cookie)'
  <2>1. Known(cookie)' /\ created' = created /\ live' = live
    BY <1>0, <1>1, <1>10, <1>13, RefreshedFacts DEF Known, KnownAfter
  <2>2. Known(CookieAfter(c)) /\ CookieAfter(c) \in MaybeSession /\ call[c].granted \in MaybeToken
    BY <1>0, <1>10, CookieType, CallTypes
  <2>3. call[x] \in CallState
    BY <1>0, CallTypes
  <2>4. CASE x = c /\ call[c].answer = "ok"
    <3>1. call'[c] = Sent(call[c], "retry", call[c].granted, CookieAfter(c))
      BY <1>0, <1>13, <2>4, RefreshedFacts DEF AfterRefresh
    <3>2. call[c].runs = 0 /\ call[c].kind \notin {"restore", "logout"}
      BY <1>0, <1>13, <2>4 DEF Refreshed, InStage, PerCall, CallOK
    <3>3. QED
      BY <1>0, <2>1, <2>2, <2>3, <2>4, <3>1, <3>2, SentOK
  <2>5. CASE x = c /\ call[c].answer # "ok"
    <3>1. call'[c] = Idle
      BY <1>0, <1>13, <2>5, RefreshedFacts DEF AfterRefresh
    <3>2. QED
      BY <1>1, <2>1, <1>0, <2>5, <3>1, FreshOK, FreshCalls
  <2>6. CASE x # c /\ TabOf[x] = TabOf[c] /\ call[x].stage = "queued"
    <3>1. call'[x] = Sent(call[x], "first", call[c].granted, CookieAfter(c))
      BY <1>0, <1>13, <2>6, RefreshedFacts DEF Resumed
    <3>2. call[x].runs = 0
      BY <1>0, <2>6 DEF PerCall, CallOK
    <3>3. QED
      BY <1>0, <2>1, <2>2, <2>3, <3>1, <3>2, SentOK
  <2>7. CASE x # c /\ TabOf[x] = TabOf[c] /\ call[x].stage = "waiting"
    <3>1. call'[x] = Sent(call[x], "retry", call[c].granted, CookieAfter(c))
      BY <1>0, <1>13, <2>7, RefreshedFacts DEF Resumed
    <3>2. call[x].runs = 0 /\ call[x].kind \notin {"restore", "logout"}
      BY <1>0, <2>7 DEF PerCall, CallOK
    <3>3. QED
      BY <1>0, <2>1, <2>2, <2>3, <3>1, <3>2, SentOK
  <2>8. CASE x # c /\ (TabOf[x] # TabOf[c] \/ call[x].stage \notin {"queued", "waiting"})
    <3>1. call'[x] = call[x]
      BY <1>0, <1>13, <2>8, RefreshedFacts DEF Resumed
    <3>2. QED
      BY <2>1, <3>1, CallKept
  <2>9. QED
    BY <2>1, <2>4, <2>5, <2>6, <2>7, <2>8
<1>14. ASSUME NEW c \in Call, Lose(c) PROVE PerCall(x)' /\ Known(cookie)'
  <2>1. /\ Known(cookie)'
        /\ created' = created /\ live' = live
    BY <1>0, <1>1, <1>14 DEF Lose, Known, KnownAfter
  <2>2. CASE x # c
    BY <1>0, <1>14, <2>1, <2>2, CallKept DEF Lose, Answers, TypeOK
  <2>3. CASE x = c
    BY <1>0, <1>1, <1>14, <2>1, <2>3, AnsweredOK, IdleType DEF Lose, Answer
  <2>4. QED
    BY <2>1, <2>2, <2>3
<1>15. ASSUME TokensExpire PROVE PerCall(x)' /\ Known(cookie)'
  BY <1>2, <1>15 DEF TokensExpire
<1>16. ASSUME NEW s \in Session, SessionExpires(s) PROVE PerCall(x)' /\ Known(cookie)'
  BY <1>2, <1>16 DEF SessionExpires
<1>17. QED
  BY <1>3, <1>4, <1>5, <1>6, <1>7, <1>8, <1>9, <1>11, <1>12, <1>13, <1>14, <1>15, <1>16
  DEF Next, Api, Arrive

-----------------------------------------------------------------------------
(* The mutex. *)

LEMMA ExclusiveKept ==
  ASSUME RefreshExclusive, locked' = locked, \A d \in Call : call'[d].stage = call[d].stage
  PROVE  RefreshExclusive'
  BY DEF RefreshExclusive, InStage, CallsOf

\* One call moves between stages in which it does not hold the mutex.
LEMMA ExclusiveMoved ==
  ASSUME RefreshExclusive, locked' = locked, NEW c \in Call,
         \A d \in Call \ {c} : call'[d].stage = call[d].stage,
         call[c].stage # "refresh", call'[c].stage # "refresh",
         call'[c].stage \in {"queued", "waiting"} => locked[TabOf[c]]
  PROVE  RefreshExclusive'
  BY DEF RefreshExclusive, InStage, CallsOf

LEMMA StageKept ==
  ASSUME TypeOK, NEW c \in Call, Api(c) \/ Lose(c)
  PROVE  \A d \in Call : call'[d].stage = call[d].stage
<1>1. call[c] \in CallState
  BY CallTypes
<1>2. ASSUME NEW answer, NEW granted, Answers(c, answer, granted)
      PROVE  \A d \in Call : call'[d].stage = call[d].stage
  BY <1>1, <1>2 DEF Answers, TypeOK, CallState
<1>3. CASE HandleProtected(c)
  BY <1>1, <1>2, <1>3 DEF HandleProtected, TypeOK, CallState
<1>4. CASE HandleLogin(c)
  BY <1>2, <1>4 DEF HandleLogin, createSessionForUser
<1>5. CASE CheckSession(c)
  BY <1>1, <1>2, <1>5 DEF CheckSession, TypeOK, CallState
<1>6. CASE GrantAccess(c)
  BY <1>2, <1>6 DEF GrantAccess
<1>7. CASE HandleLogout(c)
  BY <1>2, <1>7 DEF HandleLogout
<1>8. CASE Lose(c)
  BY <1>2, <1>8 DEF Lose
<1>9. QED
  BY <1>3, <1>4, <1>5, <1>6, <1>7, <1>8 DEF Api

LEMMA StepExclusive ==
  ASSUME AInv, Next
  PROVE  RefreshExclusive'
<1>0. TypeOK /\ RefreshExclusive
  BY DEF AInv
<1>1. ASSUME NEW c \in Call, Api(c) \/ Lose(c) PROVE RefreshExclusive'
  <2>1. locked' = locked
    BY <1>1 DEF Api, HandleProtected, HandleLogin, createSessionForUser, CheckSession, GrantAccess, HandleLogout, Lose
  <2>2. \A d \in Call : call'[d].stage = call[d].stage
    BY <1>0, <1>1, StageKept
  <2>3. QED
    BY <1>0, <2>1, <2>2, ExclusiveKept
<1>2. ASSUME UNCHANGED <<call, locked>> PROVE RefreshExclusive'
  BY <1>0, <1>2, ExclusiveKept
<1>3. ASSUME NEW t \in Tab, Reload(t) PROVE RefreshExclusive'
  <2>1. /\ locked' = [locked EXCEPT ![t] = FALSE] /\ locked \in [Tab -> BOOLEAN]
        /\ \A d \in Call : IF TabOf[d] = t THEN call'[d].stage = "idle" ELSE call'[d] = call[d]
    BY <1>0, <1>3 DEF Reload, TypeOK, Idle
  <2>2. \A u \in Tab : locked'[u] <=> u # t /\ locked[u]
    BY <2>1
  <2>3. QED
    BY <1>0, <2>1, <2>2 DEF RefreshExclusive, InStage, CallsOf
<1>4. ASSUME NEW c \in Call, NEW kind \in MayBe[c], Start(c, kind) PROVE RefreshExclusive'
  <2>1. /\ locked' = locked /\ call[c].stage = "idle"
        /\ \A d \in Call \ {c} : call'[d] = call[d]
    BY <1>0, <1>4 DEF Start, InStage, TypeOK
  <2>2. CASE locked[TabOf[c]]
    <3>1. call'[c] = [[Idle EXCEPT !.kind = kind] EXCEPT !.stage = "queued"]
      BY <1>0, <1>4, <2>2 DEF Start, TypeOK
    <3>2. call'[c].stage = "queued"
      BY <3>1 DEF Idle
    <3>3. QED
      BY <1>0, <2>1, <2>2, <3>2, ExclusiveMoved
  <2>3. CASE ~locked[TabOf[c]]
    <3>1. call'[c] = Sent([Idle EXCEPT !.kind = kind], "first", store[TabOf[c]], cookie)
      BY <1>0, <1>4, <2>3 DEF Start, TypeOK
    <3>2. [Idle EXCEPT !.kind = kind] \in CallState
      BY IdleType DEF CallState
    <3>3. call'[c].stage = "first"
      BY <1>0, <3>1, <3>2, SentFacts, CallTypes
    <3>4. QED
      BY <1>0, <2>1, <3>3, ExclusiveMoved
  <2>4. QED
    BY <2>2, <2>3
<1>5. ASSUME NEW c \in Call, Finish(c) PROVE RefreshExclusive'
  <2>1. /\ locked' = locked /\ call[c].stage # "refresh" /\ call'[c].stage = "idle"
        /\ \A d \in Call \ {c} : call'[d] = call[d]
    BY <1>0, <1>5 DEF Finish, InStage, TypeOK, Idle
  <2>2. QED
    BY <1>0, <2>1, ExclusiveMoved
<1>6. ASSUME NEW c \in Call, Refused(c) PROVE RefreshExclusive'
  <2>1. /\ call[c].stage = "first" /\ call[c] \in CallState /\ TabOf[c] \in Tab
        /\ \A d \in Call \ {c} : call'[d] = call[d]
    BY <1>0, <1>6, CallTypes DEF Refused, Retried, InStage, TypeOK
  <2>2. CASE MutexBusy(TabOf[c])
    <3>1. call'[c] = [call[c] EXCEPT !.stage = "waiting", !.wire = "none", !.answer = "none"]
      BY <1>0, <1>6, <2>2 DEF Refused, TypeOK
    <3>2. call'[c].stage = "waiting" /\ locked' = locked
      BY <1>6, <2>1, <2>2, <3>1 DEF CallState, Refused
    <3>3. QED
      BY <1>0, <2>1, <2>2, <3>2, ExclusiveMoved DEF MutexBusy
  <2>3. CASE ~MutexBusy(TabOf[c])
    <3>1. call'[c] = Sent(call[c], "refresh", store[TabOf[c]], cookie)
      BY <1>0, <1>6, <2>3 DEF Refused, TypeOK
    <3>2. call'[c].stage = "refresh"
      BY <1>0, <2>1, <3>1, SentFacts, CallTypes
    <3>3. /\ ~locked[TabOf[c]] /\ locked'[TabOf[c]]
          /\ \A u \in Tab \ {TabOf[c]} : locked'[u] = locked[u]
      BY <1>0, <1>6, <2>1, <2>3 DEF Refused, MutexBusy, TypeOK
    <3>4. \A d \in Call : TabOf[d] \in Tab
      BY CallTypes, <1>0
    <3>5. QED
      BY <1>0, <2>1, <3>2, <3>3, <3>4 DEF RefreshExclusive, InStage, CallsOf
  <2>4. QED
    BY <2>2, <2>3
<1>7. ASSUME NEW c \in Call, Refreshed(c) PROVE RefreshExclusive'
  <2>1. /\ call[c].stage = "refresh" /\ TabOf[c] \in Tab
        /\ ~locked'[TabOf[c]] /\ \A u \in Tab \ {TabOf[c]} : locked'[u] = locked[u]
    BY <1>0, <1>7, RefreshedFacts, CallTypes DEF InStage, TypeOK
  <2>2. call'[c].stage \in {"idle", "retry"}
    <3>1. call[c] \in CallState /\ call[c].granted \in MaybeToken /\ CookieAfter(c) \in MaybeSession
      BY <1>0, CallTypes, CookieType
    <3>2. Sent(call[c], "retry", call[c].granted, CookieAfter(c)).stage = "retry"
      BY <3>1, SentFacts
    <3>3. Idle.stage = "idle" /\ call'[c] = AfterRefresh(c)
      BY <1>0, <1>7, RefreshedFacts DEF Idle
    <3>4. QED
      BY <3>2, <3>3 DEF AfterRefresh
  <2>3. ASSUME NEW d \in Call \ {c}, TabOf[d] = TabOf[c]
        PROVE  call'[d].stage \notin {"queued", "waiting", "refresh"}
    <3>1. call[d].stage # "refresh" /\ call[d] \in CallState
      BY <1>0, <2>1, <2>3, CallTypes DEF RefreshExclusive, InStage
    <3>2. call'[d] = Resumed(call[d], call[c].granted, CookieAfter(c))
      BY <1>0, <1>7, <2>3, RefreshedFacts
    <3>3. call[c].granted \in MaybeToken /\ CookieAfter(c) \in MaybeSession
      BY <1>0, CallTypes, CookieType
    <3>4. \A stage \in {"first", "retry"} :
            Sent(call[d], stage, call[c].granted, CookieAfter(c)).stage = stage
      BY <3>1, <3>3, SentFacts
    <3>5. QED
      BY <3>1, <3>2, <3>4 DEF Resumed
  <2>4. \A d \in Call : TabOf[d] \in Tab /\ (TabOf[d] # TabOf[c] => call'[d] = call[d])
    BY <1>0, <1>7, RefreshedFacts, CallTypes
  <2>5. QED
    BY <1>0, <2>1, <2>2, <2>3, <2>4 DEF RefreshExclusive, InStage, CallsOf
<1>8. ASSUME TokensExpire PROVE RefreshExclusive'
  BY <1>2, <1>8 DEF TokensExpire
<1>9. ASSUME NEW s \in Session, SessionExpires(s) PROVE RefreshExclusive'
  BY <1>2, <1>9 DEF SessionExpires
<1>10. QED
  BY <1>1, <1>3, <1>4, <1>5, <1>6, <1>7, <1>8, <1>9 DEF Next, Arrive

-----------------------------------------------------------------------------
(* Calm calls. *)

\* The two halves of CalmOK: the refreshes the call may wait for, and the
\* call sent again.
Waits(c) ==
  call[c].stage \in {"first", "refresh", "waiting"} =>
    \A d \in CallsOf(TabOf[c]) : InStage(d, "refresh") => GoodRefresh(d)
SentAgain(c) ==
  call[c].stage = "retry" /\ call[c].kind = "protected" =>
    /\ call[c].wire = "request" => TokenAccepted(call[c].bearer)
    /\ call[c].answer # "unauthorized"

LEMMA CalmNow ==
  ASSUME AInv, NEW x \in Call, calm[x]
  PROVE  Waits(x) /\ SentAgain(x) /\ cookie \in live
  BY DEF AInv, CalmOK, Waits, SentAgain

LEMMA CalmStep ==
  ASSUME AInv, Next, NEW x \in Call, calm'[x]
  PROVE  /\ call'[x].stage # "idle" /\ (call[x].stage = "idle" \/ calm[x])
         /\ cookie' \in live' /\ live \subseteq live'
         /\ generation' = generation /\ faults' = faults
  BY DEF Next, Calm

LEMMA CalmSplit ==
  ASSUME AInv, Next, NEW x \in Call, calm'[x] => Waits(x)' /\ SentAgain(x)'
  PROVE  CalmOK(x)'
  BY CalmStep DEF CalmOK, Waits, SentAgain

\* One call changes, in a calm step.
LEMMA WaitsAfter ==
  ASSUME AInv, NEW c \in Call, NEW x \in Call, calm[x],
         \A d \in Call \ {c} : call'[d] = call[d],
         live \subseteq live', generation' = generation,
         call'[x].stage \in {"first", "refresh", "waiting"} =>
           call[x].stage \in {"first", "refresh", "waiting"},
         (InStage(c, "refresh") => GoodRefresh(c)) /\ InStage(c, "refresh")' => GoodRefresh(c)'
  PROVE  Waits(x)'
<1>1. Waits(x)
  BY CalmNow
<1>2. ASSUME NEW d \in Call \ {c}, InStage(d, "refresh") => GoodRefresh(d)
      PROVE  InStage(d, "refresh")' => GoodRefresh(d)'
  BY <1>2 DEF InStage, GoodRefresh
<1>3. ASSUME NEW d \in CallsOf(TabOf[x]), call'[x].stage \in {"first", "refresh", "waiting"}
      PROVE  InStage(d, "refresh")' => GoodRefresh(d)'
  <2>1. d \in Call /\ (InStage(d, "refresh") => GoodRefresh(d))
    BY <1>1, <1>3 DEF Waits, CallsOf
  <2>2. QED
    BY <1>2, <2>1
<1>4. QED
  BY <1>3 DEF Waits, CallsOf

LEMMA SentAgainKept ==
  ASSUME AInv, NEW x \in Call, calm[x], call'[x] = call[x], generation' = generation
  PROVE  SentAgain(x)'
  BY CalmNow DEF SentAgain, TokenAccepted

\* A calm step of the API: the route of c runs, or its session is looked at.
LEMMA ApiCalm ==
  ASSUME AInv, Next, NEW c \in Call, Api(c), NEW x \in Call, calm'[x]
  PROVE  Waits(x)' /\ SentAgain(x)'
<1>0. /\ TypeOK /\ CallOK(c) /\ call[c] \in CallState /\ call[c].jar \in MaybeSession
  BY CallTypes DEF AInv
<1>1. \A d \in Call : call'[d].stage = call[d].stage
  BY <1>0, StageKept
<1>2. /\ calm[x] /\ Waits(x) /\ SentAgain(x) /\ live \subseteq live' /\ generation' = generation
  BY <1>1, CalmStep, CalmNow
<1>3. \A d \in Call \ {c} : call'[d] = call[d]
  BY <1>0 DEF Api, HandleProtected, HandleLogin, createSessionForUser, CheckSession, GrantAccess, HandleLogout,
              Answers, TypeOK
<1>4. ASSUME InStage(c, "refresh") => GoodRefresh(c), InStage(c, "refresh")'
      PROVE  GoodRefresh(c)'
  <2>1. InStage(c, "refresh") /\ IsRefresh(c) /\ GoodRefresh(c) /\ call[c].kind # "logout"
    BY <1>0, <1>1, <1>4 DEF InStage, IsRefresh, CallOK
  <2>2. CASE CheckSession(c)
    <3>1. SessionAccepted(call[c].jar)
      BY <2>1, <2>2 DEF CheckSession, GoodRefresh, SessionAccepted
    <3>2. call' = [call EXCEPT ![c].wire = "checked"]
      BY <2>2, <3>1 DEF CheckSession
    <3>3. call'[c].wire = "checked"
      BY <1>0, <3>2 DEF TypeOK, CallState
    <3>4. QED
      BY <3>3 DEF GoodRefresh
  <2>3. CASE GrantAccess(c)
    <3>1. [session |-> call[c].jar, generation |-> generation] \in MaybeToken
      BY <1>0, <2>3 DEF GrantAccess, CallOK, MaybeToken, Token, MaybeSession, TypeOK
    <3>2. /\ call'[c].wire = "response" /\ call'[c].answer = "ok"
          /\ call'[c].granted = [session |-> call[c].jar, generation |-> generation]
      BY <1>0, <2>3, <3>1, Answered DEF GrantAccess, Answer
    <3>3. QED
      BY <1>2, <3>2 DEF GoodRefresh
  <2>4. QED
    BY <2>1, <2>2, <2>3 DEF Api, HandleProtected, HandleLogin, HandleLogout
<1>5. Waits(x)'
  BY <1>1, <1>2, <1>3, <1>4, WaitsAfter
<1>6. CASE x # c
  BY <1>2, <1>3, <1>5, <1>6, SentAgainKept
<1>7. CASE x = c
  <2>1. CASE call[c].stage # "retry" \/ call[c].kind # "protected"
    <3>1. call'[c].kind = call[c].kind
      <4>1. ASSUME NEW answer, NEW granted, Answers(c, answer, granted)
            PROVE  call'[c].kind = call[c].kind
        BY <1>0, <4>1 DEF Answers, TypeOK, CallState
      <4>2. QED
        BY <1>0, <4>1 DEF Api, HandleProtected, HandleLogin, createSessionForUser, CheckSession, GrantAccess,
                          HandleLogout, TypeOK, CallState
    <3>2. QED
      BY <1>1, <1>5, <1>7, <2>1, <3>1 DEF SentAgain
  <2>2. CASE call[c].stage = "retry" /\ call[c].kind = "protected"
    <3>1. HandleProtected(c) /\ TokenAccepted(call[c].bearer)
      BY <1>0, <1>2, <1>7, <2>2
      DEF Api, HandleProtected, HandleLogin, createSessionForUser, CheckSession, GrantAccess, HandleLogout,
          IsRefresh, InStage, CallOK, SentAgain
    <3>2. call'[c] = [call[c] EXCEPT !.wire = "response", !.answer = "ok",
                                     !.runs = call[c].runs + 1]
      BY <1>0, <3>1 DEF HandleProtected, TypeOK
    <3>3. call'[c].wire = "response" /\ call'[c].answer = "ok"
      BY <1>0, <3>2 DEF CallState
    <3>4. QED
      BY <1>5, <1>7, <3>3 DEF SentAgain
  <2>3. QED
    BY <2>1, <2>2
<1>8. QED
  BY <1>6, <1>7

LEMMA StartCalm ==
  ASSUME AInv, Next, NEW c \in Call, NEW kind \in MayBe[c], Start(c, kind),
         NEW x \in Call, calm'[x]
  PROVE  Waits(x)' /\ SentAgain(x)'
<1>0. TypeOK /\ RefreshExclusive
  BY DEF AInv
<1>1. /\ call[x].stage = "idle" \/ calm[x]
      /\ live \subseteq live' /\ generation' = generation
  BY CalmStep
<1>2. call[c].stage = "idle" /\ \A d \in Call \ {c} : call'[d] = call[d]
  BY <1>0 DEF Start, InStage, TypeOK
<1>3. \/ call'[c].stage = "queued"
      \/ call'[c].stage = "first" /\ ~locked[TabOf[c]]
  <2>1. CASE locked[TabOf[c]]
    <3>1. call'[c] = [[Idle EXCEPT !.kind = kind] EXCEPT !.stage = "queued"]
      BY <1>0, <2>1 DEF Start, TypeOK
    <3>2. QED
      BY <3>1 DEF Idle
  <2>2. CASE ~locked[TabOf[c]]
    <3>1. call'[c] = Sent([Idle EXCEPT !.kind = kind], "first", store[TabOf[c]], cookie)
      BY <1>0, <2>2 DEF Start, TypeOK
    <3>2. [Idle EXCEPT !.kind = kind] \in CallState
      BY IdleType DEF CallState
    <3>3. QED
      BY <1>0, <2>2, <3>1, <3>2, SentFacts, CallTypes
  <2>3. QED
    BY <2>1, <2>2
<1>4. CASE x = c
  <2>1. SentAgain(x)'
    BY <1>3, <1>4 DEF SentAgain
  <2>2. ASSUME call'[c].stage = "first", NEW d \in Call, TabOf[d] = TabOf[c]
        PROVE  ~InStage(d, "refresh")'
    BY <1>0, <1>2, <1>3, <2>2 DEF RefreshExclusive, InStage
  <2>3. Waits(x)'
    BY <1>3, <1>4, <2>2 DEF Waits, CallsOf
  <2>4. QED
    BY <2>1, <2>3
<1>5. CASE x # c
  <2>1. call'[x] = call[x]
    BY <1>2, <1>5
  <2>2. calm[x]
    BY <1>1, <2>1, CalmStep
  <2>3. ~InStage(c, "refresh")'
    BY <1>3 DEF InStage
  <2>4. QED
    BY <1>1, <1>2, <2>1, <2>2, <2>3, WaitsAfter, SentAgainKept
<1>6. QED
  BY <1>4, <1>5

LEMMA FinishCalm ==
  ASSUME AInv, Next, NEW c \in Call, Finish(c), NEW x \in Call, calm'[x]
  PROVE  Waits(x)' /\ SentAgain(x)'
<1>1. /\ call[x].stage = "idle" \/ calm[x]
      /\ live \subseteq live' /\ generation' = generation /\ call'[x].stage # "idle"
  BY CalmStep
<1>2. call'[c].stage = "idle" /\ \A d \in Call \ {c} : call'[d] = call[d]
  BY DEF Finish, AInv, TypeOK, Idle
<1>3. x # c /\ call'[x] = call[x] /\ ~InStage(c, "refresh")'
  BY <1>1, <1>2 DEF InStage
<1>4. QED
  BY <1>1, <1>2, <1>3, WaitsAfter, SentAgainKept

LEMMA RefusedCalm ==
  ASSUME AInv, Next, NEW c \in Call, Refused(c), NEW x \in Call, calm'[x]
  PROVE  Waits(x)' /\ SentAgain(x)'
<1>0. /\ TypeOK /\ call[c] \in CallState
      /\ call[c].stage = "first" /\ \A d \in Call \ {c} : call'[d] = call[d]
  BY CallTypes DEF AInv, Refused, Retried, InStage, TypeOK
<1>1. /\ call[x].stage = "idle" \/ calm[x]
      /\ cookie' \in live' /\ live \subseteq live' /\ generation' = generation
      /\ call'[x].stage # "idle"
  BY CalmStep
<1>2. calm[x]
  BY <1>0, <1>1
<1>3. \/ call'[c].stage = "waiting"
      \/ /\ call'[c].stage = "refresh" /\ call'[c].wire = "request" /\ call'[c].jar = cookie
  <2>1. CASE MutexBusy(TabOf[c])
    <3>1. call'[c] = [call[c] EXCEPT !.stage = "waiting", !.wire = "none", !.answer = "none"]
      BY <1>0, <2>1 DEF Refused, TypeOK
    <3>2. QED
      BY <1>0, <3>1 DEF CallState
  <2>2. CASE ~MutexBusy(TabOf[c])
    <3>1. call'[c] = Sent(call[c], "refresh", store[TabOf[c]], cookie)
      BY <1>0, <2>2 DEF Refused, TypeOK
    <3>2. QED
      BY <1>0, <3>1, SentFacts, CallTypes
  <2>3. QED
    BY <2>1, <2>2
<1>4. InStage(c, "refresh")' => GoodRefresh(c)'
  BY <1>1, <1>3 DEF InStage, GoodRefresh, Refused
<1>5. Waits(x)'
  BY <1>0, <1>1, <1>2, <1>3, <1>4, WaitsAfter
<1>6. SentAgain(x)'
  <2>1. CASE x = c
    BY <1>3, <2>1 DEF SentAgain
  <2>2. CASE x # c
    BY <1>0, <1>1, <1>2, <2>2, SentAgainKept
  <2>3. QED
    BY <2>1, <2>2
<1>7. QED
  BY <1>5, <1>6

LEMMA RefreshedCalm ==
  ASSUME AInv, Next, NEW c \in Call, Refreshed(c), NEW x \in Call, calm'[x]
  PROVE  Waits(x)' /\ SentAgain(x)'
<1>0. /\ TypeOK /\ RefreshExclusive /\ CallOK(c) /\ call[c] \in CallState /\ call[x] \in CallState
      /\ call[c].granted \in MaybeToken /\ CookieAfter(c) \in MaybeSession
      /\ call[c].stage = "refresh" /\ call[c].wire = "response"
  BY CallTypes, CookieType DEF AInv, Refreshed, InStage
<1>1. /\ call[x].stage = "idle" \/ calm[x]
      /\ live \subseteq live' /\ generation' = generation /\ call'[x].stage # "idle"
  BY CalmStep
<1>2. call'[c].stage \in {"idle", "retry"} /\ call'[c] = AfterRefresh(c)
  <2>1. Sent(call[c], "retry", call[c].granted, CookieAfter(c)).stage = "retry"
    BY <1>0, SentFacts
  <2>2. Idle.stage = "idle" /\ call'[c] = AfterRefresh(c)
    BY <1>0, RefreshedFacts DEF Idle
  <2>3. QED
    BY <2>1, <2>2 DEF AfterRefresh
<1>3. ASSUME NEW d \in Call \ {c}
      PROVE  call'[d] = IF TabOf[d] = TabOf[c]
                        THEN Resumed(call[d], call[c].granted, CookieAfter(c)) ELSE call[d]
  BY <1>0, RefreshedFacts
<1>4. calm[x]
  <2>1. CASE x = c
    BY <1>0, <1>1, <2>1
  <2>2. CASE x # c /\ call[x].stage = "idle"
    BY <1>1, <1>3, <2>2 DEF Resumed
  <2>3. QED
    BY <1>1, <2>1, <2>2
<1>5. Waits(x) /\ SentAgain(x)
  BY <1>4, CalmNow
\* No refresh is left in the tab.
<1>6. ASSUME NEW d \in Call, TabOf[d] = TabOf[c] PROVE ~InStage(d, "refresh")'
  <2>1. CASE d = c
    BY <1>2, <2>1 DEF InStage
  <2>2. CASE d # c
    <3>1. call[d].stage # "refresh" /\ call[d] \in CallState
      BY <1>0, <1>6, <2>2, CallTypes DEF RefreshExclusive, InStage
    <3>2. \A stage \in {"first", "retry"} :
            Sent(call[d], stage, call[c].granted, CookieAfter(c)).stage = stage
      BY <1>0, <3>1, SentFacts
    <3>3. QED
      BY <1>3, <1>6, <2>2, <3>1, <3>2 DEF Resumed, InStage
  <2>3. QED
    BY <2>1, <2>2
\* Who waited for the refresh, or made it, is sent the token it brought.
<1>7. ASSUME TabOf[x] = TabOf[c], call[x].stage \in {"refresh", "waiting"}, call[c].answer = "ok",
             call'[x] = Sent(call[x], "retry", call[c].granted, CookieAfter(c))
      PROVE  SentAgain(x)'
  <2>1. GoodRefresh(c)
    BY <1>0, <1>5, <1>7 DEF Waits, CallsOf, InStage
  <2>2. call[c].granted # NoToken /\ call[c].granted.generation = generation
    BY <1>0, <1>7, <2>1 DEF GoodRefresh, CallOK, IsRefresh, InStage
  <2>3. /\ call'[x].answer = "none" /\ call'[x].kind = call[x].kind
        /\ call[x].kind = "protected" => call'[x].bearer = call[c].granted
    BY <1>0, <1>7, SentFacts
  <2>4. QED
    BY <1>1, <2>2, <2>3 DEF SentAgain, TokenAccepted
<1>8. CASE x = c
  <2>1. call[c].answer = "ok"
    BY <1>1, <1>2, <1>8 DEF AfterRefresh, Idle
  <2>2. SentAgain(x)'
    BY <1>0, <1>2, <1>7, <1>8, <2>1 DEF AfterRefresh
  <2>3. QED
    BY <1>2, <1>8, <2>2 DEF Waits
<1>9. CASE x # c /\ TabOf[x] = TabOf[c]
  <2>1. Waits(x)'
    BY <1>6, <1>9 DEF Waits, CallsOf
  <2>2. CASE call[x].stage = "waiting"
    <3>1. call'[x] = Sent(call[x], "retry", call[c].granted, CookieAfter(c))
      BY <1>3, <1>9, <2>2 DEF Resumed
    <3>2. call[c].answer = "ok"
      BY <1>0, <1>5, <1>9, <2>2 DEF Waits, CallsOf, InStage, GoodRefresh
    <3>3. QED
      BY <1>7, <1>9, <2>1, <2>2, <3>1, <3>2
  <2>3. CASE call[x].stage = "queued"
    <3>1. call'[x].stage = "first"
      BY <1>0, <1>3, <1>9, <2>3, SentFacts DEF Resumed
    <3>2. QED
      BY <2>1, <3>1 DEF SentAgain
  <2>4. CASE call[x].stage \notin {"queued", "waiting"}
    <3>1. call'[x] = call[x]
      BY <1>3, <1>9, <2>4 DEF Resumed
    <3>2. QED
      BY <1>1, <1>4, <2>1, <3>1, SentAgainKept
  <2>5. QED
    BY <2>2, <2>3, <2>4
<1>10. CASE TabOf[x] # TabOf[c]
  <2>1. call'[x] = call[x]
    BY <1>3, <1>10
  <2>2. ASSUME NEW d \in Call, TabOf[d] = TabOf[x], InStage(d, "refresh") => GoodRefresh(d)
        PROVE  InStage(d, "refresh")' => GoodRefresh(d)'
    <3>1. call'[d] = call[d]
      BY <1>3, <1>10, <2>2
    <3>2. QED
      BY <1>1, <2>2, <3>1 DEF InStage, GoodRefresh
  <2>3. Waits(x)'
    BY <1>5, <2>1, <2>2 DEF Waits, CallsOf
  <2>4. QED
    BY <1>1, <1>4, <2>1, <2>3, SentAgainKept
<1>11. QED
  BY <1>8, <1>9, <1>10

LEMMA StepCalm ==
  ASSUME AInv, Next, NEW x \in Call
  PROVE  CalmOK(x)'
<1> SUFFICES ASSUME calm'[x] PROVE Waits(x)' /\ SentAgain(x)'
  BY CalmSplit
<1>1. /\ live \subseteq live' /\ generation' = generation /\ faults' = faults
      /\ generation \in Nat /\ faults \in Nat
  BY CalmStep DEF AInv, TypeOK
<1>2. /\ ~TokensExpire /\ \A s \in Session : ~SessionExpires(s)
      /\ \A t \in Tab : ~Reload(t)
      /\ \A c \in Call : ~Lose(c)
  BY <1>1 DEF TokensExpire, SessionExpires, Reload, Lose
<1>3. QED
  BY <1>2, ApiCalm, StartCalm, FinishCalm, RefusedCalm, RefreshedCalm DEF Next, Arrive

-----------------------------------------------------------------------------
LEMMA InitAInv == Init => AInv
<1> SUFFICES ASSUME Init PROVE AInv
  OBVIOUS
<1>1. TypeOK
  BY IdleType DEF Init, TypeOK, MaybeToken
<1>2. /\ \A c \in Call : call[c] = Idle /\ ~calm[c]
      /\ \A t \in Tab : ~locked[t]
      /\ cookie = NoSession /\ created = 0
  BY DEF Init
<1>3. ASSUME NEW c \in Call PROVE PerCall(c) /\ CalmOK(c)
  BY <1>2 DEF Idle, PerCall, CallOK, CalmOK, Runs, Ended, Known, IsRefresh, InStage,
              NoSession, NoToken
<1>4. RefreshExclusive /\ Known(cookie)
  BY <1>2 DEF RefreshExclusive, InStage, Idle, Known, NoSession
<1>5. QED
  BY <1>1, <1>3, <1>4 DEF AInv, PerCall, Runs, Ended, RunsAtMostOnce, EndedSessionGrantsNothing

LEMMA StepAInv == AInv /\ [Next]_vars => AInv'
<1> SUFFICES ASSUME AInv, [Next]_vars PROVE AInv'
  OBVIOUS
<1>1. CASE Next
  <2>1. TypeOK' /\ RefreshExclusive'
    BY <1>1, StepType, StepExclusive
  <2>2. \A x \in Call : PerCall(x)' /\ CalmOK(x)'
    BY <1>1, StepPerCall, StepCalm
  <2>3. Known(cookie)'
    <3>1. CASE Call = {}
      BY <1>1, <3>1
      DEF AInv, Known, Next, TokensExpire, SessionExpires, Reload
    <3>2. CASE Call # {}
      BY <1>1, <3>2, StepPerCall
    <3>3. QED
      BY <3>1, <3>2
  <2>4. QED
    BY <2>1, <2>2, <2>3
    DEF AInv, PerCall, Runs, Ended, RunsAtMostOnce, EndedSessionGrantsNothing
<1>2. CASE UNCHANGED vars
  BY <1>2 DEF vars, AInv, TypeOK, Known, RefreshExclusive, RunsAtMostOnce,
     EndedSessionGrantsNothing, CallOK, CalmOK, GoodRefresh, TokenAccepted, IsRefresh,
     InStage, CallsOf
<1>3. QED
  BY <1>1, <1>2

\* Whatever the calls of a browser do at once: the invariant from which the
\* rest follows (baseQueryWithAuth, auth.service.ts).
THEOREM AuthInvariant == Spec => []AInv
<1>1. QED
  BY InitAInv, StepAInv, PTL DEF Spec

\* Each tab has at most one refresh in progress, its mutex is held exactly as
\* long, and nobody waits for a mutex that is free (baseQueryWithAuth).
THEOREM OneRefreshPerTab == Spec => []RefreshExclusive
<1>1. AInv => RefreshExclusive
  BY DEF AInv
<1>2. QED
  BY <1>1, AuthInvariant, PTL

\* Sending a call a second time never runs its route a second time
\* (baseQueryWithAuth retries what was refused).
THEOREM NothingRunsTwice == Spec => []RunsAtMostOnce
<1>1. AInv => RunsAtMostOnce
  BY DEF AInv
<1>2. QED
  BY <1>1, AuthInvariant, PTL

\* A refresh sent after its session ended brings no token (refreshSession).
THEOREM EndedGrantsNothing == Spec => []EndedSessionGrantsNothing
<1>1. AInv => EndedSessionGrantsNothing
  BY DEF AInv
<1>2. QED
  BY <1>1, AuthInvariant, PTL

\* While sessions and tokens last and nothing fails, no call of a signed-in
\* page is refused in the end, however its 401 and the refreshes overlap
\* (baseQueryWithAuth, refreshSession, requireAuth).
THEOREM NobodyRefusedWithoutCause == Spec => []RefusedOnlyForCause
<1>1. AInv => RefusedOnlyForCause
  <2> SUFFICES ASSUME AInv, NEW c \in Call, TurnedAway(c), calm[c] PROVE FALSE
    BY DEF RefusedOnlyForCause
  <2>1. Waits(c) /\ SentAgain(c)
    BY CalmNow
  <2>2. CASE InStage(c, "retry") /\ call[c].answer = "unauthorized"
    BY <2>1, <2>2 DEF SentAgain, InStage, TurnedAway
  <2>3. CASE InStage(c, "refresh") /\ call[c].answer # "ok"
    BY <2>1, <2>3 DEF Waits, CallsOf, InStage, TurnedAway, GoodRefresh
  <2>4. QED
    BY <2>2, <2>3 DEF TurnedAway
<1>2. QED
  BY <1>1, AuthInvariant, PTL
=============================================================================
