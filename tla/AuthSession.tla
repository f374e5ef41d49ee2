---------------------------- MODULE AuthSession -----------------------------
(***************************************************************************)
(* Sign-in sessions: one browser, whose tabs share the refresh cookie but  *)
(* keep their access token each for itself, and the session documents of   *)
(* the API.  The HTTP calls of a tab run concurrently through              *)
(* baseQueryWithAuth: a call refused with 401 takes the tab's mutex,       *)
(* refreshes the access token and is sent a second time; calls refused     *)
(* meanwhile wait for the mutex and are sent a second time too.            *)
(*                                                                         *)
(* An action is one turn of the tab's event loop (a response arrives), one *)
(* step of the API between two database calls, or something from outside   *)
(* (the user, time, the network).  What the code does in microtasks after  *)
(* a response belongs to the step: releasing the mutex resumes the callers *)
(* that wait for it before anything else arrives.                          *)
(*                                                                         *)
(* A session stands for its account too: which account it is never         *)
(* matters, only that two logins are two sessions.                         *)
(***************************************************************************)
EXTENDS Naturals

CONSTANTS
  Tab,          \* tabs of the browser; each has its own store and mutex
  Call,         \* HTTP calls that may be in progress at once
  TabOf,        \* the tab that makes the call
  MayBe,        \* bound: the kinds of call it may be
  MaxSessions,  \* bound: successful logins
  MaxExpiries,  \* bound: how often access tokens reach their end
  MaxFaults     \* bound: lost requests and answers, failed updates, reloads

\* "protected" is any request to a route behind requireAuth, "restore" the
\* refresh that the application makes on its own account; registering is a
\* "login" too.
Kind == {"protected", "login", "logout", "restore"}

ASSUME AuthAssumption ==
  /\ TabOf \in [Call -> Tab] /\ MayBe \in [Call -> SUBSET Kind]
  /\ MaxSessions \in Nat /\ MaxExpiries \in Nat /\ MaxFaults \in Nat

Session == 1..MaxSessions
NoSession == 0

VARIABLES
  created,     \* how many sessions have been created: 1..created
  live,        \* the sessions neither revoked nor expired
  generation,  \* access tokens of an earlier generation have expired
  cookie,      \* the refresh cookie of the browser, by its session
  store,       \* store[t]: credentials in the Redux store of tab t
  locked,      \* locked[t]: the refresh mutex of tab t
  restore,     \* restore[t]: why the restoreSession query of t must run; "mount"
               \* until it has run once (bootstrapped is still false)
  call,        \* call[c]: where call c is
  faults,
  calm         \* history: see Calm

vars == <<created, live, generation, cookie, store, locked, restore, call, faults, calm>>

-----------------------------------------------------------------------------
(* Tokens, calls. *)

Token == [session : Session, generation : 0..MaxExpiries]
NoToken == [session |-> NoSession, generation |-> 0]

\* Where baseQueryWithAuth is with the call.
Stage == {"idle",
          "queued",    \* first waitForUnlock
          "first",     \* the request as it was made
          "refresh",   \* holds the mutex, POST /auth/refresh
          "waiting",   \* refused, second waitForUnlock
          "retry"}     \* the request again

\* Where the HTTP request of the stage is.
Wire == {"none", "request", "checked", "response"}
Answer == {"none", "ok", "unauthorized", "failed"}

CallState ==
  [stage : Stage, kind : Kind, wire : Wire, answer : Answer,
   bearer : Token \union {NoToken},      \* Authorization header of the request
   jar : Session \union {NoSession},     \* refresh cookie of the request
   granted : Token \union {NoToken},     \* access token in the answer
   late : BOOLEAN,                       \* history: the session was dead at sending
   runs : 0..2]                          \* history: how often the route ran

Idle == [stage |-> "idle", kind |-> "protected", wire |-> "none", answer |-> "none",
         bearer |-> NoToken, jar |-> NoSession, granted |-> NoToken,
         late |-> FALSE, runs |-> 0]

CallsOf(t) == {c \in Call : TabOf[c] = t}
InStage(c, stage) == call[c].stage = stage

\* POST /auth/refresh, made by the application or in the middle of a call.
IsRefresh(c) == InStage(c, "refresh") \/ call[c].kind = "restore"

\* The call k as it is sent in the given stage, with what the store and the
\* cookie jar hold at that moment.
Sent(k, stage, credentials, jar) ==
  LET refresh == stage = "refresh" \/ k.kind = "restore"
      carriesCookie == refresh \/ k.kind = "logout"
  IN [k EXCEPT !.stage = stage, !.wire = "request", !.answer = "none",
               !.granted = NoToken,
               !.bearer = IF k.kind = "protected" /\ ~refresh THEN credentials ELSE NoToken,
               !.jar = IF carriesCookie THEN jar ELSE NoSession,
               !.late = refresh /\ jar \notin live]

Init ==
  /\ created = 0 /\ live = {} /\ generation = 0
  /\ cookie = NoSession
  /\ store = [t \in Tab |-> NoToken]
  /\ locked = [t \in Tab |-> FALSE]
  /\ restore = [t \in Tab |-> "mount"]
  /\ call = [c \in Call |-> Idle]
  /\ faults = 0
  /\ calm = [c \in Call |-> FALSE]

-----------------------------------------------------------------------------
(* The API. *)

Answers(c, answer, granted) ==
  call' = [call EXCEPT ![c].wire = "response", ![c].answer = answer, ![c].granted = granted]

\* requireAuth looks at the signature and the expiry of the access token; the
\* session it names is not looked up.
TokenAccepted(token) == token # NoToken /\ token.generation = generation

HandleProtected(c) ==
  /\ call[c].wire = "request" /\ call[c].kind = "protected" /\ ~IsRefresh(c)
  /\ IF TokenAccepted(call[c].bearer)
     THEN call' = [call EXCEPT ![c].wire = "response", ![c].answer = "ok",
                               ![c].runs = @ + 1]
     ELSE Answers(c, "unauthorized", NoToken)
  /\ UNCHANGED <<created, live, generation, cookie, store, locked, restore, faults>>

\* A session document, then the tokens.
createSessionForUser(c) ==
  /\ created < MaxSessions
  /\ created' = created + 1 /\ live' = live \union {created + 1}
  /\ Answers(c, "ok", [session |-> created + 1, generation |-> generation])

\* Right or wrong password.
HandleLogin(c) ==
  /\ call[c].wire = "request" /\ call[c].kind = "login" /\ ~IsRefresh(c)
  /\ \/ createSessionForUser(c)
     \/ Answers(c, "unauthorized", NoToken) /\ UNCHANGED <<created, live>>
  /\ UNCHANGED <<generation, cookie, store, locked, restore, faults>>

\* The session is found, not revoked and not expired, and its hash matches.
SessionAcceptedIfKnown(s) == s \in 1..created
SessionAccepted(s) == s \in live

CheckSession(c) ==
  /\ call[c].wire = "request" /\ IsRefresh(c)
  /\ IF SessionAccepted(call[c].jar)
     THEN call' = [call EXCEPT ![c].wire = "checked"]
     ELSE Answers(c, "unauthorized", NoToken)
  /\ UNCHANGED <<created, live, generation, cookie, store, locked, restore, faults>>

\* The user is loaded and the access token signed.  The refresh token is
\* the one that came: it is not rotated.
GrantAccess(c) ==
  /\ call[c].wire = "checked"
  /\ Answers(c, "ok", [session |-> call[c].jar, generation |-> generation])
  /\ UNCHANGED <<created, live, generation, cookie, store, locked, restore, faults>>

\* Revoking a session again, or one that is gone, changes nothing.
revokeSession(s) == live' = live \ {s}

\* A revocation that fails is swallowed: the answer is the same.
HandleLogout(c) ==
  /\ call[c].wire = "request" /\ call[c].kind = "logout"
  /\ Answers(c, "ok", NoToken)
  /\ \/ revokeSession(call[c].jar) /\ faults' = faults
     \/ /\ faults < MaxFaults /\ faults' = faults + 1
        /\ live' = live
  /\ UNCHANGED <<created, generation, cookie, store, locked, restore>>

-----------------------------------------------------------------------------
(* The tab: calls begin. *)

\* Signed-in pages make protected calls and offer logout.
ProtectedPage(t) == store[t] # NoToken

\* The sign-in pages send a signed-in user away.
SignInPage(t) == store[t] = NoToken /\ restore[t] # "mount"

\* The query restoreSession is one cache entry: it runs again only when it is
\* not running, unless the API state was reset.
RestoreDue(t) ==
  /\ restore[t] # "no"
  /\ restore[t] \in {"mount", "invalidated"} =>
       \A d \in CallsOf(t) : call[d].kind = "restore" => InStage(d, "idle")

Offered(t, kind) ==
  CASE kind \in {"protected", "logout"} -> ProtectedPage(t)
    [] kind = "login" -> SignInPage(t)
    [] kind = "restore" -> RestoreDue(t)

Start(c, kind) ==
  LET t == TabOf[c]
      k == [Idle EXCEPT !.kind = kind]
  IN /\ InStage(c, "idle") /\ Offered(t, kind)
     /\ call' = [call EXCEPT ![c] = IF locked[t] THEN [k EXCEPT !.stage = "queued"]
                                    ELSE Sent(k, "first", store[t], cookie)]
     /\ restore' = IF kind = "restore" /\ restore[t] # "mount"
                   THEN [restore EXCEPT ![t] = "no"] ELSE restore
     /\ UNCHANGED <<created, live, generation, cookie, store, locked, faults>>

-----------------------------------------------------------------------------
(* The tab: answers arrive. *)

\* Set-Cookie of login and refresh, clearCookie of logout.
CookieAfter(c) ==
  IF call[c].answer # "ok" THEN cookie
  ELSE IF call[c].kind = "logout" THEN NoSession
  ELSE IF call[c].granted # NoToken THEN call[c].granted.session
  ELSE cookie

\* setCredentials or clearCredentials when the call is over.
StoreAfter(c) ==
  LET k == call[c]
  IN [store EXCEPT ![TabOf[c]] =
        IF k.kind = "logout" THEN NoToken
        ELSE IF k.kind = "restore" \/ (k.kind = "login" /\ k.answer = "ok") THEN k.granted
        ELSE @]

\* login and logout invalidate the restored session, whatever their answer;
\* logout also resets the API state, which makes the query run anew.
RestoreAfter(c) ==
  LET kind == call[c].kind
  IN [restore EXCEPT ![TabOf[c]] =
        IF kind = "login" THEN "invalidated"
        ELSE IF kind = "logout" THEN "reset"
        ELSE IF kind = "restore" /\ @ = "mount" THEN "no"
        ELSE @]

RetriedOnAnyError(c) ==
  InStage(c, "first") /\ call[c].answer # "ok" /\ call[c].kind # "restore"
Retried(c) ==
  InStage(c, "first") /\ call[c].answer = "unauthorized" /\ call[c].kind # "restore"

\* The call is over: its answer goes to the caller.
Finish(c) ==
  /\ call[c].wire = "response" /\ ~InStage(c, "refresh") /\ ~Retried(c)
  /\ call' = [call EXCEPT ![c] = Idle]
  /\ cookie' = CookieAfter(c) /\ store' = StoreAfter(c) /\ restore' = RestoreAfter(c)
  /\ UNCHANGED <<created, live, generation, locked, faults>>

MutexBusyNever(t) == FALSE
MutexBusy(t) == locked[t]

\* Refused: whoever finds the mutex free refreshes, the others wait.
Refused(c) ==
  LET t == TabOf[c]
  IN /\ call[c].wire = "response" /\ Retried(c)
     /\ IF MutexBusy(t)
        THEN /\ call' = [call EXCEPT ![c].stage = "waiting", ![c].wire = "none",
                                     ![c].answer = "none"]
             /\ locked' = locked
        ELSE /\ call' = [call EXCEPT ![c] = Sent(@, "refresh", store[t], cookie)]
             /\ locked' = [locked EXCEPT ![t] = TRUE]
     /\ UNCHANGED <<created, live, generation, cookie, store, restore, faults>>

\* release() resumes every caller of the tab that waits for the mutex, with
\* the credentials and the cookie as they are then.
ResumedAsBefore(k, credentials, jar) ==
  IF k.stage = "queued" THEN Sent(k, "first", credentials, jar)
  ELSE IF k.stage = "waiting" THEN Sent(k, "retry", k.bearer, jar) ELSE k
Resumed(k, credentials, jar) ==
  IF k.stage = "queued" THEN Sent(k, "first", credentials, jar)
  ELSE IF k.stage = "waiting" THEN Sent(k, "retry", credentials, jar) ELSE k

\* The failing refresh clears the credentials and leaves through the same
\* finally as the success.
LockedAfterFailure(ok) == ~ok
LockAfter(ok) == FALSE

Refreshed(c) ==
  LET t == TabOf[c]
      ok == call[c].answer = "ok"
      next == IF ok THEN Sent(call[c], "retry", call[c].granted, CookieAfter(c)) ELSE Idle
  IN /\ call[c].wire = "response" /\ InStage(c, "refresh")
     /\ cookie' = CookieAfter(c)
     /\ store' = [store EXCEPT ![t] = call[c].granted]
     /\ locked' = [locked EXCEPT ![t] = LockAfter(ok)]
     /\ call' = [d \in Call |->
          IF d = c THEN next
          ELSE IF TabOf[d] = t /\ ~LockAfter(ok)
               THEN Resumed(call[d], call[c].granted, CookieAfter(c))
               ELSE call[d]]
     /\ restore' = IF ok THEN restore ELSE RestoreAfter(c)
     /\ UNCHANGED <<created, live, generation, faults>>

-----------------------------------------------------------------------------
(* Time, network, user. *)

SessionExpires(s) ==
  /\ s \in live /\ live' = live \ {s}
  /\ UNCHANGED <<created, generation, cookie, store, locked, restore, call, faults>>

TokensExpire ==
  /\ generation < MaxExpiries /\ generation' = generation + 1
  /\ UNCHANGED <<created, live, cookie, store, locked, restore, call, faults>>

\* The request or its answer is lost, or the API fails: no 401.
Lose(c) ==
  /\ call[c].wire # "none" /\ call[c].answer # "failed"
  /\ faults < MaxFaults /\ faults' = faults + 1
  /\ Answers(c, "failed", NoToken)
  /\ UNCHANGED <<created, live, generation, cookie, store, locked, restore>>

Reload(t) ==
  /\ faults < MaxFaults /\ faults' = faults + 1
  /\ store' = [store EXCEPT ![t] = NoToken]
  /\ locked' = [locked EXCEPT ![t] = FALSE]
  /\ restore' = [restore EXCEPT ![t] = "mount"]
  /\ call' = [c \in Call |-> IF TabOf[c] = t THEN Idle ELSE call[c]]
  /\ UNCHANGED <<created, live, generation, cookie>>

-----------------------------------------------------------------------------
(* Since call c began, the cookie has named a live session, no session has *)
(* ended, no access token has expired and nothing has failed.              *)
Calm ==
  calm' = [c \in Call |->
             /\ call'[c].stage # "idle"
             /\ call[c].stage = "idle" \/ calm[c]
             /\ cookie' \in live' /\ live \subseteq live'
             /\ generation' = generation /\ faults' = faults]

Api(c) ==
  HandleProtected(c) \/ HandleLogin(c) \/ CheckSession(c) \/ GrantAccess(c) \/ HandleLogout(c)
Arrive(c) == Finish(c) \/ Refused(c) \/ Refreshed(c)

Next ==
  /\ \/ TokensExpire
     \/ \E s \in Session : SessionExpires(s)
     \/ \E t \in Tab : Reload(t)
     \/ \E c \in Call : \/ Api(c) \/ Arrive(c) \/ Lose(c)
                        \/ \E kind \in MayBe[c] : Start(c, kind)
  /\ Calm

Spec == Init /\ [][Next]_vars

\* Requests reach the API, which answers, and answers or errors reach the
\* tab; nobody is obliged to call.
FairSpec == Spec /\ \A c \in Call : WF_vars((Api(c) \/ Arrive(c)) /\ Calm)

-----------------------------------------------------------------------------
(* Properties. *)

TypeOK ==
  /\ created \in 0..MaxSessions /\ live \subseteq 1..created
  /\ generation \in 0..MaxExpiries /\ faults \in 0..MaxFaults
  /\ cookie \in Session \union {NoSession}
  /\ store \in [Tab -> Token \union {NoToken}]
  /\ locked \in [Tab -> BOOLEAN]
  /\ restore \in [Tab -> {"no", "mount", "invalidated", "reset"}]
  /\ call \in [Call -> CallState]
  /\ calm \in [Call -> BOOLEAN]

\* A tab's mutex is held by exactly one call, the one that refreshes; calls
\* wait only for such a call (baseQueryWithAuth).
RefreshExclusive ==
  /\ \A c, d \in Call : InStage(c, "refresh") /\ InStage(d, "refresh") /\ TabOf[c] = TabOf[d]
                          => c = d
  /\ \A c \in Call : InStage(c, "refresh") => locked[TabOf[c]]
  /\ \A t \in Tab : locked[t] => \E c \in CallsOf(t) : InStage(c, "refresh")
  /\ \A c \in Call : call[c].stage \in {"queued", "waiting"} => locked[TabOf[c]]

\* The route of a call runs at most once, though the call may be sent twice:
\* a second auction, order or payment attempt is never the doing of the retry
\* (baseQueryWithAuth retries refused requests only).
RunsAtMostOnce == \A c \in Call : call[c].runs <= 1

\* A call of a signed-in page is turned away only for a cause: while it was
\* in progress its session ended, a token expired or something failed.  However
\* the 401s of several calls and the refresh overlap, nobody is left with an
\* old token (baseQueryWithAuth, refreshSession).
TurnedAway(c) ==
  /\ call[c].kind = "protected" /\ call[c].wire = "response"
  /\ \/ InStage(c, "retry") /\ call[c].answer = "unauthorized"
     \/ InStage(c, "refresh") /\ call[c].answer # "ok"
RefusedOnlyForCause == \A c \in Call : TurnedAway(c) => ~calm[c]

\* A refresh sent after its session was revoked or expired gets no token;
\* only one that was on its way may still get one (refreshSession checks the
\* session and signs two awaits later).
EndedSessionGrantsNothing ==
  \A c \in Call : IsRefresh(c) /\ call[c].late => call[c].granted = NoToken

\* The inductive invariant.  Known: no browser, token or request names a
\* session that was never created, so a session that has ended never comes
\* back under its old name.  A refresh is GoodRefresh when it is bound to
\* bring a valid token; every refresh that began while a calm call was in
\* progress is one, and that call waits for no other.
Known(s) == s \in 0..created

CallOK(c) ==
  LET k == call[c]
  IN /\ Known(k.jar) /\ Known(k.granted.session)
     /\ k.wire = "none" <=> k.stage \in {"idle", "queued", "waiting"}
     /\ k.wire = "response" <=> k.answer # "none"
     /\ k.wire = "checked" => IsRefresh(c) /\ k.jar # NoSession
     /\ k.kind \in {"restore", "logout"} => k.stage \in {"idle", "queued", "first"}
     /\ k.kind = "logout" => k.answer # "unauthorized"
     /\ k.stage = "refresh" \/ k.wire # "response" \/ k.answer = "unauthorized" => k.runs = 0
     /\ IsRefresh(c) /\ k.late => k.wire # "checked" /\ (k.wire = "request" => k.jar \notin live)
     /\ IsRefresh(c) /\ k.answer = "ok" => k.granted # NoToken
     /\ k.answer # "ok" => k.granted = NoToken

GoodRefresh(d) ==
  LET k == call[d]
  IN /\ k.wire = "request" => k.jar \in live
     /\ k.wire = "response" => k.answer = "ok" /\ k.granted.generation = generation

CalmOK(c) ==
  LET k == call[c]
  IN calm[c] =>
       /\ k.stage # "idle" /\ cookie \in live
       /\ k.stage \in {"first", "refresh", "waiting"} =>
            \A d \in CallsOf(TabOf[c]) : InStage(d, "refresh") => GoodRefresh(d)
       /\ k.stage = "retry" /\ k.kind = "protected" =>
            /\ k.wire = "request" => TokenAccepted(k.bearer)
            /\ k.answer # "unauthorized"

AInv ==
  /\ TypeOK /\ Known(cookie) /\ RefreshExclusive
  /\ RunsAtMostOnce /\ EndedSessionGrantsNothing
  /\ \A c \in Call : CallOK(c) /\ CalmOK(c)

\* Every call comes to an end: the mutex is released on every path, and its
\* release wakes everybody who waits (finally of baseQueryWithAuth).
EveryCallEnds == \A c \in Call : ~InStage(c, "idle") ~> InStage(c, "idle")
=============================================================================
