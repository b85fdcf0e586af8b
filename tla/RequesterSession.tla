--------------------------- MODULE RequesterSession ---------------------------
(***************************************************************************)
(* The login of a process: core/requester.py (the cookies of the session,  *)
(* the retry loop of request with challenge solving, the token that may be *)
(* stored), the CSRF token of discourse/client.py, auth.cookie of          *)
(* runtime/state.py, and the handler threads that replace or store the     *)
(* token while the thread that sends requests uses it.                     *)
(*                                                                         *)
(* Of the cookies, the login token `_t` is modelled; the others matter as  *)
(* the session a CSRF token belongs to, so that a CSRF token is "good"     *)
(* with the present cookies, "stale" or "none".  The configuration has no  *)
(* cookie in the environment.                                              *)
(***************************************************************************)
EXTENDS Integers

CONSTANTS
  Handlers,       \* HTTP handler threads
  NoToken,
  MaxRetries,     \* request.max_retries, 0 for no limit
  MaxUnresolved,  \* _MAX_CHALLENGE_STILL_PRESENT_ATTEMPTS
  MaxLogins,      \* bound: cookies that operators supply
  MaxTokens       \* bound: tokens that the server issues

ASSUME SessionAssumption ==
  /\ MaxRetries \in Nat
  /\ MaxUnresolved \in Nat \ {0}
  /\ MaxLogins \in Nat
  /\ MaxTokens \in Nat

VARIABLES
  session,     \* `_t` of _session.cookies
  candidate,   \* _persist_candidate_cookie_header
  hint,        \* _csrf_token_hint
  csrf,        \* _csrf_token of the client
  saved,       \* auth.cookie, in memory and in the state file
  solver,      \* configuration: "off", "on" or "csrf" (also for CSRF tokens)
  pc,          \* where the thread that sends requests is
  kind,        \* what it sends: "call", "csrf" or "page" (CSRF by FlareSolverr)
  sent,        \* the token it sent
  header,      \* the x-csrf-token it sends
  got,         \* a CSRF token it has in hand
  retried,     \* the call is the retry after BAD CSRF
  attempt,     \* attempt of request
  unresolved,  \* challenge_still_present_count
  task,        \* where each handler is
  cookie,      \* the token it holds
  issued,      \* server: tokens issued
  logins,      \* operators: cookies supplied
  runtime,     \* history: the login last applied to the process
  verified,    \* history: tokens supplied or carried by a success
  disturbed    \* history: what may make the retry of this call fail

client == <<csrf, header, got, retried, disturbed>>
loop == <<pc, kind, sent, attempt, unresolved>>
handlers == <<task, cookie>>
server == <<issued, logins, solver>>
vars == <<session, candidate, hint, saved, client, loop, handlers, server,
          runtime, verified>>

Token == [login : 0..MaxLogins, serial : 0..MaxTokens]
Csrf == {"none", "good", "stale"}
FirstToken == [login |-> 0, serial |-> 0]

Init ==
  /\ session = FirstToken
  /\ candidate = FirstToken
  /\ hint = "none"
  /\ csrf = "none"
  /\ saved = FirstToken
  /\ solver \in {"off", "on", "csrf"}
  /\ pc = "idle"
  /\ kind = "call"
  /\ sent = NoToken
  /\ header = "none"
  /\ got = "none"
  /\ retried = FALSE
  /\ attempt = 0
  /\ unresolved = 0
  /\ task = [h \in Handlers |-> "idle"]
  /\ cookie = [h \in Handlers |-> NoToken]
  /\ issued = 0
  /\ logins = 0
  /\ runtime = 0
  /\ verified = {FirstToken}
  /\ disturbed = FALSE

----------------------------------------------------------------------------
(* The parts of a request.  The thread holds _lock while it is in one.     *)

Locked == pc \in {"wait", "solve", "resent"}

\* A CSRF token after the cookies it belongs to were dropped.
Outdated(c) == IF c = "good" THEN "stale" ELSE c

\* _perform_request: the cookies of a response, which may hold a new token,
\* go into the session.
Merge ==
  \/ UNCHANGED <<session, issued>>
  \/ /\ issued < MaxTokens
     /\ issued' = issued + 1
     /\ session' = [login |-> sent.login, serial |-> issued + 1]

\* save_cookie_header: stored, or rolled back because the write failed.
Stored(c) == saved' = c
NotStored(c) == saved # c /\ UNCHANGED saved

\* Fault: the token of the answer is stored, which no request has carried.
MarkAnswer(c) ==
  /\ verified' = verified \cup {c}
  /\ \/ session' = candidate /\ UNCHANGED <<candidate, saved>>
     \/ session' # candidate /\ Stored(session') /\ candidate' = session'
     \/ session' # candidate /\ NotStored(session') /\ UNCHANGED candidate

\* _mark_persist_candidate.
Mark(c) ==
  /\ verified' = verified \cup {c}
  /\ \/ c = candidate /\ UNCHANGED <<candidate, saved>>
     \/ c # candidate /\ Stored(c) /\ candidate' = c
     \/ c # candidate /\ NotStored(c) /\ UNCHANGED candidate

CanRetry == MaxRetries = 0 \/ attempt < MaxRetries

\* Fault: the attempt is not counted.
AgainUncounted ==
  /\ CanRetry
  /\ sent' = session'
  /\ pc' = IF kind = "page" THEN "solve" ELSE "wait"
  /\ UNCHANGED <<attempt, kind>>

\* Back to the top of the loop, with the cookies of the session by then.
Again ==
  /\ CanRetry
  /\ attempt' = attempt + 1
  /\ sent' = session'
  /\ pc' = IF kind = "page" THEN "solve" ELSE "wait"
  /\ UNCHANGED kind

\* The lock is released; the request has returned or raised.
Leave(place) ==
  /\ pc' = place
  /\ sent' = NoToken
  /\ attempt' = 0
  /\ unresolved' = 0
  /\ UNCHANGED kind

\* The call ends: with an answer, or with the exception of a request.
End == Leave("idle") /\ header' = "none" /\ got' = "none"
\* get_csrf gets an answer, with a token or without.
Fetched(c) == Leave("fetched") /\ got' = c /\ header' = "none"

\* A response that is no success: of a call, or of the request for a token,
\* whose body has no token or is no JSON.
ReturnFailure ==
  \/ End /\ UNCHANGED disturbed
  \/ kind = "csrf" /\ Fetched("none") /\ disturbed' = TRUE

----------------------------------------------------------------------------
(* The thread that sends requests.                                         *)

\* A call begins in _ensure_csrf_token, which takes the hint first.
StartCall ==
  /\ pc \in {"idle", "failed"}
  /\ pc' = "token"
  /\ got' = hint
  /\ hint' = "none"
  /\ retried' = FALSE
  /\ disturbed' = (\E h \in Handlers : task[h] = "applied")
  /\ UNCHANGED <<session, candidate, saved, csrf, header, kind, sent, attempt,
                 unresolved, handlers, server, runtime, verified>>

\* _sync_csrf_token_hint, and whether a token must be fetched: there is none,
\* or the last one was refused.
SyncHint ==
  LET token == IF got = "none" THEN csrf ELSE got IN
  /\ pc \in {"token", "refresh"}
  /\ csrf' = token
  /\ got' = "none"
  /\ IF pc = "refresh" \/ token = "none"
     THEN /\ pc' = "ready"
          /\ kind' = IF solver = "csrf" THEN "page" ELSE "csrf"
     ELSE pc' = "headers" /\ UNCHANGED kind
  /\ UNCHANGED <<session, candidate, hint, saved, header, retried, disturbed,
                 sent, attempt, unresolved, handlers, server, runtime, verified>>

\* The headers of the call.
ReadToken ==
  /\ pc = "headers"
  /\ header' = csrf
  /\ kind' = "call"
  /\ pc' = "ready"
  /\ UNCHANGED <<session, candidate, hint, saved, csrf, got, retried, disturbed,
                 sent, attempt, unresolved, handlers, server, runtime, verified>>

\* Fault: the retry has the headers of the first try.
KeepTokenNotHeader ==
  /\ pc = "fetched"
  /\ csrf' = got
  /\ pc' = "ready" /\ kind' = "call" /\ got' = "none"
  /\ UNCHANGED <<session, candidate, hint, saved, header, retried, disturbed,
                 sent, attempt, unresolved, handlers, server, runtime, verified>>

\* get_csrf keeps what it fetched.  post_timings then starts afresh, the
\* other methods read the new token for their headers.
KeepToken ==
  /\ pc = "fetched"
  /\ csrf' = got
  /\ \/ pc' = "headers" /\ got' = "none" /\ UNCHANGED hint
     \/ retried /\ pc' = "token" /\ got' = hint /\ hint' = "none"
  /\ UNCHANGED <<session, candidate, saved, header, retried, disturbed, kind,
                 sent, attempt, unresolved, handlers, server, runtime, verified>>

\* Fault: the token sent is noted at retries only.
SendUnnoted ==
  /\ pc = "ready"
  /\ pc' = IF kind = "page" THEN "solve" ELSE "wait"
  /\ UNCHANGED <<session, candidate, hint, saved, client, kind, sent, attempt,
                 unresolved, handlers, server, runtime, verified>>

\* request and fetch_csrf_token_via_flaresolverr take the lock.
Send ==
  /\ pc = "ready"
  /\ pc' = IF kind = "page" THEN "solve" ELSE "wait"
  /\ sent' = session
  /\ UNCHANGED <<session, candidate, hint, saved, client, kind, attempt,
                 unresolved, handlers, server, runtime, verified>>

\* The user agent is asked of FlareSolverr outside the retries.
NoIdentity ==
  /\ pc \in {"ready", "wait"} \/ (pc = "solve" /\ kind = "page")
  /\ solver # "off"
  /\ End
  /\ UNCHANGED <<session, candidate, hint, saved, csrf, retried, disturbed,
                 handlers, server, runtime, verified>>

\* No answer: a network error or a timeout.
NoAnswer ==
  /\ pc \in {"wait", "resent"}
  /\ UNCHANGED session
  /\ \/ Again /\ UNCHANGED <<unresolved, header, got>>
     \/ ~CanRetry /\ End
  /\ UNCHANGED <<candidate, hint, saved, csrf, retried, disturbed, handlers,
                 server, runtime, verified>>

\* A Cloudflare challenge, for which FlareSolverr loads the base URL.
Challenged ==
  /\ pc = "wait"
  /\ Merge
  /\ \/ /\ solver = "off"
        /\ ReturnFailure
     \/ /\ solver # "off"
        /\ pc' = "solve"
        /\ sent' = session'
        /\ UNCHANGED <<kind, attempt, unresolved, header, got, disturbed>>
  /\ UNCHANGED <<candidate, hint, saved, csrf, retried, handlers, logins,
                 solver, runtime, verified>>

\* FlareSolverr fails.
SolveFails ==
  /\ pc = "solve"
  /\ UNCHANGED session
  /\ \/ Again /\ UNCHANGED <<unresolved, header, got>>
     \/ ~CanRetry /\ End
  /\ UNCHANGED <<candidate, hint, saved, csrf, retried, disturbed, handlers,
                 server, runtime, verified>>

\* The page sets cookies and has no CSRF token: the login is invalid, which
\* is not retried.
LoggedOut ==
  /\ pc = "solve"
  /\ End
  /\ UNCHANGED <<session, candidate, hint, saved, csrf, retried, disturbed,
                 handlers, server, runtime, verified>>

\* The page of the base URL has a CSRF token, and the request that was
\* challenged is sent again.
Solved ==
  /\ pc = "solve"
  /\ kind # "page"
  /\ \/ Merge /\ hint' = "good"
     \/ UNCHANGED <<session, issued, hint>>   \* neither token nor cookies
  /\ Mark(sent)
  /\ header' = IF kind = "call" /\ hint' # "none" THEN hint' ELSE header
  /\ pc' = "resent"
  /\ sent' = session'
  /\ UNCHANGED <<csrf, got, retried, disturbed, kind, attempt, unresolved,
                 handlers, logins, solver, runtime>>

\* The page was loaded for its CSRF token, which it has or has not.
PageLoaded ==
  /\ pc = "solve"
  /\ kind = "page"
  /\ \/ Merge /\ Fetched("good")
     \/ /\ UNCHANGED <<session, issued>>
        /\ \/ Again /\ UNCHANGED <<unresolved, header, got>>
           \/ ~CanRetry /\ End
  /\ Mark(sent)
  /\ UNCHANGED <<hint, csrf, retried, disturbed, handlers, logins, solver,
                 runtime>>

\* Still a challenge: all cookies but the token are dropped, and with them
\* the session of the CSRF tokens.
StillChallenged ==
  /\ pc = "resent"
  /\ Merge
  /\ hint' = Outdated(hint)
  /\ csrf' = Outdated(csrf)
  /\ disturbed' = TRUE
  /\ \/ /\ unresolved + 1 < MaxUnresolved
        /\ Again
        /\ unresolved' = unresolved + 1
        /\ header' = Outdated(header)
        /\ UNCHANGED got
     \/ /\ unresolved + 1 >= MaxUnresolved \/ ~CanRetry
        /\ End
  /\ UNCHANGED <<candidate, saved, retried, handlers, logins, solver, runtime,
                 verified>>

\* A 429 that says how long to wait is the caller's business.
RateLimited ==
  /\ pc \in {"wait", "resent"}
  /\ Merge
  /\ End
  /\ UNCHANGED <<candidate, hint, saved, csrf, retried, disturbed, handlers,
                 logins, solver, runtime, verified>>

\* A 429 that does not, or a 5xx.
Busy ==
  /\ pc \in {"wait", "resent"}
  /\ Merge
  /\ \/ Again /\ UNCHANGED <<unresolved, header, got, disturbed>>
     \/ ~CanRetry /\ ReturnFailure
  /\ UNCHANGED <<candidate, hint, saved, csrf, retried, handlers, logins,
                 solver, runtime, verified>>

\* A status below 400.
Success ==
  /\ pc \in {"wait", "resent"}
  /\ Merge
  /\ Mark(sent)
  /\ \/ kind = "call" /\ End /\ UNCHANGED disturbed
     \/ kind = "csrf" /\ Fetched("good") /\ UNCHANGED disturbed
     \/ kind = "csrf" /\ ReturnFailure
  /\ UNCHANGED <<hint, csrf, retried, handlers, logins, solver, runtime>>

\* Another status, but for BAD CSRF.
Refused ==
  /\ pc \in {"wait", "resent"}
  /\ Merge
  /\ ReturnFailure
  /\ UNCHANGED <<candidate, hint, saved, csrf, retried, handlers, logins,
                 solver, runtime, verified>>

\* 403 BAD CSRF: one retry with a fresh token.
BadCsrf ==
  /\ pc \in {"wait", "resent"}
  /\ kind = "call"
  /\ header # "good"
  /\ Merge
  /\ header' = "none"
  /\ IF retried
     THEN Leave("failed") /\ got' = "none" /\ UNCHANGED <<hint, retried>>
     ELSE Leave("refresh") /\ got' = hint /\ hint' = "none" /\ retried' = TRUE
  /\ UNCHANGED <<candidate, saved, csrf, disturbed, handlers, logins, solver,
                 runtime, verified>>

Work ==
  \/ StartCall \/ SyncHint \/ ReadToken \/ KeepToken \/ Send
  \/ NoIdentity \/ NoAnswer \/ Challenged \/ SolveFails \/ LoggedOut \/ Solved
  \/ PageLoaded \/ StillChallenged \/ RateLimited \/ Busy \/ Success
  \/ Refused \/ BadCsrf

----------------------------------------------------------------------------
(* Handler threads, and the process.                                       *)

\* POST /auth/cookie stores the cookie of the operator first; when that
\* fails, nothing else happens.
Recover(h) ==
  LET token == [login |-> logins + 1, serial |-> 0] IN
  /\ task[h] = "idle"
  /\ logins < MaxLogins
  /\ logins' = logins + 1
  /\ saved' = token
  /\ verified' = verified \cup {token}
  /\ task' = [task EXCEPT ![h] = "recovered"]
  /\ cookie' = [cookie EXCEPT ![h] = token]
  /\ UNCHANGED <<session, candidate, hint, client, loop, issued, solver, runtime>>

\* Requester.update_auth_cookie.
Replace(h) ==
  /\ session' = cookie[h]
  /\ candidate' = cookie[h]
  /\ hint' = "none"
  /\ csrf' = Outdated(csrf)
  /\ header' = Outdated(header)
  /\ got' = Outdated(got)
  /\ disturbed' = TRUE
  /\ runtime' = cookie[h].login
  /\ task' = [task EXCEPT ![h] = "applied"]
  /\ UNCHANGED <<saved, retried, loop, cookie, server, verified>>

\* Fault: without _lock.
ApplyUnlocked(h) == task[h] = "recovered" /\ Replace(h)

Apply(h) == task[h] = "recovered" /\ ~Locked /\ Replace(h)

\* Client.update_auth_cookie, after the lock.
Forget(h) ==
  /\ task[h] = "applied"
  /\ csrf' = "none"
  /\ task' = [task EXCEPT ![h] = "idle"]
  /\ cookie' = [cookie EXCEPT ![h] = NoToken]
  /\ UNCHANGED <<session, candidate, hint, saved, header, got, retried,
                 disturbed, loop, server, runtime, verified>>

\* save_cookies, after an action or when the watch stops.
ReadCandidate(h) ==
  /\ task[h] = "idle"
  /\ task' = [task EXCEPT ![h] = "saving"]
  /\ cookie' = [cookie EXCEPT ![h] = candidate]
  /\ UNCHANGED <<session, candidate, hint, saved, client, loop, server, runtime,
                 verified>>

SaveCandidate(h) ==
  /\ task[h] = "saving"
  /\ Stored(cookie[h]) \/ NotStored(cookie[h])
  /\ task' = [task EXCEPT ![h] = "idle"]
  /\ cookie' = [cookie EXCEPT ![h] = NoToken]
  /\ UNCHANGED <<session, candidate, hint, client, loop, server, runtime,
                 verified>>

\* The process dies and starts with the cookie of the state file.
Restart ==
  /\ session' = saved
  /\ candidate' = saved
  /\ runtime' = saved.login
  /\ hint' = "none"
  /\ csrf' = "none"
  /\ Leave("idle")
  /\ header' = "none" /\ got' = "none" /\ retried' = FALSE /\ disturbed' = FALSE
  /\ task' = [h \in Handlers |-> "idle"]
  /\ cookie' = [h \in Handlers |-> NoToken]
  /\ UNCHANGED <<saved, server, verified>>

Handle(h) ==
  Recover(h) \/ Apply(h) \/ Forget(h) \/ ReadCandidate(h) \/ SaveCandidate(h)

Next == Work \/ Restart \/ \E h \in Handlers : Handle(h)

Spec == Init /\ [][Next]_vars

\* The thread proceeds (every request has a timeout), and a handler that
\* waits for _lock gets it, as often as the lock is released.
Fairness ==
  /\ WF_vars(Work)
  /\ \A h \in Handlers : SF_vars(Apply(h)) /\ WF_vars(Forget(h))

FairSpec == Spec /\ Fairness

----------------------------------------------------------------------------
TypeOK ==
  /\ {session, candidate, saved} \subseteq Token
  /\ {hint, csrf, header, got} \subseteq Csrf
  /\ solver \in {"off", "on", "csrf"}
  /\ pc \in {"idle", "failed", "token", "refresh", "headers", "ready", "wait",
             "solve", "resent", "fetched"}
  /\ kind \in {"call", "csrf", "page"}
  /\ sent \in Token \cup {NoToken}
  /\ retried \in BOOLEAN /\ disturbed \in BOOLEAN
  /\ attempt \in Nat
  /\ unresolved \in 0..(MaxUnresolved - 1)
  /\ task \in [Handlers -> {"idle", "recovered", "applied", "saving"}]
  /\ cookie \in [Handlers -> Token \cup {NoToken}]
  /\ issued \in 0..MaxTokens
  /\ logins \in 0..MaxLogins
  /\ runtime \in 0..MaxLogins
  /\ verified \subseteq Token

\* README.md:59: a token that is stored, or may be stored, was supplied by the
\* operator or has been carried to the server by an interaction that went
\* well; a token just received waits for that.
StoredWasVerified == saved \in verified /\ candidate \in verified

\* Once a cookie update is applied, neither the answer to a request with the
\* old cookie nor a token waiting to be stored brings the old login back.
LoginFollowsUpdate == session.login = runtime /\ candidate.login = runtime

\* A call fails with BAD CSRF twice only if, while it ran, its session was
\* replaced or dropped, or the server gave no token.
RetryHasFreshToken == pc = "failed" => disturbed

\* A cookie update that is stored reaches the session, although requests with
\* their retries hold the lock.
UpdateApplied ==
  \A h \in Handlers : task[h] = "recovered" ~> task[h] # "recovered"

\* README.md:62, serve.py:36: POST /auth/cookie updates the token, in the state
\* file too.  When no handler is at work, the file has no older login than
\* the process.
\* The code does not satisfy it (README, Disagreements), and no run lists it.
UpdateStaysStored ==
  (\A h \in Handlers : task[h] = "idle") => saved.login >= runtime

=============================================================================
