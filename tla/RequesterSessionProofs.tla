------------------------ MODULE RequesterSessionProofs ------------------------
(***************************************************************************)
(* Theorems about RequesterSession, for every value of its constants.      *)
(***************************************************************************)
EXTENDS RequesterSession, TLAPS

\* What the thread that sends requests and the handlers hold: the token sent
\* is one of the login in use, and the token of a handler may be stored.
Held ==
  /\ Locked => sent \in Token /\ sent.login = runtime
  /\ \A h \in Handlers :
       task[h] \in {"recovered", "saving"} => cookie[h] \in verified

\* During a call that nothing disturbed, no handler has a token to forget and
\* no hint is stale; its retry has a good CSRF token at every place.
Fresh ==
  ~disturbed /\ pc \notin {"idle", "failed"} =>
    hint # "stale" /\ \A h \in Handlers : task[h] # "applied"

RetryInv ==
  /\ pc = "failed" => retried
  /\ retried /\ ~disturbed =>
       /\ pc = "token" => csrf = "good" /\ got # "stale"
       /\ pc = "fetched" => got = "good"
       /\ pc = "headers" => csrf = "good"
       /\ pc \in {"ready", "wait", "solve", "resent"} /\ kind = "call" =>
            header = "good"
       /\ pc # "failed"

Inv ==
  /\ TypeOK
  /\ Held
  /\ StoredWasVerified
  /\ LoginFollowsUpdate
  /\ Fresh
  /\ RetryInv

\* The cookies of an answer: the token is the one before or the one issued.
LEMMA MergeType ==
  TypeOK /\ Held /\ Locked /\ Merge => session' \in Token /\ issued' \in 0..MaxTokens
<1> USE SessionAssumption DEF TypeOK, Held, Token
<1>1. ASSUME TypeOK, UNCHANGED <<session, issued>>
      PROVE  session' \in Token /\ issued' \in 0..MaxTokens
  BY <1>1
<1>2. ASSUME TypeOK, sent \in Token, issued < MaxTokens, issued' = issued + 1,
             session' = [login |-> sent.login, serial |-> issued + 1]
      PROVE  session' \in Token /\ issued' \in 0..MaxTokens
  BY <1>2
<1>3. QED
  BY <1>1, <1>2 DEF Merge

\* What _mark_persist_candidate leaves behind are tokens.
LEMMA MarkType ==
  ASSUME TypeOK, NEW c \in Token, Mark(c)
  PROVE  candidate' \in Token /\ saved' \in Token /\ verified' \subseteq Token
BY DEF TypeOK, Mark, Stored, NotStored

\* How a request that brought nothing leaves the thread.
LEMMA ReturnFailureType ==
  TypeOK /\ ReturnFailure =>
    /\ pc' \in {"idle", "fetched"} /\ kind' = kind /\ sent' = NoToken
    /\ attempt' = 0 /\ unresolved' = 0
    /\ header' = "none" /\ got' = "none" /\ disturbed' \in BOOLEAN
BY DEF TypeOK, ReturnFailure, Fetched, End, Leave

\* The types are kept.
LEMMA TypeStep == Inv /\ [Next]_vars => TypeOK'
<1> SUFFICES ASSUME Inv, [Next]_vars PROVE TypeOK'
  OBVIOUS
<1> USE SessionAssumption DEF Inv, TypeOK, Held, StoredWasVerified, Token,
   Csrf, client, loop, handlers, server
<1>1. CASE StartCall
  BY <1>1 DEF StartCall
<1>2. CASE SyncHint
  BY <1>2 DEF SyncHint
<1>3. CASE ReadToken
  BY <1>3 DEF ReadToken
<1>4. CASE KeepToken
  BY <1>4 DEF KeepToken
<1>5. CASE Send
  BY <1>5 DEF Send
<1>6. CASE NoIdentity
  BY <1>6 DEF NoIdentity, End, Leave
<1>7. CASE NoAnswer
  BY <1>7 DEF NoAnswer, Again, End, Leave
<1>8. CASE Challenged
  <2>1. session' \in Token /\ issued' \in 0..MaxTokens
    BY <1>8, MergeType DEF Challenged, Locked
  <2>2. CASE ReturnFailure
    BY <1>8, <2>1, <2>2, ReturnFailureType DEF Challenged
  <2>3. CASE ~ReturnFailure
    BY <1>8, <2>1, <2>3 DEF Challenged
  <2>4. QED
    BY <2>2, <2>3
<1>9. CASE SolveFails
  BY <1>9 DEF SolveFails, Again, End, Leave
<1>10. CASE LoggedOut
  BY <1>10 DEF LoggedOut, End, Leave
<1>11. CASE Solved
  <2>1. session' \in Token /\ issued' \in 0..MaxTokens
    BY <1>11, MergeType DEF Solved, Locked
  <2>2. candidate' \in Token /\ saved' \in Token /\ verified' \subseteq Token
    BY <1>11, MarkType DEF Solved, Locked
  <2>3. hint' \in Csrf /\ header' \in Csrf
    BY <1>11 DEF Solved
  <2>4. QED
    BY <1>11, <2>1, <2>2, <2>3 DEF Solved
<1>12. CASE PageLoaded
  <2>1. session' \in Token /\ issued' \in 0..MaxTokens
    BY <1>12, MergeType DEF PageLoaded, Locked
  <2>2. candidate' \in Token /\ saved' \in Token /\ verified' \subseteq Token
    BY <1>12, MarkType DEF PageLoaded, Locked
  <2>3. CASE Fetched("good")
    BY <1>12, <2>1, <2>2, <2>3 DEF PageLoaded, Fetched, Leave
  <2>4. CASE Again /\ UNCHANGED <<unresolved, header, got>>
    BY <1>12, <2>1, <2>2, <2>4 DEF PageLoaded, Again
  <2>5. CASE End
    BY <1>12, <2>1, <2>2, <2>5 DEF PageLoaded, End, Leave
  <2>6. QED
    BY <1>12, <2>3, <2>4, <2>5 DEF PageLoaded
<1>13. CASE StillChallenged
  <2>1. session' \in Token /\ issued' \in 0..MaxTokens
    BY <1>13, MergeType DEF StillChallenged, Locked
  <2>2. hint' \in Csrf /\ csrf' \in Csrf
    BY <1>13 DEF StillChallenged, Outdated
  <2>3. CASE Again /\ unresolved + 1 < MaxUnresolved /\ unresolved' = unresolved + 1
               /\ header' = Outdated(header) /\ UNCHANGED got
    BY <1>13, <2>1, <2>2, <2>3 DEF StillChallenged, Again, Outdated
  <2>4. CASE End
    BY <1>13, <2>1, <2>2, <2>4 DEF StillChallenged, End, Leave
  <2>5. QED
    BY <1>13, <2>3, <2>4 DEF StillChallenged
<1>14. CASE RateLimited
  <2>1. session' \in Token /\ issued' \in 0..MaxTokens
    BY <1>14, MergeType DEF RateLimited, Locked
  <2>2. QED
    BY <1>14, <2>1 DEF RateLimited, End, Leave
<1>15. CASE Busy
  <2>1. session' \in Token /\ issued' \in 0..MaxTokens
    BY <1>15, MergeType DEF Busy, Locked
  <2>2. CASE ReturnFailure
    BY <1>15, <2>1, <2>2, ReturnFailureType DEF Busy
  <2>3. CASE Again
    BY <1>15, <2>1, <2>3 DEF Busy, Again
  <2>4. QED
    BY <1>15, <2>2, <2>3 DEF Busy
<1>16. CASE Success
  <2>1. session' \in Token /\ issued' \in 0..MaxTokens
    BY <1>16, MergeType DEF Success, Locked
  <2>2. candidate' \in Token /\ saved' \in Token /\ verified' \subseteq Token
    BY <1>16, MarkType DEF Success, Locked
  <2>3. CASE ReturnFailure
    BY <1>16, <2>1, <2>2, <2>3, ReturnFailureType DEF Success
  <2>4. CASE ~ReturnFailure
    BY <1>16, <2>1, <2>2, <2>4 DEF Success, Fetched, End, Leave
  <2>5. QED
    BY <2>3, <2>4
<1>17. CASE Refused
  <2>1. session' \in Token /\ issued' \in 0..MaxTokens
    BY <1>17, MergeType DEF Refused, Locked
  <2>2. QED
    BY <1>17, <2>1, ReturnFailureType DEF Refused
<1>18. CASE BadCsrf
  <2>1. session' \in Token /\ issued' \in 0..MaxTokens
    BY <1>18, MergeType DEF BadCsrf, Locked
  <2>2. CASE retried
    BY <1>18, <2>1, <2>2 DEF BadCsrf, Leave
  <2>3. CASE ~retried
    BY <1>18, <2>1, <2>3 DEF BadCsrf, Leave
  <2>4. QED
    BY <2>2, <2>3
<1>19. ASSUME NEW h \in Handlers, Recover(h) PROVE TypeOK'
  BY <1>19 DEF Recover
<1>20. ASSUME NEW h \in Handlers, Apply(h) PROVE TypeOK'
  BY <1>20 DEF Apply, Replace, Outdated
<1>21. ASSUME NEW h \in Handlers, Forget(h) PROVE TypeOK'
  BY <1>21 DEF Forget
<1>22. ASSUME NEW h \in Handlers, ReadCandidate(h) PROVE TypeOK'
  BY <1>22 DEF ReadCandidate
<1>23. ASSUME NEW h \in Handlers, SaveCandidate(h) PROVE TypeOK'
  BY <1>23 DEF SaveCandidate, Stored, NotStored
<1>24. CASE Restart
  <2>1. task' \in [Handlers -> {"idle", "recovered", "applied", "saving"}]
    BY <1>24 DEF Restart
  <2>2. cookie' \in [Handlers -> Token \cup {NoToken}]
    BY <1>24 DEF Restart
  <2>3. session' \in Token /\ candidate' \in Token /\ saved' \in Token
        /\ runtime' \in 0..MaxLogins
    BY <1>24 DEF Restart
  <2>4. hint' \in Csrf /\ csrf' \in Csrf /\ header' \in Csrf /\ got' \in Csrf
        /\ retried' \in BOOLEAN /\ disturbed' \in BOOLEAN
    BY <1>24 DEF Restart
  <2>5. pc' = "idle" /\ kind' = kind /\ sent' = NoToken /\ attempt' = 0
        /\ unresolved' = 0 /\ UNCHANGED <<server, verified>>
    BY <1>24 DEF Restart, Leave
  <2>6. QED
    BY <2>1, <2>2, <2>3, <2>4, <2>5
<1>25. CASE UNCHANGED vars
  BY <1>25 DEF vars
<1>26. QED
  BY SMTT(30), <1>1, <1>2, <1>3, <1>4, <1>5, <1>6, <1>7, <1>8, <1>9, <1>10, <1>11,
     <1>12, <1>13, <1>14, <1>15, <1>16, <1>17, <1>18, <1>19, <1>20, <1>21,
     <1>22, <1>23, <1>24, <1>25 DEF Next, Work, Handle

\* The token that is sent has the login in use, whatever an answer brings, and
\* a handler holds only tokens that may be stored.
LEMMA HeldStep == Inv /\ [Next]_vars => Held'
<1> SUFFICES ASSUME Inv, [Next]_vars PROVE Held'
  OBVIOUS
<1> USE SessionAssumption DEF Inv, TypeOK, Held, StoredWasVerified,
   LoginFollowsUpdate, Locked, Token, client, loop, handlers, server
<1>1. CASE StartCall
  BY <1>1 DEF StartCall
<1>2. CASE SyncHint
  BY <1>2 DEF SyncHint
<1>3. CASE ReadToken
  BY <1>3 DEF ReadToken
<1>4. CASE KeepToken
  BY <1>4 DEF KeepToken
<1>5. CASE Send
  BY <1>5 DEF Send
<1>6. CASE NoIdentity
  BY <1>6 DEF NoIdentity, End, Leave
<1>7. CASE NoAnswer
  BY <1>7 DEF NoAnswer, Again, End, Leave
<1>8. CASE Challenged
  BY <1>8 DEF Challenged, Merge, ReturnFailure, Fetched, End, Leave
<1>9. CASE SolveFails
  BY <1>9 DEF SolveFails, Again, End, Leave
<1>10. CASE LoggedOut
  BY <1>10 DEF LoggedOut, End, Leave
<1>11. CASE Solved
  BY <1>11 DEF Solved, Merge, Mark, Stored, NotStored
<1>12. CASE PageLoaded
  BY <1>12 DEF PageLoaded, Merge, Mark, Stored, NotStored, Fetched, Again,
     End, Leave
<1>13. CASE StillChallenged
  BY <1>13 DEF StillChallenged, Merge, Again, CanRetry, Outdated, End, Leave
<1>14. CASE RateLimited
  BY <1>14 DEF RateLimited, Merge, End, Leave
<1>15. CASE Busy
  BY <1>15 DEF Busy, Merge, Again, ReturnFailure, Fetched, End, Leave
<1>16. CASE Success
  BY <1>16 DEF Success, Merge, Mark, Stored, NotStored, ReturnFailure,
     Fetched, End, Leave
<1>17. CASE Refused
  BY <1>17 DEF Refused, Merge, ReturnFailure, Fetched, End, Leave
<1>18. CASE BadCsrf
  BY <1>18 DEF BadCsrf, Merge, Leave
<1>19. ASSUME NEW h \in Handlers, Recover(h) PROVE Held'
  BY <1>19 DEF Recover
<1>20. ASSUME NEW h \in Handlers, Apply(h) PROVE Held'
  BY <1>20 DEF Apply, Replace, Outdated
<1>21. ASSUME NEW h \in Handlers, Forget(h) PROVE Held'
  BY <1>21 DEF Forget
<1>22. ASSUME NEW h \in Handlers, ReadCandidate(h) PROVE Held'
  BY <1>22 DEF ReadCandidate
<1>23. ASSUME NEW h \in Handlers, SaveCandidate(h) PROVE Held'
  BY <1>23 DEF SaveCandidate, Stored, NotStored
<1>24. CASE Restart
  BY <1>24 DEF Restart, Leave
<1>25. CASE UNCHANGED vars
  BY <1>25 DEF vars
<1>26. QED
  BY <1>1, <1>2, <1>3, <1>4, <1>5, <1>6, <1>7, <1>8, <1>9, <1>10, <1>11,
     <1>12, <1>13, <1>14, <1>15, <1>16, <1>17, <1>18, <1>19, <1>20, <1>21,
     <1>22, <1>23, <1>24, <1>25 DEF Next, Work, Handle

\* What is stored or may be stored was verified: _mark_persist_candidate is only
\* given the token that was sent.
LEMMA StoredStep == Inv /\ [Next]_vars => StoredWasVerified'
<1> SUFFICES ASSUME Inv, [Next]_vars PROVE StoredWasVerified'
  OBVIOUS
<1> USE SessionAssumption DEF Inv, Held, StoredWasVerified, client, loop,
   handlers, server
<1>1. CASE StartCall
  BY <1>1 DEF StartCall
<1>2. CASE SyncHint
  BY <1>2 DEF SyncHint
<1>3. CASE ReadToken
  BY <1>3 DEF ReadToken
<1>4. CASE KeepToken
  BY <1>4 DEF KeepToken
<1>5. CASE Send
  BY <1>5 DEF Send
<1>6. CASE NoIdentity
  BY <1>6 DEF NoIdentity, End, Leave
<1>7. CASE NoAnswer
  BY <1>7 DEF NoAnswer, Again, End, Leave
<1>8. CASE Challenged
  BY <1>8 DEF Challenged, Merge, ReturnFailure, Fetched, End, Leave
<1>9. CASE SolveFails
  BY <1>9 DEF SolveFails, Again, End, Leave
<1>10. CASE LoggedOut
  BY <1>10 DEF LoggedOut, End, Leave
<1>11. CASE Solved
  BY <1>11 DEF Solved, Merge, Mark, Stored, NotStored
<1>12. CASE PageLoaded
  BY <1>12 DEF PageLoaded, Merge, Mark, Stored, NotStored, Fetched, Again,
     End, Leave
<1>13. CASE StillChallenged
  BY <1>13 DEF StillChallenged, Merge, Again, CanRetry, Outdated, End, Leave
<1>14. CASE RateLimited
  BY <1>14 DEF RateLimited, Merge, End, Leave
<1>15. CASE Busy
  BY <1>15 DEF Busy, Merge, Again, ReturnFailure, Fetched, End, Leave
<1>16. CASE Success
  BY <1>16 DEF Success, Merge, Mark, Stored, NotStored, ReturnFailure,
     Fetched, End, Leave
<1>17. CASE Refused
  BY <1>17 DEF Refused, Merge, ReturnFailure, Fetched, End, Leave
<1>18. CASE BadCsrf
  BY <1>18 DEF BadCsrf, Merge, Leave
<1>19. ASSUME NEW h \in Handlers, Recover(h) PROVE StoredWasVerified'
  BY <1>19 DEF Recover
<1>20. ASSUME NEW h \in Handlers, Apply(h) PROVE StoredWasVerified'
  BY <1>20 DEF Apply, Replace, Outdated
<1>21. ASSUME NEW h \in Handlers, Forget(h) PROVE StoredWasVerified'
  BY <1>21 DEF Forget
<1>22. ASSUME NEW h \in Handlers, ReadCandidate(h) PROVE StoredWasVerified'
  BY <1>22 DEF ReadCandidate
<1>23. ASSUME NEW h \in Handlers, SaveCandidate(h) PROVE StoredWasVerified'
  BY <1>23 DEF SaveCandidate, Stored, NotStored
<1>24. CASE Restart
  BY <1>24 DEF Restart, Leave
<1>25. CASE UNCHANGED vars
  BY <1>25 DEF vars
<1>26. QED
  BY <1>1, <1>2, <1>3, <1>4, <1>5, <1>6, <1>7, <1>8, <1>9, <1>10, <1>11,
     <1>12, <1>13, <1>14, <1>15, <1>16, <1>17, <1>18, <1>19, <1>20, <1>21,
     <1>22, <1>23, <1>24, <1>25 DEF Next, Work, Handle

\* The login in use: an answer comes while its request holds the lock, so no
\* update can be applied between the two.
LEMMA LoginStep == Inv /\ [Next]_vars => LoginFollowsUpdate'
<1> SUFFICES ASSUME Inv, [Next]_vars PROVE LoginFollowsUpdate'
  OBVIOUS
<1> USE SessionAssumption DEF Inv, Held, Locked, LoginFollowsUpdate, client,
   loop, handlers, server
<1>1. CASE StartCall
  BY <1>1 DEF StartCall
<1>2. CASE SyncHint
  BY <1>2 DEF SyncHint
<1>3. CASE ReadToken
  BY <1>3 DEF ReadToken
<1>4. CASE KeepToken
  BY <1>4 DEF KeepToken
<1>5. CASE Send
  BY <1>5 DEF Send
<1>6. CASE NoIdentity
  BY <1>6 DEF NoIdentity, End, Leave
<1>7. CASE NoAnswer
  BY <1>7 DEF NoAnswer, Again, End, Leave
<1>8. CASE Challenged
  BY <1>8 DEF Challenged, Merge, ReturnFailure, Fetched, End, Leave
<1>9. CASE SolveFails
  BY <1>9 DEF SolveFails, Again, End, Leave
<1>10. CASE LoggedOut
  BY <1>10 DEF LoggedOut, End, Leave
<1>11. CASE Solved
  BY <1>11 DEF Solved, Merge, Mark, Stored, NotStored
<1>12. CASE PageLoaded
  BY <1>12 DEF PageLoaded, Merge, Mark, Stored, NotStored, Fetched, Again,
     End, Leave
<1>13. CASE StillChallenged
  BY <1>13 DEF StillChallenged, Merge, Again, CanRetry, Outdated, End, Leave
<1>14. CASE RateLimited
  BY <1>14 DEF RateLimited, Merge, End, Leave
<1>15. CASE Busy
  BY <1>15 DEF Busy, Merge, Again, ReturnFailure, Fetched, End, Leave
<1>16. CASE Success
  BY <1>16 DEF Success, Merge, Mark, Stored, NotStored, ReturnFailure,
     Fetched, End, Leave
<1>17. CASE Refused
  BY <1>17 DEF Refused, Merge, ReturnFailure, Fetched, End, Leave
<1>18. CASE BadCsrf
  BY <1>18 DEF BadCsrf, Merge, Leave
<1>19. ASSUME NEW h \in Handlers, Recover(h) PROVE LoginFollowsUpdate'
  BY <1>19 DEF Recover
<1>20. ASSUME NEW h \in Handlers, Apply(h) PROVE LoginFollowsUpdate'
  BY <1>20 DEF Apply, Replace, Outdated
<1>21. ASSUME NEW h \in Handlers, Forget(h) PROVE LoginFollowsUpdate'
  BY <1>21 DEF Forget
<1>22. ASSUME NEW h \in Handlers, ReadCandidate(h) PROVE LoginFollowsUpdate'
  BY <1>22 DEF ReadCandidate
<1>23. ASSUME NEW h \in Handlers, SaveCandidate(h) PROVE LoginFollowsUpdate'
  BY <1>23 DEF SaveCandidate, Stored, NotStored
<1>24. CASE Restart
  BY <1>24 DEF Restart, Leave
<1>25. CASE UNCHANGED vars
  BY <1>25 DEF vars
<1>26. QED
  BY <1>1, <1>2, <1>3, <1>4, <1>5, <1>6, <1>7, <1>8, <1>9, <1>10, <1>11,
     <1>12, <1>13, <1>14, <1>15, <1>16, <1>17, <1>18, <1>19, <1>20, <1>21,
     <1>22, <1>23, <1>24, <1>25 DEF Next, Work, Handle

\* In a call that nothing disturbed, there is no stale hint and nobody is about
\* to forget a token.
LEMMA FreshStep == Inv /\ [Next]_vars => Fresh'
<1> SUFFICES ASSUME Inv, [Next]_vars PROVE Fresh'
  OBVIOUS
<1> USE SessionAssumption DEF Inv, TypeOK, Fresh, Outdated, client, loop,
   handlers, server
<1>1. CASE StartCall
  BY <1>1 DEF StartCall
<1>2. CASE SyncHint
  BY <1>2 DEF SyncHint
<1>3. CASE ReadToken
  BY <1>3 DEF ReadToken
<1>4. CASE KeepToken
  BY <1>4 DEF KeepToken
<1>5. CASE Send
  BY <1>5 DEF Send
<1>6. CASE NoIdentity
  BY <1>6 DEF NoIdentity, End, Leave
<1>7. CASE NoAnswer
  BY <1>7 DEF NoAnswer, Again, End, Leave
<1>8. CASE Challenged
  BY <1>8 DEF Challenged, Merge, ReturnFailure, Fetched, End, Leave
<1>9. CASE SolveFails
  BY <1>9 DEF SolveFails, Again, End, Leave
<1>10. CASE LoggedOut
  BY <1>10 DEF LoggedOut, End, Leave
<1>11. CASE Solved
  BY <1>11 DEF Solved, Merge, Mark, Stored, NotStored
<1>12. CASE PageLoaded
  BY <1>12 DEF PageLoaded, Merge, Mark, Stored, NotStored, Fetched, Again,
     End, Leave
<1>13. CASE StillChallenged
  BY <1>13 DEF StillChallenged, Merge, Again, CanRetry, Outdated, End, Leave
<1>14. CASE RateLimited
  BY <1>14 DEF RateLimited, Merge, End, Leave
<1>15. CASE Busy
  BY <1>15 DEF Busy, Merge, Again, ReturnFailure, Fetched, End, Leave
<1>16. CASE Success
  BY <1>16 DEF Success, Merge, Mark, Stored, NotStored, ReturnFailure,
     Fetched, End, Leave
<1>17. CASE Refused
  BY <1>17 DEF Refused, Merge, ReturnFailure, Fetched, End, Leave
<1>18. CASE BadCsrf
  BY <1>18 DEF BadCsrf, Merge, Leave
<1>19. ASSUME NEW h \in Handlers, Recover(h) PROVE Fresh'
  BY <1>19 DEF Recover
<1>20. ASSUME NEW h \in Handlers, Apply(h) PROVE Fresh'
  BY <1>20 DEF Apply, Replace, Outdated
<1>21. ASSUME NEW h \in Handlers, Forget(h) PROVE Fresh'
  BY <1>21 DEF Forget
<1>22. ASSUME NEW h \in Handlers, ReadCandidate(h) PROVE Fresh'
  BY <1>22 DEF ReadCandidate
<1>23. ASSUME NEW h \in Handlers, SaveCandidate(h) PROVE Fresh'
  BY <1>23 DEF SaveCandidate, Stored, NotStored
<1>24. CASE Restart
  BY <1>24 DEF Restart, Leave
<1>25. CASE UNCHANGED vars
  BY <1>25 DEF vars
<1>26. QED
  BY <1>1, <1>2, <1>3, <1>4, <1>5, <1>6, <1>7, <1>8, <1>9, <1>10, <1>11,
     <1>12, <1>13, <1>14, <1>15, <1>16, <1>17, <1>18, <1>19, <1>20, <1>21,
     <1>22, <1>23, <1>24, <1>25 DEF Next, Work, Handle

\* In a call that nothing disturbed, the retry carries a good CSRF token from
\* the answer it came in to the headers it is sent in.
LEMMA RetryStep == Inv /\ [Next]_vars => RetryInv'
<1> SUFFICES ASSUME Inv, [Next]_vars PROVE RetryInv'
  OBVIOUS
<1> USE SessionAssumption DEF Inv, TypeOK, Fresh, RetryInv, Csrf, Outdated,
   client, loop, handlers, server
<1>1. CASE StartCall
  BY <1>1 DEF StartCall
<1>2. CASE SyncHint
  BY <1>2 DEF SyncHint
<1>3. CASE ReadToken
  BY <1>3 DEF ReadToken
<1>4. CASE KeepToken
  BY <1>4 DEF KeepToken
<1>5. CASE Send
  BY <1>5 DEF Send
<1>6. CASE NoIdentity
  BY <1>6 DEF NoIdentity, End, Leave
<1>7. CASE NoAnswer
  BY <1>7 DEF NoAnswer, Again, End, Leave
<1>8. CASE Challenged
  BY <1>8 DEF Challenged, Merge, ReturnFailure, Fetched, End, Leave
<1>9. CASE SolveFails
  BY <1>9 DEF SolveFails, Again, End, Leave
<1>10. CASE LoggedOut
  BY <1>10 DEF LoggedOut, End, Leave
<1>11. CASE Solved
  BY <1>11 DEF Solved, Merge, Mark, Stored, NotStored
<1>12. CASE PageLoaded
  BY <1>12 DEF PageLoaded, Merge, Mark, Stored, NotStored, Fetched, Again,
     End, Leave
<1>13. CASE StillChallenged
  BY <1>13 DEF StillChallenged, Merge, Again, CanRetry, Outdated, End, Leave
<1>14. CASE RateLimited
  BY <1>14 DEF RateLimited, Merge, End, Leave
<1>15. CASE Busy
  BY <1>15 DEF Busy, Merge, Again, ReturnFailure, Fetched, End, Leave
<1>16. CASE Success
  BY <1>16 DEF Success, Merge, Mark, Stored, NotStored, ReturnFailure,
     Fetched, End, Leave
<1>17. CASE Refused
  BY <1>17 DEF Refused, Merge, ReturnFailure, Fetched, End, Leave
<1>18. CASE BadCsrf
  BY <1>18 DEF BadCsrf, Merge, Leave
<1>19. ASSUME NEW h \in Handlers, Recover(h) PROVE RetryInv'
  BY <1>19 DEF Recover
<1>20. ASSUME NEW h \in Handlers, Apply(h) PROVE RetryInv'
  BY <1>20 DEF Apply, Replace, Outdated
<1>21. ASSUME NEW h \in Handlers, Forget(h) PROVE RetryInv'
  BY <1>21 DEF Forget
<1>22. ASSUME NEW h \in Handlers, ReadCandidate(h) PROVE RetryInv'
  BY <1>22 DEF ReadCandidate
<1>23. ASSUME NEW h \in Handlers, SaveCandidate(h) PROVE RetryInv'
  BY <1>23 DEF SaveCandidate, Stored, NotStored
<1>24. CASE Restart
  BY <1>24 DEF Restart, Leave
<1>25. CASE UNCHANGED vars
  BY <1>25 DEF vars
<1>26. QED
  BY <1>1, <1>2, <1>3, <1>4, <1>5, <1>6, <1>7, <1>8, <1>9, <1>10, <1>11,
     <1>12, <1>13, <1>14, <1>15, <1>16, <1>17, <1>18, <1>19, <1>20, <1>21,
     <1>22, <1>23, <1>24, <1>25 DEF Next, Work, Handle

\* The inductive invariant of the session.
THEOREM Invariant == Spec => []Inv
<1>1. Init => Inv
  <2> SUFFICES ASSUME Init PROVE Inv
    OBVIOUS
  <2>1. FirstToken \in Token
    BY SessionAssumption DEF FirstToken, Token
  <2>2. TypeOK
    <3>1. task \in [Handlers -> {"idle", "recovered", "applied", "saving"}]
      BY DEF Init
    <3>2. cookie \in [Handlers -> Token \cup {NoToken}]
      BY DEF Init
    <3>3. session \in Token /\ candidate \in Token /\ saved \in Token
          /\ verified \subseteq Token
      BY <2>1 DEF Init
    <3>4. hint \in Csrf /\ csrf \in Csrf /\ header \in Csrf /\ got \in Csrf
      BY DEF Init, Csrf
    <3>5. attempt \in Nat /\ unresolved \in 0..(MaxUnresolved - 1)
          /\ issued \in 0..MaxTokens /\ logins \in 0..MaxLogins
          /\ runtime \in 0..MaxLogins
      BY SessionAssumption DEF Init
    <3>6. QED
      BY <3>1, <3>2, <3>3, <3>4, <3>5 DEF Init, TypeOK
  <2>3. Held /\ StoredWasVerified /\ LoginFollowsUpdate
    BY DEF Init, Held, Locked, StoredWasVerified, LoginFollowsUpdate,
       FirstToken
  <2>4. QED
    BY <2>2, <2>3 DEF Init, Inv, Fresh, RetryInv
<1>2. Inv /\ [Next]_vars => Inv'
  BY TypeStep, HeldStep, StoredStep, LoginStep, FreshStep, RetryStep DEF Inv
<1>3. QED
  BY <1>1, <1>2, PTL DEF Spec

\* The variables have their types, and fewer unresolved challenges than the
\* limit are counted in a request that goes on.
THEOREM TypeCorrect == Spec => []TypeOK
<1>1. Inv => TypeOK
  BY DEF Inv
<1>2. QED
  BY <1>1, Invariant, PTL

\* Only tokens that were supplied or carried by a successful interaction are
\* stored, however requests, updates, failed writes and restarts are mixed.
THEOREM OnlyVerifiedStored == Spec => []StoredWasVerified
<1>1. Inv => StoredWasVerified
  BY DEF Inv
<1>2. QED
  BY <1>1, Invariant, PTL

\* After an update is applied, the session and the candidate have its login.
THEOREM UpdateHolds == Spec => []LoginFollowsUpdate
<1>1. Inv => LoginFollowsUpdate
  BY DEF Inv
<1>2. QED
  BY <1>1, Invariant, PTL

\* A second BAD CSRF means that the call was disturbed.
THEOREM RetryFresh == Spec => []RetryHasFreshToken
<1>1. Inv => RetryHasFreshToken
  BY DEF Inv, TypeOK, RetryInv, RetryHasFreshToken
<1>2. QED
  BY <1>1, Invariant, PTL

-----------------------------------------------------------------------------
(* What UpdateApplied rests on: a request does not keep _lock for ever.     *)

\* The attempts of a request stay within request.max_retries, whichever of its
\* many reasons it has to try again.
AttemptsBounded == MaxRetries > 0 => attempt <= MaxRetries

Stage == [wait |-> 1, solve |-> 2, resent |-> 3]

\* While the lock is held every step of the request ends it, begins a further
\* attempt that is counted, or goes on within the attempt: from the request to
\* the challenge, from the challenge to the request that is sent again.
RequestAdvances ==
  [][Locked => \/ ~Locked' \/ UNCHANGED loop
               \/ attempt' = attempt + 1
               \/ attempt' = attempt /\ Stage[pc'] > Stage[pc]]_vars

\* What a step of the loop of retries does to the attempts.
LEMMA AttemptStep ==
  ASSUME Inv, Locked, Work
  PROVE  \/ ~Locked' /\ attempt' = 0
         \/ attempt' = attempt + 1 /\ CanRetry
         \/ attempt' = attempt /\ Stage[pc'] > Stage[pc]
<1> USE DEF Locked, Stage, Inv, TypeOK
<1>1. CASE StartCall \/ SyncHint \/ ReadToken \/ KeepToken \/ Send
  BY <1>1 DEF StartCall, SyncHint, ReadToken, KeepToken, Send
<1>2. CASE NoIdentity \/ LoggedOut \/ RateLimited
  BY <1>2 DEF NoIdentity, LoggedOut, RateLimited, End, Leave
<1>3. CASE NoAnswer \/ SolveFails
  BY <1>3 DEF NoAnswer, SolveFails, Again, End, Leave
<1>4. CASE Challenged
  BY <1>4 DEF Challenged, ReturnFailure, Fetched, End, Leave
<1>5. CASE Solved
  BY <1>5 DEF Solved
<1>6. CASE PageLoaded
  BY <1>6 DEF PageLoaded, Again, Fetched, End, Leave
<1>7. CASE StillChallenged
  BY <1>7 DEF StillChallenged, Again, End, Leave
<1>8. CASE Busy
  BY <1>8 DEF Busy, Again, ReturnFailure, Fetched, End, Leave
<1>9. CASE Success \/ Refused
  BY <1>9 DEF Success, Refused, ReturnFailure, Fetched, End, Leave
<1>10. CASE BadCsrf
  BY <1>10 DEF BadCsrf, Leave
<1> QED
  BY <1>1, <1>2, <1>3, <1>4, <1>5, <1>6, <1>7, <1>8, <1>9, <1>10 DEF Work

\* Outside the lock no attempt is counted.
LEMMA IdleStep == ASSUME ~Locked, Work PROVE UNCHANGED attempt \/ attempt' = 0
<1> USE DEF Locked
<1>1. CASE StartCall \/ SyncHint \/ ReadToken \/ KeepToken \/ Send
  BY <1>1 DEF StartCall, SyncHint, ReadToken, KeepToken, Send
<1>2. CASE NoIdentity
  BY <1>2 DEF NoIdentity, End, Leave
<1>3. CASE ~(StartCall \/ SyncHint \/ ReadToken \/ KeepToken \/ Send \/ NoIdentity)
  BY <1>3
  DEF Work, NoAnswer, Challenged, SolveFails, LoggedOut, Solved, PageLoaded,
      StillChallenged, RateLimited, Busy, Success, Refused, BadCsrf
<1> QED
  BY <1>1, <1>2, <1>3

\* Handlers leave the loop alone.
LEMMA HandleKeeps == ASSUME NEW h \in Handlers, Handle(h) PROVE UNCHANGED loop
  BY DEF Handle, Recover, Apply, Replace, Forget, ReadCandidate, SaveCandidate, loop

\* No reason to retry passes max_retries.
THEOREM RetriesBounded == Spec => []AttemptsBounded
<1>1. Init => AttemptsBounded
  BY SessionAssumption DEF Init, AttemptsBounded
<1>2. Inv /\ AttemptsBounded /\ [Next]_vars => AttemptsBounded'
  <2> SUFFICES ASSUME Inv, AttemptsBounded, [Next]_vars PROVE AttemptsBounded'
    OBVIOUS
  <2> USE SessionAssumption DEF AttemptsBounded
  <2>1. CASE Work
    <3>1. CASE Locked
      BY <2>1, <3>1, AttemptStep DEF CanRetry, Inv, TypeOK
    <3>2. CASE ~Locked
      BY <2>1, <3>2, IdleStep
    <3> QED
      BY <3>1, <3>2
  <2>2. CASE Restart
    BY <2>2 DEF Restart, Leave
  <2>3. CASE \E h \in Handlers : Handle(h)
    BY <2>3, HandleKeeps DEF loop
  <2>4. CASE UNCHANGED vars
    BY <2>4 DEF vars, loop
  <2> QED
    BY <2>1, <2>2, <2>3, <2>4 DEF Next
<1> QED
  BY <1>1, <1>2, Invariant, PTL DEF Spec

\* With RetriesBounded: a request has an end, and a handler that waits for its
\* lock with a new cookie gets its turn.
THEOREM RequestsAdvance == Spec => RequestAdvances
<1>1. Inv /\ [Next]_vars /\ Locked =>
        \/ ~Locked' \/ UNCHANGED loop
        \/ attempt' = attempt + 1
        \/ attempt' = attempt /\ Stage[pc'] > Stage[pc]
  BY AttemptStep, HandleKeeps DEF Next, Restart, Leave, Locked, vars
<1> QED
  BY <1>1, Invariant, PTL DEF Spec, RequestAdvances

=============================================================================
