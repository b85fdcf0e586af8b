---------------------------- MODULE WatchSchedule ----------------------------
(***************************************************************************)
(* The schedule of the watch (server.schedule): how long the loop of       *)
(* flows/watch.py sleeps, and the next run that GET /watch/status reports  *)
(* from server/http_server.py.  A window is <<hour, minute, hour, minute>>,*)
(* both ends included; one that ends before it starts goes on past         *)
(* midnight.  utils/config.py lets no malformed window through.            *)
(***************************************************************************)
EXTENDS Integers, FiniteSets, FiniteSetsExt

CONSTANTS HoursPerDay, MinutesPerHour

ASSUME ScheduleAssumption ==
  HoursPerDay \in Nat \ {0} /\ MinutesPerHour \in Nat \ {0}

Day == HoursPerDay * MinutesPerHour
Moments == 0..Day - 1

WellFormed(w) ==
  /\ w[1] \in 0..HoursPerDay - 1 /\ w[3] \in 0..HoursPerDay - 1
  /\ w[2] \in 0..MinutesPerHour - 1 /\ w[4] \in 0..MinutesPerHour - 1

Ranges(windows) ==
  {<<w[1] * MinutesPerHour + w[2], w[3] * MinutesPerHour + w[4]>> :
     w \in {v \in windows : WellFormed(v)}}

\* Fault: the part after midnight is forgotten.
Truncated(ranges) ==
  {IF r[2] >= r[1] THEN r ELSE <<r[1], Day - 1>> : r \in ranges}

Normalized(ranges) ==
  UNION {IF r[2] >= r[1] THEN {r} ELSE {<<r[1], Day - 1>>, <<0, r[2]>>} : r \in ranges}

Inside(ranges, now) == \E r \in ranges : r[1] <= now /\ now <= r[2]
FutureStarts(ranges, now) == {r[1] : r \in {s \in ranges : s[1] > now}}

\* Minutes to sleep.
DelaySecs(windows, now) ==
  LET ranges == Normalized(Ranges(windows))
      later == FutureStarts(ranges, now)
  IN  CASE ranges = {} \/ Inside(ranges, now) -> 0
        [] ranges # {} /\ ~Inside(ranges, now) /\ later # {} -> Min(later) - now
        [] ranges # {} /\ ~Inside(ranges, now) /\ later = {} ->
             (Day - now) + Min({r[1] : r \in ranges})

\* The hour and minute reported, <<>> for none.
NextRunLocal(windows, now) ==
  LET ranges == Normalized(Ranges(windows))
      later == FutureStarts(ranges, now)
      AsTime(m) == <<m \div MinutesPerHour, m % MinutesPerHour>>
  IN  CASE ranges = {} -> <<>>
        [] Inside(ranges, now) -> AsTime(now)
        [] ranges # {} /\ ~Inside(ranges, now) /\ later # {} -> AsTime(Min(later))
        [] ranges # {} /\ ~Inside(ranges, now) /\ later = {} ->
             AsTime(Min({r[1] : r \in ranges}))

-----------------------------------------------------------------------------
(* What the windows mean, stated without ranges: from the start of a window *)
(* its minutes follow one another round the clock up to its end.            *)

Allowed(windows, m) ==
  \E w \in windows :
    LET start == w[1] * MinutesPerHour + w[2]
        end == w[3] * MinutesPerHour + w[4]
    IN  (m - start) % Day <= (end - start) % Day

FirstAllowed(windows, now) ==
  IF windows = {} THEN 0
  ELSE Min({d \in Moments : Allowed(windows, (now + d) % Day)})
==============================================================================
