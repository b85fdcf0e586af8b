----------------------------- MODULE PluginHooks -----------------------------
(***************************************************************************)
(* plugins/manager.py and plugins/backend.py: the watch thread calls the   *)
(* hooks of the plugins one after the other, each in a daemon thread of    *)
(* its own that it joins for hook_timeout_secs at most.  A hook that is    *)
(* late is told so by a flag and goes on: it looks at the flag where the   *)
(* PluginContext does.  Hooks reply, like and count triggers through a     *)
(* backend that remembers once keys and daily counts; what they say of the *)
(* topics of the cycle is applied when they have ended in time.            *)
(*                                                                         *)
(* A hook acts at most once.  A like is guarded by the recipe of           *)
(* docs/plugin-development.md:511: was_done before it, mark_done after.    *)
(* The hooks that carry no topic of their own (cycle.started and so on)    *)
(* are dispatched as these are and are left out.                           *)
(***************************************************************************)
EXTENDS Integers, FiniteSets, SequencesExt

CONSTANTS
  Plugins,       \* plugins, by the order of their names: 1, 2, ...
  Priority,      \* Priority[p]
  Hooks,         \* Hooks[p]: the events plugin p listens to
  Does,          \* Does[p]: what its hooks may do and are permitted to
  NTopics,       \* topics in the list of a cycle
  Limit,         \* limits of reply, like and trigger, 0 for none
  Backend,       \* "memory" or "store"
  TimeoutOn,     \* hook_timeout_secs > 0
  MaxFailures,   \* max_consecutive_failures, 0 for no breaker
  NSlots         \* bound: hooks alive at once

ASSUME PluginAssumption ==
  /\ Plugins \subseteq Nat
  /\ Priority \in [Plugins -> Int]
  /\ Hooks \in [Plugins -> SUBSET {"topics.fetched", "topic.before_enter",
                                   "topic.after_crawl"}]
  /\ Does \in [Plugins -> SUBSET {"reply", "like", "trigger", "skip", "prioritize"}]
  /\ {NTopics, Limit, MaxFailures, NSlots} \subseteq Nat
  /\ TimeoutOn \in BOOLEAN
  /\ Backend \in {"memory", "store"}

Topics == 1..NTopics
Slots == 1..NSlots
Acts == {"reply", "like", "trigger"}
NoHook == [pc |-> "free", plugin |-> 0, act |-> "none", topic |-> 0, owed |-> "none",
           skips |-> {}, score |-> 0, cancelled |-> FALSE, since |-> FALSE]

\* What is counted per day, and what a once key can name.
Counts == UNION {{p} \X (Does[p] \cap Acts) : p \in Plugins}
Keys == {k \in Counts \X Topics : k[1][2] # "trigger"}

VARIABLES
  hook,       \* the hook thread in each slot; owed is the day of a request
              \* it has made and not recorded yet
  phase,      \* watch thread: "idle", "dispatch", "wait" or "giveup"
  event,      \* the event being dispatched
  topic,      \* its topic, 0 for the whole list
  due,        \* plugins still to be called for it
  cur,        \* slot of the hook the watch thread waits for
  todo,       \* topics still to be entered, in order
  scores,     \* cycle_state.topic_scores
  skipped,    \* cycle_state.skipped_topics
  failures,   \* consecutive_failures of each plugin
  disabled,   \* plugins the breaker has cut off
  done,       \* once keys: <<<<plugin, act>>, topic>>
  daily,      \* today's counts by <<plugin, act>>
  kept,       \* history: requests not broken off, by key
  today       \* history: those of today, by <<plugin, act>>

cycle == <<event, topic, due, cur, todo, scores, skipped>>
breaker == <<failures, disabled>>
kvstore == <<done, daily>>
history == <<kept, today>>
vars == <<hook, phase, event, topic, due, cur, todo, scores, skipped, failures,
          disabled, done, daily, kept, today>>

Fresh ==
  /\ phase = "idle" /\ event = "none" /\ topic = 0
  /\ due = {} /\ cur = 0 /\ todo = <<>>
  /\ scores = [t \in Topics |-> 0] /\ skipped = {}
  /\ failures = [p \in Plugins |-> 0] /\ disabled = {}

NothingKept == [k \in Keys |-> 0]
NothingCounted == [c \in Counts |-> 0]

Init ==
  /\ hook = [s \in Slots |-> NoHook]
  /\ Fresh
  /\ done = {}
  /\ daily = NothingCounted
  /\ kept = NothingKept
  /\ today = NothingCounted

-----------------------------------------------------------------------------
(* A hook in its thread *)

Active(s) == ~hook[s].cancelled

\* A hook that ends after its time is joined by nobody.
Ended(h, how) == IF h.cancelled THEN NoHook ELSE [h EXCEPT !.pc = how]

CountOf(h) == <<h.plugin, h.act>>
KeyOf(h) == <<CountOf(h), h.topic>>

\* Nothing more to act on, and the context of a late hook is never committed.
Acted(h) == [h EXCEPT !.pc = "run", !.act = "over", !.topic = 0, !.owed = "none"]

\* The record of a request that was made is not written, or not in time.
Forfeit(h) ==
  /\ kept' = IF h.owed = "none" THEN kept ELSE [kept EXCEPT ![KeyOf(h)] = @ - 1]
  /\ today' = IF h.owed = "today" THEN [today EXCEPT ![CountOf(h)] = @ - 1] ELSE today

\* The plugin's exception ends the hook.
HookFails(s) ==
  /\ hook' = [hook EXCEPT ![s] = Ended(Acted(@), "failed")]
  /\ Forfeit(hook[s])
  /\ UNCHANGED <<phase, cycle, breaker, kvstore>>

Move(s, h) ==
  /\ hook' = [hook EXCEPT ![s] = h]
  /\ UNCHANGED <<phase, cycle, breaker, kvstore>>

\* skip_topic and prioritize_topic: noted in the context only.
SkipTopic(s, t) ==
  LET h == hook[s] IN
  /\ h.pc = "run" /\ Active(s) /\ h.act = "none"
  /\ event \in {"topics.fetched", "topic.before_enter"}
  /\ "skip" \in Does[h.plugin]
  /\ Move(s, [h EXCEPT !.act = "over", !.skips = {t}])
  /\ UNCHANGED history

Prioritize(s, t) ==
  LET h == hook[s] IN
  /\ h.pc = "run" /\ Active(s) /\ h.act = "none"
  /\ event = "topics.fetched"
  /\ "prioritize" \in Does[h.plugin]
  /\ Move(s, [h EXCEPT !.act = "over", !.score = t])
  /\ UNCHANGED history

\* Fault: the once key is asked after the request only.
AnyKey(k) == TRUE

NotDone(k) == k \notin done

\* The active check, then the once key; a trigger has none.
TestOnce(s, a, t) ==
  LET h == hook[s] IN
  /\ h.pc = "run" /\ Active(s)
  /\ h.act = "none"
  /\ a \in Does[h.plugin]
  /\ topic # 0 => t = topic
  /\ Move(s, IF NotDone(<<<<h.plugin, a>>, t>>)
             THEN [h EXCEPT !.act = a, !.topic = t, !.pc = "limit"] ELSE Acted(h))
  /\ UNCHANGED history

\* Fault: the limit is passed once.
UpToLimit(c) == Limit = 0 \/ daily[c] <= Limit

\* The daily count, read before the request.  check_limit is no more.
BelowLimit(c) == Limit = 0 \/ daily[c] < Limit

TestLimit(s) ==
  LET h == hook[s] IN
  /\ h.pc = "limit"
  /\ Move(s, IF ~BelowLimit(CountOf(h)) THEN Acted(h)
             ELSE [h EXCEPT !.pc = IF h.act = "trigger" THEN "recheck" ELSE "request"])
  /\ UNCHANGED history

\* client.reply or client.toggle_reaction: the forum has it from here on.
Request(s) ==
  LET h == hook[s] IN
  /\ h.pc = "request"
  /\ Move(s, [h EXCEPT !.pc = "recheck", !.owed = IF Active(s) THEN "today" ELSE @])
  /\ IF Active(s)
     THEN /\ kept' = [kept EXCEPT ![KeyOf(h)] = @ + 1]
          /\ today' = [today EXCEPT ![CountOf(h)] = @ + 1]
     ELSE UNCHANGED history

\* The request, or the answer to one the forum took, ends in an exception.
RequestFails(s) == hook[s].pc = "request" /\ HookFails(s)

\* A hook that was cancelled meanwhile returns without recording anything;
\* record_trigger begins here.
Recheck(s) ==
  LET h == hook[s] IN
  /\ h.pc = "recheck"
  /\ Move(s, IF Active(s) THEN [h EXCEPT !.pc = "count"] ELSE Acted(h))
  /\ UNCHANGED history

\* inc_daily_count, on the day it is called; a trigger is nothing more.
Count(s) ==
  LET h == hook[s] IN
  /\ h.pc = "count"
  /\ daily' = [daily EXCEPT ![CountOf(h)] = @ + 1]
  /\ IF h.act = "trigger"
     THEN /\ hook' = [hook EXCEPT ![s] = Acted(h)]
          /\ today' = IF Active(s) THEN [today EXCEPT ![CountOf(h)] = @ + 1] ELSE today
     ELSE /\ hook' = [hook EXCEPT ![s].pc = "mark"]
          /\ UNCHANGED today
  /\ UNCHANGED <<phase, cycle, breaker, done, kept>>

\* mark_done: reply does it whatever the flag says, a like's plugin calls it
\* through the context, which refuses when the hook was cancelled.
Marked(h, active) == h.act = "reply" \/ active

MarkDone(s) ==
  LET h == hook[s] IN
  /\ h.pc = "mark"
  /\ hook' = [hook EXCEPT ![s] = Acted(h)]
  /\ done' = IF Marked(h, Active(s)) THEN done \cup {KeyOf(h)} ELSE done
  /\ UNCHANGED <<phase, cycle, breaker, daily, history>>

\* The database refuses: the exception passes through the plugin.
StoreFails(s) ==
  /\ hook[s].pc \in {"limit", "count", "mark"}
  /\ Backend = "store"
  /\ HookFails(s)

Return(s) ==
  /\ hook[s].pc = "run"
  /\ Move(s, Ended(hook[s], "ended"))
  /\ UNCHANGED history

Raise(s) == hook[s].pc = "run" /\ HookFails(s)

HookStep(s) ==
  \/ \E t \in Topics : SkipTopic(s, t) \/ Prioritize(s, t)
  \/ \E a \in Acts, t \in Topics : TestOnce(s, a, t)
  \/ TestLimit(s) \/ Request(s) \/ RequestFails(s) \/ Recheck(s)
  \/ Count(s) \/ MarkDone(s) \/ StoreFails(s) \/ Return(s) \/ Raise(s)

-----------------------------------------------------------------------------
(* The watch thread *)

Listening(e) == {p \in Plugins : e \in Hooks[p]}

Before(p, q) ==
  Priority[p] > Priority[q] \/ (Priority[p] = Priority[q] /\ p <= q)

Dispatch(e, t) ==
  /\ phase' = "dispatch"
  /\ event' = e
  /\ topic' = t
  /\ due' = Listening(e)

BeginCycle ==
  /\ phase = "idle"
  /\ Dispatch("topics.fetched", 0)
  /\ UNCHANGED <<hook, cur, todo, scores, skipped, breaker, kvstore, history>>

\* Fault: the breaker is not asked.
Uncut(p) == TRUE

\* _is_disabled.
Callable(p) == p \notin disabled

\* dispatch: in the order of (-priority, plugin_id), past disabled plugins.
CallHook(p, s) ==
  /\ phase = "dispatch"
  /\ p \in due /\ \A q \in due : Before(p, q)
  /\ due' = due \ {p}
  /\ IF Callable(p)
     THEN /\ hook[s] = NoHook /\ \A r \in Slots : r < s => hook[r] # NoHook
          /\ hook' = [hook EXCEPT ![s] = [NoHook EXCEPT !.pc = "run", !.plugin = p,
                                                        !.since = TRUE]]
          /\ cur' = s
          /\ phase' = "wait"
     ELSE UNCHANGED <<hook, cur, phase>>
  /\ UNCHANGED <<event, topic, todo, scores, skipped, breaker, kvstore, history>>

\* Fault: what a failed hook has noted is applied as well.
NotedAnyway(h) == h.skips

\* commit_cycle_changes is for hooks that ended without an exception.
Noted(h) == IF h.pc = "ended" THEN h.skips ELSE {}

\* A hook has ended in time: its success resets the failures of its plugin.
Succeeded(h) ==
  /\ phase = "wait"
  /\ h.pc = "ended"
  /\ failures' = [failures EXCEPT ![h.plugin] = 0]
  /\ hook' = [s \in Slots |->
                IF s = cur THEN NoHook
                ELSE [hook[s] EXCEPT !.since = @ /\ hook[s].plugin # h.plugin]]
  /\ cur' = 0
  /\ UNCHANGED <<disabled, kvstore, history>>

\* commit_cycle_changes: what was noted is logged, then applied.
JoinOk ==
  LET h == hook[cur] IN
  /\ Succeeded(h)
  /\ skipped' = skipped \cup Noted(h)
  /\ scores' = [t \in Topics |-> scores[t] + IF t = h.score THEN 1 ELSE 0]
  /\ phase' = "dispatch"
  /\ UNCHANGED <<event, topic, due, todo>>

EndCycle ==
  /\ phase' = "idle" /\ event' = "none" /\ topic' = 0
  /\ due' = {} /\ todo' = <<>>
  /\ scores' = [t \in Topics |-> 0] /\ skipped' = {}

\* The database refuses the log of what was noted: the exception leaves
\* _run_plugin_hook behind its try, dispatch and the cycle; nothing is applied,
\* and the plugins still due are not called.
CommitFails ==
  LET h == hook[cur] IN
  /\ Succeeded(h)
  /\ Backend = "store"
  /\ h.skips # {} \/ h.score # 0
  /\ EndCycle

\* consecutive_failures and the breaker.
CountFailure(p) ==
  /\ failures' = [failures EXCEPT ![p] = @ + 1]
  /\ disabled' = IF MaxFailures > 0 /\ failures[p] + 1 >= MaxFailures
                 THEN disabled \cup {p} ELSE disabled

JoinError ==
  LET h == hook[cur] IN
  /\ phase = "wait"
  /\ h.pc = "failed"
  /\ CountFailure(h.plugin)
  /\ skipped' = skipped \cup Noted(h)
  /\ hook' = [hook EXCEPT ![cur] = NoHook]
  /\ phase' = "dispatch"
  /\ cur' = 0
  /\ UNCHANGED <<event, topic, due, todo, scores, kvstore, history>>

\* Fault: the time of a hook that waits for an answer does not count.
TimeUpButAsking ==
  TimeoutOn /\ hook[cur].pc \notin {"ended", "failed", "request"}

\* join returns after its time and finds the thread alive.
TimeUp == TimeoutOn /\ hook[cur].pc \notin {"ended", "failed"}

GiveUp ==
  /\ phase = "wait"
  /\ TimeUp
  /\ phase' = "giveup"
  /\ UNCHANGED <<hook, cycle, breaker, kvstore, history>>

\* ctx.cancel and PluginHookTimeoutError; the thread goes on.
Cancel ==
  LET h == hook[cur] IN
  /\ phase = "giveup"
  /\ CountFailure(h.plugin)
  /\ hook' = [hook EXCEPT ![cur] =
               IF h.pc \in {"ended", "failed"} THEN NoHook
               ELSE [h EXCEPT !.cancelled = TRUE, !.owed = "none",
                              !.skips = {}, !.score = 0]]
  /\ Forfeit(h)
  /\ phase' = "dispatch"
  /\ cur' = 0
  /\ UNCHANGED <<event, topic, due, todo, scores, skipped, kvstore>>

\* sort_topics: by score, then as listed, without the skipped ones.
Ahead(t, u) == scores[t] > scores[u] \/ (scores[t] = scores[u] /\ t < u)

Sorted ==
  CHOOSE list \in SetToSeqs(Topics \ skipped) :
    \A i, j \in DOMAIN list : i < j => Ahead(list[i], list[j])

NextTopic(list) ==
  IF list = <<>>
  THEN EndCycle
  ELSE /\ Dispatch("topic.before_enter", Head(list))
       /\ todo' = Tail(list)
       /\ UNCHANGED <<scores, skipped>>

EventDone(e) == phase = "dispatch" /\ due = {} /\ event = e

ListSorted ==
  /\ EventDone("topics.fetched")
  /\ NextTopic(Sorted)
  /\ UNCHANGED <<hook, cur, breaker, kvstore, history>>

\* The topics that follow; none when the budget is spent, the loop was stopped
\* or a request has ended it.
Rest == {todo, <<>>}

\* The topic is passed over, or entered; then its new posts are announced, if
\* there are any.
EnterTopic ==
  /\ EventDone("topic.before_enter")
  /\ \/ topic \in skipped /\ NextTopic(todo)
     \/ topic \notin skipped /\ \E rest \in Rest : NextTopic(rest)
     \/ /\ topic \notin skipped
        /\ Dispatch("topic.after_crawl", topic)
        /\ UNCHANGED <<todo, scores, skipped>>
  /\ UNCHANGED <<hook, cur, breaker, kvstore, history>>

TopicDone ==
  /\ EventDone("topic.after_crawl")
  /\ \E rest \in Rest : NextTopic(rest)
  /\ UNCHANGED <<hook, cur, breaker, kvstore, history>>

WatchStep ==
  \/ \E p \in Plugins, s \in Slots : CallHook(p, s)
  \/ JoinOk \/ CommitFails \/ JoinError \/ GiveUp \/ Cancel
  \/ ListSorted \/ EnterTopic \/ TopicDone

-----------------------------------------------------------------------------

\* The date changes: yesterday's counts are not read again.
Midnight ==
  /\ daily' = NothingCounted
  /\ today' = NothingCounted
  /\ hook' = [s \in Slots |-> [hook[s] EXCEPT !.owed = IF @ = "none" THEN @ ELSE "before"]]
  /\ UNCHANGED <<phase, cycle, breaker, done, kept>>

Owing(k) == {s \in Slots : hook[s].owed # "none" /\ KeyOf(hook[s]) = k}
OwingToday(c) == {s \in Slots : hook[s].owed = "today" /\ CountOf(hook[s]) = c}

\* The process dies and is started again: a memory backend forgets all, and
\* with it what it promised; a store has what was written.
Restart ==
  /\ hook' = [s \in Slots |-> NoHook]
  /\ phase' = "idle" /\ event' = "none" /\ topic' = 0
  /\ due' = {} /\ cur' = 0 /\ todo' = <<>>
  /\ scores' = [t \in Topics |-> 0] /\ skipped' = {}
  /\ failures' = [p \in Plugins |-> 0] /\ disabled' = {}
  /\ IF Backend = "store"
     THEN /\ kept' = [k \in Keys |-> kept[k] - Cardinality(Owing(k))]
          /\ today' = [c \in Counts |-> today[c] - Cardinality(OwingToday(c))]
          /\ UNCHANGED <<done, daily>>
     ELSE /\ kept' = NothingKept /\ today' = NothingCounted
          /\ done' = {} /\ daily' = NothingCounted

Next ==
  \/ BeginCycle \/ WatchStep \/ Midnight \/ Restart
  \/ \E s \in Slots : HookStep(s)

Spec == Init /\ [][Next]_vars

\* The watch thread runs on; nothing is assumed of the plugins' code.
FairSpec == Spec /\ WF_vars(JoinOk \/ CommitFails \/ JoinError \/ GiveUp \/ Cancel)

-----------------------------------------------------------------------------
(* Properties *)

TypeOK ==
  /\ hook \in [Slots -> [pc : {"free", "run", "limit", "request", "recheck", "count",
                               "mark", "ended", "failed"},
                         plugin : Plugins \cup {0}, act : Acts \cup {"none", "over"},
                         topic : Topics \cup {0}, owed : {"none", "today", "before"},
                         skips : SUBSET Topics, score : Topics \cup {0},
                         cancelled : BOOLEAN, since : BOOLEAN]]
  /\ phase \in {"idle", "dispatch", "wait", "giveup"}
  /\ event \in {"none", "topics.fetched", "topic.before_enter", "topic.after_crawl"}
  /\ topic \in Topics \cup {0}
  /\ due \subseteq Plugins
  /\ cur \in Slots \cup {0}
  /\ todo \in Seq(Topics)
  /\ scores \in [Topics -> Nat]
  /\ skipped \subseteq Topics
  /\ failures \in [Plugins -> Nat]
  /\ disabled \subseteq Plugins
  /\ done \subseteq Keys
  /\ daily \in [Counts -> Nat]
  /\ kept \in [Keys -> Nat]
  /\ today \in [Counts -> Nat]

\* A once key lets one request through in all, over hooks, cycles, days and
\* restarts of a process with a store: only a hook that was broken off (late,
\* failed or killed between request and record) can have made another one
\* (267-332; docs/plugin-development.md:493).
OnceKept == \A k \in Keys : kept[k] <= 1

\* A day has at most the limit of requests of a plugin, those of broken off
\* hooks left out, though the count is read before the request and written
\* after it, midnight or not (288-313; docs/plugin-development.md:538).
LimitKept == Limit > 0 => \A c \in Counts : today[c] <= Limit

\* The topics of a cycle are skipped for nothing but what a hook asked that
\* ended in time: what a late or failed one had noted is dropped (413-433).
SkipsOfEndedHooks ==
  [][skipped' \subseteq skipped
       \cup UNION {hook[s].skips : s \in {r \in Slots : hook[r].pc = "ended"
                                                       /\ hook'[r] = NoHook
                                                       /\ phase # "giveup"}}]_vars

\* The late hooks of a plugin that are still running and were called since its
\* last success are no more than its failures: a plugin that hangs leaves at
\* most max_consecutive_failures threads behind (789-841).
LateHooksBounded ==
  \A p \in Plugins :
    LET late == {s \in Slots : hook[s].plugin = p /\ hook[s].cancelled
                                /\ hook[s].since}
    IN /\ Cardinality(late) <= failures[p]
       /\ MaxFailures > 0 => failures[p] <= MaxFailures

\* The watch thread never waits for a hook for good, whatever its plugin does
\* (843-866).
HookWaitEnds == phase = "wait" ~> phase # "wait"
==============================================================================
