---------------------------- MODULE PluginHooksProofs ----------------------------
(***************************************************************************)
(* Theorems about PluginHooks, for every value of its constants: any       *)
(* plugins, topics, limits, hooks alive, with or without a timeout and a   *)
(* breaker, and both backends.                                             *)
(***************************************************************************)
EXTENDS PluginHooks, FiniteSetTheorems, TLAPS

Acting == {"limit", "request", "recheck", "count", "mark"}

Hook ==
  [pc : {"free", "run", "ended", "failed"} \cup Acting,
   plugin : Plugins \cup {0}, act : Acts \cup {"none", "over"},
   topic : Topics \cup {0}, owed : {"none", "today", "before"},
   skips : SUBSET Topics, score : Topics \cup {0},
   cancelled : BOOLEAN, since : BOOLEAN]

Shape ==
  /\ hook \in [Slots -> Hook]
  /\ daily \in [Counts -> Nat] /\ today \in [Counts -> Int]
  /\ kept \in [Keys -> Int]

\* A hook that was not told to stop is the one the watch thread waits for.
OnlyCurrent ==
  /\ phase \in {"wait", "giveup"} => cur \in Slots
  /\ \A s \in Slots : hook[s].pc # "free" /\ ~hook[s].cancelled =>
       phase \in {"wait", "giveup"} /\ s = cur

\* What a hook is about to do, it may do: its request was not made before, and
\* the limit is not reached, though daily and done may have changed since.
Sound(h) ==
  /\ h.pc \in {"run"} \cup Acting => h.plugin \in Plugins
  /\ h.owed # "none" => /\ ~h.cancelled /\ h.act \in {"reply", "like"}
                        /\ h.pc \in {"recheck", "count", "mark"}
  /\ h.pc \in Acting => /\ h.act \in Acts /\ h.topic \in Topics
                        /\ CountOf(h) \in Counts
  /\ h.pc \in {"request", "mark"} => h.act # "trigger"
  /\ ~h.cancelled /\ h.act # "trigger" /\ h.pc \in {"limit", "request"} =>
       kept[KeyOf(h)] <= 0
  /\ /\ Limit > 0 /\ ~h.cancelled
     /\ h.pc = "request" \/ (h.act = "trigger" /\ h.pc \in {"recheck", "count"})
     => today[CountOf(h)] < Limit

\* A request that was made has its once key set, or a hook will set it.
KeptInv ==
  \A k \in Keys : /\ kept[k] <= 1
                  /\ kept[k] = 1 => k \in done \/ \E s \in Slots :
                                      hook[s].owed # "none" /\ KeyOf(hook[s]) = k

\* The request of a hook that is counted still.
Uncounted(h, c) ==
  h.owed = "today" /\ h.pc \in {"recheck", "count"} /\ CountOf(h) = c

\* The count of a day is at most one behind.
LimitInv ==
  \A c \in Counts :
    /\ Limit > 0 => today[c] <= Limit
    /\ today[c] <= daily[c] + 1
    /\ today[c] = daily[c] + 1 => \E s \in Slots : Uncounted(hook[s], c)

Inv ==
  /\ Shape
  /\ OnlyCurrent
  /\ \A s \in Slots : Sound(hook[s])
  /\ KeptInv
  /\ LimitInv

-----------------------------------------------------------------------------
(* Hooks *)

LEMMA NoHookType == NoHook \in Hook /\ Sound(NoHook)
BY DEF NoHook, Hook, Acting, Acts, Topics, Sound

LEMMA CountsOfPlugins ==
  ASSUME NEW p \in Plugins, NEW a \in Does[p] \cap Acts
  PROVE  <<p, a>> \in Counts
BY DEF Counts

LEMMA KeysOfCounts ==
  ASSUME NEW h, CountOf(h) \in Counts, h.topic \in Topics, h.act # "trigger"
  PROVE  KeyOf(h) \in Keys
BY DEF Keys, KeyOf, CountOf

\* Beside a hook that was not told to stop, nobody owes a record.
LEMMA OthersOweNothing ==
  ASSUME Inv, NEW s \in Slots, hook[s].pc # "free", ~hook[s].cancelled,
         NEW r \in Slots, r # s
  PROVE  hook[r].owed = "none" /\ (hook[r].pc = "free" \/ hook[r].cancelled)
BY DEF Inv, OnlyCurrent, Sound

LEMMA ActedType ==
  ASSUME NEW h \in Hook
  PROVE  /\ Acted(h) \in Hook
         /\ Acted(h).pc = "run" /\ Acted(h).act = "over" /\ Acted(h).owed = "none"
         /\ Acted(h).cancelled = h.cancelled /\ Acted(h).plugin = h.plugin
BY DEF Hook, Acted, Acting, Acts, Topics

LEMMA EndedType ==
  ASSUME NEW h \in Hook, NEW how \in {"ended", "failed"}
  PROVE  /\ Ended(h, how) \in Hook
         /\ h.cancelled => Ended(h, how) = NoHook
         /\ ~h.cancelled => /\ Ended(h, how).pc = how /\ Ended(h, how).owed = h.owed
                            /\ ~Ended(h, how).cancelled
BY NoHookType DEF Hook, Ended, Acting

\* A step of one hook leaves the others sound: if it is active they are not,
\* and if it is not it changes nothing they rest on.
LEMMA OthersSound ==
  ASSUME Inv, NEW s \in Slots, NEW r \in Slots, r # s, hook'[r] = hook[r],
         (hook[s].pc # "free" /\ ~hook[s].cancelled) \/ UNCHANGED <<kept, today>>
  PROVE  Sound(hook[r])'
<1>1. CASE hook[s].pc # "free" /\ ~hook[s].cancelled
  BY <1>1, OthersOweNothing DEF Inv, Sound, Acting, CountOf, KeyOf
<1>2. CASE UNCHANGED <<kept, today>>
  BY <1>2 DEF Inv, Sound, Acting, CountOf, KeyOf
<1>3. QED
  BY <1>1, <1>2

\* A step of a hook keeps OnlyCurrent if it does not revive it.
LEMMA KeepsCurrent ==
  ASSUME Inv, NEW s \in Slots, NEW g, hook' = [hook EXCEPT ![s] = g],
         UNCHANGED <<phase, cur>>,
         g.pc = "free" \/ g.cancelled \/ (hook[s].pc # "free" /\ ~hook[s].cancelled)
  PROVE  OnlyCurrent'
BY DEF Inv, Shape, OnlyCurrent

\* A step that changes no counts, keys and history.
LEMMA MoveInv ==
  ASSUME Inv, NEW s \in Slots, NEW g \in Hook, Move(s, g), UNCHANGED history,
         g.pc = "free" \/ g.cancelled \/ (hook[s].pc # "free" /\ ~hook[s].cancelled),
         Sound(g),
         hook[s].owed # "none" =>
           /\ g.owed = hook[s].owed /\ KeyOf(g) = KeyOf(hook[s])
           /\ hook[s].pc \in {"recheck", "count"} => g.pc \in {"recheck", "count"}
  PROVE  Inv'
<1>1. /\ hook' = [hook EXCEPT ![s] = g]
      /\ UNCHANGED <<phase, cur, done, daily, kept, today>>
  BY DEF Move, cycle, kvstore, history
<1>2. Shape'
  BY <1>1 DEF Inv, Shape
<1>3. OnlyCurrent'
  BY <1>1, KeepsCurrent
<1>4. ASSUME NEW r \in Slots PROVE Sound(hook[r])'
  <2>1. CASE r = s
    BY <1>1, <2>1 DEF Inv, Shape, Sound, CountOf, KeyOf
  <2>2. CASE r # s
    BY <1>1, <2>2, OthersSound DEF Inv, Shape
  <2>3. QED
    BY <2>1, <2>2
<1>5. KeptInv'
  <2> SUFFICES ASSUME NEW k \in Keys, kept[k] = 1, k \notin done
               PROVE  \E r \in Slots : hook'[r].owed # "none" /\ KeyOf(hook'[r]) = k
    BY <1>1 DEF Inv, KeptInv, KeyOf, CountOf
  <2>1. PICK r \in Slots : hook[r].owed # "none" /\ KeyOf(hook[r]) = k
    BY DEF Inv, KeptInv
  <2>2. QED
    BY <1>1, <2>1 DEF Inv, Shape
<1>6. LimitInv'
  <2> SUFFICES ASSUME NEW c \in Counts, today[c] = daily[c] + 1
               PROVE  \E r \in Slots : Uncounted(hook'[r], c)
    BY <1>1 DEF Inv, LimitInv, Uncounted, CountOf
  <2>1. PICK r \in Slots : Uncounted(hook[r], c)
    BY DEF Inv, LimitInv
  <2>2. CASE r = s
    BY <1>1, <2>1, <2>2 DEF Inv, Shape, Uncounted, KeyOf
  <2>3. CASE r # s
    BY <1>1, <2>1, <2>3 DEF Inv, Shape, Uncounted
  <2>4. QED
    BY <2>2, <2>3
<1>7. QED
  BY <1>2, <1>3, <1>4, <1>5, <1>6 DEF Inv

\* A hook ends or is told to stop: if it owes a record it is written off.
LEMMA ForfeitInv ==
  ASSUME Inv, NEW s \in Slots, NEW g \in Hook, hook' = [hook EXCEPT ![s] = g],
         g.owed = "none", Sound(g)', Forfeit(hook[s]), UNCHANGED <<done, daily>>
  PROVE  Shape' /\ (\A r \in Slots : Sound(hook[r])') /\ KeptInv' /\ LimitInv'
<1> DEFINE h == hook[s]
           k0 == KeyOf(h)
           c0 == CountOf(h)
<1>1. h.owed # "none" => /\ h.pc # "free" /\ ~h.cancelled
                         /\ k0 \in Keys /\ c0 \in Counts
  BY KeysOfCounts DEF Inv, Sound, Acting
<1>2. Shape'
  BY <1>1 DEF Inv, Shape, Forfeit
<1>3. ASSUME NEW r \in Slots PROVE Sound(hook[r])'
  <2>1. CASE r = s
    BY <2>1 DEF Inv, Shape
  <2>2. CASE r # s
    <3>1. (h.pc # "free" /\ ~h.cancelled) \/ UNCHANGED <<kept, today>>
      BY <1>1 DEF Forfeit
    <3>2. QED
      BY <2>2, <3>1, OthersSound DEF Inv, Shape
  <2>3. QED
    BY <2>1, <2>2
<1>4. KeptInv'
  <2> SUFFICES ASSUME NEW k \in Keys
               PROVE  /\ kept'[k] <= 1
                      /\ kept'[k] = 1 => k \in done' \/ \E r \in Slots :
                           hook'[r].owed # "none" /\ KeyOf(hook'[r]) = k
    BY DEF KeptInv, KeyOf, CountOf
  <2>1. kept[k] \in Int /\ kept[k] <= 1
    BY DEF Inv, Shape, KeptInv
  <2>2. kept'[k] = IF h.owed # "none" /\ k = k0 THEN kept[k] - 1 ELSE kept[k]
    BY <1>1 DEF Inv, Shape, Forfeit
  <2>3. ASSUME kept'[k] = 1, k \notin done
        PROVE  \E r \in Slots : hook'[r].owed # "none" /\ KeyOf(hook'[r]) = k
    <3>1. kept[k] = 1 /\ ~(h.owed # "none" /\ k = k0)
      BY <2>1, <2>2, <2>3
    <3>2. PICK r \in Slots : hook[r].owed # "none" /\ KeyOf(hook[r]) = k
      BY <2>3, <3>1 DEF Inv, KeptInv
    <3>3. r # s
      BY <3>1, <3>2
    <3>4. QED
      BY <3>2, <3>3 DEF Inv, Shape
  <2>4. QED
    BY <2>1, <2>2, <2>3
<1>5. LimitInv'
  <2> SUFFICES ASSUME NEW c \in Counts
               PROVE  /\ Limit > 0 => today'[c] <= Limit
                      /\ today'[c] <= daily[c] + 1
                      /\ today'[c] = daily[c] + 1 => \E r \in Slots : Uncounted(hook'[r], c)
    BY DEF LimitInv, Uncounted, CountOf
  <2>1. /\ today[c] \in Int /\ daily[c] \in Nat /\ today[c] <= daily[c] + 1
        /\ Limit > 0 => today[c] <= Limit
    BY DEF Inv, Shape, LimitInv
  <2>2. today'[c] = IF h.owed = "today" /\ c = c0 THEN today[c] - 1 ELSE today[c]
    BY <1>1 DEF Inv, Shape, Forfeit
  <2>3. ASSUME today'[c] = daily[c] + 1
        PROVE  \E r \in Slots : Uncounted(hook'[r], c)
    <3>1. today[c] = daily[c] + 1 /\ ~(h.owed = "today" /\ c = c0)
      BY <2>1, <2>2, <2>3
    <3>2. PICK r \in Slots : Uncounted(hook[r], c)
      BY <3>1 DEF Inv, LimitInv
    <3>3. r # s
      BY <3>1, <3>2 DEF Uncounted
    <3>4. QED
      BY <3>2, <3>3 DEF Inv, Shape
  <2>4. QED
    <3>1. today'[c] <= today[c]
      BY <2>1, <2>2
    <3>2. Limit \in Nat
      BY PluginAssumption
    <3>3. today'[c] \in Int
      BY <2>1, <2>2
    <3>4. QED
      BY <2>1, <2>3, <3>1, <3>2, <3>3
<1>6. QED
  BY <1>2, <1>3, <1>4, <1>5

\* What has neither acted nor asked for anything is sound.
LEMMA IdleSound ==
  ASSUME NEW g, g.owed = "none", g.pc \notin Acting,
         g.pc = "run" => g.plugin \in Plugins
  PROVE  Sound(g) /\ Sound(g)'
BY DEF Sound, Acting

LEMMA HookFailsStep ==
  ASSUME Inv, NEW s \in Slots, HookFails(s), hook[s].pc # "free"
  PROVE  Inv'
<1>1. PICK h : h = hook[s]
  OBVIOUS
<1>2. PICK g : g = Ended(Acted(h), "failed")
  OBVIOUS
<1>3. h \in Hook
  BY <1>1 DEF Inv, Shape
<1>4. /\ g \in Hook /\ g.owed = "none" /\ g.pc \in {"free", "failed"}
      /\ ~h.cancelled \/ g.pc = "free"
  BY <1>2, <1>3, ActedType, EndedType DEF NoHook
<1>5. Sound(g)'
  BY <1>4, IdleSound DEF Acting
<1>6. /\ hook' = [hook EXCEPT ![s] = g] /\ Forfeit(hook[s])
      /\ UNCHANGED <<phase, cur, done, daily>>
  BY <1>1, <1>2 DEF HookFails, cycle, kvstore
<1>7. OnlyCurrent'
  BY <1>1, <1>4, <1>6, KeepsCurrent
<1>8. QED
  BY <1>4, <1>5, <1>6, <1>7, ForfeitInv DEF Inv

\* A hook that has neither acted nor asked for anything goes on so, or ends.
LEMMA QuietMove ==
  ASSUME Inv, NEW s \in Slots, hook[s].pc = "run", NEW g \in Hook,
         g.owed = "none", g.pc \notin Acting, g.pc = "run" => g.plugin \in Plugins,
         g.pc = "free" \/ g.cancelled = hook[s].cancelled,
         Move(s, g), UNCHANGED history
  PROVE  Inv'
<1>1. hook[s] \in Hook /\ hook[s].owed = "none"
  BY DEF Inv, Shape, Sound
<1>2. g.pc = "free" \/ g.cancelled \/ (hook[s].pc # "free" /\ ~hook[s].cancelled)
  BY <1>1 DEF Hook
<1>3. QED
  BY <1>1, <1>2, IdleSound, MoveInv

LEMMA NoteStep ==
  ASSUME Inv, NEW s \in Slots, NEW t \in Topics, SkipTopic(s, t) \/ Prioritize(s, t)
  PROVE  Inv'
<1>1. PICK h : h = hook[s]
  OBVIOUS
<1>2. /\ h \in Hook /\ h.pc = "run" /\ h.plugin \in Plugins /\ h.owed = "none"
      /\ UNCHANGED history
  BY <1>1 DEF Inv, Shape, Sound, SkipTopic, Prioritize
<1>3. PICK g \in {[h EXCEPT !.act = "over", !.skips = {t}],
                  [h EXCEPT !.act = "over", !.score = t]} : Move(s, g)
  BY <1>1 DEF SkipTopic, Prioritize
<1>4. /\ g \in Hook /\ g.owed = "none" /\ g.pc = "run" /\ g.plugin = h.plugin
      /\ g.cancelled = h.cancelled
  <2>1. CASE g = [h EXCEPT !.act = "over", !.skips = {t}]
    BY <1>2, <2>1 DEF Hook
  <2>2. CASE g = [h EXCEPT !.act = "over", !.score = t]
    BY <1>2, <2>2 DEF Hook
  <2>3. QED
    BY <1>3, <2>1, <2>2
<1>5. QED
  BY <1>1, <1>2, <1>3, <1>4, QuietMove DEF Acting

LEMMA ReturnStep ==
  ASSUME Inv, NEW s \in Slots, Return(s)
  PROVE  Inv'
<1>1. PICK h : h = hook[s]
  OBVIOUS
<1>2. /\ h \in Hook /\ h.pc = "run" /\ h.owed = "none" /\ UNCHANGED history
  BY <1>1 DEF Inv, Shape, Sound, Return
<1>3. PICK g : g = Ended(h, "ended")
  OBVIOUS
<1>4. /\ g \in Hook /\ g.owed = "none" /\ g.pc \in {"free", "ended"}
      /\ g.pc = "free" \/ g.cancelled = h.cancelled
  BY <1>2, <1>3, EndedType DEF NoHook, Hook
<1>5. Move(s, g)
  BY <1>1, <1>3 DEF Return
<1>6. QED
  BY <1>1, <1>2, <1>4, <1>5, QuietMove DEF Acting

\* A key that is not done was asked for by nobody: the hook that asks is the
\* only one that could owe the record.
LEMMA TestOnceStep ==
  ASSUME Inv, NEW s \in Slots, NEW a \in Acts, NEW t \in Topics, TestOnce(s, a, t)
  PROVE  Inv'
<1>1. PICK h : h = hook[s]
  OBVIOUS
<1>2. /\ h \in Hook /\ h.pc = "run" /\ h.plugin \in Plugins /\ h.owed = "none"
      /\ ~h.cancelled /\ UNCHANGED history /\ a \in Does[h.plugin]
  BY <1>1 DEF Inv, Shape, Sound, TestOnce, Active
<1>3. CASE NotDone(<<<<h.plugin, a>>, t>>)
  <2>1. PICK g : g = [h EXCEPT !.act = a, !.topic = t, !.pc = "limit"]
    OBVIOUS
  <2>2. /\ g \in Hook /\ g.owed = "none" /\ g.pc = "limit" /\ ~g.cancelled
        /\ g.act = a /\ g.topic = t /\ g.plugin = h.plugin
    BY <1>2, <2>1 DEF Hook, Acting
  <2>3. Move(s, g)
    BY <1>1, <1>3, <2>1 DEF TestOnce
  <2>4. CountOf(g) \in Counts
    BY <1>2, <2>2, CountsOfPlugins DEF CountOf
  <2>5. ASSUME a # "trigger" PROVE kept[KeyOf(g)] <= 0
    <3>1. KeyOf(g) \in Keys /\ KeyOf(g) \notin done
      BY <1>3, <2>2, <2>4, <2>5, KeysOfCounts DEF NotDone, KeyOf, CountOf
    <3>2. \A r \in Slots : hook[r].owed = "none"
      BY <1>1, <1>2, OthersOweNothing
    <3>3. kept[KeyOf(g)] # 1 /\ kept[KeyOf(g)] <= 1 /\ kept[KeyOf(g)] \in Int
      BY <3>1, <3>2 DEF Inv, Shape, KeptInv
    <3>4. QED
      BY <3>3
  <2>6. Sound(g)
    BY <1>2, <2>2, <2>4, <2>5 DEF Sound, Acting
  <2>7. QED
    BY <1>1, <1>2, <2>2, <2>3, <2>6, MoveInv
<1>4. CASE ~NotDone(<<<<h.plugin, a>>, t>>)
  <2>1. PICK g : g = Acted(h)
    OBVIOUS
  <2>2. /\ g \in Hook /\ g.owed = "none" /\ g.pc = "run" /\ g.plugin = h.plugin
        /\ ~g.cancelled
    BY <1>2, <2>1, ActedType
  <2>3. Move(s, g)
    BY <1>1, <1>4, <2>1 DEF TestOnce
  <2>4. Sound(g)
    BY <1>2, <2>2, IdleSound DEF Acting
  <2>5. QED
    BY <1>1, <1>2, <2>2, <2>3, <2>4, MoveInv
<1>5. QED
  BY <1>3, <1>4

\* Below the limit by the count that was read, the requests of the day are
\* below it too, as nothing is uncounted.
LEMMA TestLimitStep ==
  ASSUME Inv, NEW s \in Slots, TestLimit(s)
  PROVE  Inv'
<1>1. PICK h : h = hook[s]
  OBVIOUS
<1>2. /\ h \in Hook /\ h.pc = "limit" /\ h.owed = "none" /\ Sound(h)
      /\ UNCHANGED history /\ h.act \in Acts /\ h.topic \in Topics
      /\ CountOf(h) \in Counts /\ h.plugin \in Plugins
  BY <1>1 DEF Inv, Shape, Sound, TestLimit, Acting, Hook
<1>3. CASE BelowLimit(CountOf(h))
  <2>1. PICK g : g = [h EXCEPT !.pc = IF h.act = "trigger" THEN "recheck" ELSE "request"]
    OBVIOUS
  <2>2. /\ g \in Hook /\ g.owed = "none" /\ g.act = h.act /\ g.topic = h.topic
        /\ g.plugin = h.plugin /\ g.cancelled = h.cancelled
        /\ g.pc = IF h.act = "trigger" THEN "recheck" ELSE "request"
    BY <1>2, <2>1 DEF Hook, Acting
  <2>3. Move(s, g)
    BY <1>1, <1>3, <2>1 DEF TestLimit
  <2>4. CountOf(g) = CountOf(h) /\ KeyOf(g) = KeyOf(h)
    BY <2>2 DEF CountOf, KeyOf
  <2>5. ASSUME Limit > 0, ~h.cancelled PROVE today[CountOf(h)] < Limit
    <3>1. \A r \in Slots : hook[r].owed = "none"
      BY <1>1, <1>2, <2>5, OthersOweNothing
    <3>2. today[CountOf(h)] # daily[CountOf(h)] + 1
      BY <1>2, <3>1 DEF Inv, LimitInv, Uncounted
    <3>3. today[CountOf(h)] <= daily[CountOf(h)]
      BY <1>2, <3>2 DEF Inv, Shape, LimitInv
    <3>4. daily[CountOf(h)] < Limit
      BY <1>3, <2>5, PluginAssumption DEF BelowLimit
    <3>5. QED
      BY <1>2, <3>3, <3>4, PluginAssumption DEF Inv, Shape
  <2>6. Sound(g)
    BY <1>2, <2>2, <2>4, <2>5 DEF Sound, Acting
  <2>7. QED
    BY <1>1, <1>2, <2>2, <2>3, <2>6, MoveInv
<1>4. CASE ~BelowLimit(CountOf(h))
  <2>1. PICK g : g = Acted(h)
    OBVIOUS
  <2>2. /\ g \in Hook /\ g.owed = "none" /\ g.pc = "run" /\ g.plugin = h.plugin
        /\ g.cancelled = h.cancelled
    BY <1>2, <2>1, ActedType
  <2>3. Move(s, g)
    BY <1>1, <1>4, <2>1 DEF TestLimit
  <2>4. Sound(g)
    BY <1>2, <2>2, IdleSound DEF Acting
  <2>5. QED
    BY <1>1, <1>2, <2>2, <2>3, <2>4, MoveInv
<1>5. QED
  BY <1>3, <1>4

\* The hook below the limit makes its request: it is the first with its key,
\* and its count is yet to come.
LEMMA RequestStep ==
  ASSUME Inv, NEW s \in Slots, Request(s)
  PROVE  Inv'
<1>1. PICK h : h = hook[s]
  OBVIOUS
<1>2. /\ h \in Hook /\ h.pc = "request" /\ h.owed = "none" /\ Sound(h)
      /\ h.act \in {"reply", "like"} /\ h.topic \in Topics
      /\ CountOf(h) \in Counts /\ h.plugin \in Plugins
  BY <1>1 DEF Inv, Shape, Sound, Request, Acting, Acts
<1>3. CASE h.cancelled
  <2>1. PICK g : g = [h EXCEPT !.pc = "recheck", !.owed = h.owed]
    OBVIOUS
  <2>2. /\ g \in Hook /\ g.owed = "none" /\ g.pc = "recheck" /\ g.act = h.act
        /\ g.topic = h.topic /\ g.plugin = h.plugin /\ g.cancelled
    BY <1>2, <1>3, <2>1 DEF Hook, Acting
  <2>3. Move(s, g) /\ UNCHANGED history
    BY <1>1, <1>3, <2>1 DEF Request, Active
  <2>4. Sound(g)
    BY <1>2, <2>2 DEF Sound, Acting, CountOf, Acts
  <2>5. QED
    BY <1>1, <1>2, <2>2, <2>3, <2>4, MoveInv
<1>4. CASE ~h.cancelled
  <2> DEFINE k0 == KeyOf(h)
             c0 == CountOf(h)
  <2>1. PICK g : g = [h EXCEPT !.pc = "recheck", !.owed = "today"]
    OBVIOUS
  <2>2. /\ g \in Hook /\ g.owed = "today" /\ g.pc = "recheck" /\ g.act = h.act
        /\ g.topic = h.topic /\ g.plugin = h.plugin /\ ~g.cancelled
    BY <1>2, <1>4, <2>1 DEF Hook, Acting
  <2>3. KeyOf(g) = k0 /\ CountOf(g) = c0 /\ k0 \in Keys /\ c0 \in Counts
    BY <1>2, <2>2, KeysOfCounts DEF KeyOf, CountOf
  <2>4. /\ hook' = [hook EXCEPT ![s] = g] /\ UNCHANGED <<phase, cur, done, daily>>
        /\ kept' = [kept EXCEPT ![k0] = @ + 1] /\ today' = [today EXCEPT ![c0] = @ + 1]
    BY <1>1, <1>4, <2>1 DEF Request, Active, Move, cycle, kvstore
  <2>5. \A r \in Slots : hook[r].owed = "none"
    BY <1>1, <1>2, <1>4, OthersOweNothing
  <2>6. kept[k0] <= 0 /\ (Limit > 0 => today[c0] < Limit)
    BY <1>2, <1>4 DEF Sound
  <2>7. Shape'
    BY <2>2, <2>3, <2>4 DEF Inv, Shape
  <2>8. OnlyCurrent'
    BY <1>1, <1>2, <1>4, <2>4, KeepsCurrent
  <2>9. ASSUME NEW r \in Slots PROVE Sound(hook[r])'
    <3>1. CASE r = s
      <4>1. hook'[r] = g
        BY <2>4, <3>1 DEF Inv, Shape
      <4>2. QED
        BY <1>2, <2>2, <2>3, <4>1 DEF Sound, Acting, CountOf, Acts
    <3>2. CASE r # s
      BY <1>1, <1>2, <1>4, <2>4, <3>2, OthersSound DEF Inv, Shape
    <3>3. QED
      BY <3>1, <3>2
  <2>10. KeptInv'
    <3> SUFFICES ASSUME NEW k \in Keys
                 PROVE  /\ kept'[k] <= 1
                        /\ kept'[k] = 1 => k \in done' \/ \E r \in Slots :
                             hook'[r].owed # "none" /\ KeyOf(hook'[r]) = k
      BY DEF KeptInv, KeyOf, CountOf
    <3>1. CASE k = k0
      <4>1. hook'[s].owed # "none" /\ KeyOf(hook'[s]) = k
        BY <2>2, <2>3, <2>4, <3>1 DEF Inv, Shape
      <4>2. kept'[k] = kept[k] + 1 /\ kept[k] \in Int
        BY <2>4, <3>1 DEF Inv, Shape
      <4>3. QED
        BY <2>6, <3>1, <4>1, <4>2
    <3>2. CASE k # k0
      BY <2>4, <2>5, <3>2 DEF Inv, Shape, KeptInv
    <3>3. QED
      BY <3>1, <3>2
  <2>11. LimitInv'
    <3> SUFFICES ASSUME NEW c \in Counts
                 PROVE  /\ Limit > 0 => today'[c] <= Limit
                        /\ today'[c] <= daily[c] + 1
                        /\ today'[c] = daily[c] + 1 =>
                             \E r \in Slots : Uncounted(hook'[r], c)
      BY <2>4 DEF LimitInv, Uncounted, CountOf
    <3>1. today[c] \in Int /\ daily[c] \in Nat
      BY DEF Inv, Shape
    <3>2. today[c] <= daily[c]
      <4>1. today[c] # daily[c] + 1
        BY <2>5 DEF Inv, LimitInv, Uncounted
      <4>2. today[c] <= daily[c] + 1
        BY DEF Inv, LimitInv
      <4>3. QED
        BY <3>1, <4>1, <4>2
    <3>3. CASE c = c0
      <4>1. Uncounted(hook'[s], c)
        BY <2>2, <2>3, <2>4, <3>3 DEF Inv, Shape, Uncounted
      <4>2. today'[c] = today[c] + 1
        BY <2>4, <3>3 DEF Inv, Shape
      <4>3. QED
        BY <2>6, <3>1, <3>2, <3>3, <4>1, <4>2, PluginAssumption
    <3>4. CASE c # c0
      <4>1. today'[c] = today[c]
        BY <2>4, <3>4 DEF Inv, Shape
      <4>2. Limit > 0 => today[c] <= Limit
        BY DEF Inv, LimitInv
      <4>3. QED
        BY <3>1, <3>2, <4>1, <4>2
    <3>5. QED
      BY <3>3, <3>4
  <2>12. QED
    BY <2>7, <2>8, <2>9, <2>10, <2>11 DEF Inv
<1>5. QED
  BY <1>3, <1>4 DEF Hook

LEMMA RecheckStep ==
  ASSUME Inv, NEW s \in Slots, Recheck(s)
  PROVE  Inv'
<1>1. PICK h : h = hook[s]
  OBVIOUS
<1>2. /\ h \in Hook /\ h.pc = "recheck" /\ Sound(h) /\ UNCHANGED history
      /\ h.plugin \in Plugins
  BY <1>1 DEF Inv, Shape, Sound, Recheck, Acting
<1>3. CASE ~h.cancelled
  <2>1. PICK g : g = [h EXCEPT !.pc = "count"]
    OBVIOUS
  <2>2. /\ g \in Hook /\ g.owed = h.owed /\ g.act = h.act /\ g.topic = h.topic
        /\ g.plugin = h.plugin /\ ~g.cancelled /\ g.pc = "count"
    BY <1>2, <1>3, <2>1 DEF Hook, Acting
  <2>3. Move(s, g)
    BY <1>1, <1>3, <2>1 DEF Recheck, Active
  <2>4. CountOf(g) = CountOf(h) /\ KeyOf(g) = KeyOf(h)
    BY <2>2 DEF CountOf, KeyOf
  <2>5. Sound(g)
    BY <1>2, <1>3, <2>2, <2>4 DEF Sound, Acting
  <2>6. QED
    BY <1>1, <1>2, <1>3, <2>2, <2>3, <2>4, <2>5, MoveInv
<1>4. CASE h.cancelled
  <2>1. PICK g : g = Acted(h)
    OBVIOUS
  <2>2. /\ g \in Hook /\ g.owed = "none" /\ g.pc = "run" /\ g.plugin = h.plugin
        /\ g.cancelled /\ h.owed = "none"
    BY <1>2, <1>4, <2>1, ActedType DEF Sound
  <2>3. Move(s, g)
    BY <1>1, <1>4, <2>1 DEF Recheck, Active
  <2>4. Sound(g)
    BY <1>2, <2>2, IdleSound DEF Acting
  <2>5. QED
    BY <1>1, <1>2, <2>2, <2>3, <2>4, MoveInv
<1>5. QED
  BY <1>3, <1>4 DEF Hook

\* The count catches up with the request; that of a late hook runs ahead.
LEMMA CountStep ==
  ASSUME Inv, NEW s \in Slots, Count(s)
  PROVE  Inv'
<1>1. PICK h : h = hook[s]
  OBVIOUS
<1>2. /\ h \in Hook /\ h.pc = "count" /\ Sound(h) /\ h.plugin \in Plugins
      /\ CountOf(h) \in Counts /\ UNCHANGED <<phase, cur, done, kept>>
      /\ h.act = "trigger" => h.owed = "none"
  BY <1>1 DEF Inv, Shape, Sound, Count, Acting, cycle
<1>3. PICK g : g = IF h.act = "trigger" THEN Acted(h) ELSE [h EXCEPT !.pc = "mark"]
  OBVIOUS
<1>4. /\ g \in Hook /\ g.owed = h.owed /\ g.cancelled = h.cancelled /\ g.plugin = h.plugin
      /\ g.pc = IF h.act = "trigger" THEN "run" ELSE "mark"
      /\ h.act # "trigger" => g.act = h.act /\ g.topic = h.topic
  BY <1>2, <1>3, ActedType DEF Hook, Acting
<1> DEFINE c0 == CountOf(h)
<1>5. /\ hook' = [hook EXCEPT ![s] = g] /\ daily' = [daily EXCEPT ![c0] = @ + 1]
      /\ today' = IF h.act = "trigger" /\ ~h.cancelled
                  THEN [today EXCEPT ![c0] = @ + 1] ELSE today
  BY <1>1, <1>2, <1>3 DEF Count, Active, Inv, Shape
<1>6. Shape'
  BY <1>2, <1>4, <1>5 DEF Inv, Shape
<1>7. OnlyCurrent'
  BY <1>1, <1>2, <1>4, <1>5, KeepsCurrent
<1>8. ASSUME NEW r \in Slots PROVE Sound(hook[r])'
  <2>1. CASE r = s
    <3>1. hook'[r] = g
      BY <1>5, <2>1 DEF Inv, Shape
    <3>2. QED
      BY <1>2, <1>4, <3>1 DEF Sound, Acting, CountOf
  <2>2. CASE r # s
    BY <1>1, <1>2, <1>5, <2>2, OthersSound DEF Inv, Shape
  <2>3. QED
    BY <2>1, <2>2
<1>9. KeptInv'
  <2> SUFFICES ASSUME NEW k \in Keys, kept[k] = 1, k \notin done
               PROVE  \E r \in Slots : hook'[r].owed # "none" /\ KeyOf(hook'[r]) = k
    BY <1>2 DEF Inv, KeptInv, KeyOf, CountOf
  <2>1. PICK r \in Slots : hook[r].owed # "none" /\ KeyOf(hook[r]) = k
    BY DEF Inv, KeptInv
  <2>2. CASE r = s
    BY <1>1, <1>2, <1>4, <1>5, <2>1, <2>2 DEF Inv, Shape, KeyOf, CountOf
  <2>3. CASE r # s
    BY <1>5, <2>1, <2>3 DEF Inv, Shape
  <2>4. QED
    BY <2>2, <2>3
<1>10. LimitInv'
  <2> SUFFICES ASSUME NEW c \in Counts
               PROVE  /\ Limit > 0 => today'[c] <= Limit
                      /\ today'[c] <= daily'[c] + 1
                      /\ today'[c] = daily'[c] + 1 =>
                           \E r \in Slots : Uncounted(hook'[r], c)
    BY DEF LimitInv, Uncounted, CountOf
  <2>1. /\ today[c] \in Int /\ daily[c] \in Nat /\ today[c] <= daily[c] + 1
        /\ Limit > 0 => today[c] <= Limit
    BY DEF Inv, Shape, LimitInv
  <2>2. CASE c = c0 /\ h.act = "trigger" /\ ~h.cancelled
    <3>1. today'[c] = today[c] + 1 /\ daily'[c] = daily[c] + 1
      BY <1>5, <2>2 DEF Inv, Shape
    <3>2. \A r \in Slots : hook[r].owed = "none"
      BY <1>1, <1>2, <2>2, OthersOweNothing
    <3>3. today[c] # daily[c] + 1
      BY <3>2 DEF Inv, LimitInv, Uncounted
    <3>4. Limit > 0 => today[c] < Limit
      BY <1>2, <2>2 DEF Sound
    <3>5. QED
      BY <2>1, <3>1, <3>3, <3>4, PluginAssumption
  <2>3. CASE c = c0 /\ ~(h.act = "trigger" /\ ~h.cancelled)
    <3>1. today'[c] = today[c] /\ daily'[c] = daily[c] + 1
      BY <1>5, <2>3 DEF Inv, Shape
    <3>2. QED
      BY <2>1, <3>1
  <2>4. CASE c # c0
    <3>1. today'[c] = today[c] /\ daily'[c] = daily[c]
      BY <1>5, <2>4 DEF Inv, Shape
    <3>2. ASSUME today[c] = daily[c] + 1
          PROVE  \E r \in Slots : Uncounted(hook'[r], c)
      <4>1. PICK r \in Slots : Uncounted(hook[r], c)
        BY <3>2 DEF Inv, LimitInv
      <4>2. r # s
        BY <1>1, <2>4, <4>1 DEF Uncounted
      <4>3. QED
        BY <1>5, <4>1, <4>2 DEF Inv, Shape
    <3>3. QED
      BY <2>1, <3>1, <3>2
  <2>5. QED
    BY <2>2, <2>3, <2>4
<1>11. QED
  BY <1>6, <1>7, <1>8, <1>9, <1>10 DEF Inv

\* A hook that owes a record was not told to stop, so that its key is set.
LEMMA MarkDoneStep ==
  ASSUME Inv, NEW s \in Slots, MarkDone(s)
  PROVE  Inv'
<1>1. PICK h : h = hook[s]
  OBVIOUS
<1>2. /\ h \in Hook /\ h.pc = "mark" /\ Sound(h) /\ h.plugin \in Plugins
      /\ UNCHANGED <<phase, cur, daily, kept, today>>
  BY <1>1 DEF Inv, Shape, Sound, MarkDone, Acting, cycle, history
<1>3. PICK g : g = Acted(h)
  OBVIOUS
<1>4. /\ g \in Hook /\ g.owed = "none" /\ g.pc = "run" /\ g.plugin = h.plugin
      /\ g.cancelled = h.cancelled
  BY <1>2, <1>3, ActedType
<1>5. /\ hook' = [hook EXCEPT ![s] = g] /\ done \subseteq done'
      /\ h.owed # "none" => KeyOf(h) \in done'
  BY <1>1, <1>2, <1>3 DEF MarkDone, Marked, Active, Sound
<1>6. Shape'
  BY <1>2, <1>4, <1>5 DEF Inv, Shape
<1>7. OnlyCurrent'
  BY <1>1, <1>2, <1>4, <1>5, KeepsCurrent
<1>8. ASSUME NEW r \in Slots PROVE Sound(hook[r])'
  <2>1. CASE r = s
    <3>1. hook'[r] = g
      BY <1>5, <2>1 DEF Inv, Shape
    <3>2. QED
      BY <1>2, <1>4, <3>1 DEF Sound, Acting
  <2>2. CASE r # s
    BY <1>2, <1>5, <2>2, OthersSound DEF Inv, Shape
  <2>3. QED
    BY <2>1, <2>2
<1>9. KeptInv'
  <2> SUFFICES ASSUME NEW k \in Keys, kept[k] = 1, k \notin done'
               PROVE  \E r \in Slots : hook'[r].owed # "none" /\ KeyOf(hook'[r]) = k
    BY <1>2 DEF Inv, KeptInv, KeyOf, CountOf
  <2>1. PICK r \in Slots : hook[r].owed # "none" /\ KeyOf(hook[r]) = k
    BY <1>5 DEF Inv, KeptInv
  <2>2. r # s
    BY <1>1, <1>5, <2>1
  <2>3. QED
    BY <1>5, <2>1, <2>2 DEF Inv, Shape
<1>10. LimitInv'
  <2> SUFFICES ASSUME NEW c \in Counts, today[c] = daily[c] + 1
               PROVE  \E r \in Slots : Uncounted(hook'[r], c)
    BY <1>2 DEF Inv, LimitInv, Uncounted, CountOf
  <2>1. PICK r \in Slots : Uncounted(hook[r], c)
    BY DEF Inv, LimitInv
  <2>2. r # s
    BY <1>1, <1>2, <2>1 DEF Uncounted
  <2>3. QED
    BY <1>5, <2>1, <2>2 DEF Inv, Shape
<1>11. QED
  BY <1>6, <1>7, <1>8, <1>9, <1>10 DEF Inv

LEMMA HookStepInv ==
  ASSUME Inv, NEW s \in Slots, HookStep(s)
  PROVE  Inv'
<1>1. ASSUME HookFails(s), hook[s].pc # "free" PROVE Inv'
  BY <1>1, HookFailsStep
<1>2. RequestFails(s) \/ StoreFails(s) \/ Raise(s) =>
        HookFails(s) /\ hook[s].pc # "free"
  BY DEF RequestFails, StoreFails, Raise
<1>3. CASE \E t \in Topics : SkipTopic(s, t) \/ Prioritize(s, t)
  BY <1>3, NoteStep
<1>4. CASE \E a \in Acts, t \in Topics : TestOnce(s, a, t)
  BY <1>4, TestOnceStep
<1>5. CASE Return(s)
  BY <1>5, ReturnStep
<1>6. QED
  BY <1>1, <1>2, <1>3, <1>4, <1>5, TestLimitStep, RequestStep, RecheckStep, CountStep,
     MarkDoneStep DEF HookStep

-----------------------------------------------------------------------------
(* The watch thread *)

\* What matters of a hook; the rest is which failures it counts for, and what
\* it has noted.
Alike(g, h) ==
  /\ g.pc = h.pc /\ g.plugin = h.plugin /\ g.act = h.act /\ g.topic = h.topic
  /\ g.owed = h.owed /\ g.cancelled = h.cancelled

\* Hooks that owe nothing are gone, the others are as they were.
LEMMA ClearInv ==
  ASSUME Inv, hook' \in [Slots -> Hook], UNCHANGED <<daily, today, kept, done>>,
         \A r \in Slots :
           \/ Alike(hook'[r], hook[r])
           \/ hook'[r] = NoHook /\ hook[r].owed = "none"
  PROVE  Shape' /\ (\A r \in Slots : Sound(hook[r])') /\ KeptInv' /\ LimitInv'
<1>1. Shape'
  BY DEF Inv, Shape
<1>2. ASSUME NEW r \in Slots PROVE Sound(hook[r])'
  <2>1. CASE Alike(hook'[r], hook[r])
    BY <2>1 DEF Inv, Alike, Sound, CountOf, KeyOf
  <2>2. CASE hook'[r] = NoHook
    BY <2>2, IdleSound DEF NoHook, Acting
  <2>3. QED
    BY <2>1, <2>2
<1>3. KeptInv'
  <2> SUFFICES ASSUME NEW k \in Keys, kept[k] = 1, k \notin done
               PROVE  \E r \in Slots : hook'[r].owed # "none" /\ KeyOf(hook'[r]) = k
    BY DEF Inv, KeptInv, KeyOf, CountOf
  <2>1. PICK r \in Slots : hook[r].owed # "none" /\ KeyOf(hook[r]) = k
    BY DEF Inv, KeptInv
  <2>2. QED
    BY <2>1 DEF Alike, KeyOf, CountOf
<1>4. LimitInv'
  <2> SUFFICES ASSUME NEW c \in Counts, today[c] = daily[c] + 1
               PROVE  \E r \in Slots : Uncounted(hook'[r], c)
    BY DEF Inv, LimitInv, Uncounted, CountOf
  <2>1. PICK r \in Slots : Uncounted(hook[r], c)
    BY DEF Inv, LimitInv
  <2>2. QED
    BY <2>1 DEF Alike, Uncounted, CountOf
<1>5. QED
  BY <1>1, <1>2, <1>3, <1>4

\* Between hooks.
LEMMA BetweenStep ==
  ASSUME Inv, UNCHANGED <<hook, cur, kvstore, history>>,
         phase \in {"idle", "dispatch"}, phase' \in {"idle", "dispatch"}
  PROVE  Inv'
BY DEF Inv, Shape, OnlyCurrent, Sound, KeptInv, LimitInv, Uncounted, CountOf, KeyOf,
       kvstore, history

LEMMA TopicStep ==
  ASSUME Inv, BeginCycle \/ ListSorted \/ EnterTopic \/ TopicDone
  PROVE  Inv'
<1>1. /\ UNCHANGED <<hook, cur, kvstore, history>>
      /\ phase \in {"idle", "dispatch"} /\ phase' \in {"idle", "dispatch"}
  BY DEF BeginCycle, ListSorted, EnterTopic, TopicDone, EventDone, Dispatch, NextTopic,
         EndCycle
<1>2. QED
  BY <1>1, BetweenStep

LEMMA CallHookStep ==
  ASSUME Inv, NEW p \in Plugins, NEW s \in Slots, CallHook(p, s)
  PROVE  Inv'
<1>1. CASE ~Callable(p)
  BY <1>1, BetweenStep DEF CallHook
<1>2. CASE Callable(p)
  <2>1. PICK g : g = [NoHook EXCEPT !.pc = "run", !.plugin = p, !.since = TRUE]
    OBVIOUS
  <2>2. /\ g \in Hook /\ g.pc = "run" /\ g.plugin = p /\ g.owed = "none"
    BY <2>1, NoHookType DEF Hook, NoHook
  <2>3. /\ hook' = [hook EXCEPT ![s] = g] /\ cur' = s /\ phase' = "wait"
        /\ phase = "dispatch" /\ hook[s] = NoHook
        /\ UNCHANGED <<done, daily, kept, today>>
    BY <1>2, <2>1 DEF CallHook, kvstore, history
  <2>4. Sound(g)'
    BY <2>2, IdleSound DEF Acting
  <2>5. Forfeit(hook[s])
    BY <2>3 DEF Forfeit, NoHook
  <2>6. OnlyCurrent'
    BY <2>3 DEF Inv, Shape, OnlyCurrent
  <2>7. QED
    BY <2>2, <2>3, <2>4, <2>5, <2>6, ForfeitInv DEF Inv
<1>3. QED
  BY <1>1, <1>2

\* The hook that the watch thread waited for is gone, and was the only one
\* that was not told to stop.
LEMMA JoinStep ==
  ASSUME Inv, JoinOk \/ CommitFails \/ JoinError
  PROVE  Inv'
<1>1. /\ cur \in Slots /\ hook[cur].owed = "none" /\ phase = "wait"
      /\ phase' \in {"idle", "dispatch"} /\ UNCHANGED <<daily, today, kept, done>>
  BY DEF Inv, OnlyCurrent, Sound, JoinOk, CommitFails, Succeeded, EndCycle, JoinError,
         kvstore, history
<1>2. hook' \in [Slots -> Hook] /\ hook'[cur] = NoHook
      /\ \A r \in Slots \ {cur} : Alike(hook'[r], hook[r])
  <2>1. CASE JoinOk \/ CommitFails
    <3>1. hook' = [r \in Slots |->
                    IF r = cur THEN NoHook
                    ELSE [hook[r] EXCEPT !.since = @ /\ hook[r].plugin # hook[cur].plugin]]
      BY <2>1 DEF JoinOk, CommitFails, Succeeded
    <3>2. ASSUME NEW r \in Slots \ {cur}
          PROVE  hook'[r] \in Hook /\ Alike(hook'[r], hook[r])
      <4>1. hook[r] \in Hook
        BY DEF Inv, Shape
      <4>2. PICK b \in BOOLEAN : b = (hook[r].since /\ hook[r].plugin # hook[cur].plugin)
        OBVIOUS
      <4>3. hook'[r] = [hook[r] EXCEPT !.since = b]
        BY <3>1, <4>2
      <4>4. QED
        BY <4>1, <4>3 DEF Hook, Alike
    <3>3. hook'[cur] = NoHook
      BY <1>1, <3>1
    <3>4. QED
      BY <3>1, <3>2, <3>3, NoHookType
  <2>2. CASE JoinError
    BY <1>1, <2>2, NoHookType DEF JoinError, Inv, Shape, Alike
  <2>3. QED
    BY <2>1, <2>2
<1>3. OnlyCurrent'
  BY <1>1, <1>2 DEF Inv, OnlyCurrent, Alike, NoHook
<1>4. \A r \in Slots :
        \/ Alike(hook'[r], hook[r])
        \/ hook'[r] = NoHook /\ hook[r].owed = "none"
  BY <1>1, <1>2
<1>5. Shape' /\ (\A r \in Slots : Sound(hook[r])') /\ KeptInv' /\ LimitInv'
  BY <1>1, <1>2, <1>4, ClearInv
<1>6. QED
  BY <1>3, <1>5 DEF Inv

LEMMA GiveUpStep ==
  ASSUME Inv, GiveUp
  PROVE  Inv'
BY DEF GiveUp, Inv, Shape, OnlyCurrent, Sound, KeptInv, LimitInv, Uncounted, CountOf,
       KeyOf, cycle, kvstore, history

LEMMA CancelStep ==
  ASSUME Inv, Cancel
  PROVE  Inv'
<1>1. PICK h : h = hook[cur]
  OBVIOUS
<1>2. cur \in Slots /\ h \in Hook /\ Sound(h)
  BY <1>1 DEF Inv, Shape, OnlyCurrent, Cancel
<1>3. PICK g : g = IF h.pc \in {"ended", "failed"} THEN NoHook
                   ELSE [h EXCEPT !.cancelled = TRUE, !.owed = "none",
                                  !.skips = {}, !.score = 0]
  OBVIOUS
<1>4. /\ hook' = [hook EXCEPT ![cur] = g] /\ Forfeit(hook[cur])
      /\ phase = "giveup" /\ phase' = "dispatch" /\ UNCHANGED <<done, daily>>
  BY <1>1, <1>3 DEF Cancel, kvstore
<1>5. g \in Hook /\ g.owed = "none" /\ (g = NoHook \/ g.cancelled)
  BY <1>2, <1>3, NoHookType, ZenonT(40) DEF Hook, NoHook
<1>6. Sound(g)'
  <2>1. CASE h.pc \in {"ended", "failed"}
    BY <1>3, <2>1, IdleSound DEF NoHook, Acting
  <2>2. CASE h.pc \notin {"ended", "failed"}
    <3>1. /\ g.pc = h.pc /\ g.plugin = h.plugin /\ g.act = h.act /\ g.topic = h.topic
          /\ g.cancelled /\ g.owed = "none"
      BY <1>2, <1>3, <2>2 DEF Hook
    <3>2. QED
      BY <1>2, <3>1 DEF Sound, CountOf
  <2>3. QED
    BY <2>1, <2>2
<1>7. OnlyCurrent'
  BY <1>2, <1>4, <1>5 DEF Inv, Shape, OnlyCurrent, NoHook
<1>8. QED
  BY <1>2, <1>4, <1>5, <1>6, <1>7, ForfeitInv DEF Inv

-----------------------------------------------------------------------------
(* Days and restarts *)

\* The counts of a new day are behind nothing.
LEMMA MidnightStep ==
  ASSUME Inv, Midnight
  PROVE  Inv'
<1>1. /\ daily' = NothingCounted /\ today' = NothingCounted
      /\ UNCHANGED <<phase, cur, done, kept>>
  BY DEF Midnight, cycle
<1>2. ASSUME NEW r \in Slots
      PROVE  /\ hook'[r] \in Hook /\ hook'[r].pc = hook[r].pc
             /\ hook'[r].plugin = hook[r].plugin /\ hook'[r].act = hook[r].act
             /\ hook'[r].topic = hook[r].topic /\ hook'[r].cancelled = hook[r].cancelled
             /\ hook'[r].owed = IF hook[r].owed = "none" THEN "none" ELSE "before"
  <2>1. PICK h : h = hook[r]
    OBVIOUS
  <2>2. h \in Hook
    BY <2>1 DEF Inv, Shape
  <2>3. hook'[r] = [h EXCEPT !.owed = IF @ = "none" THEN @ ELSE "before"]
    BY <2>1 DEF Midnight
  <2>4. QED
    BY <2>1, <2>2, <2>3 DEF Hook
<1>3. Shape'
  <2>1. hook' \in [Slots -> Hook]
    BY <1>2 DEF Midnight
  <2>2. QED
    BY <1>1, <2>1 DEF Inv, Shape, NothingCounted
<1>4. OnlyCurrent'
  BY <1>1, <1>2 DEF Inv, OnlyCurrent
<1>5. ASSUME NEW r \in Slots PROVE Sound(hook[r])'
  <2>1. Sound(hook[r])
    BY DEF Inv
  <2>2. hook[r].pc \in Acting => today'[CountOf(hook[r])] = 0
    BY <1>1, <2>1 DEF Sound, NothingCounted
  <2>3. CountOf(hook'[r]) = CountOf(hook[r]) /\ KeyOf(hook'[r]) = KeyOf(hook[r])
    BY <1>2 DEF CountOf, KeyOf
  <2>4. QED
    BY <1>1, <1>2, <2>1, <2>2, <2>3 DEF Sound, Acting
<1>6. KeptInv'
  <2> SUFFICES ASSUME NEW k \in Keys, kept[k] = 1, k \notin done
               PROVE  \E r \in Slots : hook'[r].owed # "none" /\ KeyOf(hook'[r]) = k
    BY <1>1 DEF Inv, KeptInv, KeyOf, CountOf
  <2>1. PICK r \in Slots : hook[r].owed # "none" /\ KeyOf(hook[r]) = k
    BY DEF Inv, KeptInv
  <2>2. hook'[r].owed # "none" /\ KeyOf(hook'[r]) = k
    BY <1>2, <2>1 DEF KeyOf, CountOf
  <2>3. QED
    BY <2>2
<1>7. LimitInv'
  BY <1>1, PluginAssumption DEF LimitInv, NothingCounted
<1>8. QED
  BY <1>3, <1>4, <1>5, <1>6, <1>7 DEF Inv

\* A set of slots has a number of elements, which is 0 only if it is empty.
LEMMA SlotsCounted ==
  ASSUME NEW S \in SUBSET Slots
  PROVE  Cardinality(S) \in Nat /\ (Cardinality(S) = 0 => S = {})
<1>1. IsFiniteSet(Slots)
  BY PluginAssumption, FS_Interval DEF Slots
<1>2. IsFiniteSet(S)
  BY <1>1, FS_Subset
<1>3. QED
  BY <1>2, FS_CardinalityType, FS_EmptySet

\* Of what a hook that dies was to record nothing is left, and it is not
\* expected either.
LEMMA RestartStep ==
  ASSUME Inv, Restart
  PROVE  Inv'
<1>1. hook' = [s \in Slots |-> NoHook] /\ phase' = "idle"
  BY DEF Restart
<1>2. OnlyCurrent'
  BY <1>1 DEF OnlyCurrent, NoHook
<1>3. \A r \in Slots : Sound(hook[r])'
  BY <1>1, IdleSound DEF NoHook, Acting
<1>4. CASE Backend = "store"
  <2>1. /\ kept' = [k \in Keys |-> kept[k] - Cardinality(Owing(k))]
        /\ today' = [c \in Counts |-> today[c] - Cardinality(OwingToday(c))]
        /\ UNCHANGED <<done, daily>>
    BY <1>4 DEF Restart
  <2>2. ASSUME NEW k \in Keys
        PROVE  \E n \in Nat : kept'[k] = kept[k] - n /\ (n = 0 => Owing(k) = {})
    <3>1. Cardinality(Owing(k)) \in Nat /\ (Cardinality(Owing(k)) = 0 => Owing(k) = {})
      BY SlotsCounted DEF Owing
    <3>2. kept'[k] = kept[k] - Cardinality(Owing(k))
      BY <2>1
    <3>3. QED
      BY <3>1, <3>2
  <2>3. ASSUME NEW c \in Counts
        PROVE  \E n \in Nat : today'[c] = today[c] - n /\ (n = 0 => OwingToday(c) = {})
    <3>1. /\ Cardinality(OwingToday(c)) \in Nat
          /\ Cardinality(OwingToday(c)) = 0 => OwingToday(c) = {}
      BY SlotsCounted DEF OwingToday
    <3>2. today'[c] = today[c] - Cardinality(OwingToday(c))
      BY <2>1
    <3>3. QED
      BY <3>1, <3>2
  <2>4. Shape'
    <3>1. ASSUME NEW k \in Keys PROVE kept'[k] \in Int
      BY <2>2 DEF Inv, Shape
    <3>2. ASSUME NEW c \in Counts PROVE today'[c] \in Int
      BY <2>3 DEF Inv, Shape
    <3>3. kept' \in [Keys -> Int] /\ today' \in [Counts -> Int]
      BY <2>1, <3>1, <3>2
    <3>4. QED
      BY <1>1, <2>1, <3>3, NoHookType DEF Inv, Shape
  <2>5. KeptInv'
    <3> SUFFICES ASSUME NEW k \in Keys
                 PROVE  kept'[k] <= 1 /\ (kept'[k] = 1 => k \in done')
      BY DEF KeptInv
    <3>1. kept[k] \in Int /\ kept[k] <= 1
      BY DEF Inv, Shape, KeptInv
    <3>2. PICK n \in Nat : kept'[k] = kept[k] - n /\ (n = 0 => Owing(k) = {})
      BY <2>2
    <3>3. ASSUME kept[k] = 1, Owing(k) = {} PROVE k \in done'
      BY <2>1, <3>3 DEF Inv, KeptInv, Owing
    <3>4. QED
      BY <3>1, <3>2, <3>3
  <2>6. LimitInv'
    <3>1. ASSUME NEW c \in Counts
          PROVE  (Limit > 0 => today'[c] <= Limit) /\ today'[c] <= daily'[c]
      <4>1. /\ today[c] \in Int /\ daily[c] \in Nat /\ today[c] <= daily[c] + 1
            /\ Limit > 0 => today[c] <= Limit
        BY DEF Inv, Shape, LimitInv
      <4>2. PICK n \in Nat : today'[c] = today[c] - n /\ (n = 0 => OwingToday(c) = {})
        BY <2>3
      <4>3. today[c] = daily[c] + 1 => OwingToday(c) # {}
        BY DEF Inv, LimitInv, Uncounted, OwingToday
      <4>4. daily'[c] = daily[c]
        BY <2>1
      <4>5. QED
        BY <4>1, <4>2, <4>3, <4>4, PluginAssumption
    <3>2. ASSUME NEW c \in Counts
          PROVE  today'[c] <= daily'[c] + 1 /\ today'[c] # daily'[c] + 1
      <4>1. today'[c] \in Int /\ daily'[c] \in Nat
        BY <2>4 DEF Shape
      <4>2. QED
        BY <3>1, <4>1
    <3>3. QED
      BY <3>1, <3>2 DEF LimitInv
  <2>7. QED
    BY <1>2, <1>3, <2>4, <2>5, <2>6 DEF Inv
<1>5. CASE Backend # "store"
  <2>1. /\ kept' = NothingKept /\ today' = NothingCounted
        /\ done' = {} /\ daily' = NothingCounted
    BY <1>5 DEF Restart
  <2>2. Shape'
    BY <1>1, <2>1, NoHookType DEF Shape, NothingKept, NothingCounted
  <2>3. KeptInv' /\ LimitInv'
    BY <2>1, PluginAssumption DEF KeptInv, LimitInv, NothingKept, NothingCounted
  <2>4. QED
    BY <1>2, <1>3, <2>2, <2>3 DEF Inv
<1>6. QED
  BY <1>4, <1>5

-----------------------------------------------------------------------------
(* Every step *)

LEMMA InitInv == Init => Inv
<1> SUFFICES ASSUME Init PROVE Inv
  OBVIOUS
<1>1. Shape
  BY NoHookType DEF Init, Shape, NothingKept, NothingCounted
<1>2. OnlyCurrent
  BY DEF Init, Fresh, OnlyCurrent, NoHook
<1>3. \A s \in Slots : Sound(hook[s])
  BY NoHookType DEF Init
<1>4. KeptInv /\ LimitInv
  BY PluginAssumption DEF Init, KeptInv, LimitInv, NothingKept, NothingCounted
<1>5. QED
  BY <1>1, <1>2, <1>3, <1>4 DEF Inv

LEMMA NextInv == Inv /\ [Next]_vars => Inv'
<1> SUFFICES ASSUME Inv, [Next]_vars PROVE Inv'
  OBVIOUS
<1>1. CASE UNCHANGED vars
  BY <1>1 DEF vars, Inv, Shape, OnlyCurrent, Sound, KeptInv, LimitInv, Uncounted,
              CountOf, KeyOf
<1>2. CASE BeginCycle
  BY <1>2, TopicStep
<1>3. CASE WatchStep
  BY <1>3, CallHookStep, JoinStep, GiveUpStep, CancelStep, TopicStep DEF WatchStep
<1>4. CASE \E s \in Slots : HookStep(s)
  BY <1>4, HookStepInv
<1>5. CASE Midnight \/ Restart
  BY <1>5, MidnightStep, RestartStep
<1>6. QED
  BY <1>1, <1>2, <1>3, <1>4, <1>5 DEF Next

\* The inductive invariant: only the hook that is waited for may act, what it is
\* about to do it may do, and counts and once keys are one record behind at most.
THEOREM Invariant == Spec => []Inv
BY InitInv, NextInv, PTL DEF Spec

\* A once key lets one request through, over hooks, cycles, days and restarts.
THEOREM OnceKeyHolds == Spec => []OnceKept
<1>1. Inv => OnceKept
  BY DEF Inv, KeptInv, OnceKept
<1>2. QED
  BY <1>1, Invariant, PTL

\* A day has at most the limit of requests of a plugin, though the count is
\* read before a request and written after it.
THEOREM LimitHolds == Spec => []LimitKept
<1>1. Inv => LimitKept
  BY DEF Inv, LimitInv, LimitKept
<1>2. QED
  BY <1>1, Invariant, PTL

\* What a late or failed hook has noted is dropped: the skipped topics grow by
\* what a hook asked for that ended in time, and by nothing else.
THEOREM LateNotesAreDropped == Spec => SkipsOfEndedHooks
<1> DEFINE noted == UNION {hook[s].skips : s \in {r \in Slots : hook[r].pc = "ended"
                                                            /\ hook'[r] = NoHook
                                                            /\ phase # "giveup"}}
<1>1. ASSUME Inv, [Next]_vars PROVE skipped' \subseteq skipped \cup noted
  <2>1. CASE JoinOk
    <3>1. cur \in Slots /\ hook[cur].pc = "ended" /\ phase = "wait"
      BY <1>1, <2>1 DEF Inv, OnlyCurrent, JoinOk, Succeeded
    <3>2. hook'[cur] = NoHook /\ skipped' = skipped \cup hook[cur].skips
      BY <2>1, <3>1 DEF JoinOk, Succeeded, Noted
    <3>3. hook[cur].skips \subseteq noted
      BY <3>1, <3>2
    <3>4. QED
      BY <3>2, <3>3
  <2>2. CASE JoinError
    BY <2>2 DEF JoinError, Noted
  <2>3. CASE BeginCycle \/ ListSorted \/ EnterTopic \/ TopicDone \/ CommitFails
    BY <2>3 DEF BeginCycle, ListSorted, EnterTopic, TopicDone, NextTopic, EndCycle,
                CommitFails
  <2>4. CASE (\E p \in Plugins, s \in Slots : CallHook(p, s)) \/ GiveUp \/ Cancel
    BY <2>4, ZenonT(40) DEF CallHook, GiveUp, Cancel, cycle
  <2>5. CASE \E s \in Slots : HookStep(s)
    BY <2>5, ZenonT(40) DEF HookStep, SkipTopic, Prioritize, TestOnce, TestLimit, Request,
                RequestFails, Recheck, Count, MarkDone, StoreFails, Return, Raise,
                HookFails, Move, cycle
  <2>6. CASE Midnight \/ Restart \/ UNCHANGED vars
    BY <2>6 DEF Midnight, Restart, vars, cycle
  <2>7. QED
    BY <1>1, <2>1, <2>2, <2>3, <2>4, <2>5, <2>6 DEF Next, WatchStep
<1>2. QED
  BY <1>1, Invariant, PTL DEF Spec, SkipsOfEndedHooks

-----------------------------------------------------------------------------
(* Late hooks *)

\* The hooks LateHooksBounded counts.
Late(p) == {s \in Slots : hook[s].plugin = p /\ hook[s].cancelled /\ hook[s].since}

Waiting == phase \in {"wait", "giveup"}

\* Only a plugin that is not cut off is waited for, so that its failure is one
\* of those the breaker admits.
BreakerInv ==
  /\ failures \in [Plugins -> Nat]
  /\ MaxFailures > 0 => \A p \in Plugins : /\ failures[p] <= MaxFailures
                                           /\ p \notin disabled => failures[p] < MaxFailures
  /\ Waiting => /\ hook[cur].pc # "free" /\ ~hook[cur].cancelled
                /\ hook[cur].plugin \in Plugins \ disabled

LateInv == \A p \in Plugins : Cardinality(Late(p)) <= failures[p]

\* What a step of a hook may do to it, as far as failures go.
LEMMA HookStepKeeps ==
  ASSUME Inv, NEW s \in Slots, HookStep(s)
  PROVE  /\ UNCHANGED <<phase, cur, failures, disabled>>
         /\ \A r \in Slots \ {s} : hook'[r] = hook[r]
         /\ \/ hook[s].cancelled /\ hook'[s] = NoHook
            \/ /\ hook'[s].pc # "free" /\ hook'[s].plugin = hook[s].plugin
               /\ hook'[s].cancelled = hook[s].cancelled /\ hook'[s].since = hook[s].since
<1>1. PICK h : h = hook[s]
  OBVIOUS
<1>2. h \in Hook
  BY <1>1 DEF Inv, Shape
<1> DEFINE Kept(g) ==
      \/ h.cancelled /\ g = NoHook
      \/ g.pc # "free" /\ g.plugin = h.plugin /\ g.cancelled = h.cancelled /\ g.since = h.since
<1>3. ASSUME NEW g, Kept(g), hook' = [hook EXCEPT ![s] = g],
             UNCHANGED <<phase, cur, failures, disabled>>
      PROVE  /\ \A r \in Slots \ {s} : hook'[r] = hook[r]
             /\ Kept(hook'[s])
  BY <1>3 DEF Inv, Shape
<1>4. Kept(Acted(h)) /\ Kept(Ended(h, "ended")) /\ Kept(Ended(Acted(h), "failed"))
  BY <1>2 DEF Hook, Acted, Ended, Acting
<1>5. /\ UNCHANGED <<phase, cur, failures, disabled>>
      /\ \E g : Kept(g) /\ hook' = [hook EXCEPT ![s] = g]
  <2>1. CASE \E t \in Topics : SkipTopic(s, t) \/ Prioritize(s, t)
    BY <1>1, <1>2, <2>1, ZenonT(40) DEF SkipTopic, Prioritize, Move, cycle, breaker, Hook
  <2>2. CASE \E a \in Acts, t \in Topics : TestOnce(s, a, t)
    <3>1. PICK a \in Acts, t \in Topics : TestOnce(s, a, t)
      BY <2>2
    <3>2. h.pc = "run"
      BY <1>1, <3>1 DEF TestOnce
    <3>3. PICK g : g = [h EXCEPT !.act = a, !.topic = t, !.pc = "limit"]
      OBVIOUS
    <3>4. Kept(g)
      BY <1>2, <3>3 DEF Hook
    <3>5. /\ hook' = [hook EXCEPT ![s] = g] \/ hook' = [hook EXCEPT ![s] = Acted(h)]
          /\ UNCHANGED <<phase, cur, failures, disabled>>
      BY <1>1, <3>1, <3>3 DEF TestOnce, Move, cycle, breaker
    <3>6. QED
      BY <1>4, <3>4, <3>5
  <2>3. CASE TestLimit(s)
    BY <1>1, <1>2, <1>4, <2>3 DEF TestLimit, Move, cycle, breaker, Hook
  <2>4. CASE Request(s)
    BY <1>1, <1>2, <2>4 DEF Request, Move, cycle, breaker, Hook
  <2>5. CASE Recheck(s)
    BY <1>1, <1>2, <1>4, <2>5 DEF Recheck, Move, cycle, breaker, Hook
  <2>6. CASE Count(s)
    <3>1. CASE h.act = "trigger"
      BY <1>1, <1>4, <2>6, <3>1 DEF Count, cycle, breaker
    <3>2. CASE h.act # "trigger"
      <4>1. PICK g : g = [h EXCEPT !.pc = "mark"]
        OBVIOUS
      <4>2. hook' = [hook EXCEPT ![s] = g]
        BY <1>1, <2>6, <3>2, <4>1 DEF Count, Inv, Shape
      <4>3. Kept(g)
        BY <1>2, <4>1 DEF Hook
      <4>4. QED
        BY <2>6, <4>2, <4>3 DEF Count, cycle, breaker
    <3>3. QED
      BY <3>1, <3>2
  <2>7. CASE MarkDone(s)
    BY <1>1, <1>4, <2>7 DEF MarkDone, cycle, breaker
  <2>8. CASE Return(s)
    BY <1>1, <1>4, <2>8 DEF Return, Move, cycle, breaker
  <2>9. CASE RequestFails(s) \/ StoreFails(s) \/ Raise(s)
    BY <1>1, <1>4, <2>9 DEF RequestFails, StoreFails, Raise, HookFails, cycle, breaker
  <2>10. QED
    BY <2>1, <2>2, <2>3, <2>4, <2>5, <2>6, <2>7, <2>8, <2>9 DEF HookStep
<1>6. QED
  BY <1>1, <1>3, <1>5

LEMMA CardinalityGrows ==
  ASSUME NEW S \in SUBSET Slots, NEW T \in SUBSET Slots
  PROVE  /\ T \subseteq S => Cardinality(T) <= Cardinality(S)
         /\ \A s \in Slots : T \subseteq S \cup {s} => Cardinality(T) <= Cardinality(S) + 1
<1>1. IsFiniteSet(Slots)
  BY PluginAssumption, FS_Interval DEF Slots
<1>2. IsFiniteSet(S)
  BY <1>1, FS_Subset
<1>3. T \subseteq S => Cardinality(T) <= Cardinality(S)
  BY <1>2, FS_Subset
<1>4. ASSUME NEW s \in Slots, T \subseteq S \cup {s}
      PROVE  Cardinality(T) <= Cardinality(S) + 1
  <2>1. /\ IsFiniteSet(S \cup {s})
        /\ Cardinality(S \cup {s}) = IF s \in S THEN Cardinality(S) ELSE Cardinality(S) + 1
    BY <1>2, FS_AddElement
  <2>2. Cardinality(T) <= Cardinality(S \cup {s})
    BY <1>4, <2>1, FS_Subset
  <2>3. Cardinality(S) \in Nat /\ Cardinality(T) \in Nat
    BY SlotsCounted
  <2>4. QED
    BY <2>1, <2>2, <2>3
<1>5. QED
  BY <1>3, <1>4

\* A step after which no plugin has more late hooks, and none fewer failures.
LEMMA FewerLate ==
  ASSUME BreakerInv, LateInv, UNCHANGED failures,
         \A s \in Slots : hook'[s] = NoHook \/ hook'[s] = hook[s] \/ ~hook'[s].cancelled
                        \/ /\ hook'[s].plugin = hook[s].plugin
                           /\ hook'[s].cancelled = hook[s].cancelled
                           /\ hook'[s].since = hook[s].since
  PROVE  LateInv'
<1> SUFFICES ASSUME NEW p \in Plugins PROVE Cardinality(Late(p)') <= failures[p]
  BY DEF LateInv
<1>1. Late(p)' \subseteq Late(p)
  BY DEF Late, NoHook
<1>2. Cardinality(Late(p)') <= Cardinality(Late(p))
  BY <1>1, CardinalityGrows DEF Late
<1>3. Cardinality(Late(p)') \in Nat /\ Cardinality(Late(p)) \in Nat
  BY SlotsCounted DEF Late
<1>4. QED
  BY <1>2, <1>3 DEF LateInv, BreakerInv

\* A failure of the plugin that was waited for.
LEMMA FailureCounted ==
  ASSUME BreakerInv, NEW p \in Plugins \ disabled, CountFailure(p), phase' = "dispatch"
  PROVE  /\ BreakerInv'
         /\ failures'[p] = failures[p] + 1
         /\ \A q \in Plugins \ {p} : failures'[q] = failures[q]
<1>1. /\ failures' = [failures EXCEPT ![p] = @ + 1]
      /\ disabled' = IF MaxFailures > 0 /\ failures[p] + 1 >= MaxFailures
                     THEN disabled \cup {p} ELSE disabled
  BY DEF CountFailure
<1>2. failures' \in [Plugins -> Nat]
  BY <1>1 DEF BreakerInv
<1>3. ASSUME MaxFailures > 0, NEW q \in Plugins
      PROVE  /\ failures'[q] <= MaxFailures
             /\ q \notin disabled' => failures'[q] < MaxFailures
  <2>1. failures[q] \in Nat /\ MaxFailures \in Nat
    BY PluginAssumption DEF BreakerInv
  <2>2. QED
    BY <1>1, <1>3, <2>1 DEF BreakerInv
<1>4. ~Waiting'
  BY DEF Waiting
<1>5. QED
  BY <1>1, <1>2, <1>3, <1>4 DEF BreakerInv

LEMMA BreakerStep ==
  Inv /\ BreakerInv /\ LateInv /\ [Next]_vars => BreakerInv' /\ LateInv'
<1> SUFFICES ASSUME Inv, BreakerInv, LateInv, [Next]_vars
             PROVE  BreakerInv' /\ LateInv'
  OBVIOUS
<1>1. ASSUME NEW s \in Slots, HookStep(s) PROVE BreakerInv' /\ LateInv'
  <2>1. BreakerInv'
    BY <1>1, HookStepKeeps DEF BreakerInv, Waiting, Inv, OnlyCurrent
  <2>2. QED
    BY <1>1, <2>1, HookStepKeeps, FewerLate
<1>2. CASE BeginCycle \/ ListSorted \/ EnterTopic \/ TopicDone \/ UNCHANGED vars
  <2>1. /\ UNCHANGED <<hook, cur, failures, disabled>>
        /\ phase' = phase \/ phase' \in {"idle", "dispatch"}
    BY <1>2 DEF BeginCycle, ListSorted, EnterTopic, TopicDone, Dispatch, NextTopic,
                EndCycle, EventDone, breaker, vars
  <2>2. BreakerInv'
    BY <2>1 DEF BreakerInv, Waiting
  <2>3. QED
    BY <2>1, <2>2, FewerLate
<1>3. ASSUME NEW p \in Plugins, NEW s \in Slots, CallHook(p, s)
      PROVE  BreakerInv' /\ LateInv'
  <2>1. CASE ~Callable(p)
    <3>1. UNCHANGED <<hook, cur, phase, failures, disabled>>
      BY <1>3, <2>1 DEF CallHook, breaker
    <3>2. QED
      BY <3>1, FewerLate DEF BreakerInv, Waiting
  <2>2. CASE Callable(p)
    <3>1. PICK g : g = [NoHook EXCEPT !.pc = "run", !.plugin = p, !.since = TRUE]
      OBVIOUS
    <3>2. g.pc = "run" /\ g.plugin = p /\ ~g.cancelled
      BY <3>1 DEF NoHook
    <3>3. /\ hook' = [hook EXCEPT ![s] = g] /\ cur' = s /\ phase' = "wait"
          /\ UNCHANGED <<failures, disabled>> /\ p \notin disabled
      BY <1>3, <2>2, <3>1 DEF CallHook, breaker, Callable
    <3>4. hook'[s] = g /\ \A r \in Slots \ {s} : hook'[r] = hook[r]
      BY <3>3 DEF Inv, Shape
    <3>5. QED
      BY <3>2, <3>3, <3>4, FewerLate DEF BreakerInv, Waiting
  <2>3. QED
    BY <2>1, <2>2
<1>4. CASE JoinOk \/ CommitFails
  <2>1. PICK p \in Plugins : p = hook[cur].plugin
    BY <1>4 DEF JoinOk, CommitFails, Succeeded, BreakerInv, Waiting
  <2>2. /\ failures' = [failures EXCEPT ![p] = 0] /\ UNCHANGED disabled
        /\ phase' \in {"idle", "dispatch"}
        /\ hook' = [s \in Slots |->
                     IF s = cur THEN NoHook
                     ELSE [hook[s] EXCEPT !.since = @ /\ hook[s].plugin # p]]
    BY <1>4, <2>1 DEF JoinOk, CommitFails, Succeeded, EndCycle
  <2>3. BreakerInv'
    BY <2>2, PluginAssumption DEF BreakerInv, Waiting
  <2>4. ASSUME NEW s \in Slots, NEW q \in Plugins, s \in Late(q)'
        PROVE  q # p /\ s \in Late(q)
    <3>1. s # cur
      BY <2>2, <2>4 DEF Late, NoHook
    <3>2. hook[s] \in Hook
      BY DEF Inv, Shape
    <3>3. PICK b \in BOOLEAN : b = (hook[s].since /\ hook[s].plugin # p)
      OBVIOUS
    <3>4. hook'[s] = [hook[s] EXCEPT !.since = b]
      BY <2>2, <3>1, <3>3
    <3>5. /\ hook'[s].plugin = hook[s].plugin /\ hook'[s].cancelled = hook[s].cancelled
          /\ hook'[s].since = b
      BY <3>2, <3>4 DEF Hook
    <3>6. QED
      BY <2>4, <3>3, <3>5 DEF Late
  <2>5. LateInv'
    <3> SUFFICES ASSUME NEW q \in Plugins PROVE Cardinality(Late(q)') <= failures'[q]
      BY DEF LateInv
    <3>1. CASE q = p
      <4>1. Late(q)' = {}
        BY <2>4, <3>1 DEF Late
      <4>2. Cardinality(Late(q)') = 0 /\ failures'[q] = 0
        BY <2>2, <3>1, <4>1, FS_EmptySet DEF BreakerInv
      <4>3. QED
        BY <4>2
    <3>2. CASE q # p
      <4>1. Late(q)' \subseteq Late(q)
        BY <2>4 DEF Late
      <4>2. Cardinality(Late(q)') <= Cardinality(Late(q))
        BY <4>1, CardinalityGrows DEF Late
      <4>3. Cardinality(Late(q)') \in Nat /\ Cardinality(Late(q)) \in Nat
        BY SlotsCounted DEF Late
      <4>4. failures'[q] = failures[q] /\ failures[q] \in Nat
        BY <2>2, <3>2 DEF BreakerInv
      <4>5. QED
        BY <4>2, <4>3, <4>4 DEF LateInv
    <3>3. QED
      BY <3>1, <3>2
  <2>6. QED
    BY <2>3, <2>5
<1>5. CASE JoinError \/ Cancel
  <2>1. PICK p \in Plugins \ disabled : p = hook[cur].plugin
    BY <1>5 DEF JoinError, Cancel, BreakerInv, Waiting
  <2>2. CountFailure(p) /\ phase' = "dispatch"
    BY <1>5, <2>1 DEF JoinError, Cancel
  <2>3. /\ BreakerInv'
        /\ failures'[p] = failures[p] + 1
        /\ \A q \in Plugins \ {p} : failures'[q] = failures[q]
    BY <2>2, FailureCounted
  <2>4. /\ cur \in Slots
        /\ \A s \in Slots \ {cur} : hook'[s] = hook[s]
        /\ hook'[cur] = NoHook \/ hook'[cur].plugin = p
    <3>1. cur \in Slots /\ hook[cur] \in Hook
      BY <1>5 DEF JoinError, Cancel, Inv, Shape, OnlyCurrent
    <3>2. CASE JoinError
      BY <3>1, <3>2 DEF JoinError, Inv, Shape
    <3>3. CASE Cancel
      <4>1. PICK g : g = [hook[cur] EXCEPT !.cancelled = TRUE, !.owed = "none",
                                           !.skips = {}, !.score = 0]
        OBVIOUS
      <4>2. g.plugin = p
        BY <2>1, <3>1, <4>1 DEF Hook
      <4>3. hook' = [hook EXCEPT ![cur] = NoHook] \/ hook' = [hook EXCEPT ![cur] = g]
        BY <3>3, <4>1 DEF Cancel
      <4>4. QED
        BY <3>1, <4>2, <4>3 DEF Inv, Shape
    <3>4. QED
      BY <1>5, <3>1, <3>2, <3>3
  <2>5. LateInv'
    <3> SUFFICES ASSUME NEW q \in Plugins PROVE Cardinality(Late(q)') <= failures'[q]
      BY DEF LateInv
    <3>1. Cardinality(Late(q)') \in Nat /\ Cardinality(Late(q)) \in Nat
      BY SlotsCounted DEF Late
    <3>2. failures[q] \in Nat /\ Cardinality(Late(q)) <= failures[q]
      BY DEF BreakerInv, LateInv
    <3>3. CASE q = p
      <4>1. Late(q)' \subseteq Late(q) \cup {cur}
        BY <2>4 DEF Late
      <4>2. Cardinality(Late(q)') <= Cardinality(Late(q)) + 1
        BY <2>4, <4>1, CardinalityGrows DEF Late
      <4>3. QED
        BY <2>3, <3>1, <3>2, <3>3, <4>2
    <3>4. CASE q # p
      <4>1. Late(q)' \subseteq Late(q)
        BY <2>4, <3>4 DEF Late, NoHook
      <4>2. Cardinality(Late(q)') <= Cardinality(Late(q))
        BY <4>1, CardinalityGrows DEF Late
      <4>3. QED
        BY <2>3, <3>1, <3>2, <3>4, <4>2
    <3>5. QED
      BY <3>3, <3>4
  <2>6. QED
    BY <2>3, <2>5
<1>6. CASE GiveUp
  <2>1. /\ UNCHANGED <<hook, cur, failures, disabled>> /\ Waiting
    BY <1>6 DEF GiveUp, cycle, breaker, Waiting
  <2>2. QED
    BY <2>1, FewerLate DEF BreakerInv, Waiting
<1>7. CASE Midnight
  <2>1. UNCHANGED <<phase, cur, failures, disabled>>
    BY <1>7 DEF Midnight, cycle, breaker
  <2>2. ASSUME NEW s \in Slots
        PROVE  /\ hook'[s].plugin = hook[s].plugin /\ hook'[s].pc = hook[s].pc
               /\ hook'[s].cancelled = hook[s].cancelled /\ hook'[s].since = hook[s].since
    <3>1. PICK h : h = hook[s]
      OBVIOUS
    <3>2. h \in Hook
      BY <3>1 DEF Inv, Shape
    <3>3. hook'[s] = [h EXCEPT !.owed = IF @ = "none" THEN @ ELSE "before"]
      BY <1>7, <3>1 DEF Midnight
    <3>4. QED
      BY <3>1, <3>2, <3>3 DEF Hook
  <2>3. BreakerInv'
    BY <2>1, <2>2 DEF BreakerInv, Waiting, Inv, OnlyCurrent
  <2>4. QED
    BY <2>1, <2>2, <2>3, FewerLate
<1>8. CASE Restart
  <2>1. /\ hook' = [s \in Slots |-> NoHook] /\ phase' = "idle"
        /\ failures' = [p \in Plugins |-> 0]
    BY <1>8 DEF Restart
  <2>2. BreakerInv'
    BY <2>1, PluginAssumption DEF BreakerInv, Waiting
  <2>3. \A p \in Plugins : Late(p)' = {}
    BY <2>1 DEF Late, NoHook
  <2>4. QED
    BY <2>1, <2>2, <2>3, FS_EmptySet DEF LateInv
<1>9. QED
  BY <1>1, <1>2, <1>3, <1>4, <1>5, <1>6, <1>7, <1>8 DEF Next, WatchStep

\* The inductive invariant of the breaker.
LEMMA BreakersHold == Spec => [](BreakerInv /\ LateInv)
<1>1. Init => BreakerInv /\ LateInv
  <2> SUFFICES ASSUME Init PROVE BreakerInv /\ LateInv
    OBVIOUS
  <2>1. BreakerInv
    BY PluginAssumption DEF Init, Fresh, BreakerInv, Waiting
  <2>2. \A p \in Plugins : Late(p) = {} /\ failures[p] = 0
    BY DEF Init, Fresh, Late, NoHook
  <2> QED
    BY <2>1, <2>2, FS_EmptySet DEF LateInv
<1> QED
  BY <1>1, Invariant, BreakerStep, PTL DEF Spec

\* A plugin that hangs leaves at most max_consecutive_failures threads behind.
THEOREM FewHooksAreLate == Spec => []LateHooksBounded
<1>1. BreakerInv /\ LateInv => LateHooksBounded
  BY DEF BreakerInv, LateInv, LateHooksBounded, Late
<1> QED
  BY <1>1, BreakersHold, PTL

-----------------------------------------------------------------------------
(* The order of the topics *)

LEMMA SubsetsOfTopics ==
  ASSUME NEW S \in SUBSET Topics
  PROVE  IsFiniteSet(S) /\ Cardinality(S) \in Nat
<1>1. IsFiniteSet(Topics)
  BY PluginAssumption, FS_Interval DEF Topics
<1> QED
  BY <1>1, FS_Subset, FS_CardinalityType

\* What orders a set of topics is a sequence of them, as long as the set.
LEMMA ListsTyped ==
  ASSUME NEW S \in SUBSET Topics, NEW list \in SetToSeqs(S)
  PROVE  list \in Seq(Topics) /\ Len(list) = Cardinality(S)
<1>1. PICK n \in Nat : n = Cardinality(S)
  BY SubsetsOfTopics
<1>2. list \in [1..n -> S]
  BY <1>1 DEF SetToSeqs
<1> QED
  BY <1>1, <1>2

\* Topics have one order: of two of them one is ahead, and what is ahead of
\* that one is ahead of the other.  So the number of those ahead of a topic is
\* its place.
LEMMA SortedIsOrder ==
  ASSUME scores \in [Topics -> Nat], skipped \subseteq Topics
  PROVE  /\ Sorted \in SetToSeqs(Topics \ skipped)
         /\ \A i, j \in DOMAIN Sorted : i < j => Ahead(Sorted[i], Sorted[j])
<1> DEFINE S == Topics \ skipped
           n == Cardinality(S)
           First(t) == {u \in S : Ahead(u, t)}
           place == [t \in S |-> Cardinality(First(t)) + 1]
<1>1. IsFiniteSet(S) /\ n \in Nat /\ S \subseteq Nat
  <2>1. S \in SUBSET Topics /\ Topics \subseteq Nat
    BY PluginAssumption DEF Topics
  <2> QED
    BY <2>1, SubsetsOfTopics
<1>2. \A t \in S, u \in S : t # u => Ahead(t, u) \/ Ahead(u, t)
  BY <1>1 DEF Ahead
<1>3. \A t \in S, u \in S, v \in S : Ahead(t, u) /\ Ahead(u, v) => Ahead(t, v)
  BY <1>1 DEF Ahead
<1>4. \A t \in S : ~Ahead(t, t)
  BY <1>1 DEF Ahead
<1> HIDE DEF n
<1>5. ASSUME NEW t \in S
      PROVE  /\ First(t) \in SUBSET S /\ IsFiniteSet(First(t))
             /\ Cardinality(First(t)) \in Nat /\ Cardinality(First(t)) < n
  <2>1. First(t) \in SUBSET S /\ First(t) # S
    BY <1>4
  <2> HIDE DEF First
  <2>2. /\ IsFiniteSet(First(t)) /\ Cardinality(First(t)) <= n
        /\ Cardinality(First(t)) # n
    BY <1>1, <2>1, FS_Subset DEF n
  <2>3. Cardinality(First(t)) \in Nat
    BY <2>2, FS_CardinalityType
  <2> QED
    BY <1>1, <2>1, <2>2, <2>3
<1>6. ASSUME NEW t \in S, NEW u \in S, Ahead(t, u)
      PROVE  place[t] < place[u]
  <2>1. First(t) \subseteq First(u) /\ t \in First(u) /\ t \notin First(t)
    BY <1>3, <1>4, <1>6
  <2>2. First(t) \in SUBSET First(u) /\ First(t) # First(u)
    BY <2>1
  <2>3. /\ IsFiniteSet(First(u)) /\ Cardinality(First(t)) \in Nat
        /\ Cardinality(First(u)) \in Nat
    BY <1>5
  <2> HIDE DEF First
  <2>4. Cardinality(First(t)) < Cardinality(First(u))
    BY <2>2, <2>3, FS_Subset
  <2> QED
    BY <2>3, <2>4
<1>7. place \in [S -> 1..n]
  <2> HIDE DEF First
  <2> QED
    BY <1>1, <1>5
<1>8. place \in Injection(S, 1..n)
  <2>1. ASSUME NEW t \in S, NEW u \in S, place[t] = place[u] PROVE t = u
    <3>1. place[t] \in Int
      BY <1>7
    <3> HIDE DEF place
    <3> QED
      BY <1>2, <1>6, <2>1, <3>1
  <2> HIDE DEF place, S
  <2> QED
    BY <1>7, <2>1 DEF Injection, IsInjective
<1> HIDE DEF place
<1>9. place \in Surjection(S, 1..n)
  <2>1. IsFiniteSet(1..n) /\ Cardinality(1..n) = n
    BY <1>1, FS_Interval
  <2> QED
    BY <1>8, <2>1, FS_Injection DEF n
<1>10. PICK list : list = [i \in 1..n |-> CHOOSE t \in S : place[t] = i]
  OBVIOUS
<1>11. ASSUME NEW i \in 1..n PROVE list[i] \in S /\ place[list[i]] = i
  BY <1>9, <1>10 DEF Surjection
<1>12. list \in [1..n -> S] /\ DOMAIN list = 1..n
  BY <1>10, <1>11
<1>13. list \in SetToSeqs(S)
  <2>1. \A i, j \in 1..n : i # j => list[i] # list[j]
    BY <1>11
  <2> QED
    BY <1>12, <2>1 DEF SetToSeqs, n
<1>14. ASSUME NEW i \in DOMAIN list, NEW j \in DOMAIN list, i < j
       PROVE  Ahead(list[i], list[j])
  <2>1. /\ list[i] \in S /\ list[j] \in S /\ place[list[i]] = i /\ place[list[j]] = j
        /\ i \in Int /\ j \in Int
    BY <1>11, <1>12
  <2>2. list[i] # list[j]
    BY <1>14, <2>1
  <2>3. ~Ahead(list[j], list[i])
    BY <1>6, <1>14, <2>1
  <2> QED
    BY <1>2, <2>1, <2>2, <2>3
<1> QED
  BY <1>13, <1>14 DEF Sorted

-----------------------------------------------------------------------------
(* Types *)

\* A hook that owes a record has made a request that the history counts, so that
\* writing it off leaves no count below zero.
OwedInv ==
  /\ kept \in [Keys -> Nat] /\ today \in [Counts -> Nat]
  /\ \A s \in Slots : /\ hook[s].owed # "none" => kept[KeyOf(hook[s])] > 0
                      /\ hook[s].owed = "today" => today[CountOf(hook[s])] > 0

\* What a hook owes names a key and a count.
LEMMA OwedNamed ==
  ASSUME Inv, NEW s \in Slots, hook[s].owed # "none"
  PROVE  /\ hook[s].pc # "free" /\ ~hook[s].cancelled
         /\ KeyOf(hook[s]) \in Keys /\ CountOf(hook[s]) \in Counts
BY KeysOfCounts DEF Inv, Sound, Acting

\* The history is as it was, and what hooks still owe they owed before.
LEMMA OwedKept ==
  ASSUME OwedInv, UNCHANGED <<kept, today>>,
         \A r \in Slots :
           \/ hook'[r].owed = "none"
           \/ /\ hook[r].owed # "none" /\ hook'[r].owed \in {hook[r].owed, "before"}
              /\ KeyOf(hook'[r]) = KeyOf(hook[r]) /\ CountOf(hook'[r]) = CountOf(hook[r])
  PROVE  OwedInv'
BY DEF OwedInv, KeyOf, CountOf

\* The same for a step of one hook.
LEMMA OwedByOne ==
  ASSUME Inv, OwedInv, UNCHANGED <<kept, today>>, NEW s \in Slots, NEW g,
         hook' = [hook EXCEPT ![s] = g],
         \/ g.owed = "none"
         \/ /\ hook[s].owed # "none" /\ g.owed = hook[s].owed
            /\ KeyOf(g) = KeyOf(hook[s]) /\ CountOf(g) = CountOf(hook[s])
  PROVE  OwedInv'
<1>1. hook'[s] = g /\ \A r \in Slots \ {s} : hook'[r] = hook[r]
  BY DEF Inv, Shape
<1> QED
  BY <1>1, OwedKept

\* Nobody else owes a record when one is written off.
LEMMA OwedWrittenOff ==
  ASSUME Inv, OwedInv, NEW s \in Slots, NEW g, hook' = [hook EXCEPT ![s] = g],
         g.owed = "none", Forfeit(hook[s])
  PROVE  OwedInv'
<1> DEFINE h == hook[s]
<1>1. hook'[s] = g /\ \A r \in Slots \ {s} : hook'[r] = hook[r]
  BY DEF Inv, Shape
<1>2. CASE h.owed = "none"
  BY <1>1, <1>2, OwedKept DEF Forfeit
<1>3. CASE h.owed # "none"
  <2>1. /\ h.pc # "free" /\ ~h.cancelled
        /\ KeyOf(h) \in Keys /\ CountOf(h) \in Counts
    BY <1>3, OwedNamed
  <2>2. \A r \in Slots : hook'[r].owed = "none"
    BY <1>1, <2>1, OthersOweNothing
  <2>3. kept' \in [Keys -> Nat]
    BY <1>3, <2>1 DEF OwedInv, Forfeit
  <2>4. today' \in [Counts -> Nat]
    BY <1>3, <2>1 DEF OwedInv, Forfeit
  <2> QED
    BY <2>2, <2>3, <2>4 DEF OwedInv
<1> QED
  BY <1>2, <1>3

\* The history grows by a request, that of the one hook that may make one.
LEMMA OwedByHook ==
  ASSUME Inv, OwedInv, NEW s \in Slots, HookStep(s)
  PROVE  OwedInv'
<1>1. PICK h : h = hook[s]
  OBVIOUS
<1>2. h \in Hook /\ Sound(h)
  BY <1>1 DEF Inv, Shape
<1>3. Acted(h).owed = "none"
  BY <1>2, ActedType
<1>4. CASE \E t \in Topics : SkipTopic(s, t) \/ Prioritize(s, t)
  <2>1. PICK t \in Topics : SkipTopic(s, t) \/ Prioritize(s, t)
    BY <1>4
  <2>2. h.owed = "none" /\ UNCHANGED history
    BY <1>1, <1>2, <2>1 DEF SkipTopic, Prioritize, Sound
  <2>3. PICK g \in {[h EXCEPT !.act = "over", !.skips = {t}],
                    [h EXCEPT !.act = "over", !.score = t]} : Move(s, g)
    BY <1>1, <2>1 DEF SkipTopic, Prioritize
  <2>4. g.owed = "none"
    BY <1>2, <2>2, <2>3 DEF Hook
  <2> QED
    BY <2>2, <2>3, <2>4, OwedByOne DEF Move, history
<1>5. CASE \E a \in Acts, t \in Topics : TestOnce(s, a, t)
  <2>1. PICK a \in Acts, t \in Topics : TestOnce(s, a, t)
    BY <1>5
  <2>2. PICK g : g = [h EXCEPT !.act = a, !.topic = t, !.pc = "limit"]
    OBVIOUS
  <2>3. h.owed = "none" /\ UNCHANGED history
    BY <1>1, <1>2, <2>1 DEF TestOnce, Sound
  <2>4. g.owed = "none"
    BY <1>2, <2>2, <2>3 DEF Hook
  <2>5. Move(s, g) \/ Move(s, Acted(h))
    BY <1>1, <2>1, <2>2 DEF TestOnce
  <2> QED
    BY <1>3, <2>3, <2>4, <2>5, OwedByOne DEF Move, history
<1>6. CASE TestLimit(s) \/ Recheck(s)
  <2>1. PICK g \in {Acted(h), [h EXCEPT !.pc = "recheck"], [h EXCEPT !.pc = "request"],
                    [h EXCEPT !.pc = "count"]} : Move(s, g)
    BY <1>1, <1>6 DEF TestLimit, Recheck
  <2>2. UNCHANGED history
    BY <1>6 DEF TestLimit, Recheck
  <2>3. \/ g.owed = "none"
        \/ g.owed = h.owed /\ KeyOf(g) = KeyOf(h) /\ CountOf(g) = CountOf(h)
    <3>1. g = Acted(h) \/ \E c \in {"recheck", "request", "count"} : g = [h EXCEPT !.pc = c]
      BY <2>1
    <3>2. g = Acted(h) \/ /\ g.owed = h.owed /\ g.plugin = h.plugin
                          /\ g.act = h.act /\ g.topic = h.topic
      BY <1>2, <3>1 DEF Hook
    <3> QED
      BY <1>3, <3>2 DEF KeyOf, CountOf
  <2> QED
    BY <1>1, <2>1, <2>2, <2>3, OwedByOne DEF Move, history
<1>7. CASE Request(s)
  <2>1. CASE ~Active(s)
    <3>1. h.owed = "none"
      BY <1>1, <1>2, <2>1 DEF Active, Sound
    <3>2. PICK g : g = [h EXCEPT !.pc = "recheck"]
      OBVIOUS
    <3>3. g = [h EXCEPT !.pc = "recheck", !.owed = @] /\ g.owed = "none"
      BY <1>2, <3>1, <3>2 DEF Hook
    <3>4. Move(s, g) /\ UNCHANGED history
      BY <1>1, <1>7, <2>1, <3>3 DEF Request
    <3> QED
      BY <3>3, <3>4, OwedByOne DEF Move, history
  <2>2. CASE Active(s)
    <3>1. /\ h.pc = "request" /\ ~h.cancelled
          /\ KeyOf(h) \in Keys /\ CountOf(h) \in Counts
      BY <1>1, <1>2, <1>7, <2>2, KeysOfCounts DEF Request, Active, Sound, Acting
    <3>2. \A r \in Slots \ {s} : hook[r].owed = "none"
      BY <1>1, <3>1, OthersOweNothing
    <3>3. PICK g : g = [h EXCEPT !.pc = "recheck", !.owed = "today"]
      OBVIOUS
    <3>4. KeyOf(g) = KeyOf(h) /\ CountOf(g) = CountOf(h)
      BY <1>2, <3>3 DEF Hook, KeyOf, CountOf
    <3>5. /\ hook' = [hook EXCEPT ![s] = g]
          /\ kept' = [kept EXCEPT ![KeyOf(h)] = @ + 1]
          /\ today' = [today EXCEPT ![CountOf(h)] = @ + 1]
      BY <1>1, <1>7, <2>2, <3>3 DEF Request, Move
    <3>6. hook'[s] = g /\ \A r \in Slots \ {s} : hook'[r] = hook[r]
      BY <3>5 DEF Inv, Shape
    <3>7. kept' \in [Keys -> Nat] /\ kept'[KeyOf(h)] > 0
      BY <3>1, <3>5 DEF OwedInv
    <3>8. today' \in [Counts -> Nat] /\ today'[CountOf(h)] > 0
      BY <3>1, <3>5 DEF OwedInv
    <3> QED
      BY <3>2, <3>4, <3>6, <3>7, <3>8 DEF OwedInv, KeyOf, CountOf
  <2> QED
    BY <2>1, <2>2
<1>8. CASE Count(s)
  <2>1. PICK g \in {Acted(h), [h EXCEPT !.pc = "mark"]} : hook' = [hook EXCEPT ![s] = g]
    BY <1>1, <1>8 DEF Count, Inv, Shape
  <2>2. \/ g.owed = "none"
        \/ g.owed = h.owed /\ KeyOf(g) = KeyOf(h) /\ CountOf(g) = CountOf(h)
    BY <1>2, <1>3, <2>1 DEF Hook, KeyOf, CountOf
  <2>3. CountOf(h) \in Counts
    BY <1>1, <1>2, <1>8 DEF Count, Sound, Acting
  <2>4. CASE UNCHANGED <<kept, today>>
    BY <1>1, <2>1, <2>2, <2>4, OwedByOne
  <2>5. CASE today' = [today EXCEPT ![CountOf(h)] = @ + 1] /\ UNCHANGED kept
    <3>1. hook'[s] = g /\ \A r \in Slots \ {s} : hook'[r] = hook[r]
      BY <2>1 DEF Inv, Shape
    <3>2. today' \in [Counts -> Nat] /\ \A c \in Counts : today'[c] >= today[c]
      BY <2>3, <2>5 DEF OwedInv
    <3>3. ASSUME NEW r \in Slots, hook[r].owed # "none"
          PROVE  CountOf(hook[r]) \in Counts
      BY <3>3, OwedNamed
    <3>4. ASSUME NEW r \in Slots, hook'[r].owed # "none"
          PROVE  /\ hook'[r].owed = hook[r].owed
                 /\ KeyOf(hook'[r]) = KeyOf(hook[r]) /\ CountOf(hook'[r]) = CountOf(hook[r])
      BY <1>1, <2>2, <3>1, <3>4
    <3>5. ASSUME NEW r \in Slots, hook'[r].owed # "none" PROVE kept'[KeyOf(hook'[r])] > 0
      BY <2>5, <3>4, <3>5 DEF OwedInv
    <3>6. ASSUME NEW r \in Slots, hook'[r].owed = "today" PROVE today'[CountOf(hook'[r])] > 0
      <4>1. hook[r].owed = "today" /\ CountOf(hook'[r]) = CountOf(hook[r])
        BY <3>4, <3>6
      <4>2. today[CountOf(hook[r])] > 0 /\ CountOf(hook[r]) \in Counts
        BY <3>3, <4>1 DEF OwedInv
      <4> QED
        BY <3>2, <4>1, <4>2 DEF OwedInv
    <3>7. kept' \in [Keys -> Nat]
      BY <2>5 DEF OwedInv
    <3> QED
      BY <3>2, <3>5, <3>6, <3>7 DEF OwedInv, KeyOf, CountOf
  <2> QED
    BY <1>1, <1>8, <2>4, <2>5 DEF Count
<1>9. CASE MarkDone(s)
  BY <1>1, <1>3, <1>9, OwedByOne DEF MarkDone, history
<1>10. CASE Return(s)
  <2>1. PICK g : g = Ended(h, "ended")
    OBVIOUS
  <2>2. g.owed = "none"
    BY <1>1, <1>2, <1>10, <2>1, EndedType DEF Return, Sound, NoHook
  <2> QED
    BY <1>1, <1>10, <2>1, <2>2, OwedByOne DEF Return, Move, history
<1>11. CASE RequestFails(s) \/ StoreFails(s) \/ Raise(s)
  <2>1. PICK g : g = Ended(Acted(h), "failed")
    OBVIOUS
  <2>2. g.owed = "none"
    BY <1>2, <2>1, ActedType, EndedType DEF NoHook
  <2>3. hook' = [hook EXCEPT ![s] = g] /\ Forfeit(hook[s])
    BY <1>1, <1>11, <2>1 DEF RequestFails, StoreFails, Raise, HookFails
  <2> QED
    BY <2>2, <2>3, OwedWrittenOff
<1> QED
  BY <1>4, <1>5, <1>6, <1>7, <1>8, <1>9, <1>10, <1>11 DEF HookStep

LEMMA OwedStep == Inv /\ OwedInv /\ BreakerInv /\ [Next]_vars => OwedInv'
<1> SUFFICES ASSUME Inv, OwedInv, BreakerInv, [Next]_vars PROVE OwedInv'
  OBVIOUS
<1>1. CASE BeginCycle \/ ListSorted \/ EnterTopic \/ TopicDone \/ GiveUp \/ UNCHANGED vars
  <2>1. UNCHANGED <<hook, kept, today>>
    BY <1>1 DEF BeginCycle, ListSorted, EnterTopic, TopicDone, GiveUp, history, vars
  <2> QED
    BY <2>1 DEF OwedInv, KeyOf, CountOf
<1>2. ASSUME NEW s \in Slots, HookStep(s) PROVE OwedInv'
  BY <1>2, OwedByHook
<1>3. ASSUME NEW p \in Plugins, NEW s \in Slots, CallHook(p, s) PROVE OwedInv'
  <2>1. CASE ~Callable(p)
    <3>1. UNCHANGED <<hook, kept, today>>
      BY <1>3, <2>1 DEF CallHook, history
    <3> QED
      BY <3>1 DEF OwedInv, KeyOf, CountOf
  <2>2. CASE Callable(p)
    <3>1. PICK g : g = [NoHook EXCEPT !.pc = "run", !.plugin = p, !.since = TRUE]
      OBVIOUS
    <3>2. g.owed = "none"
      BY <3>1 DEF NoHook
    <3>3. hook' = [hook EXCEPT ![s] = g] /\ UNCHANGED <<kept, today>>
      BY <1>3, <2>2, <3>1 DEF CallHook, history
    <3> QED
      BY <3>2, <3>3, OwedByOne
  <2> QED
    BY <2>1, <2>2
<1>4. CASE JoinOk \/ CommitFails
  <2>1. UNCHANGED <<kept, today>>
    BY <1>4 DEF JoinOk, CommitFails, Succeeded, history
  <2>2. ASSUME NEW r \in Slots
        PROVE  \/ hook'[r].owed = "none"
               \/ /\ hook'[r].owed = hook[r].owed
                  /\ KeyOf(hook'[r]) = KeyOf(hook[r]) /\ CountOf(hook'[r]) = CountOf(hook[r])
    <3>1. hook[r] \in Hook
      BY DEF Inv, Shape
    <3>2. PICK b \in BOOLEAN : b = (hook[r].since /\ hook[r].plugin # hook[cur].plugin)
      OBVIOUS
    <3>3. hook'[r] = NoHook \/ hook'[r] = [hook[r] EXCEPT !.since = b]
      BY <1>4, <3>2 DEF JoinOk, CommitFails, Succeeded
    <3> QED
      BY <3>1, <3>3 DEF Hook, NoHook, KeyOf, CountOf
  <2> QED
    BY <2>1, <2>2, OwedKept
<1>5. CASE JoinError
  <2>1. /\ hook' = [hook EXCEPT ![cur] = NoHook] /\ cur \in Slots
        /\ UNCHANGED <<kept, today>>
    BY <1>5 DEF JoinError, history, Inv, OnlyCurrent
  <2> QED
    BY <2>1, OwedByOne DEF NoHook
<1>6. CASE Cancel
  <2>1. cur \in Slots /\ hook[cur] \in Hook
    BY <1>6 DEF Cancel, Inv, Shape, OnlyCurrent
  <2>2. PICK g : g = [hook[cur] EXCEPT !.cancelled = TRUE, !.owed = "none",
                                       !.skips = {}, !.score = 0]
    OBVIOUS
  <2>3. g.owed = "none" /\ NoHook.owed = "none"
    BY <2>1, <2>2 DEF Hook, NoHook
  <2>4. /\ hook' = [hook EXCEPT ![cur] = g] \/ hook' = [hook EXCEPT ![cur] = NoHook]
        /\ Forfeit(hook[cur])
    BY <1>6, <2>2 DEF Cancel
  <2> QED
    BY <2>1, <2>3, <2>4, OwedWrittenOff
<1>7. CASE Midnight
  <2>1. UNCHANGED kept /\ today' = NothingCounted
    BY <1>7 DEF Midnight
  <2>2. ASSUME NEW r \in Slots
        PROVE  /\ hook'[r].owed = IF hook[r].owed = "none" THEN "none" ELSE "before"
               /\ KeyOf(hook'[r]) = KeyOf(hook[r])
    <3>1. hook[r] \in Hook
      BY DEF Inv, Shape
    <3>2. hook'[r] = [hook[r] EXCEPT !.owed = IF @ = "none" THEN @ ELSE "before"]
      BY <1>7 DEF Midnight
    <3> QED
      BY <3>1, <3>2 DEF Hook, KeyOf, CountOf
  <2> QED
    BY <2>1, <2>2 DEF OwedInv, NothingCounted, KeyOf, CountOf
<1>8. CASE Restart
  <2>1. \A r \in Slots : hook'[r].owed = "none"
    BY <1>8 DEF Restart, NoHook
  <2>2. CASE Backend = "store"
    <3>1. /\ kept' = [k \in Keys |-> kept[k] - Cardinality(Owing(k))]
          /\ today' = [c \in Counts |-> today[c] - Cardinality(OwingToday(c))]
      BY <1>8, <2>2 DEF Restart
    <3>2. ASSUME NEW T \in SUBSET Slots, \A r \in T : hook[r].owed # "none"
          PROVE  Cardinality(T) = 0 \/ (Cardinality(T) = 1 /\ T # {})
      <4>1. CASE T = {}
        BY <4>1, FS_EmptySet
      <4>2. CASE T # {}
        <5>1. PICK r \in T : TRUE
          BY <4>2
        <5>2. T = {r}
          BY <3>2, <5>1, OwedNamed, OthersOweNothing
        <5> QED
          BY <5>2, FS_Singleton
      <4> QED
        BY <4>1, <4>2
    <3>3. ASSUME NEW k \in Keys PROVE kept[k] - Cardinality(Owing(k)) \in Nat
      <4>1. Cardinality(Owing(k)) = 0 \/ (Cardinality(Owing(k)) = 1 /\ Owing(k) # {})
        BY <3>2 DEF Owing
      <4>2. Owing(k) # {} => kept[k] > 0
        BY DEF Owing, OwedInv
      <4>3. kept[k] \in Nat
        BY DEF OwedInv
      <4> QED
        BY <4>1, <4>2, <4>3
    <3>4. ASSUME NEW c \in Counts PROVE today[c] - Cardinality(OwingToday(c)) \in Nat
      <4>1. \/ Cardinality(OwingToday(c)) = 0
            \/ Cardinality(OwingToday(c)) = 1 /\ OwingToday(c) # {}
        BY <3>2 DEF OwingToday
      <4>2. OwingToday(c) # {} => today[c] > 0
        BY DEF OwingToday, OwedInv
      <4>3. today[c] \in Nat
        BY DEF OwedInv
      <4> QED
        BY <4>1, <4>2, <4>3
    <3> QED
      BY <2>1, <3>1, <3>3, <3>4 DEF OwedInv
  <2>3. CASE Backend # "store"
    BY <1>8, <2>1, <2>3 DEF Restart, OwedInv, NothingKept, NothingCounted
  <2> QED
    BY <2>2, <2>3
<1> QED
  BY <1>1, <1>2, <1>3, <1>4, <1>5, <1>6, <1>7, <1>8 DEF Next, WatchStep

\* The types of what the watch thread and the backend keep.
CycleTyped ==
  /\ phase \in {"idle", "dispatch", "wait", "giveup"}
  /\ event \in {"none", "topics.fetched", "topic.before_enter", "topic.after_crawl"}
  /\ topic \in Topics \cup {0}
  /\ due \subseteq Plugins
  /\ cur \in Slots \cup {0}
  /\ todo \in Seq(Topics)
  /\ scores \in [Topics -> Nat]
  /\ skipped \subseteq Topics
  /\ disabled \subseteq Plugins
  /\ done \subseteq Keys

\* The cycle goes on with the first of a list of topics, or ends.
LEMMA NextTopicTyped ==
  ASSUME CycleTyped, NEW list \in Seq(Topics), NextTopic(list),
         UNCHANGED <<cur, disabled, done>>
  PROVE  CycleTyped'
<1>1. CASE list = <<>>
  BY <1>1 DEF NextTopic, EndCycle, CycleTyped
<1>2. CASE list # <<>>
  <2>1. Head(list) \in Topics /\ Tail(list) \in Seq(Topics)
    BY <1>2
  <2>2. /\ phase' = "dispatch" /\ event' = "topic.before_enter" /\ topic' = Head(list)
        /\ due' \subseteq Plugins /\ todo' = Tail(list) /\ UNCHANGED <<scores, skipped>>
    BY <1>2 DEF NextTopic, Dispatch, Listening
  <2> QED
    BY <2>1, <2>2 DEF CycleTyped
<1> QED
  BY <1>1, <1>2

LEMMA RestTyped ==
  ASSUME CycleTyped
  PROVE  Rest \subseteq Seq(Topics)
<1>1. todo \in Seq(Topics) /\ <<>> \in Seq(Topics)
  BY DEF CycleTyped
<1> QED
  BY <1>1, Zenon DEF Rest

LEMMA CycleStep == Inv /\ CycleTyped /\ BreakerInv /\ [Next]_vars => CycleTyped'
<1> SUFFICES ASSUME Inv, CycleTyped, BreakerInv, [Next]_vars PROVE CycleTyped'
  OBVIOUS
<1>1. CASE UNCHANGED vars
  BY <1>1 DEF CycleTyped, vars
<1>2. CASE BeginCycle
  BY <1>2 DEF CycleTyped, BeginCycle, Dispatch, Listening, breaker, kvstore
<1>3. CASE ListSorted
  <2>1. Sorted \in Seq(Topics)
    BY SortedIsOrder, ListsTyped DEF CycleTyped
  <2> QED
    BY <1>3, <2>1, NextTopicTyped DEF ListSorted, breaker, kvstore
<1>4. CASE EnterTopic
  <2>1. UNCHANGED <<cur, disabled, done>>
    BY <1>4 DEF EnterTopic, breaker, kvstore
  <2>2. CASE \E rest \in Rest : NextTopic(rest)
    BY <2>1, <2>2, RestTyped, NextTopicTyped
  <2>3. CASE Dispatch("topic.after_crawl", topic) /\ UNCHANGED <<todo, scores, skipped>>
    BY <2>1, <2>3 DEF Dispatch, Listening, CycleTyped
  <2> QED
    BY <1>4, <2>2, <2>3 DEF EnterTopic, Rest
<1>5. CASE TopicDone
  BY <1>5, RestTyped, NextTopicTyped DEF TopicDone, breaker, kvstore
<1>6. ASSUME NEW p \in Plugins, NEW s \in Slots, CallHook(p, s) PROVE CycleTyped'
  BY <1>6 DEF CallHook, CycleTyped, breaker, kvstore
<1>7. CASE JoinOk
  <2>1. cur \in Slots /\ hook[cur] \in Hook
    BY <1>7 DEF JoinOk, Succeeded, Inv, Shape, OnlyCurrent
  <2>2. hook[cur].skips \subseteq Topics
    BY <2>1 DEF Hook
  <2>3. /\ skipped' = skipped \cup Noted(hook[cur])
        /\ scores' = [t \in Topics |-> scores[t] + IF t = hook[cur].score THEN 1 ELSE 0]
        /\ phase' = "dispatch" /\ cur' = 0
        /\ UNCHANGED <<event, topic, due, todo, disabled, done>>
    BY <1>7 DEF JoinOk, Succeeded, kvstore
  <2>4. skipped' \subseteq Topics
    BY <2>2, <2>3 DEF Noted, CycleTyped
  <2>5. scores' \in [Topics -> Nat]
    BY <2>3 DEF CycleTyped
  <2> QED
    BY <2>3, <2>4, <2>5 DEF CycleTyped
<1>8. CASE JoinError \/ Cancel
  <2>1. cur \in Slots /\ hook[cur] \in Hook
    BY <1>8 DEF JoinError, Cancel, Inv, Shape, OnlyCurrent
  <2>2. hook[cur].skips \subseteq Topics
    BY <2>1 DEF Hook
  <2>3. hook[cur].plugin \in Plugins
    BY <1>8 DEF JoinError, Cancel, BreakerInv, Waiting
  <2>4. /\ CountFailure(hook[cur].plugin) /\ phase' = "dispatch" /\ cur' = 0
        /\ skipped' \in {skipped, skipped \cup Noted(hook[cur])}
        /\ UNCHANGED <<event, topic, due, todo, scores, done>>
    BY <1>8 DEF JoinError, Cancel, kvstore
  <2>5. skipped' \subseteq Topics
    BY <2>2, <2>4 DEF Noted, CycleTyped
  <2>6. disabled' \subseteq Plugins
    BY <2>3, <2>4 DEF CountFailure, CycleTyped
  <2> QED
    BY <2>4, <2>5, <2>6 DEF CycleTyped
<1>9. CASE GiveUp
  BY <1>9 DEF GiveUp, CycleTyped, cycle, breaker, kvstore
<1>10. ASSUME NEW s \in Slots, HookStep(s) PROVE CycleTyped'
  <2>1. UNCHANGED <<phase, event, topic, due, cur, todo, scores, skipped, disabled>>
    BY <1>10, ZenonT(40)
    DEF HookStep, SkipTopic, Prioritize, TestOnce, TestLimit, Request,
                 RequestFails, Recheck, Count, MarkDone, StoreFails, Return, Raise,
                 HookFails, Move, cycle, breaker
  <2>2. CASE MarkDone(s)
    <3>1. KeyOf(hook[s]) \in Keys
      BY <2>2, KeysOfCounts DEF MarkDone, Inv, Sound, Acting
    <3>2. done' \in {done, done \cup {KeyOf(hook[s])}}
      BY <2>2 DEF MarkDone
    <3> QED
      BY <2>1, <3>1, <3>2 DEF CycleTyped
  <2>3. CASE ~MarkDone(s)
    <3>1. UNCHANGED done
      BY <1>10, <2>3, ZenonT(40)
      DEF HookStep, SkipTopic, Prioritize, TestOnce, TestLimit, Request,
                 RequestFails, Recheck, Count, StoreFails, Return, Raise,
                 HookFails, Move, kvstore
    <3> QED
      BY <2>1, <3>1 DEF CycleTyped
  <2> QED
    BY <2>2, <2>3
<1>11. CASE Midnight
  BY <1>11 DEF Midnight, CycleTyped, cycle, breaker
<1>12. CASE Restart
  BY <1>12 DEF Restart, CycleTyped
<1>13. CASE CommitFails
  BY <1>13 DEF CommitFails, Succeeded, EndCycle, CycleTyped, kvstore
<1> QED
  BY <1>1, <1>2, <1>3, <1>4, <1>5, <1>6, <1>7, <1>8, <1>9, <1>10, <1>11, <1>12, <1>13
     DEF Next, WatchStep

\* The variables of the plugin manager have their types: no count falls below
\* zero when the request of a hook that was broken off is written off.
THEOREM TypesHold == Spec => []TypeOK
<1>1. Init => OwedInv /\ CycleTyped
  <2> SUFFICES ASSUME Init PROVE OwedInv /\ CycleTyped
    OBVIOUS
  <2>1. OwedInv
    BY DEF Init, OwedInv, NothingKept, NothingCounted, NoHook
  <2>2. CycleTyped
    BY DEF Init, Fresh, CycleTyped
  <2> QED
    BY <2>1, <2>2
<1>2. Inv /\ OwedInv /\ CycleTyped /\ BreakerInv => TypeOK
  BY DEF Inv, Shape, Hook, Acting, OwedInv, CycleTyped, BreakerInv, TypeOK
<1> QED
  BY <1>1, <1>2, BreakersHold, Invariant, OwedStep, CycleStep, PTL DEF Spec

\* When the hooks have seen the list, every topic that none of them skipped is
\* entered or still to be entered, once, and those of a higher score are before the
\* others; the cycle ends at once if all of them were skipped.
OrderedTopics ==
  [][ListSorted =>
       IF skipped = Topics THEN phase' = "idle"
       ELSE LET list == <<topic'>> \o todo' IN
            /\ phase' = "dispatch"
            /\ list \in SetToSeqs(Topics \ skipped)
            /\ \A i, j \in DOMAIN list : i < j => Ahead(list[i], list[j])]_vars

\* What is visited of the list is what sort_topics returns, whatever the hooks have
\* noted.
THEOREM TopicsInOrder == Spec => OrderedTopics
<1> DEFINE Ordered ==
      ListSorted =>
        IF skipped = Topics THEN phase' = "idle"
        ELSE LET list == <<topic'>> \o todo' IN
             /\ phase' = "dispatch"
             /\ list \in SetToSeqs(Topics \ skipped)
             /\ \A i, j \in DOMAIN list : i < j => Ahead(list[i], list[j])
<1>1. TypeOK => Ordered
  <2> SUFFICES ASSUME TypeOK, ListSorted PROVE Ordered
    OBVIOUS
  <2>1. /\ Sorted \in SetToSeqs(Topics \ skipped)
        /\ \A i, j \in DOMAIN Sorted : i < j => Ahead(Sorted[i], Sorted[j])
    BY SortedIsOrder DEF TypeOK
  <2>2. Sorted \in Seq(Topics) /\ Len(Sorted) = Cardinality(Topics \ skipped)
    BY <2>1, ListsTyped
  <2>3. Sorted = <<>> <=> skipped = Topics
    <3>1. Len(Sorted) = 0 <=> Topics \ skipped = {}
      BY <2>2, SubsetsOfTopics, FS_EmptySet
    <3>2. Topics \ skipped = {} <=> skipped = Topics
      BY DEF TypeOK
    <3>3. PICK list \in Seq(Topics) : list = Sorted
      BY <2>2
    <3>4. Len(list) = 0 <=> list = <<>>
      OBVIOUS
    <3> QED
      BY <3>1, <3>2, <3>3, <3>4
  <2>4. NextTopic(Sorted)
    BY DEF ListSorted
  <2>5. CASE skipped = Topics
    BY <2>3, <2>4, <2>5 DEF NextTopic, EndCycle
  <2>6. CASE skipped # Topics
    <3>1. phase' = "dispatch" /\ topic' = Head(Sorted) /\ todo' = Tail(Sorted)
      BY <2>3, <2>4, <2>6 DEF NextTopic, Dispatch
    <3>2. PICK list \in Seq(Topics) : list = Sorted
      BY <2>2
    <3>3. <<topic'>> \o todo' = list
      BY <2>3, <2>6, <3>1, <3>2
    <3> QED
      BY <2>1, <2>6, <3>1, <3>2, <3>3
  <2> QED
    BY <2>5, <2>6
<1> HIDE DEF Ordered
<1>2. Spec => [][Ordered]_vars
  BY <1>1, TypesHold, PTL DEF Spec
<1> QED
  BY <1>2 DEF OrderedTopics, Ordered

=============================================================================
