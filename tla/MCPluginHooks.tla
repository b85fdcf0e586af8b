---------------------------- MODULE MCPluginHooks ----------------------------
(* Two plugins: the first acts on what was crawled, the second orders.      *)
EXTENDS PluginHooks

MCPriority == (1 :> 0) @@ (2 :> 5)
MCHooks == (1 :> {"topic.after_crawl"}) @@ (2 :> {"topics.fetched"})
MCDoes == (1 :> {"reply", "trigger"}) @@ (2 :> {"skip", "prioritize"})
==============================================================================
