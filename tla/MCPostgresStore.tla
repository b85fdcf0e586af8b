--------------------------- MODULE MCPostgresStore ----------------------------
(* The watch thread makes every write of a cycle, a late hook those of a    *)
(* plugin, a handler of /watch/status reads.                                *)
EXTENDS PostgresStore, TLC

CrawlCalls ==
  {[op |-> "upsert_topic_detail", topic |-> 1, version |-> v, read |-> 1] : v \in Versions}
  \cup {[op |-> "insert_posts", topic |-> 1, ids |-> <<1, 2>>],
        [op |-> "upsert_topic_crawl_state", topic |-> 1, number |-> 2],
        [op |-> "update_last_read_post_number", topic |-> 1, number |-> 2],
        [op |-> "get_existing_post_ids", topic |-> 1, ids |-> <<1, 2>>],
        [op |-> "get_last_synced_post_number", topic |-> 1],
        [op |-> "get_last_read_post_number", topic |-> 1]}

CycleCalls ==
  {[op |-> "begin_watch_cycle", id |-> 1],
   [op |-> "finish_watch_cycle", id |-> 1, outcome |-> 1],
   [op |-> "mark_notifications_sent", ids |-> <<1, 2>>],
   [op |-> "get_sent_notification_ids", ids |-> <<1, 2>>]}
  \cup {[op |-> "inc_stat", day |-> d, by |-> 1] : d \in Days}

PluginCalls ==
  {[op |-> "inc_plugin_daily_count", day |-> 1, by |-> 1],
   [op |-> "mark_plugin_once"], [op |-> "set_plugin_kv", value |-> 3],
   [op |-> "log_plugin_action"], [op |-> "get_plugin_daily_count", day |-> 1],
   [op |-> "plugin_once_exists"], [op |-> "get_plugin_kv"],
   [op |-> "get_stats_total"], [op |-> "get_stats_today", day |-> 1]}

MCCallsOf == ("watch" :> CrawlCalls \cup CycleCalls) @@ ("hook" :> PluginCalls)
==============================================================================
