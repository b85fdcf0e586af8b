SPECIFICATION FairSpec
CONSTANTS
  Topics = {1}
  Versions = {1, 2}
  PostIds = {1, 2}
  NoteIds = {1, 2}
  CycleIds = {1}
  LastDay = 1
  Threads = {"watch", "hook"}
  CallsOf <- MCCallsOf
  OtherWriter = TRUE
  BadData = {"upsert_topic_detail", "insert_posts", "mark_notifications_sent", "set_plugin_kv"}
  MaxCalls = 3
INVARIANTS ClosedBetweenCalls
PROPERTIES Implements CallsEnd
CHECK_DEADLOCK FALSE
