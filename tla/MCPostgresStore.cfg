SPECIFICATION Spec
CONSTANTS
  Topics = {1}
  Versions = {1, 2}
  PostIds = {1, 2}
  NoteIds = {1, 2}
  CycleIds = {1}
  LastDay = 2
  Threads = {"watch", "hook"}
  CallsOf <- MCCallsOf
  Fallible = {"upsert_topic_detail", "log_plugin_action", "set_plugin_kv"}
  MaxCalls = 3
INVARIANT WholeUnlessMixedAndFailed
PROPERTY AtomicWhileAlone
CHECK_DEADLOCK FALSE
