----------------------------- MODULE MCWatchLoop ------------------------------
(* A day of two hours of two minutes; one window over midnight, or two     *)
(* that are not.                                                            *)
EXTENDS WatchLoop

MCSchedules ==
  {{}, {<<1, 1, 0, 0>>}, {<<0, 0, 0, 0>>, <<1, 0, 1, 0>>}}

MCSettings ==
  {[storage |-> TRUE, autoMarkRead |-> TRUE, pageSize |-> 2],
   [storage |-> FALSE, autoMarkRead |-> TRUE, pageSize |-> 2],
   [storage |-> TRUE, autoMarkRead |-> FALSE, pageSize |-> 1]}
==============================================================================
