------------------------------ MODULE MCCommands ------------------------------
(* Two processes of an account, one of them with a cookie from its           *)
(* environment.                                                              *)
EXTENDS Commands

\* Behaviors with many transfers, and behaviors with many saves.
MCBudgets ==
  {[commands |-> {"watch", "serve", "export", "import"}, starts |-> 4, versions |-> 2,
     saves |-> 0, cookies |-> 0, mishaps |-> 1],
   [commands |-> {"serve", "act"}, starts |-> 3, versions |-> 0,
     saves |-> 3, cookies |-> 1, mishaps |-> 1]}
==============================================================================
