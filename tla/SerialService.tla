---------------------------- MODULE SerialService ----------------------------
(***************************************************************************)
(* What the request queue promises to its callers, without queue, clock or *)
(* threads: requests are served one at a time, a request is taken on only  *)
(* while nobody has answered it, from then on nobody but its own caller    *)
(* can answer it over the server's head, and an answer, once given, is     *)
(* final.  A caller that gives up between the two steps of taking on and   *)
(* serving has its request served all the same, for nothing.               *)
(***************************************************************************)
CONSTANTS Requests, NoRequest

VARIABLES
  asked,    \* requests that have been handed in
  claimed,  \* the request that has been taken on, or NoRequest
  serving,  \* the request being served, or NoRequest
  answer    \* "none", or the final answer of each request

svars == <<asked, claimed, serving, answer>>

Init ==
  /\ asked = {}
  /\ claimed = NoRequest
  /\ serving = NoRequest
  /\ answer = [r \in Requests |-> "none"]

Ask(r) ==
  /\ r \notin asked
  /\ asked' = asked \cup {r}
  /\ UNCHANGED <<claimed, serving, answer>>

\* A request is taken on only while it is still waited for.
Claim(r) ==
  /\ claimed = NoRequest
  /\ r \in asked
  /\ answer[r] = "none"
  /\ claimed' = r
  /\ UNCHANGED <<asked, serving, answer>>

\* What was taken on is served, also when its caller has given up meanwhile.
Serve(r) ==
  /\ claimed = r
  /\ serving = NoRequest
  /\ serving' = r
  /\ UNCHANGED <<asked, claimed, answer>>

\* Serving ends with an answer, or without one: a rate-limited request is
\* served again later, and the answer of an abandoned one is thrown away.
Release(r) ==
  /\ serving = r
  /\ serving' = NoRequest
  /\ claimed' = NoRequest
  /\ UNCHANGED asked
  /\ \/ UNCHANGED answer
     \/ /\ answer[r] = "none"
        /\ \E a \in {"result", "error", "refused"} :
              answer' = [answer EXCEPT ![r] = a]

\* Requests that have not been taken on can be refused, and callers can abandon
\* theirs at any time; one step may do so for several requests.
Dismiss ==
  /\ \E f \in [Requests -> {"none", "refused", "cancelled"}] :
       /\ \A r \in Requests : f[r] # "none" =>
            /\ r \in asked
            /\ answer[r] = "none"
            /\ (f[r] = "refused" => claimed # r)
       /\ answer' = [r \in Requests |->
                       IF f[r] = "none" THEN answer[r] ELSE f[r]]
  /\ UNCHANGED <<asked, claimed, serving>>

Next ==
  \/ \E r \in Requests : Ask(r) \/ Claim(r) \/ Serve(r) \/ Release(r)
  \/ Dismiss

Spec == Init /\ [][Next]_svars

=============================================================================
