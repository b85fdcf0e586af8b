--------------------------- MODULE MCRequestQueue ---------------------------
EXTENDS RequestQueue

CONSTANTS r1, r2, r3, ka, kb

MCRequests == {r1, r2, r3}
MCKeys == {ka, kb}

\* r1 is a reaction of the HTTP interface: urgent, and its caller may give up.
\* r2 and r3 are calls of the same method by the watch thread and a plugin.
MCKeyOf == [r \in MCRequests |-> IF r = r1 THEN ka ELSE kb]
MCPriorityOf == [r \in MCRequests |-> IF r = r1 THEN 1 ELSE 10]

\* Only r1 and r2.
MCPairKey == [r \in {r1, r2} |-> MCKeyOf[r]]
MCPairPriority == [r \in {r1, r2} |-> MCPriorityOf[r]]

\* Only r2 and r3.
MCTwo == {r2, r3}
MCSameKey == [r \in MCTwo |-> kb]
MCSamePriority == [r \in MCTwo |-> 10]

=============================================================================
