------------------------- MODULE MCRequestPipeline --------------------------
EXTENDS RequestPipeline

\* Two requests on one connection, a third on another.
Requests == {"r1", "r2", "r3"}
Connections == {"c1", "c2"}
Connected == [r \in Requests |-> IF r = "r3" THEN "c2" ELSE "c1"]
Limits == [api |-> 2, auth |-> 1]
=============================================================================
