------------------------------- MODULE MC_S2S -------------------------------
EXTENDS S2S
\* Name "b" is another server, "o" a name of our own address, and "bb" a name
\* too long for s2s, which cuts it to "b".
MC_Address == [n \in Names |-> IF n = "o" THEN "ip_own" ELSE "ip_b"]
MC_Cut == [n \in Names |-> IF n = "bb" THEN "b" ELSE n]
=============================================================================
