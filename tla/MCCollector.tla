----------------------------- MODULE MCCollector -----------------------------
EXTENDS Collector

\* The shipped material in small: a policy, data.json, a second data.json in a
\* directory below that sets one of the first one's keys, and a .manifest to
\* ignore.
Clash == [f \in DataFiles |-> IF f = "data.json" THEN {"rules", "images"} ELSE {"images"}]
=============================================================================
