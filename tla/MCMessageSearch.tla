-------------------------- MODULE MCMessageSearch --------------------------
(* Instances of MessageSearch for TLC.                                       *)
EXTENDS MessageSearch, FiniteSets

CONSTANT MaxTags    \* conditions in the bar at a time

\* Messages that differ in everything; the day picked is the time of the second.
Channel == [m \in Messages |-> IF m = "m1" THEN "a" ELSE "b"]
Sender == [m \in Messages |-> IF m = "m1" THEN "ann" ELSE "bob"]
Time == [m \in Messages |-> CASE m = "m1" -> 1 [] m = "m2" -> 2 [] m = "m3" -> 3]
Content == [m \in Messages |-> IF m = "m2" THEN {} ELSE {"word"}]

FewTags == Cardinality(tags) <= MaxTags
=============================================================================
