--------------------------- MODULE MCChannelView ---------------------------
(* Instances of ChannelView for TLC.                                         *)
EXTENDS ChannelView, TLC

\* How many notifications, and how many fetches that fail or partners that go, on a
\* page; not both.
CONSTANT MaxNotices, MaxFailures

\* Each message is of a channel of its own, or both are of one.
OneEach == [m \in Messages |-> IF m = "m1" THEN "a" ELSE "b"]
Together == [m \in Messages |-> "a"]

\* The second message is the first one created.
Reversed == [m \in Messages |-> IF m = "m1" THEN 2 ELSE 1]

\* The copies of a message and the handlers are interchangeable (safety only).
Symmetry == Permutations(Copies) \cup Permutations(Runs)

FewEvents ==
    LET failures == Cardinality(failed) + Cardinality(alone) IN
    \/ told = {} /\ failures <= MaxFailures
    \/ failures = 0 /\ Cardinality(told) <= MaxNotices
=============================================================================
