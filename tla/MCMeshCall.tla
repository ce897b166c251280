----------------------------- MODULE MCMeshCall -----------------------------
(* Instances of MeshCall for TLC.  Clients are interchangeable: they are     *)
(* numbers, and which of them offer to which is chosen.                      *)
EXTENDS MeshCall, Naturals, FiniteSets

CONSTANT MaxLosses      \* how many clients leave or refuse their camera

Lost == {c \in Clients : joined[c] = "gone" \/ camera[c] = "denied"}

Offers == {e \in Pairs : e[2] \in list[e[1]]}

\* Two offers: that cross, to one client, of one client, or one after the other.
TwoOffers ==
    {{<<1, 2>>, <<2, 1>>}, {<<1, 3>>, <<2, 3>>}, {<<3, 1>>, <<3, 2>>}, {<<1, 2>>, <<2, 3>>}}

Bounds ==
    /\ Cardinality(Lost) <= MaxLosses
    /\ \E pattern \in TwoOffers : Offers \subseteq pattern
=============================================================================
