-------------------------- MODULE MCLiveMigration --------------------------
(* Small instances of LiveMigration for TLC. *)
EXTENDS LiveMigration

At1(parent, minor, rate) == {[parent |-> parent, minor |-> minor, rate |-> rate]}

\* c1 moves to another site and handle, to another site at the same handle, and changes speed;
\* c2 stays, or moves to another site.
Home == [tree |-> 1, circuit |-> [c \in {"c1", "c2"} |->
            IF c = "c1" THEN At1("p1", 1, 5) ELSE At1("p1", 2, 5)]]
Moved == [Home EXCEPT !.circuit["c1"] = At1("p2", 3, 5)]
Swung == [Home EXCEPT !.circuit["c1"] = At1("p2", 1, 5)]
Faster == [Home EXCEPT !.circuit["c1"] = At1("p1", 1, 9)]
Both == [Moved EXCEPT !.circuit["c2"] = At1("p2", 2, 5)]
Without == [Home EXCEPT !.circuit["c1"] = {}]
Rebuilt == [Home EXCEPT !.tree = 2]

\* One circuit alone
Alone(p) == [tree |-> p.tree, circuit |-> [c \in {"c1"} |-> p.circuit[c]]]
LoneHome == Alone(Home)
LonePlans == {LoneHome, Alone(Moved), Alone(Swung), Alone(Without), Alone(Rebuilt)}

LoneReloadPlans == {LoneHome, Alone(Moved), Alone(Rebuilt)}
LoneSpeedPlans == {LoneHome, Alone(Faster)}

MovePlans == {Home, Moved, Swung, Both, Faster}
=============================================================================
