--------------------------- MODULE MCDynamicCircuits ---------------------------
(* Instances of DynamicCircuits for TLC: c1 and c2 are created over the bus, u1
   stands for an unknown address; a tree with one site or with both. *)
EXTENDS DynamicCircuits, TLC
CONSTANTS c1, c2, u1, s1, s2

AllUnderOneSite == [c \in Circuits |-> s1]
LastUnderOther == [c \in Circuits |-> IF c = c1 THEN s1 ELSE s2]

WholeTree == [sites |-> {s1, s2}, circuits |-> {}]
SmallTree == [sites |-> {s1}, circuits |-> {}]
TreeWithStatic == [sites |-> {s1, s2}, circuits |-> {c1}]

OnlyWholeTree == {WholeTree}
OnlySmallTree == {SmallTree}
AllTrees == {SmallTree, TreeWithStatic}
FullTrees == {WholeTree, TreeWithStatic}
NoCatalogs == {}
CatalogWithC1 == {{}, {c1}}
==============================================================================
