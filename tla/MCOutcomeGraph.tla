--------------------------- MODULE MCOutcomeGraph ---------------------------
(* Plans for TLC: hand-picked shapes the tests of the repository declare or *)
(* describe, and every plan of a small size that compiles.                  *)
EXTENDS OutcomeGraph, FiniteSetsExt

Edge(f, o, t) == [from |-> f, outcome |-> o, to |-> t]
Edges(f, o, T) == {Edge(f, o, t) : t \in T}
Takes(f, o) == [from |-> f, outcome |-> o, when |-> "settled"]
TakesTriggered(f, o) == [from |-> f, outcome |-> o, when |-> "triggered"]
All == [kind |-> "all", quorum |-> 0]
Any == [kind |-> "any", quorum |-> 0]
Quorum(q) == [kind |-> "quorum", quorum |-> q]
Group(members, again, out, cap, unchanged) ==
    [nodes |-> members, continuation |-> again, exit |-> out,
     maxTraversals |-> cap, maxUnchanged |-> unchanged]

(* A branch that may fail, and a join that consumes both branches. *)
Diamond ==
    [nodes |-> 1 .. 4,
     outcomes |-> <<{"ok"}, {"ok", "no"}, {"ok"}, {"ok"}>>,
     edges |-> Edges(1, "ok", {2, 3}) \cup {Edge(2, "ok", 4), Edge(3, "ok", 4)},
     groups |-> <<>>,
     join |-> <<All, All, All, All>>,
     inputs |-> <<{}, {}, {}, {Takes(2, "ok"), Takes(3, "ok")}>>]

(* Work and review, with feedback bound to the repair round. *)
Review ==
    [nodes |-> 1 .. 2,
     outcomes |-> <<{"ok"}, {"ok", "again"}>>,
     edges |-> {Edge(1, "ok", 2), Edge(2, "again", 1)},
     groups |-> <<Group({1, 2}, "again", "ok", 3, 2)>>,
     join |-> <<All, All>>,
     inputs |-> <<{TakesTriggered(2, "again")}, {Takes(1, "ok")}>>]

(* A loop whose round fans out and converges again. *)
LoopJoin ==
    [nodes |-> 1 .. 4,
     outcomes |-> <<{"ok"}, {"ok", "no"}, {"ok"}, {"ok", "again"}>>,
     edges |-> Edges(1, "ok", {2, 3}) \cup {Edge(2, "ok", 4), Edge(3, "ok", 4)}
               \cup {Edge(4, "again", 1), Edge(2, "no", 4)},
     groups |-> <<Group(1 .. 4, "again", "ok", 1, 0)>>,
     join |-> <<All, All, All, All>>,
     inputs |-> <<{}, {}, {}, {Takes(2, "ok"), TakesTriggered(3, "ok")}>>]

(* A continuation that re-enters the convergence node with its feeders. *)
WideRound ==
    [nodes |-> 1 .. 4,
     outcomes |-> <<{"ok"}, {"ok"}, {"ok"}, {"ok", "again"}>>,
     edges |-> Edges(1, "ok", {2, 3, 4}) \cup {Edge(2, "ok", 3), Edge(3, "ok", 4)}
               \cup Edges(4, "again", {2, 3, 4}),
     groups |-> <<Group(2 .. 4, "again", "ok", 2, 0)>>,
     join |-> <<All, All, Any, All>>,
     inputs |-> <<{}, {}, {Takes(2, "ok")}, {TakesTriggered(3, "ok")}>>]

(* A continuation that re-enters a join together with one of its feeders. *)
SplitRound ==
    [nodes |-> 1 .. 4,
     outcomes |-> <<{"ok"}, {"ok"}, {"ok"}, {"ok", "again"}>>,
     edges |-> Edges(1, "ok", {2, 3}) \cup {Edge(2, "ok", 4), Edge(3, "ok", 4)}
               \cup Edges(4, "again", {2, 4}),
     groups |-> <<Group(2 .. 4, "again", "ok", 1, 0)>>,
     join |-> <<All, All, All, All>>,
     inputs |-> <<{}, {}, {}, {}>>]

(* A quorum of two among three members of a loop. *)
QuorumLoop ==
    [nodes |-> 1 .. 5,
     outcomes |-> <<{"ok"}, {"ok"}, {"ok"}, {"ok", "no"}, {"ok", "again"}>>,
     edges |-> Edges(1, "ok", {2, 3, 4}) \cup {Edge(n, "ok", 5) : n \in 2 .. 4}
               \cup Edges(5, "again", {2, 3}),
     groups |-> <<Group(2 .. 5, "again", "ok", 1, 0)>>,
     join |-> <<All, All, All, All, Quorum(2)>>,
     inputs |-> <<{}, {}, {}, {}, {TakesTriggered(4, "ok")}>>]

(* An inner and an outer loop that share a member and an outcome. *)
Nested ==
    [nodes |-> 1 .. 3,
     outcomes |-> <<{"ok"}, {"ok", "again"}, {"ok", "again"}>>,
     edges |-> {Edge(1, "ok", 2), Edge(2, "ok", 3), Edge(2, "again", 1), Edge(3, "again", 1)},
     groups |-> <<Group(1 .. 2, "again", "ok", 2, 1), Group(1 .. 3, "again", "ok", 3, 2)>>,
     join |-> <<All, All, All>>,
     inputs |-> <<{}, {Takes(1, "ok")}, {}>>]

NamedPlans == {Diamond, Review, LoopJoin, WideRound, SplitRound, QuorumLoop, Nested}

(* Every compiling plan of three nodes and up to SmallSize edges in which   *)
(* node 1 is an entry node, with or without one loop group, all joins alike *)
(* and each in-edge also a triggered input.                                 *)
SmallSize == 4

SmallPlan(E, G, j) ==
    [nodes |-> 1 .. 3,
     outcomes |-> [n \in 1 .. 3 |-> {"ok", "again"}],
     edges |-> E,
     groups |-> G,
     join |-> [n \in 1 .. 3 |-> j],
     inputs |-> [n \in 1 .. 3 |->
        {TakesTriggered(e.from, e.outcome) : e \in {d \in E : d.to = n /\ d.from # n}}]]

SmallEdges ==
    {Edge(f, o, t) : f \in 1 .. 3, o \in {"ok", "again"}, t \in 2 .. 3}
        \cup {Edge(f, "again", 1) : f \in 1 .. 3}

SmallGroups ==
    {<<>>} \cup {<<Group(M, "again", "ok", 1, 0)>> : M \in {S \in SUBSET (1 .. 3) : Cardinality(S) >= 2}}

SmallPlans ==
    {p \in {SmallPlan(E, G, j) : E \in UNION {kSubset(k, SmallEdges) : k \in 2 .. SmallSize},
                                 G \in SmallGroups, j \in {All, Any}} :
        1 \in EntryNodes(p) /\ Compiles(p)}
=============================================================================
