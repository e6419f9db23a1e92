------------------------------ MODULE GraphPlan ------------------------------
(***************************************************************************)
(* The compiled plan the outcome graph runs on: its topology, the readers  *)
(* that decide what a node waits for, and the rules a declaration must     *)
(* meet to be compiled (src/graph/compiler, src/graph/outcome/join-state). *)
(*                                                                         *)
(* A plan p is a record                                                    *)
(*   nodes     a finite set of naturals; the order of the numbers is the   *)
(*             order of the plan's sorted node list                        *)
(*   outcomes  the outcome ids each node declares                          *)
(*   edges     a set of [from, outcome, to]                                *)
(*   groups    the loop groups, in plan order                              *)
(*   join      the resolved join of each node: [kind, quorum]              *)
(*   inputs    the declared inputs of each node: [from, outcome, when]     *)
(* A group's maxUnchanged is 0 when it declares no progress policy.        *)
(* Agents, prompts, contracts, acceptance gates and budgets do not route,  *)
(* and are left out.                                                       *)
(***************************************************************************)
EXTENDS Naturals, FiniteSets, Sequences

JoinKinds == {"all", "any", "quorum"}

EdgeType(p, O) == [from : p.nodes, outcome : O, to : p.nodes]

GroupType(p, O) ==
    [nodes : SUBSET p.nodes, continuation : O, exit : O,
     maxTraversals : Nat, maxUnchanged : Nat]

InputType(p, O) == [from : p.nodes, outcome : O, when : {"settled", "triggered"}]

(* The shape of a plan whose outcome ids are drawn from O.  Edge endpoints, *)
(* loop members and input producers already name declared nodes here, the   *)
(* references readEdges, compileLoopGroup and readInputs resolve.           *)
IsPlan(p, O) ==
    /\ p.nodes \in SUBSET Nat
    /\ IsFiniteSet(p.nodes)
    /\ p.outcomes \in [p.nodes -> SUBSET O]
    /\ p.edges \in SUBSET EdgeType(p, O)
    /\ p.groups \in Seq(GroupType(p, O))
    /\ p.join \in [p.nodes -> [kind : JoinKinds, quorum : Nat]]
    /\ p.inputs \in [p.nodes -> SUBSET InputType(p, O)]

-----------------------------------------------------------------------------
(* What a node waits for: readers shared by the compiler and the reducer.  *)

GroupIds(p) == DOMAIN p.groups

(* An edge is a group's own back-edge when it carries the continuation     *)
(* outcome between two members.                                            *)
LoopEdges(p) ==
    {e \in p.edges : \E g \in GroupIds(p) :
        /\ e.outcome = p.groups[g].continuation
        /\ {e.from, e.to} \subseteq p.groups[g].nodes}

EntryNodes(p) == {n \in p.nodes : \A e \in p.edges \ LoopEdges(p) : e.to # n}

Feeders(p, n) == {e.from : e \in {d \in p.edges \ LoopEdges(p) : d.to = n}}

(* The number of feeders a resolved join needs; a quorum below one is      *)
(* clamped to one.                                                         *)
Needed(join, feeders) ==
    CASE join.kind = "any" -> 1
      [] join.kind = "quorum" -> IF join.quorum >= 1 THEN join.quorum ELSE 1
      [] OTHER -> Cardinality(feeders)

JoinSatisfiedBy(p, n, arrived) ==
    LET feeders == Feeders(p, n)
    IN  feeders # {} => Cardinality(arrived \cap feeders) >= Needed(p.join[n], feeders)

Terminal(p, n, o) == ~ \E e \in p.edges : e.from = n /\ e.outcome = o

Targets(p, n, o) == {e.to : e \in {d \in p.edges : d.from = n /\ d.outcome = o}}

SharesLoop(p, n, m) == \E g \in GroupIds(p) : {n, m} \subseteq p.groups[g].nodes

ContinuationGroups(p, n, o) ==
    {g \in GroupIds(p) : p.groups[g].continuation = o /\ n \in p.groups[g].nodes}

-----------------------------------------------------------------------------
(* The compile rules.                                                      *)

(* The nodes an edge path leads to from n, n itself only through a cycle.  *)
Downstream(p, n) ==
    {m \in p.nodes : \A S \in SUBSET p.nodes :
        (\A e \in p.edges : e.from \in S \cup {n} => e.to \in S) => m \in S}

(* The nodes the graph can dispatch before n: the entry nodes, and every   *)
(* other node a runnable predecessor reaches with its join satisfied by    *)
(* runnable nodes.                                                         *)
DispatchableBefore(p, n) ==
    LET Closed(S) ==
          /\ EntryNodes(p) \ {n} \subseteq S
          /\ \A m \in p.nodes \ {n} :
                /\ \E e \in p.edges : e.to = m /\ e.from \in S \ {n}
                /\ JoinSatisfiedBy(p, m, S)
                => m \in S
    IN  {m \in p.nodes \ {n} : \A S \in SUBSET p.nodes : Closed(S) => m \in S}

(* A join is reported when the nodes that can run first do not satisfy it, *)
(* one issue for each of its feeders that cannot run first.                *)
UnsatisfiableJoins(p) ==
    {n \in p.nodes \ EntryNodes(p) :
        LET runnable == DispatchableBefore(p, n)
        IN  /\ ~ JoinSatisfiedBy(p, n, runnable)
            /\ ~ Feeders(p, n) \subseteq runnable}

EdgesBindOutcomes(p) == \A e \in p.edges : e.outcome \in p.outcomes[e.from]

GroupCompiles(p, g) ==
    LET members == p.groups[g].nodes
        Declared(o) == \E m \in members : o \in p.outcomes[m]
        Carrying == {e \in p.edges : /\ e.outcome = p.groups[g].continuation
                                     /\ e.from \in members}
    IN  /\ p.groups[g].maxTraversals > 0
        /\ Declared(p.groups[g].continuation)
        /\ Declared(p.groups[g].exit)
        /\ Carrying # {}
        /\ \A e \in Carrying : e.to \in members

CyclesContained(p) ==
    \A n \in p.nodes : n \in Downstream(p, n) =>
        \E g \in GroupIds(p) : n \in p.groups[g].nodes

InputsCompile(p) ==
    \A n \in p.nodes : \A i \in p.inputs[n] :
        /\ i.from # n
        /\ i.outcome \in p.outcomes[i.from]
        /\ n \in Downstream(p, i.from)
        /\ i.when = "triggered" => n \in Targets(p, i.from, i.outcome)
        /\ \A j \in p.inputs[n] : j.from = i.from /\ j.outcome = i.outcome => j = i

CanTerminate(p) == \E n \in p.nodes : \E o \in p.outcomes[n] : Terminal(p, n, o)

(* What compileGraph accepts. *)
Compiles(p) ==
    /\ \A n \in p.nodes : p.outcomes[n] # {}
    /\ EdgesBindOutcomes(p)
    /\ \A g \in GroupIds(p) : GroupCompiles(p, g)
    /\ CyclesContained(p)
    /\ InputsCompile(p)
    /\ CanTerminate(p)
    /\ UnsatisfiableJoins(p) = {}
=============================================================================
