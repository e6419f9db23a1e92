---------------------------- MODULE OutcomeGraph ----------------------------
(***************************************************************************)
(* The outcome runtime's reducer: a run of a compiled plan is minted with  *)
(* its entry nodes dispatched, and every accepted outcome settles one      *)
(* attempt, counts loop rounds, measures progress, arms the next nodes and *)
(* decides whether the run is executing, complete or stopped               *)
(* (src/graph/outcome/graph-state.ts, join-state.ts, inputs.ts,            *)
(* progress.ts; runtime.ts mints and persists).                            *)
(*                                                                         *)
(* One step is one ledger transaction: the acceptance, the advance it      *)
(* causes and the new snapshot commit together, and an advance the reducer *)
(* refuses leaves nothing behind.                                          *)
(***************************************************************************)
EXTENDS GraphPlan

CONSTANTS
    Outcomes,      \* outcome ids
    Plans,         \* the plans a graph may have been declared with
    Tokens,        \* comparable values of a progress subject
    Unknown,       \* a missing, truncated or incomparable observation
    NoBaseline,    \* a progress record that has compared nothing yet
    MaxRuns,       \* bound: runs of one graph
    MaxAttempts    \* bound: attempts minted over all runs

ASSUME PlansAssumption == \A p \in Plans : IsPlan(p, Outcomes) /\ Compiles(p)
ASSUME TokensAssumption == Unknown \notin Tokens /\ NoBaseline \notin Tokens \cup {Unknown}
ASSUME BoundsAssumption == MaxRuns \in Nat /\ MaxAttempts \in Nat

VARIABLES
    plan,        \* the compiled plan, fixed when the graph is declared
    run,         \* the run sequence number; 0 before the graph is started
    phase,       \* "unstarted", or the phase of the run's snapshot
    node,        \* the progress entry of every node
    traversals,  \* loopTraversals: rounds counted per loop group
    progress,    \* loopProgress: baseline and unchanged streak per group
    attemptSeq,  \* the attempt counter, continued across runs
    stop,        \* why the run can go no further, or "none"
    accepted     \* the ledger's accepted results, one per settled attempt

vars == <<plan, run, phase, node, traversals, progress, attemptSeq, stop, accepted>>

NoOutcome == "none"

Statuses == {"pending", "dispatched", "settled"}
Phases == {"unstarted", "ready", "executing", "complete", "stopped"}
StopReasons == {"loop-exhausted", "progress-stalled", "unreachable-pending-node"}

(* A resolved input names the exact attempt whose accepted result it is. *)
BoundInputType == [from : Nat, outcome : Outcomes, seq : Nat]

EntryType ==
    [status : Statuses, seq : Nat, outcome : Outcomes \cup {NoOutcome},
     inputs : SUBSET BoundInputType, refused : BOOLEAN]

AcceptedType == [node : Nat, seq : Nat, outcome : Outcomes, run : Nat]

ProgressType == [baseline : Tokens \cup {NoBaseline}, unchanged : Nat]

-----------------------------------------------------------------------------
(* Progress entries of one node.                                           *)

PendingEntry ==
    [status |-> "pending", seq |-> 0, outcome |-> NoOutcome, inputs |-> {}, refused |-> FALSE]

DispatchedEntry(seq, inputs) ==
    [status |-> "dispatched", seq |-> seq, outcome |-> NoOutcome,
     inputs |-> inputs, refused |-> FALSE]

SettledEntry(entry, o) ==
    [status |-> "settled", seq |-> entry.seq, outcome |-> o,
     inputs |-> entry.inputs, refused |-> FALSE]

RefusedEntry(entry) ==
    [status |-> entry.status, seq |-> entry.seq, outcome |-> entry.outcome,
     inputs |-> entry.inputs, refused |-> TRUE]

(* Attempts are numbered in plan order within one transaction. *)
Rank(S, n) == Cardinality({m \in S : m <= n})

(* A loop that replaces a by g[a] until nothing changes, or n times at most. *)
Iterated(g, a, n) ==
    LET after[k \in 0 .. n] == IF k = 0 THEN a ELSE g[after[k - 1]]
    IN  after[n]

-----------------------------------------------------------------------------
(* Joins: the sources that have arrived at a node, read from the settled   *)
(* entries of st without those of the suppressed nodes `out'.              *)

Arrived(st, n, out) ==
    {f \in plan.nodes \ out : \E e \in plan.edges :
        /\ e.from = f
        /\ e.to = n
        /\ st[f].status = "settled"
        /\ st[f].outcome = e.outcome}

\* mutant: a re-entered candidate's old arrival still counts
ArmUnsuppressed(st, armable, blocked) ==
    {c \in armable : JoinSatisfiedBy(plan, c, Arrived(st, c, {}))}

\* mutant: the join is read before the settling attempt is recorded
ArmOnOldEntries(st, armable, blocked) ==
    {c \in armable : JoinSatisfiedBy(plan, c, Arrived(node, c, armable \ blocked))}

(* A candidate is not armed when its join needs a candidate that the same  *)
(* advance puts back in flight; candidates are dropped in rounds until     *)
(* none fails.  The nodes in `blocked' are known to keep the entry they    *)
(* have, and suppress nothing.                                             *)
Unarmed(st, armable, blocked, notArmed) ==
    LET suppressed == (armable \ notArmed) \ blocked
    IN  notArmed \cup {c \in armable \ notArmed :
            ~ JoinSatisfiedBy(plan, c, Arrived(st, c, suppressed))}

ResolveArmSet(st, armable, blocked) ==
    armable \ Iterated([X \in SUBSET armable |-> Unarmed(st, armable, blocked, X)],
                       {}, Cardinality(armable) + 1)

-----------------------------------------------------------------------------
(* Declared inputs, assembled while the nodes in `out' are in flight.      *)

Applies(st, c, i, out) ==
    i.when = "triggered" =>
        /\ c \in Targets(plan, i.from, i.outcome)
        /\ i.from \notin out
        /\ st[i.from].status = "settled"
        /\ st[i.from].outcome = i.outcome

\* mutant: whatever the producer settled on is consumed
ResolvesAnyOutcome(st, acc, i, out) == i.from \notin out /\ st[i.from].status = "settled"

Resolves(st, acc, i, out) ==
    /\ i.from \notin out
    /\ st[i.from].status = "settled"
    /\ \E a \in acc : a.seq = st[i.from].seq /\ a.outcome = i.outcome

InputsResolve(st, acc, c, out) ==
    \A i \in plan.inputs[c] : Applies(st, c, i, out) => Resolves(st, acc, i, out)

ResolvedInputs(st, c, out) ==
    {[from |-> i.from, outcome |-> i.outcome, seq |-> st[i.from].seq] :
        i \in {j \in plan.inputs[c] : Applies(st, c, j, out)}}

Resolved(st, acc, routed, out) == {c \in routed : InputsResolve(st, acc, c, out)}

\* mutant: inputs are assembled as if no candidate were re-entered
BasisIgnored(st, acc, routed) == {}

(* Which candidates are put back in flight decides which inputs resolve,   *)
(* and the other way round: the double step is iterated from "all of them" *)
(* until it repeats.                                                       *)
Swung(st, acc, routed, basis) == Resolved(st, acc, routed, Resolved(st, acc, routed, basis))

Basis(st, acc, routed) ==
    Iterated([X \in SUBSET routed |-> Swung(st, acc, routed, X)], routed, Cardinality(routed) + 1)

(* A candidate whose inputs are refused keeps its entry, so the arm set is *)
(* decided again without suppressing its arrival, until no new candidate   *)
(* is refused.                                                             *)
Refused(st, acc, armable, blocked) ==
    LET routed == ResolveArmSet(st, armable, blocked)
    IN  blocked \cup (routed \ Resolved(st, acc, routed, Basis(st, acc, routed)))

BlockedCandidates(st, acc, armable) ==
    Iterated([X \in SUBSET armable |-> Refused(st, acc, armable, X)],
             {}, Cardinality(armable) + 1)

-----------------------------------------------------------------------------
(* Loop rounds and progress.                                               *)

\* mutant: one round too many
ExhaustedLate(groups) == \E g \in groups : traversals[g] > plan.groups[g].maxTraversals

Exhausted(groups) == \E g \in groups : traversals[g] + 1 > plan.groups[g].maxTraversals

Counted(groups) ==
    [g \in GroupIds(plan) |-> IF g \in groups THEN traversals[g] + 1 ELSE traversals[g]]

ProgressEntry(baseline, unchanged) == [baseline |-> baseline, unchanged |-> unchanged]

(* An incomparable observation ends the streak and keeps the baseline. *)
CompareProgress(entry, observed) ==
    CASE observed = Unknown -> ProgressEntry(entry.baseline, 0)
      [] observed # Unknown /\ entry.baseline = observed ->
            ProgressEntry(entry.baseline, entry.unchanged + 1)
      [] OTHER -> ProgressEntry(observed, 0)

(* Only a group that declares a progress policy is measured. *)
Measurable(groups) == {g \in groups : plan.groups[g].maxUnchanged > 0}

Measured(groups, observed) ==
    [g \in GroupIds(plan) |->
        IF g \in Measurable(groups)
        THEN CompareProgress(progress[g], observed[g])
        ELSE progress[g]]

Stalled(groups, measured) ==
    \E g \in Measurable(groups) : measured[g].unchanged >= plan.groups[g].maxUnchanged

-----------------------------------------------------------------------------
(* The verdict on the whole run.                                           *)

InFlight(st) == {n \in plan.nodes : st[n].status = "dispatched"}

(* The nodes in flight, and every unsettled node one of them can lead to. *)
StillReachable(st) ==
    {n \in plan.nodes : \A S \in SUBSET plan.nodes :
        /\ InFlight(st) \subseteq S
        /\ \A e \in plan.edges : e.from \in S /\ st[e.to].status # "settled" => e.to \in S
      => n \in S}

UnsatisfiablePending(st) ==
    {n \in plan.nodes : /\ st[n].status = "pending"
                        /\ ~ Feeders(plan, n) \subseteq StillReachable(st)}

SettledEverywhere(st) == \A n \in plan.nodes : st[n].status = "settled"

Attempted(st) == \E n \in plan.nodes : st[n].status # "pending"

\* mutant: a run that cannot move is not stopped
StopOnlyAtLimits(st, limit) == limit

StopOf(st, limit) ==
    IF /\ limit = "none"
       /\ InFlight(st) = {}
       /\ Attempted(st)
       /\ ~ SettledEverywhere(st)
       /\ UnsatisfiablePending(st) # {}
    THEN "unreachable-pending-node"
    ELSE limit

PhaseOf(st, verdict) ==
    CASE verdict # "none" -> "stopped"
      [] verdict = "none" /\ InFlight(st) # {} -> "executing"
      [] verdict = "none" /\ InFlight(st) = {} /\ SettledEverywhere(st) -> "complete"
      [] OTHER -> IF Attempted(st) THEN "executing" ELSE "ready"

Conclude(limit) ==
    /\ stop' = StopOf(node', limit)
    /\ phase' = PhaseOf(node', stop')

-----------------------------------------------------------------------------
(* Minting a run: Start, and the re-execution of a finished run.           *)

\* mutant: a re-executed run numbers its attempts from one again
MintedFromOne(n, base) ==
    IF n \in EntryNodes(plan)
    THEN DispatchedEntry(Rank(EntryNodes(plan), n), {})
    ELSE PendingEntry

MintedEntry(n, base) ==
    IF n \in EntryNodes(plan)
    THEN DispatchedEntry(base + Rank(EntryNodes(plan), n), {})
    ELSE PendingEntry

(* No producer has settled when entry nodes are dispatched: an input that  *)
(* is not "triggered" blocks the dispatch, and the whole start is refused. *)
MintRun ==
    /\ \A n \in EntryNodes(plan) : \A i \in plan.inputs[n] : i.when = "triggered"
    /\ attemptSeq' = attemptSeq + Cardinality(EntryNodes(plan))
    /\ attemptSeq' <= MaxAttempts
    /\ run' = run + 1
    /\ phase' = "executing"
    /\ node' = [n \in plan.nodes |-> MintedEntry(n, attemptSeq)]
    /\ traversals' = [g \in GroupIds(plan) |-> 0]
    /\ progress' = [g \in GroupIds(plan) |-> ProgressEntry(NoBaseline, 0)]
    /\ stop' = "none"
    /\ UNCHANGED <<plan, accepted>>

Start ==
    /\ phase = "unstarted"
    /\ MintRun

(* A run-wide retry of a finished run.  The attempts a stopped run still   *)
(* has in flight are confirmed cancelled before it is allowed; the trusted *)
(* order and those confirmations belong to the control ledger.             *)
Reexecute ==
    /\ phase \in {"complete", "stopped"}
    /\ run < MaxRuns
    /\ MintRun

-----------------------------------------------------------------------------
(* Advancing on an accepted outcome o of node n.                           *)

CanSettle(n, o) ==
    /\ stop = "none"
    /\ n \in plan.nodes
    /\ node[n].status = "dispatched"
    /\ o \in plan.outcomes[n]

Settled(n, o) == [node EXCEPT ![n] = SettledEntry(@, o)]

Accept(n, o) ==
    accepted \cup {[node |-> n, seq |-> node[n].seq, outcome |-> o, run |-> run]}

(* A declared terminal routes nothing. *)
SettleTerminal(n, o) ==
    /\ CanSettle(n, o)
    /\ Terminal(plan, n, o)
    /\ node' = Settled(n, o)
    /\ accepted' = Accept(n, o)
    /\ Conclude("none")
    /\ UNCHANGED <<plan, run, traversals, progress, attemptSeq>>

(* The round would pass the group's cap: no counter moves, nothing is      *)
(* measured and nothing is routed.                                         *)
SettleExhausted(n, o) ==
    /\ CanSettle(n, o)
    /\ ~ Terminal(plan, n, o)
    /\ Exhausted(ContinuationGroups(plan, n, o))
    /\ node' = Settled(n, o)
    /\ accepted' = Accept(n, o)
    /\ Conclude("loop-exhausted")
    /\ UNCHANGED <<plan, run, traversals, progress, attemptSeq>>

(* The round is counted and measured, and the measurement ends the run. *)
SettleStalled(n, o, observed) ==
    LET groups == ContinuationGroups(plan, n, o)
    IN  /\ CanSettle(n, o)
        /\ ~ Terminal(plan, n, o)
        /\ ~ Exhausted(groups)
        /\ Stalled(groups, Measured(groups, observed))
        /\ traversals' = Counted(groups)
        /\ progress' = Measured(groups, observed)
        /\ node' = Settled(n, o)
        /\ accepted' = Accept(n, o)
        /\ Conclude("progress-stalled")
        /\ UNCHANGED <<plan, run, attemptSeq>>

(* The entries an advance writes: `armed' candidates are dispatched, the   *)
(* other routed ones record why their inputs were refused.                 *)
AdvancedEntry(st, c, armed, routed, basis) ==
    IF c \in armed
    THEN DispatchedEntry(attemptSeq + Rank(armed, c), ResolvedInputs(st, c, basis))
    ELSE IF c \in routed THEN RefusedEntry(st[c]) ELSE st[c]

(* Re-entering a settled node outside a shared loop refuses the whole      *)
(* transaction: the submission is not accepted and nothing changes.        *)
ReentryAllowed(st, n, candidates) ==
    \A c \in candidates : st[c].status = "settled" => SharesLoop(plan, n, c)

Advance(st, acc, candidates) ==
    LET armable == {c \in candidates : st[c].status # "dispatched"}
        routed == ResolveArmSet(st, armable, BlockedCandidates(st, acc, armable))
        basis == Basis(st, acc, routed)
        armed == Resolved(st, acc, routed, basis)
    IN  /\ node' = [c \in plan.nodes |-> AdvancedEntry(st, c, armed, routed, basis)]
        /\ attemptSeq' = attemptSeq + Cardinality(armed)
        /\ attemptSeq' <= MaxAttempts

SettleRouted(n, o, observed) ==
    LET groups == ContinuationGroups(plan, n, o)
    IN  /\ CanSettle(n, o)
        /\ ~ Terminal(plan, n, o)
        /\ ~ Exhausted(groups)
        /\ ~ Stalled(groups, Measured(groups, observed))
        /\ ReentryAllowed(Settled(n, o), n, Targets(plan, n, o))
        /\ traversals' = Counted(groups)
        /\ progress' = Measured(groups, observed)
        /\ accepted' = Accept(n, o)
        /\ Advance(Settled(n, o), accepted', Targets(plan, n, o))
        /\ Conclude("none")
        /\ UNCHANGED <<plan, run>>

-----------------------------------------------------------------------------
Init ==
    /\ plan \in Plans
    /\ run = 0
    /\ phase = "unstarted"
    /\ node = [n \in plan.nodes |-> PendingEntry]
    /\ traversals = [g \in GroupIds(plan) |-> 0]
    /\ progress = [g \in GroupIds(plan) |-> ProgressEntry(NoBaseline, 0)]
    /\ attemptSeq = 0
    /\ stop = "none"
    /\ accepted = {}

Settle(n) ==
    \E o \in Outcomes :
        \/ SettleTerminal(n, o)
        \/ SettleExhausted(n, o)
        \/ \E observed \in [Measurable(ContinuationGroups(plan, n, o)) -> Tokens \cup {Unknown}] :
              \/ SettleStalled(n, o, observed)
              \/ SettleRouted(n, o, observed)

(* Nothing moves a finished run of the last modelled generation. *)
Finished ==
    /\ phase \in {"complete", "stopped"}
    /\ run = MaxRuns
    /\ UNCHANGED vars

Next ==
    \/ Start
    \/ Reexecute
    \/ \E n \in plan.nodes : Settle(n)
    \/ Finished

Spec == Init /\ [][Next]_vars

NodeIds == UNION {p.nodes : p \in Plans}

(* The attempt of n in flight has an outcome the reducer does not refuse. *)
Settleable(n) ==
    /\ n \in plan.nodes
    /\ \E o \in Outcomes :
        /\ CanSettle(n, o)
        /\ \/ Exhausted(ContinuationGroups(plan, n, o))
           \/ ReentryAllowed(Settled(n, o), n, Targets(plan, n, o))

(* Weak fairness of every worker: an attempt that stays in flight, with an *)
(* outcome that can be accepted, is eventually settled.  Written out       *)
(* instead of with WF because TLC evaluates ENABLED of Settle very slowly. *)
Fairness ==
    \A n \in NodeIds : []<>(~ Settleable(n)) \/ []<><<Settle(n)>>_vars

FairSpec == Spec /\ Fairness

-----------------------------------------------------------------------------
(* Every variable keeps its shape: one entry per declared node and group.  *)
TypeOK ==
    /\ IsPlan(plan, Outcomes)
    /\ run \in Nat
    /\ phase \in Phases
    /\ node \in [plan.nodes -> EntryType]
    /\ traversals \in [GroupIds(plan) -> Nat]
    /\ progress \in [GroupIds(plan) -> ProgressType]
    /\ attemptSeq \in Nat
    /\ stop \in StopReasons \cup {"none"}
    /\ accepted \in SUBSET AcceptedType

(* An attempt is settled once: no two nodes share an attempt number, no     *)
(* number is accepted twice, also not by a re-execution of the graph, an    *)
(* attempt in flight has no accepted result, and what a settled entry says  *)
(* is what the ledger accepted for it in this run.                          *)
OneResultPerAttempt ==
    /\ \A a, b \in accepted : a.seq = b.seq => a = b
    /\ \A a \in accepted : a.seq <= attemptSeq
    /\ \A n \in plan.nodes :
        /\ node[n].status # "pending" => node[n].seq \in 1 .. attemptSeq
        /\ node[n].status = "dispatched" => \A a \in accepted : a.seq # node[n].seq
        /\ node[n].status = "settled" =>
              [node |-> n, seq |-> node[n].seq, outcome |-> node[n].outcome, run |-> run]
                  \in accepted
        /\ \A m \in plan.nodes \ {n} :
              node[n].status # "pending" => node[m].seq # node[n].seq

(* A consumer only ever works from accepted results of this run: each input *)
(* an attempt is bound to is declared, is the accepted result of an earlier *)
(* attempt of that producer with exactly the declared outcome, and every    *)
(* input that is not "triggered" is bound.                                  *)
InputsAccepted ==
    \A n \in plan.nodes : node[n].status # "pending" =>
        /\ \A i \in node[n].inputs :
              /\ \E d \in plan.inputs[n] : d.from = i.from /\ d.outcome = i.outcome
              /\ [node |-> i.from, seq |-> i.seq, outcome |-> i.outcome, run |-> run] \in accepted
              /\ i.seq < node[n].seq
        /\ \A d \in plan.inputs[n] : d.when = "settled" =>
              \E i \in node[n].inputs : i.from = d.from /\ i.outcome = d.outcome

(* A phase is a claim about the whole graph: an executing run has an        *)
(* attempt in flight, a complete one has settled every node, a stopped one  *)
(* says why, and a run that holds a node nothing can reach is never         *)
(* reported as executing or complete.                                       *)
PhaseIsTrue ==
    /\ phase = "executing" => InFlight(node) # {} /\ stop = "none"
    /\ phase = "complete" <=> run > 0 /\ stop = "none" /\ SettledEverywhere(node)
    /\ phase = "stopped" <=> stop # "none"
    /\ phase # "ready"
    /\ stop = "unreachable-pending-node" => InFlight(node) = {} /\ ~ SettledEverywhere(node)

(* Loop limits: no group runs more rounds than its cap, an exhausted stop   *)
(* names a spent cap, a streak of unchanged rounds is shorter than the      *)
(* rounds that were run, and a streak as long as the policy allows has      *)
(* stopped the run.                                                         *)
LimitsHold ==
    /\ \A g \in GroupIds(plan) :
        /\ traversals[g] <= plan.groups[g].maxTraversals
        /\ progress[g].unchanged = 0 \/ progress[g].unchanged < traversals[g]
        /\ progress[g].unchanged > 0 =>
              \/ progress[g].unchanged < plan.groups[g].maxUnchanged
              \/ stop = "progress-stalled"
    /\ stop = "loop-exhausted" =>
          \E g \in GroupIds(plan) : traversals[g] = plan.groups[g].maxTraversals

(* The node n is dispatched on a new attempt by this step. *)
NewAttempt(n) == node'[n].status = "dispatched" /\ node'[n].seq # node[n].seq

(* An attempt is never bound to a result that the same advance supersedes:  *)
(* when it is dispatched its producers are still settled on the attempts it *)
(* was given.                                                               *)
InputsNotSuperseded ==
    [][\A n \in plan.nodes : NewAttempt(n) =>
        \A i \in node'[n].inputs :
            node'[i.from].status = "settled" /\ node'[i.from].seq = i.seq]_vars

(* A join is decided per round: when a node is dispatched, enough of its    *)
(* feeders are settled on an outcome that routes to it, not counting those  *)
(* the same advance put back in flight.  (A candidate blocked in one pass   *)
(* and dispatched in a later one can break this on plans of five nodes.)    *)
JoinsNotSuperseded ==
    [][\A n \in plan.nodes : NewAttempt(n) =>
        JoinSatisfiedBy(plan, n, Arrived(node', n, {}))]_vars

(* A stopped run strands only nodes it could not have dispatched: no        *)
(* pending node has its join satisfied and all its inputs accepted.         *)
StrandedCannotRun ==
    stop = "unreachable-pending-node" =>
        \A n \in plan.nodes : node[n].status = "pending" =>
            \/ ~ JoinSatisfiedBy(plan, n, Arrived(node, n, {}))
            \/ ~ InputsResolve(node, accepted, n, {})

(* A started run ends: it completes or it stops and says why. *)
RunsEnd == phase = "executing" ~> phase \in {"complete", "stopped"}
=============================================================================
