---------------------------- MODULE ExecutionClaims ----------------------------
(***************************************************************************)
(* The create-once fence between a committed dispatch effect and the       *)
(* platform: the `executions` table of the graph store, the host's         *)
(* execution index in front of it, and the create and lookup operations    *)
(* of the dispatch host.                                                   *)
(*                                                                         *)
(* Several host processes share one store file.  Each store call is one    *)
(* transaction; a process is single threaded, so it runs one create or     *)
(* lookup at a time, but the transactions of different processes           *)
(* interleave, and a process may die between any two of them.  Delivery    *)
(* to the platform is asynchronous: the request a process handed over      *)
(* outlives the process.                                                   *)
(***************************************************************************)
EXTENDS Naturals

CONSTANTS
  Effects,        \* stable dispatch effect ids
  Owners,         \* process incarnations (ownerId is a fresh UUID each start)
  Nobody,         \* no owner, no effect
  MaxGeneration,  \* bound on owner_generation
  ProofMode       \* what an "absent" of the platform's query means

ASSUME NobodyAssumption == Nobody \notin Effects \cup Owners
ASSUME MaxGenerationAssumption == MaxGeneration \in Nat
\* "never":   the port answers created or unknown only (every shipped adapter)
\* "settled": absent means no execution exists and no create is under way
\* "instant": absent means no execution exists at the instant of the query
ASSUME ProofModeAssumption == ProofMode \in {"never", "settled", "instant"}

VARIABLES
  row,      \* effect -> its row of the executions table
  claims,   \* owner -> effect -> generation cached by HostExecutionIndex, 0: none
  job,      \* owner -> the create or lookup it is in the middle of
  alive,    \* owner -> the process still runs
  unbound,  \* owner -> effects whose platform report it failed to bind
  wire,     \* effect -> handed-over requests the platform has not resolved
  execs,    \* effect -> executions that exist on the platform
  replies   \* answers of the platform that no process has handled yet

vars == <<row, claims, job, alive, unbound, wire, execs, replies>>

\* A delivery is identified by the claim it was made under; the platform's
\* execution id is as unique as the delivery it came from.
Token == [owner : Owners, gen : 0..MaxGeneration]
Ref == [owner : Owners \cup {Nobody}, gen : 0..MaxGeneration]
NoToken == [owner |-> Nobody, gen |-> 0]

RowStates == {"none", "pending", "creating", "created"}
Refusals == {"none", "unproven-failure", "stale-confirmation", "conflicting-execution"}

NoRow == [state |-> "none", owner |-> Nobody, gen |-> 0, released |-> FALSE,
          lease |-> FALSE, execution |-> NoToken, refusal |-> "none"]

Steps == {"idle", "claimed", "held", "proved", "reclaim", "marked", "threw",
          "looked", "bind"}

RowType == [state : RowStates, owner : Owners \cup {Nobody},
            gen : 0..MaxGeneration, released : BOOLEAN, lease : BOOLEAN,
            execution : Ref, refusal : Refusals]
JobType == [step : Steps, effect : Effects \cup {Nobody}, ref : Ref]

Idle == [step |-> "idle", effect |-> Nobody, ref |-> NoToken]
Job(s, e, r) == [step |-> s, effect |-> e, ref |-> r]

Init ==
  /\ row = [e \in Effects |-> NoRow]
  /\ claims = [o \in Owners |-> [e \in Effects |-> 0]]
  /\ job = [o \in Owners |-> Idle]
  /\ alive = [o \in Owners |-> TRUE]
  /\ unbound = [o \in Owners |-> {}]
  /\ wire = [e \in Effects |-> {}]
  /\ execs = [e \in Effects |-> {}]
  /\ replies = {}

At(o, s, e) == alive[o] /\ job[o].step = s /\ job[o].effect = e
IdleAt(o) == alive[o] /\ job[o].step = "idle"
Finish(o) == job' = [job EXCEPT ![o] = Idle]

RefOf(e) == [owner |-> row[e].owner, gen |-> row[e].gen]
IsClaimOf(e, o, g) == row[e].owner = o /\ row[e].gen = g

-------------------------------------------------------------------------------
(* The store's claim transaction *)

\* A pending row another process may take over: its owner gave the right back
\* with a proof, or let the lease lapse without handing anything over.
Takeable(e) == row[e].released \/ ~row[e].lease

\* The generation a claim by o ends with, or 0 when the row is held.
ClaimedGeneration(o, e) ==
  CASE row[e].state = "none" -> 1
    [] row[e].state = "pending" /\ row[e].owner = o -> row[e].gen
    [] row[e].state = "pending" /\ row[e].owner # o /\ Takeable(e) -> row[e].gen + 1
    [] OTHER -> 0

\* Mutation: a takeover that keeps the generation of the claim it displaces.
RowAfterClaimKeepingGeneration(o, e) ==
  CASE row[e].state = "none" ->
         [NoRow EXCEPT !.state = "pending", !.owner = o, !.gen = 1, !.lease = TRUE]
    [] row[e].state = "pending" /\ row[e].owner # o /\ Takeable(e) ->
         [row[e] EXCEPT !.owner = o, !.released = FALSE, !.lease = TRUE]
    [] OTHER -> row[e]

\* The same owner gets its pending row back untouched: neither the generation
\* nor the release mark changes.
RowAfterClaim(o, e) ==
  CASE row[e].state = "none" ->
         [NoRow EXCEPT !.state = "pending", !.owner = o, !.gen = 1, !.lease = TRUE]
    [] row[e].state = "pending" /\ row[e].owner # o /\ Takeable(e) ->
         [row[e] EXCEPT !.owner = o, !.gen = @ + 1, !.released = FALSE, !.lease = TRUE]
    [] OTHER -> row[e]

ClaimExecution(o, e, onHeld) ==
  LET g == ClaimedGeneration(o, e) IN
  /\ g <= MaxGeneration
  /\ row' = [row EXCEPT ![e] = RowAfterClaim(o, e)]
  /\ IF g = 0
       THEN /\ job' = [job EXCEPT ![o] = onHeld]
            /\ UNCHANGED claims
       ELSE /\ claims' = [claims EXCEPT ![o][e] = g]
            /\ job' = [job EXCEPT ![o] = Job("claimed", e, NoToken)]
  /\ UNCHANGED <<alive, unbound, wire, execs, replies>>

-------------------------------------------------------------------------------
(* HostOutcomeDispatch.create, one action per transaction *)

\* Only a creating row is worth asking the platform about; any other held row
\* makes create throw.
Claim(o, e) ==
  /\ IdleAt(o)
  /\ ClaimExecution(o, e, IF row[e].state = "creating"
                            THEN Job("held", e, RefOf(e)) ELSE Idle)

\* Requests some process has marked but not yet handed over.
BeingHandedOver(e) ==
  \E o \in Owners : job[o].step = "marked" /\ job[o].effect = e

AbsentAllowed(e) ==
  \/ /\ ProofMode = "settled"
     /\ execs[e] = {} /\ wire[e] = {} /\ ~BeingHandedOver(e)
  \/ /\ ProofMode = "instant"
     /\ execs[e] = {}

\* adoptStrandedEffect asks the platform: absent is taken as the proof, every
\* other answer refuses the create.
ProofOfAbsence(o, e) ==
  /\ At(o, "held", e)
  /\ \/ AbsentAllowed(e) /\ job' = [job EXCEPT ![o] = Job("proved", e, @.ref)]
     \/ Finish(o)
  /\ UNCHANGED <<row, claims, alive, unbound, wire, execs, replies>>

Released(r) == [r EXCEPT !.state = "pending", !.released = TRUE, !.gen = @ + 1,
                         !.execution = NoToken]

\* The conditional release: the row must still be the named claim and not created.
Releasable(e, o, g) ==
  IsClaimOf(e, o, g) /\ row[e].state \in {"pending", "creating"}

ReleaseStale(o, e) ==
  /\ At(o, "proved", e)
  /\ IF Releasable(e, job[o].ref.owner, job[o].ref.gen)
       THEN /\ row[e].gen < MaxGeneration
            /\ row' = [row EXCEPT ![e] = Released(@)]
            /\ claims' = [claims EXCEPT ![o][e] = 0]
            /\ job' = [job EXCEPT ![o] = Job("reclaim", e, NoToken)]
       ELSE Finish(o) /\ UNCHANGED <<row, claims>>
  /\ UNCHANGED <<alive, unbound, wire, execs, replies>>

Reclaim(o, e) ==
  /\ At(o, "reclaim", e)
  /\ ClaimExecution(o, e, Idle)

MarkedRow(r) == [r EXCEPT !.state = "creating", !.released = FALSE]

\* Mutation: creating without checking that the claim is still the row's.
MarkCreatingUnfenced(o, e) ==
  /\ At(o, "claimed", e)
  /\ row' = [row EXCEPT ![e] = MarkedRow(@)]
  /\ job' = [job EXCEPT ![o] = Job("marked", e, NoToken)]
  /\ UNCHANGED <<claims, alive, unbound, wire, execs, replies>>

\* The last point at which losing the claim is harmless: the row leaves
\* pending only for the owner and generation that still hold it.
MarkCreating(o, e) ==
  /\ At(o, "claimed", e)
  /\ IF row[e].state = "pending" /\ IsClaimOf(e, o, claims[o][e])
       THEN /\ row' = [row EXCEPT ![e] = MarkedRow(@)]
            /\ job' = [job EXCEPT ![o] = Job("marked", e, NoToken)]
            /\ UNCHANGED claims
       ELSE /\ claims' = [claims EXCEPT ![o][e] = 0]
            /\ Finish(o)
            /\ UNCHANGED row
  /\ UNCHANGED <<alive, unbound, wire, execs, replies>>

\* deliver hands the request to the platform, or refuses before doing so (an
\* input view that cannot be materialised, an adapter that throws).
Deliver(o, e) ==
  /\ At(o, "marked", e)
  /\ \/ /\ wire' = [wire EXCEPT ![e] = @ \cup {[owner |-> o, gen |-> claims[o][e]]}]
        /\ Finish(o)
     \/ /\ job' = [job EXCEPT ![o] = Job("threw", e, NoToken)]
        /\ UNCHANGED wire
  /\ UNCHANGED <<row, claims, alive, unbound, execs, replies>>

ReleaseAfterThrow(o, e) ==
  /\ At(o, "threw", e)
  /\ IF Releasable(e, o, claims[o][e])
       THEN /\ row[e].gen < MaxGeneration
            /\ row' = [row EXCEPT ![e] = Released(@)]
            /\ claims' = [claims EXCEPT ![o][e] = 0]
       ELSE UNCHANGED <<row, claims>>
  /\ Finish(o)
  /\ UNCHANGED <<alive, unbound, wire, execs, replies>>

-------------------------------------------------------------------------------
(* Confirmations *)

Confirmable(o, e) == row[e].state = "creating" /\ IsClaimOf(e, o, claims[o][e])

\* The row after process o reports that execution x exists for e.
RowAfterConfirm(o, e, x) ==
  CASE row[e].state = "none" -> row[e]
    [] Confirmable(o, e) -> [row[e] EXCEPT !.state = "created", !.execution = x]
    [] row[e].state = "created" /\ IsClaimOf(e, o, claims[o][e]) ->
         IF row[e].execution = x THEN row[e]
         ELSE [row[e] EXCEPT !.refusal = "conflicting-execution"]
    [] OTHER -> [row[e] EXCEPT !.refusal = "stale-confirmation"]

Recorded(o, e, x) ==
  /\ IsClaimOf(e, o, claims[o][e])
  /\ \/ row[e].state = "creating"
     \/ row[e].state = "created" /\ row[e].execution = x

\* The adapter's callback, run when the process is between operations.
ConfirmStarted(o, e, x) ==
  /\ IdleAt(o)
  /\ [to |-> o, effect |-> e, execution |-> x, ok |-> TRUE] \in replies
  /\ row' = [row EXCEPT ![e] = RowAfterConfirm(o, e, x)]
  /\ replies' = replies \ {[to |-> o, effect |-> e, execution |-> x, ok |-> TRUE]}
  /\ UNCHANGED <<claims, job, alive, unbound, wire, execs>>

\* Mutation: a reported failure treated as proof that nothing was created.
ReportDeliveryFailureReleasing(o, e, x) ==
  /\ IdleAt(o)
  /\ [to |-> o, effect |-> e, execution |-> x, ok |-> FALSE] \in replies
  /\ row[e].gen < MaxGeneration
  /\ row' = [row EXCEPT ![e] = Released(@)]
  /\ replies' = replies \ {[to |-> o, effect |-> e, execution |-> x, ok |-> FALSE]}
  /\ UNCHANGED <<claims, job, alive, unbound, wire, execs>>

UnprovenRow(r) ==
  IF r.state = "none" THEN r ELSE [r EXCEPT !.refusal = "unproven-failure"]

\* A failed delivery proves nothing about the platform, so the right stays spent.
ReportDeliveryFailure(o, e, x) ==
  /\ IdleAt(o)
  /\ [to |-> o, effect |-> e, execution |-> x, ok |-> FALSE] \in replies
  /\ row' = [row EXCEPT ![e] = UnprovenRow(@)]
  /\ replies' = replies \ {[to |-> o, effect |-> e, execution |-> x, ok |-> FALSE]}
  /\ UNCHANGED <<claims, job, alive, unbound, wire, execs>>

-------------------------------------------------------------------------------
(* HostOutcomeDispatch.lookup *)

\* Mutation: a lapsed lease read as absence whatever the row's state.
LocalLookupLeaseOnly(o, e) ==
  IF row[e].state = "created" THEN "created"
  ELSE IF row[e].state = "none" \/ row[e].released \/ row[e].owner = o \/ ~row[e].lease
    THEN "absent" ELSE "unknown"

\* The answer the registry alone gives to process o.
LocalLookup(o, e) ==
  CASE row[e].state = "none" -> "absent"
    [] row[e].state = "created" -> "created"
    [] row[e].state = "creating" -> "unknown"
    [] OTHER -> IF row[e].released \/ row[e].owner = o \/ ~row[e].lease
                  THEN "absent" ELSE "unknown"

\* A created row ends the lookup; otherwise the platform is asked as well.
LookupLocal(o, e) ==
  /\ IdleAt(o)
  /\ LocalLookup(o, e) # "created"
  /\ job' = [job EXCEPT ![o] = Job("looked", e, NoToken)]
  /\ UNCHANGED <<row, claims, alive, unbound, wire, execs, replies>>

\* A platform that names an execution has it bound to the row, unless an
\* earlier attempt to bind it was already refused.
LookupPlatform(o, e) ==
  /\ At(o, "looked", e)
  /\ \/ Finish(o)
     \/ \E x \in execs[e] :
          /\ e \notin unbound[o]
          /\ job' = [job EXCEPT ![o] = Job("bind", e, x)]
  /\ UNCHANGED <<row, claims, alive, unbound, wire, execs, replies>>

BindPlatformExecution(o, e) ==
  /\ At(o, "bind", e)
  /\ row' = [row EXCEPT ![e] = RowAfterConfirm(o, e, job[o].ref)]
  /\ unbound' = IF Recorded(o, e, job[o].ref) THEN unbound
                ELSE [unbound EXCEPT ![o] = @ \cup {e}]
  /\ Finish(o)
  /\ UNCHANGED <<claims, alive, wire, execs, replies>>

-------------------------------------------------------------------------------
(* The platform, the clock and crashes: external to the store *)

\* A handed-over request is resolved: it creates and answers, creates and
\* reports a failure (the answer was lost on the way), or fails.
PlatformResolves(e, t) ==
  /\ t \in wire[e]
  /\ wire' = [wire EXCEPT ![e] = @ \ {t}]
  /\ \E created, ok \in BOOLEAN :
       /\ ok => created
       /\ execs' = IF created THEN [execs EXCEPT ![e] = @ \cup {t}] ELSE execs
       /\ replies' = replies \cup
            {[to |-> t.owner, effect |-> e, execution |-> t, ok |-> ok]}
  /\ UNCHANGED <<row, claims, job, alive, unbound>>

\* claimed_at + leaseMs passes; only a pending row's lease is ever read.
LeaseExpires(e) ==
  /\ row[e].state = "pending" /\ row[e].lease
  /\ row' = [row EXCEPT ![e].lease = FALSE]
  /\ UNCHANGED <<claims, job, alive, unbound, wire, execs, replies>>

\* The process dies with everything it held in memory.
Crash(o) ==
  /\ alive[o]
  /\ alive' = [alive EXCEPT ![o] = FALSE]
  /\ job' = [job EXCEPT ![o] = Idle]
  /\ claims' = [claims EXCEPT ![o] = [e \in Effects |-> 0]]
  /\ unbound' = [unbound EXCEPT ![o] = {}]
  /\ UNCHANGED <<row, wire, execs, replies>>

Next ==
  \/ \E o \in Owners, e \in Effects :
       \/ Claim(o, e)
       \/ ProofOfAbsence(o, e)
       \/ ReleaseStale(o, e)
       \/ Reclaim(o, e)
       \/ MarkCreating(o, e)
       \/ Deliver(o, e)
       \/ ReleaseAfterThrow(o, e)
       \/ \E x \in Token : ConfirmStarted(o, e, x) \/ ReportDeliveryFailure(o, e, x)
       \/ LookupLocal(o, e)
       \/ LookupPlatform(o, e)
       \/ BindPlatformExecution(o, e)
  \/ \E e \in Effects, t \in Token : PlatformResolves(e, t)
  \/ \E e \in Effects : LeaseExpires(e)
  \/ \E o \in Owners : Crash(o)

Spec == Init /\ [][Next]_vars

-------------------------------------------------------------------------------
(* Properties *)

\* Every row, cached claim and message has its type.
TypeOK ==
  /\ row \in [Effects -> RowType]
  /\ claims \in [Owners -> [Effects -> 0..MaxGeneration]]
  /\ job \in [Owners -> JobType]
  /\ alive \in [Owners -> BOOLEAN]
  /\ unbound \in [Owners -> SUBSET Effects]
  /\ wire \in [Effects -> SUBSET Token]
  /\ execs \in [Effects -> SUBSET Token]
  /\ replies \subseteq [to : Owners, effect : Effects, execution : Token, ok : BOOLEAN]

\* At most one platform execution ever exists for one stable effect id, however
\* creates, takeovers, failures, crashes and adoptions of several processes
\* interleave (HostOutcomeDispatch.create over GraphStore.claimExecution).
AtMostOneExecution ==
  \A e \in Effects : \A x, y \in execs[e] : x = y

\* A created row names the one execution the platform holds, and no further
\* request for the effect is on its way (GraphStore.confirmExecution).
CreatedNamesTheExecution ==
  \A e \in Effects : row[e].state = "created" =>
    execs[e] = {row[e].execution} /\ wire[e] = {} /\ ~BeingHandedOver(e)

\* No process ever reports a second execution for an effect already bound to
\* one: the conflicting-execution refusal is unreachable.
NoConflictingExecution ==
  \A e \in Effects : row[e].refusal # "conflicting-execution"

\* Whenever any process' registry would answer absent, no execution exists,
\* none is on its way and no process is about to hand one over
\* (HostExecutionIndex.lookup: a pending row was never handed to the platform).
AbsentIsProof ==
  \A o \in Owners, e \in Effects : LocalLookup(o, e) = "absent" =>
    execs[e] = {} /\ wire[e] = {} /\ ~BeingHandedOver(e)

\* The inductive invariant behind the properties above, in five parts.

\* Rows are numbered from 1 and a missing row holds nothing.
RowsWellFormed ==
  \A e \in Effects :
    /\ row[e].state = "none" => row[e] = NoRow
    /\ row[e].state # "none" => row[e].gen >= 1 /\ row[e].owner \in Owners
    /\ row[e].state = "created" => row[e].execution \in execs[e]

\* Whatever is on its way or exists was handed over under the claim the row
\* still shows, and that row no longer counts as claimable.
TokensCarryTheClaim ==
  \A e \in Effects :
    /\ wire[e] \cap execs[e] = {}
    /\ \A t \in wire[e] \cup execs[e] :
         row[e].state \in {"creating", "created"} /\ t = RefOf(e)

\* Between marking and delivery the claim is this process' and nothing has
\* left yet; a refused delivery leaves nothing behind either.
NothingOut(e) == wire[e] = {} /\ execs[e] = {}
MarkedOK(o, e) ==
  /\ job[o].step = "marked" => Confirmable(o, e) /\ NothingOut(e)
  /\ job[o].step = "threw" /\ Releasable(e, o, claims[o][e]) => NothingOut(e)
MarkedHoldsTheClaim ==
  \A o \in Owners, e \in Effects : job[o].effect = e => MarkedOK(o, e)

\* A claim seen creating never returns to pending under the same generation,
\* and a proof of absence stays true for as long as that claim is the row's.
ProofStaysTrue ==
  \A o \in Owners, e \in Effects : job[o].effect = e =>
    /\ job[o].step \in {"held", "proved"} =>
         /\ job[o].ref.gen <= row[e].gen
         /\ job[o].ref.gen = row[e].gen =>
              row[e].state \in {"creating", "created"}
    /\ job[o].step = "proved" /\ job[o].ref = RefOf(e) =>
         NothingOut(e) /\ ~BeingHandedOver(e)

\* What the platform says exists, exists.
ReportsAreReal ==
  /\ \A r \in replies : r.ok => r.execution \in execs[r.effect]
  /\ \A o \in Owners, e \in Effects :
       job[o].effect = e /\ job[o].step = "bind" => job[o].ref \in execs[e]

\* The five parts and the absence of conflicts hold together in every state of
\* every instance whose platform never gives an instantaneous proof.
FenceInvariant ==
  /\ RowsWellFormed
  /\ TokensCarryTheClaim
  /\ MarkedHoldsTheClaim
  /\ ProofStaysTrue
  /\ ReportsAreReal
  /\ NoConflictingExecution

\* One step of one row: the generation never goes back, a new owner always has
\* a newer generation, and a created row keeps its claim and its execution.
FenceStep(e) ==
  /\ row'[e].gen >= row[e].gen
  /\ row'[e].owner # row[e].owner => row'[e].gen > row[e].gen
  /\ row[e].state = "created" =>
       /\ row'[e].state = "created"
       /\ row'[e].execution = row[e].execution
       /\ row'[e].gen = row[e].gen

\* The fence moves forward only: what claimExecution, releaseExecution and
\* confirmExecution may never do to a row.
FenceMonotone == [][\A e \in Effects : FenceStep(e)]_vars

\* The registry implements the one-right abstraction: a row in creating is a
\* spent right, a created row a bound one.
RightOf(e) ==
  CASE row[e].state = "creating" -> "spent"
    [] row[e].state = "created" -> "bound"
    [] OTHER -> "free"

Once == INSTANCE CreateOnce WITH
          Executions <- Token,
          right <- [e \in Effects |-> RightOf(e)],
          made <- execs

\* Every step of the processes, the store and the platform is a step of the
\* abstract create-once right, or leaves it alone.
ImplementsCreateOnce == Once!Spec
===============================================================================
