----------------------------- MODULE RunLedger ------------------------------
(***************************************************************************)
(* The acceptance ledger and the trusted control of one graph.  Several    *)
(* host processes share one SQLite store: every transaction is one step,   *)
(* every read outside a transaction is a step of its own, and a process    *)
(* may die between any two of its steps.  What the reducer routes is       *)
(* abstracted to the set of nodes an acceptance puts in flight and whether *)
(* it ends the run (module OutcomeGraph); the host registry is abstracted  *)
(* to one create right per attempt (CreateOnce), lost by its holder only   *)
(* when the holder dies.  Credentials are versions: the n-th one minted    *)
(* for an attempt is n, and a process keeps its own in memory.             *)
(***************************************************************************)
EXTENDS Integers, FiniteSets

CONSTANTS
    Nodes,          \* positions in the compiled plan
    Entries,        \* nodes dispatched when a run is minted
    Procs,          \* host processes on the workspace store
    SameInstant,    \* whether processes that race to start read the same time
    Commands,       \* the trusted commands the controller may issue
    MaxExecutions,  \* budget.max_executions
    MaxSeq,         \* bound: attempts over all runs
    MaxRuns,        \* bound: runs of the graph
    MaxVersions     \* bound: credentials issued for one attempt

RunWide == {"cancel", "budget-stop"}
AttemptScoped == {"failure", "timeout"}
Stopping == RunWide \cup AttemptScoped
AllCommands == Stopping \cup {"retry", "approval-request", "approve", "reject"}

ASSUME NodesAssumption == Nodes \subseteq Nat \ {0} /\ IsFiniteSet(Nodes)
ASSUME EntriesAssumption == Entries \subseteq Nodes /\ Entries # {}
ASSUME InstantAssumption == SameInstant \in BOOLEAN
ASSUME CommandsAssumption == Commands \subseteq AllCommands
ASSUME BoundsAssumption ==
    /\ MaxExecutions \in Nat
    /\ MaxSeq \in Nat
    /\ MaxRuns \in Nat \ {0}
    /\ Cardinality(Entries) <= MaxExecutions
    /\ MaxVersions \in Nat \ {0}
ASSUME ProcsAssumption == "free" \notin Procs

Attempts == 1 .. MaxSeq
Runs == 1 .. MaxRuns

VARIABLES
    run,        \* number of the graph's current run, 0 before the first
    control,    \* run -> its control fact
    order,      \* run -> "none", "ordered" or "executed": its re-execution
    node,       \* node -> [status, attempt] in the current run's snapshot
    phase,      \* phase of that snapshot
    seq,        \* attempt counter of that snapshot
    runOf,      \* attempt -> run its rows are filed under, 0 if never minted
    nodeOf,     \* attempt -> node it was minted for, 0 if never minted
    verifier,   \* attempt -> version of the credential the snapshot recognises
    effect,     \* attempt -> status of its dispatch effect
    claim,      \* attempt -> status of its budget reservation
    cancel,     \* attempt -> status of its cancel effect
    decided,    \* attempt -> commands recorded on it
    approval,   \* attempt -> status of its approval request
    accepted,   \* attempts with an accepted event
    exec,       \* attempt -> its execution on the platform
    held,       \* attempt -> version of the credential its worker was given
    answered,   \* cancellations the platform confirmed to a waiting host
    right,      \* attempt -> process that claimed the right to create it
    vault,      \* process -> attempt -> version it can resolve, 0 if none
    proc        \* process -> what its current call read and has left to do

storeVars == <<run, control, order>>
snapVars == <<node, phase, seq>>
rowVars == <<runOf, nodeOf, verifier, effect, claim>>
ctlVars == <<cancel, decided, approval>>
platVars == <<exec, held, answered>>
hostVars == <<right, vault>>
vars == <<storeVars, snapVars, rowVars, ctlVars, accepted, platVars, hostVars, proc>>

Entry(status, attempt) == [status |-> status, attempt |-> attempt]

Idle ==
    [pc |-> "idle", mode |-> "none", cur |-> 0, todo |-> {},
     view |-> [a \in Attempts |-> 0], run |-> 0, seq |-> 0]

-----------------------------------------------------------------------------
(* What the snapshot and the tables answer.                                *)

Dispatched == {n \in Nodes : node[n].status = "dispatched"}
InFlight == {node[n].attempt : n \in Dispatched}

Recorded(a) == \E n \in Nodes : node[n].status # "pending" /\ node[n].attempt = a

(* pendingEffects of the current run. *)
Unsettled(a) == effect[a] \in {"pending", "started"}

Stopped(a) == decided[a] \cap Stopping # {}

(* An approval request blocks its attempt until it is approved. *)
Paused(a) == approval[a] \notin {"none", "approved"}

\* mutant: every settled dispatch is refunded
SpentUnsettled(r) == Cardinality({a \in Attempts : runOf[a] = r /\ claim[a] = "reserved"})

(* Reservations of the run; settling one does not refund it. *)
Spent(r) == Cardinality({a \in Attempts : runOf[a] = r /\ claim[a] # "none"})

Terminal == control[run] # "none" \/ phase \in {"complete", "stopped"}

\* mutant: an issued cancel request counts as a confirmation
BlockingUnlessAsked == {a \in InFlight : Unsettled(a) /\ cancel[a] = "none"}

(* Dispatches the run records as in flight whose fate is unknown. *)
Blocking == {a \in InFlight : Unsettled(a) /\ cancel[a] # "done"}

\* mutant: a terminal status is not final
CanMoveBack(a, status) == runOf[a] = run

(* An effect transition: terminal statuses are final, and a row of a run   *)
(* that is no longer the current one does not move.                        *)
CanMove(a, status) == status \in {"pending", "started"} /\ runOf[a] = run

-----------------------------------------------------------------------------
(* Minting attempts: the nodes of S in plan order take the numbers after   *)
(* `base'.  Effect and reservation rows that already exist are kept; the   *)
(* credential is new each time, and p remembers it.                        *)

Rank(S, n) == Cardinality({m \in S : m <= n})

Numbered(S, base) == {base + Rank(S, n) : n \in S}

NodeOfNumber(S, base, a) == CHOOSE n \in S : base + Rank(S, n) = a

Fits(S, base) == base + Cardinality(S) <= MaxSeq

Mint(S, base, r, p, effects, claims) ==
    LET new == Numbered(S, base)
    IN  /\ runOf' = [a \in Attempts |-> IF a \in new THEN r ELSE runOf[a]]
        /\ nodeOf' = [a \in Attempts |->
                          IF a \in new THEN NodeOfNumber(S, base, a) ELSE nodeOf[a]]
        /\ verifier' = [a \in Attempts |->
                            IF a \in new THEN verifier[a] + 1 ELSE verifier[a]]
        /\ vault' = [vault EXCEPT ![p] = [a \in Attempts |->
                         IF a \in new THEN verifier[a] + 1 ELSE vault[p][a]]]
        /\ effect' = [a \in Attempts |->
                          IF a \in new /\ effects[a] = "none" THEN "pending"
                          ELSE effects[a]]
        /\ claim' = [a \in Attempts |->
                         IF a \in new /\ claims[a] = "none" THEN "reserved" ELSE claims[a]]

-----------------------------------------------------------------------------
(* Launching: create each execution, then record that the create returned. *)

LeastOf(S) == CHOOSE a \in S : \A b \in S : a <= b

Launch(S) ==
    IF S = {} THEN Idle
    ELSE [Idle EXCEPT !.pc = "create", !.mode = "launch", !.cur = LeastOf(S),
                      !.todo = S \ {LeastOf(S)}]

Reconciling(S, view) ==
    IF S = {} THEN Idle
    ELSE [Idle EXCEPT !.pc = "examine", !.mode = "reconcile", !.cur = LeastOf(S),
                      !.todo = S \ {LeastOf(S)},
                      !.view = [a \in Attempts |-> IF a \in S THEN view[a] ELSE 0]]

(* The next effect of the call after the current one went well. *)
Onwards(p) ==
    IF proc[p].mode = "launch" THEN Launch(proc[p].todo)
    ELSE Reconciling(proc[p].todo, proc[p].view)

(* A launch stops at the first failure; recovery reports it and goes on. *)
AfterFailure(p) ==
    IF proc[p].mode = "launch" THEN Idle ELSE Reconciling(proc[p].todo, proc[p].view)

\* mutant: a process cannot claim again what it already holds
ClaimableOnce(p, a) == exec[a] = "none" /\ right[a] = "free"

(* The registry's claim: no execution was asked for, and no other process  *)
(* holds the right.                                                        *)
Claimable(p, a) == exec[a] = "none" /\ right[a] \in {"free", p}

(* The request is handed over with the credential p resolved, and create   *)
(* returns; the platform makes an execution of it or refuses it later.     *)
(* Neither the run's control nor the snapshot is read again.               *)
Create(p, made) ==
    LET a == proc[p].cur
    IN  /\ proc[p].pc = "create"
        /\ Claimable(p, a)
        /\ exec' = [exec EXCEPT ![a] = made]
        /\ held' = [held EXCEPT ![a] = vault[p][a]]
        /\ right' = [right EXCEPT ![a] = "free"]
        /\ proc' = [proc EXCEPT ![p].pc = "mark"]
        /\ UNCHANGED <<storeVars, snapVars, rowVars, ctlVars, accepted, answered, vault>>

(* The right is held elsewhere or spent, or the delivery throws before it  *)
(* hands anything over and the right is given back.                        *)
CreateFails(p) ==
    LET a == proc[p].cur
    IN  /\ proc[p].pc = "create"
        /\ right' = [right EXCEPT ![a] = IF @ = p THEN "free" ELSE @]
        /\ proc' = [proc EXCEPT ![p] = AfterFailure(p)]
        /\ UNCHANGED <<storeVars, snapVars, rowVars, ctlVars, accepted, platVars, vault>>

(* markEffectStarted: refused once the effect is terminal or its run is    *)
(* closed, unless it already stands at "started".                          *)
MarkStarted(p) ==
    LET a == proc[p].cur
    IN  /\ proc[p].pc = "mark"
        /\ IF effect[a] = "started" \/ CanMove(a, effect[a])
           THEN /\ effect' = [effect EXCEPT ![a] = "started"]
                /\ proc' = [proc EXCEPT ![p] = Onwards(p)]
           ELSE /\ proc' = [proc EXCEPT ![p] = AfterFailure(p)]
                /\ UNCHANGED effect
        /\ UNCHANGED <<storeVars, snapVars, runOf, nodeOf, verifier, claim, ctlVars,
                       accepted, platVars, hostVars>>

-----------------------------------------------------------------------------
(* start(): the state is read outside the transaction that mints.          *)

StartRead(p) ==
    /\ proc[p].pc = "idle"
    /\ run = 0
    /\ proc' = [proc EXCEPT ![p].pc = "start"]
    /\ UNCHANGED <<storeVars, snapVars, rowVars, ctlVars, accepted, platVars, hostVars>>

\* mutant: the identity of the run is not compared
MintsEachTime(p) == TRUE

(* mintRun keeps an earlier row, so the reservation of the entry attempts  *)
(* meets the current run: it rolls the start back unless that run has the  *)
(* identity this process derived from its own clock.                       *)
MintsSameRun(p) == run = 0 \/ (run = 1 /\ SameInstant)

MintSnapshot(base) ==
    /\ node' = [n \in Nodes |->
                   IF n \in Entries THEN Entry("dispatched", base + Rank(Entries, n))
                   ELSE Entry("pending", 0)]
    /\ phase' = "executing"
    /\ seq' = base + Cardinality(Entries)

StartCommit(p) ==
    /\ proc[p].pc = "start"
    /\ Fits(Entries, 0)
    /\ MintsSameRun(p)
    /\ run' = 1
    /\ MintSnapshot(0)
    /\ Mint(Entries, 0, 1, p, effect, claim)
    /\ proc' = [proc EXCEPT ![p] = Launch(Numbered(Entries, 0))]
    /\ UNCHANGED <<control, order, ctlVars, accepted, platVars, right>>

StartRefused(p) ==
    /\ proc[p].pc = "start"
    /\ ~ MintsSameRun(p)
    /\ proc' = [proc EXCEPT ![p] = Idle]
    /\ UNCHANGED <<storeVars, snapVars, rowVars, ctlVars, accepted, platVars, hostVars>>

-----------------------------------------------------------------------------
(* settleSubmission(): a worker presents its credential, or the host       *)
(* reports that the execution completed.  The preflight reads the control  *)
(* fact, the snapshot, the decisions and the approvals without a lock.     *)

Presents(a, channel) ==
    \/ channel = "credential" /\ exec[a] = "live" /\ held[a] = verifier[a]
    \/ channel = "host" /\ exec[a] = "completed"

SubmitRead(p, a, channel) ==
    /\ proc[p].pc = "idle"
    /\ run > 0
    /\ Presents(a, channel)
    /\ control[run] = "none"
    /\ Recorded(a)
    /\ ~ Stopped(a)
    /\ ~ Paused(a)
    /\ proc' = [proc EXCEPT ![p].pc = "settle", ![p].cur = a]
    /\ UNCHANGED <<storeVars, snapVars, rowVars, ctlVars, accepted, platVars, hostVars>>

(* The join inside the transaction: control and snapshot are read again.   *)
Reducible(a) ==
    /\ control[run] = "none"
    /\ phase # "stopped"
    /\ a \in InFlight

\* mutant: the ledger trusts what the preflight read
CommittableUnlessSettled(a) == a \notin accepted /\ runOf[a] = run

\* mutant: the batch is not guarded by the approval requests
CommittablePaused(a) ==
    /\ a \notin accepted
    /\ "retry" \notin decided[a]
    /\ ~ Stopped(a)
    /\ runOf[a] = run

(* The guarded batch of commitAccepted. *)
Committable(a) ==
    /\ a \notin accepted
    /\ "retry" \notin decided[a]
    /\ ~ Stopped(a)
    /\ runOf[a] = run
    /\ ~ Paused(a)

PhaseAfter(st, stops) ==
    IF stops THEN "stopped"
    ELSE IF \E n \in Nodes : st[n].status = "dispatched" THEN "executing"
    ELSE IF \A n \in Nodes : st[n].status = "settled" THEN "complete" ELSE "stopped"

(* The snapshot after a settles and the reducer arms S; a stop arms none.  *)
Advanced(a, S) ==
    [n \in Nodes |->
        IF n \in S THEN Entry("dispatched", seq + Rank(S, n))
        ELSE IF node[n].status = "dispatched" /\ node[n].attempt = a
        THEN Entry("settled", a)
        ELSE node[n]]

\* mutant: the reservation check looks at open reservations only
BudgetAllowsOpen(S) == SpentUnsettled(run) + Cardinality(S) <= MaxExecutions

BudgetAllows(S) == Spent(run) + Cardinality(S) <= MaxExecutions

(* Only a node that is not in flight is armed; the settling one may be     *)
(* re-entered.  The whole acceptance rolls back without the reservations.  *)
SubmitCommit(p, S, stops) ==
    LET a == proc[p].cur
    IN  /\ proc[p].pc = "settle"
        /\ Reducible(a)
        /\ Committable(a)
        /\ stops => S = {}
        /\ \A n \in S : node[n].status = "dispatched" => node[n].attempt = a
        /\ BudgetAllows(S)
        /\ Fits(S, seq)
        /\ accepted' = accepted \cup {a}
        /\ node' = Advanced(a, S)
        /\ phase' = PhaseAfter(node', stops)
        /\ seq' = seq + Cardinality(S)
        /\ Mint(S, seq, run, p,
                [effect EXCEPT ![a] = IF CanMove(a, @) THEN "done" ELSE @],
                [claim EXCEPT ![a] = IF @ = "reserved" THEN "released" ELSE @])
        /\ proc' = [proc EXCEPT ![p] = Launch(Numbered(S, seq))]
        /\ UNCHANGED <<storeVars, ctlVars, platVars, right>>

(* Refused inside the transaction, or rolled back because the reservations *)
(* of the nodes it would arm exceed the budget.                            *)
SubmitRefused(p) ==
    /\ proc[p].pc = "settle"
    /\ \/ ~ (Reducible(proc[p].cur) /\ Committable(proc[p].cur))
       \/ \E S \in SUBSET Nodes : ~ BudgetAllows(S)
    /\ proc' = [proc EXCEPT ![p] = Idle]
    /\ UNCHANGED <<storeVars, snapVars, rowVars, ctlVars, accepted, platVars, hostVars>>

-----------------------------------------------------------------------------
(* reexecute(): run, order and attempt counter are read outside the        *)
(* transaction.  The order closed the run, so the other facts read with    *)
(* them no longer change.                                                  *)

ReexecuteRead(p) ==
    /\ proc[p].pc = "idle"
    /\ run > 0 /\ run < MaxRuns
    /\ order[run] = "ordered"
    /\ Terminal
    /\ Blocking = {}
    /\ proc' = [proc EXCEPT ![p].pc = "reexecute", ![p].run = run, ![p].seq = seq]
    /\ UNCHANGED <<storeVars, snapVars, rowVars, ctlVars, accepted, platVars, hostVars>>

\* mutant: the order is not looked at again inside the transaction
OrderStoodBefore(p) == TRUE

(* mintNextRun and markReexecutionExecuted. *)
OrderStands(p) == run = proc[p].run /\ order[run] = "ordered"

\* mutant: a new run numbers its attempts from the beginning
FromFirst(p) == 0

FromSeq(p) == proc[p].seq

ReexecuteCommit(p) ==
    /\ proc[p].pc = "reexecute"
    /\ OrderStands(p)
    /\ Fits(Entries, FromSeq(p))
    /\ run' = run + 1
    /\ order' = [order EXCEPT ![proc[p].run] = "executed"]
    /\ MintSnapshot(FromSeq(p))
    /\ Mint(Entries, FromSeq(p), run + 1, p, effect, claim)
    /\ proc' = [proc EXCEPT ![p] = Launch(Numbered(Entries, FromSeq(p)))]
    /\ UNCHANGED <<control, ctlVars, accepted, platVars, right>>

ReexecuteRaced(p) ==
    /\ proc[p].pc = "reexecute"
    /\ ~ OrderStands(p)
    /\ proc' = [proc EXCEPT ![p] = Idle]
    /\ UNCHANGED <<storeVars, snapVars, rowVars, ctlVars, accepted, platVars, hostVars>>

-----------------------------------------------------------------------------
(* resume(): snapshot and control are read, then the effects, then each    *)
(* effect is examined against the snapshot read first.                     *)

ResumeRead(p) ==
    /\ proc[p].pc = "idle"
    /\ run > 0
    /\ control[run] = "none"
    /\ phase # "stopped"
    /\ proc' = [proc EXCEPT ![p].pc = "scan", ![p].mode = "reconcile",
                   ![p].view = [a \in Attempts |-> IF a \in InFlight THEN verifier[a] ELSE 0]]
    /\ UNCHANGED <<storeVars, snapVars, rowVars, ctlVars, accepted, platVars, hostVars>>

(* Only a pending effect of an attempt seen in flight leads to a write. *)
ScanEffects(p) ==
    /\ proc[p].pc = "scan"
    /\ proc' = [proc EXCEPT ![p] = Reconciling(
                    {a \in Attempts : /\ proc[p].view[a] # 0
                                      /\ runOf[a] = run /\ effect[a] = "pending"},
                    proc[p].view)]
    /\ UNCHANGED <<storeVars, snapVars, rowVars, ctlVars, accepted, platVars, hostVars>>

(* The host may name an execution, prove that none was asked for, or not   *)
(* know.                                                                   *)
Answers(p, a) ==
    {"unknown"} \cup (IF exec[a] \notin {"none", "refused"} THEN {"created"} ELSE {})
                \cup (IF Claimable(p, a) THEN {"absent"} ELSE {})

(* With a credential in the vault, a named execution is recorded and an    *)
(* absent one created unless the attempt was stopped.  Without one, only   *)
(* an absent execution lets the credential be issued again.                *)
Examine(p, answer) ==
    LET a == proc[p].cur
    IN  /\ proc[p].pc = "examine"
        /\ answer \in Answers(p, a)
        /\ proc' = [proc EXCEPT ![p] =
              CASE answer = "created" /\ vault[p][a] # 0 -> [@ EXCEPT !.pc = "mark"]
                [] answer = "absent" /\ vault[p][a] = 0 -> [@ EXCEPT !.pc = "fence"]
                [] answer = "absent" /\ vault[p][a] # 0 /\ ~ Stopped(a) ->
                      [@ EXCEPT !.pc = "create"]
                [] OTHER -> Onwards(p)]
        /\ UNCHANGED <<storeVars, snapVars, rowVars, ctlVars, accepted, platVars, hostVars>>

\* mutant: the credential is issued again without the create right
FenceOpen(p) ==
    /\ proc[p].pc = "fence"
    /\ proc' = [proc EXCEPT ![p].pc = "reissue"]
    /\ UNCHANGED <<storeVars, snapVars, rowVars, ctlVars, accepted, platVars, hostVars>>

(* reissueLostCredential takes the create right before it mints anything.  *)
Fence(p) ==
    LET a == proc[p].cur
    IN  /\ proc[p].pc = "fence"
        /\ IF Claimable(p, a)
           THEN /\ right' = [right EXCEPT ![a] = p]
                /\ proc' = [proc EXCEPT ![p].pc = "reissue"]
           ELSE /\ proc' = [proc EXCEPT ![p] = Onwards(p)]
                /\ UNCHANGED right
        /\ UNCHANGED <<storeVars, snapVars, rowVars, ctlVars, accepted, platVars, vault>>

\* mutant: the vault keeps the new credential although its digest is not written
ReissueApart(p) ==
    LET a == proc[p].cur
    IN  /\ proc[p].pc = "reissue"
        /\ verifier[a] < MaxVersions
        /\ vault' = [vault EXCEPT ![p][a] = verifier[a] + 1]
        /\ proc' = [proc EXCEPT ![p].pc = "create"]
        /\ UNCHANGED <<storeVars, snapVars, rowVars, ctlVars, accepted, platVars, right>>

(* replaceAttemptCredential: the attempt is still in flight, with the      *)
(* verifier that was observed; otherwise the right is given back.  A       *)
(* decision that stopped the attempt is only looked at afterwards.         *)
Reissue(p) ==
    LET a == proc[p].cur
    IN  /\ proc[p].pc = "reissue"
        /\ IF a \in InFlight /\ verifier[a] = proc[p].view[a]
           THEN /\ verifier[a] < MaxVersions
                /\ verifier' = [verifier EXCEPT ![a] = @ + 1]
                /\ vault' = [vault EXCEPT ![p][a] = verifier[a] + 1]
                /\ proc' = [proc EXCEPT ![p] =
                               IF Stopped(a) THEN Onwards(p) ELSE [@ EXCEPT !.pc = "create"]]
                /\ UNCHANGED right
           ELSE /\ right' = [right EXCEPT ![a] = "free"]
                /\ proc' = [proc EXCEPT ![p] = Onwards(p)]
                /\ UNCHANGED <<verifier, vault>>
        /\ UNCHANGED <<storeVars, snapVars, runOf, nodeOf, effect, claim, ctlVars, accepted,
                       platVars>>

(* A process dies: its call, its vault and, once the lease lapses, its     *)
(* create rights are lost.                                                 *)
Crash(p) ==
    /\ proc' = [proc EXCEPT ![p] = Idle]
    /\ vault' = [vault EXCEPT ![p] = [a \in Attempts |-> 0]]
    /\ right' = [a \in Attempts |-> IF right[a] = p THEN "free" ELSE right[a]]
    /\ UNCHANGED <<storeVars, snapVars, rowVars, ctlVars, accepted, platVars>>

-----------------------------------------------------------------------------
(* Trusted control: one transaction per command.                           *)

(* A stopping command ends every open approval request of the run. *)
ExpireRunApprovals ==
    approval' = [a \in Attempts |->
        IF runOf[a] = run /\ approval[a] = "pending" THEN "expired" ELSE approval[a]]

(* writeControlDecision: an accepted attempt takes no decision, and one    *)
(* attempt takes at most one stopping command.                             *)
Recordable(a, cmd) ==
    /\ a \notin accepted
    /\ cmd \in Stopping => decided[a] \cap (Stopping \ {cmd}) = {}

ClaimRunControl(cmd) ==
    control' = [control EXCEPT ![run] = IF @ = "none" THEN cmd ELSE @]

(* Attempts in flight that already carry a stopping decision are skipped. *)
StopRun(cmd) ==
    /\ cmd \in Commands \cap RunWide
    /\ run > 0
    /\ decided' = [a \in Attempts |->
                      IF a \in InFlight /\ Recordable(a, cmd)
                      THEN decided[a] \cup {cmd} ELSE decided[a]]
    /\ ClaimRunControl(cmd)
    /\ ExpireRunApprovals
    /\ UNCHANGED <<run, order, snapVars, rowVars, cancel, accepted, platVars, hostVars, proc>>

StopAttempt(a, cmd) ==
    /\ cmd \in Commands \cap AttemptScoped
    /\ a \in InFlight
    /\ Recordable(a, cmd)
    /\ decided' = [decided EXCEPT ![a] = @ \cup {cmd}]
    /\ ExpireRunApprovals
    /\ UNCHANGED <<storeVars, snapVars, rowVars, cancel, accepted, platVars, hostVars, proc>>

(* The host reports that an execution it observed has failed. *)
HostFailure(a) ==
    /\ "failure" \in Commands
    /\ exec[a] = "failed"
    /\ a \in InFlight
    /\ Recordable(a, "failure")
    /\ decided' = [decided EXCEPT ![a] = @ \cup {"failure"}]
    /\ effect' = [effect EXCEPT ![a] = IF CanMove(a, @) THEN "failed" ELSE @]
    /\ claim' = [claim EXCEPT ![a] = IF @ = "reserved" THEN "released" ELSE @]
    /\ ExpireRunApprovals
    /\ UNCHANGED <<storeVars, snapVars, runOf, nodeOf, verifier, cancel, accepted,
                   platVars, hostVars, proc>>

(* A successor attempt carries the node forward.  The superseded attempt   *)
(* keeps its effect and its reservation; a later resume launches the new   *)
(* one, and p runs the command.                                            *)
RetryNode(p, n) ==
    LET a == node[n].attempt
    IN  /\ "retry" \in Commands
        /\ proc[p].pc = "idle"
        /\ run > 0
        /\ control[run] = "none"
        /\ phase # "stopped"
        /\ n \in Dispatched
        /\ Recordable(a, "retry")
        /\ BudgetAllows({n})
        /\ Fits({n}, seq)
        /\ decided' = [decided EXCEPT ![a] = @ \cup {"retry"}]
        /\ node' = [node EXCEPT ![n] = Entry("dispatched", seq + 1)]
        /\ seq' = seq + 1
        /\ Mint({n}, seq, run, p, effect, claim)
        /\ UNCHANGED <<storeVars, phase, cancel, approval, accepted, platVars, right, proc>>

(* A run-scoped retry: the order closes the run it re-executes. *)
OrderReexecution ==
    /\ "retry" \in Commands
    /\ run > 0
    /\ Terminal
    /\ Blocking = {}
    /\ order' = [order EXCEPT ![run] = IF @ = "none" THEN "ordered" ELSE @]
    /\ ClaimRunControl("retry")
    /\ UNCHANGED <<run, snapVars, rowVars, ctlVars, accepted, platVars, hostVars, proc>>

RaiseApproval(a) ==
    /\ "approval-request" \in Commands
    /\ a \in InFlight
    /\ control[run] = "none"
    /\ phase # "stopped"
    /\ ~ Stopped(a)
    /\ Recordable(a, "approval-request")
    /\ approval[a] = "none"
    /\ approval' = [approval EXCEPT ![a] = "pending"]
    /\ decided' = [decided EXCEPT ![a] = @ \cup {"approval-request"}]
    /\ UNCHANGED <<storeVars, snapVars, rowVars, cancel, accepted, platVars, hostVars, proc>>

DecideApproval(a, cmd) ==
    /\ cmd \in Commands \cap {"approve", "reject"}
    /\ Recorded(a)
    /\ approval[a] = "pending"
    /\ Recordable(a, cmd)
    /\ approval' = [approval EXCEPT ![a] = IF cmd = "approve" THEN "approved" ELSE "rejected"]
    /\ decided' = [decided EXCEPT ![a] = @ \cup {cmd}]
    /\ UNCHANGED <<storeVars, snapVars, rowVars, cancel, accepted, platVars, hostVars, proc>>

(* The deadline passes: the sweep of the next command, or a late decision, *)
(* records it.                                                             *)
ExpireApproval(a) ==
    /\ approval[a] = "pending"
    /\ approval' = [approval EXCEPT ![a] = "expired"]
    /\ UNCHANGED <<storeVars, snapVars, rowVars, cancel, decided, accepted, platVars,
                   hostVars, proc>>

-----------------------------------------------------------------------------
(* Cancel delivery.  The request is recorded, the platform is asked, and   *)
(* its confirmation is recorded by a later transaction.                    *)

Deliverable(a) ==
    runOf[a] = run /\ decided[a] \cap {"cancel", "budget-stop", "timeout"} # {}

RequestCancel(a) ==
    /\ run > 0
    /\ Deliverable(a)
    /\ cancel[a] = "none"
    /\ cancel' = [cancel EXCEPT ![a] = "started"]
    /\ UNCHANGED <<storeVars, snapVars, rowVars, decided, approval, accepted, platVars,
                   hostVars, proc>>

(* A platform confirms only an execution it can name. *)
PlatformCancels(a) ==
    /\ cancel[a] = "started"
    /\ exec[a] \notin {"none", "refused"}
    /\ a \notin answered
    /\ exec' = [exec EXCEPT ![a] = IF @ = "live" THEN "cancelled" ELSE @]
    /\ answered' = answered \cup {a}
    /\ UNCHANGED <<storeVars, snapVars, rowVars, ctlVars, accepted, held, hostVars, proc>>

ConfirmCancel(a) ==
    /\ a \in answered
    /\ answered' = answered \ {a}
    /\ cancel' = [cancel EXCEPT ![a] = IF CanMove(a, @) THEN "done" ELSE @]
    /\ UNCHANGED <<storeVars, snapVars, rowVars, decided, approval, accepted, exec, held,
                   hostVars, proc>>

(* The host that asked died before it recorded the answer. *)
AnswerLost(a) ==
    /\ a \in answered
    /\ answered' = answered \ {a}
    /\ UNCHANGED <<storeVars, snapVars, rowVars, ctlVars, accepted, exec, held, hostVars, proc>>

(* The worker's own end, as the platform reports it. *)
WorkerEnds(a, how) ==
    /\ exec[a] = "live"
    /\ exec' = [exec EXCEPT ![a] = how]
    /\ UNCHANGED <<storeVars, snapVars, rowVars, ctlVars, accepted, held, answered,
                   hostVars, proc>>

-----------------------------------------------------------------------------
Init ==
    /\ run = 0
    /\ control = [r \in Runs |-> "none"]
    /\ order = [r \in Runs |-> "none"]
    /\ node = [n \in Nodes |-> Entry("pending", 0)]
    /\ phase = "unstarted"
    /\ seq = 0
    /\ runOf = [a \in Attempts |-> 0]
    /\ nodeOf = [a \in Attempts |-> 0]
    /\ verifier = [a \in Attempts |-> 0]
    /\ effect = [a \in Attempts |-> "none"]
    /\ claim = [a \in Attempts |-> "none"]
    /\ cancel = [a \in Attempts |-> "none"]
    /\ decided = [a \in Attempts |-> {}]
    /\ approval = [a \in Attempts |-> "none"]
    /\ accepted = {}
    /\ exec = [a \in Attempts |-> "none"]
    /\ held = [a \in Attempts |-> 0]
    /\ answered = {}
    /\ right = [a \in Attempts |-> "free"]
    /\ vault = [p \in Procs |-> [a \in Attempts |-> 0]]
    /\ proc = [p \in Procs |-> Idle]

Runtime(p) ==
    \/ StartRead(p) \/ StartCommit(p) \/ StartRefused(p)
    \/ \E a \in Attempts, channel \in {"credential", "host"} : SubmitRead(p, a, channel)
    \/ \E S \in SUBSET Nodes, stops \in BOOLEAN : SubmitCommit(p, S, stops)
    \/ SubmitRefused(p)
    \/ ReexecuteRead(p) \/ ReexecuteCommit(p) \/ ReexecuteRaced(p)
    \/ ResumeRead(p) \/ ScanEffects(p)
    \/ \E answer \in {"created", "absent", "unknown"} : Examine(p, answer)
    \/ Fence(p) \/ Reissue(p)
    \/ \E made \in {"live", "refused"} : Create(p, made)
    \/ CreateFails(p) \/ MarkStarted(p)
    \/ Crash(p)

Controller ==
    \/ \E cmd \in Commands : StopRun(cmd)
    \/ \E a \in Attempts, cmd \in Commands : StopAttempt(a, cmd) \/ DecideApproval(a, cmd)
    \/ \E p \in Procs, n \in Nodes : RetryNode(p, n)
    \/ OrderReexecution
    \/ \E a \in Attempts : RaiseApproval(a) \/ ExpireApproval(a)

Host ==
    \/ \E a \in Attempts :
          \/ HostFailure(a)
          \/ RequestCancel(a) \/ PlatformCancels(a) \/ ConfirmCancel(a) \/ AnswerLost(a)
    \/ \E a \in Attempts, how \in {"completed", "failed"} : WorkerEnds(a, how)

Next == Controller \/ Host \/ \E p \in Procs : Runtime(p)

Spec == Init /\ [][Next]_vars

(* The declared graph keeps being started, by boots or by callers; a call  *)
(* that keeps reaching a step is not killed there every time; the host is  *)
(* able to prove absence again and again, and deliveries do not throw for  *)
(* ever.                                                                   *)
RecoveryFairness ==
    \A p \in Procs :
        /\ SF_vars(ResumeRead(p))
        /\ SF_vars(ScanEffects(p))
        /\ SF_vars(Examine(p, "absent"))
        /\ SF_vars(Fence(p))
        /\ SF_vars(Reissue(p))
        /\ SF_vars(\E made \in {"live", "refused"} : Create(p, made))

FairSpec == Spec /\ RecoveryFairness

-----------------------------------------------------------------------------
(* Properties.                                                             *)

ProcStates ==
    [pc : {"idle", "start", "settle", "reexecute", "scan", "examine", "fence", "reissue",
           "create", "mark"},
     mode : {"none", "launch", "reconcile"}, cur : 0 .. MaxSeq, todo : SUBSET Attempts,
     view : [Attempts -> Nat], run : 0 .. MaxRuns, seq : 0 .. MaxSeq]

(* Every row, snapshot and call in progress has the shape its table or     *)
(* record declares.                                                        *)
TypeOK ==
    /\ run \in 0 .. MaxRuns
    /\ control \in [Runs -> {"none", "retry"} \cup RunWide]
    /\ order \in [Runs -> {"none", "ordered", "executed"}]
    /\ node \in [Nodes -> [status : {"pending", "dispatched", "settled"}, attempt : 0 .. MaxSeq]]
    /\ phase \in {"unstarted", "executing", "complete", "stopped"}
    /\ seq \in 0 .. MaxSeq
    /\ runOf \in [Attempts -> 0 .. MaxRuns]
    /\ nodeOf \in [Attempts -> Nodes \cup {0}]
    /\ verifier \in [Attempts -> Nat]
    /\ effect \in [Attempts -> {"none", "pending", "started", "done", "failed"}]
    /\ claim \in [Attempts -> {"none", "reserved", "released"}]
    /\ cancel \in [Attempts -> {"none", "started", "done"}]
    /\ decided \in [Attempts -> SUBSET AllCommands]
    /\ approval \in [Attempts -> {"none", "pending", "approved", "rejected", "expired"}]
    /\ accepted \in SUBSET Attempts
    /\ exec \in [Attempts -> {"none", "refused", "live", "completed", "failed", "cancelled"}]
    /\ held \in [Attempts -> Nat]
    /\ answered \in SUBSET Attempts
    /\ right \in [Attempts -> Procs \cup {"free"}]
    /\ vault \in [Procs -> [Attempts -> Nat]]
    /\ proc \in [Procs -> ProcStates]

(* An attempt that was stopped or superseded is never accepted, and an     *)
(* accepted one is never stopped or superseded afterwards, whichever of a  *)
(* submission and a command read first.                                    *)
AcceptedStands == \A a \in accepted : decided[a] \cap (Stopping \cup {"retry"}) = {}

(* An attempt whose approval is open, rejected or expired is never         *)
(* accepted, and no request is raised on an accepted attempt.              *)
AcceptedUnpaused == \A a \in accepted : ~ Paused(a)

(* The accepted events and the snapshot tell the same story: a node is     *)
(* settled on an accepted attempt, no attempt in flight is accepted, and   *)
(* the snapshot never falls behind an attempt its run accepted.            *)
SnapshotAgrees ==
    /\ \A n \in Nodes : node[n].status = "settled" => node[n].attempt \in accepted
    /\ InFlight \cap accepted = {}
    /\ \A a \in accepted : runOf[a] = run => node[nodeOf[a]].attempt >= a

(* Attempt ids are unique in the graph: no retry, acceptance, delayed      *)
(* start or re-execution mints an id some run already used.                *)
AttemptIdsNeverReused ==
    [][\A a \in Attempts : runOf[a] # 0 => runOf'[a] = runOf[a] /\ nodeOf'[a] = nodeOf[a]]_vars

(* start() is idempotent: a settled node is never put back in flight on    *)
(* the attempt that settled it.                                            *)
SettledNotRedispatched ==
    [][\A n \in Nodes :
        node[n].status = "settled" /\ node'[n].status = "dispatched"
            => node'[n].attempt # node[n].attempt]_vars

(* The worker of an attempt in flight can settle it: the credential it was *)
(* given is the one the snapshot verifies.                                 *)
WorkerCanSettle == \A a \in InFlight : exec[a] = "live" => held[a] = verifier[a]

(* A verifier is never replaced once an execution was asked for: a start,  *)
(* a retry or a re-issued credential cannot disown a worker that is out    *)
(* there.                                                                  *)
NeverRebound ==
    [][\A a \in Attempts : verifier'[a] # verifier[a] => exec[a] = "none"]_vars

(* One order mints one run: the runs before the current one are exactly    *)
(* those whose order was executed, and each of them was closed.            *)
OneRunPerOrder ==
    \A r \in Runs : /\ order[r] = "executed" <=> r < run
                    /\ r < run => control[r] # "none"

(* A run is re-executed only when no attempt it had in flight can still be *)
(* running: a live execution of an earlier run belongs to an attempt that  *)
(* settled or that a retry had already replaced.                           *)
NoLiveLeftBehind ==
    \A a \in Attempts : runOf[a] \in 1 .. run - 1 /\ exec[a] = "live"
        => a \in accepted \/ "retry" \in decided[a]

(* budget.max_executions bounds the dispatches of a run, retries and loop  *)
(* rounds included, although settled attempts release their claims.        *)
BudgetHeld == \A r \in Runs : Spent(r) <= MaxExecutions

(* A dispatch effect tells the truth about the attempt: started means an   *)
(* execution exists, done means it was accepted, failed means the platform *)
(* saw its execution fail and the attempt was stopped.  The reservation is *)
(* given back exactly when the effect has ended.                           *)
EffectTellsTruth ==
    \A a \in Attempts :
        /\ effect[a] = "started" => exec[a] # "none"
        /\ effect[a] = "done" <=> a \in accepted
        /\ effect[a] = "failed" => exec[a] = "failed" /\ "failure" \in decided[a]
        /\ effect[a] \in {"done", "failed"} <=> claim[a] = "released"

(* A committed dispatch is not forgotten: while its run goes on, it is     *)
(* handed to the platform, settled, replaced or stopped, although its      *)
(* process may die between any two steps and forget the credential.  (The  *)
(* last case is the bound on credentials.)                                 *)
DispatchesRecovered ==
    \A a \in Attempts :
        (a \in InFlight /\ effect[a] = "pending")
            ~> \/ exec[a] # "none"
               \/ a \notin InFlight \/ Stopped(a)
               \/ Terminal
               \/ verifier[a] = MaxVersions /\ \A p \in Procs : vault[p][a] = 0

-----------------------------------------------------------------------------
(* The abstract specification of attempts that the ledger implements.      *)

FateOf(a) ==
    CASE a \in accepted -> "accepted"
      [] a \notin accepted /\ "retry" \in decided[a] -> "replaced"
      [] a \notin accepted /\ "retry" \notin decided[a] /\ Stopped(a) -> "stopped"
      [] OTHER -> IF runOf[a] = 0 THEN "none" ELSE "open"

Fates == INSTANCE AttemptFates WITH fate <- [a \in Attempts |-> FateOf(a)]

(* Whatever calls, commands, crashes and re-executions do to the tables,   *)
(* each of their steps opens, accepts, stops or replaces attempts as the   *)
(* abstract specification allows, or none.                                 *)
ImplementsAttemptFates == Fates!Spec
=============================================================================
