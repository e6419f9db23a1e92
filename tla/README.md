# Rolebox in TLA+

Rolebox runs agents on several coding platforms. Its largest own piece of logic
is the **outcome graph engine** (`src/graph/`): a declared graph of agents is
compiled to a plan, the plan is run by a reducer that is driven by accepted
outcomes, every step is committed to a SQLite ledger, and every node that is
dispatched becomes exactly one execution on the platform, also when several host
processes share the store and any of them may die. A trusted controller may stop,
retry, pause and re-execute while all that goes on. Beside it stand the **team
runtime** (`src/team/`), which lets peers wake each other with events under one
turn budget, and the **background dispatch manager** (`src/dispatch/`), which
runs a task as a session of its own and tells its parent when it ends; on Pi the
graph's workers are such tasks. This directory models these three systems,
checks them with TLC on small instances, and proves the main invariants of the
graph engine with TLAPS for every instance.

Paths below are relative to the repository root (`src/...` in `PROJECT.json` is
that root).

## Inventory

| Part | State | Operations | What is hard |
|---|---|---|---|
| Graph compiler (`src/graph/compiler`) | none; a pure function | compile a declaration, inspect a stored plan | its rules are what the reducer relies on: entry nodes, satisfiable joins, contained cycles, resolvable inputs |
| Outcome reducer (`src/graph/outcome/graph-state.ts`, `join-state.ts`, `inputs.ts`, `progress.ts`) | one progress entry per node, loop counters, progress records, the attempt counter, a stop reason, a phase | advance on an accepted outcome | several attempts in flight settle in any order; one advance re-enters several nodes; joins and inputs of different rounds must not mix; the verdict complete, stopped or executing |
| Outcome runtime and ledger (`runtime.ts`, `runtime-recovery.ts`, `src/graph/store`) | snapshot per run, accepted events, effect rows, credentials, budget | start, submit, natural and host-derived completion, re-execute, recover | one transaction per decision, a crash between the commit and the platform's create, late or repeated submissions |
| Control (`src/graph/control`, `outcome/cancel.ts`) | control facts per run and per attempt, approvals, cancel effects | stop, retry, approve, cancel | a trusted command races the worker it is about; unconfirmed cancellations |
| Host execution registry (`src/graph/host/execution-index.ts`, `dispatch-host.ts`, table `executions` of `store/graph-store.ts`) | one row per dispatch effect, a claim cached per process | claim, take over, mark creating, deliver, confirm, release, adopt, look up | several processes, lapsing leases, asynchronous delivery, crashes, lost answers |
| Outcome host and bridges (`src/graph/host`) | credential vault, in-memory indexes | route platform events, inject credentials | a wiring layer over the parts above |
| Team runtime (`src/team`, `platform/adapters/dsh/team-session*.ts`) | one record per team in SQLite: members, cursors, deliveries, tasks, turn budget, lock; one lease per session | pump (reconcile, deliver, forget), create, add, message, tasks, remove, delete, resume | several processes pump the same team; a prompt is lost or late; users and other teams use the same session; an operation waits on the host in the middle |
| Background dispatch (`src/dispatch`) | tasks, in-flight counters, watchdog and debounce timers, notification outbox and queue, listeners, state file | launch, evaluate, complete, cancel, approve, continue, notify, recover | every handler may run while another awaits the host; the parent must be told once, and not before its children end; counters must not leak |
| Loop coordinator (`src/loop`) | loop records | iterate, judge, cancel, resume | the tools that start it are not registered in this version |
| Signals (`src/signal`), recovery engine (`src/recovery`) | signals per session, retry chains | record, look up, retry | little: maps and a bounded loop in one process |
| Tools, prompts, CLI, TUI, LSP, web, memory, logging, adapters | caches, files | I/O | not protocol logic |

How they interact: the compiler's plan is fixed when a graph is declared. A
worker's submission is validated and, in one store transaction, accepted,
reduced and persisted together with one dispatch effect per newly armed node.
After the commit the runtime asks the dispatch host to create an execution for
each effect; the host claims the effect's row, marks it, hands the request to
the platform and later confirms what the platform reports. Recovery reads the
effect rows and looks executions up through the registry before it re-creates.
On Pi that platform is the dispatch manager: a worker is launched as a background
task whose completion notification is suppressed, and the host listens for its
end (`platform/adapters/pi/outcome-dispatch.ts`). Teams share only the platform's
sessions with the other two.

`PROJECT.json` lists every component with its status, and the hazards: what is
hard to test here, at the line where it bites, with the properties that watch it.

## Modules

| Module | Models | Kind |
|---|---|---|
| `GraphPlan` | the compiled plan, the readers shared by compiler and reducer, the compile rules | operators |
| `OutcomeGraph` | minting, re-executing and advancing a run | specification |
| `MCOutcomeGraph` | plans for TLC | model |
| `OutcomeGraphProofs` | theorems about `OutcomeGraph` | proofs |
| `CreateOnce` | what the registry promises: one right to create per effect | abstract specification |
| `ExecutionClaims` | the registry, the processes in front of it, the platform | specification |
| `MCExecutionClaims` | symmetry for TLC | model |
| `ExecutionClaimsProofs` | theorems about `ExecutionClaims`, and that it implements `CreateOnce` | proofs |
| `AttemptFates` | what the ledger promises about attempts: each is dispatched once, then accepted, stopped or replaced | abstract specification |
| `RunLedger` | the acceptance ledger, recovery, credentials, budget, trusted control and cancellation of one graph | specification |
| `MCRunLedger` | node sets and symmetry for TLC | model |
| `RunLedgerProofs` | theorems about `RunLedger`: attempts, orders, rights | proofs |
| `RunLedgerRowsProofs` | theorems about `RunLedger`: the snapshot, the effects, cancels, the budget, credentials, and that it implements `AttemptFates` | proofs |
| `TeamRuntime` | team records, pumps and operations of several processes, the DSH session host | specification |
| `MCTeamRuntime` | scenarios for TLC | model |
| `TeamRuntimeProofs` | theorems about `TeamRuntime`: records, budget, claims | proofs |
| `TeamDeliveryProofs` | theorems about `TeamRuntime`: the lock, the deliveries | proofs |
| `TeamSessionProofs` | theorems about `TeamRuntime`: sessions, cursors, leases | proofs |
| `DispatchTasks` | the background task manager, its state file and the platform's sessions | specification |
| `MCDispatchTasks` | scenarios for TLC | model |
| `DispatchTasksProofs` | theorems about `DispatchTasks`: types, counters, notifications | proofs |

### GraphPlan and OutcomeGraph

A plan is a record of nodes, declared outcomes, edges, loop groups, joins and
inputs. Node ids are naturals whose order is the order of the plan's sorted node
list, because attempt numbers are handed out in that order. `Compiles` restates
the rules of `compile.ts` and `plan.ts` that concern topology; the least fixed
points the code computes with work lists (`upstreamOf`, `dispatchableBefore`,
`stillReachableNodes`) are written as "belongs to every closed set".

The variables of `OutcomeGraph` are the fields of `OutcomeGraphState`, the run
number, and the accepted results of the ledger. One step is one transaction:

- `Start` and `Reexecute` are `mintRunInTransaction`: entry nodes dispatched with
  fresh numbers, everything else pending. The attempt counter continues across
  runs. Which executions of a stopped run are confirmed cancelled before a
  re-execution is control-ledger state and not modelled here.
- `SettleTerminal`, `SettleExhausted`, `SettleStalled` and `SettleRouted` are the
  four ways `advanceOutcomeGraph` can take an accepted outcome. A worker may
  report any outcome its node declares; a loop round may observe any progress
  token, or none that is comparable.
- A re-entry that is not allowed throws inside the transaction. The acceptance
  is rolled back with it, so it is a guard of `SettleRouted`, not a step.
- The three loops of an advance, for the arm set (`resolveArmSet`), the inputs
  basis and the set of blocked candidates, are one operator, `Iterated`: a round
  (`Unarmed`, `Swung`, `Refused`) applied once more than there are candidates,
  which is as often as the code can. It is a recursive function and not a
  `RECURSIVE` operator, so that it can be proved about.

Left out: payloads, artifacts and digests (a result is its node, attempt,
outcome and run), credentials, timestamps, budget claims, refusal texts, and
the codec's consistency checks of a stored snapshot.

### CreateOnce and ExecutionClaims

Each process (an `ownerId`, fresh at every start) runs one create or lookup at a
time and may die between any two of its transactions; a restart is another
owner. A row of `executions` is `none`, `pending`, `creating` or `created`, with
the owner, its generation, the release mark and whether the lease still runs.
`Claim` to `ReleaseAfterThrow` are the transactions of
`HostOutcomeDispatch.create`; `ConfirmStarted` and `ReportDeliveryFailure` are
the platform's callbacks; `LookupLocal`, `LookupPlatform` and
`BindPlatformExecution` are `lookup`. The platform (`PlatformResolves`), the
clock (`LeaseExpires`) and `Crash` are external: a handed-over request may
create and answer, create and answer with a failure, or fail, at any later time.

`ProofMode` says what the platform's `absent` means: the shipped adapters never
give it (`never`); `settled` is the guarantee the code needs; `instant` is a
query that is true only at the moment it is asked.

`CreateOnce` keeps one right per effect: spend it, make one execution from it,
give it back while nothing was made, bind it for good. The refinement reads a
`creating` row as a spent right and a `created` row as a bound one.

### AttemptFates and RunLedger

One graph on one workspace store, with the host processes that share it. Between
them the three specifications cut the engine along its interfaces: `OutcomeGraph`
is what an acceptance does to the snapshot, `ExecutionClaims` is how a create
right is taken, and `RunLedger` is what happens around them. It takes an
acceptance as "some nodes that are not in flight are armed, and the run may
stop" (every advance of `OutcomeGraph` has that shape) and the registry as one
right per attempt (`CreateOnce`), which a holder loses only by dying.

| Variables | Code |
|---|---|
| `run`, `control`, `order` | tables `graph_runs`, `graph_control_decisions` (the run's control fact) and `graph_run_reexecutions` |
| `node`, `phase`, `seq` | the current run's snapshot: status and attempt of each node, phase, attempt counter |
| `runOf`, `nodeOf`, `verifier` | where an attempt's rows are filed, and the recorded digest of its credential |
| `effect`, `cancel`, `claim` | dispatch effect, cancel effect and budget reservation of an attempt |
| `decided`, `approval`, `accepted` | control decisions, approval request and accepted event of an attempt |
| `exec`, `held`, `answered` | the platform: execution, the credential its worker was given, cancel answers on their way |
| `right`, `vault`, `proc` | create rights, the in-memory vault of each process, and what its current call has read and has left to do |

A transaction is one step and a read outside a transaction is a step of its own:

- `StartRead`, `StartCommit`, `StartRefused` are `start()`; `SubmitRead`,
  `SubmitCommit`, `SubmitRefused` are `settleSubmission()` on the credential and
  the host channel; `ReexecuteRead`, `ReexecuteCommit`, `ReexecuteRaced` are
  `reexecute()`. What the read saw may be stale when the transaction runs; only
  the checks the code repeats inside it are guards of the commit.
- `Create`, `CreateFails`, `MarkStarted` are `launch()` and the end of
  `reconcile()`. `ResumeRead`, `ScanEffects`, `Examine`, `Fence`, `Reissue` are
  `resume()`: the snapshot, then the effects, then one lookup per pending effect,
  then either a create or a re-issued credential under the create right.
- `StopRun`, `StopAttempt`, `HostFailure`, `RetryNode`, `OrderReexecution`,
  `RaiseApproval`, `DecideApproval`, `ExpireApproval` are the commands of
  `src/graph/control`, one transaction each.
- `RequestCancel`, `PlatformCancels`, `ConfirmCancel`, `AnswerLost` are
  `deliverCancelIntents`. `Crash` loses the call, the vault and the rights of a
  process.

Credentials are version numbers: the n-th one minted for an attempt is n. The
vault is the shipped one, in memory only. `SameInstant` says whether processes
that race to start read the same millisecond, on which the identity of the run
depends.

`AttemptFates` says what all this is for, without calls, snapshots, effects or
credentials. It keeps the run, the run and the node of each attempt, and the
attempt's fate: `none`, `open`, `stopped`, `replaced` or `accepted`. `Begin` is a
first or next run, allowed when nothing of the run before it is open; `Accept`
ends an open attempt and dispatches new ones to nodes that have no other undecided
attempt; `Stop` ends open ones of the current run; `Replace` is a retry, of an
open or stopped attempt. Whatever has a result or a successor keeps its fate, and
after its run an attempt changes no more. The refinement reads the fate from the
accepted events and the control decisions (`FateOf`), and not from the snapshot,
which is what the code acts on: that the two never disagree is what it has to show.

Left out: rejected submissions and the replay of an accepted one (they write no
state the properties read), replayed commands, permissions, token and cost
ceilings and usage reports, durable credential stores, and lapsed leases of
processes that are slow but alive (in `ExecutionClaims` only).

### TeamRuntime

A team is a record in SQLite, and `TeamStore.update` is one transaction. Several
runtimes (host processes) share the store; a runtime is `new`, `up`, `stopping`
or `down` and never comes back, a restart being another one.

| Variables | Code |
|---|---|
| `db` | the team records: status, lock (`control`), members, cursors, deliveries, events, tasks, `turns`; `spent` is what ended turns cost, kept for the budget property |
| `lease` | the session leases of `team-session-lease.ts` |
| `home`, `log`, `late` | the host: which process holds a session's agent, its turns in order (queued, running, ok, failed, lost), prompts whose caller gave up |
| `up`, `pump`, `op` | each process, its pump, and each lifecycle operation, with what it has read and has left to do |

- `PumpObserve` to `PumpAfter` are one pass of the pump over one member:
  `reconcile()` (observe, judge, release), then `deliver()` (reserve, create the
  session, check, take the lease, prompt, confirm). `PumpExpire` and `PumpForget`
  are its two other duties, `PumpCreateFails`, `PumpPromptFails` and
  `PumpReplyLost` its error paths.
- `Create`, `Add`, `SendMessage`, `OfferTask`, `ClaimTask`, `SettleTask`,
  `ClaimLapses` are what members do from inside their turns. `BeginRemove`,
  `BeginDelete` and `BeginResume` take the lock; the `Op...` steps do the rest,
  one host call or transaction each, and may be overtaken at every one of them.
- `TurnStarts`, `TurnEnds`, `UserTurn`, `LatePrompt` and `SessionError` are the
  host and the user; `Start`, `Restore`, `Stop`, `Disposed` and `Crash` are the
  life of a process. `AwaitsHost` says when another handler of the same process
  may run: only where the code awaits.

Left out: notices that wake nobody (they only use up sequence numbers), the
baseline of message ids (a turn after the marker is never in it), sessions
switched to another role, adding a role again after its removal, the limits on
events and members, model changes, workspace adoption and queries. The order of
turns stands for the comparison of their times with the delivery's start.

### DispatchTasks

One process on one thread: what the manager does between two awaits is one
action, and an await is a member of `mem.calls` until the host answers.

| Variable | Code |
|---|---|
| `mem` | the manager's memory, lost in a crash: the task table, in-flight counters, routing, poll state, watchdogs and debounces, outbox, sent finals, clean-up timers, listeners, notification queues |
| `disk` | the state file, written by a debounced timer (`Persist`) |
| `host` | sessions, their transcripts, approval signals, and what a parent was told |
| `lim`, `used` | the scenario and how much of it is used up |

`Launch`, `Created`, `Prompted` and their failures are `task-launcher.ts`;
`Cancel` is `task-cancellation.ts`; `Evaluate`, `DebounceElapsed`, `IdleSeen`,
`Decide`, `Materialized` and `Verified` are the watchdog, the idle debounce, the
sweep and the completion evaluator; `Resolve` is `approveTask` and `rejectTask`;
`Reopen` to `RepromptFailed` are the continuation of a task; `SendNotification`,
`SweepOutbox` and `CleanupDue` are notification, outbox and clean-up; `Crash`,
`Restart`, `SessionFound` and `SessionLost` are recovery.

Left out: synchronous tasks, metrics, progress reports, checkpoints, result
files, the token budget sampler (whose only effect is `Cancel`), a prompt that is
reported failed and delivered anyway, and clean-up delays shorter than a host
call.

## Runs

| Run | Instance | Shows |
|---|---|---|
| `graph_shapes` | seven plans, two runs each, fair workers | attempts are settled once and numbered apart across re-executions; inputs are accepted results of this run; inputs and joins never use what the same advance supersedes; loop caps and progress policies hold; the phase is true; every run completes or stops |
| `graph_small` | all 4012 compiling plans of three nodes with two to four edges, with and without a loop group, joins all or any | a run stopped as unreachable could not have dispatched a stranded node, on shapes nobody picked |
| `claims_adoption` | three processes, one effect, settled proofs | at most one execution while processes race to adopt, which a created row names; a registry `absent` is a proof; no process ever reports a conflicting execution; the fence only moves forward; refinement of `CreateOnce` |
| `ledger_races` | two nodes, two processes, failures and retries, two credentials per attempt | stopped and superseded attempts are never accepted; snapshot and accepted events agree; the budget holds; no verifier is replaced once an execution was asked for |
| `ledger_reexecution` | one node, two processes, two runs, cancel and retry | one run per order; no live worker of an attempt in flight is left behind; attempt ids are never reused; refinement of `AttemptFates` |
| `ledger_commands` | two nodes, one process, two runs, approval commands, timeout, budget-stop, failure, retry | a paused attempt is never accepted; effect rows and reservations tell the truth |
| `ledger_recovery` | one node, one process that keeps dying, three credentials, fair recovery | every committed dispatch is handed over, settled, replaced or stopped; its worker can settle |
| `team_races` | six scenarios: a process lost or stopped, lost host calls, two teams in one session, error events, shared work, two peers with the lead | the turn budget is exact; one coordinator per session; no event is skipped; every delivery has someone left to settle it; claims stay with active members at work; one operation at a time |
| `team_progress` | two scenarios, one with lost calls, one with a lost process | an event that wakes a peer reaches it; the session of whoever leaves is let go of |
| `dispatch_tasks` | eight scenarios: siblings and a cancel, a nested task, faults and approval, failures, a suppressed task, refusals, a crash, a continuation | the counters never exceed what runs; a parent is told once and is told; it waits for its children; listeners hear of the end |

Two runs are expected to be violated, each by something the code does that a
comment or document of the repository denies (details under `findings`):

- `ledger_same_instant`: two processes that start a graph in the same millisecond
  derive the same run identity, and the second overwrites the first's snapshot.
- `team_user_turn`: a delivery's turn fails, the user then talks to the peer, and
  the pump takes the user's successful turn for the end of the delivery.

Smaller disagreements that the models contain and no run is spent on. In the graph
engine:

- A candidate that was blocked in an early pass of an advance is not suppressed in
  the later ones; it can then be dispatched itself, after a join was armed on its
  old arrival in the same advance (`graph-state.ts:451`, against
  `docs/graph-outcome-protocol.md:546`). It takes a plan of five nodes, which is
  why `JoinsNotSuperseded` is checked on the plans of `graph_shapes` and proved
  of those that are `RoundsDecided`.
- A cycle inside a loop group that does not use the group's continuation outcome
  is repeated without being counted (same document, lines 174 and 210).
- A node blocked on an input is not looked at again when the producer settles on
  the wanted outcome without an edge to it; the run then stops as unreachable
  although the node could run (`graph-state.ts:577`, against the comment at
  `state-model.ts:203`). `StrandedCannotRun` therefore holds of the plans of
  `graph_small`, where every producer has an edge to its consumer, and not of all;
  `InputsRouted` is that condition in the theorem.
- A quorum above the number of feeders compiles (`compile.ts:565`, against the
  comment at `compile.ts:462`).
- An `absent` that is true only at the instant of the query (`ProofMode =
  "instant"`) lets an adopter create while the owner is about to deliver
  (`dispatch-host.ts:477`, against the comment at line 119). The shipped adapters
  never answer `absent`.
- An attempt-scoped stop expires its siblings' approval requests
  (`stop-command.ts:222`), a timeout hands a cancel to the platform
  (`outcome-host.ts:2391`), and a stop between a commit and its create does not
  keep the execution from being created (`runtime.ts:1468`), against lines 617,
  641 and 609 of `docs/graph-outcome-protocol.md`.
- A process creates with the credential in its own vault although another process
  has re-issued it since; its worker cannot settle. The vault is also filled before
  the transaction that mints commits (`credential-vault.ts:174`).
- A superseded attempt never blocks a re-execution, so its execution may outlive
  its run, and in a cancelled run an attempt that already carries a failure
  decision gets no cancel effect, after which the run cannot be re-executed
  (`retry-command.ts:541`).

In teams:

- `resume()` takes a delivery for running because it was confirmed once and its
  session is busy now, also when the prompt was withdrawn and the user's own turn
  runs (`team/runtime.ts:401`, against `docs/team-work.md:94`). The team is then
  active with a delivery nothing settles until its session has another turn.
- A turn that a crash cut off is acknowledged like a failed one: after the restart
  the user's next successful turn in that session settles its delivery
  (`team/runtime.ts:611`, against `docs/team-work.md:70`). `NothingSkipped`
  therefore asks for a turn that is over, not for one that came to its end.
- A `session.error` that is reported late drops the delivery that is current by
  then, and a peer whose session was created while it was being removed is
  forgotten by nobody (`team/runtime.ts:702`).

In the dispatch manager:

- A cancel of a task whose session is still being created is undone when the
  create returns (`task-launcher.ts:134`, `task-cancellation.ts:15`): the task
  runs, its clean-up timer drops it while it runs, and its count and its listener
  stay behind. `ListenersHear` leaves this case out.
- A failed launch and a failed recovery announce zero remaining tasks, which reads
  "All background tasks have finished" (`notification.ts:183`), while siblings run
  (`task-launcher.ts:183` and `213`, `recovery-orchestrator.ts:90` and `98`).
- A prompt that fails after its task was cancelled or given up decrements the
  counter a second time (against `lifecycle-shared.ts:148`). `InflightTrue` is
  exact only in scenarios without failing launches.
- A continued task keeps its old clean-up timer, its completion is never announced
  (finals are recorded per task id), and a failed re-prompt leaves it running
  unwatched.
- The idle debounce does not look for children when it completes a task
  (`completion-evaluator.ts:412`; only the other triggers do, line 430). A prompt
  that lands while the idle event's transcript is being read starts a turn beside
  the debounce, and if the reads of the debounce fall between two turns the task is
  completed although the new turn launched a child, against the wait that
  `completion-evaluator.ts:603` announces. It takes a task that is continued and has
  children; `ParentWaits` is checked where a task is not both.
- `approveTask` and `rejectTask` notify without the outbox; a crash after the
  completion and before the outbox is on disk loses the announcement, and one that
  was deleted only in memory is sent again after a restart. `ToldOnce` says which
  cases it leaves out.

**Bounds.** `MaxRuns` bounds re-executions: two runs are enough for a number or a
result of an earlier run to be mistaken for one of the current run.
`MaxAttempts` never binds in `graph_shapes`, whose plans end by their own loop
caps. In `graph_small` it does bind (seven attempts, more than
two rounds of all three nodes), because such plans include uncounted cycles;
only safety is checked there. Loop caps of one to three include the rounds
before, at and past the cap, and two tokens distinguish changed from unchanged.
The seven plans are: a diamond with a failing branch, a review loop with a
progress policy and feedback, a loop that fans out and joins, a round that
re-enters a chain of consumers, one that re-enters a join with one of its
feeders, a quorum inside a loop, and nested loops that share their outcome.
`MaxGeneration` bounds takeovers and releases to two or three per row: enough
for a claim to be lost, released, reclaimed and lost again.
In the ledger runs `MaxSeq` bounds attempts: two or three, so that an attempt can
be superseded or re-executed and its successor settle or be stopped, and with
`MaxExecutions` 2 the budget refuses the third. `MaxVersions` bounds only the
re-issue of credentials. Each run allows the commands its question is about,
because the controller may issue any of them at any time; the races of a command
with a submission, a launch and a recovery need two processes, the sequences over
two runs of a larger graph do not.

In the team and dispatch runs the environment is bounded by scenarios, records of
how many messages, user turns, operations, crashes, lost calls, faults and cancels
may happen; TLC starts in each of them. A scenario combines the events whose races
a question is about: all of them at once would be too many states and would add
only independent interleavings. Two deliveries may be in flight in a team by the
code's own limit, so two peers and a lead already compete; `MaxDeliveries` 4 lets
a delivery fail, be refunded, be repeated and settle. Two teams share one session
and two processes one store, the smallest numbers at which a lease or a lock
matters. Two siblings and one grandchild make the counters of a parent and of a
task that is itself a parent differ; `MaxTries` is 2 where the
code tries four times (`NOTIFY_MAX_RETRIES`): a failure before the last try and at
it are the two cases.

**Deadlock.** `graph_shapes` checks for deadlock: `Finished` marks the end of the
last modelled run, so any other state without a step would be reported. The
other runs stop at a bound or with everything done or dead, and do not check it;
a ledger run may also end for good in a complete or stopped run, all processes of
a team may be down, and a dispatch run ends with its tasks.

**Fairness.** `graph_shapes` assumes that an attempt that stays in flight, and has
an outcome the reducer would accept, is eventually settled: workers answer, and
natural completion and host-derived completion settle those that end silently.
It is written out as `Fairness` because TLC evaluates `ENABLED` of the advance
very slowly. It promises nothing about an attempt all of whose outcomes are
refused (a late feeder of an `any` join outside a loop), and no plan of that run
has one.

`ledger_recovery` assumes strong fairness of the steps of a resume. The declared
graph is resumed again and again (every boot and every call that starts it does
so), a process that keeps reaching a step is not killed there every time, the
host can prove absence of what was never asked for, and deliveries do not throw
for ever. Nothing is assumed about launches: `launch()` runs once, and what it
leaves behind is for recovery. The property excuses an attempt whose credential
was lost when the bound on credentials is used up.

`team_progress` assumes that a process that lives goes on with its pump and visits
every member in turn (the pump runs on a timer and iterates the whole record; a
visit needs the pump free, hence strong fairness), that an operation under way
goes on, that the host runs its inboxes and turns end, and that a replacement
process is started. Nothing is assumed of members, users, late prompts or
failures. It has no resumption, because of the kept delivery listed above.

`dispatch_tasks` assumes that host calls are answered, that a turn ends or is
found stalled, that the watchdog's timer fires, that queued notifications are
sent and that a crashed process is restarted. Neither the debounce nor the outbox
sweeper is needed for a task to end, so neither is assumed fair.

## Proofs

Type correctness of every specification but `TeamRuntime` is left to these proofs;
the runs spend their time on other properties.

`OutcomeGraphProofs` holds for every set of compiled plans:

- `TypeCorrect`. `SettleEffect` is the common shape of the four settlements: one
  entry settled, a set of other entries dispatched on fresh consecutive numbers
  with inputs that resolve, everything else kept. The later proofs use only that.
- `AttemptsSettleOnce` (`OneResultPerAttempt`). The inductive invariant
  `OnceInv` adds that a pending node has no number yet; without it a fresh entry
  could collide with a number left over. `RankFacts` gives that numbers handed
  out in one transaction are distinct and consecutive.
- `ConsumersUseAcceptedResults` (`InputsAccepted`), on top of `OnceInv`: an input
  is found by attempt number, so it is the producer's result only because a
  number is accepted once.
- `PhaseReportsTheRun` (`PhaseIsTrue`). `PhaseInv` adds that a started run has
  attempted its entry nodes: a pending node then has a feeder, so with nothing
  in flight it is found unreachable and the run stops. It uses
  `CompiledPlanStarts`: a plan that compiles has an entry node.
- `LoopLimitsHold` (`LimitsHold`). `LimitsInv` adds that only a counted round
  writes a baseline, which is why a streak is shorter than the rounds run.
- `InputsStand` (`InputsNotSuperseded`), `JoinsStand` (`JoinsNotSuperseded`) and
  `StrandedNodesWait` (`StrandedCannotRun`) need to know what the loops of an
  advance end in. What a loop of n rounds computes is an induction over data, which
  no operator can be passed to here; it is done with sets instead. `IteratesExist`
  gives the function of the rounds, and `IteratedIn` says that a set that holds the
  start and is closed under a round holds the result: the least round that left it
  would have a predecessor. From there `IteratedGrows` (a loop that only adds
  members of a finite set ends in a fixpoint, when it has a round more than there
  are members) and `IteratedShrinks` (a monotone loop that starts with all members
  ends in the greatest fixpoint). `ArmSetFacts`, `BasisFacts` and `BlockedFacts` are
  what this gives for the three loops, and `AdvanceFacts` puts them together.
  - `InputsStand` holds of every compiled plan. Whatever is dispatched is among the
    candidates the inputs were resolved against (`BasisFacts`), so no input that
    resolved is put back in flight.
  - `JoinsStand` assumes that every plan is `RoundsDecided`: no outcome re-enters a
    loop member that has a required input together with a node that this member
    feeds. Only such a member can be blocked in one pass and dispatched in a later one
    (`BlockedFacts`), the disagreement above. Of the plans of the runs only
    `WideRound` is not of this kind, and `graph_shapes` checks it there.
  - `StrandedNodesWait` assumes `RoundsApart` (no outcome of a node re-enters a loop
    member together with a third node that waits for it) and `InputsRouted`. The
    inductive `StrandedInv` says of the whole run what the property says of its
    end: a pending node lacks an arrival or an input at every moment.
    `OthersStillWait`: a step that does not route to it gives it neither.
    `RoutedStillWait`: one that routes to it and does not dispatch it has found
    something missing, and under `RoundsApart` that is not missing only because of a
    candidate that keeps its old entry in the end. Of the plans of the runs,
    `WideRound` and 330 of the 4012 of `graph_small` are outside; TLC finds the
    property true of these too.

`ExecutionClaimsProofs` assumes that the platform's `absent` is not an
instantaneous one (`ProofMode # "instant"`) and proves for any number of
processes, effects and generations `TypeCorrect`, `FenceHolds` (the inductive
`FenceInvariant`: what is out was handed over under the claim the row still
shows; a marked job holds its claim; a proof of absence stays true while its
claim is the row's), and from it `CreateOnceSafe`, `ConflictUnreachable`,
`CreatedIsTheExecution`, `RegistryAbsenceIsProof`, `FenceForward` and
`Implementation`.

`RunLedgerProofs` holds for any number of processes, nodes, attempts, runs and
commands:

- `TypeCorrect`. `TypeInv` adds that a call past its first step has an attempt
  in hand, and that no node is dispatched before a run exists.
- `StopsAndAcceptancesExclude` (`AcceptedStands`) and `PausedNeverAccepted`
  (`AcceptedUnpaused`): the transaction that accepts checks again what the call
  read before it, and a command checks the acceptance.
- `OrdersMintOneRun` (`OneRunPerOrder`). `OrderInv` adds that an order closes
  its run and that no run beyond the current one has an order.
- `AttemptIdsUnique` (`AttemptIdsNeverReused`). `start()` and re-execution read
  the counter outside the transaction that mints. `IdInv` says why the stale
  value is harmless: a re-execution read an ordered run, and while that run is
  the current one the counter stands, because an order closes its run.
- `WorkersNeverDisowned` (`NeverRebound`). `RightInv`: while a create right is
  held no execution was asked for, and a call about to re-issue a credential
  holds the right.

The last two assume `~ SameInstant`: two first starts that derive one run
identity from the same millisecond do reuse ids, as `ledger_same_instant` shows.

`RunLedgerRowsProofs` goes on from there, under the same assumption:

- `SnapshotFollowsLedger` (`SnapshotAgrees`) and `StartIsIdempotent`
  (`SettledNotRedispatched`). `SnapInv` relates the places that speak of an
  attempt: `RowsInv` (an attempt that was not minted has no rows, a minted one
  has all of them), `NodesInv` (an entry of the snapshot points at an attempt of
  its run and node, accepted when settled and not when in flight) and
  `NewestInv` (that attempt is the node's newest, and every other of the run was
  accepted or replaced). None of the three survives a step alone.
- `EffectsTellTheTruth` (`EffectTellsTruth`). `EffectInv` adds that a call about
  to mark an effect started has seen an execution, and `ExecLife` that an
  execution is asked for once and ends once: a late recording is still true.
- `NothingLiveLeftBehind` (`NoLiveLeftBehind`). `LeftInv`: a confirmed cancel is
  of an execution that has ended, nothing blocks a run that has an order, and
  what an earlier run left was accepted, replaced or has ended.
- `BudgetNeverExceeded` (`BudgetHeld`). What a run has spent is the attempts
  minted for it, which no settlement takes back.
- `WorkersCanSettle` (`WorkerCanSettle`), with one process (`OneProcess`):
  `VaultInv` says that a credential in memory or at a worker is the one the
  snapshot verifies, and that a call remembers the credential of every attempt
  it is going to create. With two processes the second may re-issue what the
  first is about to hand over, which is why the run and the theorem take one.
- `LedgerImplementsFates` (`ImplementsAttemptFates`), on top of the invariants
  above and `FateInv`: a decision is about an attempt that was minted, no attempt
  in flight has been retried, and no cancel was asked for before the attempt was
  stopped. Of the steps, those that mint are one lemma each. `BeginsRun` needs that
  nothing of the ended run is open, which `OrderedRunIsDone` draws from `ClosedInv`:
  what is in flight and does not block has an effect that ended or a confirmed
  cancel, so a decision stands behind it. `SubmitAccepts` needs `NewestInv`:
  another undecided attempt of an armed node would be in flight there.
  `RetryReplaces` takes the next number. `RestingStops`: every other step, whoever
  takes it, stops attempts of the current run or changes nothing (`DecisionsStep`).

`TeamRuntimeProofs`, `TeamDeliveryProofs` and `TeamSessionProofs` hold for any
number of teams, peers, tasks, processes and operations, and for every scenario of
`Limits`; peers and tasks are finite sets, which cardinalities need:

- `StateOK` is the common invariant: `RecordOK` of every team record, a visit
  (`PumpOK`) and an operation (`OpOK`) that point to what exists. Each body of a
  transaction (`Fail`, `RecordTurn`, `Discard`, `Remove`, `Delete`, `Reoffer`,
  ...) has one lemma that says it keeps `RecordOK` and which of `Keeps` (the
  lock, the closed team, the deliveries that are not its own) it leaves alone;
  `StepKinds` sorts the actions into the quiet ones, for which that is all, and
  the seven that create, lock, unlock, resume, reserve, confirm or settle.
- `TypeCorrect`, `BudgetIsExact` (`BudgetExact`) and `ClaimsAreHeld`
  (`ClaimsHeld`) are parts of `StateOK`. The budget needs that a delivery belongs
  to an active member: a refund happens only where a delivery is dropped. It also
  needs that no record is used before it is created.
- `ClaimsAreKept` (`ClaimKept`): the action property, action by action.
- `OneOperationAtATime` (`OneOperation`). `LockInv` adds that an operation under
  way lives: a takeover asks whether the owner's process is dead, and by the
  crash its operations are gone.
- `DeliveriesAreAnswered` (`DeliveryAnswered`). `DeliveryInv` has four parts.
  `IdsInv`: a delivery's id is its own. `CarriedInv`: a visit's delivery is the
  one of the member it visits, confirmed in the record once the visit is past
  the confirmation. `VouchedInv`: what `resume()` took for confirmed, in its one
  read of the record or later, is confirmed and its id never given again.
  `AnsweredInv`: the property. It uses `LockInv` where a visit throws while the
  member is being removed: `fail()` does nothing then, and the team is closed.
- `NothingIsSkipped` (`NothingSkipped`) and `OneCoordinator` (`SoleCoordinator`).
  They share the invariant `SessionInv`, on top of `StateOK` and `DeliveryInv`: a
  cursor is advanced by what was read in a session's transcript, and that is the
  member's only if nobody else prompts the session. Its parts:
  - `LogsOK`: whatever comes before a turn that has started is over. `Follows` says
    what any step makes of a transcript: turns that are over stay, and no prompt
    appears that was not there. Cancelling, dropping and restoring have a lemma
    each; that of `DropQueued` goes by ranks (`PlaceFacts`), because what a
    filter keeps would take an induction with an operator as parameter.
  - `PromptsFit` and `TurnsFit`: a prompt under way, late, queued or in the
    transcript shows the events from its member's cursor to where its delivery
    goes, for as long as the delivery is there.
  - `ViewsFit`: a stale view of a delivery still speaks of that member and, if the
    prompt went to the session that was read, of the member's session.
  - `Creates` and `Apart`: a session is created for a member that was shown nothing
    yet; nothing has reached it, and no other member ever has it.
  - `Leased` and `Freed`: an outstanding delivery whose prompt was let go to the
    user's session holds the lease, and what `resume()` lets go of is no
    longer outstanding. A lease is given up for its own delivery only.
  - `Shown`: the property itself. The step that advances a cursor keeps it because
    the turn with the delivery's marker is over (`DeliveredIsOver`).

`DispatchTasksProofs` holds for any finite set of tasks, any tree of parents and
every scenario of `Limits`. Its invariant `Inv` has three parts, with `DownInv`
beside it: a process that is down remembers nothing.

- `TypeInv` types the memory field by field (`MemTyped`) and says that all the
  manager remembers, calls under way included, is about launched tasks.
- `CountInv`: outside recovery a counter is at most the number of tasks that run.
  It needs `CallInv` (while a session is being created its task does not run, so
  the status that `Created` sets without a look is not counted twice; sessions
  are looked for in recovery only) and `RecoverInv` (in recovery nothing is
  pending and what runs is listed, so the counters that are rebuilt are exact).
- `ToldInv`: a final was delivered exactly if it is recorded as sent, and when all
  the tasks of a parent have completed, the news of one of them is being
  fetched, in the outbox, or sent. The last sibling to be announced finds the
  counter at zero, which is why this part rests on the upper bound of
  `CountInv`.
- Each operator on the memory has a lemma that says which fields it changes
  (`Same`). Most handlers are then shown to be `Orderly`: they touch one task
  (`Handled`), change its status together with the counter (`CountSteady`) and
  lose no news (`TellSteady`); these three facts keep all of `Inv`. Launch,
  creation, continuation, clean-up, materialization, the sweep, the queue, the
  crash and the recovery are not of this kind and have proofs of their own.
- Theorems: `TypeCorrect` (`TypeOK`), `CountersAreTrue` (`InflightTrue`) and
  `ParentsAreToldOnce` (`ToldOnce`).

**Only model-checked.**

- Liveness (`RunsEnd`, `DispatchesRecovered`, `EventReaches`,
  `LeaversForgotten`, `ListenersHear`), which is outside the prover's reach.
- `SettledNotRedispatched`, `AttemptIdsNeverReused` and the others above when two
  first starts derive one identity: the first is violated, as its run shows.
- `JoinsNotSuperseded` and `StrandedCannotRun` of `OutcomeGraph` on the plans their
  theorems leave out; neither holds of every plan.
- `ParentWaits` of `DispatchTasks`, which does not hold of every scenario (the
  disagreement above): no inductive invariant implies it.

## Plan

Done: the reducer (`OutcomeGraph`), the registry (`ExecutionClaims`), the ledger
with recovery and control (`RunLedger`), in this order because the reducer
decides what runs, the registry that it runs once, and the ledger that both
survive crashes and commands; what the ledger promises about attempts, as an
abstract specification it implements (`AttemptFates`); then teams (`TeamRuntime`)
and background tasks (`DispatchTasks`), the other two parts with interleavings and
failures of their own. Next: `RunLedger` over `ExecutionClaims`, with create rights that lapse while
their holder is alive, durable credential stores, and usage reports against budget
claims. Run: two processes, one attempt. Property: a worker that exists can settle.

## Not modelled

- The loop coordinator (`src/loop`): the tools that would start it are not
  registered in this version, so no state of the program is in it.
- Plan parsing and verification, state codecs, contracts and validators: pure
  functions over text and records, whose result enters the models as the choice of
  plan or outcome.
- The outcome host's wiring and the platform adapters: they route events to the
  parts that are modelled; what their calls change is in `ExecutionClaims`,
  `RunLedger`, `TeamRuntime` and `DispatchTasks`.
- Session signals and the recovery engine: a map with a debounced state file, and a
  bounded loop over configured strategies. Both are sequential; the approval
  signal the dispatch manager reads is an event of `DispatchTasks`.
- Tools, prompts, role loading, command line, terminal and web interfaces, memory,
  logging, notifications: text, files, the network and the wall clock. They make
  up most of the repository's lines.
