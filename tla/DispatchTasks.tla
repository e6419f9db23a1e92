--------------------------- MODULE DispatchTasks ---------------------------
(***************************************************************************)
(* The background dispatch manager (src/dispatch): launching a task as a   *)
(* session of the host, watching it until it ends, telling its parent      *)
(* session, cleaning up after it, and recovering from the state file.      *)
(*                                                                         *)
(* One process runs the manager on one JavaScript thread.  What it does    *)
(* between two awaits is one action; an await is a member of mem.calls     *)
(* until the host answers, and every other handler may run meanwhile.      *)
(* mem is the manager's memory, lost in a crash; disk is the state file,   *)
(* written by a debounced timer; host is what the platform holds.          *)
(*                                                                         *)
(* A task has one session, so a session is named by its task.  A transcript*)
(* is the sequence of the turns that left output, "ok" or "error".  The    *)
(* host reports the begin and the end of a turn in order and at once.      *)
(* Synchronous tasks, metrics, progress, checkpoints, result files and the *)
(* token budget sampler (whose only effect is Cancel) are left out.        *)
(***************************************************************************)
EXTENDS Integers, Sequences, FiniteSets

CONSTANTS Tasks,     \* background tasks, each launched at most once
          Root,      \* the session of the user's agent
          ParentOf,  \* the session a task is launched from: Root or a task's own
          MaxTries,  \* prompts tried for one final notification
          Limits     \* scenarios: the bounds on what the environment does

ASSUME DispatchConstants ==
    /\ IsFiniteSet(Tasks) /\ Root \notin Tasks
    /\ ParentOf \in [Tasks -> Tasks \cup {Root}]
    /\ MaxTries \in Nat \ {0}
    /\ Limits \subseteq [launched : SUBSET Tasks, suppressed : SUBSET Tasks,
                         listened : SUBSET Tasks, signals : BOOLEAN,
                         cancels : Nat, refusals : Nat, faults : Nat, errors : Nat,
                         stalls : Nat, reopens : Nat, crashes : Nat]

VARIABLES lim, mem, disk, host, used

vars == <<lim, mem, disk, host, used>>

Parents == Tasks \cup {Root}
Children(p) == {t \in Tasks : ParentOf[t] = p}

Failures == {"error", "timeout", "cancelled"}
Terminal == Failures \cup {"completed"}
Status == Terminal \cup {"none", "pending", "running", "awaiting_approval"}

Unset == -1

\* An await: what is awaited, for which task, whether by the idle debounce, and
\* the transcript read before it.
Call(op, t) == [op |-> op, task |-> t, idle |-> FALSE, seen |-> <<>>]
Awaiting(t, ops) == \E c \in mem.calls : c.task = t /\ c.op \in ops

EmptyMemory ==
    [listed |-> {}, status |-> [t \in Tasks |-> "none"],
     inflight |-> [p \in Parents |-> 0], elder |-> {},
     routed |-> {}, state |-> {}, base |-> [t \in Tasks |-> 0], start |-> [t \in Tasks |-> 0],
     confirm |-> [t \in Tasks |-> Unset],
     watched |-> {}, debouncing |-> {},
     outbox |-> {}, pending |-> {}, sent |-> {},
     timer |-> [t \in Tasks |-> "none"], listener |-> [t \in Tasks |-> "none"],
     queue |-> [p \in Parents |-> <<>>],
     calls |-> {}, dirty |-> FALSE, phase |-> "ready"]

Down == [EmptyMemory EXCEPT !.phase = "down"]

Init ==
    /\ lim \in Limits
    /\ mem = EmptyMemory
    /\ disk = [listed |-> {}, status |-> [t \in Tasks |-> "none"], outbox |-> {},
               start |-> [t \in Tasks |-> 0]]
    /\ host = [born |-> {}, session |-> [t \in Tasks |-> "none"], msgs |-> [t \in Tasks |-> <<>>],
               signalled |-> {}, stalled |-> {}, told |-> [t \in Tasks |-> 0]]
    /\ used = [cancels |-> 0, refusals |-> 0, faults |-> 0, errors |-> 0,
               stalls |-> 0, reopens |-> 0, crashes |-> 0]

Allowed(what) == used[what] < lim[what]
Use(what) == Allowed(what) /\ used' = [used EXCEPT ![what] = @ + 1]
Ready == mem.phase = "ready"

-----------------------------------------------------------------------------
(* Counters, listeners, timers *)

\* inflightByParent and oldestStartedAtByParent
Increment(M, p) == [M EXCEPT !.inflight[p] = @ + 1]
Decrement(M, p) ==
    IF M.inflight[p] <= 1
    THEN [M EXCEPT !.inflight[p] = 0, !.elder = @ \ {p}]
    ELSE [M EXCEPT !.inflight[p] = @ - 1]

\* mutant: a task that already runs is counted again
CountedTwice(M, t, to) ==
    LET N == [M EXCEPT !.status[t] = to] IN
    CASE to = "running" -> Increment(N, ParentOf[t])
      [] M.status[t] = "running" /\ to # "running" -> Decrement(N, ParentOf[t])
      [] OTHER -> N

\* transition(): the counter follows the status.
Move(M, t, to) ==
    LET N == [M EXCEPT !.status[t] = to] IN
    CASE M.status[t] = "running" /\ to # "running" -> Decrement(N, ParentOf[t])
      [] M.status[t] # "running" /\ to = "running" -> Increment(N, ParentOf[t])
      [] OTHER -> N

Is(M, t, from) == t \in M.listed /\ M.status[t] \in from

Unwatch(M, t) == [M EXCEPT !.watched = @ \ {t}, !.debouncing = @ \ {t}]

\* startDebounce(): only for a task the watchdog knows.
StartDebounce(M, t) == IF t \in M.watched THEN [M EXCEPT !.debouncing = @ \cup {t}] ELSE M

\* The terminated listener is called once and forgotten.
NotifyTerminated(M, t) ==
    IF t \in M.listed /\ M.listener[t] = "waiting" THEN [M EXCEPT !.listener[t] = "called"] ELSE M

ScheduleCleanup(M, t) == [M EXCEPT !.timer[t] = "armed"]

LeaveRunning(M, t) ==
    IF t \in M.listed THEN ScheduleCleanup([M EXCEPT !.dirty = TRUE], t) ELSE M

CleanupTask(M, t) ==
    [M EXCEPT !.listed = @ \ {t}, !.routed = @ \ {t}, !.state = @ \ {t},
              !.timer[t] = "none", !.dirty = TRUE]

-----------------------------------------------------------------------------
(* Telling the parent *)

\* What the caller of notifyParent does with the answer.
Answered(M, job, ok) ==
    CASE job.from = "alone" -> M
      [] job.from = "sweeper" -> IF ok THEN [M EXCEPT !.outbox = @ \ {job.task}] ELSE M
      [] job.from = "ended" -> [M EXCEPT !.pending = @ \ {job.task}]
      [] job.from = "result" -> NotifyTerminated([M EXCEPT !.pending = @ \ {job.task}], job.task)

\* notifyParent: queued behind what is being sent to the same parent.
NotifyParent(M, t, remaining, tries, from) ==
    LET job == [task |-> t, remaining |-> remaining, tries |-> tries, from |-> from,
                final |-> remaining = 0 \/ M.status[t] \in Failures]
    IN IF t \in lim.suppressed THEN Answered(M, job, TRUE)
       ELSE [M EXCEPT !.queue[ParentOf[t]] = Append(@, job)]

NotifyCompletion(M, t, from) ==
    NotifyParent([M EXCEPT !.pending = @ \cup {t}], t, M.inflight[ParentOf[t]], MaxTries, from)

\* markError, timeoutAndRelease and the session that no longer exists
Fail(M, t, to) ==
    IF ~Is(M, t, {"running"}) THEN M
    ELSE LET N == NotifyTerminated(Unwatch(Move(M, t, to), t), t)
         IN LeaveRunning(NotifyCompletion(N, t, "ended"), t)

\* A turn begins in a session that waits; its status event is a sign of life.
Woken(H, s) ==
    IF s \in Tasks /\ H.session[s] = "idle"
    THEN [H EXCEPT !.session[s] = "busy", !.stalled = @ \ {s}] ELSE H

HeardBusy(M, s) ==
    IF s \in Tasks /\ host.session[s] = "idle" /\ s \in M.routed \cap M.state /\ Is(M, s, {"running"})
    THEN [M EXCEPT !.debouncing = @ \ {s}] ELSE M

Stopped(H, t) == [H EXCEPT !.session[t] = IF @ = "busy" THEN "idle" ELSE @]

\* One prompt of the head of a parent's queue.
SendNotification(p) ==
    /\ mem.queue[p] # <<>>
    /\ LET job == Head(mem.queue[p])
           rest == [mem EXCEPT !.queue[p] = Tail(@)]
       IN \/ /\ job.final /\ job.task \in mem.sent
             /\ mem' = Answered(rest, job, TRUE)
             /\ UNCHANGED <<host, used>>
          \/ /\ job.final /\ job.task \notin mem.sent
             /\ mem' = HeardBusy(Answered([rest EXCEPT !.sent = @ \cup {job.task}], job, TRUE), p)
             /\ host' = Woken([host EXCEPT !.told[job.task] = @ + 1], p)
             /\ UNCHANGED used
          \/ /\ job.final /\ job.task \notin mem.sent
             /\ Use("faults")
             /\ mem' = IF job.tries > 1 THEN [mem EXCEPT !.queue[p][1].tries = @ - 1]
                                        ELSE Answered(rest, job, FALSE)
             /\ UNCHANGED host
          \/ /\ ~job.final
             /\ mem' = Answered(rest, job, FALSE)
             /\ UNCHANGED <<host, used>>
    /\ UNCHANGED <<lim, disk>>

\* The sweeper finds t in the outbox.  (Sweeps that overlap are bounded to one
\* notification of a task at a time.)
SweepOutbox(t) ==
    /\ mem.phase # "down" /\ t \in mem.outbox
    /\ \A i \in 1 .. Len(mem.queue[ParentOf[t]]) :
          LET job == mem.queue[ParentOf[t]][i] IN ~(job.task = t /\ job.from = "sweeper")
    /\ mem' = IF t \notin mem.listed \/ t \in mem.sent
              THEN [mem EXCEPT !.outbox = @ \ {t}]
              ELSE NotifyParent(mem, t, 0, MaxTries, "sweeper")
    /\ UNCHANGED <<lim, disk, host, used>>

-----------------------------------------------------------------------------
(* Launching *)

\* launch(): a child is launched by a turn of its parent's session.
Launch(t) ==
    /\ Ready /\ t \in lim.launched \ host.born
    /\ ParentOf[t] \in Tasks => host.session[ParentOf[t]] = "busy"
    /\ host' = [host EXCEPT !.born = @ \cup {t}]
    /\ mem' = [mem EXCEPT !.listed = @ \cup {t}, !.status[t] = "pending",
                          !.calls = @ \cup {Call("create", t)}]
    /\ UNCHANGED <<lim, disk, used>>

\* startBackgroundTask(), once the session exists: the status is set, whatever it is now.
Created(t) ==
    /\ Call("create", t) \in mem.calls
    /\ host' = [host EXCEPT !.session[t] = "idle"]
    /\ mem' = [Increment(mem, ParentOf[t]) EXCEPT
                  !.status[t] = "running", !.routed = @ \cup {t}, !.state = @ \cup {t},
                  !.dirty = TRUE, !.calls = (@ \ {Call("create", t)}) \cup {Call("prompt", t)}]
    /\ UNCHANGED <<lim, disk, used>>

\* The create was refused, or failed three times.
CreateFailed(t) ==
    /\ Call("create", t) \in mem.calls
    /\ Use("refusals")
    /\ mem' = NotifyTerminated(ScheduleCleanup(
                  [mem EXCEPT !.status[t] = "error", !.calls = @ \ {Call("create", t)}], t), t)
    /\ UNCHANGED <<lim, disk, host>>

\* A prompt reaches its session before its answer reaches the manager.
PromptLands(t) ==
    /\ host.session[t] \in {"idle", "busy"}
    /\ \E c \in mem.calls :
        /\ c.task = t /\ c.op \in {"prompt", "reprompt"}
        /\ mem' = [HeardBusy(mem, t) EXCEPT
                      !.calls = (@ \ {c}) \cup {[c EXCEPT !.op = IF c.op = "prompt" THEN "prompted" ELSE "reprompted"]}]
    /\ host' = Woken(host, t)
    /\ UNCHANGED <<lim, disk, used>>

\* launch() is over: the watchdog takes the task.
Prompted(t) ==
    /\ Call("prompted", t) \in mem.calls
    /\ mem' = [mem EXCEPT !.watched = @ \cup {t}, !.calls = @ \ {Call("prompted", t)}]
    /\ UNCHANGED <<lim, disk, host, used>>

\* The prompt fails, whether it landed or not: status and counter are changed
\* whatever the status is now.
PromptFailed(t) ==
    /\ Allowed("refusals") \/ host.session[t] = "gone"
    /\ used' = IF host.session[t] = "gone" THEN used ELSE [used EXCEPT !.refusals = @ + 1]
    /\ \E op \in {"prompt", "prompted"} :
        /\ Call(op, t) \in mem.calls
        /\ LET N == [Decrement(mem, ParentOf[t]) EXCEPT
                        !.status[t] = "error", !.routed = @ \ {t},
                        !.calls = (@ \ {Call(op, t)}) \cup {Call("abort", t)}]
           IN mem' = NotifyTerminated(LeaveRunning(N, t), t)
    /\ UNCHANGED <<lim, disk, host>>

LaunchAborted(t) ==
    /\ Call("abort", t) \in mem.calls
    /\ host' = Stopped(host, t)
    /\ mem' = NotifyParent([mem EXCEPT !.calls = @ \ {Call("abort", t)}], t, 0, 1, "alone")
    /\ UNCHANGED <<lim, disk, used>>

\* mutant: no look at the status when the listener is registered
ListenedLate(t) ==
    /\ Ready /\ t \in mem.listed \cap lim.listened /\ mem.listener[t] = "none"
    /\ ~Awaiting(t, {"create", "prompt", "prompted", "abort"})
    /\ mem' = [mem EXCEPT !.listener[t] = "waiting"]
    /\ UNCHANGED <<lim, disk, host, used>>

\* onTaskTerminated(), by the caller of launch() once it has returned, or by
\* whoever waits for a task that was recovered.
Listen(t) ==
    /\ Ready /\ t \in mem.listed \cap lim.listened /\ mem.listener[t] = "none"
    /\ ~Awaiting(t, {"create", "prompt", "prompted", "abort"})
    /\ mem' = [mem EXCEPT !.listener[t] = IF mem.status[t] \in Terminal THEN "called" ELSE "waiting"]
    /\ UNCHANGED <<lim, disk, host, used>>

-----------------------------------------------------------------------------
(* Cancelling, approving, continuing *)

Cancel(t) ==
    /\ Ready /\ t \notin mem.pending
    /\ Use("cancels")
    /\ \/ /\ Is(mem, t, {"pending"})
          /\ mem' = LET N == NotifyTerminated(Move(mem, t, "cancelled"), t)
                    IN ScheduleCleanup(NotifyCompletion(N, t, "ended"), t)
       \/ /\ Is(mem, t, {"running"})
          /\ mem' = [Move(mem, t, "cancelled") EXCEPT !.calls = @ \cup {Call("cancel", t)}]
    /\ UNCHANGED <<lim, disk, host>>

CancelAborted(t) ==
    /\ Call("cancel", t) \in mem.calls
    /\ host' = Stopped(host, t)
    /\ LET N == [mem EXCEPT !.calls = @ \ {Call("cancel", t)}]
           E == NotifyTerminated(Unwatch(N, t), t)
       IN mem' = IF t \in mem.listed THEN LeaveRunning(NotifyCompletion(E, t, "ended"), t) ELSE N
    /\ UNCHANGED <<lim, disk, used>>

\* approveTask() and rejectTask()
Resolve(t, to) ==
    /\ Ready /\ Is(mem, t, {"awaiting_approval"})
    /\ LET N == ScheduleCleanup([mem EXCEPT !.status[t] = to, !.dirty = TRUE], t)
       IN mem' = NotifyParent(N, t, N.inflight[ParentOf[t]], MaxTries, "alone")
    /\ UNCHANGED <<lim, disk, host, used>>

\* reopenForContinuation(): the transcript is read, then the status is moved if
\* it is one that may be, and the session is prompted either way.
Reopen(t) ==
    /\ Ready /\ t \in mem.listed /\ Use("reopens")
    /\ ~Awaiting(t, {"create", "reopen", "reprompt", "reprompted"})
    /\ mem' = [mem EXCEPT !.calls = @ \cup {Call("reopen", t)}]
    /\ UNCHANGED <<lim, disk, host>>

Reopened(t) ==
    /\ Call("reopen", t) \in mem.calls
    /\ LET N == IF Is(mem, t, {"completed", "error", "timeout", "running"})
                THEN Move(mem, t, "running") ELSE mem
       IN mem' = [N EXCEPT !.start[t] = Len(host.msgs[t]),
                           !.calls = (@ \ {Call("reopen", t)})
                                     \cup {[Call("reprompt", t) EXCEPT !.seen = host.msgs[t]]}]
    /\ host' = [host EXCEPT !.stalled = @ \ {t}]
    /\ UNCHANGED <<lim, disk, used>>

Reprompted(t) ==
    /\ \E c \in mem.calls :
        /\ c.task = t /\ c.op = "reprompted"
        /\ mem' = [mem EXCEPT !.debouncing = @ \ {t}, !.watched = @ \cup {t},
                              !.confirm[t] = IF t \in mem.state THEN @ ELSE Unset,
                              !.state = @ \cup {t}, !.routed = @ \cup {t},
                              !.base[t] = Len(c.seen), !.dirty = TRUE, !.calls = @ \ {c}]
    /\ host' = [host EXCEPT !.stalled = @ \ {t}]
    /\ UNCHANGED <<lim, disk, used>>

RepromptFailed(t) ==
    /\ Allowed("refusals") \/ host.session[t] = "gone"
    /\ used' = IF host.session[t] = "gone" THEN used ELSE [used EXCEPT !.refusals = @ + 1]
    /\ \E c \in mem.calls :
        /\ c.task = t /\ c.op \in {"reprompt", "reprompted"}
        /\ mem' = [mem EXCEPT !.calls = @ \ {c}]
    /\ UNCHANGED <<lim, disk, host>>

-----------------------------------------------------------------------------
(* Watching a running task *)

Output(t, seen) == SubSeq(seen, mem.base[t] + 1, Len(seen))
Without(c) == [mem EXCEPT !.calls = @ \ {c}]

\* evaluateAndComplete() reads the transcript; or the read fails, and the third
\* failure in a row asks whether the session is alive.
Fetch(M, t, idle) ==
    \/ /\ mem' = [M EXCEPT !.calls = @ \cup {[Call("decide", t) EXCEPT !.idle = idle, !.seen = host.msgs[t]]}]
       /\ UNCHANGED used
    \/ /\ Use("faults")
       /\ \/ mem' = [M EXCEPT !.dirty = TRUE]
          \/ mem' = [M EXCEPT !.calls = @ \cup {Call("verify", t)}]

\* The watchdog's reconcile and the global sweep
Evaluate(t) ==
    /\ t \in mem.watched /\ Is(mem, t, {"running"})
    /\ ~\E c \in mem.calls : c.task = t /\ c.op = "decide" /\ ~c.idle
    /\ Fetch(mem, t, FALSE)
    /\ UNCHANGED <<lim, disk, host>>

DebounceElapsed(t) ==
    /\ t \in mem.debouncing
    /\ LET N == [mem EXCEPT !.debouncing = @ \ {t}] IN
       IF Is(mem, t, {"running"}) THEN Fetch(N, t, TRUE) ELSE mem' = N /\ UNCHANGED used
    /\ UNCHANGED <<lim, disk, host>>

\* Whether the wait for t's own children goes on.
ChildrenWithin(t) == mem.inflight[t] > 0 /\ t \notin mem.elder

\* checkHitlSignals() and completeAndRelease()
Conclude(M, t) ==
    IF t \in host.signalled /\ Is(M, t, {"running"})
    THEN [Unwatch(Move(M, t, "awaiting_approval"), t) EXCEPT
             !.dirty = TRUE, !.calls = @ \cup {Call("hitl", t)}]
    ELSE IF Is(M, t, {"running"})
    THEN [LeaveRunning(Unwatch(Move(M, t, "completed"), t), t) EXCEPT
             !.calls = @ \cup {Call("result", t)}]
    ELSE M

\* detectCompletion(): what the session's status and the task's own output say.
Detected(t, out) ==
    CASE host.session[t] = "busy" \/ out = <<>> -> "not_ready"
      [] host.session[t] = "idle" /\ out # <<>> /\ out[Len(out)] = "error" -> "error"
      [] OTHER -> "completed"

\* The status is read after the transcript, and what both say is acted on.
\* The debounce completes only what it has seen unchanged twice.
Decide(c) ==
    /\ c \in mem.calls /\ c.op = "decide"
    /\ LET t == c.task
           N == Without(c)
           out == Output(t, c.seen)
           sig == Detected(t, out)
       IN \/ /\ host.session[t] = "gone"
             /\ mem' = Fail(N, t, "error")
             /\ UNCHANGED host
          \/ /\ host.session[t] # "gone" /\ sig = "not_ready"
             /\ IF t \in host.stalled
                THEN mem' = Fail(N, t, "timeout") /\ host' = Stopped(host, t)
                ELSE mem' = N /\ UNCHANGED host
          \/ /\ host.session[t] # "gone" /\ sig = "error"
             /\ mem' = Fail(N, t, "error")
             /\ UNCHANGED host
          \/ /\ host.session[t] # "gone" /\ sig = "completed" /\ c.idle
             /\ mem' = IF mem.confirm[t] = Unset
                       THEN StartDebounce([N EXCEPT !.confirm[t] = Len(out)], t)
                       ELSE LET E == [N EXCEPT !.confirm[t] = Unset]
                            IN IF mem.confirm[t] = Len(out) THEN Conclude(E, t) ELSE E
             /\ UNCHANGED host
          \/ /\ host.session[t] # "gone" /\ sig = "completed" /\ ~c.idle
             /\ IF ChildrenWithin(t)
                THEN mem' = N /\ host' = [host EXCEPT !.stalled = @ \ {t}]
                ELSE mem' = Conclude(N, t) /\ UNCHANGED host
    /\ UNCHANGED <<lim, disk, used>>

\* The parent is asked to approve; the listener hears of it afterwards.
ApprovalAsked(t) ==
    /\ Call("hitl", t) \in mem.calls
    /\ mem' = NotifyTerminated(HeardBusy(Without(Call("hitl", t)), ParentOf[t]), t)
    /\ host' = Woken(host, ParentOf[t])
    /\ UNCHANGED <<lim, disk, used>>

\* mutant: the final notification is not put in the outbox
NotKept(t) ==
    /\ Call("result", t) \in mem.calls
    /\ mem' = NotifyCompletion([Without(Call("result", t)) EXCEPT !.dirty = TRUE], t, "result")
    /\ UNCHANGED <<lim, disk, host, used>>

\* materializeAndNotify(): the result was fetched, or could not be.
Materialized(t) ==
    /\ Call("result", t) \in mem.calls
    /\ LET N == [Without(Call("result", t)) EXCEPT
                    !.dirty = TRUE,
                    !.outbox = IF mem.inflight[ParentOf[t]] = 0 THEN @ \cup {t} ELSE @]
       IN mem' = NotifyCompletion(N, t, "result")
    /\ UNCHANGED <<lim, disk, host, used>>

\* handleSessionError() and handleSessionDeleted()
SessionError(t) ==
    /\ t \in mem.routed /\ Is(mem, t, {"running"})
    /\ Use("errors")
    /\ \/ UNCHANGED host
       \/ host' = [host EXCEPT !.session[t] = "gone"]
    /\ mem' = [mem EXCEPT !.calls = @ \cup {Call("verify", t)}]
    /\ UNCHANGED <<lim, disk>>

\* guardedMarkError(): only a session that is gone, or idle without output, is given up.
Verified(t) ==
    /\ Call("verify", t) \in mem.calls
    /\ LET N == Without(Call("verify", t))
           dead == host.session[t] = "gone"
                   \/ (host.session[t] = "idle" /\ Output(t, host.msgs[t]) = <<>>)
       IN mem' = IF dead THEN Fail(N, t, "error") ELSE N
    /\ UNCHANGED <<lim, disk, host, used>>

\* A turn ends, when the launches it asked for have returned: handleSessionIdle()
\* reads the transcript.
TurnEnds(t) ==
    /\ host.session[t] = "busy"
    /\ \A u \in Children(t) : ~Awaiting(u, {"create", "prompt", "prompted", "abort"})
    /\ \E out \in {<<"ok">>, <<"error">>, <<>>}, asks \in BOOLEAN :
        /\ asks => lim.signals /\ out = <<"ok">>
        /\ out # <<"ok">> => lim.errors > 0
        /\ host' = [host EXCEPT !.session[t] = "idle", !.msgs[t] = @ \o out,
                                !.signalled = IF asks THEN @ \cup {t} ELSE @]
    /\ mem' = IF t \in mem.routed /\ Is(mem, t, {"running"})
              THEN [mem EXCEPT !.calls = @ \cup {Call("idle", t)}] ELSE mem
    /\ UNCHANGED <<lim, disk, used>>

\* mutant: the idle event does not look for children in flight
ChildrenForgotten(t) ==
    /\ Call("idle", t) \in mem.calls
    /\ LET N == Without(Call("idle", t)) IN
       mem' = IF Output(t, host.msgs[t]) = <<>> \/ t \in mem.debouncing
              THEN N ELSE StartDebounce(N, t)
    /\ UNCHANGED <<lim, disk, host, used>>

\* handleSessionIdle() once the transcript is read
IdleSeen(t) ==
    /\ Call("idle", t) \in mem.calls
    /\ LET N == Without(Call("idle", t)) IN
       mem' = IF Output(t, host.msgs[t]) = <<>> \/ t \in mem.debouncing \/ mem.inflight[t] > 0
              THEN N ELSE StartDebounce(N, t)
    /\ UNCHANGED <<lim, disk, host, used>>

\* The stale timeout passes without a sign of life from t.  A session that is
\* idle and left nothing gives none by itself; one at work may be slow.
Stall(t) ==
    /\ t \in mem.watched \ host.stalled /\ Is(mem, t, {"running"})
    /\ \/ /\ host.session[t] = "idle" /\ Output(t, host.msgs[t]) = <<>>
          /\ UNCHANGED used
       \/ /\ host.session[t] # "idle"
          /\ Use("stalls")
    /\ host' = [host EXCEPT !.stalled = @ \cup {t}]
    /\ UNCHANGED <<lim, mem, disk>>

\* The longest wait for children is over since t's oldest one was started.
ChildrenStall(t) ==
    /\ mem.inflight[t] > 0 /\ t \notin mem.elder
    /\ Use("stalls")
    /\ mem' = [mem EXCEPT !.elder = @ \cup {t}]
    /\ UNCHANGED <<lim, disk, host>>

\* The time to live is over, far later than any call is answered; a timer
\* armed by recovery does not look at the outbox.
CleanupDue(t) ==
    /\ mem.timer[t] # "none"
    /\ \A c \in mem.calls : c.task # t
    /\ mem.timer[t] = "armed" => t \notin mem.pending \cup mem.outbox
    /\ mem' = CleanupTask(mem, t)
    /\ UNCHANGED <<lim, disk, host, used>>

-----------------------------------------------------------------------------
(* The state file, the crash and the recovery *)

\* TaskStore.save(): what is written, and put in place by one rename.
Saved == [listed |-> mem.listed, status |-> mem.status, outbox |-> mem.outbox, start |-> mem.start]

\* The debounced timer; without a crash to come nobody reads the file.
Persist ==
    /\ mem.dirty /\ Allowed("crashes")
    /\ disk' = Saved
    /\ mem' = [mem EXCEPT !.dirty = FALSE]
    /\ UNCHANGED <<lim, host, used>>

Crash ==
    /\ mem.phase # "down" /\ Use("crashes")
    /\ mem' = Down
    /\ host' = [host EXCEPT !.told = [t \in Tasks |-> 0]]
    /\ UNCHANGED <<lim, disk>>

\* recover() rebuilds the counters when every session has been looked for.
Rebuilt(M, changed) ==
    IF \E c \in M.calls : c.op = "get" THEN M
    ELSE [M EXCEPT !.phase = "ready", !.elder = {}, !.dirty = @ \/ changed,
                   !.inflight = [p \in Parents |->
                       Cardinality({t \in Children(p) : Is(M, t, {"running", "pending"})})]]

\* restoreState(): pending tasks are dropped, finished ones cleaned up when their
\* time to live is over, now or later, the sessions of running ones looked for.
Restart ==
    /\ mem.phase = "down"
    /\ LET kept == {t \in disk.listed : disk.status[t] # "pending"}
           ended == {t \in kept : disk.status[t] \in Terminal}
           running == {t \in kept : disk.status[t] = "running"}
       IN \E expired \in SUBSET ended :
            mem' = Rebuilt([EmptyMemory EXCEPT
                      !.phase = "recovering",
                      !.listed = kept \ expired,
                      !.status = [t \in Tasks |-> IF t \in kept \ expired THEN disk.status[t] ELSE "none"],
                      !.start = disk.start, !.outbox = disk.outbox,
                      !.timer = [t \in Tasks |-> IF t \in ended \ expired THEN "blind" ELSE "none"],
                      !.calls = {Call("get", t) : t \in running},
                      !.dirty = expired # {}], kept # disk.listed)
    /\ UNCHANGED <<lim, disk, host, used>>

SessionFound(t) ==
    /\ Call("get", t) \in mem.calls
    /\ host.session[t] # "gone"
    /\ mem' = Rebuilt([Without(Call("get", t)) EXCEPT
                 !.watched = @ \cup {t}, !.routed = @ \cup {t}, !.state = @ \cup {t},
                 !.base[t] = mem.start[t], !.confirm[t] = Unset], TRUE)
    /\ UNCHANGED <<lim, disk, host, used>>

SessionLost(t) ==
    /\ Call("get", t) \in mem.calls
    /\ host.session[t] = "gone" \/ Allowed("faults")
    /\ used' = IF host.session[t] = "gone" THEN used ELSE [used EXCEPT !.faults = @ + 1]
    /\ LET N == [Without(Call("get", t)) EXCEPT !.status[t] = "error"]
       IN mem' = Rebuilt(ScheduleCleanup(NotifyParent(N, t, N.inflight[ParentOf[t]], MaxTries, "alone"), t), TRUE)
    /\ UNCHANGED <<lim, disk, host>>

-----------------------------------------------------------------------------

Act(t) ==
    \/ Launch(t) \/ Created(t) \/ CreateFailed(t) \/ PromptLands(t) \/ Prompted(t) \/ PromptFailed(t)
    \/ LaunchAborted(t) \/ Listen(t) \/ Cancel(t) \/ CancelAborted(t)
    \/ Resolve(t, "completed") \/ Resolve(t, "error")
    \/ Reopen(t) \/ Reopened(t) \/ Reprompted(t) \/ RepromptFailed(t)
    \/ Evaluate(t) \/ DebounceElapsed(t) \/ ApprovalAsked(t) \/ Materialized(t)
    \/ SessionError(t) \/ Verified(t) \/ TurnEnds(t) \/ IdleSeen(t)
    \/ Stall(t) \/ ChildrenStall(t)
    \/ SweepOutbox(t) \/ CleanupDue(t) \/ SessionFound(t) \/ SessionLost(t)

Next ==
    \/ \E t \in Tasks : Act(t)
    \/ \E c \in mem.calls : Decide(c)
    \/ \E p \in Parents : SendNotification(p)
    \/ Persist \/ Crash \/ Restart

\* Calls are answered, turns end, the watchdog's timer fires and time passes;
\* nothing makes the environment launch, listen, cancel, fail or resolve, and
\* neither the debounce nor the outbox sweeper is needed for an end.
Steps(t) ==
    \/ Created(t) \/ PromptLands(t) \/ Prompted(t) \/ PromptFailed(t) \/ LaunchAborted(t)
    \/ CancelAborted(t) \/ Reopened(t) \/ Reprompted(t) \/ ApprovalAsked(t) \/ Materialized(t)
    \/ Verified(t) \/ IdleSeen(t) \/ SessionFound(t)
    \/ \E c \in mem.calls : c.task = t /\ Decide(c)

Fairness ==
    /\ \A t \in Tasks : /\ WF_vars(Steps(t)) /\ WF_vars(TurnEnds(t))
                        /\ WF_vars(Evaluate(t)) /\ WF_vars(Stall(t))
    /\ \A p \in {ParentOf[t] : t \in Tasks} : WF_vars(SendNotification(p))
    /\ WF_vars(Restart)

Spec == Init /\ [][Next]_vars /\ Fairness

-----------------------------------------------------------------------------
(* Properties *)

\* The manager's maps hold tasks that were launched, in statuses of the code's
\* type, and a counter never goes below zero, whichever paths decrement it.
TypeOK ==
    /\ mem.status \in [Tasks -> Status]
    /\ mem.listed \cup mem.outbox \cup mem.pending \cup mem.watched \subseteq host.born
    /\ mem.debouncing \subseteq mem.watched
    /\ mem.inflight \in [Parents -> Nat]

Running(p) == {t \in Children(p) : mem.status[t] = "running"}

\* A parent's in-flight counter never exceeds the number of its tasks that run:
\* launch, transition, cancel, continuation and recovery each change it beside
\* the status, and a surplus would keep the parent waiting and withhold the
\* message that all is complete.  Where no launch fails it is exact; a prompt
\* that fails after its task was cancelled or given up decrements once more.
InflightTrue ==
    Ready => \A p \in Parents :
        /\ mem.inflight[p] <= Cardinality(Running(p))
        /\ lim.refusals + lim.errors = 0 => mem.inflight[p] = Cardinality(Running(p))

\* Nothing about p's tasks is under way.
Quiet(p) ==
    /\ mem.queue[p] = <<>> /\ mem.outbox \cap Children(p) = {}
    /\ \A c \in mem.calls : c.task \notin Children(p)

\* A parent is prompted once: at most one final notification per task reaches
\* it although the completion and the outbox sweeper both send it, and when all
\* its tasks have completed and nothing is under way one has reached it,
\* although prompts fail and the siblings complete in any order.  (A task
\* resolved by approveTask() has no outbox entry, and a crash before the state
\* file is written loses one.)
ToldOnce ==
    /\ \A t \in Tasks : host.told[t] <= 1
    /\ Ready /\ used.crashes = 0 =>
        \A p \in Parents :
            LET kids == Children(p) \cap host.born IN
            /\ kids # {} /\ kids \cap (lim.suppressed \cup host.signalled) = {}
            /\ \A t \in kids : mem.status[t] = "completed"
            /\ Quiet(p)
            => \E t \in kids : host.told[t] = 1

\* A task that yielded its turn to wait for its own children is not completed
\* while one of them runs, by the debounce, the watchdog or the sweep, unless
\* the oldest of them has outlasted the stale timeout.  (The debounce looks at
\* no children: a task that is continued while its idle event reads the
\* transcript may be completed under a child its new turn launched.  No
\* scenario continues a task that has children.)
ParentWaits ==
    [][\A t \in Tasks :
          mem.status[t] = "running" /\ mem'.status[t] = "completed" =>
              t \in mem.elder \/ ~\E u \in Children(t) : Is(mem, u, {"running"})]_vars

\* Whoever listens for a task's end hears of it, whether it began to listen
\* while the task ran or when it had ended and nothing about it was under way:
\* the graph dispatcher waits on nothing else.  Left out are a task that runs
\* while its clean-up is scheduled (a cancel undone by the create it raced, a
\* continuation), which is dropped unheard, and one that asked for approval.
ListenersHear ==
    \A t \in Tasks :
        /\ mem.listener[t] = "waiting" /\ t \in mem.listed \ host.signalled
        /\ \/ mem.status[t] = "running" /\ mem.timer[t] = "none"
           \/ mem.status[t] \in Terminal /\ Quiet(ParentOf[t])
        ~> mem.listener[t] # "waiting"
=============================================================================
