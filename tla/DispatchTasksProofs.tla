------------------------ MODULE DispatchTasksProofs -------------------------
(***************************************************************************)
(* Theorems about DispatchTasks, for any tasks, any tree of parents and    *)
(* any bounds on what the user, the platform and the process do.           *)
(***************************************************************************)
EXTENDS DispatchTasks, FiniteSetTheorems, SequenceTheorems, TLAPS

-----------------------------------------------------------------------------
(* The manager's memory.                                                   *)

MemFields == {"listed", "status", "inflight", "elder", "routed", "state", "base", "start",
              "confirm", "watched", "debouncing", "outbox", "pending", "sent", "timer",
              "listener", "queue", "calls", "dirty", "phase"}

\* The fields the invariants are about.
Fields == {"listed", "status", "inflight", "watched", "debouncing", "outbox", "pending",
           "sent", "timer", "queue", "calls", "phase"}

\* N differs from M in no field the invariants are about but those of F.
Same(M, N, F) == DOMAIN N = MemFields /\ \A f \in Fields \ F : N[f] = M[f]

Senders == {"alone", "sweeper", "ended", "result"}

\* What the sweeper sends is final.
Jobs == {j \in [task : Tasks, remaining : Nat, tries : Nat, from : Senders, final : BOOLEAN] :
            j.from = "sweeper" => j.final}

CallTyped(c) == DOMAIN c = {"op", "task", "idle", "seen"} /\ c.task \in Tasks

MemTyped(M) ==
    /\ DOMAIN M = MemFields
    /\ M.listed \subseteq Tasks /\ M.outbox \subseteq Tasks /\ M.pending \subseteq Tasks
    /\ M.watched \subseteq Tasks /\ M.sent \subseteq Tasks /\ M.debouncing \subseteq M.watched
    /\ M.status \in [Tasks -> Status]
    /\ M.inflight \in [Parents -> Nat]
    /\ M.timer \in [Tasks -> {"none", "armed", "blind"}]
    /\ M.queue \in [Parents -> Seq(Jobs)]
    /\ \A c \in M.calls : CallTyped(c)

Fewer(f, p) == [f EXCEPT ![p] = IF @ <= 1 THEN 0 ELSE @ - 1]
More(f, p) == [f EXCEPT ![p] = @ + 1]

LEMMA CallIs ==
  ASSUME NEW op, NEW t
  PROVE  /\ Call(op, t).op = op /\ Call(op, t).task = t
         /\ DOMAIN Call(op, t) = {"op", "task", "idle", "seen"}
BY DEF Call

LEMMA ParentsHold == \A t \in Tasks : ParentOf[t] \in Parents /\ t \in Parents
BY DispatchConstants DEF Parents

LEMMA SameTrans ==
  ASSUME NEW M, NEW N, NEW O, NEW F, NEW G, Same(M, N, F), Same(N, O, G)
  PROVE  Same(M, O, F \cup G)
BY DEF Same

-----------------------------------------------------------------------------
(* What the operators on the memory change.                                *)

LEMMA MoveIs ==
  ASSUME NEW M, MemTyped(M), NEW t \in Tasks, NEW to \in Status
  PROVE  LET N == Move(M, t, to) IN
         /\ MemTyped(N) /\ Same(M, N, {"status", "inflight"})
         /\ N.status = [M.status EXCEPT ![t] = to]
         /\ N.inflight = IF M.status[t] = "running" /\ to # "running" THEN Fewer(M.inflight, ParentOf[t])
                         ELSE IF M.status[t] # "running" /\ to = "running" THEN More(M.inflight, ParentOf[t])
                         ELSE M.inflight
<1> DEFINE N == Move(M, t, to)
           p == ParentOf[t]
<1>0. p \in Parents
  BY ParentsHold
<1>1. CASE M.status[t] = "running" /\ to # "running"
  <2>1. N = Decrement([M EXCEPT !.status[t] = to], p)
    BY <1>1 DEF Move
  <2> DEFINE K == [M EXCEPT !.status[t] = to]
  <2>2. Same(M, K, {"status"}) /\ K.status = [M.status EXCEPT ![t] = to] /\ K.inflight = M.inflight
    BY DEF Same, MemTyped, MemFields, Fields
  <2> HIDE DEF K
  <2>3. /\ Same(K, N, {"inflight"}) /\ N.inflight = Fewer(K.inflight, p)
    <3>1. N = Decrement(K, p) /\ DOMAIN K = MemFields
      BY <2>1, <2>2 DEF Same, K
    <3>2. CASE K.inflight[p] <= 1
      <4>1. N = [K EXCEPT !.inflight[p] = 0, !.elder = @ \ {p}]
        BY <3>1, <3>2 DEF Decrement
      <4> QED
        BY <3>1, <3>2, <4>1 DEF Same, MemFields, Fields, Fewer
    <3>3. CASE ~(K.inflight[p] <= 1)
      <4>1. N = [K EXCEPT !.inflight[p] = @ - 1]
        BY <3>1, <3>3 DEF Decrement
      <4> QED
        BY <3>1, <3>3, <4>1 DEF Same, MemFields, Fields, Fewer
    <3> QED
      BY <3>2, <3>3
  <2>4. Same(M, N, {"status", "inflight"})
    BY <2>2, <2>3 DEF Same
  <2>5. N.status = K.status
    BY <2>3 DEF Same, Fields
  <2>6. N.inflight = Fewer(M.inflight, p) /\ N.inflight \in [Parents -> Nat]
    BY <1>0, <2>2, <2>3 DEF MemTyped, Fewer
  <2>7. N.status \in [Tasks -> Status]
    BY <2>2, <2>5 DEF MemTyped
  <2> HIDE DEF N
  <2>8. MemTyped(N)
    BY <2>4, <2>6, <2>7 DEF Same, MemTyped, Fields
  <2> QED
    BY <1>1, <2>2, <2>4, <2>5, <2>6, <2>8 DEF N
<1>2. CASE M.status[t] # "running" /\ to = "running"
  <2>1. N = Increment([M EXCEPT !.status[t] = to], p)
    BY <1>2 DEF Move
  <2> DEFINE K == [M EXCEPT !.status[t] = to]
  <2>2. Same(M, K, {"status"}) /\ K.status = [M.status EXCEPT ![t] = to] /\ K.inflight = M.inflight
    BY DEF Same, MemTyped, MemFields, Fields
  <2> HIDE DEF K
  <2>3. /\ Same(K, N, {"inflight"}) /\ N.inflight = More(K.inflight, p)
    BY <2>1, <2>2 DEF Same, MemFields, Fields, More, Increment, K
  <2>4. Same(M, N, {"status", "inflight"})
    BY <2>2, <2>3 DEF Same
  <2>5. N.status = K.status
    BY <2>3 DEF Same, Fields
  <2>6. N.inflight = More(M.inflight, p) /\ N.inflight \in [Parents -> Nat]
    BY <1>0, <2>2, <2>3 DEF MemTyped, More
  <2>7. N.status \in [Tasks -> Status]
    BY <2>2, <2>5 DEF MemTyped
  <2> HIDE DEF N
  <2>8. MemTyped(N)
    BY <2>4, <2>6, <2>7 DEF Same, MemTyped, Fields
  <2> QED
    BY <1>2, <2>2, <2>4, <2>5, <2>6, <2>8 DEF N
<1>3. CASE (M.status[t] = "running") <=> (to = "running")
  <2>1. N = [M EXCEPT !.status[t] = to]
    BY <1>3 DEF Move
  <2>2. Same(M, N, {"status"}) /\ N.status = [M.status EXCEPT ![t] = to] /\ N.inflight = M.inflight
    BY <2>1 DEF Same, MemTyped, MemFields, Fields
  <2> QED
    BY <1>3, <2>2 DEF Same, MemTyped, Fields
<1> QED
  BY <1>1, <1>2, <1>3

LEMMA UnwatchIs ==
  ASSUME NEW M, MemTyped(M), NEW t \in Tasks
  PROVE  LET N == Unwatch(M, t) IN
         /\ MemTyped(N) /\ Same(M, N, {"watched", "debouncing"}) /\ N.watched = M.watched \ {t}
<1> DEFINE N == Unwatch(M, t)
<1>1. /\ Same(M, N, {"watched", "debouncing"})
      /\ N.watched = M.watched \ {t} /\ N.debouncing = M.debouncing \ {t}
  BY DEF Unwatch, Same, MemTyped, MemFields, Fields
<1> QED
  BY <1>1 DEF Same, MemTyped, Fields

LEMMA StartDebounceIs ==
  ASSUME NEW M, MemTyped(M), NEW t \in Tasks
  PROVE  LET N == StartDebounce(M, t) IN MemTyped(N) /\ Same(M, N, {"debouncing"})
<1> DEFINE N == StartDebounce(M, t)
<1>1. CASE t \in M.watched
  <2>1. Same(M, N, {"debouncing"}) /\ N.debouncing = M.debouncing \cup {t}
    BY <1>1 DEF StartDebounce, Same, MemTyped, MemFields, Fields
  <2> QED
    BY <1>1, <2>1 DEF Same, MemTyped, Fields
<1>2. CASE t \notin M.watched
  BY <1>2 DEF StartDebounce, Same, MemTyped
<1> QED
  BY <1>1, <1>2

LEMMA HeardBusyIs ==
  ASSUME NEW M, MemTyped(M), NEW s
  PROVE  LET N == HeardBusy(M, s) IN MemTyped(N) /\ Same(M, N, {"debouncing"})
<1> DEFINE N == HeardBusy(M, s)
<1>1. CASE N = [M EXCEPT !.debouncing = @ \ {s}]
  <2>1. Same(M, N, {"debouncing"}) /\ N.debouncing = M.debouncing \ {s}
    BY <1>1 DEF Same, MemTyped, MemFields, Fields
  <2> QED
    BY <2>1 DEF Same, MemTyped, Fields
<1>2. CASE N = M
  BY <1>2 DEF Same, MemTyped
<1> QED
  BY <1>1, <1>2 DEF HeardBusy

LEMMA NotifyTerminatedIs ==
  ASSUME NEW M, MemTyped(M), NEW t \in Tasks
  PROVE  LET N == NotifyTerminated(M, t) IN MemTyped(N) /\ Same(M, N, {})
<1> DEFINE N == NotifyTerminated(M, t)
<1>1. CASE N = [M EXCEPT !.listener[t] = "called"]
  <2>1. Same(M, N, {})
    BY <1>1 DEF Same, MemTyped, MemFields, Fields
  <2> QED
    BY <2>1 DEF Same, MemTyped, Fields
<1>2. CASE N = M
  BY <1>2 DEF Same, MemTyped
<1> QED
  BY <1>1, <1>2 DEF NotifyTerminated

LEMMA ScheduleCleanupIs ==
  ASSUME NEW M, MemTyped(M), NEW t \in Tasks
  PROVE  LET N == ScheduleCleanup(M, t) IN
         /\ MemTyped(N) /\ Same(M, N, {"timer"}) /\ N.timer = [M.timer EXCEPT ![t] = "armed"]
<1> DEFINE N == ScheduleCleanup(M, t)
<1>1. Same(M, N, {"timer"}) /\ N.timer = [M.timer EXCEPT ![t] = "armed"]
  BY DEF ScheduleCleanup, Same, MemTyped, MemFields, Fields
<1> QED
  BY <1>1 DEF Same, MemTyped, Fields

LEMMA LeaveRunningIs ==
  ASSUME NEW M, MemTyped(M), NEW t \in Tasks
  PROVE  LET N == LeaveRunning(M, t) IN
         /\ MemTyped(N) /\ Same(M, N, {"timer"})
         /\ N.timer = M.timer \/ N.timer = [M.timer EXCEPT ![t] = "armed"]
<1> DEFINE N == LeaveRunning(M, t)
           K == [M EXCEPT !.dirty = TRUE]
<1>1. CASE t \in M.listed
  <2>1. Same(M, K, {})
    BY DEF Same, MemTyped, MemFields, Fields
  <2>2. MemTyped(K) /\ K.timer = M.timer
    <3> HIDE DEF K
    <3> QED
      BY <2>1 DEF Same, MemTyped, Fields
  <2>3. N = ScheduleCleanup(K, t)
    BY <1>1 DEF LeaveRunning
  <2> HIDE DEF K, N
  <2>4. MemTyped(N) /\ Same(K, N, {"timer"}) /\ N.timer = [K.timer EXCEPT ![t] = "armed"]
    BY <2>2, <2>3, ScheduleCleanupIs
  <2> QED
    BY <2>1, <2>2, <2>4 DEF Same, N
<1>2. CASE t \notin M.listed
  BY <1>2 DEF LeaveRunning, Same, MemTyped
<1> QED
  BY <1>1, <1>2

\* A notification is answered: the caller drops the task from what is pending, and
\* the sweeper from the outbox if the parent was told.
LEMMA AnsweredIs ==
  ASSUME NEW M, MemTyped(M), NEW job, job.task \in Tasks, job.from \in Senders, NEW ok \in BOOLEAN
  PROVE  LET N == Answered(M, job, ok) IN
         /\ MemTyped(N) /\ Same(M, N, {"pending", "outbox"})
         /\ N.pending \subseteq M.pending
         /\ N.outbox = IF job.from = "sweeper" /\ ok THEN M.outbox \ {job.task} ELSE M.outbox
<1> DEFINE N == Answered(M, job, ok)
           t == job.task
           K == [M EXCEPT !.pending = @ \ {t}]
<1>1. CASE job.from = "alone"
  BY <1>1 DEF Answered, Same, MemTyped
<1>2. CASE job.from = "sweeper"
  <2>1. CASE ok
    <3>1. N = [M EXCEPT !.outbox = @ \ {t}]
      BY <1>2, <2>1 DEF Answered
    <3>2. Same(M, N, {"outbox"}) /\ N.outbox = M.outbox \ {t}
      BY <3>1 DEF Same, MemTyped, MemFields, Fields
    <3> QED
      BY <1>2, <2>1, <3>2 DEF Same, MemTyped, Fields
  <2>2. CASE ~ ok
    BY <1>2, <2>2 DEF Answered, Same, MemTyped
  <2> QED
    BY <2>1, <2>2
<1>3. Same(M, K, {"pending"}) /\ K.pending = M.pending \ {t}
  BY DEF Same, MemTyped, MemFields, Fields
<1>4. MemTyped(K)
  <2> HIDE DEF K
  <2> QED
    BY <1>3 DEF Same, MemTyped, Fields
<1>5. CASE job.from = "ended"
  <2>1. N = K
    BY <1>5 DEF Answered
  <2> HIDE DEF K, N
  <2> QED
    BY <1>3, <1>4, <1>5, <2>1 DEF Same, N, Fields
<1>6. CASE job.from = "result"
  <2>1. N = NotifyTerminated(K, t)
    BY <1>6 DEF Answered
  <2> HIDE DEF K
  <2>2. MemTyped(N) /\ Same(K, N, {})
    BY <1>4, <2>1, NotifyTerminatedIs
  <2> HIDE DEF N
  <2> QED
    BY <1>3, <1>6, <2>2 DEF Same, N, Fields
<1> QED
  BY <1>1, <1>2, <1>5, <1>6 DEF Senders

LEMMA NotifyParentIs ==
  ASSUME NEW M, MemTyped(M), lim \in Limits, NEW t \in Tasks, NEW remaining \in Nat,
         NEW tries \in Nat, NEW from \in Senders, from = "sweeper" => remaining = 0
  PROVE  LET N == NotifyParent(M, t, remaining, tries, from) IN
         /\ MemTyped(N) /\ Same(M, N, {"queue", "pending", "outbox"})
         /\ N.pending \subseteq M.pending
         /\ N.outbox = IF from = "sweeper" /\ t \in lim.suppressed THEN M.outbox \ {t} ELSE M.outbox
<1> DEFINE N == NotifyParent(M, t, remaining, tries, from)
           p == ParentOf[t]
           job == [task |-> t, remaining |-> remaining, tries |-> tries, from |-> from,
                   final |-> remaining = 0 \/ M.status[t] \in Failures]
<1>1. job \in Jobs
  BY DEF Jobs
<1>2. job.task = t /\ job.from = from
  OBVIOUS
<1>3. N = IF t \in lim.suppressed THEN Answered(M, job, TRUE)
          ELSE [M EXCEPT !.queue[p] = Append(@, job)]
  BY DEF NotifyParent
<1> HIDE DEF job, N
<1>4. CASE t \in lim.suppressed
  <2>1. N = Answered(M, job, TRUE)
    BY <1>3, <1>4
  <2>2. /\ MemTyped(N) /\ Same(M, N, {"pending", "outbox"})
        /\ N.pending \subseteq M.pending
        /\ N.outbox = IF job.from = "sweeper" /\ TRUE THEN M.outbox \ {job.task} ELSE M.outbox
    BY <1>2, <2>1, AnsweredIs
  <2> QED
    BY <1>2, <1>4, <2>2 DEF Same, N
<1>5. CASE t \notin lim.suppressed
  <2>0. p \in Parents /\ M.queue[p] \in Seq(Jobs)
    BY ParentsHold DEF MemTyped
  <2>1. Append(M.queue[p], job) \in Seq(Jobs)
    BY <1>1, <2>0, AppendProperties
  <2>2. N = [M EXCEPT !.queue[p] = Append(@, job)]
    BY <1>3, <1>5
  <2>3. Same(M, N, {"queue"}) /\ N.queue = [M.queue EXCEPT ![p] = Append(M.queue[p], job)]
    BY <2>2 DEF Same, MemTyped, MemFields, Fields
  <2>4. N.queue \in [Parents -> Seq(Jobs)]
    BY <2>0, <2>1, <2>3 DEF MemTyped
  <2>5. MemTyped(N)
    BY <2>3, <2>4 DEF Same, MemTyped, Fields
  <2> QED
    BY <1>5, <2>3, <2>5 DEF Same, N, Fields
<1> QED
  BY <1>4, <1>5

LEMMA NotifyCompletionIs ==
  ASSUME NEW M, MemTyped(M), lim \in Limits, NEW t \in Tasks, NEW from \in {"ended", "result"}
  PROVE  LET N == NotifyCompletion(M, t, from) IN
         /\ MemTyped(N) /\ Same(M, N, {"queue", "pending"})
         /\ N.pending \subseteq M.pending \cup {t}
<1> DEFINE N == NotifyCompletion(M, t, from)
           K == [M EXCEPT !.pending = @ \cup {t}]
           n == M.inflight[ParentOf[t]]
<1>1. Same(M, K, {"pending"}) /\ K.pending = M.pending \cup {t}
  BY DEF Same, MemTyped, MemFields, Fields
<1>2. N = NotifyParent(K, t, n, MaxTries, from)
  BY DEF NotifyCompletion
<1>3. n \in Nat /\ MaxTries \in Nat
  BY ParentsHold, DispatchConstants DEF MemTyped
<1> HIDE DEF K, N, n
<1>4. MemTyped(K)
  BY <1>1 DEF Same, MemTyped, Fields
<1>5. /\ MemTyped(N) /\ Same(K, N, {"queue", "pending", "outbox"})
      /\ N.pending \subseteq K.pending /\ N.outbox = K.outbox
  <2>1. from \in Senders /\ from # "sweeper"
    BY DEF Senders
  <2> QED
    BY <1>2, <1>3, <1>4, <2>1, NotifyParentIs
<1> QED
  BY <1>1, <1>5 DEF Same, N, Fields

\* A running task ends: its status, its parent's counter, its clean-up, and the calls it leaves.
Ended(M, N, t, to, new) ==
    /\ Same(M, N, {"status", "inflight", "watched", "debouncing", "queue", "pending", "timer", "calls"})
    /\ N.calls = M.calls \cup new
    /\ N.status = [M.status EXCEPT ![t] = to] /\ N.inflight = Fewer(M.inflight, ParentOf[t])
    /\ N.watched \subseteq M.watched /\ N.pending \subseteq M.pending \cup {t}
    /\ N.timer = M.timer \/ N.timer = [M.timer EXCEPT ![t] = "armed"]

LEMMA FailIs ==
  ASSUME NEW M, MemTyped(M), lim \in Limits, NEW t \in Tasks, NEW to \in {"error", "timeout"}
  PROVE  LET N == Fail(M, t, to) IN
         /\ MemTyped(N)
         /\ N = M \/ (M.status[t] = "running" /\ Ended(M, N, t, to, {}))
<1> DEFINE N == Fail(M, t, to)
           A == Move(M, t, to)
           B == Unwatch(A, t)
           C == NotifyTerminated(B, t)
           D == NotifyCompletion(C, t, "ended")
<1>1. CASE ~Is(M, t, {"running"})
  <2>1. Fail(M, t, to) = M
    BY <1>1 DEF Fail
  <2> QED
    BY <2>1
<1>2. CASE Is(M, t, {"running"})
  <2>0. M.status[t] = "running" /\ to # "running" /\ to \in Status
    BY <1>2 DEF Is, Status, Terminal, Failures
  <2>1. N = LeaveRunning(D, t)
    BY <1>2 DEF Fail
  <2> HIDE DEF N
  <2>2. /\ MemTyped(A) /\ Same(M, A, {"status", "inflight"})
        /\ A.status = [M.status EXCEPT ![t] = to] /\ A.inflight = Fewer(M.inflight, ParentOf[t])
    BY <2>0, MoveIs
  <2> HIDE DEF A
  <2>3. MemTyped(B) /\ Same(A, B, {"watched", "debouncing"}) /\ B.watched = A.watched \ {t}
    BY <2>2, UnwatchIs
  <2> HIDE DEF B
  <2>4. MemTyped(C) /\ Same(B, C, {})
    BY <2>3, NotifyTerminatedIs
  <2> HIDE DEF C
  <2>5. MemTyped(D) /\ Same(C, D, {"queue", "pending"}) /\ D.pending \subseteq C.pending \cup {t}
    BY <2>4, NotifyCompletionIs
  <2> HIDE DEF D
  <2>6. /\ MemTyped(N) /\ Same(D, N, {"timer"})
        /\ N.timer = D.timer \/ N.timer = [D.timer EXCEPT ![t] = "armed"]
    BY <2>1, <2>5, LeaveRunningIs
  <2>7. Ended(M, N, t, to, {})
    BY <2>2, <2>3, <2>4, <2>5, <2>6 DEF Ended, Same, Fields
  <2> QED
    BY <2>0, <2>6, <2>7 DEF N
<1> QED
  BY <1>1, <1>2

\* completeAndRelease() leaves the fetch of the result under way, checkHitlSignals() the
\* question to the parent.
LEMMA ConcludeIs ==
  ASSUME NEW M, MemTyped(M), NEW t \in Tasks
  PROVE  LET N == Conclude(M, t) IN
         /\ MemTyped(N)
         /\ \/ N = M
            \/ /\ M.status[t] = "running" /\ t \in M.listed
               /\ \/ Ended(M, N, t, "completed", {Call("result", t)})
                  \/ t \in host.signalled /\ Ended(M, N, t, "awaiting_approval", {Call("hitl", t)})
<1> DEFINE N == Conclude(M, t)
<1>1. CASE ~Is(M, t, {"running"})
  <2>1. Conclude(M, t) = M
    BY <1>1 DEF Conclude
  <2> QED
    BY <2>1
<1>2. CASE Is(M, t, {"running"})
  <2>0. /\ M.status[t] = "running" /\ t \in M.listed
        /\ "completed" \in Status /\ "awaiting_approval" \in Status
    BY <1>2 DEF Is, Status, Terminal, Failures
  <2>1. CASE t \in host.signalled
    <3> DEFINE A == Move(M, t, "awaiting_approval")
               B == Unwatch(A, t)
               c == Call("hitl", t)
    <3>1. N = [B EXCEPT !.dirty = TRUE, !.calls = @ \cup {c}]
      BY <1>2, <2>1 DEF Conclude
    <3> HIDE DEF N
    <3>2. /\ MemTyped(A) /\ Same(M, A, {"status", "inflight"})
          /\ A.status = [M.status EXCEPT ![t] = "awaiting_approval"]
          /\ A.inflight = Fewer(M.inflight, ParentOf[t])
      BY <2>0, MoveIs
    <3> HIDE DEF A
    <3>3. MemTyped(B) /\ Same(A, B, {"watched", "debouncing"}) /\ B.watched = A.watched \ {t}
      BY <3>2, UnwatchIs
    <3> HIDE DEF B
    <3>4. CallTyped(c)
      BY CallIs DEF CallTyped
    <3> HIDE DEF c
    <3>5. Same(B, N, {"calls"}) /\ N.calls = B.calls \cup {c}
      BY <3>1, <3>3 DEF Same, MemTyped, MemFields, Fields
    <3>6. MemTyped(N)
      BY <3>3, <3>4, <3>5 DEF Same, MemTyped, Fields
    <3>7. Ended(M, N, t, "awaiting_approval", {c})
      BY <3>2, <3>3, <3>5 DEF Ended, Same, Fields
    <3> QED
      BY <2>0, <2>1, <3>6, <3>7 DEF N, c
  <2>2. CASE t \notin host.signalled
    <3> DEFINE A == Move(M, t, "completed")
               B == Unwatch(A, t)
               C == LeaveRunning(B, t)
               c == Call("result", t)
    <3>1. N = [C EXCEPT !.calls = @ \cup {c}]
      BY <1>2, <2>2 DEF Conclude
    <3> HIDE DEF N
    <3>2. /\ MemTyped(A) /\ Same(M, A, {"status", "inflight"})
          /\ A.status = [M.status EXCEPT ![t] = "completed"]
          /\ A.inflight = Fewer(M.inflight, ParentOf[t])
      BY <2>0, MoveIs
    <3> HIDE DEF A
    <3>3. MemTyped(B) /\ Same(A, B, {"watched", "debouncing"}) /\ B.watched = A.watched \ {t}
      BY <3>2, UnwatchIs
    <3> HIDE DEF B
    <3>4. /\ MemTyped(C) /\ Same(B, C, {"timer"})
          /\ C.timer = B.timer \/ C.timer = [B.timer EXCEPT ![t] = "armed"]
      BY <3>3, LeaveRunningIs
    <3> HIDE DEF C
    <3>5. CallTyped(c)
      BY CallIs DEF CallTyped
    <3> HIDE DEF c
    <3>6. Same(C, N, {"calls"}) /\ N.calls = C.calls \cup {c}
      BY <3>1, <3>4 DEF Same, MemTyped, MemFields, Fields
    <3>7. MemTyped(N)
      BY <3>4, <3>5, <3>6 DEF Same, MemTyped, Fields
    <3>8. Ended(M, N, t, "completed", {c})
      BY <3>2, <3>3, <3>4, <3>6 DEF Ended, Same, Fields
    <3> QED
      BY <2>0, <3>7, <3>8 DEF N, c
  <2> QED
    BY <2>1, <2>2
<1> QED
  BY <1>1, <1>2

\* A call that is answered is under way no more.
LEMMA WithoutIs ==
  ASSUME MemTyped(mem), NEW c
  PROVE  LET N == Without(c) IN
         MemTyped(N) /\ Same(mem, N, {"calls"}) /\ N.calls = mem.calls \ {c}
<1> DEFINE N == Without(c)
<1>1. Same(mem, N, {"calls"}) /\ N.calls = mem.calls \ {c}
  BY DEF Without, Same, MemTyped, MemFields, Fields
<1> HIDE DEF N
<1>2. MemTyped(N)
  BY <1>1 DEF Same, MemTyped, Fields
<1> QED
  BY <1>1, <1>2 DEF N

-----------------------------------------------------------------------------
(* Counting the tasks that run.                                            *)

RunningOf(s, p) == {t \in Children(p) : s[t] = "running"}

LEMMA RunningFinite ==
  ASSUME NEW s, NEW p
  PROVE  IsFiniteSet(RunningOf(s, p)) /\ Cardinality(RunningOf(s, p)) \in Nat
<1>1. RunningOf(s, p) \in SUBSET Tasks
  BY DEF RunningOf, Children
<1>2. IsFiniteSet(RunningOf(s, p))
  BY <1>1, DispatchConstants, FS_Subset
<1> QED
  BY <1>2, FS_CardinalityType

LEMMA RunningElsewhere ==
  ASSUME NEW s, DOMAIN s = Tasks, NEW t \in Tasks, NEW x, NEW p, p # ParentOf[t]
  PROVE  RunningOf([s EXCEPT ![t] = x], p) = RunningOf(s, p)
BY DEF RunningOf, Children

LEMMA RunningLess ==
  ASSUME NEW s, DOMAIN s = Tasks, NEW t \in Tasks, NEW x, s[t] = "running", x # "running"
  PROVE  Cardinality(RunningOf([s EXCEPT ![t] = x], ParentOf[t]))
            = Cardinality(RunningOf(s, ParentOf[t])) - 1
<1> DEFINE R == RunningOf(s, ParentOf[t])
<1>1. RunningOf([s EXCEPT ![t] = x], ParentOf[t]) = R \ {t} /\ t \in R
  BY DEF RunningOf, Children
<1> QED
  BY <1>1, RunningFinite, FS_RemoveElement

LEMMA RunningMore ==
  ASSUME NEW s, DOMAIN s = Tasks, NEW t \in Tasks, s[t] # "running"
  PROVE  Cardinality(RunningOf([s EXCEPT ![t] = "running"], ParentOf[t]))
            = Cardinality(RunningOf(s, ParentOf[t])) + 1
<1> DEFINE R == RunningOf(s, ParentOf[t])
<1>1. RunningOf([s EXCEPT ![t] = "running"], ParentOf[t]) = R \cup {t} /\ t \notin R
  BY DEF RunningOf, Children
<1> QED
  BY <1>1, RunningFinite, FS_AddElement

LEMMA RunningSame ==
  ASSUME NEW s, DOMAIN s = Tasks, NEW t \in Tasks, NEW x, s[t] # "running", x # "running", NEW p
  PROVE  RunningOf([s EXCEPT ![t] = x], p) = RunningOf(s, p)
BY DEF RunningOf, Children

-----------------------------------------------------------------------------
(* The inductive invariant.                                                *)

UsedNames == {"cancels", "refusals", "faults", "errors", "stalls", "reopens", "crashes"}
HostFields == {"born", "session", "msgs", "signalled", "stalled", "told"}

HostTyped(H) ==
    /\ DOMAIN H = HostFields
    /\ H.born \subseteq Tasks
    /\ H.session \in [Tasks -> {"none", "idle", "busy", "gone"}]
    /\ H.told \in [Tasks -> Nat]

\* What the manager remembers was launched.
Known(M, B) ==
    /\ M.listed \subseteq B /\ M.outbox \subseteq B /\ M.pending \subseteq B /\ M.watched \subseteq B
    /\ \A c \in M.calls : c.task \in B
    /\ \A t \in Tasks : M.status[t] # "none" => t \in B

UsedTyped == used \in [UsedNames -> Nat] /\ \A w \in UsedNames : used[w] <= lim[w]

TypeInv ==
    /\ lim \in Limits
    /\ MemTyped(mem) /\ Known(mem, host.born)
    /\ HostTyped(host)
    /\ disk.listed \subseteq host.born /\ disk.outbox \subseteq host.born
    /\ disk.status \in [Tasks -> Status]
    /\ UsedTyped
    /\ \A t \in Tasks : host.session[t] = "gone" => lim.errors > 0

\* While a session is created its task does not run and is not continued; sessions are
\* looked for in recovery only; a result is fetched for a task that is known.
CallInv ==
    /\ \A t \in Tasks : Call("create", t) \in mem.calls =>
          mem.status[t] # "running" /\ Call("reopen", t) \notin mem.calls
    /\ \A c \in mem.calls : c.op = "get" => mem.phase = "recovering"
    /\ \A t \in Tasks : Call("result", t) \in mem.calls => t \in mem.listed

\* In recovery nothing is launched, cancelled or continued, and no task that runs is
\* about to be cleaned up.
RecoverInv ==
    mem.phase = "recovering" =>
        /\ \A c \in mem.calls : c.op \notin {"create", "reopen", "cancel"}
        /\ \A t \in Tasks : mem.status[t] # "pending"
        /\ \A t \in Tasks : mem.status[t] = "running" => t \in mem.listed /\ mem.timer[t] = "none"

Counted(M) ==
    \A p \in Parents :
        /\ M.inflight[p] <= Cardinality(RunningOf(M.status, p))
        /\ lim.refusals + lim.errors = 0 => M.inflight[p] = Cardinality(RunningOf(M.status, p))

CountInv == CallInv /\ RecoverInv /\ (mem.phase = "ready" => Counted(mem))

-----------------------------------------------------------------------------
(* What a step may do, and what that leaves true.                          *)

HostMoves(H, G) ==
    /\ HostTyped(G) /\ H.born \subseteq G.born /\ H.signalled \subseteq G.signalled
    /\ \A t \in Tasks : G.session[t] = "gone" => H.session[t] = "gone" \/ lim.errors > 0

\* Only tasks of S are touched.
KnownStep(S) ==
    /\ S \subseteq host'.born
    /\ mem'.listed \subseteq mem.listed \cup S /\ mem'.outbox \subseteq mem.outbox \cup S
    /\ mem'.pending \subseteq mem.pending \cup S /\ mem'.watched \subseteq mem.watched \cup S
    /\ \A c \in mem'.calls : c \in mem.calls \/ c.task \in S
    /\ \A t \in Tasks \ S : mem'.status[t] = mem.status[t]

\* The part of a step that every handler has.
Handled(S) ==
    /\ lim' = lim /\ disk' = disk
    /\ MemTyped(mem') /\ mem'.phase = mem.phase
    /\ HostMoves(host, host') /\ UsedTyped' /\ KnownStep(S)

LEMMA HandledTypes ==
  ASSUME TypeInv, NEW S, Handled(S)
  PROVE  TypeInv'
<1>1. Known(mem, host.born)'
  BY DEF TypeInv, Handled, HostMoves, Known, KnownStep
<1>2. (disk.listed \subseteq host.born /\ disk.outbox \subseteq host.born)'
  BY DEF TypeInv, Handled, HostMoves
<1> QED
  BY <1>1, <1>2 DEF TypeInv, Handled, HostMoves

\* The status of t changes, or none: the counter of its parent follows.
StatusStep(t) ==
    \/ mem'.status = mem.status /\ mem'.inflight = mem.inflight
    \/ \E x \in Status \ {"running"} :
        /\ mem'.status = [mem.status EXCEPT ![t] = x]
        /\ x = "pending" => Ready
        /\ mem.status[t] = "running" => mem'.inflight = Fewer(mem.inflight, ParentOf[t])
        /\ mem.status[t] # "running" =>
            \/ mem'.inflight = mem.inflight
            \/ lim.refusals + lim.errors > 0 /\ mem'.inflight = Fewer(mem.inflight, ParentOf[t])

LEMMA CountStep ==
  ASSUME TypeInv, Counted(mem), NEW t \in Tasks, StatusStep(t), lim' = lim
  PROVE  Counted(mem)'
<1> USE DEF Counted
<1>1. CASE mem'.status = mem.status /\ mem'.inflight = mem.inflight
  BY <1>1
<1>2. ASSUME NEW x \in Status \ {"running"}, mem'.status = [mem.status EXCEPT ![t] = x],
             mem.status[t] = "running", mem'.inflight = Fewer(mem.inflight, ParentOf[t])
      PROVE  Counted(mem)'
  <2> SUFFICES ASSUME NEW p \in Parents
               PROVE  /\ mem'.inflight[p] <= Cardinality(RunningOf(mem'.status, p))
                      /\ lim.refusals + lim.errors = 0
                            => mem'.inflight[p] = Cardinality(RunningOf(mem'.status, p))
    OBVIOUS
  <2>0. /\ mem.inflight[p] \in Nat /\ DOMAIN mem.status = Tasks /\ DOMAIN mem.inflight = Parents
        /\ Cardinality(RunningOf(mem.status, p)) \in Nat
        /\ Cardinality(RunningOf(mem'.status, p)) \in Nat
    BY RunningFinite DEF TypeInv, MemTyped
  <2>1. CASE p = ParentOf[t]
    <3>1. Cardinality(RunningOf(mem'.status, p)) = Cardinality(RunningOf(mem.status, p)) - 1
      BY <1>2, <2>0, <2>1, RunningLess
    <3>2. mem'.inflight[p] = IF mem.inflight[p] <= 1 THEN 0 ELSE mem.inflight[p] - 1
      BY <1>2, <2>0, <2>1 DEF Fewer
    <3> QED
      BY <2>0, <3>1, <3>2
  <2>2. CASE p # ParentOf[t]
    <3>1. RunningOf(mem'.status, p) = RunningOf(mem.status, p)
      BY <1>2, <2>0, <2>2, RunningElsewhere
    <3>2. mem'.inflight[p] = mem.inflight[p]
      BY <1>2, <2>0, <2>2 DEF Fewer
    <3> QED
      BY <3>1, <3>2
  <2> QED
    BY <2>1, <2>2
<1>3. ASSUME NEW x \in Status \ {"running"}, mem'.status = [mem.status EXCEPT ![t] = x],
             mem.status[t] # "running",
             \/ mem'.inflight = mem.inflight
             \/ lim.refusals + lim.errors > 0 /\ mem'.inflight = Fewer(mem.inflight, ParentOf[t])
      PROVE  Counted(mem)'
  <2> SUFFICES ASSUME NEW p \in Parents
               PROVE  /\ mem'.inflight[p] <= Cardinality(RunningOf(mem'.status, p))
                      /\ lim.refusals + lim.errors = 0
                            => mem'.inflight[p] = Cardinality(RunningOf(mem'.status, p))
    OBVIOUS
  <2>0. /\ mem.inflight[p] \in Nat /\ DOMAIN mem.status = Tasks /\ DOMAIN mem.inflight = Parents
        /\ Cardinality(RunningOf(mem.status, p)) \in Nat
        /\ lim.refusals \in Nat /\ lim.errors \in Nat
    BY RunningFinite, DispatchConstants DEF TypeInv, MemTyped
  <2>1. RunningOf(mem'.status, p) = RunningOf(mem.status, p)
    BY <1>3, <2>0, RunningSame
  <2>2. \/ mem'.inflight[p] = mem.inflight[p]
        \/ lim.refusals + lim.errors > 0 /\ mem'.inflight[p] <= mem.inflight[p]
    BY <1>3, <2>0 DEF Fewer
  <2>3. mem'.inflight[p] \in Nat
    BY <1>3, <2>0 DEF Fewer
  <2> QED
    BY <2>0, <2>1, <2>2, <2>3
<1> QED
  BY <1>1, <1>2, <1>3 DEF StatusStep

\* What keeps the calls, the recovery and the counters in order.
CountSteady(t) ==
    /\ StatusStep(t)
    /\ mem.listed \subseteq mem'.listed
    /\ \A c \in mem'.calls \ mem.calls :
          /\ c.op \notin {"get", "create", "reopen"} /\ (c.op = "cancel" => Ready)
          /\ c.op = "result" => c.task \in mem.listed
    /\ \A u \in Tasks : u # t => mem'.timer[u] = mem.timer[u]
    /\ mem.phase = "recovering" => mem'.timer[t] = mem.timer[t] \/ mem'.status[t] # "running"

LEMMA CountKept ==
  ASSUME TypeInv, CountInv, NEW t \in Tasks, NEW S, Handled(S), CountSteady(t)
  PROVE  CountInv'
<1>0. \A u \in Tasks : mem'.status[u] = "running" => mem.status[u] = "running"
  BY DEF CountSteady, StatusStep, TypeInv, MemTyped
<1>1. \A u \in Tasks : mem'.status[u] = "pending" => mem.status[u] = "pending" \/ Ready
  BY DEF CountSteady, StatusStep, TypeInv, MemTyped
<1>2. CallInv'
  <2>1. \A u \in Tasks : Call("create", u) \in mem'.calls =>
            mem'.status[u] # "running" /\ Call("reopen", u) \notin mem'.calls
    BY <1>0, CallIs DEF CountSteady, CountInv, CallInv
  <2>2. \A c \in mem'.calls : c.op = "get" => mem'.phase = "recovering"
    BY DEF CountSteady, CountInv, CallInv, Handled
  <2>3. \A u \in Tasks : Call("result", u) \in mem'.calls => u \in mem'.listed
    BY CallIs DEF CountSteady, CountInv, CallInv
  <2> QED
    BY <2>1, <2>2, <2>3 DEF CallInv
<1>3. RecoverInv'
  BY <1>0, <1>1 DEF CountSteady, CountInv, RecoverInv, Handled, Ready
<1>4. (mem.phase = "ready" => Counted(mem))'
  BY CountStep DEF CountSteady, CountInv, Handled
<1> QED
  BY <1>2, <1>3, <1>4 DEF CountInv

-----------------------------------------------------------------------------
(* Telling the parent.                                                     *)

ToldMatch == \A t \in Tasks : host.told[t] = IF t \in mem.sent THEN 1 ELSE 0

Kids(p) == Children(p) \cap host.born

\* All the tasks of p have completed and none of them asks for approval.
AllDone(p) ==
    /\ Kids(p) # {} /\ Kids(p) \cap (lim.suppressed \cup host.signalled) = {}
    /\ \A t \in Kids(p) : mem.status[t] = "completed"

\* The news is under way, kept for the sweeper, or has been sent.
NewsOf(t) == Call("result", t) \in mem.calls \/ t \in mem.outbox \/ t \in mem.sent

ToldInv ==
    /\ ToldMatch
    /\ used.crashes = 0 =>
        /\ mem.phase = "ready"
        /\ mem.outbox \subseteq mem.listed
        /\ \A t \in Tasks : mem.timer[t] # "blind"
        /\ \A t \in Tasks : mem.status[t] = "awaiting_approval" => t \in host.signalled
        /\ \A p \in Parents : AllDone(p) => \E t \in Kids(p) : NewsOf(t)

\* No news is lost, and none that completes goes without.
TellSteady ==
    /\ used'.crashes = used.crashes /\ ToldMatch' /\ mem.sent \subseteq mem'.sent
    /\ mem.listed \subseteq mem'.listed /\ mem'.outbox \subseteq mem.outbox
    /\ \A t \in mem.outbox \ mem'.outbox : t \in mem'.sent \cup lim.suppressed \/ t \notin mem.listed
    /\ used.crashes = 0 => \A t \in Tasks :
        /\ mem'.timer[t] = "blind" => mem.timer[t] = "blind"
        /\ mem'.status[t] = "awaiting_approval" =>
              mem.status[t] = "awaiting_approval" \/ t \in host'.signalled
        /\ mem'.status[t] = "completed" =>
              mem.status[t] = "completed" \/ t \in host'.signalled \/ Call("result", t) \in mem'.calls
        /\ Call("result", t) \in mem.calls => Call("result", t) \in mem'.calls

\* If p's tasks have all completed now, they had before and the same news is there, or one
\* completed with this step.
LEMMA NewsKept ==
  ASSUME TypeInv, ToldInv, used.crashes = 0, NEW p \in Parents, AllDone(p)', lim' = lim,
         host.born \subseteq host'.born, host.signalled \subseteq host'.signalled,
         host'.born \subseteq Tasks,
         \A t \in Tasks : mem'.status[t] = "completed" =>
             (t \in host.born /\ mem.status[t] = "completed") \/ t \in host'.signalled \/ NewsOf(t)',
         \A t \in Kids(p) : NewsOf(t) => NewsOf(t)' \/ t \in lim.suppressed
  PROVE  \E t \in Kids(p)' : NewsOf(t)'
<1>0. Kids(p) \subseteq Kids(p)' /\ Kids(p)' \subseteq Tasks /\ Kids(p)' # {}
  BY DEF Kids, AllDone
<1>1. CASE \E t \in Kids(p)' : NewsOf(t)'
  BY <1>1
<1>2. CASE \A t \in Kids(p)' : t \in host.born /\ mem.status[t] = "completed"
  <2>1. Kids(p)' = Kids(p)
    BY <1>0, <1>2 DEF Kids
  <2>2. AllDone(p)
    BY <1>2, <2>1 DEF AllDone
  <2>3. PICK t \in Kids(p) : NewsOf(t)
    BY <2>2 DEF ToldInv
  <2>4. t \notin lim.suppressed
    BY <2>2 DEF AllDone
  <2> QED
    BY <2>1, <2>3, <2>4
<1>3. \A t \in Kids(p)' : mem'.status[t] = "completed" /\ t \notin host'.signalled
  BY DEF AllDone
<1> QED
  BY <1>0, <1>1, <1>2, <1>3

LEMMA TellKept ==
  ASSUME TypeInv, ToldInv, NEW S, Handled(S), TellSteady
  PROVE  ToldInv'
<1> SUFFICES ASSUME used.crashes = 0
             PROVE  /\ mem'.phase = "ready"
                    /\ mem'.outbox \subseteq mem'.listed
                    /\ \A t \in Tasks : mem'.timer[t] # "blind"
                    /\ \A t \in Tasks : mem'.status[t] = "awaiting_approval" => t \in host'.signalled
                    /\ \A p \in Parents : AllDone(p)' => \E t \in Kids(p)' : NewsOf(t)'
  BY DEF ToldInv, TellSteady
<1>1. mem'.phase = "ready" /\ mem'.outbox \subseteq mem'.listed
  BY DEF Handled, ToldInv, TellSteady
<1>2. \A t \in Tasks : mem'.timer[t] # "blind"
  BY DEF ToldInv, TellSteady
<1>3. \A t \in Tasks : mem'.status[t] = "awaiting_approval" => t \in host'.signalled
  BY DEF ToldInv, TellSteady, Handled, HostMoves
<1>4. ASSUME NEW p \in Parents, AllDone(p)'
      PROVE  \E t \in Kids(p)' : NewsOf(t)'
  <2>1. \A t \in Tasks : mem'.status[t] = "completed" =>
            (t \in host.born /\ mem.status[t] = "completed") \/ t \in host'.signalled \/ NewsOf(t)'
    BY DEF TellSteady, NewsOf, TypeInv, Known
  <2>2. \A t \in Kids(p) : NewsOf(t) => NewsOf(t)' \/ t \in lim.suppressed
    BY DEF TellSteady, NewsOf, ToldInv, Kids, Children
  <2> QED
    BY <1>4, <2>1, <2>2, NewsKept DEF Handled, HostMoves, HostTyped
<1> QED
  BY <1>1, <1>2, <1>3, <1>4

-----------------------------------------------------------------------------
(* The kinds of steps.                                                     *)

\* What surrounds the memory, in any step but a crash and a notification that is sent.
Around ==
    /\ lim' = lim /\ disk' = disk /\ HostMoves(host, host') /\ host'.told = host.told
    /\ UsedTyped' /\ used'.crashes = used.crashes

\* All that the invariants need of a step about t.
Orderly(t) == Handled({t}) /\ CountSteady(t) /\ TellSteady

\* No status changes; t may be watched, notified about, or put up for clean-up.
IdleStep(t) ==
    /\ MemTyped(mem')
    /\ Same(mem, mem', {"watched", "debouncing", "queue", "pending", "calls", "timer"})
    /\ mem'.watched \subseteq mem.watched \cup {t} /\ mem'.pending \subseteq mem.pending \cup {t}
    /\ \A c \in mem'.calls \ mem.calls :
          c.task = t /\ c.op \notin {"get", "create", "reopen", "cancel", "result"}
    /\ \A c \in mem.calls \ mem'.calls : c.op # "result"
    /\ \/ mem'.timer = mem.timer
       \/ mem.phase # "recovering" /\ mem'.timer = [mem.timer EXCEPT ![t] = "armed"]

LEMMA IdleOrderly ==
  ASSUME TypeInv, ToldInv, Around, NEW t \in host.born, IdleStep(t)
  PROVE  Orderly(t)
<1>0. /\ mem'.status = mem.status /\ mem'.inflight = mem.inflight /\ mem'.phase = mem.phase
      /\ mem'.listed = mem.listed /\ mem'.outbox = mem.outbox /\ mem'.sent = mem.sent
  BY DEF IdleStep, Same, Fields
<1>1. t \in Tasks /\ t \in host'.born
  BY DEF TypeInv, HostTyped, Around, HostMoves
<1>2. Handled({t})
  BY <1>0, <1>1 DEF Handled, KnownStep, Around, IdleStep
<1>3. CountSteady(t)
  BY <1>0, <1>1 DEF CountSteady, StatusStep, IdleStep, TypeInv, MemTyped
<1>4. TellSteady
  <2>1. \A u \in Tasks : Call("result", u) \in mem.calls => Call("result", u) \in mem'.calls
    BY CallIs DEF IdleStep
  <2>2. ToldMatch'
    BY <1>0 DEF ToldInv, ToldMatch, Around
  <2>3. DOMAIN mem.timer = Tasks
    BY DEF TypeInv, MemTyped
  <2>4. \A u \in Tasks : mem'.timer[u] = "blind" => mem.timer[u] = "blind"
    BY <1>1, <2>3 DEF IdleStep
  <2> QED
    BY <1>0, <2>1, <2>2, <2>4 DEF TellSteady, Around
<1> QED
  BY <1>2, <1>3, <1>4 DEF Orderly

\* What a task that ends may leave under way.
EndCalls(t, to, new) ==
    \/ to \in {"error", "timeout"} /\ new \subseteq {Call("abort", t)}
    \/ to = "completed" /\ new = {Call("result", t)} /\ t \in mem.listed
    \/ to = "awaiting_approval" /\ new = {Call("hitl", t)} /\ t \in host.signalled
    \/ to = "cancelled" /\ new = {Call("cancel", t)} /\ Ready

LEMMA EndOrderly ==
  ASSUME TypeInv, ToldInv, Around, NEW t \in host.born, NEW N, MemTyped(N), MemTyped(mem'),
         Same(mem, N, {"calls", "debouncing"}), N.calls \subseteq mem.calls,
         \A c \in mem.calls \ N.calls : c.op # "result",
         mem.status[t] = "running", NEW to, NEW new, EndCalls(t, to, new), Ended(N, mem', t, to, new)
  PROVE  Orderly(t)
<1>0. /\ mem'.status = [mem.status EXCEPT ![t] = to]
      /\ mem'.inflight = Fewer(mem.inflight, ParentOf[t]) /\ mem'.phase = mem.phase
      /\ mem'.listed = mem.listed /\ mem'.outbox = mem.outbox /\ mem'.sent = mem.sent
      /\ mem'.watched \subseteq mem.watched /\ mem'.pending \subseteq mem.pending \cup {t}
      /\ mem'.timer = mem.timer \/ mem'.timer = [mem.timer EXCEPT ![t] = "armed"]
      /\ mem'.calls = N.calls \cup new
  BY DEF Ended, Same, Fields
<1>1. t \in Tasks /\ t \in host'.born /\ to \in Status \ {"running", "pending"}
  BY DEF TypeInv, HostTyped, Around, HostMoves, EndCalls, Status, Terminal, Failures
<1>2. /\ \A c \in new : c.task = t /\ c.op \in {"result", "hitl", "cancel", "abort"}
      /\ \A c \in new : (c.op = "result" => t \in mem.listed) /\ (c.op = "cancel" => Ready)
  BY CallIs DEF EndCalls
<1>3. Handled({t})
  <2>1. \A u \in Tasks \ {t} : mem'.status[u] = mem.status[u]
    BY <1>0, <1>1 DEF TypeInv, MemTyped
  <2> QED
    BY <1>0, <1>1, <1>2, <2>1 DEF Handled, KnownStep, Around
<1>4. CountSteady(t)
  <2>1. StatusStep(t)
    BY <1>0, <1>1 DEF StatusStep
  <2>2. mem'.status[t] = to /\ \A u \in Tasks : u # t => mem'.timer[u] = mem.timer[u]
    BY <1>0, <1>1 DEF TypeInv, MemTyped
  <2> QED
    BY <1>0, <1>1, <1>2, <2>1, <2>2 DEF CountSteady
<1>5. TellSteady
  <2>1. \A u \in Tasks : Call("result", u) \in mem.calls => Call("result", u) \in mem'.calls
    BY <1>0, CallIs
  <2>2. ToldMatch'
    BY <1>0 DEF ToldInv, ToldMatch, Around
  <2>3. \A u \in Tasks : mem'.timer[u] = "blind" => mem.timer[u] = "blind"
    <3>1. DOMAIN mem.timer = Tasks
      BY DEF TypeInv, MemTyped
    <3> QED
      BY <1>0, <1>1, <3>1
  <2>4. host.signalled \subseteq host'.signalled
    BY DEF Around, HostMoves
  <2>5. \A u \in Tasks :
          /\ mem'.status[u] = "awaiting_approval" =>
                mem.status[u] = "awaiting_approval" \/ u \in host'.signalled
          /\ mem'.status[u] = "completed" =>
                mem.status[u] = "completed" \/ Call("result", u) \in mem'.calls
    BY <1>0, <1>1, <2>4 DEF EndCalls, TypeInv, MemTyped
  <2> QED
    BY <1>0, <2>1, <2>2, <2>3, <2>5 DEF TellSteady, Around
<1> QED
  BY <1>3, <1>4, <1>5 DEF Orderly

\* A task that does not run changes its status, and its counter at most where launches fail.
ShiftStep(t, to) ==
    /\ MemTyped(mem') /\ mem.status[t] # "running" /\ to \in Status \ {"running", "pending"}
    /\ Same(mem, mem', {"status", "inflight", "queue", "pending", "timer", "calls"})
    /\ mem'.status = [mem.status EXCEPT ![t] = to]
    /\ \/ mem'.inflight = mem.inflight
       \/ lim.refusals + lim.errors > 0 /\ mem'.inflight = Fewer(mem.inflight, ParentOf[t])
    /\ mem'.pending \subseteq mem.pending \cup {t}
    /\ \A c \in mem'.calls \ mem.calls : c.task = t /\ c.op = "abort"
    /\ \A c \in mem.calls \ mem'.calls : c.op # "result"
    /\ mem'.timer = mem.timer \/ mem'.timer = [mem.timer EXCEPT ![t] = "armed"]
    /\ to = "completed" => t \in host.signalled \/ used.crashes # 0
    /\ to # "awaiting_approval"

LEMMA ShiftOrderly ==
  ASSUME TypeInv, ToldInv, Around, NEW t \in host.born, NEW to, ShiftStep(t, to)
  PROVE  Orderly(t)
<1>0. /\ mem'.phase = mem.phase /\ mem'.listed = mem.listed /\ mem'.outbox = mem.outbox
      /\ mem'.sent = mem.sent /\ mem'.watched = mem.watched
  BY DEF ShiftStep, Same, Fields
<1>1. t \in Tasks /\ t \in host'.born
  BY DEF TypeInv, HostTyped, Around, HostMoves
<1>2. mem'.status[t] = to /\ \A u \in Tasks : u # t =>
          mem'.status[u] = mem.status[u] /\ mem'.timer[u] = mem.timer[u]
  BY <1>1 DEF ShiftStep, TypeInv, MemTyped
<1>3. Handled({t})
  BY <1>0, <1>1, <1>2 DEF Handled, KnownStep, Around, ShiftStep
<1>4. CountSteady(t)
  <2>1. StatusStep(t)
    BY DEF ShiftStep, StatusStep
  <2> QED
    BY <1>0, <1>1, <1>2, <2>1 DEF CountSteady, ShiftStep
<1>5. TellSteady
  <2>1. \A u \in Tasks : Call("result", u) \in mem.calls => Call("result", u) \in mem'.calls
    BY CallIs DEF ShiftStep
  <2>2. ToldMatch'
    BY <1>0 DEF ToldInv, ToldMatch, Around
  <2>3. \A u \in Tasks : mem'.timer[u] = "blind" => mem.timer[u] = "blind"
    BY <1>1, <1>2 DEF ShiftStep, TypeInv, MemTyped
  <2>4. host.signalled \subseteq host'.signalled
    BY DEF Around, HostMoves
  <2>5. used.crashes = 0 => \A u \in Tasks :
          /\ mem'.status[u] = "awaiting_approval" => mem.status[u] = "awaiting_approval"
          /\ mem'.status[u] = "completed" => mem.status[u] = "completed" \/ u \in host'.signalled
    BY <1>2, <2>4 DEF ShiftStep
  <2> QED
    BY <1>0, <2>1, <2>2, <2>3, <2>5 DEF TellSteady, Around
<1> QED
  BY <1>3, <1>4, <1>5 DEF Orderly

\* The host is left alone, or a turn begins or is stopped in a session.
LEMMA WokenIs ==
  ASSUME NEW H, HostTyped(H), NEW s
  PROVE  HostMoves(H, Woken(H, s)) /\ Woken(H, s).told = H.told
<1> DEFINE G == Woken(H, s)
<1>1. CASE s \in Tasks /\ H.session[s] = "idle"
  <2>1. G = [H EXCEPT !.session[s] = "busy", !.stalled = @ \ {s}]
    BY <1>1 DEF Woken
  <2>2. /\ DOMAIN G = HostFields /\ G.born = H.born /\ G.told = H.told
        /\ G.signalled = H.signalled /\ G.session = [H.session EXCEPT ![s] = "busy"]
    BY <2>1 DEF HostTyped, HostFields
  <2> HIDE DEF G
  <2> QED
    BY <1>1, <2>2 DEF HostMoves, HostTyped, G
<1>2. CASE ~(s \in Tasks /\ H.session[s] = "idle")
  <2>1. Woken(H, s) = H
    BY <1>2 DEF Woken
  <2> QED
    BY <2>1 DEF HostMoves
<1> QED
  BY <1>1, <1>2

LEMMA StoppedIs ==
  ASSUME HostTyped(host), NEW t \in Tasks
  PROVE  HostMoves(host, Stopped(host, t)) /\ Stopped(host, t).told = host.told
<1> DEFINE G == Stopped(host, t)
<1>1. /\ DOMAIN G = HostFields /\ G.born = host.born /\ G.told = host.told
      /\ G.signalled = host.signalled
      /\ G.session = [host.session EXCEPT ![t] = IF host.session[t] = "busy" THEN "idle" ELSE host.session[t]]
  BY DEF Stopped, HostTyped, HostFields
<1> HIDE DEF G
<1>2. HostMoves(host, G) /\ G.told = host.told
  BY <1>1 DEF HostMoves, HostTyped
<1> QED
  BY <1>2 DEF G

LEMMA StalledIs ==
  ASSUME HostTyped(host), NEW X, host' = [host EXCEPT !.stalled = X]
  PROVE  HostMoves(host, host') /\ host'.told = host.told
<1>1. /\ DOMAIN host' = HostFields /\ host'.born = host.born /\ host'.told = host.told
      /\ host'.signalled = host.signalled /\ host'.session = host.session
  BY DEF HostTyped, HostFields
<1> QED
  BY <1>1 DEF HostMoves, HostTyped

LEMMA HostSame ==
  ASSUME HostTyped(host)
  PROVE  HostMoves(host, host)
BY DEF HostMoves

\* The environment's bounds are kept.
LEMMA UseIs ==
  ASSUME TypeInv, lim' = lim, NEW w \in UsedNames,
         used' = used \/ (used[w] < lim[w] /\ used' = [used EXCEPT ![w] = @ + 1])
  PROVE  UsedTyped' /\ (w # "crashes" => used'.crashes = used.crashes)
<1>1. lim[w] \in Nat /\ used[w] \in Nat
  BY DispatchConstants DEF TypeInv, UsedTyped, UsedNames
<1>2. CASE used' = used
  BY <1>2 DEF TypeInv, UsedTyped
<1>3. CASE used[w] < lim[w] /\ used' = [used EXCEPT ![w] = @ + 1]
  <2>1. used'[w] = used[w] + 1 /\ \A v \in UsedNames : v # w => used'[v] = used[v]
    BY <1>3 DEF TypeInv, UsedTyped
  <2>2. used' \in [UsedNames -> Nat]
    BY <1>1, <1>3 DEF TypeInv, UsedTyped
  <2> QED
    BY <1>1, <1>3, <2>1, <2>2 DEF TypeInv, UsedTyped, UsedNames
<1> QED
  BY <1>2, <1>3

LEMMA UsedSame ==
  ASSUME TypeInv, lim' = lim, used' = used
  PROVE  UsedTyped' /\ used'.crashes = used.crashes
BY DEF TypeInv, UsedTyped

\* N is the memory after the answer to call c, which is about t.
Answers(N, c, t) ==
    /\ c \in mem.calls /\ c.task = t /\ c.op # "result"
    /\ MemTyped(N) /\ Same(mem, N, {"calls"}) /\ N.calls = mem.calls \ {c}

LEMMA AnswersBorn ==
  ASSUME TypeInv, NEW c \in mem.calls
  PROVE  c.task \in host.born /\ c.task \in Tasks
BY DEF TypeInv, Known, MemTyped, CallTyped

LEMMA WithoutAnswers ==
  ASSUME TypeInv, NEW c \in mem.calls, c.op # "result"
  PROVE  Answers(Without(c), c, c.task)
BY WithoutIs DEF TypeInv, Answers

\* The answer changes nothing that matters here but the watching of t.
LEMMA AnswerOrderly ==
  ASSUME TypeInv, ToldInv, Around, NEW t, NEW c, NEW N, Answers(N, c, t), MemTyped(mem'),
         Same(N, mem', {"watched", "debouncing", "queue", "pending"}),
         mem'.watched \subseteq N.watched \cup {t}, mem'.pending \subseteq N.pending \cup {t}
  PROVE  Orderly(t)
<1>1. t \in host.born
  BY AnswersBorn DEF Answers
<1>2. IdleStep(t)
  BY DEF IdleStep, Answers, Same, Fields
<1> QED
  BY <1>1, <1>2, IdleOrderly

LEMMA FailOrderly ==
  ASSUME TypeInv, ToldInv, Around, NEW t, NEW c, NEW N, Answers(N, c, t),
         NEW to \in {"error", "timeout"}, mem' = Fail(N, t, to)
  PROVE  Orderly(t)
<1>1. t \in host.born /\ t \in Tasks /\ MemTyped(N) /\ lim \in Limits
  BY AnswersBorn DEF Answers, TypeInv
<1>2. MemTyped(mem') /\ (mem' = N \/ (N.status[t] = "running" /\ Ended(N, mem', t, to, {})))
  BY <1>1, FailIs
<1>3. CASE mem' = N
  <2>1. Same(N, mem', {})
    BY <1>1, <1>3 DEF Same, MemTyped
  <2> QED
    BY <1>2, <1>3, <2>1, AnswerOrderly DEF Same
<1>4. CASE N.status[t] = "running" /\ Ended(N, mem', t, to, {})
  <2>1. mem.status[t] = "running" /\ Same(mem, N, {"calls", "debouncing"}) /\ EndCalls(t, to, {})
    BY <1>4 DEF Answers, Same, Fields, EndCalls
  <2>2. N.calls \subseteq mem.calls /\ \A d \in mem.calls \ N.calls : d.op # "result"
    BY DEF Answers
  <2> QED
    BY <1>1, <1>2, <1>4, <2>1, <2>2, EndOrderly
<1> QED
  BY <1>2, <1>3, <1>4

LEMMA ConcludeOrderly ==
  ASSUME TypeInv, ToldInv, Around, NEW t, NEW c, NEW N, Answers(N, c, t), mem' = Conclude(N, t)
  PROVE  Orderly(t)
<1>1. t \in host.born /\ t \in Tasks /\ MemTyped(N)
  BY AnswersBorn DEF Answers, TypeInv
<1>2. /\ MemTyped(mem')
      /\ \/ mem' = N
         \/ /\ N.status[t] = "running" /\ t \in N.listed
            /\ \/ Ended(N, mem', t, "completed", {Call("result", t)})
               \/ t \in host.signalled /\ Ended(N, mem', t, "awaiting_approval", {Call("hitl", t)})
  BY <1>1, ConcludeIs
<1>3. CASE mem' = N
  <2>1. Same(N, mem', {})
    BY <1>1, <1>3 DEF Same, MemTyped
  <2> QED
    BY <1>2, <1>3, <2>1, AnswerOrderly DEF Same
<1>4. ASSUME N.status[t] = "running", t \in N.listed, NEW to, NEW new, Ended(N, mem', t, to, new),
             \/ to = "completed" /\ new = {Call("result", t)}
             \/ t \in host.signalled /\ to = "awaiting_approval" /\ new = {Call("hitl", t)}
      PROVE  Orderly(t)
  <2>1. mem.status[t] = "running" /\ Same(mem, N, {"calls", "debouncing"}) /\ EndCalls(t, to, new)
    BY <1>4 DEF Answers, Same, Fields, EndCalls
  <2>2. N.calls \subseteq mem.calls /\ \A d \in mem.calls \ N.calls : d.op # "result"
    BY DEF Answers
  <2> QED
    BY <1>1, <1>2, <1>4, <2>1, <2>2, EndOrderly
<1> QED
  BY <1>2, <1>3, <1>4

-----------------------------------------------------------------------------
(* Watching: the reads of a transcript and what is decided on them.        *)

LEMMA FetchIs ==
  ASSUME TypeInv, lim' = lim, NEW M, MemTyped(M), Same(mem, M, {"debouncing"}), NEW t \in host.born,
         NEW idle, Fetch(M, t, idle)
  PROVE  IdleStep(t) /\ UsedTyped' /\ used'.crashes = used.crashes
<1> DEFINE d == [Call("decide", t) EXCEPT !.idle = idle, !.seen = host.msgs[t]]
           v == Call("verify", t)
<1>0. t \in Tasks
  BY DEF TypeInv, HostTyped
<1>1. CallTyped(d) /\ d.op = "decide" /\ d.task = t /\ CallTyped(v) /\ v.op = "verify" /\ v.task = t
  BY <1>0 DEF CallTyped, Call
<1> HIDE DEF d, v
<1>2. UsedTyped' /\ used'.crashes = used.crashes
  <2>1. "faults" \in UsedNames
    BY DEF UsedNames
  <2>2. used' = used \/ (used["faults"] < lim["faults"] /\ used' = [used EXCEPT !["faults"] = @ + 1])
    BY DEF Fetch, Use, Allowed
  <2> QED
    BY <2>1, <2>2, UseIs
<1>3. ASSUME NEW x \in {d, v}, mem' = [M EXCEPT !.calls = @ \cup {x}]
      PROVE  IdleStep(t)
  <2>1. Same(M, mem', {"calls"}) /\ mem'.calls = M.calls \cup {x}
    BY <1>3 DEF Same, MemTyped, MemFields, Fields
  <2>2. MemTyped(mem')
    BY <1>1, <2>1 DEF Same, MemTyped, Fields
  <2> QED
    BY <1>1, <2>1, <2>2 DEF IdleStep, Same, Fields
<1>4. ASSUME mem' = [M EXCEPT !.dirty = TRUE]
      PROVE  IdleStep(t)
  <2>1. Same(M, mem', {})
    BY <1>4 DEF Same, MemTyped, MemFields, Fields
  <2>2. MemTyped(mem')
    BY <2>1 DEF Same, MemTyped, Fields
  <2> QED
    BY <2>1, <2>2 DEF IdleStep, Same, Fields
<1> QED
  BY <1>2, <1>3, <1>4 DEF Fetch, d, v

LEMMA EvaluateStep ==
  ASSUME TypeInv, ToldInv, NEW t \in Tasks, Evaluate(t)
  PROVE  Orderly(t)
<1>1. /\ t \in host.born /\ lim' = lim /\ disk' = disk /\ host' = host /\ Fetch(mem, t, FALSE)
      /\ Same(mem, mem, {"debouncing"}) /\ MemTyped(mem) /\ HostTyped(host)
  BY DEF Evaluate, TypeInv, Known, Same, MemTyped
<1>2. IdleStep(t) /\ UsedTyped' /\ used'.crashes = used.crashes
  BY <1>1, FetchIs
<1>3. Around
  BY <1>1, <1>2, HostSame DEF Around
<1> QED
  BY <1>1, <1>2, <1>3, IdleOrderly

LEMMA DebounceStep ==
  ASSUME TypeInv, ToldInv, NEW t \in Tasks, DebounceElapsed(t)
  PROVE  Orderly(t)
<1> DEFINE N == [mem EXCEPT !.debouncing = @ \ {t}]
<1>1. /\ t \in host.born /\ lim' = lim /\ disk' = disk /\ host' = host
      /\ MemTyped(mem) /\ HostTyped(host)
      /\ \/ Fetch(N, t, TRUE)
         \/ mem' = N /\ used' = used
  BY DEF DebounceElapsed, TypeInv, Known, MemTyped
<1>2. Same(mem, N, {"debouncing"}) /\ N.debouncing = mem.debouncing \ {t}
  BY <1>1 DEF Same, MemTyped, MemFields, Fields
<1> HIDE DEF N
<1>3. MemTyped(N)
  BY <1>1, <1>2 DEF Same, MemTyped, Fields
<1>4. IdleStep(t) /\ UsedTyped' /\ used'.crashes = used.crashes
  <2>1. CASE Fetch(N, t, TRUE)
    BY <1>1, <1>2, <1>3, <2>1, FetchIs
  <2>2. CASE mem' = N /\ used' = used
    <3>1. IdleStep(t)
      BY <1>2, <1>3, <2>2 DEF IdleStep, Same, Fields
    <3> QED
      BY <1>1, <2>2, <3>1, UsedSame
  <2> QED
    BY <1>1, <2>1, <2>2
<1>5. Around
  BY <1>1, <1>4, HostSame DEF Around
<1> QED
  BY <1>1, <1>4, <1>5, IdleOrderly

LEMMA DecideStep ==
  ASSUME TypeInv, ToldInv, NEW c \in mem.calls, Decide(c)
  PROVE  c.task \in Tasks /\ Orderly(c.task)
<1> DEFINE t == c.task
           N == Without(c)
           out == Output(t, c.seen)
           sig == Detected(t, out)
<1>0. /\ c.op = "decide" /\ lim' = lim /\ disk' = disk /\ used' = used
      /\ UsedTyped' /\ used'.crashes = used.crashes /\ HostTyped(host)
  BY UsedSame DEF Decide, TypeInv
<1>1. t \in Tasks /\ t \in host.born
  BY AnswersBorn
<1>2. Answers(N, c, t)
  BY <1>0, WithoutAnswers
<1>3. \/ mem' = Fail(N, t, "error") /\ host' = host
      \/ mem' = Fail(N, t, "timeout") /\ host' = Stopped(host, t)
      \/ mem' = N /\ host' = host
      \/ mem' = N /\ host' = [host EXCEPT !.stalled = @ \ {t}]
      \/ mem' = StartDebounce([N EXCEPT !.confirm[t] = Len(out)], t) /\ host' = host
      \/ mem' = Conclude([N EXCEPT !.confirm[t] = Unset], t) /\ host' = host
      \/ mem' = [N EXCEPT !.confirm[t] = Unset] /\ host' = host
      \/ mem' = Conclude(N, t) /\ host' = host
  BY DEF Decide
<1> HIDE DEF N, out, sig, t
<1>4. HostMoves(host, host') /\ host'.told = host.told
  <2>1. CASE host' = host
    BY <1>0, <2>1, HostSame
  <2>2. CASE host' = Stopped(host, t)
    BY <1>0, <1>1, <2>2, StoppedIs
  <2>3. CASE host' = [host EXCEPT !.stalled = @ \ {t}]
    BY <1>0, <2>3, StalledIs
  <2> QED
    BY <1>3, <2>1, <2>2, <2>3
<1>5. Around
  BY <1>0, <1>4 DEF Around
<1>6. ASSUME NEW x
      PROVE  Answers([N EXCEPT !.confirm[t] = x], c, t)
  <2> DEFINE E == [N EXCEPT !.confirm[t] = x]
  <2>1. Same(N, E, {})
    BY <1>2 DEF Answers, Same, MemTyped, MemFields, Fields
  <2> HIDE DEF E
  <2>2. MemTyped(E) /\ Same(mem, E, {"calls"}) /\ E.calls = N.calls
    BY <1>2, <2>1 DEF Answers, Same, MemTyped, Fields
  <2>3. Answers(E, c, t)
    BY <1>2, <2>2 DEF Answers
  <2> QED
    BY <2>3 DEF E
<1>7. ASSUME NEW M, Answers(M, c, t), mem' = M
      PROVE  Orderly(t)
  <2>1. MemTyped(mem') /\ Same(M, mem', {})
    BY <1>7 DEF Answers, Same, MemTyped
  <2> QED
    BY <1>5, <1>7, <2>1, AnswerOrderly DEF Same
<1>8. Orderly(t)
  <2>1. CASE mem' = Fail(N, t, "error")
    BY <1>2, <1>5, <2>1, FailOrderly
  <2>2. CASE mem' = Fail(N, t, "timeout")
    BY <1>2, <1>5, <2>2, FailOrderly
  <2>3. CASE mem' = N
    BY <1>2, <1>7, <2>3
  <2>4. CASE mem' = StartDebounce([N EXCEPT !.confirm[t] = Len(out)], t)
    <3> DEFINE E == [N EXCEPT !.confirm[t] = Len(out)]
    <3>1. Answers(E, c, t)
      BY <1>6
    <3> HIDE DEF E
    <3>2. MemTyped(mem') /\ Same(E, mem', {"debouncing"})
      BY <1>1, <2>4, <3>1, StartDebounceIs DEF Answers, E
    <3> QED
      BY <1>5, <3>1, <3>2, AnswerOrderly DEF Same, Fields
  <2>5. CASE mem' = Conclude([N EXCEPT !.confirm[t] = Unset], t)
    <3> DEFINE E == [N EXCEPT !.confirm[t] = Unset]
    <3>1. Answers(E, c, t)
      BY <1>6
    <3> HIDE DEF E
    <3> QED
      BY <1>5, <2>5, <3>1, ConcludeOrderly DEF E
  <2>6. CASE mem' = [N EXCEPT !.confirm[t] = Unset]
    <3> DEFINE E == [N EXCEPT !.confirm[t] = Unset]
    <3>1. Answers(E, c, t)
      BY <1>6
    <3> HIDE DEF E
    <3> QED
      BY <1>7, <2>6, <3>1 DEF E
  <2>7. CASE mem' = Conclude(N, t)
    BY <1>2, <1>5, <2>7, ConcludeOrderly
  <2> QED
    BY <1>3, <2>1, <2>2, <2>3, <2>4, <2>5, <2>6, <2>7
<1> QED
  BY <1>1, <1>8 DEF t

LEMMA VerifiedStep ==
  ASSUME TypeInv, ToldInv, NEW t \in Tasks, Verified(t)
  PROVE  Orderly(t)
<1> DEFINE c == Call("verify", t)
           N == Without(c)
<1>0. c \in mem.calls /\ c.op # "result" /\ c.task = t
  BY CallIs DEF Verified
<1>1. /\ lim' = lim /\ disk' = disk /\ host' = host /\ HostTyped(host)
      /\ UsedTyped' /\ used'.crashes = used.crashes
  BY UsedSame DEF Verified, TypeInv
<1>2. Around
  BY <1>1, HostSame DEF Around
<1>3. mem' = Fail(N, t, "error") \/ mem' = N
  BY DEF Verified
<1>4. Answers(N, c, t)
  BY <1>0, WithoutAnswers
<1> HIDE DEF N, c
<1>5. CASE mem' = Fail(N, t, "error")
  BY <1>2, <1>4, <1>5, FailOrderly
<1>6. CASE mem' = N
  <2>1. MemTyped(mem') /\ Same(N, mem', {})
    BY <1>4, <1>6 DEF Answers, Same, MemTyped
  <2> QED
    BY <1>2, <1>4, <1>6, <2>1, AnswerOrderly DEF Same
<1> QED
  BY <1>3, <1>5, <1>6

LEMMA IdleSeenStep ==
  ASSUME TypeInv, ToldInv, NEW t \in Tasks, IdleSeen(t)
  PROVE  Orderly(t)
<1> DEFINE c == Call("idle", t)
           N == Without(c)
<1>0. c \in mem.calls /\ c.op # "result" /\ c.task = t
  BY CallIs DEF IdleSeen
<1>1. /\ lim' = lim /\ disk' = disk /\ host' = host /\ HostTyped(host)
      /\ UsedTyped' /\ used'.crashes = used.crashes
  BY UsedSame DEF IdleSeen, TypeInv
<1>2. Around
  BY <1>1, HostSame DEF Around
<1>3. mem' = StartDebounce(N, t) \/ mem' = N
  BY DEF IdleSeen
<1>4. Answers(N, c, t)
  BY <1>0, WithoutAnswers
<1> HIDE DEF N, c
<1>5. MemTyped(mem') /\ Same(N, mem', {"debouncing"})
  <2>1. CASE mem' = StartDebounce(N, t)
    BY <1>4, <2>1, StartDebounceIs DEF Answers
  <2>2. CASE mem' = N
    BY <1>4, <2>2 DEF Answers, Same, MemTyped
  <2> QED
    BY <1>3, <2>1, <2>2
<1> QED
  BY <1>2, <1>4, <1>5, AnswerOrderly DEF Same, Fields

LEMMA ApprovalAskedStep ==
  ASSUME TypeInv, ToldInv, NEW t \in Tasks, ApprovalAsked(t)
  PROVE  Orderly(t)
<1> DEFINE c == Call("hitl", t)
           N == Without(c)
           B == HeardBusy(N, ParentOf[t])
<1>0. c \in mem.calls /\ c.op # "result" /\ c.task = t
  BY CallIs DEF ApprovalAsked
<1>1. /\ lim' = lim /\ disk' = disk /\ host' = Woken(host, ParentOf[t]) /\ HostTyped(host)
      /\ UsedTyped' /\ used'.crashes = used.crashes
  BY UsedSame DEF ApprovalAsked, TypeInv
<1>2. Around
  BY <1>1, WokenIs DEF Around
<1>3. mem' = NotifyTerminated(B, t)
  BY DEF ApprovalAsked
<1>4. Answers(N, c, t)
  BY <1>0, WithoutAnswers
<1> HIDE DEF N, c
<1>5. MemTyped(B) /\ Same(N, B, {"debouncing"})
  BY <1>4, HeardBusyIs DEF Answers
<1> HIDE DEF B
<1>6. MemTyped(mem') /\ Same(B, mem', {})
  BY <1>3, <1>5, NotifyTerminatedIs
<1> QED
  BY <1>2, <1>4, <1>5, <1>6, AnswerOrderly DEF Same, Fields

LEMMA SessionErrorStep ==
  ASSUME TypeInv, ToldInv, NEW t \in Tasks, SessionError(t)
  PROVE  Orderly(t)
<1> DEFINE v == Call("verify", t)
<1>0. CallTyped(v) /\ v.op = "verify" /\ v.task = t
  BY CallIs DEF CallTyped
<1>1. /\ lim' = lim /\ disk' = disk /\ HostTyped(host) /\ MemTyped(mem)
      /\ mem.listed \subseteq host.born /\ t \in mem.listed
      /\ Use("errors") /\ mem' = [mem EXCEPT !.calls = @ \cup {v}]
      /\ host' = host \/ host' = [host EXCEPT !.session[t] = "gone"]
  BY DEF SessionError, TypeInv, Known, Is
<1> HIDE DEF v
<1>2. "errors" \in UsedNames /\ used.errors \in Nat /\ lim.errors \in Nat /\ used.errors < lim.errors
  BY <1>1, DispatchConstants DEF TypeInv, UsedTyped, UsedNames, Use, Allowed
<1>3. UsedTyped' /\ used'.crashes = used.crashes
  BY <1>1, <1>2, UseIs DEF Use, Allowed
<1>4. HostMoves(host, host') /\ host'.told = host.told
  <2>1. CASE host' = host
    BY <1>1, <2>1, HostSame
  <2>2. CASE host' = [host EXCEPT !.session[t] = "gone"]
    <3>1. /\ DOMAIN host' = HostFields /\ host'.born = host.born /\ host'.told = host.told
          /\ host'.signalled = host.signalled /\ host'.session = [host.session EXCEPT ![t] = "gone"]
      BY <1>1, <2>2 DEF HostTyped, HostFields
    <3> QED
      BY <1>1, <1>2, <3>1 DEF HostMoves, HostTyped
  <2> QED
    BY <1>1, <2>1, <2>2
<1>5. Around
  BY <1>1, <1>3, <1>4 DEF Around
<1>6. Same(mem, mem', {"calls"}) /\ mem'.calls = mem.calls \cup {v}
  BY <1>1 DEF Same, MemTyped, MemFields, Fields
<1>7. MemTyped(mem')
  BY <1>0, <1>1, <1>6 DEF Same, MemTyped, Fields
<1>8. IdleStep(t)
  BY <1>0, <1>6, <1>7 DEF IdleStep, Same, Fields
<1> QED
  BY <1>1, <1>5, <1>8, IdleOrderly

LEMMA TurnEndsStep ==
  ASSUME TypeInv, ToldInv, NEW t \in Tasks, TurnEnds(t)
  PROVE  Handled({t} \cap host.born) /\ CountSteady(t) /\ TellSteady
<1> DEFINE v == Call("idle", t)
<1>0. CallTyped(v) /\ v.op = "idle" /\ v.task = t
  BY CallIs DEF CallTyped
<1>1. /\ lim' = lim /\ disk' = disk /\ HostTyped(host) /\ MemTyped(mem) /\ used' = used
      /\ UsedTyped' /\ used'.crashes = used.crashes
  BY UsedSame DEF TurnEnds, TypeInv
<1>2. HostMoves(host, host') /\ host'.told = host.told
  <2>1. PICK out \in {<<"ok">>, <<"error">>, <<>>}, asks \in BOOLEAN :
          host' = [host EXCEPT !.session[t] = "idle", !.msgs[t] = @ \o out,
                               !.signalled = IF asks THEN @ \cup {t} ELSE @]
    BY DEF TurnEnds
  <2>2. /\ DOMAIN host' = HostFields /\ host'.born = host.born /\ host'.told = host.told
        /\ host'.session = [host.session EXCEPT ![t] = "idle"]
        /\ host'.signalled = IF asks THEN host.signalled \cup {t} ELSE host.signalled
    BY <1>1, <2>1 DEF HostTyped, HostFields
  <2> QED
    BY <1>1, <2>2 DEF HostMoves, HostTyped
<1>3. Around
  BY <1>1, <1>2 DEF Around
<1>4. CASE t \in mem.listed /\ mem' = [mem EXCEPT !.calls = @ \cup {v}]
  <2> HIDE DEF v
  <2>1. Same(mem, mem', {"calls"}) /\ mem'.calls = mem.calls \cup {v}
    BY <1>1, <1>4 DEF Same, MemTyped, MemFields, Fields
  <2>2. MemTyped(mem')
    BY <1>0, <1>1, <2>1 DEF Same, MemTyped, Fields
  <2>3. IdleStep(t) /\ t \in host.born
    BY <1>0, <1>4, <2>1, <2>2 DEF IdleStep, Same, Fields, TypeInv, Known
  <2>4. Orderly(t) /\ {t} \cap host.born = {t}
    BY <1>3, <2>3, IdleOrderly
  <2> QED
    BY <2>4 DEF Orderly
<1>5. CASE mem' = mem
  <2>1. Handled({t} \cap host.born)
    BY <1>1, <1>2, <1>5 DEF Handled, KnownStep, HostMoves, HostTyped
  <2>2. CountSteady(t)
    BY <1>5 DEF CountSteady, StatusStep
  <2>3. TellSteady
    BY <1>1, <1>2, <1>5 DEF TellSteady, ToldInv, ToldMatch
  <2> QED
    BY <2>1, <2>2, <2>3
<1> QED
  BY <1>4, <1>5 DEF TurnEnds, Is

LEMMA StallStep ==
  ASSUME TypeInv, ToldInv, NEW t \in Tasks, Stall(t)
  PROVE  Orderly(t)
<1>1. /\ lim' = lim /\ disk' = disk /\ HostTyped(host) /\ MemTyped(mem) /\ mem' = mem
      /\ t \in host.born
      /\ host' = [host EXCEPT !.stalled = @ \cup {t}]
      /\ used' = used \/ Use("stalls")
  BY DEF Stall, TypeInv, Known
<1>2. UsedTyped' /\ used'.crashes = used.crashes
  BY <1>1, UseIs DEF Use, Allowed, UsedNames
<1>3. Around
  BY <1>1, <1>2, StalledIs DEF Around
<1>4. IdleStep(t)
  BY <1>1 DEF IdleStep, Same, MemTyped
<1> QED
  BY <1>1, <1>3, <1>4, IdleOrderly

LEMMA ChildrenStallStep ==
  ASSUME TypeInv, ToldInv, NEW t \in Tasks, ChildrenStall(t)
  PROVE  Handled({}) /\ CountSteady(t) /\ TellSteady
<1>1. /\ lim' = lim /\ disk' = disk /\ HostTyped(host) /\ MemTyped(mem) /\ host' = host
      /\ mem' = [mem EXCEPT !.elder = @ \cup {t}] /\ Use("stalls")
  BY DEF ChildrenStall, TypeInv
<1>2. UsedTyped' /\ used'.crashes = used.crashes
  BY <1>1, UseIs DEF Use, Allowed, UsedNames
<1>3. Same(mem, mem', {})
  BY <1>1 DEF Same, MemTyped, MemFields, Fields
<1>4. MemTyped(mem') /\ HostMoves(host, host')
  BY <1>1, <1>3, HostSame DEF Same, MemTyped, Fields
<1>5. /\ mem'.status = mem.status /\ mem'.inflight = mem.inflight /\ mem'.phase = mem.phase
      /\ mem'.listed = mem.listed /\ mem'.outbox = mem.outbox /\ mem'.sent = mem.sent
      /\ mem'.watched = mem.watched /\ mem'.pending = mem.pending /\ mem'.calls = mem.calls
      /\ mem'.timer = mem.timer
  BY <1>3 DEF Same, Fields
<1>6. Handled({})
  BY <1>1, <1>2, <1>4, <1>5 DEF Handled, KnownStep
<1>7. CountSteady(t)
  BY <1>5 DEF CountSteady, StatusStep
<1>8. TellSteady
  BY <1>1, <1>2, <1>5 DEF TellSteady, ToldInv, ToldMatch
<1> QED
  BY <1>6, <1>7, <1>8

-----------------------------------------------------------------------------
(* Launching, listening and cancelling.                                    *)

LEMMA PromptLandsStep ==
  ASSUME TypeInv, ToldInv, NEW t \in Tasks, PromptLands(t)
  PROVE  Orderly(t)
<1>1. PICK c \in mem.calls :
        /\ c.task = t /\ c.op \in {"prompt", "reprompt"}
        /\ mem' = [HeardBusy(mem, t) EXCEPT
              !.calls = (@ \ {c}) \cup {[c EXCEPT !.op = IF c.op = "prompt" THEN "prompted" ELSE "reprompted"]}]
  BY DEF PromptLands
<1> DEFINE d == [c EXCEPT !.op = IF c.op = "prompt" THEN "prompted" ELSE "reprompted"]
           B == HeardBusy(mem, t)
<1>2. /\ lim' = lim /\ disk' = disk /\ HostTyped(host) /\ MemTyped(mem) /\ host' = Woken(host, t)
      /\ UsedTyped' /\ used'.crashes = used.crashes
  BY UsedSame DEF PromptLands, TypeInv
<1>3. t \in host.born /\ CallTyped(c)
  BY <1>1, AnswersBorn DEF TypeInv, MemTyped
<1>4. CallTyped(d) /\ d.task = t /\ d.op \in {"prompted", "reprompted"}
  BY <1>1, <1>3 DEF CallTyped
<1>5. mem' = [B EXCEPT !.calls = (@ \ {c}) \cup {d}]
  BY <1>1
<1> HIDE DEF d
<1>6. MemTyped(B) /\ Same(mem, B, {"debouncing"})
  BY <1>2, HeardBusyIs
<1> HIDE DEF B
<1>7. Same(B, mem', {"calls"}) /\ mem'.calls = (B.calls \ {c}) \cup {d}
  BY <1>5, <1>6 DEF Same, MemTyped, MemFields, Fields
<1>8. MemTyped(mem')
  BY <1>4, <1>6, <1>7 DEF Same, MemTyped, Fields
<1>9. IdleStep(t)
  BY <1>1, <1>4, <1>6, <1>7, <1>8 DEF IdleStep, Same, Fields
<1>10. Around
  BY <1>2, WokenIs DEF Around
<1> QED
  BY <1>3, <1>9, <1>10, IdleOrderly

LEMMA PromptedStep ==
  ASSUME TypeInv, ToldInv, NEW t \in Tasks, Prompted(t)
  PROVE  Orderly(t)
<1> DEFINE c == Call("prompted", t)
<1>1. /\ lim' = lim /\ disk' = disk /\ HostTyped(host) /\ MemTyped(mem) /\ host' = host
      /\ UsedTyped' /\ used'.crashes = used.crashes /\ c \in mem.calls
      /\ mem' = [mem EXCEPT !.watched = @ \cup {t}, !.calls = @ \ {c}]
  BY UsedSame DEF Prompted, TypeInv
<1>2. c.op = "prompted" /\ c.task = t /\ t \in host.born
  BY <1>1, CallIs, AnswersBorn
<1> HIDE DEF c
<1>3. Same(mem, mem', {"watched", "calls"}) /\ mem'.watched = mem.watched \cup {t}
      /\ mem'.calls = mem.calls \ {c}
  BY <1>1 DEF Same, MemTyped, MemFields, Fields
<1>4. MemTyped(mem')
  BY <1>1, <1>3 DEF Same, MemTyped, Fields
<1>5. IdleStep(t)
  BY <1>2, <1>3, <1>4 DEF IdleStep, Same, Fields
<1>6. Around
  BY <1>1, HostSame DEF Around
<1> QED
  BY <1>2, <1>5, <1>6, IdleOrderly

LEMMA LaunchAbortedStep ==
  ASSUME TypeInv, ToldInv, NEW t \in Tasks, LaunchAborted(t)
  PROVE  Orderly(t)
<1> DEFINE c == Call("abort", t)
           N == Without(c)
<1>0. c \in mem.calls /\ c.op # "result" /\ c.task = t
  BY CallIs DEF LaunchAborted
<1>1. /\ lim' = lim /\ disk' = disk /\ host' = Stopped(host, t) /\ HostTyped(host)
      /\ UsedTyped' /\ used'.crashes = used.crashes /\ lim \in Limits
      /\ mem' = NotifyParent(N, t, 0, 1, "alone")
  BY UsedSame DEF LaunchAborted, TypeInv, Without
<1>2. Around
  BY <1>1, StoppedIs DEF Around
<1>3. Answers(N, c, t)
  BY <1>0, WithoutAnswers
<1> HIDE DEF N, c
<1>4. /\ MemTyped(mem') /\ Same(N, mem', {"queue", "pending", "outbox"})
      /\ mem'.pending \subseteq N.pending /\ mem'.outbox = N.outbox
  <2>1. MemTyped(N) /\ "alone" \in Senders /\ 0 \in Nat /\ 1 \in Nat /\ "alone" # "sweeper"
    BY <1>3 DEF Answers, Senders
  <2>2. /\ MemTyped(mem') /\ Same(N, mem', {"queue", "pending", "outbox"})
        /\ mem'.pending \subseteq N.pending
        /\ mem'.outbox = IF "alone" = "sweeper" /\ t \in lim.suppressed THEN N.outbox \ {t} ELSE N.outbox
    BY <1>1, <2>1, NotifyParentIs, Zenon
  <2> QED
    BY <2>1, <2>2
<1>5. Same(N, mem', {"queue", "pending"})
  BY <1>4 DEF Same, Fields
<1> QED
  BY <1>2, <1>3, <1>4, <1>5, AnswerOrderly DEF Same, Fields

LEMMA ListenStep ==
  ASSUME TypeInv, ToldInv, NEW t \in Tasks, Listen(t)
  PROVE  Orderly(t)
<1>1. /\ lim' = lim /\ disk' = disk /\ HostTyped(host) /\ MemTyped(mem) /\ host' = host
      /\ UsedTyped' /\ used'.crashes = used.crashes /\ t \in host.born
      /\ mem' = [mem EXCEPT !.listener[t] = IF mem.status[t] \in Terminal THEN "called" ELSE "waiting"]
  BY UsedSame DEF Listen, TypeInv, Known
<1>2. Same(mem, mem', {})
  BY <1>1 DEF Same, MemTyped, MemFields, Fields
<1>3. MemTyped(mem')
  BY <1>1, <1>2 DEF Same, MemTyped, Fields
<1>4. IdleStep(t)
  BY <1>2, <1>3 DEF IdleStep, Same, Fields
<1>5. Around
  BY <1>1, HostSame DEF Around
<1> QED
  BY <1>1, <1>4, <1>5, IdleOrderly

LEMMA CancelAbortedStep ==
  ASSUME TypeInv, CountInv, ToldInv, NEW t \in Tasks, CancelAborted(t)
  PROVE  Orderly(t)
<1> DEFINE c == Call("cancel", t)
           N == Without(c)
           B == Unwatch(N, t)
           E == NotifyTerminated(B, t)
           D == NotifyCompletion(E, t, "ended")
<1>0. c \in mem.calls /\ c.op = "cancel" /\ c.task = t
  BY CallIs DEF CancelAborted
<1>1. /\ lim' = lim /\ disk' = disk /\ host' = Stopped(host, t) /\ HostTyped(host)
      /\ UsedTyped' /\ used'.crashes = used.crashes /\ lim \in Limits
      /\ mem' = LeaveRunning(D, t) \/ mem' = N
  BY UsedSame DEF CancelAborted, TypeInv, Without
<1>2. Around
  BY <1>1, StoppedIs DEF Around
<1>3. Answers(N, c, t) /\ t \in host.born
  BY <1>0, WithoutAnswers, AnswersBorn
<1>4. mem.phase # "recovering"
  BY <1>0 DEF CountInv, RecoverInv
<1> HIDE DEF N, c
<1>5. CASE mem' = N
  <2>1. MemTyped(mem') /\ Same(N, mem', {})
    BY <1>3, <1>5 DEF Answers, Same, MemTyped
  <2> QED
    BY <1>2, <1>3, <1>5, <2>1, AnswerOrderly DEF Same
<1>6. CASE mem' = LeaveRunning(D, t)
  <2>1. MemTyped(B) /\ Same(N, B, {"watched", "debouncing"}) /\ B.watched = N.watched \ {t}
    BY <1>3, UnwatchIs DEF Answers
  <2> HIDE DEF B
  <2>2. MemTyped(E) /\ Same(B, E, {})
    BY <2>1, NotifyTerminatedIs
  <2> HIDE DEF E
  <2>3. MemTyped(D) /\ Same(E, D, {"queue", "pending"}) /\ D.pending \subseteq E.pending \cup {t}
    BY <1>1, <2>2, NotifyCompletionIs
  <2> HIDE DEF D
  <2>4. /\ MemTyped(mem') /\ Same(D, mem', {"timer"})
        /\ mem'.timer = D.timer \/ mem'.timer = [D.timer EXCEPT ![t] = "armed"]
    BY <1>6, <2>3, LeaveRunningIs
  <2>5. IdleStep(t)
    BY <1>0, <1>3, <1>4, <2>1, <2>2, <2>3, <2>4 DEF IdleStep, Answers, Same, Fields
  <2> QED
    BY <1>2, <1>3, <2>5, IdleOrderly
<1> QED
  BY <1>1, <1>5, <1>6

LEMMA RepromptedStep ==
  ASSUME TypeInv, ToldInv, NEW t \in Tasks, Reprompted(t)
  PROVE  Orderly(t)
<1>1. PICK c \in mem.calls :
        /\ c.task = t /\ c.op = "reprompted"
        /\ mem' = [mem EXCEPT !.debouncing = @ \ {t}, !.watched = @ \cup {t},
                              !.confirm[t] = IF t \in mem.state THEN @ ELSE Unset,
                              !.state = @ \cup {t}, !.routed = @ \cup {t},
                              !.base[t] = Len(c.seen), !.dirty = TRUE, !.calls = @ \ {c}]
  BY DEF Reprompted
<1>2. /\ lim' = lim /\ disk' = disk /\ HostTyped(host) /\ MemTyped(mem)
      /\ host' = [host EXCEPT !.stalled = @ \ {t}]
      /\ UsedTyped' /\ used'.crashes = used.crashes
  BY UsedSame DEF Reprompted, TypeInv
<1>3. t \in host.born
  BY <1>1, AnswersBorn
<1>4. /\ Same(mem, mem', {"watched", "debouncing", "calls"}) /\ mem'.watched = mem.watched \cup {t}
      /\ mem'.debouncing = mem.debouncing \ {t} /\ mem'.calls = mem.calls \ {c}
  BY <1>1, <1>2 DEF Same, MemTyped, MemFields, Fields
<1>5. MemTyped(mem')
  BY <1>2, <1>4 DEF Same, MemTyped, Fields
<1>6. IdleStep(t)
  BY <1>1, <1>4, <1>5 DEF IdleStep, Same, Fields
<1>7. Around
  BY <1>2, StalledIs DEF Around
<1> QED
  BY <1>3, <1>6, <1>7, IdleOrderly

\* A refusal counts against the bound, unless the session is gone.
LEMMA RefusalIs ==
  ASSUME TypeInv, lim' = lim, NEW t, NEW w \in {"refusals", "faults"},
         Allowed(w) \/ host.session[t] = "gone",
         used' = IF host.session[t] = "gone" THEN used ELSE [used EXCEPT ![w] = @ + 1]
  PROVE  UsedTyped' /\ used'.crashes = used.crashes
<1>1. w \in UsedNames /\ w # "crashes"
  BY DEF UsedNames
<1>2. used' = used \/ (used[w] < lim[w] /\ used' = [used EXCEPT ![w] = @ + 1])
  BY DEF Allowed
<1> QED
  BY <1>1, <1>2, UseIs

LEMMA RepromptFailedStep ==
  ASSUME TypeInv, ToldInv, NEW t \in Tasks, RepromptFailed(t)
  PROVE  Orderly(t)
<1>1. PICK c \in mem.calls :
        c.task = t /\ c.op \in {"reprompt", "reprompted"} /\ mem' = [mem EXCEPT !.calls = @ \ {c}]
  BY DEF RepromptFailed
<1>2. lim' = lim /\ disk' = disk /\ HostTyped(host) /\ host' = host
  BY DEF RepromptFailed, TypeInv
<1>3. UsedTyped' /\ used'.crashes = used.crashes
  BY <1>2, RefusalIs DEF RepromptFailed
<1>4. Around
  BY <1>2, <1>3, HostSame DEF Around
<1>5. Answers(mem', c, t)
  BY <1>1, WithoutAnswers DEF Without
<1>6. MemTyped(mem') /\ Same(mem', mem', {})
  BY <1>5 DEF Answers, Same, MemTyped
<1> QED
  BY <1>4, <1>5, <1>6, AnswerOrderly DEF Same

LEMMA NotifyAloneIs ==
  ASSUME NEW M, MemTyped(M), lim \in Limits, NEW t \in Tasks, NEW remaining \in Nat, NEW tries \in Nat
  PROVE  LET N == NotifyParent(M, t, remaining, tries, "alone") IN
         MemTyped(N) /\ Same(M, N, {"queue", "pending"}) /\ N.pending \subseteq M.pending
<1> DEFINE N == NotifyParent(M, t, remaining, tries, "alone")
<1>1. "alone" \in Senders /\ "alone" # "sweeper"
  BY DEF Senders
<1>2. /\ MemTyped(N) /\ Same(M, N, {"queue", "pending", "outbox"})
      /\ N.pending \subseteq M.pending
      /\ N.outbox = IF "alone" = "sweeper" /\ t \in lim.suppressed THEN M.outbox \ {t} ELSE M.outbox
  BY <1>1, NotifyParentIs, Zenon
<1> HIDE DEF N
<1>3. N.outbox = M.outbox
  BY <1>1, <1>2
<1>4. Same(M, N, {"queue", "pending"})
  BY <1>2, <1>3 DEF Same
<1> QED
  BY <1>2, <1>4 DEF N

LEMMA CreateFailedStep ==
  ASSUME TypeInv, CountInv, ToldInv, NEW t \in Tasks, CreateFailed(t)
  PROVE  Orderly(t)
<1> DEFINE c == Call("create", t)
           A == [mem EXCEPT !.status[t] = "error", !.calls = @ \ {c}]
           B == ScheduleCleanup(A, t)
<1>1. /\ lim' = lim /\ disk' = disk /\ host' = host /\ HostTyped(host) /\ MemTyped(mem)
      /\ c \in mem.calls /\ Use("refusals") /\ mem' = NotifyTerminated(B, t)
  BY DEF CreateFailed, TypeInv
<1>2. c.op = "create" /\ c.task = t /\ t \in host.born /\ mem.status[t] # "running"
  BY <1>1, CallIs, AnswersBorn DEF CountInv, CallInv
<1> HIDE DEF c
<1>3. UsedTyped' /\ used'.crashes = used.crashes
  BY <1>1, UseIs DEF Use, Allowed, UsedNames
<1>4. Around
  BY <1>1, <1>3, HostSame DEF Around
<1>5. /\ Same(mem, A, {"status", "calls"}) /\ A.status = [mem.status EXCEPT ![t] = "error"]
      /\ A.calls = mem.calls \ {c}
  BY <1>1 DEF Same, MemTyped, MemFields, Fields
<1>6. "error" \in Status \ {"running", "pending"}
  BY DEF Status, Terminal, Failures
<1> HIDE DEF A
<1>7. MemTyped(A)
  BY <1>1, <1>5, <1>6 DEF Same, MemTyped, Fields
<1>8. MemTyped(B) /\ Same(A, B, {"timer"}) /\ B.timer = [A.timer EXCEPT ![t] = "armed"]
  BY <1>7, ScheduleCleanupIs
<1> HIDE DEF B
<1>9. MemTyped(mem') /\ Same(B, mem', {})
  BY <1>1, <1>8, NotifyTerminatedIs
<1>10. ShiftStep(t, "error")
  BY <1>2, <1>5, <1>6, <1>8, <1>9 DEF ShiftStep, Same, Fields
<1> QED
  BY <1>2, <1>4, <1>10, ShiftOrderly

LEMMA CancelStep ==
  ASSUME TypeInv, ToldInv, NEW t \in Tasks, Cancel(t)
  PROVE  Orderly(t)
<1> DEFINE A == Move(mem, t, "cancelled")
           k == Call("cancel", t)
<1>1. /\ lim' = lim /\ disk' = disk /\ host' = host /\ HostTyped(host) /\ MemTyped(mem)
      /\ lim \in Limits /\ Use("cancels") /\ Ready
      /\ \/ /\ Is(mem, t, {"pending"})
            /\ mem' = ScheduleCleanup(NotifyCompletion(NotifyTerminated(A, t), t, "ended"), t)
         \/ /\ Is(mem, t, {"running"})
            /\ mem' = [A EXCEPT !.calls = @ \cup {k}]
  BY DEF Cancel, TypeInv
<1>2. UsedTyped' /\ used'.crashes = used.crashes
  BY <1>1, UseIs DEF Use, Allowed, UsedNames
<1>3. Around
  BY <1>1, <1>2, HostSame DEF Around
<1>4. "cancelled" \in Status \ {"running", "pending"} /\ t \in host.born
  BY <1>1 DEF Status, Terminal, Failures, Is, TypeInv, Known
<1>5. /\ MemTyped(A) /\ Same(mem, A, {"status", "inflight"})
      /\ A.status = [mem.status EXCEPT ![t] = "cancelled"]
      /\ mem.status[t] = "running" => A.inflight = Fewer(mem.inflight, ParentOf[t])
      /\ mem.status[t] # "running" => A.inflight = mem.inflight
  BY <1>1, <1>4, MoveIs
<1> HIDE DEF A
<1>6. CASE /\ Is(mem, t, {"pending"})
           /\ mem' = ScheduleCleanup(NotifyCompletion(NotifyTerminated(A, t), t, "ended"), t)
  <2> DEFINE B == NotifyTerminated(A, t)
             D == NotifyCompletion(B, t, "ended")
  <2>0. mem.status[t] # "running"
    BY <1>6 DEF Is
  <2>1. MemTyped(B) /\ Same(A, B, {})
    BY <1>5, NotifyTerminatedIs
  <2> HIDE DEF B
  <2>2. MemTyped(D) /\ Same(B, D, {"queue", "pending"}) /\ D.pending \subseteq B.pending \cup {t}
    BY <1>1, <2>1, NotifyCompletionIs
  <2>3. mem' = ScheduleCleanup(D, t)
    BY <1>6 DEF B
  <2> HIDE DEF D
  <2>4. MemTyped(mem') /\ Same(D, mem', {"timer"}) /\ mem'.timer = [D.timer EXCEPT ![t] = "armed"]
    BY <2>2, <2>3, ScheduleCleanupIs
  <2>5. ShiftStep(t, "cancelled")
    BY <1>4, <1>5, <2>0, <2>1, <2>2, <2>4 DEF ShiftStep, Same, Fields
  <2> QED
    BY <1>3, <1>4, <2>5, ShiftOrderly
<1>7. CASE Is(mem, t, {"running"}) /\ mem' = [A EXCEPT !.calls = @ \cup {k}]
  <2>0. mem.status[t] = "running" /\ CallTyped(k)
    BY <1>7, CallIs DEF Is, CallTyped
  <2>1. EndCalls(t, "cancelled", {k})
    BY <1>1 DEF EndCalls
  <2> HIDE DEF k
  <2>2. Same(A, mem', {"calls"}) /\ mem'.calls = A.calls \cup {k}
    BY <1>5, <1>7 DEF Same, MemTyped, MemFields, Fields
  <2>3. MemTyped(mem')
    BY <1>5, <2>0, <2>2 DEF Same, MemTyped, Fields
  <2>4. Ended(mem, mem', t, "cancelled", {k}) /\ Same(mem, mem, {"calls", "debouncing"})
    BY <1>1, <1>5, <2>0, <2>2 DEF Ended, Same, Fields, MemTyped
  <2> QED
    BY <1>1, <1>3, <1>4, <2>0, <2>1, <2>3, <2>4, EndOrderly
<1> QED
  BY <1>1, <1>6, <1>7

LEMMA ResolveStep ==
  ASSUME TypeInv, ToldInv, NEW t \in Tasks, NEW to \in {"completed", "error"}, Resolve(t, to)
  PROVE  Orderly(t)
<1> DEFINE A == [mem EXCEPT !.status[t] = to, !.dirty = TRUE]
           N == ScheduleCleanup(A, t)
           n == N.inflight[ParentOf[t]]
<1>1. /\ lim' = lim /\ disk' = disk /\ host' = host /\ HostTyped(host) /\ MemTyped(mem)
      /\ lim \in Limits /\ UsedTyped' /\ used'.crashes = used.crashes
      /\ mem.status[t] = "awaiting_approval" /\ t \in host.born
      /\ mem' = NotifyParent(N, t, n, MaxTries, "alone")
  BY UsedSame DEF Resolve, TypeInv, Known, Is
<1>2. Around
  BY <1>1, HostSame DEF Around
<1>3. to \in Status \ {"running", "pending"} /\ to # "awaiting_approval"
  BY DEF Status, Terminal, Failures
<1>4. Same(mem, A, {"status"}) /\ A.status = [mem.status EXCEPT ![t] = to]
  BY <1>1 DEF Same, MemTyped, MemFields, Fields
<1> HIDE DEF A
<1>5. MemTyped(A)
  BY <1>1, <1>3, <1>4 DEF Same, MemTyped, Fields
<1>6. MemTyped(N) /\ Same(A, N, {"timer"}) /\ N.timer = [A.timer EXCEPT ![t] = "armed"]
  BY <1>5, ScheduleCleanupIs
<1> HIDE DEF N
<1>7. n \in Nat /\ MaxTries \in Nat
  BY <1>6, ParentsHold, DispatchConstants DEF MemTyped
<1> HIDE DEF n
<1>8. MemTyped(mem') /\ Same(N, mem', {"queue", "pending"}) /\ mem'.pending \subseteq N.pending
  BY <1>1, <1>6, <1>7, NotifyAloneIs
<1>9. to = "completed" => t \in host.signalled \/ used.crashes # 0
  BY <1>1 DEF ToldInv
<1>10. ShiftStep(t, to)
  BY <1>1, <1>3, <1>4, <1>6, <1>8, <1>9 DEF ShiftStep, Same, Fields
<1> QED
  BY <1>1, <1>2, <1>10, ShiftOrderly

LEMMA PromptFailedStep ==
  ASSUME TypeInv, ToldInv, NEW t \in Tasks, PromptFailed(t)
  PROVE  Orderly(t)
<1>1. PICK op \in {"prompt", "prompted"} :
        /\ Call(op, t) \in mem.calls
        /\ LET N == [Decrement(mem, ParentOf[t]) EXCEPT
                        !.status[t] = "error", !.routed = @ \ {t},
                        !.calls = (@ \ {Call(op, t)}) \cup {Call("abort", t)}]
           IN mem' = NotifyTerminated(LeaveRunning(N, t), t)
  BY DEF PromptFailed
<1> DEFINE c == Call(op, t)
           k == Call("abort", t)
           p == ParentOf[t]
           D == Decrement(mem, p)
           A == [D EXCEPT !.status[t] = "error", !.routed = @ \ {t}, !.calls = (@ \ {c}) \cup {k}]
           L == LeaveRunning(A, t)
<1>2. /\ lim' = lim /\ disk' = disk /\ host' = host /\ HostTyped(host) /\ MemTyped(mem) /\ lim \in Limits
      /\ c \in mem.calls /\ mem' = NotifyTerminated(L, t)
  BY <1>1 DEF PromptFailed, TypeInv
<1>3. UsedTyped' /\ used'.crashes = used.crashes
  BY <1>2, RefusalIs DEF PromptFailed
<1>4. Around
  BY <1>2, <1>3, HostSame DEF Around
<1>5. /\ c.op \in {"prompt", "prompted"} /\ c.task = t /\ t \in host.born
      /\ CallTyped(k) /\ k.task = t /\ k.op = "abort"
  BY <1>2, CallIs, AnswersBorn DEF CallTyped
<1>6. lim.refusals + lim.errors > 0
  <2>1. lim.refusals \in Nat /\ lim.errors \in Nat /\ used.refusals \in Nat
    BY DispatchConstants DEF TypeInv, UsedTyped, UsedNames
  <2>2. used.refusals < lim.refusals \/ lim.errors > 0
    BY DEF PromptFailed, Allowed, TypeInv
  <2> QED
    BY <2>1, <2>2
<1>7. "error" \in Status \ {"running", "pending"} /\ p \in Parents
  BY ParentsHold DEF Status, Terminal, Failures
<1>8. EndCalls(t, "error", {k})
  BY DEF EndCalls
<1>8a. Answers(Without(c), c, t)
  BY <1>2, <1>5, WithoutAnswers
<1> HIDE DEF c, k, p
<1>9. Same(mem, D, {"inflight"}) /\ D.inflight = Fewer(mem.inflight, p)
  BY <1>2 DEF Decrement, Fewer, Same, MemTyped, MemFields, Fields
<1>10. D.inflight \in [Parents -> Nat]
  BY <1>2, <1>7, <1>9 DEF Fewer, MemTyped
<1>11. MemTyped(D)
  BY <1>2, <1>9, <1>10 DEF Same, MemTyped, Fields
<1> HIDE DEF D
<1>12. /\ Same(D, A, {"status", "calls"}) /\ A.status = [D.status EXCEPT ![t] = "error"]
       /\ A.calls = (D.calls \ {c}) \cup {k}
  BY <1>11 DEF Same, MemTyped, MemFields, Fields
<1> HIDE DEF A
<1>13. MemTyped(A)
  BY <1>5, <1>7, <1>11, <1>12 DEF Same, MemTyped, Fields
<1>14. /\ MemTyped(L) /\ Same(A, L, {"timer"})
       /\ L.timer = A.timer \/ L.timer = [A.timer EXCEPT ![t] = "armed"]
  BY <1>13, LeaveRunningIs
<1> HIDE DEF L
<1>15. MemTyped(mem') /\ Same(L, mem', {})
  BY <1>2, <1>14, NotifyTerminatedIs
<1>16. CASE mem.status[t] = "running"
  <2> DEFINE N == Without(c)
  <2>1. Answers(N, c, t)
    BY <1>8a
  <2> HIDE DEF N
  <2>2. /\ MemTyped(N) /\ Same(mem, N, {"calls", "debouncing"}) /\ N.calls = mem.calls \ {c}
    BY <2>1 DEF Answers, Same
  <2>3. Ended(N, mem', t, "error", {k})
    BY <1>9, <1>12, <1>14, <1>15, <2>2, <2>1 DEF Ended, Same, Fields, Answers, p
  <2> QED
    BY <1>4, <1>5, <1>8, <1>15, <1>16, <2>2, <2>3, EndOrderly
<1>17. CASE mem.status[t] # "running"
  <2>1. ShiftStep(t, "error")
    BY <1>5, <1>6, <1>7, <1>9, <1>12, <1>14, <1>15, <1>17 DEF ShiftStep, Same, Fields, p
  <2> QED
    BY <1>4, <1>5, <2>1, ShiftOrderly
<1> QED
  BY <1>16, <1>17

-----------------------------------------------------------------------------
(* Steps that add a task, a run or a continuation.                         *)

LEMMA CountEnter ==
  ASSUME TypeInv, Counted(mem), NEW t \in Tasks, lim' = lim, mem.status[t] # "running",
         mem'.status = [mem.status EXCEPT ![t] = "running"],
         mem'.inflight = More(mem.inflight, ParentOf[t])
  PROVE  Counted(mem)'
<1> SUFFICES ASSUME NEW p \in Parents
             PROVE  /\ mem'.inflight[p] <= Cardinality(RunningOf(mem'.status, p))
                    /\ lim.refusals + lim.errors = 0
                          => mem'.inflight[p] = Cardinality(RunningOf(mem'.status, p))
  BY DEF Counted
<1>0. /\ mem.inflight[p] \in Nat /\ DOMAIN mem.status = Tasks /\ DOMAIN mem.inflight = Parents
      /\ Cardinality(RunningOf(mem.status, p)) \in Nat
      /\ mem.inflight[p] <= Cardinality(RunningOf(mem.status, p))
      /\ lim.refusals + lim.errors = 0 => mem.inflight[p] = Cardinality(RunningOf(mem.status, p))
  BY RunningFinite DEF TypeInv, MemTyped, Counted
<1>1. CASE p = ParentOf[t]
  <2>1. Cardinality(RunningOf(mem'.status, p)) = Cardinality(RunningOf(mem.status, p)) + 1
    BY <1>0, <1>1, RunningMore
  <2>2. mem'.inflight[p] = mem.inflight[p] + 1
    BY <1>0, <1>1 DEF More
  <2> QED
    BY <1>0, <2>1, <2>2
<1>2. CASE p # ParentOf[t]
  <2>1. RunningOf(mem'.status, p) = RunningOf(mem.status, p)
    BY <1>0, <1>2, RunningElsewhere
  <2>2. mem'.inflight[p] = mem.inflight[p]
    BY <1>0, <1>2 DEF More
  <2> QED
    BY <1>0, <2>1, <2>2
<1> QED
  BY <1>1, <1>2

\* What each step is shown to keep, with the phase it leaves alone.
Inv == TypeInv /\ CountInv /\ ToldInv
Kept == Inv' /\ mem'.phase = mem.phase

LEMMA OrderlyKeeps ==
  ASSUME Inv, NEW t \in Tasks, NEW S, Handled(S), CountSteady(t), TellSteady
  PROVE  Kept
BY HandledTypes, CountKept, TellKept DEF Inv, Kept, Handled

LEMMA LaunchStep ==
  ASSUME Inv, NEW t \in Tasks, Launch(t)
  PROVE  Kept
<1> DEFINE c == Call("create", t)
<1> USE DEF Inv, Kept
<1>1. /\ lim' = lim /\ disk' = disk /\ HostTyped(host) /\ MemTyped(mem) /\ Ready /\ t \notin host.born
      /\ UsedTyped' /\ used'.crashes = used.crashes
      /\ host' = [host EXCEPT !.born = @ \cup {t}]
      /\ mem' = [mem EXCEPT !.listed = @ \cup {t}, !.status[t] = "pending", !.calls = @ \cup {c}]
  BY UsedSame DEF Launch, TypeInv
<1>2. /\ CallTyped(c) /\ c.op = "create" /\ c.task = t
      /\ "pending" \in Status \ {"running"}
  BY CallIs DEF CallTyped, Status
<1>3. mem.status[t] = "none" /\ \A d \in mem.calls : d.task # t
  BY <1>1 DEF TypeInv, Known
<1> HIDE DEF c
<1>4. /\ Same(mem, mem', {"listed", "status", "calls"})
      /\ mem'.listed = mem.listed \cup {t} /\ mem'.status = [mem.status EXCEPT ![t] = "pending"]
      /\ mem'.calls = mem.calls \cup {c}
  BY <1>1 DEF Same, MemTyped, MemFields, Fields
<1>5. /\ mem'.inflight = mem.inflight /\ mem'.phase = mem.phase /\ mem'.outbox = mem.outbox
      /\ mem'.sent = mem.sent /\ mem'.watched = mem.watched /\ mem'.pending = mem.pending
      /\ mem'.timer = mem.timer
  BY <1>4 DEF Same, Fields
<1>6. MemTyped(mem')
  BY <1>1, <1>2, <1>4 DEF Same, MemTyped, Fields
<1>7. /\ HostTyped(host') /\ host'.born = host.born \cup {t} /\ host'.signalled = host.signalled
      /\ host'.session = host.session /\ host'.told = host.told
  BY <1>1 DEF HostTyped, HostFields
<1>8. mem'.status[t] = "pending" /\ \A u \in Tasks : u # t => mem'.status[u] = mem.status[u]
  BY <1>1, <1>4 DEF MemTyped
<1>9. Handled({t})
  BY <1>1, <1>2, <1>4, <1>5, <1>6, <1>7, <1>8 DEF Handled, KnownStep, HostMoves
<1>10. StatusStep(t)
  BY <1>1, <1>2, <1>3, <1>4, <1>5 DEF StatusStep
<1>11. CountInv'
  <2>1. CallInv'
    <3>1. \A u \in Tasks : Call("create", u) \in mem'.calls =>
             mem'.status[u] # "running" /\ Call("reopen", u) \notin mem'.calls
      BY <1>2, <1>3, <1>4, <1>8, CallIs DEF CountInv, CallInv
    <3>2. \A d \in mem'.calls : d.op = "get" => mem'.phase = "recovering"
      BY <1>2, <1>4, <1>5 DEF CountInv, CallInv
    <3>3. \A u \in Tasks : Call("result", u) \in mem'.calls => u \in mem'.listed
      BY <1>2, <1>4, CallIs DEF CountInv, CallInv
    <3> QED
      BY <3>1, <3>2, <3>3 DEF CallInv
  <2>2. RecoverInv'
    BY <1>1, <1>5 DEF RecoverInv, Ready
  <2>3. Counted(mem)'
    BY <1>1, <1>10, CountStep DEF CountInv, Ready
  <2> QED
    BY <2>1, <2>2, <2>3 DEF CountInv
<1>12. TellSteady
  BY <1>1, <1>4, <1>5, <1>7, <1>8 DEF TellSteady, ToldInv, ToldMatch
<1> QED
  BY <1>5, <1>9, <1>11, <1>12, HandledTypes, TellKept

LEMMA CreatedStep ==
  ASSUME Inv, NEW t \in Tasks, Created(t)
  PROVE  Kept
<1> DEFINE c == Call("create", t)
           k == Call("prompt", t)
           A == Increment(mem, ParentOf[t])
<1> USE DEF Inv, Kept
<1>1. /\ lim' = lim /\ disk' = disk /\ HostTyped(host) /\ MemTyped(mem) /\ c \in mem.calls
      /\ UsedTyped' /\ used'.crashes = used.crashes
      /\ host' = [host EXCEPT !.session[t] = "idle"]
      /\ mem' = [A EXCEPT !.status[t] = "running", !.routed = @ \cup {t}, !.state = @ \cup {t},
                          !.dirty = TRUE, !.calls = (@ \ {c}) \cup {k}]
  BY UsedSame DEF Created, TypeInv
<1>2. /\ CallTyped(k) /\ k.op = "prompt" /\ k.task = t /\ c.op = "create" /\ c.task = t
      /\ "running" \in Status /\ t \in host.born /\ ParentOf[t] \in Parents
  BY <1>1, CallIs, AnswersBorn, ParentsHold DEF CallTyped, Status
<1>3. mem.status[t] # "running" /\ mem.phase # "recovering"
  BY <1>1, <1>2 DEF CountInv, CallInv, RecoverInv
<1>4. \A u \in Tasks : Call("create", u) = c => u = t
  BY CallIs
<1> HIDE DEF c, k
<1>5. Same(mem, A, {"inflight"}) /\ A.inflight = More(mem.inflight, ParentOf[t])
  BY <1>1 DEF Increment, More, Same, MemTyped, MemFields, Fields
<1>6. A.inflight \in [Parents -> Nat]
  BY <1>1, <1>2, <1>5 DEF More, MemTyped
<1> HIDE DEF A
<1>7. /\ Same(A, mem', {"status", "calls"}) /\ mem'.status = [A.status EXCEPT ![t] = "running"]
      /\ mem'.calls = (A.calls \ {c}) \cup {k}
  BY <1>1, <1>5 DEF Same, MemFields, Fields
<1>8. /\ mem'.inflight = More(mem.inflight, ParentOf[t]) /\ mem'.phase = mem.phase
      /\ mem'.outbox = mem.outbox /\ mem'.listed = mem.listed
      /\ mem'.sent = mem.sent /\ mem'.watched = mem.watched /\ mem'.pending = mem.pending
      /\ mem'.timer = mem.timer /\ mem'.queue = mem.queue /\ mem'.debouncing = mem.debouncing
      /\ mem'.status = [mem.status EXCEPT ![t] = "running"]
      /\ mem'.calls = (mem.calls \ {c}) \cup {k} /\ DOMAIN mem' = MemFields
  BY <1>5, <1>7 DEF Same, Fields
<1>9. MemTyped(mem')
  <2>1. mem'.inflight \in [Parents -> Nat]
    BY <1>5, <1>6, <1>8
  <2>2. mem'.status \in [Tasks -> Status]
    <3>1. mem.status \in [Tasks -> Status] /\ "running" \in Status
      BY <1>1, <1>2 DEF MemTyped
    <3>2. mem'.status = [mem.status EXCEPT ![t] = "running"]
      BY <1>8
    <3> QED
      BY <3>1, <3>2
  <2>3. \A d \in mem'.calls : CallTyped(d)
    <3>1. \A d \in mem.calls : CallTyped(d)
      BY <1>1 DEF MemTyped
    <3> QED
      BY <1>2, <1>8, <3>1
  <2> QED
    BY <1>1, <1>8, <2>1, <2>2, <2>3 DEF MemTyped
<1>10. /\ HostTyped(host') /\ host'.born = host.born /\ host'.signalled = host.signalled
       /\ host'.session = [host.session EXCEPT ![t] = "idle"] /\ host'.told = host.told
  BY <1>1 DEF HostTyped, HostFields
<1>11. mem'.status[t] = "running" /\ \A u \in Tasks : u # t => mem'.status[u] = mem.status[u]
  BY <1>1, <1>8 DEF MemTyped
<1>12. HostMoves(host, host')
  BY <1>1, <1>10 DEF HostMoves, HostTyped
<1>13. Handled({t})
  BY <1>1, <1>2, <1>8, <1>9, <1>10, <1>11, <1>12 DEF Handled, KnownStep
<1>14. CountInv'
  <2>1. CallInv'
    <3>1. \A u \in Tasks : Call("create", u) \in mem'.calls =>
             mem'.status[u] # "running" /\ Call("reopen", u) \notin mem'.calls
      <4> SUFFICES ASSUME NEW u \in Tasks, Call("create", u) \in mem'.calls
                   PROVE  mem'.status[u] # "running" /\ Call("reopen", u) \notin mem'.calls
        OBVIOUS
      <4>1. Call("create", u) \in mem.calls /\ Call("create", u) # c
        BY <1>2, <1>8, CallIs
      <4>2. u # t
        BY <4>1 DEF c
      <4>3. Call("reopen", u) # k
        BY <1>2, CallIs
      <4> QED
        BY <1>8, <1>11, <4>1, <4>2, <4>3 DEF CountInv, CallInv
    <3>2. \A d \in mem'.calls : d.op = "get" => mem'.phase = "recovering"
      BY <1>2, <1>8 DEF CountInv, CallInv
    <3>3. \A u \in Tasks : Call("result", u) \in mem'.calls => u \in mem'.listed
      BY <1>2, <1>8, CallIs DEF CountInv, CallInv
    <3> QED
      BY <3>1, <3>2, <3>3 DEF CallInv
  <2>2. RecoverInv'
    BY <1>3, <1>8 DEF RecoverInv
  <2>3. mem'.phase = "ready" => Counted(mem)'
    BY <1>1, <1>3, <1>8, CountEnter DEF CountInv
  <2> QED
    BY <2>1, <2>2, <2>3 DEF CountInv
<1>15. TellSteady
  <2>1. \A u \in Tasks : Call("result", u) \in mem.calls => Call("result", u) \in mem'.calls
    BY <1>2, <1>8, CallIs
  <2> QED
    BY <1>1, <1>8, <1>10, <1>11, <2>1 DEF TellSteady, ToldInv, ToldMatch
<1> QED
  BY <1>8, <1>13, <1>14, <1>15, HandledTypes, TellKept

LEMMA ReopenStep ==
  ASSUME Inv, NEW t \in Tasks, Reopen(t)
  PROVE  Kept
<1> DEFINE k == Call("reopen", t)
<1> USE DEF Inv, Kept
<1>1. /\ lim' = lim /\ disk' = disk /\ HostTyped(host) /\ MemTyped(mem) /\ Ready /\ t \in host.born
      /\ host' = host /\ Use("reopens") /\ mem' = [mem EXCEPT !.calls = @ \cup {k}]
      /\ \A d \in mem.calls : d.task = t => d.op # "create"
  BY DEF Reopen, TypeInv, Known, Awaiting
<1>2. CallTyped(k) /\ k.op = "reopen" /\ k.task = t
  BY CallIs DEF CallTyped
<1> HIDE DEF k
<1>3. UsedTyped' /\ used'.crashes = used.crashes
  BY <1>1, UseIs DEF Use, Allowed, UsedNames
<1>4. Same(mem, mem', {"calls"}) /\ mem'.calls = mem.calls \cup {k}
  BY <1>1 DEF Same, MemTyped, MemFields, Fields
<1>5. /\ mem'.inflight = mem.inflight /\ mem'.phase = mem.phase /\ mem'.outbox = mem.outbox
      /\ mem'.sent = mem.sent /\ mem'.watched = mem.watched /\ mem'.pending = mem.pending
      /\ mem'.timer = mem.timer /\ mem'.status = mem.status /\ mem'.listed = mem.listed
  BY <1>4 DEF Same, Fields
<1>6. MemTyped(mem')
  BY <1>1, <1>2, <1>4 DEF Same, MemTyped, Fields
<1>7. Handled({t})
  BY <1>1, <1>2, <1>3, <1>4, <1>5, <1>6, HostSame DEF Handled, KnownStep
<1>8. CountInv'
  <2>1. CallInv'
    <3>1. \A u \in Tasks : Call("create", u) \in mem'.calls =>
             mem'.status[u] # "running" /\ Call("reopen", u) \notin mem'.calls
      BY <1>1, <1>2, <1>4, <1>5, CallIs DEF CountInv, CallInv
    <3>2. \A d \in mem'.calls : d.op = "get" => mem'.phase = "recovering"
      BY <1>2, <1>4, <1>5 DEF CountInv, CallInv
    <3>3. \A u \in Tasks : Call("result", u) \in mem'.calls => u \in mem'.listed
      BY <1>2, <1>4, <1>5, CallIs DEF CountInv, CallInv
    <3> QED
      BY <3>1, <3>2, <3>3 DEF CallInv
  <2>2. RecoverInv'
    BY <1>1, <1>5 DEF RecoverInv, Ready
  <2>3. Counted(mem)'
    BY <1>1, <1>5 DEF CountInv, Counted, Ready
  <2> QED
    BY <2>1, <2>2, <2>3 DEF CountInv
<1>9. TellSteady
  BY <1>1, <1>3, <1>4, <1>5 DEF TellSteady, ToldInv, ToldMatch
<1> QED
  BY <1>5, <1>7, <1>8, <1>9, HandledTypes, TellKept

LEMMA ReopenedStep ==
  ASSUME Inv, NEW t \in Tasks, Reopened(t)
  PROVE  Kept
<1> DEFINE c == Call("reopen", t)
           k == [Call("reprompt", t) EXCEPT !.seen = host.msgs[t]]
           moved == Is(mem, t, {"completed", "error", "timeout", "running"})
           A == IF moved THEN Move(mem, t, "running") ELSE mem
<1> USE DEF Inv, Kept
<1>1. /\ lim' = lim /\ disk' = disk /\ HostTyped(host) /\ MemTyped(mem) /\ c \in mem.calls
      /\ UsedTyped' /\ used'.crashes = used.crashes
      /\ host' = [host EXCEPT !.stalled = @ \ {t}]
      /\ mem' = [A EXCEPT !.start[t] = Len(host.msgs[t]), !.calls = (@ \ {c}) \cup {k}]
  BY UsedSame DEF Reopened, TypeInv
<1>2. /\ CallTyped(k) /\ k.op = "reprompt" /\ k.task = t /\ c.op = "reopen" /\ c.task = t
      /\ "running" \in Status /\ t \in host.born
  BY <1>1, CallIs, AnswersBorn DEF CallTyped, Status, Call
<1>3. Call("create", t) \notin mem.calls /\ mem.phase # "recovering"
  BY <1>1, <1>2 DEF CountInv, CallInv, RecoverInv
<1> HIDE DEF c, k, moved
<1>4. /\ MemTyped(A) /\ Same(mem, A, {"status", "inflight"})
      /\ \/ A.status = mem.status /\ A.inflight = mem.inflight
         \/ /\ mem.status[t] # "running" /\ A.status = [mem.status EXCEPT ![t] = "running"]
            /\ A.inflight = More(mem.inflight, ParentOf[t])
  <2> DEFINE V == Move(mem, t, "running")
  <2>1. /\ MemTyped(V) /\ Same(mem, V, {"status", "inflight"})
        /\ V.status = [mem.status EXCEPT ![t] = "running"]
        /\ mem.status[t] # "running" => V.inflight = More(mem.inflight, ParentOf[t])
        /\ mem.status[t] = "running" => V.inflight = mem.inflight
    BY <1>1, <1>2, MoveIs
  <2>2. mem.status[t] = "running" => [mem.status EXCEPT ![t] = "running"] = mem.status
    BY <1>1 DEF MemTyped
  <2>3. A = V \/ A = mem
    OBVIOUS
  <2> HIDE DEF V, A
  <2>4. CASE A = V
    BY <2>1, <2>2, <2>4
  <2>5. CASE A = mem
    BY <1>1, <2>5 DEF Same, MemTyped
  <2> QED
    BY <2>3, <2>4, <2>5
<1> HIDE DEF A
<1>5. Same(A, mem', {"calls"}) /\ mem'.calls = (A.calls \ {c}) \cup {k}
  BY <1>1, <1>4 DEF Same, MemTyped, MemFields, Fields
<1>6. MemTyped(mem')
  BY <1>2, <1>4, <1>5 DEF Same, MemTyped, Fields
<1>7. /\ mem'.inflight = A.inflight /\ mem'.status = A.status /\ mem'.phase = mem.phase
      /\ mem'.outbox = mem.outbox /\ mem'.listed = mem.listed
      /\ mem'.sent = mem.sent /\ mem'.watched = mem.watched /\ mem'.pending = mem.pending
      /\ mem'.timer = mem.timer /\ mem'.calls = (mem.calls \ {c}) \cup {k}
  BY <1>4, <1>5 DEF Same, Fields
<1>8. \A u \in Tasks : mem'.status[u] = mem.status[u] \/ (u = t /\ mem'.status[u] = "running")
  BY <1>1, <1>4, <1>7 DEF MemTyped
<1>9. HostMoves(host, host') /\ host'.told = host.told
  BY <1>1, StalledIs
<1>10. Handled({t})
  BY <1>1, <1>2, <1>6, <1>7, <1>8, <1>9 DEF Handled, KnownStep, HostMoves
<1>11. CountInv'
  <2>1. CallInv'
    <3>1. \A u \in Tasks : Call("create", u) \in mem'.calls =>
             mem'.status[u] # "running" /\ Call("reopen", u) \notin mem'.calls
      <4> SUFFICES ASSUME NEW u \in Tasks, Call("create", u) \in mem'.calls
                   PROVE  mem'.status[u] # "running" /\ Call("reopen", u) \notin mem'.calls
        OBVIOUS
      <4>1. Call("create", u) \in mem.calls
        BY <1>2, <1>7, CallIs
      <4>2. u # t
        BY <1>3, <4>1
      <4>3. Call("reopen", u) # k
        BY <1>2, CallIs
      <4> QED
        BY <1>7, <1>8, <4>1, <4>2, <4>3 DEF CountInv, CallInv
    <3>2. \A d \in mem'.calls : d.op = "get" => mem'.phase = "recovering"
      BY <1>2, <1>7 DEF CountInv, CallInv
    <3>3. \A u \in Tasks : Call("result", u) \in mem'.calls => u \in mem'.listed
      BY <1>2, <1>7, CallIs DEF CountInv, CallInv
    <3> QED
      BY <3>1, <3>2, <3>3 DEF CallInv
  <2>2. RecoverInv'
    BY <1>3, <1>7 DEF RecoverInv
  <2>3. ASSUME mem'.phase = "ready"
        PROVE  Counted(mem)'
    <3>1. Counted(mem)
      BY <1>7, <2>3 DEF CountInv
    <3>2. CASE A.status = mem.status /\ A.inflight = mem.inflight
      BY <1>1, <1>7, <3>1, <3>2 DEF Counted
    <3>3. CASE /\ mem.status[t] # "running" /\ A.status = [mem.status EXCEPT ![t] = "running"]
               /\ A.inflight = More(mem.inflight, ParentOf[t])
      BY <1>1, <1>7, <3>1, <3>3, CountEnter
    <3> QED
      BY <1>4, <3>2, <3>3
  <2> QED
    BY <2>1, <2>2, <2>3 DEF CountInv
<1>12. TellSteady
  <2>1. \A u \in Tasks : Call("result", u) \in mem.calls => Call("result", u) \in mem'.calls
    BY <1>2, <1>7, CallIs
  <2> QED
    BY <1>1, <1>7, <1>8, <1>9, <2>1 DEF TellSteady, ToldInv, ToldMatch
<1> QED
  BY <1>7, <1>10, <1>11, <1>12, HandledTypes, TellKept

LEMMA CleanupDueStep ==
  ASSUME Inv, NEW t \in Tasks, CleanupDue(t)
  PROVE  Kept
<1> USE DEF Inv, Kept
<1>1. /\ lim' = lim /\ disk' = disk /\ HostTyped(host) /\ MemTyped(mem) /\ host' = host
      /\ UsedTyped' /\ used'.crashes = used.crashes
      /\ mem' = CleanupTask(mem, t) /\ mem.timer[t] # "none"
      /\ mem.timer[t] = "armed" => t \notin mem.outbox
      /\ \A c \in mem.calls : c.task # t
  BY UsedSame DEF CleanupDue, TypeInv
<1>2. /\ Same(mem, mem', {"listed", "timer"}) /\ mem'.listed = mem.listed \ {t}
      /\ mem'.timer = [mem.timer EXCEPT ![t] = "none"]
  BY <1>1 DEF CleanupTask, Same, MemTyped, MemFields, Fields
<1>3. MemTyped(mem')
  BY <1>1, <1>2 DEF Same, MemTyped, Fields
<1>4. /\ mem'.inflight = mem.inflight /\ mem'.phase = mem.phase /\ mem'.outbox = mem.outbox
      /\ mem'.sent = mem.sent /\ mem'.watched = mem.watched /\ mem'.pending = mem.pending
      /\ mem'.status = mem.status /\ mem'.calls = mem.calls
  BY <1>2 DEF Same, Fields
<1>5. Handled({})
  BY <1>1, <1>2, <1>3, <1>4, HostSame DEF Handled, KnownStep
<1>6. mem'.timer[t] = "none" /\ \A u \in Tasks : u # t => mem'.timer[u] = mem.timer[u]
  BY <1>1, <1>2 DEF MemTyped
<1>7. CountInv'
  <2>1. CallInv'
    BY <1>1, <1>2, <1>4, CallIs DEF CountInv, CallInv
  <2>2. RecoverInv'
    BY <1>1, <1>2, <1>4, <1>6 DEF CountInv, RecoverInv
  <2>3. mem'.phase = "ready" => Counted(mem)'
    BY <1>1, <1>4 DEF CountInv, Counted
  <2> QED
    BY <2>1, <2>2, <2>3 DEF CountInv
<1>8. ToldInv'
  <2>1. ToldMatch'
    BY <1>1, <1>4 DEF ToldInv, ToldMatch
  <2> SUFFICES ASSUME used.crashes = 0
               PROVE  /\ mem'.phase = "ready" /\ mem'.outbox \subseteq mem'.listed
                      /\ \A u \in Tasks : mem'.timer[u] # "blind"
                      /\ \A u \in Tasks : mem'.status[u] = "awaiting_approval" => u \in host'.signalled
                      /\ \A p \in Parents : AllDone(p)' => \E u \in Kids(p)' : NewsOf(u)'
    BY <1>1, <2>1 DEF ToldInv
  <2>2. mem.timer[t] = "armed"
    BY <1>1 DEF ToldInv, MemTyped
  <2>3. \A p \in Parents : AllDone(p)' => \E u \in Kids(p)' : NewsOf(u)'
    BY <1>1, <1>4 DEF ToldInv, AllDone, Kids, NewsOf
  <2> QED
    BY <1>1, <1>2, <1>4, <1>6, <2>2, <2>3 DEF ToldInv
<1> QED
  BY <1>4, <1>5, <1>7, <1>8, HandledTypes

-----------------------------------------------------------------------------
(* Steps of the outbox and the queues.                                     *)

LEMMA MaterializedStep ==
  ASSUME Inv, NEW t \in Tasks, Materialized(t)
  PROVE  Kept
<1> DEFINE c == Call("result", t)
           K == Without(c)
           X == IF mem.inflight[ParentOf[t]] = 0 THEN mem.outbox \cup {t} ELSE mem.outbox
           N == [K EXCEPT !.dirty = TRUE, !.outbox = X]
<1> USE DEF Inv, Kept
<1>1. /\ lim' = lim /\ disk' = disk /\ HostTyped(host) /\ MemTyped(mem) /\ host' = host
      /\ UsedTyped' /\ used'.crashes = used.crashes /\ c \in mem.calls /\ lim \in Limits
  BY UsedSame DEF Materialized, TypeInv
<1>2. /\ MemTyped(K) /\ Same(mem, K, {"calls"}) /\ K.calls = mem.calls \ {c}
  BY <1>1, WithoutIs
<1>3. mem' = NotifyCompletion(N, t, "result")
  <2>1. K.outbox = mem.outbox
    BY <1>2 DEF Same, Fields
  <2>2. N = [K EXCEPT !.dirty = TRUE, !.outbox = IF mem.inflight[ParentOf[t]] = 0 THEN @ \cup {t} ELSE @]
    BY <2>1
  <2> QED
    BY <2>2 DEF Materialized
<1>4. c.op = "result" /\ c.task = t /\ t \in mem.listed /\ t \in host.born
  BY <1>1, CallIs, AnswersBorn DEF CountInv, CallInv
<1>5. X \subseteq mem.outbox \cup {t} /\ mem.outbox \subseteq X
      /\ (mem.inflight[ParentOf[t]] = 0 => t \in X)
  OBVIOUS
<1> HIDE DEF K, X
<1>6. Same(K, N, {"outbox"}) /\ N.outbox = X
  BY <1>2 DEF Same, MemTyped, MemFields, Fields
<1> HIDE DEF N
<1>7. MemTyped(N)
  BY <1>1, <1>2, <1>5, <1>6 DEF Same, MemTyped, Fields
<1>8. MemTyped(mem') /\ Same(N, mem', {"queue", "pending"}) /\ mem'.pending \subseteq N.pending \cup {t}
  BY <1>1, <1>3, <1>7, NotifyCompletionIs
<1>9. /\ mem'.inflight = mem.inflight /\ mem'.phase = mem.phase /\ mem'.listed = mem.listed
      /\ mem'.sent = mem.sent /\ mem'.watched = mem.watched /\ mem'.status = mem.status
      /\ mem'.timer = mem.timer /\ mem'.outbox = X /\ mem'.calls = mem.calls \ {c}
      /\ mem'.pending \subseteq mem.pending \cup {t}
  BY <1>2, <1>6, <1>8 DEF Same, Fields
<1>10. Handled({t})
  BY <1>1, <1>4, <1>5, <1>8, <1>9, HostSame DEF Handled, KnownStep
<1>11. CountSteady(t)
  BY <1>9 DEF CountSteady, StatusStep
<1>12. ToldInv'
  <2>1. ToldMatch'
    BY <1>1, <1>9 DEF ToldInv, ToldMatch
  <2> SUFFICES ASSUME used.crashes = 0
               PROVE  /\ mem'.phase = "ready" /\ mem'.outbox \subseteq mem'.listed
                      /\ \A u \in Tasks : mem'.timer[u] # "blind"
                      /\ \A u \in Tasks : mem'.status[u] = "awaiting_approval" => u \in host'.signalled
                      /\ \A p \in Parents : AllDone(p)' => \E u \in Kids(p)' : NewsOf(u)'
    BY <1>1, <2>1 DEF ToldInv
  <2>2. ASSUME NEW p \in Parents, AllDone(p)'
        PROVE  \E u \in Kids(p)' : NewsOf(u)'
    <3>1. \A u \in Tasks : mem'.status[u] = "completed" =>
             (u \in host.born /\ mem.status[u] = "completed") \/ u \in host'.signalled \/ NewsOf(u)'
      BY <1>9 DEF TypeInv, Known
    <3>2. \A u \in Kids(p) : NewsOf(u) => NewsOf(u)' \/ u \in lim.suppressed
      <4> SUFFICES ASSUME NEW u \in Kids(p), NewsOf(u)
                   PROVE  NewsOf(u)'
        OBVIOUS
      <4>1. CASE u # t
        <5>1. Call("result", u) # c
          BY <4>1, CallIs DEF c
        <5> QED
          BY <1>5, <1>9, <5>1 DEF NewsOf
      <4>2. CASE u = t
        <5>1. p = ParentOf[t]
          BY <4>2 DEF Kids, Children
        <5>2. RunningOf(mem.status, p) = {}
          BY <1>1, <1>9, <2>2 DEF RunningOf, AllDone, Kids, TypeInv, Known, Children
        <5>3. Cardinality(RunningOf(mem.status, p)) = 0
          BY <5>2, FS_EmptySet
        <5>4. Counted(mem) /\ mem.inflight[p] \in Nat
          BY <1>1 DEF CountInv, ToldInv, MemTyped
        <5>5. mem.inflight[p] = 0
          BY <5>3, <5>4 DEF Counted
        <5> QED
          BY <1>5, <1>9, <4>2, <5>1, <5>5 DEF NewsOf
      <4> QED
        BY <4>1, <4>2
    <3> QED
      BY <1>1, <2>2, <3>1, <3>2, NewsKept DEF HostTyped
  <2> QED
    BY <1>1, <1>4, <1>5, <1>9, <2>2 DEF ToldInv
<1> QED
  BY <1>9, <1>10, <1>11, <1>12, HandledTypes, CountKept

LEMMA SweepOutboxStep ==
  ASSUME Inv, NEW t \in Tasks, SweepOutbox(t)
  PROVE  Kept
<1> USE DEF Inv, Kept
<1>1. /\ lim' = lim /\ disk' = disk /\ HostTyped(host) /\ MemTyped(mem) /\ host' = host
      /\ UsedTyped' /\ used'.crashes = used.crashes /\ lim \in Limits
      /\ \/ /\ t \notin mem.listed \/ t \in mem.sent
            /\ mem' = [mem EXCEPT !.outbox = @ \ {t}]
         \/ mem' = NotifyParent(mem, t, 0, MaxTries, "sweeper")
  BY UsedSame DEF SweepOutbox, TypeInv
<1>2. /\ MemTyped(mem') /\ Same(mem, mem', {"queue", "pending", "outbox"})
      /\ mem'.pending \subseteq mem.pending /\ mem'.outbox \subseteq mem.outbox
      /\ \A u \in mem.outbox \ mem'.outbox : u \in mem.sent \cup lim.suppressed \/ u \notin mem.listed
  <2>1. CASE /\ t \notin mem.listed \/ t \in mem.sent
             /\ mem' = [mem EXCEPT !.outbox = @ \ {t}]
    <3>1. Same(mem, mem', {"outbox"}) /\ mem'.outbox = mem.outbox \ {t}
      BY <1>1, <2>1 DEF Same, MemTyped, MemFields, Fields
    <3>2. MemTyped(mem')
      BY <1>1, <3>1 DEF Same, MemTyped, Fields
    <3> QED
      BY <2>1, <3>1, <3>2 DEF Same, Fields
  <2>2. CASE mem' = NotifyParent(mem, t, 0, MaxTries, "sweeper")
    <3>1. "sweeper" \in Senders /\ 0 \in Nat /\ MaxTries \in Nat
      BY DispatchConstants DEF Senders
    <3>2. /\ MemTyped(mem') /\ Same(mem, mem', {"queue", "pending", "outbox"})
          /\ mem'.pending \subseteq mem.pending
          /\ mem'.outbox = IF "sweeper" = "sweeper" /\ t \in lim.suppressed THEN mem.outbox \ {t} ELSE mem.outbox
      BY <1>1, <2>2, <3>1, NotifyParentIs, Zenon
    <3> QED
      BY <3>2
  <2> QED
    BY <1>1, <2>1, <2>2
<1>3. /\ mem'.inflight = mem.inflight /\ mem'.phase = mem.phase /\ mem'.listed = mem.listed
      /\ mem'.sent = mem.sent /\ mem'.watched = mem.watched /\ mem'.status = mem.status
      /\ mem'.timer = mem.timer /\ mem'.calls = mem.calls
  BY <1>2 DEF Same, Fields
<1>4. Handled({})
  BY <1>1, <1>2, <1>3, HostSame DEF Handled, KnownStep
<1>5. CountSteady(t)
  BY <1>3 DEF CountSteady, StatusStep
<1>6. TellSteady
  BY <1>1, <1>2, <1>3 DEF TellSteady, ToldInv, ToldMatch
<1> QED
  BY <1>4, <1>5, <1>6, OrderlyKeeps

\* What a notification that is answered, or tried once more, leaves.
SentStep(job) ==
    /\ MemTyped(mem')
    /\ Same(mem, mem', {"queue", "pending", "outbox", "sent", "debouncing"})
    /\ mem'.pending \subseteq mem.pending /\ mem'.outbox \subseteq mem.outbox
    /\ mem.sent \subseteq mem'.sent
    /\ \A u \in mem.outbox \ mem'.outbox : u \in mem'.sent

LEMMA SentKeeps ==
  ASSUME Inv, NEW job \in Jobs, SentStep(job), lim' = lim, disk' = disk,
         HostMoves(host, host'), UsedTyped', used'.crashes = used.crashes, ToldMatch'
  PROVE  Kept
<1> USE DEF Inv, Kept
<1>1. /\ mem'.inflight = mem.inflight /\ mem'.phase = mem.phase /\ mem'.listed = mem.listed
      /\ mem'.watched = mem.watched /\ mem'.status = mem.status
      /\ mem'.timer = mem.timer /\ mem'.calls = mem.calls
  BY DEF SentStep, Same, Fields
<1>2. Handled({})
  BY <1>1 DEF Handled, KnownStep, SentStep
<1>3. CountSteady(job.task) /\ job.task \in Tasks
  BY <1>1 DEF CountSteady, StatusStep, Jobs
<1>4. TellSteady
  BY <1>1 DEF TellSteady, SentStep
<1> QED
  BY <1>2, <1>3, <1>4, OrderlyKeeps

LEMMA SendStep ==
  ASSUME Inv, NEW p \in Parents, SendNotification(p)
  PROVE  Kept
<1> DEFINE q == mem.queue[p]
           job == Head(q)
           rest == [mem EXCEPT !.queue[p] = Tail(@)]
           t == job.task
           told == [host EXCEPT !.told[t] = @ + 1]
           noted == [rest EXCEPT !.sent = @ \cup {t}]
           again == [mem EXCEPT !.queue[p][1].tries = @ - 1]
<1> USE DEF Inv, Kept
<1>0. /\ lim' = lim /\ disk' = disk /\ HostTyped(host) /\ MemTyped(mem) /\ lim \in Limits
      /\ q # <<>> /\ q \in Seq(Jobs)
  BY DEF SendNotification, TypeInv, MemTyped
<1>1. job \in Jobs /\ Tail(q) \in Seq(Jobs) /\ t \in Tasks /\ job.from \in Senders
      /\ (job.from = "sweeper" => job.final)
  <2>1. job \in Jobs /\ Tail(q) \in Seq(Jobs)
    BY <1>0, HeadTailProperties
  <2> QED
    BY <2>1 DEF Jobs
<1>2. \/ /\ job.final /\ t \in mem.sent /\ mem' = Answered(rest, job, TRUE)
         /\ host' = host /\ used' = used
      \/ /\ job.final /\ t \notin mem.sent /\ mem' = HeardBusy(Answered(noted, job, TRUE), p)
         /\ host' = Woken(told, p) /\ used' = used
      \/ /\ job.final /\ Use("faults") /\ host' = host
         /\ \/ job.tries > 1 /\ mem' = again
            \/ mem' = Answered(rest, job, FALSE)
      \/ /\ ~ job.final /\ mem' = Answered(rest, job, FALSE)
         /\ host' = host /\ used' = used
  BY DEF SendNotification
<1>3. UsedTyped' /\ used'.crashes = used.crashes
  <2>1. used' = used \/ Use("faults")
    BY <1>2
  <2> QED
    BY <1>0, <2>1, UseIs DEF Use, Allowed, UsedNames
<1> HIDE DEF job, q, t
<1>4. /\ Same(mem, rest, {"queue"}) /\ rest.queue = [mem.queue EXCEPT ![p] = Tail(q)]
  BY <1>0 DEF Same, MemTyped, MemFields, Fields, q
<1> HIDE DEF rest
<1>5. MemTyped(rest)
  <2>1. rest.queue \in [Parents -> Seq(Jobs)]
    BY <1>0, <1>1, <1>4 DEF MemTyped
  <2> QED
    BY <1>0, <1>4, <2>1 DEF Same, MemTyped, Fields
<1>6. ASSUME host' = host, mem'.sent = mem.sent
      PROVE  HostMoves(host, host') /\ ToldMatch'
  BY <1>0, <1>6, HostSame DEF ToldInv, ToldMatch
<1>7. ASSUME NEW ok \in BOOLEAN, ok => t \in mem.sent \/ job.from # "sweeper",
             mem' = Answered(rest, job, ok), host' = host
      PROVE  Kept
  <2>1. /\ MemTyped(mem') /\ Same(rest, mem', {"pending", "outbox"})
        /\ mem'.pending \subseteq rest.pending
        /\ mem'.outbox = IF job.from = "sweeper" /\ ok THEN rest.outbox \ {job.task} ELSE rest.outbox
    BY <1>1, <1>5, <1>7, AnsweredIs DEF t
  <2>2. SentStep(job) /\ mem'.sent = mem.sent
    BY <1>4, <1>7, <2>1 DEF SentStep, Same, Fields, t
  <2>3. HostMoves(host, host') /\ ToldMatch'
    BY <1>6, <1>7, <2>2
  <2> QED
    BY <1>0, <1>1, <1>3, <2>2, <2>3, SentKeeps
<1>8. CASE job.final /\ t \in mem.sent /\ mem' = Answered(rest, job, TRUE) /\ host' = host
  BY <1>7, <1>8
<1>9. CASE mem' = Answered(rest, job, FALSE) /\ host' = host
  BY <1>7, <1>9
<1>10. CASE /\ t \notin mem.sent /\ mem' = HeardBusy(Answered(noted, job, TRUE), p)
            /\ host' = Woken(told, p)
  <2> DEFINE A == Answered(noted, job, TRUE)
  <2>1. Same(rest, noted, {"sent"}) /\ noted.sent = rest.sent \cup {t}
    BY <1>5 DEF Same, MemTyped, MemFields, Fields
  <2>2. MemTyped(noted)
    <3> HIDE DEF noted
    <3> QED
      BY <1>1, <1>5, <2>1 DEF Same, MemTyped, Fields
  <2> HIDE DEF noted
  <2>3. /\ MemTyped(A) /\ Same(noted, A, {"pending", "outbox"})
        /\ A.pending \subseteq noted.pending
        /\ A.outbox = IF job.from = "sweeper" /\ TRUE THEN noted.outbox \ {job.task} ELSE noted.outbox
    BY <1>1, <2>2, AnsweredIs DEF t
  <2> HIDE DEF A
  <2>4. MemTyped(mem') /\ Same(A, mem', {"debouncing"})
    BY <1>10, <2>3, HeardBusyIs DEF A
  <2>5. SentStep(job) /\ mem'.sent = mem.sent \cup {t}
    BY <1>4, <2>1, <2>3, <2>4 DEF SentStep, Same, Fields, t
  <2>6. /\ DOMAIN told = HostFields /\ told.born = host.born /\ told.signalled = host.signalled
        /\ told.session = host.session /\ told.told = [host.told EXCEPT ![t] = @ + 1]
    BY <1>0 DEF HostTyped, HostFields
  <2> HIDE DEF told
  <2>7. HostTyped(told)
    BY <1>0, <1>1, <2>6 DEF HostTyped
  <2>8. HostMoves(told, host') /\ host'.told = told.told
    BY <1>10, <2>7, WokenIs
  <2>9. HostMoves(host, host')
    BY <2>6, <2>8 DEF HostMoves
  <2>10. ToldMatch'
    <3>1. ToldMatch /\ host.told \in [Tasks -> Nat]
      BY <1>0 DEF ToldInv, HostTyped
    <3> SUFFICES ASSUME NEW u \in Tasks
                 PROVE  host'.told[u] = IF u \in mem'.sent THEN 1 ELSE 0
      BY DEF ToldMatch
    <3>2. CASE u = t
      <4>1. host.told[t] = 0
        BY <1>1, <1>10, <3>1 DEF ToldMatch
      <4>2. host'.told[t] = 1
        BY <1>1, <2>6, <2>8, <3>1, <4>1
      <4> QED
        BY <2>5, <3>2, <4>2
    <3>3. CASE u # t
      BY <2>5, <2>6, <2>8, <3>1, <3>3 DEF ToldMatch
    <3> QED
      BY <3>2, <3>3
  <2> QED
    BY <1>0, <1>1, <1>3, <2>5, <2>9, <2>10, SentKeeps
<1>11. CASE job.tries > 1 /\ mem' = again /\ host' = host
  <2> DEFINE j == [job EXCEPT !.tries = @ - 1]
             r == [q EXCEPT ![1] = j]
  <2>1. j \in Jobs
    BY <1>1, <1>11 DEF Jobs
  <2>2. r \in Seq(Jobs)
    <3>1. 1 \in 1 .. Len(q)
      BY <1>0, EmptySeq, LenProperties
    <3> HIDE DEF j
    <3> QED
      BY <1>0, <2>1, <3>1, ExceptSeq
  <2>3. q[1] = job
    BY <1>0 DEF job
  <2>4. mem' = [mem EXCEPT !.queue = [mem.queue EXCEPT ![p] = r]]
    BY <1>11, <2>3 DEF q
  <2> HIDE DEF r, j
  <2>5. Same(mem, mem', {"queue"}) /\ mem'.queue = [mem.queue EXCEPT ![p] = r]
    BY <1>0, <2>4 DEF Same, MemTyped, MemFields, Fields
  <2>6. mem'.queue \in [Parents -> Seq(Jobs)]
    BY <1>0, <2>2, <2>5 DEF MemTyped
  <2>7. MemTyped(mem')
    BY <1>0, <2>5, <2>6 DEF Same, MemTyped, Fields
  <2>8. SentStep(job) /\ mem'.sent = mem.sent
    BY <2>5, <2>7 DEF SentStep, Same, Fields
  <2>9. HostMoves(host, host') /\ ToldMatch'
    BY <1>6, <1>11, <2>8
  <2> QED
    BY <1>0, <1>1, <1>3, <2>8, <2>9, SentKeeps
<1> QED
  BY <1>2, <1>8, <1>9, <1>10, <1>11

-----------------------------------------------------------------------------
(* The state file, the crash and the recovery.                             *)

LEMMA EmptyMemoryIs ==
  /\ MemTyped(EmptyMemory)
  /\ EmptyMemory.listed = {} /\ EmptyMemory.calls = {} /\ EmptyMemory.sent = {}
  /\ EmptyMemory.outbox = {} /\ EmptyMemory.pending = {} /\ EmptyMemory.watched = {}
  /\ EmptyMemory.debouncing = {} /\ EmptyMemory.routed = {} /\ EmptyMemory.dirty = FALSE
  /\ EmptyMemory.phase = "ready" /\ EmptyMemory.status = [t \in Tasks |-> "none"]
  /\ EmptyMemory.inflight = [p \in Parents |-> 0] /\ EmptyMemory.timer = [t \in Tasks |-> "none"]
  /\ EmptyMemory.queue = [p \in Parents |-> <<>>]
<1>1. <<>> \in Seq(Jobs)
  BY EmptySeq
<1> QED
  BY <1>1 DEF EmptyMemory, MemTyped, MemFields, Status, Terminal

LEMMA DownIs ==
  /\ Same(EmptyMemory, Down, {"phase"}) /\ Down.phase = "down"
  /\ Down.routed = {} /\ Down.dirty = FALSE /\ MemTyped(Down)
<1>1. /\ Same(EmptyMemory, Down, {"phase"}) /\ Down.phase = "down"
      /\ Down.routed = {} /\ Down.dirty = FALSE
  BY EmptyMemoryIs DEF Down, Same, MemTyped, MemFields, Fields
<1> QED
  BY <1>1, EmptyMemoryIs DEF Same, MemTyped, Fields

\* A process that is down remembers nothing.
DownInv == mem.phase = "down" => mem = Down

LEMMA CrashStep ==
  ASSUME Inv, Crash
  PROVE  Inv' /\ mem' = Down
<1> USE DEF Inv
<1>1. /\ lim' = lim /\ disk' = disk /\ mem' = Down /\ HostTyped(host)
      /\ host' = [host EXCEPT !.told = [t \in Tasks |-> 0]]
      /\ used.crashes < lim.crashes /\ used' = [used EXCEPT !.crashes = @ + 1]
  BY DEF Crash, Use, Allowed, TypeInv
<1>2. /\ MemTyped(mem') /\ mem'.phase = "down" /\ mem'.calls = {} /\ mem'.listed = {}
      /\ mem'.sent = {} /\ mem'.outbox = {} /\ mem'.pending = {} /\ mem'.watched = {}
      /\ mem'.status = [t \in Tasks |-> "none"]
  BY <1>1, DownIs, EmptyMemoryIs DEF Same, Fields
<1>3. UsedTyped' /\ used'.crashes # 0
  <2>1. "crashes" \in UsedNames /\ used.crashes \in Nat
    BY DEF UsedNames, TypeInv, UsedTyped
  <2>2. UsedTyped'
    BY <1>1, <2>1, UseIs
  <2>3. used'.crashes = used.crashes + 1
    BY <1>1, <2>1 DEF TypeInv, UsedTyped
  <2> QED
    BY <2>1, <2>2, <2>3
<1>4. /\ HostTyped(host') /\ host'.born = host.born /\ host'.session = host.session
      /\ host'.told = [t \in Tasks |-> 0]
  BY <1>1 DEF HostTyped, HostFields
<1>5. TypeInv'
  BY <1>1, <1>2, <1>3, <1>4 DEF TypeInv, Known
<1>6. CountInv'
  BY <1>2 DEF CountInv, CallInv, RecoverInv
<1>7. ToldInv'
  BY <1>2, <1>3, <1>4 DEF ToldInv, ToldMatch
<1> QED
  BY <1>1, <1>5, <1>6, <1>7

LEMMA PersistStep ==
  ASSUME Inv, Persist
  PROVE  Kept
<1> USE DEF Inv, Kept
<1>1. /\ lim' = lim /\ host' = host /\ disk' = Saved /\ mem' = [mem EXCEPT !.dirty = FALSE]
      /\ MemTyped(mem) /\ HostTyped(host) /\ used'.crashes = used.crashes /\ UsedTyped'
  BY UsedSame DEF Persist, TypeInv
<1>2. Same(mem, mem', {})
  BY <1>1 DEF Same, MemTyped, MemFields, Fields
<1>3. MemTyped(mem')
  BY <1>1, <1>2 DEF Same, MemTyped, Fields
<1>4. /\ mem'.inflight = mem.inflight /\ mem'.phase = mem.phase /\ mem'.listed = mem.listed
      /\ mem'.sent = mem.sent /\ mem'.watched = mem.watched /\ mem'.status = mem.status
      /\ mem'.timer = mem.timer /\ mem'.outbox = mem.outbox /\ mem'.calls = mem.calls
      /\ mem'.pending = mem.pending
  BY <1>2 DEF Same, Fields
<1>5. disk'.listed = mem.listed /\ disk'.outbox = mem.outbox /\ disk'.status = mem.status
  BY <1>1 DEF Saved
<1>6. TypeInv'
  BY <1>1, <1>3, <1>4, <1>5 DEF TypeInv, Known, MemTyped
<1>7. CountInv'
  BY <1>1, <1>4 DEF CountInv, CallInv, RecoverInv, Counted
<1>8. ToldInv'
  <2>1. ToldMatch'
    BY <1>1, <1>4 DEF ToldInv, ToldMatch
  <2>2. \A p \in Parents : (AllDone(p)' => AllDone(p)) /\ Kids(p)' = Kids(p)
    BY <1>1, <1>4 DEF AllDone, Kids
  <2>3. \A t \in Tasks : NewsOf(t) => NewsOf(t)'
    BY <1>4 DEF NewsOf
  <2> QED
    BY <1>1, <1>4, <2>1, <2>2, <2>3 DEF ToldInv, Kids, Children
<1> QED
  BY <1>4, <1>6, <1>7, <1>8

\* The memory in which recovery asks whether all sessions have been looked for.
Recoverable(M) ==
    /\ MemTyped(M) /\ M.phase = "recovering"
    /\ \A c \in M.calls : c.op \notin {"create", "reopen", "cancel"}
    /\ \A t \in Tasks : M.status[t] # "pending"
    /\ \A t \in Tasks : M.status[t] = "running" => t \in M.listed /\ M.timer[t] = "none"
    /\ \A t \in Tasks : Call("result", t) \in M.calls => t \in M.listed

\* The counters recovery rebuilds are exact: no task is pending then, and those that run
\* are listed.
LEMMA RebuiltKeeps ==
  ASSUME TypeInv, lim' = lim, disk' = disk, host' = host, UsedTyped', NEW M, NEW changed,
         Recoverable(M), Known(M, host.born), mem' = Rebuilt(M, changed)
  PROVE  TypeInv' /\ CountInv' /\ mem'.sent = M.sent /\ mem'.phase # "down"
<1> DEFINE Looked == \A c \in M.calls : c.op # "get"
           N == [M EXCEPT !.phase = "ready", !.elder = {}, !.dirty = @ \/ changed,
                   !.inflight = [p \in Parents |->
                       Cardinality({t \in Children(p) : Is(M, t, {"running", "pending"})})]]
<1>1. CASE ~ Looked
  <2>1. mem' = M
    BY <1>1 DEF Rebuilt
  <2>2. TypeInv'
    BY <2>1 DEF TypeInv, Recoverable
  <2>3. CountInv'
    <3>1. CallInv'
      BY <2>1, CallIs DEF CallInv, Recoverable
    <3>2. RecoverInv' /\ mem'.phase # "ready"
      BY <2>1 DEF RecoverInv, Recoverable
    <3> QED
      BY <3>1, <3>2 DEF CountInv
  <2> QED
    BY <2>1, <2>2, <2>3 DEF Recoverable
<1>2. CASE Looked
  <2>1. mem' = N
    BY <1>2 DEF Rebuilt
  <2>2. /\ Same(M, N, {"phase", "inflight"}) /\ N.phase = "ready"
        /\ N.inflight = [p \in Parents |->
                           Cardinality({t \in Children(p) : Is(M, t, {"running", "pending"})})]
    BY DEF Same, Recoverable, MemTyped, MemFields, Fields
  <2> HIDE DEF N
  <2>3. \A p \in Parents : {t \in Children(p) : Is(M, t, {"running", "pending"})} = RunningOf(M.status, p)
    BY DEF Recoverable, RunningOf, Children, Is
  <2>4. \A p \in Parents : N.inflight[p] = Cardinality(RunningOf(M.status, p))
    BY <2>2, <2>3
  <2>5. N.inflight \in [Parents -> Nat]
    <3>1. DOMAIN N.inflight = Parents /\ N.inflight = [p \in Parents |-> N.inflight[p]]
      BY <2>2
    <3>2. \A p \in Parents : N.inflight[p] \in Nat
      BY <2>4, RunningFinite
    <3> QED
      BY <3>1, <3>2
  <2>6. /\ mem'.listed = M.listed /\ mem'.status = M.status /\ mem'.calls = M.calls
        /\ mem'.outbox = M.outbox /\ mem'.pending = M.pending /\ mem'.watched = M.watched
        /\ mem'.sent = M.sent /\ mem'.phase = "ready" /\ mem'.inflight = N.inflight
    BY <2>1, <2>2 DEF Same, Fields
  <2>7. MemTyped(mem')
    <3>1. MemTyped(M)
      BY DEF Recoverable
    <3>2. MemTyped(N)
      BY <2>2, <2>5, <3>1 DEF Same, MemTyped, Fields
    <3> QED
      BY <2>1, <3>2
  <2>8. TypeInv'
    BY <2>6, <2>7 DEF TypeInv, Known
  <2>9. CallInv'
    BY <1>2, <2>6, CallIs DEF CallInv, Recoverable
  <2>10. Counted(mem)'
    <3> SUFFICES ASSUME NEW p \in Parents
                 PROVE  /\ mem'.inflight[p] <= Cardinality(RunningOf(mem'.status, p))
                        /\ mem'.inflight[p] = Cardinality(RunningOf(mem'.status, p))
      BY DEF Counted
    <3>1. mem'.inflight[p] = Cardinality(RunningOf(mem'.status, p))
      BY <2>4, <2>6
    <3>2. mem'.inflight[p] \in Nat
      BY <3>1, RunningFinite
    <3> QED
      BY <3>1, <3>2
  <2> QED
    BY <2>6, <2>8, <2>9, <2>10 DEF CountInv, RecoverInv
<1> QED
  BY <1>1, <1>2

\* A memory that waits for sessions, in recovery, is one that can be rebuilt.
LEMMA StillRecoverable ==
  ASSUME Inv, mem.phase = "recovering", NEW t \in Tasks, Call("get", t) \in mem.calls,
         NEW M, MemTyped(M), M.phase = mem.phase, M.listed = mem.listed,
         M.calls = mem.calls \ {Call("get", t)},
         \/ M.status = mem.status /\ M.timer = mem.timer
         \/ /\ M.status = [mem.status EXCEPT ![t] = "error"]
            /\ M.timer = [mem.timer EXCEPT ![t] = "armed"]
  PROVE  Recoverable(M)
<1>1. MemTyped(mem) /\ CallInv /\ RecoverInv
  BY DEF Inv, TypeInv, CountInv
<1>2. \A c \in M.calls : c.op \notin {"create", "reopen", "cancel"}
  BY <1>1 DEF RecoverInv
<1>3. \A u \in Tasks : M.status[u] # "pending"
  <2>1. DOMAIN mem.status = Tasks
    BY <1>1 DEF MemTyped
  <2> QED
    BY <1>1, <2>1 DEF RecoverInv
<1>4. \A u \in Tasks : M.status[u] = "running" => u \in M.listed /\ M.timer[u] = "none"
  <2> SUFFICES ASSUME NEW u \in Tasks, M.status[u] = "running"
               PROVE  u \in M.listed /\ M.timer[u] = "none"
    OBVIOUS
  <2>1. DOMAIN mem.status = Tasks /\ DOMAIN mem.timer = Tasks
    BY <1>1 DEF MemTyped
  <2>2. M.status[u] = mem.status[u] /\ M.timer[u] = mem.timer[u]
    BY <2>1
  <2> QED
    BY <1>1, <2>2 DEF RecoverInv
<1>5. \A u \in Tasks : Call("result", u) \in M.calls => u \in M.listed
  BY <1>1 DEF CallInv
<1> QED
  BY <1>2, <1>3, <1>4, <1>5 DEF Recoverable

LEMMA SessionFoundStep ==
  ASSUME Inv, NEW t \in Tasks, SessionFound(t)
  PROVE  Inv' /\ mem'.phase # "down"
<1> DEFINE c == Call("get", t)
           K == Without(c)
           N == [K EXCEPT !.watched = @ \cup {t}, !.routed = @ \cup {t}, !.state = @ \cup {t},
                          !.base[t] = mem.start[t], !.confirm[t] = Unset]
<1> USE DEF Inv
<1>1. /\ lim' = lim /\ disk' = disk /\ host' = host /\ UsedTyped' /\ used'.crashes = used.crashes
      /\ c \in mem.calls /\ mem' = Rebuilt(N, TRUE) /\ MemTyped(mem)
  BY UsedSame DEF SessionFound, TypeInv
<1>2. MemTyped(K) /\ Same(mem, K, {"calls"}) /\ K.calls = mem.calls \ {c}
  BY <1>1, WithoutIs
<1>3. c.op = "get" /\ c.task = t /\ t \in host.born /\ mem.phase = "recovering"
  BY <1>1, CallIs, AnswersBorn DEF CountInv, CallInv
<1> HIDE DEF K
<1>4. Same(K, N, {"watched"}) /\ N.watched = K.watched \cup {t}
  BY <1>2 DEF Same, MemTyped, MemFields, Fields
<1> HIDE DEF N
<1>5. MemTyped(N)
  BY <1>2, <1>4 DEF Same, MemTyped, Fields
<1>6. /\ N.inflight = mem.inflight /\ N.phase = mem.phase /\ N.listed = mem.listed
      /\ N.sent = mem.sent /\ N.status = mem.status /\ N.outbox = mem.outbox
      /\ N.timer = mem.timer /\ N.calls = mem.calls \ {c} /\ N.pending = mem.pending
      /\ N.watched = mem.watched \cup {t}
  BY <1>2, <1>4 DEF Same, Fields
<1>7. Recoverable(N)
  BY <1>1, <1>3, <1>5, <1>6, StillRecoverable
<1>8. Known(N, host.born)
  BY <1>3, <1>6 DEF TypeInv, Known
<1>9. TypeInv' /\ CountInv' /\ mem'.sent = mem.sent /\ mem'.phase # "down"
  BY <1>1, <1>6, <1>7, <1>8, RebuiltKeeps
<1>10. ToldInv'
  BY <1>1, <1>3, <1>9 DEF ToldInv, ToldMatch
<1> QED
  BY <1>9, <1>10

LEMMA SessionLostStep ==
  ASSUME Inv, NEW t \in Tasks, SessionLost(t)
  PROVE  Inv' /\ mem'.phase # "down"
<1> DEFINE c == Call("get", t)
           K == Without(c)
           N == [K EXCEPT !.status[t] = "error"]
           n == N.inflight[ParentOf[t]]
           A == NotifyParent(N, t, n, MaxTries, "alone")
           B == ScheduleCleanup(A, t)
<1> USE DEF Inv
<1>1. /\ lim' = lim /\ disk' = disk /\ host' = host /\ lim \in Limits
      /\ c \in mem.calls /\ mem' = Rebuilt(B, TRUE) /\ MemTyped(mem)
  BY DEF SessionLost, TypeInv
<1>2. UsedTyped' /\ used'.crashes = used.crashes
  BY <1>1, UseIs DEF SessionLost, Allowed, UsedNames
<1>3. MemTyped(K) /\ Same(mem, K, {"calls"}) /\ K.calls = mem.calls \ {c}
  BY <1>1, WithoutIs
<1>4. c.op = "get" /\ c.task = t /\ t \in host.born /\ mem.phase = "recovering"
  BY <1>1, CallIs, AnswersBorn DEF CountInv, CallInv
<1> HIDE DEF K
<1>5. Same(K, N, {"status"}) /\ N.status = [K.status EXCEPT ![t] = "error"]
  BY <1>3 DEF Same, MemTyped, MemFields, Fields
<1> HIDE DEF N
<1>6. MemTyped(N)
  <2>1. "error" \in Status
    BY DEF Status, Terminal, Failures
  <2>2. N.status \in [Tasks -> Status]
    BY <1>3, <1>5, <2>1 DEF MemTyped
  <2> QED
    BY <1>3, <1>5, <2>2 DEF Same, MemTyped, Fields
<1>7. n \in Nat /\ MaxTries \in Nat
  BY <1>6, ParentsHold, DispatchConstants DEF MemTyped
<1> HIDE DEF n
<1>8. MemTyped(A) /\ Same(N, A, {"queue", "pending"}) /\ A.pending \subseteq N.pending
  BY <1>1, <1>6, <1>7, NotifyAloneIs, Zenon
<1> HIDE DEF A
<1>9. MemTyped(B) /\ Same(A, B, {"timer"}) /\ B.timer = [A.timer EXCEPT ![t] = "armed"]
  BY <1>8, ScheduleCleanupIs
<1> HIDE DEF B
<1>10. /\ B.inflight = mem.inflight /\ B.phase = mem.phase /\ B.listed = mem.listed
       /\ B.sent = mem.sent /\ B.status = [mem.status EXCEPT ![t] = "error"]
       /\ B.outbox = mem.outbox /\ B.timer = [mem.timer EXCEPT ![t] = "armed"]
       /\ B.calls = mem.calls \ {c} /\ B.pending \subseteq mem.pending /\ B.watched = mem.watched
  BY <1>3, <1>5, <1>8, <1>9 DEF Same, Fields
<1>11. Recoverable(B)
  BY <1>1, <1>4, <1>9, <1>10, StillRecoverable
<1>12. Known(B, host.born)
  BY <1>1, <1>4, <1>10 DEF TypeInv, Known, MemTyped
<1>13. TypeInv' /\ CountInv' /\ mem'.sent = mem.sent /\ mem'.phase # "down"
  BY <1>1, <1>2, <1>10, <1>11, <1>12, RebuiltKeeps
<1>14. ToldInv'
  BY <1>1, <1>2, <1>4, <1>13 DEF ToldInv, ToldMatch
<1> QED
  BY <1>13, <1>14

LEMMA RestartStep ==
  ASSUME Inv, DownInv, Restart
  PROVE  Inv' /\ mem'.phase # "down"
<1> DEFINE kept == {t \in disk.listed : disk.status[t] # "pending"}
           ended == {t \in kept : disk.status[t] \in Terminal}
           running == {t \in kept : disk.status[t] = "running"}
<1> USE DEF Inv
<1>1. /\ lim' = lim /\ disk' = disk /\ host' = host /\ UsedTyped' /\ used'.crashes = used.crashes
      /\ mem.phase = "down" /\ HostTyped(host)
      /\ disk.status \in [Tasks -> Status] /\ disk.listed \subseteq host.born
      /\ disk.outbox \subseteq host.born
  BY UsedSame DEF Restart, TypeInv
<1>2. PICK expired \in SUBSET ended :
         mem' = Rebuilt([EmptyMemory EXCEPT
                   !.phase = "recovering",
                   !.listed = kept \ expired,
                   !.status = [t \in Tasks |-> IF t \in kept \ expired THEN disk.status[t] ELSE "none"],
                   !.start = disk.start, !.outbox = disk.outbox,
                   !.timer = [t \in Tasks |-> IF t \in ended \ expired THEN "blind" ELSE "none"],
                   !.calls = {Call("get", t) : t \in running},
                   !.dirty = expired # {}], kept # disk.listed)
  BY DEF Restart
<1> DEFINE s == [t \in Tasks |-> IF t \in kept \ expired THEN disk.status[t] ELSE "none"]
           m == [t \in Tasks |-> IF t \in ended \ expired THEN "blind" ELSE "none"]
           gets == {Call("get", t) : t \in running}
           M == [EmptyMemory EXCEPT !.phase = "recovering", !.listed = kept \ expired, !.status = s,
                   !.start = disk.start, !.outbox = disk.outbox, !.timer = m, !.calls = gets,
                   !.dirty = expired # {}]
<1>3. mem' = Rebuilt(M, kept # disk.listed)
  BY <1>2
<1>4. /\ s \in [Tasks -> Status]
      /\ \A t \in Tasks : s[t] # "pending" /\ (s[t] # "none" => t \in kept \ expired)
      /\ \A t \in Tasks : s[t] = "running" => t \notin ended
  BY <1>1 DEF Status, Terminal, Failures
<1>5. m \in [Tasks -> {"none", "armed", "blind"}] /\ \A t \in Tasks : t \notin ended => m[t] = "none"
  OBVIOUS
<1>6. kept \subseteq host.born /\ running \subseteq kept /\ host.born \subseteq Tasks
  BY <1>1 DEF HostTyped
<1>7. \A c \in gets : c.op = "get" /\ c.task \in running /\ CallTyped(c)
  BY <1>6, CallIs DEF CallTyped
<1> HIDE DEF s, m, gets
<1>8. /\ Same(EmptyMemory, M, {"phase", "listed", "status", "outbox", "timer", "calls"})
      /\ M.phase = "recovering" /\ M.listed = kept \ expired /\ M.status = s
      /\ M.outbox = disk.outbox /\ M.timer = m /\ M.calls = gets
  BY EmptyMemoryIs DEF Same, MemTyped, MemFields, Fields
<1> HIDE DEF M
<1>9. /\ M.sent = {} /\ M.pending = {} /\ M.watched = {} /\ M.debouncing = {}
      /\ M.inflight = [p \in Parents |-> 0] /\ M.queue = EmptyMemory.queue /\ DOMAIN M = MemFields
  BY <1>8, EmptyMemoryIs DEF Same, Fields
<1>10. M.listed \subseteq host.born
  BY <1>6, <1>8
<1>11. MemTyped(M)
  <2>1. EmptyMemory.queue \in [Parents -> Seq(Jobs)]
    BY EmptyMemoryIs DEF MemTyped
  <2>2. M.listed \subseteq Tasks /\ M.outbox \subseteq Tasks
    BY <1>1, <1>6, <1>8, <1>10
  <2> QED
    BY <1>4, <1>5, <1>7, <1>8, <1>9, <2>1, <2>2 DEF MemTyped
<1>12. Recoverable(M)
  <2>1. \A t \in Tasks : M.status[t] = "running" => t \in M.listed /\ M.timer[t] = "none"
    BY <1>4, <1>5, <1>8
  <2>2. \A t \in Tasks : Call("result", t) \notin M.calls
    BY <1>7, <1>8, CallIs
  <2> QED
    BY <1>4, <1>7, <1>8, <1>11, <2>1, <2>2 DEF Recoverable
<1>13. Known(M, host.born)
  <2>1. \A c \in M.calls : c.task \in host.born
    BY <1>6, <1>7, <1>8
  <2>2. \A t \in Tasks : M.status[t] # "none" => t \in host.born
    BY <1>4, <1>6, <1>8
  <2> QED
    BY <1>1, <1>8, <1>9, <1>10, <2>1, <2>2 DEF Known
<1>14. TypeInv' /\ CountInv' /\ mem'.sent = {} /\ mem'.phase # "down"
  BY <1>1, <1>3, <1>9, <1>12, <1>13, RebuiltKeeps
<1>15. mem.sent = {}
  BY <1>1, DownIs, EmptyMemoryIs DEF DownInv, Same, Fields
<1>16. ToldInv'
  BY <1>1, <1>14, <1>15 DEF ToldInv, ToldMatch
<1> QED
  BY <1>14, <1>16

-----------------------------------------------------------------------------
(* Every step.                                                             *)

LEMMA InitHolds ==
  ASSUME Init
  PROVE  Inv /\ DownInv
<1>1. /\ lim \in Limits /\ mem = EmptyMemory /\ disk.listed = {} /\ disk.outbox = {}
      /\ disk.status = [t \in Tasks |-> "none"]
      /\ host = [born |-> {}, session |-> [t \in Tasks |-> "none"], msgs |-> [t \in Tasks |-> <<>>],
                 signalled |-> {}, stalled |-> {}, told |-> [t \in Tasks |-> 0]]
      /\ used = [cancels |-> 0, refusals |-> 0, faults |-> 0, errors |-> 0,
                 stalls |-> 0, reopens |-> 0, crashes |-> 0]
  BY DEF Init
<1>2. /\ MemTyped(mem) /\ mem.listed = {} /\ mem.calls = {} /\ mem.sent = {} /\ mem.outbox = {}
      /\ mem.pending = {} /\ mem.watched = {} /\ mem.phase = "ready"
      /\ mem.status = [t \in Tasks |-> "none"] /\ mem.inflight = [p \in Parents |-> 0]
      /\ mem.timer = [t \in Tasks |-> "none"]
  BY <1>1, EmptyMemoryIs
<1>3. HostTyped(host) /\ host.born = {}
  BY <1>1 DEF HostTyped, HostFields
<1>4. UsedTyped
  BY <1>1, DispatchConstants DEF UsedTyped, UsedNames
<1>5. TypeInv
  BY <1>1, <1>2, <1>3, <1>4 DEF TypeInv, Known, Status
<1>6. Counted(mem)
  <2> SUFFICES ASSUME NEW p \in Parents
               PROVE  mem.inflight[p] = 0 /\ Cardinality(RunningOf(mem.status, p)) = 0
    BY DEF Counted
  <2>1. RunningOf(mem.status, p) = {}
    BY <1>2 DEF RunningOf, Children
  <2> QED
    BY <1>2, <2>1, FS_EmptySet
<1>7. CountInv
  BY <1>2, <1>6 DEF CountInv, CallInv, RecoverInv
<1>8. ToldInv
  <2>1. \A p \in Parents : ~ AllDone(p)
    BY <1>3 DEF AllDone, Kids
  <2> QED
    BY <1>1, <1>2, <2>1 DEF ToldInv, ToldMatch
<1> QED
  BY <1>2, <1>5, <1>7, <1>8 DEF Inv, DownInv

\* While the process is down, turns end in its sessions and nothing else happens to it.
LEMMA DownStill ==
  ASSUME mem = Down, NEW t \in Tasks, Act(t)
  PROVE  mem' = mem
<1>1. /\ mem.listed = {} /\ mem.calls = {} /\ mem.watched = {} /\ mem.debouncing = {}
      /\ mem.routed = {} /\ mem.outbox = {} /\ mem.phase = "down"
      /\ mem.inflight = [p \in Parents |-> 0] /\ mem.timer = [u \in Tasks |-> "none"]
  BY DownIs, EmptyMemoryIs DEF Same, Fields
<1>2. ~(Created(t) \/ CreateFailed(t) \/ PromptLands(t) \/ Prompted(t) \/ PromptFailed(t) \/ LaunchAborted(t))
  BY <1>1 DEF Created, CreateFailed, PromptLands, Prompted, PromptFailed, LaunchAborted
<1>3. ~(CancelAborted(t) \/ Reopened(t) \/ Reprompted(t) \/ RepromptFailed(t) \/ ApprovalAsked(t))
  BY <1>1 DEF CancelAborted, Reopened, Reprompted, RepromptFailed, ApprovalAsked
<1>4. ~(Materialized(t) \/ Verified(t) \/ IdleSeen(t) \/ SessionFound(t) \/ SessionLost(t))
  BY <1>1 DEF Materialized, Verified, IdleSeen, SessionFound, SessionLost
<1>5. ~(Launch(t) \/ Listen(t) \/ Cancel(t) \/ Reopen(t) \/ Resolve(t, "completed") \/ Resolve(t, "error"))
  BY <1>1 DEF Launch, Listen, Cancel, Reopen, Resolve, Ready
<1>6. ~(Evaluate(t) \/ DebounceElapsed(t) \/ SessionError(t) \/ Stall(t) \/ SweepOutbox(t))
  BY <1>1 DEF Evaluate, DebounceElapsed, SessionError, Stall, SweepOutbox
<1>7. ~(ChildrenStall(t) \/ CleanupDue(t))
  BY <1>1, ParentsHold DEF ChildrenStall, CleanupDue
<1>8. TurnEnds(t) => mem' = mem
  BY <1>1 DEF TurnEnds
<1> QED
  BY <1>2, <1>3, <1>4, <1>5, <1>6, <1>7, <1>8 DEF Act

LEMMA ActStep ==
  ASSUME Inv, NEW t \in Tasks, Act(t)
  PROVE  Inv' /\ (mem'.phase = mem.phase \/ mem'.phase # "down")
<1> USE DEF Kept
<1>0. TypeInv /\ CountInv /\ ToldInv
  BY DEF Inv
<1>1. ASSUME Orderly(t)
      PROVE  Kept
  BY <1>1, OrderlyKeeps DEF Orderly
<1>2. CASE Launch(t)
  BY <1>2, LaunchStep
<1>3. CASE Created(t)
  BY <1>3, CreatedStep
<1>4. CASE CreateFailed(t)
  BY <1>0, <1>1, <1>4, CreateFailedStep
<1>5. CASE PromptLands(t)
  BY <1>0, <1>1, <1>5, PromptLandsStep
<1>6. CASE Prompted(t)
  BY <1>0, <1>1, <1>6, PromptedStep
<1>7. CASE PromptFailed(t)
  BY <1>0, <1>1, <1>7, PromptFailedStep
<1>8. CASE LaunchAborted(t)
  BY <1>0, <1>1, <1>8, LaunchAbortedStep
<1>9. CASE Listen(t)
  BY <1>0, <1>1, <1>9, ListenStep
<1>10. CASE Cancel(t)
  BY <1>0, <1>1, <1>10, CancelStep
<1>11. CASE CancelAborted(t)
  BY <1>0, <1>1, <1>11, CancelAbortedStep
<1>12. CASE Resolve(t, "completed") \/ Resolve(t, "error")
  BY <1>0, <1>1, <1>12, ResolveStep
<1>13. CASE Reopen(t)
  BY <1>13, ReopenStep
<1>14. CASE Reopened(t)
  BY <1>14, ReopenedStep
<1>15. CASE Reprompted(t)
  BY <1>0, <1>1, <1>15, RepromptedStep
<1>16. CASE RepromptFailed(t)
  BY <1>0, <1>1, <1>16, RepromptFailedStep
<1>17. CASE Evaluate(t)
  BY <1>0, <1>1, <1>17, EvaluateStep
<1>18. CASE DebounceElapsed(t)
  BY <1>0, <1>1, <1>18, DebounceStep
<1>19. CASE ApprovalAsked(t)
  BY <1>0, <1>1, <1>19, ApprovalAskedStep
<1>20. CASE Materialized(t)
  BY <1>20, MaterializedStep
<1>21. CASE SessionError(t)
  BY <1>0, <1>1, <1>21, SessionErrorStep
<1>22. CASE Verified(t)
  BY <1>0, <1>1, <1>22, VerifiedStep
<1>23. CASE TurnEnds(t)
  BY <1>0, <1>23, TurnEndsStep, OrderlyKeeps
<1>24. CASE IdleSeen(t)
  BY <1>0, <1>1, <1>24, IdleSeenStep
<1>25. CASE Stall(t)
  BY <1>0, <1>1, <1>25, StallStep
<1>26. CASE ChildrenStall(t)
  BY <1>0, <1>26, ChildrenStallStep, OrderlyKeeps
<1>27. CASE SweepOutbox(t)
  BY <1>27, SweepOutboxStep
<1>28. CASE CleanupDue(t)
  BY <1>28, CleanupDueStep
<1>29. CASE SessionFound(t)
  BY <1>29, SessionFoundStep
<1>30. CASE SessionLost(t)
  BY <1>30, SessionLostStep
<1> QED
  BY <1>2, <1>3, <1>4, <1>5, <1>6, <1>7, <1>8, <1>9, <1>10, <1>11, <1>12, <1>13, <1>14, <1>15,
     <1>16, <1>17, <1>18, <1>19, <1>20, <1>21, <1>22, <1>23, <1>24, <1>25, <1>26, <1>27, <1>28,
     <1>29, <1>30 DEF Act

LEMMA NextKeeps ==
  ASSUME Inv, DownInv, [Next]_vars
  PROVE  Inv' /\ DownInv'
<1>1. CASE UNCHANGED vars
  <2>1. lim' = lim /\ mem' = mem /\ disk' = disk /\ host' = host /\ used' = used
    BY <1>1 DEF vars
  <2>2. TypeInv' /\ CountInv'
    BY <2>1 DEF Inv, TypeInv, CountInv, CallInv, RecoverInv, Counted, Known, UsedTyped
  <2>3. ToldInv'
    BY <2>1 DEF Inv, ToldInv, ToldMatch, AllDone, Kids, NewsOf
  <2> QED
    BY <2>1, <2>2, <2>3 DEF Inv, DownInv
<1>2. ASSUME NEW t \in Tasks, Act(t)
      PROVE  Inv' /\ DownInv'
  <2>1. Inv' /\ (mem'.phase = mem.phase \/ mem'.phase # "down")
    BY <1>2, ActStep
  <2>2. mem.phase = "down" => mem' = mem
    BY <1>2, DownStill DEF DownInv
  <2> QED
    BY <2>1, <2>2 DEF DownInv
<1>3. ASSUME NEW c \in mem.calls, Decide(c)
      PROVE  Inv' /\ DownInv'
  <2>1. c.task \in Tasks /\ Orderly(c.task)
    BY <1>3, DecideStep DEF Inv
  <2>2. Kept
    BY <2>1, OrderlyKeeps DEF Orderly
  <2>3. mem.phase # "down"
    BY <1>3, DownIs, EmptyMemoryIs DEF DownInv, Same, Fields
  <2> QED
    BY <2>2, <2>3 DEF Kept, DownInv
<1>4. ASSUME NEW p \in Parents, SendNotification(p)
      PROVE  Inv' /\ DownInv'
  <2>1. Kept
    BY <1>4, SendStep
  <2>2. mem.phase # "down"
    <3> SUFFICES ASSUME mem = Down
                 PROVE  FALSE
      BY DEF DownInv
    <3>1. mem.queue = [q \in Parents |-> <<>>]
      BY DownIs, EmptyMemoryIs DEF Same, Fields
    <3> QED
      BY <1>4, <3>1 DEF SendNotification
  <2> QED
    BY <2>1, <2>2 DEF Kept, DownInv
<1>5. CASE Persist
  <2>1. mem.phase # "down"
    BY <1>5, DownIs DEF DownInv, Persist
  <2> QED
    BY <1>5, <2>1, PersistStep DEF Kept, DownInv
<1>6. CASE Crash
  BY <1>6, CrashStep DEF DownInv
<1>7. CASE Restart
  BY <1>7, RestartStep DEF DownInv
<1> QED
  BY <1>1, <1>2, <1>3, <1>4, <1>5, <1>6, <1>7 DEF Next

-----------------------------------------------------------------------------
(* What the invariant says of the manager.                                 *)

LEMMA InvTypes ==
  ASSUME Inv
  PROVE  TypeOK
BY DEF Inv, TypeInv, MemTyped, Known, TypeOK

LEMMA InvCounts ==
  ASSUME Inv
  PROVE  InflightTrue
<1>1. \A p : Running(p) = RunningOf(mem.status, p)
  BY DEF Running, RunningOf
<1> QED
  BY <1>1 DEF Inv, CountInv, Counted, InflightTrue, Ready

LEMMA InvTold ==
  ASSUME Inv
  PROVE  ToldOnce
<1>1. ToldInv /\ ToldMatch
  BY DEF Inv, ToldInv
<1>2. \A t \in Tasks : host.told[t] <= 1
  BY <1>1 DEF ToldMatch
<1>3. ASSUME used.crashes = 0, NEW p \in Parents, Kids(p) # {},
             Kids(p) \cap (lim.suppressed \cup host.signalled) = {},
             \A t \in Kids(p) : mem.status[t] = "completed", Quiet(p)
      PROVE  \E t \in Kids(p) : host.told[t] = 1
  <2>1. PICK t \in Kids(p) : NewsOf(t)
    BY <1>1, <1>3 DEF ToldInv, AllDone
  <2>2. t \in Children(p) /\ t \in Tasks
    BY DEF Kids, Children
  <2>3. Call("result", t) \notin mem.calls /\ t \notin mem.outbox
    BY <1>3, <2>2, CallIs DEF Quiet
  <2>4. host.told[t] = 1
    BY <1>1, <2>1, <2>2, <2>3 DEF NewsOf, ToldMatch
  <2> QED
    BY <2>4
<1> QED
  BY <1>2, <1>3 DEF ToldOnce, Kids

\* The manager's maps hold launched tasks in statuses of the code's type and the counters of
\* task-launcher.ts and lifecycle-shared.ts stay natural numbers, through every interleaving
\* of handlers with the awaits of others, crashes and restarts included.
THEOREM TypeCorrect == Spec => []TypeOK
<1>1. Init => Inv /\ DownInv
  BY InitHolds
<1>2. Inv /\ DownInv /\ [Next]_vars => Inv' /\ DownInv'
  BY NextKeeps
<1>3. Inv => TypeOK
  BY InvTypes
<1> QED
  BY <1>1, <1>2, <1>3, PTL DEF Spec

\* inflightByParent never exceeds the number of a parent's tasks that run, although launch(),
\* cancel(), the continuation and recover() each change it apart from transition(), and it
\* is exact where no launch fails and no session errs.
THEOREM CountersAreTrue == Spec => []InflightTrue
<1>1. Init => Inv /\ DownInv
  BY InitHolds
<1>2. Inv /\ DownInv /\ [Next]_vars => Inv' /\ DownInv'
  BY NextKeeps
<1>3. Inv => InflightTrue
  BY InvCounts
<1> QED
  BY <1>1, <1>2, <1>3, PTL DEF Spec

\* notifyParent() and the outbox sweeper send at most one final notification of a task, and
\* when all tasks of a parent have completed and nothing about them is under way, one of
\* them has been sent, although prompts fail and siblings complete in any order.
THEOREM ParentsAreToldOnce == Spec => []ToldOnce
<1>1. Init => Inv /\ DownInv
  BY InitHolds
<1>2. Inv /\ DownInv /\ [Next]_vars => Inv' /\ DownInv'
  BY NextKeeps
<1>3. Inv => ToldOnce
  BY InvTold
<1> QED
  BY <1>1, <1>2, <1>3, PTL DEF Spec
=============================================================================
