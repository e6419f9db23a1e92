---------------------------- MODULE TeamRuntime ----------------------------
(***************************************************************************)
(* The team runtime (src/team/runtime.ts, store.ts) on its DSH host        *)
(* (platform/adapters/dsh/team-session.ts, team-session-lease.ts).         *)
(*                                                                         *)
(* A team is one durable record in SQLite; every change is one transaction *)
(* (TeamStore.update).  Several runtimes, one per host process, share the  *)
(* store.  Each runs a pump that reconciles finished turns and delivers    *)
(* pending events as prompts, and runs the lifecycle operations (remove,   *)
(* delete, resume) that members call from inside their own turns.  What    *)
(* one JavaScript stretch does without an await, in one transaction, is    *)
(* one action; another process may step between any two transactions.      *)
(*                                                                         *)
(* Kept of an event: who sent it, whom it may wake, whether it is a        *)
(* message.  Notices that never wake anyone and are never read back        *)
(* (team_created, member_joined, member_left, turn_completed,              *)
(* member_failed, team_resumed, team_deleted, task_claim) are left out of  *)
(* the stream: they only use up sequence numbers.  The baseline of message *)
(* ids a delivery records is left out too: its marker is younger than the  *)
(* baseline, so a final turn after the marker is never in it.  Every       *)
(* member keeps its assigned role (memberAuthorized holds).                *)
(***************************************************************************)
EXTENDS Integers, Sequences, FiniteSets

CONSTANTS Teams,        \* teams of one workspace
          Lead,         \* the member that is the creator of its team
          Peers,        \* the managed members a team may invite
          Runtimes,     \* process incarnations; a crashed one never returns
          Ops,          \* lifecycle operations (remove, delete, resume) in one run
          Tasks,        \* tasks a team may offer
          NoOne,        \* no member, no runtime, no operation
          Everyone,     \* an event without a recipient
          Forgotten,    \* the home of a session whose record was removed
          MaxDeliveries,\* bound on delivery ids
          Limits        \* scenarios: the bounds on what the environment does

ASSUME TeamConstants ==
    /\ MaxDeliveries \in Nat
    /\ IsFiniteSet(Peers) /\ IsFiniteSet(Tasks)
    /\ Lead \notin Peers /\ NoOne \notin Peers \cup {Lead}
    /\ NoOne \notin Runtimes /\ Forgotten \notin Runtimes \cup {NoOne}
    /\ NoOne \notin Ops
    /\ Everyone \notin Peers \cup {Lead}
    /\ Limits \subseteq [teams : SUBSET Teams, peers : SUBSET Peers, runtimes : SUBSET Runtimes,
                         tasks : SUBSET Tasks,
                         messages : SUBSET ((Peers \cup {Lead, Everyone}) \X BOOLEAN), maxTurns : Nat \ {0}, sends : Nat, users : Nat,
                         ops : SUBSET Ops, kinds : SUBSET {"remove", "delete", "resume"},
                         downs : Nat, lost : Nat, errors : Nat]

VARIABLES
    lim,      \* the scenario of this run
    db,       \* the team records
    lease,    \* scheduler.sqlite: the delivery that holds a session, 0 for none
    home,     \* where a session's agent lives: a runtime, NoOne, or Forgotten
    log,      \* the turns of a session, in order
    up,       \* what each runtime is doing: "new", "up", "stopping", "down"
    pump,     \* each runtime's pump
    op,       \* each lifecycle operation
    late,     \* prompts whose caller gave up waiting, still on their way
    nextD,    \* the next delivery id
    used      \* how much of each bound the environment has used

vars == <<lim, db, lease, home, log, up, pump, op, late, nextD, used>>

Members == Peers \cup {Lead}
Sessions == 0 .. MaxDeliveries     \* the user's session is 0; delivery d creates session d
UserSession == 0
NoSession == -1

NoDelivery == [id |-> 0, through |-> 0, since |-> 0, owner |-> NoOne, prompted |-> FALSE]
Managed(m) == m # Lead
Alive(r) == r \in Runtimes /\ up[r] \in {"up", "stopping"}

\* A delivery is abandoned when the runtime that reserved it is gone.
Abandoned(d) == ~Alive(d.owner)

Deliveries(S) == {m \in Members : S.del[m].id # 0}
ActiveMembers(S) == {m \in Members : S.member[m] = "active"}

\* Whether some outstanding delivery, of any team, has this id.
Outstanding(d) == \E t \in Teams, m \in Members : db[t].del[m].id = d /\ d # 0

Update(t, S) == db' = [db EXCEPT ![t] = S]

-----------------------------------------------------------------------------
(* The host: sessions and their turns *)

Busy(s) == \E i \in 1 .. Len(log[s]) : log[s][i].st \in {"queued", "running"}
RunningIn(s) == \E i \in 1 .. Len(log[s]) : log[s][i].st = "running"

\* The transcript: what has started.  A queued prompt is not in it yet.
Started(s) == {i \in 1 .. Len(log[s]) : log[s][i].st # "queued"}
LastStarted(s) == IF Started(s) = {} THEN 0 ELSE CHOOSE i \in Started(s) : \A j \in Started(s) : j <= i

\* The turn whose end is the last record of the transcript, 0 when there is none.
FinalTurn(s) == LET i == LastStarted(s) IN
    IF i > 0 /\ log[s][i].st \in {"ok", "failed"} THEN i ELSE 0

OwnedElsewhere(r, s) == home[s] # r /\ Alive(home[s])

\* observeActivity, as runtime r sees it.
Activity(r, s) ==
    IF s = UserSession
    THEN IF home[s] # r THEN "unknown" ELSE IF Busy(s) THEN "running" ELSE "idle"
    ELSE CASE home[s] = Forgotten -> "unknown"
           [] OwnedElsewhere(r, s) -> "running"
           [] home[s] = r -> IF Busy(s) THEN "running" ELSE "idle"
           [] OTHER -> IF LastStarted(s) > 0 /\ log[s][LastStarted(s)].st = "lost"
                       THEN "interrupted" ELSE "idle"

\* live(): the session's agent is, or can be made, resident in r.
Reachable(r, s) == IF s = UserSession THEN home[s] = r
                   ELSE home[s] # Forgotten /\ ~OwnedElsewhere(r, s)

\* removePendingTeamDeliveries: team prompts still in the inbox are dropped.
\* SelectSeq written out, as the provers know nothing of it: the k-th turn that stays.
Staying(turns) == {i \in 1 .. Len(turns) : ~(turns[i].st = "queued" /\ turns[i].d # 0)}
Rank(K, i) == Cardinality({j \in K : j <= i})
DropQueued(turns) == LET K == Staying(turns) IN
    [k \in 1 .. Cardinality(K) |-> turns[CHOOSE i \in K : Rank(K, i) = k]]

\* Making a peer resident loads it from its record and clears its inbox.
Loaded(r, s) == IF s = UserSession \/ home[s] = r THEN log[s] ELSE DropQueued(log[s])

Cancelled(turns) == [i \in 1 .. Len(turns) |->
                        IF turns[i].st = "running" THEN [turns[i] EXCEPT !.st = "failed"] ELSE turns[i]]

\* abort(s) from runtime r.  The user's session, a forgotten session and one owned by
\* another live host are refused; otherwise the inbox is cleared and the turn cancelled,
\* and the host confirms once the agent is idle, or does not confirm in time.
Abort(r, s, confirmed) ==
    IF s # UserSession /\ Reachable(r, s)
    THEN LET turns == DropQueued(log[s]) IN
         /\ home' = [home EXCEPT ![s] = r]
         /\ \/ /\ confirmed
               /\ \A i \in 1 .. Len(turns) : turns[i].st # "queued"
               /\ log' = [log EXCEPT ![s] = Cancelled(turns)]
            \/ ~confirmed /\ log' = [log EXCEPT ![s] = turns]
    ELSE ~confirmed /\ UNCHANGED <<home, log>>

\* forget(s) from runtime r: a peer's record is removed and its agent disposed, unless
\* another live host owns it.
Forget(r, S) ==
    LET gone == {s \in S \ {NoSession, UserSession} : Reachable(r, s)} IN
    /\ home' = [s \in Sessions |-> IF s \in gone THEN Forgotten ELSE home[s]]
    /\ log' = [s \in Sessions |-> IF s \in gone THEN Cancelled(DropQueued(log[s])) ELSE log[s]]

-----------------------------------------------------------------------------
(* TeamState functions: the bodies of the store's transactions *)

OfferedTask == [st |-> "offered", owner |-> NoOne, fresh |-> FALSE]

NewTeam == [status |-> "none", control |-> NoOne, turns |-> 0, spent |-> 0,
            events |-> <<>>,
            task |-> [k \in Tasks |-> [st |-> "none", owner |-> NoOne, fresh |-> FALSE]],
            member |-> [m \in Members |-> "absent"],
            session |-> [m \in Members |-> NoSession],
            cursor |-> [m \in Members |-> 0],
            del |-> [m \in Members |-> NoDelivery],
            error |-> [m \in Members |-> "none"],
            lastTurn |-> [m \in Members |-> 0]]

Event(kind, from, to, wake) == [kind |-> kind, from |-> from, to |-> to, wake |-> wake]
Append1(S, e) == [S EXCEPT !.events = Append(@, e)]

\* Claimed tasks go back on offer, each with an event that wakes the others.
Reoffer(S, K, from) ==
    [S EXCEPT !.task = [k \in Tasks |-> IF k \in K THEN OfferedTask ELSE S.task[k]],
              !.events = @ \o [i \in 1 .. Cardinality(K) |-> Event("release", from, Everyone, TRUE)]]

Less(n) == IF n > 0 THEN n - 1 ELSE n

\* mutant: a failure is refunded although its delivery is kept
FailRefunding(S, m, reason, clear) ==
    IF S.status = "deleted" \/ S.member[m] # "active" THEN S
    ELSE [S EXCEPT !.error[m] = reason, !.turns = IF S.del[m].id # 0 THEN Less(@) ELSE @,
                   !.del[m] = IF clear THEN NoDelivery ELSE @, !.status = "paused"]

\* fail(): record why a member stopped and pause the team; the delivery is dropped and
\* refunded when asked to, or when there is no session it could be running in.
FailDrops(S, m, clear) == S.del[m].id # 0 /\ (clear \/ S.session[m] = NoSession)
Fail(S, m, reason, clear) ==
    IF \/ S.status = "deleted" \/ S.member[m] # "active"
       \/ S.error[m] = reason /\ ~(clear /\ S.del[m].id # 0)
    THEN S
    ELSE LET drop == FailDrops(S, m, clear) IN
         [S EXCEPT !.error[m] = reason,
                   !.del[m] = IF drop THEN NoDelivery ELSE @,
                   !.turns = IF drop THEN Less(@) ELSE @,
                   !.status = "paused"]

Pending(S, m) == \E k \in S.cursor[m] + 1 .. Len(S.events) :
    /\ S.events[k].wake /\ S.events[k].from # m
    /\ S.events[k].to \in {Everyone, m}

\* Whether m published a message since its delivery was reserved.
Published(S, m, since) == \E k \in since + 1 .. Len(S.events) :
    S.events[k].kind = "message" /\ S.events[k].from = m

\* mutant: a finished turn acknowledges everything published by then
RecordTurnToEnd(S, v, i, outcome) ==
    IF S.status = "deleted" \/ S.member[v.m] # "active" \/ S.del[v.m].id # v.d THEN S
    ELSE [S EXCEPT !.lastTurn[v.m] = i, !.cursor[v.m] = Len(S.events), !.del[v.m] = NoDelivery,
                   !.spent = IF v.d # 0 THEN @ + 1 ELSE @]

\* reconcile()'s transaction: turn i of the session, which ended with outcome, is recorded
\* for the member that was looked at (v) unless the record has moved on.
RecordTurn(S, v, i, outcome) ==
    LET m == v.m
        silent == Managed(m) /\ S.del[m].id # 0 /\ ~Published(S, m, S.del[m].since)
    IN
    IF S.status = "deleted" \/ S.member[m] # "active" \/ S.lastTurn[m] = i \/ S.del[m].id # v.d
    THEN S
    ELSE IF outcome = "ok"
    THEN LET T == [S EXCEPT !.lastTurn[m] = i,
                            !.cursor[m] = IF v.d # 0 THEN S.del[m].through ELSE @,
                            !.del[m] = NoDelivery,
                            !.spent = IF v.d # 0 THEN @ + 1 ELSE @,
                            !.error[m] = "none"]
         IN IF silent THEN Append1(T, Event("notice", m, Lead, TRUE)) ELSE T
    ELSE [S EXCEPT !.lastTurn[m] = i,
                   !.turns = IF v.d # 0 THEN Less(@) ELSE @,
                   !.del[m] = NoDelivery,
                   !.error[m] = "turn",
                   !.status = "paused"]

-----------------------------------------------------------------------------
(* Processes *)

NoView == [t |-> NoOne, m |-> NoOne, d |-> 0, s |-> NoSession, last |-> 0,
           error |-> "none", interrupted |-> FALSE]
IdlePump == [pc |-> "idle", v |-> NoView, d |-> 0, s |-> NoSession, cursor |-> 0, through |-> 0]
NothingSeen == [del |-> [m \in Members |-> NoDelivery], error |-> [m \in Members |-> "none"]]
NewOp == [pc |-> "new", kind |-> "none", r |-> NoOne, t |-> NoOne, by |-> NoOne, m |-> NoOne,
          todo |-> {}, v |-> NoView, keep |-> {}, seen |-> NothingSeen]

\* The members a runtime is removing right now (the removing set).
Removing(r, t, m) == \E o \in Ops :
    /\ op[o].kind = "remove" /\ op[o].r = r /\ op[o].t = t /\ op[o].m = m
    /\ op[o].pc \in {"read", "abort", "forget", "end"}

FailIn(r, t, S, m, reason, clear) == IF Removing(r, t, m) THEN S ELSE Fail(S, m, reason, clear)

\* mutant: only the host's word counts, not that the owner of the delivery is gone
ViewTrusting(r, t, m) ==
    LET S == db[t] IN
    [t |-> t, m |-> m, d |-> S.del[m].id, s |-> S.session[m], last |-> S.lastTurn[m],
     error |-> S.error[m], interrupted |-> Activity(r, S.session[m]) = "interrupted"]

\* reconcile() up to its first await: the member as it is now and the host's activity.
View(r, t, m) ==
    LET S == db[t] IN
    [t |-> t, m |-> m, d |-> S.del[m].id, s |-> S.session[m], last |-> S.lastTurn[m],
     error |-> S.error[m],
     interrupted |-> \/ Activity(r, S.session[m]) = "interrupted"
                     \/ S.del[m].id # 0 /\ Abandoned(S.del[m])]

\* Members reconcile() does not return early for.
Reconciled(r, t, m) ==
    /\ ~Removing(r, t, m)
    /\ Managed(m) \/ db[t].del[m].id # 0
CanObserve(r, t, m) ==
    /\ Reconciled(r, t, m) /\ db[t].session[m] # NoSession
    /\ Activity(r, db[t].session[m]) # "running"
    /\ Activity(r, db[t].session[m]) = "idle" \/ View(r, t, m).interrupted

\* A member that was never bound and whose delivery is abandoned is failed at once.
Unbindable(r, t, m) ==
    /\ Reconciled(r, t, m) /\ db[t].session[m] = NoSession
    /\ db[t].del[m].id # 0 /\ Abandoned(db[t].del[m])

\* reconcile() after the transcript is read: what its transaction makes of the record.
\* The final turn counts for a delivery when it ended after the delivery's marker.
Judge(r, v) ==
    LET S == db[v.t]
        i == FinalTurn(v.s)
        delivered == v.d = 0 \/ \E j \in Started(v.s) : log[v.s][j].d = v.d /\ j <= i
    IN IF i # 0 /\ delivered /\ i # v.last THEN RecordTurn(S, v, i, log[v.s][i].st)
       ELSE IF v.interrupted /\ v.error = "none" THEN FailIn(r, v.t, S, v.m, "interrupted", FALSE)
       ELSE S

\* releaseSession(s, d)
Release(s, d) == lease' = [lease EXCEPT ![s] = IF @ = d THEN 0 ELSE @]

\* After the transaction reconcile() reads the record again and lets go of the lease.
ReleaseSeen(v) == IF v.d # 0 /\ db[v.t].del[v.m].id = 0 THEN Release(v.s, v.d) ELSE UNCHANGED lease

host == <<home, log>>
bounds == <<lim, used>>
Uses(b) == used[b] < lim[b] /\ used' = [used EXCEPT ![b] = @ + 1]

-----------------------------------------------------------------------------
(* The pump.  A visit that changes nothing is no step. *)

SetPump(r, p) == pump' = [pump EXCEPT ![r] = p]

Pumping(r) == up[r] = "up" /\ pump[r].pc = "idle"

\* reconcile() of an unbound member.
PumpUnbindable(r, t, m) ==
    /\ Pumping(r) /\ m \in ActiveMembers(db[t]) /\ Unbindable(r, t, m)
    /\ Fail(db[t], m, "binding", TRUE) # db[t]
    /\ Update(t, Fail(db[t], m, "binding", TRUE))
    /\ UNCHANGED <<bounds, lease, host, up, pump, op, late, nextD>>

PumpObserve(r, t, m) ==
    /\ Pumping(r) /\ db[t].status \notin {"none", "deleted"} /\ m \in ActiveMembers(db[t])
    /\ CanObserve(r, t, m)
    /\ Judge(r, View(r, t, m)) # db[t]
    /\ SetPump(r, [IdlePump EXCEPT !.pc = "judge", !.v = View(r, t, m)])
    /\ UNCHANGED <<bounds, db, lease, host, up, op, late, nextD>>

PumpJudge(r) ==
    /\ pump[r].pc = "judge"
    /\ Update(pump[r].v.t, Judge(r, pump[r].v))
    /\ SetPump(r, [pump[r] EXCEPT !.pc = "release"])
    /\ UNCHANGED <<bounds, lease, host, up, op, late, nextD>>

PumpRelease(r) ==
    /\ pump[r].pc = "release"
    /\ ReleaseSeen(pump[r].v)
    /\ SetPump(r, IdlePump)
    /\ UNCHANGED <<bounds, db, host, up, op, late, nextD>>

\* deliver() up to its transaction: the record is read, the session must be idle.
PumpLook(r, t, m) ==
    LET S == db[t] IN
    /\ Pumping(r) /\ S.status = "active" /\ S.member[m] = "active"
    /\ ~(CanObserve(r, t, m) /\ Judge(r, View(r, t, m)) # S)
    /\ S.del[m].id = 0 /\ S.error[m] = "none" /\ Pending(S, m)
    /\ S.session[m] # NoSession => Activity(r, S.session[m]) = "idle"
    /\ SetPump(r, [pc |-> "reserve", v |-> [NoView EXCEPT !.t = t, !.m = m], d |-> 0,
                   s |-> S.session[m], cursor |-> S.cursor[m], through |-> Len(S.events)])
    /\ UNCHANGED <<bounds, db, lease, host, up, op, late, nextD>>

\* The reservation, committed before any prompt: at most two deliveries of a team at once,
\* and one turn of its budget each.  A spent budget pauses the team once nothing is left in
\* flight.
PumpReserve(r) ==
    LET t == pump[r].v.t
        m == pump[r].v.m
        S == db[t]
        stale == S.status # "active" \/ S.member[m] # "active" \/ S.del[m].id # 0
                   \/ S.cursor[m] # pump[r].cursor
    IN
    /\ pump[r].pc = "reserve"
    /\ \/ /\ stale \/ Cardinality(Deliveries(S)) >= 2
          /\ UNCHANGED <<db, nextD>> /\ SetPump(r, IdlePump)
       \/ /\ ~stale /\ Cardinality(Deliveries(S)) < 2 /\ S.turns >= lim.maxTurns
          /\ Update(t, IF Deliveries(S) = {}
                       THEN [S EXCEPT !.status = "paused", !.error[m] = "budget"] ELSE S)
          /\ UNCHANGED nextD /\ SetPump(r, IdlePump)
       \/ /\ ~stale /\ Cardinality(Deliveries(S)) < 2 /\ S.turns < lim.maxTurns
          /\ nextD <= MaxDeliveries /\ nextD' = nextD + 1
          /\ Update(t, [S EXCEPT !.turns = @ + 1,
                                 !.del[m] = [id |-> nextD, through |-> pump[r].through,
                                             since |-> Len(S.events), owner |-> r,
                                             prompted |-> FALSE]])
          /\ SetPump(r, [pump[r] EXCEPT !.d = nextD,
                                        !.pc = IF pump[r].s = NoSession THEN "create" ELSE "check"])
    /\ UNCHANGED <<bounds, lease, host, up, op, late>>

\* A thrown step of deliver() ends the visit with fail(), which keeps the delivery if the
\* member has a session.
PumpThrow(r) ==
    /\ Update(pump[r].v.t, FailIn(r, pump[r].v.t, db[pump[r].v.t], pump[r].v.m, "thrown", FALSE))
    /\ SetPump(r, IdlePump)

\* A new peer session, bound to the member if the delivery is still its own.
PumpCreate(r) ==
    LET t == pump[r].v.t
        m == pump[r].v.m
        d == pump[r].d
    IN
    /\ pump[r].pc = "create"
    /\ home' = [home EXCEPT ![d] = r]
    /\ Update(t, IF db[t].del[m].id = d THEN [db[t] EXCEPT !.session[m] = d] ELSE db[t])
    /\ SetPump(r, [pump[r] EXCEPT !.s = d, !.pc = "check"])
    /\ UNCHANGED <<bounds, lease, log, up, op, late, nextD>>

PumpCreateFails(r) ==
    /\ pump[r].pc = "create" /\ Uses("lost")
    /\ PumpThrow(r)
    /\ UNCHANGED <<lim, lease, host, up, op, late, nextD>>

PumpCheck(r) ==
    LET S == db[pump[r].v.t]
        m == pump[r].v.m
    IN
    /\ pump[r].pc = "check"
    /\ IF up[r] # "up" \/ S.status # "active" \/ S.member[m] # "active" \/ S.del[m].id # pump[r].d
       THEN SetPump(r, IdlePump)
       ELSE SetPump(r, [pump[r] EXCEPT !.pc = "acquire"])
    /\ UNCHANGED <<bounds, db, lease, host, up, op, late, nextD>>

\* mutant: whoever comes takes the lease
HeldNever(s, d) == FALSE

\* acquireSession(s, d): refused while another outstanding delivery holds the session.
Held(s, d) == lease[s] \notin {0, d} /\ Outstanding(lease[s])

PumpAcquire(r) ==
    LET t == pump[r].v.t
        m == pump[r].v.m
        d == pump[r].d
        s == pump[r].s
    IN
    /\ pump[r].pc = "acquire"
    /\ IF Held(s, d)
       THEN /\ Update(t, IF db[t].del[m].id = d
                         THEN [db[t] EXCEPT !.del[m] = NoDelivery, !.turns = @ - 1] ELSE db[t])
            /\ SetPump(r, IdlePump) /\ UNCHANGED lease
       ELSE /\ lease' = [lease EXCEPT ![s] = d]
            /\ SetPump(r, [pump[r] EXCEPT !.pc = "prompt"]) /\ UNCHANGED db
    /\ UNCHANGED <<bounds, host, up, op, late, nextD>>

Turn(r, t, m, d, cursor, through) ==
    [d |-> d, t |-> t, m |-> m, from |-> cursor, through |-> through, st |-> "queued"]

\* prompt(): the session is made resident and the prompt joins its inbox.
PumpPrompt(r) ==
    LET p == pump[r] IN
    /\ p.pc = "prompt" /\ Reachable(r, p.s)
    /\ home' = [home EXCEPT ![p.s] = r]
    /\ log' = [log EXCEPT ![p.s] = Append(Loaded(r, p.s), Turn(r, p.v.t, p.v.m, p.d, p.cursor, p.through))]
    /\ SetPump(r, [p EXCEPT !.pc = "reply"])
    /\ UNCHANGED <<bounds, db, lease, up, op, late, nextD>>

\* prompt() refuses, throws, or is given up on after 30 seconds, with the call still under way.
PumpPromptFails(r, still) ==
    /\ pump[r].pc = "prompt"
    /\ ~Reachable(r, pump[r].s) => ~still
    /\ IF Reachable(r, pump[r].s) THEN Uses("lost") ELSE UNCHANGED used
    /\ late' = IF still THEN late \cup {[r |-> r, p |-> pump[r]]} ELSE late
    /\ PumpThrow(r)
    /\ UNCHANGED <<lim, lease, host, up, op, nextD>>

\* A call its caller gave up on reaches the host after all, or is refused there.
LatePrompt(l) ==
    /\ l \in late /\ late' = late \ {l}
    /\ IF Reachable(l.r, l.p.s)
       THEN /\ home' = [home EXCEPT ![l.p.s] = l.r]
            /\ log' = [log EXCEPT ![l.p.s] = Append(Loaded(l.r, l.p.s),
                           Turn(l.r, l.p.v.t, l.p.v.m, l.p.d, l.p.cursor, l.p.through))]
       ELSE UNCHANGED host
    /\ UNCHANGED <<bounds, db, lease, up, pump, op, nextD>>

\* The host confirmed the prompt.
PumpReply(r) ==
    LET t == pump[r].v.t
        m == pump[r].v.m
    IN
    /\ pump[r].pc = "reply"
    /\ Update(t, IF db[t].del[m].id = pump[r].d THEN [db[t] EXCEPT !.del[m].prompted = TRUE] ELSE db[t])
    /\ SetPump(r, [pump[r] EXCEPT !.pc = "after"])
    /\ UNCHANGED <<bounds, lease, host, up, op, late, nextD>>

\* The confirmation is lost although the prompt is in the inbox.
PumpReplyLost(r) ==
    /\ pump[r].pc = "reply" /\ Uses("lost")
    /\ PumpThrow(r)
    /\ UNCHANGED <<lim, lease, host, up, op, late, nextD>>

\* A removal, a deletion or a pause that raced the prompt is made up for by cancelling the
\* turn; what becomes of the cancellation is not looked at.
Raced(S, m, d) == /\ Managed(m) /\ S.del[m].id \in {0, d}
                  /\ S.status # "active" \/ S.member[m] # "active"
PumpAfter(r) ==
    /\ pump[r].pc = "after"
    /\ IF Raced(db[pump[r].v.t], pump[r].v.m, pump[r].d)
       THEN \E confirmed \in BOOLEAN : Abort(r, pump[r].s, confirmed)
       ELSE UNCHANGED host
    /\ SetPump(r, IdlePump)
    /\ UNCHANGED <<bounds, db, lease, up, op, late, nextD>>

\* mutant: a lapsed claim is taken from a member at work
ExpiredAnyway(S) == {k \in Tasks : S.task[k].st = "claimed" /\ ~S.task[k].fresh}

\* Claims whose lease ran out are offered again, unless their owner is in a delivery.
Expired(S) == {k \in Tasks : S.task[k].st = "claimed" /\ ~S.task[k].fresh
                              /\ S.del[S.task[k].owner].id = 0}
PumpExpire(r, t) ==
    /\ Pumping(r) /\ db[t].status = "active" /\ Expired(db[t]) # {}
    /\ Update(t, Reoffer(db[t], Expired(db[t]), NoOne))
    /\ UNCHANGED <<bounds, lease, host, up, pump, op, late, nextD>>

\* mutant: the pump looks after removed members only
LeaversRemoved(S) == {m \in Peers : S.member[m] = "removed"}

\* The records of members that left, or of a deleted team, are removed from the host.
Leavers(S) == {m \in Peers : S.member[m] = "removed" \/ S.status = "deleted"}
PumpForget(r, t) ==
    /\ Pumping(r)
    /\ Forget(r, {db[t].session[m] : m \in Leavers(db[t])})
    /\ host' # host
    /\ UNCHANGED <<bounds, db, lease, up, pump, op, late, nextD>>

-----------------------------------------------------------------------------
(* What members do from inside their turns *)

\* memberOf: the caller is an active member whose session has a turn running, on a
\* runtime that still takes calls.
Acting(t, m) == LET s == db[t].session[m] IN
    /\ db[t].member[m] = "active" /\ s # NoSession
    /\ RunningIn(s) /\ home[s] \in Runtimes /\ up[home[s]] = "up"
Desk(t, m) == home[db[t].session[m]]

\* create(): the user's session is never a managed member's, so it may create again.
Create(t) ==
    /\ t \in lim.teams /\ db[t].status = "none"
    /\ RunningIn(UserSession) /\ home[UserSession] \in Runtimes /\ up[home[UserSession]] = "up"
    /\ Update(t, [NewTeam EXCEPT !.status = "active", !.member[Lead] = "active",
                                 !.session[Lead] = UserSession])
    /\ UNCHANGED <<bounds, lease, host, up, pump, op, late, nextD>>

\* add(): membership is recorded only; the member has no session and wakes no one.
Add(t, m) ==
    /\ m \in lim.peers /\ db[t].status = "active" /\ Acting(t, Lead)
    /\ db[t].member[m] = "absent"
    /\ Update(t, [db[t] EXCEPT !.member[m] = "active"])
    /\ UNCHANGED <<bounds, lease, host, up, pump, op, late, nextD>>

Sends(t, m, to) ==
    /\ db[t].status = "active" /\ Acting(t, m)
    /\ to # m /\ (to # Everyone => db[t].member[to] = "active")
    /\ Uses("sends")

SendMessage(t, m, to, wake) ==
    /\ Sends(t, m, to) /\ <<to, wake>> \in lim.messages
    /\ Update(t, Append1(db[t], Event("message", m, to, wake)))
    /\ UNCHANGED <<lim, lease, host, up, pump, op, late, nextD>>

OfferTask(t, m, k) ==
    /\ Sends(t, m, Everyone) /\ k \in lim.tasks /\ db[t].task[k].st = "none"
    /\ Update(t, Append1([db[t] EXCEPT !.task[k] = OfferedTask], Event("offer", m, Everyone, TRUE)))
    /\ UNCHANGED <<lim, lease, host, up, pump, op, late, nextD>>

\* A claim is refused while another owner's lease is fresh or its owner is in a delivery.
Claimable(S, m, k) ==
    /\ S.task[k].st \in {"offered", "claimed"}
    /\ S.task[k].owner \notin {NoOne, m} => ~S.task[k].fresh /\ S.del[S.task[k].owner].id = 0
ClaimTask(t, m, k) ==
    /\ Sends(t, m, Everyone) /\ Claimable(db[t], m, k)
    /\ Update(t, [db[t] EXCEPT !.task[k] = [st |-> "claimed", owner |-> m, fresh |-> TRUE]])
    /\ UNCHANGED <<lim, lease, host, up, pump, op, late, nextD>>

SettleTask(t, m, k, done) ==
    /\ Sends(t, m, Everyone) /\ db[t].task[k].st = "claimed" /\ db[t].task[k].owner = m
    /\ Update(t, Append1([db[t] EXCEPT !.task[k] = IF done THEN [@ EXCEPT !.st = "completed", !.fresh = FALSE]
                                                   ELSE OfferedTask],
                         Event("settle", m, Everyone, TRUE)))
    /\ UNCHANGED <<lim, lease, host, up, pump, op, late, nextD>>

\* Half an hour passes on a claim.
ClaimLapses(t, k) ==
    /\ db[t].task[k].fresh
    /\ Update(t, [db[t] EXCEPT !.task[k].fresh = FALSE])
    /\ UNCHANGED <<bounds, lease, host, up, pump, op, late, nextD>>

-----------------------------------------------------------------------------
(* Lifecycle operations *)

SetOp(o, q) == op' = [op EXCEPT ![o] = q]

\* mutant: the lock is not looked at
ControlIgnored(S) == TRUE

\* The lock is free, or its owner is gone.
ControlFree(S) == S.control # NoOne => ~Alive(op[S.control].r)

\* beginControl(): the team is paused and the lock taken in one transaction.
Begin(o, kind, t, by, m, pc) ==
    /\ op[o].pc = "new" /\ o \in lim.ops /\ kind \in lim.kinds
    /\ Acting(t, by) /\ db[t].status \notin {"none", "deleted"} /\ ControlFree(db[t])
    /\ Update(t, [db[t] EXCEPT !.status = "paused", !.control = o])
    /\ SetOp(o, [NewOp EXCEPT !.pc = pc, !.kind = kind, !.r = Desk(t, by), !.t = t, !.by = by, !.m = m])
    /\ UNCHANGED <<bounds, lease, host, up, pump, late, nextD>>

BeginRemove(o, t, m) == m \in Peers /\ db[t].member[m] = "active" /\ Begin(o, "remove", t, Lead, m, "read")
BeginDelete(o, t) == Begin(o, "delete", t, Lead, NoOne, "read")
BeginResume(o, t, by) == db[t].status = "paused" /\ Begin(o, "resume", t, by, NoOne, "read")

\* An operation proceeds while its runtime lives, and not while the pump of its process is
\* between two steps of one synchronous stretch.
AwaitsHost(r) == pump[r].pc \notin {"release", "check", "acquire", "after"}
At(o, pc) == op[o].pc = pc /\ Alive(op[o].r) /\ AwaitsHost(op[o].r)
Goto(o, pc) == SetOp(o, [op[o] EXCEPT !.pc = pc])
GotoWith(o, pc, todo) == SetOp(o, [op[o] EXCEPT !.pc = pc, !.todo = todo])

InFlight(S) == {m \in Peers : S.del[m].id # 0 /\ S.session[m] # NoSession}
Bound(S) == {m \in Peers : S.member[m] = "active" /\ S.session[m] # NoSession}

\* What each operation reads of the record before it awaits the host.
OpRead(o) ==
    LET S == db[op[o].t] IN
    /\ At(o, "read")
    /\ CASE op[o].kind = "remove" -> GotoWith(o, "abort", InFlight(S) \cap {op[o].m})
         [] op[o].kind = "delete" -> GotoWith(o, "abort", InFlight(S))
         [] op[o].kind = "resume" -> GotoWith(o, "prepare", Bound(S))
    /\ UNCHANGED <<bounds, db, lease, host, up, pump, late, nextD>>

\* remove() and delete() cancel each turn in flight; one the host does not confirm ends
\* the operation and leaves the team paused.
OpAbort(o, m) ==
    /\ At(o, "abort") /\ m \in op[o].todo
    /\ \E confirmed \in BOOLEAN :
        /\ Abort(op[o].r, db[op[o].t].session[m], confirmed)
        /\ IF confirmed THEN GotoWith(o, "abort", op[o].todo \ {m}) ELSE Goto(o, "end")
    /\ UNCHANGED <<bounds, db, lease, up, pump, late, nextD>>

\* The claims of a member that leaves.
Claims(S, m) == {k \in Tasks : S.task[k].st = "claimed" /\ S.task[k].owner = m}

\* mutant: who leaves keeps its claims
RemoveKeeping(S, m) ==
    [S EXCEPT !.member[m] = "removed", !.del[m] = NoDelivery,
              !.spent = IF S.del[m].id # 0 THEN @ + 1 ELSE @]

Remove(S, m) ==
    IF S.status = "deleted" THEN S
    ELSE Reoffer([S EXCEPT !.member[m] = "removed", !.del[m] = NoDelivery,
                           !.spent = IF S.del[m].id # 0 THEN @ + 1 ELSE @],
                 Claims(S, m), m)
Delete(S) ==
    IF S.status = "deleted" THEN S
    ELSE [S EXCEPT !.status = "deleted", !.spent = @ + Cardinality(Deliveries(S)),
                   !.del = [m \in Members |-> NoDelivery]]

OpCommit(o) ==
    LET S == db[op[o].t] IN
    /\ At(o, "abort") /\ op[o].todo = {}
    /\ Update(op[o].t, IF op[o].kind = "remove" THEN Remove(S, op[o].m) ELSE Delete(S))
    /\ Goto(o, "forget")
    /\ UNCHANGED <<bounds, lease, host, up, pump, late, nextD>>

OpForget(o) ==
    LET S == db[op[o].t] IN
    /\ At(o, "forget")
    /\ Forget(op[o].r, {S.session[m] : m \in IF op[o].kind = "remove" THEN {op[o].m} ELSE Peers})
    /\ Goto(o, "end")
    /\ UNCHANGED <<bounds, db, lease, up, pump, late, nextD>>

\* endControl(): the lock is dropped if it is still this operation's.
OpEnd(o) ==
    LET t == op[o].t IN
    /\ At(o, "end")
    /\ Update(t, IF db[t].control = o THEN [db[t] EXCEPT !.control = NoOne] ELSE db[t])
    /\ SetOp(o, [NewOp EXCEPT !.pc = "done"])
    /\ UNCHANGED <<bounds, lease, host, up, pump, late, nextD>>

\* resume() makes every bound peer resident here, unless its turn is running.
OpPrepare(o, m) ==
    LET r == op[o].r
        s == db[op[o].t].session[m]
        running == db[op[o].t].error[m] = "none" /\ Activity(r, s) = "running"
    IN
    /\ At(o, "prepare") /\ m \in op[o].todo
    /\ IF running \/ Reachable(r, s)
       THEN GotoWith(o, "prepare", op[o].todo \ {m}) ELSE Goto(o, "end")
    /\ IF ~running /\ Reachable(r, s)
       THEN home' = [home EXCEPT ![s] = r] /\ log' = [log EXCEPT ![s] = Loaded(r, s)]
       ELSE UNCHANGED host
    /\ UNCHANGED <<bounds, db, lease, up, pump, late, nextD>>

OpPrepared(o) ==
    LET S == db[op[o].t] IN
    /\ At(o, "prepare") /\ op[o].todo = {}
    /\ GotoWith(o, "reconcile", {m \in ActiveMembers(S) : Managed(m) \/ S.del[m].id # 0})
    /\ UNCHANGED <<bounds, db, lease, host, up, pump, late, nextD>>

OpReconcile(o, m) ==
    LET r == op[o].r
        t == op[o].t
    IN
    /\ At(o, "reconcile") /\ m \in op[o].todo
    /\ IF Unbindable(r, t, m) THEN Update(t, Fail(db[t], m, "binding", TRUE)) ELSE UNCHANGED db
    /\ SetOp(o, [op[o] EXCEPT !.todo = @ \ {m},
                              !.pc = IF CanObserve(r, t, m) THEN "judge" ELSE @,
                              !.v = IF CanObserve(r, t, m) THEN View(r, t, m) ELSE @])
    /\ UNCHANGED <<bounds, lease, host, up, pump, late, nextD>>

OpJudge(o) ==
    /\ At(o, "judge")
    /\ Update(op[o].t, Judge(op[o].r, op[o].v))
    /\ Goto(o, "release")
    /\ UNCHANGED <<bounds, lease, host, up, pump, late, nextD>>

OpRelease(o) ==
    /\ At(o, "release")
    /\ ReleaseSeen(op[o].v)
    /\ SetOp(o, [op[o] EXCEPT !.pc = "reconcile", !.v = NoView])
    /\ UNCHANGED <<bounds, db, host, up, pump, late, nextD>>

\* resume() then goes through the deliveries as one read of the record shows them.
OpReconciled(o) ==
    LET S == db[op[o].t] IN
    /\ At(o, "reconcile") /\ op[o].todo = {}
    /\ SetOp(o, [op[o] EXCEPT !.pc = "sort", !.todo = Deliveries(S),
                              !.seen = [del |-> S.del, error |-> S.error]])
    /\ UNCHANGED <<bounds, db, lease, host, up, pump, late, nextD>>

\* mutant: whatever delivery there is, or is not, is discarded
DiscardAny(S, m, d) == [S EXCEPT !.del[m] = NoDelivery, !.turns = @ - 1]

\* discardDelivery(): by id, so a delivery that has moved on is left alone.
Discard(S, m, d) == IF S.del[m].id = d
                    THEN [S EXCEPT !.del[m] = NoDelivery, !.turns = Less(@)] ELSE S

\* mutant: a busy session is taken for the delivery, confirmed or not
BusyWillDo(o, m) == db[op[o].t].session[m] # NoSession /\ Activity(op[o].r, db[op[o].t].session[m]) = "running"

\* A delivery without an error whose prompt was confirmed and whose session is busy.
ConfirmedRunning(o, m) ==
    /\ op[o].seen.error[m] = "none" /\ op[o].seen.del[m].prompted
    /\ db[op[o].t].session[m] # NoSession
    /\ Activity(op[o].r, db[op[o].t].session[m]) = "running"

\* A delivery is kept when it is the caller's own or confirmed running; otherwise the host
\* has to confirm that it stopped before it is discarded.
OpSort(o, m) ==
    LET r == op[o].r
        t == op[o].t
        d == op[o].seen.del[m]
        s == db[t].session[m]
        own == m = op[o].by
        keeps == IF own /\ Managed(m) THEN d.prompted ELSE ConfirmedRunning(o, m)
        throws == own /\ Managed(m) /\ ~d.prompted
        free == (own /\ ~Managed(m)) \/ (s = NoSession /\ Abandoned(d))
        drop == /\ Update(t, Discard(db[t], m, d.id))
                /\ SetOp(o, [op[o] EXCEPT !.pc = IF db[t].del[m].id = d.id THEN "free" ELSE @,
                                          !.todo = @ \ {m}, !.m = m])
    IN
    /\ At(o, "sort") /\ m \in op[o].todo
    /\ \/ /\ keeps
          /\ SetOp(o, [op[o] EXCEPT !.todo = @ \ {m}, !.keep = @ \cup {d.id}])
          /\ UNCHANGED <<db, host>>
       \/ ~keeps /\ ~throws /\ free /\ drop /\ UNCHANGED host
       \/ /\ ~keeps /\ ~throws /\ ~free /\ Managed(m) /\ s # NoSession
          /\ \/ Abort(r, s, TRUE) /\ drop
             \/ Abort(r, s, FALSE) /\ Goto(o, "end") /\ UNCHANGED db
       \/ /\ throws \/ (~keeps /\ ~free /\ (~Managed(m) \/ s = NoSession))
          /\ Goto(o, "end") /\ UNCHANGED <<db, host>>
    /\ UNCHANGED <<bounds, lease, up, pump, late, nextD>>

OpFree(o) ==
    LET m == op[o].m
        s == db[op[o].t].session[m]
    IN
    /\ At(o, "free")
    /\ IF s # NoSession THEN Release(s, op[o].seen.del[m].id) ELSE UNCHANGED lease
    /\ SetOp(o, [op[o] EXCEPT !.pc = "sort", !.m = NoOne])
    /\ UNCHANGED <<bounds, db, host, up, pump, late, nextD>>

\* The last transaction of resume(): every delivery left must be one that was kept.
Resumable(S, o) ==
    /\ S.member[op[o].by] = "active" /\ S.status # "deleted"
    /\ S.turns < lim.maxTurns \/ op[o].keep # {}
    /\ \A m \in Deliveries(S) : S.del[m].id \in op[o].keep
Resume(S) == [S EXCEPT !.status = "active", !.error = [m \in Members |-> "none"]]

OpResume(o) ==
    LET S == db[op[o].t] IN
    /\ At(o, "sort") /\ op[o].todo = {}
    /\ Update(op[o].t, IF Resumable(S, o) THEN Resume(S) ELSE S)
    /\ Goto(o, "end")
    /\ UNCHANGED <<bounds, lease, host, up, pump, late, nextD>>

-----------------------------------------------------------------------------
(* The host and the processes *)

\* The user starts a turn, or queues one behind the turn that is running.
UserTurn(s) ==
    /\ home[s] \in Runtimes /\ Alive(home[s]) /\ Uses("users")
    /\ log' = [log EXCEPT ![s] = Append(@, [d |-> 0, t |-> NoOne, m |-> NoOne, from |-> 0,
                                            through |-> 0, st |-> "queued"])]
    /\ UNCHANGED <<lim, db, lease, home, up, pump, op, late, nextD>>

SetTurn(s, i, st) == log' = [log EXCEPT ![s][i].st = st]

TurnStarts(s) ==
    /\ ~RunningIn(s) /\ Alive(home[s])
    /\ \E i \in 1 .. Len(log[s]) :
        /\ log[s][i].st = "queued" /\ \A j \in 1 .. i - 1 : log[s][j].st # "queued"
        /\ SetTurn(s, i, "running")
    /\ UNCHANGED <<bounds, db, lease, home, up, pump, op, late, nextD>>

TurnEnds(s, outcome) ==
    /\ Alive(home[s])
    /\ \E i \in 1 .. Len(log[s]) : log[s][i].st = "running" /\ SetTurn(s, i, outcome)
    /\ UNCHANGED <<bounds, db, lease, home, up, pump, op, late, nextD>>

\* handleEvent() of session.error: every team whose member has this session fails it and
\* drops its delivery.  The event may be late: some turn of the session did fail.
SessionError(r, s) ==
    LET hit(t) == {m \in ActiveMembers(db[t]) :
                      db[t].session[m] = s /\ db[t].status # "deleted" /\ ~Removing(r, t, m)}
        dropped == (UNION {{db[t].del[m].id : m \in hit(t)} : t \in Teams}) \ {0}
    IN
    /\ up[r] = "up" /\ Uses("errors")
    /\ \E i \in 1 .. Len(log[s]) : log[s][i].st = "failed"
    /\ db' = [t \in Teams |-> IF hit(t) = {} THEN db[t]
                              ELSE Fail(db[t], CHOOSE m \in hit(t) : TRUE, "event", TRUE)]
    /\ lease' = [lease EXCEPT ![s] = IF @ \in dropped THEN 0 ELSE @]
    /\ UNCHANGED <<lim, host, up, pump, op, late, nextD>>

Start(r) ==
    /\ up[r] = "new" /\ r \in lim.runtimes
    /\ up' = [up EXCEPT ![r] = "up"]
    /\ UNCHANGED <<bounds, db, lease, host, pump, op, late, nextD>>

\* The host reopens the user's conversation, in this runtime's process.
Restore(r) ==
    /\ up[r] = "up" /\ ~Alive(home[UserSession])
    /\ home' = [home EXCEPT ![UserSession] = r]
    /\ UNCHANGED <<bounds, db, lease, log, up, pump, op, late, nextD>>

\* The turns of a process that goes away: cut off by a crash, ended by an orderly stop.
Leave(r, st) ==
    /\ up' = [up EXCEPT ![r] = "down"]
    /\ pump' = [pump EXCEPT ![r] = IdlePump]
    /\ op' = [o \in Ops |-> IF op[o].r = r THEN [NewOp EXCEPT !.pc = "gone", !.r = r] ELSE op[o]]
    /\ late' = {l \in late : l.r # r}
    /\ log' = [s \in Sessions |-> IF home[s] # r THEN log[s]
                  ELSE [i \in 1 .. Len(log[s]) |-> IF log[s][i].st = "running"
                                                   THEN [log[s][i] EXCEPT !.st = st] ELSE log[s][i]]]
    /\ UNCHANGED <<lim, db, lease, home, nextD>>

Crash(r) == Alive(r) /\ Uses("downs") /\ Leave(r, "lost")

\* dispose(): no new visits; the pump finishes the one it is in.
Stop(r) ==
    /\ up[r] = "up" /\ Uses("downs")
    /\ up' = [up EXCEPT ![r] = "stopping"]
    /\ UNCHANGED <<lim, db, lease, host, pump, op, late, nextD>>
Disposed(r) == up[r] = "stopping" /\ pump[r].pc = "idle" /\ UNCHANGED used /\ Leave(r, "failed")

-----------------------------------------------------------------------------

Init ==
    /\ lim \in Limits
    /\ db = [t \in Teams |-> NewTeam]
    /\ lease = [s \in Sessions |-> 0]
    /\ \E r \in lim.runtimes :
        /\ home = [s \in Sessions |-> IF s = UserSession THEN r ELSE NoOne]
        /\ up = [q \in Runtimes |-> IF q = r THEN "up" ELSE "new"]
    /\ log = [s \in Sessions |-> <<>>]
    /\ pump = [r \in Runtimes |-> IdlePump]
    /\ op = [o \in Ops |-> NewOp]
    /\ late = {}
    /\ nextD = 1
    /\ used = [sends |-> 0, users |-> 0, downs |-> 0, lost |-> 0, errors |-> 0]

PumpStep(r) ==
    \/ PumpJudge(r) \/ PumpRelease(r) \/ PumpReserve(r) \/ PumpCreate(r) \/ PumpCheck(r)
    \/ PumpAcquire(r) \/ PumpPrompt(r) \/ PumpReply(r) \/ PumpAfter(r)
PumpFault(r) ==
    \/ PumpCreateFails(r) \/ PumpReplyLost(r) \/ \E still \in BOOLEAN : PumpPromptFails(r, still)
PumpVisit(r, t, m) == PumpObserve(r, t, m) \/ PumpUnbindable(r, t, m) \/ PumpLook(r, t, m)

MemberStep(t) ==
    \/ Create(t)
    \/ \E m \in Peers : Add(t, m)
    \/ \E m \in Members, to \in Members \cup {Everyone}, wake \in BOOLEAN : SendMessage(t, m, to, wake)
    \/ \E m \in Members, k \in Tasks :
        OfferTask(t, m, k) \/ ClaimTask(t, m, k) \/ \E done \in BOOLEAN : SettleTask(t, m, k, done)
    \/ \E k \in Tasks : ClaimLapses(t, k)
    \/ \E o \in Ops : \/ BeginDelete(o, t)
                      \/ \E m \in Members : BeginRemove(o, t, m) \/ BeginResume(o, t, m)

OpStep(o) ==
    \/ OpRead(o) \/ OpCommit(o) \/ OpForget(o) \/ OpEnd(o) \/ OpPrepared(o) \/ OpJudge(o)
    \/ OpRelease(o) \/ OpReconciled(o) \/ OpFree(o) \/ OpResume(o)
    \/ \E m \in Members : OpAbort(o, m) \/ OpPrepare(o, m) \/ OpReconcile(o, m) \/ OpSort(o, m)

Next ==
    \/ \E r \in Runtimes :
        \/ PumpStep(r) \/ PumpFault(r) \/ Start(r) \/ Restore(r) \/ Crash(r) \/ Stop(r) \/ Disposed(r)
        \/ \E t \in Teams : PumpExpire(r, t) \/ PumpForget(r, t) \/ \E m \in Members : PumpVisit(r, t, m)
        \/ \E s \in Sessions : SessionError(r, s)
    \/ \E l \in late : LatePrompt(l)
    \/ \E t \in Teams : MemberStep(t)
    \/ \E o \in Ops : OpStep(o)
    \/ \E s \in Sessions : UserTurn(s) \/ TurnStarts(s) \/ \E out \in {"ok", "failed"} : TurnEnds(s, out)

Spec == Init /\ [][Next]_vars

\* Every runtime that lives keeps pumping and visits every member in turn; an operation
\* under way goes on; the host runs its inboxes and every turn ends; a replacement process
\* is started.  Nothing is assumed of members, of users, or of calls given up on.
Fairness ==
    /\ \A r \in Runtimes :
        /\ WF_vars(PumpStep(r)) /\ WF_vars(Start(r)) /\ WF_vars(Disposed(r))
        /\ \A t \in Teams : WF_vars(PumpForget(r, t)) /\ \A m \in Members : SF_vars(PumpVisit(r, t, m))
    /\ \A o \in Ops : WF_vars(OpStep(o))
    /\ \A s \in Sessions : WF_vars(TurnStarts(s)) /\ WF_vars(\E out \in {"ok", "failed"} : TurnEnds(s, out))
FairSpec == Spec /\ Fairness

-----------------------------------------------------------------------------
(* Properties *)

\* Type correctness of the records, the leases, the sessions and the processes.
TypeOK ==
    /\ lim \in Limits
    /\ \A t \in Teams :
        /\ db[t].status \in {"none", "active", "paused", "deleted"}
        /\ db[t].control \in Ops \cup {NoOne}
        /\ db[t].turns \in Nat /\ db[t].spent \in Nat
        /\ \A m \in Members : /\ db[t].member[m] \in {"absent", "active", "removed"}
                              /\ db[t].session[m] \in Sessions \cup {NoSession}
                              /\ db[t].cursor[m] \in 0 .. Len(db[t].events)
                              /\ db[t].del[m].id \in 0 .. MaxDeliveries
    /\ lease \in [Sessions -> 0 .. MaxDeliveries]
    /\ home \in [Sessions -> Runtimes \cup {NoOne, Forgotten}]
    /\ up \in [Runtimes -> {"new", "up", "stopping", "down"}]
    /\ nextD \in 1 .. MaxDeliveries + 1

\* The turn budget is exact: what a team has spent is what its finished and removed turns
\* cost plus one for each delivery in flight, whatever failures, refunds, discards, lost
\* prompts and crashes came between; it never passes the limit, and never are more than
\* two deliveries in flight (reserve, fail, reconcile, discardDelivery, remove, delete).
BudgetExact == \A t \in Teams :
    /\ db[t].turns = db[t].spent + Cardinality(Deliveries(db[t]))
    /\ db[t].turns <= lim.maxTurns
    /\ Cardinality(Deliveries(db[t])) <= 2

\* A delivery whose prompt was let go: in a transcript, an inbox, or on its way there.
Issued(d, s) ==
    \/ \E i \in 1 .. Len(log[s]) : log[s][i].d = d
    \/ \E r \in Runtimes : pump[r].d = d /\ pump[r].s = s /\ pump[r].pc \in {"prompt", "reply", "after"}

\* Two coordinators never prompt one session at a time: of the outstanding deliveries to a
\* session, whichever teams and processes they belong to, one at most has been issued
\* (acquireSession and releaseSession across teams).
SoleCoordinator == \A t, u \in Teams : \A m, n \in Members :
    LET s == db[t].session[m]
        d == db[t].del[m].id
        e == db[u].del[n].id
    IN d # 0 /\ e # 0 /\ s # NoSession /\ s = db[u].session[n] /\ Issued(d, s) /\ Issued(e, s) => d = e

\* A member's cursor never passes an event it was not shown: every event up to it was in the
\* prompt of a turn of that member that is over (deliver's snapshot and throughSeq, the marker
\* and cursor rules of reconcile).  The turn may have been cut off by a crash: after a restart
\* the end of a later turn of the session, a user's, settles its delivery.
NothingSkipped == \A t \in Teams, m \in Members : \A k \in 1 .. db[t].cursor[m] :
    \E i \in 1 .. Len(log[db[t].session[m]]) :
        LET e == log[db[t].session[m]][i] IN
        e.t = t /\ e.m = m /\ e.from < k /\ k <= e.through /\ e.st \in {"ok", "failed", "lost"}

\* An active team has no member that failed, which deliver() would pass over for ever, and
\* each delivery of it has someone left to settle it: the pump that carries it, the host
\* that confirmed its prompt, or, its owner gone or going, any other runtime's pump.
DeliveryAnswered == \A t \in Teams, m \in Members :
    LET d == db[t].del[m] IN
    db[t].status = "active" =>
        /\ db[t].error[m] = "none"
        /\ d.id # 0 => up[d.owner] # "up" \/ pump[d.owner].d = d.id \/ d.prompted

\* Only an active member holds a claim: whoever leaves gives its claims back.
ClaimsHeld == \A t \in Teams, k \in Tasks :
    db[t].task[k].st = "claimed" => db[t].member[db[t].task[k].owner] = "active"

\* One lifecycle operation at a time works on a team, and while a removal or a deletion is
\* under way nothing reopens the team (beginControl, endControl and the takeover of a dead
\* owner's lock).
Working(o) == op[o].pc \notin {"new", "done", "gone"}
OneOperation == \A o \in Ops : Working(o) =>
    /\ db[op[o].t].control = o
    /\ db[op[o].t].status = "active" => op[o].kind = "resume" /\ op[o].pc = "end"

\* A member at work keeps its claim: while its delivery is in flight, a claim changes hands
\* only by the member's own event or by its removal.
ClaimKept == [][\A t \in Teams, k \in Tasks :
    LET m == db[t].task[k].owner IN
    /\ db[t].task[k].st = "claimed" /\ db[t].del[m].id # 0
    /\ db'[t].task[k].owner # m
    => db'[t].member[m] = "removed" \/ \E done \in BOOLEAN : SettleTask(t, m, k, done)]_vars

\* An event that wakes a peer reaches it: its cursor passes the event, unless the team
\* leaves the active state or the peer leaves the team.
EventReaches == \A t \in Teams, m \in Peers :
    \A k \in 1 .. 3 :
    (/\ db[t].status = "active" /\ db[t].member[m] = "active" /\ k <= Len(db[t].events)
     /\ db[t].events[k].wake /\ db[t].events[k].from # m /\ db[t].events[k].to \in {Everyone, m})
    ~> (db[t].cursor[m] >= k \/ db[t].status # "active" \/ db[t].member[m] # "active")

\* Whoever leaves is let go of: the session of a removed member, or of a member of a deleted
\* team, is removed from the host in the end, even if the process that owned it died.
LeaversForgotten == \A t \in Teams, m \in Peers :
    (db[t].member[m] = "removed" \/ db[t].status = "deleted") ~>
        (\/ db[t].session[m] # NoSession => home[db[t].session[m]] = Forgotten
         \/ \A r \in Runtimes : up[r] # "up")

\* What docs/team-work.md says of acknowledgement: the cursor advances only after a
\* successful turn of that delivery; an unrelated user turn cannot acknowledge it.
AckedBySuccess == \A t \in Teams, m \in Members : db[t].cursor[m] > 0 =>
    \E i \in 1 .. Len(log[db[t].session[m]]) :
        LET e == log[db[t].session[m]][i] IN
        e.t = t /\ e.m = m /\ e.through = db[t].cursor[m] /\ e.st = "ok"
=============================================================================
