------------------------- MODULE TeamDeliveryProofs -------------------------
(***************************************************************************)
(* Theorems about TeamRuntime's locks and deliveries: one lifecycle        *)
(* operation at a time, and a delivery of an active team is never left     *)
(* without anyone to settle it.  They rest on the state invariant of       *)
(* TeamRuntimeProofs.                                                      *)
(***************************************************************************)
EXTENDS TeamRuntimeProofs

-----------------------------------------------------------------------------
(* The lock of a team.                                                     *)

\* An operation under way lives, holds the lock of its team, and has the team closed until
\* resume() opens it in its last transaction.
LockOK(o) == Working(o) =>
    /\ Alive(op[o].r) /\ db[op[o].t].control = o
    /\ db[op[o].t].status = "active" => op[o].kind = "resume" /\ op[o].pc = "end"
LockInv == \A o \in Ops : LockOK(o)

\* A step that neither changes a lock nor opens a team.
LocksKept == \A t \in Teams :
    /\ db'[t].control = db[t].control
    /\ db'[t].status = "active" => db[t].status = "active"

LivesKept == \A r \in Runtimes : up[r] \in {"up", "stopping"} => up'[r] \in {"up", "stopping"}

LEMMA QuietLocks ==
  ASSUME QuietDb
  PROVE  LocksKept
BY DEF QuietDb, Keeps, LocksKept

LEMMA LockFrame ==
  ASSUME StateOK, NEW o \in Ops, LockOK(o), op'[o] = op[o], LivesKept,
         Working(o) => /\ db'[op[o].t].control = db[op[o].t].control
                       /\ db'[op[o].t].status = "active" => db[op[o].t].status = "active"
  PROVE  LockOK(o)'
BY DEF LockOK, Working, Alive, LivesKept

LEMMA LocksFrame ==
  ASSUME StateOK, LockInv, op' = op, LivesKept, LocksKept
  PROVE  LockInv'
<1>1. ASSUME NEW o \in Ops
      PROVE  LockOK(o)'
  <2>1. LockOK(o) /\ (Working(o) => op[o].t \in Teams)
    BY DEF LockInv, StateOK, OpOK
  <2> QED
    BY <2>1, LockFrame DEF LocksKept
<1> QED
  BY <1>1 DEF LockInv

LEMMA LockLeave ==
  ASSUME StateOK, LockInv, NEW r \in Runtimes, NEW st, Leave(r, st)
  PROVE  LockInv'
<1>1. /\ up' = [up EXCEPT ![r] = "down"] /\ db' = db
      /\ op' = [o \in Ops |-> IF op[o].r = r THEN [NewOp EXCEPT !.pc = "gone", !.r = r] ELSE op[o]]
  BY DEF Leave
<1>2. ASSUME NEW o \in Ops, op[o].r = r
      PROVE  LockOK(o)'
  <2>1. op'[o] = [NewOp EXCEPT !.pc = "gone", !.r = r]
    BY <1>1, <1>2
  <2>2. op'[o].pc = "gone"
    BY <2>1, NewOpFields DEF OpFields
  <2> QED
    BY <2>2 DEF LockOK, Working
<1>3. ASSUME NEW o \in Ops, op[o].r # r
      PROVE  LockOK(o)'
  <2>1. op'[o] = op[o] /\ LockOK(o)
    BY <1>1, <1>3 DEF LockInv
  <2>2. op[o].r \in Runtimes => up'[op[o].r] = up[op[o].r]
    BY <1>1, <1>3 DEF StateOK, HostOK
  <2> QED
    BY <1>1, <2>1, <2>2 DEF LockOK, Working, Alive
<1> QED
  BY <1>2, <1>3 DEF LockInv

LEMMA LockHost ==
  ASSUME StateOK, LockInv, HostQuietly
  PROVE  LockInv'
<1>1. ASSUME NEW r \in Runtimes, Crash(r) \/ Disposed(r)
      PROVE  LockInv'
  BY <1>1, LockLeave DEF Crash, Disposed
<1>2. ASSUME ~\E r \in Runtimes : Crash(r) \/ Disposed(r)
      PROVE  LockInv'
  <2>1. /\ op' = op
        /\ \/ up' = up
           \/ \E r \in Runtimes : up' = [up EXCEPT ![r] = "up"] \/ up' = [up EXCEPT ![r] = "stopping"]
    BY <1>2 DEF HostQuietly, Start, Restore, Stop, SessionError, LatePrompt, UserTurn, TurnStarts, TurnEnds
  <2>2. LivesKept
    BY <2>1 DEF StateOK, HostOK, LivesKept
  <2>3. LocksKept
    BY HostIsQuiet, QuietLocks DEF StateOK
  <2> QED
    BY <2>1, <2>2, <2>3, LocksFrame
<1> QED
  BY <1>1, <1>2

LEMMA LockPump ==
  ASSUME StateOK, LockInv, NEW r \in Runtimes, PumpQuietly(r) \/ PumpReserve(r) \/ PumpReply(r)
  PROVE  LockInv'
<1>0. RecordsOK /\ HostOK /\ PumpOK(r)
  BY DEF StateOK
<1>1. op' = op /\ up' = up
  <2>1. CASE PumpQuietly(r)
    BY <2>1, PumpHost
  <2>2. CASE PumpReserve(r) \/ PumpReply(r)
    BY <2>2 DEF PumpReserve, PumpReply
  <2> QED
    BY <2>1, <2>2
<1>2. LivesKept
  BY <1>1 DEF LivesKept
<1>3. LocksKept
  <2>1. CASE PumpQuietly(r)
    BY <1>0, <2>1, PumpIsQuiet, QuietLocks
  <2>2. CASE PumpReserve(r)
    <3>1. QuietDb \/ ReservedNow(r)
      BY <1>0, <2>2, ReserveStep
    <3>2. CASE ReservedNow(r)
      BY <3>2 DEF ReservedNow, LocksKept
    <3> QED
      BY <3>1, <3>2, QuietLocks
  <2>3. CASE PumpReply(r)
    <3>1. ConfirmedNow(r)
      BY <1>0, <2>3, ReplyStep
    <3> QED
      BY <3>1 DEF ConfirmedNow, LocksKept
  <2> QED
    BY <2>1, <2>2, <2>3
<1> QED
  BY <1>1, <1>2, <1>3, LocksFrame

LEMMA LockMember ==
  ASSUME StateOK, LockInv, NEW t \in Teams, MemberQuietly(t) \/ Create(t) \/ Settles(t)
  PROVE  LockInv'
<1>1. op' = op /\ up' = up
  BY DEF MemberQuietly, Create, Settles, SettleTask, Add, SendMessage, OfferTask, ClaimTask, ClaimLapses
<1>2. LivesKept
  BY <1>1 DEF LivesKept
<1>3. CASE MemberQuietly(t) \/ Settles(t)
  <2>1. QuietDb
    BY <1>3, MemberIsQuiet, SettleIsQuiet DEF StateOK, Settles
  <2> QED
    BY <1>1, <1>2, <2>1, QuietLocks, LocksFrame
<1>4. CASE Create(t)
  <2>1. db[t].status = "none" /\ \A u \in Teams : u # t => db'[u] = db[u]
    BY <1>4, CreateStep DEF StateOK
  <2>2. ASSUME NEW o \in Ops
        PROVE  LockOK(o)'
    <3>1. LockOK(o) /\ (Working(o) => op[o].t \in Teams /\ db[op[o].t].status # "none")
      BY DEF LockInv, StateOK, OpOK
    <3>2. Working(o) => db'[op[o].t] = db[op[o].t]
      BY <2>1, <3>1
    <3> QED
      BY <1>1, <1>2, <3>1, <3>2, LockFrame
  <2> QED
    BY <2>2 DEF LockInv
<1> QED
  BY <1>3, <1>4

\* The lock is taken only when it is free or its owner is gone: no operation under way is
\* robbed of it.
LEMMA LockBegin ==
  ASSUME StateOK, LockInv, NEW t \in Teams, Begins(t)
  PROVE  LockInv'
<1>1. PICK o \in Ops, kind \in {"remove", "delete", "resume"}, by \in Members, m \in Members \cup {NoOne} :
        Begin(o, kind, t, by, m, "read")
  BY BeginsAre
<1>2. /\ db'[t].status = "paused" /\ db'[t].control = o
      /\ \A u \in Teams : u # t => db'[u] = db[u]
  BY <1>1, BeginStep DEF StateOK
<1> DEFINE q == [NewOp EXCEPT !.pc = "read", !.kind = kind, !.r = Desk(t, by), !.t = t,
                              !.by = by, !.m = m]
<1>3. /\ op' = [op EXCEPT ![o] = q] /\ up' = up /\ Desk(t, by) \in Runtimes /\ up[Desk(t, by)] = "up"
      /\ ControlFree(db[t])
  BY <1>1 DEF Begin, SetOp, Acting, Desk
<1>4. q.pc = "read" /\ q.t = t /\ q.r = Desk(t, by)
  BY NewOpFields DEF OpFields
<1> HIDE DEF q
<1>5. op'[o] = q /\ \A u \in Ops : u # o => op'[u] = op[u]
  BY <1>3 DEF StateOK
<1>6. LockOK(o)'
  BY <1>2, <1>3, <1>4, <1>5 DEF LockOK, Alive
<1>7. LivesKept
  BY <1>3 DEF LivesKept
<1>8. ASSUME NEW u \in Ops, u # o
      PROVE  LockOK(u)'
  <2>1. LockOK(u) /\ (Working(u) => op[u].t \in Teams)
    BY DEF LockInv, StateOK, OpOK
  <2>2. Working(u) => op[u].t # t
    BY <1>3, <2>1, TeamConstants DEF LockOK, ControlFree
  <2> QED
    BY <1>2, <1>5, <1>7, <1>8, <2>1, <2>2, LockFrame
<1> QED
  BY <1>6, <1>8 DEF LockInv

\* A step of the operation that holds the lock.
LEMMA LockOthers ==
  ASSUME StateOK, LockInv, NEW o \in Ops, Working(o), NEW q, op' = [op EXCEPT ![o] = q], LivesKept,
         \A u \in Teams : u # op[o].t => db'[u] = db[u]
  PROVE  op'[o] = q /\ \A u \in Ops : u # o => LockOK(u)'
<1>1. op'[o] = q /\ \A u \in Ops : u # o => op'[u] = op[u]
  BY DEF StateOK
<1>2. ASSUME NEW u \in Ops, u # o
      PROVE  LockOK(u)'
  <2>1. LockOK(u) /\ LockOK(o) /\ (Working(u) => op[u].t \in Teams)
    BY DEF LockInv, StateOK, OpOK
  <2>2. Working(u) => op[u].t # op[o].t
    BY <1>2, <2>1 DEF LockOK
  <2> QED
    BY <1>1, <1>2, <2>1, <2>2, LockFrame
<1> QED
  BY <1>1, <1>2

LEMMA LockOp ==
  ASSUME StateOK, LockInv, NEW o \in Ops, OpQuietly(o)
  PROVE  LockInv'
<1>1. up' = up /\ Working(o)
  BY OpHost
<1>2. PICK q : op' = [op EXCEPT ![o] = q] /\ OpMove(o, q)
  BY OpMoves
<1>3. LocksKept
  BY OpIsQuiet, QuietLocks DEF StateOK
<1>4. LivesKept
  BY <1>1 DEF LivesKept
<1>5. op'[o] = q /\ \A u \in Ops : u # o => op'[u] = op[u]
  BY <1>2 DEF StateOK
<1>6. op[o].pc # "end"
  BY DEF OpQuietly, OpRead, OpCommit, OpForget, OpPrepared, OpJudge, OpRelease, OpReconciled, OpFree,
         OpAbort, OpPrepare, OpReconcile, OpSort, At
<1>7. LockOK(o)'
  <2>1. LockOK(o) /\ op[o].t \in Teams
    BY <1>1 DEF LockInv, StateOK, OpOK
  <2>2. q.t = op[o].t /\ q.r = op[o].r
    BY <1>2 DEF OpMove
  <2>3. db'[op[o].t].status # "active" /\ db'[op[o].t].control = o
    BY <1>1, <1>3, <1>6, <2>1 DEF LockOK, LocksKept
  <2> QED
    BY <1>1, <1>5, <2>1, <2>2, <2>3 DEF LockOK, Alive
<1>8. ASSUME NEW u \in Ops, u # o
      PROVE  LockOK(u)'
  <2>1. LockOK(u) /\ (Working(u) => op[u].t \in Teams)
    BY DEF LockInv, StateOK, OpOK
  <2> QED
    BY <1>3, <1>4, <1>5, <1>8, <2>1, LockFrame DEF LocksKept
<1> QED
  BY <1>7, <1>8 DEF LockInv

LEMMA LockEnd ==
  ASSUME StateOK, LockInv, NEW o \in Ops, OpEnd(o)
  PROVE  LockInv'
<1> DEFINE q == [NewOp EXCEPT !.pc = "done"]
<1>1. op' = [op EXCEPT ![o] = q] /\ up' = up /\ Working(o)
  BY DEF OpEnd, SetOp, At, Working
<1>2. \A u \in Teams : u # op[o].t => db'[u] = db[u]
  BY EndStep DEF StateOK
<1>3. q.pc = "done"
  BY NewOpFields DEF OpFields
<1> HIDE DEF q
<1>4. LivesKept
  BY <1>1 DEF LivesKept
<1>5. op'[o] = q /\ \A u \in Ops : u # o => LockOK(u)'
  BY <1>1, <1>2, <1>4, LockOthers
<1> QED
  BY <1>3, <1>5 DEF LockInv, LockOK, Working

LEMMA LockResume ==
  ASSUME StateOK, LockInv, NEW o \in Ops, OpResume(o)
  PROVE  LockInv'
<1> DEFINE q == [op[o] EXCEPT !.pc = "end"]
<1>1. op' = [op EXCEPT ![o] = q] /\ up' = up /\ Working(o) /\ op[o].pc = "sort"
  BY DEF OpResume, Goto, SetOp, At, Working
<1>2. OpOK(o) /\ LockOK(o)
  BY DEF StateOK, LockInv
<1>3. db'[op[o].t].control = db[op[o].t].control /\ \A u \in Teams : u # op[o].t => db'[u] = db[u]
  BY <1>2, ResumeStep DEF StateOK
<1>4. q.pc = "end" /\ q.kind = "resume" /\ q.t = op[o].t /\ q.r = op[o].r
  BY <1>1, <1>2 DEF OpOK, OpFields
<1> HIDE DEF q
<1>5. LivesKept
  BY <1>1 DEF LivesKept
<1>6. op'[o] = q /\ \A u \in Ops : u # o => LockOK(u)'
  BY <1>1, <1>3, <1>5, LockOthers
<1>7. LockOK(o)'
  BY <1>1, <1>2, <1>3, <1>4, <1>6 DEF LockOK, Alive
<1> QED
  BY <1>6, <1>7 DEF LockInv

LEMMA LockKept == StateOK /\ LockInv /\ [Next]_vars => LockInv'
<1> SUFFICES ASSUME StateOK, LockInv, [Next]_vars PROVE LockInv'
  OBVIOUS
<1>1. CASE UNCHANGED vars
  BY <1>1 DEF vars, LockInv, LockOK, Working, Alive
<1>2. CASE Next
  <2>1. ASSUME NEW r \in Runtimes, PumpQuietly(r) \/ PumpReserve(r) \/ PumpReply(r)
        PROVE  LockInv'
    BY <2>1, LockPump
  <2>2. CASE HostQuietly
    BY <2>2, LockHost
  <2>3. ASSUME NEW t \in Teams, MemberQuietly(t) \/ Create(t) \/ Settles(t)
        PROVE  LockInv'
    BY <2>3, LockMember
  <2>4. ASSUME NEW t \in Teams, Begins(t)
        PROVE  LockInv'
    BY <2>4, LockBegin
  <2>5. ASSUME NEW o \in Ops, OpQuietly(o) \/ OpEnd(o) \/ OpResume(o)
        PROVE  LockInv'
    BY <2>5, LockOp, LockEnd, LockResume
  <2> QED
    BY <1>2, <2>1, <2>2, <2>3, <2>4, <2>5, StepKinds
<1> QED
  BY <1>1, <1>2

LEMMA LockHolds == Spec => []LockInv
<1>1. Init => LockInv
  <2> SUFFICES ASSUME Init PROVE LockInv
    OBVIOUS
  <2>1. \A o \in Ops : op[o] = NewOp
    BY DEF Init
  <2> QED
    BY <2>1, NewOpFields DEF LockInv, LockOK, Working
<1> QED
  BY <1>1, StateHolds, LockKept, PTL DEF Spec

\* One lifecycle operation at a time works on a team, and nothing reopens a team while a
\* removal or a deletion is under way, also when an owner dies and its lock is taken over.
THEOREM OneOperationAtATime == Spec => []OneOperation
<1>1. LockInv => OneOperation
  BY DEF LockInv, LockOK, OneOperation
<1> QED
  BY <1>1, LockHolds, PTL

-----------------------------------------------------------------------------
(* The deliveries.                                                         *)

\* A delivery's id is its own, and the process that reserved it was started.
IdsInv == \A t \in Teams, m \in Members : db[t].del[m].id # 0 =>
    /\ db[t].del[m].id < nextD
    /\ up[db[t].del[m].owner] # "new"
    /\ \A u \in Teams, n \in Members : db[u].del[n].id = db[t].del[m].id => u = t /\ n = m

\* A visit carries the delivery of the member it visits, and once the host has confirmed the
\* prompt the record says so.
CarriedInv == \A r \in Runtimes, t \in Teams, m \in Members :
    pump[r].d # 0 /\ db[t].del[m].id = pump[r].d =>
        /\ t = pump[r].v.t /\ m = pump[r].v.m
        /\ pump[r].pc = "after" => db[t].del[m].prompted

\* What resume() took for confirmed, in its one read of the record or later, is confirmed.
ConfirmedId(d) ==
    /\ d \in Nat /\ d < nextD
    /\ \A t \in Teams, m \in Members : db[t].del[m].id = d => db[t].del[m].prompted
Vouched(o) == op[o].keep \cup {op[o].seen.del[m].id : m \in {n \in Members : op[o].seen.del[n].prompted}}
VouchedInv == \A o \in Ops : \A d \in Vouched(o) : d # 0 => ConfirmedId(d)

\* A delivery of an active team has someone to settle it.
AnsweredInv == \A t \in Teams, m \in Members :
    db[t].status = "active" /\ db[t].del[m].id # 0 =>
        \/ up[db[t].del[m].owner] # "up"
        \/ pump[db[t].del[m].owner].d = db[t].del[m].id
        \/ db[t].del[m].prompted

DeliveryInv == IdsInv /\ CarriedInv /\ VouchedInv /\ AnsweredInv

\* Every step but a reservation: deliveries go, or stay and may be confirmed.
DelsShrink == \A t \in Teams, m \in Members :
    \/ db'[t].del[m].id = 0
    \/ /\ db'[t].del[m].id = db[t].del[m].id /\ db'[t].del[m].owner = db[t].del[m].owner
       /\ db[t].del[m].prompted => db'[t].del[m].prompted

\* The visit of r lets its delivery go only when someone else is left to settle it.
LetsGo(r) == pump[r].d # 0 => \A t \in Teams, m \in Members :
    db[t].del[m].id = pump[r].d =>
        \/ db'[t].status # "active" \/ db'[t].del[m].id = 0 \/ db[t].del[m].prompted
        \/ up'[r] # "up"
PumpLet(r, p) ==
    \/ p.d = pump[r].d /\ p.v = pump[r].v /\ (p.pc = "after" => pump[r].pc = "after")
    \/ p.d = 0 /\ LetsGo(r)
PumpsLet == \A r \in Runtimes : PumpLet(r, pump'[r])

\* A team opens only over deliveries that are confirmed.
OpensSafely == \A t \in Teams : db'[t].status = "active" =>
    db[t].status = "active" \/ \A m \in Members : db'[t].del[m].id # 0 => db'[t].del[m].prompted

StartsOnly == \A r \in Runtimes :
    /\ up'[r] = "new" => up[r] = "new"
    /\ up'[r] = "up" => up[r] \in {"up", "new"}

LEMMA DeliveryTyped ==
  ASSUME StateOK, NEW t \in Teams, NEW m \in Members
  PROVE  /\ db[t].del[m].id \in Nat
         /\ db[t].del[m].id # 0 => db[t].del[m].owner \in Runtimes /\ db[t].member[m] = "active"
         /\ db[t].del[m] \in DeliveryRows
<1>1. RecordTyped(db[t]) /\ PointersHeld(db[t])
  BY DEF StateOK, RecordsOK, RecordOK
<1>2. db[t].del[m] \in DeliveryRows
  BY <1>1 DEF RecordTyped
<1> QED
  BY <1>1, <1>2, TeamConstants DEF PointersHeld, DeliveryRows

LEMMA QuietShrinks ==
  ASSUME QuietDb
  PROVE  DelsShrink /\ OpensSafely
<1>1. NoDelivery.id = 0
  BY DEF NoDelivery
<1>2. \A t \in Teams, m \in Members : db'[t].del[m] \in {db[t].del[m], NoDelivery}
  BY DEF QuietDb, Keeps
<1>3. DelsShrink
  BY <1>1, <1>2 DEF DelsShrink
<1>4. OpensSafely
  BY DEF QuietDb, Keeps, OpensSafely
<1> QED
  BY <1>3, <1>4

LEMMA IdsShrink ==
  ASSUME StateOK, IdsInv, DelsShrink, StartsOnly, nextD' = nextD
  PROVE  IdsInv'
<1>1. ASSUME NEW t \in Teams, NEW m \in Members, db'[t].del[m].id # 0
      PROVE  /\ db'[t].del[m].id < nextD'
             /\ up'[db'[t].del[m].owner] # "new"
             /\ \A u \in Teams, n \in Members : db'[u].del[n].id = db'[t].del[m].id => u = t /\ n = m
  <2>1. db'[t].del[m].id = db[t].del[m].id /\ db'[t].del[m].owner = db[t].del[m].owner
    BY <1>1 DEF DelsShrink
  <2>2. db[t].del[m].owner \in Runtimes
    BY <1>1, <2>1, DeliveryTyped
  <2>3. up'[db'[t].del[m].owner] # "new" /\ db'[t].del[m].id < nextD'
    BY <1>1, <2>1, <2>2 DEF IdsInv, StartsOnly
  <2>4. ASSUME NEW u \in Teams, NEW n \in Members, db'[u].del[n].id = db'[t].del[m].id
        PROVE  u = t /\ n = m
    <3>1. db[u].del[n].id = db[t].del[m].id
      BY <1>1, <2>1, <2>4 DEF DelsShrink
    <3> QED
      BY <1>1, <2>1, <3>1 DEF IdsInv
  <2> QED
    BY <2>3, <2>4
<1> QED
  BY <1>1 DEF IdsInv

LEMMA CarriedShrink ==
  ASSUME CarriedInv, DelsShrink, PumpsLet
  PROVE  CarriedInv'
<1>1. ASSUME NEW r \in Runtimes, NEW t \in Teams, NEW m \in Members,
             pump'[r].d # 0, db'[t].del[m].id = pump'[r].d
      PROVE  /\ t = pump'[r].v.t /\ m = pump'[r].v.m
             /\ pump'[r].pc = "after" => db'[t].del[m].prompted
  <2>1. /\ pump'[r].d = pump[r].d /\ pump'[r].v = pump[r].v
        /\ pump'[r].pc = "after" => pump[r].pc = "after"
    BY <1>1 DEF PumpsLet, PumpLet
  <2>2. db'[t].del[m].id = db[t].del[m].id /\ (db[t].del[m].prompted => db'[t].del[m].prompted)
    BY <1>1 DEF DelsShrink
  <2> QED
    BY <1>1, <2>1, <2>2 DEF CarriedInv
<1> QED
  BY <1>1 DEF CarriedInv

LEMMA ConfirmedShrink ==
  ASSUME DelsShrink, nextD' = nextD, NEW d, d # 0, ConfirmedId(d)
  PROVE  ConfirmedId(d)'
BY DEF ConfirmedId, DelsShrink

LEMMA VouchedShrink ==
  ASSUME VouchedInv, DelsShrink, nextD' = nextD, \A o \in Ops : Vouched(o)' \subseteq Vouched(o)
  PROVE  VouchedInv'
<1>1. ASSUME NEW o \in Ops, NEW d \in Vouched(o)', d # 0
      PROVE  ConfirmedId(d)'
  <2>1. d \in Vouched(o) /\ ConfirmedId(d)
    BY <1>1 DEF VouchedInv
  <2> QED
    BY <1>1, <2>1, ConfirmedShrink
<1> QED
  BY <1>1 DEF VouchedInv

LEMMA AnsweredShrink ==
  ASSUME StateOK, IdsInv, AnsweredInv, DelsShrink, PumpsLet, OpensSafely, StartsOnly
  PROVE  AnsweredInv'
<1>1. ASSUME NEW t \in Teams, NEW m \in Members, db'[t].status = "active", db'[t].del[m].id # 0,
             up'[db'[t].del[m].owner] = "up", ~db'[t].del[m].prompted
      PROVE  pump'[db'[t].del[m].owner].d = db'[t].del[m].id
  <2> DEFINE r == db[t].del[m].owner
  <2>1. /\ db'[t].del[m].id = db[t].del[m].id /\ db'[t].del[m].owner = r
        /\ ~db[t].del[m].prompted
    BY <1>1 DEF DelsShrink
  <2>2. r \in Runtimes
    BY <1>1, <2>1, DeliveryTyped
  <2>3. db[t].status = "active" /\ up[r] = "up"
    <3>1. db[t].status = "active"
      BY <1>1 DEF OpensSafely
    <3>2. up[r] # "new"
      BY <1>1, <2>1 DEF IdsInv
    <3> QED
      BY <1>1, <2>1, <2>2, <3>1, <3>2 DEF StartsOnly
  <2>4. pump[r].d = db[t].del[m].id
    BY <1>1, <2>1, <2>3 DEF AnsweredInv
  <2>5. PumpLet(r, pump'[r])
    BY <2>2 DEF PumpsLet
  <2>6. ~LetsGo(r)
    BY <1>1, <2>1, <2>4 DEF LetsGo
  <2> QED
    BY <2>1, <2>4, <2>5, <2>6 DEF PumpLet
<1> QED
  BY <1>1 DEF AnsweredInv

\* A step that does nothing but what these allow keeps the deliveries' invariant.
LEMMA DeliveryFrame ==
  ASSUME StateOK, DeliveryInv, DelsShrink, PumpsLet, OpensSafely, StartsOnly, nextD' = nextD,
         \A o \in Ops : Vouched(o)' \subseteq Vouched(o)
  PROVE  DeliveryInv'
BY IdsShrink, CarriedShrink, VouchedShrink, AnsweredShrink DEF DeliveryInv

LEMMA PumpsSame ==
  ASSUME pump' = pump
  PROVE  PumpsLet
BY DEF PumpsLet, PumpLet

LEMMA UpSame ==
  ASSUME up' = up
  PROVE  StartsOnly
BY DEF StartsOnly

LEMMA OpsSame ==
  ASSUME op' = op
  PROVE  \A o \in Ops : Vouched(o)' \subseteq Vouched(o)
BY DEF Vouched

-----------------------------------------------------------------------------
(* The pump's steps.                                                       *)

\* The delivery a visit carries is that of the member it visits.
LEMMA CarriedHere ==
  ASSUME CarriedInv, NEW r \in Runtimes, pump[r].d # 0,
         LET S == db'[pump[r].v.t]
             d == db[pump[r].v.t].del[pump[r].v.m]
         IN d.id = pump[r].d =>
            \/ S.status # "active" \/ S.del[pump[r].v.m].id = 0 \/ d.prompted \/ up'[r] # "up"
  PROVE  LetsGo(r)
BY DEF CarriedInv, LetsGo

\* A member that is being removed has its team closed.
LEMMA RemovingCloses ==
  ASSUME LockInv, NEW r, NEW t, NEW m, Removing(r, t, m)
  PROVE  db[t].status # "active"
<1>1. PICK o \in Ops : /\ op[o].kind = "remove" /\ op[o].t = t
                       /\ op[o].pc \in {"read", "abort", "forget", "end"}
  BY DEF Removing
<1>2. Working(o) /\ LockOK(o)
  BY <1>1 DEF Working, LockInv
<1> QED
  BY <1>1, <1>2 DEF LockOK

\* A visit that throws pauses the team.
LEMMA ThrowLetsGo ==
  ASSUME StateOK, LockInv, CarriedInv, NEW r \in Runtimes, PumpThrow(r), QuietDb,
         pump[r].pc \in Carrying
  PROVE  LetsGo(r)
<1> DEFINE t == pump[r].v.t
           m == pump[r].v.m
           S == db[t]
<1>1. t \in Teams /\ m \in Members /\ pump[r].d # 0
  BY DEF StateOK, PumpOK, Carrying
<1>2. db'[t] = FailIn(r, t, S, m, "thrown", FALSE)
  BY <1>1 DEF PumpThrow, Update, StateOK, RecordsOK
<1>3. S.status # "active" => db'[t].status # "active"
  BY <1>1 DEF QuietDb, Keeps
<1>4. ASSUME S.status = "active", S.del[m].id = pump[r].d
      PROVE  db'[t].status # "active"
  <2>1. ~Removing(r, t, m)
    BY <1>4, RemovingCloses
  <2>2. S.member[m] = "active" /\ DOMAIN S = TeamFields
    BY <1>1, <1>4, DeliveryTyped DEF StateOK, RecordsOK, RecordOK, RecordTyped
  <2>3. S.error[m] = "none"
    BY <1>1, <1>4 DEF StateOK, RecordsOK, RecordOK, StatusHeld
  <2>4. db'[t] = Fail(S, m, "thrown", FALSE)
    BY <1>2, <2>1 DEF FailIn
  <2> HIDE DEF S, t, m
  <2>5. Fail(S, m, "thrown", FALSE).status = "paused"
    BY <1>4, <2>2, <2>3 DEF Fail, TeamFields
  <2> QED
    BY <2>4, <2>5
<1> QED
  BY <1>1, <1>3, <1>4, CarriedHere

LEMMA CheckLetsGo ==
  ASSUME StateOK, CarriedInv, NEW r \in Runtimes, PumpCheck(r), pump' = [pump EXCEPT ![r] = IdlePump]
  PROVE  LetsGo(r)
<1> DEFINE t == pump[r].v.t
           m == pump[r].v.m
<1>1. pump[r].pc = "check" /\ db' = db /\ up' = up
  BY DEF PumpCheck
<1>2. t \in Teams /\ m \in Members /\ pump[r].d # 0 /\ DOMAIN pump[r] = PumpFields
  BY <1>1 DEF StateOK, PumpOK, Carrying
<1>3. \/ up[r] # "up" \/ db[t].status # "active" \/ db[t].member[m] # "active"
      \/ db[t].del[m].id # pump[r].d
  <2>1. [pump EXCEPT ![r] = IdlePump][r] = IdlePump /\ IdlePump.d = 0
    BY IdlePumpFields DEF StateOK
  <2>2. [pump EXCEPT ![r] = [pump[r] EXCEPT !.pc = "acquire"]][r].d = pump[r].d
    BY <1>2 DEF StateOK, PumpFields
  <2>3. ~SetPump(r, [pump[r] EXCEPT !.pc = "acquire"])
    BY <1>2, <2>1, <2>2 DEF SetPump
  <2> QED
    BY <2>3 DEF PumpCheck
<1>4. db[t].del[m].id # 0 => db[t].member[m] = "active"
  BY <1>2, DeliveryTyped
<1> QED
  BY <1>1, <1>2, <1>3, <1>4, CarriedHere

\* A refused lease takes the delivery back.
LEMMA AcquireLetsGo ==
  ASSUME StateOK, CarriedInv, NEW r \in Runtimes, PumpAcquire(r), pump' = [pump EXCEPT ![r] = IdlePump]
  PROVE  LetsGo(r)
<1> DEFINE t == pump[r].v.t
           m == pump[r].v.m
           S == db[t]
<1>1. pump[r].pc = "acquire"
  BY DEF PumpAcquire
<1>2. t \in Teams /\ m \in Members /\ pump[r].d # 0 /\ DOMAIN pump[r] = PumpFields
  BY <1>1 DEF StateOK, PumpOK, Carrying
<1>3. Update(t, IF S.del[m].id = pump[r].d THEN Refused(S, m) ELSE S)
  <2>1. [pump EXCEPT ![r] = IdlePump][r] = IdlePump /\ IdlePump.d = 0
    BY IdlePumpFields DEF StateOK
  <2>2. [pump EXCEPT ![r] = [pump[r] EXCEPT !.pc = "prompt"]][r].d = pump[r].d
    BY <1>2 DEF StateOK, PumpFields
  <2>3. ~SetPump(r, [pump[r] EXCEPT !.pc = "prompt"])
    BY <1>2, <2>1, <2>2 DEF SetPump
  <2> QED
    BY <2>3 DEF PumpAcquire, Refused
<1>4. S.del[m].id = pump[r].d => db'[t].del[m].id = 0
  <2>1. ASSUME S.del[m].id = pump[r].d
        PROVE  db'[t].del[m].id = 0
    <3>1. db'[t] = Refused(S, m)
      BY <1>2, <1>3, <2>1 DEF Update, StateOK, RecordsOK
    <3>2. RecordTyped(S)
      BY <1>2 DEF StateOK, RecordsOK, RecordOK
    <3> HIDE DEF S, t, m
    <3>3. Refused(S, m).del[m] = NoDelivery
      BY <1>2, <3>2 DEF Refused, RecordTyped, TeamFields
    <3> QED
      BY <3>1, <3>3 DEF NoDelivery
  <2> QED
    BY <2>1
<1> QED
  BY <1>2, <1>4, CarriedHere

LEMMA AfterLetsGo ==
  ASSUME StateOK, CarriedInv, NEW r \in Runtimes, pump[r].pc = "after"
  PROVE  LetsGo(r)
BY DEF CarriedInv, LetsGo

LEMMA PumpLets ==
  ASSUME StateOK, LockInv, CarriedInv, NEW r \in Runtimes, PumpQuietly(r)
  PROVE  PumpsLet
<1>0. /\ RecordsOK /\ HostOK /\ PumpOK(r) /\ DOMAIN pump = Runtimes /\ DOMAIN pump[r] = PumpFields
      /\ IdlePump.d = 0
  BY IdlePumpFields DEF StateOK, PumpOK
<1>1. QuietDb /\ up' = up
  BY <1>0, PumpIsQuiet, PumpHost
<1>2. ASSUME NEW p, pump' = [pump EXCEPT ![r] = p], PumpLet(r, p)
      PROVE  PumpsLet
  <2>1. pump'[r] = p /\ \A q \in Runtimes : q # r => pump'[q] = pump[q]
    BY <1>0, <1>2
  <2> QED
    BY <1>2, <2>1 DEF PumpsLet, PumpLet
<1>3. ASSUME pump' = [pump EXCEPT ![r] = IdlePump], LetsGo(r)
      PROVE  PumpsLet
  BY <1>0, <1>2, <1>3 DEF PumpLet
<1>4. ASSUME NEW s, NEW pc, pc # "after", pump' = [pump EXCEPT ![r] = [pump[r] EXCEPT !.s = s, !.pc = pc]]
      PROVE  PumpsLet
  <2> DEFINE p == [pump[r] EXCEPT !.s = s, !.pc = pc]
  <2>1. p.d = pump[r].d /\ p.v = pump[r].v /\ p.pc = pc
    BY <1>0 DEF PumpFields
  <2> HIDE DEF p
  <2>2. PumpLet(r, p) /\ pump' = [pump EXCEPT ![r] = p]
    BY <1>4, <2>1 DEF PumpLet, p
  <2> QED
    BY <1>2, <2>2
<1>5. ASSUME NEW pc, pc # "after", SetPump(r, [pump[r] EXCEPT !.pc = pc])
      PROVE  PumpsLet
  <2> DEFINE p == [pump[r] EXCEPT !.pc = pc]
  <2>1. p.d = pump[r].d /\ p.v = pump[r].v /\ p.pc = pc
    BY <1>0 DEF PumpFields
  <2> HIDE DEF p
  <2>2. PumpLet(r, p) /\ pump' = [pump EXCEPT ![r] = p]
    BY <1>5, <2>1 DEF PumpLet, SetPump, p
  <2> QED
    BY <1>2, <2>2
<1>6. CASE PumpJudge(r) \/ PumpPrompt(r) \/ PumpCreate(r)
  <2>1. CASE PumpJudge(r)
    <3>1. SetPump(r, [pump[r] EXCEPT !.pc = "release"])
      BY <2>1 DEF PumpJudge
    <3> QED
      BY <1>5, <3>1
  <2>2. CASE PumpPrompt(r)
    <3>1. SetPump(r, [pump[r] EXCEPT !.pc = "reply"])
      BY <2>2 DEF PumpPrompt
    <3> QED
      BY <1>5, <3>1
  <2>3. CASE PumpCreate(r)
    <3>1. pump' = [pump EXCEPT ![r] = [pump[r] EXCEPT !.s = pump[r].d, !.pc = "check"]]
      BY <2>3 DEF PumpCreate, SetPump
    <3> QED
      BY <1>4, <3>1
  <2> QED
    BY <1>6, <2>1, <2>2, <2>3
<1>7. CASE PumpCheck(r)
  <2>1. pump' = [pump EXCEPT ![r] = IdlePump] \/ SetPump(r, [pump[r] EXCEPT !.pc = "acquire"])
    BY <1>7 DEF PumpCheck, SetPump
  <2>2. CASE pump' = [pump EXCEPT ![r] = IdlePump]
    BY <1>3, <1>7, <2>2, CheckLetsGo
  <2>3. CASE SetPump(r, [pump[r] EXCEPT !.pc = "acquire"])
    BY <1>5, <2>3
  <2> QED
    BY <2>1, <2>2, <2>3
<1>8. CASE PumpAcquire(r)
  <2>1. pump' = [pump EXCEPT ![r] = IdlePump] \/ SetPump(r, [pump[r] EXCEPT !.pc = "prompt"])
    BY <1>8 DEF PumpAcquire, SetPump
  <2>2. CASE pump' = [pump EXCEPT ![r] = IdlePump]
    BY <1>3, <1>8, <2>2, AcquireLetsGo
  <2>3. CASE SetPump(r, [pump[r] EXCEPT !.pc = "prompt"])
    BY <1>5, <2>3
  <2> QED
    BY <2>1, <2>2, <2>3
<1>9. CASE PumpRelease(r) \/ PumpAfter(r)
  <2>1. pump' = [pump EXCEPT ![r] = IdlePump] /\ pump[r].pc \in {"release", "after"}
    BY <1>9 DEF PumpRelease, PumpAfter, SetPump
  <2>2. pump[r].pc = "release" => pump[r].d = 0
    BY <1>0 DEF PumpOK, Carrying
  <2>3. LetsGo(r)
    BY <2>1, <2>2, AfterLetsGo DEF LetsGo
  <2> QED
    BY <1>3, <2>1, <2>3
<1>10. CASE PumpFault(r)
  <2>1. PumpThrow(r) /\ pump[r].pc \in Carrying
    BY <1>10 DEF PumpFault, PumpCreateFails, PumpReplyLost, PumpPromptFails, Carrying
  <2>2. LetsGo(r)
    BY <1>1, <2>1, ThrowLetsGo
  <2> QED
    BY <1>3, <2>1, <2>2 DEF PumpThrow, SetPump
<1>11. ASSUME NEW t \in Teams, PumpExpire(r, t) \/ PumpForget(r, t)
       PROVE  PumpsLet
  BY <1>11, PumpsSame DEF PumpExpire, PumpForget
<1>12. ASSUME NEW t \in Teams, NEW m \in Members, PumpVisit(r, t, m)
       PROVE  PumpsLet
  <2>1. pump[r].pc = "idle" => pump[r].d = 0
    BY <1>0 DEF PumpOK, Carrying
  <2>2. CASE PumpUnbindable(r, t, m)
    BY <2>2, PumpsSame DEF PumpUnbindable
  <2>3. CASE PumpObserve(r, t, m)
    <3> DEFINE p == [IdlePump EXCEPT !.pc = "judge", !.v = View(r, t, m)]
    <3>1. pump' = [pump EXCEPT ![r] = p] /\ pump[r].pc = "idle"
      BY <2>3 DEF PumpObserve, SetPump, Pumping
    <3>2. p.d = 0
      BY IdlePumpFields DEF PumpFields
    <3> HIDE DEF p
    <3> QED
      BY <1>2, <2>1, <3>1, <3>2 DEF PumpLet, LetsGo
  <2>4. CASE PumpLook(r, t, m)
    <3> DEFINE p == [pc |-> "reserve", v |-> [NoView EXCEPT !.t = t, !.m = m], d |-> 0,
                     s |-> db[t].session[m], cursor |-> db[t].cursor[m], through |-> Len(db[t].events)]
    <3>1. pump' = [pump EXCEPT ![r] = p] /\ pump[r].pc = "idle"
      BY <2>4 DEF PumpLook, SetPump, Pumping
    <3>2. p.d = 0
      OBVIOUS
    <3> HIDE DEF p
    <3> QED
      BY <1>2, <2>1, <3>1, <3>2 DEF PumpLet, LetsGo
  <2> QED
    BY <1>12, <2>2, <2>3, <2>4 DEF PumpVisit
<1> QED
  BY <1>6, <1>7, <1>8, <1>9, <1>10, <1>11, <1>12 DEF PumpQuietly

LEMMA DeliveryPump ==
  ASSUME StateOK, LockInv, DeliveryInv, NEW r \in Runtimes, PumpQuietly(r)
  PROVE  DeliveryInv'
<1>1. up' = up /\ nextD' = nextD /\ op' = op
  BY PumpHost
<1>2. PumpsLet
  BY PumpLets DEF DeliveryInv
<1>3. DelsShrink /\ OpensSafely
  BY PumpIsQuiet, QuietShrinks DEF StateOK
<1> QED
  BY <1>1, <1>2, <1>3, UpSame, OpsSame, DeliveryFrame

\* A reserved delivery has a new id, and the visit that reserved it carries it.
LEMMA ReservedKeeps ==
  ASSUME StateOK, DeliveryInv, NEW r \in Runtimes, ReservedNow(r), pump[r].pc = "reserve",
         up' = up, op' = op
  PROVE  DeliveryInv'
<1> DEFINE t == pump[r].v.t
           m == pump[r].v.m
           row == Reserved(r)
           p == [pump[r] EXCEPT !.d = nextD, !.pc = IF pump[r].s = NoSession THEN "create" ELSE "check"]
<1>1. /\ t \in Teams /\ m \in Members /\ up[r] \in {"up", "stopping"} /\ PumpOK(r)
      /\ nextD \in Nat /\ nextD > 0 /\ nextD' = nextD + 1
  BY TeamConstants DEF StateOK, PumpOK, HostOK, ReservedNow
<1>2. row.id = nextD /\ row.owner = r
  BY DEF Reserved
<1>3. /\ db'[t].del[m] = row /\ db'[t].status = "active"
      /\ \A u \in Teams, n \in Members : u # t \/ n # m => db'[u].del[n] = db[u].del[n]
      /\ \A u \in Teams : db'[u].status = db[u].status
  <2>1. DOMAIN db[t].del = Members
    BY <1>1 DEF StateOK, RecordsOK, RecordOK, RecordTyped
  <2> QED
    BY <1>1, <2>1 DEF ReservedNow
<1>4. pump'[r] = p /\ \A q \in Runtimes : q # r => pump'[q] = pump[q]
  BY DEF ReservedNow, StateOK
<1>5. p.d = nextD /\ p.v = pump[r].v /\ p.pc # "after"
  BY <1>1 DEF PumpOK, PumpFields
<1> HIDE DEF p, row
<1>6. \A u \in Teams, n \in Members : db[u].del[n].id \in Nat /\ db[u].del[n].id < nextD
  BY <1>1, DeliveryTyped DEF DeliveryInv, IdsInv
<1> HIDE DEF t, m
<1>7. IdsInv'
  <2>1. ASSUME NEW u \in Teams, NEW n \in Members, u # t \/ n # m, db'[u].del[n].id # 0
        PROVE  /\ db'[u].del[n].id < nextD' /\ up'[db'[u].del[n].owner] # "new"
               /\ \A w \in Teams, k \in Members : db'[w].del[k].id = db'[u].del[n].id => w = u /\ k = n
    <3>1. db'[u].del[n] = db[u].del[n]
      BY <1>3, <2>1
    <3>2. up[db[u].del[n].owner] # "new"
      BY <2>1, <3>1 DEF DeliveryInv, IdsInv
    <3>3. ASSUME NEW w \in Teams, NEW k \in Members, db'[w].del[k].id = db'[u].del[n].id
          PROVE  w = u /\ k = n
      <4>1. w # t \/ k # m
        BY <1>1, <1>2, <1>3, <1>6, <3>1, <3>3
      <4>2. db[w].del[k].id = db[u].del[n].id
        BY <1>3, <3>1, <3>3, <4>1
      <4> QED
        BY <2>1, <3>1, <4>2 DEF DeliveryInv, IdsInv
    <3> QED
      BY <1>1, <1>6, <3>1, <3>2, <3>3
  <2>2. /\ db'[t].del[m].id < nextD' /\ up'[db'[t].del[m].owner] # "new"
        /\ \A w \in Teams, k \in Members : db'[w].del[k].id = db'[t].del[m].id => w = t /\ k = m
    BY <1>1, <1>2, <1>3, <1>6
  <2> QED
    BY <2>1, <2>2 DEF IdsInv
<1>8. CarriedInv'
  <2>1. ASSUME NEW q \in Runtimes, NEW u \in Teams, NEW n \in Members, q # r,
               pump'[q].d # 0, db'[u].del[n].id = pump'[q].d
        PROVE  /\ u = pump'[q].v.t /\ n = pump'[q].v.m
               /\ pump'[q].pc = "after" => db'[u].del[n].prompted
    <3>1. pump'[q] = pump[q] /\ pump[q].d \in Nat /\ pump[q].d < nextD
      BY <1>4, <2>1 DEF StateOK, PumpOK
    <3>2. u # t \/ n # m
      BY <1>1, <1>2, <1>3, <2>1, <3>1
    <3>3. db'[u].del[n] = db[u].del[n]
      BY <1>3, <3>2
    <3> QED
      BY <2>1, <3>1, <3>3 DEF DeliveryInv, CarriedInv
  <2>2. ASSUME NEW u \in Teams, NEW n \in Members, db'[u].del[n].id = pump'[r].d
        PROVE  /\ u = pump'[r].v.t /\ n = pump'[r].v.m
               /\ pump'[r].pc = "after" => db'[u].del[n].prompted
    <3>1. u = t /\ n = m
      BY <1>1, <1>3, <1>4, <1>5, <1>6, <2>2
    <3> QED
      BY <1>4, <1>5, <3>1 DEF t, m
  <2> QED
    BY <2>1, <2>2 DEF CarriedInv
<1>9. VouchedInv'
  <2>1. ASSUME NEW o \in Ops, NEW d \in Vouched(o)', d # 0
        PROVE  ConfirmedId(d)'
    <3>1. ConfirmedId(d)
      BY <2>1 DEF DeliveryInv, VouchedInv, Vouched
    <3>2. d \in Nat /\ d < nextD
      BY <3>1 DEF ConfirmedId
    <3>3. ASSUME NEW u \in Teams, NEW n \in Members, db'[u].del[n].id = d
          PROVE  db'[u].del[n].prompted
      <4>1. u # t \/ n # m
        BY <1>1, <1>2, <1>3, <3>2, <3>3
      <4>2. db'[u].del[n] = db[u].del[n]
        BY <1>3, <4>1
      <4> QED
        BY <3>1, <3>3, <4>2 DEF ConfirmedId
    <3>4. d \in Nat /\ d < nextD'
      BY <1>1, <3>2
    <3> QED
      BY <3>3, <3>4 DEF ConfirmedId
  <2> QED
    BY <2>1 DEF VouchedInv
<1>10. AnsweredInv'
  <2>1. ASSUME NEW u \in Teams, NEW n \in Members, u # t \/ n # m,
               db'[u].status = "active", db'[u].del[n].id # 0
        PROVE  \/ up'[db'[u].del[n].owner] # "up"
               \/ pump'[db'[u].del[n].owner].d = db'[u].del[n].id
               \/ db'[u].del[n].prompted
    <3>1. db'[u].del[n] = db[u].del[n] /\ db[u].status = "active"
      BY <1>3, <2>1
    <3> DEFINE q == db[u].del[n].owner
    <3>2. q \in Runtimes
      BY <2>1, <3>1, DeliveryTyped
    <3>3. up[q] # "up" \/ pump[q].d = db[u].del[n].id \/ db[u].del[n].prompted
      BY <2>1, <3>1 DEF DeliveryInv, AnsweredInv
    <3>4. pump[r].d = 0
      BY <1>1 DEF PumpOK, Carrying
    <3> HIDE DEF q
    <3>5. pump[q].d = db[u].del[n].id => pump'[q].d = db[u].del[n].id
      BY <1>4, <2>1, <3>1, <3>2, <3>4
    <3> QED
      BY <3>1, <3>3, <3>5 DEF q
  <2>2. pump'[db'[t].del[m].owner].d = db'[t].del[m].id
    BY <1>2, <1>3, <1>4, <1>5
  <2> QED
    BY <2>1, <2>2 DEF AnsweredInv
<1> QED
  BY <1>7, <1>8, <1>9, <1>10 DEF DeliveryInv

LEMMA DeliveryReserve ==
  ASSUME StateOK, DeliveryInv, NEW r \in Runtimes, PumpReserve(r)
  PROVE  DeliveryInv'
<1>0. RecordsOK /\ HostOK /\ PumpOK(r) /\ DOMAIN pump = Runtimes
  BY DEF StateOK
<1>1. up' = up /\ op' = op /\ pump[r].pc = "reserve"
  BY DEF PumpReserve
<1>2. \/ QuietDb /\ nextD' = nextD /\ pump' = [pump EXCEPT ![r] = IdlePump]
      \/ ReservedNow(r)
  BY <1>0, ReserveStep
<1>3. CASE ReservedNow(r)
  BY <1>1, <1>3, ReservedKeeps
<1>4. CASE QuietDb /\ nextD' = nextD /\ pump' = [pump EXCEPT ![r] = IdlePump]
  <2>1. pump[r].d = 0
    BY <1>0, <1>1 DEF PumpOK, Carrying
  <2>2. pump'[r] = IdlePump /\ \A q \in Runtimes : q # r => pump'[q] = pump[q]
    BY <1>0, <1>4
  <2>3. PumpsLet
    BY <2>1, <2>2, IdlePumpFields DEF PumpsLet, PumpLet, LetsGo
  <2> QED
    BY <1>1, <1>4, <2>3, QuietShrinks, UpSame, OpsSame, DeliveryFrame
<1> QED
  BY <1>2, <1>3, <1>4

\* The confirmation is recorded before the visit goes on.
LEMMA DeliveryReply ==
  ASSUME StateOK, DeliveryInv, NEW r \in Runtimes, PumpReply(r)
  PROVE  DeliveryInv'
<1> DEFINE t == pump[r].v.t
           m == pump[r].v.m
           p == [pump[r] EXCEPT !.pc = "after"]
<1>0. RecordsOK /\ PumpOK(r) /\ DOMAIN pump = Runtimes
  BY DEF StateOK
<1>1. /\ up' = up /\ op' = op /\ nextD' = nextD /\ pump' = [pump EXCEPT ![r] = p]
      /\ pump[r].pc = "reply"
  BY DEF PumpReply, SetPump
<1>2. t \in Teams /\ m \in Members /\ pump[r].d # 0
  BY <1>0, <1>1 DEF PumpOK, Carrying
<1>3. ConfirmedNow(r)
  BY <1>0, ReplyStep
<1>4. pump'[r] = p /\ \A q \in Runtimes : q # r => pump'[q] = pump[q]
  BY <1>0, <1>1
<1>5. p.d = pump[r].d /\ p.v = pump[r].v
  BY <1>0 DEF PumpOK, PumpFields
<1> HIDE DEF p
<1>6. db[t].del \in [Members -> DeliveryRows]
  BY <1>2 DEF StateOK, RecordsOK, RecordOK, RecordTyped
<1>7. /\ \A u \in Teams, n \in Members : u # t \/ n # m => db'[u].del[n] = db[u].del[n]
      /\ db'[t].del[m].id = db[t].del[m].id /\ db'[t].del[m].owner = db[t].del[m].owner
      /\ db[t].del[m].id = pump[r].d => db'[t].del[m].prompted
      /\ db[t].del[m].id # pump[r].d => db'[t].del[m] = db[t].del[m]
      /\ \A u \in Teams : db'[u].status = db[u].status
  <2>1. \A u \in Teams : db'[u].status = db[u].status
    BY <1>3 DEF ConfirmedNow
  <2>2. \A u \in Teams : u # t => db'[u] = db[u]
    BY <1>3 DEF ConfirmedNow
  <2>3. CASE db[t].del[m].id # pump[r].d
    <3>1. db'[t].del = db[t].del
      BY <1>3, <2>3 DEF ConfirmedNow
    <3> QED
      BY <2>1, <2>2, <2>3, <3>1
  <2>4. CASE db[t].del[m].id = pump[r].d
    <3> DEFINE D == db[t].del
               E == [D EXCEPT ![m].prompted = TRUE]
    <3>1. db'[t].del = E
      BY <1>3, <2>4 DEF ConfirmedNow
    <3> HIDE DEF D
    <3>2. D \in [Members -> DeliveryRows]
      BY <1>6 DEF D
    <3>3. \A n \in Members : n # m => E[n] = D[n]
      BY <3>2
    <3>4. E[m] = [D[m] EXCEPT !.prompted = TRUE] /\ D[m] \in DeliveryRows
      BY <1>2, <3>2
    <3> HIDE DEF E
    <3>5. E[m].id = D[m].id /\ E[m].owner = D[m].owner /\ E[m].prompted
      BY <3>4 DEF DeliveryRows
    <3> QED
      BY <2>1, <2>2, <2>4, <3>1, <3>3, <3>5 DEF D
  <2> QED
    BY <2>3, <2>4
<1> HIDE DEF t, m
<1>8. DelsShrink
  BY <1>7 DEF DelsShrink
<1>9. OpensSafely /\ StartsOnly
  BY <1>1, <1>7 DEF OpensSafely, StartsOnly
<1>10. IdsInv' /\ VouchedInv'
  BY <1>1, <1>8, <1>9, OpsSame, IdsShrink, VouchedShrink DEF DeliveryInv
<1>11. CarriedInv'
  <2>1. ASSUME NEW q \in Runtimes, NEW u \in Teams, NEW n \in Members,
               pump'[q].d # 0, db'[u].del[n].id = pump'[q].d
        PROVE  /\ u = pump'[q].v.t /\ n = pump'[q].v.m
               /\ pump'[q].pc = "after" => db'[u].del[n].prompted
    <3>1. db[u].del[n].id = pump[q].d /\ pump[q].d # 0 /\ pump'[q].v = pump[q].v
      BY <1>4, <1>5, <1>7, <2>1
    <3>2. u = pump[q].v.t /\ n = pump[q].v.m /\ (pump[q].pc = "after" => db[u].del[n].prompted)
      BY <3>1 DEF DeliveryInv, CarriedInv
    <3>3. CASE q = r
      BY <1>7, <3>1, <3>2, <3>3 DEF t, m
    <3>4. CASE q # r
      BY <1>4, <1>8, <2>1, <3>1, <3>2, <3>4 DEF DelsShrink
    <3> QED
      BY <3>3, <3>4
  <2> QED
    BY <2>1 DEF CarriedInv
<1>12. AnsweredInv'
  <2>1. ASSUME NEW u \in Teams, NEW n \in Members, db'[u].status = "active", db'[u].del[n].id # 0
        PROVE  \/ up'[db'[u].del[n].owner] # "up"
               \/ pump'[db'[u].del[n].owner].d = db'[u].del[n].id
               \/ db'[u].del[n].prompted
    <3> DEFINE q == db[u].del[n].owner
    <3>1. /\ db[u].status = "active" /\ db[u].del[n].id # 0 /\ db'[u].del[n].id = db[u].del[n].id
          /\ db'[u].del[n].owner = q /\ (db[u].del[n].prompted => db'[u].del[n].prompted)
      BY <1>7, <1>8, <2>1 DEF DelsShrink
    <3>2. q \in Runtimes
      BY <3>1, DeliveryTyped
    <3>3. up[q] # "up" \/ pump[q].d = db[u].del[n].id \/ db[u].del[n].prompted
      BY <3>1 DEF DeliveryInv, AnsweredInv
    <3> HIDE DEF q
    <3>4. pump'[q].d = pump[q].d
      BY <1>4, <1>5, <3>2
    <3> QED
      BY <1>1, <3>1, <3>3, <3>4
  <2> QED
    BY <2>1 DEF AnsweredInv
<1> QED
  BY <1>10, <1>11, <1>12 DEF DeliveryInv

-----------------------------------------------------------------------------
(* The other steps.                                                        *)

\* An operation that has not begun, or is over, vouches for nothing.
LEMMA NewVouchesNothing ==
  ASSUME NEW o \in Ops, op'[o].keep = NewOp.keep, op'[o].seen = NewOp.seen
  PROVE  Vouched(o)' = {}
<1>1. op'[o].keep = {} /\ op'[o].seen = NothingSeen
  BY DEF NewOp
<1>2. \A n \in Members : NothingSeen.del[n] = NoDelivery
  BY DEF NothingSeen
<1>3. NoDelivery.prompted = FALSE
  BY DEF NoDelivery
<1> QED
  BY <1>1, <1>2, <1>3 DEF Vouched

LEMMA OthersVouch ==
  ASSUME StateOK, NEW o \in Ops, NEW q, op' = [op EXCEPT ![o] = q], Vouched(o)' \subseteq Vouched(o)
  PROVE  \A u \in Ops : Vouched(u)' \subseteq Vouched(u)
<1>1. \A u \in Ops : u # o => op'[u] = op[u]
  BY DEF StateOK
<1>2. ASSUME NEW u \in Ops, u # o
      PROVE  Vouched(u)' = Vouched(u)
  BY <1>1, <1>2 DEF Vouched
<1> QED
  BY <1>2

LEMMA DeliveryLeave ==
  ASSUME StateOK, DeliveryInv, NEW r \in Runtimes, NEW st, Leave(r, st)
  PROVE  DeliveryInv'
<1>1. /\ up' = [up EXCEPT ![r] = "down"] /\ pump' = [pump EXCEPT ![r] = IdlePump]
      /\ op' = [o \in Ops |-> IF op[o].r = r THEN [NewOp EXCEPT !.pc = "gone", !.r = r] ELSE op[o]]
      /\ db' = db /\ nextD' = nextD
  BY DEF Leave
<1>2. StartsOnly /\ up'[r] = "down"
  BY <1>1 DEF StateOK, HostOK, StartsOnly
<1>3. PumpsLet
  <2>1. pump'[r] = IdlePump /\ \A q \in Runtimes : q # r => pump'[q] = pump[q]
    BY <1>1 DEF StateOK
  <2>2. LetsGo(r)
    BY <1>2 DEF LetsGo
  <2> QED
    BY <2>1, <2>2, IdlePumpFields DEF PumpsLet, PumpLet
<1>4. DelsShrink /\ OpensSafely
  BY <1>1 DEF DelsShrink, OpensSafely
<1>5. ASSUME NEW o \in Ops
      PROVE  Vouched(o)' \subseteq Vouched(o)
  <2>1. CASE op[o].r = r
    <3>1. op'[o] = [NewOp EXCEPT !.pc = "gone", !.r = r]
      BY <1>1, <2>1
    <3>2. op'[o].keep = NewOp.keep /\ op'[o].seen = NewOp.seen
      BY <3>1, NewOpFields DEF OpFields
    <3> QED
      BY <3>2, NewVouchesNothing
  <2>2. CASE op[o].r # r
    <3>1. op'[o] = op[o]
      BY <1>1, <2>2
    <3> QED
      BY <3>1 DEF Vouched
  <2> QED
    BY <2>1, <2>2
<1> QED
  BY <1>1, <1>2, <1>3, <1>4, <1>5, DeliveryFrame

LEMMA DeliveryHost ==
  ASSUME StateOK, DeliveryInv, HostQuietly
  PROVE  DeliveryInv'
<1>1. ASSUME NEW r \in Runtimes, Crash(r) \/ Disposed(r)
      PROVE  DeliveryInv'
  BY <1>1, DeliveryLeave DEF Crash, Disposed
<1>2. ASSUME ~\E r \in Runtimes : Crash(r) \/ Disposed(r)
      PROVE  DeliveryInv'
  <2>1. /\ op' = op /\ pump' = pump /\ nextD' = nextD
        /\ \/ up' = up
           \/ \E r \in Runtimes : up[r] = "new" /\ up' = [up EXCEPT ![r] = "up"]
           \/ \E r \in Runtimes : up' = [up EXCEPT ![r] = "stopping"]
    BY <1>2 DEF HostQuietly, Start, Restore, Stop, SessionError, LatePrompt, UserTurn, TurnStarts, TurnEnds
  <2>2. StartsOnly
    BY <2>1 DEF StateOK, HostOK, StartsOnly
  <2>3. DelsShrink /\ OpensSafely
    BY HostIsQuiet, QuietShrinks DEF StateOK
  <2> QED
    BY <2>1, <2>2, <2>3, PumpsSame, OpsSame, DeliveryFrame
<1> QED
  BY <1>1, <1>2

LEMMA DeliveryMember ==
  ASSUME StateOK, DeliveryInv, NEW t \in Teams, MemberQuietly(t) \/ Create(t) \/ Settles(t)
  PROVE  DeliveryInv'
<1>1. op' = op /\ up' = up /\ pump' = pump /\ nextD' = nextD
  BY DEF MemberQuietly, Create, Settles, SettleTask, Add, SendMessage, OfferTask, ClaimTask, ClaimLapses
<1>2. DelsShrink /\ OpensSafely
  <2>1. CASE MemberQuietly(t) \/ Settles(t)
    <3>1. QuietDb
      BY <2>1, MemberIsQuiet, SettleIsQuiet DEF StateOK, Settles
    <3> QED
      BY <3>1, QuietShrinks
  <2>2. CASE Create(t)
    <3>1. /\ \A m \in Members : db'[t].del[m] = NoDelivery
          /\ \A u \in Teams : u # t => db'[u] = db[u]
      BY <2>2, CreateStep DEF StateOK
    <3>2. NoDelivery.id = 0
      BY DEF NoDelivery
    <3> QED
      BY <3>1, <3>2 DEF DelsShrink, OpensSafely
  <2> QED
    BY <2>1, <2>2
<1> QED
  BY <1>1, <1>2, PumpsSame, OpsSame, UpSame, DeliveryFrame

LEMMA DeliveryBegin ==
  ASSUME StateOK, DeliveryInv, NEW t \in Teams, Begins(t)
  PROVE  DeliveryInv'
<1>1. PICK o \in Ops, kind \in {"remove", "delete", "resume"}, by \in Members, m \in Members \cup {NoOne} :
        Begin(o, kind, t, by, m, "read")
  BY BeginsAre
<1>2. /\ db'[t].status = "paused" /\ db'[t].del = db[t].del
      /\ \A u \in Teams : u # t => db'[u] = db[u]
  BY <1>1, BeginStep DEF StateOK
<1> DEFINE q == [NewOp EXCEPT !.pc = "read", !.kind = kind, !.r = Desk(t, by), !.t = t,
                              !.by = by, !.m = m]
<1>3. op' = [op EXCEPT ![o] = q] /\ up' = up /\ pump' = pump /\ nextD' = nextD
  BY <1>1 DEF Begin, SetOp
<1>4. q.keep = NewOp.keep /\ q.seen = NewOp.seen
  BY NewOpFields DEF OpFields
<1> HIDE DEF q
<1>5. op'[o] = q
  BY <1>3 DEF StateOK
<1>6. \A u \in Ops : Vouched(u)' \subseteq Vouched(u)
  BY <1>3, <1>4, <1>5, NewVouchesNothing, OthersVouch
<1>7. DelsShrink /\ OpensSafely
  BY <1>2 DEF DelsShrink, OpensSafely
<1> QED
  BY <1>3, <1>6, <1>7, PumpsSame, UpSame, DeliveryFrame

LEMMA DeliveryEnd ==
  ASSUME StateOK, DeliveryInv, NEW o \in Ops, OpEnd(o)
  PROVE  DeliveryInv'
<1> DEFINE q == [NewOp EXCEPT !.pc = "done"]
<1>1. op' = [op EXCEPT ![o] = q] /\ up' = up /\ pump' = pump /\ nextD' = nextD
  BY DEF OpEnd, SetOp
<1>2. /\ db'[op[o].t].status = db[op[o].t].status /\ db'[op[o].t].del = db[op[o].t].del
      /\ \A u \in Teams : u # op[o].t => db'[u] = db[u]
  BY EndStep DEF StateOK
<1>3. q.keep = NewOp.keep /\ q.seen = NewOp.seen
  BY NewOpFields DEF OpFields
<1> HIDE DEF q
<1>4. op'[o] = q
  BY <1>1 DEF StateOK
<1>5. \A u \in Ops : Vouched(u)' \subseteq Vouched(u)
  BY <1>1, <1>3, <1>4, NewVouchesNothing, OthersVouch
<1>6. DelsShrink /\ OpensSafely
  BY <1>2 DEF DelsShrink, OpensSafely
<1> QED
  BY <1>1, <1>5, <1>6, PumpsSame, UpSame, DeliveryFrame

\* resume() opens the team only over deliveries it took for confirmed.
LEMMA DeliveryResume ==
  ASSUME StateOK, DeliveryInv, NEW o \in Ops, OpResume(o)
  PROVE  DeliveryInv'
<1> DEFINE q == [op[o] EXCEPT !.pc = "end"]
           t == op[o].t
<1>1. op' = [op EXCEPT ![o] = q] /\ up' = up /\ pump' = pump /\ nextD' = nextD
  BY DEF OpResume, Goto, SetOp
<1>2. OpOK(o)
  BY DEF StateOK
<1>3. /\ db'[t].del = db[t].del
      /\ db'[t].status # db[t].status => Resumable(db[t], o)
      /\ \A u \in Teams : u # t => db'[u] = db[u]
  BY <1>2, ResumeStep DEF StateOK
<1>4. q.keep = op[o].keep /\ q.seen = op[o].seen
  BY <1>2 DEF OpOK, OpFields
<1> HIDE DEF q
<1>5. op'[o] = q
  BY <1>1 DEF StateOK
<1>6. \A u \in Ops : Vouched(u)' \subseteq Vouched(u)
  <2>1. Vouched(o)' = Vouched(o)
    BY <1>4, <1>5 DEF Vouched
  <2> QED
    BY <1>1, <2>1, OthersVouch
<1>7. DelsShrink
  BY <1>3 DEF DelsShrink
<1>8. OpensSafely
  <2>1. ASSUME db'[t].status # db[t].status, t \in Teams, NEW m \in Members, db[t].del[m].id # 0
        PROVE  db[t].del[m].prompted
    <3>1. db[t].del[m].id \in op[o].keep
      BY <1>3, <2>1 DEF Resumable, Deliveries
    <3>2. ConfirmedId(db[t].del[m].id)
      BY <2>1, <3>1 DEF DeliveryInv, VouchedInv, Vouched
    <3> QED
      BY <2>1, <3>2 DEF ConfirmedId
  <2> QED
    BY <1>3, <2>1 DEF OpensSafely
<1> QED
  BY <1>1, <1>6, <1>7, <1>8, PumpsSame, UpSame, DeliveryFrame

\* What an operation vouches for after one of its steps.
LEMMA OpVouches ==
  ASSUME StateOK, DeliveryInv, NEW o \in Ops, OpQuietly(o)
  PROVE  \A d \in Vouched(o)' : d # 0 => d \in Vouched(o) \/ ConfirmedId(d)
<1>0. DOMAIN op = Ops /\ DOMAIN op[o] = OpFields /\ OpOK(o)
  BY DEF StateOK, OpOK
<1>1. ASSUME op'[o].keep = op[o].keep, op'[o].seen = op[o].seen
      PROVE  Vouched(o)' = Vouched(o)
  BY <1>1 DEF Vouched
<1>2. ASSUME NEW pc, Goto(o, pc)
      PROVE  Vouched(o)' = Vouched(o)
  <2>1. op'[o] = [op[o] EXCEPT !.pc = pc]
    BY <1>0, <1>2 DEF Goto, SetOp
  <2> QED
    BY <1>0, <1>1, <2>1 DEF OpFields
<1>3. ASSUME NEW pc, NEW todo, GotoWith(o, pc, todo)
      PROVE  Vouched(o)' = Vouched(o)
  <2>1. op'[o] = [op[o] EXCEPT !.pc = pc, !.todo = todo]
    BY <1>0, <1>3 DEF GotoWith, SetOp
  <2> QED
    BY <1>0, <1>1, <2>1 DEF OpFields
<1>4. CASE OpRead(o)
  <2>1. \E pc, todo : GotoWith(o, pc, todo)
    <3>1. op[o].kind \in {"remove", "delete", "resume"}
      BY <1>0, <1>4 DEF OpRead, OpOK, Working, At
    <3>2. \/ GotoWith(o, "abort", InFlight(db[op[o].t]) \cap {op[o].m})
          \/ GotoWith(o, "abort", InFlight(db[op[o].t]))
          \/ GotoWith(o, "prepare", Bound(db[op[o].t]))
      BY <1>4, <3>1 DEF OpRead
    <3> QED
      BY <3>2
  <2> QED
    BY <1>3, <2>1
<1>5. CASE OpCommit(o) \/ OpForget(o) \/ OpJudge(o)
  <2>1. \E pc : Goto(o, pc)
    BY <1>5 DEF OpCommit, OpForget, OpJudge
  <2> QED
    BY <1>2, <2>1
<1>6. CASE OpPrepared(o)
  BY <1>3, <1>6 DEF OpPrepared
<1>7. CASE OpRelease(o) \/ OpFree(o)
  <2>1. \/ op'[o] = [op[o] EXCEPT !.pc = "reconcile", !.v = NoView]
        \/ op'[o] = [op[o] EXCEPT !.pc = "sort", !.m = NoOne]
    BY <1>0, <1>7 DEF OpRelease, OpFree, SetOp
  <2>2. op'[o].keep = op[o].keep /\ op'[o].seen = op[o].seen
    BY <1>0, <2>1 DEF OpFields
  <2> QED
    BY <1>1, <2>2
<1>8. ASSUME NEW m \in Members, OpAbort(o, m) \/ OpPrepare(o, m)
      PROVE  Vouched(o)' = Vouched(o)
  <2>1. (\E pc : Goto(o, pc)) \/ \E pc, todo : GotoWith(o, pc, todo)
    BY <1>8 DEF OpAbort, OpPrepare
  <2> QED
    BY <1>2, <1>3, <2>1
<1>9. ASSUME NEW m \in Members, OpReconcile(o, m)
      PROVE  Vouched(o)' = Vouched(o)
  <2>1. \E todo, pc, v : op'[o] = [op[o] EXCEPT !.todo = todo, !.pc = pc, !.v = v]
    <3> DEFINE see == CanObserve(op[o].r, op[o].t, m)
               todo == op[o].todo \ {m}
               pc == IF see THEN "judge" ELSE op[o].pc
               v == IF see THEN View(op[o].r, op[o].t, m) ELSE op[o].v
    <3>1. op'[o] = [op[o] EXCEPT !.todo = todo, !.pc = pc, !.v = v]
      BY <1>0, <1>9 DEF OpReconcile, SetOp
    <3> HIDE DEF todo, pc, v
    <3> QED
      BY <3>1
  <2>2. op'[o].keep = op[o].keep /\ op'[o].seen = op[o].seen
    BY <1>0, <2>1 DEF OpFields
  <2> QED
    BY <1>1, <2>2
<1>10. ASSUME NEW m \in Members, OpSort(o, m)
       PROVE  Vouched(o)' \subseteq Vouched(o)
  <2> DEFINE d == op[o].seen.del[m].id
             q1 == [op[o] EXCEPT !.todo = @ \ {m}, !.keep = @ \cup {d}]
             q2 == [op[o] EXCEPT !.pc = IF db[op[o].t].del[m].id = d THEN "free" ELSE @,
                                 !.todo = @ \ {m}, !.m = m]
  <2>1. \/ op[o].seen.del[m].prompted /\ SetOp(o, q1)
        \/ SetOp(o, q2)
        \/ Goto(o, "end")
    BY <1>10 DEF OpSort, ConfirmedRunning
  <2>2. CASE Goto(o, "end")
    BY <1>2, <2>2
  <2>3. CASE SetOp(o, q2)
    <3>1. op'[o] = q2
      BY <1>0, <2>3 DEF SetOp
    <3>2. op'[o].keep = op[o].keep /\ op'[o].seen = op[o].seen
      BY <1>0, <3>1 DEF OpFields
    <3> QED
      BY <1>1, <3>2
  <2>4. CASE op[o].seen.del[m].prompted /\ SetOp(o, q1)
    <3>1. op'[o] = q1
      BY <1>0, <2>4 DEF SetOp
    <3> HIDE DEF d
    <3>2. op'[o].keep = op[o].keep \cup {d} /\ op'[o].seen = op[o].seen
      BY <1>0, <3>1 DEF OpFields
    <3>3. d \in Vouched(o)
      BY <2>4 DEF d, Vouched
    <3> QED
      BY <3>2, <3>3 DEF Vouched
  <2> QED
    BY <2>1, <2>2, <2>3, <2>4
<1>11. CASE OpReconciled(o)
  <2> DEFINE S == db[op[o].t]
             seen == [del |-> S.del, error |-> S.error]
             q == [op[o] EXCEPT !.pc = "sort", !.todo = Deliveries(S), !.seen = seen]
  <2>1. op'[o] = q /\ op[o].t \in Teams
    BY <1>0, <1>11 DEF OpReconciled, SetOp, OpOK, Working, At
  <2>2. seen.del = S.del
    OBVIOUS
  <2> HIDE DEF seen, S
  <2>3. q.keep = op[o].keep /\ q.seen = seen
    BY <1>0 DEF OpFields
  <2> HIDE DEF q
  <2>4. ASSUME NEW m \in Members, S.del[m].prompted, S.del[m].id # 0
        PROVE  ConfirmedId(S.del[m].id)
    <3>1. S.del[m].id \in Nat /\ S.del[m].id < nextD
      BY <2>1, <2>4, DeliveryTyped DEF S, DeliveryInv, IdsInv
    <3>2. ASSUME NEW u \in Teams, NEW n \in Members, db[u].del[n].id = S.del[m].id
          PROVE  db[u].del[n].prompted
      BY <2>1, <2>4, <3>2 DEF S, DeliveryInv, IdsInv
    <3> QED
      BY <3>1, <3>2 DEF ConfirmedId
  <2>5. \A d \in Vouched(o)' : d \in op[o].keep \/ \E m \in Members : d = S.del[m].id /\ S.del[m].prompted
    BY <2>1, <2>2, <2>3 DEF Vouched
  <2> QED
    BY <2>4, <2>5 DEF Vouched
<1> QED
  BY <1>4, <1>5, <1>6, <1>7, <1>8, <1>9, <1>10, <1>11 DEF OpQuietly

LEMMA DeliveryOp ==
  ASSUME StateOK, DeliveryInv, NEW o \in Ops, OpQuietly(o)
  PROVE  DeliveryInv'
<1>1. up' = up /\ nextD' = nextD /\ pump' = pump
  BY OpHost
<1>2. DelsShrink /\ OpensSafely
  BY OpIsQuiet, QuietShrinks DEF StateOK
<1>3. PICK q : op' = [op EXCEPT ![o] = q]
  BY OpMoves
<1>4. \A u \in Ops : u # o => op'[u] = op[u]
  BY <1>3 DEF StateOK
<1>5. VouchedInv'
  <2>1. ASSUME NEW u \in Ops, NEW d \in Vouched(u)', d # 0
        PROVE  ConfirmedId(d)'
    <3>1. CASE u = o
      BY <1>1, <1>2, <2>1, <3>1, OpVouches, ConfirmedShrink DEF DeliveryInv, VouchedInv
    <3>2. CASE u # o
      <4>1. d \in Vouched(u)
        BY <1>4, <2>1, <3>2 DEF Vouched
      <4> QED
        BY <1>1, <1>2, <2>1, <4>1, ConfirmedShrink DEF DeliveryInv, VouchedInv
    <3> QED
      BY <3>1, <3>2
  <2> QED
    BY <2>1 DEF VouchedInv
<1> QED
  BY <1>1, <1>2, <1>5, PumpsSame, UpSame, IdsShrink, CarriedShrink, AnsweredShrink DEF DeliveryInv

LEMMA DeliveryKept == StateOK /\ LockInv /\ DeliveryInv /\ [Next]_vars => DeliveryInv'
<1> SUFFICES ASSUME StateOK, LockInv, DeliveryInv, [Next]_vars PROVE DeliveryInv'
  OBVIOUS
<1>1. CASE UNCHANGED vars
  BY <1>1 DEF vars, DeliveryInv, IdsInv, CarriedInv, VouchedInv, AnsweredInv, Vouched, ConfirmedId
<1>2. CASE Next
  <2>1. ASSUME NEW r \in Runtimes, PumpQuietly(r) \/ PumpReserve(r) \/ PumpReply(r)
        PROVE  DeliveryInv'
    BY <2>1, DeliveryPump, DeliveryReserve, DeliveryReply
  <2>2. CASE HostQuietly
    BY <2>2, DeliveryHost
  <2>3. ASSUME NEW t \in Teams, MemberQuietly(t) \/ Create(t) \/ Settles(t)
        PROVE  DeliveryInv'
    BY <2>3, DeliveryMember
  <2>4. ASSUME NEW t \in Teams, Begins(t)
        PROVE  DeliveryInv'
    BY <2>4, DeliveryBegin
  <2>5. ASSUME NEW o \in Ops, OpQuietly(o) \/ OpEnd(o) \/ OpResume(o)
        PROVE  DeliveryInv'
    BY <2>5, DeliveryOp, DeliveryEnd, DeliveryResume
  <2> QED
    BY <1>2, <2>1, <2>2, <2>3, <2>4, <2>5, StepKinds
<1> QED
  BY <1>1, <1>2

LEMMA InitDeliveries == Init => DeliveryInv
<1> SUFFICES ASSUME Init PROVE DeliveryInv
  OBVIOUS
<1>1. \A t \in Teams, m \in Members : db[t].del[m].id = 0
  BY DEF Init, NewTeam, NoDelivery
<1>2. \A r \in Runtimes : pump[r].d = 0
  BY IdlePumpFields DEF Init
<1>3. \A o \in Ops : Vouched(o) = {}
  <2>1. \A o \in Ops : op[o] = NewOp
    BY DEF Init
  <2>2. NewOp.keep = {} /\ \A n \in Members : NewOp.seen.del[n] = NoDelivery
    BY DEF NewOp, NothingSeen
  <2>3. NoDelivery.prompted = FALSE
    BY DEF NoDelivery
  <2> QED
    BY <2>1, <2>2, <2>3 DEF Vouched
<1> QED
  BY <1>1, <1>2, <1>3 DEF DeliveryInv, IdsInv, CarriedInv, VouchedInv, AnsweredInv

LEMMA DeliveryHolds == Spec => []DeliveryInv
BY InitDeliveries, StateHolds, LockHolds, DeliveryKept, PTL DEF Spec

\* An active team has no failed member, and each delivery of it has someone left to settle it:
\* the visit that carries it, the host that confirmed its prompt, or another runtime once its
\* owner is gone.  It covers prompts and confirmations lost, crashes between any two
\* transactions, and the one stale read resume() sorts deliveries by.
THEOREM DeliveriesAreAnswered == Spec => []DeliveryAnswered
<1>1. StateOK /\ DeliveryInv => DeliveryAnswered
  <2> SUFFICES ASSUME StateOK, DeliveryInv, NEW t \in Teams, NEW m \in Members, db[t].status = "active"
               PROVE  /\ db[t].error[m] = "none"
                      /\ db[t].del[m].id # 0 => \/ up[db[t].del[m].owner] # "up"
                                                \/ pump[db[t].del[m].owner].d = db[t].del[m].id
                                                \/ db[t].del[m].prompted
    BY DEF DeliveryAnswered
  <2>1. db[t].error[m] = "none"
    BY DEF StateOK, RecordsOK, RecordOK, StatusHeld
  <2> QED
    BY <2>1 DEF DeliveryInv, AnsweredInv
<1> QED
  BY <1>1, StateHolds, DeliveryHolds, PTL
=============================================================================
