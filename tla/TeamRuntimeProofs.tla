------------------------- MODULE TeamRuntimeProofs --------------------------
(***************************************************************************)
(* Theorems about TeamRuntime, for any teams, members, tasks, processes    *)
(* and operations, whatever crashes, lost prompts and late errors there    *)
(* are within the bounds of a scenario.                                    *)
(***************************************************************************)
EXTENDS TeamRuntime, FiniteSetTheorems, SequenceTheorems, TLAPS

-----------------------------------------------------------------------------
(* The record of a team.                                                   *)

TeamFields == {"status", "control", "turns", "spent", "events", "task", "member",
               "session", "cursor", "del", "error", "lastTurn"}
EventRows == [kind : {"message", "notice", "offer", "settle", "release"},
              from : Members \cup {NoOne}, to : Members \cup {Everyone}, wake : BOOLEAN]
TaskRows == [st : {"none", "offered", "claimed", "completed"},
             owner : Members \cup {NoOne}, fresh : BOOLEAN]
DeliveryRows == [id : 0 .. MaxDeliveries, through : Nat, since : Nat,
                 owner : Runtimes \cup {NoOne}, prompted : BOOLEAN]

RecordTyped(S) ==
    /\ DOMAIN S = TeamFields
    /\ S.status \in {"none", "active", "paused", "deleted"}
    /\ S.control \in Ops \cup {NoOne}
    /\ S.turns \in Nat /\ S.spent \in Nat
    /\ S.events \in Seq(EventRows)
    /\ S.task \in [Tasks -> TaskRows]
    /\ S.member \in [Members -> {"absent", "active", "removed"}]
    /\ S.session \in [Members -> Sessions \cup {NoSession}]
    /\ S.cursor \in [Members -> Nat]
    /\ S.del \in [Members -> DeliveryRows]
    /\ DOMAIN S.error = Members /\ DOMAIN S.lastTurn = Members

\* What a delivery and a cursor point to exists.
PointersHeld(S) == \A m \in Members :
    /\ S.cursor[m] <= Len(S.events) /\ S.del[m].through <= Len(S.events)
    /\ S.del[m].id # 0 => S.member[m] = "active" /\ S.del[m].owner \in Runtimes

\* A team is not used before it is created, and is paused where a member failed.
StatusHeld(S) ==
    /\ S.status = "none" => S.events = <<>> /\ \A m \in Members : S.member[m] = "absent"
    /\ S.status = "active" => \A m \in Members : S.error[m] = "none"

ClaimOwned(S) == \A k \in Tasks : S.task[k].st = "claimed" =>
    S.task[k].owner \in Members /\ S.member[S.task[k].owner] = "active"

Budgeted(S, max) ==
    /\ S.turns = S.spent + Cardinality(Deliveries(S))
    /\ S.turns <= max
    /\ Cardinality(Deliveries(S)) <= 2

RecordOK(S, max) ==
    /\ RecordTyped(S) /\ PointersHeld(S) /\ StatusHeld(S) /\ ClaimOwned(S) /\ Budgeted(S, max)

\* What no transaction but the creation, the lock's, the reservation, the confirmation and
\* the end of resume() does: open the team, change the lock, add or alter a delivery.
Keeps(S, T) ==
    /\ T.status = "active" => S.status = "active"
    /\ S.status # "none" => T.status # "none"
    /\ T.control = S.control
    /\ Len(S.events) <= Len(T.events)
    /\ \A m \in Members : T.del[m] \in {S.del[m], NoDelivery}
    /\ \A m \in Members : S.member[m] = "active" => T.member[m] \in {"active", "removed"}

\* A claim of a member at work changes hands only when the member is removed.
ClaimsKept(S, T) == \A k \in Tasks :
    S.task[k].st = "claimed" /\ S.del[S.task[k].owner].id # 0 /\ T.task[k].owner # S.task[k].owner
    => T.member[S.task[k].owner] = "removed"

LEMMA MembersFinite == IsFiniteSet(Members)
BY TeamConstants, FS_AddElement DEF Members

LEMMA DeliveriesFinite ==
  ASSUME NEW S
  PROVE  /\ IsFiniteSet(Deliveries(S))
         /\ Cardinality(Deliveries(S)) \in Nat
<1>1. Deliveries(S) \in SUBSET Members
  BY DEF Deliveries
<1>2. IsFiniteSet(Deliveries(S))
  BY <1>1, MembersFinite, FS_Subset
<1> QED
  BY <1>2, FS_CardinalityType

\* A delivery that is dropped leaves one less in flight.
LEMMA DeliveryDropped ==
  ASSUME NEW S, NEW T, NEW m \in Members,
         S.del \in [Members -> DeliveryRows],
         S.del[m].id # 0, T.del = [S.del EXCEPT ![m] = NoDelivery]
  PROVE  /\ Cardinality(Deliveries(T)) = Cardinality(Deliveries(S)) - 1
         /\ Cardinality(Deliveries(T)) \in Nat /\ Cardinality(Deliveries(S)) \in Nat
<1>1. Deliveries(T) = Deliveries(S) \ {m} /\ m \in Deliveries(S)
  BY DEF Deliveries, NoDelivery
<1> QED
  BY <1>1, DeliveriesFinite, FS_RemoveElement

\* A delivery that is reserved adds one.
LEMMA DeliveryAdded ==
  ASSUME NEW S, NEW T, NEW m \in Members, NEW row,
         S.del \in [Members -> DeliveryRows],
         S.del[m].id = 0, row.id # 0, T.del = [S.del EXCEPT ![m] = row]
  PROVE  /\ Cardinality(Deliveries(T)) = Cardinality(Deliveries(S)) + 1
         /\ Cardinality(Deliveries(T)) \in Nat /\ Cardinality(Deliveries(S)) \in Nat
<1>1. Deliveries(T) = Deliveries(S) \cup {m} /\ m \notin Deliveries(S)
  BY DEF Deliveries
<1> QED
  BY <1>1, DeliveriesFinite, FS_AddElement

\* Deliveries with the same ids are as many.
LEMMA DeliveriesSame ==
  ASSUME NEW S, NEW T, \A m \in Members : T.del[m].id = S.del[m].id
  PROVE  Deliveries(T) = Deliveries(S)
BY DEF Deliveries

LEMMA NoDeliveryTyped == NoDelivery \in DeliveryRows
BY TeamConstants DEF NoDelivery, DeliveryRows

\* An event is added at the end.
LEMMA EventAdded ==
  ASSUME NEW s \in Seq(EventRows), NEW e \in EventRows
  PROVE  Append(s, e) \in Seq(EventRows) /\ Len(Append(s, e)) = Len(s) + 1 /\ Len(s) \in Nat
BY AppendProperties, LenProperties

\* Reoffering tasks adds one event for each.
LEMMA EventsAdded ==
  ASSUME NEW s \in Seq(EventRows), NEW from \in Members \cup {NoOne}, NEW n \in Nat
  PROVE  LET more == [i \in 1 .. n |-> Event("release", from, Everyone, TRUE)]
         IN /\ s \o more \in Seq(EventRows)
            /\ Len(s) <= Len(s \o more)
<1> DEFINE e == Event("release", from, Everyone, TRUE)
           more == [i \in 1 .. n |-> e]
<1>1. e \in EventRows
  BY DEF Event, EventRows
<1>2. more \in Seq(EventRows) /\ Len(more) = n
  <2> HIDE DEF e
  <2>1. more \in [1 .. n -> EventRows]
    BY <1>1
  <2> QED
    BY <2>1, LenProperties
<1>3. Len(s) \in Nat
  BY LenProperties
<1>4. s \o more \in Seq(EventRows) /\ Len(s \o more) = Len(s) + Len(more)
  <2> HIDE DEF more
  <2> QED
    BY <1>2, ConcatProperties
<1>5. s \o more \in Seq(EventRows) /\ Len(s) <= Len(s \o more)
  <2> HIDE DEF more
  <2> QED
    BY <1>2, <1>3, <1>4
<1> QED
  BY <1>5
-----------------------------------------------------------------------------
(* The transactions keep a record well formed.                             *)

LEMMA FailDropped ==
  ASSUME NEW S, NEW max \in Nat, NEW m \in Members, NEW reason, NEW clear \in BOOLEAN,
         RecordOK(S, max), Fail(S, m, reason, clear) # S, FailDrops(S, m, clear)
  PROVE  RecordOK(Fail(S, m, reason, clear), max)
<1> DEFINE T == Fail(S, m, reason, clear)
<1>1. T = [S EXCEPT !.error[m] = reason, !.del[m] = NoDelivery, !.turns = Less(@), !.status = "paused"]
  BY DEF Fail
<1>2. S.del[m].id # 0 /\ S.status # "none" 
  BY DEF FailDrops, RecordOK, StatusHeld, PointersHeld
<1>3. /\ DOMAIN T = TeamFields /\ T.status = "paused" /\ T.control = S.control /\ T.spent = S.spent
      /\ T.turns = Less(S.turns) /\ T.events = S.events /\ T.task = S.task /\ T.member = S.member
      /\ T.session = S.session /\ T.cursor = S.cursor /\ T.lastTurn = S.lastTurn
      /\ T.del = [S.del EXCEPT ![m] = NoDelivery] /\ T.error = [S.error EXCEPT ![m] = reason]
  BY <1>1 DEF RecordOK, RecordTyped, TeamFields
<1> HIDE DEF T
<1>4. RecordTyped(T)
  BY <1>3, NoDeliveryTyped DEF RecordOK, RecordTyped, Less
<1>5. PointersHeld(T)
  <2>1. Len(S.events) \in Nat
    BY LenProperties DEF RecordOK, RecordTyped
  <2> QED
    BY <1>3, <2>1 DEF RecordOK, RecordTyped, PointersHeld, NoDelivery
<1>6. StatusHeld(T) /\ ClaimOwned(T)
  BY <1>3 DEF RecordOK, StatusHeld, ClaimOwned
<1>7. Budgeted(T, max)
  <2>1. S.del \in [Members -> DeliveryRows] /\ S.turns \in Nat /\ S.spent \in Nat
    BY DEF RecordOK, RecordTyped
  <2>2. /\ Cardinality(Deliveries(T)) = Cardinality(Deliveries(S)) - 1
        /\ Cardinality(Deliveries(T)) \in Nat /\ Cardinality(Deliveries(S)) \in Nat
    BY <2>1, <1>2, <1>3, DeliveryDropped
  <2> QED
    BY <1>3, <2>1, <2>2 DEF RecordOK, Budgeted, Less
<1> QED
  BY <1>4, <1>5, <1>6, <1>7 DEF RecordOK, T

LEMMA FailRecorded ==
  ASSUME NEW S, NEW max \in Nat, NEW m \in Members, NEW reason, NEW clear \in BOOLEAN,
         RecordOK(S, max), Fail(S, m, reason, clear) # S, ~FailDrops(S, m, clear)
  PROVE  RecordOK(Fail(S, m, reason, clear), max)
<1> DEFINE T == Fail(S, m, reason, clear)
<1>0. S.member[m] = "active" /\ S.status # "none"
  BY DEF Fail, RecordOK, StatusHeld
<1>1. T = [S EXCEPT !.error[m] = reason, !.del[m] = @, !.turns = @, !.status = "paused"]
  BY DEF Fail
<1>2. S.del = [S.del EXCEPT ![m] = S.del[m]]
  BY DEF RecordOK, RecordTyped
<1>3. /\ DOMAIN T = TeamFields /\ T.status = "paused" /\ T.control = S.control /\ T.spent = S.spent
      /\ T.turns = S.turns /\ T.events = S.events /\ T.task = S.task /\ T.member = S.member
      /\ T.session = S.session /\ T.cursor = S.cursor /\ T.lastTurn = S.lastTurn
      /\ T.del = S.del /\ T.error = [S.error EXCEPT ![m] = reason]
  BY <1>1, <1>2 DEF RecordOK, RecordTyped, TeamFields
<1> HIDE DEF T
<1>4. RecordTyped(T) /\ PointersHeld(T)
  BY <1>3 DEF RecordOK, RecordTyped, PointersHeld
<1>5. StatusHeld(T) /\ ClaimOwned(T)
  BY <1>3 DEF RecordOK, StatusHeld, ClaimOwned
<1>6. Budgeted(T, max)
  BY <1>3, DeliveriesSame DEF RecordOK, Budgeted
<1> QED
  BY <1>4, <1>5, <1>6 DEF RecordOK, T

\* fail() keeps a record well formed and pauses the team, unless nothing is left to say.
LEMMA FailOK ==
  ASSUME NEW S, NEW max \in Nat, NEW m \in Members, NEW reason, NEW clear \in BOOLEAN,
         RecordOK(S, max)
  PROVE  LET T == Fail(S, m, reason, clear) IN
         /\ RecordOK(T, max) /\ Keeps(S, T) /\ T.task = S.task /\ T.member = S.member
         /\ reason # "none" => T.status # "active" \/ T.del[m].id = 0
         /\ clear => T.status = "deleted" \/ T.del[m].id = 0
<1> DEFINE T == Fail(S, m, reason, clear)
<1>0. Len(S.events) \in Nat
  BY LenProperties DEF RecordOK, RecordTyped
<1>1. CASE T = S
  <2>1. RecordOK(T, max) /\ T.task = S.task /\ T.member = S.member
    BY <1>1
  <2>2. Keeps(S, T)
    BY <1>0, <1>1 DEF Keeps, RecordOK, RecordTyped
  <2>3. \/ S.status = "deleted" \/ S.member[m] # "active" 
        \/ S.error[m] = reason /\ ~(clear /\ S.del[m].id # 0)
    <3> SUFFICES ASSUME S.status # "deleted", S.member[m] = "active",
                        ~(S.error[m] = reason /\ ~(clear /\ S.del[m].id # 0))
                 PROVE  FALSE
      OBVIOUS
    <3>1. T = [S EXCEPT !.error[m] = reason,
                   !.del[m] = IF FailDrops(S, m, clear) THEN NoDelivery ELSE @,
                   !.turns = IF FailDrops(S, m, clear) THEN Less(@) ELSE @,
                   !.status = "paused"]
      BY DEF Fail
    <3>2. S.error[m] = reason
      BY <1>1, <3>1 DEF RecordOK, RecordTyped, TeamFields
    <3>3. FailDrops(S, m, clear)
      BY <3>2 DEF FailDrops
    <3>4. T.del[m] = NoDelivery
      BY <3>1, <3>3 DEF RecordOK, RecordTyped, TeamFields
    <3> QED
      BY <1>1, <3>2, <3>4 DEF NoDelivery
  <2>4. S.member[m] # "active" => S.del[m].id = 0
    BY DEF RecordOK, PointersHeld
  <2>5. S.status = "active" => S.error[m] = "none"
    BY DEF RecordOK, StatusHeld
  <2> QED
    BY <1>1, <2>1, <2>2, <2>3, <2>4, <2>5
<1>2. CASE T # S
  <2>1. RecordOK(T, max)
    BY <1>2, FailDropped, FailRecorded
  <2>2. /\ S.member[m] = "active"
        /\ T = [S EXCEPT !.error[m] = reason,
                   !.del[m] = IF FailDrops(S, m, clear) THEN NoDelivery ELSE @,
                   !.turns = IF FailDrops(S, m, clear) THEN Less(@) ELSE @,
                   !.status = "paused"]
    BY <1>2 DEF Fail
  <2>3. /\ T.status = "paused" /\ T.control = S.control /\ T.events = S.events
        /\ T.task = S.task /\ T.member = S.member
        /\ T.del = [S.del EXCEPT ![m] = IF FailDrops(S, m, clear) THEN NoDelivery ELSE @]
    BY <2>2 DEF RecordOK, RecordTyped, TeamFields
  <2>4. clear => T.del[m].id = 0
    BY <2>3 DEF RecordOK, RecordTyped, FailDrops, NoDelivery
  <2>5. \A n \in Members : T.del[n] \in {S.del[n], NoDelivery}
    BY <2>3 DEF RecordOK, RecordTyped
  <2>6. Keeps(S, T)
    <3> HIDE DEF T
    <3> QED
      BY <1>0, <2>3, <2>5 DEF Keeps
  <2> QED
    BY <2>1, <2>3, <2>4, <2>6
<1> QED
  BY <1>1, <1>2

\* discardDelivery() of a delivery that was seen.
LEMMA DiscardOK ==
  ASSUME NEW S, NEW max \in Nat, NEW m \in Members, NEW d, d # 0, RecordOK(S, max)
  PROVE  LET T == Discard(S, m, d) IN
         /\ RecordOK(T, max) /\ Keeps(S, T) /\ T.task = S.task /\ T.member = S.member
         /\ T.status = S.status /\ T.error = S.error /\ T.del[m].id # d
<1> DEFINE T == Discard(S, m, d)
<1>0. Len(S.events) \in Nat
  BY LenProperties DEF RecordOK, RecordTyped
<1>1. CASE S.del[m].id # d
  <2>1. T = S
    BY <1>1 DEF Discard
  <2> QED
    BY <1>0, <1>1, <2>1 DEF Keeps, RecordOK, RecordTyped
<1>2. CASE S.del[m].id = d
  <2>1. T = [S EXCEPT !.del[m] = NoDelivery, !.turns = Less(@)]
    BY <1>2 DEF Discard
  <2>2. /\ DOMAIN T = TeamFields /\ T.status = S.status /\ T.control = S.control /\ T.spent = S.spent
        /\ T.turns = Less(S.turns) /\ T.events = S.events /\ T.task = S.task /\ T.member = S.member
        /\ T.session = S.session /\ T.cursor = S.cursor /\ T.lastTurn = S.lastTurn
        /\ T.del = [S.del EXCEPT ![m] = NoDelivery] /\ T.error = S.error
    BY <2>1 DEF RecordOK, RecordTyped, TeamFields
  <2>0. T.del[m].id # d
    BY <2>2 DEF RecordOK, RecordTyped, NoDelivery
  <2> HIDE DEF T
  <2>3. RecordTyped(T)
    BY <2>2, NoDeliveryTyped DEF RecordOK, RecordTyped, Less
  <2>4. PointersHeld(T)
    BY <1>0, <2>2 DEF RecordOK, RecordTyped, PointersHeld, NoDelivery
  <2>5. StatusHeld(T) /\ ClaimOwned(T)
    BY <2>2 DEF RecordOK, StatusHeld, ClaimOwned
  <2>6. Budgeted(T, max)
    <3>1. S.del \in [Members -> DeliveryRows] /\ S.turns \in Nat /\ S.spent \in Nat
      BY DEF RecordOK, RecordTyped
    <3>2. /\ Cardinality(Deliveries(T)) = Cardinality(Deliveries(S)) - 1
          /\ Cardinality(Deliveries(T)) \in Nat /\ Cardinality(Deliveries(S)) \in Nat
      BY <3>1, <1>2, <2>2, DeliveryDropped
    <3> QED
      BY <2>2, <3>1, <3>2 DEF RecordOK, Budgeted, Less
  <2>7. Keeps(S, T)
    BY <1>0, <2>2 DEF Keeps, RecordOK, RecordTyped
  <2> QED
    BY <2>0, <2>2, <2>3, <2>4, <2>5, <2>6, <2>7 DEF RecordOK, T
<1> QED
  BY <1>1, <1>2

\* A turn that ended well settles its delivery, counts it as spent, moves the cursor to what
\* it was shown, and leaves a notice when the member said nothing.
TurnSettled(S, m, i, d) ==
    [S EXCEPT !.lastTurn[m] = i, !.cursor[m] = IF d # 0 THEN S.del[m].through ELSE @,
              !.del[m] = NoDelivery, !.spent = IF d # 0 THEN @ + 1 ELSE @, !.error[m] = "none"]

LEMMA SettledOK ==
  ASSUME NEW S, NEW max \in Nat, NEW m \in Members, NEW i,
         RecordOK(S, max), S.member[m] = "active"
  PROVE  LET T == TurnSettled(S, m, i, S.del[m].id) IN
         /\ RecordOK(T, max) /\ Keeps(S, T) /\ T.task = S.task /\ T.member = S.member
         /\ T.status = S.status /\ T.events = S.events
<1> DEFINE d == S.del[m].id
           T == TurnSettled(S, m, i, d)
<1>0. Len(S.events) \in Nat /\ S.status # "none"
  BY LenProperties DEF RecordOK, RecordTyped, StatusHeld
<1>2. /\ DOMAIN T = TeamFields /\ T.status = S.status /\ T.control = S.control
      /\ T.spent = (IF d # 0 THEN S.spent + 1 ELSE S.spent)
      /\ T.turns = S.turns /\ T.events = S.events /\ T.task = S.task /\ T.member = S.member
      /\ T.session = S.session /\ T.lastTurn = [S.lastTurn EXCEPT ![m] = i]
      /\ T.cursor = [S.cursor EXCEPT ![m] = IF d # 0 THEN S.del[m].through ELSE @]
      /\ T.del = [S.del EXCEPT ![m] = NoDelivery] /\ T.error = [S.error EXCEPT ![m] = "none"]
  BY DEF RecordOK, RecordTyped, TeamFields, TurnSettled
<1> HIDE DEF T
<1>3. RecordTyped(T)
  <2>1. T.cursor \in [Members -> Nat]
    BY <1>2 DEF RecordOK, RecordTyped, DeliveryRows
  <2>2. T.del \in [Members -> DeliveryRows]
    BY <1>2, NoDeliveryTyped DEF RecordOK, RecordTyped
  <2>3. T.spent \in Nat
    BY <1>2 DEF RecordOK, RecordTyped
  <2> QED
    BY <1>2, <2>1, <2>2, <2>3 DEF RecordOK, RecordTyped
<1>4. PointersHeld(T)
  <2> SUFFICES ASSUME NEW n \in Members
               PROVE  /\ T.cursor[n] <= Len(T.events) /\ T.del[n].through <= Len(T.events)
                      /\ T.del[n].id # 0 => T.member[n] = "active" /\ T.del[n].owner \in Runtimes
    BY DEF PointersHeld
  <2>1. CASE n = m
    BY <1>0, <1>2, <2>1 DEF RecordOK, RecordTyped, PointersHeld, NoDelivery
  <2>2. CASE n # m
    BY <1>2, <2>2 DEF RecordOK, RecordTyped, PointersHeld
  <2> QED
    BY <2>1, <2>2
<1>5. StatusHeld(T) /\ ClaimOwned(T)
  BY <1>0, <1>2 DEF RecordOK, RecordTyped, StatusHeld, ClaimOwned
<1>6. Budgeted(T, max)
  <2>1. S.del \in [Members -> DeliveryRows] /\ S.turns \in Nat /\ S.spent \in Nat
    BY DEF RecordOK, RecordTyped
  <2>2. CASE d # 0
    <3>1. /\ Cardinality(Deliveries(T)) = Cardinality(Deliveries(S)) - 1
          /\ Cardinality(Deliveries(T)) \in Nat /\ Cardinality(Deliveries(S)) \in Nat
      <4>1. S.del[m].id # 0 /\ T.del = [S.del EXCEPT ![m] = NoDelivery]
        BY <2>2, <1>2
      <4> HIDE DEF d
      <4> QED
        BY <2>1, <4>1, DeliveryDropped
    <3> QED
      BY <1>2, <2>1, <2>2, <3>1 DEF RecordOK, Budgeted
  <2>3. CASE d = 0
    <3>1. Deliveries(T) = Deliveries(S)
      BY <1>2, <2>1, <2>3 DEF Deliveries, NoDelivery
    <3> QED
      BY <1>2, <2>1, <2>3, <3>1 DEF RecordOK, Budgeted
  <2> QED
    BY <2>2, <2>3
<1>7. Keeps(S, T)
  BY <1>0, <1>2 DEF Keeps, RecordOK, RecordTyped
<1> QED
  BY <1>2, <1>3, <1>4, <1>5, <1>6, <1>7 DEF RecordOK, T

\* An event alone changes neither members, deliveries nor the budget.
LEMMA AppendOK ==
  ASSUME NEW S, NEW max \in Nat, NEW e \in EventRows, RecordOK(S, max), S.status # "none"
  PROVE  LET T == Append1(S, e) IN
         /\ RecordOK(T, max) /\ Keeps(S, T) /\ T.task = S.task /\ T.member = S.member
         /\ T.status = S.status /\ T.del = S.del
<1> DEFINE T == Append1(S, e)
<1>1. /\ DOMAIN T = TeamFields /\ T.status = S.status /\ T.control = S.control /\ T.spent = S.spent
      /\ T.turns = S.turns /\ T.events = Append(S.events, e) /\ T.task = S.task
      /\ T.member = S.member /\ T.session = S.session /\ T.lastTurn = S.lastTurn
      /\ T.cursor = S.cursor /\ T.del = S.del /\ T.error = S.error
  BY DEF RecordOK, RecordTyped, TeamFields, Append1
<1> HIDE DEF T
<1>2. T.events \in Seq(EventRows) /\ Len(T.events) = Len(S.events) + 1 /\ Len(S.events) \in Nat
  BY <1>1, EventAdded DEF RecordOK, RecordTyped
<1>3. RecordTyped(T)
  BY <1>1, <1>2 DEF RecordOK, RecordTyped
<1>4. PointersHeld(T)
  BY <1>1, <1>2 DEF RecordOK, RecordTyped, PointersHeld, DeliveryRows
<1>5. StatusHeld(T) /\ ClaimOwned(T)
  BY <1>1 DEF RecordOK, StatusHeld, ClaimOwned
<1>6. Budgeted(T, max)
  BY <1>1, DeliveriesSame DEF RecordOK, Budgeted
<1>7. Keeps(S, T)
  BY <1>1, <1>2 DEF Keeps, RecordOK, RecordTyped
<1> QED
  BY <1>1, <1>3, <1>4, <1>5, <1>6, <1>7 DEF RecordOK, T

\* A turn that failed settles its delivery, refunds it and pauses the team.
TurnFailed(S, m, i, d) ==
    [S EXCEPT !.lastTurn[m] = i, !.turns = IF d # 0 THEN Less(@) ELSE @,
              !.del[m] = NoDelivery, !.error[m] = "turn", !.status = "paused"]

LEMMA FailedOK ==
  ASSUME NEW S, NEW max \in Nat, NEW m \in Members, NEW i,
         RecordOK(S, max), S.member[m] = "active"
  PROVE  LET T == TurnFailed(S, m, i, S.del[m].id) IN
         RecordOK(T, max) /\ Keeps(S, T) /\ T.task = S.task /\ T.member = S.member
<1> DEFINE d == S.del[m].id
           T == TurnFailed(S, m, i, d)
<1>0. Len(S.events) \in Nat /\ S.status # "none"
  BY LenProperties DEF RecordOK, RecordTyped, StatusHeld
<1>2. /\ DOMAIN T = TeamFields /\ T.status = "paused" /\ T.control = S.control /\ T.spent = S.spent
      /\ T.turns = (IF d # 0 THEN Less(S.turns) ELSE S.turns)
      /\ T.events = S.events /\ T.task = S.task /\ T.member = S.member
      /\ T.session = S.session /\ T.lastTurn = [S.lastTurn EXCEPT ![m] = i]
      /\ T.cursor = S.cursor
      /\ T.del = [S.del EXCEPT ![m] = NoDelivery] /\ T.error = [S.error EXCEPT ![m] = "turn"]
  BY DEF RecordOK, RecordTyped, TeamFields, TurnFailed
<1> HIDE DEF T
<1>3. RecordTyped(T)
  BY <1>2, NoDeliveryTyped DEF RecordOK, RecordTyped, Less
<1>4. PointersHeld(T)
  BY <1>0, <1>2 DEF RecordOK, RecordTyped, PointersHeld, NoDelivery
<1>5. StatusHeld(T) /\ ClaimOwned(T)
  BY <1>0, <1>2 DEF RecordOK, RecordTyped, StatusHeld, ClaimOwned
<1>6. Budgeted(T, max)
  <2>1. S.del \in [Members -> DeliveryRows] /\ S.turns \in Nat /\ S.spent \in Nat
    BY DEF RecordOK, RecordTyped
  <2>2. CASE d # 0
    <3>1. /\ Cardinality(Deliveries(T)) = Cardinality(Deliveries(S)) - 1
          /\ Cardinality(Deliveries(T)) \in Nat /\ Cardinality(Deliveries(S)) \in Nat
      <4>1. S.del[m].id # 0 /\ T.del = [S.del EXCEPT ![m] = NoDelivery]
        BY <2>2, <1>2
      <4> HIDE DEF d
      <4> QED
        BY <2>1, <4>1, DeliveryDropped
    <3> QED
      BY <1>2, <2>1, <2>2, <3>1 DEF RecordOK, Budgeted, Less
  <2>3. CASE d = 0
    <3>1. Deliveries(T) = Deliveries(S)
      BY <1>2, <2>1, <2>3 DEF Deliveries, NoDelivery
    <3> QED
      BY <1>2, <2>1, <2>3, <3>1 DEF RecordOK, Budgeted
  <2> QED
    BY <2>2, <2>3
<1>7. Keeps(S, T)
  BY <1>0, <1>2 DEF Keeps, RecordOK, RecordTyped
<1> QED
  BY <1>2, <1>3, <1>4, <1>5, <1>6, <1>7 DEF RecordOK, T

LEMMA KeepsRefl ==
  ASSUME NEW S, NEW max, RecordOK(S, max)
  PROVE  Keeps(S, S)
<1>1. Len(S.events) \in Nat
  BY LenProperties DEF RecordOK, RecordTyped
<1> QED
  BY <1>1 DEF Keeps

\* reconcile()'s transaction, whatever turn it saw.
LEMMA RecordTurnOK ==
  ASSUME NEW S, NEW max \in Nat, NEW v, NEW i, NEW outcome, v.m \in Members, RecordOK(S, max)
  PROVE  LET T == RecordTurn(S, v, i, outcome) IN
         RecordOK(T, max) /\ Keeps(S, T) /\ T.task = S.task /\ T.member = S.member
<1> DEFINE m == v.m
           T == RecordTurn(S, v, i, outcome)
<1>1. CASE S.status = "deleted" \/ S.member[m] # "active" \/ S.lastTurn[m] = i \/ S.del[m].id # v.d
  <2>1. T = S
    BY <1>1 DEF RecordTurn
  <2> QED
    BY <2>1, KeepsRefl
<1>2. CASE ~(S.status = "deleted" \/ S.member[m] # "active" \/ S.lastTurn[m] = i \/ S.del[m].id # v.d)
  <2>0. S.member[m] = "active" /\ S.del[m].id = v.d
    BY <1>2
  <2>1. CASE outcome = "ok"
    <3> DEFINE U == TurnSettled(S, m, i, S.del[m].id)
    <3>1. /\ RecordOK(U, max) /\ Keeps(S, U) /\ U.task = S.task /\ U.member = S.member
          /\ U.status = S.status /\ U.events = S.events
      BY <2>0, SettledOK
    <3>2. T = U \/ T = Append1(U, Event("notice", m, Lead, TRUE))
      BY <1>2, <2>1 DEF RecordTurn, TurnSettled
    <3>3. Event("notice", m, Lead, TRUE) \in EventRows
      BY DEF Event, EventRows, Members
    <3>4. U.status # "none"
      BY <2>0, <3>1 DEF RecordOK, StatusHeld
    <3> HIDE DEF U
    <3>5. CASE T = U
      BY <3>1, <3>5
    <3>6. CASE T = Append1(U, Event("notice", m, Lead, TRUE))
      <4>1. RecordOK(T, max) /\ Keeps(U, T) /\ T.task = U.task /\ T.member = U.member /\ T.del = U.del
        BY <3>1, <3>3, <3>4, <3>6, AppendOK
      <4>2. Len(S.events) \in Nat /\ Len(T.events) \in Nat
        BY <4>1, LenProperties DEF RecordOK, RecordTyped
      <4>3. Keeps(S, T)
        BY <3>1, <4>1, <4>2 DEF Keeps
      <4> QED
        BY <3>1, <4>1, <4>3
    <3> QED
      BY <3>2, <3>5, <3>6
  <2>2. CASE outcome # "ok"
    <3>1. T = TurnFailed(S, m, i, S.del[m].id)
      BY <1>2, <2>2 DEF RecordTurn, TurnFailed
    <3> QED
      BY <2>0, <3>1, FailedOK
  <2> QED
    BY <2>1, <2>2
<1> QED
  BY <1>1, <1>2

\* Reoffering tasks gives claims back, and changes nothing of members and deliveries.
LEMMA ReofferOK ==
  ASSUME NEW S, NEW max \in Nat, NEW K \in SUBSET Tasks, NEW from \in Members \cup {NoOne},
         RecordTyped(S), PointersHeld(S), StatusHeld(S), Budgeted(S, max), S.status # "none",
         \A k \in Tasks \ K : S.task[k].st = "claimed" =>
             S.task[k].owner \in Members /\ S.member[S.task[k].owner] = "active"
  PROVE  LET T == Reoffer(S, K, from) IN
         /\ RecordOK(T, max) /\ Keeps(S, T) /\ T.member = S.member /\ T.status = S.status
         /\ T.del = S.del /\ \A k \in Tasks \ K : T.task[k] = S.task[k]
<1> DEFINE T == Reoffer(S, K, from)
           n == Cardinality(K)
           more == [i \in 1 .. n |-> Event("release", from, Everyone, TRUE)]
<1>1. n \in Nat
  BY TeamConstants, FS_Subset, FS_CardinalityType
<1>2. S.events \o more \in Seq(EventRows) /\ Len(S.events) <= Len(S.events \o more)
  <2>1. S.events \in Seq(EventRows)
    BY DEF RecordTyped
  <2> HIDE DEF n
  <2> QED
    BY <1>1, <2>1, EventsAdded
<1>3. /\ DOMAIN T = TeamFields /\ T.status = S.status /\ T.control = S.control /\ T.spent = S.spent
      /\ T.turns = S.turns /\ T.events = S.events \o more
      /\ T.task = [k \in Tasks |-> IF k \in K THEN OfferedTask ELSE S.task[k]]
      /\ T.member = S.member /\ T.session = S.session /\ T.lastTurn = S.lastTurn
      /\ T.cursor = S.cursor /\ T.del = S.del /\ T.error = S.error
  BY DEF RecordTyped, TeamFields, Reoffer
<1> HIDE DEF T, more
<1>4. RecordTyped(T)
  <2>1. OfferedTask \in TaskRows
    BY DEF OfferedTask, TaskRows
  <2>2. T.task \in [Tasks -> TaskRows]
    BY <1>3, <2>1 DEF RecordTyped
  <2> QED
    BY <1>2, <1>3, <2>2 DEF RecordTyped
<1>5. PointersHeld(T)
  <2>1. Len(S.events) \in Nat /\ Len(T.events) \in Nat
    BY <1>4, LenProperties DEF RecordTyped
  <2> QED
    BY <1>2, <1>3, <2>1 DEF RecordTyped, PointersHeld, DeliveryRows
<1>6. StatusHeld(T)
  BY <1>3 DEF StatusHeld
<1>7. ClaimOwned(T)
  BY <1>3 DEF ClaimOwned, OfferedTask
<1>8. Budgeted(T, max)
  BY <1>3, DeliveriesSame DEF Budgeted
<1>9. Keeps(S, T)
  BY <1>2, <1>3 DEF Keeps, RecordTyped
<1> QED
  BY <1>3, <1>4, <1>5, <1>6, <1>7, <1>8, <1>9 DEF RecordOK, T

\* remove()'s transaction: the member's delivery counts as spent, its claims go back.
LEMMA RemoveOK ==
  ASSUME NEW S, NEW max \in Nat, NEW m \in Members, RecordOK(S, max), S.status # "none"
  PROVE  LET T == Remove(S, m) IN
         /\ RecordOK(T, max) /\ Keeps(S, T) /\ ClaimsKept(S, T) /\ T.status = S.status
<1> DEFINE T == Remove(S, m)
           K == Claims(S, m)
           d == S.del[m].id
           U == [S EXCEPT !.member[m] = "removed", !.del[m] = NoDelivery,
                          !.spent = IF S.del[m].id # 0 THEN @ + 1 ELSE @]
<1>0. Len(S.events) \in Nat
  BY LenProperties DEF RecordOK, RecordTyped
<1>1. CASE S.status = "deleted"
  <2>1. T = S
    BY <1>1 DEF Remove
  <2> QED
    BY <2>1, KeepsRefl DEF ClaimsKept
<1>2. CASE S.status # "deleted"
  <2>1. T = Reoffer(U, K, m)
    BY <1>2 DEF Remove
  <2>2. /\ DOMAIN U = TeamFields /\ U.status = S.status /\ U.control = S.control
        /\ U.spent = (IF d # 0 THEN S.spent + 1 ELSE S.spent)
        /\ U.turns = S.turns /\ U.events = S.events /\ U.task = S.task
        /\ U.member = [S.member EXCEPT ![m] = "removed"]
        /\ U.session = S.session /\ U.lastTurn = S.lastTurn /\ U.cursor = S.cursor
        /\ U.del = [S.del EXCEPT ![m] = NoDelivery] /\ U.error = S.error
    BY DEF RecordOK, RecordTyped, TeamFields
  <2> HIDE DEF U
  <2>3. RecordTyped(U)
    BY <2>2, NoDeliveryTyped DEF RecordOK, RecordTyped
  <2>4. PointersHeld(U)
    BY <1>0, <2>2 DEF RecordOK, RecordTyped, PointersHeld, NoDelivery
  <2>5. StatusHeld(U)
    BY <2>2 DEF RecordOK, StatusHeld
  <2>6. Budgeted(U, max)
    <3>1. S.del \in [Members -> DeliveryRows] /\ S.turns \in Nat /\ S.spent \in Nat
      BY DEF RecordOK, RecordTyped
    <3>2. CASE d # 0
      <4>1. /\ Cardinality(Deliveries(U)) = Cardinality(Deliveries(S)) - 1
            /\ Cardinality(Deliveries(U)) \in Nat /\ Cardinality(Deliveries(S)) \in Nat
        <5>1. S.del[m].id # 0 /\ U.del = [S.del EXCEPT ![m] = NoDelivery]
          BY <3>2, <2>2
        <5> HIDE DEF d
        <5> QED
          BY <3>1, <5>1, DeliveryDropped
      <4> QED
        BY <2>2, <3>1, <3>2, <4>1 DEF RecordOK, Budgeted
    <3>3. CASE d = 0
      <4>1. Deliveries(U) = Deliveries(S)
        BY <2>2, <3>1, <3>3 DEF Deliveries, NoDelivery
      <4> QED
        BY <2>2, <3>1, <3>3, <4>1 DEF RecordOK, Budgeted
    <3> QED
      BY <3>2, <3>3
  <2>7. \A k \in Tasks \ K : S.task[k].st = "claimed" =>
            /\ S.task[k].owner \in Members /\ S.member[S.task[k].owner] = "active"
            /\ S.task[k].owner # m
    BY DEF RecordOK, ClaimOwned, Claims
  <2>8. \A k \in Tasks \ K : U.task[k].st = "claimed" =>
            U.task[k].owner \in Members /\ U.member[U.task[k].owner] = "active"
    BY <2>2, <2>7 DEF RecordOK, RecordTyped
  <2>9. K \in SUBSET Tasks /\ U.status # "none"
    BY <2>2 DEF Claims
  <2> HIDE DEF K
  <2>10. /\ RecordOK(T, max) /\ Keeps(U, T) /\ T.member = U.member /\ T.status = U.status
         /\ T.del = U.del /\ \A k \in Tasks \ K : T.task[k] = U.task[k]
    <3> DEFINE V == Reoffer(U, K, m)
    <3>1. m \in Members \cup {NoOne}
      OBVIOUS
    <3>2. /\ RecordOK(V, max) /\ Keeps(U, V) /\ V.member = U.member /\ V.status = U.status
          /\ V.del = U.del /\ \A k \in Tasks \ K : V.task[k] = U.task[k]
      <4> HIDE DEF T
      <4> QED
        BY <3>1, <2>3, <2>4, <2>5, <2>6, <2>8, <2>9, ReofferOK, Zenon
    <3> QED
      BY <2>1, <3>2, Zenon
  <2>11. Keeps(S, T)
    BY <2>2, <2>10 DEF Keeps, RecordOK, RecordTyped
  <2>12. ClaimsKept(S, T)
    <3> SUFFICES ASSUME NEW k \in Tasks, S.task[k].st = "claimed",
                        T.task[k].owner # S.task[k].owner
                 PROVE  T.member[S.task[k].owner] = "removed"
      BY DEF ClaimsKept
    <3>1. k \in K
      BY <2>2, <2>10
    <3> QED
      BY <2>2, <2>10, <3>1 DEF K, Claims, RecordOK, RecordTyped
  <2> QED
    BY <2>2, <2>10, <2>11, <2>12
<1> QED
  BY <1>1, <1>2

\* delete()'s transaction: every delivery counts as spent.
LEMMA DeleteOK ==
  ASSUME NEW S, NEW max \in Nat, RecordOK(S, max)
  PROVE  LET T == Delete(S) IN
         RecordOK(T, max) /\ Keeps(S, T) /\ T.task = S.task /\ T.status = "deleted"
<1> DEFINE T == Delete(S)
<1>0. Len(S.events) \in Nat /\ Cardinality(Deliveries(S)) \in Nat
  BY LenProperties, DeliveriesFinite DEF RecordOK, RecordTyped
<1>1. CASE S.status = "deleted"
  <2>1. T = S
    BY <1>1 DEF Delete
  <2> QED
    BY <1>1, <2>1, KeepsRefl
<1>2. CASE S.status # "deleted"
  <2>1. /\ DOMAIN T = TeamFields /\ T.status = "deleted" /\ T.control = S.control
        /\ T.spent = S.spent + Cardinality(Deliveries(S))
        /\ T.turns = S.turns /\ T.events = S.events /\ T.task = S.task
        /\ T.member = S.member /\ T.session = S.session /\ T.lastTurn = S.lastTurn
        /\ T.cursor = S.cursor /\ T.del = [m \in Members |-> NoDelivery] /\ T.error = S.error
    BY <1>2 DEF RecordOK, RecordTyped, TeamFields, Delete
  <2> HIDE DEF T
  <2>2. RecordTyped(T)
    BY <1>0, <2>1, NoDeliveryTyped DEF RecordOK, RecordTyped
  <2>3. PointersHeld(T)
    BY <1>0, <2>1 DEF RecordOK, RecordTyped, PointersHeld, NoDelivery
  <2>4. StatusHeld(T) /\ ClaimOwned(T)
    BY <2>1 DEF RecordOK, StatusHeld, ClaimOwned
  <2>5. Budgeted(T, max)
    <3>1. Deliveries(T) = {}
      BY <2>1 DEF Deliveries, NoDelivery
    <3>2. Cardinality(Deliveries(T)) = 0
      BY <3>1, FS_EmptySet
    <3> QED
      BY <1>0, <2>1, <3>2 DEF RecordOK, RecordTyped, Budgeted
  <2>6. Keeps(S, T)
    BY <1>0, <2>1 DEF Keeps, RecordOK, RecordTyped
  <2> QED
    BY <2>1, <2>2, <2>3, <2>4, <2>5, <2>6 DEF RecordOK, T
<1> QED
  BY <1>1, <1>2

\* The lock is taken, with the team paused, or dropped.
Locked(S, st, c) == [S EXCEPT !.status = st, !.control = c]
LEMMA ControlOK ==
  ASSUME NEW S, NEW max \in Nat, NEW c \in Ops \cup {NoOne}, NEW st \in {S.status, "paused"},
         RecordOK(S, max), S.status # "none"
  PROVE  LET T == Locked(S, st, c) IN
         /\ RecordOK(T, max) /\ T.task = S.task /\ T.del = S.del /\ T.events = S.events
         /\ T.status = st /\ T.control = c /\ T.member = S.member /\ T.error = S.error
<1> DEFINE T == Locked(S, st, c)
<1>1. /\ DOMAIN T = TeamFields /\ T.status = st /\ T.control = c /\ T.spent = S.spent
      /\ T.turns = S.turns /\ T.events = S.events /\ T.task = S.task
      /\ T.member = S.member /\ T.session = S.session /\ T.lastTurn = S.lastTurn
      /\ T.cursor = S.cursor /\ T.del = S.del /\ T.error = S.error
  BY DEF RecordOK, RecordTyped, TeamFields, Locked
<1> HIDE DEF T
<1>2. RecordTyped(T) /\ PointersHeld(T)
  BY <1>1 DEF RecordOK, RecordTyped, PointersHeld
<1>3. StatusHeld(T) /\ ClaimOwned(T)
  BY <1>1 DEF RecordOK, StatusHeld, ClaimOwned
<1>4. Budgeted(T, max)
  BY <1>1, DeliveriesSame DEF RecordOK, Budgeted
<1> QED
  BY <1>1, <1>2, <1>3, <1>4 DEF RecordOK, T

\* A new session is bound to the member.
LEMMA BindOK ==
  ASSUME NEW S, NEW max \in Nat, NEW m \in Members, NEW s \in Sessions, RecordOK(S, max)
  PROVE  LET T == [S EXCEPT !.session[m] = s] IN
         RecordOK(T, max) /\ Keeps(S, T) /\ T.task = S.task /\ T.del = S.del
<1> DEFINE T == [S EXCEPT !.session[m] = s]
<1>1. /\ DOMAIN T = TeamFields /\ T.status = S.status /\ T.control = S.control /\ T.spent = S.spent
      /\ T.turns = S.turns /\ T.events = S.events /\ T.task = S.task
      /\ T.member = S.member /\ T.session = [S.session EXCEPT ![m] = s] /\ T.lastTurn = S.lastTurn
      /\ T.cursor = S.cursor /\ T.del = S.del /\ T.error = S.error
  BY DEF RecordOK, RecordTyped, TeamFields
<1> HIDE DEF T
<1>2. RecordTyped(T) /\ PointersHeld(T)
  BY <1>1 DEF RecordOK, RecordTyped, PointersHeld
<1>3. StatusHeld(T) /\ ClaimOwned(T)
  BY <1>1 DEF RecordOK, StatusHeld, ClaimOwned
<1>4. Budgeted(T, max)
  BY <1>1, DeliveriesSame DEF RecordOK, Budgeted
<1>5. Keeps(S, T)
  <2>1. Len(S.events) \in Nat
    BY LenProperties DEF RecordOK, RecordTyped
  <2> QED
    BY <1>1, <2>1 DEF Keeps, RecordOK, RecordTyped
<1> QED
  BY <1>1, <1>2, <1>3, <1>4, <1>5 DEF RecordOK, T

\* The prompt of a delivery is confirmed.
Confirmed(S, m) == [S EXCEPT !.del[m].prompted = TRUE]
LEMMA ConfirmOK ==
  ASSUME NEW S, NEW max \in Nat, NEW m \in Members, RecordOK(S, max)
  PROVE  LET T == Confirmed(S, m) IN
         /\ RecordOK(T, max) /\ T.task = S.task /\ T.events = S.events
         /\ T.del = [S.del EXCEPT ![m].prompted = TRUE] /\ T.status = S.status
         /\ T.control = S.control /\ T.member = S.member /\ T.error = S.error
<1> DEFINE T == Confirmed(S, m)
<1>1. /\ DOMAIN T = TeamFields /\ T.status = S.status /\ T.control = S.control /\ T.spent = S.spent
      /\ T.turns = S.turns /\ T.events = S.events /\ T.task = S.task
      /\ T.member = S.member /\ T.session = S.session /\ T.lastTurn = S.lastTurn
      /\ T.cursor = S.cursor /\ T.del = [S.del EXCEPT ![m].prompted = TRUE] /\ T.error = S.error
  BY DEF RecordOK, RecordTyped, TeamFields, Confirmed
<1> HIDE DEF T
<1>2. /\ T.del \in [Members -> DeliveryRows]
      /\ \A n \in Members : /\ T.del[n].id = S.del[n].id /\ T.del[n].owner = S.del[n].owner
                            /\ T.del[n].through = S.del[n].through
  <2> DEFINE row == [S.del[m] EXCEPT !.prompted = TRUE]
  <2>1. S.del \in [Members -> DeliveryRows] /\ S.del[m] \in DeliveryRows
    BY DEF RecordOK, RecordTyped
  <2>2. /\ row \in DeliveryRows /\ row.id = S.del[m].id
        /\ row.owner = S.del[m].owner /\ row.through = S.del[m].through
    BY <2>1 DEF DeliveryRows
  <2>3. T.del = [S.del EXCEPT ![m] = row]
    BY <1>1
  <2> HIDE DEF row
  <2> QED
    BY <2>1, <2>2, <2>3
<1>3. RecordTyped(T) /\ PointersHeld(T)
  BY <1>1, <1>2 DEF RecordOK, RecordTyped, PointersHeld
<1>4. StatusHeld(T) /\ ClaimOwned(T)
  BY <1>1 DEF RecordOK, StatusHeld, ClaimOwned
<1>5. Budgeted(T, max)
  BY <1>1, <1>2, DeliveriesSame DEF RecordOK, Budgeted
<1> QED
  BY <1>1, <1>3, <1>4, <1>5 DEF RecordOK, T

\* A spent budget pauses the team.
LEMMA PauseOK ==
  ASSUME NEW S, NEW max \in Nat, NEW m \in Members, RecordOK(S, max), S.status # "none"
  PROVE  LET T == [S EXCEPT !.status = "paused", !.error[m] = "budget"] IN
         RecordOK(T, max) /\ Keeps(S, T) /\ T.task = S.task /\ T.del = S.del
<1> DEFINE T == [S EXCEPT !.status = "paused", !.error[m] = "budget"]
<1>1. /\ DOMAIN T = TeamFields /\ T.status = "paused" /\ T.control = S.control /\ T.spent = S.spent
      /\ T.turns = S.turns /\ T.events = S.events /\ T.task = S.task
      /\ T.member = S.member /\ T.session = S.session /\ T.lastTurn = S.lastTurn
      /\ T.cursor = S.cursor /\ T.del = S.del /\ T.error = [S.error EXCEPT ![m] = "budget"]
  BY DEF RecordOK, RecordTyped, TeamFields
<1> HIDE DEF T
<1>2. RecordTyped(T) /\ PointersHeld(T)
  BY <1>1 DEF RecordOK, RecordTyped, PointersHeld
<1>3. StatusHeld(T) /\ ClaimOwned(T)
  BY <1>1 DEF RecordOK, StatusHeld, ClaimOwned
<1>4. Budgeted(T, max)
  BY <1>1, DeliveriesSame DEF RecordOK, Budgeted
<1>5. Keeps(S, T)
  <2>1. Len(S.events) \in Nat
    BY LenProperties DEF RecordOK, RecordTyped
  <2> QED
    BY <1>1, <2>1 DEF Keeps, RecordOK, RecordTyped
<1> QED
  BY <1>1, <1>2, <1>3, <1>4, <1>5 DEF RecordOK, T

\* The last transaction of resume().
LEMMA ResumeOK ==
  ASSUME NEW S, NEW max \in Nat, RecordOK(S, max), S.status # "none"
  PROVE  LET T == Resume(S) IN
         /\ RecordOK(T, max) /\ T.task = S.task /\ T.del = S.del /\ T.events = S.events
         /\ T.control = S.control /\ T.status = "active" /\ T.member = S.member
<1> DEFINE T == Resume(S)
<1>1. /\ DOMAIN T = TeamFields /\ T.status = "active" /\ T.control = S.control /\ T.spent = S.spent
      /\ T.turns = S.turns /\ T.events = S.events /\ T.task = S.task
      /\ T.member = S.member /\ T.session = S.session /\ T.lastTurn = S.lastTurn
      /\ T.cursor = S.cursor /\ T.del = S.del /\ T.error = [m \in Members |-> "none"]
  BY DEF RecordOK, RecordTyped, TeamFields, Resume
<1> HIDE DEF T
<1>2. RecordTyped(T) /\ PointersHeld(T)
  BY <1>1 DEF RecordOK, RecordTyped, PointersHeld
<1>3. StatusHeld(T) /\ ClaimOwned(T)
  BY <1>1 DEF RecordOK, StatusHeld, ClaimOwned
<1>4. Budgeted(T, max)
  BY <1>1, DeliveriesSame DEF RecordOK, Budgeted
<1> QED
  BY <1>1, <1>2, <1>3, <1>4 DEF RecordOK, T

\* A delivery is reserved within the budget and the limit of two.
WithDelivery(S, m, row) == [S EXCEPT !.turns = @ + 1, !.del[m] = row]
LEMMA ReserveOK ==
  ASSUME NEW S, NEW max \in Nat, NEW m \in Members, NEW row \in DeliveryRows,
         RecordOK(S, max), S.member[m] = "active", S.del[m].id = 0,
         row.id # 0, row.owner \in Runtimes, row.through <= Len(S.events),
         Cardinality(Deliveries(S)) < 2, S.turns < max
  PROVE  LET T == WithDelivery(S, m, row) IN
         /\ RecordOK(T, max) /\ T.task = S.task /\ T.events = S.events
         /\ T.del = [S.del EXCEPT ![m] = row] /\ T.status = S.status
         /\ T.control = S.control /\ T.member = S.member /\ T.error = S.error
<1> DEFINE T == WithDelivery(S, m, row)
<1>1. /\ DOMAIN T = TeamFields /\ T.status = S.status /\ T.control = S.control /\ T.spent = S.spent
      /\ T.turns = S.turns + 1 /\ T.events = S.events /\ T.task = S.task
      /\ T.member = S.member /\ T.session = S.session /\ T.lastTurn = S.lastTurn
      /\ T.cursor = S.cursor /\ T.del = [S.del EXCEPT ![m] = row] /\ T.error = S.error
  BY DEF RecordOK, RecordTyped, TeamFields, WithDelivery
<1> HIDE DEF T
<1>2. RecordTyped(T) /\ PointersHeld(T)
  BY <1>1 DEF RecordOK, RecordTyped, PointersHeld
<1>3. StatusHeld(T) /\ ClaimOwned(T)
  BY <1>1 DEF RecordOK, StatusHeld, ClaimOwned
<1>4. Budgeted(T, max)
  <2>1. S.del \in [Members -> DeliveryRows] /\ S.turns \in Nat /\ S.spent \in Nat
    BY DEF RecordOK, RecordTyped
  <2>2. /\ Cardinality(Deliveries(T)) = Cardinality(Deliveries(S)) + 1
        /\ Cardinality(Deliveries(T)) \in Nat /\ Cardinality(Deliveries(S)) \in Nat
    BY <1>1, <2>1, DeliveryAdded
  <2> QED
    BY <1>1, <2>1, <2>2 DEF RecordOK, Budgeted
<1> QED
  BY <1>1, <1>2, <1>3, <1>4 DEF RecordOK, T

\* A refused lease drops the delivery it was asked for.
Refused(S, m) == [S EXCEPT !.del[m] = NoDelivery, !.turns = @ - 1]
LEMMA RefusedOK ==
  ASSUME NEW S, NEW max \in Nat, NEW m \in Members, NEW d, d # 0, S.del[m].id = d, RecordOK(S, max)
  PROVE  Refused(S, m) = Discard(S, m, d)
<1>1. m \in Deliveries(S)
  BY DEF Deliveries
<1>2. Cardinality(Deliveries(S)) \in Nat /\ Cardinality(Deliveries(S)) # 0
  BY <1>1, DeliveriesFinite, FS_EmptySet
<1>3. S.turns > 0 /\ S.turns \in Nat
  BY <1>2 DEF RecordOK, RecordTyped, Budgeted
<1> QED
  BY <1>3 DEF Discard, Less, Refused

\* A member joins: it has no delivery and no claim.
LEMMA AddOK ==
  ASSUME NEW S, NEW max \in Nat, NEW m \in Members, RecordOK(S, max), S.status # "none"
  PROVE  LET T == [S EXCEPT !.member[m] = "active"] IN
         RecordOK(T, max) /\ Keeps(S, T) /\ T.task = S.task /\ T.del = S.del
<1> DEFINE T == [S EXCEPT !.member[m] = "active"]
<1>1. /\ DOMAIN T = TeamFields /\ T.status = S.status /\ T.control = S.control /\ T.spent = S.spent
      /\ T.turns = S.turns /\ T.events = S.events /\ T.task = S.task
      /\ T.member = [S.member EXCEPT ![m] = "active"] /\ T.session = S.session
      /\ T.lastTurn = S.lastTurn /\ T.cursor = S.cursor /\ T.del = S.del /\ T.error = S.error
  BY DEF RecordOK, RecordTyped, TeamFields
<1> HIDE DEF T
<1>2. RecordTyped(T) /\ PointersHeld(T)
  BY <1>1 DEF RecordOK, RecordTyped, PointersHeld
<1>3. StatusHeld(T) /\ ClaimOwned(T)
  BY <1>1 DEF RecordOK, RecordTyped, StatusHeld, ClaimOwned
<1>4. Budgeted(T, max)
  BY <1>1, DeliveriesSame DEF RecordOK, Budgeted
<1>5. Keeps(S, T)
  <2>1. Len(S.events) \in Nat
    BY LenProperties DEF RecordOK, RecordTyped
  <2> QED
    BY <1>1, <2>1 DEF Keeps, RecordOK, RecordTyped
<1> QED
  BY <1>1, <1>2, <1>3, <1>4, <1>5 DEF RecordOK, T

\* A task is offered, claimed by an active member, settled, or its lease lapses.
LEMMA TaskOK ==
  ASSUME NEW S, NEW max \in Nat, NEW k \in Tasks, NEW row \in TaskRows, RecordOK(S, max),
         row.st = "claimed" => row.owner \in Members /\ S.member[row.owner] = "active"
  PROVE  LET T == [S EXCEPT !.task[k] = row] IN
         /\ RecordOK(T, max) /\ Keeps(S, T) /\ T.task = [S.task EXCEPT ![k] = row]
         /\ T.del = S.del /\ T.status = S.status /\ T.member = S.member
<1> DEFINE T == [S EXCEPT !.task[k] = row]
<1>1. /\ DOMAIN T = TeamFields /\ T.status = S.status /\ T.control = S.control /\ T.spent = S.spent
      /\ T.turns = S.turns /\ T.events = S.events /\ T.task = [S.task EXCEPT ![k] = row]
      /\ T.member = S.member /\ T.session = S.session
      /\ T.lastTurn = S.lastTurn /\ T.cursor = S.cursor /\ T.del = S.del /\ T.error = S.error
  BY DEF RecordOK, RecordTyped, TeamFields
<1> HIDE DEF T
<1>2. RecordTyped(T) /\ PointersHeld(T)
  BY <1>1 DEF RecordOK, RecordTyped, PointersHeld
<1>3. StatusHeld(T) /\ ClaimOwned(T)
  BY <1>1 DEF RecordOK, RecordTyped, StatusHeld, ClaimOwned
<1>4. Budgeted(T, max)
  BY <1>1, DeliveriesSame DEF RecordOK, Budgeted
<1>5. Keeps(S, T)
  <2>1. Len(S.events) \in Nat
    BY LenProperties DEF RecordOK, RecordTyped
  <2> QED
    BY <1>1, <2>1 DEF Keeps, RecordOK, RecordTyped
<1> QED
  BY <1>1, <1>2, <1>3, <1>4, <1>5 DEF RecordOK, T

\* create() makes a record without deliveries, claims or events.
LEMMA CreateOK ==
  ASSUME NEW max \in Nat
  PROVE  LET T == [NewTeam EXCEPT !.status = "active", !.member[Lead] = "active",
                                  !.session[Lead] = UserSession] IN
         /\ RecordOK(T, max) /\ T.control = NoOne /\ T.status = "active" /\ T.events = <<>>
         /\ \A m \in Members : T.del[m] = NoDelivery /\ T.error[m] = "none"
<1> DEFINE T == [NewTeam EXCEPT !.status = "active", !.member[Lead] = "active",
                                !.session[Lead] = UserSession]
<1>1. /\ DOMAIN T = TeamFields /\ T.status = "active" /\ T.control = NoOne /\ T.spent = 0
      /\ T.turns = 0 /\ T.events = <<>>
      /\ T.task = [k \in Tasks |-> [st |-> "none", owner |-> NoOne, fresh |-> FALSE]]
      /\ T.member = [[m \in Members |-> "absent"] EXCEPT ![Lead] = "active"]
      /\ T.session = [[m \in Members |-> NoSession] EXCEPT ![Lead] = UserSession]
      /\ T.lastTurn = [m \in Members |-> 0] /\ T.cursor = [m \in Members |-> 0]
      /\ T.del = [m \in Members |-> NoDelivery] /\ T.error = [m \in Members |-> "none"]
  BY DEF NewTeam, TeamFields
<1> HIDE DEF T
<1>2. T.events \in Seq(EventRows) /\ Len(T.events) = 0
  BY <1>1, EmptySeq
<1>3. RecordTyped(T)
  <2>1. T.session \in [Members -> Sessions \cup {NoSession}]
    <3>1. UserSession \in Sessions
      BY TeamConstants DEF Sessions, UserSession
    <3>2. Lead \in Members
      BY DEF Members
    <3> QED
      BY <1>1, <3>1, <3>2
  <2>2. T.del \in [Members -> DeliveryRows]
    BY <1>1, NoDeliveryTyped
  <2>3. T.task \in [Tasks -> TaskRows]
    BY <1>1 DEF TaskRows
  <2>4. T.member \in [Members -> {"absent", "active", "removed"}]
    BY <1>1
  <2>5. T.cursor \in [Members -> Nat] /\ DOMAIN T.error = Members /\ DOMAIN T.lastTurn = Members
    BY <1>1
  <2>6. T.turns \in Nat /\ T.spent \in Nat
    BY <1>1
  <2> QED
    BY <1>1, <1>2, <2>1, <2>2, <2>3, <2>4, <2>5, <2>6 DEF RecordTyped
<1>4. PointersHeld(T)
  BY <1>1, <1>2 DEF PointersHeld, NoDelivery
<1>5. StatusHeld(T) /\ ClaimOwned(T)
  BY <1>1 DEF StatusHeld, ClaimOwned
<1>6. Budgeted(T, max)
  <2>1. Deliveries(T) = {}
    BY <1>1 DEF Deliveries, NoDelivery
  <2> QED
    BY <1>1, <2>1, FS_EmptySet DEF Budgeted
<1> QED
  BY <1>1, <1>3, <1>4, <1>5, <1>6 DEF RecordOK, T

LEMMA NewTeamOK ==
  ASSUME NEW max \in Nat
  PROVE  RecordOK(NewTeam, max) /\ NewTeam.status = "none" /\ \A m \in Members : NewTeam.del[m] = NoDelivery
<1> DEFINE T == NewTeam
<1>1. /\ DOMAIN T = TeamFields /\ T.status = "none" /\ T.control = NoOne /\ T.spent = 0
      /\ T.turns = 0 /\ T.events = <<>>
      /\ T.task = [k \in Tasks |-> [st |-> "none", owner |-> NoOne, fresh |-> FALSE]]
      /\ T.member = [m \in Members |-> "absent"]
      /\ T.session = [m \in Members |-> NoSession]
      /\ T.lastTurn = [m \in Members |-> 0] /\ T.cursor = [m \in Members |-> 0]
      /\ T.del = [m \in Members |-> NoDelivery] /\ T.error = [m \in Members |-> "none"]
  BY DEF NewTeam, TeamFields
<1> HIDE DEF T
<1>2. T.events \in Seq(EventRows) /\ Len(T.events) = 0
  BY <1>1, EmptySeq
<1>3. RecordTyped(T)
  <2>2. T.del \in [Members -> DeliveryRows]
    BY <1>1, NoDeliveryTyped
  <2>3. T.task \in [Tasks -> TaskRows]
    BY <1>1 DEF TaskRows
  <2>4. T.session \in [Members -> Sessions \cup {NoSession}]
    BY <1>1
  <2>5. T.cursor \in [Members -> Nat] /\ DOMAIN T.error = Members /\ DOMAIN T.lastTurn = Members
    BY <1>1
  <2>6. T.turns \in Nat /\ T.spent \in Nat
    BY <1>1
  <2> QED
    BY <1>1, <1>2, <2>2, <2>3, <2>4, <2>5, <2>6 DEF RecordTyped
<1>4. PointersHeld(T)
  BY <1>1, <1>2 DEF PointersHeld, NoDelivery
<1>5. StatusHeld(T) /\ ClaimOwned(T)
  BY <1>1 DEF StatusHeld, ClaimOwned
<1>6. Budgeted(T, max)
  <2>1. Deliveries(T) = {}
    BY <1>1 DEF Deliveries, NoDelivery
  <2> QED
    BY <1>1, <2>1, FS_EmptySet DEF Budgeted
<1> QED
  BY <1>1, <1>3, <1>4, <1>5, <1>6 DEF RecordOK, T

\* Claims that ran out go back on offer; a member in a delivery keeps its own.
LEMMA ExpireOK ==
  ASSUME NEW S, NEW max \in Nat, RecordOK(S, max), S.status # "none"
  PROVE  LET T == Reoffer(S, Expired(S), NoOne) IN
         RecordOK(T, max) /\ Keeps(S, T) /\ ClaimsKept(S, T)
<1> DEFINE K == Expired(S)
           T == Reoffer(S, K, NoOne)
<1>1. K \in SUBSET Tasks
  BY DEF Expired
<1>2. \A k \in Tasks \ K : S.task[k].st = "claimed" =>
          S.task[k].owner \in Members /\ S.member[S.task[k].owner] = "active"
  BY DEF RecordOK, ClaimOwned
<1> HIDE DEF K
<1>3. /\ RecordOK(T, max) /\ Keeps(S, T)
      /\ \A k \in Tasks \ K : T.task[k] = S.task[k]
  BY <1>1, <1>2, ReofferOK DEF RecordOK
<1>4. ClaimsKept(S, T)
  BY <1>3 DEF ClaimsKept, K, Expired
<1> QED
  BY <1>3, <1>4 DEF K

-----------------------------------------------------------------------------
(* The state.                                                              *)

PumpFields == {"pc", "v", "d", "s", "cursor", "through"}
OpFields == {"pc", "kind", "r", "t", "by", "m", "todo", "v", "keep", "seen"}

\* The steps of a visit that carry a delivery.
Carrying == {"create", "check", "acquire", "prompt", "reply", "after"}

\* A visit under way belongs to a runtime that lives, and carries a delivery that was
\* reserved; what it is going to show was published.
PumpOK(r) ==
    /\ DOMAIN pump[r] = PumpFields
    /\ pump[r].pc \in {"idle", "judge", "release", "reserve"} \cup Carrying
    /\ pump[r].pc # "idle" => /\ pump[r].v.t \in Teams /\ pump[r].v.m \in Members
                              /\ up[r] \in {"up", "stopping"}
    /\ pump[r].d \in Nat /\ pump[r].d < nextD
    /\ pump[r].pc \in Carrying <=> pump[r].d # 0
    /\ pump[r].pc = "reserve" => /\ pump[r].through \in Nat
                                 /\ pump[r].through <= Len(db[pump[r].v.t].events)

\* An operation under way works on a team that was created, and each kind goes its way.
OpOK(o) ==
    /\ DOMAIN op[o] = OpFields
    /\ Working(o) => /\ op[o].t \in Teams /\ op[o].by \in Members /\ op[o].r \in Runtimes
                     /\ db[op[o].t].status # "none"
                     /\ op[o].kind \in {"remove", "delete", "resume"}
                     /\ op[o].kind = "remove" => op[o].m \in Peers
                     /\ op[o].pc \in {"abort", "forget"} => op[o].kind # "resume"
                     /\ op[o].pc \in {"prepare", "reconcile", "judge", "release", "sort", "free"}
                          => op[o].kind = "resume"
    /\ op[o].pc \in {"judge", "release"} => op[o].v.t = op[o].t /\ op[o].v.m \in Members
    /\ op[o].pc \in {"sort", "free"} => \A m \in op[o].todo : op[o].seen.del[m].id # 0

HostOK ==
    /\ lease \in [Sessions -> 0 .. MaxDeliveries]
    /\ home \in [Sessions -> Runtimes \cup {NoOne, Forgotten}]
    /\ up \in [Runtimes -> {"new", "up", "stopping", "down"}]
    /\ nextD \in 1 .. MaxDeliveries + 1
    /\ \A l \in late : l.r \in Runtimes

RecordsOK ==
    /\ lim \in Limits
    /\ DOMAIN db = Teams
    /\ \A t \in Teams : RecordOK(db[t], lim.maxTurns)

StateOK ==
    /\ RecordsOK /\ HostOK
    /\ DOMAIN pump = Runtimes /\ \A r \in Runtimes : PumpOK(r)
    /\ DOMAIN op = Ops /\ \A o \in Ops : OpOK(o)

\* What the records of a step must keep for the pumps and the operations of others.
Grown == \A t \in Teams :
    /\ Len(db[t].events) <= Len(db'[t].events)
    /\ db[t].status # "none" => db'[t].status # "none"

\* A step that neither opens a team, changes a lock, nor adds or alters a delivery.
QuietDb ==
    /\ lim' = lim /\ DOMAIN db' = Teams
    /\ \A t \in Teams : RecordOK(db'[t], lim.maxTurns) /\ Keeps(db[t], db'[t])

ClaimsQuiet == \A t \in Teams : ClaimsKept(db[t], db'[t])

LEMMA LimitIsNatural ==
  ASSUME lim \in Limits
  PROVE  lim.maxTurns \in Nat
BY TeamConstants

LEMMA UpdateQuiet ==
  ASSUME RecordsOK, NEW t \in Teams, NEW T, RecordOK(T, lim.maxTurns), Keeps(db[t], T),
         Update(t, T), lim' = lim
  PROVE  QuietDb
<1>1. DOMAIN db' = Teams /\ db'[t] = T /\ \A u \in Teams : u # t => db'[u] = db[u]
  BY DEF Update, RecordsOK
<1>2. \A u \in Teams : RecordOK(db[u], lim.maxTurns) /\ Keeps(db[u], db[u])
  BY KeepsRefl DEF RecordsOK
<1> QED
  BY <1>1, <1>2 DEF QuietDb

LEMMA UpdateClaims ==
  ASSUME RecordsOK, NEW t \in Teams, NEW T, Update(t, T), ClaimsKept(db[t], T)
  PROVE  ClaimsQuiet
<1>1. db'[t] = T /\ \A u \in Teams : u # t => db'[u] = db[u]
  BY DEF Update, RecordsOK
<1>2. \A u \in Teams : ClaimsKept(db[u], db[u])
  BY DEF ClaimsKept
<1> QED
  BY <1>1, <1>2 DEF ClaimsQuiet

LEMMA UnchangedQuiet ==
  ASSUME RecordsOK, db' = db, lim' = lim
  PROVE  QuietDb /\ ClaimsQuiet
<1>1. \A u \in Teams : RecordOK(db[u], lim.maxTurns) /\ Keeps(db[u], db[u])
  BY KeepsRefl DEF RecordsOK
<1> QED
  BY <1>1 DEF QuietDb, RecordsOK, ClaimsQuiet, ClaimsKept

LEMMA QuietGrows ==
  ASSUME QuietDb, RecordsOK
  PROVE  Grown /\ RecordsOK'
BY DEF QuietDb, Grown, Keeps, RecordsOK

LEMMA TaskSameKeepsClaims ==
  ASSUME NEW S, NEW T, T.task = S.task
  PROVE  ClaimsKept(S, T)
BY DEF ClaimsKept

LEMMA EventsCounted ==
  ASSUME RecordsOK, NEW t \in Teams
  PROVE  Len(db[t].events) \in Nat
BY LenProperties DEF RecordsOK, RecordOK, RecordTyped

LEMMA FailInOK ==
  ASSUME RecordsOK, NEW r, NEW t \in Teams, NEW S, NEW m \in Members, NEW reason, NEW clear \in BOOLEAN,
         RecordOK(S, lim.maxTurns)
  PROVE  LET T == FailIn(r, t, S, m, reason, clear) IN
         RecordOK(T, lim.maxTurns) /\ Keeps(S, T) /\ T.task = S.task /\ T.member = S.member
<1>1. lim.maxTurns \in Nat
  BY LimitIsNatural DEF RecordsOK
<1>2. CASE Removing(r, t, m)
  BY <1>2, KeepsRefl DEF FailIn
<1>3. CASE ~Removing(r, t, m)
  BY <1>1, <1>3, FailOK DEF FailIn
<1> QED
  BY <1>2, <1>3

\* reconcile()'s transaction after the transcript was read, in a pump or in resume().
LEMMA JudgeOK ==
  ASSUME RecordsOK, NEW r, NEW v, v.t \in Teams, v.m \in Members
  PROVE  LET S == db[v.t]
             T == Judge(r, v)
         IN RecordOK(T, lim.maxTurns) /\ Keeps(S, T) /\ T.task = S.task /\ T.member = S.member
<1> DEFINE S == db[v.t]
           i == FinalTurn(v.s)
           T == Judge(r, v)
<1>0. lim.maxTurns \in Nat /\ RecordOK(S, lim.maxTurns)
  BY LimitIsNatural DEF RecordsOK
<1>1. \/ T = RecordTurn(S, v, i, log[v.s][i].st)
      \/ T = FailIn(r, v.t, S, v.m, "interrupted", FALSE)
      \/ T = S
  BY DEF Judge
<1> HIDE DEF T, S, i
<1>2. RecordOK(T, lim.maxTurns) /\ Keeps(S, T) /\ T.task = S.task /\ T.member = S.member
  <2>1. CASE T = RecordTurn(S, v, i, log[v.s][i].st)
    BY <1>0, <2>1, RecordTurnOK
  <2>2. CASE T = FailIn(r, v.t, S, v.m, "interrupted", FALSE)
    <3>1. FALSE \in BOOLEAN
      OBVIOUS
    <3>2. \A t \in Teams, m \in Members, clear \in BOOLEAN :
             LET U == FailIn(r, t, S, m, "interrupted", clear) IN
             RecordOK(U, lim.maxTurns) /\ Keeps(S, U) /\ U.task = S.task /\ U.member = S.member
      BY <1>0, FailInOK
    <3>3. LET U == FailIn(r, v.t, S, v.m, "interrupted", FALSE) IN
             RecordOK(U, lim.maxTurns) /\ Keeps(S, U) /\ U.task = S.task /\ U.member = S.member
      BY <3>1, <3>2, Zenon
    <3> QED
      BY <2>2, <3>3, Zenon
  <2>3. CASE T = S
    BY <1>0, <2>3, KeepsRefl
  <2> QED
    BY <1>1, <2>1, <2>2, <2>3
<1> QED
  BY <1>2 DEF T, S

LEMMA PumpFrame ==
  ASSUME RecordsOK, NEW q \in Runtimes, PumpOK(q), pump'[q] = pump[q], Grown, RecordsOK',
         nextD \in Nat, nextD' \in Nat, nextD <= nextD',
         up[q] \in {"up", "stopping"} => up'[q] \in {"up", "stopping"}
  PROVE  PumpOK(q)'
<1>1. \A t \in Teams : Len(db[t].events) \in Nat /\ Len(db'[t].events) \in Nat
  <2>1. \A t \in Teams : RecordOK(db[t], lim.maxTurns) /\ RecordOK(db'[t], lim'.maxTurns)
    BY DEF RecordsOK
  <2> QED
    BY <2>1, LenProperties DEF RecordOK, RecordTyped
<1> QED
  BY <1>1 DEF PumpOK, Grown, Carrying

LEMMA OpFrame ==
  ASSUME NEW o \in Ops, OpOK(o), op'[o] = op[o], Grown
  PROVE  OpOK(o)'
BY DEF OpOK, Grown, Working

LEMMA FailCleared ==
  ASSUME RecordsOK, NEW t \in Teams, NEW m \in Members, NEW reason
  PROVE  LET T == Fail(db[t], m, reason, TRUE) IN
         /\ RecordOK(T, lim.maxTurns) /\ Keeps(db[t], T) /\ T.task = db[t].task
         /\ T.member = db[t].member
         /\ T.status = "deleted" \/ T.del[m].id = 0
<1>1. TRUE \in BOOLEAN /\ RecordOK(db[t], lim.maxTurns) /\ lim.maxTurns \in Nat
  BY LimitIsNatural DEF RecordsOK
<1>2. \A clear \in BOOLEAN : LET T == Fail(db[t], m, reason, clear) IN
         /\ RecordOK(T, lim.maxTurns) /\ Keeps(db[t], T) /\ T.task = db[t].task
         /\ T.member = db[t].member
         /\ clear => T.status = "deleted" \/ T.del[m].id = 0
  BY <1>1, FailOK
<1> QED
  BY <1>1, <1>2, Zenon

LEMMA FailInKept ==
  ASSUME RecordsOK, NEW r, NEW t \in Teams, NEW m \in Members, NEW reason
  PROVE  LET T == FailIn(r, t, db[t], m, reason, FALSE) IN
         /\ RecordOK(T, lim.maxTurns) /\ Keeps(db[t], T) /\ T.task = db[t].task
         /\ T.member = db[t].member
<1>1. FALSE \in BOOLEAN /\ RecordOK(db[t], lim.maxTurns)
  BY DEF RecordsOK
<1>2. \A clear \in BOOLEAN : LET T == FailIn(r, t, db[t], m, reason, clear) IN
         /\ RecordOK(T, lim.maxTurns) /\ Keeps(db[t], T) /\ T.task = db[t].task
         /\ T.member = db[t].member
  BY <1>1, FailInOK
<1> QED
  BY <1>1, <1>2, Zenon

\* An update that keeps the tasks.
LEMMA UpdateTaskSame ==
  ASSUME RecordsOK, NEW t \in Teams, NEW T, RecordOK(T, lim.maxTurns), Keeps(db[t], T),
         T.task = db[t].task, Update(t, T), lim' = lim
  PROVE  QuietDb /\ ClaimsQuiet
BY UpdateQuiet, UpdateClaims, TaskSameKeepsClaims

-----------------------------------------------------------------------------
(* Which steps are quiet.                                                  *)

LEMMA ThrowQuiet ==
  ASSUME RecordsOK, NEW r \in Runtimes, PumpOK(r), pump[r].pc # "idle", PumpThrow(r), lim' = lim
  PROVE  QuietDb /\ ClaimsQuiet
<1> DEFINE t == pump[r].v.t
           m == pump[r].v.m
           T == FailIn(r, t, db[t], m, "thrown", FALSE)
<1>1. t \in Teams /\ m \in Members
  BY DEF PumpOK
<1>2. RecordOK(T, lim.maxTurns) /\ Keeps(db[t], T) /\ T.task = db[t].task
  BY <1>1, FailInKept, Zenon
<1>3. Update(t, T)
  BY DEF PumpThrow
<1> HIDE DEF T, t
<1> QED
  BY <1>1, <1>2, <1>3, UpdateTaskSame

LEMMA JudgeQuiet ==
  ASSUME RecordsOK, NEW r, NEW v, v.t \in Teams, v.m \in Members, Update(v.t, Judge(r, v)), lim' = lim
  PROVE  QuietDb /\ ClaimsQuiet
<1>1. LET T == Judge(r, v) IN
      RecordOK(T, lim.maxTurns) /\ Keeps(db[v.t], T) /\ T.task = db[v.t].task
  BY JudgeOK
<1> QED
  BY <1>1, UpdateTaskSame

LEMMA AcquireQuiet ==
  ASSUME RecordsOK, NEW r \in Runtimes, PumpOK(r), PumpAcquire(r)
  PROVE  QuietDb /\ ClaimsQuiet
<1> DEFINE t == pump[r].v.t
           m == pump[r].v.m
           d == pump[r].d
           S == db[t]
<1>1. t \in Teams /\ m \in Members /\ d # 0 /\ lim' = lim
  BY DEF PumpOK, PumpAcquire, Carrying, bounds
<1>2. CASE db' = db
  BY <1>1, <1>2, UnchangedQuiet
<1>3. CASE db' # db
  <2>1. Update(t, IF S.del[m].id = d THEN [S EXCEPT !.del[m] = NoDelivery, !.turns = @ - 1] ELSE S)
    BY <1>3 DEF PumpAcquire
  <2>2. lim.maxTurns \in Nat /\ RecordOK(S, lim.maxTurns)
    BY <1>1, LimitIsNatural DEF RecordsOK
  <2> HIDE DEF S, d, t, m
  <2>3. Update(t, Discard(S, m, d))
    <3>1. CASE S.del[m].id = d
      <4>1. Refused(S, m) = Discard(S, m, d)
        BY <1>1, <2>2, <3>1, RefusedOK
      <4> QED
        BY <2>1, <3>1, <4>1 DEF Refused
    <3>2. CASE S.del[m].id # d
      BY <2>1, <3>2 DEF Discard
    <3> QED
      BY <3>1, <3>2
  <2>4. RecordOK(Discard(S, m, d), lim.maxTurns) /\ Keeps(S, Discard(S, m, d))
        /\ Discard(S, m, d).task = S.task
    BY <1>1, <2>2, DiscardOK
  <2> QED
    BY <1>1, <2>3, <2>4, UpdateTaskSame DEF S
<1> QED
  BY <1>2, <1>3

LEMMA ErrorQuiet ==
  ASSUME RecordsOK, NEW r, NEW s, SessionError(r, s)
  PROVE  QuietDb /\ ClaimsQuiet
<1> DEFINE hit(t) == {m \in ActiveMembers(db[t]) :
                      db[t].session[m] = s /\ db[t].status # "deleted" /\ ~Removing(r, t, m)}
<1>1. /\ lim' = lim
      /\ db' = [t \in Teams |-> IF hit(t) = {} THEN db[t]
                                ELSE Fail(db[t], CHOOSE m \in hit(t) : TRUE, "event", TRUE)]
  BY DEF SessionError
<1>2. ASSUME NEW t \in Teams
      PROVE  RecordOK(db'[t], lim.maxTurns) /\ Keeps(db[t], db'[t]) /\ ClaimsKept(db[t], db'[t])
  <2>1. CASE hit(t) = {}
    <3>1. db'[t] = db[t] /\ RecordOK(db[t], lim.maxTurns)
      BY <1>1, <2>1 DEF RecordsOK
    <3> QED
      BY <3>1, KeepsRefl DEF ClaimsKept
  <2>2. CASE hit(t) # {}
    <3> DEFINE m == CHOOSE m \in hit(t) : TRUE
    <3>1. m \in Members
      BY <2>2 DEF ActiveMembers
    <3>2. db'[t] = Fail(db[t], m, "event", TRUE)
      BY <1>1, <2>2
    <3> HIDE DEF m
    <3>3. \A T : T = Fail(db[t], m, "event", TRUE) =>
             RecordOK(T, lim.maxTurns) /\ Keeps(db[t], T) /\ T.task = db[t].task
      BY <3>1, FailCleared, Zenon
    <3>4. RecordOK(db'[t], lim.maxTurns) /\ Keeps(db[t], db'[t]) /\ db'[t].task = db[t].task
      BY <3>2, <3>3, Zenon
    <3> QED
      BY <3>4, TaskSameKeepsClaims
  <2> QED
    BY <2>1, <2>2
<1> QED
  BY <1>1, <1>2 DEF QuietDb, ClaimsQuiet

\* What the pump does to the records, but for the reservation and the confirmation.
PumpQuietly(r) ==
    \/ PumpJudge(r) \/ PumpRelease(r) \/ PumpCreate(r) \/ PumpCheck(r) \/ PumpAcquire(r)
    \/ PumpPrompt(r) \/ PumpAfter(r) \/ PumpFault(r)
    \/ \E t \in Teams : PumpExpire(r, t) \/ PumpForget(r, t) \/ \E m \in Members : PumpVisit(r, t, m)

LEMMA PumpIsQuiet ==
  ASSUME RecordsOK, NEW r \in Runtimes, PumpOK(r), PumpQuietly(r)
  PROVE  QuietDb /\ ClaimsQuiet
<1>0. lim.maxTurns \in Nat /\ \A t \in Teams : RecordOK(db[t], lim.maxTurns)
  BY LimitIsNatural DEF RecordsOK
<1>1. CASE PumpJudge(r)
  <2>1. pump[r].v.t \in Teams /\ pump[r].v.m \in Members /\ lim' = lim
        /\ Update(pump[r].v.t, Judge(r, pump[r].v))
    BY <1>1 DEF PumpJudge, PumpOK, bounds
  <2> QED
    BY <2>1, JudgeQuiet
<1>2. CASE PumpRelease(r) \/ PumpCheck(r) \/ PumpPrompt(r) \/ PumpAfter(r)
  <2>1. db' = db /\ lim' = lim
    BY <1>2 DEF PumpRelease, PumpCheck, PumpPrompt, PumpAfter, bounds
  <2> QED
    BY <2>1, UnchangedQuiet
<1>3. CASE PumpCreate(r)
  <2> DEFINE t == pump[r].v.t
             m == pump[r].v.m
             d == pump[r].d
             T == IF db[t].del[m].id = d THEN [db[t] EXCEPT !.session[m] = d] ELSE db[t]
  <2>1. t \in Teams /\ m \in Members /\ lim' = lim /\ Update(t, T) /\ d # 0
    BY <1>3 DEF PumpCreate, PumpOK, Carrying, bounds
  <2>2. CASE db[t].del[m].id = d
    <3>1. d \in Sessions
      BY <1>0, <2>1, <2>2 DEF RecordOK, RecordTyped, DeliveryRows, Sessions
    <3> HIDE DEF t, m, d
    <3>2. LET U == [db[t] EXCEPT !.session[m] = d] IN
          RecordOK(U, lim.maxTurns) /\ Keeps(db[t], U) /\ U.task = db[t].task
      BY <1>0, <2>1, <3>1, BindOK
    <3> QED
      BY <2>1, <2>2, <3>2, UpdateTaskSame
  <2>3. CASE db[t].del[m].id # d
    <3>1. RecordOK(T, lim.maxTurns) /\ Keeps(db[t], T) /\ T.task = db[t].task
      BY <1>0, <2>1, <2>3, KeepsRefl
    <3> QED
      BY <2>1, <3>1, UpdateTaskSame
  <2> QED
    BY <2>2, <2>3
<1>4. CASE PumpAcquire(r)
  BY <1>4, AcquireQuiet
<1>5. CASE PumpFault(r)
  <2>1. PumpThrow(r) /\ lim' = lim /\ pump[r].pc # "idle"
    BY <1>5 DEF PumpFault, PumpCreateFails, PumpReplyLost, PumpPromptFails, bounds
  <2> QED
    BY <2>1, ThrowQuiet
<1>6. ASSUME NEW t \in Teams, PumpExpire(r, t)
      PROVE  QuietDb /\ ClaimsQuiet
  <2>1. db[t].status # "none" /\ Update(t, Reoffer(db[t], Expired(db[t]), NoOne)) /\ lim' = lim
    BY <1>6 DEF PumpExpire, bounds
  <2>2. LET T == Reoffer(db[t], Expired(db[t]), NoOne) IN
        RecordOK(T, lim.maxTurns) /\ Keeps(db[t], T) /\ ClaimsKept(db[t], T)
    BY <1>0, <2>1, ExpireOK
  <2> QED
    BY <2>1, <2>2, UpdateQuiet, UpdateClaims
<1>7. ASSUME NEW t \in Teams, PumpForget(r, t) \/ \E m \in Members : PumpObserve(r, t, m) \/ PumpLook(r, t, m)
      PROVE  QuietDb /\ ClaimsQuiet
  <2>1. db' = db /\ lim' = lim
    BY <1>7 DEF PumpForget, PumpObserve, PumpLook, bounds
  <2> QED
    BY <2>1, UnchangedQuiet
<1>8. ASSUME NEW t \in Teams, NEW m \in Members, PumpUnbindable(r, t, m)
      PROVE  QuietDb /\ ClaimsQuiet
  <2> DEFINE T == Fail(db[t], m, "binding", TRUE)
  <2>1. Update(t, T) /\ lim' = lim
    BY <1>8 DEF PumpUnbindable, bounds
  <2>2. RecordOK(T, lim.maxTurns) /\ Keeps(db[t], T) /\ T.task = db[t].task
    BY FailCleared, Zenon
  <2> HIDE DEF T
  <2> QED
    BY <2>1, <2>2, UpdateTaskSame
<1> QED
  BY <1>1, <1>2, <1>3, <1>4, <1>5, <1>6, <1>7, <1>8 DEF PumpQuietly, PumpVisit

\* What members do in their turns to a team that exists.
MemberQuietly(t) ==
    \/ \E m \in Peers : Add(t, m)
    \/ \E m \in Members, to \in Members \cup {Everyone}, wake \in BOOLEAN : SendMessage(t, m, to, wake)
    \/ \E m \in Members, k \in Tasks : OfferTask(t, m, k) \/ ClaimTask(t, m, k)
    \/ \E k \in Tasks : ClaimLapses(t, k)

LEMMA MemberIsQuiet ==
  ASSUME RecordsOK, NEW t \in Teams, MemberQuietly(t)
  PROVE  QuietDb /\ ClaimsQuiet
<1>0. lim.maxTurns \in Nat /\ RecordOK(db[t], lim.maxTurns) /\ Peers \subseteq Members
  BY LimitIsNatural DEF RecordsOK, Members
<1>1. ASSUME NEW m \in Peers, Add(t, m)
      PROVE  QuietDb /\ ClaimsQuiet
  <2>1. db[t].status # "none" /\ Update(t, [db[t] EXCEPT !.member[m] = "active"]) /\ lim' = lim
    BY <1>1 DEF Add, bounds
  <2>2. LET T == [db[t] EXCEPT !.member[m] = "active"] IN
        RecordOK(T, lim.maxTurns) /\ Keeps(db[t], T) /\ T.task = db[t].task
    BY <1>0, <2>1, AddOK
  <2> QED
    BY <2>1, <2>2, UpdateTaskSame
<1>2. ASSUME NEW m \in Members, NEW to \in Members \cup {Everyone}, NEW wake \in BOOLEAN,
             SendMessage(t, m, to, wake)
      PROVE  QuietDb /\ ClaimsQuiet
  <2> DEFINE e == Event("message", m, to, wake)
  <2>1. db[t].status # "none" /\ Update(t, Append1(db[t], e)) /\ lim' = lim
    BY <1>2 DEF SendMessage, Sends
  <2>2. e \in EventRows
    BY DEF Event, EventRows
  <2> HIDE DEF e
  <2>3. LET T == Append1(db[t], e) IN
        RecordOK(T, lim.maxTurns) /\ Keeps(db[t], T) /\ T.task = db[t].task
    BY <1>0, <2>1, <2>2, AppendOK
  <2> QED
    BY <2>1, <2>3, UpdateTaskSame
<1>3. ASSUME NEW m \in Members, NEW k \in Tasks, OfferTask(t, m, k)
      PROVE  QuietDb /\ ClaimsQuiet
  <2> DEFINE e == Event("offer", m, Everyone, TRUE)
             U == [db[t] EXCEPT !.task[k] = OfferedTask]
             T == Append1(U, e)
  <2>1. db[t].status # "none" /\ Update(t, T) /\ lim' = lim /\ db[t].task[k].st = "none"
    BY <1>3 DEF OfferTask, Sends
  <2>2. e \in EventRows /\ OfferedTask \in TaskRows /\ OfferedTask.st # "claimed"
    BY DEF Event, EventRows, OfferedTask, TaskRows
  <2>3. /\ RecordOK(U, lim.maxTurns) /\ Keeps(db[t], U)
        /\ U.task = [db[t].task EXCEPT ![k] = OfferedTask] /\ U.status = db[t].status
        /\ U.member = db[t].member /\ U.del = db[t].del
    <3> HIDE DEF e
    <3> QED
      BY <1>0, <2>2, TaskOK
  <2> HIDE DEF e, U
  <2>4. /\ RecordOK(T, lim.maxTurns) /\ Keeps(U, T) /\ T.task = U.task
        /\ T.member = U.member /\ T.del = U.del
    BY <1>0, <2>1, <2>2, <2>3, AppendOK
  <2> HIDE DEF T
  <2>5. Len(db[t].events) \in Nat /\ Len(U.events) \in Nat /\ Len(T.events) \in Nat
    BY <1>0, <2>3, <2>4, LenProperties DEF RecordOK, RecordTyped
  <2>6. Keeps(db[t], T)
    BY <2>3, <2>4, <2>5 DEF Keeps
  <2>7. ClaimsKept(db[t], T)
    BY <1>0, <2>1, <2>3, <2>4 DEF ClaimsKept, RecordOK, RecordTyped
  <2> QED
    BY <2>1, <2>4, <2>6, <2>7, UpdateQuiet, UpdateClaims
<1>4. ASSUME NEW m \in Members, NEW k \in Tasks, ClaimTask(t, m, k)
      PROVE  QuietDb /\ ClaimsQuiet
  <2> DEFINE row == [st |-> "claimed", owner |-> m, fresh |-> TRUE]
             T == [db[t] EXCEPT !.task[k] = row]
  <2>1. /\ Update(t, T) /\ lim' = lim /\ db[t].member[m] = "active"
        /\ Claimable(db[t], m, k)
    BY <1>4 DEF ClaimTask, Sends, Acting
  <2>2. row \in TaskRows /\ row.owner = m
    BY DEF TaskRows
  <2>3. /\ RecordOK(T, lim.maxTurns) /\ Keeps(db[t], T)
        /\ T.task = [db[t].task EXCEPT ![k] = row]
        /\ T.member = db[t].member /\ T.del = db[t].del
    <3> HIDE DEF row
    <3> QED
      BY <1>0, <2>1, <2>2, TaskOK
  <2> HIDE DEF T, row
  <2>4. ClaimsKept(db[t], T)
    <3> SUFFICES ASSUME NEW j \in Tasks, db[t].task[j].st = "claimed",
                        db[t].del[db[t].task[j].owner].id # 0,
                        T.task[j].owner # db[t].task[j].owner
                 PROVE  FALSE
      BY DEF ClaimsKept
    <3>1. j = k /\ db[t].task[k].owner # m
      BY <1>0, <2>2, <2>3 DEF RecordOK, RecordTyped
    <3>2. db[t].task[k].owner \in Members
      BY <1>0, <3>1 DEF RecordOK, ClaimOwned
    <3>3. db[t].task[k].owner \notin {NoOne, m}
      BY <3>1, <3>2, TeamConstants DEF Members
    <3> QED
      BY <2>1, <3>1, <3>3 DEF Claimable
  <2> QED
    BY <2>1, <2>3, <2>4, UpdateQuiet, UpdateClaims
<1>5. ASSUME NEW k \in Tasks, ClaimLapses(t, k)
      PROVE  QuietDb /\ ClaimsQuiet
  <2> DEFINE row == [db[t].task[k] EXCEPT !.fresh = FALSE]
             T == [db[t] EXCEPT !.task[k] = row]
  <2>1. Update(t, T) /\ lim' = lim
    BY <1>5 DEF ClaimLapses, bounds
  <2>2. db[t].task[k] \in TaskRows
    BY <1>0 DEF RecordOK, RecordTyped
  <2>3. row \in TaskRows /\ row.owner = db[t].task[k].owner /\ row.st = db[t].task[k].st
    BY <2>2 DEF TaskRows
  <2>4. row.st = "claimed" => row.owner \in Members /\ db[t].member[row.owner] = "active"
    BY <1>0, <2>3 DEF RecordOK, ClaimOwned
  <2> HIDE DEF row
  <2>5. /\ RecordOK(T, lim.maxTurns) /\ Keeps(db[t], T)
        /\ T.task = [db[t].task EXCEPT ![k] = row]
    BY <1>0, <2>3, <2>4, TaskOK
  <2> HIDE DEF T
  <2>6. ClaimsKept(db[t], T)
    BY <1>0, <2>3, <2>5 DEF ClaimsKept, RecordOK, RecordTyped
  <2> QED
    BY <2>1, <2>5, <2>6, UpdateQuiet, UpdateClaims
<1> QED
  BY <1>1, <1>2, <1>3, <1>4, <1>5 DEF MemberQuietly

\* A claim that is settled, done or given back, by its owner.
LEMMA SettleIsQuiet ==
  ASSUME RecordsOK, NEW t \in Teams, NEW m \in Members, NEW k \in Tasks, NEW done \in BOOLEAN,
         SettleTask(t, m, k, done)
  PROVE  /\ QuietDb /\ db[t].task[k].owner = m
         /\ \A u \in Teams, j \in Tasks : u # t \/ j # k => db'[u].task[j] = db[u].task[j]
<1> DEFINE e == Event("settle", m, Everyone, TRUE)
           row == IF done THEN [db[t].task[k] EXCEPT !.st = "completed", !.fresh = FALSE]
                          ELSE OfferedTask
           U == [db[t] EXCEPT !.task[k] = row]
           T == Append1(U, e)
<1>0. lim.maxTurns \in Nat /\ RecordOK(db[t], lim.maxTurns)
  BY LimitIsNatural DEF RecordsOK
<1>1. db[t].status # "none" /\ Update(t, T) /\ lim' = lim /\ db[t].task[k].owner = m
  BY DEF SettleTask, Sends
<1>2. db[t].task[k] \in TaskRows
  BY <1>0 DEF RecordOK, RecordTyped
<1>3. e \in EventRows /\ row \in TaskRows /\ row.st # "claimed"
  <2>1. OfferedTask \in TaskRows /\ OfferedTask.st # "claimed"
    BY DEF OfferedTask, TaskRows
  <2>2. LET x == [db[t].task[k] EXCEPT !.st = "completed", !.fresh = FALSE] IN
        x \in TaskRows /\ x.st = "completed"
    BY <1>2 DEF TaskRows
  <2> QED
    BY <2>1, <2>2 DEF Event, EventRows
<1> HIDE DEF e, row
<1>4. /\ RecordOK(U, lim.maxTurns) /\ Keeps(db[t], U)
      /\ U.task = [db[t].task EXCEPT ![k] = row] /\ U.status = db[t].status
  BY <1>0, <1>3, TaskOK
<1> HIDE DEF U
<1>5. RecordOK(T, lim.maxTurns) /\ Keeps(U, T) /\ T.task = U.task /\ T.member = U.member
  BY <1>0, <1>1, <1>3, <1>4, AppendOK
<1> HIDE DEF T
<1>6. Len(db[t].events) \in Nat /\ Len(U.events) \in Nat /\ Len(T.events) \in Nat
  BY <1>0, <1>4, <1>5, LenProperties DEF RecordOK, RecordTyped
<1>7. Keeps(db[t], T)
  BY <1>4, <1>5, <1>6 DEF Keeps
<1>8. QuietDb
  BY <1>1, <1>5, <1>7, UpdateQuiet
<1>9. ASSUME NEW u \in Teams, NEW j \in Tasks, u # t \/ j # k
      PROVE  db'[u].task[j] = db[u].task[j]
  BY <1>0, <1>1, <1>4, <1>5, <1>9 DEF Update, RecordsOK, RecordOK, RecordTyped
<1> QED
  BY <1>1, <1>8, <1>9

\* What an operation does to the records, but for the lock and the end of resume().
OpQuietly(o) ==
    \/ OpRead(o) \/ OpCommit(o) \/ OpForget(o) \/ OpPrepared(o) \/ OpJudge(o)
    \/ OpRelease(o) \/ OpReconciled(o) \/ OpFree(o)
    \/ \E m \in Members : OpAbort(o, m) \/ OpPrepare(o, m) \/ OpReconcile(o, m) \/ OpSort(o, m)

LEMMA OpIsQuiet ==
  ASSUME RecordsOK, NEW o \in Ops, OpOK(o), OpQuietly(o)
  PROVE  QuietDb /\ ClaimsQuiet
<1> DEFINE t == op[o].t
<1>0. lim.maxTurns \in Nat /\ \A u \in Teams : RecordOK(db[u], lim.maxTurns)
  BY LimitIsNatural DEF RecordsOK
<1>1. CASE OpRead(o) \/ OpForget(o) \/ OpPrepared(o) \/ OpRelease(o) \/ OpReconciled(o) \/ OpFree(o)
           \/ \E m \in Members : OpAbort(o, m) \/ OpPrepare(o, m)
  <2>1. db' = db /\ lim' = lim
    BY <1>1 DEF OpRead, OpForget, OpPrepared, OpRelease, OpReconciled, OpFree, OpAbort, OpPrepare, bounds
  <2> QED
    BY <2>1, UnchangedQuiet
<1>2. CASE OpCommit(o)
  <2>1. /\ t \in Teams /\ lim' = lim /\ db[t].status # "none"
        /\ op[o].kind = "remove" => op[o].m \in Members
        /\ Update(t, IF op[o].kind = "remove" THEN Remove(db[t], op[o].m) ELSE Delete(db[t]))
    BY <1>2 DEF OpCommit, OpOK, Working, At, bounds, Members
  <2> HIDE DEF t
  <2>2. CASE op[o].kind = "remove"
    <3>1. LET T == Remove(db[t], op[o].m) IN
          RecordOK(T, lim.maxTurns) /\ Keeps(db[t], T) /\ ClaimsKept(db[t], T)
      BY <1>0, <2>1, <2>2, RemoveOK
    <3> QED
      BY <2>1, <2>2, <3>1, UpdateQuiet, UpdateClaims
  <2>3. CASE op[o].kind # "remove"
    <3>1. LET T == Delete(db[t]) IN
          RecordOK(T, lim.maxTurns) /\ Keeps(db[t], T) /\ T.task = db[t].task
      BY <1>0, <2>1, DeleteOK
    <3> QED
      BY <2>1, <2>3, <3>1, UpdateTaskSame
  <2> QED
    BY <2>2, <2>3
<1>3. CASE OpJudge(o)
  <2>1. op[o].v.t \in Teams /\ op[o].v.m \in Members /\ lim' = lim
        /\ Update(op[o].v.t, Judge(op[o].r, op[o].v))
    BY <1>3 DEF OpJudge, OpOK, Working, At, bounds
  <2> QED
    BY <2>1, JudgeQuiet
<1>4. ASSUME NEW m \in Members, OpReconcile(o, m)
      PROVE  QuietDb /\ ClaimsQuiet
  <2> DEFINE T == Fail(db[t], m, "binding", TRUE)
  <2>1. t \in Teams /\ lim' = lim /\ (Update(t, T) \/ db' = db)
    BY <1>4 DEF OpReconcile, OpOK, Working, At, bounds
  <2>2. RecordOK(T, lim.maxTurns) /\ Keeps(db[t], T) /\ T.task = db[t].task
    <3> HIDE DEF t
    <3> QED
      BY <2>1, FailCleared, Zenon
  <2> HIDE DEF T, t
  <2>3. CASE Update(t, T)
    BY <2>1, <2>2, <2>3, UpdateTaskSame
  <2>4. CASE db' = db
    BY <2>1, <2>4, UnchangedQuiet
  <2> QED
    BY <2>1, <2>3, <2>4
<1>5. ASSUME NEW m \in Members, OpSort(o, m)
      PROVE  QuietDb /\ ClaimsQuiet
  <2> DEFINE d == op[o].seen.del[m].id
  <2>1. t \in Teams /\ d # 0 /\ lim' = lim /\ (Update(t, Discard(db[t], m, d)) \/ db' = db)
    BY <1>5 DEF OpSort, OpOK, Working, At, bounds
  <2> HIDE DEF d, t
  <2>2. LET T == Discard(db[t], m, d) IN
        RecordOK(T, lim.maxTurns) /\ Keeps(db[t], T) /\ T.task = db[t].task
    BY <1>0, <2>1, DiscardOK
  <2>3. CASE Update(t, Discard(db[t], m, d))
    BY <2>1, <2>2, <2>3, UpdateTaskSame
  <2>4. CASE db' = db
    BY <2>1, <2>4, UnchangedQuiet
  <2> QED
    BY <2>1, <2>3, <2>4
<1> QED
  BY <1>1, <1>2, <1>3, <1>4, <1>5 DEF OpQuietly

\* The steps of the host and of the processes.
HostQuietly ==
    \/ \E r \in Runtimes : \/ Start(r) \/ Restore(r) \/ Crash(r) \/ Stop(r) \/ Disposed(r)
                           \/ \E s \in Sessions : SessionError(r, s)
    \/ \E l \in late : LatePrompt(l)
    \/ \E s \in Sessions : UserTurn(s) \/ TurnStarts(s) \/ \E out \in {"ok", "failed"} : TurnEnds(s, out)

LEMMA HostIsQuiet ==
  ASSUME RecordsOK, HostQuietly
  PROVE  QuietDb /\ ClaimsQuiet
<1>1. ASSUME NEW r \in Runtimes, NEW s \in Sessions, SessionError(r, s)
      PROVE  QuietDb /\ ClaimsQuiet
  BY <1>1, ErrorQuiet
<1>2. ASSUME ~\E r \in Runtimes, s \in Sessions : SessionError(r, s)
      PROVE  QuietDb /\ ClaimsQuiet
  <2>1. db' = db /\ lim' = lim
    BY <1>2 DEF HostQuietly, Start, Restore, Crash, Stop, Disposed, Leave, LatePrompt, UserTurn,
                TurnStarts, TurnEnds, bounds
  <2> QED
    BY <2>1, UnchangedQuiet
<1> QED
  BY <1>1, <1>2

-----------------------------------------------------------------------------
(* The steps that open a team, change its lock, or add or alter a delivery. *)

\* A step that changes the record of one team only.
LEMMA UpdateGrown ==
  ASSUME RecordsOK, NEW t \in Teams, NEW T, RecordOK(T, lim.maxTurns), Update(t, T), lim' = lim,
         Len(db[t].events) <= Len(T.events), db[t].status # "none" => T.status # "none"
  PROVE  /\ RecordsOK' /\ Grown
         /\ db'[t] = T /\ \A u \in Teams : u # t => db'[u] = db[u]
<1>1. DOMAIN db' = Teams /\ db'[t] = T /\ \A u \in Teams : u # t => db'[u] = db[u]
  BY DEF Update, RecordsOK
<1>2. \A u \in Teams : Len(db[u].events) \in Nat
  BY EventsCounted
<1> QED
  BY <1>1, <1>2 DEF RecordsOK, Grown

LEMMA CreateStep ==
  ASSUME RecordsOK, NEW t \in Teams, Create(t)
  PROVE  /\ RecordsOK' /\ Grown /\ lim' = lim
         /\ db[t].status = "none" /\ db'[t].status = "active" /\ db'[t].control = NoOne
         /\ \A m \in Members : db'[t].del[m] = NoDelivery
         /\ \A u \in Teams : u # t => db'[u] = db[u]
<1> DEFINE T == [NewTeam EXCEPT !.status = "active", !.member[Lead] = "active",
                                !.session[Lead] = UserSession]
<1>1. lim' = lim /\ db[t].status = "none" /\ Update(t, T)
  BY DEF Create, bounds
<1>2. lim.maxTurns \in Nat /\ RecordOK(db[t], lim.maxTurns)
  BY LimitIsNatural DEF RecordsOK
<1>3. /\ RecordOK(T, lim.maxTurns) /\ T.control = NoOne /\ T.status = "active" /\ T.events = <<>>
      /\ \A m \in Members : T.del[m] = NoDelivery
  BY <1>2, CreateOK
<1> HIDE DEF T
<1>4. db[t].events = <<>>
  BY <1>1, <1>2 DEF RecordOK, StatusHeld
<1>5. Len(db[t].events) <= Len(T.events)
  <2>1. Len(db[t].events) \in Nat
    BY EventsCounted
  <2> QED
    BY <1>3, <1>4, <2>1
<1> QED
  BY <1>1, <1>3, <1>5, UpdateGrown

LEMMA BeginStep ==
  ASSUME RecordsOK, NEW o \in Ops, NEW t \in Teams, NEW kind, NEW by, NEW m, NEW pc,
         Begin(o, kind, t, by, m, pc)
  PROVE  /\ RecordsOK' /\ Grown /\ lim' = lim
         /\ db'[t].status = "paused" /\ db'[t].control = o /\ db'[t].del = db[t].del
         /\ db'[t].task = db[t].task
         /\ \A u \in Teams : u # t => db'[u] = db[u]
<1> DEFINE T == Locked(db[t], "paused", o)
<1>1. lim' = lim /\ db[t].status # "none" /\ Update(t, T)
  BY DEF Begin, bounds, Locked
<1>2. lim.maxTurns \in Nat /\ RecordOK(db[t], lim.maxTurns) /\ Len(db[t].events) \in Nat
  BY LimitIsNatural, EventsCounted DEF RecordsOK
<1>3. /\ RecordOK(T, lim.maxTurns) /\ T.control = o /\ T.status = "paused" /\ T.del = db[t].del
      /\ T.events = db[t].events /\ T.task = db[t].task
  BY <1>1, <1>2, ControlOK
<1> HIDE DEF T
<1> QED
  BY <1>1, <1>2, <1>3, UpdateGrown

LEMMA EndStep ==
  ASSUME RecordsOK, NEW o \in Ops, OpOK(o), OpEnd(o)
  PROVE  LET t == op[o].t IN
         /\ RecordsOK' /\ Grown /\ lim' = lim /\ t \in Teams
         /\ db'[t].status = db[t].status /\ db'[t].del = db[t].del /\ db'[t].task = db[t].task
         /\ db[t].control # o => db'[t].control = db[t].control
         /\ \A u \in Teams : u # t => db'[u] = db[u]
<1> DEFINE t == op[o].t
           T == IF db[t].control = o THEN [db[t] EXCEPT !.control = NoOne] ELSE db[t]
<1>1. lim' = lim /\ t \in Teams /\ db[t].status # "none" /\ Update(t, T)
  BY DEF OpEnd, OpOK, Working, At, bounds
<1> HIDE DEF t
<1>2. lim.maxTurns \in Nat /\ RecordOK(db[t], lim.maxTurns) /\ Len(db[t].events) \in Nat
  BY <1>1, LimitIsNatural, EventsCounted DEF RecordsOK
<1>3. /\ RecordOK(T, lim.maxTurns) /\ T.status = db[t].status /\ T.del = db[t].del
      /\ T.events = db[t].events /\ T.task = db[t].task
      /\ db[t].control # o => T.control = db[t].control
  <2>1. CASE db[t].control = o
    <3> DEFINE U == Locked(db[t], db[t].status, NoOne)
    <3>1. /\ RecordOK(U, lim.maxTurns) /\ U.status = db[t].status /\ U.del = db[t].del
          /\ U.events = db[t].events /\ U.task = db[t].task
      <4>1. db[t].status # "none" /\ NoOne \in Ops \cup {NoOne}
        BY <1>1
      <4>2. db[t].status \in {db[t].status, "paused"}
        OBVIOUS
      <4> HIDE DEF T
      <4>3. RecordOK(U, lim.maxTurns)
        BY <4>1, <4>2, <1>2, ControlOK
      <4>4. U.status = db[t].status /\ U.del = db[t].del
            /\ U.events = db[t].events /\ U.task = db[t].task
        BY <1>2 DEF Locked, RecordOK, RecordTyped, TeamFields
      <4> QED
        BY <4>3, <4>4
    <3>2. U = [db[t] EXCEPT !.control = NoOne]
      BY <1>2 DEF Locked, RecordOK, RecordTyped, TeamFields
    <3> QED
      BY <2>1, <3>1, <3>2
  <2>2. CASE db[t].control # o
    BY <1>2, <2>2
  <2> QED
    BY <2>1, <2>2
<1> HIDE DEF T
<1>4. /\ RecordsOK' /\ Grown
      /\ db'[t] = T /\ \A u \in Teams : u # t => db'[u] = db[u]
  BY <1>1, <1>2, <1>3, UpdateGrown
<1> QED
  BY <1>1, <1>3, <1>4 DEF t

LEMMA ResumeStep ==
  ASSUME RecordsOK, NEW o \in Ops, OpOK(o), OpResume(o)
  PROVE  LET t == op[o].t IN
         /\ RecordsOK' /\ Grown /\ lim' = lim /\ t \in Teams
         /\ db'[t].control = db[t].control /\ db'[t].del = db[t].del /\ db'[t].task = db[t].task
         /\ db'[t].status # db[t].status => Resumable(db[t], o)
         /\ \A u \in Teams : u # t => db'[u] = db[u]
<1> DEFINE t == op[o].t
           T == IF Resumable(db[t], o) THEN Resume(db[t]) ELSE db[t]
<1>1. lim' = lim /\ t \in Teams /\ db[t].status # "none" /\ Update(t, T)
  BY DEF OpResume, OpOK, Working, At, bounds
<1> HIDE DEF t
<1>2. lim.maxTurns \in Nat /\ RecordOK(db[t], lim.maxTurns) /\ Len(db[t].events) \in Nat
  BY <1>1, LimitIsNatural, EventsCounted DEF RecordsOK
<1>3. /\ RecordOK(T, lim.maxTurns) /\ T.control = db[t].control /\ T.del = db[t].del
      /\ T.events = db[t].events /\ T.task = db[t].task /\ T.status # "none"
      /\ T.status # db[t].status => Resumable(db[t], o)
  BY <1>1, <1>2, ResumeOK
<1> HIDE DEF T
<1>4. /\ RecordsOK' /\ Grown
      /\ db'[t] = T /\ \A u \in Teams : u # t => db'[u] = db[u]
  BY <1>1, <1>2, <1>3, UpdateGrown
<1> QED
  BY <1>1, <1>3, <1>4 DEF t

\* The row of a delivery that runtime r reserves now.
Reserved(r) == [id |-> nextD, through |-> pump[r].through,
                since |-> Len(db[pump[r].v.t].events), owner |-> r, prompted |-> FALSE]

ReservedNow(r) ==
    LET t == pump[r].v.t
        m == pump[r].v.m
    IN
    /\ db[t].status = "active" /\ db[t].del[m].id = 0 /\ nextD' = nextD + 1 /\ nextD <= MaxDeliveries
    /\ db'[t].status = db[t].status /\ db'[t].control = db[t].control
    /\ db'[t].task = db[t].task
    /\ db'[t].del = [db[t].del EXCEPT ![m] = Reserved(r)]
    /\ \A u \in Teams : u # t => db'[u] = db[u]
    /\ pump' = [pump EXCEPT ![r] = [pump[r] EXCEPT !.d = nextD,
                   !.pc = IF pump[r].s = NoSession THEN "create" ELSE "check"]]

LEMMA ReserveStep ==
  ASSUME RecordsOK, HostOK, NEW r \in Runtimes, PumpOK(r), PumpReserve(r)
  PROVE  /\ RecordsOK' /\ Grown /\ lim' = lim
         /\ \/ QuietDb /\ ClaimsQuiet /\ nextD' = nextD /\ pump' = [pump EXCEPT ![r] = IdlePump]
            \/ ReservedNow(r)
<1> DEFINE t == pump[r].v.t
           m == pump[r].v.m
           S == db[t]
           stale == S.status # "active" \/ S.member[m] # "active" \/ S.del[m].id # 0
                      \/ S.cursor[m] # pump[r].cursor
<1>1. t \in Teams /\ m \in Members /\ lim' = lim
      /\ pump[r].through \in Nat /\ pump[r].through <= Len(S.events)
  BY DEF PumpReserve, PumpOK, bounds
<1>2. lim.maxTurns \in Nat /\ RecordOK(S, lim.maxTurns) /\ Len(S.events) \in Nat
  BY <1>1, LimitIsNatural, EventsCounted DEF RecordsOK
<1>3. CASE db' = db /\ nextD' = nextD /\ SetPump(r, IdlePump)
  BY <1>1, <1>3, UnchangedQuiet, QuietGrows DEF SetPump
<1>4. CASE /\ ~stale /\ Cardinality(Deliveries(S)) < 2 /\ S.turns >= lim.maxTurns
           /\ Update(t, IF Deliveries(S) = {}
                        THEN [S EXCEPT !.status = "paused", !.error[m] = "budget"] ELSE S)
           /\ nextD' = nextD /\ SetPump(r, IdlePump)
  <2> DEFINE T == IF Deliveries(S) = {}
                  THEN [S EXCEPT !.status = "paused", !.error[m] = "budget"] ELSE S
  <2>0. S.status # "none"
    BY <1>4
  <2>1. RecordOK(T, lim.maxTurns) /\ Keeps(S, T) /\ T.task = S.task
    <3> HIDE DEF S, m
    <3>1. CASE Deliveries(S) = {}
      BY <1>1, <1>2, <2>0, <3>1, PauseOK
    <3>2. CASE Deliveries(S) # {}
      BY <1>2, <3>2, KeepsRefl
    <3> QED
      BY <3>1, <3>2
  <2>2. Update(t, T)
    BY <1>4
  <2> HIDE DEF T
  <2>3. QuietDb /\ ClaimsQuiet
    BY <1>1, <2>1, <2>2, UpdateTaskSame
  <2> QED
    BY <1>1, <1>4, <2>3, QuietGrows DEF SetPump
<1>5. CASE /\ ~stale /\ Cardinality(Deliveries(S)) < 2 /\ S.turns < lim.maxTurns
           /\ nextD <= MaxDeliveries /\ nextD' = nextD + 1
           /\ Update(t, [S EXCEPT !.turns = @ + 1, !.del[m] = Reserved(r)])
           /\ SetPump(r, [pump[r] EXCEPT !.d = nextD,
                             !.pc = IF pump[r].s = NoSession THEN "create" ELSE "check"])
  <2> DEFINE row == Reserved(r)
             T == WithDelivery(S, m, row)
  <2>1. /\ row \in DeliveryRows /\ row.id # 0 /\ row.owner \in Runtimes /\ row.through <= Len(S.events)
    <3>1. nextD \in 0 .. MaxDeliveries /\ nextD # 0
      BY <1>5, TeamConstants DEF HostOK
    <3> QED
      BY <1>1, <1>2, <3>1 DEF Reserved, DeliveryRows
  <2>2. S.member[m] = "active" /\ S.del[m].id = 0 /\ S.status = "active"
    BY <1>5
  <2>3. Cardinality(Deliveries(S)) < 2 /\ S.turns < lim.maxTurns
    BY <1>5
  <2> HIDE DEF row
  <2>4. /\ RecordOK(T, lim.maxTurns) /\ T.task = S.task /\ T.events = S.events
        /\ T.del = [S.del EXCEPT ![m] = row] /\ T.status = S.status /\ T.control = S.control
    <3> HIDE DEF S, m
    <3> QED
      BY <1>1, <1>2, <2>1, <2>2, <2>3, ReserveOK
  <2>5. Update(t, T)
    BY <1>5 DEF row, WithDelivery
  <2> HIDE DEF T
  <2>6. /\ RecordsOK' /\ Grown
        /\ db'[t] = T /\ \A u \in Teams : u # t => db'[u] = db[u]
    BY <1>1, <1>2, <2>2, <2>4, <2>5, UpdateGrown
  <2> QED
    BY <1>1, <1>5, <2>2, <2>4, <2>6 DEF ReservedNow, SetPump, row
<1> QED
  BY <1>3, <1>4, <1>5 DEF PumpReserve, Reserved

\* The prompt of runtime r's delivery is confirmed, if the delivery is still there.
ConfirmedNow(r) ==
    LET t == pump[r].v.t
        m == pump[r].v.m
    IN
    /\ db'[t].status = db[t].status /\ db'[t].control = db[t].control
    /\ db'[t].del = IF db[t].del[m].id = pump[r].d
                    THEN [db[t].del EXCEPT ![m].prompted = TRUE] ELSE db[t].del
    /\ \A u \in Teams : u # t => db'[u] = db[u]

LEMMA ReplyStep ==
  ASSUME RecordsOK, NEW r \in Runtimes, PumpOK(r), PumpReply(r)
  PROVE  RecordsOK' /\ Grown /\ lim' = lim /\ ClaimsQuiet /\ ConfirmedNow(r)
<1> DEFINE t == pump[r].v.t
           m == pump[r].v.m
           S == db[t]
           T == IF S.del[m].id = pump[r].d THEN Confirmed(S, m) ELSE S
<1>1. t \in Teams /\ m \in Members /\ lim' = lim /\ Update(t, T)
  BY DEF PumpReply, PumpOK, bounds, Confirmed
<1>2. lim.maxTurns \in Nat /\ RecordOK(S, lim.maxTurns) /\ Len(S.events) \in Nat
  BY <1>1, LimitIsNatural, EventsCounted DEF RecordsOK
<1>3. /\ RecordOK(T, lim.maxTurns) /\ T.task = S.task /\ T.events = S.events
      /\ T.del = (IF S.del[m].id = pump[r].d THEN [S.del EXCEPT ![m].prompted = TRUE] ELSE S.del)
      /\ T.status = S.status /\ T.control = S.control
  <2> HIDE DEF S, m
  <2>1. CASE S.del[m].id = pump[r].d
    <3>1. T = Confirmed(S, m)
      BY <2>1
    <3> HIDE DEF T
    <3>2. RecordOK(T, lim.maxTurns)
      BY <1>1, <1>2, <3>1, ConfirmOK
    <3>4. T.task = S.task /\ T.events = S.events /\ T.status = S.status /\ T.control = S.control
      BY <1>2, <3>1 DEF Confirmed, RecordOK, RecordTyped, TeamFields
    <3>3. T.del = [S.del EXCEPT ![m].prompted = TRUE]
      BY <1>1, <1>2, <3>1, ConfirmOK
    <3> QED
      BY <2>1, <3>2, <3>3, <3>4
  <2>2. CASE S.del[m].id # pump[r].d
    BY <1>2, <2>2
  <2> QED
    BY <2>1, <2>2
<1> HIDE DEF T
<1>4. /\ RecordsOK' /\ Grown
      /\ db'[t] = T /\ \A u \in Teams : u # t => db'[u] = db[u]
  <2>1. T.events = db[t].events /\ T.status = db[t].status
    BY <1>3
  <2>2. Len(db[t].events) \in Nat /\ RecordOK(T, lim.maxTurns)
    BY <1>2, <1>3
  <2> HIDE DEF S, t
  <2> QED
    BY <1>1, <2>1, <2>2, UpdateGrown
<1>5. ClaimsQuiet
  BY <1>1, <1>3, UpdateClaims, TaskSameKeepsClaims
<1> QED
  BY <1>1, <1>3, <1>4, <1>5 DEF ConfirmedNow

-----------------------------------------------------------------------------
(* Type correctness.                                                       *)

LEMMA IdlePumpFields == DOMAIN IdlePump = PumpFields /\ IdlePump.pc = "idle" /\ IdlePump.d = 0
BY DEF IdlePump, PumpFields

LEMMA NewOpFields == DOMAIN NewOp = OpFields /\ NewOp.pc = "new"
BY DEF NewOp, OpFields

\* The pumps of the others keep their invariant.
LEMMA PumpsFrame ==
  ASSUME StateOK, RecordsOK', Grown, nextD' \in Nat, nextD <= nextD',
         \A q \in Runtimes : up[q] \in {"up", "stopping"} => up'[q] \in {"up", "stopping"},
         \/ pump' = pump
         \/ \E r \in Runtimes : \E p : pump' = [pump EXCEPT ![r] = p] /\ PumpOK(r)'
  PROVE  DOMAIN pump' = Runtimes /\ \A r \in Runtimes : PumpOK(r)'
<1>0. nextD \in Nat
  BY TeamConstants DEF StateOK, HostOK
<1>1. ASSUME NEW q \in Runtimes, pump'[q] = pump[q]
      PROVE  PumpOK(q)'
  BY <1>0, <1>1, PumpFrame DEF StateOK
<1>2. CASE pump' = pump
  BY <1>1, <1>2 DEF StateOK
<1>3. ASSUME NEW r \in Runtimes, NEW p, pump' = [pump EXCEPT ![r] = p], PumpOK(r)'
      PROVE  DOMAIN pump' = Runtimes /\ \A q \in Runtimes : PumpOK(q)'
  <2>1. DOMAIN pump' = Runtimes /\ \A q \in Runtimes : q # r => pump'[q] = pump[q]
    BY <1>3 DEF StateOK
  <2> QED
    BY <1>1, <1>3, <2>1
<1> QED
  BY <1>2, <1>3

LEMMA OpsFrame ==
  ASSUME StateOK, Grown,
         \/ op' = op
         \/ \E o \in Ops : \E q : op' = [op EXCEPT ![o] = q] /\ OpOK(o)'
  PROVE  DOMAIN op' = Ops /\ \A o \in Ops : OpOK(o)'
<1>1. ASSUME NEW o \in Ops, op'[o] = op[o]
      PROVE  OpOK(o)'
  BY <1>1, OpFrame DEF StateOK
<1>2. CASE op' = op
  BY <1>1, <1>2 DEF StateOK
<1>3. ASSUME NEW o \in Ops, NEW q, op' = [op EXCEPT ![o] = q], OpOK(o)'
      PROVE  DOMAIN op' = Ops /\ \A u \in Ops : OpOK(u)'
  <2>1. DOMAIN op' = Ops /\ \A u \in Ops : u # o => op'[u] = op[u]
    BY <1>3 DEF StateOK
  <2> QED
    BY <1>1, <1>3, <2>1
<1> QED
  BY <1>2, <1>3

LEMMA AbortHome ==
  ASSUME HostOK, NEW r \in Runtimes, NEW s, NEW confirmed, Abort(r, s, confirmed)
  PROVE  home' \in [Sessions -> Runtimes \cup {NoOne, Forgotten}]
BY DEF HostOK, Abort

LEMMA ForgetHome ==
  ASSUME HostOK, NEW r, NEW S, Forget(r, S)
  PROVE  home' \in [Sessions -> Runtimes \cup {NoOne, Forgotten}]
BY DEF HostOK, Forget

LEMMA ReleaseLease ==
  ASSUME HostOK, NEW s, NEW d, Release(s, d)
  PROVE  lease' \in [Sessions -> 0 .. MaxDeliveries]
<1>1. 0 \in 0 .. MaxDeliveries
  BY TeamConstants
<1> QED
  BY <1>1 DEF HostOK, Release

LEMMA PumpHost ==
  ASSUME StateOK, NEW r \in Runtimes, PumpQuietly(r)
  PROVE  HostOK' /\ up' = up /\ nextD' = nextD /\ op' = op
<1>0. HostOK /\ PumpOK(r)
  BY DEF StateOK
<1>1. up' = up /\ nextD' = nextD /\ op' = op
  BY DEF PumpQuietly, PumpJudge, PumpRelease, PumpCreate, PumpCheck, PumpAcquire, PumpPrompt, PumpAfter,
         PumpFault, PumpCreateFails, PumpReplyLost, PumpPromptFails, PumpExpire, PumpForget, PumpVisit,
         PumpObserve, PumpUnbindable, PumpLook
<1>2. \A l \in late' : l.r \in Runtimes
  <2>1. late' = late \/ late' = late \cup {[r |-> r, p |-> pump[r]]}
    BY DEF PumpQuietly, PumpJudge, PumpRelease, PumpCreate, PumpCheck, PumpAcquire, PumpPrompt, PumpAfter,
           PumpFault, PumpCreateFails, PumpReplyLost, PumpPromptFails, PumpExpire, PumpForget, PumpVisit,
           PumpObserve, PumpUnbindable, PumpLook
  <2> QED
    BY <1>0, <2>1 DEF HostOK
<1>3. home' \in [Sessions -> Runtimes \cup {NoOne, Forgotten}]
  <2>1. CASE PumpCreate(r) \/ PumpPrompt(r)
    BY <1>0, <2>1 DEF PumpCreate, PumpPrompt, HostOK
  <2>2. CASE PumpAfter(r)
    <3>1. home' = home \/ \E confirmed \in BOOLEAN : Abort(r, pump[r].s, confirmed)
      BY <2>2 DEF PumpAfter, host
    <3> QED
      BY <1>0, <3>1, AbortHome DEF HostOK
  <2>3. ASSUME NEW t \in Teams, PumpForget(r, t)
        PROVE  home' \in [Sessions -> Runtimes \cup {NoOne, Forgotten}]
    <3>1. Forget(r, {db[t].session[m] : m \in Leavers(db[t])})
      BY <2>3 DEF PumpForget
    <3> QED
      BY <1>0, <3>1, ForgetHome
  <2>4. ASSUME \/ PumpJudge(r) \/ PumpRelease(r) \/ PumpCheck(r) \/ PumpAcquire(r) \/ PumpFault(r)
               \/ \E t \in Teams : PumpExpire(r, t) \/ \E m \in Members : PumpVisit(r, t, m)
        PROVE  home' \in [Sessions -> Runtimes \cup {NoOne, Forgotten}]
    <3>1. home' = home
      BY <2>4 DEF PumpJudge, PumpRelease, PumpCheck, PumpAcquire, PumpFault, PumpCreateFails, PumpReplyLost,
         PumpPromptFails, PumpExpire, PumpVisit, PumpObserve, PumpUnbindable, PumpLook, host
    <3> QED
      BY <1>0, <3>1 DEF HostOK
  <2> QED
    BY <2>1, <2>2, <2>3, <2>4 DEF PumpQuietly
<1>4. lease' \in [Sessions -> 0 .. MaxDeliveries]
  <2>1. CASE PumpRelease(r)
    <3>1. lease' = lease \/ \E s, d : Release(s, d)
      BY <2>1 DEF PumpRelease, ReleaseSeen
    <3> QED
      BY <1>0, <3>1, ReleaseLease DEF HostOK
  <2>2. CASE PumpAcquire(r)
    <3>1. lease' = lease \/ lease' = [lease EXCEPT ![pump[r].s] = pump[r].d]
      BY <2>2 DEF PumpAcquire
    <3>2. pump[r].d \in 0 .. MaxDeliveries
      BY <1>0, TeamConstants DEF HostOK, PumpOK
    <3> QED
      BY <1>0, <3>1, <3>2 DEF HostOK
  <2>3. ASSUME ~(PumpRelease(r) \/ PumpAcquire(r))
        PROVE  lease' \in [Sessions -> 0 .. MaxDeliveries]
    <3>1. lease' = lease
      BY <2>3 DEF PumpQuietly, PumpJudge, PumpCreate, PumpCheck, PumpPrompt, PumpAfter,
         PumpFault, PumpCreateFails, PumpReplyLost, PumpPromptFails, PumpExpire, PumpForget, PumpVisit,
         PumpObserve, PumpUnbindable, PumpLook
    <3> QED
      BY <1>0, <3>1 DEF HostOK
  <2> QED
    BY <2>1, <2>2, <2>3
<1> QED
  BY <1>0, <1>1, <1>2, <1>3, <1>4 DEF HostOK

LEMMA IdleNowOK ==
  ASSUME NEW r \in Runtimes, DOMAIN pump = Runtimes, pump' = [pump EXCEPT ![r] = IdlePump],
         nextD' \in Nat, nextD' > 0
  PROVE  PumpOK(r)'
<1>1. pump'[r] = IdlePump
  OBVIOUS
<1> QED
  BY <1>1, IdlePumpFields DEF PumpOK, Carrying

\* A visit goes on with the delivery it carries.
LEMMA NextStepOK ==
  ASSUME NEW r \in Runtimes, PumpOK(r), DOMAIN pump = Runtimes, NEW s,
         pump[r].pc \in Carrying \cup {"judge"}, NEW pc, up' = up, nextD' = nextD,
         IF pump[r].pc = "judge" THEN pc = "release" ELSE pc \in Carrying,
         pump' = [pump EXCEPT ![r] = [pump[r] EXCEPT !.s = s, !.pc = pc]]
  PROVE  PumpOK(r)'
<1> DEFINE p == [pump[r] EXCEPT !.s = s, !.pc = pc]
<1>1. pump'[r] = p
  OBVIOUS
<1>2. DOMAIN p = PumpFields /\ p.pc = pc /\ p.d = pump[r].d /\ p.v = pump[r].v
  BY DEF PumpOK, PumpFields
<1> HIDE DEF p
<1> QED
  BY <1>1, <1>2 DEF PumpOK, Carrying

LEMMA PumpVisitOK ==
  ASSUME StateOK, NEW r \in Runtimes, NEW t \in Teams, NEW m \in Members, PumpVisit(r, t, m),
         up' = up, nextD' = nextD, db' = db \/ pump' = pump
  PROVE  pump' = pump \/ \E p : pump' = [pump EXCEPT ![r] = p] /\ PumpOK(r)'
<1>0. DOMAIN pump = Runtimes /\ nextD \in Nat /\ nextD > 0 /\ up \in [Runtimes -> {"new", "up", "stopping", "down"}]
  BY TeamConstants DEF StateOK, HostOK
<1>1. CASE PumpUnbindable(r, t, m)
  BY <1>1 DEF PumpUnbindable
<1>2. CASE PumpObserve(r, t, m)
  <2> DEFINE p == [IdlePump EXCEPT !.pc = "judge", !.v = View(r, t, m)]
  <2>1. pump' = [pump EXCEPT ![r] = p] /\ up[r] = "up"
    BY <1>2 DEF PumpObserve, SetPump, Pumping
  <2>2. DOMAIN p = PumpFields /\ p.pc = "judge" /\ p.d = 0 /\ p.v = View(r, t, m)
    BY IdlePumpFields DEF PumpFields
  <2>3. View(r, t, m).t = t /\ View(r, t, m).m = m
    BY DEF View
  <2> HIDE DEF p
  <2>4. pump'[r] = p
    BY <1>0, <2>1
  <2>5. PumpOK(r)'
    BY <1>0, <2>1, <2>2, <2>3, <2>4 DEF PumpOK, Carrying
  <2> QED
    BY <2>1, <2>5
<1>3. CASE PumpLook(r, t, m)
  <2> DEFINE v == [NoView EXCEPT !.t = t, !.m = m]
             p == [pc |-> "reserve", v |-> v, d |-> 0, s |-> db[t].session[m],
                   cursor |-> db[t].cursor[m], through |-> Len(db[t].events)]
  <2>1. pump' = [pump EXCEPT ![r] = p] /\ up[r] = "up" /\ db' = db
    BY <1>3 DEF PumpLook, SetPump, Pumping
  <2>2. v.t = t /\ v.m = m
    BY DEF NoView
  <2>3. Len(db[t].events) \in Nat
    BY EventsCounted DEF StateOK
  <2> HIDE DEF v
  <2>4. /\ DOMAIN p = PumpFields /\ p.pc = "reserve" /\ p.d = 0 /\ p.v = v
        /\ p.through = Len(db[t].events)
    BY DEF PumpFields
  <2> HIDE DEF p
  <2>5. pump'[r] = p
    BY <1>0, <2>1
  <2>6. PumpOK(r)'
    BY <1>0, <2>1, <2>2, <2>3, <2>4, <2>5 DEF PumpOK, Carrying
  <2> QED
    BY <2>1, <2>6
<1> QED
  BY <1>1, <1>2, <1>3 DEF PumpVisit

LEMMA PumpStepOK ==
  ASSUME StateOK, NEW r \in Runtimes, PumpQuietly(r), up' = up, nextD' = nextD
  PROVE  pump' = pump \/ \E p : pump' = [pump EXCEPT ![r] = p] /\ PumpOK(r)'
<1>0. /\ PumpOK(r) /\ DOMAIN pump = Runtimes /\ nextD \in Nat /\ nextD > 0
  BY TeamConstants DEF StateOK, HostOK
<1>1. CASE \/ PumpRelease(r) \/ PumpAfter(r) \/ PumpFault(r)
           \/ pump' = [pump EXCEPT ![r] = IdlePump]
  <2>1. pump' = [pump EXCEPT ![r] = IdlePump]
    BY <1>1 DEF PumpRelease, PumpAfter, PumpFault, PumpCreateFails, PumpReplyLost, PumpPromptFails,
                PumpThrow, SetPump
  <2> QED
    BY <1>0, <2>1, IdleNowOK
<1>2. ASSUME \E s, pc : /\ IF pump[r].pc = "judge" THEN pc = "release" ELSE pc \in Carrying
                        /\ pump' = [pump EXCEPT ![r] = [pump[r] EXCEPT !.s = s, !.pc = pc]],
             pump[r].pc \in Carrying \cup {"judge"}
      PROVE  pump' = pump \/ \E p : pump' = [pump EXCEPT ![r] = p] /\ PumpOK(r)'
  BY <1>0, <1>2, NextStepOK
<1>3. CASE PumpJudge(r) \/ PumpPrompt(r)
  <2>1. pump[r].s = pump[r].s /\ [pump[r] EXCEPT !.s = pump[r].s] = [pump[r] EXCEPT !.s = @]
    OBVIOUS
  <2>2. \A pc : [pump[r] EXCEPT !.pc = pc] = [pump[r] EXCEPT !.s = pump[r].s, !.pc = pc]
    BY <1>0 DEF PumpOK, PumpFields
  <2>3. CASE PumpJudge(r)
    <3>1. pump' = [pump EXCEPT ![r] = [pump[r] EXCEPT !.pc = "release"]] /\ pump[r].pc = "judge"
      BY <2>3 DEF PumpJudge, SetPump
    <3> QED
      BY <1>2, <2>2, <3>1 DEF Carrying
  <2>4. CASE PumpPrompt(r)
    <3>1. pump' = [pump EXCEPT ![r] = [pump[r] EXCEPT !.pc = "reply"]] /\ pump[r].pc = "prompt"
      BY <2>4 DEF PumpPrompt, SetPump
    <3> QED
      BY <1>2, <2>2, <3>1 DEF Carrying
  <2> QED
    BY <1>3, <2>3, <2>4
<1>4. CASE PumpCreate(r)
  <2>1. /\ pump' = [pump EXCEPT ![r] = [pump[r] EXCEPT !.s = pump[r].d, !.pc = "check"]]
        /\ pump[r].pc = "create"
    BY <1>4 DEF PumpCreate, SetPump
  <2> QED
    BY <1>2, <2>1 DEF Carrying
<1>5. CASE PumpCheck(r) \/ PumpAcquire(r)
  <2>1. \A pc : [pump[r] EXCEPT !.pc = pc] = [pump[r] EXCEPT !.s = pump[r].s, !.pc = pc]
    BY <1>0 DEF PumpOK, PumpFields
  <2>2. /\ pump[r].pc \in Carrying /\ pump[r].pc # "judge"
        /\ \/ pump' = [pump EXCEPT ![r] = IdlePump]
           \/ \E pc \in Carrying : pump' = [pump EXCEPT ![r] = [pump[r] EXCEPT !.pc = pc]]
    <3>1. CASE PumpCheck(r)
      <4>1. pump[r].pc = "check"
            /\ \/ pump' = [pump EXCEPT ![r] = IdlePump]
               \/ pump' = [pump EXCEPT ![r] = [pump[r] EXCEPT !.pc = "acquire"]]
        BY <3>1 DEF PumpCheck, SetPump
      <4> QED
        BY <4>1 DEF Carrying
    <3>2. CASE PumpAcquire(r)
      <4>1. pump[r].pc = "acquire"
            /\ \/ pump' = [pump EXCEPT ![r] = IdlePump]
               \/ pump' = [pump EXCEPT ![r] = [pump[r] EXCEPT !.pc = "prompt"]]
        BY <3>2 DEF PumpAcquire, SetPump
      <4> QED
        BY <4>1 DEF Carrying
    <3> QED
      BY <1>5, <3>1, <3>2
  <2>3. CASE pump' = [pump EXCEPT ![r] = IdlePump]
    BY <1>1, <2>3
  <2>4. ASSUME NEW pc \in Carrying, pump' = [pump EXCEPT ![r] = [pump[r] EXCEPT !.pc = pc]]
        PROVE  pump' = pump \/ \E p : pump' = [pump EXCEPT ![r] = p] /\ PumpOK(r)'
    <3>1. pump' = [pump EXCEPT ![r] = [pump[r] EXCEPT !.s = pump[r].s, !.pc = pc]]
      BY <2>1, <2>4
    <3> QED
      BY <1>2, <2>2, <2>4, <3>1
  <2> QED
    BY <2>2, <2>3, <2>4
<1>6. ASSUME NEW t \in Teams, PumpExpire(r, t) \/ PumpForget(r, t)
      PROVE  pump' = pump
  BY <1>6 DEF PumpExpire, PumpForget
<1>7. ASSUME NEW t \in Teams, NEW m \in Members, PumpVisit(r, t, m)
      PROVE  pump' = pump \/ \E p : pump' = [pump EXCEPT ![r] = p] /\ PumpOK(r)'
  <2>1. db' = db \/ pump' = pump
    BY <1>7 DEF PumpVisit, PumpObserve, PumpUnbindable, PumpLook
  <2> QED
    BY <1>7, <2>1, PumpVisitOK
<1> QED
  BY <1>1, <1>3, <1>4, <1>5, <1>6, <1>7 DEF PumpQuietly

LEMMA PumpKeepsState ==
  ASSUME StateOK, NEW r \in Runtimes, PumpQuietly(r)
  PROVE  StateOK'
<1>1. HostOK' /\ up' = up /\ nextD' = nextD /\ op' = op
  BY PumpHost
<1>2. RecordsOK' /\ Grown
  BY PumpIsQuiet, QuietGrows DEF StateOK
<1>3. pump' = pump \/ \E p : pump' = [pump EXCEPT ![r] = p] /\ PumpOK(r)'
  BY <1>1, PumpStepOK
<1>4. nextD' \in Nat /\ nextD <= nextD'
  BY <1>1, TeamConstants DEF StateOK, HostOK
<1>5. DOMAIN pump' = Runtimes /\ \A q \in Runtimes : PumpOK(q)'
  BY <1>1, <1>2, <1>3, <1>4, PumpsFrame
<1>6. DOMAIN op' = Ops /\ \A o \in Ops : OpOK(o)'
  BY <1>1, <1>2, OpsFrame
<1> QED
  BY <1>1, <1>2, <1>5, <1>6 DEF StateOK

LEMMA ReserveKeepsState ==
  ASSUME StateOK, NEW r \in Runtimes, PumpReserve(r)
  PROVE  StateOK'
<1>0. RecordsOK /\ HostOK /\ PumpOK(r) /\ DOMAIN pump = Runtimes /\ nextD \in Nat /\ nextD > 0
  BY TeamConstants DEF StateOK, HostOK
<1>1. /\ RecordsOK' /\ Grown /\ lim' = lim
      /\ \/ nextD' = nextD /\ pump' = [pump EXCEPT ![r] = IdlePump]
         \/ ReservedNow(r)
  BY <1>0, ReserveStep
<1>2. /\ up' = up /\ op' = op /\ lease' = lease /\ home' = home /\ late' = late
      /\ pump[r].pc = "reserve"
  BY DEF PumpReserve, host
<1>3. nextD' \in 1 .. MaxDeliveries + 1 /\ nextD <= nextD' /\ nextD' \in Nat /\ nextD' > 0
  BY <1>0, <1>1, TeamConstants DEF HostOK, ReservedNow
<1>4. \E p : pump' = [pump EXCEPT ![r] = p] /\ PumpOK(r)'
  <2>1. CASE pump' = [pump EXCEPT ![r] = IdlePump]
    BY <1>0, <1>3, <2>1, IdleNowOK
  <2>2. CASE ReservedNow(r)
    <3> DEFINE p == [pump[r] EXCEPT !.d = nextD,
                        !.pc = IF pump[r].s = NoSession THEN "create" ELSE "check"]
    <3>1. pump' = [pump EXCEPT ![r] = p] /\ nextD' = nextD + 1
      BY <2>2 DEF ReservedNow
    <3>2. DOMAIN p = PumpFields /\ p.pc \in {"create", "check"} /\ p.d = nextD /\ p.v = pump[r].v
      BY <1>0 DEF PumpOK, PumpFields
    <3> HIDE DEF p
    <3>3. pump'[r] = p
      BY <1>0, <3>1
    <3>4. PumpOK(r)'
      BY <1>0, <1>2, <3>1, <3>2, <3>3 DEF PumpOK, Carrying
    <3> QED
      BY <3>1, <3>4
  <2> QED
    BY <1>1, <2>1, <2>2
<1>5. HostOK'
  BY <1>0, <1>2, <1>3 DEF HostOK
<1>6. DOMAIN pump' = Runtimes /\ \A q \in Runtimes : PumpOK(q)'
  BY <1>1, <1>2, <1>3, <1>4, PumpsFrame
<1>7. DOMAIN op' = Ops /\ \A o \in Ops : OpOK(o)'
  BY <1>1, <1>2, OpsFrame
<1> QED
  BY <1>1, <1>5, <1>6, <1>7 DEF StateOK

LEMMA ReplyKeepsState ==
  ASSUME StateOK, NEW r \in Runtimes, PumpReply(r)
  PROVE  StateOK'
<1>0. RecordsOK /\ HostOK /\ PumpOK(r) /\ DOMAIN pump = Runtimes /\ nextD \in Nat
  BY TeamConstants DEF StateOK, HostOK
<1>1. RecordsOK' /\ Grown
  BY <1>0, ReplyStep
<1>2. /\ up' = up /\ op' = op /\ lease' = lease /\ home' = home /\ late' = late /\ nextD' = nextD
      /\ pump' = [pump EXCEPT ![r] = [pump[r] EXCEPT !.pc = "after"]] /\ pump[r].pc = "reply"
  BY DEF PumpReply, host, SetPump
<1>3. [pump[r] EXCEPT !.pc = "after"] = [pump[r] EXCEPT !.s = pump[r].s, !.pc = "after"]
  BY <1>0 DEF PumpOK, PumpFields
<1>4. PumpOK(r)'
  BY <1>0, <1>2, <1>3, NextStepOK DEF Carrying
<1>5. HostOK'
  BY <1>0, <1>2 DEF HostOK
<1>6. DOMAIN pump' = Runtimes /\ \A q \in Runtimes : PumpOK(q)'
  <2>1. \E p : pump' = [pump EXCEPT ![r] = p] /\ PumpOK(r)'
    BY <1>2, <1>4
  <2>2. nextD' \in Nat /\ nextD <= nextD'
    BY <1>0, <1>2
  <2> QED
    BY <1>1, <1>2, <2>1, <2>2, PumpsFrame
<1>7. DOMAIN op' = Ops /\ \A o \in Ops : OpOK(o)'
  BY <1>1, <1>2, OpsFrame
<1> QED
  BY <1>1, <1>5, <1>6, <1>7 DEF StateOK

\* An operation goes one step on: it keeps its kind, its team and its runtime.
OpMove(o, q) ==
    /\ DOMAIN q = OpFields
    /\ q.t = op[o].t /\ q.by = op[o].by /\ q.r = op[o].r /\ q.kind = op[o].kind
    /\ q.kind = "remove" => q.m = op[o].m
    /\ q.pc \in {"abort", "forget"} => q.kind # "resume"
    /\ q.pc \in {"prepare", "reconcile", "judge", "release", "sort", "free"} => q.kind = "resume"
    /\ q.pc \in {"judge", "release"} => q.v.t = q.t /\ q.v.m \in Members
    /\ q.pc \in {"sort", "free"} => \A m \in q.todo : q.seen.del[m].id # 0
    /\ q.pc \notin {"new", "done", "gone"}

LEMMA OpMoveOK ==
  ASSUME NEW o \in Ops, OpOK(o), Working(o), Grown, op'[o].pc = op'[o].pc, OpMove(o, op'[o])
  PROVE  OpOK(o)'
BY DEF OpOK, OpMove, Working, Grown

LEMMA OpMoves ==
  ASSUME StateOK, NEW o \in Ops, OpQuietly(o)
  PROVE  \E q : op' = [op EXCEPT ![o] = q] /\ OpMove(o, q)
<1>0. OpOK(o) /\ DOMAIN op[o] = OpFields
  BY DEF StateOK, OpOK
<1>1. CASE OpRead(o)
  <2>1. PICK todo :
          \/ op[o].kind \in {"remove", "delete"} /\ SetOp(o, [op[o] EXCEPT !.pc = "abort", !.todo = todo])
          \/ op[o].kind = "resume" /\ SetOp(o, [op[o] EXCEPT !.pc = "prepare", !.todo = todo])
    <3>1. op[o].kind \in {"remove", "delete", "resume"}
      BY <1>0, <1>1 DEF OpRead, OpOK, Working, At
    <3>2. \/ op[o].kind = "remove" /\ GotoWith(o, "abort", InFlight(db[op[o].t]) \cap {op[o].m})
          \/ op[o].kind = "delete" /\ GotoWith(o, "abort", InFlight(db[op[o].t]))
          \/ op[o].kind = "resume" /\ GotoWith(o, "prepare", Bound(db[op[o].t]))
      BY <1>1, <3>1 DEF OpRead
    <3> QED
      BY <3>2 DEF GotoWith
  <2> DEFINE q(pc) == [op[o] EXCEPT !.pc = pc, !.todo = todo]
  <2>2. op[o].kind # "resume" => OpMove(o, q("abort"))
    BY <1>0 DEF OpMove, OpFields
  <2>3. op[o].kind = "resume" => OpMove(o, q("prepare"))
    BY <1>0 DEF OpMove, OpFields
  <2> QED
    BY <2>1, <2>2, <2>3 DEF SetOp
<1>2. ASSUME NEW m \in Members, OpAbort(o, m)
      PROVE  \E q : op' = [op EXCEPT ![o] = q] /\ OpMove(o, q)
  <2>1. /\ op[o].pc = "abort" /\ op[o].kind # "resume"
        /\ \/ op' = [op EXCEPT ![o] = [op[o] EXCEPT !.pc = "abort", !.todo = op[o].todo \ {m}]]
           \/ op' = [op EXCEPT ![o] = [op[o] EXCEPT !.pc = "end"]]
    BY <1>0, <1>2 DEF OpAbort, At, GotoWith, Goto, SetOp, OpOK, Working
  <2>2. OpMove(o, [op[o] EXCEPT !.pc = "abort", !.todo = op[o].todo \ {m}])
    BY <1>0, <2>1 DEF OpMove, OpFields
  <2>3. OpMove(o, [op[o] EXCEPT !.pc = "end"])
    BY <1>0 DEF OpMove, OpFields
  <2> QED
    BY <2>1, <2>2, <2>3
<1>3. CASE OpCommit(o) \/ OpForget(o)
  <2>1. /\ op[o].kind # "resume"
        /\ \/ op' = [op EXCEPT ![o] = [op[o] EXCEPT !.pc = "forget"]]
           \/ op' = [op EXCEPT ![o] = [op[o] EXCEPT !.pc = "end"]]
    BY <1>0, <1>3 DEF OpCommit, OpForget, At, Goto, SetOp, OpOK, Working
  <2>2. OpMove(o, [op[o] EXCEPT !.pc = "forget"]) /\ OpMove(o, [op[o] EXCEPT !.pc = "end"])
    BY <1>0, <2>1 DEF OpMove, OpFields
  <2> QED
    BY <2>1, <2>2
<1>4. ASSUME NEW m \in Members, OpPrepare(o, m)
      PROVE  \E q : op' = [op EXCEPT ![o] = q] /\ OpMove(o, q)
  <2>1. /\ op[o].kind = "resume"
        /\ \/ op' = [op EXCEPT ![o] = [op[o] EXCEPT !.pc = "prepare", !.todo = op[o].todo \ {m}]]
           \/ op' = [op EXCEPT ![o] = [op[o] EXCEPT !.pc = "end"]]
    BY <1>0, <1>4 DEF OpPrepare, At, GotoWith, Goto, SetOp, OpOK, Working
  <2>2. OpMove(o, [op[o] EXCEPT !.pc = "prepare", !.todo = op[o].todo \ {m}])
    BY <1>0, <2>1 DEF OpMove, OpFields
  <2>3. OpMove(o, [op[o] EXCEPT !.pc = "end"])
    BY <1>0 DEF OpMove, OpFields
  <2> QED
    BY <2>1, <2>2, <2>3
<1>5. CASE OpPrepared(o)
  <2>1. PICK todo : /\ op[o].kind = "resume"
                    /\ op' = [op EXCEPT ![o] = [op[o] EXCEPT !.pc = "reconcile", !.todo = todo]]
    BY <1>0, <1>5 DEF OpPrepared, At, GotoWith, SetOp, OpOK, Working
  <2>2. OpMove(o, [op[o] EXCEPT !.pc = "reconcile", !.todo = todo])
    BY <1>0, <2>1 DEF OpMove, OpFields
  <2> QED
    BY <2>1, <2>2
<1>6. ASSUME NEW m \in Members, OpReconcile(o, m)
      PROVE  \E q : op' = [op EXCEPT ![o] = q] /\ OpMove(o, q)
  <2> DEFINE see == CanObserve(op[o].r, op[o].t, m)
             v == View(op[o].r, op[o].t, m)
             q == [op[o] EXCEPT !.todo = @ \ {m}, !.pc = IF see THEN "judge" ELSE @,
                                !.v = IF see THEN v ELSE @]
  <2>1. op' = [op EXCEPT ![o] = q] /\ op[o].pc = "reconcile" /\ op[o].kind = "resume"
    BY <1>0, <1>6 DEF OpReconcile, At, SetOp, OpOK, Working
  <2>2. v.t = op[o].t /\ v.m = m
    BY DEF View
  <2> HIDE DEF v, see
  <2>3. OpMove(o, q)
    BY <1>0, <2>1, <2>2 DEF OpMove, OpFields
  <2> QED
    BY <2>1, <2>3
<1>7. CASE OpJudge(o)
  <2>1. /\ op' = [op EXCEPT ![o] = [op[o] EXCEPT !.pc = "release"]]
        /\ op[o].kind = "resume" /\ op[o].v.t = op[o].t /\ op[o].v.m \in Members
    BY <1>0, <1>7 DEF OpJudge, At, Goto, SetOp, OpOK, Working
  <2>2. OpMove(o, [op[o] EXCEPT !.pc = "release"])
    BY <1>0, <2>1 DEF OpMove, OpFields
  <2> QED
    BY <2>1, <2>2
<1>8. CASE OpRelease(o)
  <2>1. op' = [op EXCEPT ![o] = [op[o] EXCEPT !.pc = "reconcile", !.v = NoView]] /\ op[o].kind = "resume"
    BY <1>0, <1>8 DEF OpRelease, At, SetOp, OpOK, Working
  <2>2. OpMove(o, [op[o] EXCEPT !.pc = "reconcile", !.v = NoView])
    BY <1>0, <2>1 DEF OpMove, OpFields
  <2> QED
    BY <2>1, <2>2
<1>9. CASE OpReconciled(o)
  <2> DEFINE S == db[op[o].t]
             seen == [del |-> S.del, error |-> S.error]
             q == [op[o] EXCEPT !.pc = "sort", !.todo = Deliveries(S), !.seen = seen]
  <2>1. op' = [op EXCEPT ![o] = q] /\ op[o].kind = "resume"
    BY <1>0, <1>9 DEF OpReconciled, At, SetOp, OpOK, Working
  <2>2. seen.del = S.del
    OBVIOUS
  <2>3. \A m \in Deliveries(S) : S.del[m].id # 0
    BY DEF Deliveries
  <2> HIDE DEF seen, S
  <2>4. OpMove(o, q)
    BY <1>0, <2>1, <2>2, <2>3 DEF OpMove, OpFields
  <2> QED
    BY <2>1, <2>4
<1>10. ASSUME NEW m \in Members, OpSort(o, m)
       PROVE  \E q : op' = [op EXCEPT ![o] = q] /\ OpMove(o, q)
  <2> DEFINE d == op[o].seen.del[m].id
             q1 == [op[o] EXCEPT !.todo = @ \ {m}, !.keep = @ \cup {d}]
             q2(pc) == [op[o] EXCEPT !.pc = pc, !.todo = @ \ {m}, !.m = m]
             q3 == [op[o] EXCEPT !.pc = "end"]
             at == IF db[op[o].t].del[m].id = d THEN "free" ELSE op[o].pc
  <2>1. \/ op' = [op EXCEPT ![o] = q1] \/ op' = [op EXCEPT ![o] = q2(at)] \/ op' = [op EXCEPT ![o] = q3]
    BY <1>10 DEF OpSort, SetOp, Goto
  <2>2. op[o].pc = "sort" /\ op[o].kind = "resume" /\ \A n \in op[o].todo : op[o].seen.del[n].id # 0
    BY <1>0, <1>10 DEF OpSort, At, OpOK, Working
  <2>3. at \in {"sort", "free"}
    BY <2>2
  <2> HIDE DEF d, at
  <2>4. OpMove(o, q1)
    BY <1>0, <2>2 DEF OpMove, OpFields
  <2>5. OpMove(o, q2(at))
    BY <1>0, <2>2, <2>3 DEF OpMove, OpFields
  <2>6. OpMove(o, q3)
    BY <1>0 DEF OpMove, OpFields
  <2> HIDE DEF q1, q2, q3
  <2> QED
    BY <2>1, <2>4, <2>5, <2>6
<1>11. CASE OpFree(o)
  <2>1. /\ op' = [op EXCEPT ![o] = [op[o] EXCEPT !.pc = "sort", !.m = NoOne]] /\ op[o].kind = "resume"
        /\ \A n \in op[o].todo : op[o].seen.del[n].id # 0
    BY <1>0, <1>11 DEF OpFree, At, SetOp, OpOK, Working
  <2>2. OpMove(o, [op[o] EXCEPT !.pc = "sort", !.m = NoOne])
    BY <1>0, <2>1 DEF OpMove, OpFields
  <2> QED
    BY <2>1, <2>2
<1> QED
  BY <1>1, <1>2, <1>3, <1>4, <1>5, <1>6, <1>7, <1>8, <1>9, <1>10, <1>11 DEF OpQuietly

LEMMA OpHost ==
  ASSUME StateOK, NEW o \in Ops, OpQuietly(o)
  PROVE  HostOK' /\ up' = up /\ nextD' = nextD /\ pump' = pump /\ Working(o)
<1>0. HostOK /\ OpOK(o)
  BY DEF StateOK
<1>1. up' = up /\ nextD' = nextD /\ pump' = pump /\ late' = late
  BY DEF OpQuietly, OpRead, OpCommit, OpForget, OpPrepared, OpJudge, OpRelease, OpReconciled, OpFree,
         OpAbort, OpPrepare, OpReconcile, OpSort
<1>2. Working(o) /\ op[o].r \in Runtimes
  BY DEF OpQuietly, OpRead, OpCommit, OpForget, OpPrepared, OpJudge, OpRelease, OpReconciled, OpFree,
         OpAbort, OpPrepare, OpReconcile, OpSort, At, Working, Alive
<1>3. home' \in [Sessions -> Runtimes \cup {NoOne, Forgotten}]
  <2>1. CASE OpForget(o)
    <3>1. \E S : Forget(op[o].r, S)
      BY <2>1 DEF OpForget
    <3> QED
      BY <1>0, <3>1, ForgetHome
  <2>2. ASSUME NEW m \in Members, OpAbort(o, m)
        PROVE  home' \in [Sessions -> Runtimes \cup {NoOne, Forgotten}]
    <3>1. \E s : \E confirmed \in BOOLEAN : Abort(op[o].r, s, confirmed)
      BY <2>2 DEF OpAbort
    <3> QED
      BY <1>0, <1>2, <3>1, AbortHome
  <2>3. ASSUME NEW m \in Members, OpSort(o, m)
        PROVE  home' \in [Sessions -> Runtimes \cup {NoOne, Forgotten}]
    <3>1. home' = home \/ \E s : Abort(op[o].r, s, TRUE) \/ Abort(op[o].r, s, FALSE)
      BY <2>3 DEF OpSort, host
    <3>2. ASSUME NEW s, Abort(op[o].r, s, TRUE)
          PROVE  home' \in [Sessions -> Runtimes \cup {NoOne, Forgotten}]
      BY <1>0, <1>2, <3>2 DEF HostOK, Abort
    <3>3. ASSUME NEW s, Abort(op[o].r, s, FALSE)
          PROVE  home' \in [Sessions -> Runtimes \cup {NoOne, Forgotten}]
      BY <1>0, <1>2, <3>3 DEF HostOK, Abort
    <3> QED
      BY <1>0, <3>1, <3>2, <3>3 DEF HostOK
  <2>4. ASSUME NEW m \in Members, OpPrepare(o, m)
        PROVE  home' \in [Sessions -> Runtimes \cup {NoOne, Forgotten}]
    BY <1>0, <1>2, <2>4 DEF OpPrepare, HostOK, host
  <2>5. CASE \/ OpRead(o) \/ OpCommit(o) \/ OpPrepared(o) \/ OpJudge(o) \/ OpRelease(o) \/ OpReconciled(o)
             \/ OpFree(o) \/ \E m \in Members : OpReconcile(o, m)
    <3>1. home' = home
      BY <2>5 DEF OpRead, OpCommit, OpPrepared, OpJudge, OpRelease, OpReconciled, OpFree, OpReconcile, host
    <3> QED
      BY <1>0, <3>1 DEF HostOK
  <2> QED
    BY <2>1, <2>2, <2>3, <2>4, <2>5 DEF OpQuietly
<1>4. lease' \in [Sessions -> 0 .. MaxDeliveries]
  <2>1. lease' = lease \/ \E s, d : Release(s, d)
    BY DEF OpQuietly, OpRead, OpCommit, OpForget, OpPrepared, OpJudge, OpRelease, OpReconciled, OpFree,
           OpAbort, OpPrepare, OpReconcile, OpSort, ReleaseSeen
  <2> QED
    BY <1>0, <2>1, ReleaseLease DEF HostOK
<1> QED
  BY <1>0, <1>1, <1>2, <1>3, <1>4 DEF HostOK

LEMMA OpKeepsState ==
  ASSUME StateOK, NEW o \in Ops, OpQuietly(o)
  PROVE  StateOK'
<1>1. HostOK' /\ up' = up /\ nextD' = nextD /\ pump' = pump /\ Working(o)
  BY OpHost
<1>2. RecordsOK' /\ Grown
  BY OpIsQuiet, QuietGrows DEF StateOK
<1>3. PICK q : op' = [op EXCEPT ![o] = q] /\ OpMove(o, q)
  BY OpMoves
<1>4. op'[o] = q
  BY <1>3 DEF StateOK
<1>5. OpOK(o)'
  BY <1>1, <1>2, <1>3, <1>4, OpMoveOK DEF StateOK
<1>6. DOMAIN op' = Ops /\ \A u \in Ops : OpOK(u)'
  BY <1>2, <1>3, <1>5, OpsFrame
<1>7. nextD' \in Nat /\ nextD <= nextD'
  BY <1>1, TeamConstants DEF StateOK, HostOK
<1>8. DOMAIN pump' = Runtimes /\ \A r \in Runtimes : PumpOK(r)'
  BY <1>1, <1>2, <1>7, PumpsFrame
<1> QED
  BY <1>1, <1>2, <1>6, <1>8 DEF StateOK

\* A process goes away: its visit and its operations are given up.
LEMMA LeaveKeepsState ==
  ASSUME StateOK, NEW r \in Runtimes, NEW st, Leave(r, st)
  PROVE  StateOK'
<1>0. RecordsOK /\ HostOK /\ DOMAIN pump = Runtimes /\ nextD \in Nat /\ nextD > 0
  BY TeamConstants DEF StateOK, HostOK
<1>1. /\ up' = [up EXCEPT ![r] = "down"] /\ pump' = [pump EXCEPT ![r] = IdlePump]
      /\ op' = [o \in Ops |-> IF op[o].r = r THEN [NewOp EXCEPT !.pc = "gone", !.r = r] ELSE op[o]]
      /\ late' \subseteq late /\ lim' = lim /\ db' = db /\ lease' = lease /\ home' = home /\ nextD' = nextD
  BY DEF Leave
<1>2. HostOK'
  BY <1>0, <1>1 DEF HostOK
<1>3. RecordsOK' /\ Grown
  BY <1>0, <1>1, UnchangedQuiet, QuietGrows
<1>4. DOMAIN pump' = Runtimes /\ \A q \in Runtimes : PumpOK(q)'
  <2>1. PumpOK(r)'
    BY <1>0, <1>1, IdleNowOK
  <2>2. ASSUME NEW q \in Runtimes, q # r
        PROVE  PumpOK(q)'
    <3>1. pump'[q] = pump[q] /\ up'[q] = up[q]
      BY <1>0, <1>1, <2>2 DEF HostOK
    <3> QED
      BY <1>1, <3>1 DEF StateOK, PumpOK
  <2> QED
    BY <1>0, <1>1, <2>1, <2>2
<1>5. DOMAIN op' = Ops /\ \A o \in Ops : OpOK(o)'
  <2>1. ASSUME NEW o \in Ops, op[o].r # r
        PROVE  OpOK(o)'
    <3>1. op'[o] = op[o]
      BY <1>1, <2>1
    <3> QED
      BY <1>3, <3>1, OpFrame DEF StateOK
  <2>2. ASSUME NEW o \in Ops, op[o].r = r
        PROVE  OpOK(o)'
    <3> DEFINE q == [NewOp EXCEPT !.pc = "gone", !.r = r]
    <3>1. op'[o] = q
      BY <1>1, <2>2
    <3>2. DOMAIN q = OpFields /\ q.pc = "gone"
      BY NewOpFields DEF OpFields
    <3> HIDE DEF q
    <3> QED
      BY <3>1, <3>2 DEF OpOK, Working
  <2> QED
    BY <1>1, <2>1, <2>2
<1> QED
  BY <1>2, <1>3, <1>4, <1>5 DEF StateOK

\* A step that leaves the pumps and the operations alone.
LEMMA FrameKeepsState ==
  ASSUME StateOK, HostOK', RecordsOK', Grown, pump' = pump, op' = op, nextD' = nextD,
         \A q \in Runtimes : up[q] \in {"up", "stopping"} => up'[q] \in {"up", "stopping"}
  PROVE  StateOK'
<1>1. nextD' \in Nat /\ nextD <= nextD'
  BY TeamConstants DEF StateOK, HostOK
<1>2. DOMAIN pump' = Runtimes /\ \A q \in Runtimes : PumpOK(q)'
  BY <1>1, PumpsFrame
<1>3. DOMAIN op' = Ops /\ \A o \in Ops : OpOK(o)'
  BY OpsFrame
<1> QED
  BY <1>2, <1>3 DEF StateOK

LEMMA HostKeepsState ==
  ASSUME StateOK, HostQuietly
  PROVE  StateOK'
<1>0. HostOK /\ RecordsOK /\ RecordsOK' /\ Grown
  BY HostIsQuiet, QuietGrows DEF StateOK
<1>1. ASSUME NEW r \in Runtimes, Crash(r) \/ Disposed(r)
      PROVE  StateOK'
  <2>1. Leave(r, "lost") \/ Leave(r, "failed")
    BY <1>1 DEF Crash, Disposed
  <2> QED
    BY <2>1, LeaveKeepsState
<1>2. ASSUME NEW r \in Runtimes, Start(r) \/ Stop(r)
      PROVE  StateOK'
  <2>1. /\ up' = [up EXCEPT ![r] = "up"] \/ up' = [up EXCEPT ![r] = "stopping"]
        /\ pump' = pump /\ op' = op /\ late' = late /\ nextD' = nextD /\ lease' = lease /\ home' = home
    BY <1>2 DEF Start, Stop, host
  <2>2. HostOK'
    BY <1>0, <2>1 DEF HostOK
  <2>3. \A q \in Runtimes : up[q] \in {"up", "stopping"} => up'[q] \in {"up", "stopping"}
    BY <1>0, <2>1 DEF HostOK
  <2> QED
    BY <1>0, <2>1, <2>2, <2>3, FrameKeepsState
<1>3. ASSUME NEW r \in Runtimes, Restore(r)
      PROVE  StateOK'
  <2>1. /\ home' = [home EXCEPT ![UserSession] = r]
        /\ pump' = pump /\ op' = op /\ late' = late /\ nextD' = nextD /\ lease' = lease /\ up' = up
    BY <1>3 DEF Restore
  <2>2. HostOK'
    BY <1>0, <2>1 DEF HostOK
  <2> QED
    BY <1>0, <2>1, <2>2, FrameKeepsState
<1>4. ASSUME NEW r \in Runtimes, NEW s \in Sessions, SessionError(r, s)
      PROVE  StateOK'
  <2>1. /\ \E D : lease' = [lease EXCEPT ![s] = IF @ \in D THEN 0 ELSE @]
        /\ pump' = pump /\ op' = op /\ late' = late /\ nextD' = nextD /\ home' = home /\ up' = up
    BY <1>4 DEF SessionError, host
  <2>2. 0 \in 0 .. MaxDeliveries
    BY TeamConstants
  <2>3. lease' \in [Sessions -> 0 .. MaxDeliveries]
    BY <1>0, <2>1, <2>2 DEF HostOK
  <2>4. HostOK'
    BY <1>0, <2>1, <2>3 DEF HostOK
  <2> QED
    BY <1>0, <2>1, <2>4, FrameKeepsState
<1>5. ASSUME NEW l \in late, LatePrompt(l)
      PROVE  StateOK'
  <2>1. /\ late' \subseteq late
        /\ home' = home \/ home' = [home EXCEPT ![l.p.s] = l.r]
        /\ pump' = pump /\ op' = op /\ nextD' = nextD /\ lease' = lease /\ up' = up
    BY <1>5 DEF LatePrompt, host
  <2>2. HostOK'
    BY <1>0, <2>1 DEF HostOK
  <2> QED
    BY <1>0, <2>1, <2>2, FrameKeepsState
<1>6. ASSUME NEW s \in Sessions,
             UserTurn(s) \/ TurnStarts(s) \/ \E out \in {"ok", "failed"} : TurnEnds(s, out)
      PROVE  StateOK'
  <2>1. /\ late' = late /\ home' = home /\ pump' = pump /\ op' = op /\ nextD' = nextD
        /\ lease' = lease /\ up' = up
    BY <1>6 DEF UserTurn, TurnStarts, TurnEnds
  <2>2. HostOK'
    BY <1>0, <2>1 DEF HostOK
  <2> QED
    BY <1>0, <2>1, <2>2, FrameKeepsState
<1> QED
  BY <1>1, <1>2, <1>3, <1>4, <1>5, <1>6 DEF HostQuietly

\* What members do, but for the operations they begin.
LEMMA MemberKeepsState ==
  ASSUME StateOK, NEW t \in Teams,
         \/ MemberQuietly(t) \/ Create(t)
         \/ \E m \in Members, k \in Tasks, done \in BOOLEAN : SettleTask(t, m, k, done)
  PROVE  StateOK'
<1>1. /\ lease' = lease /\ home' = home /\ up' = up /\ pump' = pump /\ op' = op /\ late' = late
      /\ nextD' = nextD
  BY DEF MemberQuietly, Create, SettleTask, Add, SendMessage, OfferTask, ClaimTask, ClaimLapses, host
<1>2. HostOK'
  BY <1>1 DEF StateOK, HostOK
<1>3. RecordsOK' /\ Grown
  <2>1. CASE MemberQuietly(t)
    BY <2>1, MemberIsQuiet, QuietGrows DEF StateOK
  <2>2. CASE Create(t)
    BY <2>2, CreateStep DEF StateOK
  <2>3. CASE \E m \in Members, k \in Tasks, done \in BOOLEAN : SettleTask(t, m, k, done)
    BY <2>3, SettleIsQuiet, QuietGrows DEF StateOK
  <2> QED
    BY <2>1, <2>2, <2>3
<1> QED
  BY <1>1, <1>2, <1>3, FrameKeepsState

\* An operation begins, ends, or reaches the last transaction of resume().
LEMMA OpSetKeepsState ==
  ASSUME StateOK, RecordsOK', Grown, NEW o \in Ops, NEW q, op' = [op EXCEPT ![o] = q], OpOK(o)',
         lease' = lease, home' = home, up' = up, pump' = pump, late' = late, nextD' = nextD
  PROVE  StateOK'
<1>1. HostOK'
  BY DEF StateOK, HostOK
<1>2. nextD' \in Nat /\ nextD <= nextD'
  BY TeamConstants DEF StateOK, HostOK
<1>3. DOMAIN pump' = Runtimes /\ \A r \in Runtimes : PumpOK(r)'
  BY <1>2, PumpsFrame
<1>4. DOMAIN op' = Ops /\ \A u \in Ops : OpOK(u)'
  BY OpsFrame
<1> QED
  BY <1>1, <1>3, <1>4 DEF StateOK

LEMMA BeginKeepsState ==
  ASSUME StateOK, NEW o \in Ops, NEW t \in Teams, NEW kind \in {"remove", "delete", "resume"},
         NEW by \in Members, NEW m, kind = "remove" => m \in Peers, Begin(o, kind, t, by, m, "read")
  PROVE  StateOK'
<1>1. RecordsOK' /\ Grown /\ db'[t].status = "paused"
  BY BeginStep DEF StateOK
<1> DEFINE q == [NewOp EXCEPT !.pc = "read", !.kind = kind, !.r = Desk(t, by), !.t = t,
                              !.by = by, !.m = m]
<1>2. /\ op' = [op EXCEPT ![o] = q] /\ lease' = lease /\ home' = home /\ up' = up /\ pump' = pump
      /\ late' = late /\ nextD' = nextD /\ Desk(t, by) \in Runtimes
  BY DEF Begin, SetOp, host, Acting, Desk
<1>3. /\ DOMAIN q = OpFields /\ q.pc = "read" /\ q.kind = kind /\ q.t = t /\ q.by = by /\ q.m = m
      /\ q.r = Desk(t, by)
  BY NewOpFields DEF OpFields
<1> HIDE DEF q
<1>4. op'[o] = q
  BY <1>2 DEF StateOK
<1>5. OpOK(o)'
  BY <1>1, <1>2, <1>3, <1>4 DEF OpOK, Working
<1> QED
  BY <1>1, <1>2, <1>5, OpSetKeepsState

LEMMA OpEndKeepsState ==
  ASSUME StateOK, NEW o \in Ops, OpEnd(o)
  PROVE  StateOK'
<1>1. RecordsOK' /\ Grown
  BY EndStep DEF StateOK
<1> DEFINE q == [NewOp EXCEPT !.pc = "done"]
<1>2. /\ op' = [op EXCEPT ![o] = q] /\ lease' = lease /\ home' = home /\ up' = up /\ pump' = pump
      /\ late' = late /\ nextD' = nextD
  BY DEF OpEnd, SetOp, host
<1>3. DOMAIN q = OpFields /\ q.pc = "done"
  BY NewOpFields DEF OpFields
<1> HIDE DEF q
<1>4. op'[o] = q
  BY <1>2 DEF StateOK
<1>5. OpOK(o)'
  BY <1>3, <1>4 DEF OpOK, Working
<1> QED
  BY <1>1, <1>2, <1>5, OpSetKeepsState

LEMMA OpResumeKeepsState ==
  ASSUME StateOK, NEW o \in Ops, OpResume(o)
  PROVE  StateOK'
<1>1. RecordsOK' /\ Grown
  BY ResumeStep DEF StateOK
<1> DEFINE q == [op[o] EXCEPT !.pc = "end"]
<1>2. /\ op' = [op EXCEPT ![o] = q] /\ lease' = lease /\ home' = home /\ up' = up /\ pump' = pump
      /\ late' = late /\ nextD' = nextD /\ op[o].pc = "sort"
  BY DEF OpResume, Goto, SetOp, host, At
<1>3. OpOK(o) /\ Working(o)
  BY <1>2 DEF StateOK, Working
<1>4. OpMove(o, q)
  BY <1>3 DEF OpMove, OpFields, OpOK
<1> HIDE DEF q
<1>5. op'[o] = q
  BY <1>2 DEF StateOK
<1>6. OpOK(o)'
  BY <1>1, <1>3, <1>4, <1>5, OpMoveOK
<1> QED
  BY <1>1, <1>2, <1>6, OpSetKeepsState

LEMMA InitState == Init => StateOK
<1> SUFFICES ASSUME Init PROVE StateOK
  OBVIOUS
<1>1. lim \in Limits /\ lim.maxTurns \in Nat
  BY LimitIsNatural DEF Init
<1>2. RecordsOK
  <2>1. DOMAIN db = Teams /\ \A t \in Teams : db[t] = NewTeam
    BY DEF Init
  <2>2. RecordOK(NewTeam, lim.maxTurns)
    BY <1>1, NewTeamOK
  <2> QED
    BY <1>1, <2>1, <2>2 DEF RecordsOK
<1>3. nextD = 1 /\ 0 \in 0 .. MaxDeliveries /\ 1 \in 1 .. MaxDeliveries + 1
  BY TeamConstants DEF Init
<1>4. HostOK
  <2>1. PICK r \in lim.runtimes :
          /\ home = [s \in Sessions |-> IF s = UserSession THEN r ELSE NoOne]
          /\ up = [q \in Runtimes |-> IF q = r THEN "up" ELSE "new"]
    BY DEF Init
  <2>2. r \in Runtimes
    BY <1>1, TeamConstants
  <2>3. home \in [Sessions -> Runtimes \cup {NoOne, Forgotten}]
    BY <2>1, <2>2
  <2>4. up \in [Runtimes -> {"new", "up", "stopping", "down"}]
    BY <2>1
  <2>5. lease \in [Sessions -> 0 .. MaxDeliveries] /\ late = {}
    BY <1>3 DEF Init
  <2> QED
    BY <1>3, <2>3, <2>4, <2>5 DEF HostOK
<1>5. DOMAIN pump = Runtimes /\ \A r \in Runtimes : PumpOK(r)
  <2>1. DOMAIN pump = Runtimes /\ \A r \in Runtimes : pump[r] = IdlePump
    BY DEF Init
  <2> QED
    BY <1>3, <2>1, IdlePumpFields DEF PumpOK, Carrying
<1>6. DOMAIN op = Ops /\ \A o \in Ops : OpOK(o)
  <2>1. DOMAIN op = Ops /\ \A o \in Ops : op[o] = NewOp
    BY DEF Init
  <2> QED
    BY <2>1, NewOpFields DEF OpOK, Working
<1> QED
  BY <1>2, <1>4, <1>5, <1>6 DEF StateOK

\* The operations that members begin.
Begins(t) == \E o \in Ops : \/ BeginDelete(o, t)
                            \/ \E m \in Members : BeginRemove(o, t, m) \/ BeginResume(o, t, m)
Settles(t) == \E m \in Members, k \in Tasks, done \in BOOLEAN : SettleTask(t, m, k, done)

\* Every step is one of these.
LEMMA StepKinds ==
  ASSUME Next
  PROVE  \/ \E r \in Runtimes : PumpQuietly(r) \/ PumpReserve(r) \/ PumpReply(r)
         \/ HostQuietly
         \/ \E t \in Teams : MemberQuietly(t) \/ Create(t) \/ Settles(t) \/ Begins(t)
         \/ \E o \in Ops : OpQuietly(o) \/ OpEnd(o) \/ OpResume(o)
<1>1. ASSUME NEW r \in Runtimes, PumpStep(r) \/ PumpFault(r)
      PROVE  PumpQuietly(r) \/ PumpReserve(r) \/ PumpReply(r)
  BY <1>1 DEF PumpStep, PumpQuietly
<1>2. ASSUME NEW r \in Runtimes, NEW t \in Teams,
             PumpExpire(r, t) \/ PumpForget(r, t) \/ \E m \in Members : PumpVisit(r, t, m)
      PROVE  PumpQuietly(r)
  BY <1>2 DEF PumpQuietly
<1>3. ASSUME \/ \E r \in Runtimes : \/ Start(r) \/ Restore(r) \/ Crash(r) \/ Stop(r) \/ Disposed(r)
                                    \/ \E s \in Sessions : SessionError(r, s)
             \/ \E l \in late : LatePrompt(l)
             \/ \E s \in Sessions : \/ UserTurn(s) \/ TurnStarts(s)
                                    \/ \E out \in {"ok", "failed"} : TurnEnds(s, out)
      PROVE  HostQuietly
  BY <1>3 DEF HostQuietly
<1>4. ASSUME NEW t \in Teams, MemberStep(t)
      PROVE  MemberQuietly(t) \/ Create(t) \/ Settles(t) \/ Begins(t)
  BY <1>4 DEF MemberStep, MemberQuietly, Settles, Begins
<1>5. ASSUME NEW o \in Ops, OpStep(o)
      PROVE  OpQuietly(o) \/ OpEnd(o) \/ OpResume(o)
  BY <1>5 DEF OpStep, OpQuietly
<1> QED
  BY <1>1, <1>2, <1>3, <1>4, <1>5, Zenon DEF Next

LEMMA BeginsAre ==
  ASSUME NEW t \in Teams, Begins(t)
  PROVE  \E o \in Ops, kind \in {"remove", "delete", "resume"}, by \in Members, m \in Members \cup {NoOne} :
            Begin(o, kind, t, by, m, "read") /\ (kind = "remove" => m \in Peers)
<1>0. Lead \in Members
  BY DEF Members
<1>1. ASSUME NEW o \in Ops, BeginDelete(o, t)
      PROVE  Begin(o, "delete", t, Lead, NoOne, "read")
  BY <1>1 DEF BeginDelete
<1>2. ASSUME NEW o \in Ops, NEW m \in Members, BeginRemove(o, t, m)
      PROVE  Begin(o, "remove", t, Lead, m, "read") /\ m \in Peers
  BY <1>2 DEF BeginRemove
<1>3. ASSUME NEW o \in Ops, NEW m \in Members, BeginResume(o, t, m)
      PROVE  Begin(o, "resume", t, m, NoOne, "read")
  BY <1>3 DEF BeginResume
<1> QED
  BY <1>0, <1>1, <1>2, <1>3 DEF Begins

LEMMA StateKept == StateOK /\ [Next]_vars => StateOK'
<1> SUFFICES ASSUME StateOK, [Next]_vars PROVE StateOK'
  OBVIOUS
<1>1. CASE UNCHANGED vars
  BY <1>1 DEF vars, StateOK, RecordsOK, HostOK, PumpOK, OpOK, Working
<1>2. CASE Next
  <2>1. ASSUME NEW r \in Runtimes, PumpQuietly(r) \/ PumpReserve(r) \/ PumpReply(r)
        PROVE  StateOK'
    BY <2>1, PumpKeepsState, ReserveKeepsState, ReplyKeepsState
  <2>2. CASE HostQuietly
    BY <2>2, HostKeepsState
  <2>3. ASSUME NEW t \in Teams, MemberQuietly(t) \/ Create(t) \/ Settles(t)
        PROVE  StateOK'
    BY <2>3, MemberKeepsState DEF Settles
  <2>4. ASSUME NEW t \in Teams, Begins(t)
        PROVE  StateOK'
    BY <2>4, BeginsAre, BeginKeepsState
  <2>5. ASSUME NEW o \in Ops, OpQuietly(o) \/ OpEnd(o) \/ OpResume(o)
        PROVE  StateOK'
    BY <2>5, OpKeepsState, OpEndKeepsState, OpResumeKeepsState
  <2> QED
    BY <1>2, <2>1, <2>2, <2>3, <2>4, <2>5, StepKinds
<1> QED
  BY <1>1, <1>2

LEMMA StateHolds == Spec => []StateOK
BY InitState, StateKept, PTL DEF Spec

\* Records, leases, sessions and processes keep their types through every crash, takeover,
\* lost prompt and late error.
THEOREM TypeCorrect == Spec => []TypeOK
<1>1. StateOK => TypeOK
  <2> SUFFICES ASSUME StateOK PROVE TypeOK
    OBVIOUS
  <2>1. HostOK /\ lim \in Limits
    BY DEF StateOK, RecordsOK
  <2>2. ASSUME NEW t \in Teams
        PROVE  /\ db[t].status \in {"none", "active", "paused", "deleted"}
               /\ db[t].control \in Ops \cup {NoOne}
               /\ db[t].turns \in Nat /\ db[t].spent \in Nat
               /\ \A m \in Members : /\ db[t].member[m] \in {"absent", "active", "removed"}
                                     /\ db[t].session[m] \in Sessions \cup {NoSession}
                                     /\ db[t].cursor[m] \in 0 .. Len(db[t].events)
                                     /\ db[t].del[m].id \in 0 .. MaxDeliveries
    <3>1. RecordTyped(db[t]) /\ PointersHeld(db[t]) /\ Len(db[t].events) \in Nat
      BY EventsCounted DEF StateOK, RecordsOK, RecordOK
    <3>2. \A m \in Members : db[t].del[m].id \in 0 .. MaxDeliveries
      BY <3>1 DEF RecordTyped, DeliveryRows
    <3>3. \A m \in Members : db[t].cursor[m] \in 0 .. Len(db[t].events)
      BY <3>1 DEF RecordTyped, PointersHeld
    <3> QED
      BY <3>1, <3>2, <3>3 DEF RecordTyped
  <2> QED
    BY <2>1, <2>2 DEF TypeOK, HostOK
<1> QED
  BY <1>1, StateHolds, PTL

\* The turn budget is exact: whatever failures, refunds, discards, lost prompts, removals and
\* crashes come between, what a team has spent is what its settled turns cost plus one for
\* each delivery in flight; it never passes the limit, and at most two are in flight.
THEOREM BudgetIsExact == Spec => []BudgetExact
<1>1. StateOK => BudgetExact
  BY DEF StateOK, RecordsOK, RecordOK, Budgeted, BudgetExact
<1> QED
  BY <1>1, StateHolds, PTL

\* Only an active member holds a claim: removal gives claims back in its own transaction.
THEOREM ClaimsAreHeld == Spec => []ClaimsHeld
<1>1. StateOK => ClaimsHeld
  BY DEF StateOK, RecordsOK, RecordOK, ClaimOwned, ClaimsHeld
<1> QED
  BY <1>1, StateHolds, PTL

\* What one step may do to the claims.
ClaimStep == \A t \in Teams, k \in Tasks :
    LET m == db[t].task[k].owner IN
    /\ db[t].task[k].st = "claimed" /\ db[t].del[m].id # 0
    /\ db'[t].task[k].owner # m
    => db'[t].member[m] = "removed" \/ \E done \in BOOLEAN : SettleTask(t, m, k, done)

LEMMA QuietClaims ==
  ASSUME ClaimsQuiet
  PROVE  ClaimStep
BY DEF ClaimsQuiet, ClaimsKept, ClaimStep

LEMMA SameTasksClaims ==
  ASSUME \A t \in Teams : db'[t].task = db[t].task
  PROVE  ClaimStep
BY DEF ClaimStep

LEMMA ClaimStepHolds ==
  ASSUME StateOK, Next
  PROVE  ClaimStep
<1>0. RecordsOK /\ HostOK
  BY DEF StateOK
<1>1. ASSUME NEW r \in Runtimes, PumpQuietly(r) \/ PumpReply(r)
      PROVE  ClaimStep
  <2>1. PumpOK(r)
    BY DEF StateOK
  <2> QED
    BY <1>0, <1>1, <2>1, PumpIsQuiet, ReplyStep, QuietClaims
<1>2. ASSUME NEW r \in Runtimes, PumpReserve(r)
      PROVE  ClaimStep
  <2>1. PumpOK(r)
    BY DEF StateOK
  <2>2. ClaimsQuiet \/ ReservedNow(r)
    BY <1>0, <1>2, <2>1, ReserveStep
  <2>3. ASSUME ReservedNow(r)
        PROVE  \A t \in Teams : db'[t].task = db[t].task
    BY <2>3 DEF ReservedNow
  <2> QED
    BY <2>2, <2>3, QuietClaims, SameTasksClaims
<1>3. CASE HostQuietly
  BY <1>0, <1>3, HostIsQuiet, QuietClaims
<1>4. ASSUME NEW t \in Teams, MemberQuietly(t)
      PROVE  ClaimStep
  BY <1>0, <1>4, MemberIsQuiet, QuietClaims
<1>5. ASSUME NEW t \in Teams, Create(t)
      PROVE  ClaimStep
  <2>1. db[t].status = "none" /\ \A u \in Teams : u # t => db'[u] = db[u]
    BY <1>0, <1>5, CreateStep
  <2>2. \A k \in Tasks : db[t].task[k].st # "claimed"
    BY <1>0, <2>1 DEF RecordsOK, RecordOK, StatusHeld, ClaimOwned
  <2> QED
    BY <2>1, <2>2 DEF ClaimStep
<1>6. ASSUME NEW t \in Teams, Settles(t)
      PROVE  ClaimStep
  <2>1. PICK m \in Members, k \in Tasks, done \in BOOLEAN : SettleTask(t, m, k, done)
    BY <1>6 DEF Settles
  <2>2. /\ db[t].task[k].owner = m
        /\ \A u \in Teams, j \in Tasks : u # t \/ j # k => db'[u].task[j] = db[u].task[j]
    BY <1>0, <2>1, SettleIsQuiet
  <2> QED
    BY <2>1, <2>2 DEF ClaimStep
<1>7. ASSUME NEW t \in Teams, Begins(t)
      PROVE  ClaimStep
  <2>1. PICK o \in Ops, kind \in {"remove", "delete", "resume"}, by \in Members, m \in Members \cup {NoOne} :
          Begin(o, kind, t, by, m, "read")
    BY <1>7, BeginsAre
  <2>2. db'[t].task = db[t].task /\ \A u \in Teams : u # t => db'[u] = db[u]
    BY <1>0, <2>1, BeginStep
  <2> QED
    BY <2>2, SameTasksClaims
<1>8. ASSUME NEW o \in Ops, OpQuietly(o)
      PROVE  ClaimStep
  <2>1. OpOK(o)
    BY DEF StateOK
  <2> QED
    BY <1>0, <1>8, <2>1, OpIsQuiet, QuietClaims
<1>9. ASSUME NEW o \in Ops, OpEnd(o) \/ OpResume(o)
      PROVE  ClaimStep
  <2>1. OpOK(o)
    BY DEF StateOK
  <2>2. \A u \in Teams : db'[u].task = db[u].task
    <3>1. CASE OpEnd(o)
      <4>1. db'[op[o].t].task = db[op[o].t].task /\ \A u \in Teams : u # op[o].t => db'[u] = db[u]
        BY <1>0, <3>1, <2>1, EndStep
      <4> QED
        BY <4>1
    <3>2. CASE OpResume(o)
      <4>1. db'[op[o].t].task = db[op[o].t].task /\ \A u \in Teams : u # op[o].t => db'[u] = db[u]
        BY <1>0, <3>2, <2>1, ResumeStep
      <4> QED
        BY <4>1
    <3> QED
      BY <1>9, <3>1, <3>2
  <2> QED
    BY <2>2, SameTasksClaims
<1> QED
  BY <1>1, <1>2, <1>3, <1>4, <1>5, <1>6, <1>7, <1>8, <1>9, StepKinds

\* A member at work keeps its claim: while its delivery is in flight, expiry and the claims of
\* others pass it over; its claim changes hands by its own event or by its removal only.
THEOREM ClaimsAreKept == Spec => ClaimKept
<1>1. StateOK /\ [Next]_vars => [ClaimStep]_vars
  BY ClaimStepHolds
<1> QED
  BY <1>1, StateHolds, PTL DEF Spec, ClaimKept, ClaimStep
=============================================================================
