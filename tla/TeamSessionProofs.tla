------------------------- MODULE TeamSessionProofs --------------------------
(***************************************************************************)
(* Theorems about TeamRuntime's sessions, cursors and leases: a cursor     *)
(* never passes an event its member was not shown, and of the deliveries   *)
(* to one session at most one has been issued.  They rest on the state and *)
(* delivery invariants of TeamRuntimeProofs and TeamDeliveryProofs.        *)
(***************************************************************************)
EXTENDS TeamDeliveryProofs

-----------------------------------------------------------------------------
(* Transcripts.                                                            *)

Over == {"ok", "failed", "lost"}
TurnRows == [d : Nat, t : Teams \cup {NoOne}, m : Members \cup {NoOne},
             from : Nat, through : Nat, st : {"queued", "running"} \cup Over]

\* Turns run one after the other: what comes before a turn that started is over.
Ordered(turns) == \A j \in 1 .. Len(turns) :
    turns[j].st # "queued" => \A i \in 1 .. j - 1 : turns[i].st \in Over
Transcript(turns) == turns \in Seq(TurnRows) /\ Ordered(turns)

\* The same prompt, wherever its turn has got to.
SamePrompt(e, f) ==
    e.d = f.d /\ e.t = f.t /\ e.m = f.m /\ e.from = f.from /\ e.through = f.through

\* What a step makes of a transcript: turns that are over stay, and no prompt appears but
\* those in E.
FollowsWith(a, b, E) ==
    /\ Transcript(b)
    /\ \A k \in 1 .. Len(b) : \/ \E i \in 1 .. Len(a) : SamePrompt(b[k], a[i])
                              \/ \E e \in E : SamePrompt(b[k], e)
    /\ \A i \in 1 .. Len(a) : a[i].st \in Over => \E k \in 1 .. Len(b) : b[k] = a[i]
Follows(a, b) == FollowsWith(a, b, {})

\* The places of a finite set of numbers are its numbers in order.
LEMMA PlaceFacts ==
  ASSUME NEW n \in Nat, NEW K \in SUBSET (1 .. n)
  PROVE  /\ IsFiniteSet(K) /\ Cardinality(K) \in Nat
         /\ \A i \in K : Rank(K, i) \in 1 .. Cardinality(K)
         /\ \A i, j \in K : i < j => Rank(K, i) < Rank(K, j)
         /\ \A k \in 1 .. Cardinality(K) : \E i \in K : Rank(K, i) = k
<1> DEFINE Upto(i) == {j \in K : j <= i}
<1>0. IsFiniteSet(1 .. n) /\ \A i \in K : i \in Nat
  <2>1. IsFiniteSet(1 .. n)
    BY FS_Interval
  <2> QED
    BY <2>1
<1>1. IsFiniteSet(K) /\ Cardinality(K) \in Nat
  <2>1. IsFiniteSet(K)
    BY <1>0, FS_Subset
  <2> QED
    BY <2>1, FS_CardinalityType
<1>2. \A i \in K : IsFiniteSet(Upto(i)) /\ Cardinality(Upto(i)) \in Nat /\ Upto(i) \in SUBSET K
  BY <1>1, FS_Subset, FS_CardinalityType
<1>3. \A i \in K : Rank(K, i) = Cardinality(Upto(i))
  BY DEF Rank
<1>4. \A i \in K : Rank(K, i) \in 1 .. Cardinality(K)
  <2> SUFFICES ASSUME NEW i \in K PROVE Rank(K, i) \in 1 .. Cardinality(K)
    OBVIOUS
  <2>1. i \in Upto(i)
    BY <1>0
  <2>2. Cardinality(Upto(i)) # 0
    BY <1>2, <2>1, FS_EmptySet
  <2>3. Cardinality(Upto(i)) <= Cardinality(K)
    BY <1>1, <1>2, FS_Subset
  <2> HIDE DEF Upto
  <2> QED
    BY <1>1, <1>2, <1>3, <2>2, <2>3
<1>5. \A i, j \in K : i < j => Rank(K, i) < Rank(K, j)
  <2> SUFFICES ASSUME NEW i \in K, NEW j \in K, i < j PROVE Rank(K, i) < Rank(K, j)
    OBVIOUS
  <2>1. Upto(i) \in SUBSET Upto(j) /\ j \in Upto(j) /\ j \notin Upto(i)
    <3>1. i \in Nat /\ j \in Nat
      BY <1>0
    <3>2. j <= j /\ ~(j <= i) /\ \A h \in K : h <= i => h <= j
      BY <1>0, <3>1
    <3>3. j \in Upto(j) /\ j \notin Upto(i)
      BY <3>2
    <3>4. Upto(i) \subseteq Upto(j)
      BY <3>2
    <3> QED
      BY <3>3, <3>4
  <2>2. Upto(i) # Upto(j)
    BY <2>1
  <2> HIDE DEF Upto
  <2>3. Cardinality(Upto(i)) <= Cardinality(Upto(j)) /\ Cardinality(Upto(i)) # Cardinality(Upto(j))
    BY <1>2, <2>1, <2>2, FS_Subset
  <2> QED
    BY <1>2, <1>3, <2>3
<1>6. \A k \in 1 .. Cardinality(K) : \E i \in K : Rank(K, i) = k
  <2> DEFINE f == [i \in K |-> Rank(K, i)]
             N == 1 .. Cardinality(K)
  <2>1. f \in Injection(K, N)
    <3>1. f \in [K -> N]
      BY <1>4
    <3>2. \A i, j \in K : f[i] = f[j] => i = j
      <4> SUFFICES ASSUME NEW i \in K, NEW j \in K, Rank(K, i) = Rank(K, j), i # j PROVE FALSE
        OBVIOUS
      <4>1. i < j \/ j < i
        OBVIOUS
      <4> QED
        BY <1>4, <1>5, <4>1
    <3> QED
      BY <3>1, <3>2 DEF Injection, IsInjective
  <2>2. IsFiniteSet(N) /\ Cardinality(N) = Cardinality(K)
    BY <1>1, FS_Interval
  <2>3. f \in Surjection(K, N)
    <3> HIDE DEF f, N
    <3> QED
      BY <2>1, <2>2, FS_Injection
  <2> QED
    BY <2>3 DEF Surjection
<1> QED
  BY <1>1, <1>4, <1>5, <1>6

\* Dropping the queued prompts keeps the other turns in their order.
LEMMA DropPlaces ==
  ASSUME NEW turns \in Seq(TurnRows)
  PROVE  LET T == DropQueued(turns) IN
         /\ T \in Seq(TurnRows)
         /\ \E p \in [1 .. Len(T) -> 1 .. Len(turns)] :
              /\ \A k \in 1 .. Len(T) : T[k] = turns[p[k]]
              /\ \A k \in 1 .. Len(T) : \A h \in 1 .. k - 1 : p[h] < p[k]
              /\ \A i \in Staying(turns) : \E k \in 1 .. Len(T) : p[k] = i
<1> DEFINE K == Staying(turns)
           T == DropQueued(turns)
           c == Cardinality(K)
           p == [k \in 1 .. c |-> CHOOSE i \in K : Rank(K, i) = k]
<1>1. Len(turns) \in Nat /\ turns \in [1 .. Len(turns) -> TurnRows] /\ K \in SUBSET (1 .. Len(turns))
  BY LenProperties DEF Staying
<1> HIDE DEF K
<1>2. /\ c \in Nat
      /\ \A i \in K : Rank(K, i) \in 1 .. c
      /\ \A i, j \in K : i < j => Rank(K, i) < Rank(K, j)
      /\ \A k \in 1 .. c : \E i \in K : Rank(K, i) = k
  BY <1>1, PlaceFacts
<1> HIDE DEF c
<1>3. \A k \in 1 .. c : p[k] \in K /\ Rank(K, p[k]) = k
  BY <1>2
<1>4. p \in [1 .. c -> 1 .. Len(turns)]
  BY <1>1, <1>3
<1>5. T = [k \in 1 .. c |-> turns[p[k]]]
  BY DEF DropQueued, K, c
<1> HIDE DEF p, T
<1>6. T \in [1 .. c -> TurnRows]
  BY <1>1, <1>4, <1>5
<1>7. T \in Seq(TurnRows) /\ Len(T) = c
  BY <1>2, <1>6, LenProperties
<1>8. \A k \in 1 .. Len(T) : T[k] = turns[p[k]]
  BY <1>5, <1>7
<1>9. \A k \in 1 .. c : \A h \in 1 .. k - 1 : p[h] < p[k]
  <2> SUFFICES ASSUME NEW k \in 1 .. c, NEW h \in 1 .. k - 1 PROVE p[h] < p[k]
    OBVIOUS
  <2>1. h \in 1 .. c /\ h < k
    BY <1>2
  <2>2. p[h] \in Nat /\ p[k] \in Nat
    BY <1>1, <1>4, <2>1
  <2>3. p[h] # p[k] /\ ~(p[k] < p[h])
    BY <1>2, <1>3, <2>1
  <2> QED
    BY <2>2, <2>3
<1>10. \A i \in K : \E k \in 1 .. c : p[k] = i
  <2> SUFFICES ASSUME NEW i \in K PROVE p[Rank(K, i)] = i
    BY <1>2
  <2>1. Rank(K, i) \in 1 .. c
    BY <1>2
  <2>2. p[Rank(K, i)] \in K /\ Rank(K, p[Rank(K, i)]) = Rank(K, i)
    BY <1>3, <2>1
  <2>3. i \in Nat /\ p[Rank(K, i)] \in Nat
    <3>1. \A h \in K : h \in Nat
      BY <1>1
    <3> QED
      BY <2>2, <3>1
  <2>4. ~(i < p[Rank(K, i)]) /\ ~(p[Rank(K, i)] < i)
    <3> DEFINE j == p[Rank(K, i)]
    <3>1. j \in K /\ Rank(K, j) = Rank(K, i) /\ Rank(K, i) \in Nat
      BY <1>2, <2>1, <2>2
    <3> HIDE DEF j
    <3>2. ~(i < j) /\ ~(j < i)
      BY <1>2, <3>1
    <3> QED
      BY <3>2 DEF j
  <2> QED
    BY <2>3, <2>4
<1> QED
  BY <1>4, <1>7, <1>8, <1>9, <1>10 DEF K, T

LEMMA TranscriptTyped ==
  ASSUME NEW turns, Transcript(turns)
  PROVE  /\ Len(turns) \in Nat /\ turns \in [1 .. Len(turns) -> TurnRows]
         /\ \A i \in 1 .. Len(turns) : turns[i] \in TurnRows
BY LenProperties DEF Transcript

LEMMA FollowsItself ==
  ASSUME NEW turns, Transcript(turns)
  PROVE  Follows(turns, turns)
BY DEF Follows, FollowsWith, SamePrompt

LEMMA FollowsOn ==
  ASSUME NEW a, NEW b, NEW c, NEW E, Follows(a, b), FollowsWith(b, c, E)
  PROVE  FollowsWith(a, c, E)
<1>1. ASSUME NEW k \in 1 .. Len(c)
      PROVE  (\E i \in 1 .. Len(a) : SamePrompt(c[k], a[i])) \/ \E e \in E : SamePrompt(c[k], e)
  <2>1. CASE \E i \in 1 .. Len(b) : SamePrompt(c[k], b[i])
    <3>1. PICK i \in 1 .. Len(b) : SamePrompt(c[k], b[i])
      BY <2>1
    <3>2. PICK j \in 1 .. Len(a) : SamePrompt(b[i], a[j])
      BY DEF Follows, FollowsWith
    <3> QED
      BY <3>1, <3>2 DEF SamePrompt
  <2> QED
    BY <2>1 DEF FollowsWith
<1>2. ASSUME NEW i \in 1 .. Len(a), a[i].st \in Over
      PROVE  \E k \in 1 .. Len(c) : c[k] = a[i]
  <2>1. PICK j \in 1 .. Len(b) : b[j] = a[i]
    BY <1>2 DEF Follows, FollowsWith
  <2> QED
    BY <1>2, <2>1 DEF FollowsWith
<1> QED
  BY <1>1, <1>2 DEF FollowsWith

\* Queued prompts that are dropped leave the other turns as they are.
LEMMA DropFollows ==
  ASSUME NEW turns, Transcript(turns)
  PROVE  Follows(turns, DropQueued(turns))
<1> DEFINE T == DropQueued(turns)
<1>1. turns \in Seq(TurnRows) /\ Ordered(turns)
  BY DEF Transcript
<1>2. /\ T \in Seq(TurnRows)
      /\ \E p \in [1 .. Len(T) -> 1 .. Len(turns)] :
              /\ \A k \in 1 .. Len(T) : T[k] = turns[p[k]]
              /\ \A k \in 1 .. Len(T) : \A h \in 1 .. k - 1 : p[h] < p[k]
              /\ \A i \in Staying(turns) : \E k \in 1 .. Len(T) : p[k] = i
  BY <1>1, DropPlaces
<1> HIDE DEF T
<1>3. PICK p \in [1 .. Len(T) -> 1 .. Len(turns)] :
              /\ \A k \in 1 .. Len(T) : T[k] = turns[p[k]]
              /\ \A k \in 1 .. Len(T) : \A h \in 1 .. k - 1 : p[h] < p[k]
              /\ \A i \in Staying(turns) : \E k \in 1 .. Len(T) : p[k] = i
  BY <1>2
<1>4. Len(T) \in Nat /\ Len(turns) \in Nat
  BY <1>1, <1>2, LenProperties
<1>5. ASSUME NEW k \in 1 .. Len(T), T[k].st # "queued", NEW h \in 1 .. k - 1
      PROVE  T[h].st \in Over
  <2>0. h \in 1 .. Len(T)
    BY <1>4
  <2>1. h \in 1 .. Len(T) /\ p[h] \in 1 .. Len(turns) /\ p[k] \in 1 .. Len(turns) /\ p[h] < p[k]
    BY <1>3, <2>0
  <2>2. p[h] \in 1 .. p[k] - 1
    BY <1>4, <2>1
  <2>3. T[k] = turns[p[k]] /\ T[h] = turns[p[h]]
    BY <1>3, <2>1
  <2> QED
    BY <1>1, <1>5, <2>1, <2>2, <2>3 DEF Ordered
<1>6. ASSUME NEW i \in 1 .. Len(turns), turns[i].st \in Over
      PROVE  \E k \in 1 .. Len(T) : T[k] = turns[i]
  <2>1. i \in Staying(turns)
    BY <1>6 DEF Staying, Over
  <2> QED
    BY <1>3, <2>1
<1>7. ASSUME NEW k \in 1 .. Len(T)
      PROVE  \E i \in 1 .. Len(turns) : SamePrompt(T[k], turns[i])
  BY <1>3 DEF SamePrompt
<1> QED
  BY <1>2, <1>5, <1>6, <1>7 DEF Follows, FollowsWith, Transcript, Ordered, T

\* A turn takes another status.
LEMMA StatusFollows ==
  ASSUME NEW turns, Transcript(turns), NEW T, NEW I \in SUBSET (1 .. Len(turns)),
         NEW st \in {"running"} \cup Over,
         T = [i \in 1 .. Len(turns) |-> IF i \in I THEN [turns[i] EXCEPT !.st = st] ELSE turns[i]],
         \A i \in I : turns[i].st \notin Over,
         \/ st \in Over /\ \A i \in I : turns[i].st = "running"
         \/ \E i \in I : I = {i} /\ \A j \in 1 .. i - 1 : turns[j].st \in Over
  PROVE  Follows(turns, T)
<1>1. Len(turns) \in Nat /\ \A i \in 1 .. Len(turns) : turns[i] \in TurnRows
  BY TranscriptTyped
<1>2. \A i \in 1 .. Len(turns) : [turns[i] EXCEPT !.st = st] \in TurnRows
  BY <1>1 DEF TurnRows
<1>3. T \in [1 .. Len(turns) -> TurnRows]
  BY <1>1, <1>2
<1>4. T \in Seq(TurnRows) /\ Len(T) = Len(turns)
  BY <1>1, <1>3, LenProperties
<1>5. \A i \in 1 .. Len(turns) :
        /\ SamePrompt(T[i], turns[i])
        /\ i \in I => T[i].st = st
        /\ i \notin I => T[i] = turns[i]
  BY <1>1 DEF SamePrompt, TurnRows
<1>6. ASSUME NEW j \in 1 .. Len(turns), T[j].st # "queued", NEW i \in 1 .. j - 1
      PROVE  T[i].st \in Over
  <2>0. i \in 1 .. Len(turns) /\ i < j
    BY <1>1
  <2>1. Ordered(turns)
    BY DEF Transcript
  <2>2. CASE turns[j].st # "queued"
    <3>1. turns[i].st \in Over
      BY <2>1, <2>2 DEF Ordered
    <3> QED
      BY <1>5, <2>0, <3>1
  <2>3. CASE turns[j].st = "queued"
    <3>1. j \in I
      BY <1>5, <1>6, <2>3
    <3>2. I = {j} /\ \A k \in 1 .. j - 1 : turns[k].st \in Over
      BY <2>3, <3>1
    <3> QED
      BY <1>5, <2>0, <3>2
  <2> QED
    BY <2>2, <2>3
<1>7. ASSUME NEW k \in 1 .. Len(T)
      PROVE  \E i \in 1 .. Len(turns) : SamePrompt(T[k], turns[i])
  <2>1. k \in 1 .. Len(turns)
    BY <1>4
  <2>2. SamePrompt(T[k], turns[k])
    BY <1>5, <2>1
  <2> QED
    BY <2>1, <2>2, Zenon
<1>8. \A i \in 1 .. Len(turns) : turns[i].st \in Over => \E k \in 1 .. Len(T) : T[k] = turns[i]
  BY <1>4, <1>5
<1> QED
  BY <1>4, <1>6, <1>7, <1>8 DEF Follows, FollowsWith, Transcript, Ordered

\* The running turn of a transcript is cut off or cancelled.
Cut(turns, st) == [i \in 1 .. Len(turns) |->
                      IF turns[i].st = "running" THEN [turns[i] EXCEPT !.st = st] ELSE turns[i]]

LEMMA CutFollows ==
  ASSUME NEW turns, Transcript(turns), NEW st \in Over
  PROVE  Follows(turns, Cut(turns, st))
<1> DEFINE I == {i \in 1 .. Len(turns) : turns[i].st = "running"}
<1>1. Cut(turns, st) = [i \in 1 .. Len(turns) |->
                           IF i \in I THEN [turns[i] EXCEPT !.st = st] ELSE turns[i]]
  BY DEF Cut
<1>2. I \in SUBSET (1 .. Len(turns)) /\ \A i \in I : turns[i].st = "running" /\ turns[i].st \notin Over
  BY DEF Over
<1> HIDE DEF I
<1> QED
  BY <1>1, <1>2, StatusFollows

LEMMA CancelFollows ==
  ASSUME NEW turns, Transcript(turns)
  PROVE  Follows(turns, Cancelled(DropQueued(turns)))
<1> DEFINE T == DropQueued(turns)
<1>1. Follows(turns, T) /\ Transcript(T)
  BY DropFollows DEF Follows, FollowsWith
<1> HIDE DEF T
<1>2. Follows(T, Cut(T, "failed"))
  BY <1>1, CutFollows DEF Over
<1>3. Cut(T, "failed") = Cancelled(T)
  BY DEF Cut, Cancelled
<1> QED
  BY <1>1, <1>2, <1>3, FollowsOn DEF Follows, T

\* A prompt joins the queue.
LEMMA QueueFollows ==
  ASSUME NEW turns, NEW T, Follows(turns, T), NEW e \in TurnRows, e.st = "queued"
  PROVE  FollowsWith(turns, Append(T, e), {e})
<1>1. Transcript(T) /\ Len(T) \in Nat
  BY TranscriptTyped DEF Follows, FollowsWith
<1>2. /\ Append(T, e) \in Seq(TurnRows) /\ Len(Append(T, e)) = Len(T) + 1
      /\ \A i \in 1 .. Len(T) : Append(T, e)[i] = T[i]
      /\ Append(T, e)[Len(T) + 1] = e
  BY <1>1, AppendProperties DEF Transcript
<1> DEFINE U == Append(T, e)
<1> HIDE DEF U
<1>3. U \in Seq(TurnRows) /\ Len(U) = Len(T) + 1 /\ (\A i \in 1 .. Len(T) : U[i] = T[i]) /\ U[Len(T) + 1] = e
  BY <1>2 DEF U
<1>4. ASSUME NEW j \in 1 .. Len(U), U[j].st # "queued", NEW i \in 1 .. j - 1
      PROVE  U[i].st \in Over
  <2>1. j \in 1 .. Len(T)
    BY <1>1, <1>3, <1>4
  <2>2. i \in 1 .. Len(T)
    BY <1>1, <2>1
  <2>3. U[j] = T[j] /\ U[i] = T[i]
    BY <1>3, <2>1, <2>2
  <2> QED
    BY <1>1, <1>4, <2>1, <2>3 DEF Transcript, Ordered
<1>5. ASSUME NEW k \in 1 .. Len(U)
      PROVE  (\E i \in 1 .. Len(turns) : SamePrompt(U[k], turns[i])) \/ SamePrompt(U[k], e)
  <2>1. CASE k = Len(T) + 1
    BY <1>3, <2>1 DEF SamePrompt
  <2>2. CASE k # Len(T) + 1
    <3>1. k \in 1 .. Len(T)
      BY <1>1, <1>3, <2>2
    <3>2. U[k] = T[k]
      BY <1>3, <3>1
    <3> QED
      BY <3>1, <3>2 DEF Follows, FollowsWith
  <2> QED
    BY <2>1, <2>2
<1>6. ASSUME NEW i \in 1 .. Len(turns), turns[i].st \in Over
      PROVE  \E k \in 1 .. Len(U) : U[k] = turns[i]
  <2>1. PICK k \in 1 .. Len(T) : T[k] = turns[i]
    BY <1>6 DEF Follows, FollowsWith
  <2>2. k \in 1 .. Len(U) /\ U[k] = T[k]
    BY <1>1, <1>3
  <2> QED
    BY <2>1, <2>2
<1> QED
  BY <1>3, <1>4, <1>5, <1>6 DEF FollowsWith, Transcript, Ordered, U

-----------------------------------------------------------------------------
(* What the transactions leave alone.                                      *)

\* Sessions and cursors are only changed by the binding of a session, by a turn that ended
\* well, and by the creation of the team; a lead is only made by the creation.
Stays(S, T) ==
    /\ T.session = S.session /\ T.cursor = S.cursor
    /\ T.member[Lead] = "active" => S.member[Lead] = "active"

LEMMA StaysItself == ASSUME NEW S PROVE Stays(S, S)
BY DEF Stays

LEMMA FailStays ==
  ASSUME NEW S, NEW m, NEW reason, NEW clear, RecordTyped(S)
  PROVE  Stays(S, Fail(S, m, reason, clear))
<1>1. CASE Fail(S, m, reason, clear) = S
  BY <1>1, StaysItself
<1>2. CASE Fail(S, m, reason, clear) # S
  <2>1. Fail(S, m, reason, clear) = [S EXCEPT !.error[m] = reason,
                   !.del[m] = IF FailDrops(S, m, clear) THEN NoDelivery ELSE @,
                   !.turns = IF FailDrops(S, m, clear) THEN Less(@) ELSE @,
                   !.status = "paused"]
    BY <1>2 DEF Fail
  <2> QED
    BY <2>1 DEF Stays, RecordTyped, TeamFields
<1> QED
  BY <1>1, <1>2

LEMMA FailInStays ==
  ASSUME NEW S, NEW r, NEW t, NEW m, NEW reason, NEW clear, RecordTyped(S)
  PROVE  Stays(S, FailIn(r, t, S, m, reason, clear))
BY FailStays, StaysItself DEF FailIn

LEMMA DiscardStays ==
  ASSUME NEW S, NEW m, NEW d, RecordTyped(S)
  PROVE  Stays(S, Discard(S, m, d)) /\ Stays(S, Refused(S, m))
<1>1. Stays(S, [S EXCEPT !.del[m] = NoDelivery, !.turns = Less(@)])
  BY DEF Stays, RecordTyped, TeamFields
<1>2. Stays(S, Refused(S, m))
  BY DEF Refused, Stays, RecordTyped, TeamFields
<1> QED
  BY <1>1, <1>2, StaysItself DEF Discard

LEMMA AppendStays ==
  ASSUME NEW S, NEW e, RecordTyped(S)
  PROVE  Stays(S, Append1(S, e))
BY DEF Stays, Append1, RecordTyped, TeamFields

LEMMA ReofferStays ==
  ASSUME NEW S, NEW K, NEW from, RecordTyped(S)
  PROVE  Stays(S, Reoffer(S, K, from))
BY DEF Stays, Reoffer, RecordTyped, TeamFields

LEMMA RemoveStays ==
  ASSUME NEW S, NEW m, RecordTyped(S)
  PROVE  Stays(S, Remove(S, m))
<1> DEFINE T == [S EXCEPT !.member[m] = "removed", !.del[m] = NoDelivery,
                           !.spent = IF S.del[m].id # 0 THEN @ + 1 ELSE @]
<1>1. Stays(S, T) /\ DOMAIN T = TeamFields /\ T.events = S.events /\ T.task = S.task
  BY DEF Stays, RecordTyped, TeamFields
<1> HIDE DEF T
<1>2. Stays(T, Reoffer(T, Claims(S, m), m))
  BY <1>1 DEF Stays, Reoffer, TeamFields
<1>3. Remove(S, m) = S \/ Remove(S, m) = Reoffer(T, Claims(S, m), m)
  BY DEF Remove, T
<1> QED
  BY <1>1, <1>2, <1>3 DEF Stays

LEMMA DeleteStays ==
  ASSUME NEW S, RecordTyped(S)
  PROVE  Stays(S, Delete(S))
<1>1. Stays(S, [S EXCEPT !.status = "deleted", !.spent = @ + Cardinality(Deliveries(S)),
                         !.del = [m \in Members |-> NoDelivery]])
  BY DEF Stays, RecordTyped, TeamFields
<1> QED
  BY <1>1, StaysItself DEF Delete

LEMMA FieldsStay ==
  ASSUME NEW S, NEW m \in Members, NEW st, NEW c, NEW k, NEW row, NEW row2, RecordTyped(S)
  PROVE  /\ Stays(S, Locked(S, st, c)) /\ Stays(S, [S EXCEPT !.status = "paused", !.control = c])
         /\ Stays(S, [S EXCEPT !.control = c]) /\ Stays(S, Confirmed(S, m))
         /\ Stays(S, [S EXCEPT !.status = "paused", !.error[m] = "budget"])
         /\ Stays(S, Resume(S)) /\ Stays(S, WithDelivery(S, m, row))
         /\ Stays(S, [S EXCEPT !.task[k] = row2])
BY DEF Stays, Locked, Confirmed, Resume, WithDelivery, RecordTyped, TeamFields

LEMMA AddStays ==
  ASSUME NEW S, NEW m \in Peers, RecordTyped(S)
  PROVE  Stays(S, [S EXCEPT !.member[m] = "active"])
BY TeamConstants DEF Stays, RecordTyped, TeamFields

\* A turn that ended well for the delivery it was looked at for.
SettledNow(S, T, v) ==
    /\ v.d # 0 /\ S.del[v.m].id = v.d
    /\ T.session = S.session /\ T.member = S.member
    /\ T.cursor = [S.cursor EXCEPT ![v.m] = S.del[v.m].through]
    /\ T.del = [S.del EXCEPT ![v.m] = NoDelivery]

LEMMA RecordTurnStays ==
  ASSUME NEW S, NEW v, NEW i, NEW outcome, v.m \in Members, RecordTyped(S)
  PROVE  LET T == RecordTurn(S, v, i, outcome) IN Stays(S, T) \/ SettledNow(S, T, v)
<1> DEFINE T == RecordTurn(S, v, i, outcome)
           U == TurnSettled(S, v.m, i, v.d)
           n == Event("notice", v.m, Lead, TRUE)
<1> SUFFICES Stays(S, T) \/ SettledNow(S, T, v)
  OBVIOUS
<1>1. CASE T = S
  BY <1>1, StaysItself
<1>2. CASE T # S
  <2>1. S.del[v.m].id = v.d /\ (T = U \/ T = Append1(U, n) \/ T = TurnFailed(S, v.m, i, v.d))
    BY <1>2 DEF RecordTurn, TurnSettled, TurnFailed
  <2>2. /\ DOMAIN U = TeamFields /\ U.session = S.session /\ U.member = S.member
        /\ U.cursor = [S.cursor EXCEPT ![v.m] = IF v.d # 0 THEN S.del[v.m].through ELSE @]
        /\ U.del = [S.del EXCEPT ![v.m] = NoDelivery]
    BY DEF TurnSettled, RecordTyped, TeamFields
  <2>3. Stays(S, TurnFailed(S, v.m, i, v.d))
    BY DEF Stays, TurnFailed, RecordTyped, TeamFields
  <2> DEFINE A == Append1(U, n)
  <2> HIDE DEF U
  <2>4. /\ DOMAIN A = TeamFields /\ A.session = U.session /\ A.member = U.member
        /\ A.cursor = U.cursor /\ A.del = U.del
    BY <2>2 DEF Append1, TeamFields
  <2> HIDE DEF A
  <2>5. v.d = 0 => U.cursor = S.cursor
    <3>1. v.d = 0 => U.cursor = [S.cursor EXCEPT ![v.m] = @]
      BY <2>2
    <3> QED
      BY <3>1 DEF RecordTyped
  <2>6. ASSUME NEW W, W.session = U.session, W.member = U.member, W.cursor = U.cursor, W.del = U.del
        PROVE  Stays(S, W) \/ SettledNow(S, W, v)
    <3>1. v.d # 0 => U.cursor = [S.cursor EXCEPT ![v.m] = S.del[v.m].through]
      BY <2>2
    <3> QED
      BY <2>1, <2>2, <2>5, <2>6, <3>1 DEF Stays, SettledNow
  <2> HIDE DEF T
  <2>7. CASE T = U
    BY <2>6, <2>7
  <2>8. CASE T = A
    BY <2>4, <2>6, <2>8
  <2> QED
    BY <2>1, <2>3, <2>7, <2>8 DEF A
<1> QED
  BY <1>1, <1>2

-----------------------------------------------------------------------------
(* What a step does to the records.                                        *)

\* The turn that reconcile() took for the delivery of its view.
Delivered(v) ==
    /\ FinalTurn(v.s) # 0
    /\ \E j \in Started(v.s) : log[v.s][j].d = v.d /\ j <= FinalTurn(v.s)

\* The views that a transaction of reconcile() is about to judge.
Judged == {pump[r].v : r \in {q \in Runtimes : pump[q].pc = "judge"}}
            \cup {op[o].v : o \in {u \in Ops : op[u].pc = "judge"}}

BoundNow(t, T) == \E r \in Runtimes :
    LET m == pump[r].v.m IN
    /\ pump[r].pc = "create" /\ pump'[r].pc = "check" /\ pump[r].v.t = t /\ m \in Members
    /\ db[t].del[m].id = pump[r].d
    /\ T = [db[t] EXCEPT !.session[m] = pump[r].d]
CreatedNow(t, T) ==
    /\ db[t].status = "none"
    /\ T = [NewTeam EXCEPT !.status = "active", !.member[Lead] = "active", !.session[Lead] = UserSession]

RowStep(t, T) ==
    \/ Stays(db[t], T)
    \/ \E v \in Judged : v.t = t /\ SettledNow(db[t], T, v) /\ Delivered(v)
    \/ BoundNow(t, T)
    \/ CreatedNow(t, T)
RowsStep == \A t \in Teams : RowStep(t, db'[t])

LEMMA RowTyped ==
  ASSUME StateOK, NEW t \in Teams
  PROVE  RecordTyped(db[t])
BY DEF StateOK, RecordsOK, RecordOK

LEMMA UpdateRows ==
  ASSUME StateOK, NEW t \in Teams, NEW T, Update(t, T), RowStep(t, T)
  PROVE  RowsStep
<1>1. db'[t] = T /\ \A u \in Teams : u # t => db'[u] = db[u]
  BY DEF Update, StateOK, RecordsOK
<1>2. \A u \in Teams : u # t => RowStep(u, db'[u])
  BY <1>1, StaysItself DEF RowStep
<1> QED
  BY <1>1, <1>2 DEF RowsStep

LEMMA UpdateStays ==
  ASSUME StateOK, NEW t \in Teams, NEW T, Update(t, T), Stays(db[t], T)
  PROVE  RowsStep
BY UpdateRows DEF RowStep

LEMMA SameRows == ASSUME db' = db PROVE RowsStep
BY StaysItself DEF RowsStep, RowStep

LEMMA JudgeRow ==
  ASSUME NEW r, NEW v \in Judged, v.m \in Members, RecordTyped(db[v.t])
  PROVE  RowStep(v.t, Judge(r, v))
<1> DEFINE S == db[v.t]
           i == FinalTurn(v.s)
           delivered == v.d = 0 \/ \E j \in Started(v.s) : log[v.s][j].d = v.d /\ j <= i
           T == RecordTurn(S, v, i, log[v.s][i].st)
<1>1. CASE i # 0 /\ delivered /\ i # v.last
  <2>1. Judge(r, v) = T
    BY <1>1 DEF Judge
  <2>2. Stays(S, T) \/ SettledNow(S, T, v)
    BY RecordTurnStays
  <2>3. SettledNow(S, T, v) => Delivered(v)
    BY <1>1 DEF SettledNow, Delivered
  <2> HIDE DEF T
  <2> QED
    BY <2>1, <2>2, <2>3 DEF RowStep
<1>2. CASE ~(i # 0 /\ delivered /\ i # v.last)
  <2>1. Judge(r, v) = S \/ Judge(r, v) = FailIn(r, v.t, S, v.m, "interrupted", FALSE)
    BY <1>2 DEF Judge
  <2>2. Stays(S, FailIn(r, v.t, S, v.m, "interrupted", FALSE))
    BY FailInStays
  <2> QED
    BY <2>1, <2>2, StaysItself DEF RowStep
<1> QED
  BY <1>1, <1>2

LEMMA PumpRows ==
  ASSUME StateOK, NEW r \in Runtimes, PumpQuietly(r)
  PROVE  RowsStep
<1>0. /\ pump[r].pc # "idle" => pump[r].v.t \in Teams /\ pump[r].v.m \in Members
      /\ \A t \in Teams : RecordTyped(db[t])
  BY RowTyped DEF StateOK, PumpOK
<1>1. CASE PumpJudge(r)
  <2>1. pump[r].v \in Judged /\ pump[r].pc = "judge" /\ Update(pump[r].v.t, Judge(r, pump[r].v))
    BY <1>1 DEF PumpJudge, Judged
  <2> QED
    BY <1>0, <2>1, JudgeRow, UpdateRows
<1>2. CASE PumpThrow(r) /\ pump[r].pc # "idle"
  BY <1>0, <1>2, FailInStays, UpdateStays DEF PumpThrow
<1>3. CASE PumpCreate(r)
  <2> DEFINE t == pump[r].v.t
             m == pump[r].v.m
             T == IF db[t].del[m].id = pump[r].d THEN [db[t] EXCEPT !.session[m] = pump[r].d] ELSE db[t]
  <2>1. pump[r].pc = "create" /\ Update(t, T) /\ t \in Teams /\ m \in Members
    BY <1>0, <1>3 DEF PumpCreate
  <2>2. pump'[r].pc = "check"
    BY <1>3 DEF PumpCreate, SetPump, StateOK, PumpOK, PumpFields
  <2>3. RowStep(t, T)
    BY <2>1, <2>2, StaysItself DEF RowStep, BoundNow
  <2> HIDE DEF T
  <2> QED
    BY <2>1, <2>3, UpdateRows
<1>4. CASE PumpAcquire(r)
  <2> DEFINE t == pump[r].v.t
             m == pump[r].v.m
  <2>1. t \in Teams /\ (db' = db \/ Update(t, Refused(db[t], m)) \/ Update(t, db[t]))
    BY <1>0, <1>4 DEF PumpAcquire, Refused
  <2> QED
    BY <1>0, <2>1, DiscardStays, StaysItself, UpdateStays, SameRows
<1>5. ASSUME NEW t \in Teams, NEW m \in Members, PumpVisit(r, t, m)
      PROVE  RowsStep
  <2>1. db' = db \/ Update(t, Fail(db[t], m, "binding", TRUE))
    BY <1>5 DEF PumpVisit, PumpObserve, PumpUnbindable, PumpLook
  <2> QED
    BY <1>0, <2>1, FailStays, UpdateStays, SameRows
<1>6. ASSUME NEW t \in Teams, PumpExpire(r, t)
      PROVE  RowsStep
  BY <1>0, <1>6, ReofferStays, UpdateStays DEF PumpExpire
<1>7. CASE db' = db
  BY <1>7, SameRows
<1>8. PumpFault(r) => PumpThrow(r) /\ pump[r].pc # "idle"
  BY DEF PumpFault, PumpCreateFails, PumpReplyLost, PumpPromptFails
<1>9. PumpRelease(r) \/ PumpCheck(r) \/ PumpPrompt(r) \/ PumpAfter(r)
        \/ (\E t \in Teams : PumpForget(r, t)) => db' = db
  BY DEF PumpRelease, PumpCheck, PumpPrompt, PumpAfter, PumpForget
<1> QED
  BY <1>1, <1>2, <1>3, <1>4, <1>5, <1>6, <1>7, <1>8, <1>9 DEF PumpQuietly

LEMMA ReserveRows ==
  ASSUME StateOK, NEW r \in Runtimes, PumpReserve(r) \/ PumpReply(r)
  PROVE  RowsStep
<1> DEFINE t == pump[r].v.t
           m == pump[r].v.m
           row == [id |-> nextD, through |-> pump[r].through, since |-> Len(db[t].events),
                   owner |-> r, prompted |-> FALSE]
<1>0. /\ pump[r].pc # "idle" => t \in Teams /\ m \in Members
      /\ \A u \in Teams : RecordTyped(db[u])
  BY RowTyped DEF StateOK, PumpOK
<1>1. CASE PumpReserve(r)
  <2>1. /\ t \in Teams /\ m \in Members
        /\ \/ db' = db \/ Update(t, db[t])
           \/ Update(t, [db[t] EXCEPT !.status = "paused", !.error[m] = "budget"])
           \/ Update(t, WithDelivery(db[t], m, row))
    BY <1>0, <1>1 DEF PumpReserve, WithDelivery
  <2>2. /\ Stays(db[t], [db[t] EXCEPT !.status = "paused", !.error[m] = "budget"])
        /\ Stays(db[t], WithDelivery(db[t], m, row))
    BY <1>0, <2>1, FieldsStay
  <2> QED
    BY <2>1, <2>2, StaysItself, UpdateStays, SameRows
<1>2. CASE PumpReply(r)
  <2>1. t \in Teams /\ m \in Members /\ (Update(t, Confirmed(db[t], m)) \/ Update(t, db[t]))
    BY <1>0, <1>2 DEF PumpReply, Confirmed
  <2>2. Stays(db[t], Confirmed(db[t], m))
    BY <1>0, <2>1, FieldsStay
  <2> QED
    BY <2>1, <2>2, StaysItself, UpdateStays
<1> QED
  BY <1>1, <1>2

LEMMA HostRows ==
  ASSUME StateOK, HostQuietly
  PROVE  RowsStep
<1>1. ASSUME NEW r \in Runtimes, NEW s \in Sessions, SessionError(r, s)
      PROVE  RowsStep
  <2>1. ASSUME NEW t \in Teams
        PROVE  Stays(db[t], db'[t])
    <3>1. \/ db'[t] = db[t]
          \/ \E m : db'[t] = Fail(db[t], m, "event", TRUE)
      BY <1>1 DEF SessionError
    <3> QED
      BY <3>1, RowTyped, FailStays, StaysItself
  <2> QED
    BY <2>1 DEF RowsStep, RowStep
<1>2. CASE db' = db
  BY <1>2, SameRows
<1> QED
  BY <1>1, <1>2 DEF HostQuietly, Start, Restore, Crash, Stop, Disposed, Leave, LatePrompt, UserTurn,
                    TurnStarts, TurnEnds

LEMMA MemberRows ==
  ASSUME StateOK, NEW t \in Teams, MemberQuietly(t) \/ Create(t) \/ Settles(t)
  PROVE  RowsStep
<1>0. RecordTyped(db[t])
  BY RowTyped
<1>1. ASSUME NEW m \in Peers, Add(t, m)
      PROVE  RowsStep
  BY <1>0, <1>1, AddStays, UpdateStays DEF Add
<1>2. ASSUME NEW e, Update(t, Append1(db[t], e))
      PROVE  RowsStep
  BY <1>0, <1>2, AppendStays, UpdateStays
<1>3. ASSUME NEW k, NEW row, Update(t, [db[t] EXCEPT !.task[k] = row])
      PROVE  RowsStep
  <2>1. Stays(db[t], [db[t] EXCEPT !.task[k] = row])
    BY <1>0 DEF Stays, RecordTyped, TeamFields
  <2> QED
    BY <1>3, <2>1, UpdateStays
<1>4. ASSUME NEW k, NEW row, NEW e, Update(t, Append1([db[t] EXCEPT !.task[k] = row], e))
      PROVE  RowsStep
  <2>1. Stays(db[t], Append1([db[t] EXCEPT !.task[k] = row], e))
    BY <1>0 DEF Stays, Append1, RecordTyped, TeamFields
  <2> QED
    BY <1>4, <2>1, UpdateStays
<1>5. CASE Create(t)
  <2> DEFINE T == [NewTeam EXCEPT !.status = "active", !.member[Lead] = "active", !.session[Lead] = UserSession]
  <2>1. Update(t, T) /\ RowStep(t, T)
    BY <1>5 DEF Create, RowStep, CreatedNow
  <2> HIDE DEF T
  <2> QED
    BY <2>1, UpdateRows
<1>6. ASSUME NEW m \in Members, NEW k \in Tasks, NEW done \in BOOLEAN, SettleTask(t, m, k, done)
      PROVE  RowsStep
  <2>1. db[t].task \in [Tasks -> TaskRows]
    BY <1>0 DEF RecordTyped
  <2>2. \E row, e : Update(t, Append1([db[t] EXCEPT !.task[k] = row], e))
    <3>1. CASE done
      <4>1. Update(t, Append1([db[t] EXCEPT !.task[k] = [@ EXCEPT !.st = "completed", !.fresh = FALSE]],
                              Event("settle", m, Everyone, TRUE)))
        BY <1>6, <3>1 DEF SettleTask
      <4> QED
        BY <4>1
    <3>2. CASE ~done
      BY <1>6, <3>2 DEF SettleTask
    <3> QED
      BY <3>1, <3>2
  <2> QED
    BY <1>4, <2>2
<1>7. ASSUME NEW k \in Tasks, ClaimLapses(t, k)
      PROVE  RowsStep
  <2>1. Stays(db[t], [db[t] EXCEPT !.task[k].fresh = FALSE])
    BY <1>0 DEF Stays, RecordTyped, TeamFields
  <2> QED
    BY <1>7, <2>1, UpdateStays DEF ClaimLapses
<1>8. ASSUME NEW m \in Members, NEW k \in Tasks, OfferTask(t, m, k) \/ ClaimTask(t, m, k)
      PROVE  RowsStep
  BY <1>3, <1>4, <1>8 DEF OfferTask, ClaimTask
<1>9. ASSUME NEW m \in Members, NEW to, NEW wake, SendMessage(t, m, to, wake)
      PROVE  RowsStep
  BY <1>2, <1>9 DEF SendMessage
<1> QED
  BY <1>1, <1>5, <1>6, <1>7, <1>8, <1>9 DEF MemberQuietly, Settles

LEMMA OpRows ==
  ASSUME StateOK, NEW o \in Ops, OpQuietly(o) \/ OpEnd(o) \/ OpResume(o)
  PROVE  RowsStep
<1> DEFINE t == op[o].t
<1>0. /\ Working(o) => t \in Teams /\ op[o].by \in Members
      /\ \A u \in Teams : RecordTyped(db[u])
      /\ op[o].pc \in {"judge", "release"} => op[o].v.t = t /\ op[o].v.m \in Members
  BY RowTyped DEF StateOK, OpOK
<1>1. CASE OpJudge(o)
  <2>1. op[o].v \in Judged /\ op[o].pc = "judge" /\ Update(t, Judge(op[o].r, op[o].v))
    BY <1>0, <1>1 DEF OpJudge, Judged, At
  <2>2. t \in Teams /\ op[o].v.t = t /\ op[o].v.m \in Members
    BY <1>0, <2>1 DEF Working
  <2> QED
    BY <1>0, <2>1, <2>2, JudgeRow, UpdateRows
<1>2. CASE OpCommit(o)
  <2>1. t \in Teams /\ (Update(t, Remove(db[t], op[o].m)) \/ Update(t, Delete(db[t])))
    BY <1>0, <1>2 DEF OpCommit, At, Working
  <2> QED
    BY <1>0, <2>1, RemoveStays, DeleteStays, UpdateStays
<1>3. ASSUME NEW m \in Members, OpReconcile(o, m)
      PROVE  RowsStep
  <2>1. t \in Teams /\ (db' = db \/ Update(t, Fail(db[t], m, "binding", TRUE)))
    BY <1>0, <1>3 DEF OpReconcile, At, Working
  <2> QED
    BY <1>0, <2>1, FailStays, UpdateStays, SameRows
<1>4. ASSUME NEW m \in Members, OpSort(o, m)
      PROVE  RowsStep
  <2>1. t \in Teams /\ (db' = db \/ \E d : Update(t, Discard(db[t], m, d)))
    BY <1>0, <1>4 DEF OpSort, At, Working
  <2> QED
    BY <1>0, <2>1, DiscardStays, UpdateStays, SameRows
<1>5. CASE OpEnd(o)
  <2>1. t \in Teams /\ (Update(t, [db[t] EXCEPT !.control = NoOne]) \/ Update(t, db[t]))
    BY <1>0, <1>5 DEF OpEnd, At, Working
  <2>2. Stays(db[t], [db[t] EXCEPT !.control = NoOne])
    BY <1>0, <2>1 DEF Stays, RecordTyped, TeamFields
  <2> QED
    BY <2>1, <2>2, StaysItself, UpdateStays
<1>6. CASE OpResume(o)
  <2>1. t \in Teams /\ (Update(t, Resume(db[t])) \/ Update(t, db[t]))
    BY <1>0, <1>6 DEF OpResume, At, Working
  <2>2. Stays(db[t], Resume(db[t]))
    BY <1>0, <2>1 DEF Stays, Resume, RecordTyped, TeamFields
  <2> QED
    BY <2>1, <2>2, StaysItself, UpdateStays
<1>7. CASE db' = db
  BY <1>7, SameRows
<1>8. OpRead(o) \/ OpForget(o) \/ OpPrepared(o) \/ OpRelease(o) \/ OpReconciled(o) \/ OpFree(o)
        \/ (\E m \in Members : OpAbort(o, m) \/ OpPrepare(o, m)) => db' = db
  BY DEF OpRead, OpForget, OpPrepared, OpRelease, OpReconciled, OpFree, OpAbort, OpPrepare
<1> QED
  BY <1>1, <1>2, <1>3, <1>4, <1>5, <1>6, <1>7, <1>8 DEF OpQuietly

LEMMA BeginRows ==
  ASSUME StateOK, NEW t \in Teams, Begins(t)
  PROVE  RowsStep
<1>1. PICK o \in Ops : Update(t, [db[t] EXCEPT !.status = "paused", !.control = o])
  BY BeginsAre DEF Begin
<1>2. Stays(db[t], [db[t] EXCEPT !.status = "paused", !.control = o])
  BY RowTyped DEF Stays, RecordTyped, TeamFields
<1> QED
  BY <1>1, <1>2, UpdateStays

\* Every step.
LEMMA RowsMove ==
  ASSUME StateOK, Next
  PROVE  RowsStep
BY StepKinds, PumpRows, ReserveRows, HostRows, MemberRows, BeginRows, OpRows

-----------------------------------------------------------------------------
(* What a step does to the deliveries.                                     *)

DelsKept == \A t \in Teams, m \in Members :
    \/ db'[t].del[m].id = 0
    \/ /\ db'[t].del[m].id = db[t].del[m].id
       /\ db'[t].del[m].through = db[t].del[m].through

\* A reservation finds the member's cursor where the visit saw it.
ReservedRightly(r) ==
    /\ pump[r].pc = "reserve" /\ ReservedNow(r)
    /\ db[pump[r].v.t].cursor[pump[r].v.m] = pump[r].cursor
    /\ UNCHANGED <<lease, host, up, op, late>>

LEMMA QuietDels ==
  ASSUME QuietDb
  PROVE  DelsKept
BY DEF QuietDb, Keeps, DelsKept, NoDelivery

LEMMA ReserveDels ==
  ASSUME StateOK, NEW r \in Runtimes, PumpReserve(r)
  PROVE  (DelsKept /\ nextD' = nextD) \/ ReservedRightly(r)
<1>1. \/ QuietDb /\ nextD' = nextD /\ pump' = [pump EXCEPT ![r] = IdlePump]
      \/ ReservedNow(r)
  BY ReserveStep DEF StateOK
<1>2. pump[r].pc = "reserve" /\ UNCHANGED <<lease, host, up, op, late>>
  BY DEF PumpReserve
<1>3. CASE ReservedNow(r)
  <2>1. nextD' = nextD + 1 /\ nextD \in Nat
    BY <1>3 DEF ReservedNow, StateOK, HostOK
  <2>0. nextD' # nextD
    BY <2>1
  <2>2. db[pump[r].v.t].cursor[pump[r].v.m] = pump[r].cursor
    BY <2>0, Zenon DEF PumpReserve
  <2> QED
    BY <1>2, <1>3, <2>2 DEF ReservedRightly
<1> QED
  BY <1>1, <1>3, QuietDels

LEMMA ReplyDels ==
  ASSUME StateOK, NEW r \in Runtimes, PumpReply(r)
  PROVE  DelsKept /\ nextD' = nextD
<1>1. ConfirmedNow(r) /\ nextD' = nextD
  BY ReplyStep DEF StateOK, PumpReply
<1>2. \A t \in Teams, m \in Members : db[t].del \in [Members -> DeliveryRows] /\ db[t].del[m] \in DeliveryRows
  BY RowTyped DEF RecordTyped
<1>3. ASSUME NEW t \in Teams, NEW m \in Members
      PROVE  db'[t].del[m].id = db[t].del[m].id /\ db'[t].del[m].through = db[t].del[m].through
  <2>1. \/ db'[t].del = db[t].del
        \/ db'[t].del = [db[t].del EXCEPT ![pump[r].v.m].prompted = TRUE]
    BY <1>1 DEF ConfirmedNow
  <2> QED
    BY <1>2, <2>1 DEF DeliveryRows
<1> QED
  BY <1>1, <1>3 DEF DelsKept

LEMMA SameDels ==
  ASSUME NEW t \in Teams, \A m \in Members : db'[t].del = db[t].del \/ db'[t].del[m] = NoDelivery,
         \A u \in Teams : u # t => db'[u] = db[u]
  PROVE  DelsKept
BY DEF DelsKept, NoDelivery

LEMMA DelsMove ==
  ASSUME StateOK, Next
  PROVE  \/ DelsKept /\ nextD' = nextD
         \/ \E r \in Runtimes : ReservedRightly(r)
<1>1. ASSUME NEW r \in Runtimes, PumpQuietly(r)
      PROVE  DelsKept /\ nextD' = nextD
  BY <1>1, PumpIsQuiet, PumpHost, QuietDels DEF StateOK
<1>2. CASE HostQuietly
  <2>1. nextD' = nextD
    BY <1>2 DEF HostQuietly, Start, Restore, Crash, Stop, Disposed, Leave, LatePrompt, UserTurn,
                    TurnStarts, TurnEnds, SessionError
  <2> QED
    BY <1>2, <2>1, HostIsQuiet, QuietDels DEF StateOK
<1>3. ASSUME NEW t \in Teams, MemberQuietly(t) \/ Create(t) \/ Settles(t)
      PROVE  DelsKept /\ nextD' = nextD
  <2>1. nextD' = nextD
    BY <1>3 DEF MemberQuietly, Create, Settles, SettleTask, Add, SendMessage, OfferTask, ClaimTask, ClaimLapses
  <2>2. CASE MemberQuietly(t) \/ Settles(t)
    BY <2>1, <2>2, MemberIsQuiet, SettleIsQuiet, QuietDels DEF StateOK, Settles
  <2>3. CASE Create(t)
    BY <2>1, <2>3, CreateStep, SameDels DEF StateOK
  <2> QED
    BY <1>3, <2>2, <2>3
<1>4. ASSUME NEW t \in Teams, Begins(t)
      PROVE  DelsKept /\ nextD' = nextD
  <2>1. PICK o \in Ops, kind \in {"remove", "delete", "resume"}, by \in Members, m \in Members \cup {NoOne} :
          Begin(o, kind, t, by, m, "read")
    BY <1>4, BeginsAre
  <2>2. db'[t].del = db[t].del /\ \A u \in Teams : u # t => db'[u] = db[u]
    BY <2>1, BeginStep DEF StateOK
  <2>3. nextD' = nextD
    BY <2>1 DEF Begin
  <2> QED
    BY <2>2, <2>3, SameDels
<1>5. ASSUME NEW o \in Ops, OpQuietly(o)
      PROVE  DelsKept /\ nextD' = nextD
  BY <1>5, OpIsQuiet, OpHost, QuietDels DEF StateOK
<1>6. ASSUME NEW o \in Ops, OpEnd(o) \/ OpResume(o)
      PROVE  DelsKept /\ nextD' = nextD
  <2>1. op[o].t \in Teams /\ db'[op[o].t].del = db[op[o].t].del /\ \A u \in Teams : u # op[o].t => db'[u] = db[u]
    BY <1>6, EndStep, ResumeStep DEF StateOK
  <2>2. nextD' = nextD
    BY <1>6 DEF OpEnd, OpResume
  <2> QED
    BY <2>1, <2>2, SameDels
<1> QED
  BY <1>1, <1>2, <1>3, <1>4, <1>5, <1>6, StepKinds, ReserveDels, ReplyDels

-----------------------------------------------------------------------------
(* What a step does to the transcripts.                                    *)

LogsOK == DOMAIN log = Sessions /\ \A s \in Sessions : Transcript(log[s])

\* What a visit carries, and a call that was given up on, can be made a prompt of.
VisitsTyped == \A r \in Runtimes :
    /\ pump[r].pc \in Carrying \cup {"reserve"} =>
         pump[r].cursor \in Nat /\ pump[r].through \in Nat /\ pump[r].s \in Sessions \cup {NoSession}
    /\ pump[r].pc \in Carrying \ {"create"} => pump[r].s \in Sessions
LatesTyped == \A l \in late :
    /\ l.p.v.t \in Teams /\ l.p.v.m \in Members /\ l.p.d \in Nat /\ l.p.d # 0
    /\ l.p.cursor \in Nat /\ l.p.through \in Nat /\ l.p.s \in Sessions

\* The prompts that may reach a transcript now.
Prompting == {pump[r] : r \in {q \in Runtimes : pump[q].pc = "prompt"}} \cup {l.p : l \in late}
Prompt(p) == Turn(NoOne, p.v.t, p.v.m, p.d, p.cursor, p.through)

LogStep(s) == \E E :
    /\ FollowsWith(log[s], log'[s], E)
    /\ \A e \in E : e.d = 0 \/ \E p \in Prompting : p.s = s /\ SamePrompt(e, Prompt(p))
LogsStep == DOMAIN log' = Sessions /\ \A s \in Sessions : LogStep(s)
LogsQuiet == DOMAIN log' = Sessions /\ \A s \in Sessions : Follows(log[s], log'[s])

LEMMA QuietLogs ==
  ASSUME LogsQuiet
  PROVE  LogsStep
BY DEF LogsQuiet, LogsStep, LogStep, Follows

LEMMA SameLogs ==
  ASSUME LogsOK, log' = log
  PROVE  LogsStep
BY FollowsItself, QuietLogs DEF LogsOK, LogsQuiet

LEMMA OneLog ==
  ASSUME LogsOK, NEW s, NEW T, log' = [log EXCEPT ![s] = T], s \in Sessions => Follows(log[s], T)
  PROVE  LogsStep
<1>1. LogsQuiet
  BY FollowsItself DEF LogsOK, LogsQuiet
<1> QED
  BY <1>1, QuietLogs

LEMMA LoadedFollows ==
  ASSUME LogsOK, NEW r, NEW s \in Sessions
  PROVE  Follows(log[s], Loaded(r, s))
BY FollowsItself, DropFollows DEF LogsOK, Loaded

LEMMA AbortLogs ==
  ASSUME LogsOK, NEW r, NEW s, NEW confirmed, Abort(r, s, confirmed)
  PROVE  LogsStep
<1>1. \/ log' = log
      \/ log' = [log EXCEPT ![s] = Cancelled(DropQueued(log[s]))]
      \/ log' = [log EXCEPT ![s] = DropQueued(log[s])]
  BY DEF Abort
<1>2. s \in Sessions => /\ Follows(log[s], DropQueued(log[s]))
                        /\ Follows(log[s], Cancelled(DropQueued(log[s])))
  BY DropFollows, CancelFollows DEF LogsOK
<1> QED
  BY <1>1, <1>2, SameLogs, OneLog

LEMMA ForgetLogs ==
  ASSUME LogsOK, NEW r, NEW S, Forget(r, S)
  PROVE  LogsStep
<1>1. /\ DOMAIN log' = Sessions
      /\ \A s \in Sessions : log'[s] = log[s] \/ log'[s] = Cancelled(DropQueued(log[s]))
  BY DEF Forget
<1>2. LogsQuiet
  BY <1>1, FollowsItself, CancelFollows DEF LogsOK, LogsQuiet
<1> QED
  BY <1>2, QuietLogs

LEMMA LeaveLogs ==
  ASSUME LogsOK, NEW r, NEW st \in Over, Leave(r, st)
  PROVE  LogsStep
<1>1. /\ DOMAIN log' = Sessions
      /\ \A s \in Sessions : log'[s] = log[s] \/ log'[s] = Cut(log[s], st)
  BY DEF Leave, Cut
<1>2. LogsQuiet
  BY <1>1, FollowsItself, CutFollows DEF LogsOK, LogsQuiet
<1> QED
  BY <1>2, QuietLogs

\* A prompt reaches the inbox of its session.
LEMMA PromptLogs ==
  ASSUME LogsOK, NEW r, NEW q, NEW p \in Prompting, p.s \in Sessions,
         p.v.t \in Teams, p.v.m \in Members, p.d \in Nat, p.cursor \in Nat, p.through \in Nat,
         log' = [log EXCEPT ![p.s] = Append(Loaded(r, p.s), Turn(q, p.v.t, p.v.m, p.d, p.cursor, p.through))]
  PROVE  LogsStep
<1> DEFINE e == Turn(q, p.v.t, p.v.m, p.d, p.cursor, p.through)
<1>1. e \in TurnRows /\ e.st = "queued" /\ SamePrompt(e, Prompt(p))
  BY DEF Turn, TurnRows, SamePrompt, Prompt
<1> HIDE DEF e
<1>2. FollowsWith(log[p.s], Append(Loaded(r, p.s), e), {e})
  BY <1>1, LoadedFollows, QueueFollows
<1>3. log'[p.s] = Append(Loaded(r, p.s), e) /\ DOMAIN log' = Sessions
      /\ \A s \in Sessions : s # p.s => log'[s] = log[s]
  BY DEF LogsOK, e
<1>4. LogStep(p.s)
  BY <1>1, <1>2, <1>3 DEF LogStep
<1>5. ASSUME NEW s \in Sessions, s # p.s
      PROVE  LogStep(s)
  <2>1. FollowsWith(log[s], log'[s], {})
    BY <1>3, <1>5, FollowsItself DEF LogsOK, Follows
  <2> QED
    BY <2>1 DEF LogStep
<1> QED
  BY <1>3, <1>4, <1>5 DEF LogsStep

LEMMA UserLogs ==
  ASSUME LogsOK, NEW s \in Sessions, UserTurn(s)
  PROVE  LogsStep
<1> DEFINE e == [d |-> 0, t |-> NoOne, m |-> NoOne, from |-> 0, through |-> 0, st |-> "queued"]
<1>1. e \in TurnRows /\ e.st = "queued" /\ e.d = 0
  BY DEF TurnRows
<1>2. log' = [log EXCEPT ![s] = Append(log[s], e)]
  BY DEF UserTurn
<1> HIDE DEF e
<1>3. FollowsWith(log[s], Append(log[s], e), {e})
  BY <1>1, FollowsItself, QueueFollows DEF LogsOK
<1>4. LogStep(s)
  <2>1. log'[s] = Append(log[s], e)
    BY <1>2 DEF LogsOK
  <2> QED
    BY <1>1, <1>3, <2>1 DEF LogStep
<1>5. ASSUME NEW q \in Sessions, q # s
      PROVE  LogStep(q)
  <2>1. FollowsWith(log[q], log'[q], {})
    BY <1>2, <1>5, FollowsItself DEF LogsOK, Follows
  <2> QED
    BY <2>1 DEF LogStep
<1> QED
  BY <1>2, <1>4, <1>5 DEF LogsStep, LogsOK

\* The first turn in the queue starts when none is running; the one running ends.
LEMMA TurnLogs ==
  ASSUME LogsOK, NEW s \in Sessions, TurnStarts(s) \/ \E out \in {"ok", "failed"} : TurnEnds(s, out)
  PROVE  LogsStep
<1> DEFINE a == log[s]
<1>1. Transcript(a) /\ Len(a) \in Nat /\ a \in [1 .. Len(a) -> TurnRows]
      /\ \A i \in 1 .. Len(a) : a[i] \in TurnRows
  BY TranscriptTyped DEF LogsOK
<1>2. PICK i \in 1 .. Len(a), st \in {"running", "ok", "failed"} :
        /\ log' = [log EXCEPT ![s][i].st = st]
        /\ \/ st \in Over /\ a[i].st = "running"
           \/ /\ st = "running" /\ a[i].st = "queued"
              /\ \A j \in 1 .. i - 1 : a[j].st # "queued" /\ a[j].st # "running"
  <2>1. CASE TurnStarts(s)
    <3>1. PICK i \in 1 .. Len(a) : /\ a[i].st = "queued" /\ \A j \in 1 .. i - 1 : a[j].st # "queued"
                                   /\ log' = [log EXCEPT ![s][i].st = "running"]
      BY <2>1 DEF TurnStarts, SetTurn
    <3>2. \A j \in 1 .. i - 1 : j \in 1 .. Len(a)
      BY <1>1
    <3>3. \A j \in 1 .. Len(a) : a[j].st # "running"
      BY <2>1 DEF TurnStarts, RunningIn
    <3> QED
      BY <3>1, <3>2, <3>3
  <2>2. ASSUME NEW out \in {"ok", "failed"}, TurnEnds(s, out)
        PROVE  \E i \in 1 .. Len(a) : a[i].st = "running" /\ log' = [log EXCEPT ![s][i].st = out]
    BY <2>2 DEF TurnEnds, SetTurn
  <2> QED
    BY <2>1, <2>2 DEF Over
<1> DEFINE I == {i}
           T == [k \in 1 .. Len(a) |-> IF k \in I THEN [a[k] EXCEPT !.st = st] ELSE a[k]]
<1>3. log' = [log EXCEPT ![s] = [a EXCEPT ![i].st = st]]
  BY <1>2
<1>4. [a EXCEPT ![i].st = st] = T
  BY <1>1
<1>5. \A j \in 1 .. i - 1 : j \in 1 .. Len(a) /\ a[j].st \in {"queued", "running"} \cup Over
  <2>1. \A j \in 1 .. i - 1 : j \in 1 .. Len(a)
    BY <1>1
  <2> QED
    BY <1>1, <2>1 DEF TurnRows
<1>6. Follows(a, T)
  <2>1. I \in SUBSET (1 .. Len(a)) /\ i \in I /\ st \in {"running"} \cup Over
    BY DEF Over
  <2>2. \A k \in I : a[k].st \notin Over
    BY <1>2 DEF Over
  <2>3. \/ st \in Over /\ \A k \in I : a[k].st = "running"
        \/ \E k \in I : I = {k} /\ \A j \in 1 .. k - 1 : a[j].st \in Over
    BY <1>2, <1>5
  <2> HIDE DEF I, a
  <2> QED
    BY <1>1, <2>1, <2>2, <2>3, StatusFollows
<1> HIDE DEF T
<1>7. log' = [log EXCEPT ![s] = T]
  BY <1>3, <1>4
<1> QED
  BY <1>6, <1>7, OneLog

LEMMA PumpLogs ==
  ASSUME StateOK, LogsOK, VisitsTyped, NEW r \in Runtimes, PumpQuietly(r) \/ PumpReserve(r) \/ PumpReply(r)
  PROVE  LogsStep
<1>1. CASE PumpPrompt(r)
  <2> DEFINE p == pump[r]
  <2>1. /\ p \in Prompting /\ p.pc = "prompt"
        /\ log' = [log EXCEPT ![p.s] = Append(Loaded(r, p.s), Turn(r, p.v.t, p.v.m, p.d, p.cursor, p.through))]
    BY <1>1 DEF PumpPrompt, Prompting
  <2>2. /\ p.s \in Sessions /\ p.v.t \in Teams /\ p.v.m \in Members
        /\ p.d \in Nat /\ p.cursor \in Nat /\ p.through \in Nat
    BY <2>1 DEF VisitsTyped, Carrying, StateOK, PumpOK
  <2> HIDE DEF p
  <2> QED
    BY <2>1, <2>2, PromptLogs
<1>2. CASE PumpAfter(r)
  BY <1>2, AbortLogs, SameLogs DEF PumpAfter, host
<1>3. ASSUME NEW t \in Teams, PumpForget(r, t)
      PROVE  LogsStep
  BY <1>3, ForgetLogs DEF PumpForget
<1>4. CASE log' = log
  BY <1>4, SameLogs
<1>5. \/ PumpJudge(r) \/ PumpRelease(r) \/ PumpCreate(r) \/ PumpCheck(r) \/ PumpAcquire(r)
      \/ PumpFault(r) \/ PumpReserve(r) \/ PumpReply(r)
      \/ \E t \in Teams : PumpExpire(r, t) \/ \E m \in Members : PumpVisit(r, t, m)
      => log' = log
  BY DEF PumpJudge, PumpRelease, PumpCreate, PumpCheck, PumpAcquire, PumpFault, PumpCreateFails,
         PumpReplyLost, PumpPromptFails, PumpReserve, PumpReply, PumpExpire, PumpVisit, PumpObserve,
         PumpUnbindable, PumpLook, host
<1> QED
  BY <1>1, <1>2, <1>3, <1>4, <1>5 DEF PumpQuietly

LEMMA HostLogs ==
  ASSUME StateOK, LogsOK, LatesTyped, HostQuietly
  PROVE  LogsStep
<1>1. ASSUME NEW r \in Runtimes, Crash(r) \/ Disposed(r)
      PROVE  LogsStep
  BY <1>1, LeaveLogs DEF Crash, Disposed, Over
<1>2. ASSUME NEW l \in late, LatePrompt(l)
      PROVE  LogsStep
  <2> DEFINE p == l.p
  <2>1. p \in Prompting
    BY DEF Prompting
  <2>2. /\ p.s \in Sessions /\ p.v.t \in Teams /\ p.v.m \in Members
        /\ p.d \in Nat /\ p.cursor \in Nat /\ p.through \in Nat
    BY DEF LatesTyped
  <2>3. \/ log' = log
        \/ log' = [log EXCEPT ![p.s] = Append(Loaded(l.r, p.s), Turn(l.r, p.v.t, p.v.m, p.d, p.cursor, p.through))]
    BY <1>2 DEF LatePrompt, host
  <2> HIDE DEF p
  <2> QED
    BY <2>1, <2>2, <2>3, PromptLogs, SameLogs
<1>3. CASE log' = log
  BY <1>3, SameLogs
<1>4. \A r \in Runtimes : \/ Start(r) \/ Restore(r) \/ Stop(r) \/ \E s \in Sessions : SessionError(r, s)
                          => log' = log
  BY DEF Start, Restore, Stop, SessionError, host
<1> QED
  BY <1>1, <1>2, <1>3, <1>4, UserLogs, TurnLogs DEF HostQuietly

LEMMA OpLogs ==
  ASSUME StateOK, LogsOK, NEW o \in Ops, OpQuietly(o) \/ OpEnd(o) \/ OpResume(o)
  PROVE  LogsStep
<1>1. ASSUME NEW m \in Members, OpAbort(o, m) \/ OpSort(o, m)
      PROVE  LogsStep
  BY <1>1, AbortLogs, SameLogs DEF OpAbort, OpSort, host
<1>2. CASE OpForget(o)
  BY <1>2, ForgetLogs DEF OpForget
<1>3. ASSUME NEW m \in Members, OpPrepare(o, m)
      PROVE  LogsStep
  <2>1. log' = log \/ \E s : log' = [log EXCEPT ![s] = Loaded(op[o].r, s)]
    BY <1>3 DEF OpPrepare, host
  <2> QED
    BY <2>1, LoadedFollows, OneLog, SameLogs
<1>4. CASE log' = log
  BY <1>4, SameLogs
<1>5. \/ OpRead(o) \/ OpCommit(o) \/ OpPrepared(o) \/ OpJudge(o) \/ OpRelease(o) \/ OpReconciled(o)
      \/ OpFree(o) \/ OpEnd(o) \/ OpResume(o) \/ \E m \in Members : OpReconcile(o, m)
      => log' = log
  BY DEF OpRead, OpCommit, OpPrepared, OpJudge, OpRelease, OpReconciled, OpFree, OpEnd, OpResume,
         OpReconcile, host
<1> QED
  BY <1>1, <1>2, <1>3, <1>4, <1>5 DEF OpQuietly

LEMMA LogsMove ==
  ASSUME StateOK, LogsOK, VisitsTyped, LatesTyped, Next
  PROVE  LogsStep
<1>1. ASSUME NEW t \in Teams, MemberQuietly(t) \/ Create(t) \/ Settles(t) \/ Begins(t)
      PROVE  LogsStep
  <2>1. log' = log
    BY <1>1, BeginsAre DEF MemberQuietly, Create, Settles, SettleTask, Add, SendMessage, OfferTask,
                           ClaimTask, ClaimLapses, Begin, host
  <2> QED
    BY <2>1, SameLogs
<1> QED
  BY <1>1, StepKinds, PumpLogs, HostLogs, OpLogs

-----------------------------------------------------------------------------
(* What a step does to the visits, the late calls and the operations.      *)

LooksNow(q) == \E t \in Teams, m \in Members :
    /\ q.pc = "reserve" /\ q.d = 0 /\ q.v.t = t /\ q.v.m = m /\ db[t].member[m] = "active"
    /\ q.s = db[t].session[m] /\ q.cursor = db[t].cursor[m] /\ q.through = Len(db[t].events)
ViewsNow(q, r) == \E t \in Teams, m \in Members :
    q.pc = "judge" /\ q.v = View(r, t, m) /\ CanObserve(r, t, m)
\* The visit carries on with its delivery.
CarriesOn(p, q) ==
    /\ p.pc \in Carrying /\ q.pc \in Carrying \ {"create"}
    /\ q.d = p.d /\ q.v = p.v /\ q.cursor = p.cursor /\ q.through = p.through
    /\ q.s = IF p.pc = "create" THEN p.d ELSE p.s
    /\ q.pc \in {"prompt", "reply", "after"} => p.pc \in {"acquire", "prompt", "reply"}
    /\ p.pc = "acquire" => lease' = [lease EXCEPT ![p.s] = p.d]
    /\ p.pc = "create" /\ db[p.v.t].del[p.v.m].id = p.d => db'[p.v.t].session[p.v.m] = p.d
VisitStep(r) ==
    \/ pump'[r] = pump[r]
    \/ pump'[r].d = 0 /\ pump'[r].pc = "idle"
    \/ pump'[r].d = 0 /\ ViewsNow(pump'[r], r)
    \/ pump'[r].d = 0 /\ pump[r].pc = "judge" /\ pump'[r].pc = "release" /\ pump'[r].v = pump[r].v
    \/ LooksNow(pump'[r])
    \/ CarriesOn(pump[r], pump'[r])
    \/ ReservedRightly(r)
VisitSteps == DOMAIN pump' = Runtimes /\ \A r \in Runtimes : VisitStep(r)

LEMMA SameVisits ==
  ASSUME StateOK, pump' = pump
  PROVE  VisitSteps
BY DEF StateOK, VisitSteps, VisitStep

LEMMA OneVisit ==
  ASSUME StateOK, NEW r \in Runtimes, NEW q, pump' = [pump EXCEPT ![r] = q],
         \/ q.d = 0 /\ q.pc = "idle"
         \/ q.d = 0 /\ ViewsNow(q, r)
         \/ q.d = 0 /\ pump[r].pc = "judge" /\ q.pc = "release" /\ q.v = pump[r].v
         \/ LooksNow(q)
         \/ CarriesOn(pump[r], q)
         \/ ReservedRightly(r)
  PROVE  VisitSteps
<1>1. pump'[r] = q /\ DOMAIN pump' = Runtimes /\ \A u \in Runtimes : u # r => pump'[u] = pump[u]
  BY DEF StateOK
<1> QED
  BY <1>1 DEF VisitSteps, VisitStep

Binds(r) == LET p == pump[r] IN
    db[p.v.t].del[p.v.m].id = p.d => db'[p.v.t].session[p.v.m] = p.d

LEMMA CreateBinds ==
  ASSUME StateOK, NEW r \in Runtimes, PumpCreate(r)
  PROVE  Binds(r)
<1> DEFINE t == pump[r].v.t
           m == pump[r].v.m
           d == pump[r].d
<1>1. t \in Teams /\ m \in Members
  BY DEF StateOK, PumpOK, PumpCreate
<1>2. ASSUME db[t].del[m].id = d
      PROVE  db'[t].session[m] = d
  <2>1. Update(t, [db[t] EXCEPT !.session[m] = d])
    BY <1>2 DEF PumpCreate
  <2>2. RecordTyped(db[t]) /\ DOMAIN db = Teams
    BY <1>1, RowTyped DEF StateOK, RecordsOK
  <2> QED
    BY <1>1, <2>1, <2>2 DEF Update, RecordTyped, TeamFields
<1> QED
  BY <1>2 DEF Binds

LEMMA PumpVisits ==
  ASSUME StateOK, NEW r \in Runtimes, PumpQuietly(r) \/ PumpReserve(r) \/ PumpReply(r)
  PROVE  VisitSteps
<1>0. DOMAIN pump[r] = PumpFields /\ (pump[r].pc \in Carrying <=> pump[r].d # 0)
  BY DEF StateOK, PumpOK
<1>1. CASE pump' = [pump EXCEPT ![r] = IdlePump]
  BY <1>1, IdlePumpFields, OneVisit
<1>2. ASSUME NEW s, NEW pc, pump' = [pump EXCEPT ![r] = [pump[r] EXCEPT !.s = s, !.pc = pc]],
             s = IF pump[r].pc = "create" THEN pump[r].d ELSE pump[r].s,
             pump[r].pc \in Carrying, pc \in Carrying \ {"create"},
             pc \in {"prompt", "reply", "after"} => pump[r].pc \in {"acquire", "prompt", "reply"},
             pump[r].pc = "acquire" => lease' = [lease EXCEPT ![pump[r].s] = pump[r].d],
             pump[r].pc = "create" => Binds(r)
      PROVE  VisitSteps
  <2> DEFINE q == [pump[r] EXCEPT !.s = s, !.pc = pc]
  <2>1. q.d = pump[r].d /\ q.v = pump[r].v /\ q.cursor = pump[r].cursor /\ q.through = pump[r].through
        /\ q.s = s /\ q.pc = pc
    BY <1>0 DEF PumpFields
  <2> HIDE DEF q
  <2>2. CarriesOn(pump[r], q)
    BY <1>2, <2>1 DEF CarriesOn, Binds
  <2> QED
    BY <1>2, <2>2, OneVisit DEF q
<1>3. ASSUME NEW pc, pump' = [pump EXCEPT ![r] = [pump[r] EXCEPT !.pc = pc]], pump[r].pc # "create",
             pump[r].pc \in Carrying, pc \in Carrying \ {"create"},
             pc \in {"prompt", "reply", "after"} => pump[r].pc \in {"acquire", "prompt", "reply"},
             pump[r].pc = "acquire" => lease' = [lease EXCEPT ![pump[r].s] = pump[r].d]
      PROVE  VisitSteps
  <2>1. [pump[r] EXCEPT !.pc = pc] = [pump[r] EXCEPT !.s = pump[r].s, !.pc = pc]
    BY <1>0 DEF PumpFields
  <2> QED
    BY <1>2, <1>3, <2>1
<1>4. CASE PumpJudge(r)
  <2> DEFINE q == [pump[r] EXCEPT !.pc = "release"]
  <2>1. pump' = [pump EXCEPT ![r] = q] /\ pump[r].pc = "judge"
    BY <1>4 DEF PumpJudge, SetPump
  <2>2. q.d = 0 /\ q.pc = "release" /\ q.v = pump[r].v
    BY <1>0, <2>1 DEF PumpFields, Carrying
  <2> HIDE DEF q
  <2> QED
    BY <2>1, <2>2, OneVisit
<1>5. CASE PumpRelease(r) \/ PumpAfter(r) \/ PumpFault(r)
  BY <1>1, <1>5 DEF PumpRelease, PumpAfter, PumpFault, PumpCreateFails, PumpReplyLost, PumpPromptFails,
                    PumpThrow, SetPump
<1>6. CASE PumpCreate(r)
  BY <1>2, <1>6, CreateBinds DEF PumpCreate, SetPump, Carrying
<1>7. CASE PumpCheck(r) \/ PumpAcquire(r) \/ PumpPrompt(r) \/ PumpReply(r)
  BY <1>1, <1>3, <1>7 DEF PumpCheck, PumpAcquire, PumpPrompt, PumpReply, SetPump, Carrying
<1>8. CASE PumpReserve(r)
  <2>1. CASE pump' = [pump EXCEPT ![r] = IdlePump]
    BY <1>1, <2>1
  <2>2. CASE ReservedRightly(r)
    BY <2>2, OneVisit DEF ReservedRightly, ReservedNow
  <2>3. pump' = [pump EXCEPT ![r] = IdlePump] \/ ReservedRightly(r)
    <3>1. pump' = [pump EXCEPT ![r] = IdlePump] \/ ReservedNow(r)
      BY <1>8, ReserveStep DEF StateOK
    <3>2. CASE ReservedNow(r)
      <4>1. nextD' = nextD + 1 /\ nextD \in Nat
        BY <3>2 DEF ReservedNow, StateOK, HostOK
      <4>2. nextD' # nextD
        BY <4>1
      <4> QED
        BY <1>8, <4>2, ReserveDels
    <3> QED
      BY <3>1, <3>2
  <2> QED
    BY <2>1, <2>2, <2>3
<1>9. ASSUME NEW t \in Teams, NEW m \in Members, PumpVisit(r, t, m)
      PROVE  VisitSteps
  <2>1. CASE PumpUnbindable(r, t, m)
    BY <2>1, SameVisits DEF PumpUnbindable
  <2>2. CASE PumpObserve(r, t, m)
    <3> DEFINE q == [IdlePump EXCEPT !.pc = "judge", !.v = View(r, t, m)]
    <3>1. q.d = 0 /\ q.pc = "judge" /\ q.v = View(r, t, m)
      BY IdlePumpFields DEF PumpFields
    <3>2. pump' = [pump EXCEPT ![r] = q] /\ CanObserve(r, t, m)
      BY <2>2 DEF PumpObserve, SetPump
    <3> HIDE DEF q
    <3> QED
      BY <3>1, <3>2, OneVisit DEF ViewsNow
  <2>3. CASE PumpLook(r, t, m)
    <3> DEFINE q == [pc |-> "reserve", v |-> [NoView EXCEPT !.t = t, !.m = m], d |-> 0,
                     s |-> db[t].session[m], cursor |-> db[t].cursor[m], through |-> Len(db[t].events)]
    <3>1. pump' = [pump EXCEPT ![r] = q] /\ db[t].member[m] = "active"
      BY <2>3 DEF PumpLook, SetPump
    <3>2. q.v.t = t /\ q.v.m = m
      BY DEF NoView
    <3>3. /\ q.pc = "reserve" /\ q.d = 0 /\ q.s = db[t].session[m] /\ q.cursor = db[t].cursor[m]
          /\ q.through = Len(db[t].events)
      OBVIOUS
    <3> HIDE DEF q
    <3>4. LooksNow(q)
      BY <3>1, <3>2, <3>3 DEF LooksNow
    <3> QED
      BY <3>1, <3>4, OneVisit
  <2> QED
    BY <1>9, <2>1, <2>2, <2>3 DEF PumpVisit
<1>10. ASSUME NEW t \in Teams, PumpExpire(r, t) \/ PumpForget(r, t)
      PROVE  VisitSteps
  BY <1>10, SameVisits DEF PumpExpire, PumpForget
<1> QED
  BY <1>4, <1>5, <1>6, <1>7, <1>8, <1>9, <1>10 DEF PumpQuietly

LEMMA VisitsMove ==
  ASSUME StateOK, Next
  PROVE  VisitSteps
<1>1. ASSUME NEW r \in Runtimes, NEW st, Leave(r, st)
      PROVE  VisitSteps
  BY <1>1, IdlePumpFields, OneVisit DEF Leave
<1>2. CASE HostQuietly
  BY <1>1, <1>2, SameVisits DEF HostQuietly, Start, Restore, Crash, Stop, Disposed, LatePrompt, UserTurn,
                                TurnStarts, TurnEnds, SessionError
<1>3. ASSUME NEW t \in Teams, MemberQuietly(t) \/ Create(t) \/ Settles(t) \/ Begins(t)
      PROVE  VisitSteps
  <2>1. pump' = pump
    BY <1>3, BeginsAre DEF MemberQuietly, Create, Settles, SettleTask, Add, SendMessage, OfferTask,
                           ClaimTask, ClaimLapses, Begin
  <2> QED
    BY <2>1, SameVisits
<1>4. ASSUME NEW o \in Ops, OpQuietly(o) \/ OpEnd(o) \/ OpResume(o)
      PROVE  VisitSteps
  BY <1>4, OpHost, SameVisits DEF OpEnd, OpResume
<1> QED
  BY <1>2, <1>3, <1>4, StepKinds, PumpVisits

\* A call that is on its way was a visit's prompt.
LatesStep == \A l \in late' : l \in late \/ \E r \in Runtimes : pump[r].pc = "prompt" /\ l.p = pump[r]

LEMMA LatesMove ==
  ASSUME Next
  PROVE  LatesStep
<1>1. ASSUME late' \in SUBSET late
      PROVE  LatesStep
  BY <1>1 DEF LatesStep
<1>2. ASSUME NEW r \in Runtimes, PumpQuietly(r) \/ PumpReserve(r) \/ PumpReply(r)
      PROVE  LatesStep
  <2>1. ASSUME NEW still \in BOOLEAN, PumpPromptFails(r, still)
        PROVE  LatesStep
    <3>1. pump[r].pc = "prompt" /\ \A l \in late' : l \in late \/ l = [r |-> r, p |-> pump[r]]
      BY <2>1 DEF PumpPromptFails
    <3> QED
      BY <3>1 DEF LatesStep
  <2>2. late' = late \/ \E still \in BOOLEAN : PumpPromptFails(r, still)
    BY <1>2 DEF PumpQuietly, PumpJudge, PumpRelease, PumpCreate, PumpCheck, PumpAcquire, PumpPrompt,
                PumpAfter, PumpFault, PumpCreateFails, PumpReplyLost, PumpExpire, PumpForget, PumpVisit,
                PumpObserve, PumpUnbindable, PumpLook, PumpReserve, PumpReply
  <2> QED
    BY <1>1, <2>1, <2>2
<1>3. CASE HostQuietly
  BY <1>1, <1>3 DEF HostQuietly, Start, Restore, Crash, Stop, Disposed, Leave, LatePrompt, UserTurn,
                    TurnStarts, TurnEnds, SessionError
<1>4. ASSUME NEW t \in Teams, MemberQuietly(t) \/ Create(t) \/ Settles(t) \/ Begins(t)
      PROVE  LatesStep
  <2>1. late' = late
    BY <1>4, BeginsAre DEF MemberQuietly, Create, Settles, SettleTask, Add, SendMessage, OfferTask,
                           ClaimTask, ClaimLapses, Begin
  <2> QED
    BY <1>1, <2>1
<1>5. ASSUME NEW o \in Ops, OpQuietly(o) \/ OpEnd(o) \/ OpResume(o)
      PROVE  LatesStep
  <2>1. late' = late
    BY <1>5 DEF OpQuietly, OpRead, OpCommit, OpForget, OpPrepared, OpJudge, OpRelease, OpReconciled,
                OpFree, OpAbort, OpPrepare, OpReconcile, OpSort, OpEnd, OpResume
  <2> QED
    BY <1>1, <2>1
<1> QED
  BY <1>2, <1>3, <1>4, <1>5, StepKinds

\* The member that resume() looks at, and the delivery whose lease it is about to let go of.
Freeing(o) == op[o].seen.del[op[o].m].id
OpStepped(o) ==
    /\ op'[o].pc \in {"judge", "release"} =>
         \/ op[o].pc \in {"judge", "release"} /\ op'[o].v = op[o].v
         \/ \E r \in Runtimes, t \in Teams, m \in Members :
              op'[o].v = View(r, t, m) /\ CanObserve(r, t, m)
    /\ op'[o].pc = "free" =>
         \/ op[o].pc = "free" /\ Freeing(o)' = Freeing(o)
         \/ \E t \in Teams, m \in Members :
              db[t].del[m].id = Freeing(o)' /\ db'[t].del[m].id = 0
OpsStep == \A o \in Ops : OpStepped(o)

LEMMA OpsSameStep ==
  ASSUME NEW o \in Ops, op'[o] = op[o]
  PROVE  OpStepped(o)
BY DEF OpStepped, Freeing

LEMMA OpElsewhere ==
  ASSUME NEW o, op'[o].pc \notin {"judge", "release", "free"}
  PROVE  OpStepped(o)
BY DEF OpStepped

LEMMA OpSteps ==
  ASSUME StateOK, NEW o \in Ops, OpQuietly(o)
  PROVE  OpStepped(o)
<1>0. DOMAIN op = Ops /\ DOMAIN op[o] = OpFields /\ OpOK(o)
  BY DEF StateOK, OpOK
<1>1. ASSUME NEW q, op' = [op EXCEPT ![o] = q], q.pc \notin {"judge", "release", "free"}
      PROVE  OpStepped(o)
  BY <1>0, <1>1, OpElsewhere
<1>2. ASSUME NEW pc, NEW todo, pc \notin {"judge", "release", "free"},
             \/ op' = [op EXCEPT ![o] = [op[o] EXCEPT !.pc = pc]]
             \/ op' = [op EXCEPT ![o] = [op[o] EXCEPT !.pc = pc, !.todo = todo]]
      PROVE  OpStepped(o)
  <2>1. op'[o].pc = pc
    BY <1>0, <1>2 DEF OpFields
  <2> QED
    BY <1>2, <2>1, OpElsewhere
<1>3. CASE OpRead(o)
  <2>1. op[o].kind \in {"remove", "delete", "resume"}
    BY <1>0, <1>3 DEF OpRead, OpOK, Working, At
  <2>2. \E todo : \E pc \in {"abort", "prepare"} : GotoWith(o, pc, todo)
    BY <1>3, <2>1 DEF OpRead
  <2> QED
    BY <1>2, <2>2 DEF GotoWith, SetOp
<1>4. CASE OpCommit(o) \/ OpForget(o) \/ OpPrepared(o) \/ \E m \in Members : OpAbort(o, m) \/ OpPrepare(o, m)
  <2>1. \E todo : \E pc \in {"forget", "end", "reconcile", "abort", "prepare"} : Goto(o, pc) \/ GotoWith(o, pc, todo)
    BY <1>4 DEF OpCommit, OpForget, OpPrepared, OpAbort, OpPrepare
  <2> QED
    BY <1>2, <2>1 DEF Goto, GotoWith, SetOp
<1>5. CASE OpJudge(o)
  <2>1. op[o].pc = "judge" /\ op' = [op EXCEPT ![o] = [op[o] EXCEPT !.pc = "release"]]
    BY <1>5 DEF OpJudge, At, Goto, SetOp
  <2>2. op'[o].pc = "release" /\ op'[o].v = op[o].v
    BY <1>0, <2>1 DEF OpFields
  <2> QED
    BY <2>1, <2>2 DEF OpStepped
<1>6. CASE OpRelease(o)
  <2>1. op' = [op EXCEPT ![o] = [op[o] EXCEPT !.pc = "reconcile", !.v = NoView]]
    BY <1>6 DEF OpRelease, SetOp
  <2>2. op'[o].pc = "reconcile"
    BY <1>0, <2>1 DEF OpFields
  <2> QED
    BY <2>2, OpElsewhere
<1>7. CASE OpReconciled(o)
  <2> DEFINE S == db[op[o].t]
             seen == [del |-> S.del, error |-> S.error]
  <2>1. op' = [op EXCEPT ![o] = [op[o] EXCEPT !.pc = "sort", !.todo = Deliveries(S), !.seen = seen]]
    BY <1>7 DEF OpReconciled, SetOp
  <2> HIDE DEF seen
  <2>2. op'[o].pc = "sort"
    BY <1>0, <2>1 DEF OpFields
  <2> QED
    BY <2>2, OpElsewhere
<1>8. CASE OpFree(o)
  <2>1. op' = [op EXCEPT ![o] = [op[o] EXCEPT !.pc = "sort", !.m = NoOne]]
    BY <1>8 DEF OpFree, SetOp
  <2>2. op'[o].pc = "sort"
    BY <1>0, <2>1 DEF OpFields
  <2> QED
    BY <2>2, OpElsewhere
<1>9. ASSUME NEW m \in Members, OpReconcile(o, m)
      PROVE  OpStepped(o)
  <2> DEFINE see == CanObserve(op[o].r, op[o].t, m)
             v == View(op[o].r, op[o].t, m)
             q == [op[o] EXCEPT !.todo = @ \ {m}, !.pc = IF see THEN "judge" ELSE @,
                                !.v = IF see THEN v ELSE @]
  <2>1. op' = [op EXCEPT ![o] = q] /\ op[o].pc = "reconcile" /\ op[o].r \in Runtimes /\ op[o].t \in Teams
    BY <1>0, <1>9 DEF OpReconcile, At, SetOp, OpOK, Working
  <2> HIDE DEF v, see
  <2>2. op'[o].pc = (IF see THEN "judge" ELSE "reconcile") /\ (see => op'[o].v = v)
    BY <1>0, <2>1 DEF OpFields
  <2>3. CASE see
    BY <2>1, <2>2, <2>3 DEF OpStepped, v, see
  <2>4. CASE ~see
    BY <2>2, <2>4, OpElsewhere
  <2> QED
    BY <2>3, <2>4
<1>10. ASSUME NEW m \in Members, OpSort(o, m)
       PROVE  OpStepped(o)
  <2> DEFINE d == op[o].seen.del[m].id
             t == op[o].t
             q1 == [op[o] EXCEPT !.todo = @ \ {m}, !.keep = @ \cup {d}]
             q2 == [op[o] EXCEPT !.pc = IF db[t].del[m].id = d THEN "free" ELSE @,
                                 !.todo = @ \ {m}, !.m = m]
             q3 == [op[o] EXCEPT !.pc = "end"]
  <2>1. op[o].pc = "sort" /\ t \in Teams
    BY <1>0, <1>10 DEF OpSort, At, OpOK, Working
  <2>2. \/ op' = [op EXCEPT ![o] = q1] \/ op' = [op EXCEPT ![o] = q3]
        \/ op' = [op EXCEPT ![o] = q2] /\ Update(t, Discard(db[t], m, d))
    BY <1>10 DEF OpSort, SetOp, Goto
  <2>3. q1.pc = "sort" /\ q3.pc = "end"
    BY <1>0, <2>1 DEF OpFields
  <2>4. CASE op' = [op EXCEPT ![o] = q2] /\ Update(t, Discard(db[t], m, d))
    <3>1. CASE db[t].del[m].id = d
      <4>1. op'[o].m = m /\ op'[o].seen = op[o].seen
        BY <1>0, <2>4 DEF OpFields
      <4>2. Freeing(o)' = d
        BY <4>1 DEF Freeing
      <4>3. Update(t, [db[t] EXCEPT !.del[m] = NoDelivery, !.turns = Less(@)])
        BY <2>4, <3>1 DEF Discard
      <4>4. db'[t].del[m] = NoDelivery
        BY <2>1, <4>3, RowTyped DEF Update, RecordTyped, TeamFields, StateOK, RecordsOK
      <4>5. db'[t].del[m].id = 0
        BY <4>4 DEF NoDelivery
      <4>6. op'[o].pc = "free"
        <5> HIDE DEF d
        <5> QED
          BY <1>0, <2>4, <3>1 DEF OpFields
      <4> QED
        BY <2>1, <3>1, <4>2, <4>5, <4>6 DEF OpStepped
    <3>2. CASE db[t].del[m].id # d
      <4> HIDE DEF d
      <4>1. op'[o].pc = "sort"
        BY <1>0, <2>1, <2>4, <3>2 DEF OpFields
      <4> QED
        BY <4>1, OpElsewhere
    <3> QED
      BY <3>1, <3>2
  <2> QED
    BY <1>1, <2>2, <2>3, <2>4
<1> QED
  BY <1>3, <1>4, <1>5, <1>6, <1>7, <1>8, <1>9, <1>10 DEF OpQuietly

LEMMA OpsMove ==
  ASSUME StateOK, Next
  PROVE  OpsStep
<1>1. ASSUME NEW o \in Ops, NEW q, op' = [op EXCEPT ![o] = q], OpStepped(o)
      PROVE  OpsStep
  BY <1>1, OpsSameStep DEF OpsStep, StateOK
<1>2. CASE op' = op
  BY <1>2, OpsSameStep DEF OpsStep
<1>3. ASSUME NEW o \in Ops, OpQuietly(o)
      PROVE  OpsStep
  BY <1>1, <1>3, OpSteps, OpMoves
<1>4. ASSUME NEW o \in Ops, OpEnd(o) \/ OpResume(o)
      PROVE  OpsStep
  <2>1. \E pc \in {"end", "done"} : \/ op' = [op EXCEPT ![o] = [op[o] EXCEPT !.pc = pc]]
                                    \/ op' = [op EXCEPT ![o] = [NewOp EXCEPT !.pc = pc]]
    BY <1>4 DEF OpEnd, OpResume, Goto, SetOp
  <2>2. \A pc \in {"end", "done"} : [op[o] EXCEPT !.pc = pc].pc = pc /\ [NewOp EXCEPT !.pc = pc].pc = pc
    BY NewOpFields DEF StateOK, OpOK, OpFields
  <2>3. op'[o].pc \in {"end", "done"}
    BY <2>1, <2>2 DEF StateOK
  <2> QED
    BY <1>1, <2>1, <2>3, OpElsewhere
<1>5. ASSUME NEW t \in Teams, Begins(t)
      PROVE  OpsStep
  <2>0. PICK o \in Ops : \E kind, by, m : Begin(o, kind, t, by, m, "read")
    BY <1>5, BeginsAre
  <2>1. PICK kind, by, m : Begin(o, kind, t, by, m, "read")
    BY <2>0
  <2> DEFINE q == [NewOp EXCEPT !.pc = "read", !.kind = kind, !.r = Desk(t, by), !.t = t, !.by = by, !.m = m]
  <2>2. op' = [op EXCEPT ![o] = q]
    BY <2>1 DEF Begin, SetOp
  <2>3. q.pc = "read"
    BY NewOpFields DEF OpFields
  <2> HIDE DEF q
  <2>4. op'[o].pc = "read"
    BY <2>2, <2>3 DEF StateOK
  <2> QED
    BY <1>1, <2>2, <2>4, OpElsewhere
<1>6. ASSUME NEW r \in Runtimes, NEW st, Leave(r, st)
      PROVE  OpsStep
  <2>1. ASSUME NEW o \in Ops
        PROVE  OpStepped(o)
    <3>1. op'[o] = op[o] \/ op'[o] = [NewOp EXCEPT !.pc = "gone", !.r = r]
      BY <1>6 DEF Leave
    <3>2. [NewOp EXCEPT !.pc = "gone", !.r = r].pc = "gone"
      BY NewOpFields DEF OpFields
    <3> QED
      BY <3>1, <3>2, OpsSameStep, OpElsewhere
  <2> QED
    BY <2>1 DEF OpsStep
<1>7. HostQuietly => op' = op \/ \E st : \E r \in Runtimes : Leave(r, st)
  BY DEF HostQuietly, Start, Restore, Crash, Stop, Disposed, LatePrompt, UserTurn, TurnStarts, TurnEnds, SessionError
<1>8. ASSUME NEW r \in Runtimes, PumpQuietly(r) \/ PumpReserve(r) \/ PumpReply(r)
      PROVE  op' = op
  BY <1>8, PumpHost DEF PumpReserve, PumpReply
<1>9. ASSUME NEW t \in Teams, MemberQuietly(t) \/ Create(t) \/ Settles(t)
      PROVE  op' = op
  BY <1>9 DEF MemberQuietly, Create, Settles, SettleTask, Add, SendMessage, OfferTask, ClaimTask, ClaimLapses
<1> QED
  BY <1>2, <1>3, <1>4, <1>5, <1>6, <1>7, <1>8, <1>9, StepKinds

-----------------------------------------------------------------------------
(* What holds of sessions, cursors and leases.                             *)

\* What is on its way for delivery d, or has come, is for the member that has d, if any, and
\* shows it the events from its cursor on up to where its delivery goes.
Fits(d, t, m, from, through) == d # 0 =>
    /\ d < nextD
    /\ \A u \in Teams, n \in Members : db[u].del[n].id = d =>
        u = t /\ n = m /\ db[u].cursor[n] = from /\ db[u].del[n].through = through
FitsPrompt(p) == Fits(p.d, p.v.t, p.v.m, p.cursor, p.through)
PromptsFit == (\A r \in Runtimes : FitsPrompt(pump[r])) /\ (\A l \in late : FitsPrompt(l.p))
FitsTurn(e) == Fits(e.d, e.t, e.m, e.from, e.through)
TurnsFit == \A s \in Sessions : \A i \in 1 .. Len(log[s]) : FitsTurn(log[s][i])

\* Delivery d has taken session s for its prompt.
Logged(d, s) == \E i \in 1 .. Len(log[s]) : log[s][i].d = d
OnItsWay(d, s) == \E l \in late : l.p.d = d /\ l.p.s = s
Reached(d, s) ==
    \/ Logged(d, s) \/ OnItsWay(d, s)
    \/ \E r \in Runtimes : pump[r].d = d /\ pump[r].s = s /\ pump[r].pc # "create"

\* What reconcile() looked at: while the delivery is there it is the member's, and if it went
\* to the session that was seen, that is the member's session still.
ViewFits(v) == v.d # 0 =>
    /\ v.d \in Nat /\ v.d < nextD /\ v.s \in Sessions
    /\ \A t \in Teams, m \in Members : db[t].del[m].id = v.d =>
        t = v.t /\ m = v.m /\ (Reached(v.d, v.s) => db[t].session[m] = v.s)
ViewsFit == /\ \A r \in Runtimes : pump[r].pc \in {"judge", "release"} => ViewFits(pump[r].v)
            /\ \A o \in Ops : op[o].pc \in {"judge", "release"} => ViewFits(op[o].v)

\* A session is created for a managed member that has none and was shown nothing, and is new.
Fresh(p) == p.s = NoSession => p.cursor = 0 /\ p.v.m # Lead
Unused(r) == LET d == pump[r].d IN
    /\ \A s \in Sessions : ~Reached(d, s)
    /\ \A q \in Runtimes : q # r => pump[q].d # d
    /\ \A t \in Teams, m \in Members : db[t].session[m] # d
Creates == \A r \in Runtimes :
    /\ pump[r].pc \in {"reserve", "create"} => Fresh(pump[r])
    /\ pump[r].pc = "create" => pump[r].s = NoSession /\ Unused(r)

\* The user's session is the lead's, and any other session is one member's only.
ApartFrom(t, m) == LET s == db[t].session[m] IN
    /\ s < nextD
    /\ IF m = Lead THEN s \in {NoSession, UserSession} /\ (db[t].member[m] = "active" => s = UserSession)
                   ELSE s # UserSession
    /\ s > 0 => \A u \in Teams, n \in Members : db[u].session[n] = s => u = t /\ n = m
Apart == \A t \in Teams, m \in Members : ApartFrom(t, m)

\* A delivery whose prompt was let go to the user's session holds its lease.
Sent(d, s) ==
    \/ Logged(d, s) \/ OnItsWay(d, s)
    \/ \E r \in Runtimes : pump[r].d = d /\ pump[r].s = s /\ pump[r].pc \in {"prompt", "reply", "after"}
Leased == \A t \in Teams, m \in Members : LET d == db[t].del[m].id IN
    d # 0 /\ Sent(d, UserSession) => lease[UserSession] = d

\* What resume() lets go of is discarded.
FreedAt(o) == Freeing(o) \in Nat /\ Freeing(o) < nextD
              /\ \A t \in Teams, m \in Members : Freeing(o) # 0 => db[t].del[m].id # Freeing(o)
Freed == \A o \in Ops : op[o].pc = "free" => FreedAt(o)

\* Every event up to a member's cursor was in the prompt of a turn of its that is over.
ShowsAt(e, t, m, k) == e.t = t /\ e.m = m /\ e.from < k /\ k <= e.through /\ e.st \in Over
ShownTo(t, m) == \A k \in 1 .. db[t].cursor[m] :
    /\ db[t].session[m] \in Sessions
    /\ \E i \in 1 .. Len(log[db[t].session[m]]) : ShowsAt(log[db[t].session[m]][i], t, m, k)
Shown == \A t \in Teams, m \in Members : ShownTo(t, m)

SessionInv ==
    /\ LogsOK /\ VisitsTyped /\ LatesTyped
    /\ PromptsFit /\ TurnsFit /\ ViewsFit /\ Creates /\ Apart /\ Leased /\ Freed /\ Shown

-----------------------------------------------------------------------------
(* One member's session, cursor and delivery in a step.                    *)

Moved == (DelsKept /\ nextD' = nextD) \/ \E r \in Runtimes : ReservedRightly(r)

\* A delivery that is there was there before, unless it is being reserved.
LEMMA DelBack ==
  ASSUME StateOK, Moved, NEW t \in Teams, NEW m \in Members,
         db'[t].del[m].id # 0, db'[t].del[m].id < nextD
  PROVE  db[t].del[m].id = db'[t].del[m].id /\ db[t].del[m].through = db'[t].del[m].through
<1>1. CASE DelsKept
  BY <1>1 DEF DelsKept
<1>2. ASSUME NEW r \in Runtimes, ReservedRightly(r)
      PROVE  db'[t].del[m] = db[t].del[m]
  <2>1. ReservedNow(r) /\ nextD \in Nat /\ db[t].del \in [Members -> DeliveryRows]
    BY <1>2, RowTyped DEF ReservedRightly, StateOK, HostOK, RecordTyped
  <2>2. CASE t = pump[r].v.t /\ m = pump[r].v.m
    <3>1. db'[t].del[m] = Reserved(r)
      BY <2>1, <2>2 DEF ReservedNow
    <3>2. db'[t].del[m].id = nextD
      BY <3>1 DEF Reserved
    <3> QED
      BY <2>1, <3>2
  <2>3. CASE ~(t = pump[r].v.t /\ m = pump[r].v.m)
    BY <2>1, <2>3 DEF ReservedNow
  <2> QED
    BY <2>2, <2>3
<1> QED
  BY <1>1, <1>2 DEF Moved

LEMMA MovedOn ==
  ASSUME StateOK, Moved
  PROVE  nextD \in Nat /\ nextD' \in Nat /\ nextD <= nextD' /\ nextD > 0 /\ nextD <= MaxDeliveries + 1
<1>1. nextD \in Nat /\ nextD > 0 /\ nextD <= MaxDeliveries + 1
  BY TeamConstants DEF StateOK, HostOK
<1>2. nextD' = nextD \/ nextD' = nextD + 1
  BY DEF Moved, ReservedRightly, ReservedNow
<1> QED
  BY <1>1, <1>2

\* What becomes of one member.
CellSame(t, m) ==
    /\ db'[t].session[m] = db[t].session[m] /\ db'[t].cursor[m] = db[t].cursor[m]
    /\ m = Lead /\ db'[t].member[m] = "active" => db[t].member[m] = "active"
CellSettled(t, m) == \E v \in Judged :
    /\ v.t = t /\ v.m = m /\ v.d # 0 /\ db[t].del[m].id = v.d /\ Delivered(v)
    /\ db'[t].session[m] = db[t].session[m] /\ db'[t].cursor[m] = db[t].del[m].through
    /\ db'[t].del[m].id = 0 /\ db'[t].member[m] = db[t].member[m]
CellBound(t, m) == \E r \in Runtimes :
    /\ pump[r].pc = "create" /\ pump'[r].pc = "check" /\ pump[r].v.t = t /\ pump[r].v.m = m
    /\ db[t].del[m].id = pump[r].d
    /\ db'[t].session[m] = pump[r].d /\ db'[t].cursor[m] = db[t].cursor[m]
CellCreated(t, m) ==
    /\ db'[t].session[m] = IF m = Lead THEN UserSession ELSE NoSession
    /\ db'[t].cursor[m] = 0 /\ db'[t].del[m].id = 0
CellStep(t, m) == CellSame(t, m) \/ CellSettled(t, m) \/ CellBound(t, m) \/ CellCreated(t, m)

LEMMA Cells ==
  ASSUME StateOK, RowsStep, NEW t \in Teams, NEW m \in Members
  PROVE  CellStep(t, m)
<1>0. RecordTyped(db[t]) /\ RowStep(t, db'[t])
  BY RowTyped DEF RowsStep
<1>1. CASE Stays(db[t], db'[t])
  <2>1. CellSame(t, m)
    BY <1>1 DEF Stays, CellSame
  <2> QED
    BY <2>1 DEF CellStep
<1>2. ASSUME NEW v \in Judged, v.t = t, SettledNow(db[t], db'[t], v), Delivered(v)
      PROVE  CellStep(t, m)
  <2>1. CASE m = v.m
    <3>1. db'[t].cursor[m] = db[t].del[m].through /\ db'[t].del[m].id = 0
      BY <1>0, <1>2, <2>1 DEF SettledNow, RecordTyped, NoDelivery
    <3>2. CellSettled(t, m)
      BY <1>2, <2>1, <3>1 DEF SettledNow, CellSettled
    <3> QED
      BY <3>2 DEF CellStep
  <2>2. CASE m # v.m
    <3>1. CellSame(t, m)
      BY <1>0, <1>2, <2>2 DEF SettledNow, CellSame, RecordTyped
    <3> QED
      BY <3>1 DEF CellStep
  <2> QED
    BY <2>1, <2>2
<1>3. CASE BoundNow(t, db'[t])
  <2>1. PICK r \in Runtimes :
          /\ pump[r].pc = "create" /\ pump'[r].pc = "check" /\ pump[r].v.t = t /\ pump[r].v.m \in Members
          /\ db[t].del[pump[r].v.m].id = pump[r].d
          /\ db'[t] = [db[t] EXCEPT !.session[pump[r].v.m] = pump[r].d]
    BY <1>3 DEF BoundNow
  <2>2. /\ db'[t].cursor = db[t].cursor /\ db'[t].member = db[t].member
        /\ db'[t].session = [db[t].session EXCEPT ![pump[r].v.m] = pump[r].d]
    BY <1>0, <2>1 DEF RecordTyped, TeamFields
  <2>3. CASE m = pump[r].v.m
    <3>1. db'[t].session[m] = pump[r].d
      BY <1>0, <2>2, <2>3 DEF RecordTyped
    <3>2. CellBound(t, m)
      BY <2>1, <2>2, <2>3, <3>1 DEF CellBound
    <3> QED
      BY <3>2 DEF CellStep
  <2>4. CASE m # pump[r].v.m
    <3>1. CellSame(t, m)
      BY <1>0, <2>2, <2>4 DEF CellSame, RecordTyped
    <3> QED
      BY <3>1 DEF CellStep
  <2> QED
    BY <2>3, <2>4
<1>4. CASE CreatedNow(t, db'[t])
  <2>1. db'[t] = [NewTeam EXCEPT !.status = "active", !.member[Lead] = "active", !.session[Lead] = UserSession]
    BY <1>4 DEF CreatedNow
  <2>2. /\ db'[t].session = [NewTeam.session EXCEPT ![Lead] = UserSession]
        /\ db'[t].cursor = NewTeam.cursor /\ db'[t].del = NewTeam.del
    BY <2>1 DEF NewTeam
  <2>3. CellCreated(t, m)
    BY <2>2 DEF CellCreated, NewTeam, NoDelivery
  <2> QED
    BY <2>3 DEF CellStep
<1> QED
  BY <1>0, <1>1, <1>2, <1>3, <1>4 DEF RowStep

-----------------------------------------------------------------------------
(* Each part of the invariant is kept.                                     *)

\* All that is known of a step.
Stepped == /\ StateOK /\ StateOK' /\ DeliveryInv
           /\ RowsStep /\ Moved /\ LogsStep /\ VisitSteps /\ LatesStep /\ OpsStep

LEMMA TypesKept ==
  ASSUME Stepped, LogsOK, VisitsTyped, LatesTyped
  PROVE  LogsOK' /\ VisitsTyped' /\ LatesTyped'
<1>1. LogsOK'
  BY DEF Stepped, LogsStep, LogStep, FollowsWith, LogsOK
<1>2. ASSUME NEW r \in Runtimes
      PROVE  /\ pump'[r].pc \in Carrying \cup {"reserve"} =>
                  pump'[r].cursor \in Nat /\ pump'[r].through \in Nat /\ pump'[r].s \in Sessions \cup {NoSession}
             /\ pump'[r].pc \in Carrying \ {"create"} => pump'[r].s \in Sessions
  <2>0. VisitStep(r) /\ nextD \in Nat /\ nextD <= MaxDeliveries + 1 /\ PumpOK(r)
    BY MovedOn DEF Stepped, VisitSteps, StateOK
  <2>1. CASE pump'[r] = pump[r]
    BY <2>1 DEF VisitsTyped
  <2>2. CASE pump'[r].pc \in {"idle", "judge", "release"}
    BY <2>2 DEF Carrying
  <2>3. CASE LooksNow(pump'[r])
    <3>1. PICK t \in Teams, m \in Members :
            /\ pump'[r].pc = "reserve" /\ pump'[r].s = db[t].session[m]
            /\ pump'[r].cursor = db[t].cursor[m] /\ pump'[r].through = Len(db[t].events)
      BY <2>3 DEF LooksNow
    <3>2. RecordTyped(db[t])
      BY RowTyped DEF Stepped
    <3>3. Len(db[t].events) \in Nat
      BY <3>2, LenProperties DEF RecordTyped
    <3>4. db[t].session[m] \in Sessions \cup {NoSession} /\ db[t].cursor[m] \in Nat
      BY <3>2 DEF RecordTyped
    <3> QED
      BY <3>1, <3>3, <3>4 DEF Carrying
  <2>4. CASE CarriesOn(pump[r], pump'[r])
    <3>1. pump[r].pc \in Carrying /\ pump'[r].pc \in Carrying \ {"create"}
          /\ pump'[r].cursor = pump[r].cursor /\ pump'[r].through = pump[r].through
          /\ pump'[r].s = IF pump[r].pc = "create" THEN pump[r].d ELSE pump[r].s
      BY <2>4 DEF CarriesOn
    <3>2. pump[r].d \in Sessions
      BY <2>0, TeamConstants DEF PumpOK, Sessions
    <3> QED
      BY <3>1, <3>2 DEF VisitsTyped
  <2>5. CASE ReservedRightly(r)
    <3> DEFINE q == [pump[r] EXCEPT !.d = nextD, !.pc = IF pump[r].s = NoSession THEN "create" ELSE "check"]
    <3>1. pump'[r] = q /\ pump[r].pc = "reserve"
      BY <2>5 DEF ReservedRightly, ReservedNow, Stepped, StateOK
    <3>2. q.cursor = pump[r].cursor /\ q.through = pump[r].through /\ q.s = pump[r].s
          /\ q.pc = IF pump[r].s = NoSession THEN "create" ELSE "check"
      BY <2>0 DEF PumpOK, PumpFields
    <3> HIDE DEF q
    <3> QED
      BY <3>1, <3>2 DEF VisitsTyped, Carrying
  <2> QED
    BY <2>0, <2>1, <2>2, <2>3, <2>4, <2>5 DEF VisitStep, ViewsNow
<1>3. ASSUME NEW l \in late'
      PROVE  /\ l.p.v.t \in Teams /\ l.p.v.m \in Members /\ l.p.d \in Nat /\ l.p.d # 0
             /\ l.p.cursor \in Nat /\ l.p.through \in Nat /\ l.p.s \in Sessions
  <2>1. CASE l \in late
    BY <2>1 DEF LatesTyped
  <2>2. ASSUME NEW r \in Runtimes, pump[r].pc = "prompt", l.p = pump[r]
        PROVE  /\ l.p.v.t \in Teams /\ l.p.v.m \in Members /\ l.p.d \in Nat /\ l.p.d # 0
               /\ l.p.cursor \in Nat /\ l.p.through \in Nat /\ l.p.s \in Sessions
    <3>1. PumpOK(r)
      BY DEF Stepped, StateOK
    <3> QED
      BY <2>2, <3>1 DEF PumpOK, VisitsTyped, Carrying
  <2> QED
    BY <2>1, <2>2 DEF Stepped, LatesStep
<1> QED
  BY <1>1, <1>2, <1>3 DEF VisitsTyped, LatesTyped

\* The cursor of a member that has a delivery stays.
LEMMA CursorKept ==
  ASSUME Stepped, NEW u \in Teams, NEW n \in Members, db'[u].del[n].id # 0
  PROVE  db'[u].cursor[n] = db[u].cursor[n]
<1>1. CellStep(u, n)
  BY Cells DEF Stepped
<1> QED
  BY <1>1 DEF CellStep, CellSame, CellSettled, CellBound, CellCreated

\* Whatever fits goes on fitting.
FitsNext(d, t, m, from, through) == d # 0 =>
    /\ d < nextD'
    /\ \A u \in Teams, n \in Members : db'[u].del[n].id = d =>
        u = t /\ n = m /\ db'[u].cursor[n] = from /\ db'[u].del[n].through = through

LEMMA FitsKept ==
  ASSUME Stepped, NEW d \in Nat, NEW t, NEW m, NEW from, NEW through, Fits(d, t, m, from, through)
  PROVE  FitsNext(d, t, m, from, through)
<1> SUFFICES ASSUME d # 0
             PROVE  /\ d < nextD'
                    /\ \A u \in Teams, n \in Members : db'[u].del[n].id = d =>
                         u = t /\ n = m /\ db'[u].cursor[n] = from /\ db'[u].del[n].through = through
  BY DEF FitsNext
<1>1. d < nextD /\ d < nextD'
  BY MovedOn DEF Fits, Stepped
<1>2. ASSUME NEW u \in Teams, NEW n \in Members, db'[u].del[n].id = d
      PROVE  u = t /\ n = m /\ db'[u].cursor[n] = from /\ db'[u].del[n].through = through
  <2>1. db[u].del[n].id = d /\ db[u].del[n].through = db'[u].del[n].through
    BY <1>1, <1>2, DelBack DEF Stepped
  <2>2. u = t /\ n = m /\ db[u].cursor[n] = from /\ db[u].del[n].through = through
    BY <2>1 DEF Fits
  <2>3. db'[u].cursor[n] = db[u].cursor[n]
    BY <1>2, CursorKept
  <2> QED
    BY <2>1, <2>2, <2>3
<1> QED
  BY <1>1, <1>2

\* The delivery being reserved is nobody else's, and finds the cursor where it was seen.
LEMMA ReservedFits ==
  ASSUME Stepped, NEW r \in Runtimes, ReservedRightly(r)
  PROVE  FitsPrompt(pump[r])' /\ pump'[r].d = nextD
<1> DEFINE t == pump[r].v.t
           m == pump[r].v.m
           q == [pump[r] EXCEPT !.d = nextD, !.pc = IF pump[r].s = NoSession THEN "create" ELSE "check"]
<1>0. PumpOK(r) /\ nextD \in Nat /\ nextD > 0 /\ t \in Teams /\ m \in Members
  BY MovedOn DEF Stepped, StateOK, PumpOK, ReservedRightly
<1>1. /\ nextD' = nextD + 1 /\ pump'[r] = q
      /\ db'[t].del = [db[t].del EXCEPT ![m] = Reserved(r)]
      /\ db[t].cursor[m] = pump[r].cursor
      /\ \A u \in Teams : u # t => db'[u] = db[u]
  BY DEF ReservedRightly, ReservedNow, Stepped, StateOK
<1>2. q.d = nextD /\ q.v = pump[r].v /\ q.cursor = pump[r].cursor /\ q.through = pump[r].through
  BY <1>0 DEF PumpOK, PumpFields
<1> HIDE DEF q
<1>3. ASSUME NEW u \in Teams, NEW n \in Members, db'[u].del[n].id = nextD
      PROVE  u = t /\ n = m
  <2>1. db[u].del[n].id # nextD
    <3>1. db[u].del[n].id # 0 => db[u].del[n].id < nextD
      BY DEF Stepped, DeliveryInv, IdsInv
    <3> QED
      BY <1>0, <3>1
  <2>2. db[t].del \in [Members -> DeliveryRows]
    BY <1>0, RowTyped DEF Stepped, RecordTyped
  <2> QED
    BY <1>1, <1>3, <2>1, <2>2
<1>4. db'[t].del[m] = Reserved(r)
  BY <1>0, <1>1, RowTyped DEF Stepped, RecordTyped
<1>5. db'[t].del[m].through = pump[r].through /\ db'[t].del[m].id = nextD
  BY <1>4 DEF Reserved
<1>6. db'[t].del[m].id # 0
  BY <1>0, <1>5
<1>7. db'[t].cursor[m] = db[t].cursor[m]
  BY <1>0, <1>6, CursorKept
<1>8. nextD < nextD'
  BY <1>0, <1>1
<1> QED
  BY <1>1, <1>2, <1>3, <1>5, <1>7, <1>8 DEF FitsPrompt, Fits

LEMMA FitsMove ==
  ASSUME Stepped, LogsOK, LatesTyped, PromptsFit, TurnsFit
  PROVE  PromptsFit' /\ TurnsFit'
<1>1. ASSUME NEW r \in Runtimes
      PROVE  FitsPrompt(pump[r])'
  <2>0. VisitStep(r) /\ PumpOK(r) /\ PumpOK(r)' /\ FitsPrompt(pump[r])
    BY DEF Stepped, VisitSteps, StateOK, PromptsFit
  <2>1. ASSUME pump'[r].d = pump[r].d, pump'[r].v = pump[r].v, pump'[r].cursor = pump[r].cursor,
               pump'[r].through = pump[r].through
        PROVE  FitsPrompt(pump[r])'
    <3> DEFINE p == pump[r]
    <3>1. FitsNext(p.d, p.v.t, p.v.m, p.cursor, p.through)
      BY <2>0, FitsKept DEF FitsPrompt, PumpOK
    <3> QED
      BY <2>1, <3>1 DEF FitsPrompt, Fits, FitsNext
  <2>2. CASE pump'[r].d = 0
    BY <2>2 DEF FitsPrompt, Fits
  <2> QED
    BY <2>0, <2>1, <2>2, ReservedFits DEF VisitStep, LooksNow, CarriesOn
<1>2. ASSUME NEW l \in late'
      PROVE  FitsPrompt(l.p)'
  <2> DEFINE p == l.p
  <2>1. FitsPrompt(p) /\ p.d \in Nat
    BY DEF Stepped, LatesStep, PromptsFit, LatesTyped, StateOK, PumpOK
  <2>2. FitsNext(p.d, p.v.t, p.v.m, p.cursor, p.through)
    BY <2>1, FitsKept DEF FitsPrompt
  <2> QED
    BY <2>2 DEF FitsPrompt, Fits, FitsNext
<1>3. ASSUME NEW s \in Sessions, NEW k \in 1 .. Len(log'[s])
      PROVE  FitsTurn(log[s][k])'
  <2> DEFINE e == log'[s][k]
  <2>1. CASE e.d = 0
    BY <2>1 DEF FitsTurn, Fits
  <2>2. ASSUME NEW i \in 1 .. Len(log[s]), SamePrompt(e, log[s][i])
        PROVE  FitsTurn(log[s][k])'
    <3> DEFINE f == log[s][i]
    <3>1. FitsTurn(f) /\ f.d \in Nat
      BY TranscriptTyped DEF TurnsFit, LogsOK, TurnRows
    <3>2. FitsNext(f.d, f.t, f.m, f.from, f.through)
      BY <3>1, FitsKept DEF FitsTurn
    <3> QED
      BY <2>2, <3>2 DEF FitsTurn, Fits, FitsNext, SamePrompt
  <2>3. ASSUME NEW p \in Prompting, SamePrompt(e, Prompt(p))
        PROVE  FitsTurn(log[s][k])'
    <3>1. FitsPrompt(p) /\ p.d \in Nat
      BY DEF Prompting, PromptsFit, LatesTyped, Stepped, StateOK, PumpOK
    <3>2. FitsNext(p.d, p.v.t, p.v.m, p.cursor, p.through)
      BY <3>1, FitsKept DEF FitsPrompt
    <3>3. e.d = p.d /\ e.t = p.v.t /\ e.m = p.v.m /\ e.from = p.cursor /\ e.through = p.through
      BY <2>3 DEF SamePrompt, Prompt, Turn
    <3> QED
      BY <3>2, <3>3 DEF FitsTurn, Fits, FitsNext
  <2>4. \/ e.d = 0 \/ \E i \in 1 .. Len(log[s]) : SamePrompt(e, log[s][i])
        \/ \E p \in Prompting : SamePrompt(e, Prompt(p))
    <3>1. PICK E : /\ FollowsWith(log[s], log'[s], E)
                   /\ \A f \in E : f.d = 0 \/ \E p \in Prompting : p.s = s /\ SamePrompt(f, Prompt(p))
      BY DEF Stepped, LogsStep, LogStep
    <3>2. \/ \E i \in 1 .. Len(log[s]) : SamePrompt(e, log[s][i])
          \/ \E f \in E : SamePrompt(e, f)
      BY <3>1 DEF FollowsWith
    <3> QED
      BY <3>1, <3>2 DEF SamePrompt
  <2> QED
    BY <2>1, <2>2, <2>3, <2>4
<1> QED
  BY <1>1, <1>2, <1>3 DEF PromptsFit, TurnsFit

\* How a delivery comes to a session: as a prompt, in a call given up on, or in a visit.
LEMMA LoggedBack ==
  ASSUME Stepped, NEW d, d # 0, NEW s \in Sessions, Logged(d, s)'
  PROVE  \/ Logged(d, s) \/ OnItsWay(d, s)
         \/ \E r \in Runtimes : pump[r].d = d /\ pump[r].s = s /\ pump[r].pc = "prompt"
<1>1. PICK k \in 1 .. Len(log'[s]) : log'[s][k].d = d
  BY DEF Logged
<1>2. PICK E : /\ FollowsWith(log[s], log'[s], E)
               /\ \A f \in E : f.d = 0 \/ \E p \in Prompting : p.s = s /\ SamePrompt(f, Prompt(p))
  BY DEF Stepped, LogsStep, LogStep
<1>3. CASE \E i \in 1 .. Len(log[s]) : SamePrompt(log'[s][k], log[s][i])
  BY <1>1, <1>3 DEF SamePrompt, Logged
<1>4. CASE \E f \in E : SamePrompt(log'[s][k], f)
  <2>1. PICK f \in E : SamePrompt(log'[s][k], f)
    BY <1>4
  <2>2. PICK p \in Prompting : p.s = s /\ SamePrompt(f, Prompt(p))
    BY <1>1, <1>2, <2>1 DEF SamePrompt
  <2>3. p.d = d
    BY <1>1, <2>1, <2>2 DEF SamePrompt, Prompt, Turn
  <2> QED
    BY <2>2, <2>3 DEF Prompting, OnItsWay
<1> QED
  BY <1>2, <1>3, <1>4 DEF FollowsWith

LEMMA OnItsWayBack ==
  ASSUME Stepped, NEW d, NEW s, OnItsWay(d, s)'
  PROVE  \/ OnItsWay(d, s)
         \/ \E r \in Runtimes : pump[r].d = d /\ pump[r].s = s /\ pump[r].pc = "prompt"
BY DEF Stepped, LatesStep, OnItsWay

LEMMA ReachedBack ==
  ASSUME Stepped, NEW d \in Nat, d # 0, NEW s \in Sessions, Reached(d, s)'
  PROVE  \/ Reached(d, s)
         \/ \E r \in Runtimes : /\ ReservedRightly(r) /\ d = nextD
                                /\ pump[r].s # NoSession /\ pump'[r].pc # "create"
         \/ \E r \in Runtimes : /\ pump[r].pc = "create" /\ pump'[r].pc # "create"
                                /\ CarriesOn(pump[r], pump'[r]) /\ pump[r].d = d /\ s = d
<1>1. CASE Logged(d, s)' \/ OnItsWay(d, s)'
  BY <1>1, LoggedBack, OnItsWayBack DEF Reached
<1>2. ASSUME NEW r \in Runtimes, pump'[r].d = d, pump'[r].s = s, pump'[r].pc # "create"
      PROVE  \/ Reached(d, s)
             \/ ReservedRightly(r) /\ d = nextD /\ pump[r].s # NoSession
             \/ pump[r].pc = "create" /\ CarriesOn(pump[r], pump'[r]) /\ pump[r].d = d /\ s = d
  <2>0. VisitStep(r) /\ PumpOK(r)
    BY DEF Stepped, VisitSteps, StateOK
  <2>1. CASE pump'[r] = pump[r]
    BY <1>2, <2>1 DEF Reached
  <2>2. CASE CarriesOn(pump[r], pump'[r])
    <3>1. CASE pump[r].pc = "create"
      BY <1>2, <2>2, <3>1 DEF CarriesOn
    <3>2. CASE pump[r].pc # "create"
      BY <1>2, <2>2, <3>2 DEF CarriesOn, Reached
    <3> QED
      BY <3>1, <3>2
  <2>3. CASE ReservedRightly(r)
    <3>1. pump'[r] = [pump[r] EXCEPT !.d = nextD, !.pc = IF pump[r].s = NoSession THEN "create" ELSE "check"]
      BY <2>3 DEF ReservedRightly, ReservedNow, Stepped, StateOK
    <3>2. pump'[r].d = nextD /\ pump'[r].pc = IF pump[r].s = NoSession THEN "create" ELSE "check"
      BY <2>0, <3>1 DEF PumpOK, PumpFields
    <3> QED
      BY <1>2, <2>3, <3>2
  <2> QED
    BY <1>2, <2>0, <2>1, <2>2, <2>3 DEF VisitStep, LooksNow
<1> QED
  BY <1>1, <1>2 DEF Reached

LEMMA SentBack ==
  ASSUME Stepped, NEW d \in Nat, d # 0, d < nextD, NEW s \in Sessions, Sent(d, s)'
  PROVE  \/ Sent(d, s)
         \/ \E r \in Runtimes : /\ pump[r].pc = "acquire" /\ pump[r].d = d /\ pump[r].s = s
                                /\ lease' = [lease EXCEPT ![s] = d]
<1>1. CASE Logged(d, s)' \/ OnItsWay(d, s)'
  BY <1>1, LoggedBack, OnItsWayBack DEF Sent
<1>2. ASSUME NEW r \in Runtimes, pump'[r].d = d, pump'[r].s = s, pump'[r].pc \in {"prompt", "reply", "after"}
      PROVE  \/ Sent(d, s)
             \/ pump[r].pc = "acquire" /\ pump[r].d = d /\ pump[r].s = s /\ lease' = [lease EXCEPT ![s] = d]
  <2>0. VisitStep(r) /\ PumpOK(r) /\ nextD \in Nat
    BY MovedOn DEF Stepped, VisitSteps, StateOK
  <2>1. CASE pump'[r] = pump[r]
    BY <1>2, <2>1 DEF Sent
  <2>2. CASE CarriesOn(pump[r], pump'[r])
    <3>1. pump[r].pc \in {"acquire", "prompt", "reply"} /\ pump[r].d = d /\ pump[r].s = s
      BY <1>2, <2>2 DEF CarriesOn
    <3>2. CASE pump[r].pc = "acquire"
      BY <2>2, <3>1, <3>2 DEF CarriesOn
    <3>3. CASE pump[r].pc \in {"prompt", "reply"}
      BY <3>1, <3>3 DEF Sent
    <3> QED
      BY <3>1, <3>2, <3>3
  <2>3. CASE ReservedRightly(r)
    <3>1. pump'[r] = [pump[r] EXCEPT !.d = nextD, !.pc = IF pump[r].s = NoSession THEN "create" ELSE "check"]
      BY <2>3 DEF ReservedRightly, ReservedNow, Stepped, StateOK
    <3>2. pump'[r].d = nextD
      BY <2>0, <3>1 DEF PumpOK, PumpFields
    <3> QED
      BY <1>2, <2>0, <3>2
  <2> QED
    BY <1>2, <2>0, <2>1, <2>2, <2>3 DEF VisitStep, LooksNow
<1> QED
  BY <1>1, <1>2 DEF Sent

\* A delivery that was not reserved yet has reached no session.
LEMMA NewReachesNothing ==
  ASSUME Stepped, LogsOK, PromptsFit, TurnsFit, NEW s \in Sessions
  PROVE  ~Reached(nextD, s) /\ ~Logged(nextD, s) /\ ~OnItsWay(nextD, s)
<1>0. nextD \in Nat /\ nextD > 0
  BY MovedOn DEF Stepped
<1>1. ~Logged(nextD, s)
  <2>1. ASSUME NEW i \in 1 .. Len(log[s])
        PROVE  log[s][i].d # nextD
    <3>1. log[s][i].d \in Nat
      BY TranscriptTyped DEF LogsOK, TurnRows
    <3>2. log[s][i].d # 0 => log[s][i].d < nextD
      BY DEF TurnsFit, FitsTurn, Fits
    <3> QED
      BY <1>0, <3>1, <3>2
  <2> QED
    BY <2>1 DEF Logged
<1>2. ~OnItsWay(nextD, s)
  <2>1. ASSUME NEW l \in late, l.p.d = nextD
        PROVE  FALSE
    <3>1. FitsPrompt(l.p)
      BY DEF PromptsFit
    <3>2. nextD < nextD
      BY <1>0, <2>1, <3>1 DEF FitsPrompt, Fits
    <3> QED
      BY <1>0, <3>2
  <2> QED
    BY <2>1 DEF OnItsWay
<1>3. ASSUME NEW r \in Runtimes
      PROVE  pump[r].d # nextD
  BY <1>0 DEF Stepped, StateOK, PumpOK
<1> QED
  BY <1>1, <1>2, <1>3 DEF Reached

\* Whatever a view saw before the step.
ReachedNext(d, s) ==
    \/ \E i \in 1 .. Len(log'[s]) : log'[s][i].d = d
    \/ \E l \in late' : l.p.d = d /\ l.p.s = s
    \/ \E r \in Runtimes : pump'[r].d = d /\ pump'[r].s = s /\ pump'[r].pc # "create"
ViewFitsNext(v) == v.d # 0 =>
    /\ v.d \in Nat /\ v.d < nextD' /\ v.s \in Sessions
    /\ \A t \in Teams, m \in Members : db'[t].del[m].id = v.d =>
        t = v.t /\ m = v.m /\ (ReachedNext(v.d, v.s) => db'[t].session[m] = v.s)

LEMMA ViewKept ==
  ASSUME Stepped, Creates, NEW v, ViewFits(v)
  PROVE  ViewFitsNext(v)
<1> DEFINE d == v.d
           s == v.s
<1> SUFFICES ASSUME d # 0
             PROVE  /\ d \in Nat /\ d < nextD' /\ s \in Sessions
                    /\ \A t \in Teams, m \in Members : db'[t].del[m].id = d =>
                         t = v.t /\ m = v.m /\ (Reached(d, s)' => db'[t].session[m] = s)
  BY DEF ViewFitsNext, ReachedNext, Reached, Logged, OnItsWay
<1>1. d < nextD /\ d < nextD' /\ s \in Sessions /\ d \in Nat
  BY MovedOn DEF ViewFits, Stepped
<1>2. ASSUME NEW t \in Teams, NEW m \in Members, db'[t].del[m].id = d
      PROVE  t = v.t /\ m = v.m /\ (Reached(d, s)' => db'[t].session[m] = s)
  <2>1. db[t].del[m].id = d
    BY <1>1, <1>2, DelBack DEF Stepped
  <2>2. t = v.t /\ m = v.m /\ (Reached(d, s) => db[t].session[m] = s)
    BY <2>1 DEF ViewFits
  <2>3. ASSUME Reached(d, s)
        PROVE  db'[t].session[m] = s
    <3>1. CellStep(t, m)
      BY Cells DEF Stepped
    <3>2. ~CellBound(t, m)
      BY <1>1, <2>1, <2>3 DEF CellBound, Creates, Unused
    <3>3. ~CellCreated(t, m)
      BY <1>2 DEF CellCreated
    <3> QED
      BY <2>2, <2>3, <3>1, <3>2, <3>3 DEF CellStep, CellSame, CellSettled
  <2>4. ASSUME NEW r \in Runtimes, pump[r].pc = "create", CarriesOn(pump[r], pump'[r]), pump[r].d = d, s = d
        PROVE  db'[t].session[m] = s
    <3>1. t = pump[r].v.t /\ m = pump[r].v.m
      BY <2>1, <2>4 DEF Stepped, DeliveryInv, CarriedInv
    <3> QED
      BY <2>1, <2>4, <3>1 DEF CarriesOn
  <2>5. d # nextD
    BY <1>1, MovedOn DEF Stepped
  <2> HIDE DEF d, s
  <2>6. Reached(d, s)' => db'[t].session[m] = s
    BY <1>1, <2>3, <2>4, <2>5, ReachedBack
  <2> QED
    BY <2>2, <2>6
<1> QED
  BY <1>1, <1>2

\* Reconcile() sees the record and the session as they are.
LEMMA ViewNow ==
  ASSUME StateOK, DeliveryInv, NEW r \in Runtimes, NEW t \in Teams, NEW m \in Members, CanObserve(r, t, m)
  PROVE  ViewFits(View(r, t, m))
<1> DEFINE v == View(r, t, m)
<1>1. v.d = db[t].del[m].id /\ v.s = db[t].session[m] /\ v.t = t /\ v.m = m
  BY DEF View
<1> HIDE DEF v
<1>2. db[t].session[m] \in Sessions
  BY RowTyped DEF CanObserve, RecordTyped
<1>3. db[t].del[m].id \in Nat
  BY DeliveryTyped
<1>4. ViewFits(v)
  BY <1>1, <1>2, <1>3 DEF ViewFits, DeliveryInv, IdsInv
<1> QED
  BY <1>4 DEF v

LEMMA ViewsKept ==
  ASSUME Stepped, ViewsFit, Creates
  PROVE  ViewsFit'
<1>1. ASSUME NEW r \in Runtimes, pump'[r].pc \in {"judge", "release"}
      PROVE  ViewFits(pump[r].v)'
  <2>0. VisitStep(r) /\ PumpOK(r) /\ PumpOK(r)'
    BY DEF Stepped, VisitSteps, StateOK
  <2>1. CASE pump[r].pc \in {"judge", "release"} /\ pump'[r].v = pump[r].v
    <3>1. ViewFits(pump[r].v)
      BY <2>1 DEF ViewsFit
    <3>2. ViewFitsNext(pump[r].v)
      BY <3>1, ViewKept
    <3> QED
      BY <2>1, <3>2 DEF ViewFits, ViewFitsNext, Reached, ReachedNext, Logged, OnItsWay
  <2>2. ASSUME NEW t \in Teams, NEW m \in Members, pump'[r].v = View(r, t, m), CanObserve(r, t, m)
        PROVE  ViewFits(pump[r].v)'
    <3>1. PICK v : v = View(r, t, m)
      OBVIOUS
    <3>2. ViewFits(v)
      BY <2>2, <3>1, ViewNow DEF Stepped
    <3>3. ViewFitsNext(v)
      BY <3>2, ViewKept
    <3>4. pump'[r].v = v
      BY <2>2, <3>1
    <3> QED
      BY <3>3, <3>4 DEF ViewFits, ViewFitsNext, Reached, ReachedNext, Logged, OnItsWay
  <2>3. CASE ~(pump[r].pc \in {"judge", "release"} /\ pump'[r].v = pump[r].v)
    <3>1. ~ReservedRightly(r)
      <4>1. ReservedRightly(r) => pump'[r].d = nextD /\ nextD # 0
        BY ReservedFits, MovedOn DEF Stepped
      <4>2. pump'[r].d = 0
        BY <1>1, <2>0 DEF PumpOK, Carrying
      <4> QED
        BY <4>1, <4>2
    <3>2. ~LooksNow(pump'[r]) /\ ~CarriesOn(pump[r], pump'[r])
      BY <1>1 DEF LooksNow, CarriesOn, Carrying
    <3>3. ViewsNow(pump'[r], r)
      BY <1>1, <2>0, <2>3, <3>1, <3>2 DEF VisitStep
    <3> QED
      BY <2>2, <3>3 DEF ViewsNow
  <2> QED
    BY <2>1, <2>3
<1>2. ASSUME NEW o \in Ops, op'[o].pc \in {"judge", "release"}
      PROVE  ViewFits(op[o].v)'
  <2>1. CASE op[o].pc \in {"judge", "release"} /\ op'[o].v = op[o].v
    <3>1. ViewFits(op[o].v)
      BY <2>1 DEF ViewsFit
    <3>2. ViewFitsNext(op[o].v)
      BY <3>1, ViewKept
    <3> QED
      BY <2>1, <3>2 DEF ViewFits, ViewFitsNext, Reached, ReachedNext, Logged, OnItsWay
  <2>2. ASSUME NEW r \in Runtimes, NEW t \in Teams, NEW m \in Members,
               op'[o].v = View(r, t, m), CanObserve(r, t, m)
        PROVE  ViewFits(op[o].v)'
    <3>1. PICK v : v = View(r, t, m)
      OBVIOUS
    <3>2. ViewFits(v)
      BY <2>2, <3>1, ViewNow DEF Stepped
    <3>3. ViewFitsNext(v)
      BY <3>2, ViewKept
    <3>4. op'[o].v = v
      BY <2>2, <3>1
    <3> QED
      BY <3>3, <3>4 DEF ViewFits, ViewFitsNext, Reached, ReachedNext, Logged, OnItsWay
  <2> QED
    BY <1>2, <2>1, <2>2 DEF Stepped, OpsStep, OpStepped
<1> QED
  BY <1>1, <1>2 DEF ViewsFit

\* What becomes of a member's session.
LEMMA SessionsMove ==
  ASSUME Stepped, Creates, Apart, NEW t \in Teams, NEW m \in Members
  PROVE  \/ db'[t].session[m] = db[t].session[m]
         \/ db'[t].session[m] \in {NoSession, UserSession}
         \/ \E r \in Runtimes : /\ pump[r].pc = "create" /\ pump'[r].pc # "create"
                                /\ pump[r].v.t = t /\ pump[r].v.m = m
                                /\ db'[t].session[m] = pump[r].d
<1>1. CellStep(t, m)
  BY Cells DEF Stepped
<1> QED
  BY <1>1 DEF CellStep, CellSame, CellSettled, CellBound, CellCreated

LEMMA CreatesKept ==
  ASSUME Stepped, LogsOK, PromptsFit, TurnsFit, Creates, Apart, Shown
  PROVE  Creates'
<1>0. nextD \in Nat /\ nextD > 0 /\ nextD <= nextD'
  BY MovedOn DEF Stepped
<1>1. ASSUME NEW r \in Runtimes
      PROVE  VisitStep(r) /\ PumpOK(r) /\ PumpOK(r)'
  BY DEF Stepped, VisitSteps, StateOK
<1>2. ASSUME NEW r \in Runtimes, pump'[r].pc \in {"reserve", "create"}
      PROVE  Fresh(pump[r])'
  <2>1. CASE pump'[r] = pump[r]
    BY <1>2, <2>1 DEF Creates, Fresh
  <2>2. CASE LooksNow(pump'[r])
    <3>1. PICK t \in Teams, m \in Members :
            /\ pump'[r].v.m = m /\ db[t].member[m] = "active"
            /\ pump'[r].s = db[t].session[m] /\ pump'[r].cursor = db[t].cursor[m]
      BY <2>2 DEF LooksNow
    <3>2. ASSUME db[t].session[m] = NoSession
          PROVE  db[t].cursor[m] = 0 /\ m # Lead
      <4>1. NoSession \notin Sessions /\ NoSession # UserSession
        BY DEF NoSession, Sessions, UserSession
      <4>2. db[t].cursor[m] \in Nat
        BY RowTyped DEF Stepped, RecordTyped
      <4>3. db[t].cursor[m] > 0 => FALSE
        BY <3>2, <4>1, <4>2 DEF Shown, ShownTo
      <4>4. m # Lead
        BY <3>1, <3>2, <4>1 DEF Apart, ApartFrom
      <4> QED
        BY <4>2, <4>3, <4>4
    <3> QED
      BY <3>1, <3>2 DEF Fresh
  <2>3. CASE ReservedRightly(r)
    <3> DEFINE q == [pump[r] EXCEPT !.d = nextD, !.pc = IF pump[r].s = NoSession THEN "create" ELSE "check"]
    <3>1. pump'[r] = q /\ pump[r].pc = "reserve"
      BY <2>3 DEF ReservedRightly, ReservedNow, Stepped, StateOK
    <3>2. q.s = pump[r].s /\ q.cursor = pump[r].cursor /\ q.v = pump[r].v
      BY <1>1 DEF PumpOK, PumpFields
    <3> HIDE DEF q
    <3> QED
      BY <3>1, <3>2 DEF Creates, Fresh
  <2>4. ~CarriesOn(pump[r], pump'[r])
    BY <1>2 DEF CarriesOn, Carrying
  <2> QED
    BY <1>1, <1>2, <2>1, <2>2, <2>3, <2>4 DEF VisitStep, ViewsNow
<1>3. ASSUME NEW r \in Runtimes, pump'[r].pc = "create"
      PROVE  \/ pump'[r] = pump[r] /\ pump[r].pc = "create"
             \/ ReservedRightly(r) /\ pump'[r].s = NoSession
  <2>1. CASE ReservedRightly(r)
    <3> DEFINE q == [pump[r] EXCEPT !.d = nextD, !.pc = IF pump[r].s = NoSession THEN "create" ELSE "check"]
    <3>1. pump'[r] = q
      BY <2>1 DEF ReservedRightly, ReservedNow, Stepped, StateOK
    <3>2. q.s = pump[r].s /\ q.pc = IF pump[r].s = NoSession THEN "create" ELSE "check"
      BY <1>1 DEF PumpOK, PumpFields
    <3> HIDE DEF q
    <3> QED
      BY <1>3, <2>1, <3>1, <3>2
  <2>2. ~CarriesOn(pump[r], pump'[r])
    BY <1>3 DEF CarriesOn
  <2> QED
    BY <1>1, <1>3, <2>1, <2>2 DEF VisitStep, ViewsNow, LooksNow
\* A session that was to be created is still new.
<1>4. ASSUME NEW r \in Runtimes, pump'[r] = pump[r], pump[r].pc = "create"
      PROVE  pump'[r].s = NoSession /\ Unused(r)'
  <2> DEFINE d == pump[r].d
  <2>1. d \in Nat /\ d # 0 /\ d < nextD /\ pump[r].s = NoSession /\ Unused(r)
    BY <1>1, <1>4 DEF PumpOK, Carrying, Creates
  <2>2. ASSUME NEW q \in Runtimes, q # r
        PROVE  pump'[q].d # d
    <3>1. pump[q].d # d
      BY <2>1, <2>2 DEF Unused
    <3>2. ReservedRightly(q) => pump'[q].d = nextD
      BY ReservedFits
    <3>3. VisitStep(q)
      BY <1>1
    <3> QED
      BY <1>0, <2>1, <3>1, <3>2, <3>3 DEF VisitStep, LooksNow, CarriesOn
  <2>3. ASSUME NEW t \in Teams, NEW m \in Members
        PROVE  db'[t].session[m] # d
    <3>1. db[t].session[m] # d
      BY <2>1 DEF Unused
    <3>2. ASSUME NEW q \in Runtimes, pump[q].pc = "create", pump'[q].pc # "create"
          PROVE  pump[q].d # d
      <4>1. q # r
        BY <1>4, <3>2
      <4> QED
        BY <2>1, <4>1 DEF Unused
    <3>3. d \notin {NoSession, UserSession}
      BY <2>1 DEF NoSession, UserSession
    <3> HIDE DEF d
    <3> QED
      BY <3>1, <3>2, <3>3, SessionsMove
  <2>4. ASSUME NEW s \in Sessions, NEW e \in Nat, e = d, Reached(e, s)'
        PROVE  FALSE
    <3>1. ~Reached(e, s) /\ e # 0 /\ e # nextD
      BY <2>1, <2>4, <1>0 DEF Unused
    <3>2. PICK q \in Runtimes : pump[q].pc = "create" /\ pump'[q].pc # "create" /\ pump[q].d = e
      BY <2>4, <3>1, ReachedBack
    <3>3. q # r
      BY <1>4, <3>2
    <3> QED
      BY <2>1, <2>4, <3>2, <3>3 DEF Unused
  <2>5. ASSUME NEW s \in Sessions
        PROVE  ~ReachedNext(d, s)
    <3>1. PICK e \in Nat : e = d
      BY <2>1
    <3>2. ~ReachedNext(e, s)
      BY <2>4, <3>1 DEF Reached, Logged, OnItsWay, ReachedNext
    <3> QED
      BY <3>1, <3>2
  <2> QED
    BY <1>4, <2>1, <2>2, <2>3, <2>5 DEF Unused, Reached, Logged, OnItsWay, ReachedNext
\* A delivery just reserved has the id of no session.
<1>5. ASSUME NEW r \in Runtimes, ReservedRightly(r), pump'[r].pc = "create"
      PROVE  Unused(r)'
  <2>1. pump'[r].d = nextD
    BY <1>5, ReservedFits
  <2>2. log' = log /\ late' = late /\ \A q \in Runtimes : q # r => pump'[q] = pump[q]
    BY <1>5 DEF ReservedRightly, ReservedNow, host, Stepped, StateOK
  <2>3. \A q \in Runtimes : pump[q].d # nextD
    BY <1>0, <1>1 DEF PumpOK
  <2>4. ASSUME NEW t \in Teams, NEW m \in Members
        PROVE  db'[t].session[m] # nextD
    <3>1. db[t].session[m] # nextD
      <4>1. db[t].session[m] < nextD /\ db[t].session[m] \in Sessions \cup {NoSession}
        BY RowTyped DEF Apart, ApartFrom, Stepped, RecordTyped
      <4>2. db[t].session[m] \in Int
        BY <4>1, TeamConstants DEF Sessions, NoSession
      <4> QED
        BY <1>0, <4>1, <4>2
    <3>2. nextD \notin {NoSession, UserSession}
      BY <1>0 DEF NoSession, UserSession
    <3> QED
      BY <2>3, <3>1, <3>2, SessionsMove
  <2>5. ASSUME NEW s \in Sessions
        PROVE  ~ReachedNext(nextD, s)
    <3>1. ~Logged(nextD, s) /\ ~OnItsWay(nextD, s)
      BY NewReachesNothing
    <3> QED
      BY <1>5, <2>2, <2>3, <3>1 DEF Logged, OnItsWay, ReachedNext
  <2> QED
    BY <2>1, <2>2, <2>3, <2>4, <2>5 DEF Unused, Reached, Logged, OnItsWay, ReachedNext
<1> QED
  BY <1>2, <1>3, <1>4, <1>5 DEF Creates

LEMMA ApartKept ==
  ASSUME Stepped, Creates, Apart
  PROVE  Apart'
<1>0. nextD \in Nat /\ nextD > 0 /\ nextD' \in Nat /\ nextD <= nextD'
  BY MovedOn DEF Stepped
<1>1. ASSUME NEW r \in Runtimes, pump[r].pc = "create"
      PROVE  pump[r].d \in Nat /\ pump[r].d # 0 /\ pump[r].d < nextD /\ pump[r].v.m # Lead /\ Unused(r)
  BY <1>1 DEF Stepped, StateOK, PumpOK, Carrying, Creates, Fresh
<1>2. ASSUME NEW t \in Teams, NEW m \in Members
      PROVE  db[t].session[m] \in Int /\ db[t].session[m] < nextD
  <2>1. db[t].session[m] \in Sessions \cup {NoSession}
    BY RowTyped DEF Stepped, RecordTyped
  <2> QED
    BY <2>1, TeamConstants DEF Sessions, NoSession, Apart, ApartFrom
<1>3. ASSUME NEW t \in Teams, NEW m \in Members
      PROVE  db'[t].session[m] < nextD'
  <2>1. CASE db'[t].session[m] = db[t].session[m]
    BY <1>0, <1>2, <2>1
  <2>2. CASE db'[t].session[m] \in {NoSession, UserSession}
    BY <1>0, <2>2 DEF NoSession, UserSession
  <2>3. ASSUME NEW r \in Runtimes, pump[r].pc = "create", db'[t].session[m] = pump[r].d
        PROVE  db'[t].session[m] < nextD'
    BY <1>0, <1>1, <2>3
  <2> QED
    BY <2>1, <2>2, <2>3, SessionsMove
<1>4. ASSUME NEW t \in Teams, NEW m \in Members
      PROVE  IF m = Lead
             THEN /\ db'[t].session[m] \in {NoSession, UserSession}
                  /\ db'[t].member[m] = "active" => db'[t].session[m] = UserSession
             ELSE db'[t].session[m] # UserSession
  <2>1. CellStep(t, m) /\ ApartFrom(t, m)
    BY Cells DEF Stepped, Apart
  <2>2. CASE CellSame(t, m)
    BY <2>1, <2>2 DEF CellSame, ApartFrom
  <2>3. CASE CellSettled(t, m)
    BY <2>1, <2>3 DEF CellSettled, ApartFrom
  <2>4. CASE CellBound(t, m)
    BY <1>1, <2>4 DEF CellBound, UserSession
  <2>5. CASE CellCreated(t, m)
    BY <2>5 DEF CellCreated, UserSession, NoSession
  <2> QED
    BY <2>1, <2>2, <2>3, <2>4, <2>5 DEF CellStep
<1>5. ASSUME NEW t \in Teams, NEW m \in Members, NEW u \in Teams, NEW n \in Members,
             db'[t].session[m] > 0, db'[u].session[n] = db'[t].session[m]
      PROVE  u = t /\ n = m
  <2>1. db'[t].session[m] \notin {NoSession, UserSession} /\ db'[u].session[n] \notin {NoSession, UserSession}
    BY <1>5 DEF NoSession, UserSession
  <2>2. CASE db'[t].session[m] = db[t].session[m] /\ db'[u].session[n] = db[u].session[n]
    BY <1>5, <2>2 DEF Apart, ApartFrom
  <2>3. ASSUME NEW r \in Runtimes, pump[r].pc = "create", pump[r].v.t = t, pump[r].v.m = m,
               db'[t].session[m] = pump[r].d
        PROVE  u = t /\ n = m
    <3>1. db[u].session[n] # pump[r].d /\ \A q \in Runtimes : q # r => pump[q].d # pump[r].d
      BY <1>1, <2>3 DEF Unused
    <3> QED
      BY <1>5, <2>1, <2>3, <3>1, SessionsMove
  <2>4. ASSUME NEW r \in Runtimes, pump[r].pc = "create", pump[r].v.t = u, pump[r].v.m = n,
               db'[u].session[n] = pump[r].d
        PROVE  u = t /\ n = m
    <3>1. db[t].session[m] # pump[r].d /\ \A q \in Runtimes : q # r => pump[q].d # pump[r].d
      BY <1>1, <2>4 DEF Unused
    <3>2. db'[t].session[m] = pump[r].d
      BY <1>5, <2>4
    <3>3. ASSUME NEW q \in Runtimes, pump[q].v.t = t, pump[q].v.m = m, db'[t].session[m] = pump[q].d
          PROVE  u = t /\ n = m
      BY <2>4, <3>1, <3>2, <3>3
    <3> QED
      BY <2>1, <3>1, <3>2, <3>3, SessionsMove
  <2> QED
    BY <2>1, <2>2, <2>3, <2>4, SessionsMove
<1> QED
  BY <1>3, <1>4, <1>5 DEF Apart, ApartFrom

-----------------------------------------------------------------------------
(* The lease of the user's session.                                        *)

\* It stays, is let go of for a delivery that is over, or is taken from one that is.
LeaseStep == LET held == lease[UserSession] IN
    \/ lease'[UserSession] = held
    \/ \A t \in Teams, m \in Members : db'[t].del[m].id # held
    \/ \E r \in Runtimes : /\ pump[r].pc = "acquire" /\ lease'[UserSession] = pump[r].d
                           /\ ~Held(UserSession, pump[r].d)

LEMMA LeaseLetGo ==
  ASSUME StateOK, NEW s, NEW d, Release(s, d),
         \A t \in Teams, m \in Members : db'[t].del[m].id = d => d = 0
  PROVE  LeaseStep
<1>1. DOMAIN lease = Sessions /\ UserSession \in Sessions
  BY TeamConstants DEF StateOK, HostOK, Sessions, UserSession
<1>2. lease' = [lease EXCEPT ![s] = IF @ = d THEN 0 ELSE @]
  BY DEF Release
<1> DEFINE lets == s = UserSession /\ lease[UserSession] = d /\ d # 0
<1>3. CASE lets
  <2>1. \A t \in Teams, m \in Members : db'[t].del[m].id # lease[UserSession]
    BY <1>3
  <2> QED
    BY <2>1 DEF LeaseStep
<1>4. CASE ~lets
  <2>1. lease'[UserSession] = lease[UserSession]
    BY <1>1, <1>2, <1>4
  <2> QED
    BY <2>1 DEF LeaseStep
<1> QED
  BY <1>3, <1>4

LEMMA SeenLease ==
  ASSUME StateOK, NEW v, ViewFits(v), ReleaseSeen(v), db' = db
  PROVE  LeaseStep
<1>1. CASE lease' = lease
  BY <1>1 DEF LeaseStep
<1>2. CASE v.d # 0 /\ db[v.t].del[v.m].id = 0 /\ Release(v.s, v.d)
  <2>1. \A t \in Teams, m \in Members : db'[t].del[m].id = v.d => v.d = 0
    BY <1>2 DEF ViewFits
  <2> QED
    BY <1>2, <2>1, LeaseLetGo
<1> QED
  BY <1>1, <1>2 DEF ReleaseSeen

\* A failed turn of the user's session drops the lead's delivery, which held it.
LEMMA ErrorLease ==
  ASSUME StateOK, DeliveryInv, Moved, Apart, NEW r \in Runtimes, NEW s \in Sessions, SessionError(r, s)
  PROVE  LeaseStep
<1> DEFINE hit(t) == {m \in ActiveMembers(db[t]) :
                         db[t].session[m] = s /\ db[t].status # "deleted" /\ ~Removing(r, t, m)}
           dropped == (UNION {{db[t].del[m].id : m \in hit(t)} : t \in Teams}) \ {0}
<1>1. lease' = [lease EXCEPT ![s] = IF @ \in dropped THEN 0 ELSE @]
  BY DEF SessionError
<1>2. \A t \in Teams : db'[t] = IF hit(t) = {} THEN db[t]
                                ELSE Fail(db[t], CHOOSE m \in hit(t) : TRUE, "event", TRUE)
  BY DEF SessionError
<1>3. DOMAIN lease = Sessions /\ UserSession \in Sessions
  BY TeamConstants DEF StateOK, HostOK, Sessions, UserSession
<1>4. CASE ~(s = UserSession /\ lease[UserSession] \in dropped)
  <2> HIDE DEF dropped
  <2>1. lease'[UserSession] = lease[UserSession]
    BY <1>1, <1>3, <1>4
  <2> QED
    BY <2>1 DEF LeaseStep
<1>5. CASE s = UserSession /\ lease[UserSession] \in dropped
  <2> DEFINE d == lease[UserSession]
  <2>1. PICK t \in Teams : \E m \in hit(t) : db[t].del[m].id = d /\ d # 0
    <3> HIDE DEF hit
    <3>1. d \in UNION {{db[t].del[m].id : m \in hit(t)} : t \in Teams} /\ d # 0
      BY <1>5
    <3> QED
      BY <3>1
  <2>2. /\ \A n \in hit(t) : n = Lead
        /\ db[t].del[Lead].id = d /\ d # 0
        /\ Lead \in Members /\ db[t].member[Lead] = "active" /\ db[t].status # "deleted"
    BY <1>5, <2>1 DEF Apart, ApartFrom, ActiveMembers, Members
  <2>3. hit(t) # {} /\ (CHOOSE n \in hit(t) : TRUE) = Lead
    BY <2>1, <2>2
  <2> HIDE DEF hit
  <2>4. db'[t] = Fail(db[t], Lead, "event", TRUE)
    BY <1>2, <2>3
  <2>5. FailDrops(db[t], Lead, TRUE)
    BY <2>1, <2>2 DEF FailDrops
  <2>6. Fail(db[t], Lead, "event", TRUE) =
          [db[t] EXCEPT !.error[Lead] = "event", !.del[Lead] = NoDelivery, !.turns = Less(@),
                        !.status = "paused"]
    BY <2>1, <2>2, <2>5 DEF Fail
  <2>7. db'[t].del[Lead].id = 0
    <3>1. RecordTyped(db[t])
      BY RowTyped
    <3>2. db'[t].del = [db[t].del EXCEPT ![Lead] = NoDelivery]
      BY <2>4, <2>6, <3>1 DEF RecordTyped, TeamFields
    <3>3. db'[t].del[Lead] = NoDelivery
      BY <2>2, <3>1, <3>2 DEF RecordTyped
    <3> QED
      BY <3>3 DEF NoDelivery
  <2> HIDE DEF d
  <2>8. ASSUME NEW u \in Teams, NEW n \in Members, db'[u].del[n].id = d
        PROVE  FALSE
    <3>1. d < nextD
      BY <2>1, <2>2 DEF DeliveryInv, IdsInv
    <3>2. db[u].del[n].id = d
      BY <2>1, <2>8, <3>1, DelBack
    <3>3. u = t /\ n = Lead
      BY <2>1, <2>2, <3>2 DEF DeliveryInv, IdsInv
    <3> QED
      BY <2>1, <2>7, <2>8, <3>3
  <2> QED
    BY <2>8 DEF LeaseStep, d
<1> QED
  BY <1>4, <1>5

LEMMA LeaseMove ==
  ASSUME StateOK, DeliveryInv, ViewsFit, Apart, Freed, Next
  PROVE  LeaseStep
<1>0. DOMAIN lease = Sessions /\ UserSession \in Sessions
  BY TeamConstants DEF StateOK, HostOK, Sessions, UserSession
<1>1. CASE lease' = lease
  BY <1>1 DEF LeaseStep
<1>2. ASSUME NEW r \in Runtimes, PumpAcquire(r)
      PROVE  LeaseStep
  <2>1. CASE lease' = [lease EXCEPT ![pump[r].s] = pump[r].d] /\ ~Held(pump[r].s, pump[r].d)
    <3>1. CASE pump[r].s = UserSession
      BY <1>0, <1>2, <2>1, <3>1 DEF LeaseStep, PumpAcquire
    <3>2. CASE pump[r].s # UserSession
      BY <2>1, <3>2 DEF LeaseStep
    <3> QED
      BY <3>1, <3>2
  <2> QED
    BY <1>1, <1>2, <2>1 DEF PumpAcquire
<1>3. ASSUME NEW r \in Runtimes, PumpRelease(r)
      PROVE  LeaseStep
  BY <1>3, SeenLease DEF PumpRelease, ViewsFit
<1>4. ASSUME NEW o \in Ops, OpRelease(o)
      PROVE  LeaseStep
  BY <1>4, SeenLease DEF OpRelease, At, ViewsFit
<1>5. ASSUME NEW o \in Ops, OpFree(o)
      PROVE  LeaseStep
  <2>1. op[o].pc = "free" /\ db' = db /\ (lease' = lease \/ \E s : Release(s, Freeing(o)))
    BY <1>5 DEF OpFree, At, Freeing
  <2>2. PICK d : d = Freeing(o)
    OBVIOUS
  <2>3. \A t \in Teams, m \in Members : db'[t].del[m].id = d => d = 0
    BY <2>1, <2>2 DEF Freed, FreedAt
  <2>4. ASSUME NEW s, Release(s, Freeing(o))
        PROVE  LeaseStep
    BY <2>2, <2>3, <2>4, LeaseLetGo
  <2> QED
    BY <1>1, <2>1, <2>4
<1>6. ASSUME NEW r \in Runtimes, NEW s \in Sessions, SessionError(r, s)
      PROVE  LeaseStep
  BY <1>6, DelsMove, ErrorLease DEF Moved
<1>7. ASSUME NEW r \in Runtimes, PumpQuietly(r) \/ PumpReserve(r) \/ PumpReply(r)
      PROVE  LeaseStep
  <2>1. PumpAcquire(r) \/ PumpRelease(r) \/ lease' = lease
    BY <1>7 DEF PumpQuietly, PumpReserve, PumpReply, PumpJudge, PumpCreate, PumpCheck, PumpPrompt, PumpAfter,
                PumpFault, PumpCreateFails, PumpReplyLost, PumpPromptFails, PumpExpire, PumpForget,
                PumpVisit, PumpObserve, PumpUnbindable, PumpLook
  <2> QED
    BY <1>1, <1>2, <1>3, <2>1
<1>8. CASE HostQuietly
  <2>1. (\E r \in Runtimes, s \in Sessions : SessionError(r, s)) \/ lease' = lease
    BY <1>8 DEF HostQuietly, Start, Restore, Crash, Stop, Disposed, Leave, LatePrompt, UserTurn,
                TurnStarts, TurnEnds
  <2> QED
    BY <1>1, <1>6, <2>1
<1>9. ASSUME NEW t \in Teams, MemberQuietly(t) \/ Create(t) \/ Settles(t)
      PROVE  LeaseStep
  BY <1>1, <1>9 DEF MemberQuietly, Create, Settles, SettleTask, Add, SendMessage, OfferTask, ClaimTask, ClaimLapses
<1>10. ASSUME NEW t \in Teams, Begins(t)
       PROVE  LeaseStep
  BY <1>1, <1>10, BeginsAre DEF Begin
<1>11. ASSUME NEW o \in Ops, OpQuietly(o) \/ OpEnd(o) \/ OpResume(o)
       PROVE  LeaseStep
  <2>1. OpRelease(o) \/ OpFree(o) \/ lease' = lease
    BY <1>11 DEF OpQuietly, OpEnd, OpResume, OpRead, OpCommit, OpForget, OpPrepared, OpJudge,
                 OpReconciled, OpAbort, OpPrepare, OpReconcile, OpSort
  <2> QED
    BY <1>1, <1>4, <1>5, <2>1
<1> QED
  BY <1>7, <1>8, <1>9, <1>10, <1>11, StepKinds

\* A delivery that is there was reserved before the step, or is reserved by it.
LEMMA Reservation ==
  ASSUME Stepped, NEW t \in Teams, NEW m \in Members, db'[t].del[m].id # 0
  PROVE  \/ db[t].del[m].id = db'[t].del[m].id /\ db[t].del[m].id < nextD
         \/ db'[t].del[m].id = nextD /\ \E r \in Runtimes : ReservedRightly(r)
<1>1. CASE DelsKept
  BY <1>1 DEF DelsKept, Stepped, DeliveryInv, IdsInv
<1>2. ASSUME NEW r \in Runtimes, ReservedRightly(r)
      PROVE  \/ db'[t].del[m].id = db[t].del[m].id
             \/ db'[t].del[m].id = nextD
  <2>1. ReservedNow(r) /\ RecordTyped(db[t])
    BY <1>2, RowTyped DEF ReservedRightly, Stepped
  <2>2. Reserved(r).id = nextD
    BY DEF Reserved
  <2>3. CASE t = pump[r].v.t
    <3>1. db'[t].del = [db[t].del EXCEPT ![pump[r].v.m] = Reserved(r)]
      BY <2>1, <2>3 DEF ReservedNow
    <3> QED
      BY <2>1, <2>2, <3>1 DEF RecordTyped
  <2>4. CASE t # pump[r].v.t
    BY <2>1, <2>4 DEF ReservedNow
  <2> QED
    BY <2>3, <2>4
<1> QED
  BY <1>1, <1>2 DEF Stepped, Moved, DeliveryInv, IdsInv

LEMMA LeasedKept ==
  ASSUME Stepped, LogsOK, PromptsFit, TurnsFit, Leased, LeaseStep
  PROVE  Leased'
<1>0. /\ DOMAIN lease = Sessions /\ UserSession \in Sessions
      /\ nextD \in Nat /\ nextD > 0
  BY MovedOn, TeamConstants DEF Stepped, StateOK, HostOK, Sessions, UserSession
<1>1. ASSUME NEW t \in Teams, NEW m \in Members, NEW d, d = db'[t].del[m].id, d # 0, Sent(d, UserSession)'
      PROVE  lease'[UserSession] = d
  <2>1. CASE d = nextD /\ \E r \in Runtimes : ReservedRightly(r)
    <3>1. PICK r \in Runtimes : ReservedRightly(r)
      BY <2>1
    <3>2. log' = log /\ late' = late /\ \A q \in Runtimes : q # r => pump'[q] = pump[q]
      BY <3>1 DEF ReservedRightly, ReservedNow, host, Stepped, StateOK
    <3>3. pump'[r].pc \in {"create", "check"}
      <4>1. /\ pump'[r] = [pump[r] EXCEPT !.d = nextD, !.pc = IF pump[r].s = NoSession THEN "create" ELSE "check"]
            /\ PumpOK(r)
        BY <3>1 DEF ReservedRightly, ReservedNow, Stepped, StateOK
      <4> QED
        BY <4>1 DEF PumpOK, PumpFields
    <3>4. \A q \in Runtimes : pump[q].d # nextD
      BY <1>0 DEF Stepped, StateOK, PumpOK
    <3>5. ~Logged(nextD, UserSession) /\ ~OnItsWay(nextD, UserSession)
      BY <1>0, NewReachesNothing
    <3> QED
      BY <1>1, <2>1, <3>2, <3>3, <3>4, <3>5 DEF Sent, Logged, OnItsWay
  <2>2. CASE db[t].del[m].id = d /\ d < nextD
    <3>0. d \in Nat /\ Outstanding(d)
      BY <1>1, <2>2, DeliveryTyped DEF Outstanding, Stepped
    <3>1. CASE Sent(d, UserSession)
      <4>1. lease[UserSession] = d
        BY <1>1, <2>2, <3>1 DEF Leased
      <4> QED
        BY <1>1, <3>0, <4>1 DEF LeaseStep, Held
    <3>2. ASSUME NEW r \in Runtimes, lease' = [lease EXCEPT ![UserSession] = d]
          PROVE  lease'[UserSession] = d
      BY <1>0, <3>2
    <3> QED
      BY <1>0, <1>1, <2>2, <3>0, <3>1, <3>2, SentBack
  <2> QED
    BY <1>1, <2>1, <2>2, Reservation
<1>2. ASSUME NEW t \in Teams, NEW m \in Members, db'[t].del[m].id # 0, Sent(db[t].del[m].id, UserSession)'
      PROVE  lease'[UserSession] = db'[t].del[m].id
  <2>1. PICK d : d = db'[t].del[m].id
    OBVIOUS
  <2>2. Sent(d, UserSession)'
    BY <1>2, <2>1 DEF Sent, Logged, OnItsWay
  <2> QED
    BY <1>1, <1>2, <2>1, <2>2
<1> QED
  BY <1>2 DEF Leased

LEMMA FreedKept ==
  ASSUME Stepped, Freed
  PROVE  Freed'
<1>0. nextD \in Nat /\ nextD' \in Nat /\ nextD <= nextD' /\ nextD > 0
  BY MovedOn DEF Stepped
<1>1. ASSUME NEW d \in Nat, d < nextD, \A t \in Teams, m \in Members : d # 0 => db[t].del[m].id # d
      PROVE  d < nextD' /\ \A t \in Teams, m \in Members : d # 0 => db'[t].del[m].id # d
  <2>1. ASSUME NEW t \in Teams, NEW m \in Members, d # 0, db'[t].del[m].id = d
        PROVE  FALSE
    <3>1. db[t].del[m].id = d
      BY <1>1, <2>1, DelBack DEF Stepped
    <3> QED
      BY <1>1, <2>1, <3>1
  <2> QED
    BY <1>0, <1>1, <2>1
<1>2. ASSUME NEW o \in Ops, op'[o].pc = "free"
      PROVE  FreedAt(o)'
  <2>1. PICK d : d = Freeing(o)'
    OBVIOUS
  <2>2. CASE op[o].pc = "free" /\ Freeing(o)' = Freeing(o)
    <3>1. d \in Nat /\ d < nextD /\ \A t \in Teams, m \in Members : d # 0 => db[t].del[m].id # d
      BY <1>0, <2>1, <2>2 DEF Freed, FreedAt
    <3>2. d < nextD' /\ \A t \in Teams, m \in Members : d # 0 => db'[t].del[m].id # d
      BY <1>1, <3>1
    <3> QED
      BY <2>1, <3>1, <3>2 DEF FreedAt
  <2>3. ASSUME NEW t \in Teams, NEW m \in Members, db[t].del[m].id = d, db'[t].del[m].id = 0
        PROVE  FreedAt(o)'
    <3>1. d \in Nat /\ (d # 0 => d < nextD)
      BY <2>3, DeliveryTyped DEF Stepped, DeliveryInv, IdsInv
    <3>2. ASSUME NEW u \in Teams, NEW n \in Members, d # 0, db'[u].del[n].id = d
          PROVE  FALSE
      <4>1. db[u].del[n].id = d
        BY <3>1, <3>2, DelBack DEF Stepped
      <4>2. u = t /\ n = m
        BY <2>3, <3>2, <4>1 DEF Stepped, DeliveryInv, IdsInv
      <4> QED
        BY <2>3, <3>2, <4>2
    <3>3. d < nextD'
      BY <1>0, <3>1
    <3> QED
      BY <2>1, <3>1, <3>2, <3>3 DEF FreedAt
  <2> QED
    BY <1>2, <2>1, <2>2, <2>3 DEF Stepped, OpsStep, OpStepped
<1> QED
  BY <1>2 DEF Freed

-----------------------------------------------------------------------------
(* The cursor.                                                             *)

\* The last turn of a transcript that started is the greatest that did.
LEMMA LastFacts ==
  ASSUME NEW s, Transcript(log[s]), Started(s) # {}
  PROVE  LastStarted(s) \in Started(s) /\ \A j \in Started(s) : j <= LastStarted(s)
<1> DEFINE K == Started(s)
           n == Len(log[s])
<1>1. n \in Nat /\ K \in SUBSET (1 .. n) /\ K # {}
  BY TranscriptTyped DEF Started
<1>2. LastStarted(s) = CHOOSE i \in K : \A j \in K : j <= i
  BY DEF LastStarted
<1> HIDE DEF K, n
<1>3. /\ \A i \in K : Rank(K, i) \in 1 .. Cardinality(K)
      /\ \A i, j \in K : i < j => Rank(K, i) < Rank(K, j)
      /\ \A k \in 1 .. Cardinality(K) : \E i \in K : Rank(K, i) = k
      /\ Cardinality(K) \in Nat
  BY <1>1, PlaceFacts
<1>4. Cardinality(K) \in 1 .. Cardinality(K)
  <2>1. PICK i \in K : i = i
    BY <1>1
  <2> QED
    BY <1>3, <2>1
<1>5. PICK i \in K : Rank(K, i) = Cardinality(K)
  BY <1>3, <1>4
<1>6. \A j \in K : j <= i
  <2> SUFFICES ASSUME NEW j \in K, ~(j <= i) PROVE FALSE
    OBVIOUS
  <2>1. i < j
    BY <1>1
  <2>2. Rank(K, i) < Rank(K, j) /\ Rank(K, j) \in 1 .. Cardinality(K)
    BY <1>3, <2>1
  <2> QED
    BY <1>3, <1>5, <2>2
<1> QED
  BY <1>2, <1>6 DEF K

\* The turn that reconcile() settles a delivery by is over.
LEMMA DeliveredIsOver ==
  ASSUME LogsOK, NEW v, v.s \in Sessions, Delivered(v)
  PROVE  \E j \in 1 .. Len(log[v.s]) : log[v.s][j].d = v.d /\ log[v.s][j].st \in Over
<1> DEFINE s == v.s
           i == FinalTurn(s)
<1>1. PICK j \in Started(s) : log[s][j].d = v.d /\ j <= i
  BY DEF Delivered
<1>2. Transcript(log[s]) /\ Len(log[s]) \in Nat
  BY TranscriptTyped DEF LogsOK
<1>3. i = LastStarted(s) /\ log[s][i].st \in {"ok", "failed"}
  BY DEF FinalTurn, Delivered
<1>4. i \in Started(s)
  BY <1>1, <1>2, <1>3, LastFacts
<1>5. i \in 1 .. Len(log[s]) /\ j \in 1 .. Len(log[s])
  BY <1>1, <1>4 DEF Started
<1> HIDE DEF i, s
<1>6. CASE j = i
  BY <1>1, <1>3, <1>5, <1>6 DEF Over, s
<1>7. CASE j # i
  <2>1. j \in 1 .. i - 1
    BY <1>1, <1>2, <1>5, <1>7
  <2>2. log[s][i].st # "queued"
    BY <1>3
  <2>3. log[s][j].st \in Over
    BY <1>2, <1>5, <2>1, <2>2 DEF Transcript, Ordered
  <2> QED
    BY <1>1, <1>5, <2>3 DEF s
<1> QED
  BY <1>6, <1>7

LEMMA ShownKept ==
  ASSUME Stepped, LogsOK, PromptsFit, TurnsFit, ViewsFit, Creates, Shown
  PROVE  Shown'
<1>0. ASSUME NEW s \in Sessions, NEW i \in 1 .. Len(log[s]), log[s][i].st \in Over
      PROVE  \E j \in 1 .. Len(log'[s]) : log'[s][j] = log[s][i]
  BY <1>0 DEF Stepped, LogsStep, LogStep, FollowsWith
<1>1. ASSUME NEW t \in Teams, NEW m \in Members, NEW k \in 1 .. db'[t].cursor[m], NEW s, s = db'[t].session[m]
      PROVE  s \in Sessions /\ \E i \in 1 .. Len(log'[s]) : ShowsAt(log'[s][i], t, m, k)
  <2>0. CellStep(t, m) /\ RecordTyped(db[t]) /\ db[t].cursor[m] \in Nat
    BY Cells, RowTyped DEF Stepped, RecordTyped
  <2>1. ASSUME k <= db[t].cursor[m], s = db[t].session[m]
        PROVE  s \in Sessions /\ \E i \in 1 .. Len(log'[s]) : ShowsAt(log'[s][i], t, m, k)
    <3>1. k \in 1 .. db[t].cursor[m]
      BY <2>0, <2>1
    <3>2. s \in Sessions /\ \E i \in 1 .. Len(log[s]) : ShowsAt(log[s][i], t, m, k)
      BY <2>1, <3>1 DEF Shown, ShownTo
    <3>3. PICK i \in 1 .. Len(log[s]) : ShowsAt(log[s][i], t, m, k)
      BY <3>2
    <3>4. PICK j \in 1 .. Len(log'[s]) : log'[s][j] = log[s][i]
      BY <1>0, <3>2, <3>3 DEF ShowsAt
    <3> QED
      BY <3>2, <3>3, <3>4
  <2>2. CASE CellSame(t, m)
    BY <1>1, <2>0, <2>1, <2>2 DEF CellSame
  <2>3. CASE CellSettled(t, m) /\ ~(k <= db[t].cursor[m])
    <3>1. PICK v \in Judged :
            /\ v.t = t /\ v.m = m /\ v.d # 0 /\ db[t].del[m].id = v.d /\ Delivered(v)
            /\ db'[t].session[m] = db[t].session[m] /\ db'[t].cursor[m] = db[t].del[m].through
      BY <2>3 DEF CellSettled
    <3>2. ViewFits(v)
      BY DEF Judged, ViewsFit
    <3>3. v.s \in Sessions /\ (Reached(v.d, v.s) => db[t].session[m] = v.s)
      BY <3>1, <3>2 DEF ViewFits
    <3>4. PICK j \in 1 .. Len(log[v.s]) : log[v.s][j].d = v.d /\ log[v.s][j].st \in Over
      BY <3>1, <3>3, DeliveredIsOver
    <3>5. s = v.s
      BY <1>1, <3>1, <3>3, <3>4 DEF Reached, Logged
    <3> DEFINE e == log[v.s][j]
    <3>6. FitsTurn(e)
      BY <3>3 DEF TurnsFit
    <3>7. e.t = t /\ e.m = m /\ db[t].cursor[m] = e.from /\ db[t].del[m].through = e.through
      BY <3>1, <3>4, <3>6 DEF FitsTurn, Fits
    <3>8. e.from < k /\ k <= e.through
      <4>1. db'[t].cursor[m] = e.through /\ db[t].cursor[m] = e.from
        BY <3>1, <3>7
      <4>2. k \in Nat /\ k <= db'[t].cursor[m]
        <5>1. db[t].del[m].through \in Nat
          BY DeliveryTyped DEF DeliveryRows, Stepped
        <5> QED
          BY <3>1, <5>1
      <4> HIDE DEF e
      <4> QED
        BY <2>0, <2>3, <4>1, <4>2
    <3>9. ShowsAt(e, t, m, k)
      BY <3>4, <3>7, <3>8 DEF ShowsAt
    <3>10. PICK i \in 1 .. Len(log'[v.s]) : log'[v.s][i] = e
      BY <1>0, <3>3, <3>4
    <3> QED
      BY <3>3, <3>5, <3>9, <3>10
  <2>4. CASE CellSettled(t, m) /\ k <= db[t].cursor[m]
    BY <1>1, <2>1, <2>4 DEF CellSettled
  <2>5. ASSUME NEW r \in Runtimes, pump[r].pc = "create", pump[r].v.t = t, pump[r].v.m = m,
               db[t].del[m].id = pump[r].d, db'[t].cursor[m] = db[t].cursor[m]
        PROVE  FALSE
    <3>1. pump[r].d # 0 /\ FitsPrompt(pump[r]) /\ pump[r].cursor = 0
      BY <2>5 DEF Stepped, StateOK, PumpOK, Carrying, PromptsFit, Creates, Fresh
    <3>2. db'[t].cursor[m] = 0
      BY <2>5, <3>1 DEF FitsPrompt, Fits
    <3> QED
      BY <3>2
  <2>6. CASE CellCreated(t, m)
    BY <2>6 DEF CellCreated
  <2> QED
    BY <2>0, <2>2, <2>3, <2>4, <2>5, <2>6 DEF CellStep, CellBound
<1> QED
  BY <1>1 DEF Shown, ShownTo

-----------------------------------------------------------------------------
(* The invariant and the theorems.                                         *)

LEMMA SessionKept == StateOK /\ DeliveryInv /\ SessionInv /\ StateOK' /\ [Next]_vars => SessionInv'
<1> SUFFICES ASSUME StateOK, DeliveryInv, SessionInv, StateOK', [Next]_vars PROVE SessionInv'
  OBVIOUS
<1> USE DEF SessionInv
<1>1. CASE UNCHANGED vars
  <2>1. /\ LogsOK' /\ VisitsTyped' /\ LatesTyped'
    BY <1>1 DEF vars, LogsOK, VisitsTyped, LatesTyped
  <2>2. PromptsFit' /\ TurnsFit'
    BY <1>1 DEF vars, PromptsFit, TurnsFit, FitsPrompt, FitsTurn, Fits
  <2>3. ViewsFit' /\ Creates'
    BY <1>1 DEF vars, ViewsFit, ViewFits, Creates, Fresh, Unused, Reached, Logged, OnItsWay
  <2>4. Apart' /\ Leased' /\ Freed' /\ Shown'
    BY <1>1 DEF vars, Apart, ApartFrom, Leased, Sent, Logged, OnItsWay, Freed, FreedAt, Freeing,
                Shown, ShownTo
  <2> QED
    BY <2>1, <2>2, <2>3, <2>4
<1>2. CASE Next
  <2>1. Stepped
    BY <1>2, RowsMove, DelsMove, LogsMove, VisitsMove, LatesMove, OpsMove DEF Stepped, Moved
  <2>2. LeaseStep
    BY <1>2, LeaseMove
  <2>3. LogsOK' /\ VisitsTyped' /\ LatesTyped' /\ PromptsFit' /\ TurnsFit'
    BY <2>1, TypesKept, FitsMove
  <2>4. ViewsFit' /\ Creates' /\ Apart'
    BY <2>1, ViewsKept, CreatesKept, ApartKept
  <2>5. Leased' /\ Freed' /\ Shown'
    BY <2>1, <2>2, LeasedKept, FreedKept, ShownKept
  <2> QED
    BY <2>3, <2>4, <2>5
<1> QED
  BY <1>1, <1>2

LEMMA InitSessions == Init => SessionInv
<1> SUFFICES ASSUME Init PROVE SessionInv
  OBVIOUS
<1>1. /\ nextD = 1 /\ late = {} /\ DOMAIN log = Sessions /\ \A s \in Sessions : log[s] = <<>>
      /\ \A r \in Runtimes : pump[r] = IdlePump
      /\ \A o \in Ops : op[o] = NewOp
      /\ \A t \in Teams : db[t] = NewTeam
  BY DEF Init
<1>2. LogsOK
  <2>1. Transcript(<<>>)
    BY DEF Transcript, Ordered
  <2> QED
    BY <1>1, <2>1 DEF LogsOK
<1>3. VisitsTyped /\ LatesTyped /\ ViewsFit /\ Creates /\ Freed
  BY <1>1, IdlePumpFields, NewOpFields DEF VisitsTyped, LatesTyped, ViewsFit, Creates, Freed, Carrying
<1>4. PromptsFit /\ TurnsFit
  <2>1. \A s \in Sessions : 1 .. Len(log[s]) = {}
    BY <1>1
  <2> QED
    BY <1>1, <2>1, IdlePumpFields DEF PromptsFit, TurnsFit, FitsPrompt, Fits
<1>5. \A t \in Teams, m \in Members : /\ db[t].session[m] = NoSession /\ db[t].cursor[m] = 0
                                      /\ db[t].member[m] = "absent" /\ db[t].del[m].id = 0
  BY <1>1 DEF NewTeam, NoDelivery
<1>6. Apart
  BY <1>1, <1>5 DEF Apart, ApartFrom, NoSession, UserSession
<1>7. Leased /\ Shown
  BY <1>5 DEF Leased, Shown, ShownTo
<1> QED
  BY <1>2, <1>3, <1>4, <1>6, <1>7 DEF SessionInv

LEMMA SessionHolds == Spec => []SessionInv
BY InitSessions, StateHolds, DeliveryHolds, SessionKept, PTL DEF Spec

\* A member's cursor never passes an event it was not shown: whatever crashes, takeovers,
\* late prompts and stale reads came between, every event up to the cursor was in the prompt
\* of a turn of that member, in its session, that is over.
THEOREM NothingIsSkipped == Spec => []NothingSkipped
<1>1. StateOK /\ SessionInv => NothingSkipped
  <2> SUFFICES ASSUME StateOK, SessionInv, NEW t \in Teams, NEW m \in Members, NEW k \in 1 .. db[t].cursor[m]
               PROVE  \E i \in 1 .. Len(log[db[t].session[m]]) :
                        LET e == log[db[t].session[m]][i] IN
                        e.t = t /\ e.m = m /\ e.from < k /\ k <= e.through /\ e.st \in {"ok", "failed", "lost"}
    BY DEF NothingSkipped
  <2> QED
    BY DEF SessionInv, Shown, ShownTo, ShowsAt, Over
<1> QED
  BY <1>1, StateHolds, SessionHolds, PTL

\* Two coordinators never prompt one session at a time: a managed session is one member's
\* only, and in the user's session, which every team's lead shares, whatever was issued for an
\* outstanding delivery holds the lease.
THEOREM OneCoordinator == Spec => []SoleCoordinator
<1>1. StateOK /\ SessionInv => SoleCoordinator
  <2> SUFFICES ASSUME StateOK, SessionInv, NEW t \in Teams, NEW u \in Teams, NEW m \in Members, NEW n \in Members,
                      NEW s, s = db[t].session[m], NEW d, d = db[t].del[m].id, NEW e, e = db[u].del[n].id,
                      d # 0, e # 0, s # NoSession, s = db[u].session[n], Issued(d, s), Issued(e, s)
               PROVE  d = e
    BY DEF SoleCoordinator
  <2>1. s \in Int /\ s >= 0
    <3>1. s \in Sessions
      BY RowTyped DEF RecordTyped
    <3> QED
      BY <3>1, TeamConstants DEF Sessions
  <2>2. CASE s > 0
    <3>1. ApartFrom(t, m)
      BY DEF SessionInv, Apart
    <3>2. u = t /\ n = m
      BY <2>2, <3>1 DEF ApartFrom
    <3> QED
      BY <3>2
  <2>3. CASE s = UserSession
    <3>1. Sent(d, UserSession) /\ Sent(e, UserSession)
      BY <2>3 DEF Issued, Sent, Logged
    <3> QED
      BY <3>1 DEF SessionInv, Leased
  <2> QED
    BY <2>1, <2>2, <2>3 DEF UserSession
<1> QED
  BY <1>1, StateHolds, SessionHolds, PTL
=============================================================================
