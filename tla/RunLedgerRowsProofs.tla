------------------------ MODULE RunLedgerRowsProofs -------------------------
(***************************************************************************)
(* More theorems about RunLedger: the snapshot, the rows of the ledger and *)
(* the executions on the platform agree, for any graph, any number of      *)
(* processes and any set of trusted commands.                              *)
(***************************************************************************)
EXTENDS RunLedgerProofs

-----------------------------------------------------------------------------
(* Numbers are handed out one per node.                                    *)

LEMMA RankMonotone ==
  ASSUME NEW S, S \subseteq Nodes, NEW m \in S, NEW n \in S, m < n
  PROVE  Rank(S, m) < Rank(S, n)
<1> DEFINE A == {k \in S : k <= m}
           B == {k \in S : k <= n}
<1>1. S \subseteq Nat /\ IsFiniteSet(S)
  BY FS_Subset, NodesAssumption
<1>2. A \in SUBSET B /\ B \in SUBSET S /\ n \in B /\ n \notin A
  <2>1. \A k \in S : k \in Nat /\ (k <= m => k <= n)
    BY <1>1
  <2>2. n <= n /\ ~ (n <= m)
    BY <1>1
  <2> QED
    BY <2>1, <2>2
<1>3. IsFiniteSet(B)
  BY <1>1, <1>2, FS_Subset
<1>4. IsFiniteSet(A) /\ Cardinality(A) <= Cardinality(B) /\ Cardinality(A) # Cardinality(B)
  BY <1>2, <1>3, FS_Subset
<1>5. Cardinality(A) \in Nat /\ Cardinality(B) \in Nat
  BY <1>3, <1>4, FS_CardinalityType
<1>6. Cardinality(A) < Cardinality(B)
  BY <1>4, <1>5
<1> QED
  BY <1>6 DEF Rank

\* The number of a node leads back to the node.
LEMMA NumberLeadsBack ==
  ASSUME NEW S, S \subseteq Nodes, NEW base \in Nat, NEW n \in S
  PROVE  NodeOfNumber(S, base, base + Rank(S, n)) = n
<1>1. \A k \in S : k \in Nat /\ Rank(S, k) \in Nat
  <2>1. \A k \in S : Rank(S, k) \in 1 .. Cardinality(S)
    BY RankBounds
  <2>2. Cardinality(S) \in Nat /\ S \subseteq Nat
    BY CardNodes, NodesAssumption
  <2> QED
    BY <2>1, <2>2
<1>2. ASSUME NEW k \in S, base + Rank(S, k) = base + Rank(S, n)
      PROVE  k = n
  <2>1. Rank(S, k) = Rank(S, n)
    BY <1>1, <1>2
  <2>2. ~ (k < n) /\ ~ (n < k)
    BY <1>1, <2>1, RankMonotone
  <2> QED
    BY <1>1, <2>2
<1> QED
  BY <1>2 DEF NodeOfNumber

\* What minting the nodes of S writes, seen from an attempt.
MintWrites(S, base, r, effects, claims) ==
    /\ Numbered(S, base) \subseteq Attempts
    /\ \A a \in Numbered(S, base) : a > base
    /\ \A n \in S : /\ base + Rank(S, n) \in Numbered(S, base)
                    /\ nodeOf'[base + Rank(S, n)] = n
    /\ \A a \in Numbered(S, base) : /\ runOf'[a] = r
                                    /\ nodeOf'[a] \in S
                                    /\ a = base + Rank(S, nodeOf'[a])
                                    /\ verifier'[a] = verifier[a] + 1
    /\ \A a \in Attempts \ Numbered(S, base) :
         /\ runOf'[a] = runOf[a] /\ nodeOf'[a] = nodeOf[a]
         /\ verifier'[a] = verifier[a]
    /\ \A a \in Attempts :
         /\ effect'[a] = IF a \in Numbered(S, base) /\ effects[a] = "none"
                         THEN "pending" ELSE effects[a]
         /\ claim'[a] = IF a \in Numbered(S, base) /\ claims[a] = "none"
                        THEN "reserved" ELSE claims[a]

LEMMA MintFacts ==
  ASSUME NEW S, S \subseteq Nodes, NEW base \in Nat, Fits(S, base), NEW r, NEW p,
         NEW effects, NEW claims, Mint(S, base, r, p, effects, claims)
  PROVE  MintWrites(S, base, r, effects, claims)
<1>1. /\ Numbered(S, base) \subseteq Attempts
      /\ \A a \in Numbered(S, base) : a > base
      /\ \A n \in S : base + Rank(S, n) \in Numbered(S, base)
  BY NumberedFacts
<1>2. \A n \in S : nodeOf'[base + Rank(S, n)] = n
  BY <1>1, NumberLeadsBack DEF Mint
<1>3. \A a \in Numbered(S, base) : \E n \in S : a = base + Rank(S, n)
  BY DEF Numbered
<1>4. \A a \in Numbered(S, base) : nodeOf'[a] \in S /\ a = base + Rank(S, nodeOf'[a])
  BY <1>2, <1>3
<1>5. /\ \A a \in Numbered(S, base) : runOf'[a] = r /\ verifier'[a] = verifier[a] + 1
      /\ \A a \in Attempts \ Numbered(S, base) :
           runOf'[a] = runOf[a] /\ nodeOf'[a] = nodeOf[a] /\ verifier'[a] = verifier[a]
  BY <1>1 DEF Mint
<1>6. \A a \in Attempts :
        /\ effect'[a] = IF a \in Numbered(S, base) /\ effects[a] = "none"
                        THEN "pending" ELSE effects[a]
        /\ claim'[a] = IF a \in Numbered(S, base) /\ claims[a] = "none"
                       THEN "reserved" ELSE claims[a]
  BY DEF Mint
<1> QED
  BY <1>1, <1>2, <1>4, <1>5, <1>6 DEF MintWrites

-----------------------------------------------------------------------------
(* Four steps mint attempts.  Every other one leaves the run, the snapshot *)
(* and the identity of attempts alone.                                     *)

Minting ==
    \/ \E p \in Procs : StartCommit(p) \/ ReexecuteCommit(p)
    \/ \E p \in Procs, S \in SUBSET Nodes, stops \in BOOLEAN : SubmitCommit(p, S, stops)
    \/ \E p \in Procs, n \in Nodes : RetryNode(p, n)

Resting ==
    /\ UNCHANGED <<run, node, phase, seq, runOf, nodeOf, accepted>>
    /\ \A a \in Attempts : decided[a] \subseteq decided'[a]

LEMMA StepCases ==
  ASSUME TypeInv, [Next]_vars
  PROVE  Minting \/ Resting
<1> USE DEF storeVars, snapVars, rowVars, ctlVars, platVars, hostVars
<1>1. decided \in [Attempts -> SUBSET AllCommands]
  BY DEF TypeInv, TypeOK
<1>2. CASE UNCHANGED vars
  BY <1>2 DEF vars, Resting
<1>3. CASE Host
  <2>1. CASE \E a \in Attempts : HostFailure(a)
    BY <1>1, <2>1 DEF HostFailure, Resting
  <2>2. CASE \E a \in Attempts :
               \/ RequestCancel(a) \/ PlatformCancels(a) \/ ConfirmCancel(a) \/ AnswerLost(a)
               \/ \E how \in {"completed", "failed"} : WorkerEnds(a, how)
    BY <2>2 DEF RequestCancel, PlatformCancels, ConfirmCancel, AnswerLost, WorkerEnds, Resting
  <2> QED
    BY <1>3, <2>1, <2>2 DEF Host
<1>4. CASE Controller
  <2>1. CASE \E cmd \in Commands : StopRun(cmd)
    BY <1>1, <2>1 DEF StopRun, Resting
  <2>2. CASE \E a \in Attempts, cmd \in Commands : StopAttempt(a, cmd) \/ DecideApproval(a, cmd)
    BY <1>1, <2>2 DEF StopAttempt, DecideApproval, Resting
  <2>3. CASE \E p \in Procs, n \in Nodes : RetryNode(p, n)
    BY <2>3 DEF Minting
  <2>4. CASE OrderReexecution \/ \E a \in Attempts : ExpireApproval(a)
    BY <2>4 DEF OrderReexecution, ExpireApproval, Resting
  <2>5. CASE \E a \in Attempts : RaiseApproval(a)
    BY <1>1, <2>5 DEF RaiseApproval, Resting
  <2> QED
    BY <1>4, <2>1, <2>2, <2>3, <2>4, <2>5 DEF Controller
<1>5. ASSUME NEW p \in Procs, Runtime(p)
      PROVE  Minting \/ Resting
  BY <1>5
  DEF Runtime, StartRead, StartRefused, SubmitRead, SubmitRefused, ReexecuteRead,
      ReexecuteRaced, ResumeRead, ScanEffects, Examine, Fence, Reissue, Create, CreateFails,
      MarkStarted, Crash, Minting, Resting
<1> QED
  BY <1>2, <1>3, <1>4, <1>5 DEF Next

-----------------------------------------------------------------------------
(* The snapshot and the rows of the ledger.                                *)

\* Rows.  An attempt nobody minted has no rows; a minted one belongs to a run
\* that was minted, and its effect and reservation rows exist.
Blank(a) ==
    effect[a] = "none" /\ claim[a] = "none" /\ a \notin accepted /\ verifier[a] = 0

RowsInv ==
    \A a \in Attempts :
        /\ runOf[a] = 0 => Blank(a)
        /\ runOf[a] # 0 => /\ runOf[a] <= run /\ nodeOf[a] \in Nodes
                           /\ effect[a] # "none" /\ claim[a] # "none"

\* The snapshot points at attempts of its own run and its own node, and at the
\* newest one; whatever else the run minted has been accepted or replaced.
Points(n) == runOf[node[n].attempt] = run /\ nodeOf[node[n].attempt] = n

NodesInv ==
    \A n \in Nodes :
        /\ node[n].status # "pending" => node[n].attempt \in Attempts /\ Points(n)
        /\ node[n].status = "settled" => node[n].attempt \in accepted
        /\ node[n].status = "dispatched" => node[n].attempt \notin accepted

NewestInv ==
    run # 0 => \A a \in Attempts : runOf[a] = run =>
        /\ node[nodeOf[a]].attempt >= a
        /\ a \in InFlight \/ a \in accepted \/ "retry" \in decided[a]

SnapInv == RowsInv /\ NodesInv /\ NewestInv


LEMMA RestingRows ==
  ASSUME TypeInv, RightInv, NodesInv, [Next]_vars, ~ Minting, NEW b \in Attempts
  PROVE  /\ b \notin Minted => UNCHANGED <<effect[b], claim[b], verifier[b]>>
         /\ effect[b] # "none" => effect'[b] # "none"
         /\ claim[b] # "none" => claim'[b] # "none"
<1> USE DEF storeVars, snapVars, rowVars, ctlVars, platVars, hostVars
<1>1. /\ effect \in [Attempts -> {"none", "pending", "started", "done", "failed"}]
      /\ claim \in [Attempts -> {"none", "reserved", "released"}]
      /\ verifier \in [Attempts -> Nat]
  BY DEF TypeInv, TypeOK
<1>2. ASSUME NEW a \in Attempts, HostFailure(a)
      PROVE  /\ b \notin Minted => UNCHANGED <<effect[b], claim[b], verifier[b]>>
             /\ effect[b] # "none" => effect'[b] # "none"
             /\ claim[b] # "none" => claim'[b] # "none"
  <2>1. a \in Minted
    <3>1. PICK n \in Nodes : node[n].status = "dispatched" /\ node[n].attempt = a
      BY <1>2 DEF HostFailure, InFlight, Dispatched
    <3>2. runOf[a] = run /\ run # 0
      BY <3>1 DEF NodesInv, Points, TypeInv, Unstarted
    <3> QED
      BY <3>2 DEF Minted
  <2>2. /\ effect' = [effect EXCEPT ![a] = IF CanMove(a, @) THEN "failed" ELSE @]
        /\ claim' = [claim EXCEPT ![a] = IF @ = "reserved" THEN "released" ELSE @]
        /\ verifier' = verifier
    BY <1>2 DEF HostFailure
  <2> QED
    BY <1>1, <2>1, <2>2
<1>3. ASSUME NEW p \in Procs, MarkStarted(p)
      PROVE  /\ b \notin Minted => UNCHANGED <<effect[b], claim[b], verifier[b]>>
             /\ effect[b] # "none" => effect'[b] # "none"
             /\ claim[b] # "none" => claim'[b] # "none"
  <2>1. proc[p].cur \in Minted
    BY <1>3 DEF MarkStarted, RightInv, CallIn
  <2>2. /\ effect' = effect \/ effect' = [effect EXCEPT ![proc[p].cur] = "started"]
        /\ UNCHANGED <<claim, verifier>>
    BY <1>3 DEF MarkStarted
  <2> QED
    BY <1>1, <2>1, <2>2
<1>4. ASSUME NEW p \in Procs, Reissue(p)
      PROVE  /\ b \notin Minted => UNCHANGED <<effect[b], claim[b], verifier[b]>>
             /\ effect[b] # "none" => effect'[b] # "none"
             /\ claim[b] # "none" => claim'[b] # "none"
  <2>1. proc[p].cur \in Minted
    BY <1>4 DEF Reissue, RightInv, CallIn
  <2>2. /\ verifier' = verifier \/ verifier' = [verifier EXCEPT ![proc[p].cur] = @ + 1]
        /\ UNCHANGED <<claim, effect>>
    BY <1>4 DEF Reissue
  <2> QED
    BY <1>1, <2>1, <2>2
<1>5. ASSUME NEW p \in Procs, Runtime(p), ~ MarkStarted(p), ~ Reissue(p)
      PROVE  UNCHANGED <<effect, claim, verifier>>
  BY <1>5
  DEF Runtime, StartRead, StartRefused, SubmitRead, SubmitRefused, ReexecuteRead,
      ReexecuteRaced, ResumeRead, ScanEffects, Examine, Fence, Create, CreateFails,
      Crash, Minting
<1>6. ASSUME Controller
      PROVE  UNCHANGED <<effect, claim, verifier>>
  BY <1>6 DEF Controller, StopRun, StopAttempt, DecideApproval, OrderReexecution, RaiseApproval,
      ExpireApproval, Minting
<1>7. ASSUME Host, \A a \in Attempts : ~ HostFailure(a)
      PROVE  UNCHANGED <<effect, claim, verifier>>
  BY <1>7 DEF Host, RequestCancel, PlatformCancels, ConfirmCancel, AnswerLost, WorkerEnds
<1>8. CASE UNCHANGED vars
  BY <1>8 DEF vars
<1> QED
  BY <1>2, <1>3, <1>4, <1>5, <1>6, <1>7, <1>8 DEF Next

LEMMA RestingSnapshot ==
  ASSUME TypeInv, RightInv, SnapInv, [Next]_vars, ~ Minting
  PROVE  SnapInv'
<1>1. Resting
  BY StepCases
<1>2. \A a \in Attempts :
        /\ a \notin Minted => UNCHANGED <<effect[a], claim[a], verifier[a]>>
        /\ effect[a] # "none" => effect'[a] # "none"
        /\ claim[a] # "none" => claim'[a] # "none"
  BY RestingRows DEF SnapInv
<1>3. RowsInv'
  BY <1>1, <1>2 DEF SnapInv, RowsInv, Blank, Resting, Minted
<1>4. NodesInv'
  BY <1>1 DEF SnapInv, NodesInv, Points, Resting
<1>5. NewestInv'
  BY <1>1 DEF SnapInv, NewestInv, Resting, InFlight, Dispatched
<1> QED
  BY <1>3, <1>4, <1>5 DEF SnapInv

\* A run begins: the entry nodes point at its first attempts.
LEMMA FreshRunSnapshot ==
  ASSUME TypeInv, SnapInv, NEW base \in Nat, Fits(Entries, base), NEW p \in Procs,
         NEW r \in Runs, run' = r, \A a \in Attempts : runOf[a] < r,
         \A a \in Attempts : runOf[a] # 0 => a <= base,
         MintSnapshot(base), Mint(Entries, base, r, p, effect, claim),
         UNCHANGED <<accepted, decided>>
  PROVE  SnapInv'
<1> DEFINE new == Numbered(Entries, base)
<1>1. Entries \subseteq Nodes /\ Attempts \subseteq Nat /\ r \in Nat \ {0}
  BY EntriesAssumption, BoundsAssumption DEF Attempts, Runs
<1>2. /\ new \subseteq Attempts
      /\ \A a \in new : a > base
      /\ \A n \in Entries : base + Rank(Entries, n) \in new /\ nodeOf'[base + Rank(Entries, n)] = n
      /\ \A a \in new : runOf'[a] = r /\ nodeOf'[a] \in Entries
                        /\ a = base + Rank(Entries, nodeOf'[a])
      /\ \A a \in Attempts \ new :
           runOf'[a] = runOf[a] /\ nodeOf'[a] = nodeOf[a] /\ verifier'[a] = verifier[a]
      /\ \A a \in Attempts :
           /\ effect'[a] = IF a \in new /\ effect[a] = "none" THEN "pending" ELSE effect[a]
           /\ claim'[a] = IF a \in new /\ claim[a] = "none" THEN "reserved" ELSE claim[a]
  <2>1. MintWrites(Entries, base, r, effect, claim)
    BY <1>1, MintFacts
  <2> QED
    BY <2>1 DEF MintWrites
<1> HIDE DEF new
<1>3. \A a \in new : runOf[a] = 0 /\ a \notin accepted
  <2> SUFFICES ASSUME NEW a \in new PROVE runOf[a] = 0 /\ a \notin accepted
    OBVIOUS
  <2>1. a \in Attempts /\ a > base /\ a \in Nat /\ (runOf[a] # 0 => a <= base)
    BY <1>1, <1>2
  <2>2. runOf[a] = 0
    BY <2>1
  <2> QED
    BY <2>1, <2>2 DEF SnapInv, RowsInv, Blank
<1>4. RowsInv'
  <2> SUFFICES ASSUME NEW a \in Attempts
               PROVE  /\ runOf'[a] = 0 => Blank(a)'
                      /\ runOf'[a] # 0 => /\ runOf'[a] <= run' /\ nodeOf'[a] \in Nodes
                                          /\ effect'[a] # "none" /\ claim'[a] # "none"
    BY DEF RowsInv
  <2>1. CASE a \in new
    BY <1>1, <1>2, <2>1
  <2>2. CASE a \notin new
    <3>1. runOf[a] \in Nat /\ runOf[a] < r
      BY DEF TypeInv, TypeOK
    <3> QED
      BY <1>1, <1>2, <2>2, <3>1 DEF SnapInv, RowsInv, Blank
  <2> QED
    BY <2>1, <2>2
<1>5. \A n \in Nodes : node'[n] = IF n \in Entries
                                  THEN Entry("dispatched", base + Rank(Entries, n))
                                  ELSE Entry("pending", 0)
  BY DEF MintSnapshot
<1>6. NodesInv'
  <2> SUFFICES ASSUME NEW n \in Nodes
               PROVE  /\ node'[n].status # "pending" => node'[n].attempt \in Attempts /\ Points(n)'
                      /\ node'[n].status = "settled" => node'[n].attempt \in accepted'
                      /\ node'[n].status = "dispatched" => node'[n].attempt \notin accepted'
    BY DEF NodesInv
  <2>1. CASE n \in Entries
    <3>1. node'[n] = Entry("dispatched", base + Rank(Entries, n))
      BY <1>5, <2>1
    <3>2. /\ node'[n].status = "dispatched" /\ node'[n].attempt = base + Rank(Entries, n)
          /\ base + Rank(Entries, n) \in new
      BY <1>2, <2>1, <3>1 DEF Entry
    <3> QED
      BY <1>2, <1>3, <2>1, <3>2 DEF Points
  <2>2. CASE n \notin Entries
    <3>1. node'[n] = Entry("pending", 0)
      BY <1>5, <2>2
    <3> QED
      BY <3>1 DEF Entry
  <2> QED
    BY <2>1, <2>2
<1>7. NewestInv'
  <2> SUFFICES ASSUME NEW a \in Attempts, runOf'[a] = run'
               PROVE  node'[nodeOf'[a]].attempt >= a /\ a \in InFlight'
    BY DEF NewestInv
  <2>1. a \in new
    <3>1. runOf[a] \in Nat /\ runOf[a] < r
      BY DEF TypeInv, TypeOK
    <3> QED
      BY <1>1, <1>2, <3>1
  <2>2. node'[nodeOf'[a]] = Entry("dispatched", a) /\ nodeOf'[a] \in Nodes
    BY <1>1, <1>2, <1>5, <2>1
  <2>3. node'[nodeOf'[a]].attempt = a /\ node'[nodeOf'[a]].status = "dispatched"
    BY <2>2 DEF Entry
  <2> QED
    BY <1>1, <2>2, <2>3 DEF InFlight, Dispatched
<1> QED
  BY <1>4, <1>6, <1>7 DEF SnapInv

\* Inside a run: the attempt a leaves the snapshot, accepted or replaced, and
\* the nodes of S point at the next numbers.
LEMMA AdvancedSnapshot ==
  ASSUME TypeInv, IdInv, SnapInv, run # 0, run' = run, NEW S, S \subseteq Nodes, Fits(S, seq),
         NEW p \in Procs, NEW effects, NEW claims, Mint(S, seq, run, p, effects, claims),
         NEW a \in Attempts, a \in InFlight,
         \A n \in S : node[n].status = "dispatched" => node[n].attempt = a,
         \A b \in Attempts : /\ effects[b] = "none" <=> effect[b] = "none"
                             /\ claims[b] = "none" <=> claim[b] = "none"
                             /\ decided[b] \subseteq decided'[b],
         accepted \subseteq accepted', accepted' \subseteq accepted \cup {a},
         a \in accepted' \/ (nodeOf[a] \in S /\ "retry" \in decided'[a]),
         \A n \in Nodes :
            node'[n] = IF n \in S THEN Entry("dispatched", seq + Rank(S, n))
                       ELSE IF node[n].status = "dispatched" /\ node[n].attempt = a
                       THEN Entry("settled", a)
                       ELSE node[n]
  PROVE  SnapInv'
<1> DEFINE new == Numbered(S, seq)
<1>1. seq \in Nat /\ run \in Nat /\ Attempts \subseteq Nat
  BY BoundsAssumption DEF TypeInv, TypeOK, Attempts
<1>2. /\ new \subseteq Attempts
      /\ \A b \in new : b > seq
      /\ \A n \in S : seq + Rank(S, n) \in new /\ nodeOf'[seq + Rank(S, n)] = n
      /\ \A b \in new : runOf'[b] = run /\ nodeOf'[b] \in S
                        /\ b = seq + Rank(S, nodeOf'[b])
      /\ \A b \in Attempts \ new :
           runOf'[b] = runOf[b] /\ nodeOf'[b] = nodeOf[b] /\ verifier'[b] = verifier[b]
      /\ \A b \in Attempts :
           /\ effect'[b] = IF b \in new /\ effects[b] = "none" THEN "pending" ELSE effects[b]
           /\ claim'[b] = IF b \in new /\ claims[b] = "none" THEN "reserved" ELSE claims[b]
  <2>1. MintWrites(S, seq, run, effects, claims)
    BY <1>1, MintFacts
  <2> QED
    BY <2>1 DEF MintWrites
<1> HIDE DEF new
<1>3. \A b \in new : runOf[b] = 0 /\ b \notin accepted
  <2> SUFFICES ASSUME NEW b \in new PROVE runOf[b] = 0 /\ b \notin accepted
    OBVIOUS
  <2>1. b \in Attempts /\ b > seq /\ b \in Nat /\ (runOf[b] # 0 => b <= seq)
    BY <1>1, <1>2 DEF IdInv
  <2>2. runOf[b] = 0
    BY <1>1, <2>1
  <2> QED
    BY <2>1, <2>2 DEF SnapInv, RowsInv, Blank
<1>4. runOf[a] = run /\ a \notin new
  BY <1>3 DEF SnapInv, NodesInv, Points, InFlight, Dispatched
<1>5. ASSUME NEW n \in Nodes, node[n].status # "pending"
      PROVE  /\ node[n].attempt \in Attempts /\ runOf[node[n].attempt] = run
             /\ nodeOf[node[n].attempt] = n /\ node[n].attempt \notin new
  BY <1>3, <1>5 DEF SnapInv, NodesInv, Points
<1>6. ASSUME NEW n \in S
      PROVE  node'[n].status = "dispatched" /\ node'[n].attempt = seq + Rank(S, n)
  <2>1. node'[n] = Entry("dispatched", seq + Rank(S, n))
    OBVIOUS
  <2> QED
    BY <2>1 DEF Entry
<1>7. ASSUME NEW n \in Nodes \ S, node[n].status = "dispatched", node[n].attempt = a
      PROVE  node'[n].status = "settled" /\ node'[n].attempt = a
  <2>1. node'[n] = Entry("settled", a)
    BY <1>7
  <2> QED
    BY <2>1 DEF Entry
<1>8. ASSUME NEW n \in Nodes \ S, ~ (node[n].status = "dispatched" /\ node[n].attempt = a)
      PROVE  node'[n] = node[n]
  BY <1>8
<1>9. RowsInv'
  <2> SUFFICES ASSUME NEW b \in Attempts
               PROVE  /\ runOf'[b] = 0 => Blank(b)'
                      /\ runOf'[b] # 0 => /\ runOf'[b] <= run' /\ nodeOf'[b] \in Nodes
                                          /\ effect'[b] # "none" /\ claim'[b] # "none"
    BY DEF RowsInv
  <2>1. CASE b \in new
    BY <1>1, <1>2, <2>1
  <2>2. CASE b \notin new
    BY <1>1, <1>2, <1>4, <2>2 DEF SnapInv, RowsInv, Blank
  <2> QED
    BY <2>1, <2>2
<1>10. NodesInv'
  <2> SUFFICES ASSUME NEW n \in Nodes
               PROVE  /\ node'[n].status # "pending" => node'[n].attempt \in Attempts /\ Points(n)'
                      /\ node'[n].status = "settled" => node'[n].attempt \in accepted'
                      /\ node'[n].status = "dispatched" => node'[n].attempt \notin accepted'
    BY DEF NodesInv
  <2>1. CASE n \in S
    BY <1>2, <1>3, <1>4, <1>6, <2>1 DEF Points
  <2>2. CASE n \notin S /\ node[n].status = "dispatched" /\ node[n].attempt = a
    <3>1. node'[n].status = "settled" /\ node'[n].attempt = a
      BY <1>7, <2>2
    <3>2. runOf[a] = run /\ nodeOf[a] = n
      BY <1>5, <2>2
    <3> QED
      BY <1>2, <1>4, <2>2, <3>1, <3>2 DEF Points
  <2>3. CASE n \notin S /\ ~ (node[n].status = "dispatched" /\ node[n].attempt = a)
    <3>1. node'[n] = node[n]
      BY <1>8, <2>3
    <3>2. CASE node[n].status = "pending"
      BY <3>1, <3>2
    <3>3. CASE node[n].status # "pending"
      <4>1. node'[n].attempt \in Attempts /\ Points(n)'
        BY <1>2, <1>5, <3>1, <3>3 DEF Points
      <4> QED
        BY <2>3, <3>1, <4>1 DEF SnapInv, NodesInv
    <3> QED
      BY <3>2, <3>3
  <2> QED
    BY <2>1, <2>2, <2>3
<1>11. NewestInv'
  <2> SUFFICES ASSUME NEW b \in Attempts, runOf'[b] = run
               PROVE  /\ node'[nodeOf'[b]].attempt >= b
                      /\ b \in InFlight' \/ b \in accepted' \/ "retry" \in decided'[b]
    BY DEF NewestInv
  <2>1. CASE b \in new
    <3>1. nodeOf'[b] \in S /\ nodeOf'[b] \in Nodes /\ b = seq + Rank(S, nodeOf'[b]) /\ b \in Nat
      BY <1>1, <1>2, <2>1
    <3>2. node'[nodeOf'[b]].status = "dispatched" /\ node'[nodeOf'[b]].attempt = b
      BY <1>6, <3>1
    <3> QED
      BY <3>1, <3>2 DEF InFlight, Dispatched
  <2>2. CASE b \notin new
    <3>1. /\ runOf[b] = run /\ nodeOf'[b] = nodeOf[b] /\ nodeOf[b] \in Nodes
          /\ node[nodeOf[b]].attempt >= b
          /\ b \in InFlight \/ b \in accepted \/ "retry" \in decided[b]
      BY <1>2, <2>2 DEF SnapInv, NewestInv, RowsInv
    <3>2. b <= seq /\ b \in Nat
      BY <1>1, <3>1 DEF IdInv
    <3>3. node'[nodeOf[b]].attempt >= b
      <4>1. CASE nodeOf[b] \in S
        <5>1. node'[nodeOf[b]].attempt \in new
          BY <1>2, <1>6, <4>1
        <5>2. node'[nodeOf[b]].attempt \in Nat /\ node'[nodeOf[b]].attempt > seq
          BY <1>1, <1>2, <5>1
        <5> QED
          BY <1>1, <3>2, <5>2
      <4>2. CASE nodeOf[b] \notin S
        BY <1>7, <1>8, <3>1, <4>2
      <4> QED
        BY <4>1, <4>2
    <3>4. ASSUME b \in InFlight
          PROVE  b \in InFlight' \/ b \in accepted' \/ "retry" \in decided'[b]
      <4>1. PICK n \in Nodes : node[n].status = "dispatched" /\ node[n].attempt = b
        BY <3>4 DEF InFlight, Dispatched
      <4>2. CASE b = a
        BY <4>2
      <4>3. CASE b # a
        <5>1. n \notin S /\ node'[n] = node[n]
          BY <1>8, <4>1, <4>3
        <5> QED
          BY <4>1, <5>1 DEF InFlight, Dispatched
      <4> QED
        BY <4>2, <4>3
    <3> QED
      BY <3>1, <3>3, <3>4
  <2> QED
    BY <2>1, <2>2
<1> QED
  BY <1>9, <1>10, <1>11 DEF SnapInv

LEMMA SnapStep ==
  ASSUME ~ SameInstant, TypeInv, IdInv, RightInv, SnapInv, [Next]_vars
  PROVE  SnapInv'
<1>1. /\ seq \in Nat /\ run \in 0 .. MaxRuns /\ MaxRuns \in Nat \ {0} /\ CallsOK
      /\ decided \in [Attempts -> SUBSET AllCommands]
      /\ effect \in [Attempts -> {"none", "pending", "started", "done", "failed"}]
      /\ claim \in [Attempts -> {"none", "reserved", "released"}]
  BY BoundsAssumption DEF TypeInv, TypeOK
<1>2. \A a \in Attempts : runOf[a] \in Nat /\ runOf[a] <= run
  BY <1>1 DEF SnapInv, RowsInv, TypeInv, TypeOK
<1>3. ASSUME NEW p \in Procs, StartCommit(p)
      PROVE  SnapInv'
  <2>1. /\ run = 0 /\ run' = 1 /\ Fits(Entries, 0) /\ MintSnapshot(0)
        /\ Mint(Entries, 0, 1, p, effect, claim) /\ UNCHANGED <<accepted, decided>>
    BY <1>3 DEF StartCommit, MintsSameRun, ctlVars
  <2>2. \A a \in Attempts : runOf[a] < 1 /\ (runOf[a] # 0 => a <= 0)
    BY <1>2, <2>1 DEF IdInv
  <2>3. 1 \in Runs
    BY <1>1 DEF Runs
  <2> QED
    BY <2>1, <2>2, <2>3, FreshRunSnapshot
<1>4. ASSUME NEW p \in Procs, ReexecuteCommit(p)
      PROVE  SnapInv'
  <2>1. /\ proc[p].pc = "reexecute" /\ proc[p].run = run
        /\ run' = run + 1 /\ Fits(Entries, seq) /\ MintSnapshot(seq)
        /\ Mint(Entries, seq, run + 1, p, effect, claim) /\ UNCHANGED <<accepted, decided>>
    BY <1>4 DEF ReexecuteCommit, OrderStands, FromSeq, ctlVars, IdInv
  <2>2. \A a \in Attempts : runOf[a] < run + 1 /\ (runOf[a] # 0 => a <= seq)
    BY <1>1, <1>2 DEF IdInv
  <2>3. run + 1 \in Runs
    BY <1>1, <2>1 DEF Runs, CallsOK, CallOK
  <2> QED
    BY <1>1, <2>1, <2>2, <2>3, FreshRunSnapshot
<1>5. ASSUME NEW p \in Procs, NEW S \in SUBSET Nodes, NEW stops \in BOOLEAN,
             SubmitCommit(p, S, stops)
      PROVE  SnapInv'
  <2> DEFINE a == proc[p].cur
             effects == [effect EXCEPT ![a] = IF CanMove(a, @) THEN "done" ELSE @]
             claims == [claim EXCEPT ![a] = IF @ = "reserved" THEN "released" ELSE @]
  <2>1. /\ Fits(S, seq) /\ Mint(S, seq, run, p, effects, claims) /\ a \in InFlight
        /\ \A n \in S : node[n].status = "dispatched" => node[n].attempt = a
        /\ accepted' = accepted \cup {a} /\ run' = run /\ decided' = decided
        /\ node' = Advanced(a, S) /\ proc[p].pc = "settle"
    BY <1>5 DEF SubmitCommit, Reducible, storeVars, ctlVars
  <2>2. a \in Attempts
    BY <1>1, <2>1 DEF CallsOK, CallOK
  <2>3. run # 0 /\ runOf[a] = run
    BY <2>1, <2>2 DEF InFlight, Dispatched, TypeInv, Unstarted, SnapInv, NodesInv, Points
  <2>4. effect[a] # "none" /\ claim[a] # "none"
    BY <2>2, <2>3 DEF SnapInv, RowsInv
  <2>5. \A b \in Attempts : /\ effects[b] = "none" <=> effect[b] = "none"
                            /\ claims[b] = "none" <=> claim[b] = "none"
    BY <1>1, <2>2, <2>4
  <2>6. \A n \in Nodes :
            node'[n] = IF n \in S THEN Entry("dispatched", seq + Rank(S, n))
                       ELSE IF node[n].status = "dispatched" /\ node[n].attempt = a
                       THEN Entry("settled", a)
                       ELSE node[n]
    BY <2>1 DEF Advanced
  <2> HIDE DEF a, effects, claims
  <2> QED
    BY <2>1, <2>2, <2>3, <2>5, <2>6, AdvancedSnapshot
<1>6. ASSUME NEW p \in Procs, NEW m \in Nodes, RetryNode(p, m)
      PROVE  SnapInv'
  <2> DEFINE a == node[m].attempt
  <2>1. /\ Fits({m}, seq) /\ Mint({m}, seq, run, p, effect, claim) /\ m \in Dispatched
        /\ decided' = [decided EXCEPT ![a] = @ \cup {"retry"}]
        /\ node' = [node EXCEPT ![m] = Entry("dispatched", seq + 1)]
        /\ accepted' = accepted /\ run' = run /\ run # 0
    BY <1>1, <1>6 DEF RetryNode, storeVars
  <2>2. a \in Attempts /\ a \in InFlight /\ nodeOf[a] = m /\ node[m].status = "dispatched"
    BY <2>1 DEF Dispatched, InFlight, SnapInv, NodesInv, Points
  <2>3. Rank({m}, m) = 1
    <3>1. Rank({m}, m) \in 1 .. Cardinality({m})
      BY RankBounds
    <3>2. Cardinality({m}) = 1
      BY FS_Singleton
    <3> QED
      BY <3>1, <3>2
  <2>4. \A n \in Nodes : n # m => ~ (node[n].status = "dispatched" /\ node[n].attempt = a)
    BY <2>2 DEF SnapInv, NodesInv, Points
  <2>5. \A n \in Nodes :
            node'[n] = IF n \in {m} THEN Entry("dispatched", seq + Rank({m}, n))
                       ELSE IF node[n].status = "dispatched" /\ node[n].attempt = a
                       THEN Entry("settled", a)
                       ELSE node[n]
    <3>1. \A n \in Nodes : node'[n] = IF n = m THEN Entry("dispatched", seq + 1) ELSE node[n]
      BY <2>1 DEF TypeInv, TypeOK
    <3> QED
      BY <2>3, <2>4, <3>1
  <2>6. /\ \A b \in Attempts : decided[b] \subseteq decided'[b]
        /\ "retry" \in decided'[a]
    BY <1>1, <2>1, <2>2
  <2>7. {m} \subseteq Nodes /\ nodeOf[a] \in {m}
    BY <2>2
  <2>8. \A n \in {m} : node[n].status = "dispatched" => node[n].attempt = a
    OBVIOUS
  <2>9. \A b \in Attempts : /\ effect[b] = "none" <=> effect[b] = "none"
                            /\ claim[b] = "none" <=> claim[b] = "none"
                            /\ decided[b] \subseteq decided'[b]
    BY <2>6
  <2> DEFINE S == {m}
  <2> HIDE DEF a
  <2>10. /\ S \subseteq Nodes /\ Fits(S, seq) /\ Mint(S, seq, run, p, effect, claim)
         /\ \A n \in S : node[n].status = "dispatched" => node[n].attempt = a
         /\ nodeOf[a] \in S /\ accepted \subseteq accepted' /\ accepted' \subseteq accepted \cup {a}
         /\ \A n \in Nodes :
              node'[n] = IF n \in S THEN Entry("dispatched", seq + Rank(S, n))
                         ELSE IF node[n].status = "dispatched" /\ node[n].attempt = a
                         THEN Entry("settled", a)
                         ELSE node[n]
    BY <2>1, <2>5, <2>7, <2>8
  <2> HIDE DEF S
  <2> QED
    BY <2>1, <2>2, <2>6, <2>9, <2>10, AdvancedSnapshot
<1>7. CASE Minting
  BY <1>3, <1>4, <1>5, <1>6, <1>7 DEF Minting
<1>8. CASE ~ Minting
  BY <1>8, RestingSnapshot
<1> QED
  BY <1>7, <1>8

LEMMA SnapInvariant == ~ SameInstant => (Spec => []SnapInv)
<1> SUFFICES ASSUME ~ SameInstant PROVE Spec => []SnapInv
  OBVIOUS
<1>1. Init => SnapInv
  BY DEF Init, SnapInv, RowsInv, Blank, NodesInv, NewestInv, Entry
<1>2. TypeInv /\ IdInv /\ RightInv /\ SnapInv /\ [Next]_vars => SnapInv'
  BY SnapStep
<1> QED
  BY <1>1, <1>2, TypeInvariant, IdInvariant, RightInvariant, PTL DEF Spec

\* The accepted events and the snapshot tell the same story, whichever process
\* accepts, retries, restarts or re-executes: a settled node was accepted, an
\* attempt in flight was not, and the snapshot never falls behind an acceptance.
THEOREM SnapshotFollowsLedger == ~ SameInstant => (Spec => []SnapshotAgrees)
<1> SUFFICES ASSUME ~ SameInstant PROVE Spec => []SnapshotAgrees
  OBVIOUS
<1>1. TypeInv /\ SnapInv => SnapshotAgrees
  <2> SUFFICES ASSUME TypeInv, SnapInv PROVE SnapshotAgrees
    OBVIOUS
  <2>1. accepted \subseteq Attempts
    BY DEF TypeInv, TypeOK
  <2>2. \A a \in accepted : runOf[a] # 0
    BY <2>1 DEF SnapInv, RowsInv, Blank
  <2>3. \A a \in accepted : runOf[a] = run => node[nodeOf[a]].attempt >= a
    BY <2>1, <2>2 DEF SnapInv, NewestInv
  <2>4. InFlight \cap accepted = {}
    BY DEF InFlight, Dispatched, SnapInv, NodesInv
  <2> QED
    BY <2>3, <2>4 DEF SnapshotAgrees, SnapInv, NodesInv
<1> QED
  BY <1>1, TypeInvariant, SnapInvariant, PTL

\* start() is idempotent when processes that race to start do not derive the same
\* run identity: no step puts a settled node back in flight on the attempt that
\* settled it.  (With SameInstant a run of the model shows the counterexample.)
THEOREM StartIsIdempotent == ~ SameInstant => (Spec => SettledNotRedispatched)
<1> SUFFICES ASSUME ~ SameInstant PROVE Spec => SettledNotRedispatched
  OBVIOUS
<1>1. TypeInv /\ IdInv /\ RightInv /\ SnapInv /\ [Next]_vars
        => [\A n \in Nodes :
              node[n].status = "settled" /\ node'[n].status = "dispatched"
                => node'[n].attempt # node[n].attempt]_vars
  <2> SUFFICES ASSUME TypeInv, IdInv, RightInv, SnapInv, [Next]_vars, NEW n \in Nodes,
                      node[n].status = "settled", node'[n].status = "dispatched"
               PROVE  node'[n].attempt # node[n].attempt
    OBVIOUS
  <2>1. accepted \subseteq accepted'
    <3>1. CASE Minting
      BY <3>1 DEF Minting, StartCommit, ReexecuteCommit, SubmitCommit, RetryNode
    <3>2. CASE Resting
      BY <3>2 DEF Resting
    <3> QED
      BY <3>1, <3>2, StepCases
  <2>2. SnapInv'
    BY SnapStep
  <2>3. node[n].attempt \in accepted
    BY DEF SnapInv, NodesInv
  <2>4. node'[n].attempt \notin accepted'
    BY <2>2 DEF SnapInv, NodesInv
  <2> QED
    BY <2>1, <2>3, <2>4
<1> QED
  BY <1>1, TypeInvariant, IdInvariant, RightInvariant, SnapInvariant, PTL
  DEF Spec, SettledNotRedispatched

-----------------------------------------------------------------------------
(* Effects.  An effect is recorded as started only by a call that has seen *)
(* an execution, and an execution that exists never becomes none.          *)

MarksInv == \A p \in Procs : proc[p].pc = "mark" => exec[proc[p].cur] # "none"

EffectInv == EffectTellsTruth /\ MarksInv

Ended == {"completed", "failed", "cancelled"}

\* The life of an execution: asked for once, and ended once.
ExecMoves(a) ==
    \/ exec'[a] = exec[a]
    \/ exec[a] = "none" /\ exec'[a] \in {"live", "refused"}
    \/ exec[a] = "live" /\ exec'[a] \in Ended

LEMMA ExecLife ==
  ASSUME TypeInv, [Next]_vars, NEW b \in Attempts
  PROVE  ExecMoves(b)
<1> USE DEF storeVars, snapVars, rowVars, ctlVars, platVars, hostVars
<1>1. exec \in [Attempts -> {"none", "refused", "live", "completed", "failed", "cancelled"}]
  BY DEF TypeInv, TypeOK
<1>2. ASSUME NEW p \in Procs, NEW made \in {"live", "refused"}, Create(p, made)
      PROVE  ExecMoves(b)
  BY <1>1, <1>2 DEF Create, Claimable, ExecMoves
<1>3. ASSUME NEW a \in Attempts,
             PlatformCancels(a) \/ \E how \in {"completed", "failed"} : WorkerEnds(a, how)
      PROVE  ExecMoves(b)
  BY <1>1, <1>3 DEF PlatformCancels, WorkerEnds, ExecMoves, Ended
<1>4. ASSUME UNCHANGED exec
      PROVE  ExecMoves(b)
  BY <1>4 DEF ExecMoves
<1>5. CASE Controller \/ UNCHANGED vars
  BY <1>4, <1>5 DEF Controller, StopRun, StopAttempt, DecideApproval, RetryNode,
     OrderReexecution, RaiseApproval, ExpireApproval, vars
<1>6. CASE Host
  BY <1>3, <1>4, <1>6 DEF Host, HostFailure, RequestCancel, ConfirmCancel, AnswerLost
<1>7. ASSUME NEW p \in Procs, Runtime(p)
      PROVE  ExecMoves(b)
  <2>1. CASE \E made \in {"live", "refused"} : Create(p, made)
    BY <1>2, <2>1
  <2>2. CASE ~ \E made \in {"live", "refused"} : Create(p, made)
    BY <1>4, <1>7, <2>2
    DEF Runtime, StartRead, StartCommit, StartRefused, SubmitRead, SubmitCommit, SubmitRefused,
        ReexecuteRead, ReexecuteCommit, ReexecuteRaced, ResumeRead, ScanEffects, Examine, Fence,
        Reissue, CreateFails, MarkStarted, Crash
  <2> QED
    BY <2>1, <2>2
<1> QED
  BY <1>5, <1>6, <1>7 DEF Next

\* Only a call whose execution exists comes to record it.
LEMMA MarksStep ==
  ASSUME TypeInv, RightInv, MarksInv, [Next]_vars
  PROVE  MarksInv'
<1> USE DEF storeVars, snapVars, rowVars, ctlVars, platVars, hostVars
<1>1. /\ CallsOK /\ proc \in [Procs -> ProcStates] /\ seq \in Nat
      /\ exec \in [Attempts -> {"none", "refused", "live", "completed", "failed", "cancelled"}]
  BY DEF TypeInv, TypeOK, CallsOK
<1>2. \A b \in Attempts : exec[b] # "none" => exec'[b] # "none"
  BY ExecLife DEF ExecMoves, Ended
<1>3. ASSUME \A q \in Procs : \/ proc'[q].pc # "mark"
                              \/ proc'[q] = proc[q]
                              \/ exec'[proc'[q].cur] # "none"
      PROVE  MarksInv'
  <2> SUFFICES ASSUME NEW q \in Procs, proc'[q].pc = "mark"
               PROVE  exec'[proc'[q].cur] # "none"
    BY DEF MarksInv
  <2>1. CASE proc'[q] = proc[q]
    <3>1. proc[q].cur \in Attempts
      BY <1>1, <2>1 DEF CallsOK, CallOK
    <3> QED
      BY <1>2, <2>1, <3>1 DEF MarksInv
  <2> QED
    BY <1>3, <2>1
<1>4. ASSUME NEW p \in Procs, NEW c, proc' = [proc EXCEPT ![p] = c],
             c.pc # "mark" \/ exec'[c.cur] # "none"
      PROVE  MarksInv'
  <2>1. \A q \in Procs : proc'[q] = IF q = p THEN c ELSE proc[q]
    BY <1>1, <1>4
  <2> QED
    BY <1>3, <1>4, <2>1
<1>5. ASSUME UNCHANGED proc
      PROVE  MarksInv'
  BY <1>3, <1>5
<1>6. ASSUME NEW p \in Procs
      PROVE  /\ Onwards(p).pc # "mark" /\ AfterFailure(p).pc # "mark" /\ Idle.pc # "mark"
             /\ \A S : S \subseteq Attempts
                  => Launch(S).pc # "mark" /\ \A view : Reconciling(S, view).pc # "mark"
  <2>1. Onwards(p).pc # "mark" /\ AfterFailure(p).pc # "mark"
    BY OnwardsIn
  <2>2. \A S : S \subseteq Attempts
          => /\ Idle.pc # "mark" /\ Launch(S).pc # "mark"
             /\ \A view : Reconciling(S, view).pc # "mark"
    BY NextCallsIn
  <2> QED
    BY <2>1, <2>2
<1>7. ASSUME NEW p \in Procs, NEW made \in {"live", "refused"}, Create(p, made)
      PROVE  MarksInv'
  <2>1. /\ proc[p].cur \in Attempts
        /\ exec' = [exec EXCEPT ![proc[p].cur] = made]
        /\ proc' = [proc EXCEPT ![p] = [proc[p] EXCEPT !.pc = "mark"]]
    BY <1>1, <1>7 DEF Create, CallsOK, CallOK
  <2>2. [proc[p] EXCEPT !.pc = "mark"].cur = proc[p].cur
    BY <1>1 DEF ProcStates
  <2>3. exec'[proc[p].cur] # "none"
    BY <1>1, <2>1
  <2> QED
    BY <1>4, <2>1, <2>2, <2>3
<1>8. ASSUME NEW p \in Procs, NEW answer, Examine(p, answer)
      PROVE  MarksInv'
  <2>1. PICK c : /\ proc' = [proc EXCEPT ![p] = c]
                 /\ \/ c = [proc[p] EXCEPT !.pc = "mark"] /\ answer = "created"
                    \/ \E pc \in {"fence", "create"} : c = [proc[p] EXCEPT !.pc = pc]
                    \/ c = Onwards(p)
    BY <1>1, <1>8 DEF Examine
  <2>2. exec' = exec /\ (answer = "created" => exec[proc[p].cur] # "none")
    BY <1>8 DEF Examine, Answers
  <2>3. c.pc # "mark" \/ exec'[c.cur] # "none"
    <3>1. CASE c = [proc[p] EXCEPT !.pc = "mark"] /\ answer = "created"
      BY <1>1, <2>2, <3>1 DEF ProcStates
    <3>2. CASE \E pc \in {"fence", "create"} : c = [proc[p] EXCEPT !.pc = pc]
      BY <1>1, <3>2 DEF ProcStates
    <3>3. CASE c = Onwards(p)
      BY <1>6, <3>3
    <3> QED
      BY <2>1, <3>1, <3>2, <3>3
  <2> QED
    BY <1>4, <2>1, <2>3
<1>9. ASSUME NEW p \in Procs, Fence(p) \/ Reissue(p)
      PROVE  MarksInv'
  <2>1. PICK c : /\ proc' = [proc EXCEPT ![p] = c]
                 /\ \/ \E pc \in {"reissue", "create"} : c = [proc[p] EXCEPT !.pc = pc]
                    \/ c = Onwards(p)
    BY <1>1, <1>9 DEF Fence, Reissue
  <2>2. c.pc # "mark"
    <3>1. CASE \E pc \in {"reissue", "create"} : c = [proc[p] EXCEPT !.pc = pc]
      BY <1>1, <3>1 DEF ProcStates
    <3> QED
      BY <1>6, <2>1, <3>1
  <2> QED
    BY <1>4, <2>1, <2>2
<1>10. ASSUME NEW p \in Procs, CreateFails(p) \/ MarkStarted(p)
       PROVE  MarksInv'
  BY <1>4, <1>6, <1>10 DEF CreateFails, MarkStarted
<1>11. ASSUME NEW p \in Procs,
              StartRefused(p) \/ SubmitRefused(p) \/ ReexecuteRaced(p) \/ Crash(p)
       PROVE  MarksInv'
  BY <1>4, <1>6, <1>11 DEF StartRefused, SubmitRefused, ReexecuteRaced, Crash
<1>12. ASSUME NEW p \in Procs, ScanEffects(p)
       PROVE  MarksInv'
  <2> DEFINE S == {a \in Attempts : proc[p].view[a] # 0 /\ runOf[a] = run /\ effect[a] = "pending"}
  <2>1. proc' = [proc EXCEPT ![p] = Reconciling(S, proc[p].view)]
    BY <1>12 DEF ScanEffects
  <2>2. S \subseteq Attempts
    OBVIOUS
  <2> HIDE DEF S
  <2> QED
    BY <1>4, <1>6, <2>1, <2>2
<1>13. ASSUME NEW p \in Procs,
              \/ StartCommit(p) \/ ReexecuteCommit(p)
              \/ \E S \in SUBSET Nodes, stops \in BOOLEAN : SubmitCommit(p, S, stops)
       PROVE  MarksInv'
  <2>1. PICK S, base : /\ proc' = [proc EXCEPT ![p] = Launch(Numbered(S, base))]
                       /\ S \subseteq Nodes /\ base \in Nat /\ Fits(S, base)
    <3>1. CASE StartCommit(p)
      BY <3>1, EntriesAssumption DEF StartCommit
    <3>2. CASE ReexecuteCommit(p)
      <4>1. FromSeq(p) \in Nat
        BY <1>1 DEF FromSeq, ProcStates
      <4> QED
        BY <3>2, <4>1, EntriesAssumption DEF ReexecuteCommit
    <3>3. CASE \E S \in SUBSET Nodes, stops \in BOOLEAN : SubmitCommit(p, S, stops)
      BY <1>1, <3>3 DEF SubmitCommit
    <3> QED
      BY <1>13, <3>1, <3>2, <3>3
  <2>2. Numbered(S, base) \subseteq Attempts
    BY <2>1, NumberedFacts
  <2> QED
    BY <1>4, <1>6, <2>1, <2>2
<1>14. ASSUME NEW p \in Procs,
              \/ StartRead(p) \/ ReexecuteRead(p) \/ ResumeRead(p)
              \/ \E a \in Attempts, channel \in {"credential", "host"} :
                    SubmitRead(p, a, channel)
       PROVE  MarksInv'
  <2>1. \A q \in Procs : q # p => proc'[q] = proc[q]
    BY <1>1, <1>14 DEF StartRead, ReexecuteRead, ResumeRead, SubmitRead
  <2>2. proc'[p].pc \in {"start", "reexecute", "scan", "settle"}
    BY <1>1, <1>14 DEF StartRead, ReexecuteRead, ResumeRead, SubmitRead, ProcStates
  <2> QED
    BY <1>3, <2>1, <2>2
<1>15. CASE Controller \/ Host \/ UNCHANGED vars
  BY <1>5, <1>15 DEF Controller, StopRun, StopAttempt, DecideApproval, RetryNode,
     OrderReexecution, RaiseApproval, ExpireApproval, Host, HostFailure, RequestCancel,
     PlatformCancels, ConfirmCancel, AnswerLost, WorkerEnds, vars
<1>16. ASSUME NEW p \in Procs, Runtime(p)
       PROVE  MarksInv'
  BY <1>7, <1>8, <1>9, <1>10, <1>11, <1>12, <1>13, <1>14, <1>16 DEF Runtime
<1> QED
  BY <1>15, <1>16 DEF Next

\* What one attempt's rows say, by themselves.
Truth(a) ==
    /\ effect[a] = "started" => exec[a] # "none"
    /\ effect[a] = "done" <=> a \in accepted
    /\ effect[a] = "failed" => exec[a] = "failed" /\ "failure" \in decided[a]
    /\ effect[a] \in {"done", "failed"} <=> claim[a] = "released"

\* Rows a step leaves alone stay true: executions and decisions are kept.
LEMMA TruthKept ==
  ASSUME TypeInv, [Next]_vars, NEW b \in Attempts, Truth(b), decided[b] \subseteq decided'[b],
         effect'[b] = effect[b], claim'[b] = claim[b], b \in accepted' <=> b \in accepted
  PROVE  Truth(b)'
<1>1. ExecMoves(b)
  BY ExecLife
<1> QED
  BY <1>1 DEF Truth, ExecMoves, Ended

\* Minting opens the rows of attempts that had none.
LEMMA TruthMinted ==
  ASSUME TypeInv, IdInv, SnapInv, [Next]_vars, NEW S, S \subseteq Nodes, NEW base \in Nat,
         Fits(S, base), NEW r, NEW p, NEW effects, NEW claims,
         Mint(S, base, r, p, effects, claims), \A a \in Attempts : runOf[a] # 0 => a <= base,
         NEW b \in Attempts, Truth(b), decided[b] \subseteq decided'[b],
         effects[b] = effect[b], claims[b] = claim[b], b \in accepted' <=> b \in accepted
  PROVE  Truth(b)'
<1>1. MintWrites(S, base, r, effects, claims)
  BY MintFacts
<1>2. CASE b \notin Numbered(S, base)
  <2>1. effect'[b] = effect[b] /\ claim'[b] = claim[b]
    BY <1>1, <1>2 DEF MintWrites
  <2> QED
    BY <2>1, TruthKept
<1>3. CASE b \in Numbered(S, base)
  <2>1. b > base /\ b \in Nat
    BY <1>1, <1>3, BoundsAssumption DEF MintWrites, Attempts
  <2>2. runOf[b] = 0
    BY <2>1
  <2>3. effect[b] = "none" /\ claim[b] = "none" /\ b \notin accepted
    BY <2>2 DEF SnapInv, RowsInv, Blank
  <2>4. effect'[b] = "pending" /\ claim'[b] = "reserved"
    BY <1>1, <1>3, <2>3 DEF MintWrites
  <2> QED
    BY <2>3, <2>4 DEF Truth
<1> QED
  BY <1>2, <1>3

LEMMA EffectStep ==
  ASSUME ~ SameInstant, TypeInv, IdInv, RightInv, SnapInv, EffectInv, [Next]_vars,
         NEW b \in Attempts
  PROVE  Truth(b)'
<1> USE DEF storeVars, snapVars, rowVars, ctlVars, platVars, hostVars
<1>1. /\ seq \in Nat /\ CallsOK /\ Truth(b)
      /\ decided \in [Attempts -> SUBSET AllCommands]
      /\ effect \in [Attempts -> {"none", "pending", "started", "done", "failed"}]
      /\ claim \in [Attempts -> {"none", "reserved", "released"}]
  BY DEF TypeInv, TypeOK, EffectInv, EffectTellsTruth, Truth
<1>2. \A a \in Attempts : runOf[a] # 0 => a <= seq
  BY DEF IdInv
<1>3. ASSUME NEW p \in Procs, StartCommit(p)
      PROVE  Truth(b)'
  <2>1. /\ run = 0 /\ Fits(Entries, 0) /\ Entries \subseteq Nodes
        /\ Mint(Entries, 0, 1, p, effect, claim) /\ UNCHANGED <<accepted, decided>>
    BY <1>3, EntriesAssumption DEF StartCommit, MintsSameRun
  <2>2. \A a \in Attempts : runOf[a] # 0 => a <= 0
    BY <2>1 DEF IdInv
  <2> QED
    BY <1>1, <2>1, <2>2, TruthMinted
<1>4. ASSUME NEW p \in Procs, ReexecuteCommit(p)
      PROVE  Truth(b)'
  <2>1. /\ Fits(Entries, seq) /\ Entries \subseteq Nodes
        /\ Mint(Entries, seq, run + 1, p, effect, claim) /\ UNCHANGED <<accepted, decided>>
    BY <1>4, EntriesAssumption DEF ReexecuteCommit, OrderStands, FromSeq, IdInv
  <2> QED
    BY <1>1, <1>2, <2>1, TruthMinted
<1>5. ASSUME NEW p \in Procs, NEW n \in Nodes, RetryNode(p, n)
      PROVE  Truth(b)'
  <2> DEFINE S == {n}
  <2>1. /\ Fits(S, seq) /\ S \subseteq Nodes
        /\ Mint(S, seq, run, p, effect, claim) /\ accepted' = accepted
        /\ decided' = [decided EXCEPT ![node[n].attempt] = @ \cup {"retry"}]
    BY <1>5 DEF RetryNode
  <2>2. decided[b] \subseteq decided'[b]
    BY <1>1, <2>1
  <2> HIDE DEF S
  <2> QED
    BY <1>1, <1>2, <2>1, <2>2, TruthMinted
<1>6. ASSUME NEW p \in Procs, NEW S \in SUBSET Nodes, NEW stops \in BOOLEAN,
             SubmitCommit(p, S, stops)
      PROVE  Truth(b)'
  <2> DEFINE a == proc[p].cur
             effects == [effect EXCEPT ![a] = IF CanMove(a, @) THEN "done" ELSE @]
             claims == [claim EXCEPT ![a] = IF @ = "reserved" THEN "released" ELSE @]
  <2>1. /\ Fits(S, seq) /\ Mint(S, seq, run, p, effects, claims) /\ proc[p].pc = "settle"
        /\ a \in InFlight /\ Committable(a)
        /\ accepted' = accepted \cup {a} /\ decided' = decided
    BY <1>6 DEF SubmitCommit, Reducible
  <2>2. a \in Attempts
    BY <1>1, <2>1 DEF CallsOK, CallOK
  <2>3. CASE b # a
    <3>1. effects[b] = effect[b] /\ claims[b] = claim[b] /\ (b \in accepted' <=> b \in accepted)
      BY <1>1, <2>1, <2>2, <2>3
    <3> HIDE DEF effects, claims
    <3> QED
      BY <1>1, <1>2, <2>1, <3>1, TruthMinted
  <2>4. CASE b = a
    <3>1. run # 0 /\ runOf[a] = run
      BY <2>1, <2>2 DEF InFlight, Dispatched, TypeInv, Unstarted, SnapInv, NodesInv, Points
    <3>2. effect[a] # "none" /\ claim[a] # "none"
      BY <2>2, <3>1 DEF SnapInv, RowsInv
    <3>3. a \notin accepted /\ "failure" \notin decided[a]
      BY <2>1 DEF Committable, Stopped, Stopping, AttemptScoped
    <3>4. effect[a] \in {"pending", "started"} /\ claim[a] = "reserved"
      BY <1>1, <2>2, <2>4, <3>2, <3>3 DEF Truth
    <3>5. effects[a] = "done" /\ claims[a] = "released"
      BY <1>1, <2>2, <3>1, <3>4 DEF CanMove
    <3>6. MintWrites(S, seq, run, effects, claims)
      BY <1>1, <2>1, MintFacts
    <3> HIDE DEF effects, claims
    <3>7. effect'[a] = "done" /\ claim'[a] = "released"
      BY <2>2, <3>5, <3>6 DEF MintWrites
    <3> QED
      BY <2>1, <2>4, <3>7 DEF Truth
  <2> QED
    BY <2>3, <2>4
<1>7. ASSUME ~ Minting
      PROVE  accepted' = accepted /\ decided[b] \subseteq decided'[b]
  BY <1>7, StepCases DEF Resting
<1>8. ASSUME NEW a \in Attempts, HostFailure(a), ~ Minting
      PROVE  Truth(b)'
  <2>1. /\ exec[a] = "failed" /\ a \in InFlight /\ exec' = exec
        /\ effect' = [effect EXCEPT ![a] = IF CanMove(a, @) THEN "failed" ELSE @]
        /\ claim' = [claim EXCEPT ![a] = IF @ = "reserved" THEN "released" ELSE @]
        /\ decided' = [decided EXCEPT ![a] = @ \cup {"failure"}]
    BY <1>8 DEF HostFailure
  <2>2. CASE b # a
    <3>1. effect'[b] = effect[b] /\ claim'[b] = claim[b]
      BY <1>1, <2>1, <2>2
    <3> QED
      BY <1>1, <1>7, <1>8, <3>1, TruthKept
  <2>3. CASE b = a
    <3>1. run # 0 /\ runOf[a] = run /\ a \notin accepted
      BY <2>1 DEF InFlight, Dispatched, TypeInv, Unstarted, SnapInv, NodesInv, Points
    <3>2. effect[a] # "none" /\ claim[a] # "none"
      BY <3>1 DEF SnapInv, RowsInv
    <3>3. /\ effect[a] \in {"pending", "started", "failed"}
          /\ effect[a] \in {"pending", "started"} => claim[a] = "reserved"
          /\ effect[a] = "failed" => claim[a] = "released"
      BY <1>1, <2>3, <3>1, <3>2 DEF Truth
    <3>4. effect'[a] = "failed" /\ claim'[a] = "released" /\ "failure" \in decided'[a]
      BY <1>1, <2>1, <3>1, <3>3 DEF CanMove
    <3> QED
      BY <1>7, <1>8, <2>1, <2>3, <3>1, <3>4 DEF Truth
  <2> QED
    BY <2>2, <2>3
<1>9. ASSUME NEW p \in Procs, MarkStarted(p), ~ Minting
      PROVE  Truth(b)'
  <2> DEFINE a == proc[p].cur
  <2>1. /\ proc[p].pc = "mark" /\ exec' = exec /\ claim' = claim
        /\ \/ effect' = effect
           \/ /\ effect[a] \in {"pending", "started"}
              /\ effect' = [effect EXCEPT ![a] = "started"]
    BY <1>9 DEF MarkStarted, CanMove
  <2>2. exec[a] # "none"
    BY <2>1 DEF EffectInv, MarksInv
  <2>3. CASE effect'[b] = effect[b]
    BY <1>1, <1>7, <1>9, <2>1, <2>3, TruthKept
  <2>4. CASE effect'[b] # effect[b]
    <3>1. b = a /\ effect[b] = "pending" /\ effect'[b] = "started"
      BY <1>1, <2>1, <2>4
    <3> QED
      BY <1>1, <1>7, <1>9, <2>1, <2>2, <3>1 DEF Truth
  <2> QED
    BY <2>3, <2>4
<1>10. ASSUME UNCHANGED <<effect, claim>>, ~ Minting
       PROVE  Truth(b)'
  BY <1>1, <1>7, <1>10, TruthKept
<1>11. CASE Minting
  BY <1>3, <1>4, <1>5, <1>6, <1>11 DEF Minting
<1>12. CASE ~ Minting
  <2>1. CASE Controller
    BY <1>10, <1>12, <2>1 DEF Controller, StopRun, StopAttempt, DecideApproval,
       OrderReexecution, RaiseApproval, ExpireApproval, Minting
  <2>2. CASE Host
    BY <1>8, <1>10, <1>12, <2>2
    DEF Host, RequestCancel, PlatformCancels, ConfirmCancel, AnswerLost, WorkerEnds
  <2>3. ASSUME NEW p \in Procs, Runtime(p)
        PROVE  Truth(b)'
    <3>1. CASE MarkStarted(p)
      BY <1>9, <1>12, <3>1
    <3>2. CASE ~ MarkStarted(p)
      BY <1>10, <1>12, <2>3, <3>2
      DEF Runtime, StartRead, StartRefused, SubmitRead, SubmitRefused, ReexecuteRead,
          ReexecuteRaced, ResumeRead, ScanEffects, Examine, Fence, Reissue, Create, CreateFails,
          Crash, Minting
    <3> QED
      BY <3>1, <3>2
  <2>4. CASE UNCHANGED vars
    BY <1>10, <1>12, <2>4 DEF vars
  <2> QED
    BY <2>1, <2>2, <2>3, <2>4 DEF Next
<1> QED
  BY <1>11, <1>12

LEMMA EffectInvariant == ~ SameInstant => (Spec => []EffectInv)
<1> SUFFICES ASSUME ~ SameInstant PROVE Spec => []EffectInv
  OBVIOUS
<1>1. Init => EffectInv
  BY DEF Init, EffectInv, EffectTellsTruth, MarksInv, Idle
<1>2. TypeInv /\ IdInv /\ RightInv /\ SnapInv /\ EffectInv /\ [Next]_vars => EffectInv'
  <2> SUFFICES ASSUME TypeInv, IdInv, RightInv, SnapInv, EffectInv, [Next]_vars
               PROVE  EffectInv'
    OBVIOUS
  <2>1. MarksInv'
    BY MarksStep DEF EffectInv
  <2>2. \A b \in Attempts : Truth(b)'
    BY EffectStep
  <2>3. EffectTellsTruth'
    BY <2>2 DEF EffectTellsTruth, Truth
  <2> QED
    BY <2>1, <2>3 DEF EffectInv
<1> QED
  BY <1>1, <1>2, TypeInvariant, IdInvariant, RightInvariant, SnapInvariant, PTL DEF Spec

\* A dispatch effect tells the truth about its attempt through every crash,
\* retry and late recording: started means an execution exists, done means it
\* was accepted, failed means the platform saw it fail, and the reservation is
\* given back exactly when the effect has ended.
THEOREM EffectsTellTheTruth == ~ SameInstant => (Spec => []EffectTellsTruth)
<1> SUFFICES ASSUME ~ SameInstant PROVE Spec => []EffectTellsTruth
  OBVIOUS
<1>1. EffectInv => EffectTellsTruth
  BY DEF EffectInv
<1> QED
  BY <1>1, EffectInvariant, PTL

-----------------------------------------------------------------------------
(* What a run leaves behind.  An order is given only when nothing blocks   *)
(* it, and the run it closes stays as it was; a confirmed cancellation is  *)
(* of an execution that has ended.                                         *)

CancelsInv == \A a \in Attempts : a \in answered \/ cancel[a] = "done" => exec[a] \in Ended

ClosedInv == run # 0 /\ order[run] # "none" => Blocking = {}

BehindInv ==
    \A a \in Attempts : runOf[a] \in 1 .. run - 1
        => a \in accepted \/ "retry" \in decided[a] \/ exec[a] \in Ended

LeftInv == CancelsInv /\ ClosedInv /\ BehindInv

LEMMA CancelsStep ==
  ASSUME TypeInv, CancelsInv, [Next]_vars
  PROVE  CancelsInv'
<1> USE DEF storeVars, snapVars, rowVars, ctlVars, platVars, hostVars
<1>1. /\ exec \in [Attempts -> {"none", "refused", "live", "completed", "failed", "cancelled"}]
      /\ cancel \in [Attempts -> {"none", "started", "done"}] /\ answered \subseteq Attempts
  BY DEF TypeInv, TypeOK
<1>2. \A b \in Attempts : exec[b] \in Ended => exec'[b] \in Ended
  BY ExecLife DEF ExecMoves, Ended
<1>3. ASSUME \A b \in Attempts : /\ b \in answered' => b \in answered \/ exec'[b] \in Ended
                                 /\ cancel'[b] = "done" => cancel[b] = "done" \/ b \in answered
      PROVE  CancelsInv'
  BY <1>2, <1>3 DEF CancelsInv
<1>4. ASSUME NEW a \in Attempts, PlatformCancels(a)
      PROVE  CancelsInv'
  <2>1. /\ exec[a] \notin {"none", "refused"} /\ answered' = answered \cup {a}
        /\ exec' = [exec EXCEPT ![a] = IF @ = "live" THEN "cancelled" ELSE @]
        /\ cancel' = cancel
    BY <1>4 DEF PlatformCancels
  <2>2. exec'[a] \in Ended
    BY <1>1, <2>1 DEF Ended
  <2> QED
    BY <1>3, <2>1, <2>2
<1>5. ASSUME NEW a \in Attempts, RequestCancel(a) \/ ConfirmCancel(a) \/ AnswerLost(a)
      PROVE  CancelsInv'
  <2>1. /\ \A b \in Attempts : b \in answered' => b \in answered
        /\ \A b \in Attempts : cancel'[b] = "done" => cancel[b] = "done" \/ b \in answered
    BY <1>1, <1>5 DEF RequestCancel, ConfirmCancel, AnswerLost
  <2> QED
    BY <1>3, <2>1
<1>6. ASSUME UNCHANGED <<answered, cancel>>
      PROVE  CancelsInv'
  BY <1>3, <1>6
<1>7. CASE Host
  BY <1>4, <1>5, <1>6, <1>7 DEF Host, HostFailure, WorkerEnds
<1>8. CASE Controller \/ UNCHANGED vars
  BY <1>6, <1>8 DEF Controller, StopRun, StopAttempt, DecideApproval, RetryNode,
     OrderReexecution, RaiseApproval, ExpireApproval, vars
<1>9. ASSUME NEW p \in Procs, Runtime(p)
      PROVE  CancelsInv'
  BY <1>6, <1>9
  DEF Runtime, StartRead, StartCommit, StartRefused, SubmitRead, SubmitCommit, SubmitRefused,
      ReexecuteRead, ReexecuteCommit, ReexecuteRaced, ResumeRead, ScanEffects, Examine, Fence,
      Reissue, Create, CreateFails, MarkStarted, Crash
<1> QED
  BY <1>7, <1>8, <1>9 DEF Next

\* Outside the steps that mint, no settled effect is open again and no
\* confirmation is withdrawn.
LEMMA RestingOpens ==
  ASSUME TypeInv, [Next]_vars, ~ Minting, NEW b \in Attempts
  PROVE  /\ effect'[b] \in {"pending", "started"} => effect[b] \in {"pending", "started"}
         /\ cancel[b] = "done" => cancel'[b] = "done"
<1> USE DEF storeVars, snapVars, rowVars, ctlVars, platVars, hostVars
<1>1. /\ effect \in [Attempts -> {"none", "pending", "started", "done", "failed"}]
      /\ cancel \in [Attempts -> {"none", "started", "done"}]
  BY DEF TypeInv, TypeOK
<1>2. ASSUME NEW a \in Attempts, HostFailure(a)
      PROVE  effect'[b] \in {effect[b], "failed"} /\ cancel' = cancel
  BY <1>1, <1>2 DEF HostFailure
<1>3. ASSUME NEW a \in Attempts, RequestCancel(a) \/ ConfirmCancel(a)
      PROVE  effect' = effect /\ (cancel[b] = "done" => cancel'[b] = "done")
  BY <1>1, <1>3 DEF RequestCancel, ConfirmCancel
<1>4. ASSUME NEW p \in Procs, MarkStarted(p)
      PROVE  /\ effect'[b] \in {"pending", "started"} => effect[b] \in {"pending", "started"}
             /\ cancel' = cancel
  BY <1>1, <1>4 DEF MarkStarted, CanMove
<1>5. CASE Host
  BY <1>2, <1>3, <1>5 DEF Host, PlatformCancels, AnswerLost, WorkerEnds
<1>6. CASE Controller \/ UNCHANGED vars
  BY <1>6 DEF Controller, StopRun, StopAttempt, DecideApproval, OrderReexecution,
     RaiseApproval, ExpireApproval, Minting, vars
<1>7. ASSUME NEW p \in Procs, Runtime(p), ~ MarkStarted(p)
      PROVE  UNCHANGED <<effect, cancel>>
  BY <1>7
  DEF Runtime, StartRead, StartRefused, SubmitRead, SubmitRefused, ReexecuteRead,
      ReexecuteRaced, ResumeRead, ScanEffects, Examine, Fence, Reissue, Create, CreateFails,
      Crash, Minting
<1> QED
  BY <1>4, <1>5, <1>6, <1>7 DEF Next

LEMMA ClosedStep ==
  ASSUME ~ SameInstant, TypeInv, OrderInv, SnapInv, ClosedInv, [Next]_vars
  PROVE  ClosedInv'
<1>1. /\ run \in 0 .. MaxRuns /\ MaxRuns \in Nat \ {0} /\ CallsOK
      /\ order \in [Runs -> {"none", "ordered", "executed"}]
      /\ node \in [Nodes -> [status : {"pending", "dispatched", "settled"}, attempt : 0 .. MaxSeq]]
  BY BoundsAssumption DEF TypeInv, TypeOK
<1>2. ASSUME NEW p \in Procs, StartCommit(p)
      PROVE  ClosedInv'
  <2>1. run = 0 /\ run' = 1 /\ order' = order /\ 1 \in Runs
    BY <1>1, <1>2 DEF StartCommit, MintsSameRun, Runs
  <2> QED
    BY <2>1 DEF OrderInv, ClosedInv
<1>3. ASSUME NEW p \in Procs, ReexecuteCommit(p)
      PROVE  ClosedInv'
  <2>1. /\ proc[p].pc = "reexecute" /\ proc[p].run = run /\ run' = run + 1
        /\ order' = [order EXCEPT ![run] = "executed"]
    BY <1>3 DEF ReexecuteCommit, OrderStands
  <2>2. run \in Runs /\ run + 1 \in Runs
    BY <1>1, <2>1 DEF Runs, CallsOK, CallOK
  <2>3. order[run + 1] = "none"
    BY <1>1, <2>2 DEF OrderInv
  <2>4. order'[run'] = "none"
    BY <1>1, <2>1, <2>2, <2>3
  <2> QED
    BY <2>4 DEF ClosedInv
<1>4. ASSUME control[run] = "none", run' = run, order' = order
      PROVE  ClosedInv'
  <2>1. ~ (run # 0 /\ order[run] # "none")
    BY <1>1, <1>4 DEF OrderInv, Runs
  <2> QED
    BY <1>4, <2>1 DEF ClosedInv
<1>5. CASE Minting
  <2>1. CASE \E p \in Procs, n \in Nodes : RetryNode(p, n)
    BY <1>4, <2>1 DEF RetryNode, storeVars
  <2>2. CASE \E p \in Procs, S \in SUBSET Nodes, stops \in BOOLEAN : SubmitCommit(p, S, stops)
    BY <1>4, <2>2 DEF SubmitCommit, Reducible, storeVars
  <2> QED
    BY <1>2, <1>3, <1>5, <2>1, <2>2 DEF Minting
<1>6. CASE ~ Minting
  <2>1. Resting
    BY <1>6, StepCases
  <2>2. InFlight' = InFlight /\ run' = run
    BY <2>1 DEF Resting, InFlight, Dispatched
  <2>3. \A b \in Attempts :
          /\ effect'[b] \in {"pending", "started"} => effect[b] \in {"pending", "started"}
          /\ cancel[b] = "done" => cancel'[b] = "done"
    BY <1>6, RestingOpens
  <2>4. Blocking' \subseteq Blocking
    <3>1. InFlight \subseteq Attempts
      BY DEF InFlight, Dispatched, SnapInv, NodesInv
    <3> QED
      BY <2>2, <2>3, <3>1 DEF Blocking, Unsettled
  <2>5. CASE OrderReexecution
    <3>1. Blocking = {} /\ UNCHANGED <<node, effect, cancel>>
      BY <2>5 DEF OrderReexecution, snapVars, rowVars, ctlVars
    <3> QED
      BY <3>1 DEF ClosedInv, Blocking, InFlight, Dispatched, Unsettled
  <2>6. CASE ~ OrderReexecution
    <3>1. order' = order
      BY <1>6, <2>6
      DEF Next, Controller, StopRun, StopAttempt, DecideApproval, RaiseApproval, ExpireApproval,
          Host, HostFailure, RequestCancel, PlatformCancels, ConfirmCancel, AnswerLost,
          WorkerEnds, Runtime, StartRead, StartRefused, SubmitRead, SubmitRefused, ReexecuteRead,
          ReexecuteRaced, ResumeRead, ScanEffects, Examine, Fence, Reissue, Create, CreateFails,
          MarkStarted, Crash, Minting, vars, storeVars
    <3> QED
      BY <2>2, <2>4, <3>1 DEF ClosedInv
  <2> QED
    BY <2>5, <2>6
<1> QED
  BY <1>5, <1>6

LEMMA BehindStep ==
  ASSUME ~ SameInstant, TypeInv, OrderInv, IdInv, SnapInv, EffectInv, LeftInv, [Next]_vars
  PROVE  BehindInv'
<1>1. /\ run \in 0 .. MaxRuns /\ MaxRuns \in Nat \ {0} /\ CallsOK /\ seq \in Nat
      /\ decided \in [Attempts -> SUBSET AllCommands]
      /\ effect \in [Attempts -> {"none", "pending", "started", "done", "failed"}]
  BY BoundsAssumption DEF TypeInv, TypeOK
<1>2. \A b \in Attempts : exec[b] \in Ended => exec'[b] \in Ended
  BY ExecLife DEF ExecMoves, Ended
<1>3. \* the attempts of a run that nothing blocks
      ASSUME run # 0, order[run] # "none", NEW b \in Attempts, runOf[b] = run
      PROVE  b \in accepted \/ "retry" \in decided[b] \/ exec[b] \in Ended
  <2>1. b \in InFlight \/ b \in accepted \/ "retry" \in decided[b]
    BY <1>3 DEF SnapInv, NewestInv
  <2>2. CASE b \in InFlight
    <3>1. ~ Unsettled(b) \/ cancel[b] = "done"
      BY <1>3, <2>2 DEF LeftInv, ClosedInv, Blocking
    <3>2. CASE cancel[b] = "done"
      BY <3>2 DEF LeftInv, CancelsInv
    <3>3. CASE ~ Unsettled(b)
      <4>1. effect[b] # "none"
        BY <1>3 DEF SnapInv, RowsInv
      <4>2. effect[b] \in {"done", "failed"}
        BY <1>1, <3>3, <4>1 DEF Unsettled
      <4> QED
        BY <4>2 DEF EffectInv, EffectTellsTruth, Ended
    <3> QED
      BY <3>1, <3>2, <3>3
  <2> QED
    BY <2>1, <2>2
<1>4. ASSUME \A b \in Attempts : /\ decided[b] \subseteq decided'[b]
                                 /\ runOf'[b] \in 1 .. run' - 1
                                      => \/ runOf[b] \in 1 .. run - 1
                                         \/ runOf[b] = run /\ run # 0 /\ order[run] # "none",
             accepted \subseteq accepted'
      PROVE  BehindInv'
  <2> SUFFICES ASSUME NEW b \in Attempts, runOf'[b] \in 1 .. run' - 1
               PROVE  b \in accepted' \/ "retry" \in decided'[b] \/ exec'[b] \in Ended
    BY DEF BehindInv
  <2>1. b \in accepted \/ "retry" \in decided[b] \/ exec[b] \in Ended
    <3>1. CASE runOf[b] \in 1 .. run - 1
      BY <3>1 DEF LeftInv, BehindInv
    <3>2. CASE runOf[b] = run /\ run # 0 /\ order[run] # "none"
      BY <1>3, <3>2
    <3> QED
      BY <1>4, <3>1, <3>2
  <2> QED
    BY <1>2, <1>4, <2>1
<1>5. ASSUME NEW S, S \subseteq Nodes, NEW base \in Nat, Fits(S, base), NEW p,
             NEW effects, NEW claims, Mint(S, base, run', p, effects, claims)
      PROVE  \A b \in Attempts : runOf'[b] = run' \/ runOf'[b] = runOf[b]
  BY <1>5 DEF Mint
<1>6. ASSUME NEW p \in Procs, StartCommit(p)
      PROVE  BehindInv'
  <2>1. run' = 1
    BY <1>6 DEF StartCommit
  <2> QED
    BY <2>1 DEF BehindInv
<1>7. ASSUME NEW p \in Procs, ReexecuteCommit(p)
      PROVE  BehindInv'
  <2>1. /\ proc[p].pc = "reexecute" /\ proc[p].run = run /\ run' = run + 1
        /\ order[run] = "ordered" /\ Fits(Entries, seq) /\ Entries \subseteq Nodes
        /\ Mint(Entries, seq, run', p, effect, claim) /\ UNCHANGED <<accepted, decided>>
    BY <1>7, EntriesAssumption
    DEF ReexecuteCommit, OrderStands, FromSeq, IdInv, ctlVars
  <2>2. run \in Nat \ {0}
    BY <1>1, <2>1 DEF CallsOK, CallOK
  <2>3. \A b \in Attempts : runOf[b] \in Nat /\ (runOf'[b] = run + 1 \/ runOf'[b] = runOf[b])
    BY <1>1, <1>5, <2>1 DEF TypeInv, TypeOK
  <2>4. \A b \in Attempts : runOf'[b] \in 1 .. run' - 1
          => \/ runOf[b] \in 1 .. run - 1
             \/ runOf[b] = run /\ run # 0 /\ order[run] # "none"
    BY <2>1, <2>2, <2>3
  <2> QED
    BY <1>4, <2>1, <2>4
<1>8. ASSUME NEW S, S \subseteq Nodes, Fits(S, seq), NEW p, NEW effects, NEW claims,
             Mint(S, seq, run', p, effects, claims), run' = run
      PROVE  \A b \in Attempts : runOf'[b] \in 1 .. run' - 1 => runOf[b] \in 1 .. run - 1
  <2>1. \A b \in Attempts : runOf'[b] = run \/ runOf'[b] = runOf[b]
    BY <1>1, <1>5, <1>8
  <2>2. run \notin 1 .. run - 1
    BY <1>1
  <2> QED
    BY <1>8, <2>1, <2>2
<1>9. ASSUME NEW p \in Procs, NEW S \in SUBSET Nodes, NEW stops \in BOOLEAN,
             SubmitCommit(p, S, stops)
      PROVE  BehindInv'
  <2>1. PICK effects, claims :
           /\ Fits(S, seq) /\ Mint(S, seq, run', p, effects, claims) /\ run' = run
           /\ accepted \subseteq accepted' /\ decided' = decided
    BY <1>9 DEF SubmitCommit, storeVars, ctlVars
  <2>2. \A b \in Attempts : runOf'[b] \in 1 .. run' - 1 => runOf[b] \in 1 .. run - 1
    BY <1>8, <2>1
  <2> QED
    BY <1>4, <2>1, <2>2
<1>10. ASSUME NEW p \in Procs, NEW n \in Nodes, RetryNode(p, n)
       PROVE  BehindInv'
  <2> DEFINE S == {n}
  <2>1. /\ Fits(S, seq) /\ Mint(S, seq, run', p, effect, claim) /\ run' = run
        /\ accepted' = accepted /\ S \subseteq Nodes
        /\ decided' = [decided EXCEPT ![node[n].attempt] = @ \cup {"retry"}]
    BY <1>10 DEF RetryNode, storeVars
  <2> HIDE DEF S
  <2>2. \A b \in Attempts : runOf'[b] \in 1 .. run' - 1 => runOf[b] \in 1 .. run - 1
    BY <1>8, <2>1
  <2>3. \A b \in Attempts : decided[b] \subseteq decided'[b]
    BY <1>1, <2>1
  <2> QED
    BY <1>4, <2>1, <2>2, <2>3
<1>11. CASE Minting
  BY <1>6, <1>7, <1>9, <1>10, <1>11 DEF Minting
<1>12. CASE ~ Minting
  BY <1>4, <1>12, StepCases DEF Resting
<1> QED
  BY <1>11, <1>12

LEMMA LeftInvariant == ~ SameInstant => (Spec => []LeftInv)
<1> SUFFICES ASSUME ~ SameInstant PROVE Spec => []LeftInv
  OBVIOUS
<1>1. Init => LeftInv
  BY BoundsAssumption DEF Init, LeftInv, CancelsInv, ClosedInv, BehindInv
<1>2. TypeInv /\ OrderInv /\ IdInv /\ SnapInv /\ EffectInv /\ LeftInv /\ [Next]_vars => LeftInv'
  BY CancelsStep, ClosedStep, BehindStep DEF LeftInv
<1> QED
  BY <1>1, <1>2, TypeInvariant, OrderInvariant, IdInvariant, SnapInvariant, EffectInvariant,
     PTL DEF Spec

\* A run is re-executed only when nothing it had in flight can still be running:
\* a live execution of an earlier run belongs to an attempt that was accepted or
\* that a retry had already replaced, however cancels, failures and orders race.
THEOREM NothingLiveLeftBehind == ~ SameInstant => (Spec => []NoLiveLeftBehind)
<1> SUFFICES ASSUME ~ SameInstant PROVE Spec => []NoLiveLeftBehind
  OBVIOUS
<1>1. LeftInv => NoLiveLeftBehind
  BY DEF LeftInv, BehindInv, NoLiveLeftBehind, Ended
<1> QED
  BY <1>1, LeftInvariant, PTL

-----------------------------------------------------------------------------
(* The budget.  A reservation row is never deleted, so what a run has      *)
(* spent is the number of attempts it minted; each of them was counted     *)
(* before it was minted.                                                   *)

AttemptsOf(r) == {a \in Attempts : runOf[a] = r}

LEMMA AttemptsFinite ==
  ASSUME NEW T, T \subseteq Attempts
  PROVE  IsFiniteSet(T) /\ Cardinality(T) \in Nat
<1>1. IsFiniteSet(Attempts)
  BY FS_Interval, BoundsAssumption DEF Attempts
<1> QED
  BY <1>1, FS_Subset, FS_CardinalityType

LEMMA SpentIsMinted ==
  ASSUME RowsInv, NEW r \in Runs
  PROVE  Spent(r) = Cardinality(AttemptsOf(r))
<1>1. r # 0
  BY BoundsAssumption DEF Runs
<1>2. AttemptsOf(r) = {a \in Attempts : runOf[a] = r /\ claim[a] # "none"}
  BY <1>1 DEF AttemptsOf, RowsInv
<1> QED
  BY <1>2 DEF Spent

LEMMA SpentIsMintedNext ==
  ASSUME RowsInv', NEW r \in Runs
  PROVE  Spent(r)' = Cardinality(AttemptsOf(r)')
<1>1. r # 0
  BY BoundsAssumption DEF Runs
<1>2. AttemptsOf(r)' = {a \in Attempts : runOf'[a] = r /\ claim'[a] # "none"}
  BY <1>1 DEF AttemptsOf, RowsInv
<1> QED
  BY <1>2 DEF Spent

\* As many numbers as nodes, at most.
LEMMA NumbersAtMost ==
  ASSUME NEW S, S \subseteq Nodes, NEW base \in Nat, Fits(S, base)
  PROVE  /\ Numbered(S, base) \subseteq Attempts
         /\ Cardinality(Numbered(S, base)) <= Cardinality(S)
<1> DEFINE lo == base + 1
           hi == base + Cardinality(S)
           I == lo .. hi
<1>1. Cardinality(S) \in Nat /\ Attempts \subseteq Nat
  BY CardNodes, BoundsAssumption DEF Attempts
<1>2. Numbered(S, base) \subseteq Attempts /\ Numbered(S, base) \subseteq I
  <2>1. /\ Numbered(S, base) \subseteq Attempts
        /\ \A a \in Numbered(S, base) : a > base /\ a <= base + Cardinality(S)
    BY NumberedFacts
  <2>2. ASSUME NEW a \in Numbered(S, base)
        PROVE  a \in I
    <3>1. a \in Nat /\ a > base /\ a <= base + Cardinality(S)
      BY <1>1, <2>1
    <3> QED
      BY <1>1, <3>1
  <2> QED
    BY <2>1, <2>2
<1>3. IsFiniteSet(I) /\ Cardinality(I) = Cardinality(S)
  <2>1. /\ lo \in Int /\ hi \in Int
        /\ lo > hi => Cardinality(S) = 0
        /\ ~ (lo > hi) => hi - lo + 1 = Cardinality(S)
    BY <1>1
  <2> HIDE DEF lo, hi
  <2>2. /\ IsFiniteSet(I)
        /\ Cardinality(I) = IF lo > hi THEN 0 ELSE hi - lo + 1
    BY <2>1, FS_Interval
  <2> QED
    BY <2>1, <2>2
<1> HIDE DEF I
<1> QED
  BY <1>2, <1>3, FS_Subset

LEMMA BudgetAfterMint ==
  ASSUME TypeInv, RowsInv, RowsInv', BudgetHeld, NEW S, S \subseteq Nodes, NEW base \in Nat,
         Fits(S, base), NEW r \in Runs, NEW p, NEW effects, NEW claims,
         Mint(S, base, r, p, effects, claims),
         Cardinality(AttemptsOf(r)) + Cardinality(S) <= MaxExecutions
  PROVE  BudgetHeld'
<1> DEFINE new == Numbered(S, base)
<1>1. new \subseteq Attempts /\ Cardinality(new) <= Cardinality(S)
  BY NumbersAtMost
<1>2. \A a \in Attempts : runOf'[a] = IF a \in new THEN r ELSE runOf[a]
  BY DEF Mint
<1> HIDE DEF new
<1> SUFFICES ASSUME NEW k \in Runs
             PROVE  Cardinality(AttemptsOf(k)') <= MaxExecutions
  <2>1. \A k \in Runs : Spent(k)' = Cardinality(AttemptsOf(k)')
    BY SpentIsMintedNext
  <2> QED
    BY <2>1 DEF BudgetHeld
<1>3. /\ AttemptsOf(k)' \subseteq Attempts /\ AttemptsOf(k) \subseteq Attempts
      /\ AttemptsOf(r) \subseteq Attempts
  BY DEF AttemptsOf
<1>4. CASE k # r
  <2>1. AttemptsOf(k)' \subseteq AttemptsOf(k)
    BY <1>2, <1>4 DEF AttemptsOf
  <2>2. Cardinality(AttemptsOf(k)) <= MaxExecutions
    BY SpentIsMinted DEF BudgetHeld
  <2>3. Cardinality(AttemptsOf(k)') <= Cardinality(AttemptsOf(k))
    BY <1>3, <2>1, AttemptsFinite, FS_Subset
  <2>4. Cardinality(AttemptsOf(k)') \in Nat /\ Cardinality(AttemptsOf(k)) \in Nat
    BY <1>3, AttemptsFinite
  <2> QED
    BY <2>2, <2>3, <2>4, BoundsAssumption
<1>5. CASE k = r
  <2>1. AttemptsOf(k)' \subseteq AttemptsOf(r) \cup new
    BY <1>2, <1>5 DEF AttemptsOf
  <2>2. /\ IsFiniteSet(AttemptsOf(r)) /\ IsFiniteSet(new)
        /\ Cardinality(AttemptsOf(r)) \in Nat /\ Cardinality(new) \in Nat
        /\ Cardinality(AttemptsOf(r) \cap new) \in Nat
        /\ Cardinality(S) \in Nat
        /\ AttemptsOf(r) \cap new \subseteq Attempts
    BY <1>1, <1>3, AttemptsFinite, CardNodes
  <2>3. /\ IsFiniteSet(AttemptsOf(r) \cup new)
        /\ Cardinality(AttemptsOf(r) \cup new)
             = Cardinality(AttemptsOf(r)) + Cardinality(new) - Cardinality(AttemptsOf(r) \cap new)
    BY <2>2, FS_Union
  <2>4. Cardinality(AttemptsOf(k)') <= Cardinality(AttemptsOf(r) \cup new)
    BY <2>1, <2>3, FS_Subset
  <2>5. Cardinality(AttemptsOf(k)') \in Nat
    BY <1>3, AttemptsFinite
  <2> QED
    BY <1>1, <2>2, <2>3, <2>4, <2>5, BoundsAssumption
<1> QED
  BY <1>4, <1>5

LEMMA BudgetStep ==
  ASSUME ~ SameInstant, TypeInv, IdInv, RightInv, SnapInv, BudgetHeld, [Next]_vars
  PROVE  BudgetHeld'
<1>1. /\ run \in 0 .. MaxRuns /\ MaxRuns \in Nat \ {0} /\ CallsOK /\ seq \in Nat
      /\ RowsInv /\ RowsInv' /\ Entries \subseteq Nodes
      /\ Cardinality(Entries) <= MaxExecutions
  BY SnapStep, EntriesAssumption, BoundsAssumption DEF TypeInv, TypeOK, SnapInv
<1>2. ASSUME NEW r \in Runs, r > run
      PROVE  Cardinality(AttemptsOf(r)) + Cardinality(Entries) <= MaxExecutions
  <2>1. \A a \in Attempts : runOf[a] \in Nat /\ runOf[a] <= run
    BY <1>1 DEF RowsInv, TypeInv, TypeOK
  <2>2. AttemptsOf(r) = {}
    BY <1>1, <1>2, <2>1 DEF AttemptsOf, Runs
  <2>3. Cardinality(AttemptsOf(r)) = 0
    BY <2>2, FS_EmptySet
  <2>4. Cardinality(Entries) \in Nat
    BY <1>1, CardNodes
  <2> QED
    BY <1>1, <2>3, <2>4
<1>3. ASSUME NEW p \in Procs, StartCommit(p)
      PROVE  BudgetHeld'
  <2>1. /\ run = 0 /\ Fits(Entries, 0) /\ Mint(Entries, 0, 1, p, effect, claim) /\ 1 \in Runs
    BY <1>1, <1>3 DEF StartCommit, MintsSameRun, Runs
  <2>2. Cardinality(AttemptsOf(1)) + Cardinality(Entries) <= MaxExecutions
    BY <1>2, <2>1
  <2> QED
    BY <1>1, <2>1, <2>2, BudgetAfterMint
<1>4. ASSUME NEW p \in Procs, ReexecuteCommit(p)
      PROVE  BudgetHeld'
  <2>1. /\ proc[p].pc = "reexecute" /\ proc[p].run = run
        /\ Fits(Entries, seq) /\ Mint(Entries, seq, run + 1, p, effect, claim)
    BY <1>4 DEF ReexecuteCommit, OrderStands, FromSeq, IdInv
  <2>2. run + 1 \in Runs /\ run + 1 > run
    BY <1>1, <2>1 DEF Runs, CallsOK, CallOK
  <2>3. Cardinality(AttemptsOf(run + 1)) + Cardinality(Entries) <= MaxExecutions
    BY <1>2, <2>2
  <2> QED
    BY <1>1, <2>1, <2>2, <2>3, BudgetAfterMint
<1>5. ASSUME NEW S, S \subseteq Nodes, BudgetAllows(S), run # 0
      PROVE  run \in Runs /\ Cardinality(AttemptsOf(run)) + Cardinality(S) <= MaxExecutions
  <2>1. run \in Runs
    BY <1>1, <1>5 DEF Runs
  <2> QED
    BY <1>1, <1>5, <2>1, SpentIsMinted DEF BudgetAllows
<1>6. ASSUME NEW p \in Procs, NEW S \in SUBSET Nodes, NEW stops \in BOOLEAN,
             SubmitCommit(p, S, stops)
      PROVE  BudgetHeld'
  <2>1. PICK effects, claims :
           /\ Fits(S, seq) /\ Mint(S, seq, run, p, effects, claims) /\ BudgetAllows(S)
    BY <1>6 DEF SubmitCommit
  <2>2. run # 0
    BY <1>6 DEF SubmitCommit, Reducible, InFlight, Dispatched, TypeInv, Unstarted
  <2> QED
    BY <1>1, <1>5, <2>1, <2>2, BudgetAfterMint
<1>7. ASSUME NEW p \in Procs, NEW n \in Nodes, RetryNode(p, n)
      PROVE  BudgetHeld'
  <2> DEFINE S == {n}
  <2>1. /\ Fits(S, seq) /\ Mint(S, seq, run, p, effect, claim) /\ BudgetAllows(S)
        /\ S \subseteq Nodes /\ run # 0
    BY <1>1, <1>7 DEF RetryNode
  <2> HIDE DEF S
  <2> QED
    BY <1>1, <1>5, <2>1, BudgetAfterMint
<1>8. CASE Minting
  BY <1>3, <1>4, <1>6, <1>7, <1>8 DEF Minting
<1>9. CASE ~ Minting
  <2>1. runOf' = runOf
    BY <1>9, StepCases DEF Resting
  <2>2. \A k \in Runs : Cardinality(AttemptsOf(k)) <= MaxExecutions
    BY <1>1, SpentIsMinted DEF BudgetHeld
  <2>3. \A k \in Runs : Spent(k)' = Cardinality(AttemptsOf(k)')
    BY <1>1, SpentIsMintedNext
  <2>4. \A k \in Runs : AttemptsOf(k)' = AttemptsOf(k)
    BY <2>1 DEF AttemptsOf
  <2> QED
    BY <2>2, <2>3, <2>4 DEF BudgetHeld
<1> QED
  BY <1>8, <1>9

\* budget.max_executions bounds the dispatches of every run, retries, loop rounds
\* and re-executions included, although settled attempts release their claims.
THEOREM BudgetNeverExceeded == ~ SameInstant => (Spec => []BudgetHeld)
<1> SUFFICES ASSUME ~ SameInstant PROVE Spec => []BudgetHeld
  OBVIOUS
<1>1. Init => BudgetHeld
  <2> SUFFICES ASSUME Init, NEW r \in Runs PROVE Spent(r) <= MaxExecutions
    BY DEF BudgetHeld
  <2>1. {a \in Attempts : runOf[a] = r /\ claim[a] # "none"} = {}
    BY DEF Init
  <2>2. Spent(r) = 0
    BY <2>1, FS_EmptySet DEF Spent
  <2> QED
    BY <2>2, BoundsAssumption
<1>2. TypeInv /\ IdInv /\ RightInv /\ SnapInv /\ BudgetHeld /\ [Next]_vars => BudgetHeld'
  BY BudgetStep
<1> QED
  BY <1>1, <1>2, TypeInvariant, IdInvariant, RightInvariant, SnapInvariant, PTL DEF Spec

-----------------------------------------------------------------------------
(* Credentials in memory.  With one host process nobody else issues a      *)
(* credential again, so what the process remembers is what the snapshot    *)
(* verifies; a second process may replace it behind the first one's back.  *)

OneProcess == \A p, q \in Procs : p = q

\* A call can resolve the credential of every attempt it is going to create.
CallHas(c, memory) ==
    /\ c.pc = "create" => memory[c.cur] # 0
    /\ c.mode = "launch" => \A a \in c.todo : memory[a] # 0

VaultInv ==
    /\ \A p \in Procs, a \in Attempts : vault[p][a] \in {0, verifier[a]}
    /\ \A a \in Attempts : exec[a] # "none" => held[a] = verifier[a]
    /\ \A p \in Procs : CallHas(proc[p], vault[p])

LEMMA NextCallsHave ==
  ASSUME NEW S, S \subseteq Attempts, NEW memory, NEW view
  PROVE  /\ CallHas(Idle, memory) /\ CallHas(Reconciling(S, view), memory)
         /\ (\A a \in S : memory[a] # 0) => CallHas(Launch(S), memory)
<1>1. CASE S = {}
  BY <1>1 DEF CallHas, Idle, Launch, Reconciling
<1>2. CASE S # {}
  <2>1. LeastOf(S) \in S
    BY <1>2, LeastFacts
  <2> QED
    BY <1>2, <2>1 DEF CallHas, Idle, Launch, Reconciling
<1> QED
  BY <1>1, <1>2

LEMMA OnwardsHave ==
  ASSUME TypeInv, VaultInv, NEW p \in Procs
  PROVE  CallHas(Onwards(p), vault[p]) /\ CallHas(AfterFailure(p), vault[p])
<1>1. proc[p].todo \subseteq Attempts
  BY DEF TypeInv, CallsOK, ProcStates
<1>2. proc[p].mode = "launch" => \A a \in proc[p].todo : vault[p][a] # 0
  BY DEF VaultInv, CallHas
<1> QED
  BY <1>1, <1>2, NextCallsHave DEF Onwards, AfterFailure

\* A step of the one process that leaves credentials and executions alone.
LEMMA VaultCall ==
  ASSUME OneProcess, TypeInv, VaultInv, NEW p \in Procs, NEW c,
         proc' = [proc EXCEPT ![p] = c], CallHas(c, vault[p]),
         UNCHANGED <<vault, verifier, exec, held>>
  PROVE  VaultInv'
<1>1. \A q \in Procs : q = p /\ proc'[q] = c
  BY DEF OneProcess, TypeInv, TypeOK
<1> QED
  BY <1>1 DEF VaultInv

\* The one process mints: it remembers what the snapshot will verify.
LEMMA VaultMint ==
  ASSUME OneProcess, TypeInv, VaultInv, KeepsVerifiers, NEW S, S \subseteq Nodes,
         NEW base \in Nat, Fits(S, base), NEW r, NEW p \in Procs, NEW effects, NEW claims,
         Mint(S, base, r, p, effects, claims), UNCHANGED <<exec, held>>
  PROVE  /\ \A q \in Procs, a \in Attempts : vault'[q][a] \in {0, verifier'[a]}
         /\ \A a \in Attempts : exec'[a] # "none" => held'[a] = verifier'[a]
         /\ \A a \in Numbered(S, base) : vault'[p][a] # 0
         /\ \A a \in Attempts : vault[p][a] # 0 => vault'[p][a] # 0
<1>1. Numbered(S, base) \subseteq Attempts
  BY NumberedFacts
<1>2. /\ vault \in [Procs -> [Attempts -> Nat]] /\ verifier \in [Attempts -> Nat]
      /\ \A q \in Procs : q = p
  BY DEF TypeInv, TypeOK, OneProcess
<1>3. \A a \in Attempts :
        /\ vault'[p][a] = IF a \in Numbered(S, base) THEN verifier[a] + 1 ELSE vault[p][a]
        /\ verifier'[a] = IF a \in Numbered(S, base) THEN verifier[a] + 1 ELSE verifier[a]
  BY <1>2 DEF Mint
<1>4. \A a \in Attempts : verifier[a] \in Nat /\ verifier[a] + 1 # 0
  BY <1>2
<1>5. \A a \in Attempts : vault'[p][a] \in {0, verifier'[a]}
  BY <1>3 DEF VaultInv
<1>6. \A a \in Attempts : exec'[a] # "none" => held'[a] = verifier'[a]
  BY DEF KeepsVerifiers, VaultInv
<1> QED
  BY <1>1, <1>2, <1>3, <1>4, <1>5, <1>6

LEMMA VaultStep ==
  ASSUME ~ SameInstant, OneProcess, TypeInv, OrderInv, IdInv, RightInv, VaultInv, [Next]_vars
  PROVE  VaultInv'
<1> USE DEF storeVars, snapVars, rowVars, ctlVars, platVars, hostVars
<1>1. /\ CallsOK /\ proc \in [Procs -> ProcStates] /\ seq \in Nat
      /\ vault \in [Procs -> [Attempts -> Nat]]
      /\ verifier \in [Attempts -> Nat] /\ held \in [Attempts -> Nat]
      /\ exec \in [Attempts -> {"none", "refused", "live", "completed", "failed", "cancelled"}]
      /\ KeepsVerifiers /\ Entries \subseteq Nodes
  BY RightStep, EntriesAssumption DEF TypeInv, TypeOK, CallsOK
<1>2. ASSUME NEW p \in Procs
      PROVE  /\ CallHas(Onwards(p), vault[p]) /\ CallHas(AfterFailure(p), vault[p])
             /\ CallHas(proc[p], vault[p])
             /\ \A memory : CallHas(Idle, memory)
  BY OnwardsHave, NextCallsHave DEF VaultInv
<1>3. ASSUME NEW p \in Procs, NEW S, NEW base \in Nat, NEW r, NEW effects, NEW claims,
             S \subseteq Nodes, Fits(S, base), Mint(S, base, r, p, effects, claims),
             UNCHANGED <<exec, held>>, proc' = [proc EXCEPT ![p] = Launch(Numbered(S, base))]
      PROVE  VaultInv'
  <2>1. /\ \A q \in Procs, a \in Attempts : vault'[q][a] \in {0, verifier'[a]}
        /\ \A a \in Attempts : exec'[a] # "none" => held'[a] = verifier'[a]
        /\ \A a \in Numbered(S, base) : vault'[p][a] # 0
    <3>1. KeepsVerifiers
      BY <1>1
    <3> QED
      BY <1>3, <3>1, VaultMint, Zenon
  <2>2. Numbered(S, base) \subseteq Attempts
    BY <1>3, NumberedFacts
  <2>3. CallHas(Launch(Numbered(S, base)), vault'[p])
    BY <2>1, <2>2, NextCallsHave
  <2>4. \A q \in Procs : q = p /\ proc'[q] = Launch(Numbered(S, base))
    BY <1>1, <1>3 DEF OneProcess
  <2> QED
    BY <2>1, <2>3, <2>4 DEF VaultInv
<1>4. ASSUME NEW p \in Procs, StartCommit(p)
      PROVE  VaultInv'
  <2>1. /\ Fits(Entries, 0) /\ Mint(Entries, 0, 1, p, effect, claim) /\ UNCHANGED <<exec, held>>
        /\ proc' = [proc EXCEPT ![p] = Launch(Numbered(Entries, 0))]
    BY <1>4 DEF StartCommit
  <2> QED
    BY <1>1, <1>3, <2>1
<1>5. ASSUME NEW p \in Procs, ReexecuteCommit(p)
      PROVE  VaultInv'
  <2>1. /\ FromSeq(p) \in Nat /\ Fits(Entries, FromSeq(p))
        /\ Mint(Entries, FromSeq(p), run + 1, p, effect, claim) /\ UNCHANGED <<exec, held>>
        /\ proc' = [proc EXCEPT ![p] = Launch(Numbered(Entries, FromSeq(p)))]
    BY <1>1, <1>5 DEF ReexecuteCommit, FromSeq, ProcStates
  <2> QED
    BY <1>1, <1>3, <2>1
<1>6. ASSUME NEW p \in Procs, NEW S \in SUBSET Nodes, NEW stops \in BOOLEAN,
             SubmitCommit(p, S, stops)
      PROVE  VaultInv'
  <2>1. PICK effects, claims :
           /\ Fits(S, seq) /\ Mint(S, seq, run, p, effects, claims) /\ UNCHANGED <<exec, held>>
           /\ proc' = [proc EXCEPT ![p] = Launch(Numbered(S, seq))]
    BY <1>6 DEF SubmitCommit
  <2> QED
    BY <1>1, <1>3, <2>1
<1>7. ASSUME NEW p \in Procs, NEW n \in Nodes, RetryNode(p, n)
      PROVE  VaultInv'
  <2> DEFINE S == {n}
  <2>1. /\ Fits(S, seq) /\ Mint(S, seq, run, p, effect, claim) /\ UNCHANGED <<exec, held, proc>>
        /\ S \subseteq Nodes /\ proc[p].pc = "idle"
    BY <1>7 DEF RetryNode
  <2> HIDE DEF S
  <2>2. /\ \A q \in Procs, a \in Attempts : vault'[q][a] \in {0, verifier'[a]}
        /\ \A a \in Attempts : exec'[a] # "none" => held'[a] = verifier'[a]
        /\ \A a \in Attempts : vault[p][a] # 0 => vault'[p][a] # 0
    BY <1>1, <2>1, VaultMint
  <2>3. proc[p].todo \subseteq Attempts
    BY <1>1 DEF ProcStates
  <2>4. CallHas(proc'[p], vault'[p])
    BY <1>2, <2>1, <2>2, <2>3 DEF CallHas
  <2>5. \A q \in Procs : q = p
    BY DEF OneProcess
  <2> QED
    BY <2>2, <2>4, <2>5 DEF VaultInv
<1>8. ASSUME NEW p \in Procs, NEW made \in {"live", "refused"}, Create(p, made)
      PROVE  VaultInv'
  <2> DEFINE a == proc[p].cur
  <2>1. /\ proc[p].pc = "create" /\ UNCHANGED <<vault, verifier>>
        /\ exec' = [exec EXCEPT ![a] = made] /\ held' = [held EXCEPT ![a] = vault[p][a]]
        /\ proc' = [proc EXCEPT ![p].pc = "mark"]
    BY <1>8 DEF Create
  <2>2. a \in Attempts /\ vault[p][a] = verifier[a]
    <3>1. a \in Attempts
      BY <1>1, <2>1 DEF CallsOK, CallOK
    <3>2. vault[p][a] # 0
      BY <1>2, <2>1 DEF CallHas
    <3> QED
      BY <3>1, <3>2 DEF VaultInv
  <2>3. \A b \in Attempts : exec'[b] # "none" => held'[b] = verifier'[b]
    BY <1>1, <2>1, <2>2 DEF VaultInv
  <2>4. \A q \in Procs : q = p
    BY DEF OneProcess
  <2>5. proc'[p].pc = "mark" /\ proc'[p].mode = proc[p].mode /\ proc'[p].todo = proc[p].todo
    BY <1>1, <2>1 DEF ProcStates
  <2>6. CallHas(proc'[p], vault'[p])
    BY <1>2, <2>1, <2>5 DEF CallHas
  <2> QED
    BY <2>1, <2>3, <2>4, <2>6 DEF VaultInv
<1>9. ASSUME NEW p \in Procs, Reissue(p)
      PROVE  VaultInv'
  <2> DEFINE a == proc[p].cur
  <2>1. proc[p].pc = "reissue" /\ UNCHANGED <<exec, held>> /\ a \in Attempts
    BY <1>1, <1>9 DEF Reissue, CallsOK, CallOK
  <2>2. CASE a \in InFlight /\ verifier[a] = proc[p].view[a]
    <3>1. /\ verifier' = [verifier EXCEPT ![a] = @ + 1]
          /\ vault' = [vault EXCEPT ![p][a] = verifier[a] + 1]
          /\ proc' = [proc EXCEPT ![p] =
                         IF Stopped(a) THEN Onwards(p) ELSE [proc[p] EXCEPT !.pc = "create"]]
      BY <1>1, <1>9, <2>2 DEF Reissue
    <3>2. /\ \A b \in Attempts : vault'[p][b] = IF b = a THEN verifier[a] + 1 ELSE vault[p][b]
          /\ \A b \in Attempts : verifier'[b] = IF b = a THEN verifier[a] + 1 ELSE verifier[b]
          /\ verifier[a] + 1 # 0
      BY <1>1, <2>1, <3>1
    <3>3. \A b \in Attempts : /\ vault'[p][b] \in {0, verifier'[b]}
                              /\ vault[p][b] # 0 => vault'[p][b] # 0
      BY <3>2 DEF VaultInv
    <3>4. \A b \in Attempts : exec'[b] # "none" => held'[b] = verifier'[b]
      BY <1>1, <2>1 DEF KeepsVerifiers, VaultInv
    <3>5. ASSUME NEW c \in ProcStates, CallOK(c), CallHas(c, vault[p])
          PROVE  CallHas(c, vault'[p])
      BY <3>3, <3>5 DEF CallHas, ProcStates, CallOK
    <3>6. CallHas(proc'[p], vault'[p])
      <4>1. CASE Stopped(a)
        <5>1. proc'[p] = Onwards(p)
          BY <1>1, <3>1, <4>1
        <5> QED
          BY <1>1, <1>2, <3>5, <5>1, OnwardsType
      <4>2. CASE ~ Stopped(a)
        <5>1. /\ proc'[p].pc = "create" /\ proc'[p].mode = proc[p].mode
              /\ proc'[p].todo = proc[p].todo /\ proc'[p].cur = a
          BY <1>1, <3>1, <4>2 DEF ProcStates
        <5>2. CallHas(proc[p], vault'[p])
          BY <1>1, <1>2, <3>5 DEF CallsOK
        <5> QED
          BY <2>1, <3>2, <5>1, <5>2 DEF CallHas
      <4> QED
        BY <4>1, <4>2
    <3>7. \A q \in Procs : q = p
      BY DEF OneProcess
    <3> QED
      BY <3>3, <3>4, <3>6, <3>7 DEF VaultInv
  <2>3. CASE ~ (a \in InFlight /\ verifier[a] = proc[p].view[a])
    <3>1. proc' = [proc EXCEPT ![p] = Onwards(p)] /\ UNCHANGED <<verifier, vault>>
      BY <1>9, <2>3 DEF Reissue
    <3> QED
      BY <1>2, <2>1, <3>1, VaultCall
  <2> QED
    BY <2>2, <2>3
<1>10. ASSUME NEW p \in Procs, Crash(p)
       PROVE  VaultInv'
  <2>1. /\ proc' = [proc EXCEPT ![p] = Idle] /\ UNCHANGED <<exec, held, verifier>>
        /\ vault' = [vault EXCEPT ![p] = [a \in Attempts |-> 0]]
    BY <1>10 DEF Crash
  <2>2. \A q \in Procs : q = p /\ proc'[q] = Idle /\ \A a \in Attempts : vault'[q][a] = 0
    BY <1>1, <2>1 DEF OneProcess
  <2> QED
    BY <1>2, <2>1, <2>2 DEF VaultInv
<1>11. ASSUME NEW p \in Procs, NEW answer, Examine(p, answer)
       PROVE  VaultInv'
  <2>1. PICK c : /\ proc' = [proc EXCEPT ![p] = c]
                 /\ \/ \E pc \in {"mark", "fence"} : c = [proc[p] EXCEPT !.pc = pc]
                    \/ vault[p][proc[p].cur] # 0 /\ c = [proc[p] EXCEPT !.pc = "create"]
                    \/ c = Onwards(p)
    BY <1>1, <1>11 DEF Examine
  <2>2. UNCHANGED <<vault, verifier, exec, held>>
    BY <1>11 DEF Examine
  <2>3. CallHas(c, vault[p])
    <3>1. CASE \E pc \in {"mark", "fence"} : c = [proc[p] EXCEPT !.pc = pc]
      BY <1>1, <1>2, <3>1 DEF CallHas, ProcStates
    <3>2. CASE vault[p][proc[p].cur] # 0 /\ c = [proc[p] EXCEPT !.pc = "create"]
      BY <1>1, <1>2, <3>2 DEF CallHas, ProcStates
    <3> QED
      BY <1>2, <2>1, <3>1, <3>2
  <2> QED
    BY <2>1, <2>2, <2>3, VaultCall
<1>12. ASSUME NEW p \in Procs, Fence(p)
       PROVE  VaultInv'
  <2>1. PICK c : /\ proc' = [proc EXCEPT ![p] = c]
                 /\ c = [proc[p] EXCEPT !.pc = "reissue"] \/ c = Onwards(p)
    BY <1>1, <1>12 DEF Fence
  <2>2. UNCHANGED <<vault, verifier, exec, held>>
    BY <1>12 DEF Fence
  <2>3. CallHas(c, vault[p])
    <3>1. CASE c = [proc[p] EXCEPT !.pc = "reissue"]
      BY <1>1, <1>2, <3>1 DEF CallHas, ProcStates
    <3> QED
      BY <1>2, <2>1, <3>1
  <2> QED
    BY <2>1, <2>2, <2>3, VaultCall
<1>13. ASSUME NEW p \in Procs, CreateFails(p) \/ MarkStarted(p)
       PROVE  VaultInv'
  <2>1. /\ proc' = [proc EXCEPT ![p] = Onwards(p)] \/ proc' = [proc EXCEPT ![p] = AfterFailure(p)]
        /\ UNCHANGED <<vault, verifier, exec, held>>
    BY <1>13 DEF CreateFails, MarkStarted
  <2> QED
    BY <1>2, <2>1, VaultCall
<1>14. ASSUME NEW p \in Procs, StartRefused(p) \/ SubmitRefused(p) \/ ReexecuteRaced(p)
       PROVE  VaultInv'
  <2>1. proc' = [proc EXCEPT ![p] = Idle] /\ UNCHANGED <<vault, verifier, exec, held>>
    BY <1>14 DEF StartRefused, SubmitRefused, ReexecuteRaced
  <2> QED
    BY <1>2, <2>1, VaultCall
<1>15. ASSUME NEW p \in Procs, ScanEffects(p)
       PROVE  VaultInv'
  <2> DEFINE S == {a \in Attempts : proc[p].view[a] # 0 /\ runOf[a] = run /\ effect[a] = "pending"}
  <2>1. /\ proc' = [proc EXCEPT ![p] = Reconciling(S, proc[p].view)]
        /\ UNCHANGED <<vault, verifier, exec, held>>
    BY <1>15 DEF ScanEffects
  <2>2. S \subseteq Attempts
    OBVIOUS
  <2> HIDE DEF S
  <2>3. CallHas(Reconciling(S, proc[p].view), vault[p])
    BY <2>2, NextCallsHave
  <2> QED
    BY <2>1, <2>3, VaultCall
<1>16. ASSUME NEW p \in Procs,
              \/ StartRead(p) \/ ReexecuteRead(p) \/ ResumeRead(p)
              \/ \E a \in Attempts, channel \in {"credential", "host"} :
                    SubmitRead(p, a, channel)
       PROVE  VaultInv'
  <2>1. UNCHANGED <<vault, verifier, exec, held>>
    BY <1>16 DEF StartRead, ReexecuteRead, ResumeRead, SubmitRead
  <2>2. /\ proc'[p].pc # "create" /\ proc'[p].todo = proc[p].todo
        /\ proc'[p].mode = "launch" => proc[p].mode = "launch"
    BY <1>1, <1>16 DEF StartRead, ReexecuteRead, ResumeRead, SubmitRead, ProcStates
  <2>3. CallHas(proc'[p], vault[p])
    BY <1>2, <2>2 DEF CallHas
  <2>4. \A q \in Procs : q = p
    BY DEF OneProcess
  <2> QED
    BY <2>1, <2>3, <2>4 DEF VaultInv
<1>17. ASSUME UNCHANGED <<vault, verifier, held, proc>>
       PROVE  (\A a \in Attempts : exec'[a] # "none" => exec[a] # "none") => VaultInv'
  BY <1>17 DEF VaultInv
<1>18. CASE Host
  <2>1. UNCHANGED <<vault, verifier, held, proc>>
    BY <1>18 DEF Host, HostFailure, RequestCancel, PlatformCancels, ConfirmCancel, AnswerLost,
       WorkerEnds
  <2>2. \A a \in Attempts : exec'[a] # "none" => exec[a] # "none"
    BY <1>1, <1>18 DEF Host, HostFailure, RequestCancel, PlatformCancels, ConfirmCancel,
       AnswerLost, WorkerEnds
  <2> QED
    BY <1>17, <2>1, <2>2
<1>19. CASE UNCHANGED vars
  BY <1>17, <1>19 DEF vars
<1>20. CASE Controller
  <2>1. CASE \/ \E cmd \in Commands : StopRun(cmd)
             \/ \E a \in Attempts, cmd \in Commands : StopAttempt(a, cmd) \/ DecideApproval(a, cmd)
             \/ OrderReexecution
             \/ \E a \in Attempts : RaiseApproval(a) \/ ExpireApproval(a)
    BY <1>17, <2>1
    DEF StopRun, StopAttempt, DecideApproval, OrderReexecution, RaiseApproval, ExpireApproval
  <2> QED
    BY <1>7, <1>20, <2>1 DEF Controller
<1>21. ASSUME NEW p \in Procs, Runtime(p)
       PROVE  VaultInv'
  BY <1>4, <1>5, <1>6, <1>8, <1>9, <1>10, <1>11, <1>12, <1>13, <1>14, <1>15, <1>16, <1>21
  DEF Runtime
<1> QED
  BY <1>18, <1>19, <1>20, <1>21 DEF Next

\* With one host process, the worker of an attempt in flight can settle it: the
\* credential it was given is the one the snapshot verifies, although the process
\* may die and issue credentials again between any two steps.
THEOREM WorkersCanSettle ==
    OneProcess /\ ~ SameInstant => (Spec => []WorkerCanSettle)
<1> SUFFICES ASSUME OneProcess, ~ SameInstant PROVE Spec => []WorkerCanSettle
  OBVIOUS
<1>1. Init => VaultInv
  BY DEF Init, VaultInv, CallHas, Idle
<1>2. TypeInv /\ OrderInv /\ IdInv /\ RightInv /\ VaultInv /\ [Next]_vars => VaultInv'
  BY VaultStep
<1>3. SnapInv /\ VaultInv => WorkerCanSettle
  <2> SUFFICES ASSUME SnapInv, VaultInv, NEW a \in InFlight, exec[a] = "live"
               PROVE  held[a] = verifier[a]
    BY DEF WorkerCanSettle
  <2>1. a \in Attempts
    BY DEF SnapInv, NodesInv, InFlight, Dispatched
  <2> QED
    BY <2>1 DEF VaultInv
<1> QED
  BY <1>1, <1>2, <1>3, TypeInvariant, OrderInvariant, IdInvariant, RightInvariant,
     SnapInvariant, PTL DEF Spec

-----------------------------------------------------------------------------
(* The fates of attempts.  A decision is recorded on an attempt the        *)
(* snapshot knows, a stopping one on an attempt in flight; a retry takes   *)
(* its attempt out of flight; and no cancellation is asked for before the  *)
(* attempt was stopped.                                                    *)

FateInv ==
    \A a \in Attempts :
        /\ decided[a] # {} => runOf[a] # 0
        /\ a \in InFlight => "retry" \notin decided[a]
        /\ cancel[a] # "none" => Stopped(a)

LEMMA FateMeans ==
  ASSUME NEW a
  PROVE  /\ FateOf(a) = "accepted" <=> a \in accepted
         /\ FateOf(a) = "replaced" <=> a \notin accepted /\ "retry" \in decided[a]
         /\ FateOf(a) = "stopped" <=>
              a \notin accepted /\ "retry" \notin decided[a] /\ Stopped(a)
         /\ FateOf(a) = "open" <=>
              /\ a \notin accepted /\ "retry" \notin decided[a] /\ ~ Stopped(a)
              /\ runOf[a] # 0
         /\ FateOf(a) = "none" <=>
              /\ a \notin accepted /\ "retry" \notin decided[a] /\ ~ Stopped(a)
              /\ runOf[a] = 0
BY DEF FateOf

LEMMA FateMeansNext ==
  ASSUME NEW a
  PROVE  /\ FateOf(a)' = "accepted" <=> a \in accepted'
         /\ FateOf(a)' = "replaced" <=> a \notin accepted' /\ "retry" \in decided'[a]
         /\ FateOf(a)' = "stopped" <=>
              a \notin accepted' /\ "retry" \notin decided'[a] /\ Stopped(a)'
         /\ FateOf(a)' = "open" <=>
              /\ a \notin accepted' /\ "retry" \notin decided'[a] /\ ~ Stopped(a)'
              /\ runOf'[a] # 0
         /\ FateOf(a)' = "none" <=>
              /\ a \notin accepted' /\ "retry" \notin decided'[a] /\ ~ Stopped(a)'
              /\ runOf'[a] = 0
BY DEF FateOf

LEMMA FateKept ==
  ASSUME NEW a, a \in accepted' <=> a \in accepted, decided'[a] = decided[a],
         runOf'[a] = runOf[a]
  PROVE  FateOf(a)' = FateOf(a)
BY DEF FateOf, Stopped

\* A step records at most one command on an attempt.
LEMMA DecisionsStep ==
  ASSUME TypeInv, [Next]_vars, NEW a \in Attempts
  PROVE  \/ decided'[a] = decided[a]
         \/ \E cmd \in AllCommands :
              /\ decided'[a] = decided[a] \cup {cmd}
              /\ Recorded(a)
              /\ cmd \in Stopping => a \in InFlight
              /\ cmd = "retry" => \E p \in Procs, n \in Nodes : RetryNode(p, n)
<1> USE DEF storeVars, snapVars, rowVars, ctlVars, platVars, hostVars
<1> DEFINE Records(cmd) ==
             /\ decided'[a] = decided[a] \cup {cmd}
             /\ Recorded(a)
             /\ cmd \in Stopping => a \in InFlight
             /\ cmd = "retry" => \E p \in Procs, n \in Nodes : RetryNode(p, n)
<1>1. decided \in [Attempts -> SUBSET AllCommands] /\ Commands \subseteq AllCommands
  BY CommandsAssumption DEF TypeInv, TypeOK
<1>2. InFlight \subseteq {b : b \in InFlight} /\ (a \in InFlight => Recorded(a))
  BY DEF InFlight, Dispatched, Recorded
<1>3. ASSUME NEW cmd \in Commands, StopRun(cmd)
      PROVE  decided'[a] = decided[a] \/ \E c \in AllCommands : Records(c)
  <2>1. decided'[a] = decided[a] \/ (a \in InFlight /\ decided'[a] = decided[a] \cup {cmd})
    BY <1>3 DEF StopRun
  <2>2. cmd # "retry" /\ cmd \in AllCommands
    BY <1>1, <1>3 DEF StopRun, RunWide
  <2> QED
    BY <1>2, <2>1, <2>2
<1>4. ASSUME NEW b \in Attempts, NEW cmd \in Commands, StopAttempt(b, cmd)
      PROVE  decided'[a] = decided[a] \/ \E c \in AllCommands : Records(c)
  <2>1. decided'[a] = decided[a] \/ (a \in InFlight /\ decided'[a] = decided[a] \cup {cmd})
    BY <1>1, <1>4 DEF StopAttempt
  <2>2. cmd # "retry" /\ cmd \in AllCommands
    BY <1>1, <1>4 DEF StopAttempt, AttemptScoped
  <2> QED
    BY <1>2, <2>1, <2>2
<1>5. ASSUME NEW b \in Attempts, HostFailure(b)
      PROVE  decided'[a] = decided[a] \/ \E c \in AllCommands : Records(c)
  <2>1. decided'[a] = decided[a] \/ (a \in InFlight /\ decided'[a] = decided[a] \cup {"failure"})
    BY <1>1, <1>5 DEF HostFailure
  <2>2. "failure" \in AllCommands
    BY DEF AllCommands, Stopping, AttemptScoped
  <2> QED
    BY <1>2, <2>1, <2>2
<1>6. ASSUME NEW b \in Attempts, RaiseApproval(b)
      PROVE  decided'[a] = decided[a] \/ \E c \in AllCommands : Records(c)
  <2>1. \/ decided'[a] = decided[a]
        \/ a \in InFlight /\ decided'[a] = decided[a] \cup {"approval-request"}
    BY <1>1, <1>6 DEF RaiseApproval
  <2>2. "approval-request" \in AllCommands
    BY DEF AllCommands
  <2> QED
    BY <1>2, <2>1, <2>2
<1>7. ASSUME NEW b \in Attempts, NEW cmd \in Commands, DecideApproval(b, cmd)
      PROVE  decided'[a] = decided[a] \/ \E c \in AllCommands : Records(c)
  <2>1. decided'[a] = decided[a] \/ (Recorded(a) /\ decided'[a] = decided[a] \cup {cmd})
    BY <1>1, <1>7 DEF DecideApproval
  <2>2. cmd # "retry" /\ cmd \notin Stopping /\ cmd \in AllCommands
    BY <1>1, <1>7 DEF DecideApproval, Stopping, RunWide, AttemptScoped
  <2> QED
    BY <2>1, <2>2
<1>8. ASSUME NEW p \in Procs, NEW n \in Nodes, RetryNode(p, n)
      PROVE  decided'[a] = decided[a] \/ \E c \in AllCommands : Records(c)
  <2>1. decided'[a] = decided[a] \/ (a \in InFlight /\ decided'[a] = decided[a] \cup {"retry"})
    BY <1>1, <1>8 DEF RetryNode, InFlight
  <2>2. "retry" \in AllCommands
    BY DEF AllCommands
  <2> QED
    BY <1>2, <1>8, <2>1, <2>2
<1>9. CASE Controller
  <2>1. CASE OrderReexecution \/ \E b \in Attempts : ExpireApproval(b)
    BY <2>1 DEF OrderReexecution, ExpireApproval
  <2> QED
    BY <1>3, <1>4, <1>6, <1>7, <1>8, <1>9, <2>1 DEF Controller
<1>10. CASE Host
  <2>1. CASE \E b \in Attempts :
               \/ RequestCancel(b) \/ PlatformCancels(b) \/ ConfirmCancel(b) \/ AnswerLost(b)
               \/ \E how \in {"completed", "failed"} : WorkerEnds(b, how)
    BY <2>1 DEF RequestCancel, PlatformCancels, ConfirmCancel, AnswerLost, WorkerEnds
  <2> QED
    BY <1>5, <1>10, <2>1 DEF Host
<1>11. ASSUME NEW p \in Procs, Runtime(p)
       PROVE  decided' = decided
  BY <1>11
  DEF Runtime, StartRead, StartCommit, StartRefused, SubmitRead, SubmitCommit, SubmitRefused,
      ReexecuteRead, ReexecuteCommit, ReexecuteRaced, ResumeRead, ScanEffects, Examine, Fence,
      Reissue, Create, CreateFails, MarkStarted, Crash
<1>12. CASE UNCHANGED vars
  BY <1>12 DEF vars
<1> QED
  BY <1>9, <1>10, <1>11, <1>12 DEF Next

\* A cancellation is asked for of a stopped attempt only.
LEMMA CancellationStep ==
  ASSUME TypeInv, [Next]_vars, NEW a \in Attempts, cancel'[a] # "none"
  PROVE  cancel[a] # "none" \/ Stopped(a)
<1> USE DEF storeVars, snapVars, rowVars, ctlVars, platVars, hostVars
<1>1. /\ cancel \in [Attempts -> {"none", "started", "done"}]
      /\ decided \in [Attempts -> SUBSET AllCommands]
  BY DEF TypeInv, TypeOK
<1>2. ASSUME NEW b \in Attempts, RequestCancel(b)
      PROVE  cancel[a] # "none" \/ Stopped(a)
  <2>1. Stopped(b) /\ cancel' = [cancel EXCEPT ![b] = "started"]
    BY <1>2 DEF RequestCancel, Deliverable, Stopped, Stopping, RunWide, AttemptScoped
  <2> QED
    BY <1>1, <2>1
<1>3. ASSUME NEW b \in Attempts, ConfirmCancel(b)
      PROVE  cancel[a] # "none" \/ Stopped(a)
  BY <1>1, <1>3 DEF ConfirmCancel, CanMove
<1>4. CASE Host
  BY <1>2, <1>3, <1>4 DEF Host, HostFailure, PlatformCancels, AnswerLost, WorkerEnds
<1>5. CASE Controller \/ UNCHANGED vars
  BY <1>5 DEF Controller, StopRun, StopAttempt, DecideApproval, RetryNode, OrderReexecution,
     RaiseApproval, ExpireApproval, vars
<1>6. ASSUME NEW p \in Procs, Runtime(p)
      PROVE  cancel' = cancel
  BY <1>6
  DEF Runtime, StartRead, StartCommit, StartRefused, SubmitRead, SubmitCommit, SubmitRefused,
      ReexecuteRead, ReexecuteCommit, ReexecuteRaced, ResumeRead, ScanEffects, Examine, Fence,
      Reissue, Create, CreateFails, MarkStarted, Crash
<1> QED
  BY <1>4, <1>5, <1>6 DEF Next

\* Numbers after a base that no minted attempt exceeds are those of attempts
\* nobody minted.
LEMMA UnmintedNumbers ==
  ASSUME TypeInv, SnapInv, FateInv, NEW S, S \subseteq Nodes, NEW base \in Nat, Fits(S, base),
         \A a \in Attempts : runOf[a] # 0 => a <= base
  PROVE  \A a \in Numbered(S, base) :
           /\ a \in Attempts /\ runOf[a] = 0 /\ a \notin accepted
           /\ decided[a] = {} /\ FateOf(a) = "none"
<1> SUFFICES ASSUME NEW a \in Numbered(S, base)
             PROVE  /\ a \in Attempts /\ runOf[a] = 0 /\ a \notin accepted
                    /\ decided[a] = {} /\ FateOf(a) = "none"
  OBVIOUS
<1>1. a \in Attempts /\ a > base /\ Attempts \subseteq Nat
  BY NumberedFacts, BoundsAssumption DEF Attempts
<1>2. runOf[a] = 0
  BY <1>1
<1>3. a \notin accepted /\ decided[a] = {}
  BY <1>1, <1>2 DEF SnapInv, RowsInv, Blank, FateInv
<1>4. FateOf(a) = "none"
  BY <1>2, <1>3, FateMeans DEF Stopped
<1> QED
  BY <1>1, <1>2, <1>3, <1>4

LEMMA FateStep ==
  ASSUME ~ SameInstant, TypeInv, OrderInv, IdInv, SnapInv, FateInv, [Next]_vars
  PROVE  FateInv'
<1>1. /\ seq \in Nat /\ Entries \subseteq Nodes /\ CallsOK /\ MaxSeq \in Nat
      /\ decided \in [Attempts -> SUBSET AllCommands]
      /\ node \in [Nodes -> [status : {"pending", "dispatched", "settled"}, attempt : 0 .. MaxSeq]]
  BY BoundsAssumption, EntriesAssumption DEF TypeInv, TypeOK
<1>2. KeepsIds
  BY IdStep
<1>3. ASSUME NEW b \in Attempts
      PROVE  /\ decided'[b] # {} => runOf'[b] # 0
             /\ cancel'[b] # "none" => Stopped(b)'
  <2>1. decided'[b] = decided[b] \/ \E cmd \in AllCommands :
           decided'[b] = decided[b] \cup {cmd} /\ Recorded(b)
    BY DecisionsStep
  <2>2. Recorded(b) => runOf[b] # 0
    BY DEF Recorded, SnapInv, NodesInv, Points, TypeInv, Unstarted
  <2>3. decided'[b] # {} => runOf[b] # 0
    BY <2>1, <2>2 DEF FateInv
  <2>4. cancel'[b] # "none" => Stopped(b)
    BY CancellationStep DEF FateInv
  <2>5. Stopped(b) => Stopped(b)'
    BY <2>1 DEF Stopped
  <2> QED
    BY <1>2, <2>3, <2>4, <2>5 DEF KeepsIds
<1>4. \* what a minting step puts in flight has no decision
      ASSUME decided' = decided,
             \A b \in InFlight' : b \in InFlight \/ decided[b] = {},
             NEW b \in Attempts, b \in InFlight'
      PROVE  "retry" \notin decided'[b]
  BY <1>4 DEF FateInv
<1>5. ASSUME NEW base \in Nat, Fits(Entries, base), MintSnapshot(base),
             \A a \in Attempts : runOf[a] # 0 => a <= base
      PROVE  \A b \in InFlight' : decided[b] = {}
  <2>1. \A a \in Numbered(Entries, base) : decided[a] = {}
    BY <1>1, <1>5, UnmintedNumbers
  <2>2. \A n \in Nodes : node'[n].status = "dispatched"
          => n \in Entries /\ node'[n].attempt = base + Rank(Entries, n)
    BY <1>5 DEF MintSnapshot, Entry
  <2>3. \A n \in Entries : base + Rank(Entries, n) \in Numbered(Entries, base)
    BY DEF Numbered
  <2> QED
    BY <2>1, <2>2, <2>3 DEF InFlight, Dispatched
<1>6. ASSUME NEW p \in Procs, StartCommit(p), NEW b \in Attempts, b \in InFlight'
      PROVE  "retry" \notin decided'[b]
  <2>1. Fits(Entries, 0) /\ MintSnapshot(0) /\ run = 0 /\ decided' = decided
    BY <1>6 DEF StartCommit, MintsSameRun, ctlVars
  <2>2. \A a \in Attempts : runOf[a] # 0 => a <= 0
    BY <2>1 DEF IdInv
  <2> QED
    BY <1>4, <1>5, <1>6, <2>1, <2>2
<1>7. ASSUME NEW p \in Procs, ReexecuteCommit(p), NEW b \in Attempts, b \in InFlight'
      PROVE  "retry" \notin decided'[b]
  <2>1. Fits(Entries, seq) /\ MintSnapshot(seq) /\ decided' = decided
    BY <1>7 DEF ReexecuteCommit, OrderStands, FromSeq, IdInv, ctlVars
  <2>2. \A a \in Attempts : runOf[a] # 0 => a <= seq
    BY DEF IdInv
  <2> QED
    BY <1>1, <1>4, <1>5, <1>7, <2>1, <2>2
<1>8. ASSUME NEW p \in Procs, NEW S \in SUBSET Nodes, NEW stops \in BOOLEAN,
             SubmitCommit(p, S, stops), NEW b \in Attempts, b \in InFlight'
      PROVE  "retry" \notin decided'[b]
  <2>1. Fits(S, seq) /\ node' = Advanced(proc[p].cur, S) /\ decided' = decided
    BY <1>8 DEF SubmitCommit, ctlVars
  <2>2. \A a \in Numbered(S, seq) : decided[a] = {}
    BY <1>1, <2>1, UnmintedNumbers DEF IdInv
  <2>3. PICK n \in Nodes : node'[n].status = "dispatched" /\ node'[n].attempt = b
    BY <1>8 DEF InFlight, Dispatched
  <2>4. CASE n \in S
    <3>1. node'[n] = Entry("dispatched", seq + Rank(S, n))
      BY <2>1, <2>4 DEF Advanced
    <3>2. b \in Numbered(S, seq)
      BY <2>3, <2>4, <3>1 DEF Entry, Numbered
    <3> QED
      BY <2>1, <2>2, <3>2
  <2>5. CASE n \notin S
    <3>1. node'[n] = node[n] \/ node'[n] = Entry("settled", proc[p].cur)
      BY <2>1, <2>5 DEF Advanced
    <3>2. node'[n] = node[n]
      BY <2>3, <3>1 DEF Entry
    <3> QED
      BY <2>1, <2>3, <3>2 DEF InFlight, Dispatched, FateInv
  <2> QED
    BY <2>4, <2>5
<1>9. ASSUME NEW p \in Procs, NEW m \in Nodes, RetryNode(p, m), NEW b \in Attempts, b \in InFlight'
      PROVE  "retry" \notin decided'[b]
  <2> DEFINE a == node[m].attempt
  <2>1. /\ Fits({m}, seq) /\ m \in Dispatched
        /\ decided' = [decided EXCEPT ![a] = @ \cup {"retry"}]
        /\ node' = [node EXCEPT ![m] = Entry("dispatched", seq + 1)]
    BY <1>9 DEF RetryNode
  <2>2. a \in Attempts /\ nodeOf[a] = m /\ runOf[a] # 0
    BY <2>1 DEF Dispatched, SnapInv, NodesInv, Points, TypeInv, Unstarted
  <2>3. runOf[b] = 0 => decided[b] = {} /\ b # a
    BY <2>2 DEF FateInv
  <2>4. PICK n \in Nodes : node'[n].status = "dispatched" /\ node'[n].attempt = b
    BY <1>9 DEF InFlight, Dispatched
  <2>5. CASE n = m
    <3>1. b = seq + 1
      BY <1>1, <2>1, <2>4, <2>5 DEF Entry
    <3>2. runOf[b] = 0
      BY <1>1, <3>1 DEF IdInv
    <3> QED
      BY <1>1, <2>1, <2>2, <2>3, <3>2
  <2>6. CASE n # m
    <3>1. node[n].status = "dispatched" /\ node[n].attempt = b
      BY <1>1, <2>1, <2>4, <2>6
    <3>2. nodeOf[b] = n /\ b \in InFlight
      BY <3>1 DEF SnapInv, NodesInv, Points, InFlight, Dispatched
    <3>3. b # a /\ "retry" \notin decided[b]
      BY <2>2, <2>6, <3>2 DEF FateInv
    <3> QED
      BY <1>1, <2>1, <2>2, <3>3
  <2> QED
    BY <2>5, <2>6
<1>10. ASSUME ~ Minting, NEW b \in Attempts, b \in InFlight'
       PROVE  "retry" \notin decided'[b]
  <2>1. b \in InFlight
    <3>1. Resting
      BY <1>10, StepCases
    <3> QED
      BY <1>10, <3>1 DEF Resting, InFlight, Dispatched
  <2>2. decided'[b] = decided[b] \/ \E cmd \in AllCommands :
           decided'[b] = decided[b] \cup {cmd} /\ cmd # "retry"
    BY <1>10, DecisionsStep DEF Minting
  <2> QED
    BY <2>1, <2>2 DEF FateInv
<1>11. \A b \in Attempts : b \in InFlight' => "retry" \notin decided'[b]
  BY <1>6, <1>7, <1>8, <1>9, <1>10 DEF Minting
<1> QED
  BY <1>3, <1>11 DEF FateInv

LEMMA FateInvariant == ~ SameInstant => (Spec => []FateInv)
<1> SUFFICES ASSUME ~ SameInstant PROVE Spec => []FateInv
  OBVIOUS
<1>1. Init => FateInv
  BY DEF Init, FateInv
<1>2. TypeInv /\ OrderInv /\ IdInv /\ SnapInv /\ FateInv /\ [Next]_vars => FateInv'
  BY FateStep
<1> QED
  BY <1>1, <1>2, TypeInvariant, OrderInvariant, IdInvariant, SnapInvariant, PTL DEF Spec

-----------------------------------------------------------------------------
(* Every step of the ledger is a step of AttemptFates.                     *)

\* The nodes the new attempts of a minting step are dispatched to.
Placed(S, base) == [a \in Numbered(S, base) |-> nodeOf'[a]]

LEMMA MintDispatches ==
  ASSUME TypeInv, SnapInv, FateInv, NEW S, S \subseteq Nodes, NEW base \in Nat, Fits(S, base),
         \A a \in Attempts : runOf[a] # 0 => a <= base,
         NEW r \in Runs, NEW p, NEW effects, NEW claims, Mint(S, base, r, p, effects, claims),
         \A a \in Numbered(S, base) : a \notin accepted' /\ decided'[a] = decided[a],
         NEW ended, \A a \in Attempts \ Numbered(S, base) : FateOf(a)' = ended[a]
  PROVE  /\ Placed(S, base) \in Fates!Placements
         /\ DOMAIN Placed(S, base) = Numbered(S, base)
         /\ \A a \in Numbered(S, base) : Placed(S, base)[a] \in S
         /\ Fates!Dispatch(r, Placed(S, base), ended)
<1> DEFINE new == Numbered(S, base)
           place == Placed(S, base)
<1>1. MintWrites(S, base, r, effects, claims)
  BY MintFacts
<1>2. /\ new \subseteq Attempts
      /\ \A a \in new : runOf'[a] = r /\ nodeOf'[a] \in S /\ a = base + Rank(S, nodeOf'[a])
      /\ \A a \in Attempts \ new : runOf'[a] = runOf[a] /\ nodeOf'[a] = nodeOf[a]
  BY <1>1 DEF MintWrites
<1>3. DOMAIN place = new /\ \A a \in new : place[a] = nodeOf'[a]
  BY DEF Placed
<1>4. place \in Fates!Placements
  <2>1. place \in [new -> Nodes]
    BY <1>2 DEF Placed
  <2> HIDE DEF place
  <2> QED
    BY <1>2, <2>1 DEF Fates!Placements
<1>5. \A a \in new : FateOf(a) = "none" /\ FateOf(a)' = "open"
  <2>1. \A a \in new : FateOf(a) = "none" /\ decided[a] = {}
    BY UnmintedNumbers
  <2>2. r # 0
    BY DEF Runs
  <2>3. \A a \in new : /\ a \notin accepted' /\ "retry" \notin decided'[a]
                       /\ ~ Stopped(a)' /\ runOf'[a] # 0
    BY <1>2, <2>1, <2>2 DEF Stopped
  <2> QED
    BY <2>1, <2>3, FateMeansNext
<1>6. \A a, b \in new : place[a] = place[b] => a = b
  BY <1>2, <1>3
<1>7. /\ runOf' = [a \in Attempts |-> IF a \in new THEN r ELSE runOf[a]]
      /\ nodeOf' = [a \in Attempts |-> IF a \in new THEN place[a] ELSE nodeOf[a]]
  <2>1. /\ runOf' = [a \in Attempts |-> IF a \in new THEN r ELSE runOf[a]]
        /\ nodeOf' = [a \in Attempts |->
                          IF a \in new THEN NodeOfNumber(S, base, a) ELSE nodeOf[a]]
    BY DEF Mint
  <2>2. \A a \in new : place[a] = NodeOfNumber(S, base, a)
    BY <1>2, <1>3, <2>1
  <2> QED
    BY <2>1, <2>2
<1>8. [a \in Attempts |-> FateOf(a)'] = [a \in Attempts |-> IF a \in new THEN "open" ELSE ended[a]]
  BY <1>2, <1>5
<1> HIDE DEF new, place
<1>9. Fates!Dispatch(r, place, ended)
  BY <1>2, <1>3, <1>5, <1>6, <1>7, <1>8 DEF Fates!Dispatch
<1> QED
  BY <1>2, <1>3, <1>4, <1>9 DEF place, new

\* A run begins, the first one or a re-execution: nothing of the run before it
\* is open.
LEMMA BeginsRun ==
  ASSUME TypeInv, SnapInv, FateInv, NEW base \in Nat, Fits(Entries, base),
         \A a \in Attempts : runOf[a] # 0 => a <= base, run + 1 \in Runs, run' = run + 1,
         NEW p, Mint(Entries, base, run + 1, p, effect, claim), UNCHANGED <<accepted, decided>>,
         \A a \in Attempts : runOf[a] = run => FateOf(a) # "open"
  PROVE  Fates!Next
<1> DEFINE place == Placed(Entries, base)
           fates == [a \in Attempts |-> FateOf(a)]
<1>1. Entries \subseteq Nodes /\ Entries # {}
  BY EntriesAssumption
<1>2. Numbered(Entries, base) # {}
  BY <1>1 DEF Numbered
<1>3. \A a \in Attempts \ Numbered(Entries, base) : FateOf(a)' = fates[a]
  <2>1. \A a \in Attempts \ Numbered(Entries, base) : runOf'[a] = runOf[a]
    BY DEF Mint
  <2> QED
    BY <2>1, FateKept
<1>4. \A a \in Numbered(Entries, base) : a \notin accepted' /\ decided'[a] = decided[a]
  BY <1>1, UnmintedNumbers
<1> HIDE DEF fates
<1>5. /\ place \in Fates!Placements
      /\ DOMAIN place = Numbered(Entries, base)
      /\ Fates!Dispatch(run + 1, place, fates)
  BY <1>1, <1>3, <1>4, MintDispatches
<1> HIDE DEF place
<1>6. Fates!Begin(place)
  BY <1>2, <1>5 DEF Fates!Begin, Fates!Of, fates
<1> QED
  BY <1>5, <1>6 DEF Fates!Next

\* Nothing of a run whose re-execution was ordered is open.
LEMMA OrderedRunIsDone ==
  ASSUME TypeInv, SnapInv, EffectInv, ClosedInv, FateInv, run # 0, order[run] # "none",
         NEW a \in Attempts, runOf[a] = run
  PROVE  FateOf(a) # "open"
<1>1. a \in InFlight \/ a \in accepted \/ "retry" \in decided[a]
  BY DEF SnapInv, NewestInv
<1>2. CASE a \in InFlight
  <2>1. ~ Unsettled(a) \/ cancel[a] = "done"
    BY <1>2 DEF ClosedInv, Blocking
  <2>2. effect[a] \in {"pending", "started", "done", "failed"}
    BY DEF SnapInv, RowsInv, TypeInv, TypeOK
  <2>3. a \in accepted \/ "failure" \in decided[a] \/ Stopped(a)
    BY <2>1, <2>2 DEF Unsettled, EffectInv, EffectTellsTruth, FateInv
  <2>4. a \in accepted \/ Stopped(a)
    BY <2>3 DEF Stopped, Stopping, AttemptScoped
  <2> QED
    BY <2>4, FateMeans
<1> QED
  BY <1>1, <1>2, FateMeans

\* An acceptance: no node it arms has another undecided attempt.
LEMMA SubmitAccepts ==
  ASSUME TypeInv, IdInv, SnapInv, FateInv, NEW p \in Procs, NEW S \in SUBSET Nodes,
         NEW stops \in BOOLEAN, SubmitCommit(p, S, stops)
  PROVE  Fates!Next
<1>0. PICK a : a = proc[p].cur
  OBVIOUS
<1> DEFINE place == Placed(S, seq)
           fates == [b \in Attempts |-> FateOf(b)]
           ended == [fates EXCEPT ![a] = "accepted"]
<1>1. PICK effects, claims :
        /\ Fits(S, seq) /\ Mint(S, seq, run, p, effects, claims) /\ a \in InFlight
        /\ \A n \in S : node[n].status = "dispatched" => node[n].attempt = a
        /\ accepted' = accepted \cup {a} /\ run' = run /\ decided' = decided
        /\ proc[p].pc = "settle" /\ Committable(a)
  BY <1>0 DEF SubmitCommit, Reducible, storeVars, ctlVars
<1>2. /\ a \in Attempts /\ seq \in Nat /\ run \in 0 .. MaxRuns /\ MaxRuns \in Nat
      /\ \A b \in Attempts : runOf[b] # 0 => b <= seq
  BY <1>0, <1>1, BoundsAssumption DEF TypeInv, TypeOK, CallsOK, CallOK, IdInv
<1>3. run # 0 /\ runOf[a] = run
  BY <1>1 DEF InFlight, Dispatched, TypeInv, Unstarted, SnapInv, NodesInv, Points
<1>4. run \in Runs
  BY <1>2, <1>3 DEF Runs
<1>5. FateOf(a) = "open" /\ FateOf(a)' = "accepted"
  BY <1>1, <1>3, FateMeans, FateMeansNext DEF Committable
<1>6. \A b \in Numbered(S, seq) : b \notin accepted' /\ decided'[b] = decided[b]
  <2>1. \A b \in Numbered(S, seq) : runOf[b] = 0 /\ b \notin accepted
    BY <1>1, <1>2, UnmintedNumbers
  <2> QED
    BY <1>1, <1>3, <2>1
<1>7. \A b \in Attempts \ Numbered(S, seq) : FateOf(b)' = ended[b]
  <2> SUFFICES ASSUME NEW b \in Attempts \ Numbered(S, seq) PROVE FateOf(b)' = ended[b]
    OBVIOUS
  <2>1. CASE b = a
    BY <1>2, <1>5, <2>1
  <2>2. CASE b # a
    <3>1. runOf'[b] = runOf[b]
      BY <1>1 DEF Mint
    <3>2. FateOf(b)' = FateOf(b)
      BY <1>1, <2>2, <3>1, FateKept
    <3> QED
      BY <2>2, <3>2
  <2> QED
    BY <2>1, <2>2
<1>8. ASSUME NEW c \in Attempts, runOf[c] = run, c # a, nodeOf[c] \in S
      PROVE  FateOf(c) \notin {"open", "stopped"}
  <2>1. c \in InFlight \/ c \in accepted \/ "retry" \in decided[c]
    BY <1>3, <1>8 DEF SnapInv, NewestInv
  <2>2. c \notin InFlight
    <3> SUFFICES ASSUME NEW n \in Nodes, node[n].status = "dispatched", node[n].attempt = c
                 PROVE  FALSE
      BY DEF InFlight, Dispatched
    <3>1. nodeOf[c] = n
      BY DEF SnapInv, NodesInv, Points
    <3> QED
      BY <1>1, <1>8, <3>1
  <2> QED
    BY <2>1, <2>2, FateMeans
<1> HIDE DEF ended
<1>9. /\ place \in Fates!Placements
      /\ DOMAIN place = Numbered(S, seq)
      /\ \A b \in Numbered(S, seq) : place[b] \in S
      /\ Fates!Dispatch(run, place, ended)
  BY <1>1, <1>2, <1>4, <1>6, <1>7, MintDispatches
<1> HIDE DEF place
<1>10. \A b \in DOMAIN place : \A c \in Fates!Of(run) \ {a} :
          nodeOf[c] = place[b] => ~ Fates!Undecided(c)
  BY <1>8, <1>9 DEF Fates!Of, Fates!Undecided
<1>11. a \in Fates!Of(run) /\ fates[a] = "open"
  BY <1>2, <1>3, <1>5 DEF Fates!Of
<1>12. Fates!Accept(a, place)
  BY <1>1, <1>9, <1>10, <1>11 DEF Fates!Accept, ended, fates
<1> QED
  BY <1>2, <1>9, <1>12 DEF Fates!Next

\* A retry: its attempt was undecided, and the next number takes over the node.
LEMMA RetryReplaces ==
  ASSUME TypeInv, IdInv, SnapInv, FateInv, NEW p \in Procs, NEW m \in Nodes, RetryNode(p, m)
  PROVE  Fates!Next
<1>0. PICK a, b : a = node[m].attempt /\ b = seq + 1
  OBVIOUS
<1> DEFINE S == {m}
           fates == [c \in Attempts |-> FateOf(c)]
           ended == [fates EXCEPT ![a] = "replaced"]
<1>1. /\ Fits(S, seq) /\ Mint(S, seq, run, p, effect, claim) /\ m \in Dispatched
      /\ decided' = [decided EXCEPT ![a] = @ \cup {"retry"}] /\ Recordable(a, "retry")
      /\ accepted' = accepted /\ run' = run /\ run # 0 /\ S \subseteq Nodes
  BY <1>0, BoundsAssumption DEF RetryNode, storeVars, TypeInv, TypeOK
<1>2. /\ a \in Attempts /\ a \in InFlight /\ nodeOf[a] = m /\ runOf[a] = run
  BY <1>0, <1>1 DEF Dispatched, InFlight, SnapInv, NodesInv, Points
<1>3. /\ seq \in Nat /\ run \in Runs
      /\ decided \in [Attempts -> SUBSET AllCommands]
      /\ \A c \in Attempts : runOf[c] # 0 => c <= seq
  BY <1>1, BoundsAssumption DEF TypeInv, TypeOK, IdInv, Runs
<1>4. Numbered(S, seq) = {b}
  <2>1. Rank(S, m) = 1
    <3>1. Rank(S, m) \in 1 .. Cardinality(S)
      BY RankBounds
    <3>2. Cardinality(S) = 1
      BY FS_Singleton
    <3> QED
      BY <3>1, <3>2
  <2> QED
    BY <1>0, <2>1 DEF Numbered
<1>5. FateOf(a) \in {"open", "stopped"}
  <2>1. a \notin accepted /\ "retry" \notin decided[a]
    BY <1>1, <1>2 DEF Recordable, FateInv
  <2> QED
    BY <1>1, <1>2, <2>1, FateMeans
<1>6. FateOf(a)' = "replaced"
  <2>1. a \notin accepted' /\ "retry" \in decided'[a]
    BY <1>1, <1>2, <1>3 DEF Recordable
  <2> QED
    BY <2>1, FateMeansNext
<1>7. b \in Attempts /\ runOf[b] = 0 /\ b \notin accepted /\ b # a
  <2>1. b \in Numbered(S, seq)
    BY <1>4
  <2> HIDE DEF S
  <2>2. b \in Attempts /\ runOf[b] = 0 /\ b \notin accepted
    BY <1>1, <1>3, <2>1, UnmintedNumbers
  <2> QED
    BY <1>1, <1>2, <2>2
<1>8. \A c \in Numbered(S, seq) : c \notin accepted' /\ decided'[c] = decided[c]
  <2>1. b \notin accepted' /\ decided'[b] = decided[b]
    BY <1>1, <1>3, <1>7
  <2> QED
    BY <1>4, <2>1
<1>9. \A c \in Attempts \ Numbered(S, seq) : FateOf(c)' = ended[c]
  <2> SUFFICES ASSUME NEW c \in Attempts \ Numbered(S, seq) PROVE FateOf(c)' = ended[c]
    OBVIOUS
  <2>1. CASE c = a
    BY <1>2, <1>6, <2>1
  <2>2. CASE c # a
    <3>1. runOf'[c] = runOf[c]
      BY <1>1 DEF Mint
    <3>2. decided'[c] = decided[c]
      BY <1>1, <1>3, <2>2
    <3>3. FateOf(c)' = FateOf(c)
      BY <1>1, <3>1, <3>2, FateKept
    <3> QED
      BY <2>2, <3>3
  <2> QED
    BY <2>1, <2>2
<1> HIDE DEF ended
<1>10. /\ DOMAIN Placed(S, seq) = {b} /\ Placed(S, seq)[b] = m
       /\ Fates!Dispatch(run, Placed(S, seq), ended)
  <2> HIDE DEF S
  <2>1. /\ DOMAIN Placed(S, seq) = Numbered(S, seq)
        /\ \A c \in Numbered(S, seq) : Placed(S, seq)[c] \in S
        /\ Fates!Dispatch(run, Placed(S, seq), ended)
    BY <1>1, <1>3, <1>8, <1>9, MintDispatches
  <2> QED
    BY <1>4, <2>1 DEF S
<1>11. Placed(S, seq) = [c \in {b} |-> nodeOf[a]]
  <2>1. Placed(S, seq) = [c \in {b} |-> Placed(S, seq)[c]]
    BY <1>4 DEF Placed
  <2> QED
    BY <1>2, <1>10, <2>1
<1>12. Fates!Dispatch(run, [c \in {b} |-> nodeOf[a]], ended)
  BY <1>10, <1>11
<1>13. a \in Fates!Of(run) /\ Fates!Undecided(a)
  BY <1>2, <1>5 DEF Fates!Of, Fates!Undecided
<1>14. Fates!Replace(a, b)
  BY <1>1, <1>12, <1>13 DEF Fates!Replace, ended, fates
<1> QED
  BY <1>2, <1>7, <1>14 DEF Fates!Next

\* Any other step stops attempts of the current run, or none.
LEMMA RestingStops ==
  ASSUME TypeInv, SnapInv, FateInv, [Next]_vars, ~ Minting
  PROVE  Fates!Next
<1> DEFINE A == {a \in Attempts : FateOf(a) = "open" /\ FateOf(a)' # "open"}
           fates == [a \in Attempts |-> FateOf(a)]
<1>1. Resting
  BY StepCases
<1>2. ASSUME NEW a \in Attempts
      PROVE  \/ decided'[a] = decided[a]
             \/ \E cmd \in AllCommands :
                  /\ decided'[a] = decided[a] \cup {cmd} /\ cmd # "retry"
                  /\ cmd \in Stopping => a \in InFlight
  BY DecisionsStep DEF Minting
<1>3. ASSUME NEW a \in Attempts
      PROVE  /\ "retry" \in decided'[a] <=> "retry" \in decided[a]
             /\ Stopped(a) => Stopped(a)'
             /\ Stopped(a)' => Stopped(a) \/ a \in InFlight
  BY <1>2 DEF Stopped
<1>4. ASSUME NEW a \in Attempts, FateOf(a) = "open"
      PROVE  \/ FateOf(a)' = "open"
             \/ FateOf(a)' = "stopped" /\ runOf[a] = run
  <2>1. /\ a \notin accepted' /\ "retry" \notin decided'[a] /\ runOf'[a] # 0
        /\ ~ Stopped(a)
    BY <1>1, <1>3, <1>4, FateMeans DEF Resting
  <2>2. Stopped(a)' => runOf[a] = run
    BY <1>3, <2>1 DEF InFlight, Dispatched, SnapInv, NodesInv, Points
  <2> QED
    BY <2>1, <2>2, FateMeansNext
<1>5. ASSUME NEW a \in Attempts, FateOf(a) # "open"
      PROVE  FateOf(a)' = FateOf(a)
  <2>1. CASE a \in accepted \/ "retry" \in decided[a] \/ Stopped(a)
    BY <1>1, <1>3, <2>1 DEF FateOf, Resting
  <2>2. CASE a \notin accepted /\ "retry" \notin decided[a] /\ ~ Stopped(a)
    <3>1. runOf[a] = 0
      BY <1>5, <2>2, FateMeans
    <3>2. a \notin InFlight
      BY <3>1 DEF InFlight, Dispatched, SnapInv, NodesInv, Points, TypeInv, Unstarted
    <3> QED
      BY <1>1, <1>3, <2>2, <3>1, <3>2, FateMeans, FateMeansNext DEF Resting
  <2> QED
    BY <2>1, <2>2
<1>6. [a \in Attempts |-> FateOf(a)'] = [a \in Attempts |-> IF a \in A THEN "stopped" ELSE fates[a]]
  <2>1. \A a \in Attempts : FateOf(a)' = IF a \in A THEN "stopped" ELSE fates[a]
    BY <1>4, <1>5
  <2> QED
    BY <2>1
<1>7. A \subseteq Fates!Of(run) /\ A \in SUBSET Attempts /\ \A a \in A : fates[a] = "open"
  BY <1>4 DEF Fates!Of
<1> HIDE DEF A
<1>8. Fates!Stop(A)
  BY <1>1, <1>6, <1>7 DEF Fates!Stop, Resting, fates
<1> QED
  BY <1>7, <1>8 DEF Fates!Next

\* The tables of the ledger implement AttemptFates, whatever calls, commands,
\* crashes and re-executions interleave: an attempt is dispatched once, and while
\* its run is current it is accepted, stopped or replaced; no node has two undecided
\* attempts; and a run is followed by another only when nothing of it is open.
THEOREM LedgerImplementsFates == ~ SameInstant => (Spec => ImplementsAttemptFates)
<1> SUFFICES ASSUME ~ SameInstant PROVE Spec => ImplementsAttemptFates
  OBVIOUS
<1>1. Init => Fates!Init
  <2> SUFFICES ASSUME Init PROVE Fates!Init
    OBVIOUS
  <2>1. \A a \in Attempts : FateOf(a) = "none"
    BY FateMeans DEF Init, Stopped
  <2> QED
    BY <2>1 DEF Init, Fates!Init
<1>2. TypeInv /\ OrderInv /\ IdInv /\ SnapInv /\ EffectInv /\ LeftInv /\ FateInv /\ [Next]_vars
        => [Fates!Next]_(Fates!vars)
  <2> SUFFICES ASSUME TypeInv, OrderInv, IdInv, SnapInv, EffectInv, LeftInv, FateInv, [Next]_vars
               PROVE  Fates!Next
    OBVIOUS
  <2>1. run \in Nat /\ seq \in Nat /\ MaxRuns \in Nat \ {0} /\ CallsOK
    BY BoundsAssumption DEF TypeInv, TypeOK
  <2>2. ASSUME NEW p \in Procs, StartCommit(p)
        PROVE  Fates!Next
    <3>1. /\ run = 0 /\ run' = run + 1 /\ Fits(Entries, 0)
          /\ Mint(Entries, 0, run + 1, p, effect, claim) /\ UNCHANGED <<accepted, decided>>
      BY <2>2 DEF StartCommit, MintsSameRun, ctlVars
    <3>2. \A a \in Attempts : runOf[a] # 0 => a <= 0
      BY <3>1 DEF IdInv
    <3>3. run + 1 \in Runs
      BY <2>1, <3>1 DEF Runs
    <3>4. \A a \in Attempts : runOf[a] = run => FateOf(a) # "open"
      BY <3>1, FateMeans
    <3> QED
      BY <3>1, <3>2, <3>3, <3>4, BeginsRun
  <2>3. ASSUME NEW p \in Procs, ReexecuteCommit(p)
        PROVE  Fates!Next
    <3>1. /\ run' = run + 1 /\ Fits(Entries, seq) /\ order[run] = "ordered"
          /\ proc[p].pc = "reexecute" /\ proc[p].run = run
          /\ Mint(Entries, seq, run + 1, p, effect, claim) /\ UNCHANGED <<accepted, decided>>
      BY <2>3 DEF ReexecuteCommit, OrderStands, FromSeq, IdInv, ctlVars
    <3>2. run # 0 /\ run + 1 \in Runs
      BY <2>1, <3>1 DEF CallsOK, CallOK, Runs
    <3>3. \A a \in Attempts : runOf[a] = run => FateOf(a) # "open"
      BY <3>1, <3>2, OrderedRunIsDone DEF LeftInv
    <3>4. \A a \in Attempts : runOf[a] # 0 => a <= seq
      BY DEF IdInv
    <3> QED
      BY <2>1, <3>1, <3>2, <3>3, <3>4, BeginsRun
  <2>4. CASE Minting
    BY <2>2, <2>3, <2>4, SubmitAccepts, RetryReplaces DEF Minting
  <2>5. CASE ~ Minting
    BY <2>5, RestingStops
  <2> QED
    BY <2>4, <2>5
<1> QED
  BY <1>1, <1>2, TypeInvariant, OrderInvariant, IdInvariant, SnapInvariant, EffectInvariant,
     LeftInvariant, FateInvariant, PTL DEF Spec, ImplementsAttemptFates, Fates!Spec
=============================================================================
