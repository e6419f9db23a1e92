-------------------------- MODULE RunLedgerProofs ---------------------------
(***************************************************************************)
(* Theorems about RunLedger, for any graph, any number of processes and    *)
(* any set of trusted commands.                                            *)
(***************************************************************************)
EXTENDS RunLedger, FiniteSetTheorems, WellFoundedInduction, TLAPS

-----------------------------------------------------------------------------
(* Numbers and calls.                                                      *)

\* The nodes of one transaction take numbers between 1 and their count.
LEMMA RankBounds ==
  ASSUME NEW S, S \subseteq Nodes, NEW n \in S
  PROVE  Rank(S, n) \in 1 .. Cardinality(S)
<1> DEFINE Below == {m \in S : m <= n}
<1>1. S \subseteq Nat /\ IsFiniteSet(S)
  BY FS_Subset, NodesAssumption
<1>2. Below \in SUBSET S /\ n \in Below
  BY <1>1
<1>3. IsFiniteSet(Below) /\ Cardinality(Below) <= Cardinality(S)
  BY <1>1, <1>2, FS_Subset
<1>4. Cardinality(Below) \in Nat /\ Cardinality(S) \in Nat
  BY <1>1, <1>3, FS_CardinalityType
<1>5. Cardinality(Below) # 0
  BY <1>2, <1>3, FS_EmptySet
<1> QED
  BY <1>3, <1>4, <1>5 DEF Rank

LEMMA CardNodes ==
  ASSUME NEW S, S \subseteq Nodes
  PROVE  Cardinality(S) \in Nat
BY FS_Subset, FS_CardinalityType, NodesAssumption

\* Numbers that fit the bound are attempts after `base'.
LEMMA NumberedFacts ==
  ASSUME NEW S, S \subseteq Nodes, NEW base \in Nat, Fits(S, base)
  PROVE  /\ Numbered(S, base) \subseteq Attempts
         /\ \A a \in Numbered(S, base) : a > base /\ a <= base + Cardinality(S)
         /\ \A n \in S : base + Rank(S, n) \in Numbered(S, base)
         /\ \A a \in Numbered(S, base) : NodeOfNumber(S, base, a) \in S
<1>1. \A n \in S : Rank(S, n) \in 1 .. Cardinality(S)
  BY RankBounds
<1>2. Cardinality(S) \in Nat /\ MaxSeq \in Nat
  BY CardNodes, BoundsAssumption
<1>3. \A n \in S : /\ base + Rank(S, n) \in Attempts
                   /\ base + Rank(S, n) > base
                   /\ base + Rank(S, n) <= base + Cardinality(S)
  BY <1>1, <1>2 DEF Fits, Attempts
<1>4. \A a \in Numbered(S, base) : \E n \in S : a = base + Rank(S, n)
  BY DEF Numbered
<1>5. \A a \in Numbered(S, base) : NodeOfNumber(S, base, a) \in S
  BY <1>4 DEF NodeOfNumber
<1> QED
  BY <1>3, <1>4, <1>5 DEF Numbered

LEMMA LeastFacts ==
  ASSUME NEW S, S \subseteq Attempts, S # {}
  PROVE  LeastOf(S) \in S
<1> DEFINE R == {ss \in Nat \X Nat : ss[1] < ss[2]}
<1>1. S \subseteq Nat
  BY BoundsAssumption DEF Attempts
<1>2. IsWellFoundedOn(R, Nat)
  BY NatLessThanWellFounded, Zenon DEF OpToRel
<1> HIDE DEF R
<1>3. PICK a \in S : \A b \in S : ~ (<<b, a>> \in R)
  BY <1>1, <1>2, WFMin
<1>4. \A b \in S : a <= b
  <2>1. \A b \in S : a \in Nat /\ b \in Nat /\ ~ (b < a)
    BY <1>1, <1>3 DEF R
  <2> QED
    BY <2>1
<1> QED
  BY <1>4 DEF LeastOf

\* What the program counter of a call says about its other fields.
CallOK(c) ==
    /\ c.pc \in {"settle", "create", "mark", "examine", "fence", "reissue"}
          => c.cur \in Attempts
    /\ c.pc = "reexecute" => c.run \in 1 .. MaxRuns - 1

LEMMA IdleType == Idle \in ProcStates /\ CallOK(Idle)
<1>1. 0 \in 0 .. MaxSeq /\ 0 \in 0 .. MaxRuns
  BY BoundsAssumption
<1> QED
  BY <1>1 DEF Idle, ProcStates, CallOK

LEMMA LaunchType ==
  ASSUME NEW S, S \subseteq Attempts
  PROVE  Launch(S) \in ProcStates /\ CallOK(Launch(S))
<1>1. CASE S = {}
  BY <1>1, IdleType DEF Launch
<1>2. CASE S # {}
  <2>1. LeastOf(S) \in Attempts /\ LeastOf(S) \in 0 .. MaxSeq
    <3>1. LeastOf(S) \in S
      BY <1>2, LeastFacts
    <3>2. Attempts \subseteq 0 .. MaxSeq
      BY BoundsAssumption DEF Attempts
    <3> QED
      BY <3>1, <3>2
  <2>2. 0 \in 0 .. MaxSeq /\ 0 \in 0 .. MaxRuns
    BY BoundsAssumption
  <2> QED
    BY <1>2, <2>1, <2>2 DEF Launch, Idle, ProcStates, CallOK
<1> QED
  BY <1>1, <1>2

LEMMA ReconcilingType ==
  ASSUME NEW S, S \subseteq Attempts, NEW view \in [Attempts -> Nat]
  PROVE  Reconciling(S, view) \in ProcStates /\ CallOK(Reconciling(S, view))
<1>1. CASE S = {}
  BY <1>1, IdleType DEF Reconciling
<1>2. CASE S # {}
  <2>1. LeastOf(S) \in Attempts /\ LeastOf(S) \in 0 .. MaxSeq
    <3>1. LeastOf(S) \in S
      BY <1>2, LeastFacts
    <3>2. Attempts \subseteq 0 .. MaxSeq
      BY BoundsAssumption DEF Attempts
    <3> QED
      BY <3>1, <3>2
  <2>2. 0 \in 0 .. MaxSeq /\ 0 \in 0 .. MaxRuns
    BY BoundsAssumption
  <2>3. [a \in Attempts |-> IF a \in S THEN view[a] ELSE 0] \in [Attempts -> Nat]
    OBVIOUS
  <2> QED
    BY <1>2, <2>1, <2>2, <2>3 DEF Reconciling, Idle, ProcStates, CallOK
<1> QED
  BY <1>1, <1>2

-----------------------------------------------------------------------------
(* Type correctness.                                                       *)

CallsOK == proc \in [Procs -> ProcStates] /\ \A p \in Procs : CallOK(proc[p])

Unstarted == run = 0 => \A n \in Nodes : node[n].status = "pending"

TypeInv == TypeOK /\ CallsOK /\ Unstarted

LEMMA CallWrite ==
  ASSUME CallsOK, NEW p \in Procs, NEW c \in ProcStates, CallOK(c),
         proc' = [proc EXCEPT ![p] = c]
  PROVE  CallsOK'
<1>1. proc' \in [Procs -> ProcStates]
  BY DEF CallsOK
<1>2. \A q \in Procs : proc'[q] = IF q = p THEN c ELSE proc[q]
  BY DEF CallsOK
<1>3. \A q \in Procs : CallOK(proc'[q])
  BY <1>2 DEF CallsOK
<1> QED
  BY <1>1, <1>3 DEF CallsOK

\* A call that moves on with its other fields kept.
LEMMA CallMove ==
  ASSUME CallsOK, NEW p \in Procs, NEW pc \in {"mark", "create", "fence", "reissue"},
         proc[p].pc \in {"settle", "create", "mark", "examine", "fence", "reissue"}
  PROVE  /\ [proc[p] EXCEPT !.pc = pc] \in ProcStates
         /\ CallOK([proc[p] EXCEPT !.pc = pc])
<1>1. proc[p] \in ProcStates /\ CallOK(proc[p])
  BY DEF CallsOK
<1> QED
  BY <1>1 DEF ProcStates, CallOK

LEMMA OnwardsType ==
  ASSUME CallsOK, NEW p \in Procs
  PROVE  /\ Onwards(p) \in ProcStates /\ CallOK(Onwards(p))
         /\ AfterFailure(p) \in ProcStates /\ CallOK(AfterFailure(p))
<1>1. proc[p].todo \subseteq Attempts /\ proc[p].view \in [Attempts -> Nat]
  BY DEF CallsOK, ProcStates
<1>2. /\ Launch(proc[p].todo) \in ProcStates
      /\ CallOK(Launch(proc[p].todo))
  BY <1>1, LaunchType
<1>3. /\ Reconciling(proc[p].todo, proc[p].view) \in ProcStates
      /\ CallOK(Reconciling(proc[p].todo, proc[p].view))
  BY <1>1, ReconcilingType
<1> QED
  BY <1>2, <1>3, IdleType DEF Onwards, AfterFailure

LEMMA MintTypes ==
  ASSUME TypeOK, NEW S, S \subseteq Nodes, NEW base \in Nat, Fits(S, base),
         NEW r \in Runs, NEW p \in Procs,
         NEW effects \in [Attempts -> {"none", "pending", "started", "done", "failed"}],
         NEW claims \in [Attempts -> {"none", "reserved", "released"}],
         Mint(S, base, r, p, effects, claims)
  PROVE  /\ runOf' \in [Attempts -> 0 .. MaxRuns]
         /\ nodeOf' \in [Attempts -> Nodes \cup {0}]
         /\ verifier' \in [Attempts -> Nat]
         /\ vault' \in [Procs -> [Attempts -> Nat]]
         /\ effect' \in [Attempts -> {"none", "pending", "started", "done", "failed"}]
         /\ claim' \in [Attempts -> {"none", "reserved", "released"}]
<1> DEFINE new == Numbered(S, base)
<1>1. \A a \in new : NodeOfNumber(S, base, a) \in Nodes
  BY NumberedFacts
<1>2. nodeOf' \in [Attempts -> Nodes \cup {0}]
  BY <1>1 DEF TypeOK, Mint
<1>3. r \in 0 .. MaxRuns
  BY BoundsAssumption DEF Runs
<1>4. runOf' \in [Attempts -> 0 .. MaxRuns]
  BY <1>3 DEF TypeOK, Mint
<1>5. verifier' \in [Attempts -> Nat]
  BY DEF TypeOK, Mint
<1>6. [a \in Attempts |-> IF a \in new THEN verifier[a] + 1 ELSE vault[p][a]]
          \in [Attempts -> Nat]
  BY DEF TypeOK
<1>7. vault' \in [Procs -> [Attempts -> Nat]]
  BY <1>6 DEF TypeOK, Mint
<1>8. /\ effect' \in [Attempts -> {"none", "pending", "started", "done", "failed"}]
      /\ claim' \in [Attempts -> {"none", "reserved", "released"}]
  BY DEF Mint
<1> QED
  BY <1>2, <1>4, <1>5, <1>7, <1>8

NodeType ==
    [Nodes -> [status : {"pending", "dispatched", "settled"}, attempt : 0 .. MaxSeq]]

LEMMA MintSnapshotTypes ==
  ASSUME NEW base \in Nat, Fits(Entries, base), MintSnapshot(base)
  PROVE  /\ node' \in NodeType
         /\ phase' \in {"unstarted", "executing", "complete", "stopped"}
         /\ seq' \in 0 .. MaxSeq
<1>1. Entries \subseteq Nodes
  BY EntriesAssumption
<1>2. \A n \in Entries : base + Rank(Entries, n) \in Attempts
  BY <1>1, NumberedFacts
<1>3. Attempts \subseteq 0 .. MaxSeq /\ 0 \in 0 .. MaxSeq
  BY BoundsAssumption DEF Attempts
<1>4. node' \in NodeType
  BY <1>2, <1>3 DEF MintSnapshot, Entry, NodeType
<1>5. Cardinality(Entries) \in Nat
  BY <1>1, CardNodes
<1>6. seq' \in 0 .. MaxSeq
  BY <1>5, BoundsAssumption DEF MintSnapshot, Fits
<1> QED
  BY <1>4, <1>6 DEF MintSnapshot

LEMMA AdvancedType ==
  ASSUME TypeOK, NEW S, S \subseteq Nodes, Fits(S, seq), NEW a \in Attempts
  PROVE  Advanced(a, S) \in NodeType /\ seq + Cardinality(S) \in 0 .. MaxSeq
<1>1. seq \in Nat /\ seq \in 0 .. MaxSeq /\ node \in NodeType
  BY BoundsAssumption DEF TypeOK, NodeType
<1>2. \A n \in S : seq + Rank(S, n) \in Attempts
  BY <1>1, NumberedFacts
<1>3. Attempts \subseteq 0 .. MaxSeq
  BY BoundsAssumption DEF Attempts
<1>4. Advanced(a, S) \in NodeType
  BY <1>1, <1>2, <1>3 DEF Advanced, Entry, NodeType
<1>5. Cardinality(S) \in Nat
  BY CardNodes
<1> QED
  BY <1>1, <1>4, <1>5, BoundsAssumption DEF Fits

\* Steps that leave everything but the call of p alone.
LEMMA OnlyCallType ==
  ASSUME TypeInv, CallsOK',
         UNCHANGED <<storeVars, snapVars, rowVars, ctlVars, accepted, platVars, hostVars>>
  PROVE  TypeInv'
BY DEF TypeInv, Unstarted, TypeOK, CallsOK, storeVars, snapVars, rowVars, ctlVars, platVars, hostVars

LEMMA RuntimeTypes ==
  ASSUME TypeInv, NEW p \in Procs, Runtime(p)
  PROVE  TypeInv'
<1>1. /\ TypeOK /\ CallsOK /\ Unstarted
      /\ proc[p] \in ProcStates /\ CallOK(proc[p])
      /\ proc \in [Procs -> ProcStates]
  BY DEF TypeInv, CallsOK
<1>2. ASSUME NEW c \in ProcStates, CallOK(c), proc' = [proc EXCEPT ![p] = c]
      PROVE  CallsOK'
  BY <1>1, <1>2, CallWrite
<1>3. seq \in Nat /\ Attempts \subseteq 0 .. MaxSeq /\ 0 \in 0 .. MaxSeq /\ 0 \in 0 .. MaxRuns
  BY <1>1, BoundsAssumption DEF TypeOK, Attempts

<1>4. CASE StartRead(p)
  <2>1. proc' = [proc EXCEPT ![p] = [proc[p] EXCEPT !.pc = "start"]]
    BY <1>1, <1>4 DEF StartRead
  <2>2. [proc[p] EXCEPT !.pc = "start"] \in ProcStates /\ CallOK([proc[p] EXCEPT !.pc = "start"])
    BY <1>1, <1>3, <1>4, IdleType DEF StartRead, ProcStates, CallOK
  <2>3. CallsOK'
    BY <1>2, <2>1, <2>2
  <2> QED
    BY <1>4, <2>3, OnlyCallType DEF StartRead

<1>5. CASE StartRefused(p)
  <2>1. proc' = [proc EXCEPT ![p] = Idle]
    BY <1>1, <1>5 DEF StartRefused
  <2>2. Idle \in ProcStates /\ CallOK(Idle)
    BY <1>1, <1>3, <1>5, IdleType DEF StartRefused
  <2>3. CallsOK'
    BY <1>2, <2>1, <2>2
  <2> QED
    BY <1>5, <2>3, OnlyCallType DEF StartRefused

<1>6. CASE SubmitRefused(p)
  <2>1. proc' = [proc EXCEPT ![p] = Idle]
    BY <1>1, <1>6 DEF SubmitRefused
  <2>2. Idle \in ProcStates /\ CallOK(Idle)
    BY <1>1, <1>3, <1>6, IdleType DEF SubmitRefused
  <2>3. CallsOK'
    BY <1>2, <2>1, <2>2
  <2> QED
    BY <1>6, <2>3, OnlyCallType DEF SubmitRefused

<1>7. CASE ReexecuteRaced(p)
  <2>1. proc' = [proc EXCEPT ![p] = Idle]
    BY <1>1, <1>7 DEF ReexecuteRaced
  <2>2. Idle \in ProcStates /\ CallOK(Idle)
    BY <1>1, <1>3, <1>7, IdleType DEF ReexecuteRaced
  <2>3. CallsOK'
    BY <1>2, <2>1, <2>2
  <2> QED
    BY <1>7, <2>3, OnlyCallType DEF ReexecuteRaced

<1>8. CASE \E a \in Attempts, channel \in {"credential", "host"} : SubmitRead(p, a, channel)
  <2>0. PICK a \in Attempts, channel \in {"credential", "host"} : SubmitRead(p, a, channel)
    BY <1>8
  <2> DEFINE c == [proc[p] EXCEPT !.pc = "settle", !.cur = a]
  <2>1. proc' = [proc EXCEPT ![p] = c]
    BY <1>1, <2>0 DEF SubmitRead
  <2>2. c \in ProcStates /\ CallOK(c)
    BY <1>1, <1>3 DEF ProcStates, CallOK
  <2>3. CallsOK'
    BY <1>2, <2>1, <2>2
  <2> QED
    BY <2>0, <2>3, OnlyCallType DEF SubmitRead

<1>9. CASE ReexecuteRead(p)
  <2> DEFINE c == [proc[p] EXCEPT !.pc = "reexecute", !.run = run, !.seq = seq]
  <2>1. proc' = [proc EXCEPT ![p] = c]
    BY <1>1, <1>9 DEF ReexecuteRead
  <2>2. run \in 1 .. MaxRuns - 1 /\ run \in 0 .. MaxRuns /\ seq \in 0 .. MaxSeq
    BY <1>1, <1>9, BoundsAssumption DEF ReexecuteRead, TypeOK
  <2>3. c \in ProcStates /\ CallOK(c)
    BY <1>1, <2>2 DEF ProcStates, CallOK
  <2>4. CallsOK'
    BY <1>2, <2>1, <2>3
  <2> QED
    BY <1>9, <2>4, OnlyCallType DEF ReexecuteRead

<1>10. CASE ResumeRead(p)
  <2> DEFINE view == [a \in Attempts |-> IF a \in InFlight THEN verifier[a] ELSE 0]
             c == [proc[p] EXCEPT !.pc = "scan", !.mode = "reconcile", !.view = view]
  <2>1. proc' = [proc EXCEPT ![p] = c]
    BY <1>1, <1>10 DEF ResumeRead
  <2>2. view \in [Attempts -> Nat]
    BY <1>1 DEF TypeOK
  <2> HIDE DEF view
  <2>3. c \in ProcStates /\ CallOK(c)
    BY <1>1, <2>2 DEF ProcStates, CallOK
  <2>4. CallsOK'
    BY <1>2, <2>1, <2>3
  <2> QED
    BY <1>10, <2>4, OnlyCallType DEF ResumeRead

<1>11. CASE ScanEffects(p)
  <2> DEFINE S == {a \in Attempts : proc[p].view[a] # 0 /\ runOf[a] = run /\ effect[a] = "pending"}
             c == Reconciling(S, proc[p].view)
  <2>1. proc' = [proc EXCEPT ![p] = c]
    BY <1>11 DEF ScanEffects
  <2>2. S \subseteq Attempts /\ proc[p].view \in [Attempts -> Nat]
    BY <1>1 DEF ProcStates
  <2>3. c \in ProcStates /\ CallOK(c)
    BY <2>2, ReconcilingType
  <2>4. CallsOK'
    BY <1>2, <2>1, <2>3
  <2> QED
    BY <1>11, <2>4, OnlyCallType DEF ScanEffects

<1>12. CASE \E answer \in {"created", "absent", "unknown"} : Examine(p, answer)
  <2>0. PICK answer \in {"created", "absent", "unknown"} : Examine(p, answer)
    BY <1>12
  <2>1. PICK c : /\ proc' = [proc EXCEPT ![p] = c]
                 /\ \/ \E pc \in {"mark", "fence", "create"} : c = [proc[p] EXCEPT !.pc = pc]
                    \/ c = Onwards(p)
    BY <1>1, <2>0 DEF Examine
  <2>2. proc[p].pc = "examine"
    BY <2>0 DEF Examine
  <2>3. c \in ProcStates /\ CallOK(c)
    BY <1>1, <2>1, <2>2, CallMove, OnwardsType
  <2>4. CallsOK'
    BY <1>2, <2>1, <2>3
  <2> QED
    BY <2>0, <2>4, OnlyCallType DEF Examine

<1>13. CASE StartCommit(p)
  <2>1. Mint(Entries, 0, 1, p, effect, claim) /\ MintSnapshot(0) /\ Fits(Entries, 0)
    BY <1>13 DEF StartCommit
  <2>2. Entries \subseteq Nodes /\ 1 \in Runs /\ 1 \in 0 .. MaxRuns
    BY EntriesAssumption, BoundsAssumption DEF Runs
  <2>3. Numbered(Entries, 0) \subseteq Attempts
    BY <2>1, <2>2, NumberedFacts
  <2>4. CallsOK'
    BY <1>2, <1>13, <2>3, LaunchType DEF StartCommit
  <2>5. TypeOK /\ effect \in [Attempts -> {"none", "pending", "started", "done", "failed"}]
        /\ claim \in [Attempts -> {"none", "reserved", "released"}]
    BY <1>1 DEF TypeOK
  <2>6. /\ runOf' \in [Attempts -> 0 .. MaxRuns]
        /\ nodeOf' \in [Attempts -> Nodes \cup {0}]
        /\ verifier' \in [Attempts -> Nat]
        /\ vault' \in [Procs -> [Attempts -> Nat]]
        /\ effect' \in [Attempts -> {"none", "pending", "started", "done", "failed"}]
        /\ claim' \in [Attempts -> {"none", "reserved", "released"}]
    BY <2>1, <2>2, <2>5, MintTypes
  <2>7. /\ node' \in NodeType
        /\ phase' \in {"unstarted", "executing", "complete", "stopped"}
        /\ seq' \in 0 .. MaxSeq
    BY <2>1, MintSnapshotTypes
  <2> QED
    BY <1>1, <1>13, <2>2, <2>4, <2>6, <2>7
    DEF StartCommit, TypeInv, Unstarted, TypeOK, CallsOK, NodeType, ctlVars, platVars
<1>14. CASE ReexecuteCommit(p)
  <2> DEFINE base == proc[p].seq
  <2>1. Mint(Entries, base, run + 1, p, effect, claim) /\ MintSnapshot(base) /\ Fits(Entries, base)
    BY <1>14 DEF ReexecuteCommit, FromSeq
  <2>2. run + 1 \in Runs /\ run + 1 \in 0 .. MaxRuns
    BY <1>1, <1>14, BoundsAssumption DEF ReexecuteCommit, OrderStands, CallOK, Runs
  <2>3. Entries \subseteq Nodes /\ base \in Nat
    BY <1>1, EntriesAssumption, BoundsAssumption DEF ProcStates
  <2>4. Numbered(Entries, base) \subseteq Attempts
    BY <2>1, <2>3, NumberedFacts
  <2>5. CallsOK'
    BY <1>2, <1>14, <2>4, LaunchType DEF ReexecuteCommit, FromSeq
  <2>6. TypeOK /\ effect \in [Attempts -> {"none", "pending", "started", "done", "failed"}]
        /\ claim \in [Attempts -> {"none", "reserved", "released"}]
    BY <1>1 DEF TypeOK
  <2>7. /\ runOf' \in [Attempts -> 0 .. MaxRuns]
        /\ nodeOf' \in [Attempts -> Nodes \cup {0}]
        /\ verifier' \in [Attempts -> Nat]
        /\ vault' \in [Procs -> [Attempts -> Nat]]
        /\ effect' \in [Attempts -> {"none", "pending", "started", "done", "failed"}]
        /\ claim' \in [Attempts -> {"none", "reserved", "released"}]
    BY <2>1, <2>2, <2>3, <2>6, MintTypes
  <2>8. /\ node' \in NodeType
        /\ phase' \in {"unstarted", "executing", "complete", "stopped"}
        /\ seq' \in 0 .. MaxSeq
    BY <2>1, <2>3, MintSnapshotTypes
  <2>9. run' = run + 1 /\ run + 1 # 0
    BY <1>14, <2>2 DEF ReexecuteCommit, Runs
  <2>10. Unstarted'
    BY <2>9 DEF Unstarted
  <2>11. TypeOK'
    BY <1>1, <1>14, <2>2, <2>5, <2>7, <2>8, <2>9
    DEF ReexecuteCommit, TypeOK, CallsOK, NodeType, ctlVars, platVars
  <2> QED
    BY <2>5, <2>10, <2>11 DEF TypeInv
<1>15. CASE \E S \in SUBSET Nodes, stops \in BOOLEAN : SubmitCommit(p, S, stops)
  <2>0. PICK S \in SUBSET Nodes, stops \in BOOLEAN : SubmitCommit(p, S, stops)
    BY <1>15
  <2> DEFINE a == proc[p].cur
             effects == [effect EXCEPT ![a] = IF CanMove(a, @) THEN "done" ELSE @]
             claims == [claim EXCEPT ![a] = IF @ = "reserved" THEN "released" ELSE @]
  <2>1. Mint(S, seq, run, p, effects, claims) /\ Fits(S, seq) /\ a \in Attempts
    BY <1>1, <2>0 DEF SubmitCommit, CallOK
  <2>2. run \in Runs
    <3>1. PICK n \in Nodes : node[n].status = "dispatched" /\ node[n].attempt = a
      BY <2>0 DEF SubmitCommit, Reducible, InFlight, Dispatched
    <3> QED
      BY <1>1, <3>1, BoundsAssumption DEF TypeOK, Unstarted, Runs
  <2>3. Numbered(S, seq) \subseteq Attempts
    BY <1>3, <2>1, NumberedFacts
  <2>4. CallsOK'
    BY <1>2, <2>0, <2>3, LaunchType DEF SubmitCommit
  <2>5. /\ effects \in [Attempts -> {"none", "pending", "started", "done", "failed"}]
        /\ claims \in [Attempts -> {"none", "reserved", "released"}]
    BY <1>1 DEF TypeOK
  <2> HIDE DEF effects, claims
  <2>6. /\ runOf' \in [Attempts -> 0 .. MaxRuns]
        /\ nodeOf' \in [Attempts -> Nodes \cup {0}]
        /\ verifier' \in [Attempts -> Nat]
        /\ vault' \in [Procs -> [Attempts -> Nat]]
        /\ effect' \in [Attempts -> {"none", "pending", "started", "done", "failed"}]
        /\ claim' \in [Attempts -> {"none", "reserved", "released"}]
    BY <1>1, <1>3, <2>1, <2>2, <2>5, MintTypes
  <2>7. node' \in NodeType /\ seq' \in 0 .. MaxSeq
    BY <1>1, <2>0, <2>1, AdvancedType DEF SubmitCommit
  <2>8. phase' \in {"unstarted", "executing", "complete", "stopped"}
    BY <2>0 DEF SubmitCommit, PhaseAfter
  <2>9. accepted' \in SUBSET Attempts
    BY <1>1, <2>0, <2>1 DEF SubmitCommit, TypeOK
  <2>10. Unstarted'
    <3>1. run' = run /\ run # 0
      BY <2>0, <2>2 DEF SubmitCommit, storeVars, Runs
    <3> QED
      BY <3>1 DEF Unstarted
  <2>11. TypeOK'
    BY <1>1, <2>0, <2>4, <2>6, <2>7, <2>8, <2>9
    DEF SubmitCommit, TypeOK, CallsOK, NodeType, storeVars, ctlVars, platVars
  <2> QED
    BY <2>4, <2>10, <2>11 DEF TypeInv
<1>16. CASE \E made \in {"live", "refused"} : Create(p, made)
  <2>0. PICK made \in {"live", "refused"} : Create(p, made)
    BY <1>16
  <2>1. proc' = [proc EXCEPT ![p] = [proc[p] EXCEPT !.pc = "mark"]]
    BY <1>1, <2>0 DEF Create
  <2>2. CallsOK'
    BY <1>1, <1>2, <2>0, <2>1, CallMove DEF Create
  <2>3. proc[p].cur \in Attempts
    BY <1>1, <2>0 DEF Create, CallOK
  <2>4. held' \in [Attempts -> Nat] /\ right' \in [Attempts -> Procs \cup {"free"}]
    BY <1>1, <2>0, <2>3 DEF Create, TypeOK
  <2> QED
    BY <1>1, <2>0, <2>2, <2>4
    DEF Create, TypeInv, Unstarted, TypeOK, CallsOK, storeVars, snapVars, rowVars, ctlVars
<1>17. CASE CreateFails(p)
  <2>1. CallsOK'
    BY <1>1, <1>2, <1>17, OnwardsType DEF CreateFails
  <2>2. right' \in [Attempts -> Procs \cup {"free"}]
    BY <1>1, <1>17 DEF CreateFails, TypeOK
  <2> QED
    BY <1>1, <1>17, <2>1, <2>2
    DEF CreateFails, TypeInv, Unstarted, TypeOK, CallsOK, storeVars, snapVars, rowVars, ctlVars, platVars
<1>18. CASE MarkStarted(p)
  <2>1. CallsOK'
    BY <1>1, <1>2, <1>18, OnwardsType DEF MarkStarted
  <2>2. effect' \in [Attempts -> {"none", "pending", "started", "done", "failed"}]
    BY <1>1, <1>18 DEF MarkStarted, TypeOK
  <2> QED
    BY <1>1, <1>18, <2>1, <2>2
    DEF MarkStarted, TypeInv, Unstarted, TypeOK, CallsOK, storeVars, snapVars, ctlVars, platVars, hostVars
<1>19. CASE Fence(p)
  <2>1. CallsOK'
    <3>1. CASE Claimable(p, proc[p].cur)
      <4>1. proc' = [proc EXCEPT ![p] = [proc[p] EXCEPT !.pc = "reissue"]]
        BY <1>1, <1>19, <3>1 DEF Fence
      <4> QED
        BY <1>1, <1>2, <1>19, <4>1, CallMove DEF Fence
    <3>2. CASE ~ Claimable(p, proc[p].cur)
      BY <1>1, <1>2, <1>19, <3>2, OnwardsType DEF Fence
    <3> QED
      BY <3>1, <3>2
  <2>2. right' \in [Attempts -> Procs \cup {"free"}]
    BY <1>1, <1>19 DEF Fence, TypeOK
  <2> QED
    BY <1>1, <1>19, <2>1, <2>2
    DEF Fence, TypeInv, Unstarted, TypeOK, CallsOK, storeVars, snapVars, rowVars, ctlVars, platVars
<1>20. CASE Reissue(p)
  <2> DEFINE a == proc[p].cur
  <2>1. a \in Attempts
    BY <1>1, <1>20 DEF Reissue, CallOK
  <2>2. PICK c : /\ proc' = [proc EXCEPT ![p] = c]
                 /\ c = [proc[p] EXCEPT !.pc = "create"] \/ c = Onwards(p)
    BY <1>1, <1>20 DEF Reissue
  <2>3. c \in ProcStates /\ CallOK(c)
    BY <1>1, <1>20, <2>2, CallMove, OnwardsType DEF Reissue
  <2>4. CallsOK'
    BY <1>2, <2>2, <2>3
  <2>5. /\ verifier' \in [Attempts -> Nat]
        /\ right' \in [Attempts -> Procs \cup {"free"}]
    <3>1. verifier' = verifier \/ verifier' = [verifier EXCEPT ![a] = @ + 1]
      BY <1>1, <1>20 DEF Reissue
    <3>2. verifier' \in [Attempts -> Nat]
      BY <1>1, <2>1, <3>1 DEF TypeOK
    <3>3. right' = right \/ right' = [right EXCEPT ![a] = "free"]
      BY <1>1, <1>20 DEF Reissue
    <3> QED
      BY <1>1, <3>2, <3>3 DEF TypeOK
  <2>6. vault' = vault \/ vault' = [vault EXCEPT ![p] = [vault[p] EXCEPT ![a] = verifier[a] + 1]]
    BY <1>1, <1>20 DEF Reissue, TypeOK
  <2>7. [vault[p] EXCEPT ![a] = verifier[a] + 1] \in [Attempts -> Nat]
    BY <1>1, <2>1 DEF TypeOK
  <2>8. vault' \in [Procs -> [Attempts -> Nat]]
    BY <1>1, <2>6, <2>7 DEF TypeOK
  <2> QED
    BY <1>1, <1>20, <2>4, <2>5, <2>8
    DEF Reissue, TypeInv, Unstarted, TypeOK, CallsOK, storeVars, snapVars, ctlVars, platVars
<1>21. CASE Crash(p)
  <2>1. CallsOK'
    BY <1>2, <1>21, IdleType DEF Crash
  <2>2. vault' \in [Procs -> [Attempts -> Nat]] /\ right' \in [Attempts -> Procs \cup {"free"}]
    BY <1>1, <1>21 DEF Crash, TypeOK
  <2> QED
    BY <1>1, <1>21, <2>1, <2>2
    DEF Crash, TypeInv, Unstarted, TypeOK, CallsOK, storeVars, snapVars, rowVars, ctlVars, platVars
<1> QED
  BY <1>4, <1>5, <1>6, <1>7, <1>8, <1>9, <1>10, <1>11, <1>12, <1>13, <1>14, <1>15, <1>16, <1>17, <1>18, <1>19, <1>20, <1>21
  DEF Runtime

LEMMA ControllerTypes ==
  ASSUME TypeInv, Controller
  PROVE  TypeInv'
<1> USE DEF storeVars, snapVars, rowVars, ctlVars, platVars, hostVars
<1>1. TypeOK /\ CallsOK /\ Unstarted
  BY DEF TypeInv
<1>2. AllCommands \cap AllCommands = AllCommands /\ Commands \subseteq AllCommands
  BY CommandsAssumption
<1>3. ASSUME ExpireRunApprovals
      PROVE  approval' \in [Attempts -> {"none", "pending", "approved", "rejected", "expired"}]
  BY <1>1, <1>3 DEF ExpireRunApprovals, TypeOK
<1>4. CASE \E cmd \in Commands : StopRun(cmd)
  <2>0. PICK cmd \in Commands : StopRun(cmd)
    BY <1>4
  <2>1. cmd \in RunWide /\ run \in Runs
    BY <1>1, <2>0, BoundsAssumption DEF StopRun, TypeOK, Runs
  <2>2. decided' \in [Attempts -> SUBSET AllCommands]
    BY <1>1, <2>0, <2>1 DEF StopRun, TypeOK, AllCommands, Stopping
  <2>3. control' \in [Runs -> {"none", "retry"} \cup RunWide]
    BY <1>1, <2>0, <2>1 DEF StopRun, ClaimRunControl, TypeOK
  <2> QED
    BY <1>1, <1>3, <2>0, <2>2, <2>3 DEF StopRun, TypeInv, TypeOK, CallsOK, Unstarted
<1>5. CASE \E a \in Attempts, cmd \in Commands : StopAttempt(a, cmd)
  <2>0. PICK a \in Attempts, cmd \in Commands : StopAttempt(a, cmd)
    BY <1>5
  <2>1. decided' \in [Attempts -> SUBSET AllCommands]
    BY <1>1, <1>2, <2>0 DEF StopAttempt, TypeOK
  <2> QED
    BY <1>1, <1>3, <2>0, <2>1 DEF StopAttempt, TypeInv, TypeOK, CallsOK, Unstarted
<1>6. CASE \E a \in Attempts, cmd \in Commands : DecideApproval(a, cmd)
  <2>0. PICK a \in Attempts, cmd \in Commands : DecideApproval(a, cmd)
    BY <1>6
  <2>1. decided' \in [Attempts -> SUBSET AllCommands]
    BY <1>1, <1>2, <2>0 DEF DecideApproval, TypeOK
  <2>2. approval' \in [Attempts -> {"none", "pending", "approved", "rejected", "expired"}]
    BY <1>1, <2>0 DEF DecideApproval, TypeOK
  <2> QED
    BY <1>1, <2>0, <2>1, <2>2 DEF DecideApproval, TypeInv, TypeOK, CallsOK, Unstarted
<1>7. CASE \E p \in Procs, n \in Nodes : RetryNode(p, n)
  <2>0. PICK p \in Procs, n \in Nodes : RetryNode(p, n)
    BY <1>7
  <2> DEFINE a == node[n].attempt
  <2>1. /\ Mint({n}, seq, run, p, effect, claim) /\ Fits({n}, seq)
        /\ run \in Runs /\ seq \in Nat /\ {n} \subseteq Nodes /\ run # 0
        /\ "retry" \in AllCommands
        /\ effect \in [Attempts -> {"none", "pending", "started", "done", "failed"}]
        /\ claim \in [Attempts -> {"none", "reserved", "released"}]
    BY <1>1, <2>0, BoundsAssumption DEF RetryNode, TypeOK, Runs, AllCommands
  <2>2. /\ runOf' \in [Attempts -> 0 .. MaxRuns]
        /\ nodeOf' \in [Attempts -> Nodes \cup {0}]
        /\ verifier' \in [Attempts -> Nat]
        /\ vault' \in [Procs -> [Attempts -> Nat]]
        /\ effect' \in [Attempts -> {"none", "pending", "started", "done", "failed"}]
        /\ claim' \in [Attempts -> {"none", "reserved", "released"}]
    BY <1>1, <2>1, MintTypes
  <2>3. seq + 1 \in 0 .. MaxSeq
    <3>1. Cardinality({n}) = 1
      BY FS_Singleton
    <3> QED
      BY <2>1, <3>1, BoundsAssumption DEF Fits
  <2>4. node' \in [Nodes -> [status : {"pending", "dispatched", "settled"},
                             attempt : 0 .. MaxSeq]]
    BY <1>1, <2>0, <2>3 DEF RetryNode, TypeOK, Entry
  <2>5. decided' \in [Attempts -> SUBSET AllCommands]
    BY <1>1, <2>0, <2>1 DEF RetryNode, TypeOK
  <2>6. Unstarted'
    BY <2>0, <2>1 DEF RetryNode, Unstarted
  <2>7. TypeOK'
    BY <1>1, <2>0, <2>2, <2>3, <2>4, <2>5 DEF RetryNode, TypeOK
  <2> QED
    BY <1>1, <2>0, <2>6, <2>7 DEF RetryNode, TypeInv, CallsOK
<1>8. CASE OrderReexecution
  <2>1. control' \in [Runs -> {"none", "retry"} \cup RunWide]
    BY <1>1, <1>8 DEF OrderReexecution, ClaimRunControl, TypeOK
  <2>2. order' \in [Runs -> {"none", "ordered", "executed"}]
    BY <1>1, <1>8 DEF OrderReexecution, TypeOK
  <2> QED
    BY <1>1, <1>8, <2>1, <2>2 DEF OrderReexecution, TypeInv, TypeOK, CallsOK, Unstarted
<1>9. CASE \E a \in Attempts : RaiseApproval(a) \/ ExpireApproval(a)
  <2>0. PICK a \in Attempts : RaiseApproval(a) \/ ExpireApproval(a)
    BY <1>9
  <2>1. decided' \in [Attempts -> SUBSET AllCommands]
    BY <1>1, <2>0 DEF RaiseApproval, ExpireApproval, TypeOK, AllCommands
  <2>2. approval' \in [Attempts -> {"none", "pending", "approved", "rejected", "expired"}]
    BY <1>1, <2>0 DEF RaiseApproval, ExpireApproval, TypeOK
  <2> QED
    BY <1>1, <2>0, <2>1, <2>2
    DEF RaiseApproval, ExpireApproval, TypeInv, TypeOK, CallsOK, Unstarted
<1> QED
  BY <1>4, <1>5, <1>6, <1>7, <1>8, <1>9 DEF Controller

LEMMA HostTypes ==
  ASSUME TypeInv, Host
  PROVE  TypeInv'
<1> USE DEF storeVars, snapVars, rowVars, ctlVars, platVars, hostVars
<1>1. TypeOK /\ CallsOK /\ Unstarted
  BY DEF TypeInv
<1>2. CASE \E a \in Attempts : HostFailure(a)
  <2>0. PICK a \in Attempts : HostFailure(a)
    BY <1>2
  <2>1. decided' \in [Attempts -> SUBSET AllCommands]
    BY <1>1, <2>0 DEF HostFailure, TypeOK, AllCommands, Stopping, AttemptScoped
  <2>2. /\ effect' \in [Attempts -> {"none", "pending", "started", "done", "failed"}]
        /\ claim' \in [Attempts -> {"none", "reserved", "released"}]
    BY <1>1, <2>0 DEF HostFailure, TypeOK
  <2>3. approval' \in [Attempts -> {"none", "pending", "approved", "rejected", "expired"}]
    BY <1>1, <2>0 DEF HostFailure, ExpireRunApprovals, TypeOK
  <2> QED
    BY <1>1, <2>0, <2>1, <2>2, <2>3 DEF HostFailure, TypeInv, TypeOK, CallsOK, Unstarted
<1>3. CASE \E a \in Attempts : RequestCancel(a) \/ ConfirmCancel(a) \/ AnswerLost(a)
  <2>0. PICK a \in Attempts : RequestCancel(a) \/ ConfirmCancel(a) \/ AnswerLost(a)
    BY <1>3
  <2>1. cancel' \in [Attempts -> {"none", "started", "done"}]
    BY <1>1, <2>0 DEF RequestCancel, ConfirmCancel, AnswerLost, TypeOK
  <2> QED
    BY <1>1, <2>0, <2>1
    DEF RequestCancel, ConfirmCancel, AnswerLost, TypeInv, TypeOK, CallsOK, Unstarted
<1>4. CASE \E a \in Attempts : PlatformCancels(a)
  BY <1>1, <1>4 DEF PlatformCancels, TypeInv, TypeOK, CallsOK, Unstarted
<1>5. CASE \E a \in Attempts, how \in {"completed", "failed"} : WorkerEnds(a, how)
  BY <1>1, <1>5 DEF WorkerEnds, TypeInv, TypeOK, CallsOK, Unstarted
<1> QED
  BY <1>2, <1>3, <1>4, <1>5 DEF Host

LEMMA TypeInvariant == Spec => []TypeInv
<1>1. Init => TypeInv
  <2> SUFFICES ASSUME Init PROVE TypeInv
    OBVIOUS
  <2>1. CallsOK
    BY IdleType DEF Init, CallsOK
  <2>2. /\ 0 \in 0 .. MaxRuns /\ 0 \in 0 .. MaxSeq
        /\ control \in [Runs -> {"none", "retry"} \cup RunWide]
    BY BoundsAssumption DEF Init
  <2>3. TypeOK
    BY <2>1, <2>2 DEF Init, TypeOK, CallsOK, Entry
  <2> QED
    BY <2>1, <2>3 DEF Init, TypeInv, Unstarted, Entry
<1>2. TypeInv /\ [Next]_vars => TypeInv'
  <2> SUFFICES ASSUME TypeInv, [Next]_vars PROVE TypeInv'
    OBVIOUS
  <2>1. CASE UNCHANGED vars
    BY <2>1 DEF TypeInv, TypeOK, CallsOK, Unstarted, vars, storeVars, snapVars, rowVars,
                ctlVars, platVars, hostVars
  <2> QED
    BY <2>1, ControllerTypes, HostTypes, RuntimeTypes DEF Next
<1> QED
  BY <1>1, <1>2, PTL DEF Spec

\* Type correctness: every transaction, callback and crash keeps each row, the
\* snapshot and each call in progress well formed.
THEOREM TypeCorrect == Spec => []TypeOK
BY TypeInvariant, PTL DEF TypeInv

-----------------------------------------------------------------------------
(* A command and an acceptance exclude each other on one attempt: each is  *)
(* guarded by the other's rows inside its own transaction, whatever the    *)
(* preflight of a submission had read.                                     *)

AcceptInv == AcceptedStands /\ AcceptedUnpaused

\* A step that accepts nothing and writes neither decisions nor approvals.
LEMMA AcceptFrame ==
  ASSUME AcceptInv, UNCHANGED <<accepted, decided, approval>>
  PROVE  AcceptInv'
BY DEF AcceptInv, AcceptedStands, AcceptedUnpaused, Paused

\* A command writes only attempts that are not accepted.
LEMMA CommandFrame ==
  ASSUME AcceptInv, UNCHANGED accepted,
         \A b \in accepted : decided'[b] = decided[b] /\ approval'[b] = approval[b]
  PROVE  AcceptInv'
BY DEF AcceptInv, AcceptedStands, AcceptedUnpaused, Paused

LEMMA ExpiryKeeps ==
  ASSUME TypeInv, AcceptInv, ExpireRunApprovals, NEW b \in accepted
  PROVE  approval'[b] = approval[b]
<1>1. b \in Attempts /\ approval[b] # "pending"
  BY DEF TypeInv, TypeOK, AcceptInv, AcceptedUnpaused, Paused
<1> QED
  BY <1>1 DEF ExpireRunApprovals

LEMMA AcceptStep ==
  ASSUME TypeInv, AcceptInv, [Next]_vars
  PROVE  AcceptInv'
<1> USE DEF storeVars, snapVars, rowVars, ctlVars, platVars, hostVars
<1>1. TypeOK /\ CallsOK
  BY DEF TypeInv
<1>2. accepted \subseteq Attempts /\ decided \in [Attempts -> SUBSET AllCommands]
      /\ approval \in [Attempts -> {"none", "pending", "approved", "rejected", "expired"}]
  BY <1>1 DEF TypeOK
<1>3. CASE \E cmd \in Commands : StopRun(cmd)
  <2>1. \A b \in accepted : decided'[b] = decided[b]
    BY <1>2, <1>3 DEF StopRun, Recordable
  <2> QED
    BY <1>3, <2>1, ExpiryKeeps, CommandFrame DEF StopRun
<1>4. CASE \E a \in Attempts, cmd \in Commands : StopAttempt(a, cmd)
  <2>1. \A b \in accepted : decided'[b] = decided[b]
    BY <1>2, <1>4 DEF StopAttempt, Recordable
  <2> QED
    BY <1>4, <2>1, ExpiryKeeps, CommandFrame DEF StopAttempt
<1>5. CASE \E a \in Attempts : HostFailure(a)
  <2>1. \A b \in accepted : decided'[b] = decided[b]
    BY <1>2, <1>5 DEF HostFailure, Recordable
  <2> QED
    BY <1>5, <2>1, ExpiryKeeps, CommandFrame DEF HostFailure
<1>6. CASE \E a \in Attempts, cmd \in Commands : DecideApproval(a, cmd)
  <2>1. \A b \in accepted : decided'[b] = decided[b] /\ approval'[b] = approval[b]
    BY <1>2, <1>6 DEF DecideApproval, Recordable
  <2> QED
    BY <1>6, <2>1, CommandFrame DEF DecideApproval
<1>7. CASE \E p \in Procs, n \in Nodes : RetryNode(p, n)
  <2>1. \A b \in accepted : decided'[b] = decided[b]
    BY <1>2, <1>7 DEF RetryNode, Recordable
  <2> QED
    BY <1>7, <2>1, CommandFrame DEF RetryNode
<1>8. CASE OrderReexecution
  BY <1>8, AcceptFrame DEF OrderReexecution
<1>9. CASE \E a \in Attempts : RaiseApproval(a)
  <2>1. \A b \in accepted : decided'[b] = decided[b] /\ approval'[b] = approval[b]
    BY <1>2, <1>9 DEF RaiseApproval, Recordable
  <2> QED
    BY <1>9, <2>1, CommandFrame DEF RaiseApproval
<1>10. CASE \E a \in Attempts : ExpireApproval(a)
  <2>1. \A b \in accepted : approval[b] # "pending"
    BY DEF AcceptInv, AcceptedUnpaused, Paused
  <2>2. \A b \in accepted : approval'[b] = approval[b]
    BY <1>2, <1>10, <2>1 DEF ExpireApproval
  <2> QED
    BY <1>10, <2>2, CommandFrame DEF ExpireApproval
<1>11. ASSUME NEW a \in Attempts,
              \/ RequestCancel(a) \/ PlatformCancels(a) \/ ConfirmCancel(a) \/ AnswerLost(a)
              \/ \E how \in {"completed", "failed"} : WorkerEnds(a, how)
       PROVE  AcceptInv'
  BY <1>11, AcceptFrame
  DEF RequestCancel, PlatformCancels, ConfirmCancel, AnswerLost, WorkerEnds
<1>12. ASSUME NEW p \in Procs, NEW S \in SUBSET Nodes, NEW stops \in BOOLEAN,
              SubmitCommit(p, S, stops)
       PROVE  AcceptInv'
  <2> DEFINE a == proc[p].cur
  <2>1. /\ accepted' = accepted \cup {a}
        /\ "retry" \notin decided[a] /\ decided[a] \cap Stopping = {} /\ ~ Paused(a)
        /\ UNCHANGED <<decided, approval>>
    BY <1>12 DEF SubmitCommit, Committable, Stopped
  <2> QED
    BY <2>1 DEF AcceptInv, AcceptedStands, AcceptedUnpaused, Paused
<1>13. ASSUME NEW p \in Procs,
              \/ StartRead(p) \/ StartCommit(p) \/ StartRefused(p)
              \/ \E a \in Attempts, channel \in {"credential", "host"} :
                    SubmitRead(p, a, channel)
              \/ SubmitRefused(p)
              \/ ReexecuteRead(p) \/ ReexecuteCommit(p) \/ ReexecuteRaced(p)
       PROVE  AcceptInv'
  BY <1>13, AcceptFrame
  DEF StartRead, StartCommit, StartRefused, SubmitRead, SubmitRefused, ReexecuteRead,
      ReexecuteCommit, ReexecuteRaced
<1>14. ASSUME NEW p \in Procs,
              \/ ResumeRead(p) \/ ScanEffects(p)
              \/ \E answer \in {"created", "absent", "unknown"} : Examine(p, answer)
              \/ Fence(p) \/ Reissue(p)
              \/ \E made \in {"live", "refused"} : Create(p, made)
              \/ CreateFails(p) \/ MarkStarted(p)
              \/ Crash(p)
       PROVE  AcceptInv'
  BY <1>14, AcceptFrame
  DEF ResumeRead, ScanEffects, Examine, Fence, Reissue, Create, CreateFails, MarkStarted,
      Crash
<1>15. CASE UNCHANGED vars
  BY <1>15, AcceptFrame DEF vars
<1>16. CASE Controller
  BY <1>3, <1>4, <1>6, <1>7, <1>8, <1>9, <1>10, <1>16 DEF Controller
<1>17. CASE Host
  BY <1>5, <1>11, <1>17 DEF Host
<1>18. ASSUME NEW p \in Procs, Runtime(p)
       PROVE  AcceptInv'
  BY <1>12, <1>13, <1>14, <1>18 DEF Runtime
<1> QED
  BY <1>15, <1>16, <1>17, <1>18 DEF Next

LEMMA AcceptInvariant == Spec => []AcceptInv
<1>1. Init => AcceptInv
  BY DEF Init, AcceptInv, AcceptedStands, AcceptedUnpaused
<1>2. TypeInv /\ AcceptInv /\ [Next]_vars => AcceptInv'
  BY AcceptStep
<1> QED
  BY <1>1, <1>2, TypeInvariant, PTL DEF Spec

\* A stopped or superseded attempt is never accepted, and an accepted one never
\* stopped or superseded, whichever of a submission and a command read first.
THEOREM StopsAndAcceptancesExclude == Spec => []AcceptedStands
BY AcceptInvariant, PTL DEF AcceptInv

\* An attempt whose approval is open, rejected or expired is never accepted.
THEOREM PausedNeverAccepted == Spec => []AcceptedUnpaused
BY AcceptInvariant, PTL DEF AcceptInv

-----------------------------------------------------------------------------
(* One order, one run: an order closes its run, and only the transaction   *)
(* that mints the next run executes it.                                    *)

OrderInv ==
    /\ OneRunPerOrder
    /\ \A r \in Runs : /\ order[r] # "none" => control[r] # "none"
                       /\ r > run => order[r] = "none"

LEMMA OrderFrame ==
  ASSUME OrderInv, UNCHANGED storeVars
  PROVE  OrderInv'
BY DEF OrderInv, OneRunPerOrder, storeVars

LEMMA OrderStep ==
  ASSUME TypeInv, OrderInv, [Next]_vars
  PROVE  OrderInv'
<1>1. /\ run \in 0 .. MaxRuns /\ MaxRuns \in Nat
      /\ control \in [Runs -> {"none", "retry"} \cup RunWide]
      /\ order \in [Runs -> {"none", "ordered", "executed"}]
  BY BoundsAssumption DEF TypeInv, TypeOK
<1>2. CASE \E cmd \in Commands : StopRun(cmd)
  <2>1. PICK cmd \in Commands : StopRun(cmd)
    BY <1>2
  <2>2. cmd # "none"
    BY <2>1 DEF StopRun, RunWide
  <2>3. \A r \in Runs : control[r] # "none" => control'[r] # "none"
    BY <1>1, <2>1, <2>2 DEF StopRun, ClaimRunControl
  <2> QED
    BY <2>1, <2>3 DEF StopRun, OrderInv, OneRunPerOrder
<1>3. CASE OrderReexecution
  <2>1. \A r \in Runs : /\ control[r] # "none" => control'[r] # "none"
                        /\ order'[r] = IF r = run /\ order[r] = "none" THEN "ordered" ELSE order[r]
    BY <1>1, <1>3 DEF OrderReexecution, ClaimRunControl
  <2>2. run \in Runs => control'[run] # "none"
    BY <1>1, <1>3 DEF OrderReexecution, ClaimRunControl
  <2>3. run' = run
    BY <1>3 DEF OrderReexecution
  <2> QED
    BY <1>1, <2>1, <2>2, <2>3 DEF OrderInv, OneRunPerOrder, Runs
<1>4. ASSUME NEW p \in Procs, StartCommit(p)
      PROVE  OrderInv'
  <2>1. (run = 0 \/ run = 1) /\ run' = 1 /\ UNCHANGED <<control, order>>
    BY <1>4 DEF StartCommit, MintsSameRun
  <2> QED
    BY <1>1, <2>1 DEF OrderInv, OneRunPerOrder, Runs
<1>5. ASSUME NEW p \in Procs, ReexecuteCommit(p)
      PROVE  OrderInv'
  <2>1. /\ run' = run + 1 /\ control' = control
        /\ order' = [order EXCEPT ![run] = "executed"]
        /\ order[run] = "ordered"
    BY <1>5 DEF ReexecuteCommit, OrderStands
  <2>2. run \in Runs
    BY <1>5, <1>1 DEF ReexecuteCommit, OrderStands, TypeInv, CallsOK, CallOK, Runs
  <2>3. \A r \in Runs : order'[r] = IF r = run THEN "executed" ELSE order[r]
    BY <1>1, <2>1
  <2> QED
    BY <1>1, <2>1, <2>2, <2>3 DEF OrderInv, OneRunPerOrder, Runs
<1>6. ASSUME NEW p \in Procs, Runtime(p), ~ StartCommit(p), ~ ReexecuteCommit(p)
      PROVE  UNCHANGED storeVars
  BY <1>6
  DEF Runtime, StartRead, StartRefused, SubmitRead, SubmitCommit, SubmitRefused,
      ReexecuteRead, ReexecuteRaced, ResumeRead, ScanEffects, Examine, Fence, Reissue,
      Create, CreateFails, MarkStarted, Crash, storeVars
<1>7. ASSUME Host
      PROVE  UNCHANGED storeVars
  BY <1>7
  DEF Host, HostFailure, RequestCancel, PlatformCancels, ConfirmCancel, AnswerLost,
      WorkerEnds, storeVars
<1>8. ASSUME Controller, ~ OrderReexecution, ~ \E cmd \in Commands : StopRun(cmd)
      PROVE  UNCHANGED storeVars
  BY <1>8
  DEF Controller, StopAttempt, DecideApproval, RetryNode, RaiseApproval, ExpireApproval,
      storeVars
<1>9. CASE UNCHANGED vars
  BY <1>9, OrderFrame DEF vars, storeVars
<1>10. CASE Host
  BY <1>7, <1>10, OrderFrame
<1>11. CASE Controller
  BY <1>2, <1>3, <1>8, <1>11, OrderFrame
<1>12. ASSUME NEW p \in Procs, Runtime(p)
       PROVE  OrderInv'
  BY <1>4, <1>5, <1>6, <1>12, OrderFrame
<1> QED
  BY <1>9, <1>10, <1>11, <1>12 DEF Next

LEMMA OrderInvariant == Spec => []OrderInv
<1>1. Init => OrderInv
  BY DEF Init, OrderInv, OneRunPerOrder, Runs
<1>2. TypeInv /\ OrderInv /\ [Next]_vars => OrderInv'
  BY OrderStep
<1> QED
  BY <1>1, <1>2, TypeInvariant, PTL DEF Spec

\* The runs before the current one are exactly those whose order was executed,
\* and each was closed, however many processes race to execute an order.
THEOREM OrdersMintOneRun == Spec => []OneRunPerOrder
BY OrderInvariant, PTL DEF OrderInv

-----------------------------------------------------------------------------
(* Attempt numbers.  A re-execution numbers its attempts from the counter  *)
(* it read before its transaction.  That is sound because an order closes  *)
(* its run: no acceptance and no retry moves the counter of a closed run.  *)
(* A start numbers from 0, which is sound only if no run exists.           *)

IdInv ==
    /\ \A a \in Attempts : runOf[a] # 0 => a <= seq
    /\ run = 0 => seq = 0
    /\ \A p \in Procs : proc[p].pc = "reexecute" =>
          /\ proc[p].run <= run
          /\ order[proc[p].run] # "none"
          /\ proc[p].run = run => proc[p].seq = seq

KeepsIds ==
    \A a \in Attempts : runOf[a] # 0 => runOf'[a] = runOf[a] /\ nodeOf'[a] = nodeOf[a]

\* No step but the read of a re-execution begins one.
LEMMA CallNotReexecuting ==
  ASSUME CallsOK, NEW p \in Procs, NEW c, c.pc # "reexecute", proc' = [proc EXCEPT ![p] = c],
         NEW q \in Procs, proc'[q].pc = "reexecute"
  PROVE  proc'[q] = proc[q]
BY DEF CallsOK

LEMMA NextCallsNotReexecuting ==
  ASSUME NEW p \in Procs
  PROVE  /\ \A S : Launch(S).pc # "reexecute"
         /\ Idle.pc # "reexecute"
         /\ Onwards(p).pc # "reexecute"
         /\ AfterFailure(p).pc # "reexecute"
         /\ \A S, view : Reconciling(S, view).pc # "reexecute"
<1>1. Idle.pc = "idle"
  BY DEF Idle
<1>2. \A S : Launch(S).pc \in {"idle", "create"}
  BY DEF Launch, Idle
<1>3. \A S, view : Reconciling(S, view).pc \in {"idle", "examine"}
  BY DEF Reconciling, Idle
<1> QED
  BY <1>1, <1>2, <1>3 DEF Onwards, AfterFailure

LEMMA OthersNotReexecuting ==
  ASSUME TypeInv, NEW p \in Procs, Runtime(p), ~ ReexecuteRead(p),
         NEW q \in Procs, proc'[q].pc = "reexecute"
  PROVE  proc'[q] = proc[q]
<1>1. CallsOK /\ proc \in [Procs -> ProcStates] /\ proc[p] \in ProcStates
  BY DEF TypeInv, CallsOK
<1>2. ASSUME NEW c, c.pc # "reexecute", proc' = [proc EXCEPT ![p] = c]
      PROVE  proc'[q] = proc[q]
  BY <1>1, <1>2, CallNotReexecuting
<1>3. ASSUME NEW pc \in {"mark", "start", "fence", "create", "reissue", "scan", "settle"},
             proc'[p].pc = pc, \A x \in Procs : x # p => proc'[x] = proc[x]
      PROVE  proc'[q] = proc[q]
  BY <1>3
<1>4. CASE StartRead(p) \/ ResumeRead(p) \/ \E made \in {"live", "refused"} : Create(p, made)
  BY <1>1, <1>3, <1>4 DEF StartRead, ResumeRead, Create, ProcStates
<1>5. CASE \E a \in Attempts, channel \in {"credential", "host"} : SubmitRead(p, a, channel)
  BY <1>1, <1>3, <1>5 DEF SubmitRead, ProcStates
<1>6. CASE StartRefused(p) \/ SubmitRefused(p) \/ ReexecuteRaced(p) \/ Crash(p)
  BY <1>2, <1>6, NextCallsNotReexecuting DEF StartRefused, SubmitRefused, ReexecuteRaced, Crash
<1>7. CASE StartCommit(p) \/ ReexecuteCommit(p)
  BY <1>2, <1>7, NextCallsNotReexecuting DEF StartCommit, ReexecuteCommit
<1>8. CASE \E S \in SUBSET Nodes, stops \in BOOLEAN : SubmitCommit(p, S, stops)
  BY <1>2, <1>8, NextCallsNotReexecuting DEF SubmitCommit
<1>9. CASE ScanEffects(p) \/ CreateFails(p) \/ MarkStarted(p)
  BY <1>2, <1>9, NextCallsNotReexecuting DEF ScanEffects, CreateFails, MarkStarted
<1>10. CASE \E answer \in {"created", "absent", "unknown"} : Examine(p, answer)
  <2>1. PICK c : /\ proc' = [proc EXCEPT ![p] = c]
                 /\ \/ \E pc \in {"mark", "fence", "create"} : c = [proc[p] EXCEPT !.pc = pc]
                    \/ c = Onwards(p)
    BY <1>1, <1>10 DEF Examine
  <2>2. c.pc # "reexecute"
    BY <1>1, <2>1, NextCallsNotReexecuting DEF ProcStates
  <2> QED
    BY <1>2, <2>1, <2>2
<1>11. CASE Fence(p) \/ Reissue(p)
  <2>1. PICK c : /\ proc' = [proc EXCEPT ![p] = c]
                 /\ \/ \E pc \in {"create", "reissue"} : c = [proc[p] EXCEPT !.pc = pc]
                    \/ c = Onwards(p)
    BY <1>1, <1>11 DEF Fence, Reissue
  <2>2. c.pc # "reexecute"
    BY <1>1, <2>1, NextCallsNotReexecuting DEF ProcStates
  <2> QED
    BY <1>2, <2>1, <2>2
<1> QED
  BY <1>4, <1>5, <1>6, <1>7, <1>8, <1>9, <1>10, <1>11 DEF Runtime

\* Minting after the counter reuses no number.
LEMMA MintKeepsIds ==
  ASSUME TypeOK, NEW S, S \subseteq Nodes, NEW base \in Nat, Fits(S, base), NEW r, NEW p,
         NEW effects, NEW claims, Mint(S, base, r, p, effects, claims),
         \A a \in Attempts : runOf[a] # 0 => a <= base
  PROVE  /\ KeepsIds
         /\ \A a \in Attempts : runOf'[a] # 0 => a <= base + Cardinality(S)
<1>1. \A a \in Numbered(S, base) : a > base /\ a <= base + Cardinality(S)
  BY NumberedFacts
<1>2. \A a \in Attempts : /\ a \in Numbered(S, base) \/ runOf'[a] = runOf[a]
                          /\ a \in Numbered(S, base) \/ nodeOf'[a] = nodeOf[a]
  BY DEF Mint
<1>3. Cardinality(S) \in Nat /\ Attempts \subseteq Nat
  BY CardNodes, BoundsAssumption DEF Attempts
<1>4. \A a \in Attempts : runOf[a] # 0 => a \notin Numbered(S, base)
  BY <1>1, <1>3
<1>5. KeepsIds
  BY <1>2, <1>4 DEF KeepsIds
<1>6. ASSUME NEW a \in Attempts, runOf'[a] # 0
      PROVE  a <= base + Cardinality(S)
  <2>1. CASE a \in Numbered(S, base)
    BY <1>1, <2>1
  <2>2. CASE a \notin Numbered(S, base)
    BY <1>2, <1>3, <1>6, <2>2
  <2> QED
    BY <2>1, <2>2
<1> QED
  BY <1>5, <1>6

LEMMA IdFrame ==
  ASSUME IdInv, UNCHANGED <<run, seq, runOf, nodeOf, order>>,
         \A q \in Procs : proc'[q].pc = "reexecute" => proc'[q] = proc[q]
  PROVE  IdInv' /\ KeepsIds
<1>1. \A q \in Procs : proc'[q].pc = "reexecute" =>
          /\ proc'[q].run <= run'
          /\ order'[proc'[q].run] # "none"
          /\ proc'[q].run = run' => proc'[q].seq = seq'
  BY DEF IdInv
<1> QED
  BY <1>1 DEF IdInv, KeepsIds

LEMMA IdStep ==
  ASSUME ~ SameInstant, TypeInv, OrderInv, IdInv, [Next]_vars
  PROVE  IdInv' /\ KeepsIds
<1>1. /\ TypeOK /\ CallsOK
      /\ run \in 0 .. MaxRuns /\ MaxRuns \in Nat /\ seq \in Nat
      /\ control \in [Runs -> {"none", "retry"} \cup RunWide]
      /\ order \in [Runs -> {"none", "ordered", "executed"}]
      /\ proc \in [Procs -> ProcStates]
  BY BoundsAssumption DEF TypeInv, TypeOK, CallsOK
<1>2. \A q \in Procs : proc[q].pc = "reexecute" => proc[q].run \in Runs /\ proc[q].run < MaxRuns
  BY <1>1 DEF CallsOK, CallOK, Runs
<1>3. \* a run that a re-execution has read, and that is still current, is closed
      \A q \in Procs : proc[q].pc = "reexecute" /\ proc[q].run = run => control[run] # "none"
  BY <1>2 DEF IdInv, OrderInv
<1>4. ASSUME NEW p \in Procs, StartCommit(p)
      PROVE  IdInv' /\ KeepsIds
  <2>1. /\ run = 0 /\ run' = 1 /\ Fits(Entries, 0) /\ Mint(Entries, 0, 1, p, effect, claim)
        /\ seq' = 0 + Cardinality(Entries)
    BY <1>4 DEF StartCommit, MintsSameRun, MintSnapshot
  <2>2. \A a \in Attempts : runOf[a] # 0 => a <= 0
    BY <2>1 DEF IdInv
  <2>3. Entries \subseteq Nodes
    BY EntriesAssumption
  <2>4. KeepsIds /\ \A a \in Attempts : runOf'[a] # 0 => a <= 0 + Cardinality(Entries)
    BY <1>1, <2>1, <2>2, <2>3, MintKeepsIds
  <2>5. \A q \in Procs : proc'[q].pc # "reexecute"
    <3>1. \A q \in Procs : proc[q].pc # "reexecute"
      BY <1>2, <2>1 DEF IdInv, Runs
    <3>2. Runtime(p) /\ ~ ReexecuteRead(p)
      BY <1>4 DEF Runtime, StartCommit, ReexecuteRead
    <3> QED
      BY <3>1, <3>2, OthersNotReexecuting
  <2> QED
    BY <2>1, <2>4, <2>5 DEF IdInv
<1>5. ASSUME NEW p \in Procs, ReexecuteCommit(p)
      PROVE  IdInv' /\ KeepsIds
  <2>1. /\ proc[p].pc = "reexecute" /\ proc[p].run = run /\ proc[p].seq = seq
        /\ run' = run + 1
        /\ Fits(Entries, seq) /\ Mint(Entries, seq, run + 1, p, effect, claim)
        /\ seq' = seq + Cardinality(Entries)
        /\ order' = [order EXCEPT ![run] = "executed"]
    BY <1>5 DEF ReexecuteCommit, OrderStands, FromSeq, MintSnapshot, IdInv
  <2>2. Entries \subseteq Nodes
    BY EntriesAssumption
  <2>3. KeepsIds /\ \A a \in Attempts : runOf'[a] # 0 => a <= seq + Cardinality(Entries)
    BY <1>1, <2>1, <2>2, MintKeepsIds DEF IdInv
  <2>4. ASSUME NEW q \in Procs, proc'[q].pc = "reexecute"
        PROVE  /\ proc'[q].run <= run'
               /\ order'[proc'[q].run] # "none"
               /\ proc'[q].run # run'
    <3>1. Runtime(p) /\ ~ ReexecuteRead(p)
      BY <1>5 DEF Runtime, ReexecuteCommit, ReexecuteRead
    <3>2. proc'[q] = proc[q]
      BY <2>4, <3>1, OthersNotReexecuting
    <3>3. proc[q].run \in Runs /\ proc[q].run <= run /\ order[proc[q].run] # "none"
      BY <1>2, <2>4, <3>2 DEF IdInv
    <3> QED
      BY <1>1, <2>1, <3>2, <3>3 DEF Runs
  <2>5. run' # 0
    BY <1>1, <2>1
  <2> QED
    BY <2>1, <2>3, <2>4, <2>5 DEF IdInv
<1>6. ASSUME NEW p \in Procs, NEW S \in SUBSET Nodes, NEW stops \in BOOLEAN,
             SubmitCommit(p, S, stops)
      PROVE  IdInv' /\ KeepsIds
  <2>1. PICK effects, claims :
           /\ control[run] = "none" /\ Fits(S, seq) /\ Mint(S, seq, run, p, effects, claims)
           /\ seq' = seq + Cardinality(S) /\ run' = run /\ order' = order
    BY <1>6 DEF SubmitCommit, Reducible, storeVars
  <2>2. KeepsIds /\ \A a \in Attempts : runOf'[a] # 0 => a <= seq + Cardinality(S)
    BY <1>1, <2>1, MintKeepsIds DEF IdInv
  <2>3. ASSUME NEW q \in Procs, proc'[q].pc = "reexecute"
        PROVE  /\ proc'[q].run <= run'
               /\ order'[proc'[q].run] # "none"
               /\ proc'[q].run # run'
    <3>1. Runtime(p) /\ ~ ReexecuteRead(p)
      BY <1>6 DEF Runtime, SubmitCommit, ReexecuteRead
    <3>2. proc'[q] = proc[q]
      BY <2>3, <3>1, OthersNotReexecuting
    <3> QED
      BY <1>3, <2>1, <2>3, <3>2 DEF IdInv
  <2>4. run # 0
    <3>1. \E n \in Nodes : node[n].status = "dispatched"
      BY <1>6 DEF SubmitCommit, Reducible, InFlight, Dispatched
    <3> QED
      BY <3>1 DEF TypeInv, Unstarted
  <2> QED
    BY <2>1, <2>2, <2>3, <2>4 DEF IdInv
<1>7. ASSUME NEW p \in Procs, NEW n \in Nodes, RetryNode(p, n)
      PROVE  IdInv' /\ KeepsIds
  <2>1. /\ control[run] = "none" /\ Fits({n}, seq) /\ Mint({n}, seq, run, p, effect, claim)
        /\ seq' = seq + 1 /\ run' = run /\ order' = order /\ proc' = proc /\ run > 0
    BY <1>7 DEF RetryNode, storeVars
  <2>2. Cardinality({n}) = 1
    BY FS_Singleton
  <2>3. KeepsIds /\ \A a \in Attempts : runOf'[a] # 0 => a <= seq + 1
    BY <1>1, <2>1, <2>2, MintKeepsIds DEF IdInv
  <2>4. \A q \in Procs : proc[q].pc = "reexecute" => proc[q].run # run
    BY <1>3, <2>1
  <2> QED
    BY <2>1, <2>3, <2>4 DEF IdInv
<1>8. ASSUME NEW p \in Procs, ReexecuteRead(p)
      PROVE  IdInv' /\ KeepsIds
  <2>1. UNCHANGED <<run, seq, runOf, nodeOf, order>> /\ order[run] = "ordered"
    BY <1>8 DEF ReexecuteRead, storeVars, snapVars, rowVars
  <2>2. \A q \in Procs : \/ proc'[q] = proc[q]
                         \/ proc'[q].run = run /\ proc'[q].seq = seq
    BY <1>1, <1>8 DEF ReexecuteRead, ProcStates
  <2>3. \A q \in Procs : proc'[q].pc = "reexecute" =>
          /\ proc'[q].run <= run'
          /\ order'[proc'[q].run] # "none"
          /\ proc'[q].run = run' => proc'[q].seq = seq'
    BY <1>1, <2>1, <2>2 DEF IdInv
  <2> QED
    BY <2>1, <2>3 DEF IdInv, KeepsIds
<1>9. CASE OrderReexecution
  <2>1. UNCHANGED <<run, seq, runOf, nodeOf, proc>>
    BY <1>9 DEF OrderReexecution, snapVars, rowVars
  <2>2. \A r \in Runs : order[r] # "none" => order'[r] # "none"
    BY <1>1, <1>9 DEF OrderReexecution
  <2> QED
    BY <1>2, <2>1, <2>2 DEF IdInv, KeepsIds
<1>10. ASSUME NEW p \in Procs, Runtime(p), ~ StartCommit(p), ~ ReexecuteCommit(p),
              ~ ReexecuteRead(p),
              ~ \E S \in SUBSET Nodes, stops \in BOOLEAN : SubmitCommit(p, S, stops)
       PROVE  IdInv' /\ KeepsIds
  <2>1. UNCHANGED <<run, seq, runOf, nodeOf, order>>
    BY <1>10
    DEF Runtime, StartRead, StartRefused, SubmitRead, SubmitRefused, ReexecuteRaced,
        ResumeRead, ScanEffects, Examine, Fence, Reissue, Create, CreateFails, MarkStarted,
        Crash, storeVars, snapVars, rowVars
  <2> QED
    BY <1>10, <2>1, OthersNotReexecuting, IdFrame
<1>11. ASSUME \/ Host
              \/ \E cmd \in Commands : StopRun(cmd)
              \/ \E a \in Attempts, cmd \in Commands : StopAttempt(a, cmd) \/ DecideApproval(a, cmd)
              \/ \E a \in Attempts : RaiseApproval(a) \/ ExpireApproval(a)
       PROVE  IdInv' /\ KeepsIds
  <2>1. UNCHANGED <<run, seq, runOf, nodeOf, order, proc>>
    BY <1>11
    DEF Host, HostFailure, RequestCancel, PlatformCancels, ConfirmCancel, AnswerLost,
        WorkerEnds, StopRun, StopAttempt, DecideApproval, RaiseApproval, ExpireApproval,
        storeVars, snapVars, rowVars
  <2> QED
    BY <2>1, IdFrame
<1>12. CASE UNCHANGED vars
  <2>1. UNCHANGED <<run, seq, runOf, nodeOf, order, proc>>
    BY <1>12 DEF vars, storeVars, snapVars, rowVars
  <2> QED
    BY <2>1, IdFrame
<1>13. CASE Controller
  BY <1>7, <1>9, <1>11, <1>13 DEF Controller
<1>14. ASSUME NEW p \in Procs, Runtime(p)
       PROVE  IdInv' /\ KeepsIds
  BY <1>4, <1>5, <1>6, <1>8, <1>10, <1>14
<1> QED
  BY <1>11, <1>12, <1>13, <1>14 DEF Next

LEMMA IdInvariant == ~ SameInstant => (Spec => []IdInv)
<1> SUFFICES ASSUME ~ SameInstant PROVE Spec => []IdInv
  OBVIOUS
<1>1. Init => IdInv
  BY DEF Init, IdInv, Idle
<1>2. TypeInv /\ OrderInv /\ IdInv /\ [Next]_vars => IdInv'
  BY IdStep
<1> QED
  BY <1>1, <1>2, TypeInvariant, OrderInvariant, PTL DEF Spec

\* No start, acceptance, retry or re-execution mints an attempt id that some run
\* already used, if starts that race do not derive the same run identity.
THEOREM AttemptIdsUnique == ~ SameInstant => (Spec => AttemptIdsNeverReused)
<1> SUFFICES ASSUME ~ SameInstant PROVE Spec => AttemptIdsNeverReused
  OBVIOUS
<1>1. TypeInv /\ OrderInv /\ IdInv /\ [Next]_vars
        => [\A a \in Attempts : runOf[a] # 0
              => runOf'[a] = runOf[a] /\ nodeOf'[a] = nodeOf[a]]_vars
  BY IdStep DEF KeepsIds
<1> QED
  BY <1>1, TypeInvariant, OrderInvariant, IdInvariant, PTL DEF Spec, AttemptIdsNeverReused

-----------------------------------------------------------------------------
(* Credentials.  A verifier is replaced only by a process that holds the   *)
(* create right, and a right that is held means that no execution was      *)
(* asked for.                                                              *)

Minted == {a \in Attempts : runOf[a] # 0}

CallIn(c, M) ==
    /\ c.todo \subseteq M
    /\ c.pc \in {"create", "mark", "examine", "fence", "reissue"} => c.cur \in M

RightInv ==
    /\ \A a \in Attempts : /\ right[a] # "free" => exec[a] = "none"
                           /\ exec[a] # "none" => a \in Minted
    /\ \A p \in Procs : /\ CallIn(proc[p], Minted)
                        /\ proc[p].pc = "reissue" => right[proc[p].cur] = p
                        /\ proc[p].pc = "scan" => run # 0

LEMMA NextCallsIn ==
  ASSUME NEW S, S \subseteq Attempts, NEW M, S \subseteq M, NEW view
  PROVE  /\ CallIn(Idle, M) /\ CallIn(Launch(S), M) /\ CallIn(Reconciling(S, view), M)
         /\ Idle.pc = "idle"
         /\ Launch(S).pc \in {"idle", "create"}
         /\ Reconciling(S, view).pc \in {"idle", "examine"}
<1>1. CallIn(Idle, M) /\ Idle.pc = "idle"
  BY DEF CallIn, Idle
<1>2. CASE S = {}
  BY <1>1, <1>2 DEF Launch, Reconciling
<1>3. CASE S # {}
  <2>1. LeastOf(S) \in S
    BY <1>3, LeastFacts
  <2> QED
    BY <1>1, <1>3, <2>1 DEF Launch, Reconciling, Idle, CallIn
<1> QED
  BY <1>2, <1>3

\* The calls after a step of p: its own is given, the others keep theirs.
LEMMA RightCalls ==
  ASSUME TypeInv, RightInv, KeepsIds, NEW p \in Procs, NEW c,
         proc' = [proc EXCEPT ![p] = c],
         CallIn(c, Minted'),
         c.pc = "reissue" => right'[c.cur] = p,
         c.pc = "scan" => run # 0,
         run # 0 => run' # 0,
         \A a \in Attempts : right'[a] # right[a] => right[a] \in {"free", p},
         \A a \in Attempts : /\ right'[a] # "free" => exec'[a] = "none"
                             /\ exec'[a] # "none" => a \in Minted'
  PROVE  RightInv'
<1>1. proc \in [Procs -> ProcStates] /\ CallsOK
  BY DEF TypeInv, CallsOK
<1>2. Minted \subseteq Minted'
  BY DEF Minted, KeepsIds
<1>3. ASSUME NEW q \in Procs
      PROVE  /\ CallIn(proc'[q], Minted')
             /\ proc'[q].pc = "reissue" => right'[proc'[q].cur] = q
             /\ proc'[q].pc = "scan" => run' # 0
  <2>1. CASE q = p
    BY <1>1, <2>1
  <2>2. CASE q # p
    <3>1. proc'[q] = proc[q]
      BY <1>1, <2>2
    <3>2. proc[q].pc = "reissue" => proc[q].cur \in Attempts /\ right[proc[q].cur] = q
      BY <1>1 DEF RightInv, CallsOK, CallOK
    <3>3. q # "free"
      BY ProcsAssumption
    <3> QED
      BY <1>2, <2>2, <3>1, <3>2, <3>3 DEF RightInv, CallIn
  <2> QED
    BY <2>1, <2>2
<1> QED
  BY <1>3 DEF RightInv

\* A step of p that touches neither executions nor rights.
LEMMA RightQuiet ==
  ASSUME TypeInv, RightInv, KeepsIds, NEW p \in Procs, NEW c,
         proc' = [proc EXCEPT ![p] = c], UNCHANGED <<exec, right>>,
         CallIn(c, Minted'), c.pc # "reissue", c.pc = "scan" => run # 0, run # 0 => run' # 0
  PROVE  RightInv'
<1>1. Minted \subseteq Minted'
  BY DEF Minted, KeepsIds
<1>2. \A a \in Attempts : /\ right'[a] # "free" => exec'[a] = "none"
                          /\ exec'[a] # "none" => a \in Minted'
  BY <1>1 DEF RightInv
<1> QED
  BY <1>2, RightCalls

LEMMA OnwardsIn ==
  ASSUME TypeInv, RightInv, NEW p \in Procs, NEW M, Minted \subseteq M
  PROVE  /\ CallIn(Onwards(p), M) /\ CallIn(AfterFailure(p), M)
         /\ Onwards(p).pc \in {"idle", "create", "examine"}
         /\ AfterFailure(p).pc \in {"idle", "create", "examine"}
<1>1. proc[p].todo \subseteq Attempts /\ proc[p].todo \subseteq M
  BY DEF TypeInv, CallsOK, ProcStates, RightInv, CallIn
<1> QED
  BY <1>1, NextCallsIn DEF Onwards, AfterFailure

LEMMA MintedAfterMint ==
  ASSUME NEW S, NEW base, NEW r, r # 0, NEW p, NEW effects, NEW claims,
         Mint(S, base, r, p, effects, claims), Numbered(S, base) \subseteq Attempts
  PROVE  Numbered(S, base) \subseteq Minted'
BY DEF Mint, Minted

\* The verifiers that a step may replace.
KeepsVerifiers ==
    \A a \in Attempts : verifier'[a] # verifier[a] => exec[a] = "none"

\* Minting gives verifiers only to attempts nobody has seen.
LEMMA MintKeepsVerifiers ==
  ASSUME TypeInv, RightInv, NEW S, S \subseteq Nodes, NEW base \in Nat, Fits(S, base),
         NEW r, NEW p, NEW effects, NEW claims, Mint(S, base, r, p, effects, claims),
         \A a \in Attempts : runOf[a] # 0 => a <= base
  PROVE  KeepsVerifiers
<1>1. \A a \in Numbered(S, base) : a > base
  BY NumberedFacts
<1>2. \A a \in Attempts : a \in Numbered(S, base) \/ verifier'[a] = verifier[a]
  BY DEF Mint, TypeInv, TypeOK
<1>3. Attempts \subseteq Nat
  BY BoundsAssumption DEF Attempts
<1> QED
  BY <1>1, <1>2, <1>3 DEF KeepsVerifiers, RightInv, Minted

LEMMA RightStep ==
  ASSUME ~ SameInstant, TypeInv, OrderInv, IdInv, RightInv, [Next]_vars
  PROVE  RightInv' /\ KeepsVerifiers
<1> USE DEF storeVars, snapVars, rowVars, ctlVars, platVars, hostVars
<1>1. /\ TypeOK /\ CallsOK /\ KeepsIds /\ seq \in Nat /\ run \in 0 .. MaxRuns
      /\ MaxRuns \in Nat /\ proc \in [Procs -> ProcStates]
      /\ right \in [Attempts -> Procs \cup {"free"}]
      /\ verifier \in [Attempts -> Nat]
      /\ exec \in [Attempts -> {"none", "refused", "live", "completed", "failed", "cancelled"}]
  BY IdStep, BoundsAssumption DEF TypeInv, TypeOK, CallsOK
<1>2. Minted \subseteq Minted'
  BY <1>1 DEF KeepsIds, Minted
<1>3. ASSUME UNCHANGED verifier
      PROVE  KeepsVerifiers
  BY <1>3 DEF KeepsVerifiers
<1>4. ASSUME NEW p \in Procs, StartCommit(p)
      PROVE  RightInv' /\ KeepsVerifiers
  <2>1. /\ run = 0 /\ run' = 1 /\ Fits(Entries, 0) /\ Mint(Entries, 0, 1, p, effect, claim)
        /\ UNCHANGED <<exec, right>> /\ Entries \subseteq Nodes
        /\ proc' = [proc EXCEPT ![p] = Launch(Numbered(Entries, 0))]
    BY <1>4, EntriesAssumption DEF StartCommit, MintsSameRun
  <2>2. \A a \in Attempts : runOf[a] # 0 => a <= 0
    BY <2>1 DEF IdInv
  <2>3. Numbered(Entries, 0) \subseteq Attempts
    BY <2>1, NumberedFacts
  <2>4. Numbered(Entries, 0) \subseteq Minted'
    BY <2>1, <2>3, MintedAfterMint
  <2>5. RightInv'
    BY <1>1, <2>1, <2>3, <2>4, NextCallsIn, RightQuiet
  <2> QED
    BY <2>1, <2>2, <2>5, MintKeepsVerifiers
<1>5. ASSUME NEW p \in Procs, ReexecuteCommit(p)
      PROVE  RightInv' /\ KeepsVerifiers
  <2>1. /\ run' = run + 1 /\ Fits(Entries, seq)
        /\ Mint(Entries, seq, run + 1, p, effect, claim)
        /\ UNCHANGED <<exec, right>> /\ Entries \subseteq Nodes
        /\ proc' = [proc EXCEPT ![p] = Launch(Numbered(Entries, seq))]
    BY <1>5, EntriesAssumption DEF ReexecuteCommit, OrderStands, FromSeq, IdInv
  <2>2. run' # 0 /\ run + 1 # 0
    BY <1>1, <2>1
  <2>3. Numbered(Entries, seq) \subseteq Attempts
    BY <1>1, <2>1, NumberedFacts
  <2>4. Numbered(Entries, seq) \subseteq Minted'
    BY <2>1, <2>2, <2>3, MintedAfterMint
  <2>5. RightInv'
    BY <1>1, <2>1, <2>2, <2>3, <2>4, NextCallsIn, RightQuiet
  <2> QED
    BY <1>1, <2>1, <2>5, MintKeepsVerifiers DEF IdInv
<1>6. ASSUME NEW p \in Procs, NEW S \in SUBSET Nodes, NEW stops \in BOOLEAN,
             SubmitCommit(p, S, stops)
      PROVE  RightInv' /\ KeepsVerifiers
  <2>1. PICK effects, claims :
           /\ Fits(S, seq) /\ Mint(S, seq, run, p, effects, claims)
           /\ run' = run /\ UNCHANGED <<exec, right>>
           /\ proc' = [proc EXCEPT ![p] = Launch(Numbered(S, seq))]
    BY <1>6 DEF SubmitCommit
  <2>2. run # 0
    <3>1. \E n \in Nodes : node[n].status = "dispatched"
      BY <1>6 DEF SubmitCommit, Reducible, InFlight, Dispatched
    <3> QED
      BY <3>1 DEF TypeInv, Unstarted
  <2>3. Numbered(S, seq) \subseteq Attempts
    BY <1>1, <2>1, NumberedFacts
  <2>4. Numbered(S, seq) \subseteq Minted'
    BY <2>1, <2>2, <2>3, MintedAfterMint
  <2>5. RightInv'
    BY <1>1, <2>1, <2>2, <2>3, <2>4, NextCallsIn, RightQuiet
  <2> QED
    BY <1>1, <2>1, <2>5, MintKeepsVerifiers DEF IdInv
<1>7. ASSUME NEW p \in Procs, NEW n \in Nodes, RetryNode(p, n)
      PROVE  RightInv' /\ KeepsVerifiers
  <2>1. /\ Fits({n}, seq) /\ Mint({n}, seq, run, p, effect, claim)
        /\ UNCHANGED <<exec, right, proc, run>>
    BY <1>7 DEF RetryNode
  <2>2. RightInv'
    BY <1>2, <2>1 DEF RightInv, CallIn
  <2> QED
    BY <1>1, <2>1, <2>2, MintKeepsVerifiers DEF IdInv
<1>8. ASSUME NEW p \in Procs, NEW made \in {"live", "refused"}, Create(p, made)
      PROVE  RightInv' /\ KeepsVerifiers
  <2> DEFINE a == proc[p].cur
             c == [proc[p] EXCEPT !.pc = "mark"]
  <2>1. /\ proc[p].pc = "create" /\ proc' = [proc EXCEPT ![p] = c]
        /\ right[a] \in {"free", p} /\ run' = run /\ verifier' = verifier
        /\ exec' = [exec EXCEPT ![a] = made] /\ right' = [right EXCEPT ![a] = "free"]
    BY <1>1, <1>8 DEF Create, Claimable
  <2>2. a \in Minted /\ a \in Attempts /\ proc[p].todo \subseteq Minted
    BY <2>1 DEF RightInv, CallIn, Minted
  <2>3. CallIn(c, Minted') /\ c.pc = "mark"
    BY <1>1, <1>2, <2>2 DEF CallIn, ProcStates
  <2>4. \A b \in Attempts : /\ right'[b] # "free" => exec'[b] = "none"
                            /\ exec'[b] # "none" => b \in Minted'
    BY <1>1, <1>2, <2>1, <2>2 DEF RightInv
  <2>5. \A b \in Attempts : right'[b] # right[b] => right[b] \in {"free", p}
    BY <1>1, <2>1
  <2> HIDE DEF c
  <2> QED
    BY <1>1, <1>3, <2>1, <2>3, <2>4, <2>5, RightCalls
<1>9. ASSUME NEW p \in Procs, CreateFails(p)
      PROVE  RightInv' /\ KeepsVerifiers
  <2> DEFINE a == proc[p].cur
  <2>1. /\ proc' = [proc EXCEPT ![p] = AfterFailure(p)]
        /\ right' = [right EXCEPT ![a] = IF @ = p THEN "free" ELSE @]
        /\ UNCHANGED <<exec, run, verifier>>
    BY <1>9 DEF CreateFails
  <2>2. ASSUME NEW b \in Attempts
        PROVE  right'[b] = right[b] \/ (right'[b] = "free" /\ right[b] = p)
    <3>1. right \in [Attempts -> {"free"} \cup Procs]
      BY <1>1
    <3>2. CASE b = a
      <4>1. right'[b] = IF right[b] = p THEN "free" ELSE right[b]
        BY <2>1, <3>1, <3>2
      <4> QED
        BY <4>1
    <3>3. CASE b # a
      BY <2>1, <3>1, <3>3
    <3> QED
      BY <3>2, <3>3
  <2>3. \A b \in Attempts : /\ right'[b] # "free" => exec'[b] = "none"
                            /\ exec'[b] # "none" => b \in Minted'
    BY <1>2, <2>1, <2>2 DEF RightInv
  <2> QED
    BY <1>1, <1>2, <1>3, <2>1, <2>2, <2>3, OnwardsIn, RightCalls
<1>10. ASSUME NEW p \in Procs, Fence(p)
       PROVE  RightInv' /\ KeepsVerifiers
  <2> DEFINE a == proc[p].cur
             c == [proc[p] EXCEPT !.pc = "reissue"]
  <2>1. proc[p].pc = "fence" /\ UNCHANGED <<exec, run, verifier>>
    BY <1>10 DEF Fence
  <2>2. CASE Claimable(p, a)
    <3>1. /\ exec[a] = "none" /\ right[a] \in {"free", p}
          /\ right' = [right EXCEPT ![a] = p] /\ proc' = [proc EXCEPT ![p] = c]
      BY <1>1, <1>10, <2>2 DEF Fence, Claimable
    <3>2. a \in Minted /\ a \in Attempts /\ proc[p].todo \subseteq Minted
      BY <2>1 DEF RightInv, CallIn, Minted
    <3>3. CallIn(c, Minted') /\ c.pc = "reissue" /\ c.cur = a
      BY <1>1, <1>2, <3>2 DEF CallIn, ProcStates
    <3>4. \A b \in Attempts : /\ right'[b] # "free" => exec'[b] = "none"
                              /\ exec'[b] # "none" => b \in Minted'
      BY <1>1, <1>2, <2>1, <3>1 DEF RightInv
    <3>5. /\ right'[a] = p
          /\ \A b \in Attempts : right'[b] # right[b] => right[b] \in {"free", p}
      BY <1>1, <3>1, <3>2
    <3> HIDE DEF c
    <3> QED
      BY <1>1, <1>3, <2>1, <3>1, <3>3, <3>4, <3>5, RightCalls
  <2>3. CASE ~ Claimable(p, a)
    <3>1. right' = right /\ proc' = [proc EXCEPT ![p] = Onwards(p)]
      BY <1>10, <2>3 DEF Fence
    <3> QED
      BY <1>1, <1>2, <1>3, <2>1, <3>1, OnwardsIn, RightQuiet
  <2> QED
    BY <2>2, <2>3
<1>11. ASSUME NEW p \in Procs, Reissue(p)
       PROVE  RightInv' /\ KeepsVerifiers
  <2> DEFINE a == proc[p].cur
  <2>1. /\ proc[p].pc = "reissue" /\ UNCHANGED <<exec, run>>
        /\ right[a] = p
    BY <1>11 DEF Reissue, RightInv
  <2>2. a \in Minted /\ a \in Attempts /\ proc[p].todo \subseteq Minted
    BY <2>1 DEF RightInv, CallIn, Minted
  <2>3. exec[a] = "none"
    BY <2>1, <2>2, ProcsAssumption DEF RightInv
  <2>4. KeepsVerifiers
    BY <1>1, <1>11, <2>3 DEF Reissue, KeepsVerifiers
  <2>5. right' = right \/ right' = [right EXCEPT ![a] = "free"]
    BY <1>11 DEF Reissue
  <2>6. ASSUME NEW b \in Attempts
        PROVE  right'[b] = right[b] \/ (right'[b] = "free" /\ right[b] = p)
    <3>1. right \in [Attempts -> {"free"} \cup Procs]
      BY <1>1
    <3>2. CASE b = a
      <4>1. CASE right' = right
        BY <4>1
      <4>2. CASE right' = [right EXCEPT ![a] = "free"]
        <5>1. right'[b] = "free"
          BY <3>1, <3>2, <4>2
        <5> QED
          BY <2>1, <3>2, <5>1
      <4> QED
        BY <2>5, <4>1, <4>2
    <3>3. CASE b # a
      BY <2>5, <3>1, <3>3
    <3> QED
      BY <3>2, <3>3
  <2>7. \A b \in Attempts : /\ right'[b] # "free" => exec'[b] = "none"
                            /\ exec'[b] # "none" => b \in Minted'
    BY <1>2, <2>1, <2>6 DEF RightInv
  <2>8. PICK c : /\ proc' = [proc EXCEPT ![p] = c]
                 /\ c = [proc[p] EXCEPT !.pc = "create"] \/ c = Onwards(p)
    BY <1>1, <1>11 DEF Reissue
  <2>9. CallIn(c, Minted') /\ c.pc # "reissue" /\ c.pc # "scan"
    <3>1. CASE c = [proc[p] EXCEPT !.pc = "create"]
      BY <1>1, <1>2, <2>2, <3>1 DEF CallIn, ProcStates
    <3>2. CASE c = Onwards(p)
      BY <1>2, <3>2, OnwardsIn
    <3> QED
      BY <2>8, <3>1, <3>2
  <2> QED
    BY <1>1, <2>1, <2>4, <2>6, <2>7, <2>8, <2>9, RightCalls
<1>12. ASSUME NEW p \in Procs, Crash(p)
       PROVE  RightInv' /\ KeepsVerifiers
  <2>1. /\ proc' = [proc EXCEPT ![p] = Idle] /\ UNCHANGED <<exec, run, verifier>>
        /\ \A b \in Attempts : right'[b] = IF right[b] = p THEN "free" ELSE right[b]
    BY <1>12 DEF Crash
  <2>2. \A b \in Attempts : /\ right'[b] # "free" => exec'[b] = "none"
                            /\ exec'[b] # "none" => b \in Minted'
    BY <1>2, <2>1 DEF RightInv
  <2>3. CallIn(Idle, Minted') /\ Idle.pc = "idle"
    BY DEF CallIn, Idle
  <2> QED
    BY <1>1, <1>3, <2>1, <2>2, <2>3, RightCalls
<1>13. ASSUME NEW p \in Procs, ScanEffects(p)
       PROVE  RightInv' /\ KeepsVerifiers
  <2> DEFINE S == {a \in Attempts : proc[p].view[a] # 0 /\ runOf[a] = run /\ effect[a] = "pending"}
             c == Reconciling(S, proc[p].view)
  <2>1. proc' = [proc EXCEPT ![p] = c] /\ UNCHANGED <<exec, right, run, verifier>> /\ run # 0
    BY <1>13 DEF ScanEffects, RightInv
  <2>2. S \subseteq Attempts /\ S \subseteq Minted'
    BY <1>2, <2>1 DEF Minted
  <2> HIDE DEF S
  <2>3. CallIn(c, Minted') /\ c.pc \in {"idle", "examine"}
    BY <2>2, NextCallsIn
  <2> HIDE DEF c
  <2> QED
    BY <1>1, <1>3, <2>1, <2>3, RightQuiet
<1>14. ASSUME NEW p \in Procs, MarkStarted(p)
       PROVE  RightInv' /\ KeepsVerifiers
  <2>1. /\ proc' = [proc EXCEPT ![p] = Onwards(p)] \/ proc' = [proc EXCEPT ![p] = AfterFailure(p)]
        /\ UNCHANGED <<exec, right, run, verifier>>
    BY <1>14 DEF MarkStarted
  <2> QED
    BY <1>1, <1>2, <1>3, <2>1, OnwardsIn, RightQuiet
<1>15. ASSUME NEW p \in Procs, NEW answer, Examine(p, answer)
       PROVE  RightInv' /\ KeepsVerifiers
  <2>1. PICK c : /\ proc' = [proc EXCEPT ![p] = c]
                 /\ \/ \E pc \in {"mark", "fence", "create"} : c = [proc[p] EXCEPT !.pc = pc]
                    \/ c = Onwards(p)
    BY <1>1, <1>15 DEF Examine
  <2>2. proc[p].pc = "examine" /\ UNCHANGED <<exec, right, run, verifier>>
    BY <1>15 DEF Examine
  <2>3. proc[p].cur \in Minted /\ proc[p].todo \subseteq Minted
    BY <2>2 DEF RightInv, CallIn
  <2>4. CallIn(c, Minted') /\ c.pc # "reissue" /\ c.pc # "scan"
    <3>1. CASE c = Onwards(p)
      BY <1>2, <3>1, OnwardsIn
    <3>2. CASE \E pc \in {"mark", "fence", "create"} : c = [proc[p] EXCEPT !.pc = pc]
      BY <1>1, <1>2, <2>3, <3>2 DEF CallIn, ProcStates
    <3> QED
      BY <2>1, <3>1, <3>2
  <2> QED
    BY <1>1, <1>3, <2>1, <2>2, <2>4, RightQuiet
<1>16. ASSUME NEW p \in Procs, StartRefused(p) \/ SubmitRefused(p) \/ ReexecuteRaced(p)
       PROVE  RightInv' /\ KeepsVerifiers
  <2>1. proc' = [proc EXCEPT ![p] = Idle] /\ UNCHANGED <<exec, right, run, verifier>>
    BY <1>16 DEF StartRefused, SubmitRefused, ReexecuteRaced
  <2>2. CallIn(Idle, Minted') /\ Idle.pc = "idle"
    BY DEF CallIn, Idle
  <2> QED
    BY <1>1, <1>3, <2>1, <2>2, RightQuiet
<1>17. ASSUME NEW p \in Procs,
              \/ StartRead(p) \/ ReexecuteRead(p) \/ ResumeRead(p)
              \/ \E a \in Attempts, channel \in {"credential", "host"} :
                    SubmitRead(p, a, channel)
       PROVE  RightInv' /\ KeepsVerifiers
  <2>1. PICK c : /\ proc' = [proc EXCEPT ![p] = c] /\ c.todo = proc[p].todo
                 /\ c.pc \in {"start", "reexecute", "scan", "settle"}
                 /\ c.pc = "scan" => run # 0
    <3>1. proc' = [proc EXCEPT ![p] = proc'[p]]
      BY <1>1, <1>17 DEF StartRead, ReexecuteRead, ResumeRead, SubmitRead
    <3>2. /\ proc'[p].todo = proc[p].todo
          /\ proc'[p].pc \in {"start", "reexecute", "scan", "settle"}
      BY <1>1, <1>17 DEF StartRead, ReexecuteRead, ResumeRead, SubmitRead, ProcStates
    <3>3. run # 0 \/ proc'[p].pc = "start"
      BY <1>1, <1>17 DEF StartRead, ReexecuteRead, ResumeRead, SubmitRead, ProcStates
    <3> QED
      BY <3>1, <3>2, <3>3
  <2>2. UNCHANGED <<exec, right, run, verifier>>
    BY <1>17 DEF StartRead, ReexecuteRead, ResumeRead, SubmitRead
  <2>3. CallIn(c, Minted')
    BY <1>2, <2>1 DEF RightInv, CallIn
  <2> QED
    BY <1>1, <1>3, <2>1, <2>2, <2>3, RightQuiet
<1>18. ASSUME NEW a \in Attempts,
              PlatformCancels(a) \/ \E how \in {"completed", "failed"} : WorkerEnds(a, how)
       PROVE  RightInv' /\ KeepsVerifiers
  <2>1. /\ UNCHANGED <<right, run, runOf, verifier, proc>>
        /\ \A b \in Attempts : (exec'[b] = "none") <=> (exec[b] = "none")
    BY <1>1, <1>18 DEF PlatformCancels, WorkerEnds
  <2> QED
    BY <1>3, <2>1 DEF RightInv, Minted, CallIn
<1>19. ASSUME UNCHANGED <<exec, right, run, runOf, verifier, proc>>
       PROVE  RightInv' /\ KeepsVerifiers
  BY <1>3, <1>19 DEF RightInv, Minted, CallIn
<1>20. CASE UNCHANGED vars
  BY <1>19, <1>20 DEF vars
<1>21. CASE Host
  <2>1. CASE \E a \in Attempts :
                HostFailure(a) \/ RequestCancel(a) \/ ConfirmCancel(a) \/ AnswerLost(a)
    BY <1>19, <2>1 DEF HostFailure, RequestCancel, ConfirmCancel, AnswerLost
  <2> QED
    BY <1>18, <1>21, <2>1 DEF Host
<1>22. CASE Controller
  <2>1. CASE \/ \E cmd \in Commands : StopRun(cmd)
             \/ \E a \in Attempts, cmd \in Commands : StopAttempt(a, cmd) \/ DecideApproval(a, cmd)
             \/ OrderReexecution
             \/ \E a \in Attempts : RaiseApproval(a) \/ ExpireApproval(a)
    BY <1>19, <2>1
    DEF StopRun, StopAttempt, DecideApproval, OrderReexecution, RaiseApproval, ExpireApproval
  <2> QED
    BY <1>7, <1>22, <2>1 DEF Controller
<1>23. ASSUME NEW p \in Procs, Runtime(p)
       PROVE  RightInv' /\ KeepsVerifiers
  BY <1>4, <1>5, <1>6, <1>8, <1>9, <1>10, <1>11, <1>12, <1>13, <1>14, <1>15, <1>16, <1>17,
     <1>23 DEF Runtime
<1> QED
  BY <1>20, <1>21, <1>22, <1>23 DEF Next

LEMMA RightInvariant == ~ SameInstant => (Spec => []RightInv)
<1> SUFFICES ASSUME ~ SameInstant PROVE Spec => []RightInv
  OBVIOUS
<1>1. Init => RightInv
  BY DEF Init, RightInv, CallIn, Idle
<1>2. TypeInv /\ OrderInv /\ IdInv /\ RightInv /\ [Next]_vars => RightInv'
  BY RightStep
<1> QED
  BY <1>1, <1>2, TypeInvariant, OrderInvariant, IdInvariant, PTL DEF Spec

\* No start, retry, acceptance or re-issue replaces the verifier of an attempt
\* whose execution was already asked for, however many processes recover at once.
THEOREM WorkersNeverDisowned == ~ SameInstant => (Spec => NeverRebound)
<1> SUFFICES ASSUME ~ SameInstant PROVE Spec => NeverRebound
  OBVIOUS
<1>1. TypeInv /\ OrderInv /\ IdInv /\ RightInv /\ [Next]_vars
        => [\A a \in Attempts : verifier'[a] # verifier[a] => exec[a] = "none"]_vars
  BY RightStep DEF KeepsVerifiers
<1> QED
  BY <1>1, TypeInvariant, OrderInvariant, IdInvariant, RightInvariant, PTL
  DEF Spec, NeverRebound
=============================================================================
