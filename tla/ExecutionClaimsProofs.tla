------------------------- MODULE ExecutionClaimsProofs -------------------------
(***************************************************************************)
(* The create-once fence for every set of processes, every set of effects  *)
(* and every bound on the generation, provided the platform's query never  *)
(* answers absent while a create may still be under way.                   *)
(***************************************************************************)
EXTENDS ExecutionClaims, TLAPS

\* Writing one well-typed entry keeps each table well typed.
LEMMA RowWrite ==
  ASSUME TypeOK, NEW e \in Effects, NEW r \in RowType, row' = [row EXCEPT ![e] = r]
  PROVE  row' \in [Effects -> RowType]
BY DEF TypeOK

LEMMA JobWrite ==
  ASSUME TypeOK, NEW o \in Owners, NEW j \in JobType, job' = [job EXCEPT ![o] = j]
  PROVE  job' \in [Owners -> JobType]
BY DEF TypeOK

LEMMA ClaimsWrite ==
  ASSUME TypeOK, NEW o \in Owners, NEW e \in Effects, NEW g \in 0..MaxGeneration,
         claims' = [claims EXCEPT ![o][e] = g]
  PROVE  claims' \in [Owners -> [Effects -> 0..MaxGeneration]]
BY DEF TypeOK

\* The jobs a process can be given are jobs.
LEMMA JobTypes ==
  ASSUME TypeOK, NEW o \in Owners, NEW e \in Effects
  PROVE  /\ \A s \in Steps, r \in Ref : Job(s, e, r) \in JobType
         /\ NoToken \in Ref /\ Idle \in JobType /\ Token \subseteq Ref
         /\ job[o].ref \in Ref /\ 0 \in 0..MaxGeneration
<1>1. \A s \in Steps, r \in Ref : Job(s, e, r) \in JobType
  BY DEF Job, JobType
<1>2. NoToken \in Ref /\ Idle \in JobType /\ Token \subseteq Ref
  BY MaxGenerationAssumption DEF NoToken, Ref, Idle, JobType, Steps, Token
<1>3. job[o].ref \in Ref /\ 0 \in 0..MaxGeneration
  BY MaxGenerationAssumption DEF TypeOK, JobType
<1> QED
  BY <1>1, <1>2, <1>3

\* The row a claim leaves behind is a row, and so is the generation it caches
\* (GraphStore.claimExecution).
LEMMA ClaimTypes ==
  ASSUME TypeOK, NEW o \in Owners, NEW e \in Effects,
         ClaimedGeneration(o, e) <= MaxGeneration
  PROVE  /\ RowAfterClaim(o, e) \in RowType
         /\ ClaimedGeneration(o, e) \in 0..MaxGeneration
<1>1. row[e] \in RowType
  BY DEF TypeOK, RowType
<1>2. CASE row[e].state = "none"
  <2>1. RowAfterClaim(o, e) =
          [state |-> "pending", owner |-> o, gen |-> 1, released |-> FALSE,
           lease |-> TRUE, execution |-> NoToken, refusal |-> "none"]
    BY <1>2 DEF RowAfterClaim, NoRow
  <2> QED
    BY <1>1, <1>2, <2>1, MaxGenerationAssumption
    DEF ClaimedGeneration, RowType, RowStates, Refusals, Ref, NoToken
<1>3. CASE row[e].state = "pending" /\ row[e].owner # o /\ Takeable(e)
  <2>1. RowAfterClaim(o, e) = [row[e] EXCEPT !.owner = o, !.gen = @ + 1,
                                 !.released = FALSE, !.lease = TRUE]
    BY <1>3 DEF RowAfterClaim
  <2>2. ClaimedGeneration(o, e) = row[e].gen + 1
    BY <1>3 DEF ClaimedGeneration
  <2>3. row[e].gen + 1 \in 0..MaxGeneration
    BY <1>1, <2>2, MaxGenerationAssumption DEF RowType
  <2>4. RowAfterClaim(o, e) \in RowType
    BY <1>1, <2>1, <2>3 DEF RowType
  <2> QED
    BY <2>2, <2>3, <2>4
<1>4. CASE ~(row[e].state = "none") /\
           ~(row[e].state = "pending" /\ row[e].owner # o /\ Takeable(e))
  <2>1. RowAfterClaim(o, e) = row[e]
    BY <1>4 DEF RowAfterClaim
  <2>2. ClaimedGeneration(o, e) \in {row[e].gen, 0}
    BY <1>4 DEF ClaimedGeneration
  <2> QED
    BY <1>1, <2>1, <2>2, MaxGenerationAssumption DEF RowType
<1> QED
  BY <1>2, <1>3, <1>4

\* The row a confirmation leaves behind is a row (GraphStore.confirmExecution).
LEMMA ConfirmTypes ==
  ASSUME TypeOK, NEW o \in Owners, NEW e \in Effects, NEW x \in Ref
  PROVE  RowAfterConfirm(o, e, x) \in RowType
<1>1. row[e] \in RowType
  BY DEF TypeOK, RowType
<1>2. \/ RowAfterConfirm(o, e, x) = row[e]
      \/ RowAfterConfirm(o, e, x) = [row[e] EXCEPT !.state = "created", !.execution = x]
      \/ RowAfterConfirm(o, e, x) = [row[e] EXCEPT !.refusal = "conflicting-execution"]
      \/ RowAfterConfirm(o, e, x) = [row[e] EXCEPT !.refusal = "stale-confirmation"]
  BY DEF RowAfterConfirm
<1> QED
  BY <1>1, <1>2 DEF RowType, RowStates, Refusals

\* A released row is a row (GraphStore.releaseExecution).
LEMMA ReleaseTypes ==
  ASSUME TypeOK, NEW e \in Effects, row[e].gen < MaxGeneration
  PROVE  Released(row[e]) \in RowType
<1>1. row[e] \in RowType
  BY DEF TypeOK
<1>2. row[e].gen + 1 \in 0..MaxGeneration
  BY <1>1, MaxGenerationAssumption DEF RowType
<1>3. NoToken \in Ref
  BY MaxGenerationAssumption DEF NoToken, Ref
<1> QED
  BY <1>1, <1>2, <1>3 DEF Released, RowType, RowStates

\* Every state of every behaviour is well typed: no transaction, callback,
\* platform step or crash writes a row, a cached claim or a message of another
\* shape.
THEOREM TypeCorrect == Spec => []TypeOK
<1> USE MaxGenerationAssumption
<1>0. /\ NoToken \in Ref
      /\ Idle \in JobType
      /\ Token \subseteq Ref
  BY DEF NoToken, Ref, Idle, JobType, Steps, Token
<1>1. Init => TypeOK
  BY <1>0 DEF Init, TypeOK, NoRow, RowType, RowStates, Refusals
<1>2. TypeOK /\ [Next]_vars => TypeOK'
  <2> SUFFICES ASSUME TypeOK, [Next]_vars PROVE TypeOK'
    OBVIOUS
  <2>1. ASSUME NEW o \in Owners, NEW e \in Effects, NEW h \in JobType,
               ClaimExecution(o, e, h)
        PROVE  TypeOK'
    <3>1. /\ RowAfterClaim(o, e) \in RowType
          /\ ClaimedGeneration(o, e) \in 0..MaxGeneration
      BY <2>1, ClaimTypes DEF ClaimExecution
    <3>2. row' \in [Effects -> RowType]
      BY <2>1, <3>1, JobTypes, JobWrite, ClaimsWrite, RowWrite DEF ClaimExecution
    <3>3. /\ claims' \in [Owners -> [Effects -> 0..MaxGeneration]]
          /\ job' \in [Owners -> JobType]
      <4>1. CASE ClaimedGeneration(o, e) = 0
        BY <2>1, <4>1, JobTypes, JobWrite, ClaimsWrite, RowWrite DEF ClaimExecution, TypeOK
      <4>2. CASE ClaimedGeneration(o, e) # 0
        <5>1. Job("claimed", e, NoToken) \in JobType
          BY JobTypes DEF Steps
        <5> QED
          BY <2>1, <3>1, <4>2, <5>1, JobTypes, JobWrite, ClaimsWrite, RowWrite DEF ClaimExecution
      <4> QED
        BY <4>1, <4>2
    <3> QED
      BY <2>1, <3>2, <3>3 DEF ClaimExecution, TypeOK
  <2>2. ASSUME NEW o \in Owners, NEW e \in Effects, Claim(o, e) PROVE TypeOK'
    <3>1. RefOf(e) \in Ref
      BY DEF RefOf, Ref, TypeOK, RowType
    <3>2. Job("held", e, RefOf(e)) \in JobType /\ Idle \in JobType
      BY <3>1, JobTypes, JobWrite, ClaimsWrite, RowWrite DEF Steps
    <3> QED
      BY <2>1, <2>2, <3>2 DEF Claim
  <2>3. ASSUME NEW o \in Owners, NEW e \in Effects, Reclaim(o, e) PROVE TypeOK'
    BY <1>0, <2>1, <2>3 DEF Reclaim
  <2>4. ASSUME NEW o \in Owners, NEW e \in Effects, ProofOfAbsence(o, e) PROVE TypeOK'
    <3>1. job' \in [Owners -> JobType]
      BY <2>4, JobTypes, JobWrite, ClaimsWrite, RowWrite DEF ProofOfAbsence, Finish, Steps
    <3> QED
      BY <2>4, <3>1 DEF ProofOfAbsence, TypeOK
  <2>5. ASSUME NEW o \in Owners, NEW e \in Effects, ReleaseStale(o, e) PROVE TypeOK'
    <3>1. /\ row' \in [Effects -> RowType]
          /\ claims' \in [Owners -> [Effects -> 0..MaxGeneration]]
          /\ job' \in [Owners -> JobType]
      <4>1. CASE Releasable(e, job[o].ref.owner, job[o].ref.gen)
        <5>1. Released(row[e]) \in RowType
          BY <2>5, <4>1, ReleaseTypes DEF ReleaseStale
        <5>2. Job("reclaim", e, NoToken) \in JobType
          BY JobTypes DEF Steps
        <5> QED
          BY <2>5, <4>1, <5>1, <5>2, JobTypes, JobWrite, ClaimsWrite, RowWrite DEF ReleaseStale
      <4>2. CASE ~Releasable(e, job[o].ref.owner, job[o].ref.gen)
        BY <2>5, <4>2, JobTypes, JobWrite, ClaimsWrite, RowWrite DEF ReleaseStale, Finish, TypeOK
      <4> QED
        BY <4>1, <4>2
    <3> QED
      BY <2>5, <3>1 DEF ReleaseStale, TypeOK
  <2>6. ASSUME NEW o \in Owners, NEW e \in Effects, MarkCreating(o, e) PROVE TypeOK'
    <3>1. CASE row[e].state = "pending" /\ IsClaimOf(e, o, claims[o][e])
      <4>0. MarkedRow(row[e]) \in RowType
        <5>1. row[e] \in RowType
          BY DEF TypeOK
        <5> QED
          BY <5>1 DEF MarkedRow, RowType, RowStates
      <4>1. row' \in [Effects -> RowType]
        BY <2>6, <3>1, <4>0, RowWrite DEF MarkCreating
      <4>2. Job("marked", e, NoToken) \in JobType
        BY JobTypes DEF Steps
      <4>3. job' \in [Owners -> JobType]
        BY <2>6, <3>1, <4>2, JobTypes, JobWrite, ClaimsWrite, RowWrite DEF MarkCreating
      <4> QED
        BY <2>6, <3>1, <4>1, <4>3 DEF MarkCreating, TypeOK
    <3>2. CASE ~(row[e].state = "pending" /\ IsClaimOf(e, o, claims[o][e]))
      <4>1. job' \in [Owners -> JobType]
        BY <2>6, <3>2, JobTypes, JobWrite, ClaimsWrite, RowWrite DEF MarkCreating, Finish
      <4>2. claims' \in [Owners -> [Effects -> 0..MaxGeneration]]
        BY <2>6, <3>2, JobTypes, JobWrite, ClaimsWrite, RowWrite DEF MarkCreating
      <4> QED
        BY <2>6, <3>2, <4>1, <4>2 DEF MarkCreating, TypeOK
    <3> QED
      BY <3>1, <3>2
  <2>7. ASSUME NEW o \in Owners, NEW e \in Effects, Deliver(o, e) PROVE TypeOK'
    <3>1. [owner |-> o, gen |-> claims[o][e]] \in Token
      BY DEF TypeOK, Token
    <3>2. job' \in [Owners -> JobType]
      BY <2>7, JobTypes, JobWrite, ClaimsWrite, RowWrite DEF Deliver, Finish, Steps
    <3>3. wire' \in [Effects -> SUBSET Token]
      BY <2>7, <3>1 DEF Deliver, TypeOK
    <3> QED
      BY <2>7, <3>2, <3>3 DEF Deliver, TypeOK
  <2>8. ASSUME NEW o \in Owners, NEW e \in Effects, ReleaseAfterThrow(o, e) PROVE TypeOK'
    <3>1. job' \in [Owners -> JobType]
      BY <2>8, JobTypes, JobWrite, ClaimsWrite, RowWrite DEF ReleaseAfterThrow, Finish
    <3>2. /\ row' \in [Effects -> RowType]
          /\ claims' \in [Owners -> [Effects -> 0..MaxGeneration]]
      <4>1. CASE Releasable(e, o, claims[o][e])
        <5>1. Released(row[e]) \in RowType
          BY <2>8, <4>1, ReleaseTypes DEF ReleaseAfterThrow
        <5> QED
          BY <2>8, <4>1, <5>1, JobTypes, JobWrite, ClaimsWrite, RowWrite DEF ReleaseAfterThrow
      <4>2. CASE ~Releasable(e, o, claims[o][e])
        BY <2>8, <4>2 DEF ReleaseAfterThrow, TypeOK
      <4> QED
        BY <4>1, <4>2
    <3> QED
      BY <2>8, <3>1, <3>2 DEF ReleaseAfterThrow, TypeOK
  <2>9. ASSUME NEW o \in Owners, NEW e \in Effects, NEW x \in Token,
               ConfirmStarted(o, e, x)
        PROVE  TypeOK'
    <3>1. RowAfterConfirm(o, e, x) \in RowType
      BY <1>0, ConfirmTypes
    <3> QED
      BY <2>9, <3>1 DEF ConfirmStarted, TypeOK
  <2>10. ASSUME NEW o \in Owners, NEW e \in Effects, NEW x \in Token,
                ReportDeliveryFailure(o, e, x)
         PROVE  TypeOK'
    <3>1. UnprovenRow(row[e]) \in RowType
      <4>1. row[e] \in RowType
        BY DEF TypeOK
      <4> QED
        BY <4>1 DEF UnprovenRow, RowType, Refusals
    <3>2. row' \in [Effects -> RowType]
      BY <2>10, <3>1, JobTypes, JobWrite, ClaimsWrite, RowWrite DEF ReportDeliveryFailure
    <3> QED
      BY <2>10, <3>2 DEF ReportDeliveryFailure, TypeOK
  <2>11. ASSUME NEW o \in Owners, NEW e \in Effects, LookupLocal(o, e) PROVE TypeOK'
    <3>1. job' \in [Owners -> JobType]
      BY <2>11, JobTypes, JobWrite, ClaimsWrite, RowWrite DEF LookupLocal, Steps
    <3> QED
      BY <2>11, <3>1 DEF LookupLocal, TypeOK
  <2>12. ASSUME NEW o \in Owners, NEW e \in Effects, LookupPlatform(o, e) PROVE TypeOK'
    <3>1. \A x \in execs[e] : Job("bind", e, x) \in JobType
      BY JobTypes DEF TypeOK, Steps
    <3>2. job' \in [Owners -> JobType]
      BY <2>12, <3>1, JobTypes, JobWrite, ClaimsWrite, RowWrite DEF LookupPlatform, Finish
    <3> QED
      BY <2>12, <3>2 DEF LookupPlatform, TypeOK
  <2>13. ASSUME NEW o \in Owners, NEW e \in Effects, BindPlatformExecution(o, e)
         PROVE  TypeOK'
    <3>1. RowAfterConfirm(o, e, job[o].ref) \in RowType
      BY ConfirmTypes, JobTypes, JobWrite, ClaimsWrite, RowWrite
    <3>2. row' \in [Effects -> RowType] /\ job' \in [Owners -> JobType]
      BY <2>13, <3>1, JobTypes, JobWrite, ClaimsWrite, RowWrite DEF BindPlatformExecution, Finish
    <3> QED
      BY <2>13, <3>2 DEF BindPlatformExecution, TypeOK
  <2>14. ASSUME NEW e \in Effects, NEW t \in Token, PlatformResolves(e, t) PROVE TypeOK'
    <3>1. \A ok \in BOOLEAN : [to |-> t.owner, effect |-> e, execution |-> t, ok |-> ok]
             \in [to : Owners, effect : Effects, execution : Token, ok : BOOLEAN]
      BY DEF Token
    <3> QED
      BY <2>14, <3>1 DEF PlatformResolves, TypeOK
  <2>15. ASSUME NEW e \in Effects, LeaseExpires(e) PROVE TypeOK'
    BY <2>15 DEF LeaseExpires, TypeOK, RowType
  <2>16. ASSUME NEW o \in Owners, Crash(o) PROVE TypeOK'
    BY <1>0, <2>16 DEF Crash, TypeOK
  <2>17. CASE UNCHANGED vars
    BY <2>17 DEF vars, TypeOK
  <2> QED
    BY <2>2, <2>3, <2>4, <2>5, <2>6, <2>7, <2>8, <2>9, <2>10, <2>11, <2>12,
       <2>13, <2>14, <2>15, <2>16, <2>17 DEF Next
<1> QED
  BY <1>1, <1>2, PTL DEF Spec

-------------------------------------------------------------------------------
(* The fence.  Most steps leave every claim alone (QuietStep) or put one row   *)
(* back to pending under a newer generation (RependingStep); marking, handing  *)
(* over, resolving and confirming are the four that move a claim forward.      *)

QuietSteps == {"idle", "claimed", "reclaim", "looked"}

\* Owner p keeps its job and its cached claims, or holds no obligation.
KeepsJob(p) ==
  \/ job'[p].step \in QuietSteps
  \/ job'[p] = job[p] /\ claims'[p] = claims[p]

\* The row of f keeps its claim: state, owner, generation and execution.
KeepsClaim(f) ==
  /\ row'[f].state = row[f].state
  /\ row'[f].owner = row[f].owner
  /\ row'[f].gen = row[f].gen
  /\ row'[f].execution = row[f].execution
  /\ row[f].state = "none" => row'[f] = row[f]
  /\ row'[f].refusal # "conflicting-execution"

\* A process keeps its side of MarkedHoldsTheClaim while its job, its cached
\* claim, the claim of the row and what is out for the effect stay the same.
LEMMA MarkedFrame ==
  ASSUME MarkedHoldsTheClaim, NEW p \in Owners, NEW f \in Effects,
         job'[p].effect = f, job'[p] = job[p], claims'[p] = claims[p],
         row'[f].state = row[f].state, row'[f].owner = row[f].owner,
         row'[f].gen = row[f].gen, wire'[f] = wire[f], execs'[f] = execs[f]
  PROVE  MarkedOK(p, f)'
<1>1. MarkedOK(p, f)
  BY DEF MarkedHoldsTheClaim
<1> QED
  BY <1>1 DEF MarkedOK, Confirmable, Releasable, IsClaimOf, NothingOut

\* A step that moves no claim and hands nothing over keeps the invariant.
LEMMA QuietStep ==
  ASSUME FenceInvariant,
         \A f \in Effects : KeepsClaim(f),
         \A p \in Owners : KeepsJob(p),
         UNCHANGED <<wire, execs>>, replies' \subseteq replies
  PROVE  FenceInvariant'
<1> USE DEF FenceInvariant, KeepsClaim
<1>1. RowsWellFormed'
  BY DEF RowsWellFormed
<1>2. TokensCarryTheClaim'
  BY DEF TokensCarryTheClaim, RefOf
<1>3. MarkedHoldsTheClaim'
  <2> SUFFICES ASSUME NEW p \in Owners, NEW f \in Effects, job'[p].effect = f,
                      job'[p].step \in {"marked", "threw"}
               PROVE  MarkedOK(p, f)'
    BY DEF MarkedHoldsTheClaim, MarkedOK
  <2>1. job'[p] = job[p] /\ claims'[p] = claims[p]
    BY DEF KeepsJob, QuietSteps
  <2> QED
    BY <2>1, MarkedFrame
<1>4. ProofStaysTrue'
  BY DEF ProofStaysTrue, KeepsJob, QuietSteps, NothingOut, BeingHandedOver, RefOf
<1>5. ReportsAreReal'
  BY DEF ReportsAreReal, KeepsJob, QuietSteps
<1>6. NoConflictingExecution'
  BY DEF NoConflictingExecution
<1> QED
  BY <1>1, <1>2, <1>3, <1>4, <1>5, <1>6

\* A row may go back to pending, or start there, under a newer generation when
\* nothing is out and no process is about to hand anything over.
LEMMA RependingStep ==
  ASSUME TypeOK, TypeOK', FenceInvariant, NEW e \in Effects,
         NothingOut(e), ~BeingHandedOver(e),
         row'[e].state = "pending", row'[e].owner \in Owners,
         row'[e].gen > row[e].gen, row'[e].refusal # "conflicting-execution",
         \A f \in Effects : f # e => row'[f] = row[f],
         \A p \in Owners : KeepsJob(p),
         UNCHANGED <<wire, execs, replies>>
  PROVE  FenceInvariant'
<1> USE DEF FenceInvariant
<1>0. row[e].gen \in Nat /\ row'[e].gen \in Nat
  BY MaxGenerationAssumption DEF TypeOK, RowType
<1>1. RowsWellFormed'
  BY <1>0 DEF RowsWellFormed
<1>2. TokensCarryTheClaim'
  BY DEF TokensCarryTheClaim, RefOf, NothingOut
<1>3. MarkedHoldsTheClaim'
  <2> SUFFICES ASSUME NEW p \in Owners, NEW f \in Effects, job'[p].effect = f,
                      job'[p].step \in {"marked", "threw"}
               PROVE  MarkedOK(p, f)'
    BY DEF MarkedHoldsTheClaim, MarkedOK
  <2>1. job'[p] = job[p] /\ claims'[p] = claims[p]
    BY DEF KeepsJob, QuietSteps
  <2>2. CASE f = e
    BY <2>1, <2>2 DEF NothingOut, BeingHandedOver, MarkedOK
  <2>3. CASE f # e
    BY <2>1, <2>3, MarkedFrame
  <2> QED
    BY <2>2, <2>3
<1>4. ProofStaysTrue'
  <2> SUFFICES ASSUME NEW p \in Owners, NEW f \in Effects, job'[p].effect = f,
                      job'[p].step \in {"held", "proved"}
               PROVE  /\ job'[p].ref.gen <= row'[f].gen
                      /\ job'[p].ref.gen = row'[f].gen =>
                           row'[f].state \in {"creating", "created"}
                      /\ job'[p].step = "proved" /\ job'[p].ref = RefOf(f)' =>
                           NothingOut(f)' /\ ~BeingHandedOver(f)'
    BY DEF ProofStaysTrue
  <2>1. job'[p] = job[p]
    BY DEF KeepsJob, QuietSteps
  <2>2. job[p].ref.gen \in Nat
    BY MaxGenerationAssumption DEF TypeOK, JobType, Ref
  <2>3. CASE f = e
    <3>1. job[p].ref.gen <= row[e].gen
      BY <2>1, <2>3 DEF ProofStaysTrue
    <3>2. job'[p].ref.gen < row'[e].gen
      BY <1>0, <2>1, <2>2, <3>1
    <3>3. RefOf(e)'.gen = row'[e].gen
      BY DEF RefOf
    <3> QED
      BY <1>0, <2>1, <2>2, <2>3, <3>2, <3>3
  <2>4. CASE f # e
    BY <2>1, <2>4 DEF ProofStaysTrue, RefOf, NothingOut, BeingHandedOver, KeepsJob, QuietSteps
  <2> QED
    BY <2>3, <2>4
<1>5. ReportsAreReal'
  BY DEF ReportsAreReal, KeepsJob, QuietSteps
<1>6. NoConflictingExecution'
  BY DEF NoConflictingExecution
<1> QED
  BY <1>1, <1>2, <1>3, <1>4, <1>5, <1>6

\* Claiming: a held row is left alone, a pending row of the same owner too; a
\* fresh row and a takeover start a newer generation with nothing out.
LEMMA ClaimKeeps ==
  ASSUME TypeOK, TypeOK', FenceInvariant, NEW o \in Owners, NEW e \in Effects,
         NEW h \in JobType, h.step \in QuietSteps,
         ClaimExecution(o, e, h)
  PROVE  FenceInvariant'
<1>1. \A p \in Owners : KeepsJob(p)
  <2>1. \A p \in Owners : p # o => job'[p] = job[p] /\ claims'[p] = claims[p]
    BY DEF ClaimExecution, TypeOK
  <2>2. job'[o].step \in QuietSteps
    <3>1. job'[o] = h \/ job'[o] = Job("claimed", e, NoToken)
      BY DEF ClaimExecution, TypeOK
    <3> QED
      BY <3>1 DEF Job, QuietSteps
  <2> QED
    BY <2>1, <2>2 DEF KeepsJob
<1>2. UNCHANGED <<wire, execs, replies>>
  BY DEF ClaimExecution
<1>3. /\ row'[e] = RowAfterClaim(o, e)
      /\ \A f \in Effects : f # e => row'[f] = row[f]
  BY DEF ClaimExecution, TypeOK
<1>4. row[e] \in RowType /\ row[e].gen \in Nat
  BY MaxGenerationAssumption DEF TypeOK, RowType
<1>5. CASE row[e].state = "none" \/ (row[e].state = "pending" /\ row[e].owner # o /\ Takeable(e))
  <2>1. NothingOut(e)
    BY <1>5 DEF FenceInvariant, TokensCarryTheClaim, NothingOut
  <2>2. ~BeingHandedOver(e)
    BY <1>5 DEF FenceInvariant, MarkedHoldsTheClaim, MarkedOK, BeingHandedOver, Confirmable
  <2>3. /\ row'[e].state = "pending" /\ row'[e].owner \in Owners
        /\ row'[e].gen > row[e].gen /\ row'[e].refusal # "conflicting-execution"
    <3>1. CASE row[e].state = "none"
      <4>1. row[e] = NoRow
        BY <3>1 DEF FenceInvariant, RowsWellFormed
      <4>2. row'[e] = [state |-> "pending", owner |-> o, gen |-> 1,
                       released |-> FALSE, lease |-> TRUE, execution |-> NoToken,
                       refusal |-> "none"]
        BY <1>3, <3>1 DEF RowAfterClaim, NoRow
      <4>3. row[e].gen = 0
        BY <4>1 DEF NoRow
      <4> QED
        BY <4>2, <4>3
    <3>2. CASE row[e].state = "pending" /\ row[e].owner # o /\ Takeable(e)
      <4>1. row'[e] = [row[e] EXCEPT !.owner = o, !.gen = @ + 1,
                         !.released = FALSE, !.lease = TRUE]
        BY <1>3, <3>2 DEF RowAfterClaim
      <4>2. row[e].refusal # "conflicting-execution"
        BY DEF FenceInvariant, NoConflictingExecution
      <4> QED
        BY <1>4, <3>2, <4>1, <4>2 DEF RowType
    <3> QED
      BY <1>5, <3>1, <3>2
  <2> QED
    BY <1>1, <1>2, <1>3, <2>1, <2>2, <2>3, RependingStep
<1>6. CASE ~(row[e].state = "none") /\
           ~(row[e].state = "pending" /\ row[e].owner # o /\ Takeable(e))
  <2>1. row'[e] = row[e]
    BY <1>3, <1>6 DEF RowAfterClaim
  <2>2. \A f \in Effects : KeepsClaim(f)
    BY <1>3, <2>1 DEF KeepsClaim, FenceInvariant, NoConflictingExecution
  <2> QED
    BY <1>1, <1>2, <2>2, QuietStep
<1> QED
  BY <1>5, <1>6

\* A process that finds the row creating remembers the claim it saw.
LEMMA HeldKeeps ==
  ASSUME TypeOK, TypeOK', FenceInvariant, NEW o \in Owners, NEW e \in Effects,
         row[e].state = "creating",
         ClaimExecution(o, e, Job("held", e, RefOf(e)))
  PROVE  FenceInvariant'
<1>1. ClaimedGeneration(o, e) = 0 /\ RowAfterClaim(o, e) = row[e]
  BY DEF ClaimedGeneration, RowAfterClaim
<1>2. row' = row
  BY <1>1 DEF ClaimExecution, TypeOK
<1>3. /\ job'[o] = Job("held", e, RefOf(e))
      /\ \A p \in Owners : p # o => job'[p] = job[p]
      /\ UNCHANGED <<claims, wire, execs, replies>>
  BY <1>1 DEF ClaimExecution, TypeOK
<1>4. /\ job'[o].step = "held" /\ job'[o].effect = e
      /\ job'[o].ref.gen = row[e].gen
  BY <1>3 DEF Job, RefOf
<1>5. row[e].gen \in Nat
  BY MaxGenerationAssumption DEF TypeOK, RowType
<1> USE DEF FenceInvariant
<1>6. RowsWellFormed' /\ TokensCarryTheClaim' /\ NoConflictingExecution'
  BY <1>2, <1>3 DEF RowsWellFormed, TokensCarryTheClaim, NoConflictingExecution, RefOf
<1>7. MarkedHoldsTheClaim'
  <2> SUFFICES ASSUME NEW p \in Owners, NEW f \in Effects, job'[p].effect = f
               PROVE  MarkedOK(p, f)'
    BY DEF MarkedHoldsTheClaim
  <2>1. CASE p = o
    BY <1>4, <2>1 DEF MarkedOK
  <2>2. CASE p # o
    BY <1>2, <1>3, <2>2, MarkedFrame
  <2> QED
    BY <2>1, <2>2
<1>8. ProofStaysTrue'
  BY <1>2, <1>3, <1>4, <1>5 DEF ProofStaysTrue, NothingOut, BeingHandedOver, RefOf
<1>9. ReportsAreReal'
  BY <1>3, <1>4 DEF ReportsAreReal
<1> QED
  BY <1>6, <1>7, <1>8, <1>9

\* Releasing a row from which nothing is out.
LEMMA ReleaseKeeps ==
  ASSUME TypeOK, TypeOK', FenceInvariant, NEW e \in Effects,
         NothingOut(e), ~BeingHandedOver(e), row[e].state \in {"pending", "creating"},
         row' = [row EXCEPT ![e] = Released(@)],
         \A p \in Owners : KeepsJob(p),
         UNCHANGED <<wire, execs, replies>>
  PROVE  FenceInvariant'
<1>1. row[e] \in RowType /\ row[e].gen \in Nat
  BY MaxGenerationAssumption DEF TypeOK, RowType
<1>2. /\ row'[e] = Released(row[e])
      /\ \A f \in Effects : f # e => row'[f] = row[f]
  BY DEF TypeOK
<1>3. row[e].refusal # "conflicting-execution" /\ row[e].owner \in Owners
  BY DEF FenceInvariant, NoConflictingExecution, RowsWellFormed
<1>4. /\ row'[e].state = "pending" /\ row'[e].owner \in Owners
      /\ row'[e].gen > row[e].gen /\ row'[e].refusal # "conflicting-execution"
  <2>1. /\ Released(row[e]).gen = row[e].gen + 1
        /\ Released(row[e]).state = "pending"
        /\ Released(row[e]).owner = row[e].owner
        /\ Released(row[e]).refusal = row[e].refusal
    BY <1>1 DEF Released, RowType
  <2> QED
    BY <1>1, <1>2, <1>3, <2>1
<1> QED
  BY <1>2, <1>4, RependingStep

\* Marking takes the right of a row that is still pending under this claim.
LEMMA MarkKeeps ==
  ASSUME TypeOK, FenceInvariant, NEW o \in Owners, NEW e \in Effects,
         MarkCreating(o, e), row[e].state = "pending", IsClaimOf(e, o, claims[o][e])
  PROVE  FenceInvariant'
<1>0. row[e] \in RowType
  BY DEF TypeOK
<1>1. /\ row'[e] = MarkedRow(row[e])
      /\ \A f \in Effects : f # e => row'[f] = row[f]
  BY DEF MarkCreating, TypeOK
<1>2. /\ row'[e].state = "creating" /\ row'[e].owner = row[e].owner
      /\ row'[e].gen = row[e].gen /\ row'[e].execution = row[e].execution
      /\ row'[e].refusal = row[e].refusal
  BY <1>0, <1>1 DEF MarkedRow, RowType
<1>3. /\ job'[o] = Job("marked", e, NoToken)
      /\ \A p \in Owners : p # o => job'[p] = job[p]
  BY DEF MarkCreating, TypeOK
<1>4. job'[o].step = "marked" /\ job'[o].effect = e
  BY <1>3 DEF Job
<1>5. UNCHANGED <<claims, wire, execs, replies>>
  BY DEF MarkCreating
<1> USE DEF FenceInvariant
<1>6. RowsWellFormed'
  BY <1>1, <1>2, <1>5 DEF RowsWellFormed
<1>7. TokensCarryTheClaim'
  BY <1>1, <1>2, <1>5 DEF TokensCarryTheClaim, RefOf
<1>8. MarkedHoldsTheClaim'
  <2> SUFFICES ASSUME NEW p \in Owners, NEW f \in Effects, job'[p].effect = f
               PROVE  MarkedOK(p, f)'
    BY DEF MarkedHoldsTheClaim
  <2>0. NothingOut(e)
    BY DEF TokensCarryTheClaim, NothingOut
  <2>1. CASE p = o
    BY <1>2, <1>4, <1>5, <2>0, <2>1 DEF MarkedOK, Confirmable, IsClaimOf, NothingOut
  <2>2. CASE p # o /\ f = e
    BY <1>3, <1>5, <2>0, <2>2 DEF MarkedHoldsTheClaim, MarkedOK, Confirmable, NothingOut
  <2>3. CASE p # o /\ f # e
    BY <1>1, <1>3, <1>5, <2>3, MarkedFrame
  <2> QED
    BY <2>1, <2>2, <2>3
<1>9. ProofStaysTrue'
  BY <1>1, <1>2, <1>3, <1>4, <1>5
  DEF ProofStaysTrue, NothingOut, RefOf, BeingHandedOver
<1>10. ReportsAreReal'
  BY <1>3, <1>4, <1>5 DEF ReportsAreReal
<1>11. NoConflictingExecution'
  BY <1>1, <1>2 DEF NoConflictingExecution
<1> QED
  BY <1>6, <1>7, <1>8, <1>9, <1>10, <1>11

\* Steps of one process that only change its own job.
JobStep(o) ==
  /\ \A p \in Owners : p # o => job'[p] = job[p]
  /\ UNCHANGED <<row, claims, execs, replies>>

\* The four parts other than ProofStaysTrue and ReportsAreReal survive a step
\* after which the process is not about to hand anything over.
LEMMA JobStepKeeps ==
  ASSUME FenceInvariant, NEW o \in Owners, JobStep(o), wire' = wire,
         job'[o].step \notin {"marked", "threw"}
  PROVE  /\ RowsWellFormed' /\ TokensCarryTheClaim' /\ NoConflictingExecution'
         /\ MarkedHoldsTheClaim'
<1>1. RowsWellFormed' /\ TokensCarryTheClaim' /\ NoConflictingExecution'
  BY DEF FenceInvariant, JobStep, RowsWellFormed, TokensCarryTheClaim,
         NoConflictingExecution, RefOf
<1>2. MarkedHoldsTheClaim'
  <2> SUFFICES ASSUME NEW p \in Owners, NEW f \in Effects, job'[p].effect = f
               PROVE  MarkedOK(p, f)'
    BY DEF MarkedHoldsTheClaim
  <2>1. CASE p = o
    BY <2>1 DEF MarkedOK
  <2>2. CASE p # o
    BY <2>2, MarkedFrame DEF FenceInvariant, JobStep
  <2> QED
    BY <2>1, <2>2
<1> QED
  BY <1>1, <1>2

\* A platform that does not answer absent at a mere instant gives a proof that
\* stays true: nothing is out and nobody is about to hand anything over.
LEMMA ProvedKeeps ==
  ASSUME ProofMode # "instant", TypeOK, FenceInvariant,
         NEW o \in Owners, NEW e \in Effects,
         At(o, "held", e), AbsentAllowed(e), JobStep(o), wire' = wire,
         job' = [job EXCEPT ![o] = Job("proved", e, @.ref)]
  PROVE  FenceInvariant'
<1>1. /\ job'[o].step = "proved" /\ job'[o].effect = e /\ job'[o].ref = job[o].ref
      /\ job[o].step = "held" /\ job[o].effect = e
  BY DEF Job, TypeOK, At
<1>2. NothingOut(e) /\ ~BeingHandedOver(e)
  BY DEF AbsentAllowed, NothingOut
<1>3. ~BeingHandedOver(e)'
  BY <1>1, <1>2 DEF BeingHandedOver, JobStep
<1>4. ProofStaysTrue'
  <2> SUFFICES ASSUME NEW p \in Owners, NEW f \in Effects, job'[p].effect = f
               PROVE  /\ job'[p].step \in {"held", "proved"} =>
                           /\ job'[p].ref.gen <= row'[f].gen
                           /\ job'[p].ref.gen = row'[f].gen =>
                                row'[f].state \in {"creating", "created"}
                      /\ job'[p].step = "proved" /\ job'[p].ref = RefOf(f)' =>
                           NothingOut(f)' /\ ~BeingHandedOver(f)'
    BY DEF ProofStaysTrue
  <2>1. CASE p = o
    BY <1>1, <1>2, <1>3, <2>1
    DEF FenceInvariant, ProofStaysTrue, JobStep, NothingOut
  <2>2. CASE p # o
    BY <1>1, <2>2 DEF FenceInvariant, ProofStaysTrue, JobStep, NothingOut, RefOf,
                      BeingHandedOver
  <2> QED
    BY <2>1, <2>2
<1>5. ReportsAreReal'
  BY <1>1 DEF FenceInvariant, ReportsAreReal, JobStep
<1> QED
  BY <1>1, <1>4, <1>5, JobStepKeeps DEF FenceInvariant

\* A lookup that saw an execution goes on to bind it.
LEMMA BindJobKeeps ==
  ASSUME TypeOK, FenceInvariant, NEW o \in Owners, NEW e \in Effects,
         NEW x \in execs[e], JobStep(o), wire' = wire,
         job' = [job EXCEPT ![o] = Job("bind", e, x)]
  PROVE  FenceInvariant'
<1>1. job'[o].step = "bind" /\ job'[o].effect = e /\ job'[o].ref = x
  BY DEF Job, TypeOK
<1>2. ProofStaysTrue'
  BY <1>1 DEF FenceInvariant, ProofStaysTrue, JobStep, NothingOut, RefOf, BeingHandedOver
<1>3. ReportsAreReal'
  BY <1>1 DEF FenceInvariant, ReportsAreReal, JobStep
<1> QED
  BY <1>1, <1>2, <1>3, JobStepKeeps DEF FenceInvariant

\* A delivery that refuses leaves the row to its own release.
LEMMA ThrowKeeps ==
  ASSUME TypeOK, FenceInvariant, NEW o \in Owners, NEW e \in Effects,
         At(o, "marked", e), JobStep(o), wire' = wire,
         job' = [job EXCEPT ![o] = Job("threw", e, NoToken)]
  PROVE  FenceInvariant'
<1>1. /\ job'[o].step = "threw" /\ job'[o].effect = e
      /\ job[o].step = "marked" /\ job[o].effect = e
  BY DEF Job, TypeOK, At
<1>2. RowsWellFormed' /\ TokensCarryTheClaim' /\ NoConflictingExecution'
  BY DEF FenceInvariant, JobStep, RowsWellFormed, TokensCarryTheClaim,
         NoConflictingExecution, RefOf
<1>3. MarkedHoldsTheClaim'
  <2> SUFFICES ASSUME NEW p \in Owners, NEW f \in Effects, job'[p].effect = f
               PROVE  MarkedOK(p, f)'
    BY DEF MarkedHoldsTheClaim
  <2>1. CASE p = o
    <3>1. NothingOut(e)
      BY <1>1 DEF FenceInvariant, MarkedHoldsTheClaim, MarkedOK
    <3> QED
      BY <1>1, <2>1, <3>1 DEF MarkedOK, JobStep, NothingOut
  <2>2. CASE p # o
    BY <2>2, MarkedFrame DEF FenceInvariant, JobStep
  <2> QED
    BY <2>1, <2>2
<1>4. ProofStaysTrue'
  BY <1>1 DEF FenceInvariant, ProofStaysTrue, JobStep, NothingOut, RefOf, BeingHandedOver
<1>5. ReportsAreReal'
  BY <1>1 DEF FenceInvariant, ReportsAreReal, JobStep
<1> QED
  BY <1>2, <1>3, <1>4, <1>5 DEF FenceInvariant

\* Handing the request over puts exactly one token out, the row's own claim.
LEMMA DeliverKeeps ==
  ASSUME TypeOK, FenceInvariant, NEW o \in Owners, NEW e \in Effects,
         At(o, "marked", e), JobStep(o), Finish(o),
         wire' = [wire EXCEPT ![e] = @ \cup {[owner |-> o, gen |-> claims[o][e]]}]
  PROVE  FenceInvariant'
<1>1. /\ job'[o].step = "idle" /\ job[o].step = "marked" /\ job[o].effect = e
  BY DEF Finish, Idle, TypeOK, At
<1>2. Confirmable(o, e) /\ NothingOut(e)
  BY <1>1 DEF FenceInvariant, MarkedHoldsTheClaim, MarkedOK
<1>3. RefOf(e) = [owner |-> o, gen |-> claims[o][e]]
  BY <1>2 DEF Confirmable, IsClaimOf, RefOf
<1>4. wire'[e] = {RefOf(e)} /\ \A f \in Effects : f # e => wire'[f] = wire[f]
  BY <1>2, <1>3 DEF NothingOut, TypeOK
<1>5. RowsWellFormed' /\ NoConflictingExecution' /\ ReportsAreReal'
  BY <1>1 DEF FenceInvariant, JobStep, RowsWellFormed, NoConflictingExecution, ReportsAreReal
<1>6. TokensCarryTheClaim'
  BY <1>2, <1>4 DEF FenceInvariant, JobStep, TokensCarryTheClaim, RefOf, NothingOut,
                    Confirmable
<1>7. \A p \in Owners : p # o /\ job[p].effect = e => job[p].step # "marked"
  BY <1>2 DEF FenceInvariant, MarkedHoldsTheClaim, MarkedOK, Confirmable, IsClaimOf
<1>8. MarkedHoldsTheClaim'
  <2> SUFFICES ASSUME NEW p \in Owners, NEW f \in Effects, job'[p].effect = f
               PROVE  MarkedOK(p, f)'
    BY DEF MarkedHoldsTheClaim
  <2>1. CASE p = o
    BY <1>1, <2>1 DEF MarkedOK
  <2>2. CASE p # o /\ f # e
    BY <1>4, <2>2, MarkedFrame DEF FenceInvariant, JobStep
  <2>3. CASE p # o /\ f = e
    BY <1>2, <1>7, <2>3 DEF MarkedOK, JobStep, Releasable, IsClaimOf, Confirmable
  <2> QED
    BY <2>1, <2>2, <2>3
<1>9. ProofStaysTrue'
  <2>1. BeingHandedOver(e)
    BY <1>1 DEF BeingHandedOver
  <2>2. \A p \in Owners : job[p].effect = e /\ job[p].step = "proved" => job[p].ref # RefOf(e)
    BY <2>1 DEF FenceInvariant, ProofStaysTrue
  <2> QED
    BY <1>1, <1>4, <2>2
    DEF FenceInvariant, ProofStaysTrue, JobStep, NothingOut, RefOf, BeingHandedOver
<1> QED
  BY <1>5, <1>6, <1>8, <1>9 DEF FenceInvariant

\* The platform turns the one token that is out into an execution, or drops it.
LEMMA ResolveKeeps ==
  ASSUME TypeOK, FenceInvariant, NEW e \in Effects, NEW t \in Token,
         PlatformResolves(e, t)
  PROVE  FenceInvariant'
<1>1. UNCHANGED <<row, claims, job>>
  BY DEF PlatformResolves
<1>2. t \in wire[e] /\ t = RefOf(e) /\ wire'[e] \subseteq wire[e]
  BY DEF PlatformResolves, TypeOK, FenceInvariant, TokensCarryTheClaim
<1>3. wire'[e] = {} /\ (execs'[e] = execs[e] \/ execs'[e] = execs[e] \cup {t})
  BY <1>2 DEF PlatformResolves, TypeOK, FenceInvariant, TokensCarryTheClaim
<1>4. \A f \in Effects : f # e => wire'[f] = wire[f] /\ execs'[f] = execs[f]
  BY DEF PlatformResolves, TypeOK
<1>5. \A f \in Effects : execs[f] \subseteq execs'[f]
  BY <1>3, <1>4
<1>6. RowsWellFormed' /\ NoConflictingExecution'
  BY <1>1, <1>5 DEF FenceInvariant, RowsWellFormed, NoConflictingExecution
<1>7. TokensCarryTheClaim'
  BY <1>1, <1>2, <1>3, <1>4 DEF FenceInvariant, TokensCarryTheClaim, RefOf
<1>8. ~NothingOut(e)
  BY <1>2 DEF NothingOut
<1>9. MarkedHoldsTheClaim'
  <2> SUFFICES ASSUME NEW p \in Owners, NEW f \in Effects, job'[p].effect = f
               PROVE  MarkedOK(p, f)'
    BY DEF MarkedHoldsTheClaim
  <2>1. CASE f = e
    <3>1. MarkedOK(p, e)
      BY <1>1, <2>1 DEF FenceInvariant, MarkedHoldsTheClaim
    <3> QED
      BY <1>1, <1>8, <2>1, <3>1 DEF MarkedOK, Releasable, IsClaimOf
  <2>2. CASE f # e
    BY <1>1, <1>4, <2>2, MarkedFrame DEF FenceInvariant
  <2> QED
    BY <2>1, <2>2
<1>10. ProofStaysTrue'
  BY <1>1, <1>4, <1>8
  DEF FenceInvariant, ProofStaysTrue, NothingOut, RefOf, BeingHandedOver
<1>11. ReportsAreReal'
  <2>1. \A r \in replies' : r.ok => r.execution \in execs'[r.effect]
    <3> SUFFICES ASSUME NEW r \in replies', r.ok PROVE r.execution \in execs'[r.effect]
      OBVIOUS
    <3>1. CASE r \in replies
      <4>1. r.effect \in Effects
        BY <3>1 DEF TypeOK
      <4> QED
        BY <1>5, <3>1, <4>1 DEF FenceInvariant, ReportsAreReal
    <3>2. CASE r \notin replies
      <4>1. PICK created \in BOOLEAN, ok \in BOOLEAN :
               /\ ok => created
               /\ execs' = IF created THEN [execs EXCEPT ![e] = @ \cup {t}] ELSE execs
               /\ r = [to |-> t.owner, effect |-> e, execution |-> t, ok |-> ok]
        BY <3>2 DEF PlatformResolves
      <4> QED
        BY <4>1 DEF TypeOK
    <3> QED
      BY <3>1, <3>2
  <2> QED
    BY <1>1, <1>5, <2>1 DEF FenceInvariant, ReportsAreReal
<1> QED
  BY <1>6, <1>7, <1>9, <1>10, <1>11 DEF FenceInvariant

\* A report of an execution that exists binds the row to the one execution, or
\* changes nothing but the recorded refusal; it never meets a conflict.
LEMMA ConfirmKeeps ==
  ASSUME TypeOK, FenceInvariant, NEW o \in Owners, NEW e \in Effects,
         NEW x \in execs[e],
         row' = [row EXCEPT ![e] = RowAfterConfirm(o, e, x)],
         \A p \in Owners : KeepsJob(p),
         UNCHANGED <<wire, execs>>, replies' \subseteq replies
  PROVE  FenceInvariant'
<1>0. row[e] \in RowType /\ row[e].refusal # "conflicting-execution"
  BY DEF TypeOK, FenceInvariant, NoConflictingExecution
<1>1. /\ row'[e] = RowAfterConfirm(o, e, x)
      /\ \A f \in Effects : f # e => row'[f] = row[f]
  BY DEF TypeOK
<1>2. x = RefOf(e) /\ row[e].state \in {"creating", "created"} /\ ~NothingOut(e)
  BY DEF FenceInvariant, TokensCarryTheClaim, NothingOut
<1>3. CASE Confirmable(o, e)
  <2>1. row'[e] = [row[e] EXCEPT !.state = "created", !.execution = x]
    BY <1>1, <1>3 DEF RowAfterConfirm, Confirmable
  <2>2. /\ row'[e].state = "created" /\ row'[e].execution = x
        /\ row'[e].owner = row[e].owner /\ row'[e].gen = row[e].gen
        /\ row'[e].refusal = row[e].refusal
    BY <1>0, <2>1 DEF RowType
  <2>3. RowsWellFormed' /\ NoConflictingExecution'
    BY <1>1, <1>2, <2>2 DEF FenceInvariant, RowsWellFormed, NoConflictingExecution
  <2>4. TokensCarryTheClaim'
    BY <1>1, <2>2 DEF FenceInvariant, TokensCarryTheClaim, RefOf
  <2>5. MarkedHoldsTheClaim'
    <3> SUFFICES ASSUME NEW p \in Owners, NEW f \in Effects, job'[p].effect = f,
                        job'[p].step \in {"marked", "threw"}
                 PROVE  MarkedOK(p, f)'
      BY DEF MarkedHoldsTheClaim, MarkedOK
    <3>1. job'[p] = job[p] /\ claims'[p] = claims[p]
      BY DEF KeepsJob, QuietSteps
    <3>2. CASE f = e
      <4>1. MarkedOK(p, e)
        BY <3>1, <3>2 DEF FenceInvariant, MarkedHoldsTheClaim
      <4> QED
        BY <1>2, <2>2, <3>1, <3>2, <4>1 DEF MarkedOK, Releasable
    <3>3. CASE f # e
      BY <1>1, <3>1, <3>3, MarkedFrame DEF FenceInvariant
    <3> QED
      BY <3>2, <3>3
  <2>6. ProofStaysTrue'
    BY <1>1, <1>2, <2>2
    DEF FenceInvariant, ProofStaysTrue, NothingOut, RefOf, BeingHandedOver, KeepsJob, QuietSteps
  <2>7. ReportsAreReal'
    BY DEF FenceInvariant, ReportsAreReal, KeepsJob, QuietSteps
  <2> QED
    BY <2>3, <2>4, <2>5, <2>6, <2>7 DEF FenceInvariant
<1>4. CASE ~Confirmable(o, e)
  <2>1. row[e].state = "created" => row[e].execution = x
    BY <1>2 DEF FenceInvariant, RowsWellFormed, TokensCarryTheClaim
  <2>2. \/ row'[e] = row[e]
        \/ row'[e] = [row[e] EXCEPT !.refusal = "stale-confirmation"]
    BY <1>1, <1>4, <2>1 DEF RowAfterConfirm
  <2>3. \A f \in Effects : KeepsClaim(f)
    <3>1. KeepsClaim(e)
      BY <1>0, <1>2, <2>2 DEF KeepsClaim, RowType
    <3> QED
      BY <1>1, <3>1 DEF KeepsClaim, FenceInvariant, NoConflictingExecution
  <2> QED
    BY <2>3, QuietStep
<1> QED
  BY <1>3, <1>4

\* One step of the system keeps the fence.
LEMMA FenceStepKeeps ==
  ASSUME ProofMode # "instant", TypeOK, TypeOK', FenceInvariant, [Next]_vars
  PROVE  FenceInvariant'
<1>1. ASSUME NEW o \in Owners, NEW e \in Effects, Claim(o, e) PROVE FenceInvariant'
  <2>1. CASE row[e].state = "creating"
    BY <1>1, <2>1, HeldKeeps DEF Claim
  <2>2. CASE row[e].state # "creating"
    <3>1. Idle \in JobType /\ Idle.step \in QuietSteps
      BY MaxGenerationAssumption DEF Idle, JobType, Steps, Ref, NoToken, QuietSteps
    <3> QED
      BY <1>1, <2>2, <3>1, ClaimKeeps DEF Claim
  <2> QED
    BY <2>1, <2>2
<1>2. ASSUME NEW o \in Owners, NEW e \in Effects, Reclaim(o, e) PROVE FenceInvariant'
  <2>1. Idle \in JobType /\ Idle.step \in QuietSteps
    BY MaxGenerationAssumption DEF Idle, JobType, Steps, Ref, NoToken, QuietSteps
  <2> QED
    BY <1>2, <2>1, ClaimKeeps DEF Reclaim
\* A step that only ends the job of o, and may clear its cached claims.
<1>3. ASSUME NEW o \in Owners, job'[o].step \in QuietSteps,
             \A p \in Owners : p # o => job'[p] = job[p] /\ claims'[p] = claims[p],
             UNCHANGED <<row, wire, execs, replies>>
      PROVE  FenceInvariant'
  <2>1. \A p \in Owners : KeepsJob(p)
    BY <1>3 DEF KeepsJob
  <2>2. \A f \in Effects : KeepsClaim(f)
    BY <1>3 DEF KeepsClaim, FenceInvariant, NoConflictingExecution
  <2> QED
    BY <1>3, <2>1, <2>2, QuietStep
<1>4. ASSUME NEW o \in Owners, Finish(o)
      PROVE  job'[o].step \in QuietSteps /\ \A p \in Owners : p # o => job'[p] = job[p]
  BY <1>4 DEF Finish, Idle, QuietSteps, TypeOK
<1>5. ASSUME NEW o \in Owners, NEW e \in Effects, ProofOfAbsence(o, e)
      PROVE  FenceInvariant'
  <2>1. CASE Finish(o)
    BY <1>3, <1>4, <1>5, <2>1 DEF ProofOfAbsence
  <2>2. CASE AbsentAllowed(e) /\ job' = [job EXCEPT ![o] = Job("proved", e, @.ref)]
    <3>1. JobStep(o)
      BY <1>5, <2>2 DEF JobStep, ProofOfAbsence, TypeOK
    <3> QED
      BY <1>5, <2>2, <3>1, ProvedKeeps DEF ProofOfAbsence
  <2> QED
    BY <1>5, <2>1, <2>2 DEF ProofOfAbsence
<1>6. ASSUME NEW o \in Owners, NEW e \in Effects, ReleaseStale(o, e)
      PROVE  FenceInvariant'
  <2>1. CASE Releasable(e, job[o].ref.owner, job[o].ref.gen)
    <3>1. job[o].ref \in Ref
      BY DEF TypeOK, JobType
    <3>2. job[o].ref = RefOf(e)
      BY <2>1, <3>1 DEF Releasable, IsClaimOf, RefOf, Ref
    <3>3. NothingOut(e) /\ ~BeingHandedOver(e)
      BY <1>6, <3>2 DEF ReleaseStale, At, FenceInvariant, ProofStaysTrue
    <3>4. \A p \in Owners : KeepsJob(p)
      BY <1>6, <2>1 DEF ReleaseStale, KeepsJob, QuietSteps, Job, TypeOK
    <3> QED
      BY <1>6, <2>1, <3>3, <3>4, ReleaseKeeps DEF ReleaseStale, Releasable
  <2>2. CASE ~Releasable(e, job[o].ref.owner, job[o].ref.gen)
    BY <1>3, <1>4, <1>6, <2>2 DEF ReleaseStale
  <2> QED
    BY <2>1, <2>2
<1>7. ASSUME NEW o \in Owners, NEW e \in Effects, MarkCreating(o, e)
      PROVE  FenceInvariant'
  <2>1. CASE row[e].state = "pending" /\ IsClaimOf(e, o, claims[o][e])
    BY <1>7, <2>1, MarkKeeps
  <2>2. CASE ~(row[e].state = "pending" /\ IsClaimOf(e, o, claims[o][e]))
    <3>1. \A p \in Owners : p # o => claims'[p] = claims[p]
      BY <1>7, <2>2 DEF MarkCreating, TypeOK
    <3> QED
      BY <1>3, <1>4, <1>7, <2>2, <3>1 DEF MarkCreating
  <2> QED
    BY <2>1, <2>2
<1>8. ASSUME NEW o \in Owners, NEW e \in Effects, Deliver(o, e)
      PROVE  FenceInvariant'
  <2>1. JobStep(o)
    BY <1>8 DEF Deliver, JobStep, Finish, TypeOK
  <2> QED
    BY <1>8, <2>1, DeliverKeeps, ThrowKeeps DEF Deliver
<1>9. ASSUME NEW o \in Owners, NEW e \in Effects, ReleaseAfterThrow(o, e)
      PROVE  FenceInvariant'
  <2>1. CASE Releasable(e, o, claims[o][e])
    <3>1. NothingOut(e)
      BY <1>9, <2>1 DEF ReleaseAfterThrow, At, FenceInvariant, MarkedHoldsTheClaim, MarkedOK
    <3>2. ~BeingHandedOver(e)
      BY <1>9, <2>1 DEF ReleaseAfterThrow, At, FenceInvariant, MarkedHoldsTheClaim,
                        MarkedOK, BeingHandedOver, Releasable, Confirmable, IsClaimOf
    <3>3. \A p \in Owners : KeepsJob(p)
      BY <1>9, <2>1 DEF ReleaseAfterThrow, Finish, KeepsJob, QuietSteps, Idle, TypeOK
    <3> QED
      BY <1>9, <2>1, <3>1, <3>2, <3>3, ReleaseKeeps DEF ReleaseAfterThrow, Releasable
  <2>2. CASE ~Releasable(e, o, claims[o][e])
    BY <1>3, <1>4, <1>9, <2>2 DEF ReleaseAfterThrow
  <2> QED
    BY <2>1, <2>2
<1>10. ASSUME NEW o \in Owners, NEW e \in Effects, NEW x \in Token,
              ConfirmStarted(o, e, x)
       PROVE  FenceInvariant'
  <2>1. x \in execs[e]
    BY <1>10 DEF ConfirmStarted, FenceInvariant, ReportsAreReal
  <2>2. \A p \in Owners : KeepsJob(p)
    BY <1>10 DEF ConfirmStarted, KeepsJob
  <2> QED
    BY <1>10, <2>1, <2>2, ConfirmKeeps DEF ConfirmStarted
<1>11. ASSUME NEW o \in Owners, NEW e \in Effects, NEW x \in Token,
              ReportDeliveryFailure(o, e, x)
       PROVE  FenceInvariant'
  <2>0. row[e] \in RowType
    BY DEF TypeOK
  <2>1. \A f \in Effects : KeepsClaim(f)
    <3>1. KeepsClaim(e)
      <4>1. row'[e] = UnprovenRow(row[e])
        BY <1>11 DEF ReportDeliveryFailure, TypeOK
      <4>2. row[e].refusal # "conflicting-execution"
        BY DEF FenceInvariant, NoConflictingExecution
      <4> QED
        BY <2>0, <4>1, <4>2 DEF UnprovenRow, KeepsClaim, RowType
    <3>2. \A f \in Effects : f # e => row'[f] = row[f]
      BY <1>11 DEF ReportDeliveryFailure, TypeOK
    <3> QED
      BY <3>1, <3>2 DEF KeepsClaim, FenceInvariant, NoConflictingExecution
  <2>2. \A p \in Owners : KeepsJob(p)
    BY <1>11 DEF ReportDeliveryFailure, KeepsJob
  <2> QED
    BY <1>11, <2>1, <2>2, QuietStep DEF ReportDeliveryFailure
<1>12. ASSUME NEW o \in Owners, NEW e \in Effects, LookupLocal(o, e)
       PROVE  FenceInvariant'
  <2>1. job'[o].step \in QuietSteps /\ \A p \in Owners : p # o => job'[p] = job[p]
    BY <1>12 DEF LookupLocal, Job, QuietSteps, TypeOK
  <2> QED
    BY <1>3, <1>12, <2>1 DEF LookupLocal
<1>13. ASSUME NEW o \in Owners, NEW e \in Effects, LookupPlatform(o, e)
       PROVE  FenceInvariant'
  <2>1. CASE Finish(o)
    BY <1>3, <1>4, <1>13, <2>1 DEF LookupPlatform
  <2>2. ASSUME NEW x \in execs[e], job' = [job EXCEPT ![o] = Job("bind", e, x)]
        PROVE  FenceInvariant'
    <3>1. JobStep(o)
      BY <1>13, <2>2 DEF JobStep, LookupPlatform, TypeOK
    <3> QED
      BY <1>13, <2>2, <3>1, BindJobKeeps DEF LookupPlatform
  <2> QED
    BY <1>13, <2>1, <2>2 DEF LookupPlatform
<1>14. ASSUME NEW o \in Owners, NEW e \in Effects, BindPlatformExecution(o, e)
       PROVE  FenceInvariant'
  <2>1. job[o].ref \in execs[e]
    BY <1>14 DEF BindPlatformExecution, At, FenceInvariant, ReportsAreReal
  <2>2. \A p \in Owners : KeepsJob(p)
    BY <1>4, <1>14 DEF BindPlatformExecution, KeepsJob
  <2> QED
    BY <1>14, <2>1, <2>2, ConfirmKeeps DEF BindPlatformExecution
<1>15. ASSUME NEW e \in Effects, NEW t \in Token, PlatformResolves(e, t)
       PROVE  FenceInvariant'
  BY <1>15, ResolveKeeps
<1>16. ASSUME NEW e \in Effects, LeaseExpires(e) PROVE FenceInvariant'
  <2>1. \A f \in Effects : KeepsClaim(f)
    BY <1>16 DEF LeaseExpires, KeepsClaim, TypeOK, RowType, FenceInvariant,
                 NoConflictingExecution
  <2>2. \A p \in Owners : KeepsJob(p)
    BY <1>16 DEF LeaseExpires, KeepsJob
  <2> QED
    BY <1>16, <2>1, <2>2, QuietStep DEF LeaseExpires
<1>17. ASSUME NEW o \in Owners, Crash(o) PROVE FenceInvariant'
  <2>1. job'[o].step \in QuietSteps
    BY <1>17 DEF Crash, Idle, QuietSteps, TypeOK
  <2>2. \A p \in Owners : p # o => job'[p] = job[p] /\ claims'[p] = claims[p]
    BY <1>17 DEF Crash, TypeOK
  <2> QED
    BY <1>3, <1>17, <2>1, <2>2 DEF Crash
<1>18. CASE UNCHANGED vars
  <2>1. (\A f \in Effects : KeepsClaim(f)) /\ (\A p \in Owners : KeepsJob(p))
    BY <1>18 DEF vars, KeepsClaim, KeepsJob, FenceInvariant, NoConflictingExecution
  <2> QED
    BY <1>18, <2>1, QuietStep DEF vars
<1> QED
  BY <1>1, <1>2, <1>5, <1>6, <1>7, <1>8, <1>9, <1>10, <1>11, <1>12, <1>13,
     <1>14, <1>15, <1>16, <1>17, <1>18 DEF Next

\* The invariant of the fence holds for every instance whose platform gives no
\* instantaneous proof of absence, the shipped adapters among them.
THEOREM FenceHolds == ProofMode # "instant" => (Spec => []FenceInvariant)
<1> SUFFICES ASSUME ProofMode # "instant" PROVE Spec => []FenceInvariant
  OBVIOUS
<1>1. Init => FenceInvariant
  BY DEF Init, FenceInvariant, RowsWellFormed, TokensCarryTheClaim, MarkedHoldsTheClaim,
         MarkedOK, ProofStaysTrue, ReportsAreReal, NoConflictingExecution, NoRow, Idle
<1>2. TypeOK /\ TypeOK' /\ FenceInvariant /\ [Next]_vars => FenceInvariant'
  BY FenceStepKeeps
<1> QED
  BY <1>1, <1>2, TypeCorrect, PTL DEF Spec

\* At most one execution exists per effect: all executions were made under the
\* one claim the row still shows (HostOutcomeDispatch.create).
THEOREM CreateOnceSafe == ProofMode # "instant" => (Spec => []AtMostOneExecution)
<1>1. FenceInvariant => AtMostOneExecution
  BY DEF FenceInvariant, TokensCarryTheClaim, AtMostOneExecution
<1> QED
  BY <1>1, FenceHolds, PTL

\* The conflicting-execution refusal is unreachable: whatever a process reports
\* or finds is the execution the row is bound to (GraphStore.confirmExecution).
THEOREM ConflictUnreachable ==
  ProofMode # "instant" => (Spec => []NoConflictingExecution)
<1>1. FenceInvariant => NoConflictingExecution
  BY DEF FenceInvariant
<1> QED
  BY <1>1, FenceHolds, PTL

\* A created row names the only execution, with no other request on its way
\* (GraphStore.confirmExecution).
THEOREM CreatedIsTheExecution ==
  ProofMode # "instant" => (Spec => []CreatedNamesTheExecution)
<1>1. FenceInvariant => CreatedNamesTheExecution
  <2> SUFFICES ASSUME FenceInvariant, NEW e \in Effects, row[e].state = "created"
               PROVE  execs[e] = {row[e].execution} /\ wire[e] = {} /\ ~BeingHandedOver(e)
    BY DEF CreatedNamesTheExecution
  <2>1. execs[e] = {row[e].execution}
    BY DEF FenceInvariant, RowsWellFormed, TokensCarryTheClaim
  <2>2. wire[e] = {}
    BY <2>1 DEF FenceInvariant, TokensCarryTheClaim
  <2>3. ~BeingHandedOver(e)
    BY DEF FenceInvariant, MarkedHoldsTheClaim, MarkedOK, BeingHandedOver, Confirmable
  <2> QED
    BY <2>1, <2>2, <2>3
<1> QED
  BY <1>1, FenceHolds, PTL

\* An absent of the registry is a proof (HostExecutionIndex.lookup).
THEOREM RegistryAbsenceIsProof ==
  ProofMode # "instant" => (Spec => []AbsentIsProof)
<1>1. FenceInvariant => AbsentIsProof
  BY DEF FenceInvariant, TokensCarryTheClaim, MarkedHoldsTheClaim, MarkedOK, AbsentIsProof,
         LocalLookup, BeingHandedOver, Confirmable
<1> QED
  BY <1>1, FenceHolds, PTL

-------------------------------------------------------------------------------
(* What one step may do to one row, and what follows from it. *)

SameMove(e) ==
  /\ row'[e].state = row[e].state /\ row'[e].owner = row[e].owner
  /\ row'[e].gen = row[e].gen /\ row'[e].execution = row[e].execution
ClaimMove(e) ==
  /\ row[e].state \in {"none", "pending"} /\ row'[e].state = "pending"
  /\ row'[e].gen > row[e].gen
ReleaseMove(e) ==
  /\ row[e].state \in {"pending", "creating"} /\ row'[e].state = "pending"
  /\ row'[e].gen > row[e].gen /\ execs[e] = {}
MarkMove(e) ==
  /\ row[e].state = "pending" /\ row'[e].state = "creating"
  /\ row'[e].owner = row[e].owner /\ row'[e].gen = row[e].gen /\ execs[e] = {}
BindMove(e) ==
  /\ row[e].state = "creating" /\ row'[e].state = "created"
  /\ row'[e].owner = row[e].owner /\ row'[e].gen = row[e].gen /\ execs[e] # {}

RowMove(e) ==
  /\ \A f \in Effects : f # e => row'[f] = row[f]
  /\ SameMove(e) \/ ClaimMove(e) \/ ReleaseMove(e) \/ MarkMove(e) \/ BindMove(e)

\* A claim leaves the row alone or starts a newer generation of a pending row.
LEMMA ClaimMoves ==
  ASSUME TypeOK, FenceInvariant, NEW o \in Owners, NEW e \in Effects, NEW h,
         ClaimExecution(o, e, h)
  PROVE  RowMove(e)
<1>1. /\ row'[e] = RowAfterClaim(o, e)
      /\ \A f \in Effects : f # e => row'[f] = row[f]
  BY DEF ClaimExecution, TypeOK
<1>2. row[e] \in RowType /\ row[e].gen \in Nat
  BY MaxGenerationAssumption DEF TypeOK, RowType
<1>3. CASE row[e].state = "none"
  <2>1. row[e].gen = 0
    BY <1>3 DEF FenceInvariant, RowsWellFormed, NoRow
  <2>2. row'[e].state = "pending" /\ row'[e].gen = 1
    BY <1>1, <1>3 DEF RowAfterClaim, NoRow
  <2> QED
    BY <1>1, <1>3, <2>1, <2>2 DEF RowMove, ClaimMove
<1>4. CASE row[e].state = "pending" /\ row[e].owner # o /\ Takeable(e)
  <2>1. row'[e] = [row[e] EXCEPT !.owner = o, !.gen = @ + 1,
                     !.released = FALSE, !.lease = TRUE]
    BY <1>1, <1>4 DEF RowAfterClaim
  <2>2. row'[e].state = "pending" /\ row'[e].gen = row[e].gen + 1
    BY <1>2, <1>4, <2>1 DEF RowType
  <2> QED
    BY <1>1, <1>2, <1>4, <2>2 DEF RowMove, ClaimMove
<1>5. CASE ~(row[e].state = "none") /\
           ~(row[e].state = "pending" /\ row[e].owner # o /\ Takeable(e))
  BY <1>1, <1>5 DEF RowAfterClaim, RowMove, SameMove
<1> QED
  BY <1>3, <1>4, <1>5

\* A release of an unmade claim starts a newer generation.
LEMMA ReleaseMoves ==
  ASSUME TypeOK, NEW e \in Effects, NothingOut(e),
         row[e].state \in {"pending", "creating"},
         row' = [row EXCEPT ![e] = Released(@)]
  PROVE  RowMove(e)
<1>1. row[e] \in RowType /\ row[e].gen \in Nat
  BY MaxGenerationAssumption DEF TypeOK, RowType
<1>2. /\ row'[e] = Released(row[e])
      /\ \A f \in Effects : f # e => row'[f] = row[f]
  BY DEF TypeOK
<1>3. Released(row[e]).gen = row[e].gen + 1 /\ Released(row[e]).state = "pending"
  BY <1>1 DEF Released, RowType
<1> QED
  BY <1>1, <1>2, <1>3 DEF RowMove, ReleaseMove, NothingOut

\* A confirmation of an execution that exists binds a creating row or leaves
\* the claim alone.
LEMMA ConfirmMoves ==
  ASSUME TypeOK, NEW o \in Owners, NEW e \in Effects, NEW x \in execs[e],
         row' = [row EXCEPT ![e] = RowAfterConfirm(o, e, x)]
  PROVE  RowMove(e)
<1>1. row[e] \in RowType
  BY DEF TypeOK
<1>2. /\ row'[e] = RowAfterConfirm(o, e, x)
      /\ \A f \in Effects : f # e => row'[f] = row[f]
  BY DEF TypeOK
<1>3. CASE Confirmable(o, e)
  <2>1. row'[e] = [row[e] EXCEPT !.state = "created", !.execution = x]
    BY <1>2, <1>3 DEF RowAfterConfirm, Confirmable
  <2>2. /\ row'[e].state = "created" /\ row'[e].owner = row[e].owner
        /\ row'[e].gen = row[e].gen
    BY <1>1, <2>1 DEF RowType
  <2> QED
    BY <1>2, <1>3, <2>2 DEF RowMove, BindMove, Confirmable
<1>4. CASE ~Confirmable(o, e)
  <2>1. \/ row'[e] = row[e]
        \/ row'[e] = [row[e] EXCEPT !.refusal = "conflicting-execution"]
        \/ row'[e] = [row[e] EXCEPT !.refusal = "stale-confirmation"]
    BY <1>2, <1>4 DEF RowAfterConfirm
  <2> QED
    BY <1>1, <1>2, <2>1 DEF RowMove, SameMove, RowType
<1> QED
  BY <1>3, <1>4

\* Every step moves at most one row, and the platform makes an execution only
\* from the one token that is out while every row stands still.
LEMMA StepMoves ==
  ASSUME TypeOK, FenceInvariant, [Next]_vars
  PROVE  \/ UNCHANGED <<row, execs>>
         \/ execs' = execs /\ \E e \in Effects : RowMove(e)
         \/ /\ row' = row
            /\ \E e \in Effects, t \in Token :
                 /\ row[e].state = "creating" /\ execs[e] = {}
                 /\ execs' = [execs EXCEPT ![e] = {t}]
<1>1. ASSUME NEW o \in Owners, NEW e \in Effects, Claim(o, e) \/ Reclaim(o, e)
      PROVE  execs' = execs /\ RowMove(e)
  BY <1>1, ClaimMoves DEF Claim, Reclaim, ClaimExecution
<1>2. ASSUME NEW o \in Owners, NEW e \in Effects,
             \/ ProofOfAbsence(o, e) \/ Deliver(o, e)
             \/ LookupLocal(o, e) \/ LookupPlatform(o, e)
      PROVE  UNCHANGED <<row, execs>>
  BY <1>2 DEF ProofOfAbsence, Deliver, LookupLocal, LookupPlatform
<1>3. ASSUME NEW o \in Owners, NEW e \in Effects, ReleaseStale(o, e)
      PROVE  UNCHANGED <<row, execs>> \/ (execs' = execs /\ RowMove(e))
  <2>1. CASE Releasable(e, job[o].ref.owner, job[o].ref.gen)
    <3>1. job[o].ref = RefOf(e)
      BY <2>1 DEF Releasable, IsClaimOf, RefOf, Ref, TypeOK, JobType
    <3>2. NothingOut(e)
      BY <1>3, <3>1 DEF ReleaseStale, At, FenceInvariant, ProofStaysTrue
    <3> QED
      BY <1>3, <2>1, <3>2, ReleaseMoves DEF ReleaseStale, Releasable
  <2>2. CASE ~Releasable(e, job[o].ref.owner, job[o].ref.gen)
    BY <1>3, <2>2 DEF ReleaseStale
  <2> QED
    BY <2>1, <2>2
<1>4. ASSUME NEW o \in Owners, NEW e \in Effects, MarkCreating(o, e)
      PROVE  UNCHANGED <<row, execs>> \/ (execs' = execs /\ RowMove(e))
  <2>1. CASE row[e].state = "pending" /\ IsClaimOf(e, o, claims[o][e])
    <3>1. execs[e] = {}
      BY <2>1 DEF FenceInvariant, TokensCarryTheClaim
    <3>2. row[e] \in RowType
      BY DEF TypeOK
    <3>3. /\ row'[e] = MarkedRow(row[e])
          /\ \A f \in Effects : f # e => row'[f] = row[f]
      BY <1>4, <2>1 DEF MarkCreating, TypeOK
    <3> QED
      BY <1>4, <2>1, <3>1, <3>2, <3>3 DEF MarkCreating, MarkedRow, RowType, RowMove, MarkMove
  <2>2. CASE ~(row[e].state = "pending" /\ IsClaimOf(e, o, claims[o][e]))
    BY <1>4, <2>2 DEF MarkCreating
  <2> QED
    BY <2>1, <2>2
<1>5. ASSUME NEW o \in Owners, NEW e \in Effects, ReleaseAfterThrow(o, e)
      PROVE  UNCHANGED <<row, execs>> \/ (execs' = execs /\ RowMove(e))
  <2>1. CASE Releasable(e, o, claims[o][e])
    <3>1. NothingOut(e)
      BY <1>5, <2>1 DEF ReleaseAfterThrow, At, FenceInvariant, MarkedHoldsTheClaim, MarkedOK
    <3> QED
      BY <1>5, <2>1, <3>1, ReleaseMoves DEF ReleaseAfterThrow, Releasable
  <2>2. CASE ~Releasable(e, o, claims[o][e])
    BY <1>5, <2>2 DEF ReleaseAfterThrow
  <2> QED
    BY <2>1, <2>2
<1>6. ASSUME NEW o \in Owners, NEW e \in Effects, NEW x \in Token,
             ConfirmStarted(o, e, x)
      PROVE  execs' = execs /\ RowMove(e)
  <2>1. x \in execs[e]
    BY <1>6 DEF ConfirmStarted, FenceInvariant, ReportsAreReal
  <2> QED
    BY <1>6, <2>1, ConfirmMoves DEF ConfirmStarted
<1>7. ASSUME NEW o \in Owners, NEW e \in Effects, NEW x \in Token,
             ReportDeliveryFailure(o, e, x)
      PROVE  execs' = execs /\ RowMove(e)
  <2>1. row[e] \in RowType
    BY DEF TypeOK
  <2>2. /\ row'[e] = UnprovenRow(row[e])
        /\ \A f \in Effects : f # e => row'[f] = row[f]
    BY <1>7 DEF ReportDeliveryFailure, TypeOK
  <2> QED
    BY <1>7, <2>1, <2>2 DEF ReportDeliveryFailure, UnprovenRow, RowMove, SameMove, RowType
<1>8. ASSUME NEW o \in Owners, NEW e \in Effects, BindPlatformExecution(o, e)
      PROVE  execs' = execs /\ RowMove(e)
  <2>1. job[o].ref \in execs[e]
    BY <1>8 DEF BindPlatformExecution, At, FenceInvariant, ReportsAreReal
  <2> QED
    BY <1>8, <2>1, ConfirmMoves DEF BindPlatformExecution
<1>9. ASSUME NEW e \in Effects, NEW t \in Token, PlatformResolves(e, t)
      PROVE  /\ row' = row
             /\ \/ execs' = execs
                \/ /\ row[e].state = "creating" /\ execs[e] = {}
                   /\ execs' = [execs EXCEPT ![e] = {t}]
  <2>1. t \in wire[e] /\ row' = row
    BY <1>9 DEF PlatformResolves
  <2>2. execs[e] = {}
    BY <2>1 DEF FenceInvariant, TokensCarryTheClaim
  <2>3. row[e].state = "creating"
    BY <2>1, <2>2 DEF FenceInvariant, TokensCarryTheClaim, RowsWellFormed
  <2>4. execs' = execs \/ execs' = [execs EXCEPT ![e] = @ \cup {t}]
    BY <1>9 DEF PlatformResolves
  <2>5. [execs EXCEPT ![e] = @ \cup {t}] = [execs EXCEPT ![e] = {t}]
    BY <2>2
  <2> QED
    BY <2>1, <2>2, <2>3, <2>4, <2>5
<1>10. ASSUME NEW e \in Effects, LeaseExpires(e) PROVE execs' = execs /\ RowMove(e)
  BY <1>10 DEF LeaseExpires, RowMove, SameMove, TypeOK, RowType
<1>11. ASSUME NEW o \in Owners, Crash(o) PROVE UNCHANGED <<row, execs>>
  BY <1>11 DEF Crash
<1>12. CASE UNCHANGED vars
  BY <1>12 DEF vars
<1> QED
  BY <1>1, <1>2, <1>3, <1>4, <1>5, <1>6, <1>7, <1>8, <1>9, <1>10, <1>11, <1>12 DEF Next

\* The fence only moves forward: generations never go back, a new owner always
\* holds a newer one, and a created row is final (claimExecution,
\* releaseExecution and confirmExecution of GraphStore).
THEOREM FenceForward == ProofMode # "instant" => (Spec => FenceMonotone)
<1> SUFFICES ASSUME ProofMode # "instant" PROVE Spec => FenceMonotone
  OBVIOUS
<1>1. TypeOK /\ TypeOK' /\ FenceInvariant /\ [Next]_vars =>
        [\A e \in Effects : FenceStep(e)]_vars
  <2> SUFFICES ASSUME TypeOK, TypeOK', FenceInvariant, [Next]_vars, NEW e \in Effects
               PROVE  FenceStep(e)
    OBVIOUS
  <2>1. row[e].gen \in Nat /\ row'[e].gen \in Nat
    BY MaxGenerationAssumption DEF TypeOK, RowType
  <2>2. CASE row' = row
    BY <2>1, <2>2 DEF FenceStep
  <2>3. ASSUME NEW f \in Effects, RowMove(f) PROVE FenceStep(e)
    <3>1. CASE e # f
      <4>1. row'[e] = row[e]
        BY <2>3, <3>1 DEF RowMove
      <4> QED
        BY <2>1, <4>1 DEF FenceStep
    <3>2. CASE e = f
      BY <2>1, <2>3, <3>2
      DEF RowMove, SameMove, ClaimMove, ReleaseMove, MarkMove, BindMove, FenceStep
    <3> QED
      BY <3>1, <3>2
  <2> QED
    BY <2>2, <2>3, StepMoves
<1> QED
  BY <1>1, TypeCorrect, FenceHolds, PTL DEF Spec, FenceMonotone

\* The processes, the store and the platform together implement one create
\* right per effect (CreateOnce).
THEOREM Implementation == ProofMode # "instant" => (Spec => ImplementsCreateOnce)
<1> SUFFICES ASSUME ProofMode # "instant" PROVE Spec => ImplementsCreateOnce
  OBVIOUS
<1>1. Init => Once!Init
  BY DEF Init, Once!Init, RightOf, NoRow
<1>2. TypeOK /\ FenceInvariant /\ [Next]_vars => [Once!Next]_(Once!vars)
  <2> SUFFICES ASSUME TypeOK, FenceInvariant, [Next]_vars
               PROVE  Once!Next \/ UNCHANGED Once!vars
    OBVIOUS
  <2>1. CASE UNCHANGED <<row, execs>>
    BY <2>1 DEF Once!vars, RightOf
  <2>2. ASSUME NEW e \in Effects, RowMove(e), execs' = execs
        PROVE  Once!Next \/ UNCHANGED Once!vars
    <3>1. \A f \in Effects : f # e => RightOf(f)' = RightOf(f)
      BY <2>2 DEF RowMove, RightOf
    <3>2. CASE RightOf(e)' = RightOf(e)
      BY <2>2, <3>1, <3>2 DEF Once!vars
    <3>3. CASE MarkMove(e)
      <4>1. RightOf(e) = "free" /\ RightOf(e)' = "spent" /\ execs[e] = {}
        BY <3>3 DEF MarkMove, RightOf
      <4>2. Once!Spend(e)
        BY <2>2, <3>1, <4>1 DEF Once!Spend
      <4> QED
        BY <4>2 DEF Once!Next
    <3>4. CASE BindMove(e)
      <4>1. RightOf(e) = "spent" /\ RightOf(e)' = "bound" /\ execs[e] # {}
        BY <3>4 DEF BindMove, RightOf
      <4>2. Once!Bind(e)
        BY <2>2, <3>1, <4>1 DEF Once!Bind
      <4> QED
        BY <4>2 DEF Once!Next
    <3>5. CASE ReleaseMove(e) /\ row[e].state = "creating"
      <4>1. RightOf(e) = "spent" /\ RightOf(e)' = "free" /\ execs[e] = {}
        BY <3>5 DEF ReleaseMove, RightOf
      <4>2. Once!GiveBack(e)
        BY <2>2, <3>1, <4>1 DEF Once!GiveBack
      <4> QED
        BY <4>2 DEF Once!Next
    <3>6. SameMove(e) \/ ClaimMove(e) \/ (ReleaseMove(e) /\ row[e].state # "creating")
            => RightOf(e)' = RightOf(e)
      BY DEF SameMove, ClaimMove, ReleaseMove, RightOf
    <3> QED
      BY <2>2, <3>2, <3>3, <3>4, <3>5, <3>6 DEF RowMove
  <2>3. ASSUME NEW e \in Effects, NEW t \in Token, row' = row,
               row[e].state = "creating", execs[e] = {},
               execs' = [execs EXCEPT ![e] = {t}]
        PROVE  Once!Next
    <3>1. RightOf(e) = "spent" /\ \A f \in Effects : RightOf(f)' = RightOf(f)
      BY <2>3 DEF RightOf
    <3>2. Once!Make(e, t)
      BY <2>3, <3>1 DEF Once!Make
    <3> QED
      BY <3>2 DEF Once!Next
  <2> QED
    BY <2>1, <2>2, <2>3, StepMoves
<1> QED
  BY <1>1, <1>2, TypeCorrect, FenceHolds, PTL DEF Spec, ImplementsCreateOnce, Once!Spec
===============================================================================
