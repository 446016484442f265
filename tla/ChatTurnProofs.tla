--------------------------- MODULE ChatTurnProofs ---------------------------
(* Proofs about ChatTurn, for every set of turns, devices and tracked stages  *)
(* and every value of the limits.                                             *)
EXTENDS ChatTurn, WellFoundedInduction, TLAPS

-----------------------------------------------------------------------------
(* Every step of the system is one ledger transaction or leaves the ledger    *)
(* alone.                                                                     *)
LedgerStep(t) ==
  \/ BeginTurn(t)
  \/ MarkContextPrepared(t)
  \/ MarkProviderStarted(t)
  \/ SettleInterrupted(t)
  \/ pc[t] = "replied" /\ CompleteCore(t)
  \/ pc[t] = "failing" /\ pc'[t] = "gone" /\ MarkCoreFailed(t)
  \/ \E s \in Tracked :
       \/ \E work : CommitStage(t, s, work)
       \/ AtStage(t, s) /\ (\E work : Outside(s, work)) /\ ClaimStage(t, s)
       \/ pc[t] = "operating" /\ AtOpenStage(t, s) /\ Outside(s, TRUE) /\ OperateOutside(t, s)
       \/ Outside(s, TRUE) /\ CloseStage(t, s)
       \/ \E n \in {0, 1} : MarkStageFailed(t, s, n)
  \/ (\E d \in Devices : rpc[d] = "terminalize" /\ subject[d] = t) /\ TerminalizeMissingInput(t)
  \/ \E who \in {"user", "assistant"} : DeleteMessage(t, who)

RequestStep(t) == ReceiveMessage(t) \/ RequestAdvances(t) \/ RequestFaults(t)
RecoveryStep(d) == RecoveryAdvances(d) \/ RecoveryFaults(d)

RecoveryOperation(d, t) ==
  \/ rpc[d] = "terminalize" /\ TerminalizeMissingInput(t)
  \/ \E s \in Tracked :
       /\ s \in rows[d]
       /\ \/ MayResume(d, s) /\ \E work : CommitStage(t, s, work)
          \/ MarkStageFailed(t, s, 1)

LEMMA RequestLedger ==
  ASSUME TypeOK, NEW t \in Turns, RequestStep(t)
  PROVE  UNCHANGED ledgerVars \/ LedgerStep(t)
<1> USE DEF LedgerStep
<1>1. ASSUME RequestAdvances(t)
      PROVE  UNCHANGED ledgerVars \/ LedgerStep(t)
  <2>1. CASE PrepareContext(t) BY <2>1 DEF PrepareContext
  <2>2. CASE StartProvider(t) BY <2>2 DEF StartProvider
  <2>3. CASE ProviderReplies(t) BY <2>3 DEF ProviderReplies
  <2>4. CASE SaveReply(t) BY <2>4 DEF SaveReply
  <2>5. CASE SaveReplyFails(t) BY <2>5 DEF SaveReplyFails
  <2>6. CASE RecordCoreFailure(t) BY <2>6 DEF RecordCoreFailure, EndHandler, TypeOK
  <2>7. CASE EndRequest(t) BY <2>7 DEF EndRequest
  <2>8. ASSUME NEW s \in Tracked,
               \/ RunStage(t, s) \/ StageRollsBack(t, s) \/ StageNotClaimed(t, s)
               \/ RecordStageFailure(t, s)
               \/ ClaimOutside(t, s) \/ Operate(t, s) \/ CloseOutside(t, s)
        PROVE  UNCHANGED ledgerVars \/ LedgerStep(t)
    <3>1. CASE RunStage(t, s) BY <3>1 DEF RunStage
    <3>2. CASE StageRollsBack(t, s) BY <3>2 DEF StageRollsBack
    <3>3. CASE StageNotClaimed(t, s) BY <3>3 DEF StageNotClaimed
    <3>4. CASE RecordStageFailure(t, s) BY <3>4 DEF RecordStageFailure
    <3>5. CASE ClaimOutside(t, s) BY <3>5 DEF ClaimOutside
    <3>6. CASE Operate(t, s) BY <3>6 DEF Operate
    <3>7. CASE CloseOutside(t, s) BY <3>7 DEF CloseOutside
    <3> QED BY <2>8, <3>1, <3>2, <3>3, <3>4, <3>5, <3>6, <3>7
  <2> QED BY <1>1, <2>1, <2>2, <2>3, <2>4, <2>5, <2>6, <2>7, <2>8 DEF RequestAdvances
<1>2. ASSUME RequestFaults(t)
      PROVE  UNCHANGED ledgerVars \/ LedgerStep(t)
  <2>1. CASE LeavePending(t) BY <2>1 DEF LeavePending
  <2>2. CASE ProviderFails(t) BY <2>2 DEF ProviderFails
  <2>3. CASE SaveReplyUnacknowledged(t) BY <2>3 DEF SaveReplyUnacknowledged
  <2>4. CASE OutsideFails(t) BY <2>4 DEF OutsideFails
  <2>7. CASE LoseCoreFailure(t) BY <2>7 DEF LoseCoreFailure
  <2>5. ASSUME NEW s \in Tracked, RunStageUnacknowledged(t, s)
        PROVE  UNCHANGED ledgerVars \/ LedgerStep(t)
    BY <2>5 DEF RunStageUnacknowledged
  <2>6. ASSUME NEW s \in Tracked, LoseStageFailure(t, s)
        PROVE  UNCHANGED ledgerVars \/ LedgerStep(t)
    BY <2>6 DEF LoseStageFailure
  <2> QED BY <1>2, <2>1, <2>2, <2>3, <2>4, <2>5, <2>6, <2>7 DEF RequestFaults
<1>3. ASSUME ReceiveMessage(t) PROVE LedgerStep(t)
  BY <1>3 DEF ReceiveMessage
<1> QED BY <1>1, <1>2, <1>3 DEF RequestStep

LEMMA RecoveryLedger ==
  ASSUME TypeOK, NEW d \in Devices, RecoveryStep(d)
  PROVE  UNCHANGED ledgerVars \/ RecoveryOperation(d, subject[d])
<1> USE DEF RecoveryOperation
<1>1. ASSUME RecoveryAdvances(d)
      PROVE  UNCHANGED ledgerVars \/ RecoveryOperation(d, subject[d])
  <2>1. CASE ListTurns(d) BY <2>1 DEF ListTurns
  <2>2. CASE TakeTurn(d) BY <2>2 DEF TakeTurn
  <2>3. CASE Terminalize(d) BY <2>3 DEF Terminalize
  <2>4. CASE ReadStages(d) BY <2>4 DEF ReadStages
  <2>5. CASE LeaveTurn(d) BY <2>5 DEF LeaveTurn
  <2>6. CASE FinishRecovery(d) BY <2>6 DEF FinishRecovery
  <2>7. ASSUME NEW s \in Tracked,
               ResumeStage(d, s) \/ PassOver(d, s) \/ RecordResumeFailure(d, s)
        PROVE  UNCHANGED ledgerVars \/ RecoveryOperation(d, subject[d])
    BY <2>7 DEF ResumeStage, PassOver, RecordResumeFailure, MayResume, AtRow, IsFirst
  <2> QED BY <1>1, <2>1, <2>2, <2>3, <2>4, <2>5, <2>6, <2>7 DEF RecoveryAdvances
<1>2. ASSUME RecoveryFaults(d)
      PROVE  UNCHANGED ledgerVars \/ RecoveryOperation(d, subject[d])
  <2>1. CASE ListingFails(d) BY <2>1 DEF ListingFails
  <2>2. CASE ResumeAborts(d) BY <2>2 DEF ResumeAborts
  <2>3. ASSUME NEW s \in Tracked,
               \/ ResumeStageUnacknowledged(d, s) \/ ResumedStageRollsBack(d, s)
               \/ LoseResumeFailure(d, s)
        PROVE  UNCHANGED ledgerVars \/ RecoveryOperation(d, subject[d])
    BY <2>3 DEF ResumeStageUnacknowledged, ResumedStageRollsBack, LoseResumeFailure,
       MayResume, AtRow, IsFirst
  <2> QED BY <1>2, <2>1, <2>2, <2>3 DEF RecoveryFaults
<1> QED BY <1>1, <1>2 DEF RecoveryStep

LEMMA RecoveryIsLedger ==
  ASSUME NEW d \in Devices, NEW t, t = subject[d], RecoveryOperation(d, t)
  PROVE  LedgerStep(t)
  BY DEF RecoveryOperation, LedgerStep

LEMMA StepsOfTheLedger ==
  ASSUME TypeOK, Next
  PROVE  UNCHANGED ledgerVars \/ \E t \in Turns : LedgerStep(t)
<1>1. ASSUME NEW t \in Turns, RequestStep(t)
      PROVE  UNCHANGED ledgerVars \/ LedgerStep(t)
  BY <1>1, RequestLedger
<1>2. ASSUME NEW d \in Devices, RecoveryStep(d)
      PROVE  UNCHANGED ledgerVars \/ \E t \in Turns : LedgerStep(t)
  <2>1. subject[d] \in Turns
    BY DEF TypeOK
  <2> QED BY <1>2, <2>1, RecoveryLedger, RecoveryIsLedger
<1>3. ASSUME NEW t \in Turns, NEW who \in {"user", "assistant"}, UserDeletes(t, who)
      PROVE  LedgerStep(t)
  BY <1>3 DEF UserDeletes, LedgerStep
<1>4. ASSUME NEW d \in Devices, Start(d) \/ Crash(d) \/ Close(d)
      PROVE  UNCHANGED ledgerVars
  BY <1>4 DEF Start, Crash, Close
<1>5. ASSUME NEW d \in Devices, NEW t \in Turns, Settle(d, t)
      PROVE  LedgerStep(t)
  BY <1>5 DEF Settle, LedgerStep
<1> QED
  BY <1>1, <1>2, <1>3, <1>4, <1>5 DEF Next, RequestStep, RecoveryStep

-----------------------------------------------------------------------------
(* Types of the ledger.                                                       *)
LEMMA DerivedStatus ==
  ASSUME NEW r PROVE Derived(r) \in {"partial", "core_completed", "complete"}
  BY DEF Derived

LEMMA TouchedType ==
  ASSUME NEW t \in Turns, older \in SUBSET (Turns \X Turns)
  PROVE  Touched(t) \in SUBSET (Turns \X Turns)
  BY DEF Touched

(* Writing well-typed rows and refreshing keeps the three tables typed.       *)
LEMMA WriteType ==
  ASSUME LedgerTypeOK, NEW t \in Turns, NEW r \in [Stages -> Row], WriteAndRefresh(t, r)
  PROVE  /\ turn' \in [Turns -> TurnRow]
         /\ stage' \in [Turns -> [Stages -> Row]]
         /\ older' \in SUBSET (Turns \X Turns)
<1>1. Derived(r) \in TurnStatus
  BY DerivedStatus DEF TurnStatus
<1>2. older' \in SUBSET (Turns \X Turns)
  BY TouchedType DEF WriteAndRefresh, LedgerTypeOK
<1>3. stage' \in [Turns -> [Stages -> Row]]
  BY DEF WriteAndRefresh, LedgerTypeOK
<1>4. turn' \in [Turns -> TurnRow]
  BY <1>1 DEF WriteAndRefresh, LedgerTypeOK, TurnRow
<1> QED BY <1>2, <1>3, <1>4

LEMMA StatusType ==
  ASSUME NEW p \in Row, NEW st \in RowStatus
  PROVE  [p EXCEPT !.status = st] \in Row
  BY DEF Row

LEMMA CoreRowType ==
  ASSUME NEW s, NEW r \in Row
  PROVE  CoreRow(s, r) \in Row
<1>1. r.attempts \in Nat BY DEF Row
<1>2. CoreRow(s, r) \in {[status |-> "completed", attempts |-> r.attempts],
                         [status |-> "completed", attempts |-> 1], FreshRow, r}
  BY DEF CoreRow
<1>3. /\ [status |-> "completed", attempts |-> r.attempts] \in Row
      /\ [status |-> "completed", attempts |-> 1] \in Row
      /\ FreshRow \in Row
  BY <1>1 DEF Row, RowStatus, FreshRow
<1> QED BY <1>2, <1>3

LEMMA LedgerTypes ==
  ASSUME LedgerTypeOK, NEW t \in Turns, LedgerStep(t)
  PROVE  LedgerTypeOK'
<1> USE DEF LedgerTypeOK
<1>a. Tracked \subseteq Stages /\ Boundary \subseteq Stages
  BY DEF Stages
<1>b. Touched(t) \in SUBSET (Turns \X Turns)
  BY TouchedType
<1>c. MaxStageAttempts \in Nat
  BY AttemptsAssumption
<1>1. CASE BeginTurn(t)
  BY <1>1, <1>b DEF BeginTurn, TurnRow, TurnStatus, Row, RowStatus, FreshRow, NoRow
<1>2. CASE MarkContextPrepared(t)
  BY <1>2, <1>a DEF MarkContextPrepared, Boundary, Row, RowStatus
<1>3. CASE MarkProviderStarted(t)
  BY <1>3, <1>a DEF MarkProviderStarted, Boundary, Row, RowStatus
<1>4. CASE SettleInterrupted(t)
  <2>1. stage' \in [Turns -> [Stages -> Row]]
    <3> DEFINE p == stage[t]["provider_generate"]
    <3>1. "provider_generate" \in Stages
      BY <1>a DEF Boundary
    <3>2. p \in Row
      BY <3>1
    <3>3. stage' = [stage EXCEPT ![t] =
                      [stage[t] EXCEPT !["provider_generate"] = [p EXCEPT !.status = "failed"]]]
      BY <1>4 DEF SettleInterrupted
    <3> HIDE DEF p
    <3>4. [p EXCEPT !.status = "failed"] \in Row
      BY <3>2, StatusType DEF RowStatus
    <3> QED BY <3>1, <3>3, <3>4
  <2>2. turn' \in [Turns -> TurnRow]
    BY <1>4 DEF SettleInterrupted, TurnRow, TurnStatus
  <2> QED BY <1>4, <1>b, <2>1, <2>2 DEF SettleInterrupted
<1>5. CASE CompleteCore(t)
  <2>1. turn' \in [Turns -> TurnRow]
    BY <1>5 DEF CompleteCore, TurnRow, TurnStatus
  <2>2. stage' \in [Turns -> [Stages -> Row]]
    <3> DEFINE r == [s \in Stages |-> CoreRow(s, stage[t][s])]
    <3>1. r \in [Stages -> Row]
      BY CoreRowType
    <3>2. stage' = [stage EXCEPT ![t] = r]
      BY <1>5 DEF CompleteCore
    <3> HIDE DEF r
    <3> QED BY <3>1, <3>2
  <2> QED BY <1>5, <1>b, <2>1, <2>2 DEF CompleteCore
<1>6. CASE MarkCoreFailed(t)
  <2>1. CASE turn[t].core
    BY <1>6, <2>1, Zenon DEF MarkCoreFailed
  <2>2. CASE ~turn[t].core
    <3>1. /\ turn' = [turn EXCEPT ![t].status = "core_failed"]
          /\ older' = Touched(t) /\ UNCHANGED <<stage, found, produced, applied>>
      BY <1>6, <2>2, Zenon DEF MarkCoreFailed
    <3>2. turn' \in [Turns -> TurnRow]
      BY <3>1 DEF TurnRow, TurnStatus
    <3> QED BY <3>1, <3>2, <1>b
  <2> QED BY <2>1, <2>2
<1>7. ASSUME NEW s \in Tracked, NEW work, CommitStage(t, s, work)
      PROVE  LedgerTypeOK'
  <2> DEFINE r == [stage[t] EXCEPT ![s] =
                     [status |-> "completed", attempts |-> @.attempts + 1]]
  <2>1. r \in [Stages -> Row]
    BY <1>a DEF Row, RowStatus
  <2>2. WriteAndRefresh(t, r)
    BY <1>7 DEF CommitStage
  <2>3. found' \in [Turns -> SUBSET Products] /\ produced' \in [Turns -> SUBSET Products]
    <3>1. CASE ~work
      BY <1>7, <3>1 DEF CommitStage
    <3>2. CASE work
      <4>1. CASE NoProduct(t) BY <4>1 DEF NoProduct
      <4>2. CASE s \in Products /\ OwnRow(t, s) BY <4>2 DEF OwnRow
      <4>3. CASE DuplicateDecision(t) BY <4>3 DEF DuplicateDecision, Products
      <4>4. ASSUME NEW u \in Turns, MergedEpisode(t, u)
            PROVE  /\ found' \in [Turns -> SUBSET Products]
                   /\ produced' \in [Turns -> SUBSET Products]
        BY <4>4 DEF MergedEpisode, Products
      <4> QED BY <1>7, <3>2, <4>1, <4>2, <4>3, <4>4 DEF CommitStage, LeavesProduct
    <3> QED BY <3>1, <3>2
  <2>4. applied' \in [Turns -> [Stages -> Nat]]
    <3>1. CASE ~work BY <1>7, <3>1 DEF CommitStage
    <3>2. CASE work BY <1>7, <3>2, <1>a DEF CommitStage
    <3> QED BY <3>1, <3>2
  <2> QED BY <2>1, <2>2, <2>3, <2>4, WriteType
<1>8. ASSUME NEW s \in Tracked, ClaimStage(t, s)
      PROVE  LedgerTypeOK'
  BY <1>8, <1>a DEF ClaimStage, Row, RowStatus
<1>9. ASSUME NEW s \in Tracked, OperateOutside(t, s)
      PROVE  LedgerTypeOK'
  BY <1>9, <1>a DEF OperateOutside
<1>10. ASSUME NEW s \in Tracked, CloseStage(t, s)
       PROVE  LedgerTypeOK'
  <2> DEFINE r == [stage[t] EXCEPT ![s].status =
                     IF @ = "running" THEN "completed" ELSE @]
  <2>1. r \in [Stages -> Row]
    <3>1. s \in Stages /\ stage[t] \in [Stages -> Row] /\ stage[t][s] \in Row
      BY <1>a
    <3>2. [stage[t][s] EXCEPT !.status = IF @ = "running" THEN "completed" ELSE @] \in Row
      BY <3>1 DEF Row, RowStatus
    <3>3. r = [stage[t] EXCEPT ![s] =
                 [stage[t][s] EXCEPT !.status = IF @ = "running" THEN "completed" ELSE @]]
      BY <3>1
    <3> HIDE DEF r
    <3> QED BY <3>1, <3>2, <3>3
  <2> QED BY <1>10, <2>1, WriteType DEF CloseStage
<1>11. ASSUME NEW s \in Tracked, NEW n \in {0, 1}, MarkStageFailed(t, s, n)
       PROVE  LedgerTypeOK'
  <2> DEFINE r == [stage[t] EXCEPT ![s] =
                     IF @.status \in {"pending", "running", "failed"}
                     THEN [status |-> "failed", attempts |-> @.attempts + n] ELSE @]
  <2>1. r \in [Stages -> Row]
    BY <1>a DEF Row, RowStatus
  <2> QED BY <1>11, <2>1, WriteType DEF MarkStageFailed
<1>12. CASE TerminalizeMissingInput(t)
  <2>1. stage' \in [Turns -> [Stages -> Row]]
    BY <1>12, <1>c DEF TerminalizeMissingInput, Row, RowStatus
  <2>2. turn' \in [Turns -> TurnRow]
    <3>1. CASE turn[t].core
      <4>1. turn' = [turn EXCEPT ![t].status = "partial"]
        BY <1>12, <3>1, Zenon DEF TerminalizeMissingInput
      <4> QED BY <4>1 DEF TurnRow, TurnStatus
    <3>2. CASE ~turn[t].core
      BY <1>12, <3>2, Zenon DEF TerminalizeMissingInput
    <3> QED BY <3>1, <3>2
  <2> QED BY <1>12, <1>b, <2>1, <2>2 DEF TerminalizeMissingInput
<1>13. ASSUME NEW who \in {"user", "assistant"}, DeleteMessage(t, who)
       PROVE  LedgerTypeOK'
  <2>1. turn' \in [Turns -> TurnRow]
    BY <1>13 DEF DeleteMessage, TurnRow
  <2> QED BY <1>13, <2>1 DEF DeleteMessage
<1> QED
  BY <1>1, <1>2, <1>3, <1>4, <1>5, <1>6, <1>7, <1>8, <1>9, <1>10, <1>11, <1>12, <1>13
     DEF LedgerStep

-----------------------------------------------------------------------------
(* Types of the local variables of requests and recoveries.                   *)
RequestTypes ==
  /\ pc \in [Turns -> RequestPc]
  /\ left \in [Turns -> SUBSET Tracked]
  /\ has \in [Turns -> SUBSET Products]
  /\ chosen \in [Turns -> BOOLEAN]

RecoveryTypes ==
  /\ rpc \in [Devices -> RecoveryPc]
  /\ batch \in [Devices -> SUBSET Turns]
  /\ subject \in [Devices -> Turns]
  /\ inputs \in [Devices -> SUBSET Products]
  /\ seen \in [Devices -> SUBSET Stages]
  /\ rows \in [Devices -> SUBSET Tracked]

BudgetTypes == faults \in Nat /\ crashes \in Nat /\ deletions \in Nat

LEMMA TypeParts == TypeOK <=> LedgerTypeOK /\ RequestTypes /\ RecoveryTypes /\ BudgetTypes
  BY DEF TypeOK, RequestTypes, RecoveryTypes, BudgetTypes

LEMMA RequestStepTypes ==
  ASSUME TypeOK, NEW t \in Turns, RequestAdvances(t) \/ RequestFaults(t) \/ ReceiveMessage(t)
  PROVE  RequestTypes' /\ UNCHANGED recoveryVars
<1> USE DEF TypeOK, RequestTypes, RequestPc, Live
<1>1. CASE PrepareContext(t) \/ StartProvider(t) \/ ProviderFails(t) \/ OutsideFails(t)
  BY <1>1 DEF PrepareContext, StartProvider, ProviderFails, OutsideFails
<1>9. CASE SaveReplyUnacknowledged(t) \/ ReceiveMessage(t)
  BY <1>9 DEF SaveReplyUnacknowledged, ReceiveMessage
<1>7. CASE ProviderReplies(t)
  BY <1>7 DEF ProviderReplies
<1>8. CASE SaveReplyFails(t)
  BY <1>8 DEF SaveReplyFails
<1>2. CASE SaveReply(t)
  BY <1>2 DEF SaveReply
<1>3. CASE RecordCoreFailure(t) \/ LoseCoreFailure(t) \/ EndRequest(t) \/ LeavePending(t)
  <2>1. EndHandler(t) /\ UNCHANGED recoveryVars
    BY <1>3 DEF RecordCoreFailure, LoseCoreFailure, EndRequest, LeavePending
  <2> QED BY <2>1 DEF EndHandler
<1>4. ASSUME NEW s \in Tracked, RunStage(t, s)
      PROVE  RequestTypes' /\ UNCHANGED recoveryVars
  <2>1. produced' \in [Turns -> SUBSET Products]
    <3>1. LedgerStep(t) BY <1>4 DEF RunStage, LedgerStep
    <3> QED BY <3>1, LedgerTypes DEF LedgerTypeOK
  <2>2. has' \in [Turns -> SUBSET Products]
    BY <1>4, <2>1 DEF RunStage
  <2> QED BY <1>4, <2>2 DEF RunStage, PassStage
<1>5. ASSUME NEW s \in Tracked,
             \/ StageNotClaimed(t, s) \/ RecordStageFailure(t, s)
             \/ CloseOutside(t, s) \/ LoseStageFailure(t, s)
      PROVE  RequestTypes' /\ UNCHANGED recoveryVars
  <2>1. PassStage(t, s) /\ UNCHANGED <<has, chosen, recoveryVars>>
    BY <1>5 DEF StageNotClaimed, RecordStageFailure, CloseOutside, LoseStageFailure
  <2> QED BY <2>1 DEF PassStage
<1>6. ASSUME NEW s \in Tracked,
             \/ StageRollsBack(t, s) \/ ClaimOutside(t, s) \/ Operate(t, s)
             \/ RunStageUnacknowledged(t, s)
      PROVE  RequestTypes' /\ UNCHANGED recoveryVars
  BY <1>6 DEF StageRollsBack, ClaimOutside, Operate, RunStageUnacknowledged
<1> QED
  BY <1>1, <1>2, <1>3, <1>4, <1>5, <1>6, <1>7, <1>8, <1>9
     DEF RequestAdvances, RequestFaults

LEMMA RecoveryStepTypes ==
  ASSUME TypeOK, NEW d \in Devices, RecoveryAdvances(d) \/ RecoveryFaults(d) \/ Start(d) \/ Close(d)
  PROVE  RecoveryTypes' /\ UNCHANGED requestVars
<1> USE DEF TypeOK, RecoveryTypes, RecoveryPc
<1>1. CASE ListTurns(d) BY <1>1 DEF ListTurns
<1>2. CASE TakeTurn(d)
  BY <1>2 DEF TakeTurn, LedgerTypeOK
<1>3. CASE Terminalize(d) \/ LeaveTurn(d) \/ ResumeAborts(d)
  BY <1>3 DEF Terminalize, LeaveTurn, ResumeAborts, Forget
<1>4. CASE ReadStages(d)
  BY <1>4 DEF ReadStages, Completed, Candidates
<1>5. CASE FinishRecovery(d) \/ ListingFails(d) \/ Start(d) \/ Close(d)
  BY <1>5 DEF FinishRecovery, ListingFails, Start, Close
<1>6. ASSUME NEW s \in Tracked,
             \/ ResumeStage(d, s) \/ PassOver(d, s) \/ RecordResumeFailure(d, s)
             \/ LoseResumeFailure(d, s)
      PROVE  RecoveryTypes' /\ UNCHANGED requestVars
  BY <1>6 DEF ResumeStage, PassOver, RecordResumeFailure, LoseResumeFailure, PassRow, Stages
<1>7. ASSUME NEW s \in Tracked,
             ResumeStageUnacknowledged(d, s) \/ ResumedStageRollsBack(d, s)
      PROVE  RecoveryTypes' /\ UNCHANGED requestVars
  BY <1>7 DEF ResumeStageUnacknowledged, ResumedStageRollsBack
<1> QED
  BY <1>1, <1>2, <1>3, <1>4, <1>5, <1>6, <1>7 DEF RecoveryAdvances, RecoveryFaults

LEMMA BudgetStepTypes ==
  ASSUME TypeOK, Next
  PROVE  BudgetTypes'
<1> USE DEF TypeOK, BudgetTypes, LostAck, Fault, NoFault, Elsewhere
<1>1. ASSUME NEW t \in Turns, RequestAdvances(t) \/ RequestFaults(t) \/ ReceiveMessage(t)
      PROVE  BudgetTypes'
  <2>1. Elsewhere /\ (NoFault \/ Fault)
    BY <1>1 DEF RequestAdvances, RequestFaults, ReceiveMessage, PrepareContext, StartProvider,
       ProviderReplies, SaveReply, SaveReplyFails, RecordCoreFailure, EndRequest, RunStage,
       StageRollsBack, StageNotClaimed, RecordStageFailure, ClaimOutside, Operate, CloseOutside,
       LeavePending, ProviderFails, SaveReplyUnacknowledged, LoseCoreFailure, OutsideFails,
       RunStageUnacknowledged, LoseStageFailure
  <2> QED BY <2>1
<1>2. ASSUME NEW d \in Devices, RecoveryAdvances(d) \/ RecoveryFaults(d) \/ Start(d) \/ Close(d)
      PROVE  BudgetTypes'
  <2>1. Elsewhere /\ (NoFault \/ Fault)
    BY <1>2 DEF RecoveryAdvances, RecoveryFaults, Start, Close, ListTurns, ListingFails, TakeTurn,
       Terminalize, ReadStages, LeaveTurn, FinishRecovery, ResumeStage, PassOver,
       RecordResumeFailure, ResumeAborts, ResumeStageUnacknowledged, ResumedStageRollsBack,
       LoseResumeFailure
  <2> QED BY <2>1
<1>3. ASSUME NEW d \in Devices, Crash(d) \/ \E t \in Turns : Settle(d, t)
      PROVE  BudgetTypes'
  BY <1>3 DEF Crash, Settle
<1>4. ASSUME NEW t \in Turns, NEW who \in {"user", "assistant"}, UserDeletes(t, who)
      PROVE  BudgetTypes'
  BY <1>4 DEF UserDeletes
<1> QED BY <1>1, <1>2, <1>3, <1>4 DEF Next

LEMMA TypesHold ==
  ASSUME TypeOK, [Next]_vars
  PROVE  TypeOK'
<1>1. CASE UNCHANGED vars
  BY <1>1 DEF vars, ledgerVars, requestVars, recoveryVars, budgetVars, TypeOK, LedgerTypeOK
<1>2. CASE Next
  <2>1. LedgerTypeOK'
    <3>1. CASE UNCHANGED ledgerVars
      BY <3>1 DEF ledgerVars, TypeOK, LedgerTypeOK
    <3>2. CASE \E t \in Turns : LedgerStep(t)
      BY <3>2, LedgerTypes DEF TypeOK
    <3> QED BY <1>2, <3>1, <3>2, StepsOfTheLedger
  <2>2. BudgetTypes'
    BY <1>2, BudgetStepTypes
  <2>3. RequestTypes' /\ RecoveryTypes'
    <3>1. ASSUME UNCHANGED requestVars PROVE RequestTypes'
      BY <3>1 DEF TypeOK, RequestTypes, requestVars
    <3>2. ASSUME UNCHANGED recoveryVars PROVE RecoveryTypes'
      BY <3>2 DEF TypeOK, RecoveryTypes, recoveryVars
    <3>3. ASSUME NEW t \in Turns, RequestAdvances(t) \/ RequestFaults(t) \/ ReceiveMessage(t)
          PROVE  RequestTypes' /\ RecoveryTypes'
      BY <3>2, <3>3, RequestStepTypes
    <3>4. ASSUME NEW d \in Devices,
                 RecoveryAdvances(d) \/ RecoveryFaults(d) \/ Start(d) \/ Close(d)
          PROVE  RequestTypes' /\ RecoveryTypes'
      BY <3>1, <3>4, RecoveryStepTypes
    <3>5. ASSUME NEW d \in Devices, Crash(d)
          PROVE  RequestTypes' /\ RecoveryTypes'
      <4>1. RequestTypes'
        BY <3>5 DEF Crash, TypeOK, RequestTypes, RequestPc
      <4>2. RecoveryTypes'
        BY <3>5 DEF Crash, Forget, TypeOK, RecoveryTypes, RecoveryPc
      <4> QED BY <4>1, <4>2
    <3>6. ASSUME NEW d \in Devices, NEW t \in Turns, Settle(d, t)
          PROVE  RequestTypes' /\ RecoveryTypes'
      BY <3>1, <3>2, <3>6 DEF Settle
    <3>7. ASSUME NEW t \in Turns, NEW who \in {"user", "assistant"}, UserDeletes(t, who)
          PROVE  RequestTypes' /\ RecoveryTypes'
      BY <3>1, <3>2, <3>7 DEF UserDeletes
    <3> QED BY <1>2, <3>3, <3>4, <3>5, <3>6, <3>7 DEF Next
  <2> QED BY <2>1, <2>2, <2>3 DEF TypeOK, RequestTypes, RecoveryTypes, BudgetTypes
<1> QED BY <1>1, <1>2

LEMMA TypesAtFirst == Init => TypeOK
<1> SUFFICES ASSUME Init PROVE TypeOK
  OBVIOUS
<1>1. LedgerTypeOK
  BY DEF Init, LedgerInit, LedgerTypeOK, TurnRow, TurnStatus, Row, RowStatus, NoRow
<1>2. RequestTypes
  BY DEF Init, RequestTypes, RequestPc
<1>3. RecoveryTypes
  BY DEF Init, RecoveryTypes, RecoveryPc
<1>4. BudgetTypes
  BY DEF Init, BudgetTypes
<1> QED BY <1>1, <1>2, <1>3, <1>4 DEF TypeOK, RequestTypes, RecoveryTypes, BudgetTypes

(* Every table and every local variable keeps its type, whatever the turns,   *)
(* devices, tracked stages and limits are.                                    *)
THEOREM Types == Spec => []TypeOK
<1>1. Init => TypeOK
  BY TypesAtFirst
<1>2. TypeOK /\ [Next]_vars => TypeOK'
  BY TypesHold
<1> QED BY <1>1, <1>2, PTL DEF Spec

-----------------------------------------------------------------------------
(* What a turn owns: a ledger step of t leaves the other turns alone.         *)
LEMMA OtherTurns ==
  ASSUME LedgerTypeOK, NEW t \in Turns, LedgerStep(t), NEW u \in Turns, u # t
  PROVE  turn'[u] = turn[u] /\ stage'[u] = stage[u] /\ applied'[u] = applied[u]
<1> USE DEF LedgerTypeOK
<1>1. CASE BeginTurn(t) BY <1>1 DEF BeginTurn
<1>2. CASE MarkContextPrepared(t) BY <1>2 DEF MarkContextPrepared
<1>3. CASE MarkProviderStarted(t) BY <1>3 DEF MarkProviderStarted
<1>4. CASE SettleInterrupted(t) BY <1>4 DEF SettleInterrupted
<1>5. CASE CompleteCore(t) BY <1>5 DEF CompleteCore
<1>6. CASE MarkCoreFailed(t)
  <2>1. CASE turn[t].core BY <1>6, <2>1, Zenon DEF MarkCoreFailed
  <2>2. CASE ~turn[t].core
    <3>1. turn' = [turn EXCEPT ![t].status = "core_failed"] /\ UNCHANGED <<stage, applied>>
      BY <1>6, <2>2, Zenon DEF MarkCoreFailed
    <3> QED BY <3>1
  <2> QED BY <2>1, <2>2
<1>7. ASSUME NEW s \in Tracked, NEW work, CommitStage(t, s, work)
      PROVE  turn'[u] = turn[u] /\ stage'[u] = stage[u] /\ applied'[u] = applied[u]
  <2>1. turn'[u] = turn[u] /\ stage'[u] = stage[u]
    BY <1>7 DEF CommitStage, WriteAndRefresh
  <2>2. CASE work BY <1>7, <2>1, <2>2 DEF CommitStage
  <2>3. CASE ~work BY <1>7, <2>1, <2>3 DEF CommitStage
  <2> QED BY <2>2, <2>3
<1>8. ASSUME NEW s \in Tracked, ClaimStage(t, s)
      PROVE  turn'[u] = turn[u] /\ stage'[u] = stage[u] /\ applied'[u] = applied[u]
  BY <1>8 DEF ClaimStage
<1>9. ASSUME NEW s \in Tracked, OperateOutside(t, s)
      PROVE  turn'[u] = turn[u] /\ stage'[u] = stage[u] /\ applied'[u] = applied[u]
  BY <1>9 DEF OperateOutside
<1>10. ASSUME NEW s \in Tracked, CloseStage(t, s)
       PROVE  turn'[u] = turn[u] /\ stage'[u] = stage[u] /\ applied'[u] = applied[u]
  BY <1>10 DEF CloseStage, WriteAndRefresh
<1>11. ASSUME NEW s \in Tracked, NEW n \in {0, 1}, MarkStageFailed(t, s, n)
       PROVE  turn'[u] = turn[u] /\ stage'[u] = stage[u] /\ applied'[u] = applied[u]
  BY <1>11 DEF MarkStageFailed, WriteAndRefresh
<1>12. CASE TerminalizeMissingInput(t)
  <2>1. turn'[u] = turn[u]
    <3>1. \/ turn' = turn
          \/ turn' = [turn EXCEPT ![t].status = "partial"]
      BY <1>12, Zenon DEF TerminalizeMissingInput
    <3> QED BY <3>1
  <2> QED BY <1>12, <2>1 DEF TerminalizeMissingInput
<1>13. ASSUME NEW who \in {"user", "assistant"}, DeleteMessage(t, who)
       PROVE  turn'[u] = turn[u] /\ stage'[u] = stage[u] /\ applied'[u] = applied[u]
  BY <1>13 DEF DeleteMessage
<1> QED
  BY <1>1, <1>2, <1>3, <1>4, <1>5, <1>6, <1>7, <1>8, <1>9, <1>10, <1>11, <1>12, <1>13
     DEF LedgerStep

(* What a refresh does to its own turn.                                       *)
LEMMA RefreshEffect ==
  ASSUME LedgerTypeOK, NEW t \in Turns, NEW r, WriteAndRefresh(t, r)
  PROVE  /\ stage'[t] = r
         /\ turn'[t].core = turn[t].core /\ turn'[t].assistant = turn[t].assistant
         /\ turn'[t].user = turn[t].user
         /\ turn[t].core => turn'[t].status = Derived(r)
         /\ ~turn[t].core => turn'[t].status = turn[t].status
<1> DEFINE v == IF turn[t].core THEN Derived(r) ELSE turn[t].status
<1>1. stage'[t] = r
  BY DEF WriteAndRefresh, LedgerTypeOK
<1>2. turn' = [turn EXCEPT ![t].status = v]
  BY DEF WriteAndRefresh
<1>3. (turn[t].core => v = Derived(r)) /\ (~turn[t].core => v = turn[t].status)
  OBVIOUS
<1> HIDE DEF v
<1>4. /\ turn'[t].core = turn[t].core /\ turn'[t].assistant = turn[t].assistant
      /\ turn'[t].user = turn[t].user /\ turn'[t].status = v
  BY <1>2 DEF LedgerTypeOK, TurnRow
<1> QED BY <1>1, <1>3, <1>4

-----------------------------------------------------------------------------
(* The inductive invariant of the ledger.  CoreTruth and LedgerTruth are not  *)
(* inductive by themselves: that the core transaction completes the whole     *)
(* boundary needs the state of the boundary before it.                        *)
CoreTruthOf(t) ==
  /\ turn[t].core <=> turn[t].status \in {"core_completed", "partial", "complete"}
  /\ turn[t].assistant => turn[t].core
  /\ turn[t].core => \A s \in Boundary : stage[t][s].status = "completed"
  /\ ~turn[t].core => \A s \in Tracked : stage[t][s].status = "absent"

OpenBoundaryOf(t) ==
  /\ turn[t].status = "none" => \A s \in Stages : stage[t][s].status = "absent"
  /\ ~turn[t].core =>
       IF stage[t]["context_prepare"].status = "absent"
       THEN stage[t]["assistant_persist"].status = "absent"
       ELSE stage[t]["assistant_persist"].status = "pending"

LedgerTruthOf(t) ==
  \A s \in Transactional :
    /\ applied[t][s] <= 1
    /\ stage[t][s].status # "completed" => applied[t][s] = 0

LedgerInv ==
  /\ LedgerTypeOK
  /\ \A t \in Turns : CoreTruthOf(t) /\ OpenBoundaryOf(t) /\ LedgerTruthOf(t)

LEMMA StageKinds ==
  /\ Tracked \cap Boundary = {} /\ Automatic \cap Boundary = {}
  /\ Automatic \cap Stages \subseteq Tracked
  /\ Tracked \subseteq Stages /\ Boundary \subseteq Stages /\ Transactional \subseteq Tracked
<1>1. PostStages \cap Boundary = {} /\ Automatic \subseteq PostStages
  BY DEF PostStages, Automatic, Boundary
<1> QED BY <1>1, TrackedAssumption DEF Stages, Transactional

LEMMA TurnRecords ==
  ASSUME LedgerTypeOK, NEW t \in Turns
  PROVE  /\ turn[t] \in TurnRow /\ stage[t] \in [Stages -> Row]
         /\ turn[t].core \in BOOLEAN /\ turn[t].assistant \in BOOLEAN
         /\ turn[t].status \in TurnStatus
  BY DEF LedgerTypeOK, TurnRow

(* A refresh keeps the core facts when it leaves the boundary alone and, in   *)
(* an unanswered turn, adds no post-stage.                                    *)
LEMMA RefreshKeepsCore ==
  ASSUME LedgerInv, NEW t \in Turns, NEW r, WriteAndRefresh(t, r),
         \A s \in Boundary : r[s] = stage[t][s],
         ~turn[t].core => \A s \in Stages : r[s] = stage[t][s]
  PROVE  CoreTruthOf(t)' /\ OpenBoundaryOf(t)'
<1>1. turn[t] \in TurnRow /\ turn[t].core \in BOOLEAN
  BY TurnRecords DEF LedgerInv
<1>2. stage'[t] = r
  BY RefreshEffect DEF LedgerInv
<1>3. turn'[t].core = turn[t].core /\ turn'[t].assistant = turn[t].assistant
  BY <1>1, RefreshEffect DEF LedgerInv
<1>4. turn[t].core => turn'[t].status \in {"core_completed", "partial", "complete"}
  BY <1>1, RefreshEffect, DerivedStatus DEF LedgerInv
<1>5. ~turn[t].core => turn'[t].status = turn[t].status
  BY <1>1, RefreshEffect DEF LedgerInv
<1>6. CoreTruthOf(t)'
  BY <1>2, <1>3, <1>4, <1>5, StageKinds DEF CoreTruthOf, LedgerInv
<1>7. OpenBoundaryOf(t)'
  BY <1>2, <1>3, <1>4, <1>5, StageKinds DEF OpenBoundaryOf, LedgerInv, Boundary
<1> QED BY <1>6, <1>7

(* The transactions of the request up to the reply.                           *)
LEMMA BoundaryKeepsInv ==
  ASSUME LedgerInv, NEW t \in Turns,
         \/ BeginTurn(t) \/ MarkContextPrepared(t) \/ MarkProviderStarted(t)
         \/ SettleInterrupted(t) \/ CompleteCore(t) \/ MarkCoreFailed(t)
  PROVE  CoreTruthOf(t)' /\ OpenBoundaryOf(t)' /\ LedgerTruthOf(t)'
<1>a. LedgerTypeOK /\ CoreTruthOf(t) /\ OpenBoundaryOf(t) /\ LedgerTruthOf(t)
  BY DEF LedgerInv
<1>b. /\ turn[t] \in TurnRow /\ stage[t] \in [Stages -> Row]
      /\ turn[t].core \in BOOLEAN /\ turn[t].assistant \in BOOLEAN
  BY <1>a, TurnRecords
<1>c. {"context_prepare", "provider_generate", "assistant_persist"} = Boundary
  BY DEF Boundary
<1>d. Boundary \subseteq Stages /\ \A s \in Transactional : s \in Stages /\ s \in Tracked /\ s \notin Boundary
  BY StageKinds
<1>1. CASE BeginTurn(t)
  <2>1. /\ turn'[t] = [status |-> "pending", core |-> FALSE, user |-> TRUE, assistant |-> FALSE]
        /\ stage'[t] = [s \in Stages |-> IF s \in Boundary THEN FreshRow ELSE NoRow]
        /\ applied' = applied /\ ~turn[t].core
    BY <1>1, <1>a DEF BeginTurn, LedgerTypeOK, CoreTruthOf
  <2>2. CoreTruthOf(t)'
    BY <2>1, StageKinds DEF CoreTruthOf, NoRow
  <2>3. OpenBoundaryOf(t)'
    BY <2>1, <1>c, <1>d DEF OpenBoundaryOf, FreshRow
  <2>4. LedgerTruthOf(t)'
    BY <2>1, <1>a, <1>d DEF LedgerTruthOf, CoreTruthOf, NoRow
  <2> QED BY <2>2, <2>3, <2>4
<1>2. CASE MarkContextPrepared(t)
  <2>1. /\ turn' = turn /\ applied' = applied /\ ~turn[t].core
        /\ stage[t]["context_prepare"].status = "pending"
        /\ turn[t].status # "none"
    BY <1>2 DEF MarkContextPrepared, CoreOpen
  <2>2. stage'[t] = [stage[t] EXCEPT !["context_prepare"] = [status |-> "completed", attempts |-> 1]]
    BY <1>2, <1>a DEF MarkContextPrepared, LedgerTypeOK
  <2>3. CoreTruthOf(t)'
    BY <2>1, <2>2, <1>a, <1>b, <1>c, StageKinds DEF CoreTruthOf
  <2>4. OpenBoundaryOf(t)'
    BY <2>1, <2>2, <1>a, <1>b, <1>c, <1>d DEF OpenBoundaryOf
  <2>5. LedgerTruthOf(t)'
    BY <2>1, <2>2, <1>a, <1>b, <1>c, <1>d DEF LedgerTruthOf
  <2> QED BY <2>3, <2>4, <2>5
<1>3. CASE MarkProviderStarted(t) \/ SettleInterrupted(t)
  <2>1. /\ applied' = applied /\ ~turn[t].core /\ turn[t].status = "pending"
        /\ turn'[t].core = turn[t].core /\ turn'[t].assistant = turn[t].assistant
        /\ turn'[t].status \in {"pending", "core_failed"}
    <3>1. CASE MarkProviderStarted(t)
      BY <3>1 DEF MarkProviderStarted, CoreOpen
    <3>2. CASE SettleInterrupted(t)
      <4>1. turn' = [turn EXCEPT ![t].status = "core_failed"]
        BY <3>2 DEF SettleInterrupted
      <4> QED BY <3>2, <4>1, <1>a, <1>b DEF SettleInterrupted, CoreTruthOf, LedgerTypeOK, TurnRow
    <3> QED BY <1>3, <3>1, <3>2
  <2>2. \A s \in Stages \ {"provider_generate"} : stage'[t][s] = stage[t][s]
    BY <1>3, <1>a, <1>b DEF MarkProviderStarted, SettleInterrupted, LedgerTypeOK
  <2>3. CoreTruthOf(t)'
    BY <2>1, <2>2, <1>a, <1>b, <1>c, StageKinds DEF CoreTruthOf
  <2>4. OpenBoundaryOf(t)'
    BY <2>1, <2>2, <1>a, <1>b, <1>c, <1>d DEF OpenBoundaryOf
  <2>5. LedgerTruthOf(t)'
    BY <2>1, <2>2, <1>a, <1>b, <1>c, <1>d DEF LedgerTruthOf
  <2> QED BY <2>3, <2>4, <2>5
<1>4. CASE CompleteCore(t)
  <2>1. /\ turn'[t].core /\ turn'[t].status = "core_completed" /\ applied' = applied
        /\ ~turn[t].core
        /\ stage[t]["context_prepare"].status = "completed"
        /\ stage[t]["provider_generate"].status = "running"
    BY <1>4, <1>a, <1>b DEF CompleteCore, BoundaryHeld, LedgerTypeOK, TurnRow
  <2>2. stage'[t] = [s \in Stages |-> CoreRow(s, stage[t][s])]
    BY <1>4, <1>a DEF CompleteCore, LedgerTypeOK
  <2>3. stage[t]["assistant_persist"].status = "pending"
    BY <2>1, <1>a DEF OpenBoundaryOf
  <2>4. \A s \in Boundary : stage'[t][s].status = "completed"
    <3>1. /\ stage'[t]["context_prepare"] = CoreRow("context_prepare", stage[t]["context_prepare"])
          /\ stage'[t]["provider_generate"] = CoreRow("provider_generate", stage[t]["provider_generate"])
          /\ stage'[t]["assistant_persist"] = CoreRow("assistant_persist", stage[t]["assistant_persist"])
      BY <2>2, <1>c, <1>d
    <3>2. stage'[t]["context_prepare"].status = "completed"
      BY <3>1, <2>1, <1>c, StageKinds DEF CoreRow
    <3>3. stage'[t]["provider_generate"].status = "completed"
      BY <3>1, <2>1 DEF CoreRow
    <3>4. stage'[t]["assistant_persist"].status = "completed"
      BY <3>1, <2>3 DEF CoreRow
    <3> QED BY <3>2, <3>3, <3>4, <1>c
  <2>5. CoreTruthOf(t)'
    BY <2>1, <2>4 DEF CoreTruthOf
  <2>6. OpenBoundaryOf(t)'
    BY <2>1 DEF OpenBoundaryOf
  <2>7. LedgerTruthOf(t)'
    BY <2>1, <1>a, <1>d DEF LedgerTruthOf, CoreTruthOf
  <2> QED BY <2>5, <2>6, <2>7
<1>5. CASE MarkCoreFailed(t)
  <2>1. CASE turn[t].core
    <3>1. turn' = turn /\ stage' = stage /\ applied' = applied
      BY <1>5, <2>1, Zenon DEF MarkCoreFailed
    <3> QED BY <3>1, <1>a DEF CoreTruthOf, OpenBoundaryOf, LedgerTruthOf
  <2>2. CASE ~turn[t].core
    <3>1. turn' = [turn EXCEPT ![t].status = "core_failed"] /\ stage' = stage /\ applied' = applied
      BY <1>5, <2>2, Zenon DEF MarkCoreFailed
    <3>2. /\ turn'[t].core = turn[t].core /\ turn'[t].assistant = turn[t].assistant
          /\ turn'[t].status = "core_failed"
      BY <3>1, <1>a DEF LedgerTypeOK, TurnRow
    <3> QED BY <3>1, <3>2, <2>2, <1>a DEF CoreTruthOf, OpenBoundaryOf, LedgerTruthOf
  <2> QED BY <2>1, <2>2
<1> QED BY <1>1, <1>2, <1>3, <1>4, <1>5

(* The transactions of a tracked stage, by a request or by a recovery.        *)
LEMMA StageKeepsInv ==
  ASSUME LedgerInv, NEW t \in Turns, NEW s \in Tracked,
         \/ \E work : CommitStage(t, s, work)
         \/ ClaimStage(t, s)
         \/ (\E work : Outside(s, work)) /\ OperateOutside(t, s)
         \/ CloseStage(t, s)
         \/ \E n \in {0, 1} : MarkStageFailed(t, s, n)
  PROVE  CoreTruthOf(t)' /\ OpenBoundaryOf(t)' /\ LedgerTruthOf(t)'
<1>a. LedgerTypeOK /\ CoreTruthOf(t) /\ OpenBoundaryOf(t) /\ LedgerTruthOf(t)
  BY DEF LedgerInv
<1>b. /\ turn[t] \in TurnRow /\ stage[t] \in [Stages -> Row]
      /\ turn[t].core \in BOOLEAN /\ turn[t].assistant \in BOOLEAN
      /\ applied[t] \in [Stages -> Nat]
  BY <1>a, TurnRecords DEF LedgerTypeOK
<1>c. s \in Stages /\ s \notin Boundary /\ Transactional \subseteq Stages /\ Boundary \subseteq Stages
  BY StageKinds
<1>d. ~turn[t].core => stage[t][s].status = "absent"
  BY <1>a DEF CoreTruthOf
<1>e. ASSUME NEW r, WriteAndRefresh(t, r), \A x \in Stages \ {s} : r[x] = stage[t][x],
             stage[t][s].status = "absent" => r[s] = stage[t][s]
      PROVE  CoreTruthOf(t)' /\ OpenBoundaryOf(t)'
  <2>1. \A x \in Boundary : r[x] = stage[t][x]
    BY <1>c, <1>e
  <2>2. ~turn[t].core => \A x \in Stages : r[x] = stage[t][x]
    BY <1>d, <1>e
  <2> QED BY <2>1, <2>2, <1>e, RefreshKeepsCore
<1>1. ASSUME NEW work, CommitStage(t, s, work)
      PROVE  CoreTruthOf(t)' /\ OpenBoundaryOf(t)' /\ LedgerTruthOf(t)'
  <2> DEFINE r == [stage[t] EXCEPT ![s] =
                     [status |-> "completed", attempts |-> @.attempts + 1]]
  <2>1. WriteAndRefresh(t, r)
    BY <1>1 DEF CommitStage
  <2>2. stage[t][s].status \in {"pending", "running", "failed"}
    BY <1>1 DEF CommitStage, MayClaim
  <2>3. /\ \A x \in Stages \ {s} : r[x] = stage[t][x]
        /\ r[s].status = "completed"
    BY <1>b, <1>c
  <2>4. stage'[t] = r
    BY <2>1, <1>a, RefreshEffect
  <2>5. /\ \A x \in Stages \ {s} : applied'[t][x] = applied[t][x]
        /\ applied'[t][s] \in {applied[t][s], applied[t][s] + 1}
    <3>1. CASE work BY <1>1, <3>1, <1>a, <1>b, <1>c DEF CommitStage, LedgerTypeOK
    <3>2. CASE ~work BY <1>1, <3>2 DEF CommitStage
    <3> QED BY <3>1, <3>2
  <2> HIDE DEF r
  <2>6. CoreTruthOf(t)' /\ OpenBoundaryOf(t)'
    BY <2>1, <2>2, <2>3, <1>e
  <2>7. LedgerTruthOf(t)'
    <3> SUFFICES ASSUME NEW x \in Transactional
                 PROVE  /\ applied'[t][x] <= 1
                        /\ stage'[t][x].status # "completed" => applied'[t][x] = 0
      BY DEF LedgerTruthOf
    <3>1. CASE x = s
      BY <3>1, <2>2, <2>3, <2>4, <2>5, <1>a DEF LedgerTruthOf
    <3>2. CASE x # s
      BY <3>2, <2>3, <2>4, <2>5, <1>a, <1>c DEF LedgerTruthOf
    <3> QED BY <3>1, <3>2
  <2> QED BY <2>6, <2>7
<1>2. CASE ClaimStage(t, s)
  <2>1. stage'[t] = [stage[t] EXCEPT ![s] = [status |-> "running", attempts |-> @.attempts + 1]]
    BY <1>2, <1>a DEF ClaimStage, LedgerTypeOK
  <2>2. turn' = turn /\ applied' = applied /\ stage[t][s].status \notin {"absent", "completed"}
    BY <1>2 DEF ClaimStage, MayClaim
  <2>3. /\ \A x \in Stages \ {s} : stage'[t][x] = stage[t][x]
        /\ turn[t].core
    BY <2>1, <2>2, <1>b, <1>c, <1>d
  <2>4. CoreTruthOf(t)' /\ OpenBoundaryOf(t)'
    BY <2>2, <2>3, <1>a, <1>c DEF CoreTruthOf, OpenBoundaryOf
  <2>5. LedgerTruthOf(t)'
    BY <2>2, <2>3, <1>a, <1>c DEF LedgerTruthOf
  <2> QED BY <2>4, <2>5
<1>3. CASE (\E work : Outside(s, work)) /\ OperateOutside(t, s)
  <2>1. s \notin Transactional
    BY <1>3 DEF Outside, Transactional
  <2>2. turn' = turn /\ stage' = stage /\ \A x \in Stages \ {s} : applied'[t][x] = applied[t][x]
    BY <1>3, <1>a, <1>b DEF OperateOutside, LedgerTypeOK
  <2>3. CoreTruthOf(t)' /\ OpenBoundaryOf(t)'
    BY <2>2, <1>a DEF CoreTruthOf, OpenBoundaryOf
  <2>4. LedgerTruthOf(t)'
    BY <2>1, <2>2, <1>a, <1>c DEF LedgerTruthOf
  <2> QED BY <2>3, <2>4
<1>f. ASSUME NEW r, WriteAndRefresh(t, r), applied' = applied,
             \A x \in Stages \ {s} : r[x] = stage[t][x],
             stage[t][s].status \in {"absent", "completed"} => r[s] = stage[t][s]
      PROVE  CoreTruthOf(t)' /\ OpenBoundaryOf(t)' /\ LedgerTruthOf(t)'
  <2>1. CoreTruthOf(t)' /\ OpenBoundaryOf(t)'
    BY <1>e, <1>f
  <2>2. stage'[t] = r
    BY <1>f, <1>a, RefreshEffect
  <2>3. LedgerTruthOf(t)'
    BY <2>2, <1>f, <1>a, <1>c DEF LedgerTruthOf
  <2> QED BY <2>1, <2>3
<1>4. CASE CloseStage(t, s)
  <2> DEFINE r == [stage[t] EXCEPT ![s].status = IF @ = "running" THEN "completed" ELSE @]
  <2>1. WriteAndRefresh(t, r) /\ applied' = applied
    BY <1>4 DEF CloseStage
  <2>2. /\ \A x \in Stages \ {s} : r[x] = stage[t][x]
        /\ stage[t][s].status \in {"absent", "completed"} => r[s] = stage[t][s]
    BY <1>b, <1>c DEF Row
  <2> HIDE DEF r
  <2> QED BY <2>1, <2>2, <1>f
<1>5. ASSUME NEW n \in {0, 1}, MarkStageFailed(t, s, n)
      PROVE  CoreTruthOf(t)' /\ OpenBoundaryOf(t)' /\ LedgerTruthOf(t)'
  <2> DEFINE r == [stage[t] EXCEPT ![s] =
                     IF @.status \in {"pending", "running", "failed"}
                     THEN [status |-> "failed", attempts |-> @.attempts + n] ELSE @]
  <2>1. WriteAndRefresh(t, r) /\ applied' = applied
    BY <1>5 DEF MarkStageFailed
  <2>2. /\ \A x \in Stages \ {s} : r[x] = stage[t][x]
        /\ stage[t][s].status \in {"absent", "completed"} => r[s] = stage[t][s]
    BY <1>b, <1>c
  <2> HIDE DEF r
  <2> QED BY <2>1, <2>2, <1>f
<1> QED BY <1>1, <1>2, <1>3, <1>4, <1>5

LEMMA LedgerInvHolds ==
  ASSUME LedgerInv, NEW t \in Turns, LedgerStep(t)
  PROVE  LedgerInv'
<1>a. LedgerTypeOK /\ CoreTruthOf(t) /\ OpenBoundaryOf(t) /\ LedgerTruthOf(t)
  BY DEF LedgerInv
<1>1. ASSUME NEW u \in Turns, u # t
      PROVE  CoreTruthOf(u)' /\ OpenBoundaryOf(u)' /\ LedgerTruthOf(u)'
  <2>1. turn'[u] = turn[u] /\ stage'[u] = stage[u] /\ applied'[u] = applied[u]
    BY <1>1, <1>a, OtherTurns
  <2>2. CoreTruthOf(u) /\ OpenBoundaryOf(u) /\ LedgerTruthOf(u)
    BY <1>1 DEF LedgerInv
  <2> QED BY <2>1, <2>2 DEF CoreTruthOf, OpenBoundaryOf, LedgerTruthOf
<1>2. CASE TerminalizeMissingInput(t)
  <2>1. /\ turn'[t].core = turn[t].core /\ turn'[t].assistant = turn[t].assistant
        /\ turn'[t].status = IF turn[t].core THEN "partial" ELSE turn[t].status
    <3>1. CASE turn[t].core
      <4>1. turn' = [turn EXCEPT ![t].status = "partial"]
        BY <1>2, <3>1, Zenon DEF TerminalizeMissingInput
      <4> QED BY <4>1, <3>1, <1>a DEF LedgerTypeOK, TurnRow
    <3>2. CASE ~turn[t].core
      <4>1. turn' = turn
        BY <1>2, <3>2, Zenon DEF TerminalizeMissingInput
      <4> QED BY <4>1, <3>2
    <3> QED BY <3>1, <3>2
  <2>2. /\ applied' = applied
        /\ stage'[t] = [s \in Stages |->
             IF s \in Automatic /\ stage[t][s].status \notin {"absent", "completed"}
             THEN [status |-> "failed", attempts |-> MaxStageAttempts] ELSE stage[t][s]]
    BY <1>2, <1>a DEF TerminalizeMissingInput, LedgerTypeOK
  <2>3. \A s \in Boundary : stage'[t][s] = stage[t][s]
    BY <2>2, StageKinds
  <2>4. ~turn[t].core => stage'[t] = stage[t]
    <3>1. ASSUME ~turn[t].core, NEW s \in Stages
          PROVE  stage'[t][s] = stage[t][s]
      BY <3>1, <2>2, <1>a, StageKinds DEF CoreTruthOf
    <3> QED BY <3>1, <2>2, <1>a DEF LedgerTypeOK
  <2>5. CoreTruthOf(t)'
    BY <2>1, <2>3, <2>4, <1>a, StageKinds DEF CoreTruthOf
  <2>6. OpenBoundaryOf(t)'
    BY <2>1, <2>4, <1>a DEF OpenBoundaryOf, CoreTruthOf
  <2>7. LedgerTruthOf(t)'
    BY <2>2, <1>a, StageKinds DEF LedgerTruthOf
  <2> QED BY <2>5, <2>6, <2>7, <1>1, <1>a, LedgerTypes DEF LedgerInv
<1>3. ASSUME NEW who \in {"user", "assistant"}, DeleteMessage(t, who)
      PROVE  CoreTruthOf(t)' /\ OpenBoundaryOf(t)' /\ LedgerTruthOf(t)'
  <2>1. turn' = [turn EXCEPT ![t][who] = FALSE] /\ stage' = stage /\ applied' = applied
    BY <1>3 DEF DeleteMessage
  <2>2. /\ turn'[t].core = turn[t].core /\ turn'[t].status = turn[t].status
        /\ turn'[t].assistant => turn[t].assistant
    BY <2>1, <1>a DEF LedgerTypeOK, TurnRow
  <2> QED BY <2>1, <2>2, <1>a DEF CoreTruthOf, OpenBoundaryOf, LedgerTruthOf
<1>4. CoreTruthOf(t)' /\ OpenBoundaryOf(t)' /\ LedgerTruthOf(t)'
  BY <1>2, <1>3, BoundaryKeepsInv, StageKeepsInv DEF LedgerStep, LedgerInv
<1> QED BY <1>1, <1>4, <1>a, LedgerTypes DEF LedgerInv

LEMMA InvAtFirst == Init => LedgerInv
<1> SUFFICES ASSUME Init PROVE LedgerInv
  OBVIOUS
<1>1. LedgerTypeOK
  BY TypesAtFirst DEF TypeOK
<1>2. ASSUME NEW t \in Turns
      PROVE  CoreTruthOf(t) /\ OpenBoundaryOf(t) /\ LedgerTruthOf(t)
  <2>1. /\ turn[t] = [status |-> "none", core |-> FALSE, user |-> FALSE, assistant |-> FALSE]
        /\ stage[t] = [s \in Stages |-> NoRow] /\ applied[t] = [s \in Stages |-> 0]
    BY DEF Init, LedgerInit
  <2> QED BY <2>1, StageKinds DEF CoreTruthOf, OpenBoundaryOf, LedgerTruthOf, NoRow, Boundary
<1> QED BY <1>1, <1>2 DEF LedgerInv

LEMMA InvHolds ==
  ASSUME TypeOK, LedgerInv, [Next]_vars
  PROVE  LedgerInv'
<1>1. CASE UNCHANGED ledgerVars
  BY <1>1 DEF ledgerVars, LedgerInv, LedgerTypeOK, CoreTruthOf, OpenBoundaryOf, LedgerTruthOf
<1>2. CASE \E t \in Turns : LedgerStep(t)
  BY <1>2, LedgerInvHolds
<1> QED BY <1>1, <1>2, StepsOfTheLedger DEF vars

LEMMA LedgerInvariant == Spec => []LedgerInv
<1>1. Init => LedgerInv
  BY InvAtFirst
<1>2. TypeOK /\ LedgerInv /\ [Next]_vars => LedgerInv'
  BY InvHolds
<1> QED BY <1>1, <1>2, Types, PTL DEF Spec

(* At most once and in step with the row: no interleaving of requests,        *)
(* recoveries, crashes, lost acknowledgements and deletions commits the work  *)
(* of a transactional stage twice or without its completed row.               *)
THEOREM WorkMatchesLedger == Spec => []LedgerTruth
<1>1. LedgerInv => LedgerTruth
  BY DEF LedgerInv, LedgerTruthOf, LedgerTruth
<1> QED BY <1>1, LedgerInvariant, PTL

(* A turn has an assistant message and post-stages only with its core mark,   *)
(* and with the mark a wholly completed boundary.                             *)
THEOREM CoreIsWhole == Spec => []CoreTruth
<1>1. LedgerInv => CoreTruth
  BY DEF LedgerInv, CoreTruthOf, CoreTruth
<1> QED BY <1>1, LedgerInvariant, PTL

-----------------------------------------------------------------------------
(* What the handlers know: that outcomes are final, that the shown status is  *)
(* the derived one, and that the system keeps the promise of TurnPromise.     *)

(* What a transaction of a tracked stage s does to its own turn.              *)
StageOperation(t, s) ==
  \/ \E work : CommitStage(t, s, work)
  \/ ClaimStage(t, s)
  \/ OperateOutside(t, s)
  \/ CloseStage(t, s)
  \/ \E n \in {0, 1} : MarkStageFailed(t, s, n)

LEMMA StageWrites ==
  ASSUME LedgerInv, NEW t \in Turns, NEW s \in Tracked, StageOperation(t, s)
  PROVE  /\ \A x \in Stages \ {s} : stage'[t][x] = stage[t][x]
         /\ \A x \in Stages \ {s} : applied'[t][x] = applied[t][x]
         /\ turn'[t].core = turn[t].core
         /\ turn'[t].user = turn[t].user /\ turn'[t].assistant = turn[t].assistant
         /\ ~turn[t].core => turn'[t].status = turn[t].status
         /\ turn[t].core => turn'[t].status \in {"core_completed", "partial", "complete"}
<1>a. /\ LedgerTypeOK /\ CoreTruthOf(t) /\ s \in Stages
      /\ turn[t] \in TurnRow /\ stage[t] \in [Stages -> Row] /\ applied[t] \in [Stages -> Nat]
      /\ turn[t].core \in BOOLEAN
  BY StageKinds, TurnRecords DEF LedgerInv, LedgerTypeOK
<1>b. turn[t].core => turn[t].status \in {"core_completed", "partial", "complete"}
  BY <1>a DEF CoreTruthOf
<1>c. ASSUME NEW r, WriteAndRefresh(t, r), \A x \in Stages \ {s} : r[x] = stage[t][x]
      PROVE  /\ \A x \in Stages \ {s} : stage'[t][x] = stage[t][x]
             /\ turn'[t].core = turn[t].core
             /\ turn'[t].user = turn[t].user /\ turn'[t].assistant = turn[t].assistant
             /\ ~turn[t].core => turn'[t].status = turn[t].status
             /\ turn[t].core => turn'[t].status \in {"core_completed", "partial", "complete"}
  BY <1>a, <1>c, RefreshEffect, DerivedStatus
<1>1. ASSUME NEW work, CommitStage(t, s, work)
      PROVE  /\ \A x \in Stages \ {s} : applied'[t][x] = applied[t][x]
             /\ \E r : WriteAndRefresh(t, r) /\ \A x \in Stages \ {s} : r[x] = stage[t][x]
  <2> DEFINE r == [stage[t] EXCEPT ![s] =
                     [status |-> "completed", attempts |-> @.attempts + 1]]
  <2>1. WriteAndRefresh(t, r)
    BY <1>1 DEF CommitStage
  <2>2. \A x \in Stages \ {s} : r[x] = stage[t][x]
    BY <1>a
  <2>3. \A x \in Stages \ {s} : applied'[t][x] = applied[t][x]
    <3>1. CASE work BY <1>1, <3>1, <1>a DEF CommitStage, LedgerTypeOK
    <3>2. CASE ~work BY <1>1, <3>2 DEF CommitStage
    <3> QED BY <3>1, <3>2
  <2> HIDE DEF r
  <2> QED BY <2>1, <2>2, <2>3
<1>2. CASE ClaimStage(t, s)
  <2>1. turn' = turn /\ applied' = applied
    BY <1>2 DEF ClaimStage
  <2>2. \A x \in Stages \ {s} : stage'[t][x] = stage[t][x]
    BY <1>2, <1>a DEF ClaimStage, LedgerTypeOK
  <2> QED BY <2>1, <2>2, <1>b
<1>3. CASE OperateOutside(t, s)
  <2>1. turn' = turn /\ stage' = stage
    BY <1>3 DEF OperateOutside
  <2>2. \A x \in Stages \ {s} : applied'[t][x] = applied[t][x]
    BY <1>3, <1>a DEF OperateOutside, LedgerTypeOK
  <2> QED BY <2>1, <2>2, <1>b
<1>4. CASE CloseStage(t, s)
  <2> DEFINE r == [stage[t] EXCEPT ![s].status = IF @ = "running" THEN "completed" ELSE @]
  <2>1. WriteAndRefresh(t, r) /\ applied' = applied
    BY <1>4 DEF CloseStage
  <2>2. \A x \in Stages \ {s} : r[x] = stage[t][x]
    BY <1>a
  <2> HIDE DEF r
  <2> QED BY <2>1, <2>2, <1>c
<1>5. ASSUME NEW n \in {0, 1}, MarkStageFailed(t, s, n)
      PROVE  /\ applied' = applied
             /\ \E r : WriteAndRefresh(t, r) /\ \A x \in Stages \ {s} : r[x] = stage[t][x]
  <2> DEFINE r == [stage[t] EXCEPT ![s] =
                     IF @.status \in {"pending", "running", "failed"}
                     THEN [status |-> "failed", attempts |-> @.attempts + n] ELSE @]
  <2>1. WriteAndRefresh(t, r) /\ applied' = applied
    BY <1>5 DEF MarkStageFailed
  <2>2. \A x \in Stages \ {s} : r[x] = stage[t][x]
    BY <1>a
  <2> HIDE DEF r
  <2> QED BY <2>1, <2>2
<1> QED BY <1>1, <1>2, <1>3, <1>4, <1>5, <1>c DEF StageOperation

LEMMA TerminalizeWrites ==
  ASSUME LedgerInv, NEW t \in Turns, TerminalizeMissingInput(t)
  PROVE  /\ \A x \in Stages : x \notin Automatic \/ stage[t][x].status = "completed"
                                => stage'[t][x] = stage[t][x]
         /\ applied' = applied
         /\ turn'[t].core = turn[t].core
         /\ turn'[t].user = turn[t].user /\ turn'[t].assistant = turn[t].assistant
         /\ ~turn[t].core => turn'[t].status = turn[t].status
         /\ turn[t].core => turn'[t].status = "partial"
<1>a. LedgerTypeOK /\ turn[t].core \in BOOLEAN
  BY TurnRecords DEF LedgerInv
<1>1. /\ applied' = applied
      /\ stage'[t] = [s \in Stages |->
           IF s \in Automatic /\ stage[t][s].status \notin {"absent", "completed"}
           THEN [status |-> "failed", attempts |-> MaxStageAttempts] ELSE stage[t][s]]
  BY <1>a DEF TerminalizeMissingInput, LedgerTypeOK
<1>2. CASE turn[t].core
  <2>1. turn' = [turn EXCEPT ![t].status = "partial"]
    BY <1>2, Zenon DEF TerminalizeMissingInput
  <2>2. /\ turn'[t].core = turn[t].core /\ turn'[t].status = "partial"
        /\ turn'[t].user = turn[t].user /\ turn'[t].assistant = turn[t].assistant
    BY <2>1, <1>a DEF LedgerTypeOK, TurnRow
  <2> QED BY <2>2, <1>1, <1>2, <1>a DEF LedgerTypeOK
<1>3. CASE ~turn[t].core
  <2>1. turn' = turn
    BY <1>3, Zenon DEF TerminalizeMissingInput
  <2> QED BY <2>1, <1>1, <1>3
<1> QED BY <1>2, <1>3

-----------------------------------------------------------------------------
(* What a request handler knows of its turn.  A stage it still has to do and  *)
(* that recovery never touches is pending; the one it is working on outside   *)
(* the database is running; a turn that failed under it cannot be answered.   *)
OpenPc == {"unmarked", "operating", "operated", "unclosed"}

RequestInv(t) ==
  /\ pc[t] \notin {"idle", "gone"} => turn[t].status # "none"
  /\ turn[t].status = "core_failed" =>
       pc[t] = "gone" \/ stage[t]["provider_generate"].status = "failed"
  /\ pc[t] \notin OpenPc \cup {"post"} => left[t] = {}
  /\ \A s \in left[t] \ Automatic :
       \/ stage[t][s].status = "pending"
       \/ pc[t] \in OpenPc /\ AtOpenStage(t, s)
  /\ pc[t] = "operating" =>
       \A s \in Tracked :
         AtOpenStage(t, s) /\ Outside(s, TRUE) => stage[t][s].status = "running"

(* A step that is not the handler's own keeps what it knows.                  *)
LEMMA ForeignStepKeeps ==
  ASSUME TypeOK, NEW t \in Turns, RequestInv(t),
         pc'[t] = pc[t], left'[t] = left[t], has'[t] = has[t],
         turn[t].status # "none" => turn'[t].status # "none",
         turn'[t].status = "core_failed" =>
           \/ /\ turn[t].status = "core_failed"
              /\ stage'[t]["provider_generate"] = stage[t]["provider_generate"]
           \/ stage'[t]["provider_generate"].status = "failed",
         \A x \in Tracked \ Automatic : stage'[t][x] = stage[t][x]
  PROVE  RequestInv(t)'
<1>1. \A s : AtOpenStage(t, s)' <=> AtOpenStage(t, s)
  BY DEF AtOpenStage, IsFirst, RequestOrder, LedgerOrder, UpToGoals, AfterGoals, Shadows,
     First, Precedes
<1>2. \A s : Outside(s, TRUE) => s \notin Automatic
  BY DEF Outside, Automatic
<1>3. left[t] \subseteq Tracked
  BY DEF TypeOK
<1> QED BY <1>1, <1>2, <1>3 DEF RequestInv

(* The handler's own steps up to the reply, and its end.                      *)
LEMMA BeforeReplyKeeps ==
  ASSUME TypeOK, LedgerInv, NEW t \in Turns, RequestInv(t),
         \/ ReceiveMessage(t) \/ PrepareContext(t) \/ LeavePending(t) \/ StartProvider(t)
         \/ ProviderReplies(t) \/ ProviderFails(t) \/ SaveReply(t)
         \/ SaveReplyUnacknowledged(t) \/ SaveReplyFails(t) \/ RecordCoreFailure(t)
         \/ LoseCoreFailure(t) \/ EndRequest(t)
  PROVE  RequestInv(t)'
<1> USE DEF OpenPc
<1>a. /\ pc \in [Turns -> RequestPc] /\ left \in [Turns -> SUBSET Tracked]
      /\ LedgerTypeOK /\ CoreTruthOf(t)
      /\ turn[t] \in TurnRow /\ stage[t] \in [Stages -> Row]
      /\ turn[t].core \in BOOLEAN /\ "provider_generate" \in Stages
  BY StageKinds, TurnRecords DEF TypeOK, LedgerInv, Boundary
<1>1. CASE ReceiveMessage(t)
  <2>1. turn'[t].status = "pending" /\ pc'[t] = "context" /\ left'[t] = left[t] /\ pc[t] = "idle"
    BY <1>1, <1>a DEF ReceiveMessage, BeginTurn, LedgerTypeOK
  <2>2. left[t] = {}
    BY <2>1 DEF RequestInv
  <2> QED BY <2>1, <2>2 DEF RequestInv
<1>2. CASE PrepareContext(t) \/ StartProvider(t)
  <2>1. /\ turn' = turn /\ turn[t].status = "pending" /\ left'[t] = left[t]
        /\ pc[t] \in {"context", "prepared"} /\ pc'[t] \in {"prepared", "calling"}
    BY <1>2, <1>a DEF PrepareContext, StartProvider, MarkContextPrepared, MarkProviderStarted,
       CoreOpen
  <2>2. left[t] = {}
    BY <2>1 DEF RequestInv
  <2> QED BY <2>1, <2>2 DEF RequestInv
<1>3. CASE ProviderReplies(t) \/ ProviderFails(t) \/ SaveReplyFails(t)
  <2>1. /\ turn' = turn /\ stage' = stage /\ left'[t] = left[t]
        /\ pc[t] \in {"calling", "replied"} /\ pc'[t] \in {"replied", "failing"}
    <3>1. CASE ProviderReplies(t) BY <3>1, <1>a DEF ProviderReplies, ledgerVars
    <3>2. CASE ProviderFails(t) BY <3>2, <1>a DEF ProviderFails, ledgerVars
    <3>3. CASE SaveReplyFails(t) BY <3>3, <1>a DEF SaveReplyFails, ledgerVars
    <3> QED BY <1>3, <3>1, <3>2, <3>3
  <2>2. left[t] = {}
    BY <2>1 DEF RequestInv
  <2> QED BY <2>1, <2>2 DEF RequestInv
<1>4. CASE SaveReply(t) \/ SaveReplyUnacknowledged(t)
  <2>1. CompleteCore(t) /\ pc[t] = "replied"
    BY <1>4 DEF SaveReply, SaveReplyUnacknowledged
  <2>2. turn'[t].status = "core_completed" /\ ~turn[t].core
    BY <2>1, <1>a DEF CompleteCore, LedgerTypeOK, TurnRow
  <2>3. \A s \in Tracked : stage'[t][s].status = "pending"
    <3> SUFFICES ASSUME NEW s \in Tracked PROVE stage'[t][s].status = "pending"
      OBVIOUS
    <3>1. s \in Stages /\ s \notin Boundary
      BY StageKinds
    <3>2. stage'[t][s] = CoreRow(s, stage[t][s])
      BY <2>1, <3>1, <1>a DEF CompleteCore, LedgerTypeOK
    <3>3. stage[t][s].status = "absent"
      BY <2>2, <1>a DEF CoreTruthOf
    <3> QED BY <3>1, <3>2, <3>3 DEF CoreRow, FreshRow, Boundary
  <2>4. CASE SaveReply(t)
    <3>1. pc'[t] = "post" /\ left'[t] = Tracked
      BY <2>4, <1>a DEF SaveReply
    <3> QED BY <3>1, <2>2, <2>3 DEF RequestInv
  <2>5. CASE SaveReplyUnacknowledged(t)
    <3>1. pc'[t] = "failing" /\ left'[t] = left[t] /\ left[t] = {}
      BY <2>1, <2>5, <1>a DEF SaveReplyUnacknowledged, RequestInv
    <3> QED BY <3>1, <2>2 DEF RequestInv
  <2> QED BY <1>4, <2>4, <2>5
<1>5. CASE RecordCoreFailure(t) \/ LoseCoreFailure(t) \/ EndRequest(t) \/ LeavePending(t)
  <2>1. EndHandler(t)
    BY <1>5 DEF RecordCoreFailure, LoseCoreFailure, EndRequest, LeavePending
  <2>2. pc'[t] = "gone" /\ left'[t] = {}
    BY <2>1, <1>a DEF EndHandler
  <2> QED BY <2>2 DEF RequestInv
<1> QED BY <1>1, <1>2, <1>3, <1>4, <1>5

(* The handler's steps at a stage.                                            *)
LEMMA AtStageKeeps ==
  ASSUME TypeOK, LedgerInv, NEW t \in Turns, NEW s \in Tracked, RequestInv(t),
         \/ RunStage(t, s) \/ StageRollsBack(t, s) \/ StageNotClaimed(t, s)
         \/ RecordStageFailure(t, s) \/ ClaimOutside(t, s) \/ Operate(t, s)
         \/ CloseOutside(t, s) \/ RunStageUnacknowledged(t, s) \/ LoseStageFailure(t, s)
         \/ OutsideFails(t)
  PROVE  RequestInv(t)'
<1> USE DEF OpenPc
<1>a. /\ pc \in [Turns -> RequestPc] /\ left \in [Turns -> SUBSET Tracked]
      /\ has \in [Turns -> SUBSET Products]
      /\ LedgerTypeOK /\ CoreTruthOf(t) /\ s \in Stages /\ s # "provider_generate"
      /\ turn[t] \in TurnRow /\ stage[t] \in [Stages -> Row]
      /\ turn[t].core \in BOOLEAN /\ "provider_generate" \in Stages
  BY StageKinds, TurnRecords DEF TypeOK, LedgerInv, Boundary
<1>b. ASSUME left'[t] = left[t], has'[t] = has[t]
      PROVE  \A x : AtOpenStage(t, x)' <=> AtOpenStage(t, x)
  BY <1>b DEF AtOpenStage, IsFirst, RequestOrder, LedgerOrder, UpToGoals, AfterGoals, Shadows,
     First, Precedes
<1>c. ASSUME StageOperation(t, s) \/ UNCHANGED ledgerVars, pc[t] # "gone", pc[t] # "idle"
      PROVE  /\ \A x \in Stages \ {s} : stage'[t][x] = stage[t][x]
             /\ turn'[t].status # "none"
             /\ turn'[t].status = "core_failed" =>
                  stage'[t]["provider_generate"].status = "failed"
  <2>1. CASE StageOperation(t, s)
    <3>1. /\ \A x \in Stages \ {s} : stage'[t][x] = stage[t][x]
          /\ ~turn[t].core => turn'[t].status = turn[t].status
          /\ turn[t].core => turn'[t].status \in {"core_completed", "partial", "complete"}
      BY <2>1, StageWrites
    <3> QED BY <3>1, <1>a, <1>c DEF RequestInv
  <2>2. CASE UNCHANGED ledgerVars
    BY <2>2, <1>a, <1>c DEF ledgerVars, RequestInv
  <2> QED BY <1>c, <2>1, <2>2
<1>d. ASSUME StageOperation(t, s) \/ UNCHANGED ledgerVars,
             pc[t] \in OpenPc \cup {"post"}, AtOpenStage(t, s),
             left'[t] = left[t] \ {s}, pc'[t] = "post"
      PROVE  RequestInv(t)'
  <2>1. \A x \in Stages \ {s} : stage'[t][x] = stage[t][x]
    BY <1>c, <1>d
  <2>2. \A x \in left'[t] \ Automatic : stage'[t][x].status = "pending"
    <3> SUFFICES ASSUME NEW x \in left[t], x \notin Automatic, x # s
                 PROVE  stage[t][x].status = "pending"
      BY <1>a, <1>d, <2>1, StageKinds
    <3>1. ~AtOpenStage(t, x)
      BY <1>d DEF AtOpenStage, IsFirst
    <3> QED BY <3>1 DEF RequestInv
  <2> QED BY <2>2, <1>c, <1>d DEF RequestInv
<1>1. CASE RunStage(t, s) \/ StageNotClaimed(t, s) \/ RecordStageFailure(t, s)
           \/ CloseOutside(t, s) \/ LoseStageFailure(t, s)
  <2>1. StageOperation(t, s) \/ UNCHANGED ledgerVars
    BY <1>1 DEF StageOperation, RunStage, StageNotClaimed, RecordStageFailure, CloseOutside,
       LoseStageFailure
  <2>2. pc[t] \in OpenPc \cup {"post"} /\ AtOpenStage(t, s) /\ PassStage(t, s)
    BY <1>1 DEF RunStage, StageNotClaimed, RecordStageFailure, CloseOutside,
       LoseStageFailure, AtStage, AtOpenStage
  <2>3. left'[t] = left[t] \ {s} /\ pc'[t] = "post"
    BY <2>2, <1>a DEF PassStage
  <2> QED BY <2>1, <2>2, <2>3, <1>d
<1>e. ASSUME NEW x \in left[t], x \notin Automatic, x # s, pc[t] = "post" \/ AtOpenStage(t, s)
      PROVE  stage[t][x].status = "pending"
  <2>1. pc[t] # "post" => ~AtOpenStage(t, x)
    BY <1>e DEF AtOpenStage, IsFirst
  <2> QED BY <2>1, <1>e DEF RequestInv
<1>2. CASE \/ StageRollsBack(t, s) \/ ClaimOutside(t, s) \/ Operate(t, s)
           \/ RunStageUnacknowledged(t, s)
  <2>1. StageOperation(t, s) \/ UNCHANGED ledgerVars
    BY <1>2 DEF StageOperation, StageRollsBack, ClaimOutside, Operate, RunStageUnacknowledged
  <2>2. /\ pc[t] \in {"post", "operating"} /\ AtOpenStage(t, s)
        /\ left'[t] = left[t] /\ has'[t] = has[t]
    BY <1>2 DEF StageRollsBack, ClaimOutside, Operate, RunStageUnacknowledged, AtStage, AtOpenStage
  <2>3. pc'[t] \in OpenPc
    BY <1>2, <1>a DEF StageRollsBack, ClaimOutside, Operate, RunStageUnacknowledged
  <2>4. pc'[t] = "operating" => stage'[t][s].status = "running"
    <3>1. CASE ClaimOutside(t, s)
      BY <3>1, <1>a DEF ClaimOutside, ClaimStage, LedgerTypeOK
    <3>2. CASE ~ClaimOutside(t, s)
      BY <3>2, <1>2, <1>a DEF StageRollsBack, Operate, RunStageUnacknowledged
    <3> QED BY <3>1, <3>2
  <2>5. AtOpenStage(t, s)' /\ \A x : AtOpenStage(t, x)' => x = s
    BY <2>2, <1>b DEF AtOpenStage, IsFirst
  <2>6. \A x \in Stages \ {s} : stage'[t][x] = stage[t][x]
    BY <2>1, <2>2, <1>c
  <2>7. \A x \in left[t] \ Automatic : x # s => stage'[t][x].status = "pending"
    BY <2>2, <2>6, <1>a, <1>e, StageKinds
  <2> QED BY <2>1, <2>2, <2>3, <2>4, <2>5, <2>7, <1>c DEF RequestInv
<1>3. CASE OutsideFails(t)
  <2>1. /\ turn' = turn /\ stage' = stage /\ left' = left /\ has' = has
        /\ pc[t] \in OpenPc /\ pc'[t] = "unclosed"
    BY <1>3, <1>a DEF OutsideFails, ledgerVars
  <2>2. \A x : AtOpenStage(t, x)' <=> AtOpenStage(t, x)
    BY <2>1, <1>b
  <2> QED BY <2>1, <2>2 DEF RequestInv
<1> QED BY <1>1, <1>2, <1>3

-----------------------------------------------------------------------------
(* What everybody else may do to a turn.                                      *)
ForeignOperation(t) ==
  \/ SettleInterrupted(t)
  \/ TerminalizeMissingInput(t)
  \/ \E who \in {"user", "assistant"} : DeleteMessage(t, who)
  \/ \E s \in Tracked \cap Automatic :
       (\E work : CommitStage(t, s, work)) \/ MarkStageFailed(t, s, 1)

LEMMA ForeignOperationKeeps ==
  ASSUME TypeOK, LedgerInv, NEW t \in Turns, RequestInv(t),
         ForeignOperation(t) \/ (turn'[t] = turn[t] /\ stage'[t] = stage[t]),
         pc'[t] = pc[t], left'[t] = left[t], has'[t] = has[t]
  PROVE  RequestInv(t)'
<1>a. /\ LedgerTypeOK /\ CoreTruthOf(t)
      /\ turn[t] \in TurnRow /\ stage[t] \in [Stages -> Row] /\ turn[t].core \in BOOLEAN
      /\ "provider_generate" \in Stages \ Automatic
      /\ \A x \in Tracked : x \in Stages /\ x # "provider_generate"
  BY StageKinds, TurnRecords DEF LedgerInv, Boundary
<1>1. CASE turn'[t] = turn[t] /\ stage'[t] = stage[t]
  BY <1>1, ForeignStepKeeps
<1>2. CASE SettleInterrupted(t)
  <2>1. /\ turn'[t].status = "core_failed"
        /\ stage'[t]["provider_generate"].status = "failed"
        /\ \A x \in Tracked : stage'[t][x] = stage[t][x]
    BY <1>2, <1>a DEF SettleInterrupted, LedgerTypeOK, TurnRow, Row
  <2> QED BY <2>1, ForeignStepKeeps
<1>3. CASE TerminalizeMissingInput(t)
  <2>1. /\ turn[t].core => turn'[t].status = "partial"
        /\ ~turn[t].core => turn'[t].status = turn[t].status
        /\ stage'[t]["provider_generate"] = stage[t]["provider_generate"]
        /\ \A x \in Tracked \ Automatic : stage'[t][x] = stage[t][x]
    BY <1>3, <1>a, TerminalizeWrites
  <2> QED BY <2>1, ForeignStepKeeps
<1>4. ASSUME NEW who \in {"user", "assistant"}, DeleteMessage(t, who)
      PROVE  RequestInv(t)'
  <2>1. turn'[t].status = turn[t].status /\ stage'[t] = stage[t]
    BY <1>4, <1>a DEF DeleteMessage, LedgerTypeOK, TurnRow
  <2> QED BY <2>1, ForeignStepKeeps
<1>5. ASSUME NEW s \in Tracked \cap Automatic,
             (\E work : CommitStage(t, s, work)) \/ MarkStageFailed(t, s, 1)
      PROVE  RequestInv(t)'
  <2>1. StageOperation(t, s)
    BY <1>5 DEF StageOperation
  <2>2. /\ \A x \in Stages \ {s} : stage'[t][x] = stage[t][x]
        /\ ~turn[t].core => turn'[t].status = turn[t].status
        /\ turn[t].core => turn'[t].status \in {"core_completed", "partial", "complete"}
    BY <2>1, StageWrites
  <2>3. stage'[t]["provider_generate"] = stage[t]["provider_generate"]
    BY <2>2, <1>a, <1>5
  <2>4. \A x \in Tracked \ Automatic : stage'[t][x] = stage[t][x]
    BY <2>2, <1>a, <1>5
  <2> QED BY <2>2, <2>3, <2>4, ForeignStepKeeps
<1> QED BY <1>1, <1>2, <1>3, <1>4, <1>5 DEF ForeignOperation

(* What a recovery knows: it resumes automatic stages only, and only turns    *)
(* that are answered; a turn it terminalizes has lost a message; a stage it   *)
(* believes completed is.                                                     *)
RecoveryInv(d) ==
  /\ rows[d] \subseteq Automatic
  /\ \A t \in batch[d] : turn[t].core
  /\ rpc[d] = "terminalize" => turn[subject[d]].core /\ ~MessagesPresent(subject[d])
  /\ \A s \in seen[d] : stage[subject[d]][s].status = "completed"
  /\ rpc[d] \notin {"resume", "unmarked"} => seen[d] = {}

HandlerInv == (\A t \in Turns : RequestInv(t)) /\ (\A d \in Devices : RecoveryInv(d))

(* A request step leaves the handlers of the other turns alone.               *)
LEMMA OtherHandlers ==
  ASSUME TypeOK, NEW t \in Turns, RequestStep(t), NEW u \in Turns, u # t
  PROVE  pc'[u] = pc[u] /\ left'[u] = left[u] /\ has'[u] = has[u]
<1> USE DEF TypeOK
<1>1. CASE ReceiveMessage(t) BY <1>1 DEF ReceiveMessage
<1>2. CASE PrepareContext(t) BY <1>2 DEF PrepareContext
<1>3. CASE StartProvider(t) BY <1>3 DEF StartProvider
<1>4. CASE ProviderReplies(t) BY <1>4 DEF ProviderReplies
<1>5. CASE SaveReply(t) BY <1>5 DEF SaveReply
<1>6. CASE SaveReplyFails(t) BY <1>6 DEF SaveReplyFails
<1>7. CASE RecordCoreFailure(t) \/ EndRequest(t) \/ LeavePending(t) \/ LoseCoreFailure(t)
  <2>1. EndHandler(t)
    BY <1>7 DEF RecordCoreFailure, EndRequest, LeavePending, LoseCoreFailure
  <2> QED BY <2>1 DEF EndHandler
<1>8. CASE ProviderFails(t) BY <1>8 DEF ProviderFails
<1>9. CASE SaveReplyUnacknowledged(t) BY <1>9 DEF SaveReplyUnacknowledged
<1>10. CASE OutsideFails(t) BY <1>10 DEF OutsideFails
<1>11. ASSUME NEW s \in Tracked,
              \/ RunStage(t, s) \/ StageNotClaimed(t, s) \/ RecordStageFailure(t, s)
              \/ CloseOutside(t, s) \/ LoseStageFailure(t, s)
       PROVE  pc'[u] = pc[u] /\ left'[u] = left[u] /\ has'[u] = has[u]
  <2>1. PassStage(t, s)
    BY <1>11 DEF RunStage, StageNotClaimed, RecordStageFailure, CloseOutside, LoseStageFailure
  <2>2. has'[u] = has[u]
    BY <1>11 DEF RunStage, StageNotClaimed, RecordStageFailure, CloseOutside, LoseStageFailure
  <2> QED BY <2>1, <2>2 DEF PassStage
<1>12. ASSUME NEW s \in Tracked,
              \/ StageRollsBack(t, s) \/ ClaimOutside(t, s) \/ Operate(t, s)
              \/ RunStageUnacknowledged(t, s)
       PROVE  pc'[u] = pc[u] /\ left'[u] = left[u] /\ has'[u] = has[u]
  BY <1>12 DEF StageRollsBack, ClaimOutside, Operate, RunStageUnacknowledged
<1> QED BY <1>1, <1>2, <1>3, <1>4, <1>5, <1>6, <1>7, <1>8, <1>9, <1>10, <1>11, <1>12
        DEF RequestStep, RequestAdvances, RequestFaults

-----------------------------------------------------------------------------
(* Facts of one ledger step of t that handlers and theorems share.            *)
LEMMA AnswerKept ==
  ASSUME LedgerInv, NEW t \in Turns, RequestInv(t), LedgerStep(t)
  PROVE  /\ turn[t].core => turn'[t].core /\ (MessagesPresent(t)' => MessagesPresent(t))
         /\ turn[t].status = "core_failed" => turn'[t].status = "core_failed"
<1>a. /\ LedgerTypeOK /\ CoreTruthOf(t) /\ turn[t] \in TurnRow /\ turn[t].core \in BOOLEAN
  BY TurnRecords DEF LedgerInv
<1>b. turn[t].status = "core_failed" => ~turn[t].core
  BY <1>a DEF CoreTruthOf
<1> USE DEF MessagesPresent
<1>1. CASE BeginTurn(t)
  BY <1>1, <1>a DEF BeginTurn, CoreTruthOf
<1>2. CASE MarkContextPrepared(t) \/ MarkProviderStarted(t)
  BY <1>2 DEF MarkContextPrepared, MarkProviderStarted
<1>3. CASE SettleInterrupted(t)
  BY <1>3, <1>a DEF SettleInterrupted, CoreTruthOf
<1>4. CASE pc[t] = "replied" /\ CompleteCore(t)
  <2>1. turn[t].status # "core_failed" /\ ~turn[t].core
    BY <1>4 DEF CompleteCore, BoundaryHeld, RequestInv
  <2> QED BY <2>1
<1>5. CASE MarkCoreFailed(t)
  <2>1. CASE turn[t].core
    <3>1. turn' = turn
      BY <1>5, <2>1, Zenon DEF MarkCoreFailed
    <3> QED BY <3>1
  <2>2. CASE ~turn[t].core
    <3>1. turn' = [turn EXCEPT ![t].status = "core_failed"]
      BY <1>5, <2>2, Zenon DEF MarkCoreFailed
    <3> QED BY <3>1, <2>2, <1>a DEF LedgerTypeOK, TurnRow
  <2> QED BY <2>1, <2>2
<1>6. ASSUME NEW s \in Tracked, StageOperation(t, s)
      PROVE  /\ turn[t].core => turn'[t].core /\ (MessagesPresent(t)' => MessagesPresent(t))
             /\ turn[t].status = "core_failed" => turn'[t].status = "core_failed"
  BY <1>6, <1>b, StageWrites
<1>7. CASE TerminalizeMissingInput(t)
  BY <1>7, <1>b, TerminalizeWrites
<1>8. ASSUME NEW who \in {"user", "assistant"}, DeleteMessage(t, who)
      PROVE  /\ turn[t].core => turn'[t].core /\ (MessagesPresent(t)' => MessagesPresent(t))
             /\ turn[t].status = "core_failed" => turn'[t].status = "core_failed"
  BY <1>8, <1>a DEF DeleteMessage, LedgerTypeOK, TurnRow
<1> QED BY <1>1, <1>2, <1>3, <1>4, <1>5, <1>6, <1>7, <1>8 DEF LedgerStep, StageOperation

LEMMA CompletedKept ==
  ASSUME LedgerInv, NEW t \in Turns, RequestInv(t), LedgerStep(t),
         NEW s \in Stages, stage[t][s].status = "completed"
  PROVE  stage'[t][s] = stage[t][s] /\ applied'[t][s] = applied[t][s]
<1>a. /\ LedgerTypeOK /\ CoreTruthOf(t) /\ OpenBoundaryOf(t)
      /\ turn[t] \in TurnRow /\ stage[t] \in [Stages -> Row] /\ applied[t] \in [Stages -> Nat]
      /\ Boundary \subseteq Stages /\ Tracked \subseteq Stages
  BY StageKinds, TurnRecords DEF LedgerInv, LedgerTypeOK
<1> USE <1>a DEF LedgerTypeOK
<1>1. CASE BeginTurn(t)
  BY <1>1 DEF BeginTurn, OpenBoundaryOf
<1>2. CASE MarkContextPrepared(t)
  BY <1>2 DEF MarkContextPrepared
<1>3. CASE MarkProviderStarted(t)
  BY <1>3 DEF MarkProviderStarted
<1>4. CASE SettleInterrupted(t)
  BY <1>4 DEF SettleInterrupted
<1>5. CASE CompleteCore(t)
  <2>1. stage'[t][s] = CoreRow(s, stage[t][s]) /\ applied' = applied
    BY <1>5 DEF CompleteCore
  <2> QED BY <2>1 DEF CoreRow
<1>6. CASE MarkCoreFailed(t)
  BY <1>6 DEF MarkCoreFailed
<1>7. ASSUME NEW x \in Tracked, NEW work, CommitStage(t, x, work)
      PROVE  stage'[t][s] = stage[t][s] /\ applied'[t][s] = applied[t][s]
  <2>1. x # s
    BY <1>7 DEF CommitStage, MayClaim
  <2> QED BY <1>7, <2>1, StageWrites DEF StageOperation
<1>8. ASSUME NEW x \in Tracked, ClaimStage(t, x)
      PROVE  stage'[t][s] = stage[t][s] /\ applied'[t][s] = applied[t][s]
  <2>1. x # s
    BY <1>8 DEF ClaimStage, MayClaim
  <2> QED BY <1>8, <2>1, StageWrites DEF StageOperation
<1>9. ASSUME NEW x \in Tracked, pc[t] = "operating", AtOpenStage(t, x), Outside(x, TRUE),
             OperateOutside(t, x)
      PROVE  stage'[t][s] = stage[t][s] /\ applied'[t][s] = applied[t][s]
  <2>1. x # s
    BY <1>9 DEF RequestInv
  <2> QED BY <1>9, <2>1, StageWrites DEF StageOperation
<1>10. ASSUME NEW x \in Tracked, CloseStage(t, x)
       PROVE  stage'[t][s] = stage[t][s] /\ applied'[t][s] = applied[t][s]
  <2> DEFINE r == [stage[t] EXCEPT ![x].status = IF @ = "running" THEN "completed" ELSE @]
  <2>1. WriteAndRefresh(t, r) /\ applied' = applied
    BY <1>10 DEF CloseStage
  <2>2. r[s] = stage[t][s]
    <3>1. CASE x = s BY <3>1 DEF Row
    <3>2. CASE x # s BY <3>2
    <3> QED BY <3>1, <3>2
  <2> HIDE DEF r
  <2> QED BY <2>1, <2>2, RefreshEffect
<1>11. ASSUME NEW x \in Tracked, NEW n \in {0, 1}, MarkStageFailed(t, x, n)
       PROVE  stage'[t][s] = stage[t][s] /\ applied'[t][s] = applied[t][s]
  <2> DEFINE r == [stage[t] EXCEPT ![x] =
                     IF @.status \in {"pending", "running", "failed"}
                     THEN [status |-> "failed", attempts |-> @.attempts + n] ELSE @]
  <2>1. WriteAndRefresh(t, r) /\ applied' = applied
    BY <1>11 DEF MarkStageFailed
  <2>2. r[s] = stage[t][s]
    <3>1. CASE x = s BY <3>1
    <3>2. CASE x # s BY <3>2
    <3> QED BY <3>1, <3>2
  <2> HIDE DEF r
  <2> QED BY <2>1, <2>2, RefreshEffect
<1>12. CASE TerminalizeMissingInput(t)
  BY <1>12, TerminalizeWrites
<1>13. ASSUME NEW who \in {"user", "assistant"}, DeleteMessage(t, who)
       PROVE  stage' = stage /\ applied' = applied
  BY <1>13 DEF DeleteMessage
<1> QED BY <1>1, <1>2, <1>3, <1>4, <1>5, <1>6, <1>7, <1>8, <1>9, <1>10, <1>11, <1>12, <1>13
        DEF LedgerStep

-----------------------------------------------------------------------------
(* Steps that are not requests leave the handlers where they are, or end them *)
(* with their process; their ledger operation is a foreign one.               *)
LEMMA OutsideRequests ==
  ASSUME TypeOK, LedgerInv, HandlerInv, NEW u \in Turns, Next,
         ~\E t \in Turns : RequestStep(t)
  PROVE  \/ pc'[u] = "gone" /\ left'[u] = {}
         \/ /\ pc'[u] = pc[u] /\ left'[u] = left[u] /\ has'[u] = has[u]
            /\ ForeignOperation(u) \/ (turn'[u] = turn[u] /\ stage'[u] = stage[u])
<1> DEFINE Same == pc'[u] = pc[u] /\ left'[u] = left[u] /\ has'[u] = has[u]
           Foreign == ForeignOperation(u) \/ (turn'[u] = turn[u] /\ stage'[u] = stage[u])
<1>a. LedgerTypeOK
  BY DEF LedgerInv
<1>b. ASSUME NEW t \in Turns, LedgerStep(t), ForeignOperation(t)
      PROVE  Foreign
  BY <1>a, <1>b, OtherTurns
<1>c. UNCHANGED requestVars => Same
  BY DEF requestVars
<1>d. UNCHANGED ledgerVars => Foreign
  BY DEF ledgerVars
<1>1. ASSUME NEW d \in Devices, RecoveryStep(d)
      PROVE  Same /\ Foreign
  <2>1. Same
    BY <1>1, <1>c, RecoveryStepTypes DEF RecoveryStep
  <2>2. CASE UNCHANGED ledgerVars
    BY <2>1, <2>2, <1>d
  <2>3. CASE RecoveryOperation(d, subject[d])
    <3>1. subject[d] \in Turns /\ LedgerStep(subject[d])
      BY <2>3, RecoveryIsLedger DEF TypeOK
    <3>2. rows[d] \subseteq Automatic
      BY DEF HandlerInv, RecoveryInv
    <3>3. ForeignOperation(subject[d])
      BY <2>3, <3>2 DEF RecoveryOperation, ForeignOperation
    <3> QED BY <2>1, <3>1, <3>3, <1>b
  <2> QED BY <1>1, <2>2, <2>3, RecoveryLedger
<1>2. ASSUME NEW t \in Turns, NEW who \in {"user", "assistant"}, UserDeletes(t, who)
      PROVE  Same /\ Foreign
  <2>1. LedgerStep(t) /\ ForeignOperation(t) /\ UNCHANGED requestVars
    BY <1>2 DEF UserDeletes, LedgerStep, ForeignOperation
  <2> QED BY <2>1, <1>b, <1>c
<1>3. ASSUME NEW d \in Devices, NEW t \in Turns, Settle(d, t)
      PROVE  Same /\ Foreign
  <2>1. LedgerStep(t) /\ ForeignOperation(t) /\ UNCHANGED requestVars
    BY <1>3 DEF Settle, LedgerStep, ForeignOperation
  <2> QED BY <2>1, <1>b, <1>c
<1>4. ASSUME NEW d \in Devices, Start(d) \/ Close(d)
      PROVE  Same /\ Foreign
  <2>1. UNCHANGED requestVars /\ UNCHANGED ledgerVars
    BY <1>4 DEF Start, Close
  <2> QED BY <2>1, <1>c, <1>d
<1>5. ASSUME NEW d \in Devices, Crash(d)
      PROVE  (pc'[u] = "gone" /\ left'[u] = {}) \/ (Same /\ Foreign)
  <2>1. Foreign
    BY <1>5, <1>d DEF Crash
  <2>2. CASE u \in LiveOn(d)
    BY <1>5, <2>2 DEF Crash
  <2>3. CASE u \notin LiveOn(d)
    BY <1>5, <2>1, <2>3 DEF Crash
  <2> QED BY <2>2, <2>3
<1> QED BY <1>1, <1>2, <1>3, <1>4, <1>5 DEF Next, RequestStep, RecoveryStep

LEMMA RequestInvHolds ==
  ASSUME TypeOK, LedgerInv, HandlerInv, Next, NEW u \in Turns
  PROVE  RequestInv(u)'
<1>a. RequestInv(u) /\ LedgerTypeOK
  BY DEF HandlerInv, LedgerInv
<1>1. CASE RequestStep(u)
  <2>1. CASE \/ ReceiveMessage(u) \/ PrepareContext(u) \/ LeavePending(u) \/ StartProvider(u)
             \/ ProviderReplies(u) \/ ProviderFails(u) \/ SaveReply(u)
             \/ SaveReplyUnacknowledged(u) \/ SaveReplyFails(u) \/ RecordCoreFailure(u)
             \/ LoseCoreFailure(u) \/ EndRequest(u)
    BY <2>1, <1>a, BeforeReplyKeeps
  <2>2. CASE OutsideFails(u)
    BY <2>2, <1>a, TrackedAssumption, AtStageKeeps
  <2>3. ASSUME NEW s \in Tracked,
               \/ RunStage(u, s) \/ StageRollsBack(u, s) \/ StageNotClaimed(u, s)
               \/ RecordStageFailure(u, s) \/ ClaimOutside(u, s) \/ Operate(u, s)
               \/ CloseOutside(u, s) \/ RunStageUnacknowledged(u, s) \/ LoseStageFailure(u, s)
        PROVE  RequestInv(u)'
    BY <2>3, <1>a, AtStageKeeps
  <2> QED BY <1>1, <2>1, <2>2, <2>3 DEF RequestStep, RequestAdvances, RequestFaults
<1>2. ASSUME NEW t \in Turns, t # u, RequestStep(t)
      PROVE  RequestInv(u)'
  <2>1. pc'[u] = pc[u] /\ left'[u] = left[u] /\ has'[u] = has[u]
    BY <1>2, OtherHandlers
  <2>2. turn'[u] = turn[u] /\ stage'[u] = stage[u]
    <3>1. CASE UNCHANGED ledgerVars BY <3>1 DEF ledgerVars
    <3>2. CASE LedgerStep(t) BY <3>2, <1>2, <1>a, OtherTurns
    <3> QED BY <1>2, <3>1, <3>2, RequestLedger
  <2> QED BY <2>1, <2>2, <1>a, ForeignOperationKeeps
<1>3. CASE ~\E t \in Turns : RequestStep(t)
  <2>1. CASE pc'[u] = "gone" /\ left'[u] = {}
    BY <2>1 DEF RequestInv, OpenPc
  <2>2. CASE ~(pc'[u] = "gone" /\ left'[u] = {})
    <3>1. /\ pc'[u] = pc[u] /\ left'[u] = left[u] /\ has'[u] = has[u]
          /\ ForeignOperation(u) \/ (turn'[u] = turn[u] /\ stage'[u] = stage[u])
      BY <1>3, <2>2, OutsideRequests
    <3> QED BY <3>1, <1>a, ForeignOperationKeeps
  <2> QED BY <2>1, <2>2
<1> QED BY <1>1, <1>2, <1>3

(* What the ledger owes to every reader, whoever takes the step.              *)
LEMMA LedgerKept ==
  ASSUME TypeOK, LedgerInv, HandlerInv, Next, NEW t \in Turns
  PROVE  /\ turn[t].core => turn'[t].core /\ (MessagesPresent(t)' => MessagesPresent(t))
         /\ turn[t].status = "core_failed" => turn'[t].status = "core_failed"
         /\ \A s \in Stages : stage[t][s].status = "completed" =>
              stage'[t][s] = stage[t][s] /\ applied'[t][s] = applied[t][s]
<1>a. LedgerTypeOK /\ RequestInv(t)
  BY DEF HandlerInv, LedgerInv
<1>1. CASE turn'[t] = turn[t] /\ stage'[t] = stage[t] /\ applied'[t] = applied[t]
  BY <1>1 DEF MessagesPresent
<1>2. CASE LedgerStep(t)
  BY <1>2, <1>a, AnswerKept, CompletedKept
<1>3. ASSUME NEW u \in Turns, LedgerStep(u), u # t
      PROVE  turn'[t] = turn[t] /\ stage'[t] = stage[t] /\ applied'[t] = applied[t]
  BY <1>3, <1>a, OtherTurns
<1>4. CASE UNCHANGED ledgerVars
  BY <1>1, <1>4 DEF ledgerVars
<1> QED BY <1>1, <1>2, <1>3, <1>4, StepsOfTheLedger

-----------------------------------------------------------------------------
(* A step that gives a recovery no new work keeps what it knows.              *)
LEMMA RecoveryKept ==
  ASSUME TypeOK, LedgerInv, HandlerInv, Next, NEW d \in Devices,
         rows'[d] \subseteq rows[d], batch'[d] \subseteq batch[d], seen'[d] \subseteq seen[d],
         subject'[d] = subject[d], rpc'[d] = "terminalize" => rpc[d] = "terminalize",
         rpc'[d] \notin {"resume", "unmarked"} =>
           seen'[d] = {} \/ rpc[d] \notin {"resume", "unmarked"}
  PROVE  RecoveryInv(d)'
<1>1. /\ RecoveryInv(d) /\ subject[d] \in Turns /\ batch[d] \subseteq Turns
      /\ seen[d] \subseteq Stages
  BY DEF HandlerInv, TypeOK
<1>2. \A t \in batch'[d] : turn'[t].core
  BY <1>1, LedgerKept DEF RecoveryInv
<1>3. rpc'[d] = "terminalize" => turn'[subject[d]].core /\ ~MessagesPresent(subject[d])'
  BY <1>1, LedgerKept DEF RecoveryInv
<1>4. \A s \in seen'[d] : stage'[subject[d]][s].status = "completed"
  BY <1>1, LedgerKept DEF RecoveryInv
<1>5. MessagesPresent(subject[d])' <=> turn'[subject[d]].user /\ turn'[subject[d]].assistant
  BY DEF MessagesPresent
<1>6. (~MessagesPresent(subject[d]))' <=> ~(turn'[subject'[d]].user /\ turn'[subject'[d]].assistant)
  BY DEF MessagesPresent
<1>7. rpc'[d] \notin {"resume", "unmarked"} => seen'[d] = {}
  BY <1>1 DEF RecoveryInv
<1>8. rows'[d] \subseteq Automatic
  BY <1>1 DEF RecoveryInv
<1> QED BY <1>2, <1>3, <1>4, <1>7, <1>8 DEF RecoveryInv, MessagesPresent

(* A step of one recovery leaves the others alone.                            *)
LEMMA OtherRecoveries ==
  ASSUME TypeOK, NEW d \in Devices, NEW e \in Devices, e # d,
         RecoveryStep(e) \/ Start(e) \/ Crash(e) \/ Close(e)
  PROVE  /\ rows'[d] = rows[d] /\ seen'[d] = seen[d] /\ batch'[d] = batch[d]
         /\ subject'[d] = subject[d] /\ rpc'[d] = rpc[d]
<1> DEFINE Same == /\ rows'[d] = rows[d] /\ seen'[d] = seen[d] /\ batch'[d] = batch[d]
                   /\ subject'[d] = subject[d] /\ rpc'[d] = rpc[d]
<1> USE DEF TypeOK
<1>1. CASE Start(e) \/ Crash(e) \/ Close(e)
  BY <1>1 DEF Start, Crash, Close, Forget
<1>2. CASE ListTurns(e) \/ FinishRecovery(e) \/ ListingFails(e)
  BY <1>2 DEF ListTurns, FinishRecovery, ListingFails
<1>3. CASE TakeTurn(e) BY <1>3 DEF TakeTurn
<1>4. CASE Terminalize(e) \/ LeaveTurn(e) \/ ResumeAborts(e)
  BY <1>4 DEF Terminalize, LeaveTurn, ResumeAborts, Forget
<1>5. CASE ReadStages(e) BY <1>5 DEF ReadStages
<1>6. ASSUME NEW s \in Tracked, ResumeStage(e, s)
      PROVE  Same
  BY <1>6 DEF ResumeStage, PassRow
<1>7. ASSUME NEW s \in Tracked,
             \/ PassOver(e, s) \/ RecordResumeFailure(e, s) \/ LoseResumeFailure(e, s)
             \/ ResumeStageUnacknowledged(e, s) \/ ResumedStageRollsBack(e, s)
      PROVE  Same
  BY <1>7 DEF PassOver, RecordResumeFailure, LoseResumeFailure, PassRow,
     ResumeStageUnacknowledged, ResumedStageRollsBack
<1> QED BY <1>1, <1>2, <1>3, <1>4, <1>5, <1>6, <1>7
        DEF RecoveryStep, RecoveryAdvances, RecoveryFaults

LEMMA RecoveryInvHolds ==
  ASSUME TypeOK, LedgerInv, HandlerInv, Next, NEW d \in Devices
  PROVE  RecoveryInv(d)'
<1>a. /\ rpc \in [Devices -> RecoveryPc] /\ batch \in [Devices -> SUBSET Turns]
      /\ subject \in [Devices -> Turns] /\ seen \in [Devices -> SUBSET Stages]
      /\ rows \in [Devices -> SUBSET Tracked] /\ RecoveryInv(d) /\ LedgerTypeOK
      /\ stage \in [Turns -> [Stages -> Row]]
  BY DEF TypeOK, HandlerInv, LedgerTypeOK
<1>b. ASSUME rows'[d] = rows[d], batch'[d] = batch[d], seen'[d] = seen[d],
             subject'[d] = subject[d], rpc'[d] = rpc[d]
      PROVE  RecoveryInv(d)'
  BY <1>b, RecoveryKept
<1>1. CASE ListTurns(d)
  <2>1. PICK B \in SUBSET Turns : IsBatch(B) /\ batch' = [batch EXCEPT ![d] = B]
    BY <1>1 DEF ListTurns
  <2>2. /\ rpc'[d] = "pick" /\ rows' = rows /\ seen' = seen /\ subject' = subject
        /\ turn' = turn /\ stage' = stage /\ rpc[d] = "idle" /\ batch'[d] = B
    BY <1>1, <1>a, <2>1 DEF ListTurns, ledgerVars
  <2>3. \A t \in B : turn[t].core
    BY <2>1 DEF IsBatch, Incomplete
  <2> QED BY <2>2, <2>3, <1>a DEF RecoveryInv
<1>2. CASE TakeTurn(d)
  <2>1. PICK t \in batch[d] :
          /\ batch' = [batch EXCEPT ![d] = @ \ {t}]
          /\ subject' = [subject EXCEPT ![d] = t]
          /\ rpc' = [rpc EXCEPT ![d] =
               IF MessagesPresent(t) THEN "snapshot" ELSE "terminalize"]
    BY <1>2 DEF TakeTurn
  <2>2. /\ batch'[d] = batch[d] \ {t} /\ subject'[d] = t
        /\ rpc'[d] = IF MessagesPresent(t) THEN "snapshot" ELSE "terminalize"
    BY <2>1, <1>a
  <2>3. /\ turn' = turn /\ stage' = stage /\ seen' = seen /\ rows' = rows /\ rpc[d] = "pick"
    BY <1>2 DEF TakeTurn, ledgerVars
  <2>4. seen[d] = {} /\ turn[t].core
    BY <2>1, <2>3, <1>a DEF RecoveryInv
  <2>5. rpc'[d] = "terminalize" => ~MessagesPresent(t)
    BY <2>2
  <2> QED BY <2>2, <2>3, <2>4, <2>5, <1>a DEF RecoveryInv, MessagesPresent
<1>3. CASE ReadStages(d)
  <2>1. /\ seen'[d] = Completed(subject[d]) /\ rows'[d] = Candidates(subject[d])
        /\ rpc'[d] = "resume" /\ turn' = turn /\ stage' = stage
        /\ batch' = batch /\ subject' = subject
    BY <1>3, <1>a DEF ReadStages, ledgerVars
  <2> QED BY <2>1, <1>a DEF RecoveryInv, Completed, Candidates
<1>4. ASSUME NEW s \in Tracked, ResumeStage(d, s)
      PROVE  RecoveryInv(d)'
  <2>1. /\ seen'[d] = seen[d] \cup {s} /\ rows'[d] = rows[d] \ {s} /\ rpc'[d] = "resume"
        /\ batch' = batch /\ subject' = subject
    BY <1>4, <1>a DEF ResumeStage, PassRow
  <2>2. stage'[subject[d]][s].status = "completed"
    <3> DEFINE r == [stage[subject[d]] EXCEPT ![s] =
                       [status |-> "completed", attempts |-> @.attempts + 1]]
    <3>1. WriteAndRefresh(subject[d], r)
      BY <1>4 DEF ResumeStage, CommitStage
    <3>2. stage'[subject[d]] = r
      BY <3>1, <1>a DEF WriteAndRefresh
    <3>3. r[s].status = "completed"
      BY <1>a, StageKinds
    <3> QED BY <3>2, <3>3
  <2>3. \A x \in seen[d] : stage'[subject[d]][x].status = "completed"
    BY <1>a, LedgerKept DEF RecoveryInv
  <2>4. \A t \in batch[d] : turn'[t].core
    BY <1>a, LedgerKept DEF RecoveryInv
  <2> QED BY <2>1, <2>2, <2>3, <2>4, <1>a DEF RecoveryInv
<1>5. CASE Terminalize(d) \/ LeaveTurn(d) \/ ResumeAborts(d)
  <2>1. rows'[d] = {} /\ seen'[d] = {} /\ batch' = batch /\ subject' = subject /\ rpc'[d] = "pick"
    BY <1>5, <1>a DEF Terminalize, LeaveTurn, ResumeAborts, Forget
  <2> QED BY <2>1, RecoveryKept
<1>6. CASE FinishRecovery(d) \/ ListingFails(d) \/ Start(d) \/ Close(d)
  <2>1. /\ rows' = rows /\ seen' = seen /\ batch' = batch /\ subject' = subject
        /\ rpc'[d] \in {"finished", "idle", "down"}
        /\ rpc[d] \in {"pick", "idle", "down", "finished"}
    BY <1>6, <1>a DEF FinishRecovery, ListingFails, Start, Close
  <2> QED BY <2>1, RecoveryKept
<1>7. CASE Crash(d)
  <2>1. /\ rows'[d] = {} /\ seen'[d] = {} /\ batch'[d] = {} /\ subject' = subject
        /\ rpc'[d] = "down"
    BY <1>7, <1>a DEF Crash, Forget
  <2> QED BY <2>1, RecoveryKept
<1>8. ASSUME NEW s \in Tracked,
             \/ PassOver(d, s) \/ RecordResumeFailure(d, s) \/ LoseResumeFailure(d, s)
      PROVE  RecoveryInv(d)'
  <2>1. /\ rows'[d] = rows[d] \ {s} /\ seen' = seen /\ batch' = batch /\ subject' = subject
        /\ rpc'[d] = "resume"
    BY <1>8, <1>a DEF PassOver, RecordResumeFailure, LoseResumeFailure, PassRow
  <2> QED BY <2>1, RecoveryKept
<1>9. ASSUME NEW s \in Tracked, ResumeStageUnacknowledged(d, s) \/ ResumedStageRollsBack(d, s)
      PROVE  RecoveryInv(d)'
  <2>1. /\ rows' = rows /\ seen' = seen /\ batch' = batch /\ subject' = subject
        /\ rpc'[d] = "unmarked"
    BY <1>9, <1>a DEF ResumeStageUnacknowledged, ResumedStageRollsBack
  <2> QED BY <2>1, RecoveryKept
<1>10. ASSUME NEW e \in Devices, e # d, RecoveryStep(e) \/ Start(e) \/ Crash(e) \/ Close(e)
       PROVE  RecoveryInv(d)'
  <2>1. /\ rows'[d] = rows[d] /\ seen'[d] = seen[d] /\ batch'[d] = batch[d]
        /\ subject'[d] = subject[d] /\ rpc'[d] = rpc[d]
    BY <1>10, OtherRecoveries DEF RecoveryStep
  <2> QED BY <2>1, <1>b
<1>11. ASSUME NEW t \in Turns, RequestStep(t)
       PROVE  RecoveryInv(d)'
  <2>1. UNCHANGED recoveryVars
    BY <1>11, RequestStepTypes DEF RequestStep
  <2> QED BY <2>1, <1>b DEF recoveryVars
<1>12. ASSUME NEW t \in Turns, NEW who \in {"user", "assistant"}, UserDeletes(t, who)
       PROVE  RecoveryInv(d)'
  BY <1>12, <1>b DEF UserDeletes, recoveryVars
<1>13. ASSUME NEW t \in Turns, NEW e \in Devices, Settle(e, t)
       PROVE  RecoveryInv(d)'
  BY <1>13, <1>b DEF Settle, recoveryVars
<1>14. ASSUME RecoveryStep(d) \/ Start(d) \/ Crash(d) \/ Close(d)
       PROVE  RecoveryInv(d)'
  BY <1>14, <1>1, <1>2, <1>3, <1>4, <1>5, <1>6, <1>7, <1>8, <1>9
     DEF RecoveryStep, RecoveryAdvances, RecoveryFaults
<1>15. ASSUME NEW e \in Devices, RecoveryStep(e) \/ Start(e) \/ Crash(e) \/ Close(e)
       PROVE  RecoveryInv(d)'
  BY <1>15, <1>10, <1>14
<1> QED BY <1>11, <1>12, <1>13, <1>15 DEF Next, RequestStep, RecoveryStep

LEMMA HandlerInvAtFirst == Init => HandlerInv
<1> SUFFICES ASSUME Init PROVE HandlerInv
  OBVIOUS
<1>1. ASSUME NEW t \in Turns PROVE RequestInv(t)
  <2>1. pc[t] = "idle" /\ left[t] = {} /\ turn[t].status = "none"
    BY DEF Init, LedgerInit
  <2> QED BY <2>1 DEF RequestInv, OpenPc
<1>2. ASSUME NEW d \in Devices PROVE RecoveryInv(d)
  <2>1. rpc[d] = "down" /\ rows[d] = {} /\ batch[d] = {} /\ seen[d] = {}
    BY DEF Init
  <2> QED BY <2>1 DEF RecoveryInv
<1> QED BY <1>1, <1>2 DEF HandlerInv

LEMMA HandlerInvHolds ==
  ASSUME TypeOK, LedgerInv, HandlerInv, [Next]_vars
  PROVE  HandlerInv'
<1>1. CASE Next
  BY <1>1, RequestInvHolds, RecoveryInvHolds DEF HandlerInv
<1>2. CASE UNCHANGED vars
  <2>1. UNCHANGED <<turn, stage>> /\ UNCHANGED <<pc, left, has>>
        /\ UNCHANGED <<rows, batch, rpc, subject, seen>>
    BY <1>2 DEF vars, ledgerVars, requestVars, recoveryVars
  <2>2. ASSUME NEW t \in Turns PROVE RequestInv(t)'
    BY <2>1, ForeignStepKeeps DEF HandlerInv, RequestInv
  <2>3. ASSUME NEW d \in Devices PROVE RecoveryInv(d)'
    BY <2>1 DEF HandlerInv, RecoveryInv, MessagesPresent
  <2> QED BY <2>2, <2>3 DEF HandlerInv
<1> QED BY <1>1, <1>2

LEMMA HandlerInvariant == Spec => []HandlerInv
<1>1. Init => HandlerInv
  BY HandlerInvAtFirst
<1>2. TypeOK /\ LedgerInv /\ HandlerInv /\ [Next]_vars => HandlerInv'
  BY HandlerInvHolds
<1> QED BY <1>1, <1>2, Types, LedgerInvariant, PTL DEF Spec

-----------------------------------------------------------------------------
(* An answered turn stays answered and a failed one failed, although a        *)
(* handler, a settlement on another device and a handler's failure report     *)
(* compete for the outcome.                                                   *)
THEOREM OutcomesAreFinal == Spec => CoreOutcomeFinal
<1> DEFINE Final == \A t \in Turns :
                      /\ turn[t].core => turn'[t].core
                      /\ turn[t].status = "core_failed" => turn'[t].status = "core_failed"
<1>1. TypeOK /\ LedgerInv /\ HandlerInv /\ [Next]_vars => [Final]_vars
  BY LedgerKept
<1> QED BY <1>1, Types, LedgerInvariant, HandlerInvariant, PTL DEF Spec, CoreOutcomeFinal

(* A completed stage is never touched again, by any process, and its work is  *)
(* never repeated.                                                            *)
THEOREM CompletedIsFinal == Spec => CompletedStays
<1> DEFINE Stays == \A t \in Turns, s \in Stages :
                      stage[t][s].status = "completed" =>
                        stage'[t][s] = stage[t][s] /\ applied'[t][s] = applied[t][s]
<1>1. TypeOK /\ LedgerInv /\ HandlerInv /\ [Next]_vars => [Stays]_vars
  BY LedgerKept
<1> QED BY <1>1, Types, LedgerInvariant, HandlerInvariant, PTL DEF Spec, CompletedStays

-----------------------------------------------------------------------------
(* The status of a turn.                                                      *)
StatusDerivedOf(t) ==
  turn[t].core /\ MessagesPresent(t) => turn[t].status = Derived(stage[t])

LEMMA StatusKept ==
  ASSUME TypeOK, LedgerInv, HandlerInv, NEW t \in Turns, LedgerStep(t), StatusDerivedOf(t)
  PROVE  StatusDerivedOf(t)'
<1>a. /\ LedgerTypeOK /\ CoreTruthOf(t) /\ OpenBoundaryOf(t) /\ RequestInv(t)
      /\ turn[t] \in TurnRow /\ stage[t] \in [Stages -> Row] /\ turn[t].core \in BOOLEAN
  BY TurnRecords DEF LedgerInv, HandlerInv
<1>b. ASSUME turn'[t] = turn[t], Derived(stage'[t]) = Derived(stage[t])
      PROVE  StatusDerivedOf(t)'
  BY <1>b DEF StatusDerivedOf, MessagesPresent
<1>c. ~turn'[t].core => StatusDerivedOf(t)'
  BY DEF StatusDerivedOf
<1>d. ASSUME NEW r, WriteAndRefresh(t, r)
      PROVE  StatusDerivedOf(t)'
  BY <1>a, <1>d, RefreshEffect DEF StatusDerivedOf
<1>1. CASE BeginTurn(t)
  BY <1>1, <1>a, <1>c DEF BeginTurn, LedgerTypeOK
<1>2. CASE MarkContextPrepared(t) \/ MarkProviderStarted(t)
  <2>1. turn' = turn /\ ~turn[t].core
    BY <1>2 DEF MarkContextPrepared, MarkProviderStarted, CoreOpen
  <2> QED BY <2>1, <1>c
<1>3. CASE SettleInterrupted(t)
  <2>1. ~turn[t].core
    BY <1>3, <1>a DEF SettleInterrupted, CoreTruthOf
  <2>2. turn'[t].core = turn[t].core
    BY <1>3, <1>a DEF SettleInterrupted, LedgerTypeOK, TurnRow
  <2> QED BY <2>1, <2>2, <1>c
<1>4. CASE CompleteCore(t)
  <2>1. turn'[t].status = "core_completed"
    BY <1>4, <1>a DEF CompleteCore, LedgerTypeOK, TurnRow
  <2>2. ~turn[t].core /\ BoundaryHeld(t)
    BY <1>4 DEF CompleteCore
  <2>3. \A s \in Stages : stage'[t][s] = CoreRow(s, stage[t][s])
    BY <1>4, <1>a DEF CompleteCore, LedgerTypeOK
  <2>4. \A s \in Tracked : s \in Stages /\ s \notin Boundary /\ stage'[t][s].status = "pending"
    <3> SUFFICES ASSUME NEW s \in Tracked
                 PROVE  s \in Stages /\ s \notin Boundary /\ stage'[t][s].status = "pending"
      OBVIOUS
    <3>1. s \in Stages /\ s \notin Boundary
      BY StageKinds
    <3>2. stage[t][s].status = "absent"
      BY <2>2, <1>a DEF CoreTruthOf
    <3>3. stage'[t][s] = CoreRow(s, stage[t][s])
      BY <2>3, <3>1
    <3> QED BY <3>1, <3>2, <3>3 DEF CoreRow, FreshRow, Boundary
  <2>5. \A s \in Boundary : stage'[t][s].status # "failed"
    <3>1. \A s \in Boundary : s \notin Tracked /\ stage'[t][s] = CoreRow(s, stage[t][s])
      BY <2>3, StageKinds
    <3>2. stage[t]["context_prepare"].status = "completed"
      BY <2>2 DEF BoundaryHeld
    <3>3. stage[t]["provider_generate"].status = "running"
      BY <2>2 DEF BoundaryHeld
    <3>4. stage[t]["assistant_persist"].status = "pending"
      BY <2>2, <3>2, <1>a DEF OpenBoundaryOf
    <3> QED BY <3>1, <3>2, <3>3, <3>4 DEF CoreRow, Boundary
  <2>6. \A s \in Stages : stage'[t][s].status # "failed"
    BY <2>4, <2>5 DEF Stages
  <2>7. \E s \in Stages : stage'[t][s].status = "pending"
    BY <2>4, TrackedAssumption
  <2>8. Derived(stage'[t]) = "core_completed"
    BY <2>6, <2>7 DEF Derived
  <2> QED BY <2>1, <2>8 DEF StatusDerivedOf
<1>5. CASE MarkCoreFailed(t)
  <2>1. CASE turn[t].core
    <3>1. turn' = turn /\ stage' = stage
      BY <1>5, <2>1, Zenon DEF MarkCoreFailed
    <3> QED BY <3>1, <1>b
  <2>2. CASE ~turn[t].core
    <3>1. turn' = [turn EXCEPT ![t].status = "core_failed"]
      BY <1>5, <2>2, Zenon DEF MarkCoreFailed
    <3> QED BY <3>1, <2>2, <1>a, <1>c DEF LedgerTypeOK, TurnRow
  <2> QED BY <2>1, <2>2
<1>6. ASSUME NEW s \in Tracked, NEW work, CommitStage(t, s, work)
      PROVE  StatusDerivedOf(t)'
  BY <1>6, <1>d DEF CommitStage
<1>7. ASSUME NEW s \in Tracked, AtStage(t, s), NEW work, Outside(s, work), ClaimStage(t, s)
      PROVE  StatusDerivedOf(t)'
  <2>1. s \in left[t] \ Automatic /\ pc[t] \notin OpenPc
    BY <1>7 DEF AtStage, IsFirst, Outside, Automatic, OpenPc
  <2>2. stage[t][s].status = "pending"
    BY <2>1, <1>a DEF RequestInv
  <2>3. turn' = turn /\ stage'[t] = [stage[t] EXCEPT ![s] =
                          [status |-> "running", attempts |-> @.attempts + 1]]
    BY <1>7, <1>a DEF ClaimStage, LedgerTypeOK
  <2>4. s \in Stages
    BY StageKinds
  <2>5. \A x \in Stages : stage'[t][x].status = "failed" <=> stage[t][x].status = "failed"
    BY <2>2, <2>3, <2>4, <1>a
  <2>6. \A x \in Stages : stage'[t][x].status \notin {"absent", "completed"}
                            <=> stage[t][x].status \notin {"absent", "completed"}
    BY <2>2, <2>3, <2>4, <1>a
  <2>7. Derived(stage'[t]) = Derived(stage[t])
    BY <2>5, <2>6 DEF Derived
  <2> QED BY <2>3, <2>7, <1>b
<1>8. ASSUME NEW s \in Tracked, OperateOutside(t, s)
      PROVE  StatusDerivedOf(t)'
  BY <1>8, <1>b DEF OperateOutside
<1>9. ASSUME NEW s \in Tracked, CloseStage(t, s)
      PROVE  StatusDerivedOf(t)'
  BY <1>9, <1>d DEF CloseStage
<1>10. ASSUME NEW s \in Tracked, NEW n \in {0, 1}, MarkStageFailed(t, s, n)
       PROVE  StatusDerivedOf(t)'
  BY <1>10, <1>d DEF MarkStageFailed
<1>11. ASSUME NEW d \in Devices, rpc[d] = "terminalize", subject[d] = t,
              TerminalizeMissingInput(t)
       PROVE  StatusDerivedOf(t)'
  <2>1. ~MessagesPresent(t)
    BY <1>11 DEF HandlerInv, RecoveryInv
  <2> QED BY <2>1, <1>11, TerminalizeWrites DEF StatusDerivedOf, MessagesPresent
<1>12. ASSUME NEW who \in {"user", "assistant"}, DeleteMessage(t, who)
       PROVE  StatusDerivedOf(t)'
  <2>1. ~(turn'[t].user /\ turn'[t].assistant)
    BY <1>12, <1>a DEF DeleteMessage, LedgerTypeOK, TurnRow
  <2> QED BY <2>1 DEF StatusDerivedOf, MessagesPresent
<1> QED BY <1>1, <1>2, <1>3, <1>4, <1>5, <1>6, <1>7, <1>8, <1>9, <1>10, <1>11, <1>12
        DEF LedgerStep

(* The shown status is the derived one in every reachable state: every writer *)
(* of a row refreshes, and the one claim that does not (work outside the      *)
(* database) only ever claims a pending row.                                  *)
THEOREM StatusIsDerived == Spec => []StatusDerived
<1>1. Init => StatusDerived
  BY DEF Init, LedgerInit, StatusDerived
<1>2. TypeOK /\ LedgerInv /\ HandlerInv /\ StatusDerived /\ [Next]_vars => StatusDerived'
  <2> SUFFICES ASSUME TypeOK, LedgerInv, HandlerInv, StatusDerived, [Next]_vars, NEW t \in Turns
               PROVE  StatusDerivedOf(t)'
    BY DEF StatusDerived, StatusDerivedOf
  <2>1. StatusDerivedOf(t) /\ LedgerTypeOK
    BY DEF StatusDerived, StatusDerivedOf, LedgerInv
  <2>2. CASE UNCHANGED ledgerVars
    BY <2>1, <2>2 DEF ledgerVars, StatusDerivedOf, MessagesPresent, Derived
  <2>3. CASE LedgerStep(t)
    BY <2>1, <2>3, StatusKept
  <2>4. ASSUME NEW u \in Turns, u # t, LedgerStep(u)
        PROVE  StatusDerivedOf(t)'
    <3>1. turn'[t] = turn[t] /\ stage'[t] = stage[t]
      BY <2>1, <2>4, OtherTurns
    <3> QED BY <2>1, <3>1 DEF StatusDerivedOf, MessagesPresent, Derived
  <2> QED BY <2>2, <2>3, <2>4, StepsOfTheLedger DEF vars
<1> QED BY <1>1, <1>2, Types, LedgerInvariant, HandlerInvariant, PTL DEF Spec

-----------------------------------------------------------------------------
(* Recovery completes a stage only after what it depends on: its snapshot may *)
(* be old, but what it shows completed stays completed.                       *)
THEOREM PrerequisitesFirst == Spec => RecoveryHonoursPrerequisites
<1> DEFINE Honours ==
      \A d \in Devices, s \in Tracked :
        LET t == subject[d] IN
        /\ rpc[d] = "resume" /\ s \in rows[d]
        /\ UNCHANGED requestVars /\ <<rpc[d], rows[d]>>' # <<rpc[d], rows[d]>>
        /\ stage[t][s].status # "completed" /\ stage'[t][s].status = "completed"
        => \A p \in Prerequisites(s) : stage[t][p].status = "completed"
<1>1. ASSUME TypeOK, LedgerInv, HandlerInv, Next
      PROVE  Honours
  <2> SUFFICES ASSUME NEW d \in Devices, NEW s \in Tracked,
                      rpc[d] = "resume", s \in rows[d],
                      <<rpc[d], rows[d]>>' # <<rpc[d], rows[d]>>,
                      stage[subject[d]][s].status # "completed",
                      stage'[subject[d]][s].status = "completed"
               PROVE  \A p \in Prerequisites(s) : stage[subject[d]][p].status = "completed"
    OBVIOUS
  <2> DEFINE t == subject[d]
  <2>a. /\ t \in Turns /\ s \in Stages /\ LedgerTypeOK /\ stage[t] \in [Stages -> Row]
        /\ rpc'[d] # rpc[d] \/ rows'[d] # rows[d]
    BY <1>1, StageKinds DEF TypeOK, LedgerTypeOK
  <2>b. ~UNCHANGED ledgerVars
    BY DEF ledgerVars
  <2>1. CASE RecoveryStep(d)
    <3>1. PICK x \in Tracked : \/ MayResume(d, x) /\ \E work : CommitStage(t, x, work)
                               \/ MarkStageFailed(t, x, 1)
      BY <1>1, <2>1, <2>b, RecoveryLedger DEF RecoveryOperation
    <3>2. x = s
      BY <1>1, <3>1, <2>a, StageWrites DEF StageOperation
    <3>3. ~MarkStageFailed(t, s, 1)
      <4> SUFFICES ASSUME MarkStageFailed(t, s, 1) PROVE FALSE
        OBVIOUS
      <4> DEFINE r == [stage[t] EXCEPT ![s] =
                         IF @.status \in {"pending", "running", "failed"}
                         THEN [status |-> "failed", attempts |-> @.attempts + 1] ELSE @]
      <4>1. WriteAndRefresh(t, r)
        BY DEF MarkStageFailed
      <4>2. r[s].status # "completed"
        BY <2>a
      <4> HIDE DEF r
      <4> QED BY <4>1, <4>2, <2>a DEF WriteAndRefresh, LedgerTypeOK
    <3>4. Prerequisites(s) \subseteq seen[d]
      BY <3>1, <3>2, <3>3 DEF MayResume
    <3> QED BY <1>1, <3>4 DEF HandlerInv, RecoveryInv
  <2>2. ASSUME NEW e \in Devices, e # d, RecoveryStep(e)
        PROVE  FALSE
    BY <1>1, <2>2, <2>a, OtherRecoveries
  <2>3. ASSUME NEW u \in Turns, RequestStep(u)
        PROVE  FALSE
    BY <1>1, <2>3, <2>a, RequestStepTypes DEF RequestStep, recoveryVars
  <2>4. ASSUME NEW u \in Turns, NEW who \in {"user", "assistant"}, UserDeletes(u, who)
        PROVE  FALSE
    BY <2>4, <2>a DEF UserDeletes, recoveryVars
  <2>5. ASSUME NEW e \in Devices, NEW u \in Turns, Settle(e, u)
        PROVE  FALSE
    BY <2>5, <2>a DEF Settle, recoveryVars
  <2>6. ASSUME NEW e \in Devices, Start(e) \/ Crash(e) \/ Close(e)
        PROVE  FALSE
    BY <2>6, <2>b DEF Start, Crash, Close
  <2> QED BY <1>1, <2>1, <2>2, <2>3, <2>4, <2>5, <2>6 DEF Next, RequestStep, RecoveryStep
<1>2. TypeOK /\ LedgerInv /\ HandlerInv /\ [Next]_vars => [Honours]_vars
  BY <1>1
<1> QED BY <1>2, Types, LedgerInvariant, HandlerInvariant, PTL
        DEF Spec, RecoveryHonoursPrerequisites

-----------------------------------------------------------------------------
(* ChatTurn implements TurnPromise, under the mapping stated in ChatTurn.     *)
SettledOf(t) == {s \in Transactional : stage[t][s].status = "completed"}
WorkedOf(t) == [s \in Transactional |-> applied[t][s]]

(* A turn whose phase, settled stages and work are what they were.            *)
Unmoved(t) == Phase(t)' = Phase(t) /\ SettledOf(t)' = SettledOf(t) /\ WorkedOf(t)' = WorkedOf(t)

LEMMA Stutters ==
  ASSUME \A u \in Turns : Unmoved(u)
  PROVE  UNCHANGED Promise!promiseVars
BY DEF Promise!promiseVars, Unmoved, SettledOf, WorkedOf

(* A change of phase, nothing else.                                           *)
LEMMA PhaseMoves ==
  ASSUME NEW t \in Turns, \A u \in Turns \ {t} : Unmoved(u),
         SettledOf(t)' = SettledOf(t), WorkedOf(t)' = WorkedOf(t),
         \/ Phase(t) = "none" /\ Phase(t)' = "open"
         \/ Phase(t) = "open" /\ Phase(t)' \in {"failed", "answered"}
  PROVE  Promise!Next
<1> DEFINE phase == [u \in Turns |-> Phase(u)]
           settled == [u \in Turns |-> SettledOf(u)]
           worked == [u \in Turns |-> WorkedOf(u)]
<1>1. settled' = settled /\ worked' = worked
  BY DEF Unmoved
<1>2. phase' = [phase EXCEPT ![t] = Phase(t)']
  BY DEF Unmoved
<1>3. phase[t] = Phase(t)
  OBVIOUS
<1>4. CASE Phase(t) = "none" /\ Phase(t)' = "open"
  <2>1. Promise!Open(t)
    BY <1>1, <1>2, <1>3, <1>4 DEF Promise!Open, SettledOf, WorkedOf
  <2> QED BY <2>1 DEF Promise!Next
<1>5. CASE Phase(t) = "open" /\ Phase(t)' = "failed"
  <2>1. Promise!Fail(t)
    BY <1>1, <1>2, <1>3, <1>5 DEF Promise!Fail, SettledOf, WorkedOf
  <2> QED BY <2>1 DEF Promise!Next
<1>6. CASE Phase(t) = "open" /\ Phase(t)' = "answered"
  <2>1. Promise!Answer(t)
    BY <1>1, <1>2, <1>3, <1>6 DEF Promise!Answer, SettledOf, WorkedOf
  <2> QED BY <2>1 DEF Promise!Next
<1> QED BY <1>4, <1>5, <1>6

(* One more stage settled, with its work done once or not at all.             *)
LEMMA StageSettles ==
  ASSUME NEW t \in Turns, \A u \in Turns \ {t} : Unmoved(u),
         NEW s \in Transactional, NEW n \in {0, 1},
         Phase(t) = "answered", Phase(t)' = "answered",
         s \notin SettledOf(t), SettledOf(t)' = SettledOf(t) \cup {s},
         WorkedOf(t)' = [WorkedOf(t) EXCEPT ![s] = n]
  PROVE  Promise!Next
<1> DEFINE phase == [u \in Turns |-> Phase(u)]
           settled == [u \in Turns |-> SettledOf(u)]
           worked == [u \in Turns |-> WorkedOf(u)]
<1>1. phase' = phase
  BY DEF Unmoved
<1>2. settled' = [settled EXCEPT ![t] = @ \cup {s}]
  BY DEF Unmoved
<1>3. worked' = [worked EXCEPT ![t][s] = n]
  BY DEF Unmoved
<1>4. phase[t] = "answered" /\ s \notin settled[t]
  OBVIOUS
<1>5. Promise!Settle(t, s, n)
  BY <1>1, <1>2, <1>3, <1>4 DEF Promise!Settle, SettledOf, WorkedOf
<1> QED BY <1>5 DEF Promise!Next

(* The phase a status stands for.                                             *)
LEMMA PhaseOf ==
  ASSUME NEW t
  PROVE  /\ turn[t].status = "none" => Phase(t) = "none"
         /\ turn[t].status = "pending" => Phase(t) = "open"
         /\ turn[t].status = "core_failed" => Phase(t) = "failed"
         /\ turn[t].status \in {"core_completed", "partial", "complete"} => Phase(t) = "answered"
         /\ turn'[t].status = turn[t].status => Phase(t)' = Phase(t)
         /\ turn'[t].status = "pending" => Phase(t)' = "open"
         /\ turn'[t].status = "core_failed" => Phase(t)' = "failed"
         /\ turn'[t].status \in {"core_completed", "partial", "complete"} => Phase(t)' = "answered"
  BY DEF Phase

LEMMA SameWork ==
  ASSUME NEW t,
         \A s \in Transactional :
           /\ stage'[t][s].status = "completed" <=> stage[t][s].status = "completed"
           /\ applied'[t][s] = applied[t][s]
  PROVE  SettledOf(t)' = SettledOf(t) /\ WorkedOf(t)' = WorkedOf(t)
  BY DEF SettledOf, WorkedOf

LEMMA OthersUnmoved ==
  ASSUME LedgerTypeOK, NEW t \in Turns, LedgerStep(t)
  PROVE  \A u \in Turns \ {t} : Unmoved(u)
  BY OtherTurns, PhaseOf, SameWork DEF Unmoved

(* The transactions up to the reply.                                          *)
LEMMA BoundaryPromise ==
  ASSUME LedgerInv, NEW t \in Turns, LedgerStep(t), RequestInv(t),
         \/ BeginTurn(t) \/ MarkContextPrepared(t) \/ MarkProviderStarted(t)
         \/ SettleInterrupted(t)
         \/ pc[t] = "replied" /\ CompleteCore(t)
         \/ pc[t] = "failing" /\ MarkCoreFailed(t)
  PROVE  Promise!Next \/ UNCHANGED Promise!promiseVars
<1>a. /\ LedgerTypeOK /\ CoreTruthOf(t) /\ OpenBoundaryOf(t)
      /\ turn[t] \in TurnRow /\ stage[t] \in [Stages -> Row]
      /\ turn[t].core \in BOOLEAN /\ turn[t].status \in TurnStatus
  BY TurnRecords DEF LedgerInv
<1>b. \A s \in Transactional : s \in Stages /\ s \in Tracked /\ s \notin Boundary
  BY StageKinds
<1>c. \A u \in Turns \ {t} : Unmoved(u)
  BY <1>a, OthersUnmoved
<1>d. ASSUME Unmoved(t) PROVE UNCHANGED Promise!promiseVars
  BY <1>c, <1>d, Stutters
<1> USE <1>a DEF LedgerTypeOK
<1>1. CASE BeginTurn(t)
  <2>1. turn'[t].status = "pending" /\ turn[t].status = "none" /\ applied' = applied
    BY <1>1 DEF BeginTurn
  <2>2. \A s \in Transactional :
          stage[t][s].status = "absent" /\ stage'[t][s].status = "absent"
    BY <1>1, <1>b DEF BeginTurn, OpenBoundaryOf, NoRow
  <2>3. SettledOf(t)' = SettledOf(t) /\ WorkedOf(t)' = WorkedOf(t)
    BY <2>1, <2>2, SameWork
  <2> QED BY <1>c, <2>1, <2>3, PhaseOf, PhaseMoves
<1>2. CASE MarkContextPrepared(t) \/ MarkProviderStarted(t)
  <2>1. turn' = turn /\ applied' = applied
    BY <1>2 DEF MarkContextPrepared, MarkProviderStarted
  <2>2. \A s \in Transactional : stage'[t][s] = stage[t][s]
    BY <1>2, <1>b DEF MarkContextPrepared, MarkProviderStarted, Boundary
  <2> QED BY <1>d, <2>1, <2>2, PhaseOf, SameWork DEF Unmoved
<1>3. CASE SettleInterrupted(t)
  <2>1. turn[t].status = "pending" /\ turn'[t].status = "core_failed" /\ applied' = applied
    BY <1>3 DEF SettleInterrupted, TurnRow
  <2>2. \A s \in Transactional : stage'[t][s] = stage[t][s]
    BY <1>3, <1>b DEF SettleInterrupted, Boundary
  <2>3. SettledOf(t)' = SettledOf(t) /\ WorkedOf(t)' = WorkedOf(t)
    BY <2>1, <2>2, SameWork
  <2> QED BY <1>c, <2>1, <2>3, PhaseOf, PhaseMoves
<1>4. CASE pc[t] = "replied" /\ CompleteCore(t)
  <2>1. turn'[t].status = "core_completed" /\ applied' = applied /\ ~turn[t].core
    BY <1>4 DEF CompleteCore, TurnRow
  <2>2. turn[t].status = "pending"
    <3>1. turn[t].status \in {"none", "pending", "core_failed"}
      BY <2>1 DEF CoreTruthOf, TurnStatus
    <3>2. turn[t].status # "none"
      BY <1>4 DEF RequestInv
    <3>3. turn[t].status # "core_failed"
      BY <1>4 DEF RequestInv, CompleteCore, BoundaryHeld
    <3> QED BY <3>1, <3>2, <3>3
  <2>3. \A s \in Transactional :
          stage[t][s].status = "absent" /\ stage'[t][s].status = "pending"
    <3> TAKE s \in Transactional
    <3>1. stage[t][s].status = "absent" /\ s \notin Boundary /\ s \in Stages
      BY <2>1, <1>b DEF CoreTruthOf
    <3>2. stage'[t][s] = CoreRow(s, stage[t][s])
      BY <1>4, <3>1 DEF CompleteCore
    <3> QED BY <3>1, <3>2, <1>b DEF CoreRow, Boundary, FreshRow
  <2>4. SettledOf(t)' = SettledOf(t) /\ WorkedOf(t)' = WorkedOf(t)
    BY <2>1, <2>3, SameWork
  <2> QED BY <1>c, <2>1, <2>2, <2>4, PhaseOf, PhaseMoves
<1>5. CASE pc[t] = "failing" /\ MarkCoreFailed(t)
  <2>1. stage' = stage /\ applied' = applied
    BY <1>5 DEF MarkCoreFailed
  <2>2. SettledOf(t)' = SettledOf(t) /\ WorkedOf(t)' = WorkedOf(t)
    BY <2>1, SameWork
  <2>3. CASE turn[t].core
    <3>1. turn' = turn
      BY <1>5, <2>3, Zenon DEF MarkCoreFailed
    <3> QED BY <1>d, <2>2, <3>1, PhaseOf DEF Unmoved
  <2>4. CASE ~turn[t].core
    <3>1. turn' = [turn EXCEPT ![t].status = "core_failed"]
      BY <1>5, <2>4, Zenon DEF MarkCoreFailed
    <3>2. turn'[t].status = "core_failed"
      BY <3>1 DEF TurnRow
    <3>3. turn[t].status \in {"pending", "core_failed"}
      BY <1>5, <2>4 DEF CoreTruthOf, TurnStatus, RequestInv
    <3>4. CASE turn[t].status = "core_failed"
      BY <1>d, <2>2, <3>2, <3>4, PhaseOf DEF Unmoved
    <3>5. CASE turn[t].status = "pending"
      BY <1>c, <2>2, <3>2, <3>5, PhaseOf, PhaseMoves
    <3> QED BY <3>3, <3>4, <3>5
  <2> QED BY <2>3, <2>4
<1> QED BY <1>1, <1>2, <1>3, <1>4, <1>5

(* A transaction of a stage that moves neither its completion nor its work.   *)
LEMMA StageStutters ==
  ASSUME LedgerInv, NEW t \in Turns, NEW s \in Tracked, StageOperation(t, s), LedgerStep(t),
         s \in Transactional =>
           /\ stage'[t][s].status = "completed" <=> stage[t][s].status = "completed"
           /\ applied'[t][s] = applied[t][s]
  PROVE  UNCHANGED Promise!promiseVars
<1>1. /\ \A x \in Stages \ {s} : stage'[t][x] = stage[t][x] /\ applied'[t][x] = applied[t][x]
      /\ ~turn[t].core => turn'[t].status = turn[t].status
      /\ turn[t].core => turn'[t].status \in {"core_completed", "partial", "complete"}
  BY StageWrites
<1>2. CoreTruthOf(t) /\ LedgerTypeOK /\ \A x \in Transactional : x \in Stages
  BY StageKinds DEF LedgerInv
<1>3. Phase(t)' = Phase(t)
  BY <1>1, <1>2, PhaseOf DEF CoreTruthOf
<1>4. SettledOf(t)' = SettledOf(t) /\ WorkedOf(t)' = WorkedOf(t)
  BY <1>1, <1>2, SameWork
<1> QED BY <1>2, <1>3, <1>4, OthersUnmoved, Stutters DEF Unmoved

(* A committed stage is settled, once, after the answer.                      *)
LEMMA CommitPromise ==
  ASSUME LedgerInv, NEW t \in Turns, NEW s \in Tracked, NEW work, CommitStage(t, s, work),
         LedgerStep(t)
  PROVE  Promise!Next \/ UNCHANGED Promise!promiseVars
<1>a. /\ LedgerTypeOK /\ CoreTruthOf(t) /\ LedgerTruthOf(t)
      /\ turn[t] \in TurnRow /\ turn[t].core \in BOOLEAN /\ s \in Stages
      /\ stage[t] \in [Stages -> Row] /\ applied[t] \in [Stages -> Nat]
      /\ \A x \in Transactional : x \in Stages
  BY TurnRecords, StageKinds DEF LedgerInv, LedgerTypeOK
<1>b. StageOperation(t, s)
  BY DEF StageOperation
<1>1. stage[t][s].status \in {"pending", "running", "failed"}
  BY DEF CommitStage, MayClaim
<1>2. turn[t].core
  BY <1>a, <1>1 DEF CoreTruthOf
<1>3. Phase(t) = "answered" /\ Phase(t)' = "answered"
  BY <1>a, <1>b, <1>2, StageWrites, PhaseOf DEF CoreTruthOf
<1>4. \A x \in Stages \ {s} : stage'[t][x] = stage[t][x] /\ applied'[t][x] = applied[t][x]
  BY <1>b, StageWrites
<1>5. stage'[t][s].status = "completed"
  <2> DEFINE r == [stage[t] EXCEPT ![s] =
                     [status |-> "completed", attempts |-> @.attempts + 1]]
  <2>1. stage'[t] = r
    BY <1>a, RefreshEffect DEF CommitStage
  <2> QED BY <2>1, <1>a
<1>6. CASE s \notin Transactional
  BY <1>b, <1>6, StageStutters
<1>7. CASE s \in Transactional
  <2> DEFINE n == applied'[t][s]
  <2>1. applied[t][s] = 0
    BY <1>a, <1>1, <1>7 DEF LedgerTruthOf
  <2>2. n \in {0, 1}
    <3>1. CASE work BY <3>1, <2>1, <1>a DEF CommitStage, LedgerTypeOK
    <3>2. CASE ~work BY <3>2, <2>1 DEF CommitStage
    <3> QED BY <3>1, <3>2
  <2>3. s \notin SettledOf(t) /\ SettledOf(t)' = SettledOf(t) \cup {s}
    BY <1>a, <1>1, <1>4, <1>5, <1>7 DEF SettledOf
  <2>4. WorkedOf(t)' = [WorkedOf(t) EXCEPT ![s] = n]
    BY <1>a, <1>4, <1>7 DEF WorkedOf
  <2>5. \A u \in Turns \ {t} : Unmoved(u)
    BY <1>a, OthersUnmoved
  <2> HIDE DEF n
  <2> QED BY <1>3, <1>7, <2>2, <2>3, <2>4, <2>5, StageSettles
<1> QED BY <1>6, <1>7

(* The other transactions of a stage, and those of the whole turn.            *)
LEMMA LaterPromise ==
  ASSUME LedgerInv, NEW t \in Turns, LedgerStep(t),
         \/ \E s \in Tracked :
              \/ (\E work : Outside(s, work)) /\ ClaimStage(t, s)
              \/ Outside(s, TRUE) /\ (OperateOutside(t, s) \/ CloseStage(t, s))
              \/ \E n \in {0, 1} : MarkStageFailed(t, s, n)
         \/ TerminalizeMissingInput(t)
         \/ \E who \in {"user", "assistant"} : DeleteMessage(t, who)
  PROVE  UNCHANGED Promise!promiseVars
<1>a. /\ LedgerTypeOK /\ CoreTruthOf(t)
      /\ turn[t] \in TurnRow /\ turn[t].core \in BOOLEAN
      /\ stage[t] \in [Stages -> Row]
      /\ \A x \in Transactional : x \in Stages
  BY TurnRecords, StageKinds DEF LedgerInv, LedgerTypeOK
<1>b. \A u \in Turns \ {t} : Unmoved(u)
  BY <1>a, OthersUnmoved
<1>1. ASSUME NEW s \in Tracked,
             \/ (\E work : Outside(s, work)) /\ ClaimStage(t, s)
             \/ Outside(s, TRUE) /\ (OperateOutside(t, s) \/ CloseStage(t, s))
      PROVE  UNCHANGED Promise!promiseVars
  <2>1. s \notin Transactional
    BY <1>1 DEF Outside, Transactional
  <2>2. StageOperation(t, s)
    BY <1>1 DEF StageOperation
  <2> QED BY <2>1, <2>2, StageStutters
<1>2. ASSUME NEW s \in Tracked, NEW n \in {0, 1}, MarkStageFailed(t, s, n)
      PROVE  UNCHANGED Promise!promiseVars
  <2> DEFINE r == [stage[t] EXCEPT ![s] =
                     IF @.status \in {"pending", "running", "failed"}
                     THEN [status |-> "failed", attempts |-> @.attempts + n] ELSE @]
  <2>1. stage'[t] = r /\ applied' = applied
    BY <1>2, <1>a, RefreshEffect DEF MarkStageFailed
  <2>2. r[s].status = "completed" <=> stage[t][s].status = "completed"
    BY <1>a, StageKinds
  <2>3. StageOperation(t, s)
    BY <1>2 DEF StageOperation
  <2> HIDE DEF r
  <2> QED BY <2>1, <2>2, <2>3, StageStutters
<1>3. CASE TerminalizeMissingInput(t)
  <2>1. Phase(t)' = Phase(t)
    BY <1>a, <1>3, TerminalizeWrites, PhaseOf DEF CoreTruthOf
  <2>2. \A s \in Transactional :
          stage'[t][s].status = "completed" <=> stage[t][s].status = "completed"
    BY <1>a, <1>3 DEF TerminalizeMissingInput, LedgerTypeOK
  <2>3. applied' = applied
    BY <1>3 DEF TerminalizeMissingInput
  <2>4. SettledOf(t)' = SettledOf(t) /\ WorkedOf(t)' = WorkedOf(t)
    BY <2>2, <2>3, SameWork
  <2> QED BY <1>b, <2>1, <2>4, Stutters DEF Unmoved
<1>4. ASSUME NEW who \in {"user", "assistant"}, DeleteMessage(t, who)
      PROVE  UNCHANGED Promise!promiseVars
  <2>1. turn'[t].status = turn[t].status
    BY <1>4, <1>a DEF DeleteMessage, LedgerTypeOK, TurnRow
  <2>2. stage' = stage /\ applied' = applied
    BY <1>4 DEF DeleteMessage
  <2>3. SettledOf(t)' = SettledOf(t) /\ WorkedOf(t)' = WorkedOf(t)
    BY <2>2, SameWork
  <2> QED BY <1>b, <2>1, <2>3, PhaseOf, Stutters DEF Unmoved
<1> QED BY <1>1, <1>2, <1>3, <1>4

LEMMA StepKeepsPromise ==
  TypeOK /\ LedgerInv /\ HandlerInv /\ [Next]_vars => [Promise!Next]_(Promise!promiseVars)
<1> SUFFICES ASSUME TypeOK, LedgerInv, HandlerInv, [Next]_vars
             PROVE  Promise!Next \/ UNCHANGED Promise!promiseVars
  OBVIOUS
<1>1. CASE UNCHANGED ledgerVars
  <2>1. \A u \in Turns : Unmoved(u)
    BY <1>1, PhaseOf, SameWork DEF ledgerVars, Unmoved
  <2> QED BY <2>1, Stutters
<1>2. ASSUME NEW t \in Turns, LedgerStep(t)
      PROVE  Promise!Next \/ UNCHANGED Promise!promiseVars
  <2>1. RequestInv(t)
    BY DEF HandlerInv
  <2> QED BY <1>2, <2>1, BoundaryPromise, CommitPromise, LaterPromise DEF LedgerStep
<1>3. CASE UNCHANGED vars
  BY <1>1, <1>3 DEF vars
<1> QED BY <1>1, <1>2, <1>3, StepsOfTheLedger

LEMMA PromiseAtFirst == Init => Promise!Init
<1> SUFFICES ASSUME Init PROVE Promise!Init
  OBVIOUS
<1>1. \A t \in Turns : turn[t].status = "none"
  BY DEF Init, LedgerInit
<1>2. \A t \in Turns : Phase(t) = "none"
  BY <1>1 DEF Phase
<1>3. \A t \in Turns, s \in Transactional :
        stage[t][s].status # "completed" /\ applied[t][s] = 0
  BY StageKinds DEF Init, LedgerInit, NoRow
<1> QED BY <1>2, <1>3 DEF Promise!Init

(* Whatever requests, recoveries, crashes, lost acknowledgements and deleted  *)
(* messages do to the ledger, every turn is opened, failed or answered once,  *)
(* and each transactional stage is settled once, together with its work.      *)
THEOREM Implements == Spec => KeepsPromise
<1>1. Init => Promise!Init
  BY PromiseAtFirst
<1>2. TypeOK /\ LedgerInv /\ HandlerInv /\ [Next]_vars => [Promise!Next]_(Promise!promiseVars)
  BY StepKeepsPromise
<1> QED
  BY <1>1, <1>2, Types, LedgerInvariant, HandlerInvariant, PTL
     DEF Spec, KeepsPromise, Promise!Spec

-----------------------------------------------------------------------------
(* One device in SHARED mode.  Its recovery is over before it accepts the     *)
(* first message, so that a recovery and a request are never under way        *)
(* together; what each of them read of the ledger is then still so when it    *)
(* writes.                                                                    *)
Alone == Shared /\ \A d, e \in Devices : d = e

Exclusive == \A t \in Turns, d \in Devices : pc[t] \in Live => rpc[d] = "finished"

LEMMA RequestIsLive ==
  ASSUME NEW t \in Turns, RequestStep(t)
  PROVE  pc[t] \in Live \/ ReceiveMessage(t)
<1> USE DEF Live
<1>1. CASE \/ PrepareContext(t) \/ StartProvider(t) \/ ProviderReplies(t) \/ SaveReply(t)
           \/ SaveReplyFails(t) \/ RecordCoreFailure(t) \/ EndRequest(t)
  BY <1>1 DEF PrepareContext, StartProvider, ProviderReplies, SaveReply, SaveReplyFails,
     RecordCoreFailure, EndRequest
<1>2. CASE \/ LeavePending(t) \/ ProviderFails(t) \/ SaveReplyUnacknowledged(t)
           \/ LoseCoreFailure(t) \/ OutsideFails(t)
  BY <1>2 DEF LeavePending, ProviderFails, SaveReplyUnacknowledged, LoseCoreFailure,
     OutsideFails
<1>3. ASSUME NEW s \in Tracked,
             \/ RunStage(t, s) \/ StageRollsBack(t, s) \/ StageNotClaimed(t, s)
             \/ RecordStageFailure(t, s) \/ ClaimOutside(t, s) \/ Operate(t, s)
             \/ CloseOutside(t, s) \/ RunStageUnacknowledged(t, s) \/ LoseStageFailure(t, s)
      PROVE  pc[t] \in Live
  BY <1>3 DEF RunStage, StageRollsBack, StageNotClaimed, RecordStageFailure, ClaimOutside,
     Operate, CloseOutside, RunStageUnacknowledged, LoseStageFailure, AtStage
<1> QED BY <1>1, <1>2, <1>3 DEF RequestStep, RequestAdvances, RequestFaults

LEMMA RecoveryIsUnderWay ==
  ASSUME NEW d \in Devices, RecoveryStep(d)
  PROVE  rpc[d] # "finished"
<1>1. CASE \/ ListTurns(d) \/ TakeTurn(d) \/ Terminalize(d) \/ ReadStages(d)
           \/ LeaveTurn(d) \/ FinishRecovery(d) \/ ListingFails(d) \/ ResumeAborts(d)
  BY <1>1 DEF ListTurns, TakeTurn, Terminalize, ReadStages, LeaveTurn, FinishRecovery,
     ListingFails, ResumeAborts
<1>2. ASSUME NEW s \in Tracked,
             \/ ResumeStage(d, s) \/ PassOver(d, s) \/ RecordResumeFailure(d, s)
             \/ ResumeStageUnacknowledged(d, s) \/ ResumedStageRollsBack(d, s)
             \/ LoseResumeFailure(d, s)
      PROVE  rpc[d] # "finished"
  BY <1>2 DEF ResumeStage, PassOver, RecordResumeFailure, ResumeStageUnacknowledged,
     ResumedStageRollsBack, LoseResumeFailure, MayResume
<1> QED BY <1>1, <1>2 DEF RecoveryStep, RecoveryAdvances, RecoveryFaults

(* The steps of a lone device, and who stands still in each.                  *)
LEMMA LoneSteps ==
  ASSUME Alone, TypeOK, Exclusive, Next
  PROVE  \/ \E t \in Turns : /\ RequestStep(t) /\ UNCHANGED recoveryVars
                             /\ \A d \in Devices : rpc[d] = "finished"
         \/ \E d \in Devices : /\ RecoveryStep(d) /\ UNCHANGED requestVars
                               /\ rpc[d] # "finished" /\ \A t \in Turns : pc[t] \notin Live
         \/ \E t \in Turns, who \in {"user", "assistant"} :
              /\ DeleteMessage(t, who) /\ UNCHANGED <<requestVars, recoveryVars>>
              /\ \A d \in Devices : rpc[d] = "finished"
         \/ \E d \in Devices : Start(d) \/ Crash(d) \/ Close(d)
<1>1. ASSUME NEW t \in Turns, RequestStep(t)
      PROVE  UNCHANGED recoveryVars /\ \A d \in Devices : rpc[d] = "finished"
  <2>1. UNCHANGED recoveryVars
    BY <1>1, RequestStepTypes DEF RequestStep
  <2>2. CASE ReceiveMessage(t)
    <3>1. rpc[Home[t]] = "finished" /\ Home[t] \in Devices
      BY <2>2, HomeAssumption DEF ReceiveMessage, Serving, Alone
    <3> QED BY <2>1, <3>1 DEF Alone
  <2> QED BY <1>1, <2>1, <2>2, RequestIsLive DEF Exclusive
<1>2. ASSUME NEW d \in Devices, RecoveryStep(d)
      PROVE  /\ UNCHANGED requestVars /\ rpc[d] # "finished"
             /\ \A t \in Turns : pc[t] \notin Live
  BY <1>2, RecoveryStepTypes, RecoveryIsUnderWay DEF RecoveryStep, Exclusive
<1>3. ASSUME NEW t \in Turns, NEW who \in {"user", "assistant"}, UserDeletes(t, who)
      PROVE  /\ DeleteMessage(t, who) /\ UNCHANGED <<requestVars, recoveryVars>>
             /\ \A d \in Devices : rpc[d] = "finished"
  BY <1>3 DEF UserDeletes, Serving, Alone
<1>4. ASSUME NEW d \in Devices, NEW t \in Turns, Settle(d, t)
      PROVE  FALSE
  BY <1>4, HomeAssumption DEF Settle, Alone
<1> QED BY <1>1, <1>2, <1>3, <1>4 DEF Next, RequestStep, RecoveryStep

LEMMA ExclusiveHolds ==
  ASSUME Alone, TypeOK, Exclusive, [Next]_vars
  PROVE  Exclusive'
<1>1. CASE UNCHANGED vars
  BY <1>1 DEF vars, requestVars, recoveryVars, Exclusive
<1>2. ASSUME NEW t \in Turns, UNCHANGED recoveryVars, \A d \in Devices : rpc[d] = "finished"
      PROVE  Exclusive'
  BY <1>2 DEF recoveryVars, Exclusive
<1>3. ASSUME NEW d \in Devices, UNCHANGED requestVars, \A t \in Turns : pc[t] \notin Live
      PROVE  Exclusive'
  BY <1>3 DEF requestVars, Exclusive
<1>4. ASSUME NEW d \in Devices, Start(d) \/ Crash(d) \/ Close(d)
      PROVE  \A t \in Turns : pc'[t] \notin Live
  <2>a. pc \in [Turns -> RequestPc] /\ \A t \in Turns : Home[t] = d
    BY HomeAssumption DEF TypeOK, Alone
  <2>1. CASE Start(d)
    BY <2>1 DEF Start, requestVars, Exclusive
  <2>2. CASE Crash(d)
    BY <2>2, <2>a DEF Crash, LiveOn, Live
  <2>3. CASE Close(d)
    BY <2>3, <2>a DEF Close, LiveOn, requestVars
  <2> QED BY <1>4, <2>1, <2>2, <2>3
<1>5. CASE Next
  BY <1>5, <1>2, <1>3, <1>4, LoneSteps DEF Exclusive
<1> QED BY <1>1, <1>5

LEMMA ExclusiveInvariant ==
  ASSUME Alone
  PROVE  Spec => []Exclusive
<1>1. Init => Exclusive
  BY DEF Init, Exclusive, Live
<1>2. TypeOK /\ Exclusive /\ [Next]_vars => Exclusive'
  BY ExclusiveHolds
<1> QED BY <1>1, <1>2, Types, PTL DEF Spec

-----------------------------------------------------------------------------
(* Attempts.  A failure mark that increments is written by a handler that     *)
(* passed the claim check; nobody counted an attempt since.                   *)
HasAttempt(r) == r.status = "completed" \/ r.attempts < MaxStageAttempts

AttemptsOf(t) ==
  \A s \in Stages :
    /\ stage[t][s].attempts <= MaxStageAttempts
    /\ s \in Boundary /\ stage[t][s].status = "pending" => stage[t][s].attempts = 0

UnmarkedRequest(t) ==
  pc[t] = "unmarked" => \A s \in Tracked : AtOpenStage(t, s) => HasAttempt(stage[t][s])
UnmarkedRecovery(d) ==
  rpc[d] = "unmarked" => \A s \in Tracked : AtRow(d, s) => HasAttempt(stage[subject[d]][s])

AttemptInv ==
  /\ \A t \in Turns : AttemptsOf(t) /\ UnmarkedRequest(t)
  /\ \A d \in Devices : UnmarkedRecovery(d)

(* The transactions that work on a tracked stage.                             *)
LEMMA StageAttempts ==
  ASSUME LedgerInv, NEW t \in Turns, AttemptsOf(t), NEW s \in Tracked,
         \/ \E work : CommitStage(t, s, work)
         \/ ClaimStage(t, s) \/ OperateOutside(t, s) \/ CloseStage(t, s)
         \/ MarkStageFailed(t, s, 0)
         \/ HasAttempt(stage[t][s]) /\ MarkStageFailed(t, s, 1)
  PROVE  AttemptsOf(t)'
<1>a. /\ LedgerTypeOK /\ s \in Stages /\ s \notin Boundary /\ stage[t] \in [Stages -> Row]
      /\ MaxStageAttempts \in Nat
  BY StageKinds, TurnRecords, AttemptsAssumption DEF LedgerInv
<1>b. StageOperation(t, s)
  BY DEF StageOperation
<1>c. \A x \in Stages \ {s} : stage'[t][x] = stage[t][x]
  BY <1>b, StageWrites
<1>d. stage[t][s].attempts \in Nat /\ stage[t][s].attempts <= MaxStageAttempts
  BY <1>a DEF AttemptsOf, Row
<1>e. SUFFICES stage'[t][s].attempts <= MaxStageAttempts
  BY <1>a, <1>c DEF AttemptsOf
<1>1. ASSUME NEW work, CommitStage(t, s, work)
      PROVE  stage'[t][s].attempts <= MaxStageAttempts
  <2> DEFINE r == [stage[t] EXCEPT ![s] =
                     [status |-> "completed", attempts |-> @.attempts + 1]]
  <2>1. WriteAndRefresh(t, r) /\ stage[t][s].attempts < MaxStageAttempts
    BY <1>1 DEF CommitStage, MayClaim
  <2>2. r[s].attempts = stage[t][s].attempts + 1
    BY <1>a
  <2> HIDE DEF r
  <2>3. stage'[t] = r
    BY <2>1, <1>a, RefreshEffect
  <2> QED BY <2>1, <2>2, <2>3, <1>a, <1>d
<1>2. CASE ClaimStage(t, s)
  <2>1. stage'[t][s].attempts = stage[t][s].attempts + 1
    BY <1>2, <1>a DEF ClaimStage, LedgerTypeOK
  <2> QED BY <2>1, <1>2, <1>a, <1>d DEF ClaimStage, MayClaim
<1>3. CASE OperateOutside(t, s)
  BY <1>3, <1>d DEF OperateOutside
<1>4. CASE CloseStage(t, s)
  <2> DEFINE r == [stage[t] EXCEPT ![s].status = IF @ = "running" THEN "completed" ELSE @]
  <2>1. WriteAndRefresh(t, r)
    BY <1>4 DEF CloseStage
  <2>2. r[s].attempts = stage[t][s].attempts
    BY <1>a DEF Row
  <2> HIDE DEF r
  <2>3. stage'[t] = r
    BY <2>1, <1>a, RefreshEffect
  <2> QED BY <2>2, <2>3, <1>d
<1>5. ASSUME NEW n \in {0, 1}, MarkStageFailed(t, s, n), n = 0 \/ HasAttempt(stage[t][s])
      PROVE  stage'[t][s].attempts <= MaxStageAttempts
  <2> DEFINE r == [stage[t] EXCEPT ![s] =
                     IF @.status \in {"pending", "running", "failed"}
                     THEN [status |-> "failed", attempts |-> @.attempts + n] ELSE @]
  <2>1. WriteAndRefresh(t, r)
    BY <1>5 DEF MarkStageFailed
  <2>2. r[s] = stage[t][s] \/ (/\ stage[t][s].status # "completed"
                               /\ r[s].attempts = stage[t][s].attempts + n)
    BY <1>a
  <2> HIDE DEF r
  <2>3. stage'[t] = r
    BY <2>1, <1>a, RefreshEffect
  <2> QED BY <2>2, <2>3, <1>a, <1>d, <1>5 DEF HasAttempt
<1> QED BY <1>1, <1>2, <1>3, <1>4, <1>5

(* The transactions up to the reply, and terminalization.                     *)
LEMMA BoundaryAttempts ==
  ASSUME LedgerInv, NEW t \in Turns, AttemptsOf(t),
         \/ BeginTurn(t) \/ MarkContextPrepared(t) \/ MarkProviderStarted(t)
         \/ CompleteCore(t) \/ MarkCoreFailed(t) \/ TerminalizeMissingInput(t)
         \/ \E who \in {"user", "assistant"} : DeleteMessage(t, who)
  PROVE  AttemptsOf(t)'
<1>a. /\ LedgerTypeOK /\ stage[t] \in [Stages -> Row] /\ stage \in [Turns -> [Stages -> Row]]
      /\ MaxStageAttempts \in Nat \ {0}
      /\ Boundary \subseteq Stages /\ Automatic \cap Boundary = {}
      /\ Tracked \cap Boundary = {}
  BY StageKinds, TurnRecords, AttemptsAssumption DEF LedgerInv, LedgerTypeOK
<1>b. \A s \in Stages : /\ stage[t][s].attempts \in Nat
                        /\ stage[t][s].attempts <= MaxStageAttempts
                        /\ s \in Boundary /\ stage[t][s].status = "pending"
                             => stage[t][s].attempts = 0
  BY <1>a DEF AttemptsOf, Row
<1>1. CASE stage' = stage
  BY <1>1 DEF AttemptsOf
<1>2. CASE BeginTurn(t)
  <2>1. stage'[t] = [s \in Stages |-> IF s \in Boundary THEN FreshRow ELSE NoRow]
    BY <1>2, <1>a DEF BeginTurn
  <2> QED BY <2>1, <1>a DEF AttemptsOf, FreshRow, NoRow
<1>3. CASE MarkContextPrepared(t)
  <2>1. stage'[t] = [stage[t] EXCEPT !["context_prepare"] =
                       [status |-> "completed", attempts |-> 1]]
    BY <1>3, <1>a DEF MarkContextPrepared
  <2> QED BY <2>1, <1>a, <1>b DEF AttemptsOf
<1>4. CASE MarkProviderStarted(t)
  <2>1. /\ stage'[t] = [stage[t] EXCEPT !["provider_generate"] =
                          [status |-> "running", attempts |-> @.attempts + 1]]
        /\ stage[t]["provider_generate"].status = "pending"
    BY <1>4, <1>a DEF MarkProviderStarted
  <2>2. stage[t]["provider_generate"].attempts = 0
    BY <2>1, <1>a, <1>b DEF Boundary
  <2> QED BY <2>1, <2>2, <1>a, <1>b DEF AttemptsOf
<1>5. CASE CompleteCore(t)
  <2>1. stage'[t] = [s \in Stages |-> CoreRow(s, stage[t][s])]
    BY <1>5, <1>a DEF CompleteCore
  <2>2. ASSUME NEW s \in Stages
        PROVE  /\ CoreRow(s, stage[t][s]).attempts <= MaxStageAttempts
               /\ s \in Boundary /\ CoreRow(s, stage[t][s]).status = "pending"
                    => CoreRow(s, stage[t][s]).attempts = 0
    <3>1. CASE s = "provider_generate" /\ stage[t][s].status = "running"
      BY <3>1, <1>b DEF CoreRow
    <3>2. CASE s = "assistant_persist" /\ stage[t][s].status = "pending"
      BY <3>2, <1>a DEF CoreRow
    <3>3. CASE s \in Tracked /\ stage[t][s].status = "absent"
      <4>1. s # "provider_generate" /\ s # "assistant_persist"
        BY <3>3, <1>a DEF Boundary
      <4> QED BY <3>3, <4>1, <1>a DEF CoreRow, FreshRow
    <3> QED BY <3>1, <3>2, <3>3, <1>b DEF CoreRow
  <2> QED BY <2>1, <2>2 DEF AttemptsOf
<1>6. CASE TerminalizeMissingInput(t)
  <2>1. stage'[t] = [s \in Stages |->
           IF s \in Automatic /\ stage[t][s].status \notin {"absent", "completed"}
           THEN [status |-> "failed", attempts |-> MaxStageAttempts] ELSE stage[t][s]]
    BY <1>6, <1>a DEF TerminalizeMissingInput
  <2> QED BY <2>1, <1>a, <1>b DEF AttemptsOf
<1>7. MarkCoreFailed(t) \/ (\E who \in {"user", "assistant"} : DeleteMessage(t, who))
        => stage' = stage
  BY DEF MarkCoreFailed, DeleteMessage
<1> QED BY <1>1, <1>2, <1>3, <1>4, <1>5, <1>6, <1>7

(* The handler's own step.                                                    *)
LEMMA RequestAttempts ==
  ASSUME TypeOK, LedgerInv, NEW t \in Turns, AttemptsOf(t), UnmarkedRequest(t), RequestStep(t)
  PROVE  AttemptsOf(t)' /\ UnmarkedRequest(t)'
<1>a. /\ pc \in [Turns -> RequestPc] /\ left \in [Turns -> SUBSET Tracked]
      /\ has \in [Turns -> SUBSET Products] /\ LedgerTypeOK /\ stage[t] \in [Stages -> Row]
      /\ Tracked \subseteq Stages
  BY StageKinds, TurnRecords DEF TypeOK, LedgerInv
<1>b. UNCHANGED ledgerVars => AttemptsOf(t)'
  BY DEF ledgerVars, AttemptsOf
<1>c. pc'[t] # "unmarked" => UnmarkedRequest(t)'
  BY DEF UnmarkedRequest
<1>1. CASE \/ ReceiveMessage(t) \/ PrepareContext(t) \/ StartProvider(t)
           \/ SaveReply(t) \/ SaveReplyUnacknowledged(t) \/ RecordCoreFailure(t)
  <2>1. AttemptsOf(t)'
    BY <1>1, BoundaryAttempts DEF ReceiveMessage, PrepareContext, StartProvider,
       SaveReply, SaveReplyUnacknowledged, RecordCoreFailure
  <2>2. pc'[t] # "unmarked"
    BY <1>1, <1>a DEF ReceiveMessage, PrepareContext, StartProvider,
       SaveReply, SaveReplyUnacknowledged, RecordCoreFailure, EndHandler
  <2> QED BY <2>1, <2>2, <1>c
<1>2. CASE \/ ProviderReplies(t) \/ SaveReplyFails(t) \/ EndRequest(t) \/ LeavePending(t)
           \/ ProviderFails(t) \/ LoseCoreFailure(t) \/ OutsideFails(t)
  <2>1. UNCHANGED ledgerVars /\ pc'[t] # "unmarked"
    BY <1>2, <1>a DEF ProviderReplies, SaveReplyFails, EndRequest, LeavePending, ProviderFails,
       LoseCoreFailure, OutsideFails, EndHandler
  <2> QED BY <2>1, <1>b, <1>c
<1>3. ASSUME NEW s \in Tracked,
             \/ RunStage(t, s) \/ ClaimOutside(t, s) \/ Operate(t, s) \/ CloseOutside(t, s)
      PROVE  AttemptsOf(t)' /\ UnmarkedRequest(t)'
  <2>1. \/ \E work : CommitStage(t, s, work)
        \/ ClaimStage(t, s) \/ OperateOutside(t, s) \/ CloseStage(t, s)
    BY <1>3 DEF RunStage, ClaimOutside, Operate, CloseOutside
  <2>2. pc'[t] # "unmarked"
    BY <1>3, <1>a DEF RunStage, ClaimOutside, Operate, CloseOutside, PassStage
  <2> QED BY <2>1, <2>2, <1>c, StageAttempts
<1>4. ASSUME NEW s \in Tracked, StageNotClaimed(t, s) \/ LoseStageFailure(t, s)
      PROVE  AttemptsOf(t)' /\ UnmarkedRequest(t)'
  <2>1. UNCHANGED ledgerVars /\ pc'[t] # "unmarked"
    BY <1>4, <1>a DEF StageNotClaimed, LoseStageFailure, PassStage
  <2> QED BY <2>1, <1>b, <1>c
<1>5. ASSUME NEW s \in Tracked, RecordStageFailure(t, s)
      PROVE  AttemptsOf(t)' /\ UnmarkedRequest(t)'
  <2>1. AtOpenStage(t, s) /\ pc[t] \in {"unmarked", "unclosed"} /\ pc'[t] # "unmarked"
    BY <1>5, <1>a DEF RecordStageFailure, PassStage
  <2>2. CASE pc[t] = "unmarked"
    BY <1>5, <2>1, <2>2, <1>c, StageAttempts DEF RecordStageFailure, UnmarkedRequest
  <2>3. CASE pc[t] # "unmarked"
    BY <1>5, <2>1, <2>3, <1>c, StageAttempts DEF RecordStageFailure
  <2> QED BY <2>2, <2>3
<1>6. ASSUME NEW s \in Tracked, RunStageUnacknowledged(t, s) \/ StageRollsBack(t, s)
      PROVE  AttemptsOf(t)' /\ UnmarkedRequest(t)'
  <2>1. AtOpenStage(t, s) /\ left' = left /\ has' = has
    BY <1>6 DEF RunStageUnacknowledged, StageRollsBack, AtStage, AtOpenStage
  <2>2. \A x : AtOpenStage(t, x)' => x = s
    <3>1. \A x : AtOpenStage(t, x)' <=> AtOpenStage(t, x)
      BY <2>1 DEF AtOpenStage, IsFirst, RequestOrder, LedgerOrder, UpToGoals, AfterGoals,
         Shadows, First, Precedes
    <3> QED BY <2>1, <3>1 DEF AtOpenStage, IsFirst
  <2>3. CASE RunStageUnacknowledged(t, s)
    <3>1. PICK work : CommitStage(t, s, work)
      BY <2>3 DEF RunStageUnacknowledged
    <3> DEFINE r == [stage[t] EXCEPT ![s] =
                       [status |-> "completed", attempts |-> @.attempts + 1]]
    <3>2. WriteAndRefresh(t, r)
      BY <3>1 DEF CommitStage
    <3>3. r[s].status = "completed"
      BY <1>a
    <3> HIDE DEF r
    <3>4. stage'[t][s].status = "completed"
      BY <3>2, <3>3, <1>a, RefreshEffect
    <3> QED BY <3>1, <3>4, <2>2, StageAttempts DEF UnmarkedRequest, HasAttempt
  <2>4. CASE StageRollsBack(t, s)
    <3>1. UNCHANGED ledgerVars /\ stage[t][s].attempts < MaxStageAttempts
      BY <2>4 DEF StageRollsBack, MayClaim
    <3>2. stage' = stage
      BY <3>1 DEF ledgerVars
    <3> QED BY <3>1, <3>2, <2>2, <1>b DEF UnmarkedRequest, HasAttempt
  <2> QED BY <1>6, <2>3, <2>4
<1> QED BY <1>1, <1>2, <1>3, <1>4, <1>5, <1>6 DEF RequestStep, RequestAdvances, RequestFaults

(* The step of a recovery.                                                    *)
LEMMA RecoveryAttempts ==
  ASSUME TypeOK, LedgerInv, NEW d \in Devices, \A t \in Turns : AttemptsOf(t),
         UnmarkedRecovery(d), RecoveryStep(d), NEW t \in Turns, t = subject[d]
  PROVE  (\A u \in Turns : AttemptsOf(u)') /\ UnmarkedRecovery(d)'
<1>a. /\ rpc \in [Devices -> RecoveryPc] /\ rows \in [Devices -> SUBSET Tracked]
      /\ subject \in [Devices -> Turns] /\ LedgerTypeOK /\ AttemptsOf(t)
      /\ stage[t] \in [Stages -> Row] /\ Tracked \subseteq Stages
  BY StageKinds, TurnRecords DEF TypeOK, LedgerInv
<1>b. UNCHANGED ledgerVars => \A u \in Turns : AttemptsOf(u)'
  BY DEF ledgerVars, AttemptsOf
<1>c. rpc'[d] # "unmarked" => UnmarkedRecovery(d)'
  BY DEF UnmarkedRecovery
<1>d. ASSUME LedgerStep(t), AttemptsOf(t)'
      PROVE  \A u \in Turns : AttemptsOf(u)'
  BY <1>a, <1>d, OtherTurns DEF AttemptsOf
<1>1. CASE \/ ListTurns(d) \/ TakeTurn(d) \/ ReadStages(d) \/ LeaveTurn(d)
           \/ FinishRecovery(d) \/ ListingFails(d) \/ ResumeAborts(d)
  <2>1. UNCHANGED ledgerVars /\ rpc'[d] # "unmarked"
    BY <1>1, <1>a DEF ListTurns, TakeTurn, ReadStages, LeaveTurn, FinishRecovery,
       ListingFails, ResumeAborts
  <2> QED BY <2>1, <1>b, <1>c
<1>2. CASE Terminalize(d)
  <2>1. /\ TerminalizeMissingInput(t) /\ rpc[d] = "terminalize"
        /\ rpc'[d] # "unmarked"
    BY <1>2, <1>a DEF Terminalize
  <2>2. AttemptsOf(t)' /\ LedgerStep(t)
    BY <2>1, <1>a, BoundaryAttempts DEF LedgerStep
  <2> QED BY <2>1, <2>2, <1>c, <1>d
<1>3. ASSUME NEW s \in Tracked, ResumeStage(d, s) \/ RecordResumeFailure(d, s)
      PROVE  (\A u \in Turns : AttemptsOf(u)') /\ UnmarkedRecovery(d)'
  <2>1. /\ \/ \E work : CommitStage(t, s, work)
           \/ HasAttempt(stage[t][s]) /\ MarkStageFailed(t, s, 1)
        /\ rpc'[d] # "unmarked"
    BY <1>3, <1>a DEF ResumeStage, RecordResumeFailure, PassRow, UnmarkedRecovery
  <2>2. AttemptsOf(t)' /\ LedgerStep(t)
    BY <2>1, <1>a, StageAttempts DEF LedgerStep
  <2> QED BY <2>1, <2>2, <1>c, <1>d
<1>4. ASSUME NEW s \in Tracked, PassOver(d, s) \/ LoseResumeFailure(d, s)
      PROVE  (\A u \in Turns : AttemptsOf(u)') /\ UnmarkedRecovery(d)'
  <2>1. UNCHANGED ledgerVars /\ rpc'[d] # "unmarked"
    BY <1>4, <1>a DEF PassOver, LoseResumeFailure, PassRow
  <2> QED BY <2>1, <1>b, <1>c
<1>5. ASSUME NEW s \in Tracked, ResumeStageUnacknowledged(d, s) \/ ResumedStageRollsBack(d, s)
      PROVE  (\A u \in Turns : AttemptsOf(u)') /\ UnmarkedRecovery(d)'
  <2>1. AtRow(d, s) /\ rows' = rows /\ subject' = subject
    BY <1>5 DEF ResumeStageUnacknowledged, ResumedStageRollsBack, MayResume
  <2>2. \A x : AtRow(d, x)' => x = s
    BY <2>1 DEF AtRow, IsFirst, LedgerOrder, UpToGoals, AfterGoals, Shadows, First, Precedes
  <2>3. CASE ResumeStageUnacknowledged(d, s)
    <3>1. CommitStage(t, s, RecoveryRuns(d, s))
      BY <2>3 DEF ResumeStageUnacknowledged
    <3> DEFINE r == [stage[t] EXCEPT ![s] =
                       [status |-> "completed", attempts |-> @.attempts + 1]]
    <3>2. WriteAndRefresh(t, r)
      BY <3>1 DEF CommitStage
    <3>3. r[s].status = "completed"
      BY <1>a
    <3> HIDE DEF r
    <3>4. stage'[t][s].status = "completed"
      BY <3>2, <3>3, <1>a, RefreshEffect
    <3>5. AttemptsOf(t)' /\ LedgerStep(t)
      BY <3>1, <1>a, StageAttempts DEF LedgerStep
    <3>6. UnmarkedRecovery(d)'
      BY <3>4, <2>1, <2>2 DEF UnmarkedRecovery, HasAttempt
    <3> QED BY <3>5, <3>6, <1>d
  <2>4. CASE ResumedStageRollsBack(d, s)
    <3>1. UNCHANGED ledgerVars /\ stage[t][s].attempts < MaxStageAttempts
      BY <2>4 DEF ResumedStageRollsBack, MayClaim
    <3>2. stage' = stage
      BY <3>1 DEF ledgerVars
    <3> QED BY <3>1, <3>2, <2>1, <2>2, <1>b DEF UnmarkedRecovery, HasAttempt
  <2> QED BY <1>5, <2>3, <2>4
<1> QED BY <1>1, <1>2, <1>3, <1>4, <1>5 DEF RecoveryStep, RecoveryAdvances, RecoveryFaults

(* A step that leaves the handler, and the rows of its turn, where they are.   *)
LEMMA RequestUnmoved ==
  ASSUME NEW t \in Turns, pc'[t] = pc[t], left'[t] = left[t], has'[t] = has[t],
         stage'[t] = stage[t], AttemptsOf(t), UnmarkedRequest(t)
  PROVE  AttemptsOf(t)' /\ UnmarkedRequest(t)'
<1>1. \A s : AtOpenStage(t, s)' <=> AtOpenStage(t, s)
  BY DEF AtOpenStage, IsFirst, RequestOrder, LedgerOrder, UpToGoals, AfterGoals, Shadows,
     First, Precedes
<1> QED BY <1>1 DEF AttemptsOf, UnmarkedRequest, HasAttempt

LEMMA AttemptInvHolds ==
  ASSUME Alone, TypeOK, LedgerInv, Exclusive, AttemptInv, [Next]_vars
  PROVE  AttemptInv'
<1>a. LedgerTypeOK /\ rpc \in [Devices -> RecoveryPc]
  BY DEF LedgerInv, TypeOK
<1>b. ASSUME UNCHANGED requestVars, UNCHANGED stage, NEW t \in Turns
      PROVE  AttemptsOf(t)' /\ UnmarkedRequest(t)'
  BY <1>b, RequestUnmoved DEF requestVars, AttemptInv
<1>c. ASSUME NEW d \in Devices, rpc'[d] # "unmarked"
      PROVE  UnmarkedRecovery(d)'
  BY <1>c DEF UnmarkedRecovery
<1>d. ASSUME NEW d \in Devices, UNCHANGED recoveryVars, UNCHANGED stage
      PROVE  UnmarkedRecovery(d)'
  <2>1. \A s : AtRow(d, s)' <=> AtRow(d, s)
    BY <1>d DEF recoveryVars, AtRow, IsFirst, LedgerOrder, UpToGoals, AfterGoals, Shadows,
       First, Precedes
  <2> QED BY <1>d, <2>1 DEF UnmarkedRecovery, AttemptInv, recoveryVars, HasAttempt
<1>1. CASE UNCHANGED vars
  <2>1. UNCHANGED requestVars /\ UNCHANGED stage /\ UNCHANGED recoveryVars
    BY <1>1 DEF vars, ledgerVars
  <2> QED BY <2>1, <1>b, <1>d DEF AttemptInv
<1>2. ASSUME NEW t \in Turns, RequestStep(t), UNCHANGED recoveryVars,
             \A d \in Devices : rpc[d] = "finished"
      PROVE  AttemptInv'
  <2>1. AttemptsOf(t)' /\ UnmarkedRequest(t)'
    BY <1>2, RequestAttempts DEF AttemptInv
  <2>2. ASSUME NEW u \in Turns, u # t
        PROVE  AttemptsOf(u)' /\ UnmarkedRequest(u)'
    <3>1. stage'[u] = stage[u]
      <4>1. UNCHANGED ledgerVars \/ LedgerStep(t)
        BY <1>2, RequestLedger
      <4> QED BY <4>1, <1>a, <2>2, OtherTurns DEF ledgerVars
    <3> QED BY <3>1, <1>2, <2>2, OtherHandlers, RequestUnmoved DEF AttemptInv
  <2>3. \A d \in Devices : UnmarkedRecovery(d)'
    BY <1>2, <1>c DEF recoveryVars
  <2> QED BY <2>1, <2>2, <2>3 DEF AttemptInv
<1>3. ASSUME NEW d \in Devices, RecoveryStep(d), UNCHANGED requestVars,
             \A t \in Turns : pc[t] \notin Live
      PROVE  AttemptInv'
  <2>1. (\A t \in Turns : AttemptsOf(t)') /\ UnmarkedRecovery(d)'
    <3>1. \E t \in Turns : t = subject[d]
      BY DEF TypeOK
    <3> QED BY <1>3, <3>1, RecoveryAttempts DEF AttemptInv
  <2>2. \A t \in Turns : UnmarkedRequest(t)'
    BY <1>3 DEF requestVars, UnmarkedRequest, Live
  <2>3. \A e \in Devices : e = d
    BY DEF Alone
  <2> QED BY <2>1, <2>2, <2>3 DEF AttemptInv
<1>4. ASSUME NEW t \in Turns, NEW who \in {"user", "assistant"}, DeleteMessage(t, who),
             UNCHANGED <<requestVars, recoveryVars>>
      PROVE  AttemptInv'
  <2>1. UNCHANGED stage
    BY <1>4 DEF DeleteMessage
  <2> QED BY <2>1, <1>4, <1>b, <1>d DEF AttemptInv
<1>5. ASSUME NEW d \in Devices, Start(d) \/ Crash(d) \/ Close(d)
      PROVE  AttemptInv'
  <2>1. UNCHANGED stage /\ rpc'[d] # "unmarked" /\ \A e \in Devices : e = d
    BY <1>5, <1>a DEF Start, Crash, Close, ledgerVars, Alone
  <2>2. CASE Start(d) \/ Close(d)
    BY <2>1, <2>2, <1>b, <1>c DEF AttemptInv, Start, Close
  <2>3. CASE Crash(d)
    <3>1. ASSUME NEW t \in Turns
          PROVE  AttemptsOf(t)' /\ UnmarkedRequest(t)'
      <4>1. pc'[t] = "gone" \/ (pc'[t] = pc[t] /\ left'[t] = left[t] /\ has'[t] = has[t])
        BY <2>3 DEF Crash
      <4>2. AttemptsOf(t)'
        BY <2>1 DEF AttemptInv, AttemptsOf
      <4>3. CASE pc'[t] = "gone" BY <4>2, <4>3 DEF UnmarkedRequest
      <4>4. CASE pc'[t] # "gone" BY <2>1, <4>1, <4>4, RequestUnmoved DEF AttemptInv
      <4> QED BY <4>3, <4>4
    <3> QED BY <2>1, <3>1, <1>c DEF AttemptInv
  <2> QED BY <1>5, <2>2, <2>3
<1>6. CASE Next
  BY <1>6, <1>2, <1>3, <1>4, <1>5, LoneSteps
<1> QED BY <1>1, <1>6

(* "Automatic stages stop after three failed attempts", when the database has *)
(* one device and that device is in SHARED mode: the claim check and the      *)
(* failure mark are two transactions, and what keeps them together is that    *)
(* the one recovery is over before the first request.                         *)
THEOREM LoneAttempts ==
  ASSUME Alone
  PROVE  Spec => []AttemptsBounded
<1>1. Init => AttemptInv
  <2> SUFFICES ASSUME Init PROVE AttemptInv
    OBVIOUS
  <2>1. ASSUME NEW t \in Turns PROVE AttemptsOf(t) /\ UnmarkedRequest(t)
    <3>1. pc[t] = "idle" /\ stage[t] = [s \in Stages |-> NoRow]
      BY DEF Init, LedgerInit
    <3> QED BY <3>1, AttemptsAssumption DEF AttemptsOf, UnmarkedRequest, NoRow
  <2>2. \A d \in Devices : UnmarkedRecovery(d)
    BY DEF Init, UnmarkedRecovery
  <2> QED BY <2>1, <2>2 DEF AttemptInv
<1>2. TypeOK /\ LedgerInv /\ Exclusive /\ AttemptInv /\ [Next]_vars => AttemptInv'
  BY AttemptInvHolds
<1>3. AttemptInv => AttemptsBounded
  BY DEF AttemptInv, AttemptsOf, AttemptsBounded
<1> QED BY <1>1, <1>2, <1>3, Types, LedgerInvariant, ExclusiveInvariant, PTL DEF Spec

-----------------------------------------------------------------------------
(* The order of the stages: the next one of a set, chosen by First, comes     *)
(* after every stage it needs.                                                *)
LEMMA LeastNatural ==
  ASSUME NEW S \in SUBSET Nat, S # {}
  PROVE  \E m \in S : \A n \in S : m <= n
<1>1. IsWellFoundedOn(OpToRel(<, Nat), Nat)
  BY NatLessThanWellFounded
<1>2. PICK m \in S : \A n \in S : ~(<<n, m>> \in OpToRel(<, Nat))
  BY <1>1, WFMin
<1>3. \A n \in S : ~(n < m)
  BY <1>2 DEF OpToRel
<1> QED BY <1>3

(* The two orders in which stages are run name every stage once, and the      *)
(* stages that make a product before those that need it.                      *)
ShadowsFirst == UpToGoals \o Shadows \o AfterGoals

InOrder(o) ==
  /\ o \in Seq(PostStages)
  /\ \A s \in PostStages : \E i \in DOMAIN o : o[i] = s
  /\ \A i, j \in DOMAIN o : o[i] = o[j] => i = j
  /\ \A s \in PostStages \ {"goal_fulfillment"} : \A p \in Needs(s) : Precedes(p, s, o)

LEMMA OrderParts ==
  /\ UpToGoals \in Seq(PostStages) /\ Len(UpToGoals) = 15
  /\ AfterGoals \in Seq(PostStages) /\ Len(AfterGoals) = 3
  /\ Shadows \in Seq(PostStages) /\ Len(Shadows) = 2
  BY DEF UpToGoals, AfterGoals, Shadows, PostStages, Automatic

LEMMA TwoParts ==
  ASSUME NEW u \in Seq(PostStages), NEW v \in Seq(PostStages)
  PROVE  /\ u \o v \in Seq(PostStages) /\ Len(u \o v) = Len(u) + Len(v)
         /\ \A i \in 1..Len(u) : (u \o v)[i] = u[i]
         /\ \A i \in 1..Len(v) : (u \o v)[Len(u) + i] = v[i]
  OBVIOUS

LEMMA ThreeParts ==
  ASSUME NEW u \in Seq(PostStages), NEW v \in Seq(PostStages), NEW w \in Seq(PostStages)
  PROVE  /\ (u \o v) \o w \in Seq(PostStages)
         /\ Len((u \o v) \o w) = Len(u) + Len(v) + Len(w)
         /\ \A i \in 1..Len(u) : ((u \o v) \o w)[i] = u[i]
         /\ \A i \in 1..Len(v) : ((u \o v) \o w)[Len(u) + i] = v[i]
         /\ \A i \in 1..Len(w) : ((u \o v) \o w)[Len(u) + Len(v) + i] = w[i]
<1>1. PICK x : x = u \o v
  OBVIOUS
<1>2. /\ x \in Seq(PostStages) /\ Len(x) = Len(u) + Len(v)
      /\ \A i \in 1..Len(u) : x[i] = u[i]
      /\ \A i \in 1..Len(v) : x[Len(u) + i] = v[i]
  BY <1>1, TwoParts
<1>3. /\ x \o w \in Seq(PostStages) /\ Len(x \o w) = Len(x) + Len(w)
      /\ \A i \in 1..Len(x) : (x \o w)[i] = x[i]
      /\ \A i \in 1..Len(w) : (x \o w)[Len(x) + i] = w[i]
  BY <1>2, TwoParts
<1>4. Len(u) \in Nat /\ Len(v) \in Nat /\ Len(w) \in Nat
  OBVIOUS
<1>5. PICK y : y = x \o w
  OBVIOUS
<1>6. /\ y \in Seq(PostStages) /\ Len(y) = Len(x) + Len(w)
      /\ \A i \in 1..Len(x) : y[i] = x[i]
      /\ \A i \in 1..Len(w) : y[Len(x) + i] = w[i]
  BY <1>3, <1>5
<1>7. /\ y \in Seq(PostStages) /\ Len(y) = Len(u) + Len(v) + Len(w)
      /\ \A i \in 1..Len(u) : y[i] = u[i]
      /\ \A i \in 1..Len(v) : y[Len(u) + i] = v[i]
      /\ \A i \in 1..Len(w) : y[Len(u) + Len(v) + i] = w[i]
  BY <1>2, <1>4, <1>6
<1>8. y = (u \o v) \o w
  BY <1>1, <1>5, Zenon
<1> QED BY <1>7, <1>8, Zenon

LEMMA Positions ==
  ASSUME NEW o, NEW k \in {0, 2}, NEW l \in {0, 3}, k = 2 <=> l = 0,
         Len(o) = 20, o \in Seq(PostStages),
         \A i \in 1..15 : o[i] = UpToGoals[i],
         \A i \in 1..3 : o[15 + k + i] = AfterGoals[i],
         \A i \in 1..2 : o[15 + l + i] = Shadows[i]
  PROVE  InOrder(o)
<1>1. DOMAIN o = 1..20
  OBVIOUS
<1> DEFINE Place(s) ==
      CASE s = "intention_persist" -> 1 [] s = "self_expression_goal" -> 2
        [] s = "decision" -> 3 [] s = "decision_cancel" -> 4
        [] s = "memory_extraction" -> 5 [] s = "experience" -> 6
        [] s = "emotion_attribution_link" -> 7 [] s = "relationship" -> 8
        [] s = "preferences" -> 9 [] s = "diana_preferences" -> 10
        [] s = "consolidation" -> 11 [] s = "episode" -> 12
        [] s = "decision_episode_link" -> 13 [] s = "knowledge" -> 14
        [] s = "goal_fulfillment" -> 15 [] s = "decision_execution" -> 16 + k
        [] s = "goal_progress" -> 17 + k [] s = "working_memory_post" -> 18 + k
        [] s = "narrative" -> 16 + l [] s = "self_model" -> 17 + l
<1>2. /\ o[1] = "intention_persist" /\ o[2] = "self_expression_goal"
      /\ o[3] = "decision" /\ o[4] = "decision_cancel"
      /\ o[5] = "memory_extraction" /\ o[6] = "experience"
      /\ o[7] = "emotion_attribution_link" /\ o[8] = "relationship"
      /\ o[9] = "preferences" /\ o[10] = "diana_preferences"
      /\ o[11] = "consolidation" /\ o[12] = "episode"
      /\ o[13] = "decision_episode_link" /\ o[14] = "knowledge"
      /\ o[15] = "goal_fulfillment"
  BY DEF UpToGoals
<1>3. /\ o[16 + k] = "decision_execution" /\ o[17 + k] = "goal_progress"
      /\ o[18 + k] = "working_memory_post"
      /\ o[16 + l] = "narrative" /\ o[17 + l] = "self_model"
  <2>1. /\ AfterGoals[1] = "decision_execution" /\ AfterGoals[2] = "goal_progress"
        /\ AfterGoals[3] = "working_memory_post"
        /\ Shadows[1] = "narrative" /\ Shadows[2] = "self_model"
    BY DEF AfterGoals, Shadows
  <2>2. 15 + k + 1 = 16 + k /\ 15 + k + 2 = 17 + k /\ 15 + k + 3 = 18 + k
        /\ 15 + l + 1 = 16 + l /\ 15 + l + 2 = 17 + l
    OBVIOUS
  <2>3. /\ o[15 + k + 1] = AfterGoals[1] /\ o[15 + k + 2] = AfterGoals[2]
        /\ o[15 + k + 3] = AfterGoals[3]
        /\ o[15 + l + 1] = Shadows[1] /\ o[15 + l + 2] = Shadows[2]
    OBVIOUS
  <2> QED BY <2>1, <2>2, <2>3
<1>8. \A s \in PostStages : Place(s) \in 1..20 /\ o[Place(s)] = s
  BY <1>2, <1>3 DEF PostStages, Automatic
<1>9. \A i \in 1..20 : Place(o[i]) = i
  <2>1. \A i \in 1..15 : Place(o[i]) = i
    BY <1>2
  <2>2. \A i \in {16, 17, 18} : Place(o[i + k]) = i + k
    BY <1>3
  <2>3. \A i \in {16, 17} : Place(o[i + l]) = i + l
    BY <1>3
  <2>4. \A i \in 16..20 : i - k \in {16, 17, 18} \/ i - l \in {16, 17}
    OBVIOUS
  <2>5. \A i \in 16..20 : i = (i - k) + k /\ i = (i - l) + l
    OBVIOUS
  <2>6. \A i \in 16..20 : Place(o[i]) = i
    <3> HIDE DEF Place
    <3> SUFFICES ASSUME NEW i \in 16..20 PROVE Place(o[i]) = i
      OBVIOUS
    <3>1. CASE i - k \in {16, 17, 18} BY <3>1, <2>2, <2>5
    <3>2. CASE i - l \in {16, 17} BY <3>2, <2>3, <2>5
    <3> QED BY <3>1, <3>2, <2>4
  <2> HIDE DEF Place
  <2> SUFFICES ASSUME NEW i \in 1..20 PROVE Place(o[i]) = i
    OBVIOUS
  <2>7. i \in 1..15 \/ i \in 16..20
    OBVIOUS
  <2> QED BY <2>1, <2>6, <2>7
<1>4. ASSUME NEW p \in PostStages, NEW s \in PostStages, Place(p) < Place(s)
      PROVE  Precedes(p, s, o)
  <2> HIDE DEF Place
  <2> QED BY <1>1, <1>8, <1>4 DEF Precedes
<1>5. ASSUME NEW s \in PostStages \ {"goal_fulfillment"}, NEW p \in Needs(s)
      PROVE  Precedes(p, s, o)
  <2>1. p \in PostStages
    BY <1>5 DEF Needs, OnExperience, PostStages, Automatic
  <2>2. Place(p) < Place(s)
    BY <1>5 DEF Needs, OnExperience
  <2> QED BY <2>1, <2>2, <1>4
<1>6. \A i, j \in DOMAIN o : o[i] = o[j] => i = j
  <2> HIDE DEF Place
  <2> QED BY <1>1, <1>9
<1>7. \A s \in PostStages : \E i \in DOMAIN o : o[i] = s
  <2> HIDE DEF Place
  <2> QED BY <1>1, <1>8
<1> QED BY <1>5, <1>6, <1>7 DEF InOrder

LEMMA Orders ==
  /\ InOrder(LedgerOrder) /\ InOrder(ShadowsFirst)
  /\ \A t : RequestOrder(t) \in {LedgerOrder, ShadowsFirst}
<1> USE OrderParts
<1>1. ASSUME NEW o, o = (UpToGoals \o AfterGoals) \o Shadows
      PROVE  InOrder(o)
  <2>1. /\ o \in Seq(PostStages) /\ Len(o) = 15 + 3 + 2
        /\ \A i \in 1..15 : o[i] = UpToGoals[i]
        /\ \A i \in 1..3 : o[15 + i] = AfterGoals[i]
        /\ \A i \in 1..2 : o[15 + 3 + i] = Shadows[i]
    <3>1. /\ o \in Seq(PostStages) /\ Len(o) = Len(UpToGoals) + Len(AfterGoals) + Len(Shadows)
          /\ \A i \in 1..Len(UpToGoals) : o[i] = UpToGoals[i]
          /\ \A i \in 1..Len(AfterGoals) : o[Len(UpToGoals) + i] = AfterGoals[i]
          /\ \A i \in 1..Len(Shadows) : o[Len(UpToGoals) + Len(AfterGoals) + i] = Shadows[i]
      <4>1. /\ ((UpToGoals \o AfterGoals) \o Shadows) \in Seq(PostStages)
            /\ Len((UpToGoals \o AfterGoals) \o Shadows) = Len(UpToGoals) + Len(AfterGoals) + Len(Shadows)
            /\ \A i \in 1..Len(UpToGoals) : ((UpToGoals \o AfterGoals) \o Shadows)[i] = UpToGoals[i]
            /\ \A i \in 1..Len(AfterGoals) : ((UpToGoals \o AfterGoals) \o Shadows)[Len(UpToGoals) + i] = AfterGoals[i]
            /\ \A i \in 1..Len(Shadows) :
                 ((UpToGoals \o AfterGoals) \o Shadows)[Len(UpToGoals) + Len(AfterGoals) + i] = Shadows[i]
        BY ThreeParts, Zenon
      <4> QED BY <1>1, <4>1, Zenon
    <3> QED BY <3>1
  <2>2. Len(o) = 20 /\ \A i \in 1..3 : o[15 + 0 + i] = AfterGoals[i]
    BY <2>1
  <2>3. 0 \in {0, 2} /\ 3 \in {0, 3} /\ (0 = 2 <=> 3 = 0)
    OBVIOUS
  <2> QED BY <2>1, <2>2, <2>3, Positions
<1>2. ASSUME NEW o, o = (UpToGoals \o Shadows) \o AfterGoals
      PROVE  InOrder(o)
  <2>1. /\ o \in Seq(PostStages) /\ Len(o) = 15 + 2 + 3
        /\ \A i \in 1..15 : o[i] = UpToGoals[i]
        /\ \A i \in 1..2 : o[15 + i] = Shadows[i]
        /\ \A i \in 1..3 : o[15 + 2 + i] = AfterGoals[i]
    <3>1. /\ o \in Seq(PostStages) /\ Len(o) = Len(UpToGoals) + Len(Shadows) + Len(AfterGoals)
          /\ \A i \in 1..Len(UpToGoals) : o[i] = UpToGoals[i]
          /\ \A i \in 1..Len(Shadows) : o[Len(UpToGoals) + i] = Shadows[i]
          /\ \A i \in 1..Len(AfterGoals) : o[Len(UpToGoals) + Len(Shadows) + i] = AfterGoals[i]
      <4>1. /\ ((UpToGoals \o Shadows) \o AfterGoals) \in Seq(PostStages)
            /\ Len((UpToGoals \o Shadows) \o AfterGoals) = Len(UpToGoals) + Len(Shadows) + Len(AfterGoals)
            /\ \A i \in 1..Len(UpToGoals) : ((UpToGoals \o Shadows) \o AfterGoals)[i] = UpToGoals[i]
            /\ \A i \in 1..Len(Shadows) : ((UpToGoals \o Shadows) \o AfterGoals)[Len(UpToGoals) + i] = Shadows[i]
            /\ \A i \in 1..Len(AfterGoals) :
                 ((UpToGoals \o Shadows) \o AfterGoals)[Len(UpToGoals) + Len(Shadows) + i] = AfterGoals[i]
        BY ThreeParts, Zenon
      <4> QED BY <1>2, <4>1, Zenon
    <3> QED BY <3>1
  <2>2. Len(o) = 20 /\ \A i \in 1..2 : o[15 + 0 + i] = Shadows[i]
    BY <2>1
  <2>3. 2 \in {0, 2} /\ 0 \in {0, 3} /\ (2 = 2 <=> 0 = 0)
    OBVIOUS
  <2> QED BY <2>1, <2>2, <2>3, Positions
<1>3. InOrder(LedgerOrder)
  BY <1>1, Zenon DEF LedgerOrder
<1>4. InOrder(ShadowsFirst)
  BY <1>2, Zenon DEF ShadowsFirst
<1>5. \A t : RequestOrder(t) \in {LedgerOrder, ShadowsFirst}
  BY Zenon DEF RequestOrder, ShadowsFirst
<1> QED BY <1>3, <1>4, <1>5

(* The next stage of a handler or a recovery: what it needs, it is past.       *)
LEMMA NeedsArePassed ==
  ASSUME NEW o, InOrder(o), NEW set \in SUBSET PostStages, NEW s, IsFirst(s, set, o),
         s # "goal_fulfillment", NEW p \in Needs(s)
  PROVE  p \notin set
<1>1. DOMAIN o \subseteq Nat /\ s \in set
  BY DEF InOrder, IsFirst
<1>2. PICK m \in DOMAIN o : o[m] \in set /\ \A n \in DOMAIN o : o[n] \in set => m <= n
  <2>1. /\ {i \in DOMAIN o : o[i] \in set} \in SUBSET Nat
        /\ {i \in DOMAIN o : o[i] \in set} # {}
    BY <1>1 DEF InOrder
  <2> QED BY <2>1, LeastNatural
<1>3. \A r \in set \ {o[m]} : Precedes(o[m], r, o)
  <2> SUFFICES ASSUME NEW r \in set \ {o[m]}
               PROVE  Precedes(o[m], r, o)
    OBVIOUS
  <2>1. PICK j \in DOMAIN o : o[j] = r
    BY DEF InOrder
  <2> QED BY <1>1, <1>2, <2>1 DEF Precedes
<1>4. \A r \in set \ {s} : Precedes(s, r, o)
  BY <1>2, <1>3 DEF IsFirst, First
<1>5. Precedes(p, s, o)
  BY <1>1 DEF InOrder
<1>6. p # s
  BY DEF Needs, OnExperience
<1>7. ~Precedes(s, p, o)
  BY <1>1, <1>5 DEF Precedes, InOrder
<1> QED BY <1>4, <1>6, <1>7

-----------------------------------------------------------------------------
(* Work that was skipped.  A handler completes a stage as a no-op when what   *)
(* it holds, and a recovery when the rows it read, lack a product the stage   *)
(* needs.  That is right for a product whose row, once handed on, is found    *)
(* again: always for an experience; for an episode where there is no other    *)
(* turn that takes it over; for a decision where none is made, because a      *)
(* decision that repeats one still active leaves no row of its own.           *)
Kept ==
  {"experience"}
  \cup {p \in {"episode"} : \A t, u \in Turns : t = u}
  \cup {p \in {"decision"} : "decision" \notin Tracked}

Skipped(t, s) ==
  /\ stage[t][s].status = "completed" /\ applied[t][s] = 0
  /\ Needs(s) # {} /\ s # "goal_fulfillment"

(* Something the stage needs was not made, and nobody is left to make it.     *)
Lacks(t, s) == \E p \in Needs(s) : p \notin produced[t] /\ p \notin left[t]

ProductsOf(t) ==
  /\ produced[t] # {} => turn[t].core
  /\ pc[t] \notin Live => left[t] = {}
  /\ pc[t] # "gone" => produced[t] \subseteq has[t]
  /\ MessagesPresent(t) => produced[t] \cap Kept \subseteq found[t]
  /\ pc[t] = "operated" => \A s \in Tracked : AtOpenStage(t, s) => applied[t][s] # 0
  /\ \A s \in Tracked : Skipped(t, s) /\ Needs(s) \subseteq Kept => Lacks(t, s)

InputsOf(d) ==
  rpc[d] \in {"snapshot", "resume", "unmarked"} =>
    produced[subject[d]] \cap Kept \subseteq inputs[d]

ProductInv == (\A t \in Turns : ProductsOf(t)) /\ (\A d \in Devices : InputsOf(d))

LEMMA KeptFacts ==
  /\ Kept \subseteq Products
  /\ "episode" \in Kept => \A t, u \in Turns : t = u
  /\ "decision" \in Kept => "decision" \notin Tracked
  BY DEF Kept, Products

(* A committed stage and the products of its turn, and of the others.         *)
LEMMA CommitProducts ==
  ASSUME LedgerInv, NEW t \in Turns, NEW s \in Tracked, NEW work, CommitStage(t, s, work)
  PROVE  /\ produced'[t] \subseteq produced[t] \cup {s}
         /\ s \notin Products => produced'[t] = produced[t]
         /\ found[t] \subseteq found'[t]
         /\ s \in produced'[t] /\ s \in Kept => s \in produced[t] \/ s \in found'[t]
         /\ stage'[t][s].status = "completed"
         /\ IF work THEN applied'[t][s] # 0
            ELSE produced'[t] = produced[t] /\ applied'[t] = applied[t]
         /\ turn'[t].core
         /\ \A u \in Turns \ {t} : /\ produced'[u] = produced[u]
                                   /\ found[u] \cap Kept \subseteq found'[u]
<1>a. /\ LedgerTypeOK /\ s \in Stages /\ stage[t] \in [Stages -> Row]
      /\ applied \in [Turns -> [Stages -> Nat]] /\ CoreTruthOf(t)
      /\ found \in [Turns -> SUBSET Products] /\ produced \in [Turns -> SUBSET Products]
  BY StageKinds, TurnRecords DEF LedgerInv, LedgerTypeOK
<1>1. stage'[t][s].status = "completed"
  <2> DEFINE r == [stage[t] EXCEPT ![s] =
                     [status |-> "completed", attempts |-> @.attempts + 1]]
  <2>1. WriteAndRefresh(t, r)
    BY DEF CommitStage
  <2>2. r[s].status = "completed"
    BY <1>a
  <2> HIDE DEF r
  <2> QED BY <2>1, <2>2, <1>a, RefreshEffect
<1>2. turn'[t].core
  <2>1. turn[t].core
    BY <1>a, AttemptsAssumption DEF CommitStage, MayClaim, CoreTruthOf
  <2> QED BY <2>1, StageWrites DEF StageOperation
<1>3. CASE ~work
  <2>1. produced' = produced /\ found' = found /\ applied' = applied
    BY <1>3 DEF CommitStage
  <2> QED BY <2>1, <1>1, <1>2, <1>3
<1>4. CASE work
  <2>1. applied'[t][s] # 0
    <3>1. applied' = [applied EXCEPT ![t][s] = @ + 1]
      BY <1>4 DEF CommitStage
    <3>2. applied'[t][s] = applied[t][s] + 1 /\ applied[t][s] \in Nat
      BY <3>1, <1>a
    <3> QED BY <3>2
  <2>2. LeavesProduct(t, s)
    BY <1>4 DEF CommitStage
  <2>3. CASE NoProduct(t)
    BY <2>1, <2>3, <1>1, <1>2, <1>4 DEF NoProduct
  <2>4. CASE s \in Products /\ OwnRow(t, s)
    BY <2>1, <2>4, <1>a, <1>1, <1>2, <1>4 DEF OwnRow
  <2>5. CASE s = "decision" /\ DuplicateDecision(t)
    <3>1. s \in Products /\ s \notin Kept
      BY <2>5, KeptFacts DEF Products
    <3> QED BY <2>1, <2>5, <3>1, <1>a, <1>1, <1>2, <1>4 DEF DuplicateDecision
  <2>6. ASSUME NEW u \in Turns, s = "episode", MergedEpisode(t, u)
        PROVE  /\ produced'[t] = produced[t] \cup {s} /\ found'[t] = found[t] \cup {s}
               /\ s \in Products
               /\ \A v \in Turns \ {t} : /\ produced'[v] = produced[v]
                                         /\ found[v] \cap Kept \subseteq found'[v]
    <3>1. "episode" \notin Kept /\ u # t
      BY <2>6, KeptFacts DEF MergedEpisode
    <3>2. /\ produced'[t] = produced[t] \cup {s}
          /\ \A v \in Turns \ {t} : produced'[v] = produced[v]
      BY <2>6, <1>a DEF MergedEpisode
    <3>3. /\ found'[t] = found[t] \cup {s} /\ found'[u] = found[u] \ {"episode"}
          /\ \A v \in Turns \ {t, u} : found'[v] = found[v]
      BY <2>6, <3>1, <1>a DEF MergedEpisode
    <3> QED BY <2>6, <3>1, <3>2, <3>3 DEF Products
  <2> QED BY <2>1, <2>2, <2>3, <2>4, <2>5, <2>6, <1>1, <1>2, <1>4 DEF LeavesProduct
<1> QED BY <1>3, <1>4

(* The products of a turn nobody works on.                                    *)
LEMMA ProductsUnmoved ==
  ASSUME NEW t \in Turns, ProductsOf(t),
         pc'[t] = pc[t], left'[t] = left[t], has'[t] = has[t],
         turn'[t] = turn[t], stage'[t] = stage[t], applied'[t] = applied[t],
         produced'[t] = produced[t], found[t] \cap Kept \subseteq found'[t]
  PROVE  ProductsOf(t)'
<1>1. \A s : AtOpenStage(t, s)' <=> AtOpenStage(t, s)
  BY DEF AtOpenStage, IsFirst, RequestOrder, LedgerOrder, UpToGoals, AfterGoals, Shadows,
     First, Precedes
<1>2. \A s : Skipped(t, s)' <=> Skipped(t, s)
  BY DEF Skipped
<1>3. \A s : Lacks(t, s)' <=> Lacks(t, s)
  BY DEF Lacks
<1>4. MessagesPresent(t)' <=> MessagesPresent(t)
  BY DEF MessagesPresent
<1> QED BY <1>1, <1>2, <1>3, <1>4 DEF ProductsOf

(* A step of its handler, or of another, that makes no product and skips no   *)
(* stage.                                                                     *)
LEMMA ProductsQuiet ==
  ASSUME NEW t \in Turns, ProductsOf(t),
         produced'[t] \subseteq produced[t], produced'[t] # {} => turn'[t].core,
         left'[t] \subseteq left[t], pc'[t] \notin Live => left'[t] = {},
         pc'[t] = "gone" \/ (pc[t] # "gone" /\ has'[t] = has[t]),
         \/ produced'[t] = {} \/ ~MessagesPresent(t)'
         \/ (MessagesPresent(t) /\ found'[t] = found[t]),
         pc'[t] = "operated" => \A s \in Tracked : AtOpenStage(t, s)' => applied'[t][s] # 0,
         \A s \in Tracked : Skipped(t, s)' => Skipped(t, s)
  PROVE  ProductsOf(t)'
<1>1. \A s : Lacks(t, s) => Lacks(t, s)'
  BY DEF Lacks
<1> QED BY <1>1 DEF ProductsOf

(* What the ledger step of a turn does to the products of another.            *)
LEMMA OtherProducts ==
  ASSUME LedgerInv, NEW t \in Turns, LedgerStep(t), NEW u \in Turns, u # t
  PROVE  produced'[u] = produced[u] /\ found[u] \cap Kept \subseteq found'[u]
<1>a. /\ found \in [Turns -> SUBSET Products] /\ produced \in [Turns -> SUBSET Products]
  BY DEF LedgerInv, LedgerTypeOK
<1>1. CASE \/ BeginTurn(t) \/ MarkContextPrepared(t) \/ MarkProviderStarted(t)
           \/ SettleInterrupted(t) \/ CompleteCore(t) \/ MarkCoreFailed(t)
           \/ TerminalizeMissingInput(t)
  BY <1>1 DEF BeginTurn, MarkContextPrepared, MarkProviderStarted, SettleInterrupted,
     CompleteCore, MarkCoreFailed, TerminalizeMissingInput
<1>2. ASSUME NEW s \in Tracked,
             \/ ClaimStage(t, s) \/ OperateOutside(t, s) \/ CloseStage(t, s)
             \/ \E n \in {0, 1} : MarkStageFailed(t, s, n)
      PROVE  produced' = produced /\ found' = found
  BY <1>2 DEF ClaimStage, OperateOutside, CloseStage, MarkStageFailed
<1>3. ASSUME NEW s \in Tracked, NEW work, CommitStage(t, s, work)
      PROVE  produced'[u] = produced[u] /\ found[u] \cap Kept \subseteq found'[u]
  BY <1>3, CommitProducts
<1>4. ASSUME NEW who \in {"user", "assistant"}, DeleteMessage(t, who)
      PROVE  produced'[u] = produced[u] /\ found'[u] = found[u]
  BY <1>4, <1>a DEF DeleteMessage
<1> QED BY <1>1, <1>2, <1>3, <1>4 DEF LedgerStep

(* The handler up to the reply, and its end: no product exists before the     *)
(* reply does, and nothing is left to do after it.                            *)
LEMMA EdgeProducts ==
  ASSUME TypeOK, LedgerInv, NEW t \in Turns, RequestInv(t), ProductsOf(t),
         \/ ReceiveMessage(t) \/ PrepareContext(t) \/ StartProvider(t) \/ ProviderReplies(t)
         \/ ProviderFails(t) \/ SaveReply(t) \/ SaveReplyFails(t) \/ RecordCoreFailure(t)
         \/ LoseCoreFailure(t) \/ LeavePending(t) \/ EndRequest(t)
  PROVE  ProductsOf(t)'
<1>a. /\ pc \in [Turns -> RequestPc] /\ left \in [Turns -> SUBSET Tracked]
      /\ has \in [Turns -> SUBSET Products] /\ LedgerTypeOK /\ CoreTruthOf(t)
      /\ turn \in [Turns -> TurnRow] /\ stage \in [Turns -> [Stages -> Row]]
      /\ Tracked \subseteq Stages /\ Tracked \cap Boundary = {}
  BY StageKinds DEF TypeOK, LedgerInv, LedgerTypeOK
<1>b. ~turn[t].core => produced[t] = {} /\ \A s \in Tracked : stage[t][s].status = "absent"
  BY <1>a DEF ProductsOf, CoreTruthOf
<1>1. CASE ReceiveMessage(t)
  <2>1. /\ produced' = produced /\ left' = left /\ has' = has
        /\ pc[t] = "idle" /\ pc'[t] = "context" /\ turn[t].status = "none"
        /\ stage'[t] = [s \in Stages |-> IF s \in Boundary THEN FreshRow ELSE NoRow]
    BY <1>1, <1>a DEF ReceiveMessage, BeginTurn
  <2>2. ~turn[t].core
    BY <2>1, <1>a DEF CoreTruthOf
  <2>3. \A s \in Tracked : ~Skipped(t, s)'
    BY <2>1, <1>a DEF Skipped, NoRow
  <2> QED BY <2>1, <2>2, <2>3, <1>b, ProductsQuiet DEF Live
<1>2. CASE PrepareContext(t) \/ StartProvider(t)
  <2>1. /\ turn' = turn /\ produced' = produced /\ left' = left /\ has' = has
        /\ pc[t] \in {"context", "prepared"} /\ pc'[t] \in {"prepared", "calling"}
        /\ applied' = applied /\ CoreOpen(t)
    BY <1>2, <1>a DEF PrepareContext, StartProvider, MarkContextPrepared, MarkProviderStarted
  <2>2. \A s \in Tracked : stage'[t][s] = stage[t][s]
    BY <1>2, <1>a DEF PrepareContext, StartProvider, MarkContextPrepared, MarkProviderStarted,
       Boundary
  <2>3. \A s \in Tracked : Skipped(t, s)' => Skipped(t, s)
    BY <2>1, <2>2 DEF Skipped
  <2>4. produced[t] = {}
    BY <2>1, <1>b DEF CoreOpen
  <2> QED BY <2>1, <2>3, <2>4, ProductsQuiet DEF Live
<1>3. CASE ProviderReplies(t) \/ ProviderFails(t) \/ SaveReplyFails(t)
  <2>1. /\ UNCHANGED ledgerVars /\ left' = left /\ has' = has
        /\ pc[t] \in {"calling", "replied"} /\ pc'[t] \in {"replied", "failing"}
    BY <1>3, <1>a DEF ProviderReplies, ProviderFails, SaveReplyFails
  <2>2. \A s \in Tracked : Skipped(t, s)' => Skipped(t, s)
    BY <2>1 DEF Skipped, ledgerVars
  <2>3. produced'[t] # {} => turn'[t].core
    BY <2>1 DEF ledgerVars, ProductsOf
  <2>4. produced'[t] = produced[t] /\ found'[t] = found[t] /\ turn' = turn
    BY <2>1 DEF ledgerVars
  <2>5. ~MessagesPresent(t)' \/ MessagesPresent(t)
    BY <2>4 DEF MessagesPresent
  <2> QED BY <2>1, <2>2, <2>3, <2>4, <2>5, ProductsQuiet DEF Live
<1>4. CASE SaveReply(t)
  <2>1. /\ produced' = produced /\ left'[t] = Tracked /\ has' = has /\ ~turn[t].core
        /\ pc[t] = "replied" /\ pc'[t] = "post"
        /\ stage'[t] = [s \in Stages |-> CoreRow(s, stage[t][s])]
    BY <1>4, <1>a DEF SaveReply, CompleteCore
  <2>2. ASSUME NEW s \in Tracked PROVE ~Skipped(t, s)'
    <3>1. stage'[t][s] = CoreRow(s, stage[t][s]) /\ stage[t][s].status = "absent"
      BY <2>1, <1>a, <1>b
    <3>2. CoreRow(s, stage[t][s]) = FreshRow
      BY <3>1, <1>a DEF CoreRow, Boundary
    <3> QED BY <3>1, <3>2 DEF Skipped, FreshRow
  <2> QED BY <2>1, <2>2, <1>b DEF ProductsOf, Live
<1>5. CASE RecordCoreFailure(t) \/ LoseCoreFailure(t) \/ LeavePending(t) \/ EndRequest(t)
  <2>1. /\ pc'[t] = "gone" /\ left'[t] = {} /\ produced' = produced /\ found' = found
        /\ stage' = stage /\ applied' = applied
    BY <1>5, <1>a DEF RecordCoreFailure, LoseCoreFailure, LeavePending, EndRequest, EndHandler,
       MarkCoreFailed, ledgerVars
  <2>2. \/ turn' = turn
        \/ turn' = [turn EXCEPT ![t].status = "core_failed"]
    <3>1. CASE RecordCoreFailure(t)
      <4>1. MarkCoreFailed(t)
        BY <3>1 DEF RecordCoreFailure
      <4> QED BY <4>1, Zenon DEF MarkCoreFailed
    <3> QED BY <1>5, <3>1 DEF LoseCoreFailure, LeavePending, EndRequest, ledgerVars
  <2>3. /\ turn'[t].core = turn[t].core
        /\ turn'[t].user = turn[t].user /\ turn'[t].assistant = turn[t].assistant
    BY <2>2, <1>a DEF TurnRow
  <2>4. MessagesPresent(t)' <=> MessagesPresent(t)
    BY <2>3 DEF MessagesPresent
  <2>5. \A s \in Tracked : Skipped(t, s)' => Skipped(t, s)
    BY <2>1 DEF Skipped
  <2>6. produced[t] # {} => turn[t].core
    BY DEF ProductsOf
  <2> QED BY <2>1, <2>3, <2>4, <2>5, <2>6, ProductsQuiet
<1> QED BY <1>1, <1>2, <1>3, <1>4, <1>5

(* What the handler's steps at a stage have in common.                        *)
LEMMA MarkedSkipsNothing ==
  ASSUME LedgerInv, NEW t \in Turns, NEW s \in Tracked,
         \/ ClaimStage(t, s) \/ OperateOutside(t, s)
         \/ CloseStage(t, s) /\ applied[t][s] # 0
         \/ \E n \in {0, 1} : MarkStageFailed(t, s, n)
  PROVE  /\ produced' = produced /\ found' = found
         /\ \A x \in Tracked : Skipped(t, x)' => Skipped(t, x)
         /\ turn'[t].core = turn[t].core
         /\ MessagesPresent(t)' <=> MessagesPresent(t)
<1>a. /\ LedgerTypeOK /\ s \in Stages /\ stage[t] \in [Stages -> Row]
      /\ applied[t] \in [Stages -> Nat] /\ applied \in [Turns -> [Stages -> Nat]]
      /\ Tracked \subseteq Stages
  BY StageKinds, TurnRecords DEF LedgerInv, LedgerTypeOK
<1>1. produced' = produced /\ found' = found
  BY DEF ClaimStage, OperateOutside, CloseStage, MarkStageFailed
<1>2. /\ \A x \in Stages \ {s} : stage'[t][x] = stage[t][x] /\ applied'[t][x] = applied[t][x]
      /\ turn'[t].core = turn[t].core
      /\ turn'[t].user = turn[t].user /\ turn'[t].assistant = turn[t].assistant
  BY StageWrites DEF StageOperation
<1>3. Skipped(t, s)' => Skipped(t, s)
  <2>1. CASE ClaimStage(t, s)
    BY <2>1, <1>a DEF ClaimStage, Skipped, LedgerTypeOK
  <2>2. CASE OperateOutside(t, s)
    <3>1. applied'[t][s] = applied[t][s] + 1 /\ applied[t][s] \in Nat
      BY <2>2, <1>a DEF OperateOutside
    <3> QED BY <3>1 DEF Skipped
  <2>3. CASE CloseStage(t, s) /\ applied[t][s] # 0
    BY <2>3 DEF CloseStage, Skipped
  <2>4. ASSUME NEW n \in {0, 1}, MarkStageFailed(t, s, n)
        PROVE  Skipped(t, s)' => Skipped(t, s)
    <3> DEFINE r == [stage[t] EXCEPT ![s] =
                       IF @.status \in {"pending", "running", "failed"}
                       THEN [status |-> "failed", attempts |-> @.attempts + n] ELSE @]
    <3>1. WriteAndRefresh(t, r) /\ applied' = applied
      BY <2>4 DEF MarkStageFailed
    <3>2. r[s].status = "failed" \/ r[s] = stage[t][s]
      BY <1>a
    <3> HIDE DEF r
    <3>3. stage'[t] = r
      BY <3>1, <1>a, RefreshEffect
    <3> QED BY <3>1, <3>2, <3>3 DEF Skipped
  <2> QED BY <2>1, <2>2, <2>3, <2>4
<1>4. \A x \in Tracked : Skipped(t, x)' => Skipped(t, x)
  BY <1>2, <1>3, <1>a DEF Skipped
<1>5. MessagesPresent(t)' <=> MessagesPresent(t)
  BY <1>2 DEF MessagesPresent
<1> QED BY <1>1, <1>2, <1>4, <1>5

(* The handler commits a stage, with its work or as a no-op.                  *)
LEMMA RunProducts ==
  ASSUME TypeOK, LedgerInv, NEW t \in Turns, ProductsOf(t), NEW s \in Tracked, RunStage(t, s)
  PROVE  ProductsOf(t)'
<1>a. /\ pc \in [Turns -> RequestPc] /\ left \in [Turns -> SUBSET Tracked]
      /\ has \in [Turns -> SUBSET Products] /\ LedgerTypeOK /\ s \in Stages
      /\ applied[t] \in [Stages -> Nat] /\ Tracked \subseteq Stages
      /\ produced'[t] \subseteq Products
  <2>1. LedgerTypeOK'
    <3>1. LedgerStep(t)
      BY DEF RunStage, LedgerStep
    <3> QED BY <3>1, LedgerTypes DEF LedgerInv
  <2> QED BY <2>1, StageKinds DEF TypeOK, LedgerInv, LedgerTypeOK
<1>1. PICK work \in RequestRuns(t, s) : CommitStage(t, s, work)
  BY DEF RunStage
<1>2. /\ pc[t] = "post" /\ pc'[t] = "post" /\ IsFirst(s, left[t], RequestOrder(t))
      /\ left'[t] = left[t] \ {s} /\ has'[t] = has[t] \cup ({s} \cap produced'[t])
      /\ s \in left[t]
  BY <1>a DEF RunStage, AtStage, PassStage, IsFirst
<1>3. /\ \A x \in Tracked \ {s} : stage'[t][x] = stage[t][x] /\ applied'[t][x] = applied[t][x]
      /\ turn'[t].user = turn[t].user /\ turn'[t].assistant = turn[t].assistant
  BY <1>1, <1>a, StageWrites DEF StageOperation
<1>4. /\ produced'[t] \subseteq produced[t] \cup {s}
      /\ found[t] \subseteq found'[t]
      /\ s \in produced'[t] /\ s \in Kept => s \in produced[t] \/ s \in found'[t]
      /\ stage'[t][s].status = "completed"
      /\ IF work THEN applied'[t][s] # 0
         ELSE produced'[t] = produced[t] /\ applied'[t] = applied[t]
      /\ turn'[t].core
  BY <1>1, CommitProducts
<1>5. produced[t] \subseteq has[t]
  BY <1>2 DEF ProductsOf
<1>6. ASSUME Skipped(t, s)'
      PROVE  Lacks(t, s)'
  <2>1. ~work
    BY <1>4, <1>6 DEF Skipped
  <2>2. Needs(s) # {} /\ s # "goal_fulfillment"
    BY <1>6 DEF Skipped
  <2>3. RequestRuns(t, s) = {Needs(s) \subseteq has[t]}
    BY <2>2 DEF RequestRuns, Needs, OnExperience
  <2>4. PICK p \in Needs(s) : p \notin has[t]
    BY <2>1, <2>3, <1>1
  <2>5. p \notin left[t]
    <3>1. InOrder(RequestOrder(t)) /\ left[t] \in SUBSET PostStages
      BY <1>a, Orders, TrackedAssumption
    <3> QED BY <3>1, <1>2, <2>2, NeedsArePassed
  <2> QED BY <2>1, <2>4, <2>5, <1>2, <1>4, <1>5 DEF Lacks
<1>7. ASSUME NEW x \in Tracked, x # s, Skipped(t, x)', Needs(x) \subseteq Kept
      PROVE  Lacks(t, x)'
  <2>1. Skipped(t, x)
    BY <1>3, <1>7 DEF Skipped
  <2>2. PICK p \in Needs(x) : p \notin produced[t] /\ p \notin left[t]
    BY <2>1, <1>7 DEF ProductsOf, Lacks
  <2> QED BY <2>2, <1>2, <1>4 DEF Lacks
<1>8. MessagesPresent(t)' => produced'[t] \cap Kept \subseteq found'[t]
  BY <1>3, <1>4 DEF MessagesPresent, ProductsOf
<1> QED BY <1>2, <1>4, <1>5, <1>6, <1>7, <1>8 DEF ProductsOf, Live

(* Every step of the handler.                                                 *)
LEMMA RequestProducts ==
  ASSUME ~LostAcks, TypeOK, LedgerInv, NEW t \in Turns, RequestInv(t), ProductsOf(t),
         RequestStep(t)
  PROVE  ProductsOf(t)'
<1>a. /\ pc \in [Turns -> RequestPc] /\ left \in [Turns -> SUBSET Tracked]
      /\ has \in [Turns -> SUBSET Products] /\ LedgerTypeOK
      /\ applied \in [Turns -> [Stages -> Nat]] /\ Tracked \subseteq Stages
  BY StageKinds DEF TypeOK, LedgerInv, LedgerTypeOK
<1>b. ~SaveReplyUnacknowledged(t) /\ \A s : ~RunStageUnacknowledged(t, s)
  BY DEF SaveReplyUnacknowledged, RunStageUnacknowledged, LostAck
<1>c. /\ produced[t] # {} => turn[t].core
      /\ pc[t] \notin Live => left[t] = {}
  BY DEF ProductsOf
<1>d. ASSUME UNCHANGED ledgerVars
      PROVE  /\ produced'[t] = produced[t] /\ found'[t] = found[t] /\ turn'[t] = turn[t]
             /\ (MessagesPresent(t)' <=> MessagesPresent(t))
             /\ \A s \in Tracked : Skipped(t, s)' => Skipped(t, s)
  BY <1>d DEF ledgerVars, Skipped, MessagesPresent
<1>1. CASE \/ ReceiveMessage(t) \/ PrepareContext(t) \/ StartProvider(t) \/ ProviderReplies(t)
           \/ ProviderFails(t) \/ SaveReply(t) \/ SaveReplyFails(t) \/ RecordCoreFailure(t)
           \/ LoseCoreFailure(t) \/ LeavePending(t) \/ EndRequest(t)
  BY <1>1, EdgeProducts
<1>2. ASSUME NEW s \in Tracked, RunStage(t, s)
      PROVE  ProductsOf(t)'
  BY <1>2, RunProducts
<1>3. ASSUME NEW s \in Tracked,
             StageRollsBack(t, s) \/ StageNotClaimed(t, s) \/ LoseStageFailure(t, s)
      PROVE  ProductsOf(t)'
  <2>1. /\ UNCHANGED ledgerVars /\ has' = has /\ left'[t] \subseteq left[t]
        /\ pc[t] \in {"post", "unmarked", "unclosed"}
        /\ pc'[t] \in {"post", "unmarked", "unclosed"}
    BY <1>3, <1>a DEF StageRollsBack, StageNotClaimed, LoseStageFailure, AtStage, PassStage
  <2> QED BY <2>1, <1>c, <1>d, ProductsQuiet DEF Live
<1>4. CASE OutsideFails(t)
  <2>1. /\ UNCHANGED ledgerVars /\ has' = has /\ left' = left
        /\ pc[t] \in {"operating", "operated"} /\ pc'[t] = "unclosed"
    BY <1>4, <1>a DEF OutsideFails
  <2> QED BY <2>1, <1>c, <1>d, ProductsQuiet DEF Live
<1>5. ASSUME NEW s \in Tracked, RecordStageFailure(t, s)
      PROVE  ProductsOf(t)'
  <2>1. /\ \E n \in {0, 1} : MarkStageFailed(t, s, n)
        /\ pc[t] \in {"unmarked", "unclosed"} /\ pc'[t] = "post"
        /\ left'[t] \subseteq left[t] /\ has' = has
    BY <1>5, <1>a DEF RecordStageFailure, PassStage
  <2> QED BY <2>1, <1>c, MarkedSkipsNothing, ProductsQuiet DEF Live
<1>6. ASSUME NEW s \in Tracked, ClaimOutside(t, s)
      PROVE  ProductsOf(t)'
  <2>1. /\ ClaimStage(t, s) /\ pc[t] = "post" /\ pc'[t] = "operating"
        /\ left' = left /\ has' = has
    BY <1>6, <1>a DEF ClaimOutside, AtStage
  <2> QED BY <2>1, <1>c, MarkedSkipsNothing, ProductsQuiet DEF Live
<1>7. ASSUME NEW s \in Tracked, Operate(t, s)
      PROVE  ProductsOf(t)'
  <2>1. /\ OperateOutside(t, s) /\ pc[t] = "operating" /\ pc'[t] = "operated"
        /\ left' = left /\ has' = has /\ AtOpenStage(t, s)
    BY <1>7, <1>a DEF Operate
  <2>2. \A x : AtOpenStage(t, x)' <=> AtOpenStage(t, x)
    BY <2>1 DEF AtOpenStage, IsFirst, RequestOrder, LedgerOrder, UpToGoals, AfterGoals,
       Shadows, First, Precedes
  <2>3. \A x : AtOpenStage(t, x) => x = s
    BY <2>1 DEF AtOpenStage, IsFirst
  <2>4. applied'[t][s] # 0
    <3>1. applied'[t][s] = applied[t][s] + 1 /\ applied[t][s] \in Nat
      BY <2>1, <1>a DEF OperateOutside
    <3> QED BY <3>1
  <2> QED BY <2>1, <2>2, <2>3, <2>4, <1>c, MarkedSkipsNothing, ProductsQuiet DEF Live
<1>8. ASSUME NEW s \in Tracked, CloseOutside(t, s)
      PROVE  ProductsOf(t)'
  <2>1. /\ CloseStage(t, s) /\ pc[t] = "operated" /\ pc'[t] = "post" /\ AtOpenStage(t, s)
        /\ left'[t] \subseteq left[t] /\ has' = has
    BY <1>8, <1>a DEF CloseOutside, PassStage
  <2>2. applied[t][s] # 0
    BY <2>1 DEF ProductsOf
  <2> QED BY <2>1, <2>2, <1>c, MarkedSkipsNothing, ProductsQuiet DEF Live
<1> QED BY <1>1, <1>2, <1>3, <1>4, <1>5, <1>6, <1>7, <1>8, <1>b
        DEF RequestStep, RequestAdvances, RequestFaults

(* A recovery, which has its device for itself.                               *)
LEMMA RecoveryProducts ==
  ASSUME TypeOK, LedgerInv, HandlerInv, \A u \in Turns : ProductsOf(u),
         NEW d \in Devices, InputsOf(d), RecoveryStep(d), UNCHANGED requestVars,
         \A u \in Turns : pc[u] \notin Live, NEW t \in Turns, t = subject[d]
  PROVE  (\A u \in Turns : ProductsOf(u)') /\ InputsOf(d)'
<1>a. /\ rpc \in [Devices -> RecoveryPc] /\ rows \in [Devices -> SUBSET Tracked]
      /\ subject \in [Devices -> Turns] /\ inputs \in [Devices -> SUBSET Products]
      /\ batch \in [Devices -> SUBSET Turns]
      /\ LedgerTypeOK /\ ProductsOf(t) /\ rows[d] \subseteq Automatic
      /\ stage[t] \in [Stages -> Row] /\ Tracked \subseteq Stages /\ RequestInv(t)
  BY StageKinds, TurnRecords DEF TypeOK, LedgerInv, HandlerInv, RecoveryInv
<1>b. /\ pc' = pc /\ left' = left /\ has' = has /\ left[t] = {} /\ pc[t] \notin Live
  BY <1>a DEF requestVars, ProductsOf
<1>c. UNCHANGED ledgerVars => \A u \in Turns : ProductsOf(u)'
  BY <1>b, ProductsUnmoved DEF ledgerVars
<1>d. ASSUME LedgerStep(t), ProductsOf(t)'
      PROVE  \A u \in Turns : ProductsOf(u)'
  BY <1>a, <1>b, <1>d, OtherTurns, OtherProducts, ProductsUnmoved
<1>e. ASSUME produced'[t] = produced[t], subject'[d] = t, inputs'[d] = inputs[d],
             rpc[d] \in {"snapshot", "resume", "unmarked"}
      PROVE  InputsOf(d)'
  BY <1>e DEF InputsOf
<1>f. rpc'[d] \notin {"snapshot", "resume", "unmarked"} => InputsOf(d)'
  BY DEF InputsOf
<1>g. ASSUME produced' = produced, found' = found, turn'[t].core = turn[t].core,
             MessagesPresent(t)' <=> MessagesPresent(t),
             \A x \in Tracked : Skipped(t, x)' => Skipped(t, x)
      PROVE  ProductsOf(t)'
  <2>1. (produced[t] # {} => turn[t].core) /\ pc[t] # "operated"
    BY <1>a, <1>b DEF ProductsOf, Live
  <2> QED BY <1>a, <1>b, <1>g, <2>1, ProductsQuiet
<1>1. CASE \/ ListTurns(d) \/ LeaveTurn(d) \/ FinishRecovery(d) \/ ListingFails(d)
           \/ ResumeAborts(d)
  <2>1. UNCHANGED ledgerVars /\ rpc'[d] \notin {"snapshot", "resume", "unmarked"}
    BY <1>1, <1>a DEF ListTurns, LeaveTurn, FinishRecovery, ListingFails, ResumeAborts
  <2> QED BY <2>1, <1>c, <1>f
<1>2. CASE TakeTurn(d)
  <2>1. UNCHANGED ledgerVars
    BY <1>2 DEF TakeTurn
  <2>2. PICK u \in batch[d] :
          /\ subject' = [subject EXCEPT ![d] = u]
          /\ inputs' = [inputs EXCEPT ![d] = found[u]]
          /\ rpc' = [rpc EXCEPT ![d] =
               IF MessagesPresent(u) THEN "snapshot" ELSE "terminalize"]
    BY <1>2 DEF TakeTurn
  <2>3. u \in Turns /\ subject'[d] = u /\ inputs'[d] = found[u]
        /\ rpc'[d] = IF MessagesPresent(u) THEN "snapshot" ELSE "terminalize"
    BY <2>2, <1>a
  <2>4. MessagesPresent(u) => produced[u] \cap Kept \subseteq found[u]
    BY <2>3 DEF ProductsOf
  <2>5. InputsOf(d)'
    BY <2>1, <2>3, <2>4 DEF InputsOf, ledgerVars
  <2> QED BY <2>1, <2>5, <1>c
<1>3. CASE ReadStages(d)
  <2>1. /\ UNCHANGED ledgerVars /\ subject' = subject /\ inputs' = inputs
        /\ rpc[d] = "snapshot"
    BY <1>3 DEF ReadStages
  <2> QED BY <2>1, <1>c, <1>e DEF ledgerVars
<1>4. CASE Terminalize(d)
  <2>1. /\ TerminalizeMissingInput(t) /\ rpc[d] = "terminalize" /\ rpc'[d] = "pick"
        /\ produced' = produced /\ found' = found
    BY <1>4, <1>a DEF Terminalize, TerminalizeMissingInput
  <2>2. /\ stage'[t] = [x \in Stages |->
             IF x \in Automatic /\ stage[t][x].status \notin {"absent", "completed"}
             THEN [status |-> "failed", attempts |-> MaxStageAttempts] ELSE stage[t][x]]
        /\ applied' = applied
    BY <2>1, <1>a DEF TerminalizeMissingInput, LedgerTypeOK
  <2>3. \A x \in Tracked : Skipped(t, x)' => Skipped(t, x)
    BY <2>2, <1>a DEF Skipped
  <2>4. /\ turn'[t].core = turn[t].core
        /\ turn'[t].user = turn[t].user /\ turn'[t].assistant = turn[t].assistant
    BY <2>1, TerminalizeWrites
  <2>5. MessagesPresent(t)' <=> MessagesPresent(t)
    BY <2>4 DEF MessagesPresent
  <2>6. ProductsOf(t)' /\ LedgerStep(t)
    BY <2>1, <2>3, <2>4, <2>5, <1>a, <1>g DEF LedgerStep
  <2> QED BY <2>1, <2>6, <1>d, <1>f
<1>5. ASSUME NEW s \in Tracked, ResumeStage(d, s) \/ ResumeStageUnacknowledged(d, s)
      PROVE  (\A u \in Turns : ProductsOf(u)') /\ InputsOf(d)'
  <2>1. /\ CommitStage(t, s, RecoveryRuns(d, s)) /\ rpc[d] = "resume" /\ AtRow(d, s)
        /\ subject' = subject /\ inputs' = inputs
    BY <1>5 DEF ResumeStage, ResumeStageUnacknowledged, MayResume
  <2>2. s \notin Products
    BY <2>1, <1>a DEF AtRow, IsFirst, Automatic, Products
  <2>3. /\ produced'[t] = produced[t] /\ found[t] \subseteq found'[t]
        /\ turn'[t].core
        /\ IF RecoveryRuns(d, s) THEN applied'[t][s] # 0 ELSE applied'[t] = applied[t]
    BY <2>1, <2>2, CommitProducts
  <2>4. /\ \A x \in Tracked \ {s} : stage'[t][x] = stage[t][x] /\ applied'[t][x] = applied[t][x]
        /\ turn'[t].user = turn[t].user /\ turn'[t].assistant = turn[t].assistant
    BY <2>1, <1>a, StageWrites DEF StageOperation
  <2>5. ASSUME Skipped(t, s)', Needs(s) \subseteq Kept
        PROVE  Lacks(t, s)'
    <3>1. ~RecoveryRuns(d, s) /\ Needs(s) # {} /\ s # "goal_fulfillment"
      BY <2>3, <2>5 DEF Skipped
    <3>2. ~(Needs(s) \subseteq inputs[d])
      BY <3>1 DEF RecoveryRuns, Needs, OnExperience
    <3>3. PICK p \in Needs(s) : p \notin inputs[d]
      BY <3>2
    <3>4. p \notin produced[t]
      BY <3>3, <2>1, <2>5 DEF InputsOf
    <3> QED BY <3>3, <3>4, <2>3, <1>b DEF Lacks
  <2>6. ASSUME NEW x \in Tracked, x # s, Skipped(t, x)', Needs(x) \subseteq Kept
        PROVE  Lacks(t, x)'
    <3>1. Skipped(t, x)
      BY <2>4, <2>6 DEF Skipped
    <3> QED BY <3>1, <2>3, <2>6, <1>a, <1>b DEF ProductsOf, Lacks
  <2>7. MessagesPresent(t)' => produced'[t] \cap Kept \subseteq found'[t]
    BY <2>3, <2>4, <1>a DEF MessagesPresent, ProductsOf
  <2>8. ProductsOf(t)'
    BY <2>3, <2>5, <2>6, <2>7, <1>a, <1>b DEF ProductsOf, Live
  <2>9. LedgerStep(t)
    BY <2>1 DEF LedgerStep
  <2> QED BY <2>1, <2>3, <2>8, <2>9, <1>d, <1>e
<1>6. ASSUME NEW s \in Tracked,
             PassOver(d, s) \/ ResumedStageRollsBack(d, s) \/ LoseResumeFailure(d, s)
      PROVE  (\A u \in Turns : ProductsOf(u)') /\ InputsOf(d)'
  <2>1. /\ UNCHANGED ledgerVars /\ subject' = subject /\ inputs' = inputs
        /\ rpc[d] \in {"resume", "unmarked"}
    BY <1>6 DEF PassOver, ResumedStageRollsBack, LoseResumeFailure, MayResume
  <2> QED BY <2>1, <1>c, <1>e DEF ledgerVars
<1>7. ASSUME NEW s \in Tracked, RecordResumeFailure(d, s)
      PROVE  (\A u \in Turns : ProductsOf(u)') /\ InputsOf(d)'
  <2>1. /\ MarkStageFailed(t, s, 1) /\ subject' = subject /\ inputs' = inputs
        /\ rpc[d] = "unmarked"
    BY <1>7 DEF RecordResumeFailure
  <2>2. ProductsOf(t)' /\ LedgerStep(t) /\ produced' = produced
    BY <2>1, <1>g, MarkedSkipsNothing DEF LedgerStep
  <2> QED BY <2>1, <2>2, <1>d, <1>e
<1> QED BY <1>1, <1>2, <1>3, <1>4, <1>5, <1>6, <1>7
        DEF RecoveryStep, RecoveryAdvances, RecoveryFaults

LEMMA ProductInvHolds ==
  ASSUME Alone, ~LostAcks, TypeOK, LedgerInv, HandlerInv, Exclusive, ProductInv, [Next]_vars
  PROVE  ProductInv'
<1>a. LedgerTypeOK /\ rpc \in [Devices -> RecoveryPc] /\ \A d, e \in Devices : d = e
  BY DEF LedgerInv, TypeOK, Alone
<1>b. ASSUME UNCHANGED requestVars, UNCHANGED ledgerVars, NEW t \in Turns
      PROVE  ProductsOf(t)'
  BY <1>b, ProductsUnmoved DEF requestVars, ledgerVars, ProductInv
<1>c. ASSUME NEW d \in Devices, rpc'[d] \notin {"snapshot", "resume", "unmarked"}
      PROVE  InputsOf(d)'
  BY <1>c DEF InputsOf
<1>1. CASE UNCHANGED vars
  <2>1. UNCHANGED requestVars /\ UNCHANGED ledgerVars /\ UNCHANGED recoveryVars
    BY <1>1 DEF vars
  <2>2. \A d \in Devices : InputsOf(d)'
    BY <2>1 DEF ProductInv, InputsOf, ledgerVars, recoveryVars
  <2> QED BY <2>1, <2>2, <1>b DEF ProductInv
<1>2. ASSUME NEW t \in Turns, RequestStep(t), UNCHANGED recoveryVars,
             \A d \in Devices : rpc[d] = "finished"
      PROVE  ProductInv'
  <2>1. ProductsOf(t)'
    BY <1>2, RequestProducts DEF ProductInv, HandlerInv
  <2>2. ASSUME NEW u \in Turns, u # t
        PROVE  ProductsOf(u)'
    <3>1. pc'[u] = pc[u] /\ left'[u] = left[u] /\ has'[u] = has[u]
      BY <1>2, <2>2, OtherHandlers
    <3>2. /\ turn'[u] = turn[u] /\ stage'[u] = stage[u] /\ applied'[u] = applied[u]
          /\ produced'[u] = produced[u] /\ found[u] \cap Kept \subseteq found'[u]
      <4>1. CASE UNCHANGED ledgerVars
        BY <4>1 DEF ledgerVars
      <4>2. CASE LedgerStep(t)
        BY <4>2, <1>a, <2>2, OtherTurns, OtherProducts
      <4> QED BY <1>2, <4>1, <4>2, RequestLedger
    <3> QED BY <3>1, <3>2, ProductsUnmoved DEF ProductInv
  <2>3. \A d \in Devices : InputsOf(d)'
    BY <1>2, <1>c DEF recoveryVars
  <2> QED BY <2>1, <2>2, <2>3 DEF ProductInv
<1>3. ASSUME NEW d \in Devices, RecoveryStep(d), UNCHANGED requestVars,
             \A t \in Turns : pc[t] \notin Live
      PROVE  ProductInv'
  <2>1. \E t \in Turns : t = subject[d]
    BY DEF TypeOK
  <2>2. (\A u \in Turns : ProductsOf(u)') /\ InputsOf(d)'
    BY <1>3, <2>1, RecoveryProducts DEF ProductInv
  <2>3. \A e \in Devices : e = d
    BY <1>a
  <2> QED BY <2>2, <2>3 DEF ProductInv
<1>4. ASSUME NEW t \in Turns, NEW who \in {"user", "assistant"}, DeleteMessage(t, who),
             UNCHANGED <<requestVars, recoveryVars>>, \A d \in Devices : rpc[d] = "finished"
      PROVE  ProductInv'
  <2>1. LedgerStep(t)
    BY <1>4 DEF LedgerStep
  <2>2. ASSUME NEW u \in Turns, u # t
        PROVE  ProductsOf(u)'
    BY <2>1, <2>2, <1>4, <1>a, OtherTurns, OtherProducts, ProductsUnmoved
       DEF ProductInv, requestVars
  <2>3. ProductsOf(t)'
    <3>1. /\ turn'[t].core = turn[t].core /\ ~turn'[t][who]
          /\ produced'[t] \subseteq produced[t] /\ stage' = stage /\ applied' = applied
      BY <1>4, <1>a DEF DeleteMessage, LedgerTypeOK, TurnRow
    <3>2. ~MessagesPresent(t)'
      BY <3>1 DEF MessagesPresent
    <3>3. \A s \in Tracked : Skipped(t, s)' => Skipped(t, s)
      BY <3>1 DEF Skipped
    <3>4. pc'[t] = pc[t] /\ left'[t] = left[t] /\ has'[t] = has[t]
      BY <1>4 DEF requestVars
    <3>5. \A s : AtOpenStage(t, s)' <=> AtOpenStage(t, s)
      BY <3>4 DEF AtOpenStage, IsFirst, RequestOrder, LedgerOrder, UpToGoals, AfterGoals,
         Shadows, First, Precedes
    <3>6. /\ produced'[t] # {} => turn'[t].core
          /\ pc'[t] \notin Live => left'[t] = {}
          /\ pc'[t] = "operated" => \A s \in Tracked : AtOpenStage(t, s)' => applied'[t][s] # 0
      BY <3>1, <3>4, <3>5 DEF ProductInv, ProductsOf
    <3> QED BY <3>1, <3>2, <3>3, <3>4, <3>6, ProductsQuiet DEF ProductInv
  <2>4. \A d \in Devices : InputsOf(d)'
    BY <1>4, <1>c DEF recoveryVars
  <2> QED BY <2>2, <2>3, <2>4 DEF ProductInv
<1>5. ASSUME NEW d \in Devices, Start(d) \/ Crash(d) \/ Close(d)
      PROVE  ProductInv'
  <2>1. /\ UNCHANGED ledgerVars
        /\ \A e \in Devices : rpc'[e] \notin {"snapshot", "resume", "unmarked"}
    BY <1>5, <1>a DEF Start, Crash, Close
  <2>2. ASSUME NEW t \in Turns PROVE ProductsOf(t)'
    <3>1. CASE UNCHANGED requestVars
      BY <3>1, <2>1, <1>b
    <3>2. CASE Crash(d)
      <4>1. \/ pc'[t] = "gone" /\ left'[t] = {}
            \/ pc'[t] = pc[t] /\ left'[t] = left[t] /\ has'[t] = has[t]
        BY <3>2 DEF Crash
      <4>2. CASE pc'[t] = "gone" /\ left'[t] = {}
        <5>1. /\ produced' = produced /\ found' = found /\ turn' = turn
              /\ \A s \in Tracked : Skipped(t, s)' => Skipped(t, s)
          BY <2>1 DEF ledgerVars, Skipped
        <5>2. MessagesPresent(t)' <=> MessagesPresent(t)
          BY <5>1 DEF MessagesPresent
        <5>3. produced'[t] # {} => turn'[t].core
          BY <5>1 DEF ProductInv, ProductsOf
        <5> QED BY <4>2, <5>1, <5>2, <5>3, ProductsQuiet DEF ProductInv
      <4>3. CASE pc'[t] = pc[t] /\ left'[t] = left[t] /\ has'[t] = has[t]
        BY <4>3, <2>1, ProductsUnmoved DEF ProductInv, ledgerVars
      <4> QED BY <4>1, <4>2, <4>3
    <3> QED BY <1>5, <3>1, <3>2 DEF Start, Close
  <2> QED BY <2>1, <2>2, <1>c DEF ProductInv
<1>6. CASE Next
  BY <1>6, <1>2, <1>3, <1>4, <1>5, LoneSteps
<1> QED BY <1>1, <1>6

LEMMA ProductInvariant ==
  ASSUME Alone, ~LostAcks
  PROVE  Spec => []ProductInv
<1>1. Init => ProductInv
  <2> SUFFICES ASSUME Init PROVE ProductInv
    OBVIOUS
  <2>1. ASSUME NEW t \in Turns PROVE ProductsOf(t)
    <3>1. /\ pc[t] = "idle" /\ left[t] = {} /\ has[t] = {} /\ produced[t] = {}
          /\ stage[t] = [s \in Stages |-> NoRow]
      BY DEF Init, LedgerInit
    <3>2. \A s \in Tracked : ~Skipped(t, s)
      BY <3>1, StageKinds DEF Skipped, NoRow
    <3> QED BY <3>1, <3>2 DEF ProductsOf, Live
  <2>2. \A d \in Devices : InputsOf(d)
    BY DEF Init, InputsOf
  <2> QED BY <2>1, <2>2 DEF ProductInv
<1>2. TypeOK /\ LedgerInv /\ HandlerInv /\ Exclusive /\ ProductInv /\ [Next]_vars => ProductInv'
  BY ProductInvHolds
<1> QED BY <1>1, <1>2, Types, LedgerInvariant, HandlerInvariant, ExclusiveInvariant, PTL DEF Spec

ExperienceWorkDone ==
  \A t \in Turns, s \in Tracked :
    Skipped(t, s) /\ Needs(s) = {"experience"} => "experience" \notin produced[t]

(* With any number of turns on one SHARED device, the stages that work on the *)
(* experience of a turn are not completed as no-ops when it was recorded, be  *)
(* it that the request goes on to them or that recovery comes back to them.   *)
THEOREM LoneExperience ==
  ASSUME Alone, ~LostAcks
  PROVE  Spec => []ExperienceWorkDone
<1>1. ProductInv => ExperienceWorkDone
  BY DEF ProductInv, ProductsOf, Lacks, Kept, ExperienceWorkDone
<1> QED BY <1>1, ProductInvariant, PTL

(* "Complete a stage whose durable prerequisite proves no work exists": with  *)
(* one turn, so that no other takes over its episode, and no decision stage,  *)
(* so that no older decision stands for its own, every no-op is right.        *)
THEOREM LoneWork ==
  ASSUME Alone, ~LostAcks, \A t, u \in Turns : t = u, "decision" \notin Tracked
  PROVE  Spec => []NoWorkSkipped
<1>1. Kept = Products
  BY DEF Kept, Products
<1>2. \A s : Needs(s) \subseteq Products
  BY DEF Needs, OnExperience, Products
<1>3. ProductInv => NoWorkSkipped
  BY <1>1, <1>2 DEF ProductInv, ProductsOf, Lacks, Skipped, NoWorkSkipped
<1> QED BY <1>3, ProductInvariant, PTL

=============================================================================
