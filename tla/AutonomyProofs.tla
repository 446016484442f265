--------------------------- MODULE AutonomyProofs ---------------------------
(* Proofs about AutonomyExecution, for every set of processes, turns and      *)
(* intention keys and every value of the limits.                              *)
EXTENDS AutonomyExecution, FiniteSetTheorems, TLAPS

-----------------------------------------------------------------------------
(* The turns the persona starts                                               *)

(* Every step is one of these transactions or leaves the ledger alone.        *)
TameStep(e) ==
  \/ \E s \in Boundary : ClaimStage(e, s) \/ CloseStage(e, s) \/ MarkStageFailed(e, s, 0)
  \/ MarkCoreFailed(e) \/ FailBeforeProvider(e) \/ DeleteMessage(e, "assistant")

ProactiveStep(e) == TameStep(e) \/ BeginProactiveTurn(e) \/ CompleteProactiveCore(e)

(* A proactive turn has its boundary stages and no others; with the core, all *)
(* are completed and the turn is complete.                                    *)
TurnStory(e) ==
  /\ turn[e].status \in {"none", "pending", "core_failed", "complete"}
  /\ turn[e].core <=> turn[e].status = "complete"
  /\ turn[e].core => \A s \in Boundary : stage[e][s].status = "completed"
  /\ \A s \in Tracked : stage[e][s].status = "absent"

LedgerInv == LedgerTypeOK /\ \A e \in Turns : TurnStory(e)

LEMMA StageKinds ==
  /\ Stages = Boundary \cup Tracked /\ Boundary \cap Tracked = {}
  /\ {"context_prepare", "provider_generate", "assistant_persist"} = Boundary
  BY TrackedAssumption DEF Stages, Boundary, PostStages, Automatic

LEMMA TouchedType ==
  ASSUME NEW t \in Turns, older \in SUBSET (Turns \X Turns)
  PROVE  Touched(t) \in SUBSET (Turns \X Turns)
  BY DEF Touched

LEMMA StatusType ==
  ASSUME NEW r \in Row, NEW st \in RowStatus
  PROVE  [r EXCEPT !.status = st] \in Row
  BY DEF Row

(* Rows that are completed, or absent, derive a complete turn.                *)
LEMMA DerivedComplete ==
  ASSUME NEW r, \A s \in Stages : r[s].status \in {"absent", "completed"}
  PROVE  Derived(r) = "complete"
  BY DEF Derived

LEMMA DerivedType ==
  ASSUME NEW r PROVE Derived(r) \in TurnStatus
  BY DEF Derived, TurnStatus

(* What a refresh does: to the stages, and to the turn when it has its core.  *)
LEMMA RefreshEffect ==
  ASSUME LedgerTypeOK, NEW t \in Turns, NEW r \in [Stages -> Row], WriteAndRefresh(t, r)
  PROVE  /\ turn' \in [Turns -> TurnRow] /\ stage' \in [Turns -> [Stages -> Row]]
         /\ older' \in SUBSET (Turns \X Turns)
         /\ stage' = [stage EXCEPT ![t] = r]
         /\ turn'[t].core = turn[t].core
         /\ turn[t].core => turn'[t].status = Derived(r)
         /\ ~turn[t].core => turn'[t].status = turn[t].status
         /\ \A u \in Turns \ {t} : turn'[u] = turn[u]
<1> DEFINE v == IF turn[t].core THEN Derived(r) ELSE turn[t].status
<1>1. turn' = [turn EXCEPT ![t].status = v] /\ stage' = [stage EXCEPT ![t] = r]
  BY DEF WriteAndRefresh
<1>2. v \in TurnStatus
  BY DerivedType DEF LedgerTypeOK, TurnRow
<1>3. (turn[t].core => v = Derived(r)) /\ (~turn[t].core => v = turn[t].status)
  OBVIOUS
<1>4. older' \in SUBSET (Turns \X Turns)
  BY TouchedType DEF WriteAndRefresh, LedgerTypeOK
<1> HIDE DEF v
<1>5. turn' \in [Turns -> TurnRow] /\ turn'[t].core = turn[t].core /\ turn'[t].status = v
  BY <1>1, <1>2 DEF LedgerTypeOK, TurnRow
<1> QED BY <1>1, <1>3, <1>4, <1>5 DEF LedgerTypeOK

(* A refresh after a boundary row that was not completed, or that stays so.   *)
LEMMA RefreshStory ==
  ASSUME LedgerInv, NEW t \in Turns, NEW r \in [Stages -> Row], WriteAndRefresh(t, r),
         UNCHANGED <<found, produced, applied>>,
         \A s \in Tracked : r[s] = stage[t][s],
         \A s \in Boundary : stage[t][s].status = "completed" => r[s].status = "completed"
  PROVE  /\ LedgerInv'
         /\ turn'[t].core = turn[t].core /\ turn'[t].status = turn[t].status
         /\ \A u \in Turns \ {t} : turn'[u] = turn[u]
<1>1. LedgerTypeOK /\ \A u \in Turns : TurnStory(u)
  BY DEF LedgerInv
<1>2. /\ turn' \in [Turns -> TurnRow] /\ stage' \in [Turns -> [Stages -> Row]]
      /\ older' \in SUBSET (Turns \X Turns)
      /\ stage' = [stage EXCEPT ![t] = r]
      /\ turn'[t].core = turn[t].core
      /\ turn[t].core => turn'[t].status = Derived(r)
      /\ ~turn[t].core => turn'[t].status = turn[t].status
      /\ \A u \in Turns \ {t} : turn'[u] = turn[u]
  BY <1>1, RefreshEffect
<1>3. LedgerTypeOK'
  BY <1>1, <1>2 DEF LedgerTypeOK
<1>4. stage'[t] = r /\ \A u \in Turns \ {t} : stage'[u] = stage[u]
  BY <1>1, <1>2 DEF LedgerTypeOK
<1>5. turn[t].core => \A s \in Stages : r[s].status \in {"absent", "completed"}
  BY <1>1, StageKinds DEF TurnStory
<1>6. turn'[t].status = turn[t].status
  <2>1. CASE turn[t].core
    BY <1>1, <1>2, <1>5, <2>1, DerivedComplete DEF TurnStory
  <2>2. CASE ~turn[t].core BY <1>2, <2>2
  <2> QED BY <2>1, <2>2
<1>7. TurnStory(t)'
  BY <1>1, <1>2, <1>4, <1>6 DEF TurnStory
<1>8. \A u \in Turns \ {t} : TurnStory(u)'
  BY <1>1, <1>2, <1>4 DEF TurnStory
<1> QED BY <1>2, <1>3, <1>6, <1>7, <1>8 DEF LedgerInv

(* A tame step leaves the other turns alone; its own turn at most fails, and  *)
(* only without its core.                                                     *)
LEMMA TameSteps ==
  ASSUME LedgerInv, NEW e \in Turns, TameStep(e)
  PROVE  /\ LedgerInv'
         /\ \A u \in Turns \ {e} : turn'[u] = turn[u]
         /\ turn'[e].core = turn[e].core
         /\ \/ turn'[e].status = turn[e].status
            \/ ~turn[e].core /\ turn'[e].status = "core_failed"
<1> DEFINE Goal ==
      /\ LedgerInv'
      /\ \A u \in Turns \ {e} : turn'[u] = turn[u]
      /\ turn'[e].core = turn[e].core
      /\ \/ turn'[e].status = turn[e].status
         \/ ~turn[e].core /\ turn'[e].status = "core_failed"
<1> SUFFICES Goal
  OBVIOUS
<1>0. /\ LedgerTypeOK /\ TurnStory(e) /\ \A u \in Turns : TurnStory(u)
      /\ turn[e] \in TurnRow /\ stage[e] \in [Stages -> Row]
  BY DEF LedgerInv, LedgerTypeOK
<1>1. ASSUME NEW s \in Boundary, ClaimStage(e, s) PROVE Goal
  <2> DEFINE row == [status |-> "running", attempts |-> stage[e][s].attempts + 1]
  <2>1. s \in Stages /\ stage[e][s] \in Row
    BY <1>0, StageKinds
  <2>2. row \in Row
    BY <2>1 DEF Row, RowStatus
  <2>3. /\ stage' = [stage EXCEPT ![e] = [stage[e] EXCEPT ![s] = row]]
        /\ UNCHANGED <<turn, older, found, produced, applied>>
        /\ stage[e][s].status # "completed"
    BY <1>1 DEF ClaimStage, MayClaim
  <2> HIDE DEF row
  <2>4. LedgerTypeOK'
    BY <1>0, <2>1, <2>2, <2>3 DEF LedgerTypeOK
  <2>5. ~turn[e].core
    BY <1>0, <2>3 DEF TurnStory
  <2>6. TurnStory(e)' /\ \A u \in Turns \ {e} : TurnStory(u)'
    BY <1>0, <2>1, <2>3, <2>5, StageKinds DEF TurnStory, LedgerTypeOK
  <2> QED BY <2>3, <2>4, <2>6 DEF LedgerInv
<1>2. ASSUME NEW s \in Boundary, CloseStage(e, s) PROVE Goal
  <2> DEFINE st == IF stage[e][s].status = "running" THEN "completed" ELSE stage[e][s].status
             row == [stage[e][s] EXCEPT !.status = st]
             r == [stage[e] EXCEPT ![s] = row]
  <2>1. s \in Stages /\ stage[e][s] \in Row
    BY <1>0, StageKinds
  <2>2. st \in RowStatus /\ (stage[e][s].status = "completed" => st = "completed")
    BY <2>1 DEF Row, RowStatus
  <2>3. WriteAndRefresh(e, r) /\ UNCHANGED <<found, produced, applied>>
    BY <1>2 DEF CloseStage
  <2> HIDE DEF st
  <2>4. row \in Row /\ row.status = st
    BY <2>1, <2>2, StatusType DEF Row
  <2> HIDE DEF row
  <2>5. /\ r \in [Stages -> Row]
        /\ \A x \in Tracked : r[x] = stage[e][x]
        /\ \A x \in Boundary : stage[e][x].status = "completed" => r[x].status = "completed"
    BY <1>0, <2>1, <2>2, <2>4, StageKinds
  <2> HIDE DEF r
  <2> QED BY <2>3, <2>5, RefreshStory
<1>3. ASSUME NEW s \in Boundary, MarkStageFailed(e, s, 0) PROVE Goal
  <2> DEFINE row == IF stage[e][s].status \in {"pending", "running", "failed"}
                    THEN [status |-> "failed", attempts |-> stage[e][s].attempts + 0]
                    ELSE stage[e][s]
             r == [stage[e] EXCEPT ![s] = row]
  <2>1. s \in Stages /\ stage[e][s] \in Row
    BY <1>0, StageKinds
  <2>2. row \in Row /\ (stage[e][s].status = "completed" => row.status = "completed")
    BY <2>1 DEF Row, RowStatus
  <2>3. WriteAndRefresh(e, r) /\ UNCHANGED <<found, produced, applied>>
    BY <1>3 DEF MarkStageFailed
  <2> HIDE DEF row
  <2>5. /\ r \in [Stages -> Row]
        /\ \A x \in Tracked : r[x] = stage[e][x]
        /\ \A x \in Boundary : stage[e][x].status = "completed" => r[x].status = "completed"
    BY <1>0, <2>1, <2>2, StageKinds
  <2> HIDE DEF r
  <2> QED BY <2>3, <2>5, RefreshStory
<1>4. ASSUME stage' \in [Turns -> [Stages -> Row]],
             \A u \in Turns \ {e} : stage'[u] = stage[u],
             \A x \in Stages : stage[e][x].status \in {"absent", "completed"}
                                 => stage'[e][x].status = stage[e][x].status,
             UNCHANGED <<found, produced, applied>>,
             \/ UNCHANGED <<turn, older>>
             \/ ~turn[e].core /\ turn' = [turn EXCEPT ![e].status = "core_failed"]
                  /\ older' = Touched(e)
      PROVE  Goal
  <2>1. CASE UNCHANGED <<turn, older>>
    <3>1. LedgerTypeOK' BY <1>0, <1>4, <2>1 DEF LedgerTypeOK
    <3>2. \A u \in Turns \ {e} : TurnStory(u)'
      BY <1>0, <1>4, <2>1 DEF TurnStory
    <3>3. TurnStory(e)'
      BY <1>0, <1>4, <2>1, StageKinds DEF TurnStory
    <3> QED BY <2>1, <3>1, <3>2, <3>3 DEF LedgerInv
  <2>2. CASE ~turn[e].core /\ turn' = [turn EXCEPT ![e].status = "core_failed"]
               /\ older' = Touched(e)
    <3>1. /\ turn' \in [Turns -> TurnRow] /\ turn'[e].core = turn[e].core
          /\ turn'[e].status = "core_failed" /\ \A u \in Turns \ {e} : turn'[u] = turn[u]
      BY <1>0, <2>2 DEF LedgerTypeOK, TurnRow, TurnStatus
    <3>2. LedgerTypeOK'
      BY <1>0, <1>4, <2>2, <3>1, TouchedType DEF LedgerTypeOK
    <3>3. \A u \in Turns \ {e} : TurnStory(u)'
      BY <1>0, <1>4, <3>1 DEF TurnStory
    <3>4. TurnStory(e)'
      BY <1>0, <1>4, <2>2, <3>1, StageKinds DEF TurnStory
    <3> QED BY <2>2, <3>1, <3>2, <3>3, <3>4 DEF LedgerInv
  <2> QED BY <1>4, <2>1, <2>2
<1>5. CASE MarkCoreFailed(e)
  <2>1. /\ UNCHANGED <<stage, found, produced, applied>>
        /\ \/ UNCHANGED <<turn, older>>
           \/ ~turn[e].core /\ turn' = [turn EXCEPT ![e].status = "core_failed"]
                /\ older' = Touched(e)
    BY <1>5, Zenon DEF MarkCoreFailed
  <2> HIDE DEF Goal
  <2> QED BY <1>0, <1>4, <2>1 DEF LedgerTypeOK
<1>6. CASE FailBeforeProvider(e)
  <2> DEFINE row(x) == IF stage[e][x].status \in {"pending", "running"}
                       THEN [stage[e][x] EXCEPT !.status = "failed"] ELSE stage[e][x]
             r == [x \in Stages |-> row(x)]
  <2>1. /\ UNCHANGED <<found, produced, applied>> /\ stage' = [stage EXCEPT ![e] = r]
        /\ \/ UNCHANGED <<turn, older>>
           \/ ~turn[e].core /\ turn' = [turn EXCEPT ![e].status = "core_failed"]
                /\ older' = Touched(e)
    BY <1>6, Zenon DEF FailBeforeProvider
  <2>2. \A x \in Stages : row(x) \in Row
    BY <1>0, StatusType DEF RowStatus
  <2>3. \A x \in Stages : stage[e][x].status \in {"absent", "completed"} => row(x) = stage[e][x]
    OBVIOUS
  <2> HIDE DEF row
  <2>4. r \in [Stages -> Row] /\ \A x \in Stages : r[x] = row(x)
    BY <2>2
  <2> HIDE DEF r, Goal
  <2>5. /\ stage' \in [Turns -> [Stages -> Row]] /\ stage'[e] = r
        /\ \A u \in Turns \ {e} : stage'[u] = stage[u]
    BY <1>0, <2>1, <2>4 DEF LedgerTypeOK
  <2>6. \A x \in Stages : stage[e][x].status \in {"absent", "completed"}
                            => stage'[e][x].status = stage[e][x].status
    BY <2>3, <2>4, <2>5
  <2> QED BY <1>4, <2>1, <2>5, <2>6
<1>7. CASE DeleteMessage(e, "assistant")
  <2>1. /\ turn' = [turn EXCEPT ![e] = [turn[e] EXCEPT !["assistant"] = FALSE]]
        /\ found' = [found EXCEPT ![e] = found[e] \ {"experience", "episode"}]
        /\ produced' = [produced EXCEPT ![e] = produced[e] \ {"experience"}]
        /\ UNCHANGED <<stage, older, applied>>
    BY <1>7 DEF DeleteMessage
  <2>2. /\ turn' \in [Turns -> TurnRow]
        /\ turn'[e].core = turn[e].core /\ turn'[e].status = turn[e].status
        /\ \A u \in Turns \ {e} : turn'[u] = turn[u]
    BY <1>0, <2>1 DEF LedgerTypeOK, TurnRow
  <2>3. LedgerTypeOK'
    BY <1>0, <2>1, <2>2 DEF LedgerTypeOK
  <2>4. \A u \in Turns : TurnStory(u)'
    BY <1>0, <2>1, <2>2 DEF TurnStory
  <2> QED BY <2>2, <2>3, <2>4 DEF LedgerInv
<1> HIDE DEF Goal
<1> QED BY <1>1, <1>2, <1>3, <1>5, <1>6, <1>7 DEF TameStep

LEMMA TurnBegins ==
  ASSUME LedgerInv, NEW e \in Turns, BeginProactiveTurn(e)
  PROVE  /\ LedgerInv'
         /\ \A u \in Turns \ {e} : turn'[u] = turn[u]
         /\ turn'[e].status = "pending" /\ ~turn'[e].core
<1>0. LedgerTypeOK /\ \A u \in Turns : TurnStory(u)
  BY DEF LedgerInv
<1> DEFINE fresh == [status |-> "pending", core |-> FALSE, user |-> FALSE, assistant |-> FALSE]
           r == [s \in Stages |-> IF s \in Boundary THEN FreshRow ELSE NoRow]
<1>1. /\ turn' = [turn EXCEPT ![e] = fresh] /\ stage' = [stage EXCEPT ![e] = r]
      /\ older' = Touched(e) /\ UNCHANGED <<found, produced, applied>>
  BY DEF BeginProactiveTurn
<1>2. fresh \in TurnRow /\ fresh.status = "pending" /\ ~fresh.core
  BY DEF TurnRow, TurnStatus
<1>3. r \in [Stages -> Row] /\ \A s \in Tracked : r[s].status = "absent"
  BY StageKinds DEF Row, RowStatus, FreshRow, NoRow
<1> HIDE DEF fresh, r
<1>4. LedgerTypeOK'
  BY <1>0, <1>1, <1>2, <1>3, TouchedType DEF LedgerTypeOK
<1>5. turn'[e] = fresh /\ stage'[e] = r
  BY <1>0, <1>1 DEF LedgerTypeOK
<1>6. \A u \in Turns \ {e} : turn'[u] = turn[u] /\ stage'[u] = stage[u]
  BY <1>0, <1>1 DEF LedgerTypeOK
<1>7. TurnStory(e)' /\ \A u \in Turns \ {e} : TurnStory(u)'
  BY <1>0, <1>2, <1>3, <1>5, <1>6 DEF TurnStory
<1> QED BY <1>2, <1>4, <1>5, <1>6, <1>7 DEF LedgerInv

LEMMA CoreCompletes ==
  ASSUME LedgerInv, NEW e \in Turns, CompleteProactiveCore(e)
  PROVE  /\ LedgerInv'
         /\ \A u \in Turns \ {e} : turn'[u] = turn[u]
         /\ ~turn[e].core /\ turn'[e].status = "complete" /\ turn'[e].core
<1>0. LedgerTypeOK /\ \A u \in Turns : TurnStory(u)
  BY DEF LedgerInv
<1> DEFINE row == [status |-> "completed", attempts |-> stage[e]["assistant_persist"].attempts + 1]
           kept == [stage[e] EXCEPT !["assistant_persist"] = row]
           done == [turn[e] EXCEPT !.status = Derived(kept), !.core = TRUE, !.assistant = TRUE]
<1>1. /\ ProactiveBoundaryHeld(e)
      /\ stage' = [stage EXCEPT ![e] = kept] /\ turn' = [turn EXCEPT ![e] = done]
      /\ older' = Touched(e) /\ UNCHANGED <<found, produced, applied>>
  BY DEF CompleteProactiveCore
<1>2. row \in Row /\ row.status = "completed" /\ "assistant_persist" \in Stages
  BY <1>0, StageKinds DEF Row, RowStatus, LedgerTypeOK
<1> HIDE DEF row
<1>3. /\ kept \in [Stages -> Row] /\ kept["assistant_persist"] = row
      /\ \A s \in Stages \ {"assistant_persist"} : kept[s] = stage[e][s]
  BY <1>0, <1>2 DEF LedgerTypeOK
<1> HIDE DEF kept
<1>4. \A s \in Boundary : kept[s].status = "completed"
  BY <1>1, <1>2, <1>3, StageKinds DEF ProactiveBoundaryHeld
<1>5. \A s \in Tracked : kept[s].status = "absent"
  BY <1>0, <1>3, StageKinds DEF TurnStory
<1>6. Derived(kept) = "complete"
  BY <1>4, <1>5, DerivedComplete, StageKinds
<1>7. done \in TurnRow /\ done.status = "complete" /\ done.core
  BY <1>0, <1>6 DEF TurnRow, TurnStatus, LedgerTypeOK
<1> HIDE DEF done
<1>8. LedgerTypeOK'
  BY <1>0, <1>1, <1>3, <1>7, TouchedType DEF LedgerTypeOK
<1>9. /\ turn'[e] = done /\ stage'[e] = kept
      /\ \A u \in Turns \ {e} : turn'[u] = turn[u] /\ stage'[u] = stage[u]
  BY <1>0, <1>1 DEF LedgerTypeOK
<1>10. TurnStory(e)' /\ \A u \in Turns \ {e} : TurnStory(u)'
  BY <1>0, <1>4, <1>5, <1>7, <1>9 DEF TurnStory
<1> QED BY <1>1, <1>7, <1>8, <1>9, <1>10 DEF LedgerInv, ProactiveBoundaryHeld
(* A deletion changes neither the status of the turn nor its core mark.       *)
LEMMA DeletionKeeps ==
  ASSUME LedgerInv, NEW e \in Turns, DeleteMessage(e, "assistant")
  PROVE  turn'[e].status = turn[e].status /\ turn'[e].core = turn[e].core
<1>1. turn' = [turn EXCEPT ![e] = [turn[e] EXCEPT !["assistant"] = FALSE]] /\ turn[e] \in TurnRow
  BY DEF DeleteMessage, LedgerInv, LedgerTypeOK
<1> QED BY <1>1 DEF TurnRow, LedgerInv, LedgerTypeOK

-----------------------------------------------------------------------------
(* The inductive invariant                                                    *)

WorldTypeOK ==
  /\ exec \in [Turns -> [status : ExecStatus, key : Keys, anchor : Nat]]
  /\ users \in Nat
  /\ said \in [Turns -> Nat]
  /\ called \in [Turns -> {"none", "open", "failed"}]

ProcTypeOK ==
  /\ pc \in [Processes -> ProcessPc]
  /\ intent \in [Processes -> [key : Keys, anchor : Nat]]
  /\ job \in [Processes -> [turn : Turns \cup {None}, stage : Boundary, why : Reasons]]
  /\ listed \in [Processes -> [Turns -> Recoverable \cup {"none"}]]
  /\ verdict \in [Processes -> {"none", "COMPLETE", "FAILED_SAFE", "INDETERMINATE"}]

CountersOK == faults \in Nat /\ crashes \in Nat /\ deletions \in Nat

(* What an execution, its turn and its history say of each other.             *)
ExecStory(e) ==
  /\ Status(e) = "none" <=> turn[e].status = "none"
  /\ Status(e) # "none" => users > 0
  /\ said[e] > 0 <=> turn[e].core
  /\ turn[e].core => Status(e) \in {"MESSAGE_PERSISTED", "COMPLETE", "INDETERMINATE"}
  /\ Status(e) \in {"MESSAGE_PERSISTED", "COMPLETE"} => turn[e].core
  /\ Status(e) = "FAILED_SAFE" => turn[e].status = "core_failed"
  /\ called[e] # "none" => Status(e) \notin {"none", "RESERVED"}
  /\ called[e] = "open" => Status(e) # "FAILED_SAFE"

(* The partial unique index.                                                  *)
IndexHolds ==
  \A e, f \in Turns :
    /\ Status(e) \in Blocking /\ Status(f) \in Blocking
    /\ exec[e].key = exec[f].key /\ exec[e].anchor = exec[f].anchor
    => e = f

InExecution(p) == pc[p] \in Running \cup Failing \cup {"finalizing"}
BeforeProvider(p) ==
  pc[p] \in {"claim", "guarding", "starting"} \/ At(p) = "context_prepare"

(* What a process knows of the turn it works on; no other process takes it    *)
(* back.                                                                      *)
JobStory(p) ==
  /\ pc[p] \in {"evaluated", "cleared"} => users > 0
  /\ InExecution(p) \/ pc[p] = "settling" => Mine(p) \in Turns /\ Status(Mine(p)) # "none"
  /\ pc[p] = "settling" =>
       verdict[p] # "none" /\ (verdict[p] = "COMPLETE" => turn[Mine(p)].core)
  /\ \A e \in Turns : listed[p][e] # "none" => Status(e) # "none"
  /\ pc[p] = "safing" =>
       FreesKey(p) /\ turn[Mine(p)].status \in {"core_failed", "complete"}
  /\ pc[p] \in {"guarding", "starting", "calling"} => At(p) # "context_prepare"
  /\ pc[p] = "calling" => called[Mine(p)] = "open"
  /\ InExecution(p) /\ BeforeProvider(p) => called[Mine(p)] = "none"
  /\ pc[p] \in Failing /\ FreesKey(p) => called[Mine(p)] # "open"

(* No two processes execute one turn.                                         *)
OwnTurns ==
  \A p, q \in Processes : InExecution(p) /\ InExecution(q) /\ Mine(p) = Mine(q) => p = q

WorldInv ==
  LedgerInv /\ WorldTypeOK /\ (\A e \in Turns : ExecStory(e)) /\ IndexHolds

AutonomyInv ==
  WorldInv /\ ProcTypeOK /\ CountersOK /\ (\A p \in Processes : JobStory(p)) /\ OwnTurns

-----------------------------------------------------------------------------
(* The database                                                               *)

(* What other processes rely on: nothing they have seen is taken back.        *)
Grows ==
  /\ users > 0 => users' > 0
  /\ \A e \in Turns :
       /\ Status(e) # "none" => exec'[e].status # "none"
       /\ turn[e].core => turn'[e].core
       /\ turn[e].status \in {"core_failed", "complete"}
            => turn'[e].status \in {"core_failed", "complete"}

WorldKept == WorldInv' /\ Grows

LEMMA WorldQuiet ==
  ASSUME WorldInv, UNCHANGED <<ledgerVars, worldVars>>
  PROVE  WorldKept
<1>1. UNCHANGED <<turn, stage, older, found, produced, applied, exec, users, said, called>>
  BY DEF ledgerVars, worldVars
<1>2. LedgerInv'
  BY <1>1 DEF WorldInv, LedgerInv, LedgerTypeOK, TurnStory
<1>3. WorldTypeOK' /\ IndexHolds' /\ \A e \in Turns : ExecStory(e)'
  BY <1>1 DEF WorldInv, WorldTypeOK, IndexHolds, ExecStory, Status
<1>4. Grows
  BY <1>1 DEF Grows, Status
<1> QED BY <1>2, <1>3, <1>4 DEF WorldInv, WorldKept

(* A step that touches one turn and its execution, and lets no row enter the  *)
(* index.                                                                     *)
LEMMA OneExecution ==
  ASSUME WorldInv, NEW e \in Turns, LedgerInv', WorldTypeOK', ExecStory(e)',
         users' = users,
         \A u \in Turns \ {e} : /\ turn'[u] = turn[u] /\ exec'[u] = exec[u]
                                /\ said'[u] = said[u] /\ called'[u] = called[u],
         exec'[e].key = exec[e].key, exec'[e].anchor = exec[e].anchor,
         exec'[e].status \in Blocking => Status(e) \in Blocking,
         Status(e) # "none" => exec'[e].status # "none",
         turn[e].core => turn'[e].core,
         turn[e].status \in {"core_failed", "complete"}
           => turn'[e].status \in {"core_failed", "complete"}
  PROVE  WorldKept
<1>1. \A u \in Turns : ExecStory(u)'
  BY DEF WorldInv, ExecStory, Status
<1>2. IndexHolds'
  BY DEF WorldInv, IndexHolds, Status
<1>3. Grows
  BY DEF WorldInv, ExecStory, Grows, Status
<1> QED BY <1>1, <1>2, <1>3 DEF WorldInv, WorldKept

LEMMA WorldTame ==
  ASSUME WorldInv, NEW e \in Turns, Status(e) # "none", TameStep(e), UNCHANGED worldVars
  PROVE  WorldKept
<1>1. /\ LedgerInv' /\ \A u \in Turns \ {e} : turn'[u] = turn[u]
      /\ turn'[e].core = turn[e].core
      /\ \/ turn'[e].status = turn[e].status
         \/ ~turn[e].core /\ turn'[e].status = "core_failed"
  BY TameSteps DEF WorldInv
<1>2. UNCHANGED <<exec, users, said, called>>
  BY DEF worldVars
<1>3. WorldTypeOK'
  BY <1>2 DEF WorldInv, WorldTypeOK
<1>4. ExecStory(e)'
  BY <1>1, <1>2 DEF WorldInv, ExecStory, Status
<1> QED BY <1>1, <1>2, <1>3, <1>4, OneExecution DEF Status

LEMMA WorldDelete ==
  ASSUME WorldInv, NEW e \in Turns, DeleteMessage(e, "assistant"), UNCHANGED worldVars
  PROVE  WorldKept
<1>1. LedgerInv' /\ \A u \in Turns \ {e} : turn'[u] = turn[u]
  BY TameSteps DEF WorldInv, TameStep
<1>2. turn'[e].status = turn[e].status /\ turn'[e].core = turn[e].core
  BY DeletionKeeps DEF WorldInv
<1>3. UNCHANGED <<exec, users, said, called>>
  BY DEF worldVars
<1>4. WorldTypeOK'
  BY <1>3 DEF WorldInv, WorldTypeOK
<1>5. ExecStory(e)'
  BY <1>2, <1>3 DEF WorldInv, ExecStory, Status
<1> QED BY <1>1, <1>2, <1>3, <1>4, <1>5, OneExecution DEF Status

(* What a status update does.                                                 *)
LEMMA StatusSet ==
  ASSUME WorldTypeOK, NEW e \in Turns, NEW s \in ExecStatus, SetStatus(e, s)
  PROVE  /\ exec' \in [Turns -> [status : ExecStatus, key : Keys, anchor : Nat]]
         /\ exec'[e].status = s /\ exec'[e].key = exec[e].key
         /\ exec'[e].anchor = exec[e].anchor
         /\ \A u \in Turns \ {e} : exec'[u] = exec[u]
<1>1. exec' = [exec EXCEPT ![e].status = s]
  BY DEF SetStatus
<1> QED BY <1>1 DEF WorldTypeOK

(* A status update over an unchanged ledger.                                  *)
LEMMA WorldStatus ==
  ASSUME WorldInv, NEW e \in Turns, NEW s \in ExecStatus \ {"none"}, SetStatus(e, s),
         UNCHANGED <<ledgerVars, users, said>>,
         NEW c \in {"none", "open", "failed"}, called' = [called EXCEPT ![e] = c],
         Status(e) \in Recoverable,
         s \in {"RESERVED", "PROVIDER_STARTED"} => ~turn[e].core,
         s \in {"MESSAGE_PERSISTED", "COMPLETE"} => turn[e].core,
         s = "FAILED_SAFE" => turn[e].status = "core_failed" /\ c # "open",
         s = "RESERVED" => c = "none"
  PROVE  WorldKept
<1>0. WorldTypeOK /\ LedgerInv /\ ExecStory(e)
  BY DEF WorldInv
<1>1. /\ exec' \in [Turns -> [status : ExecStatus, key : Keys, anchor : Nat]]
      /\ exec'[e].status = s /\ exec'[e].key = exec[e].key
      /\ exec'[e].anchor = exec[e].anchor
      /\ \A u \in Turns \ {e} : exec'[u] = exec[u]
  BY <1>0, StatusSet
<1>2. UNCHANGED <<turn, stage, older, found, produced, applied, users, said>>
  BY DEF ledgerVars
<1>3. LedgerInv'
  BY <1>0, <1>2 DEF LedgerInv, LedgerTypeOK, TurnStory
<1>4. /\ called' \in [Turns -> {"none", "open", "failed"}] /\ called'[e] = c
      /\ \A u \in Turns \ {e} : called'[u] = called[u]
  BY <1>0 DEF WorldTypeOK
<1>5. WorldTypeOK'
  BY <1>0, <1>1, <1>2, <1>4 DEF WorldTypeOK
<1>6. Status(e) \in {"RESERVED", "PROVIDER_STARTED", "MESSAGE_PERSISTED"}
  BY DEF Recoverable
<1>7. turn[e].status = "core_failed" => ~turn[e].core
  BY <1>0 DEF LedgerInv, TurnStory
<1>8. /\ s \in {"RESERVED", "PROVIDER_STARTED", "MESSAGE_PERSISTED", "COMPLETE",
                "INDETERMINATE", "FAILED_SAFE"}
      /\ s # "none"
  BY DEF ExecStatus, Blocking, Recoverable
<1>9. ExecStory(e)'
  BY <1>0, <1>1, <1>2, <1>4, <1>6, <1>7, <1>8 DEF ExecStory, Status
<1>10. Status(e) \in Blocking
  BY DEF Blocking
<1> QED BY <1>1, <1>2, <1>3, <1>4, <1>5, <1>8, <1>9, <1>10, OneExecution

LEMMA WorldCalled ==
  ASSUME WorldInv, NEW e \in Turns, called[e] = "open", UNCHANGED <<ledgerVars, exec, users, said>>,
         called' \in [Turns -> {"none", "open", "failed"}], called'[e] = "failed",
         \A u \in Turns \ {e} : called'[u] = called[u]
  PROVE  WorldKept
<1>1. UNCHANGED <<turn, stage, older, found, produced, applied, exec, users, said>>
  BY DEF ledgerVars
<1>2. LedgerInv'
  BY <1>1 DEF WorldInv, LedgerInv, LedgerTypeOK, TurnStory
<1>3. WorldTypeOK' /\ ExecStory(e)'
  BY <1>1 DEF WorldInv, WorldTypeOK, ExecStory, Status
<1> QED BY <1>1, <1>2, <1>3, OneExecution DEF Status

LEMMA WorldReserves ==
  ASSUME WorldInv, NEW e \in Turns, NEW i \in [key : Keys, anchor : Nat], Free(e, i),
         exec' = [exec EXCEPT ![e] =
           [status |-> "RESERVED", key |-> i.key, anchor |-> i.anchor]],
         BeginProactiveTurn(e), UNCHANGED <<users, said, called>>, users > 0
  PROVE  WorldKept
<1> DEFINE row == [status |-> "RESERVED", key |-> i.key, anchor |-> i.anchor]
<1>0. WorldTypeOK /\ LedgerInv /\ ExecStory(e) /\ Status(e) = "none" /\ ~Blocked(i)
  BY DEF WorldInv, Free
<1>1. /\ LedgerInv' /\ turn'[e].status = "pending" /\ ~turn'[e].core
      /\ \A u \in Turns \ {e} : turn'[u] = turn[u]
  BY <1>0, TurnBegins
<1>2. row \in [status : ExecStatus, key : Keys, anchor : Nat]
  BY DEF ExecStatus, Blocking, Recoverable
<1>3. row.status = "RESERVED" /\ row.key = i.key /\ row.anchor = i.anchor
  OBVIOUS
<1>4. exec' = [exec EXCEPT ![e] = row]
  OBVIOUS
<1> HIDE DEF row
<1>5. exec'[e] = row /\ \A u \in Turns \ {e} : exec'[u] = exec[u]
  BY <1>0, <1>4 DEF WorldTypeOK
<1>6. WorldTypeOK'
  BY <1>0, <1>2, <1>4 DEF WorldTypeOK
<1>7. ~turn[e].core /\ said[e] = 0 /\ called[e] = "none"
  BY <1>0 DEF ExecStory, LedgerInv, TurnStory, WorldTypeOK
<1>8. ExecStory(e)'
  BY <1>0, <1>1, <1>3, <1>5, <1>7 DEF ExecStory, Status
<1>9. \A u \in Turns : ExecStory(u)'
  BY <1>1, <1>5, <1>8 DEF WorldInv, ExecStory, Status
<1>10. \A u \in Turns : ~(Status(u) \in Blocking /\ exec[u].key = i.key /\ exec[u].anchor = i.anchor)
  BY <1>0 DEF Blocked
<1>11. IndexHolds'
  BY <1>3, <1>5, <1>10 DEF WorldInv, IndexHolds, Status
<1>12. Grows
  BY <1>0, <1>1, <1>3, <1>5, <1>7 DEF Grows, Status, ExecStory
<1> QED BY <1>1, <1>6, <1>9, <1>11, <1>12 DEF WorldInv, WorldKept

LEMMA WorldPersists ==
  ASSUME WorldInv, NEW e \in Turns, Status(e) = "PROVIDER_STARTED",
         CompleteProactiveCore(e), SetStatus(e, "MESSAGE_PERSISTED"),
         said' = [said EXCEPT ![e] = users], UNCHANGED <<users, called>>
  PROVE  WorldKept
<1>0. WorldTypeOK /\ LedgerInv /\ ExecStory(e)
  BY DEF WorldInv
<1>1. /\ LedgerInv' /\ turn'[e].status = "complete" /\ turn'[e].core
      /\ \A u \in Turns \ {e} : turn'[u] = turn[u]
  BY <1>0, CoreCompletes
<1>2. "MESSAGE_PERSISTED" \in ExecStatus
  BY DEF ExecStatus, Blocking, Recoverable
<1>3. /\ exec' \in [Turns -> [status : ExecStatus, key : Keys, anchor : Nat]]
      /\ exec'[e].status = "MESSAGE_PERSISTED" /\ exec'[e].key = exec[e].key
      /\ exec'[e].anchor = exec[e].anchor
      /\ \A u \in Turns \ {e} : exec'[u] = exec[u]
  BY <1>0, <1>2, StatusSet
<1>4. /\ said' \in [Turns -> Nat] /\ said'[e] = users
      /\ \A u \in Turns \ {e} : said'[u] = said[u]
  BY <1>0 DEF WorldTypeOK
<1>5. WorldTypeOK'
  BY <1>0, <1>3, <1>4 DEF WorldTypeOK
<1>6. users > 0
  BY <1>0 DEF ExecStory
<1>7. ExecStory(e)'
  BY <1>0, <1>1, <1>3, <1>4, <1>6 DEF ExecStory, Status
<1>8. Status(e) \in Blocking
  BY DEF Blocking, Recoverable
<1> QED BY <1>1, <1>3, <1>4, <1>5, <1>7, <1>8, OneExecution

LEMMA WorldHears ==
  ASSUME WorldInv, users' = users + 1, UNCHANGED <<ledgerVars, exec, said, called>>
  PROVE  WorldKept
<1>1. UNCHANGED <<turn, stage, older, found, produced, applied, exec, said, called>>
  BY DEF ledgerVars
<1>2. users' \in Nat /\ users' > 0
  BY DEF WorldInv, WorldTypeOK
<1>3. LedgerInv'
  BY <1>1 DEF WorldInv, LedgerInv, LedgerTypeOK, TurnStory
<1>4. WorldTypeOK' /\ IndexHolds' /\ \A e \in Turns : ExecStory(e)'
  BY <1>1, <1>2 DEF WorldInv, WorldTypeOK, IndexHolds, ExecStory, Status
<1>5. Grows
  BY <1>1, <1>2 DEF Grows, Status
<1> QED BY <1>3, <1>4, <1>5 DEF WorldInv, WorldKept

(* Recovery gives a reservation up: the turn fails with it.                   *)
LEMMA WorldGivesUp ==
  ASSUME WorldInv, NEW e \in Turns, Status(e) # "none", FailBeforeProvider(e),
         IF Status(e) = "RESERVED" THEN SetStatus(e, "FAILED_SAFE") ELSE exec' = exec,
         UNCHANGED <<users, said, called>>
  PROVE  WorldKept
<1>0. WorldTypeOK /\ LedgerInv /\ ExecStory(e) /\ TurnStory(e)
  BY DEF WorldInv, LedgerInv
<1>1. CASE Status(e) # "RESERVED"
  BY <1>1, WorldTame DEF TameStep, worldVars
<1>2. CASE Status(e) = "RESERVED"
  <2>1. /\ LedgerInv' /\ \A u \in Turns \ {e} : turn'[u] = turn[u]
        /\ turn'[e].core = turn[e].core
        /\ \/ turn'[e].status = turn[e].status
           \/ ~turn[e].core /\ turn'[e].status = "core_failed"
    BY <1>0, TameSteps DEF TameStep
  <2>2. ~turn[e].core /\ turn[e].status \in {"pending", "core_failed"}
    BY <1>0, <1>2 DEF ExecStory, TurnStory
  <2>3. turn'[e].status = "core_failed"
    <3>1. CASE turn[e].status = "pending"
      <4>1. turn' = [turn EXCEPT ![e].status = "core_failed"]
        BY <2>2, <3>1 DEF FailBeforeProvider
      <4> QED BY <1>0, <4>1 DEF LedgerInv, LedgerTypeOK, TurnRow
    <3> QED BY <2>1, <2>2, <3>1
  <2>4. "FAILED_SAFE" \in ExecStatus
    BY DEF ExecStatus
  <2>5. /\ exec' \in [Turns -> [status : ExecStatus, key : Keys, anchor : Nat]]
        /\ exec'[e].status = "FAILED_SAFE" /\ exec'[e].key = exec[e].key
        /\ exec'[e].anchor = exec[e].anchor
        /\ \A u \in Turns \ {e} : exec'[u] = exec[u]
    BY <1>0, <1>2, <2>4, StatusSet
  <2>6. WorldTypeOK'
    BY <1>0, <2>5 DEF WorldTypeOK
  <2>7. ExecStory(e)'
    BY <1>0, <1>2, <2>1, <2>3, <2>5 DEF ExecStory, Status
  <2>8. "FAILED_SAFE" \notin Blocking
    BY DEF Blocking, Recoverable
  <2> QED BY <2>1, <2>2, <2>3, <2>5, <2>6, <2>7, <2>8, OneExecution
<1> QED BY <1>1, <1>2

-----------------------------------------------------------------------------
(* The processes                                                              *)

OthersStay(p) ==
  \A q \in Processes \ {p} :
    pc'[q] = pc[q] /\ job'[q] = job[q] /\ listed'[q] = listed[q] /\ verdict'[q] = verdict[q]

(* Only the turn that p executes has its provider called.                     *)
CallsOwn(p) ==
  \A e \in Turns : called'[e] # called[e] => InExecution(p) /\ e = Mine(p)

(* FreesKey of a job with this stage and this reason.                         *)
Frees(s, why) ==
  why = "gate" \/ s = "context_prepare"
    \/ (s = "provider_generate" /\ why \in {"confirmed", "invalid"})

LEMMA Places ==
  /\ Running \cup Failing \cup {"finalizing"} \subseteq ProcessPc
  /\ Idle \cup Recovering \cup {"evaluated", "cleared"} \subseteq ProcessPc
  /\ Running = {"claim", "guarding", "starting", "calling", "closing", "persisting"}
  /\ Failing = {"stagefail", "corefail", "safing"}
  /\ Idle = {"down", "stopped", "waiting"} /\ Recovering = {"listing", "recovering", "settling"}
  BY DEF Running, Failing, Idle, Recovering, ProcessPc

LEMMA Counters ==
  ASSUME CountersOK, NoFault \/ Fault \/ \E ack \in BOOLEAN : Acknowledged(ack),
         Elsewhere \/ Interrupted
  PROVE  CountersOK'
<1>1. faults' = faults \/ faults' = faults + 1
  BY DEF NoFault, Fault, Acknowledged
<1>2. crashes' = crashes \/ crashes' = crashes + 1
  BY DEF Elsewhere, Interrupted
<1>3. deletions' = deletions
  BY DEF Elsewhere, Interrupted
<1> QED BY <1>1, <1>2, <1>3 DEF CountersOK

LEMMA Proceeds ==
  ASSUME ProcTypeOK, NEW p \in Processes, NEW place \in ProcessPc, NEW s \in Boundary,
         NEW why \in Reasons, Proceed(p, place, s, why)
  PROVE  /\ ProcTypeOK' /\ OthersStay(p)
         /\ pc'[p] = place /\ listed' = listed /\ verdict' = verdict
         /\ job'[p].turn = Mine(p) /\ job'[p].stage = s /\ job'[p].why = why
<1> DEFINE new == [turn |-> Mine(p), stage |-> s, why |-> why]
<1>1. /\ pc' = [pc EXCEPT ![p] = place] /\ UNCHANGED <<intent, listed, verdict>>
      /\ job' = [job EXCEPT ![p] = new]
  BY DEF Proceed, Goto, ProcTypeOK, Mine
<1>2. /\ new \in [turn : Turns \cup {None}, stage : Boundary, why : Reasons]
      /\ new.turn = Mine(p) /\ new.stage = s /\ new.why = why
  BY DEF ProcTypeOK, Mine
<1> HIDE DEF new
<1> QED BY <1>1, <1>2 DEF ProcTypeOK, OthersStay

LEMMA Leaves ==
  ASSUME ProcTypeOK, NEW p \in Processes, NEW place \in ProcessPc, Leave(p, place)
  PROVE  /\ ProcTypeOK' /\ OthersStay(p)
         /\ pc'[p] = place /\ listed'[p] = NothingListed
<1>1. /\ pc' = [pc EXCEPT ![p] = place] /\ intent' = [intent EXCEPT ![p] = NoIntent]
      /\ job' = [job EXCEPT ![p] = NoJob] /\ listed' = [listed EXCEPT ![p] = NothingListed]
      /\ verdict' = [verdict EXCEPT ![p] = "none"]
  BY DEF Leave, Goto
<1>2. NoIntent \in [key : Keys, anchor : Nat]
  BY KeysAssumption DEF NoIntent, AnyKey
<1>3. NoJob \in [turn : Turns \cup {None}, stage : Boundary, why : Reasons]
  BY DEF NoJob, Boundary, Reasons
<1>4. NothingListed \in [Turns -> Recoverable \cup {"none"}]
  BY DEF NothingListed
<1> QED BY <1>1, <1>2, <1>3, <1>4 DEF ProcTypeOK, OthersStay

(* What a process knows survives the steps of others.                         *)
LEMMA StoryKept ==
  ASSUME NEW q \in Processes, JobStory(q), Grows,
         pc'[q] = pc[q], job'[q] = job[q], listed'[q] = listed[q], verdict'[q] = verdict[q],
         InExecution(q) => called'[Mine(q)] = called[Mine(q)]
  PROVE  JobStory(q)'
<1>1. pc[q] \in {"evaluated", "cleared"} => users' > 0
  BY DEF Grows, JobStory
<1>2. InExecution(q) \/ pc[q] = "settling" =>
        Mine(q) \in Turns /\ exec'[Mine(q)].status # "none"
  BY DEF Grows, JobStory
<1>3. pc[q] = "settling" =>
        verdict[q] # "none" /\ (verdict[q] = "COMPLETE" => turn'[Mine(q)].core)
  BY DEF Grows, JobStory
<1>4. \A e \in Turns : listed[q][e] # "none" => exec'[e].status # "none"
  BY DEF Grows, JobStory
<1>5. pc[q] = "safing" =>
        FreesKey(q) /\ turn'[Mine(q)].status \in {"core_failed", "complete"}
  BY <1>2 DEF Grows, JobStory, InExecution, Failing
<1>6. InExecution(q) /\ BeforeProvider(q) => called'[Mine(q)] = "none"
  BY DEF JobStory
<1>7. pc[q] \in Failing /\ FreesKey(q) => called'[Mine(q)] # "open"
  BY DEF JobStory, InExecution
<1>8. /\ pc[q] \in {"guarding", "starting", "calling"} => At(q) # "context_prepare"
      /\ pc[q] = "calling" => called'[Mine(q)] = "open"
  BY Places DEF JobStory, InExecution
<1> QED BY <1>1, <1>2, <1>3, <1>4, <1>5, <1>6, <1>7, <1>8
     DEF JobStory, InExecution, BeforeProvider, FreesKey, Mine, At, Status

(* A step of p that keeps its own story keeps those of the others.            *)
LEMMA ProcessStep ==
  ASSUME AutonomyInv, NEW p \in Processes, WorldKept, ProcTypeOK', CountersOK',
         OthersStay(p), CallsOwn(p), JobStory(p)',
         InExecution(p)' => \/ InExecution(p) /\ job'[p].turn = Mine(p)
                            \/ \A q \in Processes : InExecution(q) => job'[p].turn # Mine(q)
  PROVE  AutonomyInv'
<1>1. /\ WorldInv' /\ Grows /\ OwnTurns
      /\ \A q \in Processes : JobStory(q)
  BY DEF AutonomyInv, WorldKept
<1>2. ASSUME NEW q \in Processes \ {p} PROVE JobStory(q)'
  <2>1. /\ pc'[q] = pc[q] /\ job'[q] = job[q] /\ listed'[q] = listed[q]
        /\ verdict'[q] = verdict[q]
    BY <1>2 DEF OthersStay
  <2>2. InExecution(q) => called'[Mine(q)] = called[Mine(q)]
    BY <1>1 DEF CallsOwn, OwnTurns, JobStory
  <2> QED BY <1>1, <2>1, <2>2, StoryKept
<1>3. OwnTurns'
  BY <1>1 DEF OwnTurns, InExecution, Mine, OthersStay
<1> QED BY <1>1, <1>2, <1>3 DEF AutonomyInv

(* A step of p that only moves p.                                             *)
LEMMA Wanders ==
  ASSUME AutonomyInv, NEW p \in Processes, UNCHANGED <<ledgerVars, worldVars>>, CountersOK'
  PROVE  WorldKept /\ CallsOwn(p)
<1>1. WorldKept
  BY WorldQuiet DEF AutonomyInv
<1>2. CallsOwn(p)
  BY DEF CallsOwn, worldVars
<1> QED BY <1>1, <1>2

(* The execution goes on in another place.                                    *)
LEMMA Continues ==
  ASSUME AutonomyInv, NEW p \in Processes, InExecution(p), WorldKept, CountersOK', CallsOwn(p),
         NEW place \in Running \cup Failing \cup {"finalizing"}, NEW s \in Boundary,
         NEW why \in Reasons, Proceed(p, place, s, why),
         place = "safing" => Frees(s, why)
           /\ turn'[Mine(p)].status \in {"core_failed", "complete"},
         place \in {"guarding", "starting", "calling"} => s # "context_prepare",
         place = "calling" => called'[Mine(p)] = "open",
         place \in {"claim", "guarding", "starting"} \/ s = "context_prepare"
           => called'[Mine(p)] = "none",
         place \in Failing /\ Frees(s, why) => called'[Mine(p)] # "open"
  PROVE  AutonomyInv'
<1>1. Grows /\ JobStory(p) /\ ProcTypeOK
  BY DEF AutonomyInv, WorldKept
<1>2. place \in ProcessPc /\ place \notin {"settling", "evaluated", "cleared"}
  BY Places
<1>3. /\ ProcTypeOK' /\ OthersStay(p)
      /\ pc'[p] = place /\ listed' = listed /\ verdict' = verdict
      /\ job'[p].turn = Mine(p) /\ job'[p].stage = s /\ job'[p].why = why
  BY <1>1, <1>2, Proceeds
<1>4. Mine(p) \in Turns /\ exec'[Mine(p)].status # "none"
  BY <1>1 DEF JobStory, Grows
<1>5. \A e \in Turns : listed[p][e] # "none" => exec'[e].status # "none"
  BY <1>1 DEF JobStory, Grows
<1>6. JobStory(p)'
  BY <1>2, <1>3, <1>4, <1>5
     DEF JobStory, InExecution, BeforeProvider, FreesKey, Frees, Mine, At, Status
<1>7. InExecution(p)' => InExecution(p) /\ job'[p].turn = Mine(p)
  BY <1>3
<1> QED BY <1>3, <1>6, <1>7, ProcessStep

(* The process is done with it.                                               *)
LEMMA Ends ==
  ASSUME AutonomyInv, NEW p \in Processes, WorldKept, CountersOK', CallsOwn(p),
         NEW place \in Idle, Leave(p, place)
  PROVE  AutonomyInv'
<1>1. place \in ProcessPc /\ place \notin Running \cup Failing \cup {"finalizing"}
      /\ place \notin {"evaluated", "cleared", "settling"} \cup Failing
      /\ place \notin {"safing", "guarding", "starting", "calling"}
  BY Places
<1>2. /\ ProcTypeOK' /\ OthersStay(p) /\ pc'[p] = place /\ listed'[p] = NothingListed
  BY <1>1, Leaves DEF AutonomyInv
<1>3. ~InExecution(p)'
  BY <1>1, <1>2 DEF InExecution
<1>4. JobStory(p)'
  BY <1>1, <1>2, <1>3 DEF JobStory, NothingListed
<1> QED BY <1>2, <1>3, <1>4, ProcessStep

(* It moves between cycles, or within its recovery.                           *)
LEMMA Elsewhen ==
  ASSUME AutonomyInv, NEW p \in Processes, UNCHANGED <<ledgerVars, worldVars>>, CountersOK',
         ProcTypeOK',
         NEW place \in ProcessPc \ (Running \cup Failing \cup {"finalizing", "settling"}),
         Goto(p, place), place \in {"evaluated", "cleared"} => users > 0,
         \A q \in Processes \ {p} :
           job'[q] = job[q] /\ listed'[q] = listed[q] /\ verdict'[q] = verdict[q],
         \A e \in Turns : listed'[p][e] # "none" => Status(e) # "none"
  PROVE  AutonomyInv'
<1>1. WorldKept /\ CallsOwn(p)
  BY Wanders
<1>2. pc'[p] = place /\ OthersStay(p)
  BY DEF Goto, OthersStay, AutonomyInv, ProcTypeOK
<1>3. ~InExecution(p)' /\ place \notin Failing \cup {"settling"}
      /\ place \notin {"safing", "guarding", "starting", "calling"}
  BY <1>2, Places DEF InExecution
<1>4. UNCHANGED <<exec, users>>
  BY DEF worldVars
<1>5. JobStory(p)'
  BY <1>2, <1>3, <1>4 DEF JobStory, Status
<1> QED BY <1>1, <1>2, <1>3, <1>5, ProcessStep

-----------------------------------------------------------------------------
(* The actions                                                                *)

LEMMA CycleKeeps ==
  ASSUME AutonomyInv, NEW p \in Processes, Cycles(p) \/ Abandon(p)
  PROVE  AutonomyInv'
<1>0. /\ WorldInv /\ WorldTypeOK /\ ProcTypeOK /\ CountersOK /\ JobStory(p)
      /\ \A q \in Processes : JobStory(q)
  BY DEF AutonomyInv, WorldInv
<1>1. ASSUME NEW k \in Keys, Evaluate(p, k) PROVE AutonomyInv'
  <2> DEFINE i == [key |-> k, anchor |-> users]
  <2>1. /\ users > 0 /\ intent' = [intent EXCEPT ![p] = i] /\ Goto(p, "evaluated")
        /\ UNCHANGED <<ledgerVars, worldVars, job, listed, verdict>> /\ NoFault /\ Elsewhere
    BY <1>1 DEF Evaluate
  <2>2. i \in [key : Keys, anchor : Nat]
    BY <1>0 DEF WorldTypeOK
  <2> HIDE DEF i
  <2>3. ProcTypeOK'
    BY <1>0, <2>1, <2>2, Places DEF ProcTypeOK, Goto
  <2>4. CountersOK'
    BY <1>0, <2>1, Counters
  <2>5. "evaluated" \in ProcessPc \ (Running \cup Failing \cup {"finalizing", "settling"})
    BY Places
  <2> QED BY <1>0, <2>1, <2>3, <2>4, <2>5, Elsewhen DEF JobStory
<1>2. CASE PassGuard(p)
  <2>1. /\ pc[p] = "evaluated" /\ Goto(p, "cleared")
        /\ UNCHANGED <<ledgerVars, worldVars, intent, job, listed, verdict>>
        /\ NoFault /\ Elsewhere
    BY <1>2 DEF PassGuard
  <2>2. ProcTypeOK'
    BY <1>0, <2>1, Places DEF ProcTypeOK, Goto
  <2>3. CountersOK'
    BY <1>0, <2>1, Counters
  <2>4. "cleared" \in ProcessPc \ (Running \cup Failing \cup {"finalizing", "settling"})
    BY Places
  <2> QED BY <1>0, <2>1, <2>2, <2>3, <2>4, Elsewhen DEF JobStory
<1>3. ASSUME NEW e \in Turns, NEW ack \in BOOLEAN, Reserve(p, e, ack) PROVE AutonomyInv'
  <2>1. /\ pc[p] = "cleared" /\ Free(e, intent[p]) /\ BeginProactiveTurn(e)
        /\ exec' = [exec EXCEPT ![e] = [status |-> "RESERVED", key |-> intent[p].key,
                                         anchor |-> intent[p].anchor]]
        /\ Acknowledged(ack) /\ Elsewhere /\ UNCHANGED <<users, said, called>>
    BY <1>3 DEF Reserve
  <2>2. intent[p] \in [key : Keys, anchor : Nat] /\ users > 0
    BY <1>0, <2>1 DEF ProcTypeOK, JobStory
  <2>3. WorldKept
    BY <1>0, <2>1, <2>2, WorldReserves
  <2>4. CountersOK'
    BY <1>0, <2>1, Counters
  <2>5. CallsOwn(p)
    BY <2>1 DEF CallsOwn
  <2>6. CASE ack
    <3>1. Goto(p, "claim") /\ job' = [job EXCEPT ![p].turn = e] /\ UNCHANGED <<intent, listed, verdict>>
      BY <1>3, <2>6 DEF Reserve
    <3>2. ProcTypeOK'
      BY <1>0, <3>1, Places DEF ProcTypeOK, Goto
    <3>3. pc'[p] = "claim" /\ job'[p].turn = e /\ OthersStay(p)
      BY <1>0, <3>1 DEF ProcTypeOK, Goto, OthersStay
    <3>4. exec'[e].status = "RESERVED" /\ Status(e) = "none" /\ called[e] = "none"
      BY <1>0, <2>1 DEF Free, WorldTypeOK, WorldInv, ExecStory
    <3>5. \A q \in Processes : InExecution(q) => Mine(q) # e
      BY <1>0, <3>4 DEF JobStory
    <3>6. \A x \in Turns : listed'[p][x] # "none" => exec'[x].status # "none"
      BY <1>0, <2>3, <3>1 DEF JobStory, WorldKept, Grows
    <3>7. JobStory(p)'
      BY <2>1, <3>3, <3>4, <3>6, Places DEF JobStory, Mine, Status
    <3> QED BY <2>3, <2>4, <2>5, <3>2, <3>3, <3>5, <3>7, ProcessStep
  <2>7. CASE ~ack
    <3>1. Leave(p, "waiting") /\ "waiting" \in Idle
      BY <1>3, <2>7, Places DEF Reserve
    <3> QED BY <2>3, <2>4, <2>5, <3>1, Ends
  <2> QED BY <2>6, <2>7
<1>4. CASE Abandon(p)
  <2>1. /\ Leave(p, "waiting") /\ UNCHANGED <<ledgerVars, worldVars>> /\ NoFault /\ Elsewhere
        /\ "waiting" \in Idle
    BY <1>4, Places DEF Abandon
  <2>2. CountersOK'
    BY <1>0, <2>1, Counters
  <2> QED BY <2>1, <2>2, Wanders, Ends
<1> QED BY <1>1, <1>2, <1>3, <1>4 DEF Cycles

LEMMA FailKeeps ==
  ASSUME AutonomyInv, NEW p \in Processes, Fails(p) \/ Crash(p) \/ Cancel(p)
  PROVE  AutonomyInv'
<1>0. ProcTypeOK /\ CountersOK /\ JobStory(p)
  BY DEF AutonomyInv
<1>1. ASSUME NEW place \in Idle, Leave(p, place), UNCHANGED <<ledgerVars, worldVars>>,
             NoFault \/ Fault, Elsewhere \/ Interrupted
      PROVE  AutonomyInv'
  <2>1. CountersOK'
    BY <1>0, <1>1, Counters
  <2> QED BY <1>1, <2>1, Wanders, Ends
<1>2. ASSUME InExecution(p), UNCHANGED <<ledgerVars, worldVars>>,
             NoFault \/ Fault, Elsewhere \/ Interrupted,
             NEW place \in {"stagefail", "corefail"}, NEW why \in Reasons,
             Proceed(p, place, At(p), why),
             Frees(At(p), why) =>
               At(p) = "context_prepare" \/ (pc[p] \in Failing /\ FreesKey(p))
      PROVE  AutonomyInv'
  <2>1. CountersOK' /\ WorldKept /\ CallsOwn(p)
    BY <1>0, <1>2, Counters, Wanders
  <2>2. At(p) \in Boundary
    BY <1>0 DEF ProcTypeOK, At
  <2>3. called' = called
    BY <1>2 DEF worldVars
  <2>4. At(p) = "context_prepare" => called[Mine(p)] = "none"
    BY <1>0, <1>2 DEF JobStory, BeforeProvider
  <2>5. /\ place \in Running \cup Failing \cup {"finalizing"}
        /\ place \notin {"safing", "claim", "guarding", "starting", "calling"}
    BY Places
  <2>6. Frees(At(p), why) => called[Mine(p)] # "open"
    BY <1>0, <1>2, <2>4 DEF JobStory
  <2> HIDE DEF At
  <2> QED BY <1>2, <2>1, <2>2, <2>3, <2>4, <2>5, <2>6, Continues
<1>3. ASSUME NEW why \in {"other", "cancelled"}
      PROVE  why \in Reasons /\ (Frees(At(p), why) => At(p) = "context_prepare")
  BY DEF Reasons, Frees
<1>4. CASE StageRaises(p)
  <2>1. InExecution(p) /\ Proceed(p, "stagefail", At(p), "other") /\ Fault /\ Elsewhere
        /\ UNCHANGED <<ledgerVars, worldVars>>
    BY <1>4, Places DEF StageRaises, InExecution
  <2> HIDE DEF At
  <2> QED BY <1>2, <1>3, <2>1
<1>5. CASE Cancel(p)
  <2>1. InExecution(p) /\ Proceed(p, "stagefail", At(p), "cancelled") /\ NoFault /\ Interrupted
        /\ UNCHANGED <<ledgerVars, worldVars>>
    BY <1>5 DEF Cancel, InExecution
  <2> QED BY <1>2, <1>3, <2>1
<1>6. CASE LoseStage(p)
  <2>1. /\ pc[p] = "stagefail" /\ AfterStageFailure(p, Replaced(job[p].why))
        /\ Fault /\ Elsewhere /\ UNCHANGED <<ledgerVars, worldVars>>
    BY <1>6 DEF LoseStage
  <2>2. InExecution(p) /\ pc[p] \in Failing
    BY <2>1, Places DEF InExecution
  <2>3. Replaced(job[p].why) \in Reasons
    BY <1>0 DEF ProcTypeOK, Replaced, Reasons
  <2>4. Frees(At(p), Replaced(job[p].why)) => At(p) = "context_prepare" \/ FreesKey(p)
    BY DEF Frees, FreesKey, Replaced
  <2>5. CASE Replaced(job[p].why) = "cancelled"
    BY <1>1, <2>1, <2>5, Places DEF AfterStageFailure
  <2>6. CASE Replaced(job[p].why) # "cancelled"
    <3>1. Proceed(p, "corefail", At(p), Replaced(job[p].why))
      BY <2>1, <2>6 DEF AfterStageFailure
    <3> QED BY <1>2, <2>1, <2>2, <2>3, <2>4, <3>1
  <2> QED BY <2>5, <2>6
<1>7. CASE FinalizeFails(p) \/ LoseCore(p) \/ LoseFailSafe(p)
  BY <1>1, <1>7, Places DEF FinalizeFails, LoseCore, LoseFailSafe
<1>8. CASE RecoveryFails(p)
  BY <1>1, <1>8, Places DEF RecoveryFails
<1>9. CASE Crash(p)
  BY <1>1, <1>9, Places DEF Crash
<1> QED BY <1>4, <1>5, <1>6, <1>7, <1>8, <1>9 DEF Fails

LEMMA ProviderKeeps ==
  ASSUME AutonomyInv, NEW p \in Processes, NEW ack \in BOOLEAN,
         GuardAgain(p) \/ GuardRefuses(p) \/ StartProvider(p, ack) \/ StartRefused(p)
           \/ ProviderReplies(p) \/ ProviderFails(p)
  PROVE  AutonomyInv'
<1>0. /\ ProcTypeOK /\ CountersOK /\ JobStory(p) /\ WorldInv /\ WorldTypeOK
      /\ At(p) \in Boundary
  BY DEF AutonomyInv, WorldInv, ProcTypeOK, At
<1>1. \A why \in {"none", "other"} :
        why \in Reasons /\ (Frees(At(p), why) => At(p) = "context_prepare")
  BY DEF Reasons, Frees
<1>2. ASSUME InExecution(p), UNCHANGED <<ledgerVars, worldVars>>, NoFault, Elsewhere,
             NEW place \in {"starting", "closing", "persisting", "stagefail", "corefail"},
             NEW why \in {"none", "other", "gate"}, Proceed(p, place, At(p), why),
             place = "starting" \/ why = "gate" => BeforeProvider(p),
             place = "starting" => At(p) # "context_prepare"
      PROVE  AutonomyInv'
  <2>1. CountersOK' /\ WorldKept /\ CallsOwn(p)
    BY <1>0, <1>2, Counters, Wanders
  <2>2. called' = called /\ why \in Reasons
    BY <1>2 DEF worldVars, Reasons
  <2>3. BeforeProvider(p) => called[Mine(p)] = "none"
    BY <1>0, <1>2 DEF JobStory
  <2>4. At(p) = "context_prepare" => called[Mine(p)] = "none"
    BY <2>3 DEF BeforeProvider
  <2>5. /\ place \in Running \cup Failing \cup {"finalizing"}
        /\ place \notin {"safing", "claim", "guarding", "calling"}
    BY Places
  <2>6. Frees(At(p), why) => called[Mine(p)] # "open"
    BY <1>1, <1>2, <2>3, <2>4
  <2> HIDE DEF At
  <2> QED BY <1>0, <1>2, <2>1, <2>2, <2>3, <2>4, <2>5, <2>6, Continues
<1>3. CASE GuardAgain(p) \/ GuardRefuses(p)
  <2>1. InExecution(p) /\ BeforeProvider(p) /\ At(p) # "context_prepare"
    BY <1>0, <1>3, Places DEF GuardAgain, GuardRefuses, InExecution, BeforeProvider, JobStory
  <2> QED BY <1>2, <1>3, <2>1 DEF GuardAgain, GuardRefuses
<1>4. CASE StartRefused(p)
  <2>1. InExecution(p)
    BY <1>4, Places DEF StartRefused, InExecution
  <2> QED BY <1>2, <1>4, <2>1 DEF StartRefused
<1>5. CASE ProviderReplies(p)
  <2>1. InExecution(p)
    BY <1>5, Places DEF ProviderReplies, InExecution
  <2> QED BY <1>2, <1>5, <2>1 DEF ProviderReplies
<1>6. CASE StartProvider(p, ack)
  <2>1. /\ pc[p] = "starting" /\ Status(Mine(p)) = "RESERVED"
        /\ SetStatus(Mine(p), "PROVIDER_STARTED")
        /\ Acknowledged(ack) /\ Elsewhere /\ UNCHANGED <<ledgerVars, users, said>>
    BY <1>6 DEF StartProvider
  <2>2. InExecution(p) /\ BeforeProvider(p) /\ Mine(p) \in Turns /\ At(p) # "context_prepare"
    BY <1>0, <2>1, Places DEF InExecution, BeforeProvider, JobStory
  <2>3. called[Mine(p)] = "none" /\ ~turn[Mine(p)].core
    BY <1>0, <2>1, <2>2 DEF JobStory, WorldInv, ExecStory
  <2> DEFINE c == IF ack THEN "open" ELSE "none"
             place == IF ack THEN "calling" ELSE "stagefail"
             why == IF ack THEN "none" ELSE "other"
  <2>4. /\ called' = [called EXCEPT ![Mine(p)] = c] /\ c \in {"none", "open", "failed"}
        /\ Proceed(p, place, At(p), why)
    BY <1>0, <1>6, <2>2, <2>3 DEF StartProvider, WorldTypeOK
  <2>5. /\ why \in {"none", "other"} /\ place \in {"calling", "stagefail"}
        /\ (place = "stagefail" => c = "none") /\ (place = "calling" => c = "open")
    OBVIOUS
  <2> HIDE DEF c, place, why
  <2>6. "PROVIDER_STARTED" \in ExecStatus \ {"none"} /\ Status(Mine(p)) \in Recoverable
    BY <2>1 DEF ExecStatus, Blocking, Recoverable
  <2>7. WorldKept
    BY <1>0, <2>1, <2>2, <2>3, <2>4, <2>6, WorldStatus
  <2>8. CountersOK' /\ CallsOwn(p) /\ called'[Mine(p)] = c
    BY <1>0, <2>1, <2>2, <2>4, Counters DEF CallsOwn, WorldTypeOK
  <2>9. /\ place \in Running \cup Failing \cup {"finalizing"} /\ why \in Reasons
        /\ place \notin {"safing", "claim", "guarding", "starting"}
        /\ (place \in Failing => c = "none")
    BY <2>5, Places DEF Reasons
  <2> HIDE DEF At
  <2> QED BY <1>0, <2>2, <2>4, <2>5, <2>7, <2>8, <2>9, Continues
<1>7. CASE ProviderFails(p)
  <2>1. /\ pc[p] = "calling" /\ called' = [called EXCEPT ![Mine(p)] = "failed"]
        /\ NoFault /\ Elsewhere /\ UNCHANGED <<ledgerVars, exec, users, said>>
    BY <1>7 DEF ProviderFails
  <2>2. PICK why \in {"confirmed", "invalid"} : Proceed(p, "stagefail", At(p), why)
    BY <1>7 DEF ProviderFails
  <2>3. InExecution(p) /\ At(p) # "context_prepare" /\ called[Mine(p)] = "open"
    BY <1>0, <2>1, Places DEF InExecution, JobStory
  <2>4. Mine(p) \in Turns
    BY <1>0, <2>3 DEF JobStory
  <2>5. /\ called' \in [Turns -> {"none", "open", "failed"}] /\ called'[Mine(p)] = "failed"
        /\ \A u \in Turns \ {Mine(p)} : called'[u] = called[u]
    BY <1>0, <2>1, <2>4 DEF WorldTypeOK
  <2>6. WorldKept
    BY <1>0, <2>1, <2>3, <2>4, <2>5, WorldCalled
  <2>7. CountersOK' /\ CallsOwn(p)
    BY <1>0, <2>1, <2>3, <2>5, Counters DEF CallsOwn
  <2>8. "stagefail" \in Running \cup Failing \cup {"finalizing"} /\ why \in Reasons
    BY Places DEF Reasons
  <2> HIDE DEF At
  <2> QED BY <1>0, <2>2, <2>3, <2>5, <2>6, <2>7, <2>8, Continues
<1> QED BY <1>3, <1>4, <1>5, <1>6, <1>7

LEMMA WorkKeeps ==
  ASSUME AutonomyInv, NEW p \in Processes, NEW ack \in BOOLEAN,
         Claim(p, ack) \/ CloseWork(p, ack) \/ Persist(p, ack) \/ PersistRefused(p)
           \/ Finalize(p)
  PROVE  AutonomyInv'
<1>0. /\ ProcTypeOK /\ CountersOK /\ JobStory(p) /\ WorldInv /\ WorldTypeOK
      /\ At(p) \in Boundary
      /\ InExecution(p) => Mine(p) \in Turns /\ Status(Mine(p)) # "none"
  BY DEF AutonomyInv, WorldInv, ProcTypeOK, At, JobStory
<1>1. {"none", "other"} \subseteq Reasons /\ (Frees(At(p), "other") => At(p) = "context_prepare")
  BY DEF Reasons, Frees
<1>2. ASSUME InExecution(p), WorldKept, called' = called, CountersOK',
             NEW place \in {"closing", "guarding", "persisting", "finalizing", "stagefail"},
             NEW why \in {"none", "other"}, Proceed(p, place, At(p), why),
             place = "guarding" => BeforeProvider(p) /\ At(p) # "context_prepare"
      PROVE  AutonomyInv'
  <2>1. CallsOwn(p)
    BY <1>2 DEF CallsOwn
  <2>2. BeforeProvider(p) => called[Mine(p)] = "none"
    BY <1>0, <1>2 DEF JobStory
  <2>3. At(p) = "context_prepare" => called[Mine(p)] = "none"
    BY <2>2 DEF BeforeProvider
  <2>4. /\ place \in Running \cup Failing \cup {"finalizing"} /\ why \in Reasons
        /\ place \notin {"safing", "claim", "starting", "calling"}
        /\ (Frees(At(p), why) => At(p) = "context_prepare")
    BY Places DEF Frees, Reasons
  <2> HIDE DEF At
  <2> QED BY <1>0, <1>2, <2>1, <2>2, <2>3, <2>4, Continues
<1>3. CASE Claim(p, ack)
  <2>1. /\ pc[p] = "claim" /\ ClaimStage(Mine(p), At(p)) /\ UNCHANGED worldVars
        /\ Acknowledged(ack) /\ Elsewhere
    BY <1>3 DEF Claim
  <2>2. InExecution(p) /\ BeforeProvider(p)
    BY <2>1, Places DEF InExecution, BeforeProvider
  <2>3. WorldKept
    BY <1>0, <2>1, <2>2, WorldTame DEF TameStep
  <2>4. CountersOK' /\ called' = called
    BY <1>0, <2>1, Counters DEF worldVars
  <2>5. CASE ~ack
    BY <1>2, <1>3, <2>2, <2>3, <2>4, <2>5 DEF Claim
  <2>6. CASE ack /\ At(p) = "context_prepare"
    BY <1>2, <1>3, <2>2, <2>3, <2>4, <2>6 DEF Claim
  <2>7. CASE ack /\ At(p) # "context_prepare"
    BY <1>2, <1>3, <2>2, <2>3, <2>4, <2>7 DEF Claim
  <2> QED BY <2>5, <2>6, <2>7
<1>4. CASE CloseWork(p, ack)
  <2>1. /\ pc[p] = "closing" /\ CloseStage(Mine(p), At(p)) /\ UNCHANGED worldVars
        /\ Acknowledged(ack) /\ Elsewhere
    BY <1>4 DEF CloseWork
  <2>2. InExecution(p)
    BY <2>1, Places DEF InExecution
  <2>3. WorldKept
    BY <1>0, <2>1, <2>2, WorldTame DEF TameStep
  <2>4. CountersOK' /\ called' = called
    BY <1>0, <2>1, Counters DEF worldVars
  <2>5. CASE ~ack
    BY <1>2, <1>4, <2>2, <2>3, <2>4, <2>5 DEF CloseWork
  <2>6. ASSUME ack, NEW place \in {"claim", "persisting"},
               NEW s \in {"provider_generate", "assistant_persist"},
               place = "claim" => At(p) = "context_prepare", Proceed(p, place, s, "none")
        PROVE  AutonomyInv'
    <3>1. /\ place \in Running \cup Failing \cup {"finalizing"} /\ s \in Boundary
          /\ s # "context_prepare" /\ "none" \in Reasons
          /\ place \notin Failing \cup {"safing", "guarding", "starting", "calling"}
      BY Places DEF Boundary, Reasons
    <3>2. place = "claim" => called'[Mine(p)] = "none"
      BY <1>0, <2>2, <2>4, <2>6 DEF JobStory, BeforeProvider
    <3>3. CallsOwn(p)
      BY <2>4 DEF CallsOwn
    <3> HIDE DEF At
    <3> QED BY <2>2, <2>3, <2>4, <2>6, <3>1, <3>2, <3>3, Continues
  <2>7. CASE ack /\ At(p) = "context_prepare"
    BY <1>4, <2>6, <2>7 DEF CloseWork
  <2>8. CASE ack /\ At(p) # "context_prepare"
    BY <1>4, <2>6, <2>8 DEF CloseWork
  <2> QED BY <2>5, <2>7, <2>8
<1>5. CASE Persist(p, ack)
  <2>1. /\ pc[p] = "persisting" /\ Status(Mine(p)) = "PROVIDER_STARTED"
        /\ CompleteProactiveCore(Mine(p)) /\ SetStatus(Mine(p), "MESSAGE_PERSISTED")
        /\ said' = [said EXCEPT ![Mine(p)] = users] /\ UNCHANGED <<users, called>>
        /\ Acknowledged(ack) /\ Elsewhere
    BY <1>5 DEF Persist, MayPersist
  <2>2. InExecution(p)
    BY <2>1, Places DEF InExecution
  <2>3. WorldKept
    BY <1>0, <2>1, <2>2, WorldPersists
  <2>4. CountersOK'
    BY <1>0, <2>1, Counters
  <2>5. CASE ack
    BY <1>2, <1>5, <2>1, <2>2, <2>3, <2>4, <2>5 DEF Persist
  <2>6. CASE ~ack
    BY <1>2, <1>5, <2>1, <2>2, <2>3, <2>4, <2>6 DEF Persist
  <2> QED BY <2>5, <2>6
<1>6. CASE PersistRefused(p)
  <2>1. /\ pc[p] = "persisting" /\ Proceed(p, "stagefail", At(p), "other")
        /\ NoFault /\ Elsewhere /\ UNCHANGED <<ledgerVars, worldVars>>
    BY <1>6 DEF PersistRefused
  <2>2. InExecution(p)
    BY <2>1, Places DEF InExecution
  <2>3. CountersOK'
    BY <1>0, <2>1, Counters
  <2>4. WorldKept /\ called' = called
    BY <2>1, <2>3, Wanders DEF worldVars
  <2> QED BY <1>2, <2>1, <2>2, <2>3, <2>4
<1>7. CASE Finalize(p)
  <2>1. /\ pc[p] = "finalizing" /\ Leave(p, "waiting") /\ NoFault /\ Elsewhere
        /\ IF Status(Mine(p)) = "MESSAGE_PERSISTED"
           THEN SetStatus(Mine(p), "COMPLETE") ELSE exec' = exec
        /\ UNCHANGED <<ledgerVars, users, said, called>>
    BY <1>7 DEF Finalize
  <2>2. InExecution(p)
    BY <2>1 DEF InExecution
  <2>3. WorldKept
    <3>1. CASE Status(Mine(p)) = "MESSAGE_PERSISTED"
      <4>1. /\ "COMPLETE" \in ExecStatus \ {"none"} /\ Status(Mine(p)) \in Recoverable
        BY <3>1 DEF ExecStatus, Blocking, Recoverable
      <4>2. turn[Mine(p)].core
        BY <1>0, <2>2, <3>1 DEF WorldInv, ExecStory
      <4>3. /\ called' = [called EXCEPT ![Mine(p)] = called[Mine(p)]]
            /\ called[Mine(p)] \in {"none", "open", "failed"}
        BY <1>0, <2>1, <2>2 DEF WorldTypeOK
      <4> QED BY <1>0, <2>1, <2>2, <3>1, <4>1, <4>2, <4>3, WorldStatus
    <3>2. CASE Status(Mine(p)) # "MESSAGE_PERSISTED"
      BY <1>0, <2>1, <3>2, WorldQuiet DEF worldVars
    <3> QED BY <3>1, <3>2
  <2>4. CountersOK' /\ CallsOwn(p) /\ "waiting" \in Idle
    BY <1>0, <2>1, Counters, Places DEF CallsOwn
  <2> QED BY <2>1, <2>3, <2>4, Ends
<1> QED BY <1>3, <1>4, <1>5, <1>6, <1>7

LEMMA ReportKeeps ==
  ASSUME AutonomyInv, NEW p \in Processes, NEW ack \in BOOLEAN,
         RecordStage(p, ack) \/ RecordCore(p, ack) \/ FailSafe(p)
  PROVE  AutonomyInv'
<1>0. /\ ProcTypeOK /\ CountersOK /\ JobStory(p) /\ WorldInv /\ WorldTypeOK /\ LedgerInv
      /\ At(p) \in Boundary /\ job[p].why \in Reasons
      /\ InExecution(p) => Mine(p) \in Turns /\ Status(Mine(p)) # "none"
  BY DEF AutonomyInv, WorldInv, ProcTypeOK, At, JobStory
<1>1. CASE RecordStage(p, ack)
  <2> DEFINE why == IF ack THEN job[p].why ELSE Replaced(job[p].why)
  <2>1. /\ pc[p] = "stagefail" /\ MarkStageFailed(Mine(p), At(p), 0) /\ UNCHANGED worldVars
        /\ Acknowledged(ack) /\ Elsewhere /\ AfterStageFailure(p, why)
    BY <1>1 DEF RecordStage
  <2>2. /\ why \in Reasons
        /\ Frees(At(p), why) => At(p) = "context_prepare" \/ FreesKey(p)
    BY <1>0 DEF Replaced, Reasons, Frees, FreesKey
  <2> HIDE DEF why
  <2>3. InExecution(p) /\ pc[p] \in Failing
    BY <2>1, Places DEF InExecution
  <2>4. WorldKept
    BY <1>0, <2>1, <2>3, WorldTame DEF TameStep
  <2>5. CountersOK' /\ called' = called /\ CallsOwn(p)
    BY <1>0, <2>1, Counters DEF worldVars, CallsOwn
  <2>6. CASE why = "cancelled"
    <3>1. Leave(p, "down") /\ "down" \in Idle
      BY <2>1, <2>6, Places DEF AfterStageFailure
    <3> QED BY <2>4, <2>5, <3>1, Ends
  <2>7. CASE why # "cancelled"
    <3>1. Proceed(p, "corefail", At(p), why)
      BY <2>1, <2>7 DEF AfterStageFailure
    <3>2. At(p) = "context_prepare" => called[Mine(p)] = "none"
      BY <1>0, <2>3 DEF JobStory, BeforeProvider
    <3>3. Frees(At(p), why) => called[Mine(p)] # "open"
      BY <1>0, <2>2, <2>3, <3>2 DEF JobStory
    <3>4. "corefail" \in Running \cup Failing \cup {"finalizing"}
      BY Places
    <3> HIDE DEF At
    <3> QED BY <1>0, <2>2, <2>3, <2>4, <2>5, <3>1, <3>2, <3>3, <3>4, Continues
  <2> QED BY <2>6, <2>7
<1>2. CASE RecordCore(p, ack)
  <2>1. /\ pc[p] = "corefail" /\ MarkCoreFailed(Mine(p)) /\ UNCHANGED worldVars
        /\ Acknowledged(ack) /\ Elsewhere
    BY <1>2 DEF RecordCore
  <2>2. InExecution(p) /\ pc[p] \in Failing
    BY <2>1, Places DEF InExecution
  <2>3. WorldKept
    BY <1>0, <2>1, <2>2, WorldTame DEF TameStep
  <2>4. CountersOK' /\ called' = called /\ CallsOwn(p)
    BY <1>0, <2>1, Counters DEF worldVars, CallsOwn
  <2>5. turn'[Mine(p)].status \in {"core_failed", "complete"}
    <3>1. CASE turn[Mine(p)].core
      BY <1>0, <2>1, <2>2, <3>1 DEF MarkCoreFailed, LedgerInv, TurnStory
    <3>2. CASE ~turn[Mine(p)].core
      BY <1>0, <2>1, <2>2, <3>2 DEF MarkCoreFailed, LedgerInv, LedgerTypeOK, TurnRow
    <3> QED BY <3>1, <3>2
  <2>6. CASE ack /\ FreesKey(p)
    <3>1. Proceed(p, "safing", At(p), job[p].why)
      BY <1>2, <2>6 DEF RecordCore
    <3>2. Frees(At(p), job[p].why) /\ called[Mine(p)] # "open"
      BY <1>0, <2>2, <2>6 DEF JobStory, Frees, FreesKey
    <3>3. At(p) = "context_prepare" => called[Mine(p)] = "none"
      BY <1>0, <2>2 DEF JobStory, BeforeProvider
    <3>4. "safing" \in Running \cup Failing \cup {"finalizing"}
      BY Places
    <3> DEFINE why == job[p].why
    <3> HIDE DEF At, why
    <3> QED BY <1>0, <2>2, <2>3, <2>4, <2>5, <3>1, <3>2, <3>3, <3>4, Continues
  <2>7. CASE ~(ack /\ FreesKey(p))
    <3>1. Leave(p, "waiting") /\ "waiting" \in Idle
      BY <1>2, <2>7, Places DEF RecordCore
    <3> QED BY <2>3, <2>4, <3>1, Ends
  <2> QED BY <2>6, <2>7
<1>3. CASE FailSafe(p)
  <2>1. /\ pc[p] = "safing" /\ Leave(p, "waiting") /\ NoFault /\ Elsewhere
        /\ IF Status(Mine(p)) \in {"RESERVED", "PROVIDER_STARTED"}
           THEN SetStatus(Mine(p), "FAILED_SAFE") ELSE exec' = exec
        /\ UNCHANGED <<ledgerVars, users, said, called>>
    BY <1>3 DEF FailSafe
  <2>2. InExecution(p) /\ pc[p] \in Failing
    BY <2>1, Places DEF InExecution
  <2>3. WorldKept
    <3>1. CASE Status(Mine(p)) \in {"RESERVED", "PROVIDER_STARTED"}
      <4>1. /\ "FAILED_SAFE" \in ExecStatus \ {"none"} /\ Status(Mine(p)) \in Recoverable
        BY <3>1 DEF ExecStatus, Recoverable
      <4>2. ~turn[Mine(p)].core
        BY <1>0, <2>2, <3>1 DEF WorldInv, ExecStory
      <4>3. turn[Mine(p)].status = "core_failed"
        BY <1>0, <2>1, <2>2, <4>2 DEF JobStory, LedgerInv, TurnStory
      <4>4. called[Mine(p)] # "open"
        BY <1>0, <2>1, <2>2 DEF JobStory
      <4>5. /\ called' = [called EXCEPT ![Mine(p)] = called[Mine(p)]]
            /\ called[Mine(p)] \in {"none", "open", "failed"}
        BY <1>0, <2>1, <2>2 DEF WorldTypeOK
      <4> QED BY <1>0, <2>1, <2>2, <3>1, <4>1, <4>3, <4>4, <4>5, WorldStatus
    <3>2. CASE Status(Mine(p)) \notin {"RESERVED", "PROVIDER_STARTED"}
      BY <1>0, <2>1, <3>2, WorldQuiet DEF worldVars
    <3> QED BY <3>1, <3>2
  <2>4. CountersOK' /\ CallsOwn(p) /\ "waiting" \in Idle
    BY <1>0, <2>1, Counters, Places DEF CallsOwn
  <2> QED BY <2>1, <2>3, <2>4, Ends
<1> QED BY <1>1, <1>2, <1>3

(* What a settlement writes over what it finds.                               *)
LEMMA Settlement ==
  ASSUME WorldInv, NEW e \in Turns, Status(e) # "none",
         NEW v \in {"COMPLETE", "FAILED_SAFE", "INDETERMINATE"},
         v = "COMPLETE" => turn[e].core,
         IF Status(e) \in SettledFrom(v) THEN SetStatus(e, v) ELSE exec' = exec,
         IF v = "FAILED_SAFE" THEN FailBeforeProvider(e) ELSE UNCHANGED ledgerVars,
         UNCHANGED <<users, said, called>>
  PROVE  WorldKept
<1>1. CASE v = "FAILED_SAFE"
  BY <1>1, WorldGivesUp DEF SettledFrom
<1>2. CASE v # "FAILED_SAFE"
  <2>1. UNCHANGED ledgerVars
    BY <1>2
  <2>2. CASE Status(e) \notin SettledFrom(v)
    BY <2>1, <2>2, WorldQuiet DEF worldVars
  <2>3. CASE Status(e) \in SettledFrom(v)
    <3>1. v \in ExecStatus \ {"none"} /\ Status(e) \in Recoverable
      BY <1>2, <2>3 DEF SettledFrom, ExecStatus, Blocking, Recoverable
    <3>2. /\ called' = [called EXCEPT ![e] = called[e]]
          /\ called[e] \in {"none", "open", "failed"}
      BY DEF WorldInv, WorldTypeOK
    <3> QED BY <1>2, <2>1, <2>3, <3>1, <3>2, WorldStatus
  <2> QED BY <2>2, <2>3
<1> QED BY <1>1, <1>2

LEMMA RecoveryKeeps ==
  ASSUME AutonomyInv, NEW p \in Processes, Recovers(p) \/ Start(p) \/ Close(p)
  PROVE  AutonomyInv'
<1>0. /\ ProcTypeOK /\ CountersOK /\ JobStory(p) /\ WorldInv /\ WorldTypeOK /\ LedgerInv
  BY DEF AutonomyInv, WorldInv
<1>1. ASSUME NEW place \in {"waiting", "listing", "down"}, Goto(p, place),
             UNCHANGED <<ledgerVars, worldVars, intent, job, listed, verdict>>, NoFault, Elsewhere
      PROVE  AutonomyInv'
  <2>1. place \in ProcessPc \ (Running \cup Failing \cup {"finalizing", "settling"})
        /\ place \notin {"evaluated", "cleared"}
    BY Places
  <2>2. ProcTypeOK'
    BY <1>0, <1>1, <2>1 DEF ProcTypeOK, Goto
  <2>3. CountersOK'
    BY <1>0, <1>1, Counters
  <2> QED BY <1>0, <1>1, <2>1, <2>2, <2>3, Elsewhen DEF JobStory
<1>2. CASE ListExecutions(p)
  <2> DEFINE l == [e \in Turns |-> IF Status(e) \in Recoverable THEN Status(e) ELSE "none"]
  <2>1. /\ listed' = [listed EXCEPT ![p] = l] /\ Goto(p, "recovering") /\ NoFault /\ Elsewhere
        /\ UNCHANGED <<ledgerVars, worldVars, intent, job, verdict>>
    BY <1>2 DEF ListExecutions
  <2>2. l \in [Turns -> Recoverable \cup {"none"}]
    OBVIOUS
  <2>3. \A e \in Turns : l[e] # "none" => Status(e) # "none"
    OBVIOUS
  <2> HIDE DEF l
  <2>4. "recovering" \in ProcessPc \ (Running \cup Failing \cup {"finalizing", "settling"})
    BY Places
  <2>5. ProcTypeOK' /\ listed'[p] = l /\ \A q \in Processes \ {p} : listed'[q] = listed[q]
    BY <1>0, <2>1, <2>2, <2>4 DEF ProcTypeOK, Goto
  <2>6. CountersOK'
    BY <1>0, <2>1, Counters
  <2> QED BY <2>1, <2>3, <2>4, <2>5, <2>6, Elsewhen
<1>3. CASE StartScheduler(p)
  BY <1>1, <1>3 DEF StartScheduler
<1>4. CASE Start(p) \/ Close(p)
  BY <1>1, <1>4 DEF Start, Close
<1>5. ASSUME NEW e \in Turns, ReadTurn(p, e) PROVE AutonomyInv'
  <2> DEFINE v == Verdict(e, listed[p][e])
  <2>1. /\ listed[p][e] # "none" /\ verdict' = [verdict EXCEPT ![p] = v]
        /\ job' = [job EXCEPT ![p].turn = e] /\ Goto(p, "settling") /\ NoFault /\ Elsewhere
        /\ UNCHANGED <<ledgerVars, worldVars, intent, listed>>
    BY <1>5 DEF ReadTurn
  <2>2. /\ v \in {"COMPLETE", "FAILED_SAFE", "INDETERMINATE"}
        /\ v = "COMPLETE" => turn[e].status = "complete"
    BY DEF Verdict
  <2> HIDE DEF v
  <2>3. /\ ProcTypeOK' /\ OthersStay(p) /\ pc'[p] = "settling" /\ verdict'[p] = v
        /\ job'[p].turn = e
    BY <1>0, <2>1, <2>2, Places DEF ProcTypeOK, Goto, OthersStay
  <2>4. CountersOK'
    BY <1>0, <2>1, Counters
  <2>5. WorldKept /\ CallsOwn(p)
    BY <2>1, <2>4, Wanders
  <2>6. Status(e) # "none" /\ (v = "COMPLETE" => turn[e].core)
    BY <1>0, <2>1, <2>2 DEF JobStory, LedgerInv, TurnStory
  <2>7. UNCHANGED <<exec, turn>> /\ ~InExecution(p)'
    BY <2>1, <2>3, Places DEF worldVars, ledgerVars, InExecution
  <2>8. JobStory(p)'
    BY <1>0, <2>1, <2>2, <2>3, <2>6, <2>7, Places DEF JobStory, Mine, Status
  <2> QED BY <2>3, <2>4, <2>5, <2>7, <2>8, ProcessStep
<1>6. ASSUME NEW ack \in BOOLEAN, SettleExecution(p, ack) PROVE AutonomyInv'
  <2> DEFINE e == Mine(p)
  <2>1. /\ pc[p] = "settling" /\ Acknowledged(ack) /\ Elsewhere /\ UNCHANGED <<users, said, called>>
        /\ IF Status(e) \in SettledFrom(verdict[p]) THEN SetStatus(e, verdict[p]) ELSE exec' = exec
        /\ IF verdict[p] = "FAILED_SAFE" THEN FailBeforeProvider(e) ELSE UNCHANGED ledgerVars
    BY <1>6 DEF SettleExecution
  <2>2. /\ e \in Turns /\ Status(e) # "none"
        /\ verdict[p] \in {"COMPLETE", "FAILED_SAFE", "INDETERMINATE"}
        /\ verdict[p] = "COMPLETE" => turn[e].core
    BY <1>0, <2>1 DEF JobStory, ProcTypeOK
  <2>3. WorldKept
    BY <1>0, <2>1, <2>2, Settlement
  <2>4. CountersOK' /\ CallsOwn(p)
    BY <1>0, <2>1, Counters DEF CallsOwn
  <2>5. CASE ack
    <3>1. /\ Goto(p, "recovering") /\ listed' = [listed EXCEPT ![p][e] = "none"]
          /\ verdict' = [verdict EXCEPT ![p] = "none"] /\ job' = [job EXCEPT ![p] = NoJob]
          /\ UNCHANGED intent
      BY <1>6, <2>5 DEF SettleExecution
    <3>2. NoJob \in [turn : Turns \cup {None}, stage : Boundary, why : Reasons]
      BY DEF NoJob, Boundary, Reasons
    <3>3. /\ listed' \in [Processes -> [Turns -> Recoverable \cup {"none"}]]
          /\ \A q \in Processes \ {p} : listed'[q] = listed[q]
          /\ \A u \in Turns : listed'[p][u] # "none" => listed[p][u] # "none"
      BY <1>0, <2>2, <3>1 DEF ProcTypeOK
    <3>4. ProcTypeOK' /\ OthersStay(p) /\ pc'[p] = "recovering"
      BY <1>0, <3>1, <3>2, <3>3, Places DEF ProcTypeOK, Goto, OthersStay
    <3>5. ~InExecution(p)'
      BY <3>4, Places DEF InExecution
    <3>6. \A u \in Turns : listed'[p][u] # "none" => exec'[u].status # "none"
      BY <1>0, <2>3, <3>3 DEF JobStory, WorldKept, Grows
    <3>7. JobStory(p)'
      BY <3>4, <3>5, <3>6, Places DEF JobStory, Status
    <3> QED BY <2>3, <2>4, <3>4, <3>5, <3>7, ProcessStep
  <2>6. CASE ~ack
    <3>1. Leave(p, "stopped") /\ "stopped" \in Idle
      BY <1>6, <2>6, Places DEF SettleExecution
    <3> QED BY <2>3, <2>4, <3>1, Ends
  <2> QED BY <2>5, <2>6
<1> QED BY <1>2, <1>3, <1>4, <1>5, <1>6 DEF Recovers

(* The user speaks or deletes a message.                                      *)
LEMMA UserKeeps ==
  ASSUME AutonomyInv, UserSpeaks \/ \E e \in Turns : UserDeletes(e)
  PROVE  AutonomyInv'
<1>0. /\ WorldInv /\ WorldTypeOK /\ ProcTypeOK /\ CountersOK
      /\ \A q \in Processes : JobStory(q)
  BY DEF AutonomyInv, WorldInv
<1>1. UNCHANGED <<pc, intent, job, listed, verdict, called>>
  BY DEF UserSpeaks, UserDeletes, processVars, worldVars
<1>2. WorldKept
  <2>1. CASE UserSpeaks
    BY <1>0, <2>1, WorldHears DEF UserSpeaks
  <2>2. ASSUME NEW e \in Turns, UserDeletes(e) PROVE WorldKept
    BY <1>0, <2>2, WorldDelete DEF UserDeletes
  <2> QED BY <2>1, <2>2
<1>3. CountersOK'
  BY <1>0 DEF CountersOK, UserSpeaks, UserDeletes, NoFault, Elsewhere
<1>4. ProcTypeOK' /\ OwnTurns'
  BY <1>0, <1>1 DEF AutonomyInv, ProcTypeOK, OwnTurns, InExecution, Mine
<1>5. \A q \in Processes : JobStory(q)'
  BY <1>0, <1>1, <1>2, StoryKept DEF WorldKept
<1> QED BY <1>2, <1>3, <1>4, <1>5 DEF AutonomyInv, WorldKept

-----------------------------------------------------------------------------
(* The theorems                                                               *)

LEMMA AutonomyStarts == Init => AutonomyInv
<1> SUFFICES ASSUME Init PROVE AutonomyInv
  OBVIOUS
<1>1. LedgerInv
  <2>1. LedgerTypeOK
    BY DEF Init, LedgerInit, LedgerTypeOK, TurnRow, TurnStatus, Row, RowStatus, NoRow
  <2>2. \A e \in Turns : TurnStory(e)
    BY StageKinds DEF Init, LedgerInit, TurnStory, NoRow
  <2> QED BY <2>1, <2>2 DEF LedgerInv
<1>2. AnyKey \in Keys
  BY KeysAssumption DEF AnyKey
<1>3. WorldTypeOK
  BY <1>2 DEF Init, WorldTypeOK, ExecStatus
<1>4. \A e \in Turns : Status(e) = "none" /\ ExecStory(e)
  BY DEF Init, LedgerInit, ExecStory, Status
<1>5. IndexHolds
  BY <1>4 DEF IndexHolds, Blocking, Recoverable
<1>6. ProcTypeOK
  BY <1>2, Places DEF Init, ProcTypeOK, NoIntent, NoJob, NothingListed, Boundary, Reasons
<1>7. CountersOK
  BY DEF Init, CountersOK
<1>8. \A p \in Processes : pc[p] = "down" /\ listed[p] = NothingListed
  BY DEF Init
<1>9. \A p \in Processes : ~InExecution(p)
  BY <1>8, Places DEF InExecution
<1>10. \A p \in Processes : JobStory(p)
  BY <1>8, <1>9, Places DEF JobStory, NothingListed
<1>11. OwnTurns
  BY <1>9 DEF OwnTurns
<1> QED BY <1>1, <1>3, <1>4, <1>5, <1>6, <1>7, <1>10, <1>11 DEF AutonomyInv, WorldInv

LEMMA AutonomyIdles ==
  ASSUME AutonomyInv, UNCHANGED vars
  PROVE  AutonomyInv'
<1>1. /\ UNCHANGED <<pc, intent, job, listed, verdict, faults, crashes, deletions>>
      /\ UNCHANGED <<ledgerVars, worldVars>>
  BY DEF vars, processVars
<1>2. WorldKept /\ called' = called
  BY <1>1, WorldQuiet DEF AutonomyInv, worldVars
<1>3. ProcTypeOK' /\ CountersOK' /\ OwnTurns'
  BY <1>1 DEF AutonomyInv, ProcTypeOK, CountersOK, OwnTurns, InExecution, Mine
<1>4. \A q \in Processes : JobStory(q)'
  BY <1>1, <1>2, StoryKept DEF AutonomyInv, WorldKept
<1> QED BY <1>2, <1>3, <1>4 DEF AutonomyInv, WorldKept

LEMMA AutonomySteps ==
  ASSUME AutonomyInv, [Next]_vars
  PROVE  AutonomyInv'
<1>1. CASE UNCHANGED vars
  BY <1>1, AutonomyIdles
<1>2. CASE UserSpeaks \/ \E e \in Turns : UserDeletes(e)
  BY <1>2, UserKeeps
<1>3. ASSUME NEW p \in Processes, Cycles(p) \/ Abandon(p) PROVE AutonomyInv'
  BY <1>3, CycleKeeps
<1>4. ASSUME NEW p \in Processes, Fails(p) \/ Crash(p) \/ Cancel(p) PROVE AutonomyInv'
  BY <1>4, FailKeeps
<1>5. ASSUME NEW p \in Processes, Recovers(p) \/ Start(p) \/ Close(p) PROVE AutonomyInv'
  BY <1>5, RecoveryKeeps
<1>6. ASSUME NEW p \in Processes, Executes(p) PROVE AutonomyInv'
  <2>1. CASE GuardAgain(p) \/ GuardRefuses(p) \/ StartRefused(p) \/ ProviderReplies(p)
               \/ ProviderFails(p)
    BY <2>1, ProviderKeeps
  <2>2. CASE PersistRefused(p) \/ Finalize(p)
    BY <2>2, WorkKeeps
  <2>3. CASE FailSafe(p)
    BY <2>3, ReportKeeps
  <2>4. ASSUME NEW ack \in BOOLEAN,
               \/ Claim(p, ack) \/ StartProvider(p, ack) \/ CloseWork(p, ack)
               \/ Persist(p, ack) \/ RecordStage(p, ack) \/ RecordCore(p, ack)
        PROVE  AutonomyInv'
    BY <2>4, ProviderKeeps, WorkKeeps, ReportKeeps
  <2> QED BY <1>6, <2>1, <2>2, <2>3, <2>4 DEF Executes
<1> QED BY <1>1, <1>2, <1>3, <1>4, <1>5, <1>6 DEF Next

(* Rows, turns and processes fit together in every reachable state: the        *)
(* invariant the properties of proactive_execution.py follow from.            *)
THEOREM AutonomyInvariant == Spec => []AutonomyInv
<1> QED BY AutonomyStarts, AutonomySteps, PTL DEF Spec

(* The rows and the processes always have their types.                        *)
THEOREM AutonomyTypes == Spec => []TypeOK
<1>1. AutonomyInv => TypeOK
  BY DEF AutonomyInv, WorldInv, LedgerInv, WorldTypeOK, ProcTypeOK, CountersOK, TypeOK
<1> QED BY <1>1, AutonomyInvariant, PTL

(* However many processes run, fail and are started again, an intention is    *)
(* spoken at most once between two messages of the user (the unique index of  *)
(* autonomy_executions and the conditions of its updates).                    *)
THEOREM SpokenAtMostOnce == Spec => []SpokenOnce
<1>1. AutonomyInv => SpokenOnce
  <2> SUFFICES ASSUME AutonomyInv PROVE SpokenOnce
    OBVIOUS
  <2>1. \A e \in Turns : said[e] > 0 => Status(e) \in Blocking
    BY DEF AutonomyInv, WorldInv, ExecStory, Blocking, Recoverable
  <2> QED BY <2>1 DEF AutonomyInv, WorldInv, IndexHolds, SpokenOnce
<1> QED BY <1>1, AutonomyInvariant, PTL

(* A provider call whose outcome is unknown keeps its key: no other call is   *)
(* made for it.                                                               *)
THEOREM UnknownNeverRepeated == Spec => []NoUnknownRepeated
<1>1. AutonomyInv => NoUnknownRepeated
  <2> SUFFICES ASSUME AutonomyInv PROVE NoUnknownRepeated
    OBVIOUS
  <2>1. \A e \in Turns : called[e] = "open" => Status(e) \in Blocking
    BY DEF AutonomyInv, WorldInv, WorldTypeOK, ExecStory, ExecStatus, Status
  <2> QED BY <2>1 DEF AutonomyInv, WorldInv, IndexHolds, NoUnknownRepeated
<1> QED BY <1>1, AutonomyInvariant, PTL

(* The execution and its turn never disagree about the message, although      *)
(* recovery writes each on its own condition.                                 *)
THEOREM OneStory == Spec => []ExecutionMatchesTurn
<1>1. AutonomyInv => ExecutionMatchesTurn
  BY DEF AutonomyInv, WorldInv, LedgerInv, TurnStory, ExecStory, ExecutionMatchesTurn
<1> QED BY <1>1, AutonomyInvariant, PTL
Settled == {"COMPLETE", "FAILED_SAFE", "INDETERMINATE"}

(* Each step writes at most one execution row, and none that is settled.      *)
LEMMA WritesUnsettled ==
  ASSUME AutonomyInv, [Next]_vars
  PROVE  \/ exec' = exec
         \/ \E x, s : Status(x) \notin Settled /\ SetStatus(x, s)
         \/ \E x \in Turns : \E row : Status(x) \notin Settled /\ exec' = [exec EXCEPT ![x] = row]
<1> DEFINE Goal == \/ exec' = exec
                   \/ \E x, s : Status(x) \notin Settled /\ SetStatus(x, s)
                   \/ \E x \in Turns : \E row :
                        Status(x) \notin Settled /\ exec' = [exec EXCEPT ![x] = row]
<1> SUFFICES Goal
  OBVIOUS
<1>1. CASE UNCHANGED vars
  BY <1>1 DEF vars, worldVars
<1>2. CASE UserSpeaks \/ \E e \in Turns : UserDeletes(e)
  BY <1>2 DEF UserSpeaks, UserDeletes, worldVars
<1>3. ASSUME NEW p \in Processes, Cycles(p) \/ Abandon(p) PROVE Goal
  <2>1. CASE PassGuard(p) \/ Abandon(p) \/ \E k \in Keys : Evaluate(p, k)
    BY <2>1 DEF PassGuard, Abandon, Evaluate, worldVars
  <2>2. ASSUME NEW e \in Turns, NEW ack \in BOOLEAN, Reserve(p, e, ack) PROVE Goal
    <3>1. Status(e) \notin Settled /\ \E row : exec' = [exec EXCEPT ![e] = row]
      BY <2>2 DEF Reserve, Free, Settled
    <3> QED BY <3>1
  <2> QED BY <1>3, <2>1, <2>2 DEF Cycles
<1>4. ASSUME NEW p \in Processes, Fails(p) \/ Crash(p) \/ Cancel(p) \/ Start(p) \/ Close(p)
      PROVE  Goal
  BY <1>4 DEF Fails, StageRaises, FinalizeFails, LoseStage, LoseCore, LoseFailSafe,
              RecoveryFails, Crash, Cancel, Start, Close, worldVars
<1>5. ASSUME NEW p \in Processes, Recovers(p) PROVE Goal
  <2>1. CASE ListExecutions(p) \/ StartScheduler(p) \/ \E e \in Turns : ReadTurn(p, e)
    BY <2>1 DEF ListExecutions, StartScheduler, ReadTurn, worldVars
  <2>2. ASSUME NEW ack \in BOOLEAN, SettleExecution(p, ack) PROVE Goal
    <3>1. IF Status(Mine(p)) \in SettledFrom(verdict[p])
          THEN SetStatus(Mine(p), verdict[p]) ELSE exec' = exec
      BY <2>2 DEF SettleExecution
    <3>2. SettledFrom(verdict[p]) \cap Settled = {}
      BY DEF SettledFrom, Recoverable, Settled
    <3> HIDE DEF Mine
    <3> QED BY <3>1, <3>2
  <2> QED BY <1>5, <2>1, <2>2 DEF Recovers
<1>6. ASSUME NEW p \in Processes, Executes(p) PROVE Goal
  <2>1. CASE GuardAgain(p) \/ GuardRefuses(p) \/ StartRefused(p) \/ ProviderReplies(p)
               \/ ProviderFails(p) \/ PersistRefused(p)
    BY <2>1 DEF GuardAgain, GuardRefuses, StartRefused, ProviderReplies, ProviderFails,
                PersistRefused, worldVars
  <2>2. CASE Finalize(p)
    BY <2>2 DEF Finalize, Settled
  <2>3. CASE FailSafe(p)
    BY <2>3 DEF FailSafe, Settled
  <2>4. ASSUME NEW ack \in BOOLEAN,
               Claim(p, ack) \/ CloseWork(p, ack) \/ RecordStage(p, ack) \/ RecordCore(p, ack)
        PROVE  Goal
    BY <2>4 DEF Claim, CloseWork, RecordStage, RecordCore, worldVars
  <2>5. ASSUME NEW ack \in BOOLEAN, StartProvider(p, ack) \/ Persist(p, ack)
        PROVE  Goal
    BY <2>5 DEF StartProvider, Persist, MayPersist, Settled
  <2> QED BY <1>6, <2>1, <2>2, <2>3, <2>4, <2>5 DEF Executes
<1> HIDE DEF Goal
<1> QED BY <1>1, <1>2, <1>3, <1>4, <1>5, <1>6 DEF Next

(* A settled execution is never written again: every update of the store      *)
(* names the statuses it may leave.                                           *)
THEOREM SettledOnce == Spec => SettledForGood
<1>1. ASSUME AutonomyInv, [Next]_vars
      PROVE  [\A e \in Turns : Status(e) \in {"COMPLETE", "FAILED_SAFE", "INDETERMINATE"}
                               => exec'[e] = exec[e]]_vars
  <2> SUFFICES ASSUME NEW e \in Turns, Status(e) \in Settled PROVE exec'[e] = exec[e]
    BY DEF Settled
  <2> DEFINE ExecRows == [status : ExecStatus, key : Keys, anchor : Nat]
  <2>0. exec \in [Turns -> ExecRows]
    BY <1>1 DEF AutonomyInv, WorldInv, WorldTypeOK
  <2> HIDE DEF ExecRows
  <2>1. DOMAIN exec = Turns
    BY <2>0
  <2>2. ASSUME NEW x, NEW s, Status(x) \notin Settled, SetStatus(x, s) PROVE exec'[e] = exec[e]
    BY <2>1, <2>2 DEF SetStatus
  <2>3. ASSUME NEW x \in Turns, NEW row, Status(x) \notin Settled, exec' = [exec EXCEPT ![x] = row]
        PROVE  exec'[e] = exec[e]
    BY <2>1, <2>3
  <2> QED BY <1>1, <2>2, <2>3, WritesUnsettled
<1> QED BY <1>1, AutonomyInvariant, PTL DEF Spec, SettledForGood

-----------------------------------------------------------------------------
(* One process alone                                                          *)

(* No other process has the database open.                                    *)
Alone == \A p, q \in Processes : p = q

(* Only the persona writes in its turns, and no message is of the future.     *)
Messages ==
  \A e \in Turns :
    ~turn[e].user /\ (turn[e].assistant => turn[e].core) /\ said[e] <= users

(* What the process knows stays true while it acts on it: an execution it has *)
(* listed has still that status, the turn it judged ambiguous has no message, *)
(* and the limit it looked at before the reservation or the call is kept.     *)
LoneStory(p) ==
  /\ \A e \in Turns : listed[p][e] # "none" =>
       pc[p] \in {"recovering", "settling"} /\ Status(e) = listed[p][e]
  /\ pc[p] = "settling" =>
       /\ listed[p][Mine(p)] # "none"
       /\ verdict[p] = "FAILED_SAFE" => listed[p][Mine(p)] = "RESERVED"
       /\ verdict[p] = "INDETERMINATE" => ~turn[Mine(p)].assistant
  /\ pc[p] \in {"evaluated", "cleared"} \cup Running => WithinStreak

LoneWorld == Messages /\ IsFiniteSet(Unanswered) /\ StreakBounded /\ DoubtIsReal

LoneInv == LoneWorld /\ \A p \in Processes : LoneStory(p)

(* A step that adds no unanswered message.                                    *)
LoneKept ==
  /\ LoneWorld'
  /\ WithinStreak => WithinStreak'
  /\ \A e \in Turns : turn'[e].assistant => turn[e].assistant

(* Nothing becomes unanswered, nothing becomes ambiguous over a message.      *)
LEMMA LoneQuieter ==
  ASSUME LoneWorld, Messages', Unanswered' \subseteq Unanswered,
         \A e \in Turns : turn'[e].assistant => turn[e].assistant,
         \A e \in Turns : exec'[e].status = "INDETERMINATE" =>
           Status(e) = "INDETERMINATE" \/ ~turn[e].assistant
  PROVE  LoneKept
<1>1. IsFiniteSet(Unanswered') /\ Cardinality(Unanswered') <= Cardinality(Unanswered)
  BY FS_Subset DEF LoneWorld
<1>2. Cardinality(Unanswered) \in Nat /\ Cardinality(Unanswered') \in Nat
  BY <1>1, FS_CardinalityType DEF LoneWorld
<1>3. StreakBounded' /\ (WithinStreak => WithinStreak')
  BY <1>1, <1>2, StreakAssumption DEF LoneWorld, StreakBounded, WithinStreak, Streak
<1>4. DoubtIsReal'
  BY DEF LoneWorld, DoubtIsReal, Status
<1> QED BY <1>1, <1>3, <1>4 DEF LoneWorld, LoneKept

(* A write of the execution, or none, over unchanged turns.                   *)
LEMMA LoneStill ==
  ASSUME LoneWorld, UNCHANGED <<ledgerVars, users, said>>,
         \A e \in Turns : exec'[e].status = "INDETERMINATE" =>
           Status(e) = "INDETERMINATE" \/ ~turn[e].assistant
  PROVE  LoneKept
<1>1. turn' = turn /\ users' = users /\ said' = said
  BY DEF ledgerVars
<1>2. Messages' /\ Unanswered' = Unanswered
  BY <1>1 DEF LoneWorld, Messages, Unanswered
<1> QED BY <1>1, <1>2, LoneQuieter

(* A refresh changes no message and no core mark.                             *)
LEMMA RefreshMessages ==
  ASSUME LedgerTypeOK, NEW t \in Turns, NEW r, WriteAndRefresh(t, r)
  PROVE  \A u \in Turns :
           turn'[u].user = turn[u].user /\ turn'[u].assistant = turn[u].assistant
<1> DEFINE v == IF turn[t].core THEN Derived(r) ELSE turn[t].status
<1>1. turn' = [turn EXCEPT ![t].status = v]
  BY DEF WriteAndRefresh
<1> HIDE DEF v
<1> QED BY <1>1 DEF LedgerTypeOK, TurnRow

LEMMA TameMessages ==
  ASSUME LedgerInv, NEW e \in Turns, TameStep(e)
  PROVE  \A u \in Turns :
           turn'[u].user = turn[u].user /\ (turn'[u].assistant => turn[u].assistant)
<1> DEFINE Goal == \A u \in Turns :
             turn'[u].user = turn[u].user /\ (turn'[u].assistant => turn[u].assistant)
<1>0. LedgerTypeOK
  BY DEF LedgerInv
<1>1. ASSUME NEW s \in Boundary, ClaimStage(e, s) PROVE Goal
  BY <1>1 DEF ClaimStage
<1>2. ASSUME NEW s \in Boundary, CloseStage(e, s) \/ MarkStageFailed(e, s, 0) PROVE Goal
  <2>1. \E r : WriteAndRefresh(e, r)
    BY <1>2 DEF CloseStage, MarkStageFailed
  <2> QED BY <1>0, <2>1, RefreshMessages
<1>3. CASE MarkCoreFailed(e) \/ FailBeforeProvider(e)
  <2>1. turn' = turn \/ turn' = [turn EXCEPT ![e].status = "core_failed"]
    BY <1>3, Zenon DEF MarkCoreFailed, FailBeforeProvider
  <2>2. CASE turn' = turn
    BY <2>2
  <2>3. CASE turn' = [turn EXCEPT ![e].status = "core_failed"]
    BY <1>0, <2>3 DEF LedgerTypeOK, TurnRow
  <2> QED BY <2>1, <2>2, <2>3
<1>4. CASE DeleteMessage(e, "assistant")
  <2>1. turn' = [turn EXCEPT ![e] = [turn[e] EXCEPT !["assistant"] = FALSE]]
    BY <1>4 DEF DeleteMessage
  <2> QED BY <1>0, <2>1 DEF LedgerTypeOK, TurnRow
<1> HIDE DEF Goal
<1> QED BY <1>1, <1>2, <1>3, <1>4 DEF TameStep, Goal

LEMMA LoneTame ==
  ASSUME WorldInv, LoneWorld, NEW e \in Turns, TameStep(e), UNCHANGED <<users, said>>,
         \A u \in Turns : exec'[u].status = "INDETERMINATE" =>
           Status(u) = "INDETERMINATE" \/ ~turn[u].assistant
  PROVE  LoneKept
<1>0. LedgerInv /\ \A u \in Turns : TurnStory(u)
  BY DEF WorldInv, LedgerInv
<1>1. /\ \A u \in Turns \ {e} : turn'[u] = turn[u]
      /\ turn'[e].core = turn[e].core
      /\ \/ turn'[e].status = turn[e].status
         \/ ~turn[e].core /\ turn'[e].status = "core_failed"
  BY <1>0, TameSteps
<1>2. \A u \in Turns :
        turn'[u].user = turn[u].user /\ (turn'[u].assistant => turn[u].assistant)
  BY <1>0, TameMessages
<1>3. Messages'
  BY <1>1, <1>2 DEF LoneWorld, Messages
<1>4. Unanswered' \subseteq Unanswered
  BY <1>1, <1>2 DEF Unanswered
<1> QED BY <1>2, <1>3, <1>4, LoneQuieter

LEMMA LoneBegins ==
  ASSUME WorldInv, LoneWorld, NEW e \in Turns, BeginProactiveTurn(e), UNCHANGED <<users, said>>,
         \A u \in Turns : exec'[u].status = "INDETERMINATE" => Status(u) = "INDETERMINATE"
  PROVE  LoneKept
<1> DEFINE fresh == [status |-> "pending", core |-> FALSE, user |-> FALSE, assistant |-> FALSE]
<1>1. turn' = [turn EXCEPT ![e] = fresh] /\ turn \in [Turns -> TurnRow]
  BY DEF BeginProactiveTurn, WorldInv, LedgerInv, LedgerTypeOK
<1>2. fresh.status = "pending" /\ ~fresh.user /\ ~fresh.assistant
  OBVIOUS
<1> HIDE DEF fresh
<1>3. turn'[e] = fresh /\ \A u \in Turns \ {e} : turn'[u] = turn[u]
  BY <1>1
<1>4. Messages' /\ Unanswered' \subseteq Unanswered
  BY <1>2, <1>3 DEF LoneWorld, Messages, Unanswered
<1>5. \A u \in Turns : turn'[u].assistant => turn[u].assistant
  BY <1>2, <1>3
<1> QED BY <1>4, <1>5, LoneQuieter

(* The user's message answers all that were sent.                             *)
LEMMA LoneHears ==
  ASSUME WorldInv, LoneWorld, users' = users + 1, UNCHANGED <<ledgerVars, exec, said>>
  PROVE  LoneKept
<1>1. turn' = turn /\ said' = said /\ exec' = exec
  BY DEF ledgerVars
<1>2. users \in Nat /\ \A e \in Turns : said[e] \in Nat /\ said[e] <= users
  BY DEF WorldInv, WorldTypeOK, LoneWorld, Messages
<1>3. \A e \in Turns : said'[e] # users' /\ said'[e] <= users'
  BY <1>1, <1>2
<1>4. Messages'
  BY <1>1, <1>3 DEF LoneWorld, Messages
<1>5. Unanswered' \subseteq Unanswered
  BY <1>3 DEF Unanswered
<1> QED BY <1>1, <1>4, <1>5, LoneQuieter DEF Status

(* The one step that adds a message, below the limit.                         *)
LEMMA LoneSpeaks ==
  ASSUME WorldInv, LoneWorld, WithinStreak, NEW e \in Turns,
         CompleteProactiveCore(e), SetStatus(e, "MESSAGE_PERSISTED"),
         said' = [said EXCEPT ![e] = users], users' = users
  PROVE  LoneWorld'
<1>0. WorldTypeOK /\ LedgerInv /\ LedgerTypeOK
  BY DEF WorldInv, LedgerInv
<1>1. /\ \A u \in Turns \ {e} : turn'[u] = turn[u]
      /\ turn'[e].core
  BY <1>0, CoreCompletes
<1>2. ~turn'[e].user
  <2> DEFINE v == Derived([stage[e] EXCEPT !["assistant_persist"] =
                    [status |-> "completed",
                     attempts |-> stage[e]["assistant_persist"].attempts + 1]])
  <2>1. turn' = [turn EXCEPT ![e] =
          [turn[e] EXCEPT !.status = v, !.core = TRUE, !.assistant = TRUE]]
    BY DEF CompleteProactiveCore
  <2> HIDE DEF v
  <2>2. turn'[e].user = turn[e].user
    BY <1>0, <2>1 DEF LedgerTypeOK, TurnRow
  <2> QED BY <2>2 DEF CompleteProactiveCore, ProactiveBoundaryHeld
<1>3. /\ said' \in [Turns -> Nat] /\ said'[e] = users
      /\ \A u \in Turns \ {e} : said'[u] = said[u]
  BY <1>0 DEF WorldTypeOK
<1>4. Messages'
  BY <1>0, <1>1, <1>2, <1>3 DEF LoneWorld, Messages, WorldTypeOK
<1>5. Unanswered' \subseteq Unanswered \cup {e}
  BY <1>1, <1>3 DEF Unanswered
<1>6. /\ IsFiniteSet(Unanswered \cup {e})
      /\ Cardinality(Unanswered \cup {e}) <= Cardinality(Unanswered) + 1
      /\ Cardinality(Unanswered) \in Nat
  <2> DEFINE S == Unanswered
  <2>1. IsFiniteSet(S)
    BY DEF LoneWorld
  <2> HIDE DEF S
  <2>2. /\ IsFiniteSet(S \cup {e})
        /\ Cardinality(S \cup {e}) = IF e \in S THEN Cardinality(S) ELSE Cardinality(S) + 1
        /\ Cardinality(S) \in Nat
    BY <2>1, FS_AddElement, FS_CardinalityType
  <2>3. Cardinality(S \cup {e}) <= Cardinality(S) + 1
    BY <2>2
  <2> QED BY <2>2, <2>3 DEF S
<1>7. /\ IsFiniteSet(Unanswered')
      /\ Cardinality(Unanswered') <= Cardinality(Unanswered \cup {e})
  <2> DEFINE S == Unanswered \cup {e}
  <2>1. IsFiniteSet(S) /\ Unanswered' \in SUBSET S
    BY <1>5, <1>6
  <2> HIDE DEF S
  <2>2. IsFiniteSet(Unanswered') /\ Cardinality(Unanswered') <= Cardinality(S)
    BY <2>1, FS_Subset
  <2> QED BY <2>2 DEF S
<1>8. Cardinality(Unanswered') \in Nat /\ Cardinality(Unanswered \cup {e}) \in Nat
  BY <1>6, <1>7, FS_CardinalityType
<1>9. StreakBounded'
  BY <1>6, <1>7, <1>8, StreakAssumption DEF StreakBounded, WithinStreak, Streak
<1>10. /\ exec'[e].status = "MESSAGE_PERSISTED"
       /\ \A u \in Turns \ {e} : exec'[u] = exec[u]
  BY <1>0, StatusSet DEF ExecStatus, Blocking, Recoverable
<1>11. DoubtIsReal'
  BY <1>1, <1>10 DEF LoneWorld, DoubtIsReal, Status
<1> QED BY <1>4, <1>7, <1>9, <1>11 DEF LoneWorld

(* A step of the only process outside of its recovery.                        *)
LEMMA LoneWorks ==
  ASSUME Alone, AutonomyInv, LoneInv, NEW p \in Processes, LoneWorld',
         pc[p] \notin {"recovering", "settling"}, pc'[p] # "settling",
         listed'[p] = listed[p] \/ listed'[p] = NothingListed,
         pc'[p] \in {"evaluated", "cleared"} \cup Running => WithinStreak'
  PROVE  LoneInv'
<1>1. \A e \in Turns : listed'[p][e] = "none"
  BY DEF LoneInv, LoneStory, NothingListed
<1>2. LoneStory(p)'
  BY <1>1 DEF LoneStory
<1> QED BY <1>2 DEF Alone, LoneInv

LEMMA LoneLeaves ==
  ASSUME Alone, AutonomyInv, LoneInv, NEW p \in Processes, LoneWorld',
         NEW place \in Idle, Leave(p, place)
  PROVE  LoneInv'
<1>1. place \in ProcessPc /\ place \notin {"evaluated", "cleared", "settling"} \cup Running
  BY Places
<1>2. pc'[p] = place /\ listed'[p] = NothingListed
  BY <1>1, Leaves DEF AutonomyInv
<1>3. LoneStory(p)'
  BY <1>1, <1>2 DEF LoneStory, NothingListed
<1> QED BY <1>3 DEF Alone, LoneInv

(* An execution goes on, and is not taken up again once it failed.            *)
LEMMA LoneProceeds ==
  ASSUME Alone, AutonomyInv, LoneInv, NEW p \in Processes, InExecution(p), LoneWorld',
         NEW place \in Running \cup Failing \cup {"finalizing"}, NEW s \in Boundary,
         NEW why \in Reasons, Proceed(p, place, s, why),
         place \in Running => WithinStreak'
  PROVE  LoneInv'
<1>1. place \in ProcessPc /\ place \notin {"evaluated", "cleared", "settling"}
  BY Places
<1>2. pc'[p] = place /\ listed' = listed
  BY <1>1, Proceeds DEF AutonomyInv
<1>3. pc[p] \notin {"recovering", "settling"}
  BY Places DEF InExecution
<1> QED BY <1>1, <1>2, <1>3, LoneWorks

LEMMA LoneCycles ==
  ASSUME Alone, AutonomyInv, LoneInv, NEW p \in Processes, Cycles(p) \/ Abandon(p)
  PROVE  LoneInv'
<1>0. WorldInv /\ WorldTypeOK /\ ProcTypeOK /\ LoneWorld /\ LoneStory(p)
  BY DEF AutonomyInv, WorldInv, LoneInv
<1>1. ASSUME UNCHANGED <<ledgerVars, worldVars>> PROVE LoneKept
  BY <1>0, <1>1, LoneStill DEF worldVars, Status
<1>2. ASSUME NEW k \in Keys, Evaluate(p, k) PROVE LoneInv'
  <2>1. /\ pc[p] = "waiting" /\ WithinStreak /\ Goto(p, "evaluated")
        /\ UNCHANGED <<ledgerVars, worldVars, listed>>
    BY <1>2 DEF Evaluate
  <2>2. pc'[p] = "evaluated"
    BY <1>0, <2>1 DEF Goto, ProcTypeOK
  <2> QED BY <1>1, <2>1, <2>2, LoneWorks DEF LoneKept
<1>3. CASE PassGuard(p)
  <2>1. /\ pc[p] = "evaluated" /\ WithinStreak /\ Goto(p, "cleared")
        /\ UNCHANGED <<ledgerVars, worldVars, listed>>
    BY <1>3 DEF PassGuard, Eligible
  <2>2. pc'[p] = "cleared"
    BY <1>0, <2>1 DEF Goto, ProcTypeOK
  <2> QED BY <1>1, <2>1, <2>2, LoneWorks DEF LoneKept
<1>4. CASE Abandon(p)
  BY <1>1, <1>4, LoneLeaves, Places DEF Abandon, LoneKept
<1>5. ASSUME NEW e \in Turns, NEW ack \in BOOLEAN, Reserve(p, e, ack) PROVE LoneInv'
  <2> DEFINE row == [status |-> "RESERVED", key |-> intent[p].key, anchor |-> intent[p].anchor]
  <2>1. /\ pc[p] = "cleared" /\ BeginProactiveTurn(e) /\ UNCHANGED <<users, said>>
        /\ exec' = [exec EXCEPT ![e] = row]
    BY <1>5 DEF Reserve
  <2>2. row.status = "RESERVED"
    OBVIOUS
  <2> HIDE DEF row
  <2>3. \A u \in Turns : exec'[u].status = "INDETERMINATE" => Status(u) = "INDETERMINATE"
    BY <1>0, <2>1, <2>2 DEF WorldTypeOK, Status
  <2>4. LoneKept /\ WithinStreak
    BY <1>0, <2>1, <2>3, LoneBegins DEF LoneStory
  <2>5. CASE ack
    <3>1. Goto(p, "claim") /\ listed' = listed
      BY <1>5, <2>5 DEF Reserve
    <3>2. pc'[p] = "claim"
      BY <1>0, <3>1 DEF Goto, ProcTypeOK
    <3> QED BY <2>1, <2>4, <3>1, <3>2, LoneWorks DEF LoneKept
  <2>6. CASE ~ack
    <3>1. Leave(p, "waiting") /\ "waiting" \in Idle
      BY <1>5, <2>6, Places DEF Reserve
    <3> QED BY <2>4, <3>1, LoneLeaves DEF LoneKept
  <2> QED BY <2>5, <2>6
<1> QED BY <1>2, <1>3, <1>4, <1>5 DEF Cycles

LEMMA LoneFails ==
  ASSUME Alone, AutonomyInv, LoneInv, NEW p \in Processes, Fails(p) \/ Crash(p) \/ Cancel(p)
  PROVE  LoneInv'
<1>0. ProcTypeOK /\ LoneWorld /\ UNCHANGED <<ledgerVars, worldVars>>
  BY DEF AutonomyInv, LoneInv, Fails, StageRaises, FinalizeFails, LoseStage, LoseCore,
         LoseFailSafe, RecoveryFails, Crash, Cancel
<1>1. LoneWorld'
  BY <1>0, LoneStill DEF worldVars, Status, LoneKept
<1>2. ASSUME NEW place \in Idle, Leave(p, place) PROVE LoneInv'
  BY <1>1, <1>2, LoneLeaves
<1>3. ASSUME InExecution(p), NEW place \in Failing, NEW why \in Reasons,
             Proceed(p, place, At(p), why)
      PROVE  LoneInv'
  <2>1. At(p) \in Boundary /\ place \notin Running
    BY <1>0, Places DEF ProcTypeOK, At
  <2> HIDE DEF At
  <2> QED BY <1>1, <1>3, <2>1, LoneProceeds
<1>4. CASE StageRaises(p) \/ Cancel(p)
  <2>1. InExecution(p) /\ "stagefail" \in Failing /\ {"other", "cancelled"} \subseteq Reasons
    BY <1>4, Places DEF StageRaises, Cancel, InExecution, Reasons
  <2> QED BY <1>3, <1>4, <2>1 DEF StageRaises, Cancel
<1>5. CASE LoseStage(p)
  <2>1. pc[p] = "stagefail" /\ AfterStageFailure(p, Replaced(job[p].why))
    BY <1>5 DEF LoseStage
  <2>2. /\ InExecution(p) /\ "corefail" \in Failing /\ "down" \in Idle
        /\ Replaced(job[p].why) \in Reasons
    BY <1>0, <2>1, Places DEF InExecution, ProcTypeOK, Replaced, Reasons
  <2> QED BY <1>2, <1>3, <2>1, <2>2 DEF AfterStageFailure
<1>6. CASE FinalizeFails(p) \/ LoseCore(p) \/ LoseFailSafe(p) \/ RecoveryFails(p) \/ Crash(p)
  BY <1>2, <1>6, Places DEF FinalizeFails, LoseCore, LoseFailSafe, RecoveryFails, Crash
<1> QED BY <1>4, <1>5, <1>6 DEF Fails

(* The execution goes on, ends, or fails, after a step that adds no message.  *)
LEMMA LoneGoesOn ==
  ASSUME Alone, AutonomyInv, LoneInv, NEW p \in Processes, InExecution(p), LoneKept,
         \/ \E place \in Running, s \in Boundary, why \in Reasons :
              pc[p] \in Running /\ Proceed(p, place, s, why)
         \/ \E place \in Failing, s \in Boundary, why \in Reasons : Proceed(p, place, s, why)
         \/ \E place \in Idle : Leave(p, place)
  PROVE  LoneInv'
<1>1. ASSUME NEW place \in Running, NEW s \in Boundary, NEW why \in Reasons,
             pc[p] \in Running, Proceed(p, place, s, why)
      PROVE  LoneInv'
  <2>1. WithinStreak'
    BY <1>1 DEF LoneInv, LoneStory, LoneKept
  <2> QED BY <1>1, <2>1, LoneProceeds DEF LoneKept
<1>2. ASSUME NEW place \in Failing, NEW s \in Boundary, NEW why \in Reasons,
             Proceed(p, place, s, why)
      PROVE  LoneInv'
  <2>1. place \notin Running
    BY Places
  <2> QED BY <1>2, <2>1, LoneProceeds DEF LoneKept
<1>3. ASSUME NEW place \in Idle, Leave(p, place) PROVE LoneInv'
  BY <1>3, LoneLeaves DEF LoneKept
<1> QED BY <1>1, <1>2, <1>3

LEMMA LoneExecutes ==
  ASSUME Alone, AutonomyInv, LoneInv, NEW p \in Processes, Executes(p)
  PROVE  LoneInv'
<1>0. /\ WorldInv /\ WorldTypeOK /\ ProcTypeOK /\ JobStory(p) /\ LoneWorld
      /\ At(p) \in Boundary /\ job[p].why \in Reasons
      /\ {"none", "gate", "confirmed", "invalid", "other"} \subseteq Reasons
      /\ {"context_prepare", "provider_generate", "assistant_persist"} = Boundary
  BY StageKinds DEF AutonomyInv, WorldInv, LoneInv, ProcTypeOK, At, Reasons
<1>m. InExecution(p) => Mine(p) \in Turns
  BY <1>0 DEF JobStory
<1>s. ASSUME UNCHANGED <<ledgerVars, users, said, exec>> PROVE LoneKept
  BY <1>0, <1>s, LoneStill DEF Status
<1>1. CASE GuardAgain(p) \/ GuardRefuses(p) \/ StartRefused(p) \/ ProviderReplies(p)
             \/ PersistRefused(p) \/ ProviderFails(p)
  <2>1. UNCHANGED <<ledgerVars, users, said, exec>>
    BY <1>1 DEF GuardAgain, GuardRefuses, StartRefused, ProviderReplies, PersistRefused,
                ProviderFails, worldVars
  <2>2. InExecution(p) /\ pc[p] \in Running
    BY <1>1, Places DEF GuardAgain, GuardRefuses, StartRefused, ProviderReplies, PersistRefused,
                ProviderFails, InExecution
  <2>3. \/ \E place \in Running, why \in Reasons : Proceed(p, place, At(p), why)
        \/ \E place \in Failing, why \in Reasons : Proceed(p, place, At(p), why)
    BY <1>0, <1>1, Places DEF GuardAgain, GuardRefuses, StartRefused, ProviderReplies,
                PersistRefused, ProviderFails
  <2> HIDE DEF At
  <2> QED BY <1>0, <1>s, <2>1, <2>2, <2>3, LoneGoesOn
<1>2. ASSUME NEW s \in ExecStatus \ {"INDETERMINATE"}, InExecution(p),
             SetStatus(Mine(p), s), UNCHANGED <<ledgerVars, users, said>>
      PROVE  LoneKept
  <2>1. \A u \in Turns : exec'[u].status = "INDETERMINATE" => Status(u) = "INDETERMINATE"
    BY <1>0, <1>2, <1>m, StatusSet DEF Status
  <2> QED BY <1>0, <1>2, <2>1, LoneStill
<1>n. {"PROVIDER_STARTED", "COMPLETE", "FAILED_SAFE"} \subseteq ExecStatus \ {"INDETERMINATE"}
  BY DEF ExecStatus, Blocking, Recoverable
<1>3. ASSUME NEW ack \in BOOLEAN, StartProvider(p, ack) PROVE LoneInv'
  <2>1. /\ InExecution(p) /\ pc[p] \in Running /\ SetStatus(Mine(p), "PROVIDER_STARTED")
        /\ UNCHANGED <<ledgerVars, users, said>>
    BY <1>3, Places DEF StartProvider, InExecution
  <2>2. LoneKept
    BY <1>2, <1>n, <2>1
  <2>3. Proceed(p, "calling", At(p), "none") \/ Proceed(p, "stagefail", At(p), "other")
    BY <1>3 DEF StartProvider
  <2> HIDE DEF At
  <2> QED BY <1>0, <2>1, <2>2, <2>3, LoneGoesOn, Places
<1>4. CASE Finalize(p) \/ FailSafe(p)
  <2>1. /\ InExecution(p) /\ Leave(p, "waiting") /\ UNCHANGED <<ledgerVars, users, said>>
        /\ \/ exec' = exec
           \/ \E s \in {"COMPLETE", "FAILED_SAFE"} : SetStatus(Mine(p), s)
    BY <1>4, Places DEF Finalize, FailSafe, InExecution
  <2>2. LoneKept
    BY <1>2, <1>n, <1>s, <2>1
  <2> QED BY <2>1, <2>2, LoneGoesOn, Places
<1>5. ASSUME NEW ack \in BOOLEAN,
             Claim(p, ack) \/ CloseWork(p, ack) \/ RecordStage(p, ack) \/ RecordCore(p, ack)
      PROVE  LoneInv'
  <2>1. InExecution(p)
    BY <1>5, Places DEF Claim, CloseWork, RecordStage, RecordCore, InExecution
  <2>2. TameStep(Mine(p)) /\ UNCHANGED worldVars
    <3>1. CASE Claim(p, ack) \/ CloseWork(p, ack) \/ RecordStage(p, ack)
      BY <1>0, <3>1 DEF Claim, CloseWork, RecordStage, TameStep
    <3>2. CASE RecordCore(p, ack)
      BY <3>2 DEF RecordCore, TameStep
    <3> QED BY <1>5, <3>1, <3>2
  <2>3. LoneKept
    BY <1>0, <1>m, <2>1, <2>2, LoneTame DEF worldVars, Status
  <2>4. CASE Claim(p, ack)
    <3>1. pc[p] \in Running /\ {"closing", "guarding"} \subseteq Running /\ "stagefail" \in Failing
      BY <2>4, Places DEF Claim
    <3>2. \/ Proceed(p, "stagefail", At(p), "other")
          \/ \E place \in {"closing", "guarding"} : Proceed(p, place, At(p), "none")
      BY <2>4 DEF Claim
    <3> HIDE DEF At
    <3> QED BY <1>0, <2>1, <2>3, <3>1, <3>2, LoneGoesOn
  <2>5. CASE CloseWork(p, ack)
    <3>1. pc[p] \in Running /\ {"claim", "persisting"} \subseteq Running /\ "stagefail" \in Failing
      BY <2>5, Places DEF CloseWork
    <3>2. \/ Proceed(p, "stagefail", At(p), "other")
          \/ Proceed(p, "claim", "provider_generate", "none")
          \/ Proceed(p, "persisting", "assistant_persist", "none")
      BY <2>5 DEF CloseWork
    <3> HIDE DEF At
    <3> QED BY <1>0, <2>1, <2>3, <3>1, <3>2, LoneGoesOn
  <2>6. CASE RecordStage(p, ack)
    <3>1. \E why \in Reasons : AfterStageFailure(p, why)
      BY <1>0, <2>6 DEF RecordStage, Replaced
    <3>2. Leave(p, "down") \/ \E why \in Reasons : Proceed(p, "corefail", At(p), why)
      BY <3>1 DEF AfterStageFailure
    <3> HIDE DEF At
    <3> QED BY <1>0, <2>1, <2>3, <3>2, LoneGoesOn, Places
  <2>7. CASE RecordCore(p, ack)
    <3>1. Leave(p, "waiting") \/ \E why \in Reasons : Proceed(p, "safing", At(p), why)
      BY <1>0, <2>7 DEF RecordCore
    <3> HIDE DEF At
    <3> QED BY <1>0, <2>1, <2>3, <3>1, LoneGoesOn, Places
  <2> QED BY <1>5, <2>4, <2>5, <2>6, <2>7
<1>6. ASSUME NEW ack \in BOOLEAN, Persist(p, ack) PROVE LoneInv'
  <2>1. /\ pc[p] = "persisting" /\ CompleteProactiveCore(Mine(p))
        /\ SetStatus(Mine(p), "MESSAGE_PERSISTED")
        /\ said' = [said EXCEPT ![Mine(p)] = users] /\ users' = users
    BY <1>6 DEF Persist
  <2>2. InExecution(p) /\ WithinStreak
    BY <2>1, Places DEF InExecution, LoneInv, LoneStory
  <2>3. LoneWorld'
    BY <1>0, <1>m, <2>1, <2>2, LoneSpeaks
  <2>4. \E place \in {"finalizing", "stagefail"}, why \in Reasons : Proceed(p, place, At(p), why)
    BY <1>0, <1>6 DEF Persist
  <2>5. /\ {"finalizing", "stagefail"} \subseteq Failing \cup {"finalizing"}
        /\ "finalizing" \notin Running /\ "stagefail" \notin Running
    BY Places
  <2> HIDE DEF At
  <2> QED BY <1>0, <2>2, <2>3, <2>4, <2>5, LoneProceeds
<1> QED BY <1>1, <1>3, <1>4, <1>5, <1>6 DEF Executes

LEMMA LoneRecovers ==
  ASSUME Alone, AutonomyInv, LoneInv, NEW p \in Processes, Recovers(p) \/ Start(p) \/ Close(p)
  PROVE  LoneInv'
<1>0. /\ WorldInv /\ WorldTypeOK /\ LedgerInv /\ ProcTypeOK /\ JobStory(p)
      /\ LoneWorld /\ LoneStory(p)
      /\ \A u \in Turns : TurnStory(u)
  BY DEF AutonomyInv, WorldInv, LedgerInv, LoneInv
<1>1. ASSUME UNCHANGED <<ledgerVars, worldVars>>
      PROVE  /\ LoneWorld' /\ turn' = turn /\ exec' = exec
             /\ \A e \in Turns : Status(e)' = Status(e)
  BY <1>0, <1>1, LoneStill DEF ledgerVars, worldVars, Status, LoneKept
<1>2. CASE StartScheduler(p) \/ Start(p) \/ Close(p)
  <2>1. /\ pc'[p] \in {"waiting", "listing", "down"} /\ pc[p] \notin {"settling"}
        /\ listed' = listed /\ UNCHANGED <<ledgerVars, worldVars>>
        /\ pc[p] = "recovering" => listed[p] = NothingListed
    BY <1>0, <1>2 DEF StartScheduler, Start, Close, Goto, ProcTypeOK
  <2>2. \A e \in Turns : listed'[p][e] = "none"
    BY <1>0, <2>1 DEF LoneStory, NothingListed
  <2>3. LoneStory(p)'
    BY <2>1, <2>2, Places DEF LoneStory
  <2> QED BY <1>1, <2>1, <2>3 DEF Alone, LoneInv
<1>3. CASE ListExecutions(p)
  <2> DEFINE l == [e \in Turns |-> IF Status(e) \in Recoverable THEN Status(e) ELSE "none"]
  <2>1. /\ listed' = [listed EXCEPT ![p] = l] /\ Goto(p, "recovering")
        /\ UNCHANGED <<ledgerVars, worldVars>>
    BY <1>3 DEF ListExecutions
  <2>2. \A e \in Turns : l[e] # "none" => Status(e) = l[e]
    OBVIOUS
  <2> HIDE DEF l
  <2>3. pc'[p] = "recovering" /\ listed'[p] = l
    BY <1>0, <2>1 DEF Goto, ProcTypeOK
  <2>4. LoneStory(p)'
    BY <1>1, <2>1, <2>2, <2>3, Places DEF LoneStory, Status
  <2> QED BY <1>1, <2>1, <2>4 DEF Alone, LoneInv
<1>4. ASSUME NEW e \in Turns, ReadTurn(p, e) PROVE LoneInv'
  <2> DEFINE v == Verdict(e, listed[p][e])
  <2>1. /\ pc[p] = "recovering" /\ listed[p][e] # "none" /\ Goto(p, "settling")
        /\ verdict' = [verdict EXCEPT ![p] = v] /\ job' = [job EXCEPT ![p].turn = e]
        /\ UNCHANGED <<ledgerVars, worldVars, listed>>
    BY <1>4 DEF ReadTurn
  <2>2. Status(e) = listed[p][e] /\ ExecStory(e) /\ TurnStory(e)
        /\ ~turn[e].user /\ (turn[e].assistant => turn[e].core)
    BY <1>0, <2>1 DEF LoneStory, WorldInv, LoneWorld, Messages
  <2>3. v = "FAILED_SAFE" => listed[p][e] = "RESERVED"
    BY DEF Verdict
  <2>4. v = "INDETERMINATE" => ~turn[e].assistant
    <3>1. listed[p][e] = "RESERVED" => ~turn[e].core
      BY <2>2 DEF ExecStory
    <3>2. turn[e].core => turn[e].status = "complete"
      BY <2>2 DEF TurnStory
    <3> QED BY <2>2, <3>1, <3>2 DEF Verdict
  <2> HIDE DEF v
  <2>5. pc'[p] = "settling" /\ verdict'[p] = v /\ job'[p].turn = e /\ listed' = listed
    BY <1>0, <2>1 DEF Goto, ProcTypeOK
  <2>6. LoneStory(p)'
    BY <1>0, <1>1, <2>1, <2>3, <2>4, <2>5, Places DEF LoneStory, Mine
  <2> QED BY <1>1, <2>1, <2>6 DEF Alone, LoneInv
<1>5. ASSUME NEW ack \in BOOLEAN, SettleExecution(p, ack) PROVE LoneInv'
  <2> DEFINE e == Mine(p)
  <2>1. /\ pc[p] = "settling" /\ UNCHANGED <<users, said>>
        /\ IF Status(e) \in SettledFrom(verdict[p]) THEN SetStatus(e, verdict[p]) ELSE exec' = exec
        /\ IF verdict[p] = "FAILED_SAFE" THEN FailBeforeProvider(e) ELSE UNCHANGED ledgerVars
    BY <1>5 DEF SettleExecution
  <2>2. /\ e \in Turns /\ verdict[p] \in {"COMPLETE", "FAILED_SAFE", "INDETERMINATE"}
        /\ verdict[p] = "INDETERMINATE" => ~turn[e].assistant
    BY <1>0, <2>1 DEF JobStory, ProcTypeOK, LoneStory
  <2>3. verdict[p] \in ExecStatus
    BY <2>2 DEF ExecStatus, Blocking, Recoverable
  <2> HIDE DEF e
  <2>4. /\ \A u \in Turns \ {e} : exec'[u] = exec[u]
        /\ exec'[e].status \in {Status(e), verdict[p]}
    BY <1>0, <2>1, <2>2, <2>3, StatusSet DEF Status
  <2>5. \A u \in Turns : exec'[u].status = "INDETERMINATE" =>
          Status(u) = "INDETERMINATE" \/ ~turn[u].assistant
    BY <2>2, <2>4 DEF Status
  <2>6. LoneKept
    <3>1. CASE verdict[p] = "FAILED_SAFE"
      BY <1>0, <2>1, <2>2, <2>5, <3>1, LoneTame DEF TameStep
    <3>2. CASE verdict[p] # "FAILED_SAFE"
      BY <1>0, <2>1, <2>5, <3>2, LoneStill
    <3> QED BY <3>1, <3>2
  <2>7. CASE ack
    <3>1. Goto(p, "recovering") /\ listed' = [listed EXCEPT ![p][e] = "none"]
      BY <1>5, <2>7 DEF SettleExecution, e
    <3>2. /\ pc'[p] = "recovering" /\ listed'[p][e] = "none"
          /\ \A u \in Turns \ {e} : listed'[p][u] = listed[p][u]
      BY <1>0, <2>2, <3>1 DEF Goto, ProcTypeOK
    <3>3. LoneStory(p)'
      BY <1>0, <2>4, <3>2, Places DEF LoneStory, Status
    <3> QED BY <2>6, <3>3 DEF Alone, LoneInv, LoneKept
  <2>8. CASE ~ack
    <3>1. Leave(p, "stopped") /\ "stopped" \in Idle
      BY <1>5, <2>8, Places DEF SettleExecution
    <3> QED BY <2>6, <3>1, LoneLeaves DEF LoneKept
  <2> QED BY <2>7, <2>8
<1> QED BY <1>2, <1>3, <1>4, <1>5 DEF Recovers

LEMMA LoneListens ==
  ASSUME AutonomyInv, LoneInv, UserSpeaks \/ \E e \in Turns : UserDeletes(e)
  PROVE  LoneInv'
<1>0. WorldInv /\ LoneWorld
  BY DEF AutonomyInv, LoneInv
<1>1. UNCHANGED <<pc, job, listed, verdict, exec>>
  BY DEF UserSpeaks, UserDeletes, processVars, worldVars
<1>2. LoneKept
  <2>1. CASE UserSpeaks
    BY <1>0, <2>1, LoneHears DEF UserSpeaks
  <2>2. ASSUME NEW e \in Turns, UserDeletes(e) PROVE LoneKept
    BY <1>0, <2>2, LoneTame DEF UserDeletes, TameStep, worldVars, Status
  <2> QED BY <2>1, <2>2
<1>3. ASSUME NEW p \in Processes PROVE LoneStory(p)'
  <2>1. LoneStory(p) /\ JobStory(p)
    BY DEF AutonomyInv, LoneInv
  <2>2. pc[p] = "settling" => Mine(p) \in Turns
    BY <2>1 DEF JobStory
  <2>3. pc[p] = "settling" /\ verdict[p] = "INDETERMINATE" => ~turn'[Mine(p)].assistant
    BY <1>2, <2>1, <2>2 DEF LoneStory, LoneKept
  <2> QED BY <1>1, <1>2, <2>1, <2>3 DEF LoneStory, LoneKept, Mine, Status
<1> QED BY <1>2, <1>3 DEF LoneInv, LoneKept

LEMMA LoneSteps ==
  ASSUME Alone, AutonomyInv, LoneInv, [Next]_vars
  PROVE  LoneInv'
<1>1. CASE UNCHANGED vars
  <2>1. UNCHANGED <<ledgerVars, users, said, exec, pc, job, listed, verdict>>
    BY <1>1 DEF vars, worldVars, processVars
  <2>2. LoneKept /\ turn' = turn
    BY <2>1, LoneStill DEF LoneInv, Status, ledgerVars
  <2>3. \A p \in Processes : LoneStory(p)'
    BY <2>1, <2>2 DEF LoneInv, LoneStory, LoneKept, Mine, Status
  <2> QED BY <2>2, <2>3 DEF LoneInv, LoneKept
<1>2. CASE UserSpeaks \/ \E e \in Turns : UserDeletes(e)
  BY <1>2, LoneListens
<1>3. ASSUME NEW p \in Processes, Cycles(p) \/ Abandon(p) PROVE LoneInv'
  BY <1>3, LoneCycles
<1>4. ASSUME NEW p \in Processes, Fails(p) \/ Crash(p) \/ Cancel(p) PROVE LoneInv'
  BY <1>4, LoneFails
<1>5. ASSUME NEW p \in Processes, Recovers(p) \/ Start(p) \/ Close(p) PROVE LoneInv'
  BY <1>5, LoneRecovers
<1>6. ASSUME NEW p \in Processes, Executes(p) PROVE LoneInv'
  BY <1>6, LoneExecutes
<1> QED BY <1>1, <1>2, <1>3, <1>4, <1>5, <1>6 DEF Next

LEMMA LoneStarts == Init => LoneInv
<1> SUFFICES ASSUME Init PROVE LoneInv
  OBVIOUS
<1>1. Messages
  BY DEF Init, LedgerInit, Messages
<1>2. Unanswered = {}
  BY DEF Init, LedgerInit, Unanswered
<1>3. IsFiniteSet(Unanswered) /\ Streak = 0
  BY <1>2, FS_EmptySet DEF Streak
<1>4. StreakBounded /\ DoubtIsReal
  BY <1>3, StreakAssumption DEF StreakBounded, DoubtIsReal, Init, Status
<1>5. \A p \in Processes : LoneStory(p)
  BY Places DEF Init, LoneStory, NothingListed
<1> QED BY <1>1, <1>3, <1>4, <1>5 DEF LoneInv, LoneWorld

(* What one process alone may rely on, with any crashes, failures, deletions  *)
(* and messages of the user in between: recovery and the guards of a cycle    *)
(* act on facts that only this process can change.                            *)
THEOREM LoneInvariant == Alone => (Spec => []LoneInv)
<1> SUFFICES ASSUME Alone PROVE Spec => []LoneInv
  OBVIOUS
<1>1. AutonomyInv /\ LoneInv /\ [Next]_vars => LoneInv'
  BY LoneSteps
<1> QED BY <1>1, LoneStarts, AutonomyInvariant, PTL DEF Spec

(* One process never leaves more messages unanswered than the policy allows,  *)
(* although it counts them before the provider call and writes after it       *)
(* (MAX_IGNORED_STREAK).                                                      *)
THEOREM LoneStreak == Alone => (Spec => []StreakBounded)
<1> SUFFICES ASSUME Alone PROVE Spec => []StreakBounded
  OBVIOUS
<1>1. LoneInv => StreakBounded
  BY DEF LoneInv, LoneWorld
<1> QED BY <1>1, LoneInvariant, PTL

(* One process gives an execution up as ambiguous only when its message is    *)
(* not there: the recovery of autonomy_execution_store.py tells a committed   *)
(* message from a call of unknown outcome.                                    *)
THEOREM LoneDoubt == Alone => (Spec => []DoubtIsReal)
<1> SUFFICES ASSUME Alone PROVE Spec => []DoubtIsReal
  OBVIOUS
<1>1. LoneInv => DoubtIsReal
  BY DEF LoneInv, LoneWorld
<1> QED BY <1>1, LoneInvariant, PTL

(* The recovery of one process fails a turn only before its provider was      *)
(* called, although it reads and writes in different transactions.            *)
THEOREM LoneRecovery == Alone => (Spec => RecoveryFailsBeforeProvider)
<1> SUFFICES ASSUME Alone PROVE Spec => RecoveryFailsBeforeProvider
  OBVIOUS
<1>1. ASSUME AutonomyInv, LoneInv, [Next]_vars
      PROVE  [\A p \in Processes, e \in Turns :
                /\ pc[p] = "settling" /\ pc'[p] # "settling"
                /\ turn[e].status = "pending" /\ turn'[e].status = "core_failed"
                => called[e] = "none"]_vars
  <2> SUFFICES ASSUME NEW p \in Processes, NEW e \in Turns, pc[p] = "settling",
                      pc'[p] # "settling",
                      turn[e].status = "pending", turn'[e].status = "core_failed"
               PROVE  called[e] = "none"
    OBVIOUS
  <2>0. turn' # turn /\ pc' # pc
    OBVIOUS
  <2>1. \E ack \in BOOLEAN : SettleExecution(p, ack)
    <3>1. ~UNCHANGED vars /\ ~UserSpeaks /\ ~\E u \in Turns : UserDeletes(u)
      BY <2>0 DEF vars, processVars, UserSpeaks, UserDeletes
    <3>2. \E q \in Processes :
            \/ Cycles(q) \/ Abandon(q) \/ Executes(q) \/ Fails(q) \/ Recovers(q)
            \/ Start(q) \/ Crash(q) \/ Cancel(q) \/ Close(q)
      BY <1>1, <3>1 DEF Next
    <3>3. \/ Cycles(p) \/ Abandon(p) \/ Executes(p) \/ Fails(p) \/ Recovers(p)
          \/ Start(p) \/ Crash(p) \/ Cancel(p) \/ Close(p)
      BY <3>2 DEF Alone
    <3>4. ~Cycles(p) /\ ~Abandon(p) /\ ~Start(p) /\ ~Crash(p) /\ ~Cancel(p) /\ ~Close(p)
      BY <2>0, Places DEF Cycles, Evaluate, PassGuard, Reserve, Abandon, Start, Crash, Cancel,
                          Close, ledgerVars
    <3>5. ~Fails(p)
      BY <2>0 DEF Fails, StageRaises, FinalizeFails, LoseStage, LoseCore, LoseFailSafe,
                  RecoveryFails, ledgerVars
    <3>6. ~Executes(p)
      BY DEF Executes, GuardAgain, GuardRefuses, StartRefused, ProviderReplies, ProviderFails,
             PersistRefused, Finalize, FailSafe, Claim, StartProvider, CloseWork, Persist,
             RecordStage, RecordCore
    <3> QED BY <3>3, <3>4, <3>5, <3>6 DEF Recovers, ListExecutions, StartScheduler, ReadTurn
  <2>2. /\ IF verdict[p] = "FAILED_SAFE" THEN FailBeforeProvider(Mine(p))
           ELSE UNCHANGED ledgerVars
    BY <2>1 DEF SettleExecution
  <2>3. verdict[p] = "FAILED_SAFE" /\ FailBeforeProvider(Mine(p))
    BY <2>0, <2>2 DEF ledgerVars
  <2>4. /\ LedgerInv /\ JobStory(p) /\ LoneStory(p) /\ \A u \in Turns : ExecStory(u)
    BY <1>1 DEF AutonomyInv, WorldInv, LoneInv
  <2>5. Mine(p) \in Turns /\ Status(Mine(p)) = "RESERVED"
    BY <2>3, <2>4 DEF JobStory, LoneStory
  <2>6. e = Mine(p)
    BY <2>3, <2>4, <2>5, TameSteps DEF TameStep
  <2> QED BY <2>4, <2>5, <2>6 DEF ExecStory
<1> QED BY <1>1, LoneInvariant, AutonomyInvariant, PTL DEF Spec, RecoveryFailsBeforeProvider

=============================================================================
