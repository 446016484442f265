------------------------------ MODULE ChatTurn ------------------------------
(* Foreground chat turns and their recovery, over the ledger of TurnLedger.   *)
(*                                                                            *)
(* Each turn is executed once by the request handler of its home device       *)
(* (chat_turn_coordinator._execute_chat_turn).  Each device runs the recovery *)
(* of turn_recovery.recover_incomplete_turns once per process: before its     *)
(* first protected request when the storage is SHARED, beside the requests    *)
(* otherwise.  Devices share nothing but the ledger, so every step below is   *)
(* one transaction, one read, or one local step.                              *)
EXTENDS TurnLedger, Sequences

CONSTANTS
  Devices,       \* processes that have the persona database open
  Home,          \* Home[t]: the device whose user sends the message of t
  Shared,        \* persona_storage_mode = "SHARED"
  BatchLimit,    \* RECOVERY_BATCH_LIMIT
  LostAcks,      \* a commit may reach the database and still be reported failed
  MaxFaults,     \* bound: failed or unacknowledged transactions in a behaviour
  MaxCrashes,    \* bound: process crashes
  MaxDeletions   \* bound: deleted messages

ASSUME HomeAssumption == Home \in [Turns -> Devices]
ASSUME FlagsAssumption == Shared \in BOOLEAN /\ LostAcks \in BOOLEAN
ASSUME BoundsAssumption ==
  /\ BatchLimit \in Nat
  /\ {MaxFaults, MaxCrashes, MaxDeletions} \subseteq Nat

VARIABLES
  pc,      \* pc[t]: where the request handler of t is
  left,    \* left[t]: post-cognition stages it has not come to
  has,     \* has[t]: products it holds (experience, decision_record, ...)
  chosen,  \* chosen[t]: decision_candidate is not None
  rpc,     \* rpc[d]: where the recovery of d is; "down" when no process runs
  batch,   \* batch[d]: listed turns it has not come to
  subject, \* subject[d]: the turn it resumes
  inputs,  \* inputs[d]: product rows of that turn when its inputs were read
  seen,    \* seen[d]: stages it believes completed (stage_status)
  rows,    \* rows[d]: candidate rows it has not come to
  faults, crashes, deletions  \* counters for the bounds

requestVars == <<pc, left, has, chosen>>
recoveryVars == <<rpc, batch, subject, inputs, seen, rows>>
budgetVars == <<faults, crashes, deletions>>
vars == <<ledgerVars, requestVars, recoveryVars, budgetVars>>

Live == {"context", "prepared", "calling", "replied", "failing", "post",
         "unmarked", "operating", "operated", "unclosed"}
RequestPc == Live \cup {"idle", "gone"}
RecoveryPc == {"down", "idle", "pick", "terminalize", "snapshot", "resume",
               "unmarked", "finished"}

TypeOK ==
  /\ LedgerTypeOK
  /\ pc \in [Turns -> RequestPc]
  /\ left \in [Turns -> SUBSET Tracked]
  /\ has \in [Turns -> SUBSET Products]
  /\ chosen \in [Turns -> BOOLEAN]
  /\ rpc \in [Devices -> RecoveryPc]
  /\ batch \in [Devices -> SUBSET Turns]
  /\ subject \in [Devices -> Turns]
  /\ inputs \in [Devices -> SUBSET Products]
  /\ seen \in [Devices -> SUBSET Stages]
  /\ rows \in [Devices -> SUBSET Tracked]
  /\ faults \in Nat /\ crashes \in Nat /\ deletions \in Nat

-----------------------------------------------------------------------------
(* Order of the stages.  The request handler leaves the shadow models for     *)
(* after the response when there is an episode, and settles them at once      *)
(* when there is none.  Recovery follows the order of POST_COGNITION_STAGES.  *)
UpToGoals ==
  <<"intention_persist", "self_expression_goal", "decision", "decision_cancel",
    "memory_extraction", "experience", "emotion_attribution_link",
    "relationship", "preferences", "diana_preferences", "consolidation",
    "episode", "decision_episode_link", "knowledge", "goal_fulfillment">>
AfterGoals == <<"decision_execution", "goal_progress", "working_memory_post">>
Shadows == <<"narrative", "self_model">>

LedgerOrder == UpToGoals \o AfterGoals \o Shadows
RequestOrder(t) ==
  IF "episode" \in has[t] THEN LedgerOrder ELSE UpToGoals \o Shadows \o AfterGoals

Precedes(r, s, order) ==
  \E i, j \in DOMAIN order : i < j /\ order[i] = r /\ order[j] = s
First(set, order) ==
  CHOOSE s \in set : \A r \in set \ {s} : Precedes(s, r, order)
IsFirst(s, set, order) == s \in set /\ s = First(set, order)

OnExperience == {"emotion_attribution_link", "relationship", "preferences"}

(* The stages recovery wants completed before it resumes s.                   *)
Prerequisites(s) ==
  CASE s \in OnExperience -> {"experience"}
    [] s \in {"narrative", "self_model"} -> {"episode"}
    [] s = "decision_episode_link" -> {"decision", "episode"}
    [] s = "goal_fulfillment" -> {"knowledge"}
    [] OTHER -> {}

(* The product rows without which s has nothing to work on.                   *)
Needs(s) ==
  CASE s \in OnExperience \cup {"diana_preferences", "consolidation"} -> {"experience"}
    [] s \in {"narrative", "self_model", "goal_fulfillment"} -> {"episode"}
    [] s = "decision_episode_link" -> {"decision", "episode"}
    [] OTHER -> {}

(* TRUE: the request handler runs the work of s.  FALSE: it completes s as a  *)
(* no-op.  Where what was said decides, both.                                 *)
RequestRuns(t, s) ==
  CASE s \in {"intention_persist", "memory_extraction", "working_memory_post"} -> BOOLEAN
    [] s = "decision" -> {chosen[t]}
    [] s \in {"decision_cancel", "decision_execution"} -> {~chosen[t]}
    [] s = "goal_fulfillment" -> IF "episode" \in has[t] THEN BOOLEAN ELSE {FALSE}
    [] OTHER -> {Needs(s) \subseteq has[t]}

(* Mutant of RecoveryRuns: every handler wants both rows.                     *)
RecoveryRunsOnBoth(d, s) ==
  IF Needs(s) = {} THEN TRUE ELSE {"experience", "episode"} \subseteq inputs[d]

(* The same choice by recovery, from the rows it read.                        *)
RecoveryRuns(d, s) ==
  CASE s \in {"decision_cancel", "decision_execution"} -> "decision" \notin inputs[d]
    [] s = "goal_fulfillment" -> TRUE
    [] OTHER -> Needs(s) \subseteq inputs[d]

(* Work that calls a model or touches only process memory.                    *)
Outside(s, work) == work /\ s \in {"memory_extraction", "consolidation"}

-----------------------------------------------------------------------------
Fault == faults < MaxFaults /\ faults' = faults + 1
LostAck == LostAcks /\ Fault
NoFault == faults' = faults
Elsewhere == UNCHANGED <<crashes, deletions>>

Init ==
  /\ LedgerInit
  /\ pc = [t \in Turns |-> "idle"]
  /\ left = [t \in Turns |-> {}]
  /\ has = [t \in Turns |-> {}]
  /\ chosen = [t \in Turns |-> FALSE]
  /\ rpc = [d \in Devices |-> "down"]
  /\ batch = [d \in Devices |-> {}]
  /\ \E t \in Turns : subject = [d \in Devices |-> t]
  /\ inputs = [d \in Devices |-> {}]
  /\ seen = [d \in Devices |-> {}]
  /\ rows = [d \in Devices |-> {}]
  /\ faults = 0 /\ crashes = 0 /\ deletions = 0

(* The handler of t is over; its local variables are gone with it.            *)
EndHandler(t) ==
  /\ pc' = [pc EXCEPT ![t] = "gone"]
  /\ left' = [left EXCEPT ![t] = {}]
  /\ has' = [has EXCEPT ![t] = {}]
  /\ chosen' = [chosen EXCEPT ![t] = FALSE]

(* So are those of a recovery that leaves its turn.                           *)
Forget(d) ==
  /\ inputs' = [inputs EXCEPT ![d] = {}]
  /\ seen' = [seen EXCEPT ![d] = {}]
  /\ rows' = [rows EXCEPT ![d] = {}]

(* The process of d accepts messages and deletions.  In SHARED mode the       *)
(* middleware holds them back until one recovery has gone through.            *)
Serving(d) == rpc[d] # "down" /\ (Shared => rpc[d] = "finished")

-----------------------------------------------------------------------------
(* The request handler of turn t, up to the durable reply.                    *)

ReceiveMessage(t) ==
  /\ pc[t] = "idle" /\ Serving(Home[t])
  /\ BeginTurn(t)
  /\ pc' = [pc EXCEPT ![t] = "context"]
  /\ NoFault /\ Elsewhere /\ UNCHANGED <<left, has, chosen, recoveryVars>>

PrepareContext(t) ==
  /\ pc[t] = "context"
  /\ MarkContextPrepared(t)
  /\ pc' = [pc EXCEPT ![t] = "prepared"]
  /\ NoFault /\ Elsewhere /\ UNCHANGED <<left, has, chosen, recoveryVars>>

(* Nothing catches an exception before the provider is started: the request   *)
(* ends and the turn stays pending.                                           *)
LeavePending(t) ==
  /\ pc[t] \in {"context", "prepared"}
  /\ EndHandler(t)
  /\ NoFault /\ Elsewhere /\ UNCHANGED <<ledgerVars, recoveryVars>>

StartProvider(t) ==
  /\ pc[t] = "prepared"
  /\ MarkProviderStarted(t)
  /\ pc' = [pc EXCEPT ![t] = "calling"]
  /\ NoFault /\ Elsewhere /\ UNCHANGED <<left, has, chosen, recoveryVars>>

ProviderReplies(t) ==
  /\ pc[t] = "calling"
  /\ pc' = [pc EXCEPT ![t] = "replied"]
  /\ \E c \in BOOLEAN : chosen' = [chosen EXCEPT ![t] = c]
  /\ NoFault /\ Elsewhere /\ UNCHANGED <<ledgerVars, left, has, recoveryVars>>

(* Mutant of ProviderFails: the exception leaves the handler unrecorded.      *)
ProviderFailsUnrecorded(t) ==
  /\ pc[t] \in {"calling", "replied"}
  /\ EndHandler(t)
  /\ Fault /\ Elsewhere /\ UNCHANGED <<ledgerVars, recoveryVars>>

(* The provider call, or the memory reinforcement after it, raises.           *)
ProviderFails(t) ==
  /\ pc[t] \in {"calling", "replied"}
  /\ pc' = [pc EXCEPT ![t] = "failing"]
  /\ Fault /\ Elsewhere /\ UNCHANGED <<ledgerVars, left, has, chosen, recoveryVars>>

SaveReply(t) ==
  /\ pc[t] = "replied"
  /\ CompleteCore(t)
  /\ pc' = [pc EXCEPT ![t] = "post"]
  /\ left' = [left EXCEPT ![t] = Tracked]
  /\ NoFault /\ Elsewhere /\ UNCHANGED <<has, chosen, recoveryVars>>

(* The commit reaches the database, its acknowledgement does not come back.   *)
SaveReplyUnacknowledged(t) ==
  /\ pc[t] = "replied"
  /\ CompleteCore(t)
  /\ pc' = [pc EXCEPT ![t] = "failing"]
  /\ LostAck /\ Elsewhere /\ UNCHANGED <<left, has, chosen, recoveryVars>>

(* The boundary was taken away, or the transaction fails and rolls back.      *)
SaveReplyFails(t) ==
  /\ pc[t] = "replied"
  /\ IF BoundaryHeld(t) /\ ~turn[t].core THEN Fault ELSE NoFault
  /\ pc' = [pc EXCEPT ![t] = "failing"]
  /\ Elsewhere /\ UNCHANGED <<ledgerVars, left, has, chosen, recoveryVars>>

RecordCoreFailure(t) ==
  /\ pc[t] = "failing"
  /\ MarkCoreFailed(t)
  /\ EndHandler(t)
  /\ NoFault /\ Elsewhere /\ UNCHANGED recoveryVars

(* mark_core_failed raises as well: the turn stays pending.                   *)
LoseCoreFailure(t) ==
  /\ pc[t] = "failing"
  /\ EndHandler(t)
  /\ Fault /\ Elsewhere /\ UNCHANGED <<ledgerVars, recoveryVars>>

-----------------------------------------------------------------------------
(* The request handler of turn t, post-cognition.  Every failure is logged    *)
(* and the handler goes on to the next stage.                                 *)

AtStage(t, s) == pc[t] = "post" /\ IsFirst(s, left[t], RequestOrder(t))
AtOpenStage(t, s) == IsFirst(s, left[t], RequestOrder(t))
PassStage(t, s) ==
  /\ left' = [left EXCEPT ![t] = @ \ {s}]
  /\ pc' = [pc EXCEPT ![t] = "post"]

RunStage(t, s) ==
  /\ AtStage(t, s)
  /\ \E work \in RequestRuns(t, s) :
       /\ ~Outside(s, work)
       /\ CommitStage(t, s, work)
  /\ has' = [has EXCEPT ![t] = @ \cup ({s} \cap produced'[t])]
  /\ PassStage(t, s)
  /\ NoFault /\ Elsewhere /\ UNCHANGED <<chosen, recoveryVars>>

RunStageUnacknowledged(t, s) ==
  /\ AtStage(t, s)
  /\ \E work \in RequestRuns(t, s) :
       /\ ~Outside(s, work)
       /\ CommitStage(t, s, work)
  /\ pc' = [pc EXCEPT ![t] = "unmarked"]
  /\ LostAck /\ Elsewhere /\ UNCHANGED <<left, has, chosen, recoveryVars>>

StageRollsBack(t, s) ==
  /\ AtStage(t, s)
  /\ MayClaim(stage[t][s])
  /\ \E work \in RequestRuns(t, s) :
       /\ IF work /\ ~CanProduce(t, s) THEN NoFault ELSE Fault
       /\ pc' = [pc EXCEPT ![t] = IF Outside(s, work) THEN "unclosed" ELSE "unmarked"]
  /\ Elsewhere /\ UNCHANGED <<ledgerVars, left, has, chosen, recoveryVars>>

StageNotClaimed(t, s) ==
  /\ AtStage(t, s)
  /\ MayRefuse(stage[t][s])
  /\ PassStage(t, s)
  /\ NoFault /\ Elsewhere /\ UNCHANGED <<ledgerVars, has, chosen, recoveryVars>>

RecordStageFailure(t, s) ==
  /\ pc[t] \in {"unmarked", "unclosed"} /\ AtOpenStage(t, s)
  /\ MarkStageFailed(t, s, IF pc[t] = "unmarked" THEN 1 ELSE 0)
  /\ PassStage(t, s)
  /\ NoFault /\ Elsewhere /\ UNCHANGED <<has, chosen, recoveryVars>>

LoseStageFailure(t, s) ==
  /\ pc[t] \in {"unmarked", "unclosed"} /\ AtOpenStage(t, s)
  /\ PassStage(t, s)
  /\ Fault /\ Elsewhere /\ UNCHANGED <<ledgerVars, has, chosen, recoveryVars>>

ClaimOutside(t, s) ==
  /\ AtStage(t, s)
  /\ \E work \in RequestRuns(t, s) : Outside(s, work)
  /\ ClaimStage(t, s)
  /\ pc' = [pc EXCEPT ![t] = "operating"]
  /\ NoFault /\ Elsewhere /\ UNCHANGED <<left, has, chosen, recoveryVars>>

Operate(t, s) ==
  /\ pc[t] = "operating" /\ AtOpenStage(t, s) /\ Outside(s, TRUE)
  /\ OperateOutside(t, s)
  /\ pc' = [pc EXCEPT ![t] = "operated"]
  /\ NoFault /\ Elsewhere /\ UNCHANGED <<left, has, chosen, recoveryVars>>

CloseOutside(t, s) ==
  /\ pc[t] = "operated" /\ AtOpenStage(t, s) /\ Outside(s, TRUE)
  /\ CloseStage(t, s)
  /\ PassStage(t, s)
  /\ NoFault /\ Elsewhere /\ UNCHANGED <<has, chosen, recoveryVars>>

OutsideFails(t) ==
  /\ pc[t] \in {"operating", "operated"}
  /\ pc' = [pc EXCEPT ![t] = "unclosed"]
  /\ Fault /\ Elsewhere /\ UNCHANGED <<ledgerVars, left, has, chosen, recoveryVars>>

EndRequest(t) ==
  /\ pc[t] = "post" /\ left[t] = {}
  /\ EndHandler(t)
  /\ NoFault /\ Elsewhere /\ UNCHANGED <<ledgerVars, recoveryVars>>

-----------------------------------------------------------------------------
(* Recovery on device d.                                                      *)

(* Mutant of Incomplete: partial turns are not selected.                      *)
IncompleteUnfailed == {t \in Turns : turn[t].core /\ turn[t].status = "core_completed"}

Incomplete ==
  {t \in Turns : turn[t].core /\ turn[t].status \in {"core_completed", "partial"}}

(* The BatchLimit turns with the oldest updated_at.                           *)
IsBatch(B) ==
  /\ B \subseteq Incomplete
  /\ Cardinality(B) <= BatchLimit
  /\ B # Incomplete => Cardinality(B) = BatchLimit
  /\ \A u \in Incomplete \ B, t \in B : <<u, t>> \notin older

(* A turn the caller says was interrupted on another device; the evidence for *)
(* it is the caller's, so the ledger has to hold even when it is wrong.       *)
Settle(d, t) ==
  /\ rpc[d] = "idle" /\ Home[t] # d
  /\ SettleInterrupted(t)
  /\ NoFault /\ Elsewhere /\ UNCHANGED <<requestVars, recoveryVars>>

ListTurns(d) ==
  /\ rpc[d] = "idle"
  /\ \E B \in SUBSET Turns : IsBatch(B) /\ batch' = [batch EXCEPT ![d] = B]
  /\ rpc' = [rpc EXCEPT ![d] = "pick"]
  /\ NoFault /\ Elsewhere
  /\ UNCHANGED <<ledgerVars, requestVars, subject, inputs, seen, rows>>

(* The listing raises.  A SHARED process answers 503 and tries again at the   *)
(* next request; a background recovery task just ends.                        *)
ListingFails(d) ==
  /\ rpc[d] = "idle"
  /\ rpc' = [rpc EXCEPT ![d] = IF Shared THEN "idle" ELSE "finished"]
  /\ Fault /\ Elsewhere
  /\ UNCHANGED <<ledgerVars, requestVars, batch, subject, inputs, seen, rows>>

(* get_turn and _recovery_inputs; the turns of a batch may come in any order. *)
TakeTurn(d) ==
  /\ rpc[d] = "pick"
  /\ \E t \in batch[d] :
       /\ batch' = [batch EXCEPT ![d] = @ \ {t}]
       /\ subject' = [subject EXCEPT ![d] = t]
       /\ inputs' = [inputs EXCEPT ![d] = found[t]]
       /\ rpc' = [rpc EXCEPT ![d] =
            IF MessagesPresent(t) THEN "snapshot" ELSE "terminalize"]
  /\ NoFault /\ Elsewhere /\ UNCHANGED <<ledgerVars, requestVars, seen, rows>>

Terminalize(d) ==
  /\ rpc[d] = "terminalize"
  /\ TerminalizeMissingInput(subject[d])
  /\ rpc' = [rpc EXCEPT ![d] = "pick"]
  /\ Forget(d)
  /\ NoFault /\ Elsewhere /\ UNCHANGED <<requestVars, batch, subject>>

(* get_stages and stage_rows_for_recovery, after the inputs were read.        *)
Completed(t) == {s \in Stages : stage[t][s].status = "completed"}
Candidates(t) ==
  {s \in Tracked \cap Automatic :
     /\ stage[t][s].status \notin {"absent", "completed"}
     /\ stage[t][s].attempts < MaxStageAttempts}

ReadStages(d) ==
  /\ rpc[d] = "snapshot"
  /\ seen' = [seen EXCEPT ![d] = Completed(subject[d])]
  /\ rows' = [rows EXCEPT ![d] = Candidates(subject[d])]
  /\ rpc' = [rpc EXCEPT ![d] = "resume"]
  /\ NoFault /\ Elsewhere
  /\ UNCHANGED <<ledgerVars, requestVars, batch, subject, inputs>>

AtRow(d, s) == IsFirst(s, rows[d], LedgerOrder)
(* Mutant of MayResume: prerequisites are not consulted.                      *)
MayResumeAnyway(d, s) == rpc[d] = "resume" /\ AtRow(d, s)
MayResume(d, s) ==
  rpc[d] = "resume" /\ AtRow(d, s) /\ Prerequisites(s) \subseteq seen[d]
PassRow(d, s) ==
  /\ rows' = [rows EXCEPT ![d] = @ \ {s}]
  /\ rpc' = [rpc EXCEPT ![d] = "resume"]

ResumeStage(d, s) ==
  /\ MayResume(d, s)
  /\ CommitStage(subject[d], s, RecoveryRuns(d, s))
  /\ seen' = [seen EXCEPT ![d] = @ \cup {s}]
  /\ PassRow(d, s)
  /\ NoFault /\ Elsewhere /\ UNCHANGED <<requestVars, batch, subject, inputs>>

ResumeStageUnacknowledged(d, s) ==
  /\ MayResume(d, s)
  /\ CommitStage(subject[d], s, RecoveryRuns(d, s))
  /\ rpc' = [rpc EXCEPT ![d] = "unmarked"]
  /\ LostAck /\ Elsewhere
  /\ UNCHANGED <<requestVars, batch, subject, inputs, seen, rows>>

ResumedStageRollsBack(d, s) ==
  /\ MayResume(d, s)
  /\ MayClaim(stage[subject[d]][s])
  /\ rpc' = [rpc EXCEPT ![d] = "unmarked"]
  /\ Fault /\ Elsewhere
  /\ UNCHANGED <<ledgerVars, requestVars, batch, subject, inputs, seen, rows>>

PassOver(d, s) ==
  /\ rpc[d] = "resume" /\ AtRow(d, s)
  /\ \/ ~(Prerequisites(s) \subseteq seen[d])
     \/ MayRefuse(stage[subject[d]][s])
  /\ PassRow(d, s)
  /\ NoFault /\ Elsewhere
  /\ UNCHANGED <<ledgerVars, requestVars, batch, subject, inputs, seen>>

RecordResumeFailure(d, s) ==
  /\ rpc[d] = "unmarked" /\ AtRow(d, s)
  /\ MarkStageFailed(subject[d], s, 1)
  /\ PassRow(d, s)
  /\ NoFault /\ Elsewhere /\ UNCHANGED <<requestVars, batch, subject, inputs, seen>>

LoseResumeFailure(d, s) ==
  /\ rpc[d] = "unmarked" /\ AtRow(d, s)
  /\ PassRow(d, s)
  /\ Fault /\ Elsewhere
  /\ UNCHANGED <<ledgerVars, requestVars, batch, subject, inputs, seen>>

LeaveTurn(d) ==
  /\ rpc[d] = "resume" /\ rows[d] = {}
  /\ rpc' = [rpc EXCEPT ![d] = "pick"]
  /\ Forget(d)
  /\ NoFault /\ Elsewhere /\ UNCHANGED <<ledgerVars, requestVars, batch, subject>>

(* A read or the terminalization raises; recovery goes on with the next turn. *)
ResumeAborts(d) ==
  /\ rpc[d] \in {"terminalize", "snapshot"}
  /\ rpc' = [rpc EXCEPT ![d] = "pick"]
  /\ Forget(d)
  /\ Fault /\ Elsewhere /\ UNCHANGED <<ledgerVars, requestVars, batch, subject>>

FinishRecovery(d) ==
  /\ rpc[d] = "pick" /\ batch[d] = {}
  /\ rpc' = [rpc EXCEPT ![d] = "finished"]
  /\ NoFault /\ Elsewhere
  /\ UNCHANGED <<ledgerVars, requestVars, batch, subject, inputs, seen, rows>>

-----------------------------------------------------------------------------
(* Processes and the user.                                                    *)

Start(d) ==
  /\ rpc[d] = "down"
  /\ rpc' = [rpc EXCEPT ![d] = "idle"]
  /\ NoFault /\ Elsewhere
  /\ UNCHANGED <<ledgerVars, requestVars, batch, subject, inputs, seen, rows>>

LiveOn(d) == {t \in Turns : Home[t] = d /\ pc[t] \in Live}

(* Requests and recovery of d die wherever they are.                          *)
Crash(d) ==
  /\ rpc[d] # "down" /\ crashes < MaxCrashes
  /\ crashes' = crashes + 1
  /\ pc' = [t \in Turns |-> IF t \in LiveOn(d) THEN "gone" ELSE pc[t]]
  /\ left' = [t \in Turns |-> IF t \in LiveOn(d) THEN {} ELSE left[t]]
  /\ has' = [t \in Turns |-> IF t \in LiveOn(d) THEN {} ELSE has[t]]
  /\ chosen' = [t \in Turns |-> t \notin LiveOn(d) /\ chosen[t]]
  /\ rpc' = [rpc EXCEPT ![d] = "down"]
  /\ batch' = [batch EXCEPT ![d] = {}]
  /\ Forget(d)
  /\ NoFault /\ UNCHANGED <<ledgerVars, subject, deletions>>

(* The user closes an idle application; opening it again is Start.            *)
Close(d) ==
  /\ rpc[d] = "finished" /\ LiveOn(d) = {}
  /\ rpc' = [rpc EXCEPT ![d] = "down"]
  /\ NoFault /\ Elsewhere
  /\ UNCHANGED <<ledgerVars, requestVars, batch, subject, inputs, seen, rows>>

UserDeletes(t, who) ==
  /\ \E d \in Devices : Serving(d)
  /\ deletions < MaxDeletions /\ deletions' = deletions + 1
  /\ DeleteMessage(t, who)
  /\ NoFault /\ UNCHANGED <<requestVars, recoveryVars, crashes>>

-----------------------------------------------------------------------------
RequestAdvances(t) ==
  \/ PrepareContext(t) \/ StartProvider(t) \/ ProviderReplies(t)
  \/ SaveReply(t) \/ SaveReplyFails(t) \/ RecordCoreFailure(t)
  \/ EndRequest(t)
  \/ \E s \in Tracked :
       \/ RunStage(t, s) \/ StageRollsBack(t, s) \/ StageNotClaimed(t, s)
       \/ RecordStageFailure(t, s)
       \/ ClaimOutside(t, s) \/ Operate(t, s) \/ CloseOutside(t, s)

RequestFaults(t) ==
  \/ LeavePending(t) \/ ProviderFails(t) \/ SaveReplyUnacknowledged(t)
  \/ LoseCoreFailure(t) \/ OutsideFails(t)
  \/ \E s \in Tracked : RunStageUnacknowledged(t, s) \/ LoseStageFailure(t, s)

RecoveryAdvances(d) ==
  \/ ListTurns(d) \/ TakeTurn(d) \/ Terminalize(d) \/ ReadStages(d)
  \/ LeaveTurn(d) \/ FinishRecovery(d)
  \/ \E s \in Tracked :
       ResumeStage(d, s) \/ PassOver(d, s) \/ RecordResumeFailure(d, s)

RecoveryFaults(d) ==
  \/ ListingFails(d) \/ ResumeAborts(d)
  \/ \E s \in Tracked :
       \/ ResumeStageUnacknowledged(d, s) \/ ResumedStageRollsBack(d, s)
       \/ LoseResumeFailure(d, s)

Next ==
  \/ \E t \in Turns :
       \/ ReceiveMessage(t) \/ RequestAdvances(t) \/ RequestFaults(t)
       \/ \E who \in {"user", "assistant"} : UserDeletes(t, who)
  \/ \E d \in Devices :
       \/ Start(d) \/ Crash(d) \/ Close(d)
       \/ RecoveryAdvances(d) \/ RecoveryFaults(d)
       \/ \E t \in Turns : Settle(d, t)

Spec == Init /\ [][Next]_vars

(* A running request and a running recovery go on; a stopped process is       *)
(* started again and an idle one is closed some day.                          *)
Fairness ==
  /\ \A t \in Turns : WF_vars(RequestAdvances(t))
  /\ \A d \in Devices :
       WF_vars(RecoveryAdvances(d)) /\ WF_vars(Start(d)) /\ WF_vars(Close(d))

FairSpec == Spec /\ Fairness

-----------------------------------------------------------------------------
(* Properties.                                                                *)

Transactional == Tracked \ {"memory_extraction", "consolidation"}

(* A stage's work and its ledger row agree whatever is interleaved, rolled    *)
(* back, retried or left unacknowledged: the work of a transactional stage    *)
(* has been committed at most once, and never while its row says it still has *)
(* to be done (turn_durability.run_stage: one transaction for both).          *)
LedgerTruth ==
  \A t \in Turns, s \in Transactional :
    /\ applied[t][s] <= 1
    /\ stage[t][s].status # "completed" => applied[t][s] = 0

(* A turn has its reply exactly when it has its core mark, and then the whole *)
(* boundary is completed; a turn that failed has neither, nor any post-stage. *)
CoreTruth ==
  \A t \in Turns :
    /\ turn[t].core <=> turn[t].status \in {"core_completed", "partial", "complete"}
    /\ turn[t].assistant => turn[t].core
    /\ turn[t].core => \A s \in Boundary : stage[t][s].status = "completed"
    /\ ~turn[t].core => \A s \in Tracked : stage[t][s].status = "absent"

(* The status shown for an answered turn is the one its rows give: no writer  *)
(* leaves it behind (complete with work open, or open with all work done).    *)
(* A turn that lost a message is left out: terminalization makes it partial   *)
(* although no row may have failed.                                           *)
StatusDerived ==
  \A t \in Turns :
    turn[t].core /\ MessagesPresent(t) => turn[t].status = Derived(stage[t])

(* A core outcome is final: an answered turn is never unanswered, and a turn  *)
(* recorded as core_failed, by its handler or by a settlement that raced it,  *)
(* is never answered afterwards.                                              *)
CoreOutcomeFinal ==
  [][\A t \in Turns :
       /\ turn[t].core => turn'[t].core
       /\ turn[t].status = "core_failed" => turn'[t].status = "core_failed"]_vars

(* "Completed stages are always skipped": a completed row never changes and   *)
(* its work is never run again, by whichever device.                          *)
CompletedStays ==
  [][\A t \in Turns, s \in Stages :
       stage[t][s].status = "completed" =>
         stage'[t][s] = stage[t][s] /\ applied'[t][s] = applied[t][s]]_vars

(* Recovery never completes a stage before the stages it depends on, although *)
(* it decides from a snapshot that others may have outrun.                    *)
RecoveryHonoursPrerequisites ==
  [][\A d \in Devices, s \in Tracked :
       LET t == subject[d] IN
       /\ rpc[d] = "resume" /\ s \in rows[d]
       /\ UNCHANGED requestVars /\ <<rpc[d], rows[d]>>' # <<rpc[d], rows[d]>>
       /\ stage[t][s].status # "completed" /\ stage'[t][s].status = "completed"
       => \A p \in Prerequisites(s) : stage[t][p].status = "completed"]_vars

(* A stage completed without running means there was nothing to run it on:    *)
(* "Complete a stage whose durable prerequisite proves no work exists."       *)
NoWorkSkipped ==
  \A t \in Turns, s \in Tracked :
    /\ stage[t][s].status = "completed" /\ applied[t][s] = 0
    /\ Needs(s) # {} /\ s # "goal_fulfillment"
    => ~(Needs(s) \subseteq produced[t])

(* "Automatic stages stop after three failed attempts."                       *)
AttemptsBounded ==
  \A t \in Turns, s \in Stages : stage[t][s].attempts <= MaxStageAttempts

Runnable(t, s) ==
  /\ turn[t].core
  /\ stage[t][s].status # "completed" /\ stage[t][s].attempts < MaxStageAttempts
  /\ \A p \in Prerequisites(s) : stage[t][p].status = "completed"

(* An automatic stage that could be recovered is some day completed or has    *)
(* used up its attempts, if processes keep being started.                     *)
RunnableStagesSettle ==
  \A t \in Turns, s \in Tracked \cap Automatic :
    Runnable(t, s) ~> ~Runnable(t, s)

(* Once the provider was called, the turn is answered or recorded as failed:  *)
(* no single failure leaves it pending, only a process that died or a second  *)
(* failure while the first was being recorded.                                *)
StartedTurnsAreDecided ==
  \A t \in Turns :
    pc[t] \in {"calling", "replied", "failing"} ~>
      turn[t].status # "pending" \/ crashes > 0 \/ faults > 1

-----------------------------------------------------------------------------
(* The abstract turn a ledger stands for.                                     *)
Phase(t) ==
  CASE turn[t].status = "none" -> "none"
    [] turn[t].status = "pending" -> "open"
    [] turn[t].status = "core_failed" -> "failed"
    [] OTHER -> "answered"

Promise == INSTANCE TurnPromise WITH
  Stages <- Transactional,
  phase <- [t \in Turns |-> Phase(t)],
  settled <- [t \in Turns |->
    {s \in Transactional : stage[t][s].status = "completed"}],
  worked <- [t \in Turns |-> [s \in Transactional |-> applied[t][s]]]

(* The ledger, with every request, recovery, crash and fault around it, keeps *)
(* the promise of TurnPromise.                                                *)
KeepsPromise == Promise!Spec

=============================================================================
