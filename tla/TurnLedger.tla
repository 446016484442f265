----------------------------- MODULE TurnLedger -----------------------------
(* The durable ledger of chat turns: the rows of chat_turns and               *)
(* chat_turn_stages and the transactions of app/services/turn_durability.py   *)
(* that write them.  Each operator below is one committed transaction.  Who   *)
(* issues them, in which order, and what a lost reply does is in ChatTurn.    *)
EXTENDS Integers, FiniteSets

CONSTANTS
  Turns,            \* the turns of a run, by user message id or execution
  Tracked,          \* the post-cognition stages followed, a part of PostStages
  MaxStageAttempts  \* MAX_STAGE_ATTEMPTS

(* Stages whose inputs recovery can rebuild (retry policy "automatic").       *)
Automatic ==
  {"decision_cancel", "emotion_attribution_link", "relationship",
   "preferences", "decision_episode_link", "knowledge", "goal_fulfillment",
   "decision_execution", "goal_progress", "narrative", "self_model"}

PostStages ==
  Automatic \cup
  {"intention_persist", "self_expression_goal", "decision",
   "memory_extraction", "experience", "diana_preferences", "consolidation",
   "episode", "working_memory_post"}

(* Stages of the provider boundary, present from the start of the turn.       *)
Boundary == {"context_prepare", "provider_generate", "assistant_persist"}

(* Stages that leave a row other stages depend on.                            *)
Products == {"experience", "decision", "episode"}

Stages == Boundary \cup Tracked

ASSUME TrackedAssumption == Tracked \subseteq PostStages /\ Tracked # {}
ASSUME AttemptsAssumption == MaxStageAttempts \in Nat \ {0}

VARIABLES
  turn,      \* turn[t]: the chat_turns row
  stage,     \* stage[t][s]: the chat_turn_stages row
  older,     \* <<u, t>>: updated_at of u is before that of t
  found,     \* found[t]: product rows that carry the turn's two message ids
  produced,  \* produced[t]: products a committed stage of t handed on
  applied    \* applied[t][s]: committed runs of the work of s (history)

ledgerVars == <<turn, stage, older, found, produced, applied>>

RowStatus == {"absent", "pending", "running", "failed", "completed"}
TurnStatus ==
  {"none", "pending", "core_failed", "core_completed", "partial", "complete"}

Row == [status : RowStatus, attempts : Nat]
TurnRow == [status : TurnStatus, core : BOOLEAN, user : BOOLEAN, assistant : BOOLEAN]

LedgerTypeOK ==
  /\ turn \in [Turns -> TurnRow]
  /\ stage \in [Turns -> [Stages -> Row]]
  /\ older \in SUBSET (Turns \X Turns)
  /\ found \in [Turns -> SUBSET Products]
  /\ produced \in [Turns -> SUBSET Products]
  /\ applied \in [Turns -> [Stages -> Nat]]

NoRow == [status |-> "absent", attempts |-> 0]
FreshRow == [status |-> "pending", attempts |-> 0]

LedgerInit ==
  /\ turn = [t \in Turns |->
       [status |-> "none", core |-> FALSE, user |-> FALSE, assistant |-> FALSE]]
  /\ stage = [t \in Turns |-> [s \in Stages |-> NoRow]]
  /\ older = {}
  /\ found = [t \in Turns |-> {}]
  /\ produced = [t \in Turns |-> {}]
  /\ applied = [t \in Turns |-> [s \in Stages |-> 0]]

-----------------------------------------------------------------------------
(* The status a refresh derives from the stage rows of a turn.                *)
Derived(rows) ==
  IF \E s \in Stages : rows[s].status = "failed" THEN "partial"
  ELSE IF \E s \in Stages : rows[s].status \notin {"absent", "completed"}
       THEN "core_completed" ELSE "complete"

(* updated_at := now makes t the latest of the turns that exist.              *)
Touched(t) ==
  {p \in older : p[1] # t} \cup
  {<<u, t>> : u \in {v \in Turns \ {t} : turn[v].status # "none"}}

(* Stage rows of t become rows and the turn is refreshed from them; only a    *)
(* turn whose core is completed takes the derived status.                     *)
WriteAndRefresh(t, rows) ==
  /\ stage' = [stage EXCEPT ![t] = rows]
  /\ turn' = [turn EXCEPT ![t].status = IF turn[t].core THEN Derived(rows) ELSE @]
  /\ older' = IF turn[t].core THEN Touched(t) ELSE older

(* Mutant of MayClaim: a completed row is claimed.                            *)
MayClaimCompleted(r) ==
  r.status \notin {"absent"} /\ r.attempts < MaxStageAttempts

(* A claim succeeds on a pending or failed row with attempts left.  A running *)
(* row goes either way: one older than RUNNING_STAGE_STALE_AFTER is first set *)
(* to failed.                                                                 *)
MayClaim(r) ==
  r.status \in {"pending", "running", "failed"} /\ r.attempts < MaxStageAttempts
MayRefuse(r) ==
  r.status \notin {"pending", "failed"} \/ r.attempts >= MaxStageAttempts

-----------------------------------------------------------------------------
BeginTurn(t) ==
  /\ turn[t].status = "none"
  /\ turn' = [turn EXCEPT ![t] =
       [status |-> "pending", core |-> FALSE, user |-> TRUE, assistant |-> FALSE]]
  /\ stage' = [stage EXCEPT ![t] =
       [s \in Stages |-> IF s \in Boundary THEN FreshRow ELSE NoRow]]
  /\ older' = Touched(t)
  /\ UNCHANGED <<found, produced, applied>>

CoreOpen(t) == turn[t].status = "pending" /\ ~turn[t].core

MarkContextPrepared(t) ==
  /\ CoreOpen(t)
  /\ stage[t]["context_prepare"].status = "pending"
  /\ stage' = [stage EXCEPT ![t]["context_prepare"] =
       [status |-> "completed", attempts |-> 1]]
  /\ UNCHANGED <<turn, older, found, produced, applied>>

MarkProviderStarted(t) ==
  /\ CoreOpen(t)
  /\ stage[t]["context_prepare"].status = "completed"
  /\ stage[t]["provider_generate"].status = "pending"
  /\ stage' = [stage EXCEPT ![t]["provider_generate"] =
       [status |-> "running", attempts |-> @.attempts + 1]]
  /\ UNCHANGED <<turn, older, found, produced, applied>>

(* Another device settles a provider call it has been told was interrupted.   *)
SettleInterrupted(t) ==
  /\ turn[t].status = "pending" /\ ~turn[t].assistant /\ turn[t].user
  /\ stage[t]["provider_generate"].status = "running"
  /\ stage' = [stage EXCEPT ![t]["provider_generate"].status = "failed"]
  /\ turn' = [turn EXCEPT ![t].status = "core_failed"]
  /\ older' = Touched(t)
  /\ UNCHANGED <<found, produced, applied>>

(* Mutant of BoundaryHeld: the provider stage is not looked at.               *)
BoundaryHeldByContext(t) == stage[t]["context_prepare"].status = "completed"

BoundaryHeld(t) ==
  /\ stage[t]["context_prepare"].status = "completed"
  /\ stage[t]["provider_generate"].status = "running"

(* What the core transaction makes of row r of stage s.                       *)
CoreRow(s, r) ==
  CASE s = "provider_generate" /\ r.status = "running" ->
         [status |-> "completed", attempts |-> r.attempts]
    [] s = "assistant_persist" /\ r.status = "pending" ->
         [status |-> "completed", attempts |-> 1]
    [] s \in Tracked /\ r.status = "absent" -> FreshRow
    [] OTHER -> r

(* Assistant message, core mark and the pending post-stage rows, together.    *)
CompleteCore(t) ==
  /\ BoundaryHeld(t)
  /\ ~turn[t].core
  /\ turn' = [turn EXCEPT ![t] =
       [@ EXCEPT !.status = "core_completed", !.core = TRUE, !.assistant = TRUE]]
  /\ stage' = [stage EXCEPT ![t] = [s \in Stages |-> CoreRow(s, @[s])]]
  /\ older' = Touched(t)
  /\ UNCHANGED <<found, produced, applied>>

(* Mutant of MarkCoreFailed: "core_completed_at is null" is missing.          *)
MarkAnyCoreFailed(t) ==
  /\ turn' = [turn EXCEPT ![t].status = "core_failed"]
  /\ older' = Touched(t)
  /\ UNCHANGED <<stage, found, produced, applied>>

MarkCoreFailed(t) ==
  /\ IF turn[t].core
     THEN UNCHANGED <<turn, older>>
     ELSE /\ turn' = [turn EXCEPT ![t].status = "core_failed"]
          /\ older' = Touched(t)
  /\ UNCHANGED <<stage, found, produced, applied>>

-----------------------------------------------------------------------------
(* Turns the persona starts on its own: no user message, no post-stages.      *)

BeginProactiveTurn(t) ==
  /\ turn[t].status = "none"
  /\ turn' = [turn EXCEPT ![t] =
       [status |-> "pending", core |-> FALSE, user |-> FALSE, assistant |-> FALSE]]
  /\ stage' = [stage EXCEPT ![t] =
       [s \in Stages |-> IF s \in Boundary THEN FreshRow ELSE NoRow]]
  /\ older' = Touched(t)
  /\ UNCHANGED <<found, produced, applied>>

ProactiveBoundaryHeld(t) ==
  /\ ~turn[t].user /\ ~turn[t].core
  /\ stage[t]["context_prepare"].status = "completed"
  /\ stage[t]["provider_generate"].status = "completed"
  /\ MayClaim(stage[t]["assistant_persist"])

(* Message, core mark, completed stage and refresh, together.                 *)
CompleteProactiveCore(t) ==
  LET kept == [stage[t] EXCEPT !["assistant_persist"] =
                 [status |-> "completed", attempts |-> @.attempts + 1]] IN
  /\ ProactiveBoundaryHeld(t)
  /\ stage' = [stage EXCEPT ![t] = kept]
  /\ turn' = [turn EXCEPT ![t] =
       [@ EXCEPT !.status = Derived(kept), !.core = TRUE, !.assistant = TRUE]]
  /\ older' = Touched(t)
  /\ UNCHANGED <<found, produced, applied>>

-----------------------------------------------------------------------------
(* Experiences and episodes reference both messages of the turn.              *)
MessagesPresent(t) == turn[t].user /\ turn[t].assistant
CanProduce(t, s) == s \in {"experience", "episode"} => MessagesPresent(t)

(* What the work of a stage leaves behind.  An experience is always recorded. *)
(* A decision equal to one still active returns that older row, which carries *)
(* another turn's message ids.  An episode may not be worth keeping; a story  *)
(* continued within thirty minutes takes over the episode of an earlier turn  *)
(* u, whose message ids it overwrites.                                        *)
NoProduct(t) == UNCHANGED <<found, produced>>
OwnRow(t, s) ==
  /\ found' = [found EXCEPT ![t] = @ \cup {s}]
  /\ produced' = [produced EXCEPT ![t] = @ \cup {s}]
DuplicateDecision(t) ==
  /\ found' = found
  /\ produced' = [produced EXCEPT ![t] = @ \cup {"decision"}]
MergedEpisode(t, u) ==
  /\ u # t
  /\ "experience" \in produced[t]
  /\ {"experience", "episode"} \subseteq found[u]
  /\ found' = [found EXCEPT ![u] = @ \ {"episode"}, ![t] = @ \cup {"episode"}]
  /\ produced' = [produced EXCEPT ![t] = @ \cup {"episode"}]

LeavesProduct(t, s) ==
  \/ s \notin {"experience", "decision"} /\ NoProduct(t)
  \/ s \in Products /\ OwnRow(t, s)
  \/ s = "decision" /\ DuplicateDecision(t)
  \/ s = "episode" /\ \E u \in Turns : MergedEpisode(t, u)

(* run_stage inside one transaction: claim, operation, completed mark and     *)
(* refresh.  work is FALSE for an explicit no-op.                             *)
CommitStage(t, s, work) ==
  /\ MayClaim(stage[t][s])
  /\ WriteAndRefresh(t, [stage[t] EXCEPT ![s] =
       [status |-> "completed", attempts |-> @.attempts + 1]])
  /\ IF work
     THEN /\ CanProduce(t, s)
          /\ LeavesProduct(t, s)
          /\ applied' = [applied EXCEPT ![t][s] = @ + 1]
     ELSE UNCHANGED <<found, produced, applied>>

(* run_stage for work outside the database: the claim commits by itself, the  *)
(* operation follows, the completed mark is a later transaction.              *)
ClaimStage(t, s) ==
  /\ MayClaim(stage[t][s])
  /\ stage' = [stage EXCEPT ![t][s] =
       [status |-> "running", attempts |-> @.attempts + 1]]
  /\ UNCHANGED <<turn, older, found, produced, applied>>

OperateOutside(t, s) ==
  /\ applied' = [applied EXCEPT ![t][s] = @ + 1]
  /\ UNCHANGED <<turn, stage, older, found, produced>>

CloseStage(t, s) ==
  /\ WriteAndRefresh(t, [stage[t] EXCEPT ![s].status =
       IF @ = "running" THEN "completed" ELSE @])
  /\ UNCHANGED <<found, produced, applied>>

(* Mutants of MarkStageFailed: any row is marked; the refresh is missing.     *)
MarkAnyStageFailed(t, s, increment) ==
  /\ WriteAndRefresh(t, [stage[t] EXCEPT ![s] =
       [status |-> "failed", attempts |-> @.attempts + increment]])
  /\ UNCHANGED <<found, produced, applied>>
MarkStageFailedUnrefreshed(t, s, increment) ==
  /\ stage' = [stage EXCEPT ![t][s] =
       IF @.status \in {"pending", "running", "failed"}
       THEN [status |-> "failed", attempts |-> @.attempts + increment] ELSE @]
  /\ UNCHANGED <<turn, older, found, produced, applied>>

(* Only a row not yet completed is marked; the turn is refreshed either way.  *)
MarkStageFailed(t, s, increment) ==
  /\ WriteAndRefresh(t, [stage[t] EXCEPT ![s] =
       IF @.status \in {"pending", "running", "failed"}
       THEN [status |-> "failed", attempts |-> @.attempts + increment] ELSE @])
  /\ UNCHANGED <<found, produced, applied>>

(* Mutant of TerminalizeMissingInput: the limit is added to the attempts.      *)
TerminalizeAdding(t) ==
  /\ stage' = [stage EXCEPT ![t] =
       [s \in Stages |->
          IF s \in Automatic /\ @[s].status \notin {"absent", "completed"}
          THEN [status |-> "failed", attempts |-> @[s].attempts + MaxStageAttempts]
          ELSE @[s]]]
  /\ IF turn[t].core
     THEN turn' = [turn EXCEPT ![t].status = "partial"] /\ older' = Touched(t)
     ELSE UNCHANGED <<turn, older>>
  /\ UNCHANGED <<found, produced, applied>>

(* A message of the turn is gone: automatic work stops, the turn is partial.  *)
TerminalizeMissingInput(t) ==
  /\ stage' = [stage EXCEPT ![t] =
       [s \in Stages |->
          IF s \in Automatic /\ @[s].status \notin {"absent", "completed"}
          THEN [status |-> "failed", attempts |-> MaxStageAttempts] ELSE @[s]]]
  /\ IF turn[t].core
     THEN turn' = [turn EXCEPT ![t].status = "partial"] /\ older' = Touched(t)
     ELSE UNCHANGED <<turn, older>>
  /\ UNCHANGED <<found, produced, applied>>

(* Message ids in the turn and in its episode become NULL, the experience is  *)
(* deleted with either message.                                               *)
DeleteMessage(t, who) ==
  /\ turn[t][who]
  /\ turn' = [turn EXCEPT ![t][who] = FALSE]
  /\ found' = [found EXCEPT ![t] = @ \ {"experience", "episode"}]
  /\ produced' = [produced EXCEPT ![t] = @ \ {"experience"}]
  /\ UNCHANGED <<stage, older, applied>>

=============================================================================
