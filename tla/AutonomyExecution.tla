------------------------- MODULE AutonomyExecution -------------------------
(* Messages the persona sends on its own: the executions of                   *)
(* mindcore/autonomy_execution_store.py over the turns of TurnLedger, the     *)
(* cycle of autonomy_runtime.py and proactive_execution.py, and the recovery  *)
(* that runs in each process before its scheduler.                            *)
(*                                                                            *)
(* An execution and its turn are inserted together and never parted: turns    *)
(* are the identities of both.  Processes meet only in the database.          *)
EXTENDS TurnLedger

CONSTANTS
  Processes,       \* backends that have the persona's database open
  Keys,            \* intention keys: type and target of an intention
  None,            \* no turn
  MaxStreak,       \* MAX_IGNORED_STREAK
  LostAcks,        \* a commit may reach the database and be reported failed
  MaxUserMessages, \* bound: messages of the user
  MaxFaults,       \* bound: failed or unacknowledged transactions
  MaxCrashes,      \* bound: crashes and shutdowns in the middle of work
  MaxDeletions     \* bound: deleted persona messages

ASSUME NoneAssumption == None \notin Turns
ASSUME KeysAssumption == Keys # {}
ASSUME StreakAssumption == MaxStreak \in Nat
ASSUME LimitsAssumption ==
  /\ LostAcks \in BOOLEAN
  /\ {MaxUserMessages, MaxFaults, MaxCrashes, MaxDeletions} \subseteq Nat

VARIABLES
  exec,    \* exec[e]: the autonomy_executions row of the turn e
  users,   \* messages of the user so far; the latest is the activity anchor
  said,    \* said[e]: users when the message of e was saved, 0 before (history)
  called,  \* called[e]: provider calls for e: none, open, or failed (history)
  pc,      \* pc[p]: where the process p is
  intent,  \* intent[p]: the intention it follows and the anchor it read
  job,     \* job[p]: the execution it works on, its stage, why it fails
  listed,  \* listed[p]: statuses its recovery has listed and not settled
  verdict, \* verdict[p]: what its recovery made of the turn it read
  faults, crashes, deletions  \* counters for the bounds

processVars == <<pc, intent, job, listed, verdict>>
worldVars == <<exec, users, said, called>>
vars == <<ledgerVars, worldVars, processVars, faults, crashes, deletions>>

Recoverable == {"RESERVED", "PROVIDER_STARTED", "MESSAGE_PERSISTED"}
Blocking == Recoverable \cup {"COMPLETE", "INDETERMINATE"}
ExecStatus == Blocking \cup {"none", "FAILED_SAFE"}
Idle == {"down", "stopped", "waiting"}
Recovering == {"listing", "recovering", "settling"}
Running == {"claim", "guarding", "starting", "calling", "closing", "persisting"}
Failing == {"stagefail", "corefail", "safing"}
ProcessPc == Idle \cup Recovering \cup Running \cup Failing
               \cup {"evaluated", "cleared", "finalizing"}
Reasons == {"none", "gate", "confirmed", "invalid", "other", "cancelled"}
AnyKey == CHOOSE k \in Keys : TRUE

TypeOK ==
  /\ LedgerTypeOK
  /\ exec \in [Turns -> [status : ExecStatus, key : Keys, anchor : Nat]]
  /\ users \in Nat
  /\ said \in [Turns -> Nat]
  /\ called \in [Turns -> {"none", "open", "failed"}]
  /\ pc \in [Processes -> ProcessPc]
  /\ intent \in [Processes -> [key : Keys, anchor : Nat]]
  /\ job \in [Processes -> [turn : Turns \cup {None}, stage : Boundary, why : Reasons]]
  /\ listed \in [Processes -> [Turns -> Recoverable \cup {"none"}]]
  /\ verdict \in [Processes -> {"none", "COMPLETE", "FAILED_SAFE", "INDETERMINATE"}]
  /\ faults \in Nat /\ crashes \in Nat /\ deletions \in Nat

NoIntent == [key |-> AnyKey, anchor |-> 0]
NoJob == [turn |-> None, stage |-> "context_prepare", why |-> "none"]
NothingListed == [e \in Turns |-> "none"]

Init ==
  /\ LedgerInit
  /\ exec = [e \in Turns |-> [status |-> "none", key |-> AnyKey, anchor |-> 0]]
  /\ users = 0
  /\ said = [e \in Turns |-> 0]
  /\ called = [e \in Turns |-> "none"]
  /\ pc = [p \in Processes |-> "down"]
  /\ intent = [p \in Processes |-> NoIntent]
  /\ job = [p \in Processes |-> NoJob]
  /\ listed = [p \in Processes |-> NothingListed]
  /\ verdict = [p \in Processes |-> "none"]
  /\ faults = 0 /\ crashes = 0 /\ deletions = 0

-----------------------------------------------------------------------------
Fault == faults < MaxFaults /\ faults' = faults + 1
Acknowledged(ack) == IF ack THEN faults' = faults ELSE LostAcks /\ Fault
NoFault == faults' = faults
Elsewhere == UNCHANGED <<crashes, deletions>>

Goto(p, place) == pc' = [pc EXCEPT ![p] = place]

(* The cycle is over: its local variables are gone.                           *)
Leave(p, place) ==
  /\ Goto(p, place)
  /\ intent' = [intent EXCEPT ![p] = NoIntent]
  /\ job' = [job EXCEPT ![p] = NoJob]
  /\ listed' = [listed EXCEPT ![p] = NothingListed]
  /\ verdict' = [verdict EXCEPT ![p] = "none"]

Mine(p) == job[p].turn
At(p) == job[p].stage

(* It goes on: only pc and job change.                                        *)
Proceed(p, place, stageName, why) ==
  /\ Goto(p, place)
  /\ job' = [job EXCEPT ![p] = [turn |-> Mine(p), stage |-> stageName, why |-> why]]
  /\ UNCHANGED <<intent, listed, verdict>>

Status(e) == exec[e].status
SetStatus(e, s) == exec' = [exec EXCEPT ![e].status = s]

(* The durable facts a guard looks at: the user has not spoken since, and has *)
(* not left too many messages unanswered.                                     *)
Unanswered == {e \in Turns : turn[e].status = "complete" /\ turn[e].assistant /\ said[e] = users}
Streak == Cardinality(Unanswered)
(* Mutant of WithinStreak: one message more than the limit.                   *)
UpToStreak == Streak <= MaxStreak
WithinStreak == Streak < MaxStreak
Eligible(p) == users = intent[p].anchor /\ WithinStreak
(* Cooldown is a matter of the clock, but it needs a message to count from.   *)
MayCoolDown == \E e \in Turns : turn[e].status = "complete" /\ turn[e].assistant

Blocked(i) ==
  \E e \in Turns : Status(e) \in Blocking /\ exec[e].key = i.key /\ exec[e].anchor = i.anchor

-----------------------------------------------------------------------------
(* A cycle of the scheduler, up to the reservation.                           *)

(* _run_cycle_once: durable state, then the execution gate.  Judgement is a   *)
(* choice; so are the clock's reasons to skip.                                *)
Evaluate(p, k) ==
  LET i == [key |-> k, anchor |-> users] IN
  /\ pc[p] = "waiting"
  /\ users > 0 /\ WithinStreak /\ ~Blocked(i)
  /\ intent' = [intent EXCEPT ![p] = i]
  /\ Goto(p, "evaluated")
  /\ NoFault /\ Elsewhere /\ UNCHANGED <<ledgerVars, worldVars, job, listed, verdict>>

(* The guard before the reservation.                                          *)
PassGuard(p) ==
  /\ pc[p] = "evaluated" /\ Eligible(p)
  /\ Goto(p, "cleared")
  /\ NoFault /\ Elsewhere /\ UNCHANGED <<ledgerVars, worldVars, intent, job, listed, verdict>>

(* A guard refuses, an intention is found invalid, a read or the reservation  *)
(* raises: the cycle ends and has written nothing.                            *)
Abandon(p) ==
  /\ pc[p] \in {"evaluated", "cleared"}
  /\ Leave(p, "waiting")
  /\ NoFault /\ Elsewhere /\ UNCHANGED <<ledgerVars, worldVars>>

(* Mutant of Free: the unique index is missing.                               *)
FreeOfIndex(e, i) == Status(e) = "none"
(* A new row may enter: the partial unique index has no row for its key.      *)
Free(e, i) == Status(e) = "none" /\ ~Blocked(i)

(* Execution row, turn and stages, in one transaction.                        *)
Reserve(p, e, ack) ==
  /\ pc[p] = "cleared" /\ Free(e, intent[p])
  /\ exec' = [exec EXCEPT ![e] =
       [status |-> "RESERVED", key |-> intent[p].key, anchor |-> intent[p].anchor]]
  /\ BeginProactiveTurn(e)
  /\ IF ack
     THEN /\ Goto(p, "claim")
          /\ job' = [job EXCEPT ![p].turn = e]
          /\ UNCHANGED <<intent, listed, verdict>>
     ELSE Leave(p, "waiting")
  /\ Acknowledged(ack) /\ Elsewhere /\ UNCHANGED <<users, said, called>>

-----------------------------------------------------------------------------
(* The execution.  A step that is not acknowledged, or rolled back, raises.   *)

(* The claim is never refused: the rows are new, and recovery of another      *)
(* process leaves them failed at most.                                        *)
Claim(p, ack) ==
  /\ pc[p] = "claim"
  /\ ClaimStage(Mine(p), At(p))
  /\ IF ~ack THEN Proceed(p, "stagefail", At(p), "other")
     ELSE Proceed(p, IF At(p) = "context_prepare" THEN "closing" ELSE "guarding", At(p), "none")
  /\ Acknowledged(ack) /\ Elsewhere /\ UNCHANGED worldVars

(* A database call of a running stage raises and has written nothing.         *)
StageRaises(p) ==
  /\ pc[p] \in {"claim", "guarding", "starting", "closing", "persisting"}
  /\ Proceed(p, "stagefail", At(p), "other")
  /\ Fault /\ Elsewhere /\ UNCHANGED <<ledgerVars, worldVars>>

(* The guard again, just before the provider.                                 *)
GuardAgain(p) ==
  /\ pc[p] = "guarding" /\ Eligible(p)
  /\ Proceed(p, "starting", At(p), "none")
  /\ NoFault /\ Elsewhere /\ UNCHANGED <<ledgerVars, worldVars>>

GuardRefuses(p) ==
  /\ pc[p] = "guarding" /\ (~Eligible(p) \/ MayCoolDown)
  /\ Proceed(p, "stagefail", At(p), "gate")
  /\ NoFault /\ Elsewhere /\ UNCHANGED <<ledgerVars, worldVars>>

(* mark_provider_started, then the call.                                      *)
StartProvider(p, ack) ==
  /\ pc[p] = "starting" /\ Status(Mine(p)) = "RESERVED"
  /\ SetStatus(Mine(p), "PROVIDER_STARTED")
  /\ IF ack THEN /\ Proceed(p, "calling", At(p), "none")
                 /\ called' = [called EXCEPT ![Mine(p)] = "open"]
     ELSE /\ Proceed(p, "stagefail", At(p), "other")
          /\ called' = called
  /\ Acknowledged(ack) /\ Elsewhere /\ UNCHANGED <<ledgerVars, users, said>>

(* Its update finds another status: a transition conflict.                    *)
StartRefused(p) ==
  /\ pc[p] = "starting" /\ Status(Mine(p)) # "RESERVED"
  /\ Proceed(p, "stagefail", At(p), "other")
  /\ NoFault /\ Elsewhere /\ UNCHANGED <<ledgerVars, worldVars>>

ProviderReplies(p) ==
  /\ pc[p] = "calling"
  /\ Proceed(p, "closing", At(p), "none")
  /\ NoFault /\ Elsewhere /\ UNCHANGED <<ledgerVars, worldVars>>

(* The provider raises, or what it returns is no message.                     *)
ProviderFails(p) ==
  /\ pc[p] = "calling"
  /\ called' = [called EXCEPT ![Mine(p)] = "failed"]
  /\ \E why \in {"confirmed", "invalid"} : Proceed(p, "stagefail", At(p), why)
  /\ NoFault /\ Elsewhere /\ UNCHANGED <<ledgerVars, exec, users, said>>

CloseWork(p, ack) ==
  /\ pc[p] = "closing"
  /\ CloseStage(Mine(p), At(p))
  /\ IF ~ack THEN Proceed(p, "stagefail", At(p), "other")
     ELSE IF At(p) = "context_prepare" THEN Proceed(p, "claim", "provider_generate", "none")
     ELSE Proceed(p, "persisting", "assistant_persist", "none")
  /\ Acknowledged(ack) /\ Elsewhere /\ UNCHANGED worldVars

(* Mutant of MayPersist: the execution may have been settled meanwhile.       *)
MayPersistAnyway(e) == ProactiveBoundaryHeld(e)
MayPersist(e) == ProactiveBoundaryHeld(e) /\ Status(e) = "PROVIDER_STARTED"

(* Message, turn and MESSAGE_PERSISTED, in one transaction.                   *)
Persist(p, ack) ==
  /\ pc[p] = "persisting" /\ MayPersist(Mine(p))
  /\ CompleteProactiveCore(Mine(p))
  /\ SetStatus(Mine(p), "MESSAGE_PERSISTED")
  /\ said' = [said EXCEPT ![Mine(p)] = users]
  /\ IF ack THEN Proceed(p, "finalizing", At(p), "none")
     ELSE Proceed(p, "stagefail", At(p), "other")
  /\ Acknowledged(ack) /\ Elsewhere /\ UNCHANGED <<users, called>>

PersistRefused(p) ==
  /\ pc[p] = "persisting" /\ ~MayPersist(Mine(p))
  /\ Proceed(p, "stagefail", At(p), "other")
  /\ NoFault /\ Elsewhere /\ UNCHANGED <<ledgerVars, worldVars>>

(* mark_complete; whether or not its answer comes back, the cycle is over.    *)
Finalize(p) ==
  /\ pc[p] = "finalizing"
  /\ IF Status(Mine(p)) = "MESSAGE_PERSISTED" THEN SetStatus(Mine(p), "COMPLETE") ELSE exec' = exec
  /\ Leave(p, "waiting")
  /\ NoFault /\ Elsewhere /\ UNCHANGED <<ledgerVars, users, said, called>>

FinalizeFails(p) ==
  /\ pc[p] = "finalizing"
  /\ Leave(p, "waiting")
  /\ Fault /\ Elsewhere /\ UNCHANGED <<ledgerVars, worldVars>>

-----------------------------------------------------------------------------
(* Failure of an execution: the stage, then the turn, then the execution.  A  *)
(* record that raises replaces the error, or ends the whole report.           *)

AfterStageFailure(p, why) ==
  IF why = "cancelled" THEN Leave(p, "down") ELSE Proceed(p, "corefail", At(p), why)
Replaced(why) == IF why \in {"gate", "invalid"} THEN "other" ELSE why

RecordStage(p, ack) ==
  /\ pc[p] = "stagefail"
  /\ MarkStageFailed(Mine(p), At(p), 0)
  /\ AfterStageFailure(p, IF ack THEN job[p].why ELSE Replaced(job[p].why))
  /\ Acknowledged(ack) /\ Elsewhere /\ UNCHANGED worldVars

LoseStage(p) ==
  /\ pc[p] = "stagefail"
  /\ AfterStageFailure(p, Replaced(job[p].why))
  /\ Fault /\ Elsewhere /\ UNCHANGED <<ledgerVars, worldVars>>

(* Mutant of FreesKey: any failure of the provider stage frees the key.       *)
FreesKeyAtProvider(p) == job[p].why = "gate" \/ At(p) # "assistant_persist"
(* The failures after which the key may be tried again.                       *)
FreesKey(p) ==
  \/ job[p].why = "gate"
  \/ At(p) = "context_prepare"
  \/ At(p) = "provider_generate" /\ job[p].why \in {"confirmed", "invalid"}

RecordCore(p, ack) ==
  /\ pc[p] = "corefail"
  /\ MarkCoreFailed(Mine(p))
  /\ IF ack /\ FreesKey(p) THEN Proceed(p, "safing", At(p), job[p].why) ELSE Leave(p, "waiting")
  /\ Acknowledged(ack) /\ Elsewhere /\ UNCHANGED worldVars

LoseCore(p) ==
  /\ pc[p] = "corefail"
  /\ Leave(p, "waiting")
  /\ Fault /\ Elsewhere /\ UNCHANGED <<ledgerVars, worldVars>>

(* mark_failed_safe; the cycle ends whether or not it is acknowledged.        *)
FailSafe(p) ==
  /\ pc[p] = "safing"
  /\ IF Status(Mine(p)) \in {"RESERVED", "PROVIDER_STARTED"}
     THEN SetStatus(Mine(p), "FAILED_SAFE") ELSE exec' = exec
  /\ Leave(p, "waiting")
  /\ NoFault /\ Elsewhere /\ UNCHANGED <<ledgerVars, users, said, called>>

LoseFailSafe(p) ==
  /\ pc[p] = "safing"
  /\ Leave(p, "waiting")
  /\ Fault /\ Elsewhere /\ UNCHANGED <<ledgerVars, worldVars>>

-----------------------------------------------------------------------------
(* Recovery, once per process and before its scheduler.                       *)

(* Mutant of ListExecutions: one that has called its provider is not listed.  *)
ListUncalled(p) ==
  /\ pc[p] = "listing"
  /\ listed' = [listed EXCEPT ![p] =
       [e \in Turns |-> IF Status(e) \in {"RESERVED", "MESSAGE_PERSISTED"} THEN Status(e) ELSE "none"]]
  /\ Goto(p, "recovering")
  /\ NoFault /\ Elsewhere /\ UNCHANGED <<ledgerVars, worldVars, intent, job, verdict>>

ListExecutions(p) ==
  /\ pc[p] = "listing"
  /\ listed' = [listed EXCEPT ![p] =
       [e \in Turns |-> IF Status(e) \in Recoverable THEN Status(e) ELSE "none"]]
  /\ Goto(p, "recovering")
  /\ NoFault /\ Elsewhere /\ UNCHANGED <<ledgerVars, worldVars, intent, job, verdict>>

(* A turn that was reserved and has not come to its provider.                 *)
PreProvider(e) ==
  /\ turn[e].status = "pending" /\ ~turn[e].core
  /\ ~turn[e].user /\ ~turn[e].assistant
  /\ stage[e]["provider_generate"].status \in {"pending", "running", "failed"}
  /\ stage[e]["assistant_persist"].status \in {"pending", "failed"}

(* Mutants of Verdict: the execution is judged by its turn alone; a complete  *)
(* turn is not recognised.                                                    *)
VerdictByTurn(e, status) ==
  IF PreProvider(e) THEN "FAILED_SAFE"
  ELSE IF turn[e].status = "complete" /\ turn[e].assistant THEN "COMPLETE" ELSE "INDETERMINATE"
VerdictOfOpenTurn(e, status) ==
  IF status = "RESERVED"
  THEN IF turn[e].status = "none" \/ PreProvider(e) THEN "FAILED_SAFE" ELSE "INDETERMINATE"
  ELSE IF turn[e].status = "core_completed" /\ ~turn[e].user /\ turn[e].assistant THEN "COMPLETE"
  ELSE "INDETERMINATE"

Verdict(e, status) ==
  IF status = "RESERVED"
  THEN IF turn[e].status = "none" \/ PreProvider(e) THEN "FAILED_SAFE" ELSE "INDETERMINATE"
  ELSE IF turn[e].status = "complete" /\ ~turn[e].user /\ turn[e].assistant THEN "COMPLETE"
  ELSE "INDETERMINATE"

(* One read of the turn, its stages and its message.                          *)
ReadTurn(p, e) ==
  /\ pc[p] = "recovering" /\ listed[p][e] # "none"
  /\ verdict' = [verdict EXCEPT ![p] = Verdict(e, listed[p][e])]
  /\ job' = [job EXCEPT ![p].turn = e]
  /\ Goto(p, "settling")
  /\ NoFault /\ Elsewhere /\ UNCHANGED <<ledgerVars, worldVars, intent, listed>>

(* The turn of a reservation that recovery gives up: its condition is its     *)
(* own, not that of the execution.                                            *)
FailBeforeProvider(e) ==
  /\ stage' = [stage EXCEPT ![e] = [s \in Stages |->
       IF @[s].status \in {"pending", "running"} THEN [@[s] EXCEPT !.status = "failed"] ELSE @[s]]]
  /\ IF turn[e].status = "pending" /\ ~turn[e].core
     THEN /\ turn' = [turn EXCEPT ![e].status = "core_failed"]
          /\ older' = Touched(e)
     ELSE UNCHANGED <<turn, older>>
  /\ UNCHANGED <<found, produced, applied>>

(* Mutant of SettledFrom: the status is missing in the where clause.          *)
SettledFromAny(v) == ExecStatus
(* The statuses from which a verdict may be written.                          *)
SettledFrom(v) ==
  CASE v = "COMPLETE" -> {"PROVIDER_STARTED", "MESSAGE_PERSISTED"}
    [] v = "FAILED_SAFE" -> {"RESERVED"}
    [] OTHER -> Recoverable

SettleExecution(p, ack) ==
  LET e == Mine(p) IN
  /\ pc[p] = "settling"
  /\ IF Status(e) \in SettledFrom(verdict[p]) THEN SetStatus(e, verdict[p]) ELSE exec' = exec
  /\ IF verdict[p] = "FAILED_SAFE" THEN FailBeforeProvider(e) ELSE UNCHANGED ledgerVars
  /\ IF ack
     THEN /\ Goto(p, "recovering")
          /\ listed' = [listed EXCEPT ![p][e] = "none"]
          /\ verdict' = [verdict EXCEPT ![p] = "none"]
          /\ job' = [job EXCEPT ![p] = NoJob]
          /\ UNCHANGED intent
     ELSE Leave(p, "stopped")
  /\ Acknowledged(ack) /\ Elsewhere /\ UNCHANGED <<users, said, called>>

(* Recovery raises: this process never starts its scheduler.                  *)
RecoveryFails(p) ==
  /\ pc[p] \in Recovering
  /\ Leave(p, "stopped")
  /\ Fault /\ Elsewhere /\ UNCHANGED <<ledgerVars, worldVars>>

StartScheduler(p) ==
  /\ pc[p] = "recovering" /\ listed[p] = NothingListed
  /\ Goto(p, "waiting")
  /\ NoFault /\ Elsewhere /\ UNCHANGED <<ledgerVars, worldVars, intent, job, listed, verdict>>

-----------------------------------------------------------------------------
(* Processes and the user.                                                    *)

Start(p) ==
  /\ pc[p] = "down"
  /\ Goto(p, "listing")
  /\ NoFault /\ Elsewhere /\ UNCHANGED <<ledgerVars, worldVars, intent, job, listed, verdict>>

Interrupted == crashes < MaxCrashes /\ crashes' = crashes + 1 /\ UNCHANGED deletions

Crash(p) ==
  /\ pc[p] # "down"
  /\ Leave(p, "down")
  /\ Interrupted /\ NoFault /\ UNCHANGED <<ledgerVars, worldVars>>

(* Shutdown cancels a running stage, which is marked before the task ends.    *)
Cancel(p) ==
  /\ pc[p] \in Running
  /\ Proceed(p, "stagefail", At(p), "cancelled")
  /\ Interrupted /\ NoFault /\ UNCHANGED <<ledgerVars, worldVars>>

Close(p) ==
  /\ pc[p] \in {"waiting", "stopped"}
  /\ Goto(p, "down")
  /\ NoFault /\ Elsewhere /\ UNCHANGED <<ledgerVars, worldVars, intent, job, listed, verdict>>

UserSpeaks ==
  /\ \E p \in Processes : pc[p] # "down"
  /\ users < MaxUserMessages
  /\ users' = users + 1
  /\ NoFault /\ Elsewhere /\ UNCHANGED <<ledgerVars, exec, said, called, processVars>>

UserDeletes(e) ==
  /\ \E p \in Processes : pc[p] # "down"
  /\ deletions < MaxDeletions /\ deletions' = deletions + 1
  /\ DeleteMessage(e, "assistant")
  /\ NoFault /\ UNCHANGED <<worldVars, processVars, crashes>>

-----------------------------------------------------------------------------
Executes(p) ==
  \/ GuardAgain(p) \/ GuardRefuses(p) \/ StartRefused(p)
  \/ ProviderReplies(p) \/ ProviderFails(p) \/ PersistRefused(p)
  \/ Finalize(p) \/ FailSafe(p)
  \/ \E ack \in BOOLEAN :
       \/ Claim(p, ack) \/ StartProvider(p, ack) \/ CloseWork(p, ack) \/ Persist(p, ack)
       \/ RecordStage(p, ack) \/ RecordCore(p, ack)

Recovers(p) ==
  \/ ListExecutions(p) \/ StartScheduler(p)
  \/ \E e \in Turns : ReadTurn(p, e)
  \/ \E ack \in BOOLEAN : SettleExecution(p, ack)

Fails(p) ==
  \/ StageRaises(p) \/ FinalizeFails(p) \/ LoseStage(p) \/ LoseCore(p) \/ LoseFailSafe(p)
  \/ RecoveryFails(p)

Cycles(p) ==
  \/ \E k \in Keys : Evaluate(p, k)
  \/ PassGuard(p)
  \/ \E e \in Turns, ack \in BOOLEAN : Reserve(p, e, ack)

Next ==
  \/ \E p \in Processes :
       \/ Cycles(p) \/ Abandon(p) \/ Executes(p) \/ Fails(p) \/ Recovers(p)
       \/ Start(p) \/ Crash(p) \/ Cancel(p) \/ Close(p)
  \/ UserSpeaks
  \/ \E e \in Turns : UserDeletes(e)

Spec == Init /\ [][Next]_vars

(* Work that was begun goes on, a stopped process is started again, and the   *)
(* application is closed some day, between two cycles if need be.             *)
Fairness ==
  \A p \in Processes :
    /\ WF_vars(Executes(p)) /\ WF_vars(Recovers(p)) /\ WF_vars(Abandon(p))
    /\ WF_vars(Start(p)) /\ SF_vars(Close(p))

FairSpec == Spec /\ Fairness

-----------------------------------------------------------------------------
(* Properties.                                                                *)

(* "Generate and durably save exactly one Persona message": an intention is   *)
(* spoken at most once between two messages of the user, whatever processes   *)
(* run, fail, and are started again.                                          *)
SpokenOnce ==
  \A e, f \in Turns :
    /\ said[e] > 0 /\ said[f] > 0
    /\ exec[e].key = exec[f].key /\ exec[e].anchor = exec[f].anchor
    => e = f

(* A provider call whose outcome is unknown is never repeated: of two calls   *)
(* for one key and anchor, one was reported failed.                           *)
NoUnknownRepeated ==
  \A e, f \in Turns :
    /\ e # f /\ called[e] = "open" /\ called[f] = "open"
    => exec[e].key # exec[f].key \/ exec[e].anchor # exec[f].anchor

(* Execution and turn tell the same story: a message was saved exactly when   *)
(* the turn has its core, never in an execution that failed safely, and a     *)
(* persisted execution has a complete turn.                                   *)
ExecutionMatchesTurn ==
  \A e \in Turns :
    /\ said[e] > 0 <=> turn[e].core
    /\ turn[e].core => Status(e) \in {"MESSAGE_PERSISTED", "COMPLETE", "INDETERMINATE"}
    /\ Status(e) \in {"MESSAGE_PERSISTED", "COMPLETE"} => turn[e].status = "complete"
    /\ Status(e) = "FAILED_SAFE" => turn[e].status = "core_failed"

(* A settled execution is never touched again, by no handler or recovery.     *)
SettledForGood ==
  [][\A e \in Turns :
       Status(e) \in {"COMPLETE", "FAILED_SAFE", "INDETERMINATE"} => exec'[e] = exec[e]]_vars

(* One process alone never leaves more messages unanswered than the policy    *)
(* allows, although it looks before the provider call and writes after it.    *)
StreakBounded == Streak <= MaxStreak

(* An execution is given up as ambiguous only when there is no message:       *)
(* "startup recovery can distinguish a committed transaction from a           *)
(* rolled-back/ambiguous provider-started turn".  True of one process alone;  *)
(* the recovery of a second one writes INDETERMINATE over a message that was  *)
(* persisted after it had read the turn.                                      *)
DoubtIsReal ==
  \A e \in Turns : Status(e) = "INDETERMINATE" => ~turn[e].assistant

(* Recovery fails a turn only before its provider was called ("A valid        *)
(* pre-provider turn is terminalized below").  The code looks at the turn in  *)
(* one transaction and writes it in a later one.                              *)
RecoveryFailsBeforeProvider ==
  [][\A p \in Processes, e \in Turns :
       /\ pc[p] = "settling" /\ pc'[p] # "settling"
       /\ turn[e].status = "pending" /\ turn'[e].status = "core_failed"
       => called[e] = "none"]_vars

(* Every execution is settled some day, by its process or by the recovery of  *)
(* a later one.                                                               *)
ExecutionsSettle ==
  \A e \in Turns : Status(e) \in Recoverable ~> Status(e) \notin Recoverable

=============================================================================
