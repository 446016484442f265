------------------------------- MODULE Beliefs -------------------------------
(* The beliefs a persona forms about itself and their copy in memory:         *)
(* narrative.py and self_model.py, which keep one row per theme or claim and  *)
(* publish a snapshot that foreground turns read; snapshot_scope.py, which    *)
(* rejects what was computed before a correction; and the corrections that a  *)
(* user makes in the observation panel.                                       *)
(*                                                                            *)
(* The two stores have the same shape and differ in the row they keep when a  *)
(* snapshot holds two rows of one key; `store` says which of them a behaviour *)
(* is about.  A belief is its text, which a user can change, and the episodes *)
(* that support it: status, confidence and counts are functions of those.     *)
(* An id is the moment its row was drafted and the row's key.                 *)
EXTENDS WriterLock, FiniteSets

CONSTANTS
  Keys,             \* narrative identities or claim keys
  Episodes,         \* grounded episodes, each the subject of one durable stage
  Corrections,      \* requests of the panel, and the texts they write
  Generated,        \* the text _summary writes
  MaxStageAttempts  \* MAX_STAGE_ATTEMPTS of the turn ledger

ASSUME BeliefsAssumption ==
  /\ Generated \notin Corrections
  /\ None \notin Episodes
  /\ MaxStageAttempts \in Nat

VARIABLES
  store,     \* "narrative" or "self_model"
  touches,   \* touches[e]: the keys the signals of an episode fall under
  rows,      \* the durable rows
  done,      \* episodes whose stage is completed in the ledger
  attempts,  \* attempts[e]: failed attempts of the stage of e
  at,        \* at[e]: how far the stage of e is in the task that runs it
  expected,  \* expected[e]: expected_epoch of that task
  draft,     \* draft[e]: the rows its transaction wrote, its `results`
  asked,     \* asked[c]: how far the request c is
  fix,       \* fix[c]: what the statement of c did
  shown,     \* the rows of the VersionedSnapshot
  epoch,     \* its _correction_epoch
  clock      \* writes that took a timestamp

stageVars == <<at, expected, draft>>
snapshotVars == <<shown, epoch>>
beliefsVars == <<store, touches, rows, done, attempts, stageVars, asked, fix,
                 snapshotVars, clock>>

Key(row) == row.id[2]
Born(row) == row.id[1]
Weight(row) == Cardinality(row.backing)
Ids(set) == {row.id : row \in set}
Without(set, id) == {row \in set : row.id # id}
\* Every row of `new` takes the place of the row with its id.
Updated(set, new) == {row \in set : row.id \notin Ids(new)} \cup new

\* What a request that changed nothing so far has done.
NoFix == [op |-> "none", item |-> <<0, Generated>>, copy |-> {}, over |-> {}]

-----------------------------------------------------------------------------
(* _snapshot_rows: one row per key.                                           *)
Preferred(row, other) ==
  \/ Weight(row) > Weight(other)
  \/ /\ Weight(row) = Weight(other)
     /\ IF store = "narrative" THEN Born(row) < Born(other)
                               ELSE row.updated > other.updated

Canonical(set) ==
  {row \in set : \A other \in set :
     Key(other) = Key(row) => other = row \/ Preferred(row, other)}

BeliefsInit ==
  /\ store \in {"narrative", "self_model"}
  /\ touches \in [Episodes -> SUBSET Keys]
  /\ rows = {} /\ done = {} /\ clock = 0
  /\ attempts = [e \in Episodes |-> 0]
  /\ at = [e \in Episodes |-> "idle"]
  /\ expected = [e \in Episodes |-> 0]
  /\ draft = [e \in Episodes |-> {}]
  /\ asked = [c \in Corrections |-> "idle"]
  /\ fix = [c \in Corrections |-> NoFix]
  /\ shown = {} /\ epoch = 0

-----------------------------------------------------------------------------
(* The stage of an episode.  The claim of its ledger row is the first write   *)
(* of the transaction, so the stage holds the reservation through all that    *)
(* follows; the snapshot is published before the ledger row is marked and the *)
(* transaction commits.                                                       *)
Runnable(e) == at[e] = "idle" /\ e \notin done /\ attempts[e] < MaxStageAttempts

Ended(e) ==
  /\ at' = [at EXCEPT ![e] = "idle"]
  /\ expected' = [expected EXCEPT ![e] = 0]
  /\ draft' = [draft EXCEPT ![e] = {}]

OpenStage(e) ==
  /\ Runnable(e) /\ Begins /\ Reserves(e)
  /\ at' = [at EXCEPT ![e] = "claimed"]
  /\ UNCHANGED <<store, touches, rows, done, attempts, expected, draft, asked, fix,
                 snapshotVars, clock>>

\* begin_refresh, before the stage reads anything.
BeginRefresh(e) ==
  /\ at[e] = "claimed"
  /\ at' = [at EXCEPT ![e] = "open"]
  /\ expected' = [expected EXCEPT ![e] = epoch]
  /\ UNCHANGED <<lockVars, store, touches, rows, done, attempts, draft, asked, fix,
                 snapshotVars, clock>>

\* The failure is recorded by a statement of its own, which may fail too.
CountsAttempt(e) == \E n \in {0, 1} : attempts' = [attempts EXCEPT ![e] = @ + n]

\* The claim finds the database locked.
RefuseStage(e) ==
  /\ Runnable(e) /\ ~Unreserved
  /\ CountsAttempt(e)
  /\ UNCHANGED <<lockVars, store, touches, rows, done, stageVars, asked, fix,
                 snapshotVars, clock>>

\* The rows under which the signals of the episode fall.
Touched(e) == {row \in rows : Key(row) \in touches[e]}

Reinforced(e) ==
  {[id |-> row.id, text |-> row.text, backing |-> row.backing \cup {e},
    updated |-> clock + 1] : row \in Touched(e)}

Formed(e) ==
  {[id |-> <<clock + 1, k>>, text |-> Generated, backing |-> {e},
    updated |-> clock + 1] : k \in touches[e] \ {Key(row) : row \in rows}}

WriteStage(e) ==
  /\ at[e] = "open" /\ Holds(e)
  /\ at' = [at EXCEPT ![e] = "written"]
  /\ draft' = [draft EXCEPT ![e] = Reinforced(e) \cup Formed(e)]
  /\ clock' = clock + 1
  /\ UNCHANGED <<lockVars, store, touches, rows, done, attempts, expected, asked,
                 fix, snapshotVars>>

\* Mutant of PublishStage: the epochs are not compared.
PublishStageAnyway(e) ==
  /\ at[e] = "written"
  /\ at' = [at EXCEPT ![e] = "published"]
  /\ shown' = Canonical(Updated(shown, draft[e]))
  /\ UNCHANGED <<lockVars, store, touches, rows, done, attempts, expected, draft,
                 asked, fix, epoch, clock>>

\* publish_update: in memory only, so nothing asks whether the transaction lives.
PublishStage(e) ==
  /\ at[e] = "written"
  /\ at' = [at EXCEPT ![e] = "published"]
  /\ shown' = IF epoch = expected[e] THEN Canonical(Updated(shown, draft[e]))
                                     ELSE shown
  /\ UNCHANGED <<lockVars, store, touches, rows, done, attempts, expected, draft,
                 asked, fix, epoch, clock>>

CommitStage(e) ==
  /\ at[e] = "published" /\ Releases(e) /\ UNCHANGED <<faults, begun>>
  /\ rows' = Updated(rows, draft[e])
  /\ done' = done \cup {e}
  /\ Ended(e)
  /\ UNCHANGED <<store, touches, attempts, asked, fix, snapshotVars, clock>>

\* Mutant of FailStage: the rows were written outside of the transaction.
FailStageKeepingRows(e) ==
  /\ at[e] # "idle" /\ RollsBack(e)
  /\ CountsAttempt(e)
  /\ rows' = Updated(rows, draft[e])
  /\ Ended(e)
  /\ UNCHANGED <<store, touches, done, asked, fix, snapshotVars, clock>>

FailStage(e) ==
  /\ at[e] # "idle" /\ RollsBack(e)
  /\ CountsAttempt(e)
  /\ Ended(e)
  /\ UNCHANGED <<store, touches, rows, done, asked, fix, snapshotVars, clock>>

ExpireStage(e) == at[e] # "idle" /\ ServerEnds(e) /\ UNCHANGED beliefsVars

-----------------------------------------------------------------------------
(* A correction: one statement that commits by itself, then the snapshot.     *)
\* Texts a later correction of the item writes over: the generated one and
\* those of the requests on it that came to an end before.
Outdated(id) ==
  {Generated} \cup {c \in Corrections : asked[c] \in {"returned", "raised"}
                                        /\ fix[c].item = id}

Stores(c, op, id, copy) ==
  /\ asked[c] = "idle" /\ Unreserved /\ Begins
  /\ asked' = [asked EXCEPT ![c] = "stored"]
  /\ fix' = [fix EXCEPT ![c] = [op |-> op, item |-> id, copy |-> copy,
                                over |-> Outdated(id)]]
  /\ rows' = Without(rows, id) \cup copy
  /\ clock' = clock + 1
  /\ UNCHANGED <<writer, store, touches, done, attempts, stageVars, snapshotVars>>

\* update ... set summary, updated_at ... returning *.
StoreEdit(c) ==
  \E row \in rows :
    Stores(c, "edit", row.id,
           {[id |-> row.id, text |-> c, backing |-> row.backing,
             updated |-> clock + 1]})

\* delete ...; its evidence goes with the row.
StoreDelete(c) == \E row \in rows : Stores(c, "delete", row.id, {})

\* The snapshot after a correction: the row as the statement returned it.
Corrected(c) == Canonical(Without(shown, fix[c].item) \cup fix[c].copy)

ReturnCorrection(c) ==
  /\ asked[c] = "stored"
  /\ asked' = [asked EXCEPT ![c] = "returned"]
  /\ shown' = Corrected(c)
  /\ epoch' = epoch + 1
  /\ UNCHANGED <<lockVars, store, touches, rows, done, attempts, stageVars, fix, clock>>

\* The statement took effect but was reported as failed, or the connection could
\* not be closed: the request ends before it comes to the snapshot.
RaiseCorrection(c) ==
  /\ asked[c] = "stored" /\ Trouble
  /\ asked' = [asked EXCEPT ![c] = "raised"]
  /\ UNCHANGED <<writer, store, touches, rows, done, attempts, stageVars, fix,
                 snapshotVars, clock>>

-----------------------------------------------------------------------------
(* A new process.  Its transactions and requests begin anew; a request that   *)
(* was answered stays answered.                                               *)

\* Hydration reads the rows, or fails and leaves the snapshot empty.
Hydrates == epoch' = 0 /\ \E read \in {rows, {}} : shown' = Canonical(read)

BeliefsRestart ==
  /\ at' = [e \in Episodes |-> "idle"]
  /\ expected' = [e \in Episodes |-> 0]
  /\ draft' = [e \in Episodes |-> {}]
  /\ asked' = [c \in Corrections |-> IF asked[c] = "stored" THEN "raised" ELSE asked[c]]
  /\ Hydrates
  /\ UNCHANGED <<store, touches, rows, done, attempts, fix, clock>>

StageSteps(e) ==
  \/ OpenStage(e)
  \/ BeginRefresh(e)
  \/ RefuseStage(e)
  \/ WriteStage(e)
  \/ PublishStage(e)
  \/ CommitStage(e)
  \/ FailStage(e)
  \/ ExpireStage(e)

CorrectionSteps(c) ==
  \/ StoreEdit(c)
  \/ StoreDelete(c)
  \/ ReturnCorrection(c)
  \/ RaiseCorrection(c)

-----------------------------------------------------------------------------
(* Properties.                                                                *)

\* A correction that was answered stands: as long as the process runs, and after
\* any restart, the snapshot shows its item neither with the generated text nor
\* with one an earlier correction had written, whatever stages compute, publish
\* or commit around it.
CorrectionStands ==
  \A c \in Corrections : asked[c] = "returned" =>
    \A row \in shown : row.id = fix[c].item => row.text \notin fix[c].over

\* The rows and the ledger tell the same story: a row counts completed episodes
\* only, and a completed episode is counted under every key it touched, unless
\* the user deleted a row of that key.
LedgerAgrees ==
  /\ \A row \in rows : row.backing \subseteq done
  /\ \A e \in done : \A k \in touches[e] :
       \/ \E row \in rows : Key(row) = k /\ e \in row.backing
       \/ \E c \in Corrections : fix[c].op = "delete" /\ fix[c].item[2] = k

=============================================================================
