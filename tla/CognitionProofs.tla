--------------------------- MODULE CognitionProofs ---------------------------
(* Proofs about Cognition, for any episodes, corrections, events and bounds:  *)
(* a correction that was answered stands, the rows agree with the ledger, and *)
(* an event counts once.                                                      *)
EXTENDS Cognition, TLAPS

-----------------------------------------------------------------------------
(* The invariant of the beliefs.                                              *)
Places == {"idle", "claimed", "open", "written", "published"}
Answers == {"idle", "stored", "returned", "raised"}

\* What the functions are defined on, and that nothing comes from the future.
BeliefShape ==
  /\ clock \in Nat /\ epoch \in Nat
  /\ at \in [Episodes -> Places]
  /\ expected \in [Episodes -> Nat]
  /\ DOMAIN draft = Episodes
  /\ asked \in [Corrections -> Answers]
  /\ DOMAIN fix = Corrections
  /\ \A e \in Episodes : expected[e] <= epoch
  /\ \A c \in Corrections : asked[c] = "idle" => fix[c] = NoFix

Drafted(e) == at[e] \in {"written", "published"}

Ages ==
  /\ \A row \in rows : row.id[1] \in 0 .. clock
  /\ \A e \in Episodes : \A row \in draft[e] : row.id[1] \in 0 .. clock
  /\ \A c \in Corrections : asked[c] # "idle" => fix[c].item[1] \in 0 .. clock

\* No row of `set` has a text the request c has written over.
Clear(set, c) == \A row \in set : row.id = fix[c].item => row.text \notin fix[c].over

\* A request writes its own text, which nobody has written over before it ends.
OwnTexts ==
  /\ \A c, u \in Corrections :
       asked[c] \in {"idle", "stored"} /\ asked[u] # "idle" => c \notin fix[u].over
  /\ \A c \in Corrections : asked[c] # "idle" =>
       \A row \in fix[c].copy : row.id = fix[c].item /\ row.text = c

\* What is durable, and what a live transaction is about to make durable, is
\* clear of every statement; what a stage may still publish is clear of every
\* correction that was answered.
ClearRows == \A c \in Corrections : asked[c] # "idle" => Clear(rows, c)

ClearDrafts ==
  \A e \in Episodes : Drafted(e) =>
    /\ Holds(e) => \A c \in Corrections : asked[c] # "idle" => Clear(draft[e], c)
    /\ expected[e] = epoch =>
         \A c \in Corrections : asked[c] = "returned" => Clear(draft[e], c)

TextInv == OwnTexts /\ ClearRows /\ ClearDrafts /\ CorrectionStands

UniqueIds(set) == \A row, other \in set : row.id = other.id => row = other

DraftInv(e) ==
  /\ UniqueIds(draft[e])
  /\ \A row \in draft[e] : row.backing \subseteq done \cup {e}
  /\ \A k \in touches[e] : \E row \in draft[e] : Key(row) = k /\ e \in row.backing
  /\ Holds(e) => \A new \in draft[e] : \A row \in rows :
                   new.id = row.id => row.backing \subseteq new.backing

EvidenceOfRows ==
  /\ UniqueIds(rows)
  /\ \A e \in Episodes : Drafted(e) => DraftInv(e)
  /\ LedgerAgrees

BeliefInv == BeliefShape /\ Ages /\ TextInv /\ EvidenceOfRows

-----------------------------------------------------------------------------
(* The invariant of the totals.                                               *)
WorkPlaces == {"idle", "trying", "claimed", "read"}

WorkShape ==
  /\ absorbed \in [Events -> Nat]
  /\ step \in [Workers -> WorkPlaces]
  /\ DOMAIN event = Workers /\ DOMAIN base = Workers
  /\ \A w \in Workers : step[w] # "idle" => event[w] \in Events

\* As long as a task has the reservation, what it claimed is not claimed and
\* what it read is the value: the condition of its update holds.
Exclusive ==
  \A w \in Workers : Holds(w) =>
    /\ step[w] \in {"claimed", "read"} => event[w] \notin claims
    /\ step[w] = "read" => base[w] = absorbed

WorkInv == WorkShape /\ Exclusive /\ CountedOnce

-----------------------------------------------------------------------------
(* The reservation.                                                           *)

\* A step of the beliefs gives no worker the reservation, and the other way.
LEMMA BelievesTakeNothing ==
  ASSUME CognitionAssumption, BeliefsAssumption, EvidenceAssumption,
         Believes, NEW w \in Workers, writer' = w
  PROVE  writer = w
<1>1. w # None /\ w \notin Episodes
  BY DEF CognitionAssumption, EvidenceAssumption
<1>2. CASE \E e \in Episodes : StageSteps(e)
  BY <1>1, <1>2 DEF StageSteps, OpenStage, BeginRefresh, RefuseStage, WriteStage,
     PublishStage, CommitStage, FailStage, ExpireStage, Reserves, Releases, RollsBack, ServerEnds,
     lockVars
<1>3. CASE \E c \in Corrections : CorrectionSteps(c)
  BY <1>3 DEF CorrectionSteps, StoreEdit, StoreDelete, Stores, ReturnCorrection,
     RaiseCorrection, lockVars
<1> QED
  BY <1>2, <1>3 DEF Believes

LEMMA CountsTakeNothing ==
  ASSUME CognitionAssumption, BeliefsAssumption, EvidenceAssumption,
         Counts, NEW e \in Episodes, writer' = e
  PROVE  writer = e
<1>1. e # None /\ e \notin Workers
  BY DEF CognitionAssumption, BeliefsAssumption
<1> QED
  BY <1>1 DEF Counts, WorkSteps, Begin, Claim, Duplicate, Busy, Read, Apply, Fail,
     Expire, Reserves, Releases, RollsBack, ServerEnds, lockVars

-----------------------------------------------------------------------------
(* The totals.                                                                *)

\* A task that holds nothing keeps the rest of the invariant: only the one with
\* the reservation writes, and its claim is new.
LEMMA WorkStep ==
  ASSUME EvidenceAssumption, WorkInv, NEW w \in Workers, WorkSteps(w)
  PROVE  WorkInv'
<1> USE DEF WorkInv, Holds
<1>0. w # None /\ None \notin Workers
  BY DEF EvidenceAssumption
<1>1. ASSUME NEW s \in Events, Begin(w, s) PROVE WorkInv'
  <2>1. WorkShape'
    BY <1>1 DEF Begin, To, WorkShape, WorkPlaces
  <2>2. Exclusive'
    BY <1>1 DEF Begin, To, WorkShape, Exclusive
  <2>3. CountedOnce'
    BY <1>1 DEF Begin, CountedOnce
  <2> QED BY <2>1, <2>2, <2>3
<1>2. CASE Claim(w)
  <2>1. WorkShape'
    BY <1>2 DEF Claim, To, WorkShape, WorkPlaces
  <2>2. Exclusive'
    BY <1>2 DEF Claim, To, WorkShape, Exclusive, Reserves
  <2>3. CountedOnce'
    BY <1>2 DEF Claim, CountedOnce
  <2> QED BY <2>1, <2>2, <2>3
<1>3. ASSUME Ends(w), UNCHANGED <<total, claims, absorbed>>,
             writer' \in {writer, None}
      PROVE  WorkInv'
  <2>1. WorkShape'
    BY <1>3 DEF Ends, To, WorkShape, WorkPlaces
  <2>2. Exclusive'
    BY <1>0, <1>3 DEF Ends, To, WorkShape, Exclusive
  <2>3. CountedOnce'
    BY <1>3 DEF CountedOnce
  <2> QED BY <2>1, <2>2, <2>3
<1>4. CASE Duplicate(w)
  BY <1>3, <1>4 DEF Duplicate, lockVars
<1>5. CASE Busy(w)
  <2>1. CASE UNCHANGED <<step, event, hint, base>>
    <3>1. WorkShape'
      BY <1>5, <2>1 DEF Busy, WorkShape
    <3>2. Exclusive'
      BY <1>5, <2>1 DEF Busy, lockVars, Exclusive
    <3>3. CountedOnce'
      BY <1>5 DEF Busy, CountedOnce
    <3> QED BY <3>1, <3>2, <3>3
  <2> QED
    BY <1>3, <1>5, <2>1 DEF Busy, lockVars
<1>6. CASE Read(w)
  <2>1. WorkShape'
    BY <1>6 DEF Read, To, WorkShape, WorkPlaces
  <2>2. Exclusive'
    BY <1>6 DEF Read, To, WorkShape, Exclusive, lockVars
  <2>3. CountedOnce'
    BY <1>6 DEF Read, CountedOnce
  <2> QED BY <2>1, <2>2, <2>3
<1>7. CASE Apply(w)
  <2>1. event[w] \in Events \ claims /\ base[w] = absorbed
    BY <1>7 DEF Apply, Releases, WorkShape, Exclusive
  <2>2. /\ absorbed' = [absorbed EXCEPT ![event[w]] = @ + 1]
        /\ claims' = claims \cup {event[w]}
        /\ writer' = None /\ Ends(w)
    BY <1>7, <2>1 DEF Apply, With, Releases
  <2>3. WorkShape'
    BY <2>1, <2>2 DEF Ends, To, WorkShape, WorkPlaces
  <2>4. Exclusive'
    BY <1>0, <2>2 DEF Exclusive
  <2>5. CountedOnce'
    BY <2>1, <2>2 DEF CountedOnce, WorkShape
  <2> QED BY <2>3, <2>4, <2>5
<1>8. CASE Fail(w)
  BY <1>3, <1>8 DEF Fail, RollsBack, lockVars
<1>9. CASE Expire(w)
  <2>1. WorkShape'
    BY <1>9 DEF Expire, evidenceVars, workVars, WorkShape
  <2>2. Exclusive'
    BY <1>0, <1>9 DEF Expire, ServerEnds, Exclusive
  <2>3. CountedOnce'
    BY <1>9 DEF Expire, evidenceVars, CountedOnce
  <2> QED BY <2>1, <2>2, <2>3
<1> QED
  BY <1>1, <1>2, <1>4, <1>5, <1>6, <1>7, <1>8, <1>9 DEF WorkSteps

LEMMA WorkKept ==
  ASSUME WorkInv, UNCHANGED evidenceVars,
         \A w \in Workers : writer' = w => writer = w
  PROVE  WorkInv'
BY DEF WorkInv, WorkShape, Exclusive, CountedOnce, evidenceVars, workVars, Holds

LEMMA WorkInitially ==
  ASSUME Init PROVE WorkInv
BY DEF Init, EvidenceInit, LockInit, WorkInv, WorkShape, WorkPlaces, Exclusive,
   CountedOnce, Nothing, Holds

LEMMA WorkRestarts ==
  ASSUME WorkInv, EvidenceAssumption, Restart
  PROVE  WorkInv'
<1>1. WorkShape'
  BY DEF WorkInv, Restart, EvidenceRestart, WorkShape, WorkPlaces
<1>2. Exclusive'
  BY DEF Restart, EvidenceAssumption, Exclusive, Holds
<1>3. CountedOnce'
  BY DEF WorkInv, Restart, EvidenceRestart, CountedOnce
<1> QED BY <1>1, <1>2, <1>3 DEF WorkInv

-----------------------------------------------------------------------------
(* The beliefs.                                                               *)

\* What a snapshot shows comes from the rows it was made of.
LEMMA CanonicalIsPart ==
  ASSUME NEW set PROVE Canonical(set) \subseteq set
BY DEF Canonical

LEMMA BeliefInitially ==
  ASSUME Init PROVE BeliefInv
<1> USE DEF Init, BeliefsInit
<1>1. BeliefShape
  BY DEF BeliefShape, Places, Answers
<1>2. Ages
  BY DEF Ages
<1>3. TextInv
  BY DEF TextInv, OwnTexts, ClearRows, ClearDrafts, Drafted, CorrectionStands, Clear
<1>4. EvidenceOfRows
  BY DEF EvidenceOfRows, UniqueIds, Drafted, LedgerAgrees
<1> QED
  BY <1>1, <1>2, <1>3, <1>4 DEF BeliefInv

\* A step that writes no row and drafts none keeps everything but what is shown.
LEMMA NothingWritten ==
  ASSUME BeliefInv, UNCHANGED <<touches, rows, done, asked, fix, epoch, clock>>,
         at' \in [Episodes -> Places], expected' \in [Episodes -> Nat],
         DOMAIN draft' = Episodes,
         \A e \in Episodes : expected'[e] <= epoch /\ draft'[e] \in {draft[e], {}},
         \A e \in Episodes : Drafted(e)' =>
           /\ Drafted(e) /\ draft'[e] = draft[e] /\ expected'[e] = expected[e]
           /\ writer' = e => writer = e,
         CorrectionStands'
  PROVE  BeliefInv'
<1> USE DEF BeliefInv
<1>1. BeliefShape'
  BY DEF BeliefShape
<1>2. Ages'
  BY DEF Ages
<1>3. OwnTexts'
  BY DEF TextInv, OwnTexts
<1>4. ClearRows'
  BY DEF TextInv, ClearRows, Clear
<1>5. ClearDrafts'
  BY DEF TextInv, ClearDrafts, Clear, Holds
<1>6. UniqueIds(rows)' /\ LedgerAgrees'
  BY DEF EvidenceOfRows, UniqueIds, LedgerAgrees
<1>7. ASSUME NEW e \in Episodes, Drafted(e)' PROVE DraftInv(e)'
  <2>1. DraftInv(e) /\ draft'[e] = draft[e] /\ (writer' = e => writer = e)
    BY <1>7 DEF EvidenceOfRows
  <2> QED
    BY <2>1 DEF DraftInv, UniqueIds, Holds
<1> QED
  BY <1>1, <1>2, <1>3, <1>4, <1>5, <1>6, <1>7 DEF TextInv, EvidenceOfRows

\* What is shown stays clear, whatever else the task does, if it shows no more.
LEMMA ShownKept ==
  ASSUME BeliefInv, asked' = asked, fix' = fix, shown' = shown
  PROVE  CorrectionStands'
BY DEF BeliefInv, TextInv, CorrectionStands

LEMMA OpenKeeps ==
  ASSUME BeliefsAssumption, BeliefInv, NEW e \in Episodes,
         OpenStage(e) \/ BeginRefresh(e) \/ RefuseStage(e) \/ FailStage(e) \/ ExpireStage(e)
  PROVE  BeliefInv'
<1> USE DEF stageVars, snapshotVars, lockVars
<1>0. None \notin Episodes
  BY DEF BeliefsAssumption
<1>1. BeliefShape
  BY DEF BeliefInv
<1>2. CASE OpenStage(e)
  BY <1>1, <1>2, NothingWritten, ShownKept
     DEF OpenStage, Reserves, BeliefShape, Places, Drafted
<1>3. CASE BeginRefresh(e)
  BY <1>1, <1>3, NothingWritten, ShownKept DEF BeginRefresh, BeliefShape, Places, Drafted
<1>4. CASE RefuseStage(e)
  BY <1>1, <1>4, NothingWritten, ShownKept DEF RefuseStage, BeliefShape, Places, Drafted
<1>5. CASE FailStage(e)
  <2>1. \A u \in Episodes : writer' = u => writer = u
    BY <1>0, <1>5 DEF FailStage, RollsBack
  <2>2. \A u \in Episodes : Drafted(u)' => u # e /\ Drafted(u) /\ draft'[u] = draft[u]
                                           /\ expected'[u] = expected[u]
    BY <1>1, <1>5 DEF FailStage, Ended, BeliefShape, Drafted
  <2> QED
    BY <1>1, <1>5, <2>1, <2>2, NothingWritten, ShownKept
       DEF FailStage, Ended, RollsBack, BeliefShape, Places
<1>6. CASE ExpireStage(e)
  BY <1>0, <1>1, <1>6, NothingWritten, ShownKept
     DEF ExpireStage, ServerEnds, beliefsVars, BeliefShape, Drafted
<1> QED
  BY <1>2, <1>3, <1>4, <1>5, <1>6

\* Under the reservation the draft is made of the rows as they are: it has their
\* texts and more than their episodes, and its new ids are newer than any.
LEMMA DraftIsClear ==
  ASSUME BeliefInv, NEW e \in Episodes, NEW c \in Corrections, asked[c] # "idle"
  PROVE  Clear(Reinforced(e) \cup Formed(e), c)
<1>1. \A row \in Reinforced(e) : row.id = fix[c].item => row.text \notin fix[c].over
  BY DEF BeliefInv, TextInv, ClearRows, Clear, Reinforced, Touched
<1>2. \A row \in Formed(e) : row.id # fix[c].item
  <2>1. clock \in Nat /\ fix[c].item[1] \in 0 .. clock
    BY DEF BeliefInv, BeliefShape, Ages
  <2>2. \A row \in Formed(e) : row.id[1] = clock + 1
    BY DEF Formed
  <2> QED
    BY <2>1, <2>2
<1> QED
  BY <1>1, <1>2 DEF Clear

LEMMA DraftCounts ==
  ASSUME BeliefInv, NEW e \in Episodes, NEW new,
         new = Reinforced(e) \cup Formed(e)
  PROVE  /\ UniqueIds(new)
         /\ \A row \in new : row.backing \subseteq done \cup {e}
         /\ \A k \in touches[e] : \E row \in new : Key(row) = k /\ e \in row.backing
         /\ \A n \in new : \A row \in rows : n.id = row.id => row.backing \subseteq n.backing
         /\ \A row \in new : row.id[1] \in 0 .. clock + 1
<1>0. /\ clock \in Nat
      /\ \A row \in rows : row.id[1] \in 0 .. clock /\ row.backing \subseteq done
      /\ UniqueIds(rows)
  BY DEF BeliefInv, BeliefShape, Ages, EvidenceOfRows, LedgerAgrees
<1>1. \A n \in Reinforced(e) : \E row \in rows :
        /\ n = [id |-> row.id, text |-> row.text, backing |-> row.backing \cup {e},
                updated |-> clock + 1]
        /\ n.id = row.id /\ n.backing = row.backing \cup {e}
  BY DEF Reinforced, Touched
<1>2. \A n \in Formed(e) : \E k \in touches[e] :
        /\ n = [id |-> <<clock + 1, k>>, text |-> Generated, backing |-> {e},
                updated |-> clock + 1]
        /\ n.id = <<clock + 1, k>> /\ n.backing = {e} /\ n.id[1] = clock + 1
  BY DEF Formed
<1>3. UniqueIds(new)
  <2> SUFFICES ASSUME NEW a \in new, NEW b \in new, a.id = b.id PROVE a = b
    BY DEF UniqueIds
  <2>1. CASE a \in Reinforced(e) /\ b \in Reinforced(e)
    <3>1. PICK row \in rows :
            /\ a = [id |-> row.id, text |-> row.text, backing |-> row.backing \cup {e},
                    updated |-> clock + 1]
            /\ a.id = row.id
      BY <1>1, <2>1
    <3>2. PICK other \in rows :
            /\ b = [id |-> other.id, text |-> other.text,
                    backing |-> other.backing \cup {e}, updated |-> clock + 1]
            /\ b.id = other.id
      BY <1>1, <2>1
    <3>3. row = other
      BY <1>0, <3>1, <3>2 DEF UniqueIds
    <3> QED
      BY <3>1, <3>2, <3>3
  <2>2. CASE a \in Formed(e) /\ b \in Formed(e)
    BY <1>2, <2>2
  <2>3. CASE a \in Reinforced(e) /\ b \in Formed(e)
    BY <1>0, <1>1, <1>2, <2>3
  <2>4. CASE a \in Formed(e) /\ b \in Reinforced(e)
    BY <1>0, <1>1, <1>2, <2>4
  <2> QED
    BY <2>1, <2>2, <2>3, <2>4
<1>4. \A row \in new : row.backing \subseteq done \cup {e}
  BY <1>0, <1>1, <1>2
<1>5. ASSUME NEW k \in touches[e]
      PROVE  \E row \in new : Key(row) = k /\ e \in row.backing
  <2>1. CASE k \in {Key(row) : row \in rows}
    <3>1. PICK row \in rows : Key(row) = k
      BY <2>1
    <3> DEFINE n == [id |-> row.id, text |-> row.text, backing |-> row.backing \cup {e},
                     updated |-> clock + 1]
    <3>2. n \in Reinforced(e)
      BY <3>1, <1>5 DEF Reinforced, Touched
    <3> QED
      BY <3>1, <3>2 DEF Key
  <2>2. CASE k \notin {Key(row) : row \in rows}
    <3> DEFINE n == [id |-> <<clock + 1, k>>, text |-> Generated, backing |-> {e},
                     updated |-> clock + 1]
    <3>1. n \in Formed(e)
      BY <2>2, <1>5 DEF Formed
    <3> QED
      BY <3>1 DEF Key
  <2> QED
    BY <2>1, <2>2
<1>6. ASSUME NEW n \in new, NEW row \in rows, n.id = row.id
      PROVE  row.backing \subseteq n.backing
  <2>1. n.id[1] # clock + 1
    BY <1>0, <1>6
  <2> QED
    BY <1>0, <1>1, <1>2, <1>6, <2>1 DEF UniqueIds
<1>7. \A row \in new : row.id[1] \in 0 .. clock + 1
  BY <1>0, <1>1, <1>2
<1> QED
  BY <1>3, <1>4, <1>5, <1>6, <1>7

LEMMA WriteKeeps ==
  ASSUME BeliefInv, NEW e \in Episodes, WriteStage(e)
  PROVE  BeliefInv'
<1> DEFINE new == Reinforced(e) \cup Formed(e)
<1>1. /\ at' = [at EXCEPT ![e] = "written"] /\ at[e] = "open" /\ Holds(e)
      /\ draft' = [draft EXCEPT ![e] = new]
      /\ clock' = clock + 1
      /\ UNCHANGED <<writer, touches, rows, done, expected, asked, fix, shown, epoch>>
  BY DEF WriteStage, lockVars, snapshotVars
<1>2. /\ UniqueIds(new)
      /\ \A row \in new : row.backing \subseteq done \cup {e}
      /\ \A k \in touches[e] : \E row \in new : Key(row) = k /\ e \in row.backing
      /\ \A n \in new : \A row \in rows : n.id = row.id => row.backing \subseteq n.backing
      /\ \A row \in new : row.id[1] \in 0 .. clock + 1
  BY DraftCounts
<1>3. \A c \in Corrections : asked[c] # "idle" => Clear(new, c)
  BY DraftIsClear
<1> HIDE DEF new
<1>4. /\ draft'[e] = new /\ DOMAIN draft' = Episodes
      /\ \A u \in Episodes : u # e => draft'[u] = draft[u] /\ at'[u] = at[u]
  BY <1>1 DEF BeliefInv, BeliefShape
<1>5. BeliefShape'
  BY <1>1, <1>4 DEF BeliefInv, BeliefShape, Places
<1>6. Ages'
  BY <1>1, <1>2, <1>4 DEF BeliefInv, BeliefShape, Ages
<1>7. OwnTexts' /\ ClearRows' /\ CorrectionStands'
  BY <1>1 DEF BeliefInv, TextInv, OwnTexts, ClearRows, CorrectionStands, Clear
<1>8. ASSUME NEW u \in Episodes, Drafted(u)'
      PROVE  /\ Holds(u)' => \A c \in Corrections : asked'[c] # "idle" => Clear(draft[u], c)'
             /\ expected'[u] = epoch' =>
                  \A c \in Corrections : asked'[c] = "returned" => Clear(draft[u], c)'
             /\ DraftInv(u)'
  <2>1. CASE u = e
    BY <1>1, <1>2, <1>3, <1>4, <2>1 DEF DraftInv, UniqueIds, Clear, Key
  <2>2. CASE u # e
    <3>1. Drafted(u) /\ draft'[u] = draft[u] /\ (Holds(u)' => Holds(u))
      BY <1>1, <1>4, <1>8, <2>2 DEF Drafted, Holds
    <3>2. /\ Holds(u) => \A c \in Corrections : asked[c] # "idle" => Clear(draft[u], c)
          /\ expected[u] = epoch =>
               \A c \in Corrections : asked[c] = "returned" => Clear(draft[u], c)
          /\ DraftInv(u)
      BY <3>1 DEF BeliefInv, TextInv, ClearDrafts, EvidenceOfRows
    <3> QED
      BY <1>1, <3>1, <3>2 DEF DraftInv, UniqueIds, Clear, Key
  <2> QED
    BY <2>1, <2>2
<1>9. ClearDrafts'
  BY <1>8 DEF ClearDrafts
<1>10. EvidenceOfRows'
  BY <1>1, <1>8 DEF BeliefInv, EvidenceOfRows, UniqueIds, LedgerAgrees
<1> QED
  BY <1>5, <1>6, <1>7, <1>9, <1>10 DEF BeliefInv, TextInv

\* What the stage publishes is clear of the corrections that were answered: had
\* one been answered since the stage began, the epochs would differ.
LEMMA PublishKeeps ==
  ASSUME BeliefInv, NEW e \in Episodes, PublishStage(e)
  PROVE  BeliefInv'
<1>1. /\ at[e] = "written" /\ at' = [at EXCEPT ![e] = "published"]
      /\ UNCHANGED <<writer, touches, rows, done, asked, fix, epoch, clock, expected, draft>>
      /\ shown' = IF epoch = expected[e] THEN Canonical(Updated(shown, draft[e])) ELSE shown
  BY DEF PublishStage, lockVars
<1>2. \/ shown' \subseteq shown
      \/ epoch = expected[e] /\ shown' \subseteq shown \cup draft[e]
  BY <1>1, CanonicalIsPart DEF Updated
<1>3. CorrectionStands'
  <2> SUFFICES ASSUME NEW c \in Corrections, asked[c] = "returned",
                      NEW row \in shown', row.id = fix[c].item
               PROVE  row.text \notin fix[c].over
    BY <1>1 DEF CorrectionStands
  <2>1. CASE row \in shown
    BY <2>1 DEF BeliefInv, TextInv, CorrectionStands
  <2>2. CASE epoch = expected[e] /\ row \in draft[e]
    BY <1>1, <2>2 DEF BeliefInv, TextInv, ClearDrafts, Drafted, Clear
  <2> QED
    BY <1>2, <2>1, <2>2
<1>4. BeliefShape
  BY DEF BeliefInv
<1> QED
  BY <1>1, <1>3, <1>4, NothingWritten DEF BeliefShape, Places, Drafted

\* A stage that still has the reservation commits what agrees with the rows.
LEMMA CommitKeeps ==
  ASSUME BeliefsAssumption, BeliefInv, NEW e \in Episodes, CommitStage(e)
  PROVE  BeliefInv'
<1>1. /\ at[e] = "published" /\ Holds(e) /\ writer' = None
      /\ rows' = Updated(rows, draft[e]) /\ done' = done \cup {e} /\ Ended(e)
      /\ UNCHANGED <<touches, asked, fix, shown, epoch, clock>>
  BY DEF CommitStage, Releases, snapshotVars
<1>2. /\ DraftInv(e) /\ Holds(e) /\ UniqueIds(rows) /\ LedgerAgrees
      /\ \A c \in Corrections : asked[c] # "idle" => Clear(draft[e], c)
  BY <1>1 DEF Drafted, BeliefInv, TextInv, ClearDrafts, EvidenceOfRows
<1>3. rows' \subseteq rows \cup draft[e] /\ draft[e] \subseteq rows'
  BY <1>1 DEF Updated
<1>4. /\ DOMAIN draft' = Episodes
      /\ \A u \in Episodes : Drafted(u)' => /\ u # e /\ Drafted(u) /\ draft'[u] = draft[u]
                                            /\ expected'[u] = expected[u]
      /\ \A u \in Episodes : draft'[u] \in {draft[u], {}}
  BY <1>1 DEF Ended, BeliefInv, BeliefShape, Drafted
<1>5. \A u \in Episodes : ~ Holds(u)'
  BY <1>1 DEF Holds, BeliefsAssumption
<1>6. BeliefShape'
  BY <1>1, <1>4 DEF Ended, BeliefInv, BeliefShape, Places
<1>7. Ages'
  BY <1>1, <1>3, <1>4 DEF BeliefInv, Ages
<1>8. OwnTexts' /\ CorrectionStands'
  BY <1>1 DEF BeliefInv, TextInv, OwnTexts, CorrectionStands
<1>9. ClearRows'
  BY <1>1, <1>2, <1>3 DEF BeliefInv, TextInv, ClearRows, Clear
<1>10. ClearDrafts'
  BY <1>1, <1>4, <1>5 DEF BeliefInv, TextInv, ClearDrafts, Clear
<1>11. UniqueIds(rows)'
  BY <1>1, <1>2 DEF Updated, Ids, UniqueIds, DraftInv
<1>12. ASSUME NEW u \in Episodes, Drafted(u)' PROVE DraftInv(u)'
  <2>1. DraftInv(u) /\ draft'[u] = draft[u]
    BY <1>4, <1>12 DEF BeliefInv, EvidenceOfRows
  <2> QED
    BY <1>1, <1>5, <2>1 DEF DraftInv, UniqueIds, Key
<1>13. LedgerAgrees'
  <2>1. \A row \in rows' : row.backing \subseteq done'
    BY <1>1, <1>2, <1>3 DEF LedgerAgrees, DraftInv
  <2>2. ASSUME NEW u \in done', NEW k \in touches'[u]
        PROVE  \/ \E row \in rows' : Key(row) = k /\ u \in row.backing
               \/ \E c \in Corrections : fix'[c].op = "delete" /\ fix'[c].item[2] = k
    <3>1. CASE u = e
      <4>1. PICK row \in draft[e] : Key(row) = k /\ e \in row.backing
        BY <1>1, <1>2, <3>1 DEF DraftInv
      <4> QED
        BY <1>3, <3>1, <4>1
    <3>2. CASE u \in done /\ \E row \in rows : Key(row) = k /\ u \in row.backing
      <4>1. PICK row \in rows : Key(row) = k /\ u \in row.backing
        BY <3>2
      <4>2. CASE row.id \in Ids(draft[e])
        <5>1. PICK n \in draft[e] : n.id = row.id
          BY <4>2 DEF Ids
        <5>2. row.backing \subseteq n.backing
          BY <1>2, <5>1 DEF DraftInv
        <5> QED
          BY <1>3, <4>1, <5>1, <5>2 DEF Key
      <4>3. CASE row.id \notin Ids(draft[e])
        BY <1>1, <4>1, <4>3 DEF Updated
      <4> QED
        BY <4>2, <4>3
    <3> QED
      BY <1>1, <1>2, <3>1, <3>2 DEF LedgerAgrees
  <2> QED
    BY <2>1, <2>2 DEF LedgerAgrees, Key
<1> QED
  BY <1>6, <1>7, <1>8, <1>9, <1>10, <1>11, <1>12, <1>13
     DEF BeliefInv, TextInv, EvidenceOfRows

\* A statement of the user: no stage has the reservation, and no statement that
\* took effect so far has written over the text of this one.
LEMMA StoreKeeps ==
  ASSUME BeliefsAssumption, BeliefInv, NEW c \in Corrections,
         StoreEdit(c) \/ StoreDelete(c)
  PROVE  BeliefInv'
<1> DEFINE edited(item) == [id |-> item.id, text |-> c, backing |-> item.backing,
                            updated |-> clock + 1]
<1>1. PICK item \in rows, op \in {"edit", "delete"} :
        Stores(c, op, item.id, IF op = "edit" THEN {edited(item)} ELSE {})
  BY DEF StoreEdit, StoreDelete
<1> DEFINE copy == IF op = "edit" THEN {edited(item)} ELSE {}
           new == [op |-> op, item |-> item.id, copy |-> copy, over |-> Outdated(item.id)]
<1>2. /\ asked[c] = "idle" /\ writer' = None
      /\ asked' = [asked EXCEPT ![c] = "stored"]
      /\ fix' = [fix EXCEPT ![c] = new]
      /\ rows' = Without(rows, item.id) \cup copy
      /\ clock' = clock + 1
      /\ UNCHANGED <<touches, done, at, expected, draft, shown, epoch>>
  BY <1>1 DEF Stores, Unreserved, stageVars, snapshotVars
<1>3. /\ new.op = op /\ new.item = item.id /\ new.copy = copy
      /\ new.over = Outdated(item.id)
  OBVIOUS
<1>4. /\ \A row \in copy : row.id = item.id /\ row.text = c /\ row.backing = item.backing
      /\ \A row, other \in copy : row = other
      /\ op = "edit" => copy # {}
  <2>1. CASE op = "edit"
    <3>1. copy = {edited(item)}
      BY <2>1
    <3>2. /\ edited(item).id = item.id /\ edited(item).text = c
          /\ edited(item).backing = item.backing
      OBVIOUS
    <3> QED
      BY <3>1, <3>2
  <2>2. CASE op = "delete"
    BY <2>2
  <2> QED
    BY <2>1, <2>2
<1> HIDE DEF new, copy
<1>5. /\ asked'[c] = "stored" /\ fix'[c] = new
      /\ \A u \in Corrections : u # c => asked'[u] = asked[u] /\ fix'[u] = fix[u]
  BY <1>2 DEF BeliefInv, BeliefShape
<1>6. c \notin new.over
  BY <1>2, <1>3 DEF Outdated, BeliefsAssumption
<1>7. \A e \in Episodes : ~ Holds(e)'
  BY <1>2 DEF Holds, BeliefsAssumption
<1>8. BeliefShape'
  BY <1>2, <1>5 DEF BeliefInv, BeliefShape, Answers
<1>9. Ages'
  BY <1>2, <1>3, <1>4, <1>5 DEF BeliefInv, BeliefShape, Ages, Without
<1>10. OwnTexts'
  <2>1. ASSUME NEW a \in Corrections, NEW u \in Corrections,
               asked'[a] \in {"idle", "stored"}, asked'[u] # "idle"
        PROVE  a \notin fix'[u].over
    <3>1. asked[a] \in {"idle", "stored"}
      BY <1>2, <1>5, <2>1
    <3>2. CASE u = c
      BY <1>3, <1>5, <3>1, <3>2 DEF Outdated, BeliefsAssumption
    <3>3. CASE u # c
      BY <1>5, <2>1, <3>1, <3>3 DEF BeliefInv, TextInv, OwnTexts
    <3> QED
      BY <3>2, <3>3
  <2>2. \A u \in Corrections : asked'[u] # "idle" =>
          \A row \in fix'[u].copy : row.id = fix'[u].item /\ row.text = u
    BY <1>3, <1>4, <1>5 DEF BeliefInv, TextInv, OwnTexts
  <2> QED
    BY <2>1, <2>2 DEF OwnTexts
<1>11. ClearRows'
  <2> SUFFICES ASSUME NEW u \in Corrections, asked'[u] # "idle",
                      NEW row \in rows', row.id = fix'[u].item
               PROVE  row.text \notin fix'[u].over
    BY DEF ClearRows, Clear
  <2>1. CASE u = c
    BY <1>2, <1>3, <1>4, <1>5, <1>6, <2>1 DEF Without
  <2>2. CASE u # c
    BY <1>2, <1>4, <1>5, <2>2 DEF Without, BeliefInv, TextInv, OwnTexts, ClearRows, Clear
  <2> QED
    BY <2>1, <2>2
<1>12. ClearDrafts'
  BY <1>2, <1>5, <1>7 DEF BeliefInv, TextInv, ClearDrafts, Drafted, Clear
<1>13. CorrectionStands'
  BY <1>2, <1>5 DEF BeliefInv, TextInv, CorrectionStands
<1>14. UniqueIds(rows)'
  BY <1>2, <1>4 DEF BeliefInv, EvidenceOfRows, UniqueIds, Without
<1>15. ASSUME NEW e \in Episodes, Drafted(e)' PROVE DraftInv(e)'
  <2>1. DraftInv(e)
    BY <1>2, <1>15 DEF Drafted, BeliefInv, EvidenceOfRows
  <2> QED
    BY <1>2, <1>7, <2>1 DEF DraftInv, UniqueIds, Key
<1>16. LedgerAgrees'
  <2>0. LedgerAgrees /\ UniqueIds(rows)
    BY DEF BeliefInv, EvidenceOfRows
  <2>1. \A row \in rows' : row.backing \subseteq done'
    BY <1>2, <1>4, <2>0 DEF LedgerAgrees, Without
  <2>2. ASSUME NEW e \in done', NEW k \in touches'[e]
        PROVE  \/ \E row \in rows' : Key(row) = k /\ e \in row.backing
               \/ \E u \in Corrections : fix'[u].op = "delete" /\ fix'[u].item[2] = k
    <3>1. CASE \E u \in Corrections : fix[u].op = "delete" /\ fix[u].item[2] = k
      BY <1>2, <1>5, <3>1 DEF BeliefInv, BeliefShape, NoFix
    <3>2. CASE \E row \in rows : Key(row) = k /\ e \in row.backing
      <4>1. PICK row \in rows : Key(row) = k /\ e \in row.backing
        BY <3>2
      <4>2. CASE row.id # item.id
        BY <1>2, <4>1, <4>2 DEF Without
      <4>3. CASE row.id = item.id /\ op = "edit"
        <5>1. row = item
          BY <2>0, <4>1, <4>3 DEF UniqueIds
        <5>2. PICK other \in copy : other.id = item.id /\ other.backing = item.backing
          BY <1>4, <4>3
        <5> QED
          BY <1>2, <4>1, <5>1, <5>2 DEF Key
      <4>4. CASE row.id = item.id /\ op = "delete"
        BY <1>3, <1>5, <4>1, <4>4 DEF Key
      <4> QED
        BY <4>2, <4>3, <4>4
    <3> QED
      BY <1>2, <2>0, <3>1, <3>2 DEF LedgerAgrees
  <2> QED
    BY <2>1, <2>2 DEF LedgerAgrees, Key
<1> QED
  BY <1>8, <1>9, <1>10, <1>11, <1>12, <1>13, <1>14, <1>15, <1>16
     DEF BeliefInv, TextInv, EvidenceOfRows

\* The text of the request is one nobody has written over; and no stage that
\* began before the answer has the epoch it leaves behind.
LEMMA ReturnKeeps ==
  ASSUME BeliefInv, NEW c \in Corrections, ReturnCorrection(c)
  PROVE  BeliefInv'
<1>1. /\ asked[c] = "stored" /\ asked' = [asked EXCEPT ![c] = "returned"]
      /\ shown' = Corrected(c) /\ epoch' = epoch + 1
      /\ UNCHANGED <<writer, touches, rows, done, at, expected, draft, fix, clock>>
  BY DEF ReturnCorrection, lockVars, stageVars
<1>2. shown' \subseteq Without(shown, fix[c].item) \cup fix[c].copy
  BY <1>1, CanonicalIsPart DEF Corrected
<1>3. \A u \in Corrections : asked'[u] = IF u = c THEN "returned" ELSE asked[u]
  BY <1>1 DEF BeliefInv, BeliefShape
<1>4. BeliefShape'
  BY <1>1, <1>3 DEF BeliefInv, BeliefShape, Answers
<1>5. Ages'
  BY <1>1, <1>3 DEF BeliefInv, Ages
<1>6. OwnTexts'
  BY <1>1, <1>3 DEF BeliefInv, TextInv, OwnTexts
<1>7. ClearRows'
  BY <1>1, <1>3 DEF BeliefInv, TextInv, ClearRows, Clear
<1>8. ClearDrafts'
  <2>1. \A e \in Episodes : expected'[e] # epoch'
    BY <1>1 DEF BeliefInv, BeliefShape
  <2> QED
    BY <1>1, <1>3, <2>1 DEF BeliefInv, TextInv, ClearDrafts, Drafted, Clear, Holds
<1>9. CorrectionStands'
  <2> SUFFICES ASSUME NEW u \in Corrections, asked'[u] = "returned",
                      NEW row \in shown', row.id = fix[u].item
               PROVE  row.text \notin fix[u].over
    BY <1>1 DEF CorrectionStands
  <2>1. CASE row \in fix[c].copy
    <3>1. row.text = c /\ asked[u] # "idle"
      BY <1>1, <1>3, <2>1 DEF BeliefInv, TextInv, OwnTexts
    <3> QED
      BY <1>1, <3>1 DEF BeliefInv, TextInv, OwnTexts
  <2>2. CASE row \in Without(shown, fix[c].item)
    <3>1. row \in shown /\ u # c
      BY <2>2 DEF Without
    <3> QED
      BY <1>3, <3>1 DEF BeliefInv, TextInv, CorrectionStands
  <2> QED
    BY <1>2, <2>1, <2>2
<1>10. EvidenceOfRows'
  BY <1>1 DEF BeliefInv, EvidenceOfRows, UniqueIds, Drafted, DraftInv, Key, Holds,
              LedgerAgrees
<1> QED
  BY <1>4, <1>5, <1>6, <1>7, <1>8, <1>9, <1>10 DEF BeliefInv, TextInv

LEMMA RaiseKeeps ==
  ASSUME BeliefInv, NEW c \in Corrections, RaiseCorrection(c)
  PROVE  BeliefInv'
<1>1. /\ asked[c] = "stored" /\ asked' = [asked EXCEPT ![c] = "raised"]
      /\ UNCHANGED <<writer, touches, rows, done, at, expected, draft, fix, shown, epoch,
                     clock>>
  BY DEF RaiseCorrection, stageVars, snapshotVars
<1>2. \A u \in Corrections : asked'[u] = IF u = c THEN "raised" ELSE asked[u]
  BY <1>1 DEF BeliefInv, BeliefShape
<1>3. BeliefShape' /\ Ages'
  BY <1>1, <1>2 DEF BeliefInv, BeliefShape, Ages, Answers
<1>4. OwnTexts'
  BY <1>1, <1>2 DEF BeliefInv, TextInv, OwnTexts
<1>5. ClearRows' /\ CorrectionStands'
  BY <1>1, <1>2 DEF BeliefInv, TextInv, ClearRows, CorrectionStands, Clear
<1>6. ClearDrafts'
  BY <1>1, <1>2 DEF BeliefInv, TextInv, ClearDrafts, Drafted, Clear, Holds
<1>7. EvidenceOfRows'
  BY <1>1 DEF BeliefInv, EvidenceOfRows, UniqueIds, Drafted, DraftInv, Key, Holds,
              LedgerAgrees
<1> QED
  BY <1>3, <1>4, <1>5, <1>6, <1>7 DEF BeliefInv, TextInv

\* A new process shows some of the durable rows, and those are clear.
LEMMA BeliefRestarts ==
  ASSUME BeliefInv, Restart
  PROVE  BeliefInv'
<1>1. /\ at' = [e \in Episodes |-> "idle"] /\ expected' = [e \in Episodes |-> 0]
      /\ draft' = [e \in Episodes |-> {}]
      /\ asked' = [c \in Corrections |-> IF asked[c] = "stored" THEN "raised" ELSE asked[c]]
      /\ epoch' = 0 /\ shown' \subseteq rows
      /\ UNCHANGED <<touches, rows, done, fix, clock>>
  BY CanonicalIsPart DEF Restart, BeliefsRestart, Hydrates
<1>2. BeliefShape' /\ Ages'
  BY <1>1 DEF BeliefInv, BeliefShape, Ages, Places, Answers
<1>3. OwnTexts'
  BY <1>1 DEF BeliefInv, BeliefShape, TextInv, OwnTexts, Answers
<1>4. ClearRows'
  BY <1>1 DEF BeliefInv, TextInv, ClearRows, Clear
<1>5. CorrectionStands'
  BY <1>1 DEF BeliefInv, TextInv, ClearRows, CorrectionStands, Clear
<1>6. \A e \in Episodes : ~ Drafted(e)'
  BY <1>1 DEF Drafted
<1>7. ClearDrafts' /\ EvidenceOfRows'
  BY <1>1, <1>6 DEF ClearDrafts, BeliefInv, EvidenceOfRows, UniqueIds, LedgerAgrees
<1> QED
  BY <1>2, <1>3, <1>4, <1>5, <1>7 DEF BeliefInv, TextInv

LEMMA BeliefCounts ==
  ASSUME BeliefsAssumption, EvidenceAssumption, CognitionAssumption, BeliefInv, Counts
  PROVE  BeliefInv'
<1>1. UNCHANGED beliefsVars
  BY DEF Counts
<1>2. \A e \in Episodes : writer' = e => writer = e
  BY CountsTakeNothing
<1> QED
  BY <1>1, <1>2, NothingWritten, ShownKept
     DEF beliefsVars, stageVars, snapshotVars, BeliefInv, BeliefShape, Drafted

-----------------------------------------------------------------------------
(* The composition.                                                           *)
CognitionInv == BeliefInv /\ WorkInv

LEMMA CognitionStep ==
  ASSUME BeliefsAssumption, EvidenceAssumption, CognitionAssumption,
         CognitionInv, [Next]_vars
  PROVE  CognitionInv'
<1> USE DEF CognitionInv
<1>1. CASE Believes
  <2>1. WorkInv'
    BY <1>1, WorkKept, BelievesTakeNothing DEF Believes
  <2>2. ASSUME NEW e \in Episodes, StageSteps(e) PROVE BeliefInv'
    BY <2>2, OpenKeeps, WriteKeeps, PublishKeeps, CommitKeeps DEF StageSteps
  <2>3. ASSUME NEW c \in Corrections, CorrectionSteps(c) PROVE BeliefInv'
    BY <2>3, StoreKeeps, ReturnKeeps, RaiseKeeps DEF CorrectionSteps
  <2> QED
    BY <1>1, <2>1, <2>2, <2>3 DEF Believes
<1>2. CASE Counts
  BY <1>2, WorkStep, BeliefCounts DEF Counts
<1>3. CASE Restart
  BY <1>3, WorkRestarts, BeliefRestarts
<1>4. CASE UNCHANGED vars
  <2>1. WorkInv'
    BY <1>4, WorkKept DEF vars, lockVars
  <2>2. BeliefInv'
    BY <1>4, NothingWritten, ShownKept
       DEF vars, lockVars, beliefsVars, stageVars, snapshotVars, BeliefInv, BeliefShape,
           Drafted
  <2> QED
    BY <2>1, <2>2
<1> QED
  BY <1>1, <1>2, <1>3, <1>4 DEF Next

(* Rows, drafts, snapshot and totals fit together in every reachable state:    *)
(* the invariant the properties of the stages and corrections follow from.    *)
THEOREM CognitionHolds == Spec => []CognitionInv
<1> USE BeliefsAssumption, EvidenceAssumption, CognitionAssumption
<1>1. Init => CognitionInv
  BY BeliefInitially, WorkInitially DEF CognitionInv
<1>2. CognitionInv /\ [Next]_vars => CognitionInv'
  BY CognitionStep
<1> QED
  BY <1>1, <1>2, PTL DEF Spec

\* A correction that was answered is not undone in memory: narrative.py and
\* self_model.py never show its item again with a text it has written over.
THEOREM AnsweredCorrectionStands == Spec => []CorrectionStands
<1>1. CognitionInv => CorrectionStands
  BY DEF CognitionInv, BeliefInv, TextInv
<1> QED
  BY <1>1, CognitionHolds, PTL

\* The beliefs and the ledger of stages agree: no belief counts an episode whose
\* stage did not commit, and none lacks one whose stage did.
THEOREM BeliefsMatchLedger == Spec => []LedgerAgrees
<1>1. CognitionInv => LedgerAgrees
  BY DEF CognitionInv, BeliefInv, EvidenceOfRows
<1> QED
  BY <1>1, CognitionHolds, PTL

\* An event goes into a durable total once, however many tasks, retries and
\* processes apply it.
THEOREM EventsCountOnce == Spec => []CountedOnce
<1>1. CognitionInv => CountedOnce
  BY DEF CognitionInv, WorkInv
<1> QED
  BY <1>1, CognitionHolds, PTL


=============================================================================
