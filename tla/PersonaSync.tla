----------------------------- MODULE PersonaSync -----------------------------
(* Manual synchronisation of one persona between devices: persona_sync.py     *)
(* and the commands of scripts/mindcore_sync.py over the envelopes of         *)
(* SyncEnvelope.                                                              *)
(*                                                                            *)
(* A device has two databases: the persona's rows, which the chat changes at  *)
(* any time, and the sync metadata, which remembers the revision each row had *)
(* at the last scan.  A command is a process of its own, one at a time on a   *)
(* device; it may die between its transactions.                               *)
(*                                                                            *)
(* Content hashes are numbers: every edit makes a content of its own, Gone is *)
(* the tombstone hash and NoHash stands for None.                             *)
EXTENDS SyncEnvelope, Sequences, SequencesExt, FiniteSetsExt

CONSTANTS
  Entities,   \* keys (kind, id) of rows, numbered in their sorted order
  Mutable,    \* those of a SYNC_MUTABLE kind; the others are SYNC_APPEND_ONLY
  Original,   \* rows of the package both devices start from
  Losses,     \* ways a scanned change may be left unsent
  MaxEdits,   \* bound: changes of rows by the chat
  MaxSends,   \* bound: envelopes written
  MaxCrashes  \* bound: commands that die, metadata stores lost

ASSUME EntitiesAssumption == /\ IsFiniteSet(Entities)
                             /\ Entities = 1..Cardinality(Entities)
                             /\ Mutable \cup Original \subseteq Entities
ASSUME LossesAssumption == Losses \subseteq {"inbox", "export", "metadata"}
ASSUME SyncBoundsAssumption == {MaxEdits, MaxSends, MaxCrashes} \subseteq Nat

VARIABLES
  dom,         \* dom[d][e]: content hash of the row, NoHash if there is none
  past,        \* past[h]: contents h was written, chosen or put over (history)
  erased,      \* erased[d][e]: the last content of a row that was erased (history)
  meta,        \* meta[d][e]: the sync_record_state row
  baselined,   \* baselined[d]: the persona_baselines row exists
  counter,     \* counter[d]: the persona_revision_counters row
  conflicts,   \* conflicts[d]: sync_conflicts rows in the order first seen
  resolutions, \* resolutions[d]: sync_resolutions rows in the order inserted
  job,         \* job[d]: the command under way and what it has left to write
  completed,   \* completed[d]: messages complete_inbound was called for (history)
  dropped,     \* a scanned change was left out of every envelope (history)
  crashes      \* counter for the bound

metaVars == <<meta, baselined, counter, conflicts, resolutions>>
rowVars == <<dom, past, erased>>
syncVars == <<rowVars, metaVars, job, completed, dropped, crashes>>
vars == <<envelopeVars, syncVars>>

NoHash == -1
Gone == 0
Hash == Nat \cup {NoHash}
BaselineOrigin == "baseline"

Revision == [hash : Hash, origin : Devices \cup {BaselineOrigin}, counter : Nat,
             parent : Hash, ancestor : Hash]
BaselineRevision(h) ==
  [hash |-> h, origin |-> BaselineOrigin, counter |-> 0,
   parent |-> NoHash, ancestor |-> h]
Unseen == BaselineRevision(NoHash)

NoRev == <<>>
\* local_revision: what identifies the revision of a conflict.
RevOf(r) == IF r = Unseen THEN NoRev
            ELSE <<r.origin, r.counter, r.parent, r.ancestor>>

\* A resolution is identified by what it decides, not by who decided it.
ResolutionId(o) ==
  [ent |-> o.ent, heads |-> o.heads, hash |-> o.hash, supersedes |-> o.supersedes]

Open(d) == {i \in DOMAIN conflicts[d] : conflicts[d][i].open}
Idle == [op |-> "idle"]
ConflictTypes == {"CONCURRENT_MUTATION", "IDENTITY_PAYLOAD_CONFLICT",
  "TOMBSTONE_CONFLICT", "TOMBSTONE_ID_REUSE", "REMOTE_ANCESTRY_UNKNOWN",
  "RESOLUTION_CONFLICT"}

TypeOK ==
  /\ EnvelopeTypeOK
  /\ dom \in [Devices -> [Entities -> Hash \ {Gone}]]
  /\ meta \in [Devices -> [Entities -> Revision]]
  /\ baselined \in [Devices -> BOOLEAN]
  /\ counter \in [Devices -> Nat]
  /\ \A d \in Devices :
       /\ \A i \in DOMAIN conflicts[d] :
            /\ conflicts[d][i].ent \in Entities
            /\ conflicts[d][i].type \in ConflictTypes
            /\ conflicts[d][i].open \in BOOLEAN
       /\ \A i \in DOMAIN resolutions[d] :
            /\ Cardinality(resolutions[d][i].heads) = 2
            /\ resolutions[d][i].ent \in Mutable
       /\ job[d].op \in {"idle", "sending", "received", "committed", "recording"}
       /\ completed[d] \subseteq {m.id : m \in sent}

Init ==
  /\ EnvelopeInit
  /\ dom = [d \in Devices |-> [e \in Entities |->
              IF e \in Original THEN e ELSE NoHash]]
  /\ past = [h \in Entities |-> {}]
  /\ erased = [d \in Devices |-> [e \in Entities |-> NoHash]]
  /\ meta = [d \in Devices |-> [e \in Entities |-> BaselineRevision(dom[d][e])]]
  /\ baselined = [d \in Devices |-> TRUE]
  /\ counter = [d \in Devices |-> 0]
  /\ conflicts = [d \in Devices |-> <<>>]
  /\ resolutions = conflicts
  /\ job = [d \in Devices |-> Idle]
  /\ completed = [d \in Devices |-> {}]
  /\ dropped = FALSE
  /\ crashes = 0

-----------------------------------------------------------------------------
(* The chat                                                                   *)

Contents == DOMAIN past
MayEdit == Len(past) < Cardinality(Entities) + MaxEdits

\* The content and all it stands over.
Under(h) == IF h \in Contents THEN past[h] \cup {h} ELSE {}

\* What stands over one of tops stands over all that is below from now on.
Stack(tops, below) ==
  past' = [h \in Contents |->
    IF Under(h) \cap tops # {} THEN past[h] \cup below ELSE past[h]]

\* The content the row has, or had when it was erased.
Latest(d, e) == IF dom[d][e] = NoHash THEN erased[d][e] ELSE dom[d][e]

Write(d, e) ==
  /\ MayEdit
  /\ dom[d][e] # NoHash => e \in Mutable
  /\ dom' = [dom EXCEPT ![d][e] = Len(past) + 1]
  /\ past' = Append(past, Under(Latest(d, e)))
  /\ UNCHANGED <<envelopeVars, erased, metaVars, job, completed, dropped, crashes>>

\* An erased row takes a number too, so that MaxEdits counts it.
Erase(d, e) ==
  /\ MayEdit
  /\ dom[d][e] # NoHash
  /\ dom' = [dom EXCEPT ![d][e] = NoHash]
  /\ erased' = [erased EXCEPT ![d][e] = dom[d][e]]
  /\ past' = Append(past, {})
  /\ UNCHANGED <<envelopeVars, metaVars, job, completed, dropped, crashes>>

-----------------------------------------------------------------------------
(* scan: reconcile, then the resolutions that still stand                     *)

TombstoneResolutions(d, e) ==
  SelectSeq(resolutions[d], LAMBDA r : r.ent = e /\ r.hash = Gone)

\* The row behind a tombstone is the one the deletion saw, or was kept.
Suppressed(d, e) ==
  LET kept == TombstoneResolutions(d, e)
  IN \/ dom[d][e] \in {meta[d][e].parent, meta[d][e].ancestor}
     \/ kept # <<>> /\ Last(kept).retained = dom[d][e]

\* _read_candidates: the entities with a row; the hash of a row is its content.
Candidates(d) == {e \in Entities : dom[d][e] # NoHash}

Reused(d) == {e \in Candidates(d) : meta[d][e].hash = Gone /\ ~Suppressed(d, e)}
Vanished(d) == {e \in Entities \ Candidates(d) : meta[d][e].hash \notin {NoHash, Gone}}
Rewritten(d) == {e \in Candidates(d) : meta[d][e].hash \notin {Gone, dom[d][e]}}
Changed(d) == IF baselined[d] THEN Rewritten(d) \cup Vanished(d) ELSE {}

\* Rows take their counters in the order of their keys, deletions last.
Turn(d, e) ==
  IF e \in Vanished(d)
  THEN Cardinality(Rewritten(d)) + Cardinality({f \in Vanished(d) : f <= e})
  ELSE Cardinality({f \in Rewritten(d) : f <= e})

NextRevision(d, e) ==
  LET old == meta[d][e]
  IN [hash |-> IF e \in Vanished(d) THEN Gone ELSE dom[d][e],
      origin |-> d, counter |-> counter[d] + Turn(d, e), parent |-> old.hash,
      ancestor |-> IF old.ancestor # NoHash THEN old.ancestor ELSE old.hash]

Observed(d) ==
  [e \in Entities |->
     IF e \in Changed(d) THEN NextRevision(d, e)
     ELSE IF ~baselined[d] /\ dom[d][e] # NoHash /\ meta[d][e].hash # Gone
          THEN BaselineRevision(dom[d][e])
     ELSE meta[d][e]]

Change(d, e) ==
  IF e \in Vanished(d) THEN "deleted"
  ELSE IF meta[d][e].hash = NoHash THEN "created" ELSE "updated"

Superseded(d) == UNION {r.supersedes : r \in Range(resolutions[d])}

\* Resolutions made here whose result is still the record: sent by every scan.
Standing(d) ==
  {r \in Range(resolutions[d]) :
     /\ ResolutionId(r) \notin Superseded(d)
     /\ Observed(d)[r.ent].hash = r.hash
     /\ r.origin = d}

(* make_resolution and validate_delta check the record's revision against the *)
(* heads: the scan raises, after its changes are saved.                       *)
ScanRaises(d) ==
  \E r \in Standing(d) :
    LET rec == Observed(d)[r.ent]
    IN {rec.parent, rec.ancestor} # r.heads \/ rec.origin # d

ScanDelta(d) ==
  [entries |-> {[ent |-> e, change |-> Change(d, e), rec |-> NextRevision(d, e)] :
                  e \in Changed(d)},
   conflicts |-> {[ent |-> e, lhash |-> dom[d][e], rhash |-> Gone] : e \in Reused(d)},
   resolutions |-> {[ent |-> r.ent, heads |-> r.heads, hash |-> r.hash,
                     supersedes |-> r.supersedes, rec |-> Observed(d)[r.ent]] :
                      r \in Standing(d)}]

Empty(delta) ==
  delta.entries = {} /\ delta.conflicts = {} /\ delta.resolutions = {}

Reconcile(d) ==
  /\ meta' = [meta EXCEPT ![d] = Observed(d)]
  /\ counter' = [counter EXCEPT ![d] = @ + Cardinality(Changed(d))]
  /\ baselined' = [baselined EXCEPT ![d] = TRUE]
  /\ UNCHANGED <<conflicts, resolutions>>

\* Command conflicts, which the panel runs when it opens and after each action.
OpenInbox(d) ==
  /\ job[d] = Idle /\ Identified(d)
  /\ \/ "inbox" \in Losses /\ Changed(d) # {}
     \/ ~baselined[d]
  /\ Reconcile(d)
  /\ dropped' = TRUE
  /\ UNCHANGED <<envelopeVars, rowVars, job, completed, crashes>>

\* Command export, up to the envelope.
Export(d, p) ==
  /\ job[d] = Idle /\ Identified(d) /\ p # d
  /\ Cardinality(sent) < MaxSends
  /\ ~Empty(ScanDelta(d))
  /\ Reconcile(d)
  /\ IF ScanRaises(d)
     THEN /\ UNCHANGED job
          /\ dropped' = (dropped \/ Changed(d) # {})
     ELSE /\ job' = [job EXCEPT ![d] = [op |-> "sending", to |-> p,
                                        delta |-> ScanDelta(d)]]
          /\ UNCHANGED dropped
  /\ UNCHANGED <<envelopeVars, rowVars, completed, crashes>>

Send(d) ==
  /\ job[d].op = "sending"
  /\ Encrypt(d, job[d].to, job[d].delta)
  /\ job' = [job EXCEPT ![d] = Idle]
  /\ UNCHANGED <<rowVars, metaVars, completed, dropped, crashes>>

\* The peer is not trusted, the file cannot be written, or the process dies.
SendFails(d) ==
  /\ job[d].op = "sending"
  /\ \/ ~MayEncrypt(d, job[d].to) /\ UNCHANGED <<envelopeVars, crashes>>
     \/ /\ "export" \in Losses /\ crashes < MaxCrashes
        /\ crashes' = crashes + 1
        /\ WasteSequence(d, job[d].to)
  /\ job' = [job EXCEPT ![d] = Idle]
  /\ dropped' = (dropped \/ job[d].delta.entries # {} \/ job[d].delta.conflicts # {})
  /\ UNCHANGED <<rowVars, metaVars, completed>>

-----------------------------------------------------------------------------
(* apply_remote_delta                                                         *)

Receive(d, m) ==
  /\ job[d] = Idle
  /\ Reserve(d, m)
  /\ job' = [job EXCEPT ![d] = [op |-> "received", msg |-> m]]
  /\ UNCHANGED <<rowVars, metaVars, completed, dropped, crashes>>

Known(d, o) ==
  \E r \in Range(resolutions[d]) : ResolutionId(r) = ResolutionId(o)

\* Open conflicts with this peer the search for the operation's heads looks at.
About(d, p, o) ==
  {i \in Open(d) : conflicts[d][i].ent = o.ent /\ conflicts[d][i].peer = p
                   /\ (\/ conflicts[d][i].lhash = NoHash
                       \/ {conflicts[d][i].lhash, conflicts[d][i].rhash} = o.heads)}

\* sorted() raises on a conflict without a local hash.
SearchRaises(d, p, o) ==
  About(d, p, o) # {} /\ conflicts[d][Min(About(d, p, o))].lhash = NoHash

Siblings(d, o) ==
  {ResolutionId(r) : r \in {x \in Range(resolutions[d]) : x.ent = o.ent /\ x.heads = o.heads}}
    \ {ResolutionId(o)}
\* The one with the least identity: an order of hashes, as good as any.
Sibling(d, o) == CHOOSE id \in Siblings(d, o) : TRUE

\* The operation answers the two resolutions the conflict is about.
Supersedes(c, o) ==
  c.type = "RESOLUTION_CONFLICT" /\ {c.lrev, c.rrev} = o.supersedes

OperationVerdict(d, p, o) ==
  IF Known(d, o) THEN "known"
  ELSE LET found == About(d, p, o)
           c == conflicts[d][Min(found)]
       IN IF SearchRaises(d, p, o) THEN "STALE_RESOLUTION"
          ELSE IF /\ Siblings(d, o) # {}
                  /\ \/ found = {}
                     \/ ~Supersedes(c, o)
                     \/ Sibling(d, o) \notin o.supersedes
          THEN "RESOLUTION_CONFLICT"
          ELSE IF found = {} THEN "STALE_RESOLUTION"
          ELSE IF \/ c.type = "RESOLUTION_CONFLICT" /\ ~Supersedes(c, o)
                  \/ c.type # "RESOLUTION_CONFLICT" /\ o.supersedes # {}
          THEN "STALE_RESOLUTION"
          ELSE "accepted"

\* As EntryVerdict, taking any update of a mutable row.
EntryVerdictLatest(d, entry) ==
  LET r == entry.rec
      row == dom[d][entry.ent]
      foreseen == row \in {r.parent, r.ancestor}
  IN IF r.hash = Gone
     THEN IF row = NoHash \/ foreseen THEN "deleted" ELSE "TOMBSTONE_CONFLICT"
     ELSE IF meta[d][entry.ent].hash = Gone THEN "CONCURRENT_DELETE_MUTATION"
     ELSE IF row = r.hash THEN "noop"
     ELSE IF row = NoHash THEN "insert"
     ELSE IF entry.ent \notin Mutable THEN "IDENTITY_PAYLOAD_CONFLICT"
     ELSE "update"

\* As EntryVerdict, without asking whether the entity was deleted here.
EntryVerdictUndeleting(d, entry) ==
  LET r == entry.rec
      row == dom[d][entry.ent]
      foreseen == row \in {r.parent, r.ancestor}
  IN IF r.hash = Gone
     THEN IF row = NoHash \/ foreseen THEN "deleted" ELSE "TOMBSTONE_CONFLICT"
     ELSE IF row = r.hash THEN "noop"
     ELSE IF row = NoHash
     THEN IF entry.change = "created" /\ r.parent = NoHash
          THEN "insert" ELSE "REMOTE_ANCESTRY_UNKNOWN"
     ELSE IF entry.ent \notin Mutable THEN "IDENTITY_PAYLOAD_CONFLICT"
     ELSE IF entry.change = "updated" /\ foreseen THEN "update"
     ELSE "CONCURRENT_MUTATION"

\* What the entry asks of the row it finds, or the conflict it raises.
EntryVerdict(d, entry) ==
  LET r == entry.rec
      row == dom[d][entry.ent]
      foreseen == row \in {r.parent, r.ancestor}
  IN IF r.hash = Gone
     THEN IF row = NoHash \/ foreseen THEN "deleted" ELSE "TOMBSTONE_CONFLICT"
     ELSE IF meta[d][entry.ent].hash = Gone THEN "CONCURRENT_DELETE_MUTATION"
     ELSE IF row = r.hash THEN "noop"
     ELSE IF row = NoHash
     THEN IF entry.change = "created" /\ r.parent = NoHash
          THEN "insert" ELSE "REMOTE_ANCESTRY_UNKNOWN"
     ELSE IF entry.ent \notin Mutable THEN "IDENTITY_PAYLOAD_CONFLICT"
     ELSE IF entry.change = "updated" /\ foreseen THEN "update"
     ELSE "CONCURRENT_MUTATION"

Plans == {"deleted", "noop", "insert", "update"}

\* The content a resolution finds: the tombstone, or else the row.
Effective(d, e) == IF meta[d][e].hash = Gone THEN Gone ELSE dom[d][e]

\* As ConflictRow, with the kind as the apply raised it.
ConflictRowRaw(d, m, e, type, lhash, rhash, lrev, rrev) ==
  [ent |-> e, peer |-> m.from, type |-> type,
   lhash |-> IF lhash = NoHash THEN meta[d][e].hash ELSE lhash, rhash |-> rhash,
   lrev |-> IF lrev = NoRev THEN RevOf(meta[d][e]) ELSE lrev, rrev |-> rrev,
   open |-> TRUE, artifact |-> m.id]

ConflictRow(d, m, e, type, lhash, rhash, lrev, rrev) ==
  [ent |-> e, peer |-> m.from,
   type |-> IF type = "CONCURRENT_DELETE_MUTATION" THEN "TOMBSTONE_CONFLICT" ELSE type,
   lhash |-> IF lhash = NoHash THEN meta[d][e].hash ELSE lhash, rhash |-> rhash,
   lrev |-> IF lrev = NoRev THEN RevOf(meta[d][e]) ELSE lrev, rrev |-> rrev,
   open |-> TRUE, artifact |-> m.id]

SameConflict(c, r) == [c EXCEPT !.open = TRUE, !.artifact = 0]
                        = [r EXCEPT !.open = TRUE, !.artifact = 0]

(* record_conflict and save_pending_artifact: a conflict seen before keeps    *)
(* its row and its state.                                                     *)
RecordConflict(d, r) ==
  conflicts' = [conflicts EXCEPT ![d] =
    IF \E c \in Range(@) : SameConflict(c, r)
    THEN [i \in DOMAIN @ |-> IF SameConflict(@[i], r)
            THEN [@[i] EXCEPT !.artifact = r.artifact] ELSE @[i]]
    ELSE Append(@, r)]

Least(S) == CHOOSE x \in S : \A y \in S : x.ent <= y.ent

(* The operations are looked at first, then the sender's own conflicts, then  *)
(* the ordinary entries against the rows, then the operations' rows.          *)
OperationConflict(d, m, o) ==
  LET id == Sibling(d, o)
  IN ConflictRow(d, m, o.ent, "RESOLUTION_CONFLICT", id.hash, o.hash,
                 id, ResolutionId(o))

EntryConflict(d, m, entry) ==
  LET code == EntryVerdict(d, entry)
      lhash == IF code = "REMOTE_ANCESTRY_UNKNOWN" THEN NoHash
               ELSE IF code = "CONCURRENT_DELETE_MUTATION" THEN Gone
               ELSE dom[d][entry.ent]
  IN ConflictRow(d, m, entry.ent, code, lhash, entry.rec.hash, NoRev, RevOf(entry.rec))

Refusal == [kind |-> "refused"]
Raising(row) == [kind |-> "conflict", row |-> row]
Committing == [kind |-> "commit"]

ApplyVerdict(d, m) ==
  LET delta == m.payload
      ops == delta.resolutions
      decided == {o.ent : o \in ops}
      bad == {o \in ops : OperationVerdict(d, m.from, o) \notin {"known", "accepted"}}
      reused == {c \in delta.conflicts : c.ent \notin decided}
      clash == {n \in delta.entries : n.ent \notin decided
                                      /\ EntryVerdict(d, n) \notin Plans}
      stale == {o \in ops : /\ OperationVerdict(d, m.from, o) = "accepted"
                            /\ Effective(d, o.ent) \notin o.heads \cup {o.hash}}
  IN IF Cardinality(decided) # Cardinality(ops) THEN Refusal
     ELSE IF bad # {}
     THEN IF OperationVerdict(d, m.from, Least(bad)) = "RESOLUTION_CONFLICT"
          THEN Raising(OperationConflict(d, m, Least(bad))) ELSE Refusal
     ELSE IF reused # {}
     THEN LET c == Least(reused) IN
          Raising(ConflictRow(d, m, c.ent, "TOMBSTONE_ID_REUSE",
                              c.lhash, c.rhash, NoRev, NoRev))
     ELSE IF clash # {} THEN Raising(EntryConflict(d, m, Least(clash)))
     ELSE IF stale # {} THEN Refusal
     ELSE Committing

Ordinary(m) == {n \in m.payload.entries :
                  \A o \in m.payload.resolutions : o.ent # n.ent}
Accepted(d, m) == {o \in m.payload.resolutions : ~Known(d, o)}

\* SyncError: nothing is written, the message stays pending.
ApplyRefused(d) ==
  /\ job[d].op = "received"
  /\ ApplyVerdict(d, job[d].msg) = Refusal
  /\ job' = [job EXCEPT ![d] = Idle]
  /\ UNCHANGED <<envelopeVars, rowVars, metaVars, completed, dropped, crashes>>

\* SyncApplyConflict: rolled back, the first conflict is kept for the user.
ApplyConflicts(d) ==
  /\ job[d].op = "received"
  /\ LET v == ApplyVerdict(d, job[d].msg)
     IN /\ v.kind = "conflict"
        /\ RecordConflict(d, v.row)
  /\ job' = [job EXCEPT ![d] = Idle]
  /\ UNCHANGED <<envelopeVars, rowVars, meta, baselined, counter, resolutions,
                 completed, dropped, crashes>>

\* The rows of the delta are written in one transaction of the persona database.
ApplyCommits(d) ==
  /\ job[d].op = "received"
  /\ LET m == job[d].msg
         writes == {n \in Ordinary(m) : EntryVerdict(d, n) \in {"insert", "update"}}
         decides == {o \in Accepted(d, m) : o.hash # Gone}
         inserts == {n \in writes : EntryVerdict(d, n) = "insert"}
     IN /\ ApplyVerdict(d, m) = Committing
        /\ dom' = [dom EXCEPT ![d] = [e \in Entities |->
             IF \E n \in writes : n.ent = e
             THEN (CHOOSE n \in writes : n.ent = e).rec.hash
             ELSE IF \E o \in decides : o.ent = e
             THEN (CHOOSE o \in decides : o.ent = e).hash
             ELSE @[e]]]
        /\ Stack({n.rec.hash : n \in inserts},
                 UNION {Under(erased[d][n.ent]) : n \in inserts})
        /\ job' = [job EXCEPT ![d] =
             [op |-> "committed", msg |-> m,
              todo |-> {[operation |-> o,
                         conflict |-> Min(About(d, m.from, o)),
                         retained |-> IF o.hash = Gone THEN dom[d][o.ent] ELSE NoHash] :
                          o \in Accepted(d, m)}]]
  /\ UNCHANGED <<envelopeVars, erased, metaVars, completed, dropped, crashes>>

\* The rows are written; todo is left to record, for the conflict of an entity.
Recording(m, todo, ent) ==
  [op |-> "recording", msg |-> m, todo |-> todo, resolving |-> ent]

\* As Checkpoint, for the records that have a row.
CheckpointRows(d) ==
  /\ job[d].op = "committed"
  /\ LET seen == {n \in Ordinary(job[d].msg) : n.rec.hash # Gone}
     IN meta' = [meta EXCEPT ![d] = [e \in Entities |->
          IF \E n \in seen : n.ent = e
          THEN (CHOOSE n \in seen : n.ent = e).rec ELSE @[e]]]
  /\ job' = [job EXCEPT ![d] = Recording(@.msg, @.todo, 0)]
  /\ UNCHANGED <<envelopeVars, rowVars, baselined, counter, conflicts, resolutions,
                 completed, dropped, crashes>>

\* checkpoint_remote_records
Checkpoint(d) ==
  /\ job[d].op = "committed"
  /\ LET seen == Ordinary(job[d].msg)
     IN meta' = [meta EXCEPT ![d] = [e \in Entities |->
          IF \E n \in seen : n.ent = e
          THEN (CHOOSE n \in seen : n.ent = e).rec ELSE @[e]]]
  /\ job' = [job EXCEPT ![d] = Recording(@.msg, @.todo, 0)]
  /\ UNCHANGED <<envelopeVars, rowVars, baselined, counter, conflicts, resolutions,
                 completed, dropped, crashes>>

\* record_resolution, a transaction for each operation
RecordResolution(d) ==
  /\ job[d].op = "recording"
  /\ \E t \in job[d].todo :
       LET o == t.operation
           row == [ent |-> o.ent, heads |-> o.heads, hash |-> o.hash,
                   supersedes |-> o.supersedes, origin |-> o.rec.origin,
                   retained |-> t.retained]
       IN /\ \A u \in job[d].todo : o.ent <= u.operation.ent
          /\ resolutions' = [resolutions EXCEPT ![d] =
               IF Known(d, o) THEN @ ELSE Append(@, row)]
          /\ meta' = [meta EXCEPT ![d][o.ent] = o.rec]
          /\ counter' = [counter EXCEPT ![d] =
               IF o.rec.counter > @ THEN o.rec.counter ELSE @]
          /\ conflicts' = [conflicts EXCEPT ![d][t.conflict] =
               [@ EXCEPT !.open = FALSE, !.artifact = 0]]
          /\ job' = [job EXCEPT ![d] = Recording(@.msg, @.todo \ {t}, @.resolving)]
  /\ UNCHANGED <<envelopeVars, rowVars, baselined, completed, dropped, crashes>>

\* complete_inbound; a resolved message takes its other entries with it.
Complete(d) ==
  /\ job[d].op = "recording" /\ job[d].todo = {}
  /\ LET m == job[d].msg
         delta == m.payload
         others == {n \in delta.entries \cup delta.resolutions :
                      n.ent # job[d].resolving}
     IN /\ CompleteInbound(d, m)
        /\ completed' = [completed EXCEPT ![d] = @ \cup {m.id}]
        /\ dropped' = (dropped \/ (job[d].resolving # 0 /\ others # {}))
  /\ job' = [job EXCEPT ![d] = Idle]
  /\ UNCHANGED <<rowVars, metaVars, crashes>>

-----------------------------------------------------------------------------
(* resolve_conflict_json                                                      *)

Envelope(c) == CHOOSE m \in sent : m.id = c.artifact

\* The peer's version, looked up in the stored envelope.
PeerVersions(c) ==
  LET delta == Envelope(c).payload
  IN {n.rec : n \in {x \in delta.entries \cup delta.resolutions :
                       x.ent = c.ent /\ x.rec.hash = c.rhash}}

Offers(type) ==
  IF type = "TOMBSTONE_CONFLICT"
  THEN {"KEEP_UPDATED_ITEM", "DELETE_ON_BOTH_DEVICES"}
  ELSE IF type \in {"CONCURRENT_MUTATION", "RESOLUTION_CONFLICT"}
  THEN {"KEEP_THIS_DEVICE_VERSION", "USE_PEER_VERSION"}
  ELSE {}

\* The content chosen: Gone for a deletion, NoHash when there is none to choose.
Chosen(d, c, choice) ==
  LET row == dom[d][c.ent]
      deleted == meta[d][c.ent].hash = Gone
  IN CASE choice = "KEEP_THIS_DEVICE_VERSION" -> IF deleted THEN Gone ELSE row
       [] choice = "USE_PEER_VERSION" -> c.rhash
       [] choice = "KEEP_UPDATED_ITEM" ->
            IF ~deleted THEN row ELSE IF c.rhash = Gone THEN NoHash ELSE c.rhash
       [] choice = "DELETE_ON_BOTH_DEVICES" -> Gone

Resolvable(d, c, result) ==
  LET row == dom[d][c.ent]
      deleted == meta[d][c.ent].hash = Gone
  IN /\ result # NoHash
     /\ deleted => c.lhash = Gone
     /\ ~deleted => row \in {c.lhash, result}

Resolve(d, i, choice) ==
  /\ job[d] = Idle
  /\ i \in Open(d)
  /\ LET c == conflicts[d][i]
         m == Envelope(c)
         heads == {c.lhash, c.rhash}
         result == Chosen(d, c, choice)
         rec == [hash |-> result, origin |-> d, counter |-> counter[d] + 1,
                 parent |-> Min(heads), ancestor |-> Max(heads)]
         operation == [ent |-> c.ent, heads |-> heads, hash |-> result, rec |-> rec,
                       supersedes |-> IF c.type = "RESOLUTION_CONFLICT"
                                      THEN {c.lrev, c.rrev} ELSE {}]
     IN /\ choice \in Offers(c.type)
        /\ c.artifact # 0 /\ c.ent \in Mutable /\ c.lhash # c.rhash
        /\ Reserve(d, m)
        /\ PeerVersions(c) # {} /\ Resolvable(d, c, result)
        /\ dom' = [dom EXCEPT ![d][c.ent] = IF result = Gone THEN @ ELSE result]
        /\ Stack({result}, UNION {Under(h) : h \in heads})
        /\ job' = [job EXCEPT ![d] =
             Recording(m, {[operation |-> operation, conflict |-> i,
                            retained |-> IF result = Gone THEN dom[d][c.ent] ELSE NoHash]},
                       c.ent)]
  /\ UNCHANGED <<erased, metaVars, completed, dropped, crashes>>

-----------------------------------------------------------------------------
(* The command dies, or the metadata store is found corrupt and rebuilt       *)

Crash(d) ==
  /\ crashes < MaxCrashes
  /\ job[d].op \in {"received", "committed", "recording"}
  /\ crashes' = crashes + 1
  /\ job' = [job EXCEPT ![d] = Idle]
  /\ UNCHANGED <<envelopeVars, rowVars, metaVars, completed, dropped>>

LoseMetadata(d) ==
  /\ "metadata" \in Losses /\ crashes < MaxCrashes
  /\ job[d] = Idle
  /\ crashes' = crashes + 1
  /\ meta' = [meta EXCEPT ![d] = [e \in Entities |-> Unseen]]
  /\ baselined' = [baselined EXCEPT ![d] = FALSE]
  /\ counter' = [counter EXCEPT ![d] = 0]
  /\ conflicts' = [conflicts EXCEPT ![d] = <<>>]
  /\ resolutions' = [resolutions EXCEPT ![d] = <<>>]
  /\ dropped' = TRUE
  /\ UNCHANGED <<envelopeVars, rowVars, job, completed>>

Trusts(d) ==
  /\ job[d] = Idle
  /\ \/ LoseSecret(d) \/ GenerateSecret(d) \/ ResetAnchor(d)
     \/ \E p \in Devices : Pair(d, p) \/ Revoke(d, p)
  /\ UNCHANGED syncVars

Next ==
  \E d \in Devices :
    \/ \E e \in Entities : Write(d, e) \/ Erase(d, e)
    \/ OpenInbox(d)
    \/ \E p \in Devices : Export(d, p)
    \/ Send(d) \/ SendFails(d)
    \/ \E m \in sent : Receive(d, m)
    \/ ApplyRefused(d) \/ ApplyConflicts(d) \/ ApplyCommits(d)
    \/ Checkpoint(d) \/ RecordResolution(d) \/ Complete(d)
    \/ \E i \in DOMAIN conflicts[d] :
         \E choice \in Offers(conflicts[d][i].type) : Resolve(d, i, choice)
    \/ Crash(d) \/ LoseMetadata(d)
    \/ Trusts(d)

Spec == Init /\ [][Next]_vars

-----------------------------------------------------------------------------
(* Properties                                                                 *)

\* The device has nothing to send, to receive or to decide.
Quiet(d) ==
  /\ job[d] = Idle /\ baselined[d]
  /\ Changed(d) = {} /\ Reused(d) = {} /\ Open(d) = {}
  /\ \A m \in sent : m.to = d => m.id \in completed[d]
  /\ \A r \in Standing(d) : \A p \in Peers(d) : Known(p, r)

\* Both devices take the entity for deleted, or hold the same row.
Agree(d, p, e) ==
  /\ meta[d][e].hash = meta[p][e].hash
  /\ meta[d][e].hash # Gone => dom[d][e] = dom[p][e]

Settled == \A d \in Devices : Quiet(d)
Converged == \A d, p \in Devices, e \in Entities : Agree(d, p, e)

\* Two contents stand over each other: a row that was erased was inserted again,
\* after a crash, in a version older than the erased one.
Overturned == \E g, h \in Contents : g # h /\ g \in past[h] /\ h \in past[g]

(* Devices that are quiet and never met a conflict agree on every entity,     *)
(* whatever the order of edits, deletions and exchanges, and wherever a       *)
(* command died: a commit the checkpoint did not follow is repaired by the    *)
(* next import (apply_remote_delta).  A change a scan left unsent is excused, *)
(* and a repair that brings an erased row back in an older version.           *)
ConvergedWithoutConflict ==
  Settled /\ ~dropped /\ ~Overturned /\ (\A d \in Devices : conflicts[d] = <<>>)
    => Converged

(* The same with nothing excused: what a user who sees no conflict and no     *)
(* change to exchange believes.                                               *)
ConvergedWhenQuiet == Settled => Converged

(* A received delta replaces a row only by content that was made on top of    *)
(* it, that a user chose over it, or that took its place after a user had     *)
(* deleted it: no edit is overwritten in silence (apply_remote_delta).  A row *)
(* behind a tombstone is excused: a resolution is compared with the tombstone *)
(* and overwrites what the chat made of the row since.                        *)
Replaces(d, e) ==
  /\ job[d].op = "received" /\ job'[d].op = "committed"
  /\ dom[d][e] \notin {dom'[d][e], NoHash}

NoSilentOverwrite ==
  [][\A d \in Devices, e \in Entities :
       Replaces(d, e) /\ meta[d][e].hash # Gone
         => dom[d][e] \in past[dom'[d][e]]]_vars

(* A tombstone is undone by a recorded choice of a user, or with the whole    *)
(* metadata store, never by a late or repeated update of the entity.          *)
TombstonesStay ==
  [][\A d \in Devices, e \in Entities :
       meta[d][e].hash = Gone /\ meta'[d][e].hash # Gone =>
         \/ ~baselined'[d]
         \/ /\ job[d].op = "recording"
            /\ \E t \in job[d].todo : t.operation.ent = e]_vars

(* A message that was completed is never applied again, even after the device *)
(* lost its key and its replay state and was paired anew.                     *)
NeverReapplied ==
  \A d \in Devices : job[d].op \in {"received", "committed"}
                       => job[d].msg.id \notin completed[d]

=============================================================================
