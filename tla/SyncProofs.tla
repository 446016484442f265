----------------------------- MODULE SyncProofs -----------------------------
(* Proofs about PersonaSync and its envelopes, for every set of devices and   *)
(* entities and every value of the limits.                                    *)
EXTENDS PersonaSync, FiniteSetTheorems, SequenceTheorems, WellFoundedInduction, TLAPS

-----------------------------------------------------------------------------
(* Keys and sequences                                                         *)

(* A key is newer than the one the anchor names, or it is that one.           *)
KeysInOrder ==
  \A d \in Devices : secret[d] \in {0, made[d]} /\ anchor[d] <= made[d]

(* What was sealed under the present key took a sequence already given out.   *)
SequencesInOrder ==
  \A m \in sent :
    /\ m.fromKey <= anchor[m.from]
    /\ m.fromKey = anchor[m.from] => m.sequence <= outbound[m.from][m.to]

(* Files are numbered as they are written.                                    *)
FilesNumbered ==
  /\ IsFiniteSet(sent)
  /\ \A m \in sent : m.id <= Cardinality(sent)
  /\ \A m, n \in sent : m.id = n.id => m = n

EnvelopeInv ==
  EnvelopeTypeOK /\ KeysInOrder /\ SequencesInOrder /\ NonceUnique /\ FilesNumbered

LEMMA EnvelopeFirst == EnvelopeInit => EnvelopeInv
<1> SUFFICES ASSUME EnvelopeInit PROVE EnvelopeInv
  OBVIOUS
<1>1. EnvelopeTypeOK
  BY DEF EnvelopeInit, EnvelopeTypeOK, TrustRow, Stranger
<1>2. KeysInOrder /\ SequencesInOrder /\ NonceUnique
  BY DEF EnvelopeInit, KeysInOrder, SequencesInOrder, NonceUnique
<1>3. FilesNumbered
  BY FS_EmptySet DEF EnvelopeInit, FilesNumbered
<1> QED BY <1>1, <1>2, <1>3 DEF EnvelopeInv

LEMMA TrustWithdrawn ==
  ASSUME NEW r \in TrustRow PROVE [r EXCEPT !.state = "REVOKED"] \in TrustRow
  BY DEF TrustRow

LEMMA ReceiptApplied ==
  ASSUME NEW r \in ReceivedRow PROVE [r EXCEPT !.state = "APPLIED"] \in ReceivedRow
  BY DEF ReceivedRow

(* Where no file is written and the sequences of a key never go back, the     *)
(* files stay in order.                                                       *)
LEMMA KeysChange ==
  ASSUME EnvelopeInv, NEW d \in Devices,
         LoseSecret(d) \/ GenerateSecret(d) \/ ResetAnchor(d)
  PROVE  EnvelopeInv'
<1> USE DEF EnvelopeInv, EnvelopeTypeOK
<1>1. CASE LoseSecret(d)
  BY <1>1 DEF LoseSecret, KeysInOrder, SequencesInOrder, NonceUnique, FilesNumbered
<1>2. CASE GenerateSecret(d)
  <2>1. /\ made' = [made EXCEPT ![d] = made[d] + 1]
        /\ secret' = [secret EXCEPT ![d] = made[d] + 1]
        /\ UNCHANGED <<anchor, trust, outbound, received, highest, sent, revocations>>
    BY <1>2 DEF GenerateSecret
  <2>2. KeysInOrder'
    BY <2>1 DEF KeysInOrder
  <2> QED BY <2>1, <2>2 DEF SequencesInOrder, NonceUnique, FilesNumbered
<1>3. CASE ResetAnchor(d)
  <2>0. secret[d] = made[d] /\ anchor[d] < secret[d]
    <3>1. secret[d] # 0 /\ secret[d] # anchor[d]
      BY <1>3 DEF ResetAnchor
    <3>2. anchor[d] \in Nat /\ made[d] \in Nat /\ anchor[d] <= made[d] /\ secret[d] \in {0, made[d]}
      BY DEF KeysInOrder
    <3>3. secret[d] = made[d] /\ anchor[d] # made[d]
      BY <3>1, <3>2
    <3> HIDE DEF EnvelopeInv, EnvelopeTypeOK
    <3> QED BY <3>2, <3>3
  <2>1. /\ anchor' = [anchor EXCEPT ![d] = secret[d]]
        /\ outbound' = [outbound EXCEPT ![d] = [p \in Devices |-> 0]]
        /\ received' = [received EXCEPT ![d] = {}]
        /\ highest' = [highest EXCEPT ![d] = [p \in Devices |-> 0]]
        /\ UNCHANGED <<secret, made, sent, revocations>>
    BY <1>3 DEF ResetAnchor
  <2>2. trust' \in [Devices -> [Devices -> TrustRow]]
    <3> DEFINE row(p) == IF trust[d][p] = Stranger THEN trust[d][p]
                         ELSE [trust[d][p] EXCEPT !.state = "REVOKED"]
    <3>1. trust' = [trust EXCEPT ![d] = [p \in Devices |-> row(p)]]
      BY <1>3 DEF ResetAnchor
    <3>2. \A p \in Devices : row(p) \in TrustRow
      BY TrustWithdrawn
    <3> HIDE DEF row
    <3> QED BY <3>1, <3>2
  <2>3. EnvelopeTypeOK'
    <3>1. anchor' \in [Devices -> Nat] /\ received' \in [Devices -> SUBSET ReceivedRow]
      BY <2>1
    <3>2. outbound' \in [Devices -> [Devices -> Nat]] /\ highest' \in [Devices -> [Devices -> Nat]]
      BY <2>1
    <3> QED BY <2>1, <2>2, <3>1, <3>2
  <2>4. KeysInOrder'
    BY <2>0, <2>1 DEF KeysInOrder
  <2>5. SequencesInOrder'
    <3> SUFFICES ASSUME NEW m \in sent
                 PROVE  /\ m.fromKey <= anchor'[m.from]
                        /\ m.fromKey = anchor'[m.from] => m.sequence <= outbound'[m.from][m.to]
      BY <2>1 DEF SequencesInOrder
    <3>1. CASE m.from = d
      BY <2>0, <2>1, <3>1 DEF SequencesInOrder
    <3>2. CASE m.from # d
      BY <2>1, <3>2 DEF SequencesInOrder
    <3> QED BY <3>1, <3>2
  <2> QED BY <2>1, <2>3, <2>4, <2>5 DEF NonceUnique, FilesNumbered
<1> QED BY <1>1, <1>2, <1>3

LEMMA TrustChanges ==
  ASSUME EnvelopeInv, NEW d \in Devices, NEW p \in Devices, Pair(d, p) \/ Revoke(d, p)
  PROVE  EnvelopeInv'
<1> USE DEF EnvelopeInv, EnvelopeTypeOK
<1>1. UNCHANGED <<secret, anchor, made, outbound, received, highest, sent>>
  BY DEF Pair, Revoke
<1>2. trust' \in [Devices -> [Devices -> TrustRow]]
  <2>1. CASE Pair(d, p) BY <2>1 DEF Pair, TrustRow
  <2>2. CASE Revoke(d, p)
    <3> DEFINE row == [trust[d][p] EXCEPT !.state = "REVOKED"]
    <3>1. row \in TrustRow
      BY TrustWithdrawn
    <3>2. trust' = [trust EXCEPT ![d] = [trust[d] EXCEPT ![p] = row]]
      BY <2>2 DEF Revoke
    <3> HIDE DEF row
    <3> QED BY <3>1, <3>2
  <2> QED BY <2>1, <2>2
<1>3. revocations' \in Nat
  BY DEF Pair, Revoke
<1> QED BY <1>1, <1>2, <1>3 DEF KeysInOrder, SequencesInOrder, NonceUnique, FilesNumbered

LEMMA SequenceTaken ==
  ASSUME EnvelopeInv, NEW d \in Devices, NEW p \in Devices, TakeSequence(d, p)
  PROVE  /\ outbound' \in [Devices -> [Devices -> Nat]]
         /\ outbound'[d][p] = outbound[d][p] + 1
         /\ \A c, q \in Devices : outbound[c][q] <= outbound'[c][q]
  BY DEF EnvelopeInv, EnvelopeTypeOK, TakeSequence

LEMMA SequenceWasted ==
  ASSUME EnvelopeInv, NEW d \in Devices, NEW p \in Devices, WasteSequence(d, p)
  PROVE  EnvelopeInv'
<1> USE DEF EnvelopeInv, EnvelopeTypeOK
<1>1. /\ outbound' \in [Devices -> [Devices -> Nat]]
      /\ \A c, q \in Devices : outbound[c][q] <= outbound'[c][q]
      /\ UNCHANGED <<secret, anchor, made, trust, received, highest, sent, revocations>>
  BY SequenceTaken DEF WasteSequence
<1>2. SequencesInOrder'
  <2> SUFFICES ASSUME NEW m \in sent, m.fromKey = anchor[m.from]
               PROVE  m.sequence <= outbound'[m.from][m.to]
    BY <1>1 DEF SequencesInOrder
  <2>1. m.sequence <= outbound[m.from][m.to] /\ outbound[m.from][m.to] <= outbound'[m.from][m.to]
    BY <1>1 DEF SequencesInOrder
  <2> QED BY <1>1, <2>1
<1> QED BY <1>1, <1>2 DEF KeysInOrder, NonceUnique, FilesNumbered

(* The new file has an identity and a nonce that no other file has.           *)
LEMMA FileWritten ==
  ASSUME EnvelopeInv, NEW d \in Devices, NEW p \in Devices, NEW payload,
         Encrypt(d, p, payload)
  PROVE  EnvelopeInv'
<1> USE DEF EnvelopeInv, EnvelopeTypeOK
<1> DEFINE n == Sealed(d, p, payload)
<1>0. Cardinality(sent) \in Nat
  BY FS_CardinalityType DEF FilesNumbered
<1>1. /\ n.id = Cardinality(sent) + 1 /\ n.from = d /\ n.to = p
      /\ n.fromKey = anchor[d] /\ n.toKey = trust[d][p].key
      /\ n.sequence = outbound[d][p] + 1
  BY DEF Sealed
<1>2. /\ sent' = sent \cup {n}
      /\ UNCHANGED <<secret, anchor, made, trust, received, highest, revocations>>
  BY DEF Encrypt
<1>3. /\ outbound' \in [Devices -> [Devices -> Nat]]
      /\ outbound'[d][p] = outbound[d][p] + 1
      /\ \A c, q \in Devices : outbound[c][q] <= outbound'[c][q]
  BY SequenceTaken DEF Encrypt
<1>4. trust[d][p].key \in Nat
  BY DEF TrustRow
<1> HIDE DEF n
<1>5. EnvelopeTypeOK'
  BY <1>0, <1>1, <1>2, <1>3, <1>4
<1>6. KeysInOrder'
  BY <1>2 DEF KeysInOrder
<1>7. SequencesInOrder'
  <2> SUFFICES ASSUME NEW m \in sent'
               PROVE  /\ m.fromKey <= anchor[m.from]
                      /\ m.fromKey = anchor[m.from] => m.sequence <= outbound'[m.from][m.to]
    BY <1>2 DEF SequencesInOrder
  <2>1. CASE m = n
    BY <1>1, <1>3, <2>1
  <2>2. CASE m \in sent
    <3>1. outbound[m.from][m.to] <= outbound'[m.from][m.to]
      BY <1>3, <2>2
    <3> QED BY <1>3, <2>2, <3>1 DEF SequencesInOrder
  <2> QED BY <1>2, <2>1, <2>2
<1>8. NonceUnique'
  <2>1. ASSUME NEW m \in sent
        PROVE  <<m.from, m.to, m.fromKey, m.toKey, m.sequence>>
                 # <<n.from, n.to, n.fromKey, n.toKey, n.sequence>>
    <3> SUFFICES ASSUME m.from = d, m.to = p, m.fromKey = anchor[d],
                        m.sequence = outbound[d][p] + 1
                 PROVE  FALSE
      BY <1>1
    <3> QED BY DEF SequencesInOrder
  <2> QED BY <1>2, <2>1 DEF NonceUnique
<1>9. FilesNumbered'
  <2>1. \A m \in sent : m.id # n.id
    BY <1>0, <1>1 DEF FilesNumbered
  <2>2. n \notin sent
    BY <2>1
  <2>3. IsFiniteSet(sent') /\ Cardinality(sent') = Cardinality(sent) + 1
    BY <1>2, <2>2, FS_AddElement DEF FilesNumbered
  <2>4. \A m \in sent' : m.id <= Cardinality(sent')
    BY <1>0, <1>1, <1>2, <2>3 DEF FilesNumbered
  <2> QED BY <1>2, <2>1, <2>3, <2>4 DEF FilesNumbered
<1> QED BY <1>5, <1>6, <1>7, <1>8, <1>9

LEMMA MessageRead ==
  ASSUME EnvelopeInv, NEW d \in Devices, NEW m \in sent,
         Reserve(d, m) \/ CompleteInbound(d, m)
  PROVE  EnvelopeInv'
<1> USE DEF EnvelopeInv, EnvelopeTypeOK
<1>1. UNCHANGED <<secret, anchor, made, trust, outbound, sent, revocations>>
  BY DEF Reserve, CompleteInbound
<1>2. received' \in [Devices -> SUBSET ReceivedRow]
  <2>1. CASE Reserve(d, m)
    <3> DEFINE r == [from |-> m.from, id |-> m.id, sequence |-> m.sequence, state |-> "PENDING"]
    <3>1. r \in ReceivedRow
      BY DEF ReceivedRow
    <3>2. received' = received \/ received' = [received EXCEPT ![d] = received[d] \cup {r}]
      BY <2>1 DEF Reserve
    <3> HIDE DEF r
    <3> QED BY <3>1, <3>2
  <2>2. CASE CompleteInbound(d, m)
    <3> DEFINE row(r) == IF r.id = m.id THEN [r EXCEPT !.state = "APPLIED"] ELSE r
    <3>1. \A r \in received[d] : row(r) \in ReceivedRow
      BY ReceiptApplied
    <3>2. received' = [received EXCEPT ![d] = {row(r) : r \in received[d]}]
      BY <2>2 DEF CompleteInbound
    <3> HIDE DEF row
    <3> QED BY <3>1, <3>2
  <2> QED BY <2>1, <2>2
<1>3. highest' \in [Devices -> [Devices -> Nat]]
  <2>1. CASE Reserve(d, m) BY <2>1 DEF Reserve
  <2>2. CASE CompleteInbound(d, m)
    <3> DEFINE n == IF m.sequence > highest[d][m.from] THEN m.sequence ELSE highest[d][m.from]
    <3>1. n \in Nat
      OBVIOUS
    <3>2. highest' = [highest EXCEPT ![d] = [highest[d] EXCEPT ![m.from] = n]]
      BY <2>2 DEF CompleteInbound
    <3> HIDE DEF n
    <3> QED BY <3>1, <3>2
  <2> QED BY <2>1, <2>2
<1> QED BY <1>1, <1>2, <1>3 DEF KeysInOrder, SequencesInOrder, NonceUnique, FilesNumbered

-----------------------------------------------------------------------------
(* Commands and what they have received                                       *)

Answering == {"received", "committed", "recording"}

(* A command that answers a message has opened it under its present key.      *)
JobOK(d, j, files, key) ==
  /\ j.op \in {"idle", "sending"} \cup Answering
  /\ j.op = "sending" => j.to \in Devices
  /\ j.op \in Answering => j.msg \in files /\ j.msg.to = d /\ j.msg.toKey = key

JobInv ==
  /\ DOMAIN job = Devices
  /\ \A d \in Devices : JobOK(d, job[d], sent, anchor[d])

(* A conflict that can be resolved names a file that exists.                  *)
RowOK(c, files) ==
  /\ "artifact" \in DOMAIN c
  /\ c.artifact # 0 => \E m \in files : m.id = c.artifact

ArtifactInv ==
  /\ DOMAIN conflicts = Devices
  /\ \A d \in Devices :
       /\ conflicts[d] \in Seq(Range(conflicts[d]))
       /\ \A c \in Range(conflicts[d]) : RowOK(c, sent)

(* A completed message was for a key that is lost, or its receipt is there    *)
(* and applied: it neither opens, nor retries, nor is fresh.                  *)
Spent(m, rows) ==
  LET mine == {r \in rows : r.from = m.from /\ r.id = m.id} IN
  mine # {} /\ \A r \in mine : r.state = "APPLIED"

CompletedInv ==
  /\ DOMAIN completed = Devices
  /\ \A d \in Devices :
       /\ completed[d] \subseteq {m.id : m \in sent}
       /\ \A m \in sent : m.id \in completed[d] =>
            m.toKey <= anchor[d] /\ (m.toKey = anchor[d] => Spent(m, received[d]))

(* What a command writes after its rows, it may write: no entity it makes     *)
(* live has become a tombstone since it looked.                               *)
LiveStays(d, j, records) ==
  j.op = "committed" =>
    \A n \in Ordinary(j.msg) : n.rec.hash # Gone => records[n.ent].hash # Gone

RecordInv ==
  /\ DOMAIN meta = Devices /\ DOMAIN baselined = Devices
  /\ \A d \in Devices : DOMAIN meta[d] = Entities /\ LiveStays(d, job[d], meta[d])

SyncInv ==
  /\ EnvelopeInv /\ JobInv /\ ArtifactInv
  /\ CompletedInv /\ RecordInv /\ NeverReapplied

LEMMA SyncFirst == Init => SyncInv
<1> SUFFICES ASSUME Init PROVE SyncInv
  OBVIOUS
<1>1. EnvelopeInv /\ sent = {}
  BY EnvelopeFirst DEF Init, EnvelopeInit
<1>2. JobInv
  BY DEF Init, JobInv, JobOK, Idle, Answering
<1>3. ArtifactInv
  <2>1. \A d \in Devices : conflicts[d] = <<>>
    BY DEF Init
  <2>2. Range(<<>>) = {} /\ <<>> \in Seq({})
    BY EmptySeq DEF Range
  <2> QED BY <2>1, <2>2 DEF ArtifactInv, Init
<1>4. CompletedInv
  BY <1>1 DEF Init, CompletedInv
<1>5. RecordInv
  BY DEF Init, RecordInv, LiveStays, Idle
<1>6. NeverReapplied
  BY DEF Init, NeverReapplied, Idle
<1> QED BY <1>1, <1>2, <1>3, <1>4, <1>5, <1>6 DEF SyncInv

-----------------------------------------------------------------------------
(* A step of a device leaves the other devices alone.                         *)

Acts(d) ==
  \/ \E e \in Entities : Write(d, e) \/ Erase(d, e)
  \/ OpenInbox(d)
  \/ \E p \in Devices : Export(d, p)
  \/ Send(d) \/ SendFails(d)
  \/ \E m \in sent : Receive(d, m)
  \/ ApplyRefused(d) \/ ApplyConflicts(d) \/ ApplyCommits(d)
  \/ Checkpoint(d) \/ RecordResolution(d) \/ Complete(d)
  \/ \E i \in DOMAIN conflicts[d] :
       \E choice \in Offers(conflicts[d][i].type) : Resolve(d, i, choice)
  \/ Crash(d) \/ LoseMetadata(d)
  \/ Trusts(d)

LEMMA NextActs == Next <=> \E d \in Devices : Acts(d)
  BY DEF Next, Acts

(* The file a conflict names is read by its number.                           *)
LEMMA ArtifactRead ==
  ASSUME SyncInv, NEW d \in Devices, NEW i \in DOMAIN conflicts[d],
         conflicts[d][i].artifact # 0
  PROVE  Envelope(conflicts[d][i]) \in sent
<1>1. conflicts[d][i] \in Range(conflicts[d])
  BY DEF Range
<1>2. PICK m \in sent : m.id = conflicts[d][i].artifact
  BY <1>1 DEF SyncInv, ArtifactInv, RowOK
<1> QED BY <1>2 DEF Envelope

LEMMA EnvelopesKept ==
  ASSUME EnvelopeInv, UNCHANGED envelopeVars
  PROVE  EnvelopeInv'
  BY DEF envelopeVars, EnvelopeInv, EnvelopeTypeOK, KeysInOrder, SequencesInOrder,
         NonceUnique, FilesNumbered

LEMMA EnvelopesHold ==
  ASSUME SyncInv, NEW d \in Devices, Acts(d)
  PROVE  EnvelopeInv'
<1> USE DEF SyncInv
<1>1. CASE Send(d)
  BY <1>1, FileWritten DEF Send, JobInv, JobOK
<1>2. CASE SendFails(d)
  BY <1>2, SequenceWasted, EnvelopesKept DEF SendFails, JobInv, JobOK, envelopeVars
<1>3. ASSUME NEW m \in sent, Receive(d, m) PROVE EnvelopeInv'
  BY <1>3, MessageRead DEF Receive
<1>4. CASE Complete(d)
  <2>1. job[d].msg \in sent
    BY <1>4 DEF Complete, JobInv, JobOK, Answering
  <2> QED BY <1>4, <2>1, MessageRead DEF Complete
<1>5. ASSUME NEW i \in DOMAIN conflicts[d], NEW choice, Resolve(d, i, choice)
      PROVE  EnvelopeInv'
  <2>1. Reserve(d, Envelope(conflicts[d][i])) /\ conflicts[d][i].artifact # 0
    BY <1>5 DEF Resolve
  <2> QED BY <2>1, ArtifactRead, MessageRead
<1>6. CASE Trusts(d)
  BY <1>6, KeysChange, TrustChanges DEF Trusts
<1>7. ASSUME UNCHANGED envelopeVars PROVE EnvelopeInv'
  BY <1>7, EnvelopesKept
<1>8. CASE \/ \E e \in Entities : Write(d, e) \/ Erase(d, e)
           \/ OpenInbox(d)
           \/ \E p \in Devices : Export(d, p)
           \/ ApplyRefused(d) \/ ApplyConflicts(d) \/ ApplyCommits(d)
           \/ Checkpoint(d) \/ RecordResolution(d) \/ Crash(d) \/ LoseMetadata(d)
  <2>1. UNCHANGED envelopeVars
    BY <1>8 DEF Write, Erase, OpenInbox, Export, ApplyRefused, ApplyConflicts, ApplyCommits,
                Checkpoint, RecordResolution, Crash, LoseMetadata
  <2> QED BY <1>7, <2>1
<1> QED BY <1>1, <1>2, <1>3, <1>4, <1>5, <1>6, <1>8 DEF Acts

(* Files stay, and the key of the anchor changes only between commands.       *)
LEMMA KeysBetweenCommands ==
  ASSUME SyncInv, NEW d \in Devices, Acts(d)
  PROVE  /\ sent \subseteq sent'
         /\ UNCHANGED anchor \/ (ResetAnchor(d) /\ job[d] = Idle /\ UNCHANGED syncVars)
<1> USE DEF envelopeVars
<1>1. CASE Send(d) \/ SendFails(d)
  BY <1>1 DEF Send, SendFails, Encrypt, WasteSequence
<1>2. ASSUME NEW m, Reserve(d, m) \/ CompleteInbound(d, m)
      PROVE  UNCHANGED <<sent, anchor>>
  BY <1>2 DEF Reserve, CompleteInbound
<1>3. CASE Complete(d) \/ \E m \in sent : Receive(d, m)
  BY <1>2, <1>3 DEF Complete, Receive
<1>4. ASSUME NEW i \in DOMAIN conflicts[d], NEW choice, Resolve(d, i, choice)
      PROVE  UNCHANGED <<sent, anchor>>
  BY <1>2, <1>4 DEF Resolve
<1>5. CASE Trusts(d)
  <2>1. ASSUME LoseSecret(d) \/ GenerateSecret(d) \/ \E p \in Devices : Pair(d, p) \/ Revoke(d, p)
        PROVE  UNCHANGED <<sent, anchor>>
    BY <2>1 DEF LoseSecret, GenerateSecret, Pair, Revoke
  <2>2. ASSUME ResetAnchor(d) PROVE sent' = sent
    BY <2>2 DEF ResetAnchor
  <2> QED BY <1>5, <2>1, <2>2 DEF Trusts
<1>6. CASE \/ \E e \in Entities : Write(d, e) \/ Erase(d, e)
           \/ OpenInbox(d)
           \/ \E p \in Devices : Export(d, p)
           \/ ApplyRefused(d) \/ ApplyConflicts(d) \/ ApplyCommits(d)
           \/ Checkpoint(d) \/ RecordResolution(d) \/ Crash(d) \/ LoseMetadata(d)
  BY <1>6 DEF Write, Erase, OpenInbox, Export, ApplyRefused, ApplyConflicts, ApplyCommits,
              Checkpoint, RecordResolution, Crash, LoseMetadata
<1> QED BY <1>1, <1>3, <1>4, <1>5, <1>6 DEF Acts

-----------------------------------------------------------------------------
(* The command of a device                                                    *)

LEMMA CommandWritten ==
  ASSUME JobInv, NEW d \in Devices, NEW j,
         job' = [job EXCEPT ![d] = j], JobOK(d, j, sent', anchor[d]),
         sent \subseteq sent', anchor' = anchor
  PROVE  JobInv'
<1>1. DOMAIN job' = Devices /\ job'[d] = j /\ \A c \in Devices \ {d} : job'[c] = job[c]
  BY DEF JobInv
<1>2. \A c \in Devices \ {d} : JobOK(c, job'[c], sent', anchor[c])
  BY <1>1 DEF JobInv, JobOK
<1> QED BY <1>1, <1>2 DEF JobInv

LEMMA CommandKept ==
  ASSUME JobInv, NEW d \in Devices, UNCHANGED job, sent \subseteq sent',
         UNCHANGED anchor \/ (job[d] = Idle /\ \A c \in Devices \ {d} : anchor'[c] = anchor[c])
  PROVE  JobInv'
<1> SUFFICES ASSUME NEW c \in Devices
             PROVE  JobOK(c, job[c], sent', anchor'[c])
  BY DEF JobInv
<1>1. JobOK(c, job[c], sent, anchor[c])
  BY DEF JobInv
<1>2. CASE anchor'[c] = anchor[c]
  BY <1>1, <1>2 DEF JobOK
<1>3. CASE anchor'[c] # anchor[c]
  <2>1. job[c] = Idle
    BY <1>3
  <2> QED BY <2>1 DEF JobOK, Idle, Answering
<1> QED BY <1>2, <1>3

LEMMA CommandsHold ==
  ASSUME SyncInv, NEW d \in Devices, Acts(d)
  PROVE  JobInv'
<1> USE DEF SyncInv
<1>0. /\ sent \subseteq sent'
      /\ UNCHANGED anchor \/ (ResetAnchor(d) /\ job[d] = Idle /\ UNCHANGED syncVars)
  BY KeysBetweenCommands
<1>1. ASSUME UNCHANGED job PROVE JobInv'
  <2>1. CASE UNCHANGED anchor
    BY <1>0, <1>1, <2>1, CommandKept
  <2>2. CASE ResetAnchor(d) /\ job[d] = Idle
    <3>1. \A c \in Devices \ {d} : anchor'[c] = anchor[c]
      BY <2>2 DEF ResetAnchor, EnvelopeInv, EnvelopeTypeOK
    <3> QED BY <1>0, <1>1, <2>2, <3>1, CommandKept
  <2> QED BY <1>0, <2>1, <2>2
<1>2. ASSUME NEW j, job' = [job EXCEPT ![d] = j], JobOK(d, j, sent', anchor[d]),
             UNCHANGED anchor
      PROVE  JobInv'
  BY <1>0, <1>2, CommandWritten
<1>3. JobOK(d, Idle, sent', anchor[d])
  BY DEF JobOK, Idle, Answering
<1>4. JobOK(d, job[d], sent', anchor[d])
  BY <1>0 DEF JobInv, JobOK
<1>5. CASE \/ Send(d) \/ SendFails(d) \/ ApplyRefused(d) \/ ApplyConflicts(d)
           \/ Complete(d) \/ Crash(d)
  <2>1. job' = [job EXCEPT ![d] = Idle]
    BY <1>5 DEF Send, SendFails, ApplyRefused, ApplyConflicts, Complete, Crash
  <2>2. UNCHANGED anchor
    BY <1>5 DEF Send, SendFails, ApplyRefused, ApplyConflicts, Complete, Crash, envelopeVars,
                Encrypt, WasteSequence, CompleteInbound
  <2> QED BY <1>2, <1>3, <2>1, <2>2
<1>6. ASSUME NEW m \in sent, Receive(d, m) PROVE JobInv'
  <2>1. JobOK(d, [op |-> "received", msg |-> m], sent', anchor[d]) /\ UNCHANGED anchor
    BY <1>0, <1>6 DEF Receive, Reserve, Opens, JobOK, Answering
  <2> QED BY <1>2, <1>6, <2>1 DEF Receive
<1>7. ASSUME NEW p \in Devices, Export(d, p) PROVE JobInv'
  <2>1. CASE UNCHANGED job BY <1>1, <2>1
  <2>2. CASE ~UNCHANGED job
    <3> DEFINE j == [op |-> "sending", to |-> p, delta |-> ScanDelta(d)]
    <3>1. job' = [job EXCEPT ![d] = j] /\ UNCHANGED anchor
      BY <1>7, <2>2 DEF Export, envelopeVars
    <3>2. JobOK(d, j, sent', anchor[d])
      BY DEF JobOK, Answering
    <3> HIDE DEF j
    <3> QED BY <1>2, <3>1, <3>2
  <2> QED BY <2>1, <2>2
<1>8. CASE ApplyCommits(d)
  <2>1. PICK todo : job' = [job EXCEPT ![d] = [op |-> "committed", msg |-> job[d].msg, todo |-> todo]]
    BY <1>8 DEF ApplyCommits
  <2>2. UNCHANGED anchor /\ job[d].op = "received"
    BY <1>8 DEF ApplyCommits, envelopeVars
  <2>3. JobOK(d, [op |-> "committed", msg |-> job[d].msg, todo |-> todo], sent', anchor[d])
    BY <1>4, <2>2 DEF JobOK, Answering
  <2> QED BY <1>2, <2>1, <2>2, <2>3
<1>9. CASE Checkpoint(d) \/ RecordResolution(d)
  <2>1. PICK todo, ent : job' = [job EXCEPT ![d] = Recording(job[d].msg, todo, ent)]
    BY <1>9 DEF Checkpoint, RecordResolution
  <2>2. UNCHANGED anchor /\ job[d].op \in {"committed", "recording"}
    BY <1>9 DEF Checkpoint, RecordResolution, envelopeVars
  <2>3. JobOK(d, Recording(job[d].msg, todo, ent), sent', anchor[d])
    BY <1>4, <2>2 DEF JobOK, Answering, Recording
  <2> QED BY <1>2, <2>1, <2>2, <2>3
<1>10. ASSUME NEW i \in DOMAIN conflicts[d], NEW choice, Resolve(d, i, choice)
       PROVE  JobInv'
  <2> DEFINE m == Envelope(conflicts[d][i])
  <2>1. PICK todo, ent : job' = [job EXCEPT ![d] = Recording(m, todo, ent)]
    BY <1>10 DEF Resolve
  <2>2. Reserve(d, m) /\ conflicts[d][i].artifact # 0
    BY <1>10 DEF Resolve
  <2>3. m \in sent
    BY <2>2, ArtifactRead
  <2> HIDE DEF m
  <2>4. JobOK(d, Recording(m, todo, ent), sent', anchor[d]) /\ UNCHANGED anchor
    BY <1>0, <2>2, <2>3 DEF Reserve, Opens, JobOK, Answering, Recording
  <2> QED BY <1>2, <2>1, <2>4
<1>11. CASE \/ \E e \in Entities : Write(d, e) \/ Erase(d, e)
            \/ OpenInbox(d) \/ LoseMetadata(d) \/ Trusts(d)
  <2>1. UNCHANGED job
    BY <1>11 DEF Write, Erase, OpenInbox, LoseMetadata, Trusts, syncVars
  <2> QED BY <1>1, <2>1
<1> QED BY <1>5, <1>6, <1>7, <1>8, <1>9, <1>10, <1>11 DEF Acts

-----------------------------------------------------------------------------
(* The conflicts of a device                                                  *)

LEMMA RowsRewritten ==
  ASSUME NEW q, q \in Seq(Range(q)), NEW f, f = [i \in DOMAIN q |-> f[i]],
         NEW files, \A i \in DOMAIN q : RowOK(f[i], files)
  PROVE  f \in Seq(Range(f)) /\ \A c \in Range(f) : RowOK(c, files)
<1>1. Len(q) \in Nat /\ DOMAIN q = 1 .. Len(q)
  BY LenProperties
<1>2. DOMAIN f = DOMAIN q
  OBVIOUS
<1>3. \A i \in DOMAIN q : f[i] \in Range(f)
  BY <1>2 DEF Range
<1>4. f \in [1 .. Len(q) -> Range(f)]
  BY <1>1, <1>3
<1>5. f \in Seq(Range(f))
  BY <1>1, <1>4
<1> QED BY <1>2, <1>5 DEF Range

LEMMA RangeAppended ==
  ASSUME NEW q, q \in Seq(Range(q)), NEW r
  PROVE  /\ Append(q, r) \in Seq(Range(Append(q, r)))
         /\ Range(Append(q, r)) = Range(q) \cup {r}
<1> DEFINE S == Range(q) \cup {r}
<1>1. q \in Seq(S)
  BY SeqMonotonic
<1>2. /\ Append(q, r) \in Seq(S)
      /\ Len(Append(q, r)) = Len(q) + 1
      /\ \A i \in 1 .. Len(q) : Append(q, r)[i] = q[i]
      /\ Append(q, r)[Len(q) + 1] = r
  BY <1>1
<1>3. Len(q) \in Nat /\ DOMAIN q = 1 .. Len(q) /\ DOMAIN Append(q, r) = 1 .. Len(q) + 1
  BY <1>1, <1>2, LenProperties
<1>4. Range(Append(q, r)) = S
  <2>1. \A i \in DOMAIN Append(q, r) : Append(q, r)[i] \in S
    BY <1>2, <1>3
  <2>2. r \in Range(Append(q, r))
    BY <1>2, <1>3 DEF Range
  <2>3. \A i \in DOMAIN q : q[i] \in Range(Append(q, r))
    BY <1>2, <1>3 DEF Range
  <2> QED BY <2>1, <2>2, <2>3 DEF Range
<1> QED BY <1>2, <1>4

LEMMA RowAppended ==
  ASSUME NEW q, q \in Seq(Range(q)), NEW r, NEW files,
         \A c \in Range(q) : RowOK(c, files), RowOK(r, files)
  PROVE  /\ Append(q, r) \in Seq(Range(Append(q, r)))
         /\ \A c \in Range(Append(q, r)) : RowOK(c, files)
BY RangeAppended

LEMMA ConflictsWritten ==
  ASSUME ArtifactInv, NEW d \in Devices, NEW s, conflicts' = [conflicts EXCEPT ![d] = s],
         s \in Seq(Range(s)), \A c \in Range(s) : RowOK(c, sent'), sent \subseteq sent'
  PROVE  ArtifactInv'
<1>1. DOMAIN conflicts' = Devices /\ conflicts'[d] = s
  BY DEF ArtifactInv
<1>2. \A c \in Devices \ {d} : conflicts'[c] = conflicts[c]
  BY DEF ArtifactInv
<1> SUFFICES ASSUME NEW c \in Devices
             PROVE  /\ conflicts'[c] \in Seq(Range(conflicts'[c]))
                    /\ \A r \in Range(conflicts'[c]) : RowOK(r, sent')
  BY <1>1 DEF ArtifactInv
<1>3. CASE c = d BY <1>1, <1>3
<1>4. CASE c # d BY <1>2, <1>4 DEF ArtifactInv, RowOK
<1> QED BY <1>3, <1>4

LEMMA ConflictsKept ==
  ASSUME ArtifactInv, UNCHANGED conflicts, sent \subseteq sent'
  PROVE  ArtifactInv'
  BY DEF ArtifactInv, RowOK

(* Whatever the verdict, the row names the file that was read.                *)
LEMMA ConflictNamesFile ==
  ASSUME NEW d \in Devices, NEW m \in sent, ApplyVerdict(d, m).kind = "conflict"
  PROVE  RowOK(ApplyVerdict(d, m).row, sent)
<1>1. ASSUME NEW e, NEW type, NEW lhash, NEW rhash, NEW lrev, NEW rrev
      PROVE  RowOK(ConflictRow(d, m, e, type, lhash, rhash, lrev, rrev), sent)
  BY DEF ConflictRow, RowOK
<1>2. ASSUME NEW o PROVE RowOK(OperationConflict(d, m, o), sent)
  BY <1>1 DEF OperationConflict
<1>3. ASSUME NEW n PROVE RowOK(EntryConflict(d, m, n), sent)
  BY <1>1 DEF EntryConflict
<1>4. ApplyVerdict(d, m) \notin {Refusal, Committing}
  BY DEF Refusal, Committing
<1>5. \E row : ApplyVerdict(d, m) = Raising(row) /\ RowOK(row, sent)
  BY <1>1, <1>2, <1>3, <1>4, Zenon DEF ApplyVerdict
<1> QED BY <1>5 DEF Raising

LEMMA ConflictRecorded ==
  ASSUME ArtifactInv, NEW d \in Devices, NEW r, RowOK(r, sent), RecordConflict(d, r),
         sent' = sent
  PROVE  ArtifactInv'
<1> DEFINE q == conflicts[d]
           f == [i \in DOMAIN q |-> IF SameConflict(q[i], r)
                                    THEN [q[i] EXCEPT !.artifact = r.artifact] ELSE q[i]]
<1>1. q \in Seq(Range(q)) /\ \A c \in Range(q) : RowOK(c, sent)
  BY DEF ArtifactInv
<1>2. CASE \E c \in Range(q) : SameConflict(c, r)
  <2>1. conflicts' = [conflicts EXCEPT ![d] = f]
    BY <1>2 DEF RecordConflict
  <2>2. \A i \in DOMAIN q : RowOK(q[i], sent)
    BY <1>1 DEF Range
  <2>3. \A i \in DOMAIN q : RowOK([q[i] EXCEPT !.artifact = r.artifact], sent)
    BY <2>2 DEF RowOK
  <2>4. f = [i \in DOMAIN q |-> f[i]] /\ \A i \in DOMAIN q : RowOK(f[i], sent)
    BY <2>2, <2>3
  <2> HIDE DEF f
  <2>5. f \in Seq(Range(f)) /\ \A c \in Range(f) : RowOK(c, sent)
    BY <1>1, <2>4, RowsRewritten
  <2> QED BY <2>1, <2>5, ConflictsWritten
<1>3. CASE ~ \E c \in Range(q) : SameConflict(c, r)
  <2>1. conflicts' = [conflicts EXCEPT ![d] = Append(q, r)]
    BY <1>3 DEF RecordConflict
  <2> QED BY <1>1, <2>1, RowAppended, ConflictsWritten
<1> QED BY <1>2, <1>3

LEMMA ConflictsHold ==
  ASSUME SyncInv, NEW d \in Devices, Acts(d)
  PROVE  ArtifactInv'
<1> USE DEF SyncInv
<1>0. sent \subseteq sent'
  BY KeysBetweenCommands
<1>1. CASE ApplyConflicts(d)
  <2>1. /\ RecordConflict(d, ApplyVerdict(d, job[d].msg).row) /\ sent' = sent
        /\ ApplyVerdict(d, job[d].msg).kind = "conflict" /\ job[d].op = "received"
    BY <1>1 DEF ApplyConflicts, envelopeVars
  <2>2. job[d].msg \in sent
    BY <2>1 DEF JobInv, JobOK, Answering
  <2> QED BY <2>1, <2>2, ConflictNamesFile, ConflictRecorded
<1>2. CASE RecordResolution(d)
  <2> DEFINE q == conflicts[d]
  <2>1. PICK k : conflicts' = [conflicts EXCEPT ![d] =
                   [conflicts[d] EXCEPT ![k] = [conflicts[d][k] EXCEPT !.open = FALSE, !.artifact = 0]]]
    BY <1>2 DEF RecordResolution
  <2> DEFINE f == [q EXCEPT ![k] = [q[k] EXCEPT !.open = FALSE, !.artifact = 0]]
  <2>2. q \in Seq(Range(q)) /\ \A i \in DOMAIN q : RowOK(q[i], sent)
    BY DEF ArtifactInv, Range
  <2>3. \A i \in DOMAIN q : RowOK([q[i] EXCEPT !.open = FALSE, !.artifact = 0], sent)
    BY <2>2 DEF RowOK
  <2>4. f = [i \in DOMAIN q |-> f[i]] /\ \A i \in DOMAIN q : RowOK(f[i], sent)
    BY <2>2, <2>3
  <2>5. conflicts' = [conflicts EXCEPT ![d] = f] /\ sent' = sent
    BY <1>2, <2>1 DEF RecordResolution, envelopeVars
  <2> HIDE DEF f
  <2>6. f \in Seq(Range(f)) /\ \A c \in Range(f) : RowOK(c, sent)
    BY <2>2, <2>4, RowsRewritten
  <2> QED BY <2>5, <2>6, ConflictsWritten
<1>3. CASE LoseMetadata(d)
  <2>1. conflicts' = [conflicts EXCEPT ![d] = <<>>] /\ sent' = sent
    BY <1>3 DEF LoseMetadata, envelopeVars
  <2>2. Range(<<>>) = {} /\ <<>> \in Seq({})
    BY EmptySeq DEF Range
  <2> QED BY <2>1, <2>2, ConflictsWritten
<1>4. ASSUME UNCHANGED conflicts PROVE ArtifactInv'
  BY <1>0, <1>4, ConflictsKept
<1>5. CASE \/ \E e \in Entities : Write(d, e) \/ Erase(d, e)
           \/ OpenInbox(d)
           \/ \E p \in Devices : Export(d, p)
           \/ Send(d) \/ SendFails(d)
           \/ \E m \in sent : Receive(d, m)
           \/ ApplyRefused(d) \/ ApplyCommits(d) \/ Checkpoint(d) \/ Complete(d)
           \/ \E i \in DOMAIN conflicts[d] :
                \E choice \in Offers(conflicts[d][i].type) : Resolve(d, i, choice)
           \/ Crash(d) \/ Trusts(d)
  <2>1. UNCHANGED conflicts
    BY <1>5 DEF Write, Erase, OpenInbox, Export, Reconcile, Send, SendFails, Receive,
                ApplyRefused, ApplyCommits, Checkpoint, Complete, Resolve, Crash, Trusts,
                metaVars, syncVars
  <2> QED BY <1>4, <2>1
<1> QED BY <1>1, <1>2, <1>3, <1>5 DEF Acts

-----------------------------------------------------------------------------
(* Completed messages and their receipts                                      *)

LEMMA NewKeyIsLater ==
  ASSUME EnvelopeInv, NEW d \in Devices, ResetAnchor(d)
  PROVE  /\ anchor[d] < anchor'[d] /\ sent' = sent
         /\ \A c \in Devices \ {d} : anchor'[c] = anchor[c] /\ received'[c] = received[c]
<1> USE DEF EnvelopeInv, EnvelopeTypeOK
<1>1. secret[d] # 0 /\ secret[d] # anchor[d]
  BY DEF ResetAnchor
<1>2. anchor[d] \in Nat /\ made[d] \in Nat /\ anchor[d] <= made[d] /\ secret[d] \in {0, made[d]}
  BY DEF KeysInOrder
<1>3. secret[d] = made[d] /\ anchor[d] # made[d]
  BY <1>1, <1>2
<1>4. anchor'[d] = made[d]
  BY <1>3 DEF ResetAnchor
<1>5. sent' = sent /\ \A c \in Devices \ {d} : anchor'[c] = anchor[c] /\ received'[c] = received[c]
  BY DEF ResetAnchor
<1> HIDE DEF EnvelopeInv, EnvelopeTypeOK
<1>6. anchor[d] < made[d]
  BY <1>2, <1>3
<1> QED BY <1>4, <1>5, <1>6

(* A receipt of another message does not make a spent one fresh.              *)
LEMMA SpentThroughReserve ==
  ASSUME EnvelopeInv, NEW d \in Devices, NEW m \in sent, Reserve(d, m),
         NEW n \in sent, Spent(n, received[d])
  PROVE  Spent(n, received'[d])
<1>1. CASE UNCHANGED received BY <1>1
<1>2. CASE Fresh(d, m) /\ ~UNCHANGED received
  <2> DEFINE row == [from |-> m.from, id |-> m.id, sequence |-> m.sequence, state |-> "PENDING"]
  <2>1. received'[d] = received[d] \cup {row}
    BY <1>2 DEF Reserve, EnvelopeInv, EnvelopeTypeOK
  <2>2. row.from = m.from /\ row.id = m.id
    OBVIOUS
  <2>3. ~(n.from = m.from /\ n.id = m.id)
    BY <1>2 DEF Fresh, ReceiptOf, Spent
  <2> HIDE DEF row
  <2>4. {r \in received'[d] : r.from = n.from /\ r.id = n.id}
          = {r \in received[d] : r.from = n.from /\ r.id = n.id}
    BY <2>1, <2>2, <2>3
  <2> QED BY <2>4 DEF Spent
<1> QED BY <1>1, <1>2 DEF Reserve

LEMMA SpentThroughComplete ==
  ASSUME EnvelopeInv, NEW d \in Devices, NEW m \in sent, CompleteInbound(d, m),
         NEW n \in sent, n.id # m.id => Spent(n, received[d]), n.id = m.id => n = m
  PROVE  Spent(n, received'[d])
<1> DEFINE row(r) == IF r.id = m.id THEN [r EXCEPT !.state = "APPLIED"] ELSE r
<1>1. received'[d] = {row(r) : r \in received[d]}
  BY DEF CompleteInbound, EnvelopeInv, EnvelopeTypeOK
<1>2. received[d] \subseteq ReceivedRow
  BY DEF EnvelopeInv, EnvelopeTypeOK
<1>3. ASSUME NEW r \in received[d]
      PROVE  /\ row(r).id = r.id /\ row(r).from = r.from
             /\ r.id = m.id => row(r).state = "APPLIED"
             /\ r.id # m.id => row(r) = r
  <2>1. r \in ReceivedRow
    BY <1>2
  <2>2. CASE r.id = m.id BY <2>1, <2>2 DEF ReceivedRow
  <2>3. CASE r.id # m.id BY <2>3
  <2> QED BY <2>2, <2>3
<1>4. PICK p \in received[d] : p.from = m.from /\ p.id = m.id
  BY DEF CompleteInbound, Retries, ReceiptOf
<1> HIDE DEF row
<1>5. CASE n.id = m.id
  <2>1. n = m
    BY <1>5
  <2>2. row(p) \in received'[d] /\ row(p).from = n.from /\ row(p).id = n.id
    BY <1>1, <1>3, <1>4, <2>1
  <2>3. \A r \in received[d] : row(r).id = n.id => row(r).state = "APPLIED"
    BY <1>3, <1>5
  <2> QED BY <1>1, <2>2, <2>3 DEF Spent
<1>6. CASE n.id # m.id
  <2>1. \A r \in received[d] : row(r).id = n.id => row(r) = r
    BY <1>3, <1>6
  <2>2. PICK q \in received[d] : q.from = n.from /\ q.id = n.id
    BY <1>6 DEF Spent
  <2>3. row(q) = q
    BY <1>3, <1>6, <2>2
  <2>4. q \in received'[d]
    BY <1>1, <2>3
  <2>5. \A r \in received[d] : row(r).from = n.from /\ row(r).id = n.id => row(r).state = "APPLIED"
    BY <1>6, <2>1 DEF Spent
  <2> QED BY <1>1, <2>2, <2>4, <2>5 DEF Spent
<1> QED BY <1>5, <1>6

(* A message that was completed and opens is not taken again.                 *)
LEMMA SpentIsRefused ==
  ASSUME SyncInv, NEW d \in Devices, NEW m \in sent, m.id \in completed[d]
  PROVE  ~Reserve(d, m)
<1> SUFFICES ASSUME Reserve(d, m) PROVE FALSE
  OBVIOUS
<1>1. m.toKey = anchor[d]
  BY DEF Reserve, Opens
<1>2. Spent(m, received[d])
  BY <1>1 DEF SyncInv, CompletedInv
<1>3. ReceiptOf(d, m) # {} /\ \A r \in ReceiptOf(d, m) : r.state = "APPLIED"
  BY <1>2 DEF Spent, ReceiptOf
<1>4. ~Retries(d, m) /\ ~Fresh(d, m)
  BY <1>3 DEF Retries, Fresh
<1> QED BY <1>4 DEF Reserve

LEMMA CompletedKept ==
  ASSUME CompletedInv, UNCHANGED <<completed, sent, anchor, received>>
  PROVE  CompletedInv'
  BY DEF CompletedInv

LEMMA CompletedAfterReserve ==
  ASSUME SyncInv, NEW d \in Devices, NEW m \in sent, Reserve(d, m), UNCHANGED completed
  PROVE  CompletedInv'
<1>1. UNCHANGED <<sent, anchor>>
  BY DEF Reserve
<1>2. \A c \in Devices \ {d} : received'[c] = received[c]
  BY DEF Reserve, SyncInv, EnvelopeInv, EnvelopeTypeOK
<1>3. \A n \in sent : Spent(n, received[d]) => Spent(n, received'[d])
  BY SpentThroughReserve DEF SyncInv
<1>4. \A c \in Devices, n \in sent : Spent(n, received[c]) => Spent(n, received'[c])
  BY <1>2, <1>3
<1> HIDE DEF Spent
<1> QED BY <1>1, <1>4 DEF SyncInv, CompletedInv

LEMMA CompletedAfterComplete ==
  ASSUME SyncInv, NEW d \in Devices, Complete(d)
  PROVE  CompletedInv'
<1> DEFINE m == job[d].msg
<1>1. CompleteInbound(d, m) /\ job[d].op = "recording"
  BY DEF Complete
<1>2. m \in sent /\ m.toKey = anchor[d]
  BY <1>1 DEF SyncInv, JobInv, JobOK, Answering
<1>3. completed' = [completed EXCEPT ![d] = completed[d] \cup {m.id}]
  BY DEF Complete
<1>4. UNCHANGED <<sent, anchor>>
  BY <1>1 DEF CompleteInbound
<1>5. \A c \in Devices \ {d} : received'[c] = received[c]
  BY <1>1 DEF CompleteInbound, SyncInv, EnvelopeInv, EnvelopeTypeOK
<1>6. /\ DOMAIN completed' = Devices /\ completed'[d] = completed[d] \cup {m.id}
      /\ \A c \in Devices \ {d} : completed'[c] = completed[c]
  BY <1>3 DEF SyncInv, CompletedInv
<1>7. anchor[d] \in Nat
  BY DEF SyncInv, EnvelopeInv, EnvelopeTypeOK
<1>8. \A n \in sent : n.id = m.id => n = m
  BY <1>2 DEF SyncInv, EnvelopeInv, FilesNumbered
<1> HIDE DEF m
<1> SUFFICES ASSUME NEW c \in Devices
             PROVE  /\ completed'[c] \subseteq {n.id : n \in sent}
                    /\ \A n \in sent : n.id \in completed'[c] =>
                         /\ n.toKey <= anchor[c]
                         /\ n.toKey = anchor[c] => Spent(n, received'[c])
  BY <1>4, <1>6 DEF CompletedInv
<1>9. CASE c # d
  BY <1>5, <1>6, <1>9 DEF SyncInv, CompletedInv
<1>10. CASE c = d
  <2>1. completed'[d] \subseteq {n.id : n \in sent}
    BY <1>2, <1>6 DEF SyncInv, CompletedInv
  <2>2. ASSUME NEW n \in sent, n.id \in completed'[d]
        PROVE  n.toKey <= anchor[d]
    <3>1. CASE n.id = m.id BY <1>2, <1>7, <1>8, <3>1
    <3>2. CASE n.id # m.id BY <1>6, <2>2, <3>2 DEF SyncInv, CompletedInv
    <3> QED BY <3>1, <3>2
  <2>3. ASSUME NEW n \in sent, n.id \in completed'[d], n.toKey = anchor[d]
        PROVE  Spent(n, received'[d])
    <3>1. n.id # m.id => Spent(n, received[d])
      BY <1>6, <2>3 DEF SyncInv, CompletedInv
    <3>2. n.id = m.id => n = m
      BY <1>8
    <3> QED BY <1>1, <1>2, <3>1, <3>2, SpentThroughComplete DEF SyncInv
  <2> QED BY <1>10, <2>1, <2>2, <2>3
<1> QED BY <1>9, <1>10

LEMMA CompletedAfterReset ==
  ASSUME SyncInv, NEW d \in Devices, ResetAnchor(d), UNCHANGED completed
  PROVE  CompletedInv'
<1>1. /\ anchor[d] < anchor'[d] /\ sent' = sent
      /\ \A c \in Devices \ {d} : anchor'[c] = anchor[c] /\ received'[c] = received[c]
  BY NewKeyIsLater DEF SyncInv
<1> SUFFICES ASSUME NEW c \in Devices, NEW n \in sent, n.id \in completed[c]
             PROVE  /\ n.toKey <= anchor'[c]
                    /\ n.toKey = anchor'[c] => Spent(n, received'[c])
  BY <1>1 DEF SyncInv, CompletedInv
<1>2. n.toKey <= anchor[c] /\ (n.toKey = anchor[c] => Spent(n, received[c]))
  BY DEF SyncInv, CompletedInv
<1>3. CASE c # d BY <1>1, <1>2, <1>3
<1>4. CASE c = d
  <2>1. n.toKey \in Nat /\ anchor[d] \in Nat /\ anchor'[d] \in Int
    <3>1. n.toKey \in Nat /\ anchor[d] \in Nat
      BY DEF SyncInv, EnvelopeInv, EnvelopeTypeOK
    <3>2. EnvelopeInv'
      BY KeysChange DEF SyncInv
    <3> QED BY <3>1, <3>2 DEF EnvelopeInv, EnvelopeTypeOK
  <2>2. n.toKey < anchor'[d]
    BY <1>1, <1>2, <1>4, <2>1
  <2> QED BY <1>4, <2>1, <2>2
<1> QED BY <1>3, <1>4

LEMMA CompletedAfterSend ==
  ASSUME SyncInv, NEW d \in Devices, Send(d)
  PROVE  CompletedInv'
<1> DEFINE n == Sealed(d, job[d].to, job[d].delta)
<1>1. sent' = sent \cup {n} /\ UNCHANGED <<anchor, received, completed>>
  BY DEF Send, Encrypt
<1>2. n.id = Cardinality(sent) + 1
  BY DEF Sealed
<1>3. Cardinality(sent) \in Nat
  BY FS_CardinalityType DEF SyncInv, EnvelopeInv, FilesNumbered
<1>4. \A m \in sent : m.id \in Nat /\ m.id <= Cardinality(sent)
  BY DEF SyncInv, EnvelopeInv, EnvelopeTypeOK, FilesNumbered
<1>5. \A m \in sent : m.id # n.id
  BY <1>2, <1>3, <1>4
<1> HIDE DEF n
<1>6. \A c \in Devices : n.id \notin completed[c]
  BY <1>5 DEF SyncInv, CompletedInv
<1> QED BY <1>1, <1>6 DEF SyncInv, CompletedInv

LEMMA CompletedHold ==
  ASSUME SyncInv, NEW d \in Devices, Acts(d)
  PROVE  CompletedInv'
<1>1. CASE Send(d) BY <1>1, CompletedAfterSend
<1>2. CASE Complete(d) BY <1>2, CompletedAfterComplete
<1>3. ASSUME NEW m \in sent, Receive(d, m) PROVE CompletedInv'
  BY <1>3, CompletedAfterReserve DEF Receive
<1>4. ASSUME NEW i \in DOMAIN conflicts[d], NEW choice, Resolve(d, i, choice)
      PROVE  CompletedInv'
  <2>1. /\ Reserve(d, Envelope(conflicts[d][i])) /\ conflicts[d][i].artifact # 0
        /\ UNCHANGED completed
    BY <1>4 DEF Resolve
  <2> QED BY <2>1, ArtifactRead, CompletedAfterReserve
<1>5. CASE Trusts(d)
  <2>1. CASE ResetAnchor(d)
    BY <1>5, <2>1, CompletedAfterReset DEF Trusts, syncVars
  <2>2. CASE LoseSecret(d) \/ GenerateSecret(d) \/ \E p \in Devices : Pair(d, p) \/ Revoke(d, p)
    <3>1. UNCHANGED <<completed, sent, anchor, received>>
      BY <1>5, <2>2 DEF Trusts, syncVars, LoseSecret, GenerateSecret, Pair, Revoke
    <3> QED BY <3>1, CompletedKept DEF SyncInv
  <2> QED BY <1>5, <2>1, <2>2 DEF Trusts
<1>6. CASE \/ \E e \in Entities : Write(d, e) \/ Erase(d, e)
           \/ OpenInbox(d)
           \/ \E p \in Devices : Export(d, p)
           \/ SendFails(d) \/ ApplyRefused(d) \/ ApplyConflicts(d) \/ ApplyCommits(d)
           \/ Checkpoint(d) \/ RecordResolution(d) \/ Crash(d) \/ LoseMetadata(d)
  <2>1. UNCHANGED <<completed, sent, anchor, received>>
    BY <1>6 DEF Write, Erase, OpenInbox, Export, SendFails, WasteSequence, ApplyRefused,
                ApplyConflicts, ApplyCommits, Checkpoint, RecordResolution, Crash,
                LoseMetadata, envelopeVars
  <2> QED BY <2>1, CompletedKept DEF SyncInv
<1> QED BY <1>1, <1>2, <1>3, <1>4, <1>5, <1>6 DEF Acts

-----------------------------------------------------------------------------
(* Messages are applied once                                                  *)

Applying(d) == job[d].op \in {"received", "committed"}

LEMMA CommandElsewhere ==
  ASSUME SyncInv, NEW d \in Devices, Acts(d), NEW c \in Devices, c # d
  PROVE  job'[c] = job[c] /\ completed'[c] = completed[c] /\ meta'[c] = meta[c]
<1> DEFINE Same == job'[c] = job[c] /\ completed'[c] = completed[c] /\ meta'[c] = meta[c]
<1>1. DOMAIN job = Devices /\ DOMAIN completed = Devices /\ DOMAIN meta = Devices
  BY DEF SyncInv, JobInv, CompletedInv, RecordInv
<1>2. ASSUME \/ \E e \in Entities : Write(d, e) \/ Erase(d, e)
             \/ OpenInbox(d)
             \/ \E p \in Devices : Export(d, p)
      PROVE  Same
  BY <1>1, <1>2 DEF Write, Erase, OpenInbox, Export, Reconcile, metaVars
<1>3. ASSUME \/ Send(d) \/ SendFails(d)
             \/ \E m \in sent : Receive(d, m)
      PROVE  Same
  BY <1>1, <1>3 DEF Send, SendFails, Receive, metaVars
<1>4. ASSUME ApplyRefused(d) \/ ApplyConflicts(d) \/ ApplyCommits(d) PROVE Same
  BY <1>1, <1>4 DEF ApplyRefused, ApplyConflicts, ApplyCommits, metaVars
<1>5. ASSUME Checkpoint(d) \/ RecordResolution(d) \/ Complete(d) PROVE Same
  BY <1>1, <1>5 DEF Checkpoint, RecordResolution, Complete, metaVars
<1>6. \A i, choice : Resolve(d, i, choice) => Same
  BY <1>1 DEF Resolve, metaVars
<1>7. ASSUME Crash(d) \/ LoseMetadata(d) \/ Trusts(d) PROVE Same
  BY <1>1, <1>7 DEF Crash, LoseMetadata, Trusts, metaVars, syncVars
<1> HIDE DEF Same
<1>8. Same
  BY <1>2, <1>3, <1>4, <1>5, <1>6, <1>7, Zenon DEF Acts
<1> QED BY <1>8 DEF Same

LEMMA AppliedOnce ==
  ASSUME SyncInv, NEW d \in Devices, Acts(d)
  PROVE  NeverReapplied'
<1> USE DEF SyncInv
<1> SUFFICES ASSUME NEW c \in Devices, Applying(c)'
             PROVE  job'[c].msg.id \notin completed'[c]
  BY DEF NeverReapplied, Applying
<1>1. CASE c # d
  BY <1>1, CommandElsewhere DEF NeverReapplied, Applying
<1>2. CASE c = d
  <2>1. ASSUME NEW m \in sent, Receive(d, m) PROVE job'[d].msg.id \notin completed'[d]
    <3>1. job'[d] = [op |-> "received", msg |-> m] /\ UNCHANGED completed /\ Reserve(d, m)
      BY <2>1 DEF Receive, JobInv
    <3> QED BY <3>1, SpentIsRefused
  <2>2. CASE ApplyCommits(d)
    <3>1. /\ job[d].op = "received" /\ UNCHANGED completed /\ job'[d].msg = job[d].msg
      BY <2>2 DEF ApplyCommits, JobInv
    <3>2. job[d].msg.id \notin completed[d]
      BY <3>1 DEF NeverReapplied
    <3> QED BY <1>2, <3>1, <3>2
  <2>3. CASE UNCHANGED <<job, completed>>
    BY <1>2, <2>3 DEF NeverReapplied, Applying
  <2>4. ASSUME job'[d].op \in {"idle", "sending", "recording"} PROVE FALSE
    BY <1>2, <2>4 DEF Applying
  <2>5. CASE \/ Send(d) \/ SendFails(d) \/ ApplyRefused(d) \/ ApplyConflicts(d) \/ Complete(d)
             \/ Crash(d)
    <3>1. job'[d] = Idle
      BY <2>5 DEF Send, SendFails, ApplyRefused, ApplyConflicts, Complete, Crash, JobInv
    <3> QED BY <2>4, <3>1 DEF Idle
  <2>6. CASE Checkpoint(d) \/ RecordResolution(d)
    <3>1. PICK todo, ent : job' = [job EXCEPT ![d] = Recording(job[d].msg, todo, ent)]
      BY <2>6 DEF Checkpoint, RecordResolution
    <3>2. job'[d] = Recording(job[d].msg, todo, ent)
      BY <3>1 DEF JobInv
    <3> QED BY <2>4, <3>2 DEF Recording
  <2>7. ASSUME NEW i \in DOMAIN conflicts[d], NEW choice, Resolve(d, i, choice) PROVE FALSE
    <3>1. \E m, todo, ent : job'[d] = Recording(m, todo, ent)
      BY <2>7 DEF Resolve, JobInv
    <3> QED BY <2>4, <3>1 DEF Recording
  <2>8. ASSUME NEW p \in Devices, Export(d, p) PROVE job'[d].msg.id \notin completed'[d]
    <3>1. job'[d].op = "sending" \/ UNCHANGED <<job, completed>>
      BY <2>8 DEF Export, JobInv
    <3> QED BY <1>2, <2>3, <2>4, <3>1
  <2>9. CASE \/ \E e \in Entities : Write(d, e) \/ Erase(d, e)
             \/ OpenInbox(d) \/ LoseMetadata(d) \/ Trusts(d)
    <3>1. UNCHANGED <<job, completed>>
      BY <2>9 DEF Write, Erase, OpenInbox, LoseMetadata, Trusts, syncVars
    <3> QED BY <1>2, <2>3, <3>1
  <2> QED BY <1>2, <2>1, <2>2, <2>5, <2>6, <2>7, <2>8, <2>9 DEF Acts
<1> QED BY <1>1, <1>2

-----------------------------------------------------------------------------
(* Tombstones and what a delta may make live                                  *)

(* A delta that is committed makes no tombstone live.                         *)
LEMMA CommittedIsLive ==
  ASSUME NEW d \in Devices, NEW m, ApplyVerdict(d, m) = Committing
  PROVE  \A n \in Ordinary(m) : n.rec.hash # Gone => meta[d][n.ent].hash # Gone
<1> SUFFICES ASSUME NEW n \in Ordinary(m), n.rec.hash # Gone
             PROVE  meta[d][n.ent].hash # Gone
  OBVIOUS
<1> DEFINE decided == {o.ent : o \in m.payload.resolutions}
           clash == {x \in m.payload.entries : x.ent \notin decided
                                               /\ EntryVerdict(d, x) \notin Plans}
<1>1. Refusal # Committing /\ \A row : Raising(row) # Committing
  BY DEF Refusal, Raising, Committing
<1>2. clash = {}
  BY <1>1, Zenon DEF ApplyVerdict
<1>3. n \in m.payload.entries /\ n.ent \notin decided
  BY DEF Ordinary
<1>4. EntryVerdict(d, n) \in Plans
  BY <1>2, <1>3
<1>5. EntryVerdict(d, n) # "CONCURRENT_DELETE_MUTATION"
  BY <1>4 DEF Plans
<1> QED BY <1>5 DEF EntryVerdict

(* A scan leaves a tombstone where it is.                                     *)
LEMMA TombstoneObserved ==
  ASSUME NEW d \in Devices, NEW e \in Entities, meta[d][e].hash = Gone
  PROVE  Observed(d)[e] = meta[d][e]
  BY DEF Observed, Changed, Rewritten, Vanished, Candidates, Gone, NoHash

LEMMA RecordsHold ==
  ASSUME SyncInv, NEW d \in Devices, Acts(d)
  PROVE  RecordInv'
<1> USE DEF SyncInv
<1>1. \A c \in Devices \ {d} : meta'[c] = meta[c] /\ job'[c] = job[c]
  BY CommandElsewhere
<1>2. DOMAIN meta' = Devices /\ DOMAIN baselined' = Devices /\ DOMAIN meta'[d] = Entities
  <2>1. CASE UNCHANGED <<meta, baselined>>
    BY <2>1 DEF RecordInv
  <2>2. ASSUME NEW f, DOMAIN f = Entities, meta' = [meta EXCEPT ![d] = f],
               DOMAIN baselined' = DOMAIN baselined
        PROVE  DOMAIN meta' = Devices /\ DOMAIN baselined' = Devices /\ DOMAIN meta'[d] = Entities
    BY <2>2 DEF RecordInv
  <2>3. CASE Reconcile(d)
    <3>1. meta' = [meta EXCEPT ![d] = Observed(d)] /\ DOMAIN baselined' = DOMAIN baselined
      BY <2>3 DEF Reconcile
    <3>2. DOMAIN Observed(d) = Entities
      BY DEF Observed
    <3> QED BY <2>2, <3>1, <3>2
  <2>4. CASE Checkpoint(d)
    <3> DEFINE seen == Ordinary(job[d].msg)
               f == [e \in Entities |-> IF \E n \in seen : n.ent = e
                                        THEN (CHOOSE n \in seen : n.ent = e).rec ELSE meta[d][e]]
    <3>1. meta' = [meta EXCEPT ![d] = f] /\ UNCHANGED baselined
      BY <2>4 DEF Checkpoint
    <3>2. DOMAIN f = Entities
      OBVIOUS
    <3> HIDE DEF f
    <3> QED BY <2>2, <3>1, <3>2
  <2>5. CASE RecordResolution(d)
    <3>1. PICK e, r : meta' = [meta EXCEPT ![d] = [meta[d] EXCEPT ![e] = r]]
      BY <2>5 DEF RecordResolution
    <3>2. DOMAIN [meta[d] EXCEPT ![e] = r] = Entities
      BY DEF RecordInv
    <3> QED BY <2>2, <2>5, <3>1, <3>2 DEF RecordResolution
  <2>6. CASE LoseMetadata(d)
    <3> DEFINE f == [e \in Entities |-> Unseen]
    <3>1. meta' = [meta EXCEPT ![d] = f] /\ DOMAIN baselined' = DOMAIN baselined
      BY <2>6 DEF LoseMetadata
    <3>2. DOMAIN f = Entities
      OBVIOUS
    <3> HIDE DEF f
    <3> QED BY <2>2, <3>1, <3>2
  <2>7. CASE \/ \E e \in Entities : Write(d, e) \/ Erase(d, e)
             \/ Send(d) \/ SendFails(d)
             \/ \E m \in sent : Receive(d, m)
             \/ ApplyRefused(d) \/ ApplyConflicts(d) \/ ApplyCommits(d) \/ Complete(d)
             \/ \E i \in DOMAIN conflicts[d] :
                  \E choice \in Offers(conflicts[d][i].type) : Resolve(d, i, choice)
             \/ Crash(d) \/ Trusts(d)
    <3>1. UNCHANGED <<meta, baselined>>
      BY <2>7 DEF Write, Erase, Send, SendFails, Receive, ApplyRefused, ApplyConflicts,
                  ApplyCommits, Complete, Resolve, Crash, Trusts, metaVars, syncVars
    <3> QED BY <2>1, <3>1
  <2>8. CASE OpenInbox(d) \/ \E p \in Devices : Export(d, p)
    BY <2>3, <2>8 DEF OpenInbox, Export
  <2> QED BY <2>4, <2>5, <2>6, <2>7, <2>8 DEF Acts
<1>3. LiveStays(d, job'[d], meta'[d])
  <2>1. CASE ApplyCommits(d)
    <3>1. /\ job'[d].op = "committed" /\ job'[d].msg = job[d].msg
          /\ ApplyVerdict(d, job[d].msg) = Committing /\ meta' = meta
      BY <2>1 DEF ApplyCommits, JobInv, metaVars
    <3> QED BY <3>1, CommittedIsLive DEF LiveStays
  <2>2. ASSUME job'[d].op # "committed" PROVE LiveStays(d, job'[d], meta'[d])
    BY <2>2 DEF LiveStays
  <2>3. CASE UNCHANGED <<job, meta>>
    BY <2>3 DEF RecordInv
  <2>4. CASE \/ Send(d) \/ SendFails(d) \/ ApplyRefused(d) \/ ApplyConflicts(d) \/ Complete(d)
             \/ Crash(d)
    <3>1. job'[d] = Idle
      BY <2>4 DEF Send, SendFails, ApplyRefused, ApplyConflicts, Complete, Crash, JobInv
    <3> QED BY <2>2, <3>1 DEF Idle
  <2>5. ASSUME NEW m, NEW todo, NEW ent, job'[d] = Recording(m, todo, ent)
        PROVE  LiveStays(d, job'[d], meta'[d])
    BY <2>2, <2>5 DEF Recording
  <2>6. CASE Checkpoint(d) \/ RecordResolution(d)
    <3>1. PICK todo, ent : job' = [job EXCEPT ![d] = Recording(job[d].msg, todo, ent)]
      BY <2>6 DEF Checkpoint, RecordResolution
    <3>2. job'[d] = Recording(job[d].msg, todo, ent)
      BY <3>1 DEF JobInv
    <3> QED BY <2>5, <3>2
  <2>7. ASSUME NEW i \in DOMAIN conflicts[d], NEW choice, Resolve(d, i, choice)
        PROVE  LiveStays(d, job'[d], meta'[d])
    <3>1. \E m, todo, ent : job'[d] = Recording(m, todo, ent)
      BY <2>7 DEF Resolve, JobInv
    <3> QED BY <2>5, <3>1
  <2>8. CASE OpenInbox(d) \/ LoseMetadata(d)
    <3>1. job'[d] = Idle
      BY <2>8 DEF OpenInbox, LoseMetadata
    <3> QED BY <2>2, <3>1 DEF Idle
  <2>9. CASE (\E p \in Devices : Export(d, p)) \/ (\E m \in sent : Receive(d, m))
    <3>1. job'[d] = Idle \/ job'[d].op \in {"sending", "received"}
      BY <2>9 DEF Export, Receive, JobInv
    <3> QED BY <2>2, <3>1 DEF Idle
  <2>10. CASE Trusts(d) \/ \E e \in Entities : Write(d, e) \/ Erase(d, e)
    <3>1. UNCHANGED <<job, meta>>
      BY <2>10 DEF Trusts, Write, Erase, syncVars, metaVars
    <3> QED BY <2>3, <3>1
  <2> QED BY <2>1, <2>4, <2>6, <2>7, <2>8, <2>9, <2>10 DEF Acts
<1>4. \A c \in Devices \ {d} : DOMAIN meta'[c] = Entities /\ LiveStays(c, job'[c], meta'[c])
  BY <1>1 DEF RecordInv, LiveStays
<1> QED BY <1>2, <1>3, <1>4 DEF RecordInv

-----------------------------------------------------------------------------
LEMMA SyncHolds ==
  ASSUME SyncInv, [Next]_vars
  PROVE  SyncInv'
<1>1. CASE UNCHANGED vars
  <2> USE DEF vars, syncVars, envelopeVars, rowVars, metaVars, SyncInv
  <2>1. EnvelopeInv'
    BY <1>1, EnvelopesKept
  <2>2. JobInv' /\ ArtifactInv'
    BY <1>1 DEF JobInv, ArtifactInv
  <2>3. CompletedInv' /\ RecordInv' /\ NeverReapplied'
    BY <1>1 DEF CompletedInv, RecordInv, NeverReapplied, LiveStays
  <2> QED BY <2>1, <2>2, <2>3
<1>2. ASSUME NEW d \in Devices, Acts(d) PROVE SyncInv'
  BY <1>2, EnvelopesHold, CommandsHold, ConflictsHold, CompletedHold, RecordsHold, AppliedOnce
     DEF SyncInv
<1> QED BY <1>1, <1>2, NextActs

LEMMA SyncInvariant == Spec => []SyncInv
<1>1. Init => SyncInv
  BY SyncFirst
<1>2. SyncInv /\ [Next]_vars => SyncInv'
  BY SyncHolds
<1> QED BY <1>1, <1>2, PTL DEF Spec

(* No two files share the two keys and the sequence that a nonce is made of,  *)
(* however often devices lose their keys, pair anew and revoke, and wherever  *)
(* a sequence was taken and not used.                                         *)
THEOREM NonceNeverRepeats == Spec => []NonceUnique
<1>1. SyncInv => NonceUnique
  BY DEF SyncInv, EnvelopeInv
<1> QED BY <1>1, SyncInvariant, PTL

(* A message whose import was completed is never applied again, in whatever   *)
(* order files are imported, again or late, with crashes and lost keys.       *)
THEOREM AppliedAtMostOnce == Spec => []NeverReapplied
<1>1. SyncInv => NeverReapplied
  BY DEF SyncInv
<1> QED BY <1>1, SyncInvariant, PTL

(* A tombstone ends by a resolution that is being recorded or with the whole  *)
(* metadata store.                                                            *)
LEMMA TombstoneStep ==
  ASSUME SyncInv, [Next]_vars,
         NEW d \in Devices, NEW e \in Entities, meta[d][e].hash = Gone, meta'[d][e].hash # Gone
  PROVE  \/ ~baselined'[d]
         \/ /\ job[d].op = "recording"
            /\ \E t \in job[d].todo : t.operation.ent = e
<1> USE DEF SyncInv
<1>1. PICK c \in Devices : Acts(c)
  <2>1. meta' # meta
    OBVIOUS
  <2> QED BY <2>1, NextActs DEF vars, syncVars, metaVars
<1>2. c = d
  BY <1>1, CommandElsewhere
<1>3. ASSUME Reconcile(d) PROVE FALSE
  <2>1. meta'[d] = Observed(d)
    BY <1>3 DEF Reconcile, RecordInv
  <2> QED BY <2>1, TombstoneObserved
<1>4. CASE Checkpoint(d)
  <2> DEFINE seen == Ordinary(job[d].msg)
  <2>1. job[d].op = "committed"
    BY <1>4 DEF Checkpoint
  <2>2. \A n \in seen : n.ent = e => n.rec.hash = Gone
    BY <2>1 DEF RecordInv, LiveStays
  <2>3. meta'[d][e] = IF \E n \in seen : n.ent = e
                      THEN (CHOOSE n \in seen : n.ent = e).rec ELSE meta[d][e]
    BY <1>4 DEF Checkpoint, RecordInv
  <2> HIDE DEF seen
  <2>4. PICK n \in seen : n.ent = e /\ meta'[d][e] = n.rec
    BY <2>3
  <2> QED BY <2>2, <2>4
<1>5. CASE RecordResolution(d)
  <2>1. PICK t \in job[d].todo :
          meta' = [meta EXCEPT ![d] = [meta[d] EXCEPT ![t.operation.ent] = t.operation.rec]]
    BY <1>5 DEF RecordResolution
  <2>2. t.operation.ent = e
    BY <2>1 DEF RecordInv
  <2> QED BY <1>5, <2>1, <2>2 DEF RecordResolution
<1>6. CASE LoseMetadata(d)
  BY <1>6 DEF LoseMetadata, RecordInv
<1>7. CASE OpenInbox(d) \/ \E p \in Devices : Export(d, p)
  BY <1>3, <1>7 DEF OpenInbox, Export
<1>8. CASE \/ \E x \in Entities : Write(d, x) \/ Erase(d, x)
           \/ Send(d) \/ SendFails(d)
           \/ \E m \in sent : Receive(d, m)
           \/ ApplyRefused(d) \/ ApplyConflicts(d) \/ ApplyCommits(d) \/ Complete(d)
           \/ \E i \in DOMAIN conflicts[d] :
                \E choice \in Offers(conflicts[d][i].type) : Resolve(d, i, choice)
           \/ Crash(d) \/ Trusts(d)
  <2>1. UNCHANGED meta
    BY <1>8 DEF Write, Erase, Send, SendFails, Receive, ApplyRefused, ApplyConflicts,
                ApplyCommits, Complete, Resolve, Crash, Trusts, metaVars, syncVars
  <2> QED BY <2>1
<1> QED BY <1>1, <1>2, <1>4, <1>5, <1>6, <1>7, <1>8 DEF Acts

(* A deleted entity stays deleted: no late or repeated update brings it back. *)
THEOREM DeletedStaysDeleted == Spec => TombstonesStay
<1>1. SyncInv /\ [Next]_vars =>
        [\A d \in Devices, e \in Entities :
           meta[d][e].hash = Gone /\ meta'[d][e].hash # Gone =>
             \/ ~baselined'[d]
             \/ /\ job[d].op = "recording"
                /\ \E t \in job[d].todo : t.operation.ent = e]_vars
  BY TombstoneStep
<1> QED BY <1>1, SyncInvariant, PTL DEF Spec, TombstonesStay

-----------------------------------------------------------------------------
(* No edit is overwritten in silence                                          *)

Hashes == Contents \cup {Gone}
Beneath(h) == Under(h) \cup {Gone, NoHash}

(* A record that is no tombstone was made over what it names: whoever has one *)
(* of these contents may take the record's instead.                           *)
RecordOK(r) ==
  /\ r \in Revision /\ r.hash \in Hashes
  /\ r.hash # Gone => {r.parent, r.ancestor} \subseteq Beneath(r.hash)

(* So was a decision between two contents.                                    *)
DecisionOK(o) ==
  /\ o.ent \in Mutable /\ o.heads \subseteq Hashes /\ Cardinality(o.heads) = 2
  /\ o.hash \in Hashes
  /\ o.hash # Gone => o.heads \subseteq Beneath(o.hash)
OperationOK(o) == DecisionOK(o) /\ o.rec.hash = o.hash /\ RecordOK(o.rec)

DeltaOK(delta) ==
  /\ \A n \in delta.entries : n.ent \in Entities /\ RecordOK(n.rec)
  /\ \A n, k \in delta.entries : n.ent = k.ent => n = k
  /\ IsFiniteSet(delta.resolutions)
  /\ \A o \in delta.resolutions : OperationOK(o)
  /\ \A c \in delta.conflicts : c.ent \in Entities

(* What stands over a content stands over all that is under it.               *)
HistoryInv ==
  /\ past \in Seq(SUBSET Contents)
  /\ \A h \in Contents : \A x \in past[h] : past[x] \subseteq past[h]

RowsInv == {dom, erased} \subseteq [Devices -> [Entities -> Contents \cup {NoHash}]]

(* The latest content of a row stands over what the metadata say of it.       *)
RowRecordOK(d, e, r) ==
  /\ r \in Revision /\ r.hash \in Hashes \cup {NoHash}
  /\ r.hash # Gone => {r.hash, r.parent, r.ancestor} \subseteq Beneath(Latest(d, e))

RecordsInv ==
  /\ meta \in [Devices -> [Entities -> Revision]]
  /\ baselined \in [Devices -> BOOLEAN] /\ counter \in [Devices -> Nat]
  /\ \A d \in Devices, e \in Entities : RowRecordOK(d, e, meta[d][e])

(* And over what the command has left to write.                               *)
OnTop(d, e, h) == h # Gone => h \in Under(Latest(d, e))
Carries(d, j) ==
  /\ j.op = "sending" => DeltaOK(j.delta)
  /\ j.op = "committed" =>
       \A n \in Ordinary(j.msg) :
         n.ent \in Entities /\ RecordOK(n.rec) /\ OnTop(d, n.ent, n.rec.hash)
  /\ j.op \in {"committed", "recording"} =>
       \A t \in j.todo :
         OperationOK(t.operation) /\ OnTop(d, t.operation.ent, t.operation.hash)
CarriedInv == \A d \in Devices : Carries(d, job[d])

SentInv == \A m \in sent : DeltaOK(m.payload)

ResolutionsInv ==
  /\ DOMAIN resolutions = Devices
  /\ \A d \in Devices :
       /\ resolutions[d] \in Seq(Range(resolutions[d]))
       /\ \A r \in Range(resolutions[d]) : DecisionOK(r)

(* A conflict that offers a choice is one of two contents or a tombstone.     *)
ConflictOK(c) ==
  /\ {"ent", "type", "open", "lhash", "rhash", "artifact"} \subseteq DOMAIN c
  /\ c.ent \in Entities /\ c.type \in ConflictTypes /\ c.open \in BOOLEAN
  /\ Offers(c.type) # {} => {c.lhash, c.rhash} \subseteq Hashes
ConflictsInv == \A d \in Devices : \A c \in Range(conflicts[d]) : ConflictOK(c)

EditInv ==
  /\ HistoryInv /\ RowsInv /\ RecordsInv /\ CarriedInv
  /\ SentInv /\ ResolutionsInv /\ ConflictsInv

-----------------------------------------------------------------------------
(* The history only grows.                                                    *)

LEMMA HistoryDomain ==
  ASSUME HistoryInv
  PROVE  /\ Len(past) \in Nat /\ Contents = 1..Len(past)
         /\ Gone \notin Contents /\ NoHash \notin Contents /\ Contents \subseteq Nat
         /\ \A h \in Contents : past[h] \subseteq Contents
<1>1. past \in Seq(SUBSET Contents)
  BY DEF HistoryInv
<1>2. Len(past) \in Nat /\ DOMAIN past = 1..Len(past) /\ \A h \in DOMAIN past : past[h] \in SUBSET Contents
  BY <1>1, LenProperties, ElementOfSeq
<1> QED BY <1>2 DEF Contents, Gone, NoHash

LEMMA UnderIsContent ==
  ASSUME HistoryInv, NEW h PROVE Under(h) \subseteq Contents \ {NoHash}
  BY HistoryDomain DEF Under

LEMMA UnderClosed ==
  ASSUME HistoryInv, NEW h
  PROVE  Under(h) \subseteq Contents /\ \A x \in Under(h) : Under(x) \subseteq Under(h)
<1>1. CASE h \in Contents
  BY <1>1, HistoryDomain DEF Under, HistoryInv
<1>2. CASE h \notin Contents
  BY <1>2 DEF Under
<1> QED BY <1>1, <1>2

Rises ==
  /\ Contents \subseteq Contents'
  /\ \A h \in Contents : past[h] \subseteq past'[h]

LEMMA UnderRises ==
  ASSUME Rises, NEW h
  PROVE  Under(h) \subseteq Under(h)' /\ Beneath(h) \subseteq Beneath(h)'
  BY DEF Rises, Under, Beneath

LEMMA RecordRises ==
  ASSUME Rises, NEW r, RecordOK(r) PROVE RecordOK(r)'
<1>1. Hashes \subseteq Hashes'
  BY DEF Rises, Hashes
<1>2. Beneath(r.hash) \subseteq Beneath(r.hash)'
  BY UnderRises
<1> QED BY <1>1, <1>2 DEF RecordOK

LEMMA DecisionRises ==
  ASSUME Rises, NEW o, DecisionOK(o) PROVE DecisionOK(o)'
<1>1. Hashes \subseteq Hashes'
  BY DEF Rises, Hashes
<1>2. Beneath(o.hash) \subseteq Beneath(o.hash)'
  BY UnderRises
<1> QED BY <1>1, <1>2 DEF DecisionOK

LEMMA OperationRises ==
  ASSUME Rises, NEW o, OperationOK(o) PROVE OperationOK(o)'
  BY RecordRises, DecisionRises DEF OperationOK

LEMMA DeltaRises ==
  ASSUME Rises, NEW delta, DeltaOK(delta) PROVE DeltaOK(delta)'
  BY RecordRises, OperationRises DEF DeltaOK

LEMMA ConflictRises ==
  ASSUME Rises, NEW c, ConflictOK(c) PROVE ConflictOK(c)'
<1>1. Hashes \subseteq Hashes'
  BY DEF Rises, Hashes
<1> QED BY <1>1 DEF ConflictOK

(* A new content over what is under another, or over nothing.                 *)
LEMMA ContentAdded ==
  ASSUME HistoryInv, NEW S, S \subseteq Contents, \A x \in S : past[x] \subseteq S,
         past' = Append(past, S), NEW k, k = Len(past) + 1
  PROVE  /\ HistoryInv' /\ Rises
         /\ Contents' = Contents \cup {k}
         /\ Under(k)' = S \cup {k}
<1>1. Len(past) \in Nat /\ Contents = 1..Len(past) /\ past \in Seq(SUBSET Contents)
  BY HistoryDomain DEF HistoryInv
<1>2. /\ past' \in Seq(SUBSET Contents) /\ Len(past') = k
      /\ \A h \in Contents : past'[h] = past[h]
      /\ past'[k] = S
  BY <1>1
<1>3. DOMAIN past' = 1..k
  BY <1>2, LenProperties
<1>4. Contents' = Contents \cup {k} /\ k \notin Contents
  BY <1>1, <1>3 DEF Contents
<1>5. Rises
  BY <1>2, <1>4 DEF Rises
<1>6. past' \in Seq(SUBSET Contents')
  BY <1>2, <1>4, SeqMonotonic
<1>7. ASSUME NEW h \in Contents', NEW x \in past'[h] PROVE past'[x] \subseteq past'[h]
  <2>1. CASE h = k
    BY <1>2, <1>7, <2>1
  <2>2. CASE h \in Contents
    <3>1. past[h] \subseteq Contents
      BY <2>2, HistoryDomain
    <3> QED BY <1>2, <1>7, <2>2, <3>1 DEF HistoryInv
  <2> QED BY <1>4, <2>1, <2>2
<1>8. HistoryInv'
  BY <1>6, <1>7 DEF HistoryInv
<1>9. Under(k)' = S \cup {k}
  BY <1>2, <1>4 DEF Under
<1> QED BY <1>4, <1>5, <1>8, <1>9

LEMMA ContentsStacked ==
  ASSUME HistoryInv, NEW tops, NEW below, below \subseteq Contents,
         \A x \in below : past[x] \subseteq below, Stack(tops, below)
  PROVE  /\ HistoryInv' /\ Rises /\ Contents' = Contents
         /\ \A h \in Contents : Under(h) \cap tops # {} => below \subseteq Under(h)'
<1>1. Contents = 1..Len(past) /\ Len(past) \in Nat /\ \A h \in Contents : past[h] \subseteq Contents
  BY HistoryDomain
<1>2. past' = [h \in Contents |->
                 IF Under(h) \cap tops # {} THEN past[h] \cup below ELSE past[h]]
  BY DEF Stack
<1>3. Contents' = Contents
  BY <1>2 DEF Contents
<1>4. Rises
  BY <1>2, <1>3 DEF Rises
<1>5. past' \in Seq(SUBSET Contents')
  <2>1. past' \in [1..Len(past) -> SUBSET Contents]
    BY <1>1, <1>2
  <2> QED BY <1>1, <1>3, <2>1
<1>6. ASSUME NEW h \in Contents, NEW x \in past'[h] PROVE past'[x] \subseteq past'[h]
  <2>1. CASE x \in past[h]
    <3>1. Under(x) \subseteq Under(h) /\ x \in Contents
      BY <1>1, <2>1, UnderClosed DEF Under
    <3>2. past[x] \subseteq past[h]
      BY <2>1 DEF HistoryInv
    <3> QED BY <1>2, <3>1, <3>2
  <2>2. CASE x \notin past[h]
    <3>1. x \in below /\ past'[h] = past[h] \cup below
      BY <1>2, <1>6, <2>2
    <3>2. x \in Contents /\ past'[x] \subseteq past[x] \cup below
      BY <1>2, <3>1
    <3> QED BY <3>1, <3>2
  <2> QED BY <2>1, <2>2
<1>7. HistoryInv'
  BY <1>3, <1>5, <1>6 DEF HistoryInv
<1>8. \A h \in Contents : Under(h) \cap tops # {} => below \subseteq Under(h)'
  BY <1>2, <1>3 DEF Under
<1> QED BY <1>3, <1>4, <1>7, <1>8

-----------------------------------------------------------------------------
(* Contents change on top of what they replace.                               *)

Follows(c, e) == Beneath(Latest(c, e)) \subseteq Beneath(Latest(c, e))'

LEMMA LatestHolds ==
  ASSUME HistoryInv, RowsInv, NEW c \in Devices, NEW e \in Entities
  PROVE  /\ dom[c][e] \in Contents \cup {NoHash}
         /\ erased[c][e] \in Contents \cup {NoHash}
         /\ Latest(c, e) \in Contents \cup {NoHash}
         /\ dom[c][e] # NoHash => Latest(c, e) = dom[c][e] /\ dom[c][e] \in Contents
         /\ dom[c][e] = NoHash => Latest(c, e) = erased[c][e]
  BY DEF RowsInv, Latest

LEMMA FollowsKept ==
  ASSUME Rises, NEW c, NEW e, Latest(c, e)' = Latest(c, e)
  PROVE  Follows(c, e)
<1>1. PICK h : h = Latest(c, e)
  OBVIOUS
<1>2. Beneath(h) \subseteq Beneath(h)'
  BY UnderRises
<1>3. Beneath(Latest(c, e))' = Beneath(h)'
  BY <1>1 DEF Beneath, Under
<1> QED BY <1>1, <1>2, <1>3 DEF Follows

(* A row that takes content h follows if its old content is under h.          *)
LEMMA FollowsUnder ==
  ASSUME NEW c, NEW e, NEW h, Latest(c, e)' = h, Under(Latest(c, e)) \subseteq Under(h)'
  PROVE  Follows(c, e)
<1>1. Beneath(Latest(c, e))' = Beneath(h)'
  BY DEF Beneath, Under
<1> QED BY <1>1 DEF Follows, Beneath

LEMMA RowWritten ==
  ASSUME HistoryInv, RowsInv, NEW d \in Devices, NEW e \in Entities, Write(d, e)
  PROVE  /\ HistoryInv' /\ RowsInv' /\ Rises
         /\ \A c \in Devices, x \in Entities : Follows(c, x)
<1>1. PICK k, S : k = Len(past) + 1 /\ S = Under(Latest(d, e))
  OBVIOUS
<1>2. S \subseteq Contents /\ \A x \in S : past[x] \subseteq S
  <2>1. PICK h : h = Latest(d, e)
    OBVIOUS
  <2>2. Under(h) \subseteq Contents /\ \A x \in Under(h) : Under(x) \subseteq Under(h)
    BY UnderClosed
  <2> QED BY <1>1, <2>1, <2>2 DEF Under
<1>3. past' = Append(past, S) /\ erased' = erased
  BY <1>1 DEF Write
<1>4. /\ HistoryInv' /\ Rises
      /\ Contents' = Contents \cup {k}
      /\ Under(k)' = S \cup {k}
  BY <1>1, <1>2, <1>3, ContentAdded
<1>5. k \in Nat \ {0} /\ k # NoHash
  BY <1>1, HistoryDomain DEF NoHash
<1>6. dom' = [dom EXCEPT ![d] = [dom[d] EXCEPT ![e] = k]]
  BY <1>1 DEF Write
<1>7. RowsInv'
  <2>1. dom \in [Devices -> [Entities -> Contents' \cup {NoHash}]]
    BY <1>4 DEF RowsInv
  <2>2. [dom[d] EXCEPT ![e] = k] \in [Entities -> Contents' \cup {NoHash}]
    BY <1>4, <2>1
  <2>3. dom' \in [Devices -> [Entities -> Contents' \cup {NoHash}]]
    BY <1>6, <2>1, <2>2
  <2>4. erased' \in [Devices -> [Entities -> Contents' \cup {NoHash}]]
    BY <1>3, <1>4 DEF RowsInv
  <2> QED BY <2>3, <2>4 DEF RowsInv
<1>8. Follows(d, e)
  <2>1. Latest(d, e)' = k
    BY <1>5, <1>6 DEF Latest, RowsInv
  <2> QED BY <1>1, <1>4, <2>1, FollowsUnder
<1>9. ASSUME NEW c \in Devices, NEW x \in Entities, c # d \/ x # e PROVE Follows(c, x)
  <2>1. dom'[c][x] = dom[c][x] /\ erased'[c][x] = erased[c][x]
    BY <1>3, <1>6, <1>9 DEF RowsInv
  <2> QED BY <1>4, <2>1, FollowsKept DEF Latest
<1> QED BY <1>4, <1>7, <1>8, <1>9

LEMMA RowErased ==
  ASSUME HistoryInv, RowsInv, NEW d \in Devices, NEW e \in Entities, Erase(d, e)
  PROVE  /\ HistoryInv' /\ RowsInv' /\ Rises
         /\ \A c \in Devices, x \in Entities : Follows(c, x)
<1>1. PICK k : k = Len(past) + 1
  OBVIOUS
<1>2. past' = Append(past, {})
  BY DEF Erase
<1>3. HistoryInv' /\ Rises /\ Contents' = Contents \cup {k}
  BY <1>1, <1>2, ContentAdded
<1>4. /\ dom' = [dom EXCEPT ![d] = [dom[d] EXCEPT ![e] = NoHash]]
      /\ erased' = [erased EXCEPT ![d] = [erased[d] EXCEPT ![e] = dom[d][e]]]
      /\ dom[d][e] # NoHash
  BY DEF Erase
<1>5. RowsInv'
  <2> DEFINE T == [Entities -> Contents' \cup {NoHash}]
  <2>1. dom \in [Devices -> T] /\ erased \in [Devices -> T]
    BY <1>3 DEF RowsInv
  <2>2. [dom[d] EXCEPT ![e] = NoHash] \in T /\ [erased[d] EXCEPT ![e] = dom[d][e]] \in T
    BY <2>1
  <2> HIDE DEF T
  <2>3. dom' \in [Devices -> T] /\ erased' \in [Devices -> T]
    BY <1>4, <2>1, <2>2
  <2> QED BY <2>3 DEF RowsInv, T
<1>6. ASSUME NEW c \in Devices, NEW x \in Entities PROVE Follows(c, x)
  <2>1. Latest(c, x)' = Latest(c, x)
    <3>1. CASE c = d /\ x = e
      BY <1>4, <3>1 DEF Latest, RowsInv
    <3>2. CASE c # d \/ x # e
      <4>1. dom'[c][x] = dom[c][x] /\ erased'[c][x] = erased[c][x]
        BY <1>4, <3>2 DEF RowsInv
      <4> QED BY <4>1 DEF Latest
    <3> QED BY <3>1, <3>2
  <2> QED BY <1>3, <2>1, FollowsKept
<1> QED BY <1>3, <1>5, <1>6

LEMMA RowsKept ==
  ASSUME HistoryInv, RowsInv, UNCHANGED rowVars
  PROVE  /\ HistoryInv' /\ RowsInv' /\ Rises
         /\ \A c \in Devices, x \in Entities : Follows(c, x)
<1> USE DEF rowVars
<1>1. Contents' = Contents /\ Rises
  BY DEF Rises, Contents
<1>2. HistoryInv' /\ RowsInv'
  BY <1>1 DEF HistoryInv, RowsInv
<1>3. \A c \in Devices, x \in Entities : Latest(c, x)' = Latest(c, x)
  BY DEF Latest
<1> QED BY <1>1, <1>2, <1>3, FollowsKept

-----------------------------------------------------------------------------
(* A delta is applied.                                                        *)

LEMMA SameSize ==
  ASSUME NEW S, IsFiniteSet(S), Cardinality({o.ent : o \in S}) = Cardinality(S)
  PROVE  \A o, k \in S : o.ent = k.ent => o = k
<1> DEFINE T == {o.ent : o \in S}
           f == [o \in S |-> o.ent]
<1>1. f \in Surjection(S, T)
  BY DEF Surjection
<1>2. f \in Injection(S, T)
  BY <1>1, FS_SurjSameCardinalityImpliesInj
<1>3. \A o, k \in S : f[o] = f[k] => o = k
  BY <1>2 DEF Injection, IsInjective
<1> QED BY <1>3

(* What a delta that is committed has been found to be.                       *)
LEMMA CommittedDelta ==
  ASSUME NEW d \in Devices, NEW m, DeltaOK(m.payload), ApplyVerdict(d, m) = Committing
  PROVE  /\ \A n \in Ordinary(m) : EntryVerdict(d, n) \in Plans
         /\ \A o \in Accepted(d, m) : Effective(d, o.ent) \in o.heads \cup {o.hash}
         /\ \A o, k \in m.payload.resolutions : o.ent = k.ent => o = k
<1> DEFINE ops == m.payload.resolutions
           decided == {o.ent : o \in ops}
           bad == {o \in ops : OperationVerdict(d, m.from, o) \notin {"known", "accepted"}}
           clash == {x \in m.payload.entries : x.ent \notin decided
                                               /\ EntryVerdict(d, x) \notin Plans}
           stale == {o \in ops : /\ OperationVerdict(d, m.from, o) = "accepted"
                                 /\ Effective(d, o.ent) \notin o.heads \cup {o.hash}}
<1>1. Refusal # Committing /\ \A row : Raising(row) # Committing
  BY DEF Refusal, Raising, Committing
<1>2. Cardinality(decided) = Cardinality(ops) /\ bad = {} /\ clash = {} /\ stale = {}
  BY <1>1, Zenon DEF ApplyVerdict
<1>3. \A n \in Ordinary(m) : EntryVerdict(d, n) \in Plans
  BY <1>2 DEF Ordinary
<1>4. ASSUME NEW o \in Accepted(d, m)
      PROVE  Effective(d, o.ent) \in o.heads \cup {o.hash}
  <2>1. o \in ops /\ ~Known(d, o)
    BY DEF Accepted
  <2>2. OperationVerdict(d, m.from, o) \in {"known", "accepted"}
    BY <1>2, <2>1
  <2>3. OperationVerdict(d, m.from, o) = "accepted"
    BY <2>1, <2>2 DEF OperationVerdict
  <2> QED BY <1>2, <2>1, <2>3
<1>5. \A o, k \in ops : o.ent = k.ent => o = k
  BY <1>2, SameSize DEF DeltaOK
<1> QED BY <1>3, <1>4, <1>5

(* A record or a decision made over a content stands over all that is under.  *)
LEMMA MadeOver ==
  ASSUME HistoryInv, Rises, NEW h \in Contents, NEW x \in Contents, x \in Beneath(h)
  PROVE  Under(x) \subseteq Under(h)'
<1>1. x \in Under(h)
  BY HistoryDomain DEF Beneath
<1>2. Under(x) \subseteq Under(h) /\ Under(h) \subseteq Under(h)'
  BY <1>1, UnderClosed, UnderRises
<1> QED BY <1>2

LEMMA ContentOverItself ==
  ASSUME NEW h \in Contents PROVE h \in Under(h)
  BY DEF Under

LEMMA RowsApplied ==
  ASSUME HistoryInv, RowsInv, NEW d \in Devices, DOMAIN job = Devices,
         DeltaOK(job[d].msg.payload), ApplyCommits(d)
  PROVE  /\ HistoryInv' /\ RowsInv' /\ Rises
         /\ \A c \in Devices, e \in Entities : c # d \/ meta[c][e].hash # Gone => Follows(c, e)
         /\ Carries(d, job[d])'
<1> DEFINE m == job[d].msg
           writes == {n \in Ordinary(m) : EntryVerdict(d, n) \in {"insert", "update"}}
           decides == {o \in Accepted(d, m) : o.hash # Gone}
           inserts == {n \in writes : EntryVerdict(d, n) = "insert"}
           tops == {n.rec.hash : n \in inserts}
           below == UNION {Under(erased[d][n.ent]) : n \in inserts}
           row(e) == IF \E n \in writes : n.ent = e
                     THEN (CHOOSE n \in writes : n.ent = e).rec.hash
                     ELSE IF \E o \in decides : o.ent = e
                     THEN (CHOOSE o \in decides : o.ent = e).hash
                     ELSE dom[d][e]
<1>1. /\ dom' = [dom EXCEPT ![d] = [e \in Entities |-> row(e)]]
      /\ erased' = erased /\ meta' = meta
      /\ Stack(tops, below)
      /\ ApplyVerdict(d, m) = Committing
  BY DEF ApplyCommits, metaVars
<1>2. /\ \A n \in Ordinary(m) : EntryVerdict(d, n) \in Plans
      /\ \A o \in Accepted(d, m) : Effective(d, o.ent) \in o.heads \cup {o.hash}
      /\ \A o, k \in m.payload.resolutions : o.ent = k.ent => o = k
  BY <1>1, CommittedDelta
<1>3. ASSUME NEW n \in Ordinary(m)
      PROVE  /\ n.ent \in Entities /\ RecordOK(n.rec)
             /\ \A k \in Ordinary(m) : n.ent = k.ent => n = k
             /\ \A o \in decides : o.ent # n.ent
  BY DEF Ordinary, Accepted, DeltaOK
<1>4. \A n \in writes : n.rec.hash # Gone /\ n.rec.hash \in Contents
  BY <1>3 DEF EntryVerdict, RecordOK, Hashes
<1>5. \A o \in Accepted(d, m) : OperationOK(o) /\ o.ent \in Entities
  BY EntitiesAssumption DEF Accepted, DeltaOK, OperationOK, DecisionOK
<1>6. \A o \in decides : o.hash \in Contents
  BY <1>5 DEF OperationOK, DecisionOK, Hashes
<1>7. \A n \in writes : row(n.ent) = n.rec.hash
  BY <1>3
<1>8. \A o \in decides : row(o.ent) = o.hash
  BY <1>2, <1>3 DEF Accepted
<1>9. \A e \in Entities : \/ \E n \in writes : n.ent = e
                          \/ \E o \in decides : o.ent = e
                          \/ row(e) = dom[d][e]
  OBVIOUS
<1> HIDE DEF row
<1>10. HistoryInv' /\ Rises /\ Contents' = Contents
       /\ \A h \in Contents : Under(h) \cap tops # {} => below \subseteq Under(h)'
  <2>1. below \subseteq Contents /\ \A x \in below : past[x] \subseteq below
    <3>1. ASSUME NEW x \in below PROVE x \in Contents /\ past[x] \subseteq below
      <4>1. PICK n \in inserts : x \in Under(erased[d][n.ent])
        OBVIOUS
      <4>2. PICK g : g = erased[d][n.ent]
        OBVIOUS
      <4>3. x \in Contents /\ Under(x) \subseteq Under(g)
        BY <4>1, <4>2, UnderClosed
      <4> QED BY <4>2, <4>3 DEF Under
    <3> QED BY <3>1
  <2> HIDE DEF tops, below
  <2> QED BY <1>1, <2>1, ContentsStacked
<1>11. \A e \in Entities : row(e) \in Contents \cup {NoHash}
  <2> SUFFICES ASSUME NEW e \in Entities PROVE row(e) \in Contents \cup {NoHash}
    OBVIOUS
  <2>1. CASE \E n \in writes : n.ent = e
    BY <1>4, <1>7, <2>1
  <2>2. CASE \E o \in decides : o.ent = e
    BY <1>6, <1>8, <2>2
  <2>3. CASE row(e) = dom[d][e]
    BY <2>3, LatestHolds
  <2> QED BY <1>9, <2>1, <2>2, <2>3
<1>12. dom'[d] = [e \in Entities |-> row(e)] /\ \A c \in Devices \ {d} : dom'[c] = dom[c]
  BY <1>1 DEF RowsInv
<1>13. RowsInv'
  <2> DEFINE T == [Entities -> Contents \cup {NoHash}]
  <2>1. dom \in [Devices -> T] /\ erased \in [Devices -> T]
    BY DEF RowsInv
  <2>2. [e \in Entities |-> row(e)] \in T
    BY <1>11
  <2>3. dom' \in [Devices -> T]
    BY <1>1, <2>1, <2>2
  <2> QED BY <1>1, <1>10, <2>1, <2>3 DEF RowsInv
<1>14. ASSUME NEW e \in Entities, meta[d][e].hash # Gone PROVE Follows(d, e)
  <2>1. CASE \E n \in writes : n.ent = e
    <3>1. PICK n \in writes : n.ent = e
      BY <2>1
    <3>2. PICK h : h = n.rec.hash
      OBVIOUS
    <3>3. h \in Contents /\ Latest(d, e)' = h
      BY <1>4, <1>7, <1>12, <3>1, <3>2, HistoryDomain DEF Latest
    <3>4. CASE EntryVerdict(d, n) = "insert"
      <4>1. dom[d][e] = NoHash
        BY <3>1, <3>4 DEF EntryVerdict
      <4>2. n \in inserts
        BY <3>4
      <4>3. Under(Latest(d, e)) \subseteq below
        BY <3>1, <4>1, <4>2 DEF Latest
      <4>4. h \in Under(h) \cap tops
        BY <3>2, <3>3, <4>2, ContentOverItself
      <4>5. below \subseteq Under(h)'
        BY <1>10, <3>3, <4>4
      <4> QED BY <3>3, <4>3, <4>5, FollowsUnder
    <3>5. CASE EntryVerdict(d, n) = "update"
      <4>1. dom[d][e] # NoHash /\ dom[d][e] \in {n.rec.parent, n.rec.ancestor}
        BY <3>1, <3>5 DEF EntryVerdict
      <4>2. PICK x \in Contents : x = dom[d][e] /\ Latest(d, e) = x
        BY <4>1, LatestHolds
      <4>3. x \in Beneath(h)
        BY <1>3, <1>4, <3>2, <4>1, <4>2 DEF RecordOK
      <4>4. Under(x) \subseteq Under(h)'
        BY <1>10, <3>3, <4>3, MadeOver
      <4> QED BY <3>3, <4>2, <4>4, FollowsUnder
    <3> QED BY <3>4, <3>5
  <2>2. CASE \E o \in decides : o.ent = e
    <3>1. PICK o \in decides : o.ent = e
      BY <2>2
    <3>2. PICK h : h = o.hash
      OBVIOUS
    <3>3. h \in Contents /\ Latest(d, e)' = h
      BY <1>6, <1>8, <1>12, <3>1, <3>2, HistoryDomain DEF Latest
    <3>4. dom[d][e] \in o.heads \cup {h}
      BY <1>2, <1>14, <3>1, <3>2 DEF Effective
    <3>5. o.heads \subseteq Beneath(h) /\ o.heads \subseteq Hashes
      BY <1>5, <3>1, <3>2 DEF OperationOK, DecisionOK
    <3>6. dom[d][e] \in Contents
      BY <3>3, <3>4, <3>5, LatestHolds, HistoryDomain DEF Hashes, Gone, NoHash
    <3>7. PICK x \in Contents : x = dom[d][e] /\ Latest(d, e) = x
      BY <3>6, LatestHolds, HistoryDomain
    <3>8. x \in Beneath(h)
      BY <3>3, <3>4, <3>5, <3>7, ContentOverItself DEF Beneath
    <3>9. Under(x) \subseteq Under(h)'
      BY <1>10, <3>3, <3>8, MadeOver
    <3> QED BY <3>3, <3>7, <3>9, FollowsUnder
  <2>3. CASE row(e) = dom[d][e]
    <3>1. Latest(d, e)' = Latest(d, e)
      BY <1>1, <1>12, <2>3 DEF Latest
    <3> QED BY <1>10, <3>1, FollowsKept
  <2> QED BY <1>9, <2>1, <2>2, <2>3
<1>15. ASSUME NEW c \in Devices, c # d, NEW e \in Entities PROVE Follows(c, e)
  <2>1. Latest(c, e)' = Latest(c, e)
    BY <1>1, <1>12, <1>15 DEF Latest
  <2> QED BY <1>10, <2>1, FollowsKept
<1>16. Carries(d, job[d])'
  <2> DEFINE todo == {[operation |-> o,
                       conflict |-> Min(About(d, m.from, o)),
                       retained |-> IF o.hash = Gone THEN dom[d][o.ent] ELSE NoHash] :
                        o \in Accepted(d, m)}
  <2>1. job'[d] = [op |-> "committed", msg |-> m, todo |-> todo]
    BY DEF ApplyCommits
  <2>2. ASSUME NEW e \in Entities, NEW h \in Contents, row(e) = h
        PROVE  OnTop(d, e, h)'
    <3>1. Latest(d, e)' = h
      BY <1>12, <2>2, HistoryDomain DEF Latest
    <3>2. h \in Under(h)'
      BY <1>10 DEF Under
    <3>3. Under(Latest(d, e))' = Under(h)'
      BY <3>1 DEF Under
    <3> QED BY <3>2, <3>3 DEF OnTop
  <2>3. ASSUME NEW n \in Ordinary(m) PROVE OnTop(d, n.ent, n.rec.hash)'
    <3>1. CASE n.rec.hash = Gone
      BY <3>1 DEF OnTop
    <3>2. CASE n \in writes
      BY <1>3, <1>4, <1>7, <2>2, <3>2
    <3>3. CASE n.rec.hash # Gone /\ n \notin writes
      <4>1. EntryVerdict(d, n) \in {"noop", "deleted"}
        BY <1>2, <3>3 DEF Plans
      <4>2. dom[d][n.ent] = n.rec.hash
        BY <3>3, <4>1 DEF EntryVerdict
      <4>3. row(n.ent) = dom[d][n.ent]
        BY <1>3, <1>9, <3>3
      <4>4. n.rec.hash \in Contents
        BY <1>3, <3>3 DEF RecordOK, Hashes
      <4> QED BY <1>3, <2>2, <4>2, <4>3, <4>4
    <3> QED BY <3>1, <3>2, <3>3
  <2>4. ASSUME NEW o \in Accepted(d, m)
        PROVE  OperationOK(o)' /\ OnTop(d, o.ent, o.hash)'
    <3>1. OperationOK(o)'
      BY <1>5, <1>10, OperationRises
    <3>2. CASE o.hash = Gone
      BY <3>1, <3>2 DEF OnTop
    <3>3. CASE o.hash # Gone
      BY <1>5, <1>6, <1>8, <2>2, <3>1, <3>3
    <3> QED BY <3>2, <3>3
  <2>5. \A n \in Ordinary(m) : n.ent \in Entities /\ RecordOK(n.rec)'
    BY <1>3, <1>10, RecordRises
  <2> QED BY <2>1, <2>3, <2>4, <2>5 DEF Carries, Ordinary
<1> QED BY <1>10, <1>13, <1>14, <1>15, <1>16

-----------------------------------------------------------------------------
(* A conflict is resolved.                                                    *)

LEMMA LeastAndGreatest ==
  ASSUME NEW a \in Int, NEW b \in Int
  PROVE  Min({a, b}) \in {a, b} /\ Max({a, b}) \in {a, b}
<1>1. \E x \in {a, b} : \A y \in {a, b} : x <= y
  BY SMT
<1>2. \E x \in {a, b} : \A y \in {a, b} : x >= y
  BY SMT
<1> QED BY <1>1, <1>2, Zenon DEF Min, Max

LEMMA TwoContents ==
  ASSUME NEW a, NEW b, a # b PROVE Cardinality({a, b}) = 2
<1>1. IsFiniteSet({a}) /\ Cardinality({a}) = 1
  BY FS_Singleton, Zenon
<1>2. Cardinality({a} \cup {b}) = 2
  BY <1>1, FS_AddElement
<1>3. {a, b} = {a} \cup {b}
  OBVIOUS
<1> QED BY <1>2, <1>3

LEMMA RowsResolved ==
  ASSUME HistoryInv, RowsInv, RecordsInv, ConflictsInv, DOMAIN job = Devices,
         NEW d \in Devices, NEW i \in DOMAIN conflicts[d], NEW choice, Resolve(d, i, choice)
  PROVE  /\ HistoryInv' /\ RowsInv' /\ Rises
         /\ \A c \in Devices, e \in Entities : c # d \/ meta[c][e].hash # Gone => Follows(c, e)
         /\ Carries(d, job[d])'
<1>1. PICK c : c = conflicts[d][i]
  OBVIOUS
<1>2. PICK heads : heads = {c.lhash, c.rhash}
  OBVIOUS
<1>3. PICK result : result = Chosen(d, c, choice)
  OBVIOUS
<1>4. PICK rec : rec = [hash |-> result, origin |-> d, counter |-> counter[d] + 1,
                        parent |-> Min(heads), ancestor |-> Max(heads)]
  OBVIOUS
<1>5. PICK operation :
        operation = [ent |-> c.ent, heads |-> heads, hash |-> result, rec |-> rec,
                     supersedes |-> IF c.type = "RESOLUTION_CONFLICT"
                                    THEN {c.lrev, c.rrev} ELSE {}]
  OBVIOUS
<1>6. PICK t : t = [operation |-> operation, conflict |-> i,
                    retained |-> IF result = Gone THEN dom[d][c.ent] ELSE NoHash]
  OBVIOUS
<1> DEFINE below == UNION {Under(h) : h \in heads}
           chosen == IF result = Gone THEN dom[d][c.ent] ELSE result
<1>7. /\ choice \in Offers(c.type) /\ c.ent \in Mutable /\ c.lhash # c.rhash
      /\ Resolvable(d, c, result)
      /\ dom' = [dom EXCEPT ![d] = [dom[d] EXCEPT ![c.ent] = chosen]]
      /\ Stack({result}, below)
      /\ job' = [job EXCEPT ![d] = Recording(Envelope(c), {t}, c.ent)]
      /\ erased' = erased /\ meta' = meta
  BY <1>1, <1>2, <1>3, <1>4, <1>5, <1>6 DEF Resolve, metaVars
<1>8. c.ent \in Entities /\ heads \subseteq Hashes
  <2>1. ConflictOK(c)
    BY <1>1 DEF ConflictsInv, Range
  <2> QED BY <1>2, <1>7, <2>1, EntitiesAssumption DEF ConflictOK
<1>9. Hashes \subseteq Nat /\ NoHash \notin Hashes /\ Gone \notin Contents
  BY HistoryDomain DEF Hashes, Gone, NoHash
<1>10. result \in Hashes /\ result # NoHash
  <2>1. result # NoHash
    BY <1>7 DEF Resolvable
  <2>2. dom[d][c.ent] \in Hashes \cup {NoHash}
    BY <1>8, LatestHolds DEF Hashes
  <2>3. Chosen(d, c, choice) \in {Gone, NoHash, dom[d][c.ent], c.rhash}
    <3>1. choice \in {"KEEP_THIS_DEVICE_VERSION", "USE_PEER_VERSION", "KEEP_UPDATED_ITEM",
                      "DELETE_ON_BOTH_DEVICES"}
      BY <1>7 DEF Offers
    <3> QED BY <3>1 DEF Chosen
  <2> QED BY <1>2, <1>3, <1>8, <2>1, <2>2, <2>3 DEF Hashes
<1>11. /\ HistoryInv' /\ Rises /\ Contents' = Contents
       /\ \A h \in Contents : Under(h) \cap {result} # {} => below \subseteq Under(h)'
  <2>1. below \subseteq Contents /\ \A x \in below : past[x] \subseteq below
    <3>1. ASSUME NEW x \in below PROVE x \in Contents /\ past[x] \subseteq below
      <4>1. PICK h \in heads : x \in Under(h)
        OBVIOUS
      <4>2. x \in Contents /\ Under(x) \subseteq Under(h)
        BY <4>1, UnderClosed
      <4> QED BY <4>2 DEF Under
    <3> QED BY <3>1
  <2>2. Stack({result}, below)
    BY <1>7
  <2> HIDE DEF below
  <2> QED BY <2>1, <2>2, ContentsStacked
<1>12. \A h \in heads : Under(h) \subseteq below
  OBVIOUS
<1> HIDE DEF below
<1>13. ASSUME result # Gone
       PROVE  result \in Contents /\ below \subseteq Under(result)'
  <2>1. result \in Contents
    BY <1>10, <1>13 DEF Hashes
  <2>2. Under(result) \cap {result} # {}
    BY <2>1, ContentOverItself
  <2> QED BY <1>11, <2>1, <2>2
<1>14. /\ \A x \in Devices \ {d} : dom'[x] = dom[x]
       /\ \A e \in Entities : e # c.ent \/ result = Gone => dom'[d][e] = dom[d][e]
       /\ result # Gone => dom'[d][c.ent] = result
  BY <1>7, <1>8 DEF RowsInv
<1>15. RowsInv'
  <2> DEFINE T == [Entities -> Contents \cup {NoHash}]
  <2>1. dom \in [Devices -> T] /\ erased \in [Devices -> T]
    BY DEF RowsInv
  <2>2. chosen \in Contents \cup {NoHash}
    BY <1>8, <1>13, LatestHolds
  <2> HIDE DEF chosen
  <2>3. [dom[d] EXCEPT ![c.ent] = chosen] \in T
    BY <2>1, <2>2
  <2> HIDE DEF T
  <2>4. dom' \in [Devices -> T] /\ erased' \in [Devices -> T]
    BY <1>7, <2>1, <2>3 DEF chosen
  <2> QED BY <1>11, <2>4 DEF RowsInv, T
<1>16. ASSUME NEW x \in Devices, NEW e \in Entities, x # d \/ meta[x][e].hash # Gone
       PROVE  Follows(x, e)
  <2>1. CASE x # d \/ e # c.ent \/ result = Gone
    <3>1. Latest(x, e)' = Latest(x, e)
      BY <1>7, <1>14, <2>1 DEF Latest
    <3> QED BY <1>11, <3>1, FollowsKept
  <2>2. CASE x = d /\ e = c.ent /\ result # Gone
    <3>1. Latest(d, e)' = result
      BY <1>10, <1>14, <2>2 DEF Latest
    <3>2. dom[d][e] \in {c.lhash, result}
      BY <1>7, <1>16, <2>2 DEF Resolvable
    <3>3. PICK r : r = dom[d][e]
      OBVIOUS
    <3>4. r \in Contents /\ Latest(d, e) = r
      <4>1. r \in Hashes
        BY <1>2, <1>8, <1>10, <3>2, <3>3
      <4> QED BY <1>9, <3>3, <4>1, LatestHolds
    <3>5. CASE r = result
      <4>1. Under(r) \subseteq Under(r)'
        BY <1>11, UnderRises
      <4> QED BY <2>2, <3>1, <3>4, <3>5, <4>1, FollowsUnder
    <3>6. CASE r = c.lhash
      <4>1. Under(r) \subseteq below
        BY <1>2, <1>12, <3>6
      <4> QED BY <1>13, <2>2, <3>1, <3>4, <4>1, FollowsUnder
    <3> QED BY <3>2, <3>3, <3>5, <3>6
  <2> QED BY <2>1, <2>2
<1>17. result # Gone => heads \subseteq Beneath(result)'
  <2> SUFFICES ASSUME result # Gone, NEW h \in heads, h # Gone PROVE h \in Under(result)'
    BY DEF Beneath
  <2>1. h \in Contents
    BY <1>8 DEF Hashes
  <2> QED BY <1>12, <1>13, <2>1, ContentOverItself
<1>18. OperationOK(operation)'
  <2>1. Hashes' = Hashes
    BY <1>11 DEF Hashes
  <2>2. DecisionOK(operation)'
    <3>1. Cardinality(heads) = 2
      <4>1. Cardinality({c.lhash, c.rhash}) = 2
        BY <1>7, TwoContents, Zenon
      <4> QED BY <1>2, <4>1
    <3>2. /\ operation.ent = c.ent /\ operation.heads = heads /\ operation.hash = result
          /\ Beneath(operation.hash)' = Beneath(result)'
      BY <1>5 DEF Beneath, Under
    <3> QED BY <1>7, <1>8, <1>10, <1>17, <2>1, <3>1, <3>2 DEF DecisionOK
  <2>3. RecordOK(rec)'
    <3>1. heads \subseteq Nat /\ result \in Nat
      BY <1>8, <1>9, <1>10
    <3>2. Min(heads) \in heads /\ Max(heads) \in heads
      <4>1. c.lhash \in Int /\ c.rhash \in Int
        BY <1>2, <3>1
      <4>2. /\ Min({c.lhash, c.rhash}) \in {c.lhash, c.rhash}
            /\ Max({c.lhash, c.rhash}) \in {c.lhash, c.rhash}
        BY <4>1, LeastAndGreatest
      <4> QED BY <1>2, <4>2
    <3>3. counter[d] + 1 \in Nat
      BY DEF RecordsInv
    <3>4. rec \in Revision
      BY <1>4, <3>1, <3>2, <3>3 DEF Revision, Hash
    <3> QED BY <1>4, <1>10, <1>17, <2>1, <3>2, <3>4 DEF RecordOK
  <2> QED BY <1>4, <1>5, <2>2, <2>3 DEF OperationOK
<1>19. OnTop(d, operation.ent, operation.hash)'
  <2> SUFFICES ASSUME result # Gone PROVE result \in Under(Latest(d, c.ent))'
    BY <1>5 DEF OnTop
  <2>1. Latest(d, c.ent)' = result
    BY <1>10, <1>14 DEF Latest
  <2>2. result \in Under(result)'
    BY <1>11, <1>13 DEF Under
  <2> QED BY <2>1, <2>2 DEF Under
<1>20. Carries(d, job[d])'
  <2>1. job'[d] = Recording(Envelope(c), {t}, c.ent) /\ t.operation = operation
    BY <1>6, <1>7
  <2> QED BY <1>18, <1>19, <2>1 DEF Carries, Recording
<1> QED BY <1>11, <1>14, <1>15, <1>16, <1>20

Rewrites(d) ==
  \/ ApplyCommits(d)
  \/ \E i \in DOMAIN conflicts[d] :
       \E choice \in Offers(conflicts[d][i].type) : Resolve(d, i, choice)

(* Whatever a device does, a row follows, but for one behind a tombstone that *)
(* a delta or a choice rewrites.                                              *)
LEMMA RowsHold ==
  ASSUME SyncInv, EditInv, NEW d \in Devices, Acts(d)
  PROVE  /\ HistoryInv' /\ RowsInv' /\ Rises
         /\ \A c \in Devices, e \in Entities :
              Follows(c, e) \/ (c = d /\ meta[d][e].hash = Gone /\ Rewrites(d))
         /\ Rewrites(d) => Carries(d, job[d])'
<1> USE DEF EditInv
<1>1. DOMAIN job = Devices
  BY DEF SyncInv, JobInv
<1>2. CASE Rewrites(d)
  <2>1. CASE ApplyCommits(d)
    <3>1. DeltaOK(job[d].msg.payload)
      BY <2>1 DEF ApplyCommits, SyncInv, JobInv, JobOK, Answering, SentInv
    <3> QED BY <1>1, <1>2, <2>1, <3>1, RowsApplied
  <2>2. ASSUME NEW i \in DOMAIN conflicts[d], NEW choice, Resolve(d, i, choice)
        PROVE  /\ HistoryInv' /\ RowsInv' /\ Rises
               /\ \A c \in Devices, e \in Entities :
                    c # d \/ meta[c][e].hash # Gone => Follows(c, e)
               /\ Carries(d, job[d])'
    BY <1>1, <2>2, RowsResolved
  <2> QED BY <1>2, <2>1, <2>2 DEF Rewrites
<1>3. CASE ~Rewrites(d)
  <2>1. ASSUME NEW e \in Entities, Write(d, e) \/ Erase(d, e)
        PROVE  /\ HistoryInv' /\ RowsInv' /\ Rises
               /\ \A c \in Devices, x \in Entities : Follows(c, x)
    BY <2>1, RowWritten, RowErased
  <2>2. CASE ~ \E e \in Entities : Write(d, e) \/ Erase(d, e)
    <3>1. UNCHANGED rowVars
      BY <1>3, <2>2 DEF Acts, Rewrites, OpenInbox, Export, Send, SendFails, Receive,
         ApplyRefused, ApplyConflicts, Checkpoint, RecordResolution, Complete, Crash,
         LoseMetadata, Trusts, syncVars
    <3> QED BY <1>3, <3>1, RowsKept
  <2> QED BY <1>3, <2>1, <2>2
<1> QED BY <1>2, <1>3

-----------------------------------------------------------------------------
(* What a scan finds                                                          *)

LEMMA FiniteEntities == IsFiniteSet(Entities) /\ Entities \subseteq Nat
<1>1. Cardinality(Entities) \in Nat
  BY EntitiesAssumption, FS_CardinalityType
<1> QED BY <1>1, EntitiesAssumption

LEMMA TurnIsNumber ==
  ASSUME NEW d \in Devices, NEW e \in Entities PROVE Turn(d, e) \in Nat
<1>1. /\ IsFiniteSet(Rewritten(d)) /\ IsFiniteSet({f \in Vanished(d) : f <= e})
      /\ IsFiniteSet({f \in Rewritten(d) : f <= e})
  <2>1. ASSUME NEW S, S \subseteq Entities PROVE IsFiniteSet(S)
    BY <2>1, FiniteEntities, FS_Subset
  <2>2. Rewritten(d) \subseteq Entities /\ Vanished(d) \subseteq Entities
    BY DEF Rewritten, Vanished, Candidates
  <2> QED BY <2>1, <2>2
<1>2. /\ Cardinality(Rewritten(d)) \in Nat /\ Cardinality({f \in Vanished(d) : f <= e}) \in Nat
      /\ Cardinality({f \in Rewritten(d) : f <= e}) \in Nat
  BY <1>1, FS_CardinalityType
<1> QED BY <1>2 DEF Turn

LEMMA ChangeObserved ==
  ASSUME HistoryInv, RowsInv, RecordsInv, NEW d \in Devices, NEW e \in Entities,
         e \in Changed(d)
  PROVE  RecordOK(NextRevision(d, e)) /\ RowRecordOK(d, e, NextRevision(d, e))
<1> DEFINE r == NextRevision(d, e)
           old == meta[d][e]
<1>1. old \in Revision /\ RowRecordOK(d, e, old) /\ counter[d] \in Nat
  BY DEF RecordsInv
<1>2. Hashes \subseteq Nat /\ Gone \in Hashes /\ NoHash \notin Contents /\ Gone \notin Contents
  BY HistoryDomain DEF Hashes, Gone, NoHash
<1>3. /\ r.hash = IF e \in Vanished(d) THEN Gone ELSE dom[d][e]
      /\ r.parent = old.hash
      /\ r.ancestor = IF old.ancestor # NoHash THEN old.ancestor ELSE old.hash
  BY DEF NextRevision
<1>4. e \notin Vanished(d) =>
        /\ dom[d][e] \in Contents /\ Latest(d, e) = dom[d][e]
        /\ old.hash # Gone
  <2> SUFFICES ASSUME e \notin Vanished(d)
               PROVE  /\ dom[d][e] \in Contents /\ Latest(d, e) = dom[d][e]
                      /\ old.hash # Gone
    OBVIOUS
  <2>1. e \in Rewritten(d)
    BY DEF Changed
  <2> QED BY <2>1, LatestHolds DEF Rewritten, Candidates
<1>5. r \in Revision
  <2>1. r.hash \in Hash
    BY <1>2, <1>3, <1>4 DEF Hash, Hashes
  <2>2. counter[d] + Turn(d, e) \in Nat
    BY <1>1, TurnIsNumber
  <2>3. old.hash \in Hash /\ old.ancestor \in Hash
    BY <1>1 DEF Revision
  <2> QED BY <2>1, <2>2, <2>3 DEF NextRevision, Revision
<1>6. r.hash # Gone =>
        /\ r.hash \in Contents /\ r.hash = Latest(d, e)
        /\ {r.parent, r.ancestor} \subseteq Beneath(Latest(d, e))
  BY <1>1, <1>3, <1>4 DEF RowRecordOK
<1>7. r.hash \in Hashes
  BY <1>2, <1>3, <1>4 DEF Hashes
<1> HIDE DEF r, old
<1>8. RecordOK(r)
  BY <1>5, <1>6, <1>7 DEF RecordOK
<1>9. r.hash # Gone => r.hash \in Beneath(Latest(d, e))
  BY <1>6, ContentOverItself DEF Beneath
<1>10. RowRecordOK(d, e, r)
  BY <1>5, <1>6, <1>7, <1>9 DEF RowRecordOK
<1> QED BY <1>8, <1>10 DEF r

LEMMA RecordObserved ==
  ASSUME HistoryInv, RowsInv, RecordsInv, NEW d \in Devices, NEW e \in Entities
  PROVE  RowRecordOK(d, e, Observed(d)[e])
<1>1. CASE e \in Changed(d)
  BY <1>1, ChangeObserved DEF Observed
<1>2. CASE e \notin Changed(d) /\ ~baselined[d] /\ dom[d][e] # NoHash /\ meta[d][e].hash # Gone
  <2> DEFINE r == BaselineRevision(dom[d][e])
  <2>1. Observed(d)[e] = r
    BY <1>2 DEF Observed
  <2>2. dom[d][e] \in Contents /\ Latest(d, e) = dom[d][e]
    BY <1>2, LatestHolds
  <2>3. dom[d][e] \in Under(dom[d][e]) /\ Contents \subseteq Nat
    BY <2>2, ContentOverItself, HistoryDomain
  <2>4. r \in Revision
    BY <2>2, <2>3 DEF BaselineRevision, Revision, Hash
  <2> QED BY <2>1, <2>2, <2>3, <2>4 DEF RowRecordOK, BaselineRevision, Beneath, Hashes
<1>3. CASE Observed(d)[e] = meta[d][e]
  BY <1>3 DEF RecordsInv
<1> QED BY <1>1, <1>2, <1>3 DEF Observed

(* What is sent after a scan that did not raise is well made.                 *)
LEMMA DeltaScanned ==
  ASSUME HistoryInv, RowsInv, RecordsInv, ResolutionsInv, NEW d \in Devices, ~ScanRaises(d)
  PROVE  DeltaOK(ScanDelta(d))
<1>1. \A e \in Changed(d) : e \in Entities /\ RecordOK(NextRevision(d, e))
  <2>1. Changed(d) \subseteq Entities
    BY DEF Changed, Rewritten, Vanished, Candidates
  <2> QED BY <2>1, ChangeObserved
<1>2. /\ \A n \in ScanDelta(d).entries : n.ent \in Entities /\ RecordOK(n.rec)
      /\ \A n, k \in ScanDelta(d).entries : n.ent = k.ent => n = k
  BY <1>1 DEF ScanDelta
<1>3. \A c \in ScanDelta(d).conflicts : c.ent \in Entities
  BY DEF ScanDelta, Reused, Candidates
<1> DEFINE f == [r \in Standing(d) |->
                   [ent |-> r.ent, heads |-> r.heads, hash |-> r.hash,
                    supersedes |-> r.supersedes, rec |-> Observed(d)[r.ent]]]
           ops == ScanDelta(d).resolutions
<1>4. IsFiniteSet(ops)
  <2>1. IsFiniteSet(Range(resolutions[d]))
    <3>1. resolutions[d] \in Surjection(1..Len(resolutions[d]), Range(resolutions[d]))
          /\ Len(resolutions[d]) \in Nat
      <4>1. resolutions[d] \in Seq(Range(resolutions[d]))
        BY DEF ResolutionsInv
      <4>2. /\ Len(resolutions[d]) \in Nat
            /\ resolutions[d] \in [1..Len(resolutions[d]) -> Range(resolutions[d])]
            /\ DOMAIN resolutions[d] = 1..Len(resolutions[d])
        BY <4>1, LenProperties
      <4> QED BY <4>2 DEF Surjection, Range
    <3>2. IsFiniteSet(1..Len(resolutions[d]))
      BY <3>1, FS_Interval
    <3> QED BY <3>1, <3>2, FS_Surjection
  <2>2. IsFiniteSet(Standing(d))
    BY <2>1, FS_Subset DEF Standing
  <2>3. f \in Surjection(Standing(d), ops)
    BY DEF Surjection, ScanDelta
  <2> QED BY <2>2, <2>3, FS_Surjection
<1>5. ASSUME NEW o \in ops PROVE OperationOK(o)
  <2>1. PICK r \in Standing(d) :
          /\ o.ent = r.ent /\ o.heads = r.heads /\ o.hash = r.hash
          /\ o.rec = Observed(d)[r.ent]
    BY DEF ScanDelta
  <2>2. DecisionOK(r) /\ o.rec.hash = r.hash
    BY <2>1 DEF ResolutionsInv, Standing
  <2>3. r.ent \in Entities
    BY <2>2, EntitiesAssumption DEF DecisionOK
  <2>4. {o.rec.parent, o.rec.ancestor} = r.heads
    BY <2>1 DEF ScanRaises
  <2>5. RowRecordOK(d, r.ent, o.rec)
    BY <2>1, <2>3, RecordObserved
  <2>6. RecordOK(o.rec)
    BY <2>2, <2>4, <2>5 DEF RecordOK, RowRecordOK, DecisionOK
  <2>7. DecisionOK(o)
    BY <2>1, <2>2 DEF DecisionOK
  <2> QED BY <2>1, <2>2, <2>6, <2>7 DEF OperationOK
<1> QED BY <1>2, <1>3, <1>4, <1>5 DEF DeltaOK

-----------------------------------------------------------------------------
(* The records of a device                                                    *)

LEMMA RecordFollows ==
  ASSUME Rises, NEW c, NEW e, NEW r, RowRecordOK(c, e, r), Follows(c, e) \/ r.hash = Gone
  PROVE  RowRecordOK(c, e, r)'
<1>1. Hashes \subseteq Hashes'
  BY DEF Rises, Hashes
<1> QED BY <1>1 DEF RowRecordOK, Follows

(* What stands on top of a row may be its record.                             *)
LEMMA RecordOnTop ==
  ASSUME HistoryInv, NEW d \in Devices, NEW e \in Entities, NEW r,
         RecordOK(r), OnTop(d, e, r.hash)
  PROVE  RowRecordOK(d, e, r)
<1>1. PICK h : h = Latest(d, e)
  OBVIOUS
<1>2. r \in Revision /\ r.hash \in Hashes
  BY DEF RecordOK
<1>3. r.hash # Gone => {r.hash, r.parent, r.ancestor} \subseteq Beneath(h)
  <2> SUFFICES ASSUME r.hash # Gone
               PROVE  {r.hash, r.parent, r.ancestor} \subseteq Beneath(h)
    OBVIOUS
  <2>1. r.hash \in Under(h)
    BY <1>1 DEF OnTop
  <2>2. Under(r.hash) \subseteq Under(h)
    BY <2>1, UnderClosed
  <2>3. {r.parent, r.ancestor} \subseteq Beneath(r.hash)
    BY DEF RecordOK
  <2> QED BY <2>1, <2>2, <2>3 DEF Beneath
<1> QED BY <1>1, <1>2, <1>3 DEF RowRecordOK

(* A resolution writes rows; the metadata wait for the command to record it.  *)
LEMMA ResolveReads ==
  ASSUME NEW d, NEW i, NEW choice, Resolve(d, i, choice) PROVE UNCHANGED metaVars
BY SMT DEF Resolve

LEMMA RecordsWritten ==
  ASSUME RecordsInv, NEW d \in Devices, NEW f \in [Entities -> Revision],
         meta' = [meta EXCEPT ![d] = f], baselined' \in [Devices -> BOOLEAN],
         counter' \in [Devices -> Nat],
         \A c \in Devices \ {d}, e \in Entities : RowRecordOK(c, e, meta[c][e])',
         \A e \in Entities : RowRecordOK(d, e, f[e])'
  PROVE  RecordsInv'
<1>1. meta' \in [Devices -> [Entities -> Revision]]
  BY DEF RecordsInv
<1>2. ASSUME NEW c \in Devices, NEW e \in Entities PROVE RowRecordOK(c, e, meta[c][e])'
  <2>1. CASE c = d
    <3>1. PICK r : r = f[e]
      OBVIOUS
    <3>2. RowRecordOK(d, e, r)' /\ meta'[d][e] = r
      BY <3>1 DEF RecordsInv
    <3> QED BY <2>1, <3>2 DEF RowRecordOK
  <2> QED BY <2>1
<1> QED BY <1>1, <1>2 DEF RecordsInv

LEMMA RecordsKept ==
  ASSUME SyncInv, EditInv, NEW d \in Devices, Acts(d)
  PROVE  RecordsInv'
<1> USE DEF EditInv
<1>1. /\ HistoryInv' /\ RowsInv' /\ Rises
      /\ \A c \in Devices, e \in Entities :
           Follows(c, e) \/ (c = d /\ meta[d][e].hash = Gone /\ Rewrites(d))
  BY RowsHold
<1>2. ASSUME NEW c \in Devices, NEW e \in Entities, NEW r, r = meta[c][e]
      PROVE  RowRecordOK(c, e, r)'
  BY <1>1, <1>2, RecordFollows DEF RecordsInv
<1>3. \A c \in Devices \ {d} : meta'[c] = meta[c]
  BY CommandElsewhere
<1>4. \A c \in Devices \ {d}, e \in Entities : RowRecordOK(c, e, meta[c][e])'
  <2> SUFFICES ASSUME NEW c \in Devices \ {d}, NEW e \in Entities
               PROVE  RowRecordOK(c, e, meta[c][e])'
    OBVIOUS
  <2>1. PICK r : r = meta[c][e]
    OBVIOUS
  <2>2. RowRecordOK(c, e, r)' /\ meta'[c][e] = r
    BY <1>2, <1>3, <2>1
  <2> QED BY <2>2 DEF RowRecordOK
<1>5. CASE UNCHANGED <<meta, baselined, counter>>
  <2>1. ASSUME NEW c \in Devices, NEW e \in Entities PROVE RowRecordOK(c, e, meta[c][e])'
    <3>1. PICK r : r = meta[c][e]
      OBVIOUS
    <3>2. RowRecordOK(c, e, r)' /\ meta'[c][e] = r
      BY <1>2, <1>5, <3>1
    <3> QED BY <3>2 DEF RowRecordOK
  <2> QED BY <1>5, <2>1 DEF RecordsInv
<1>6. CASE OpenInbox(d) \/ \E p \in Devices : Export(d, p)
  <2>1. PICK f : f = Observed(d)
    OBVIOUS
  <2>2. /\ meta' = [meta EXCEPT ![d] = f]
        /\ counter' = [counter EXCEPT ![d] = counter[d] + Cardinality(Changed(d))]
        /\ baselined' = [baselined EXCEPT ![d] = TRUE]
    BY <1>6, <2>1 DEF OpenInbox, Export, Reconcile
  <2>3. Cardinality(Changed(d)) \in Nat
    <3>1. Changed(d) \subseteq Entities
      BY DEF Changed, Rewritten, Vanished, Candidates
    <3> QED BY <3>1, FiniteEntities, FS_Subset, FS_CardinalityType
  <2>4. baselined' \in [Devices -> BOOLEAN] /\ counter' \in [Devices -> Nat]
    BY <2>2, <2>3 DEF RecordsInv
  <2>5. \A e \in Entities : Follows(d, e)
    <3>1. UNCHANGED rowVars
      BY <1>6 DEF OpenInbox, Export
    <3> QED BY <3>1, RowsKept
  <2>6. ASSUME NEW e \in Entities PROVE RowRecordOK(d, e, f[e])'
    <3>1. PICK r : r = f[e]
      OBVIOUS
    <3>2. RowRecordOK(d, e, r)
      BY <2>1, <3>1, RecordObserved
    <3>3. RowRecordOK(d, e, r)'
      BY <1>1, <2>5, <3>2, RecordFollows
    <3> QED BY <3>1, <3>3
  <2>7. f \in [Entities -> Revision]
    <3>1. \A e \in Entities : f[e] \in Revision
      BY <2>1, RecordObserved DEF RowRecordOK
    <3>2. f = [e \in Entities |-> f[e]]
      BY <2>1 DEF Observed
    <3> QED BY <3>1, <3>2
  <2> QED BY <1>4, <2>2, <2>4, <2>6, <2>7, RecordsWritten
<1>7. CASE Checkpoint(d)
  <2> DEFINE seen == Ordinary(job[d].msg)
  <2>1. PICK f : f = [e \in Entities |-> IF \E n \in seen : n.ent = e
                        THEN (CHOOSE n \in seen : n.ent = e).rec ELSE meta[d][e]]
    OBVIOUS
  <2>2. meta' = [meta EXCEPT ![d] = f] /\ UNCHANGED <<baselined, counter>>
    BY <1>7, <2>1 DEF Checkpoint
  <2>3. \A n \in seen : RecordOK(n.rec) /\ OnTop(d, n.ent, n.rec.hash)
    BY <1>7 DEF Checkpoint, CarriedInv, Carries
  <2>4. \A e \in Entities : Follows(d, e)
    <3>1. UNCHANGED rowVars
      BY <1>7 DEF Checkpoint
    <3> QED BY <3>1, RowsKept
  <2> HIDE DEF seen
  <2>5. ASSUME NEW e \in Entities PROVE RowRecordOK(d, e, f[e])
    <3>1. CASE \E n \in seen : n.ent = e
      <4>1. PICK n \in seen : n.ent = e /\ f[e] = n.rec
        BY <2>1, <3>1
      <4>2. PICK r : r = n.rec
        OBVIOUS
      <4>3. RowRecordOK(d, e, r)
        BY <2>3, <4>1, <4>2, RecordOnTop
      <4> QED BY <4>1, <4>2, <4>3
    <3>2. CASE ~ \E n \in seen : n.ent = e
      BY <2>1, <3>2 DEF RecordsInv
    <3> QED BY <3>1, <3>2
  <2>6. ASSUME NEW e \in Entities PROVE RowRecordOK(d, e, f[e])'
    <3>1. PICK r : r = f[e]
      OBVIOUS
    <3>2. RowRecordOK(d, e, r)'
      BY <1>1, <2>4, <2>5, <3>1, RecordFollows
    <3> QED BY <3>1, <3>2
  <2>7. f \in [Entities -> Revision]
    <3>1. \A e \in Entities : f[e] \in Revision
      BY <2>5 DEF RowRecordOK
    <3> QED BY <2>1, <3>1
  <2> QED BY <1>4, <2>2, <2>6, <2>7, RecordsWritten DEF RecordsInv
<1>8. CASE RecordResolution(d)
  <2>1. PICK t \in job[d].todo :
          /\ job[d].op = "recording"
          /\ meta' = [meta EXCEPT ![d] = [meta[d] EXCEPT ![t.operation.ent] = t.operation.rec]]
          /\ counter' = [counter EXCEPT ![d] =
               IF t.operation.rec.counter > counter[d] THEN t.operation.rec.counter
               ELSE counter[d]]
          /\ baselined' = baselined
    BY <1>8 DEF RecordResolution
  <2>2. PICK x, r : x = t.operation.ent /\ r = t.operation.rec
    OBVIOUS
  <2>3. PICK f : f = [meta[d] EXCEPT ![x] = r]
    OBVIOUS
  <2>4. x \in Entities /\ RecordOK(r) /\ OnTop(d, x, r.hash)
    <3>1. Carries(d, job[d])
      BY DEF CarriedInv
    <3>2. OperationOK(t.operation) /\ OnTop(d, t.operation.ent, t.operation.hash)
      BY <2>1, <3>1 DEF Carries
    <3> QED BY <2>2, <3>2, EntitiesAssumption DEF OperationOK, DecisionOK
  <2>5. RowRecordOK(d, x, r) /\ r \in Revision
    BY <2>4, RecordOnTop DEF RecordOK
  <2>6. \A e \in Entities : Follows(d, e)
    <3>1. UNCHANGED rowVars
      BY <1>8 DEF RecordResolution
    <3> QED BY <3>1, RowsKept
  <2>7. f \in [Entities -> Revision] /\ f[x] = r /\ \A e \in Entities : e # x => f[e] = meta[d][e]
    BY <2>3, <2>4, <2>5 DEF RecordsInv
  <2>8. ASSUME NEW e \in Entities PROVE RowRecordOK(d, e, f[e])'
    <3>1. PICK s : s = f[e]
      OBVIOUS
    <3>2. RowRecordOK(d, e, s)
      BY <2>5, <2>7, <3>1 DEF RecordsInv
    <3>3. RowRecordOK(d, e, s)'
      BY <1>1, <2>6, <3>2, RecordFollows
    <3> QED BY <3>1, <3>3
  <2>9. counter' \in [Devices -> Nat]
    <3>1. r.counter \in Nat
      BY <2>5 DEF Revision
    <3> QED BY <2>1, <2>2, <3>1 DEF RecordsInv
  <2>10. meta' = [meta EXCEPT ![d] = f]
    BY <2>1, <2>2, <2>3
  <2> QED BY <1>4, <2>1, <2>7, <2>8, <2>9, <2>10, RecordsWritten DEF RecordsInv
<1>9. CASE LoseMetadata(d)
  <2>1. PICK f : f = [e \in Entities |-> Unseen]
    OBVIOUS
  <2>2. /\ meta' = [meta EXCEPT ![d] = f]
        /\ baselined' = [baselined EXCEPT ![d] = FALSE]
        /\ counter' = [counter EXCEPT ![d] = 0]
    BY <1>9, <2>1 DEF LoseMetadata
  <2>3. Unseen \in Revision
    BY DEF Unseen, BaselineRevision, Revision, Hash
  <2>4. ASSUME NEW e \in Entities PROVE RowRecordOK(d, e, f[e])'
    BY <2>1, <2>3 DEF RowRecordOK, Unseen, BaselineRevision, Beneath
  <2>5. f \in [Entities -> Revision]
    BY <2>1, <2>3
  <2>6. baselined' \in [Devices -> BOOLEAN] /\ counter' \in [Devices -> Nat]
    BY <2>2 DEF RecordsInv
  <2> QED BY <1>4, <2>2, <2>4, <2>5, <2>6, RecordsWritten
<1>10. CASE \/ \E e \in Entities : Write(d, e) \/ Erase(d, e)
            \/ Send(d) \/ SendFails(d)
            \/ \E m \in sent : Receive(d, m)
            \/ ApplyRefused(d) \/ ApplyConflicts(d) \/ ApplyCommits(d) \/ Complete(d)
            \/ \E i \in DOMAIN conflicts[d] :
                 \E choice \in Offers(conflicts[d][i].type) : Resolve(d, i, choice)
            \/ Crash(d) \/ Trusts(d)
  <2>1. UNCHANGED <<meta, baselined, counter>>
    <3>1. ASSUME NEW e \in Entities, Write(d, e) \/ Erase(d, e)
          PROVE  UNCHANGED <<meta, baselined, counter>>
      BY <3>1 DEF Write, Erase, metaVars
    <3>2. ASSUME \/ Send(d) \/ SendFails(d) \/ (\E m \in sent : Receive(d, m))
                 \/ ApplyRefused(d) \/ ApplyConflicts(d) \/ ApplyCommits(d)
          PROVE  UNCHANGED <<meta, baselined, counter>>
      BY <3>2, Zenon DEF Send, SendFails, Receive, ApplyRefused, ApplyConflicts, ApplyCommits,
                         metaVars, syncVars
    <3>3. ASSUME Complete(d) \/ Crash(d) \/ Trusts(d)
          PROVE  UNCHANGED <<meta, baselined, counter>>
      BY <3>3, Zenon DEF Complete, Crash, Trusts, metaVars, syncVars
    <3> QED BY <1>10, <3>1, <3>2, <3>3, ResolveReads DEF metaVars
  <2> QED BY <1>5, <2>1
<1> QED BY <1>6, <1>7, <1>8, <1>9, <1>10, Zenon DEF Acts

-----------------------------------------------------------------------------
(* Commands, files and decisions                                              *)

LEMMA CarriesFollows ==
  ASSUME HistoryInv, Rises, NEW c \in Devices, NEW j, Carries(c, j), \A e \in Entities : Follows(c, e)
  PROVE  Carries(c, j)'
<1>1. ASSUME NEW e \in Entities, NEW h, OnTop(c, e, h) PROVE OnTop(c, e, h)'
  <2> SUFFICES ASSUME h # Gone PROVE h \in Under(Latest(c, e))'
    BY DEF OnTop
  <2>1. PICK x : x = Latest(c, e)
    OBVIOUS
  <2>2. h \in Under(x) /\ h # NoHash
    BY <1>1, <2>1, UnderIsContent DEF OnTop
  <2>3. h \in Beneath(Latest(c, e))'
    BY <2>1, <2>2 DEF Follows, Beneath
  <2> QED BY <2>2, <2>3 DEF Beneath, Gone, NoHash
<1>2. j.op = "sending" => DeltaOK(j.delta)'
  BY DeltaRises DEF Carries
<1>3. j.op = "committed" =>
        \A n \in Ordinary(j.msg) :
          n.ent \in Entities /\ RecordOK(n.rec)' /\ OnTop(c, n.ent, n.rec.hash)'
  BY <1>1, RecordRises DEF Carries
<1>4. j.op \in {"committed", "recording"} =>
        \A t \in j.todo :
          OperationOK(t.operation)' /\ OnTop(c, t.operation.ent, t.operation.hash)'
  <2>1. ASSUME NEW o, OperationOK(o) PROVE o.ent \in Entities
    BY <2>1, EntitiesAssumption DEF OperationOK, DecisionOK
  <2> QED BY <1>1, <2>1, OperationRises DEF Carries
<1> QED BY <1>2, <1>3, <1>4 DEF Carries, Ordinary

LEMMA CommandsCarry ==
  ASSUME SyncInv, EditInv, NEW d \in Devices, Acts(d)
  PROVE  CarriedInv'
<1> USE DEF EditInv
<1>1. /\ HistoryInv' /\ RowsInv' /\ Rises
      /\ \A c \in Devices, e \in Entities :
           Follows(c, e) \/ (c = d /\ meta[d][e].hash = Gone /\ Rewrites(d))
      /\ Rewrites(d) => Carries(d, job[d])'
  BY RowsHold
<1>2. ASSUME NEW c \in Devices, c # d \/ ~Rewrites(d), NEW j, Carries(c, j), job'[c] = j
      PROVE  Carries(c, job[c])'
  <2>1. Carries(c, j)'
    BY <1>1, <1>2, CarriesFollows
  <2> QED BY <1>2, <2>1 DEF Carries, Ordinary, OnTop, DeltaOK
<1>3. ASSUME NEW c \in Devices, c # d PROVE Carries(c, job[c])'
  <2>1. PICK j : j = job[c]
    OBVIOUS
  <2>2. Carries(c, j) /\ job'[c] = j
    BY <1>3, <2>1, CommandElsewhere DEF CarriedInv
  <2> QED BY <1>2, <1>3, <2>2
<1>4. Carries(d, job[d])'
  <2> SUFFICES ASSUME ~Rewrites(d) PROVE Carries(d, job[d])'
    BY <1>1
  <2> HIDE DEF EditInv
  <2>1. ASSUME NEW j, Carries(d, j), job'[d] = j PROVE Carries(d, job[d])'
    BY <1>2, <2>1
  <2>2. ASSUME job'[d].op \in {"idle", "received"} PROVE Carries(d, job[d])'
    BY <2>2 DEF Carries
  <2>3. CASE UNCHANGED job
    <3>1. PICK j : j = job[d]
      OBVIOUS
    <3> QED BY <2>1, <2>3, <3>1 DEF EditInv, CarriedInv
  <2>4. CASE \/ Send(d) \/ SendFails(d) \/ ApplyRefused(d) \/ ApplyConflicts(d) \/ Complete(d)
             \/ Crash(d)
    <3>1. job'[d] = Idle
      BY <2>4 DEF Send, SendFails, ApplyRefused, ApplyConflicts, Complete, Crash, SyncInv, JobInv
    <3> QED BY <2>2, <3>1 DEF Idle
  <2>5. ASSUME NEW m \in sent, Receive(d, m) PROVE Carries(d, job[d])'
    <3>1. job'[d].op = "received"
      BY <2>5 DEF Receive, SyncInv, JobInv
    <3> QED BY <2>2, <3>1
  <2>6. ASSUME NEW p \in Devices, Export(d, p) PROVE Carries(d, job[d])'
    <3>1. CASE ScanRaises(d)
      BY <2>3, <2>6, <3>1 DEF Export
    <3>2. CASE ~ScanRaises(d)
      <4>1. PICK delta : delta = ScanDelta(d)
        OBVIOUS
      <4>2. PICK j : j = [op |-> "sending", to |-> p, delta |-> delta]
        OBVIOUS
      <4>3. job'[d] = j
        BY <2>6, <3>2, <4>1, <4>2 DEF Export, SyncInv, JobInv
      <4>4. DeltaOK(delta)
        BY <3>2, <4>1, DeltaScanned DEF EditInv
      <4>5. Carries(d, j)
        BY <4>2, <4>4 DEF Carries
      <4> QED BY <2>1, <4>3, <4>5
    <3> QED BY <3>1, <3>2
  <2>7. ASSUME NEW m, NEW todo, NEW ent, job'[d] = Recording(m, todo, ent),
               todo \subseteq job[d].todo, job[d].op \in {"committed", "recording"}
        PROVE  Carries(d, job[d])'
    <3>1. Carries(d, Recording(m, todo, ent))
      BY <2>7 DEF EditInv, CarriedInv, Carries, Recording
    <3> QED BY <2>1, <2>7, <3>1
  <2>8. CASE Checkpoint(d) \/ RecordResolution(d)
    <3>1. CASE Checkpoint(d)
      <4>1. /\ job[d].op = "committed"
            /\ job'[d] = Recording(job[d].msg, job[d].todo, 0)
        BY <3>1 DEF Checkpoint, SyncInv, JobInv
      <4> QED BY <2>7, <4>1
    <3>2. CASE RecordResolution(d)
      <4>1. PICK t : /\ job[d].op = "recording"
                     /\ job'[d] = Recording(job[d].msg, job[d].todo \ {t}, job[d].resolving)
        BY <3>2 DEF RecordResolution, SyncInv, JobInv
      <4> QED BY <2>7, <4>1
    <3> QED BY <2>8, <3>1, <3>2
  <2>9. CASE \/ \E e \in Entities : Write(d, e) \/ Erase(d, e)
             \/ OpenInbox(d) \/ LoseMetadata(d) \/ Trusts(d)
    <3>1. UNCHANGED job
      BY <2>9 DEF Write, Erase, OpenInbox, LoseMetadata, Trusts, syncVars
    <3> QED BY <2>3, <3>1
  <2> QED BY <2>4, <2>5, <2>6, <2>8, <2>9 DEF Acts, Rewrites
<1> QED BY <1>3, <1>4 DEF CarriedInv

LEMMA FilesHold ==
  ASSUME SyncInv, EditInv, NEW d \in Devices, Acts(d)
  PROVE  SentInv'
<1>1. Rises
  BY RowsHold
<1>2. ASSUME NEW m \in sent PROVE DeltaOK(m.payload)'
  BY <1>1, DeltaRises DEF EditInv, SentInv
<1>3. CASE Send(d)
  <2>1. PICK delta : delta = job[d].delta
    OBVIOUS
  <2>2. DeltaOK(delta)'
    BY <1>1, <1>3, <2>1, DeltaRises DEF Send, EditInv, CarriedInv, Carries
  <2>3. PICK n : n.payload = delta /\ sent' = sent \cup {n}
    BY <1>3, <2>1 DEF Send, Encrypt, Sealed
  <2> QED BY <1>2, <2>2, <2>3 DEF SentInv
<1>4. CASE ~Send(d)
  <2>1. sent' = sent
    <3>1. CASE SendFails(d) \/ Trusts(d)
      BY <3>1 DEF SendFails, WasteSequence, Trusts, LoseSecret, GenerateSecret, ResetAnchor,
                  Pair, Revoke, envelopeVars
    <3>2. CASE (\E m \in sent : Receive(d, m)) \/ Complete(d)
      BY <3>2 DEF Receive, Reserve, Complete, CompleteInbound
    <3>3. CASE \E i \in DOMAIN conflicts[d] :
                 \E choice \in Offers(conflicts[d][i].type) : Resolve(d, i, choice)
      BY <3>3 DEF Resolve, Reserve
    <3>4. CASE \/ \E e \in Entities : Write(d, e) \/ Erase(d, e)
               \/ OpenInbox(d) \/ \E p \in Devices : Export(d, p)
               \/ ApplyRefused(d) \/ ApplyConflicts(d) \/ ApplyCommits(d)
               \/ Checkpoint(d) \/ RecordResolution(d) \/ Crash(d) \/ LoseMetadata(d)
      BY <3>4 DEF Write, Erase, OpenInbox, Export, ApplyRefused, ApplyConflicts, ApplyCommits,
                  Checkpoint, RecordResolution, Crash, LoseMetadata, envelopeVars
    <3> QED BY <1>4, <3>1, <3>2, <3>3, <3>4 DEF Acts
  <2> QED BY <1>2, <2>1 DEF SentInv
<1> QED BY <1>3, <1>4

LEMMA DecisionsHold ==
  ASSUME SyncInv, EditInv, NEW d \in Devices, Acts(d)
  PROVE  ResolutionsInv'
<1>1. Rises
  BY RowsHold
<1>2. ASSUME NEW c \in Devices, NEW r \in Range(resolutions[c]) PROVE DecisionOK(r)'
  BY <1>1, DecisionRises DEF EditInv, ResolutionsInv
<1>3. DOMAIN resolutions = Devices
      /\ \A c \in Devices : resolutions[c] \in Seq(Range(resolutions[c]))
  BY DEF EditInv, ResolutionsInv
<1>4. ASSUME NEW s, resolutions' = [resolutions EXCEPT ![d] = s], s \in Seq(Range(s)),
             \A r \in Range(s) : DecisionOK(r)'
      PROVE  ResolutionsInv'
  <2>1. DOMAIN resolutions' = Devices /\ resolutions'[d] = s
    BY <1>3, <1>4
  <2>2. \A c \in Devices \ {d} : resolutions'[c] = resolutions[c]
    BY <1>3, <1>4
  <2> SUFFICES ASSUME NEW c \in Devices
               PROVE  /\ resolutions'[c] \in Seq(Range(resolutions'[c]))
                      /\ \A r \in Range(resolutions'[c]) : DecisionOK(r)'
    BY <2>1 DEF ResolutionsInv
  <2>3. CASE c = d BY <1>4, <2>1, <2>3
  <2>4. CASE c # d BY <1>2, <1>3, <2>2, <2>4
  <2> QED BY <2>3, <2>4
<1>5. CASE UNCHANGED resolutions
  BY <1>2, <1>3, <1>5 DEF ResolutionsInv
<1>6. CASE RecordResolution(d)
  <2> DEFINE entry(u) == [ent |-> u.operation.ent, heads |-> u.operation.heads,
                          hash |-> u.operation.hash, supersedes |-> u.operation.supersedes,
                          origin |-> u.operation.rec.origin, retained |-> u.retained]
  <2>1. PICK t \in job[d].todo :
          /\ job[d].op = "recording"
          /\ resolutions' = [resolutions EXCEPT ![d] =
               IF Known(d, t.operation) THEN resolutions[d]
               ELSE Append(resolutions[d], entry(t))]
    BY <1>6 DEF RecordResolution
  <2>2. PICK row : row = entry(t)
    OBVIOUS
  <2>3. PICK o : o = t.operation
    OBVIOUS
  <2>4. row.ent = o.ent /\ row.heads = o.heads /\ row.hash = o.hash
    BY <2>2, <2>3
  <2> HIDE DEF entry
  <2>5. DecisionOK(row)'
    <3>1. DecisionOK(o)
      BY <2>1, <2>3 DEF EditInv, CarriedInv, Carries, OperationOK
    <3>2. DecisionOK(o)'
      BY <1>1, <3>1, DecisionRises
    <3>3. Beneath(row.hash)' = Beneath(o.hash)'
      BY <2>4 DEF Beneath, Under
    <3> QED BY <2>4, <3>2, <3>3 DEF DecisionOK
  <2>6. CASE Known(d, t.operation)
    <3>1. PICK s : s = resolutions[d]
      OBVIOUS
    <3>2. resolutions' = [resolutions EXCEPT ![d] = s] /\ s \in Seq(Range(s))
      BY <1>3, <2>1, <2>6, <3>1
    <3>3. \A r \in Range(s) : DecisionOK(r)'
      BY <1>2, <3>1
    <3> QED BY <1>4, <3>2, <3>3
  <2>7. CASE ~Known(d, t.operation)
    <3>0. resolutions' = [resolutions EXCEPT ![d] = Append(resolutions[d], row)]
      BY <2>1, <2>2, <2>7
    <3>1. PICK s : s = Append(resolutions[d], row)
      OBVIOUS
    <3>2. s \in Seq(Range(s)) /\ Range(s) = Range(resolutions[d]) \cup {row}
      BY <1>3, <3>1, RangeAppended
    <3> QED BY <1>2, <1>4, <2>5, <3>0, <3>1, <3>2
  <2> QED BY <2>6, <2>7
<1>7. CASE LoseMetadata(d)
  <2>1. resolutions' = [resolutions EXCEPT ![d] = <<>>]
    BY <1>7, Zenon DEF LoseMetadata
  <2>2. Range(<<>>) = {} /\ <<>> \in Seq({})
    BY EmptySeq DEF Range
  <2> QED BY <1>4, <2>1, <2>2
<1>8. CASE ~RecordResolution(d) /\ ~LoseMetadata(d)
  <2>1. UNCHANGED resolutions
    <3>1. ASSUME \/ \E e \in Entities : Write(d, e) \/ Erase(d, e)
                 \/ OpenInbox(d)
                 \/ \E p \in Devices : Export(d, p)
                 \/ Send(d) \/ SendFails(d)
                 \/ \E m \in sent : Receive(d, m)
          PROVE  UNCHANGED resolutions
      BY <3>1, Zenon DEF Write, Erase, OpenInbox, Export, Reconcile, Send, SendFails, Receive,
                         metaVars, syncVars
    <3>2. ASSUME \/ ApplyRefused(d) \/ ApplyConflicts(d) \/ ApplyCommits(d)
                 \/ Checkpoint(d) \/ Complete(d)
                 \/ Crash(d) \/ Trusts(d)
          PROVE  UNCHANGED resolutions
      BY <3>2, Zenon DEF ApplyRefused, ApplyConflicts, ApplyCommits, Checkpoint, Complete,
                         Crash, Trusts, metaVars, syncVars
    <3> QED BY <1>8, <3>1, <3>2, ResolveReads DEF Acts, metaVars
  <2> QED BY <1>5, <2>1
<1> QED BY <1>6, <1>7, <1>8

-----------------------------------------------------------------------------
(* Conflicts                                                                  *)

LEMMA LeastExists ==
  ASSUME NEW T, T \subseteq Nat, T # {}
  PROVE  \E x \in T : \A y \in T : x <= y
<1> DEFINE R == OpToRel(<, Nat)
<1>1. \A x, y \in Nat : y < x => <<y, x>> \in R
  BY DEF OpToRel
<1>2. IsWellFoundedOn(R, Nat)
  BY NatLessThanWellFounded
<1> HIDE DEF R
<1>3. PICK x \in T : \A y \in T : ~ (<<y, x>> \in R)
  BY <1>2, WFMin, Zenon
<1>4. \A y \in T : ~(y < x)
  BY <1>1, <1>3
<1> QED BY <1>3, <1>4

LEMMA LeastIsOne ==
  ASSUME NEW S, S # {}, \A x \in S : x.ent \in Entities
  PROVE  Least(S) \in S
<1> DEFINE T == {x.ent : x \in S}
<1>1. T \subseteq Nat /\ T # {}
  BY FiniteEntities
<1>2. PICK a \in T : \A b \in T : a <= b
  BY <1>1, LeastExists
<1>3. \E x \in S : \A y \in S : x.ent <= y.ent
  BY <1>2
<1> QED BY <1>3, Zenon DEF Least

(* The verdict's conflict, if it offers a choice, is between two contents of  *)
(* which one may be a tombstone.                                              *)
LEMMA EntryConflictOK ==
  ASSUME HistoryInv, RowsInv, NEW d \in Devices, NEW m, NEW n,
         n.ent \in Entities, RecordOK(n.rec), EntryVerdict(d, n) \notin Plans
  PROVE  ConflictOK(EntryConflict(d, m, n))
<1> DEFINE code == EntryVerdict(d, n)
           row == dom[d][n.ent]
           c == EntryConflict(d, m, n)
<1>1. /\ row \in Contents \cup {NoHash} /\ n.rec.hash \in Hashes
      /\ NoHash \notin Contents /\ Gone \in Hashes /\ Contents \subseteq Hashes /\ Gone # NoHash
  BY LatestHolds, HistoryDomain DEF RecordOK, Hashes, Gone, NoHash
<1>2. /\ code \in {"TOMBSTONE_CONFLICT", "CONCURRENT_DELETE_MUTATION",
                   "REMOTE_ANCESTRY_UNKNOWN", "IDENTITY_PAYLOAD_CONFLICT",
                   "CONCURRENT_MUTATION"}
      /\ code \in {"TOMBSTONE_CONFLICT", "CONCURRENT_MUTATION"} => row # NoHash
  BY DEF EntryVerdict, Plans
<1>3. /\ {"ent", "type", "open", "lhash", "rhash", "artifact"} \subseteq DOMAIN c
      /\ c.ent = n.ent /\ c.open = TRUE /\ c.rhash = n.rec.hash
      /\ c.type = IF code = "CONCURRENT_DELETE_MUTATION" THEN "TOMBSTONE_CONFLICT" ELSE code
      /\ code = "CONCURRENT_DELETE_MUTATION" => c.lhash = Gone
      /\ code \in {"TOMBSTONE_CONFLICT", "CONCURRENT_MUTATION"} => c.lhash = row
  BY <1>1, <1>2 DEF EntryConflict, ConflictRow
<1> HIDE DEF code, row, c
<1>4. c.type \in ConflictTypes
  BY <1>2, <1>3 DEF ConflictTypes
<1>5. Offers(c.type) # {} => {c.lhash, c.rhash} \subseteq Hashes
  BY <1>1, <1>2, <1>3 DEF Offers
<1> QED BY <1>3, <1>4, <1>5 DEF ConflictOK, c

LEMMA OperationConflictOK ==
  ASSUME HistoryInv, ResolutionsInv, NEW d \in Devices, NEW m, NEW o, OperationOK(o),
         OperationVerdict(d, m.from, o) = "RESOLUTION_CONFLICT"
  PROVE  ConflictOK(OperationConflict(d, m, o))
<1>1. PICK id : id = Sibling(d, o)
  OBVIOUS
<1>2. Siblings(d, o) # {}
  BY DEF OperationVerdict
<1>3. PICK r \in Range(resolutions[d]) : id = ResolutionId(r)
  <2>1. id \in Siblings(d, o)
    BY <1>1, <1>2 DEF Sibling
  <2> QED BY <2>1 DEF Siblings
<1>4. id.hash \in Hashes /\ o.hash \in Hashes /\ o.ent \in Entities /\ NoHash \notin Hashes
  BY <1>3, EntitiesAssumption, HistoryDomain
     DEF ResolutionsInv, DecisionOK, OperationOK, ResolutionId, Hashes, Gone, NoHash
<1>5. PICK c : c = OperationConflict(d, m, o)
  OBVIOUS
<1>6. /\ {"ent", "type", "open", "lhash", "rhash", "artifact"} \subseteq DOMAIN c
      /\ c.ent = o.ent /\ c.open = TRUE /\ c.type = "RESOLUTION_CONFLICT"
      /\ c.lhash = id.hash /\ c.rhash = o.hash
  BY <1>1, <1>4, <1>5 DEF OperationConflict, ConflictRow
<1> QED BY <1>4, <1>5, <1>6 DEF ConflictOK, ConflictTypes

LEMMA VerdictConflictOK ==
  ASSUME HistoryInv, RowsInv, ResolutionsInv, NEW d \in Devices, NEW m, DeltaOK(m.payload),
         ApplyVerdict(d, m).kind = "conflict"
  PROVE  ConflictOK(ApplyVerdict(d, m).row)
<1> DEFINE ops == m.payload.resolutions
           decided == {o.ent : o \in ops}
           bad == {o \in ops : OperationVerdict(d, m.from, o) \notin {"known", "accepted"}}
           reused == {c \in m.payload.conflicts : c.ent \notin decided}
           clash == {n \in m.payload.entries : n.ent \notin decided
                                               /\ EntryVerdict(d, n) \notin Plans}
<1>1. PICK o, c, n : o = Least(bad) /\ c = Least(reused) /\ n = Least(clash)
  OBVIOUS
<1>2. ApplyVerdict(d, m) \notin {Refusal, Committing}
  BY DEF Refusal, Committing
<1>3. \/ /\ bad # {} /\ OperationVerdict(d, m.from, o) = "RESOLUTION_CONFLICT"
         /\ ApplyVerdict(d, m) = Raising(OperationConflict(d, m, o))
      \/ /\ reused # {}
         /\ ApplyVerdict(d, m) = Raising(ConflictRow(d, m, c.ent, "TOMBSTONE_ID_REUSE",
                                                     c.lhash, c.rhash, NoRev, NoRev))
      \/ /\ clash # {}
         /\ ApplyVerdict(d, m) = Raising(EntryConflict(d, m, n))
  BY <1>1, <1>2, Zenon DEF ApplyVerdict
<1>4. ASSUME bad # {}, OperationVerdict(d, m.from, o) = "RESOLUTION_CONFLICT"
      PROVE  ConflictOK(OperationConflict(d, m, o))
  <2>1. \A x \in bad : OperationOK(x) /\ x.ent \in Entities
    BY EntitiesAssumption DEF DeltaOK, OperationOK, DecisionOK
  <2>2. o \in bad
    BY <1>1, <1>4, <2>1, LeastIsOne
  <2> QED BY <1>4, <2>1, <2>2, OperationConflictOK
<1>5. ASSUME reused # {}
      PROVE  ConflictOK(ConflictRow(d, m, c.ent, "TOMBSTONE_ID_REUSE",
                                    c.lhash, c.rhash, NoRev, NoRev))
  <2>1. \A x \in reused : x.ent \in Entities
    BY DEF DeltaOK
  <2>2. c \in reused
    BY <1>1, <1>5, <2>1, LeastIsOne
  <2> QED BY <2>1, <2>2 DEF ConflictRow, ConflictOK, ConflictTypes, Offers
<1>6. ASSUME clash # {} PROVE ConflictOK(EntryConflict(d, m, n))
  <2>1. \A x \in clash : x.ent \in Entities /\ RecordOK(x.rec)
    BY DEF DeltaOK
  <2>2. n \in clash
    BY <1>1, <1>6, <2>1, LeastIsOne
  <2> QED BY <2>1, <2>2, EntryConflictOK
<1> HIDE DEF bad, reused, clash
<1>7. \E r : ApplyVerdict(d, m) = Raising(r) /\ ConflictOK(r)
  BY <1>3, <1>4, <1>5, <1>6
<1> QED BY <1>7 DEF Raising

LEMMA ConflictReplaced ==
  ASSUME NEW c, ConflictOK(c), NEW a
  PROVE  /\ ConflictOK([c EXCEPT !.artifact = a])
         /\ ConflictOK([c EXCEPT !.open = FALSE, !.artifact = a])
<1>1. ASSUME NEW x, ConflictOK(x) PROVE ConflictOK([x EXCEPT !.artifact = a])
  BY <1>1 DEF ConflictOK
<1>2. ConflictOK([c EXCEPT !.open = FALSE])
  BY DEF ConflictOK
<1>3. [c EXCEPT !.open = FALSE, !.artifact = a] = [[c EXCEPT !.open = FALSE] EXCEPT !.artifact = a]
  OBVIOUS
<1> QED BY <1>1, <1>2, <1>3, Zenon

LEMMA ChoicesHold ==
  ASSUME SyncInv, EditInv, NEW d \in Devices, Acts(d)
  PROVE  ConflictsInv'
<1> USE DEF EditInv
<1>1. Rises /\ HistoryInv
  BY RowsHold
<1>2. /\ DOMAIN conflicts = Devices
      /\ \A c \in Devices : conflicts[c] \in Seq(Range(conflicts[c]))
      /\ \A c \in Devices : \A i \in DOMAIN conflicts[c] : ConflictOK(conflicts[c][i])
  BY DEF SyncInv, ArtifactInv, ConflictsInv, Range
<1>3. ASSUME NEW s, conflicts' = [conflicts EXCEPT ![d] = s],
             \A x \in Range(s) : ConflictOK(x)
      PROVE  ConflictsInv'
  <2> SUFFICES ASSUME NEW c \in Devices, NEW x \in Range(conflicts'[c])
               PROVE  ConflictOK(x)'
    BY DEF ConflictsInv
  <2>1. ConflictOK(x)
    <3>1. CASE c = d
      BY <1>2, <1>3, <3>1
    <3>2. CASE c # d
      <4>1. conflicts'[c] = conflicts[c]
        BY <1>2, <1>3, <3>2
      <4> QED BY <4>1 DEF ConflictsInv
    <3> QED BY <3>1, <3>2
  <2>2. ConflictOK(x)'
    BY <1>1, <2>1, ConflictRises
  <2> QED BY <2>2
<1>4. CASE ApplyConflicts(d)
  <2>1. PICK v : v = ApplyVerdict(d, job[d].msg).row
    OBVIOUS
  <2>2. ConflictOK(v) /\ RecordConflict(d, v)
    <3>1. job[d].op = "received" /\ ApplyVerdict(d, job[d].msg).kind = "conflict"
          /\ RecordConflict(d, v)
      BY <1>4, <2>1 DEF ApplyConflicts
    <3>2. DeltaOK(job[d].msg.payload)
      BY <3>1 DEF SyncInv, JobInv, JobOK, Answering, SentInv
    <3> QED BY <2>1, <3>1, <3>2, VerdictConflictOK
  <2> DEFINE q == conflicts[d]
             f == [i \in DOMAIN q |-> IF SameConflict(q[i], v)
                                      THEN [q[i] EXCEPT !.artifact = v.artifact] ELSE q[i]]
  <2>3. CASE \E c \in Range(q) : SameConflict(c, v)
    <3>1. conflicts' = [conflicts EXCEPT ![d] = f]
      BY <2>2, <2>3 DEF RecordConflict
    <3>2. \A i \in DOMAIN q : ConflictOK([q[i] EXCEPT !.artifact = v.artifact])
      BY <1>2, ConflictReplaced
    <3>3. \A x \in Range(f) : ConflictOK(x)
      BY <1>2, <3>2 DEF Range
    <3> HIDE DEF f
    <3> QED BY <1>3, <3>1, <3>3
  <2>4. CASE ~ \E c \in Range(q) : SameConflict(c, v)
    <3>1. conflicts' = [conflicts EXCEPT ![d] = Append(q, v)]
      BY <2>2, <2>4 DEF RecordConflict
    <3>2. \A x \in Range(Append(q, v)) : ConflictOK(x)
      BY <1>2, <2>2, RangeAppended DEF ConflictsInv
    <3> QED BY <1>3, <3>1, <3>2
  <2> QED BY <2>3, <2>4
<1>5. CASE RecordResolution(d)
  <2> DEFINE q == conflicts[d]
             closed(i) == [q[i] EXCEPT !.open = FALSE, !.artifact = 0]
  <2>1. PICK k : conflicts' = [conflicts EXCEPT ![d] = [q EXCEPT ![k] = closed(k)]]
    BY <1>5 DEF RecordResolution
  <2>2. \A i \in DOMAIN q : ConflictOK(closed(i))
    BY <1>2, ConflictReplaced
  <2> HIDE DEF closed
  <2>3. \A x \in Range([q EXCEPT ![k] = closed(k)]) : ConflictOK(x)
    BY <1>2, <2>2 DEF Range
  <2> QED BY <1>3, <2>1, <2>3
<1>6. CASE LoseMetadata(d)
  <2>1. conflicts' = [conflicts EXCEPT ![d] = <<>>]
    BY <1>6, Zenon DEF LoseMetadata
  <2>2. Range(<<>>) = {}
    BY DEF Range
  <2> QED BY <1>3, <2>1, <2>2
<1>7. CASE UNCHANGED conflicts
  <2>1. ASSUME NEW c \in Devices, NEW x \in Range(conflicts[c]) PROVE ConflictOK(x)'
    BY <1>1, ConflictRises DEF ConflictsInv
  <2> QED BY <1>7, <2>1 DEF ConflictsInv
<1>8. CASE \/ \E e \in Entities : Write(d, e) \/ Erase(d, e)
           \/ OpenInbox(d)
           \/ \E p \in Devices : Export(d, p)
           \/ Send(d) \/ SendFails(d)
           \/ \E m \in sent : Receive(d, m)
           \/ ApplyRefused(d) \/ ApplyCommits(d) \/ Checkpoint(d) \/ Complete(d)
           \/ \E i \in DOMAIN conflicts[d] :
                \E choice \in Offers(conflicts[d][i].type) : Resolve(d, i, choice)
           \/ Crash(d) \/ Trusts(d)
  <2>1. UNCHANGED conflicts
    <3>1. ASSUME \/ \E e \in Entities : Write(d, e) \/ Erase(d, e)
                 \/ OpenInbox(d)
                 \/ \E p \in Devices : Export(d, p)
                 \/ Send(d) \/ SendFails(d)
                 \/ \E m \in sent : Receive(d, m)
          PROVE  UNCHANGED conflicts
      BY <3>1, Zenon DEF Write, Erase, OpenInbox, Export, Reconcile, Send, SendFails, Receive,
                         metaVars, syncVars
    <3>2. ASSUME \/ ApplyRefused(d) \/ ApplyCommits(d) \/ Checkpoint(d) \/ Complete(d)
                 \/ Crash(d) \/ Trusts(d)
          PROVE  UNCHANGED conflicts
      BY <3>2, Zenon DEF ApplyRefused, ApplyCommits, Checkpoint, Complete, Crash,
                         Trusts, metaVars, syncVars
    <3> QED BY <1>8, <3>1, <3>2, ResolveReads DEF metaVars
  <2> QED BY <1>7, <2>1
<1> QED BY <1>4, <1>5, <1>6, <1>8 DEF Acts

-----------------------------------------------------------------------------
LEMMA EditsFirst == Init => EditInv
<1> SUFFICES ASSUME Init PROVE EditInv
  OBVIOUS
<1>1. past = [h \in Entities |-> {}] /\ Cardinality(Entities) \in Nat
      /\ Entities = 1..Cardinality(Entities)
  BY EntitiesAssumption, FS_CardinalityType DEF Init
<1>2. Contents = Entities
  BY <1>1 DEF Contents
<1>3. HistoryInv
  <2>1. past \in [1..Cardinality(Entities) -> SUBSET Contents]
    BY <1>1
  <2>2. past \in Seq(SUBSET Contents)
    BY <1>1, <2>1
  <2> QED BY <1>1, <1>2, <2>2 DEF HistoryInv
<1>4. RowsInv
  BY <1>2, EntitiesAssumption DEF Init, RowsInv
<1>5. RecordsInv
  <2>1. meta = [d \in Devices |-> [e \in Entities |-> BaselineRevision(dom[d][e])]]
    BY DEF Init
  <2>2. ASSUME NEW d \in Devices, NEW e \in Entities
        PROVE  RowRecordOK(d, e, meta[d][e])
    <3>1. PICK h : h = dom[d][e]
      OBVIOUS
    <3>2. meta[d][e] = BaselineRevision(h)
      BY <2>1, <3>1
    <3>3. h \in Contents \cup {NoHash} /\ (h # NoHash => Latest(d, e) = h)
      BY <1>3, <1>4, <3>1, LatestHolds
    <3>4. Contents \subseteq Nat
      BY <1>3, HistoryDomain
    <3>5. h # NoHash => h \in Under(h)
      BY <3>3, ContentOverItself
    <3>6. BaselineRevision(h) \in Revision
      BY <3>3, <3>4 DEF BaselineRevision, Revision, Hash
    <3> QED BY <3>2, <3>3, <3>5, <3>6 DEF RowRecordOK, BaselineRevision, Beneath, Hashes
  <2>3. meta \in [Devices -> [Entities -> Revision]]
    BY <2>1, <2>2 DEF RowRecordOK
  <2> QED BY <2>2, <2>3 DEF RecordsInv, Init
<1>6. CarriedInv
  BY DEF Init, CarriedInv, Carries, Idle
<1>7. SentInv
  BY DEF Init, EnvelopeInit, SentInv
<1>8. ResolutionsInv /\ ConflictsInv
  <2>1. Range(<<>>) = {} /\ <<>> \in Seq({})
    BY EmptySeq DEF Range
  <2>2. \A d \in Devices : conflicts[d] = <<>> /\ resolutions[d] = <<>>
    BY DEF Init
  <2>3. DOMAIN resolutions = Devices
    BY DEF Init
  <2> QED BY <2>1, <2>2, <2>3 DEF ResolutionsInv, ConflictsInv
<1> QED BY <1>3, <1>4, <1>5, <1>6, <1>7, <1>8 DEF EditInv

LEMMA EditsHold ==
  ASSUME SyncInv, EditInv, [Next]_vars
  PROVE  EditInv'
<1>1. CASE UNCHANGED vars
  <2> USE DEF EditInv
  <2>1. /\ sent' = sent /\ UNCHANGED rowVars /\ job' = job /\ conflicts' = conflicts
        /\ resolutions' = resolutions /\ meta' = meta /\ baselined' = baselined
        /\ counter' = counter
    BY <1>1 DEF vars, syncVars, envelopeVars, metaVars
  <2>2. /\ HistoryInv' /\ RowsInv' /\ Rises
        /\ \A c \in Devices, e \in Entities : Follows(c, e)
    BY <2>1, RowsKept
  <2>3. RecordsInv'
    <3>1. ASSUME NEW c \in Devices, NEW e \in Entities PROVE RowRecordOK(c, e, meta[c][e])'
      <4>1. PICK r : r = meta[c][e]
        OBVIOUS
      <4>2. RowRecordOK(c, e, r)' /\ meta'[c][e] = r
        BY <2>1, <2>2, <4>1, RecordFollows DEF RecordsInv
      <4> QED BY <4>2 DEF RowRecordOK
    <3> QED BY <2>1, <3>1 DEF RecordsInv
  <2>4. CarriedInv'
    <3>1. ASSUME NEW c \in Devices PROVE Carries(c, job[c])'
      <4>1. PICK j : j = job[c]
        OBVIOUS
      <4>2. Carries(c, j)' /\ job'[c] = j
        BY <2>1, <2>2, <4>1, CarriesFollows DEF CarriedInv
      <4> QED BY <4>2 DEF Carries, Ordinary, OnTop, DeltaOK
    <3> QED BY <3>1 DEF CarriedInv
  <2>5. SentInv'
    <3>1. \A m \in sent : DeltaOK(m.payload)'
      BY <2>2, DeltaRises DEF SentInv
    <3> QED BY <2>1, <3>1 DEF SentInv
  <2>6. ResolutionsInv'
    <3>1. \A c \in Devices : \A r \in Range(resolutions[c]) : DecisionOK(r)'
      BY <2>2, DecisionRises DEF ResolutionsInv
    <3> QED BY <2>1, <3>1 DEF ResolutionsInv
  <2>7. ConflictsInv'
    <3>1. \A c \in Devices : \A x \in Range(conflicts[c]) : ConflictOK(x)'
      BY <2>2, ConflictRises DEF ConflictsInv
    <3> QED BY <2>1, <3>1 DEF ConflictsInv
  <2> QED BY <2>2, <2>3, <2>4, <2>5, <2>6, <2>7
<1>2. ASSUME NEW d \in Devices, Acts(d) PROVE EditInv'
  BY <1>2, RowsHold, RecordsKept, CommandsCarry, FilesHold, DecisionsHold, ChoicesHold
     DEF EditInv
<1> QED BY <1>1, <1>2, NextActs

LEMMA EditInvariant == Spec => [](SyncInv /\ EditInv)
<1>1. Init => EditInv
  BY EditsFirst
<1>2. SyncInv /\ EditInv /\ [Next]_vars => EditInv'
  BY EditsHold
<1> QED BY <1>1, <1>2, SyncInvariant, PTL DEF Spec

(* The types of the synchronisation's state, for every number of edits,       *)
(* envelopes and crashes: in particular a decision is between two contents of *)
(* a mutable entity.                                                          *)
THEOREM SyncTypes == Spec => []TypeOK
<1>1. SyncInv /\ EditInv => TypeOK
  <2> SUFFICES ASSUME SyncInv, EditInv PROVE TypeOK
    OBVIOUS
  <2> USE DEF SyncInv, EditInv
  <2>1. EnvelopeTypeOK
    BY DEF EnvelopeInv
  <2>2. dom \in [Devices -> [Entities -> Hash \ {Gone}]]
    <3>1. Contents \cup {NoHash} \subseteq Hash \ {Gone}
      BY HistoryDomain DEF Hash, Gone, NoHash
    <3>2. dom \in [Devices -> [Entities -> Contents \cup {NoHash}]]
      BY DEF RowsInv
    <3> QED BY <3>1, <3>2
  <2>3. ASSUME NEW d \in Devices, NEW i \in DOMAIN conflicts[d]
        PROVE  /\ conflicts[d][i].ent \in Entities
               /\ conflicts[d][i].type \in ConflictTypes
               /\ conflicts[d][i].open \in BOOLEAN
    BY DEF ConflictsInv, ConflictOK, Range
  <2>4. ASSUME NEW d \in Devices, NEW i \in DOMAIN resolutions[d]
        PROVE  /\ Cardinality(resolutions[d][i].heads) = 2
               /\ resolutions[d][i].ent \in Mutable
    BY DEF ResolutionsInv, DecisionOK, Range
  <2>5. ASSUME NEW d \in Devices
        PROVE  /\ job[d].op \in {"idle", "sending", "received", "committed", "recording"}
               /\ completed[d] \subseteq {m.id : m \in sent}
    BY DEF JobInv, JobOK, Answering, CompletedInv
  <2> QED BY <2>1, <2>2, <2>3, <2>4, <2>5 DEF TypeOK, RecordsInv
<1> QED BY <1>1, EditInvariant, PTL

-----------------------------------------------------------------------------
(* A row that a delta replaces had been under the delta's content before.     *)
LEMMA RowReplaced ==
  ASSUME HistoryInv, RowsInv, NEW d \in Devices, NEW e \in Entities,
         DeltaOK(job[d].msg.payload), ApplyCommits(d), meta[d][e].hash # Gone,
         dom[d][e] \notin {dom'[d][e], NoHash}
  PROVE  dom[d][e] \in past[dom'[d][e]]
<1> DEFINE m == job[d].msg
           writes == {n \in Ordinary(m) : EntryVerdict(d, n) \in {"insert", "update"}}
           decides == {o \in Accepted(d, m) : o.hash # Gone}
<1>1. ApplyVerdict(d, m) = Committing
  BY DEF ApplyCommits
<1>2. dom'[d][e] = IF \E n \in writes : n.ent = e
                   THEN (CHOOSE n \in writes : n.ent = e).rec.hash
                   ELSE IF \E o \in decides : o.ent = e
                   THEN (CHOOSE o \in decides : o.ent = e).hash
                   ELSE dom[d][e]
  BY DEF ApplyCommits, RowsInv
<1>3. PICK x : x = dom[d][e]
  OBVIOUS
<1>4. x \in Contents /\ x # NoHash /\ x # Gone
  BY <1>3, LatestHolds, HistoryDomain
<1>5. ASSUME NEW h \in Contents, x \in Beneath(h), x # h PROVE x \in past[h]
  BY <1>4, <1>5 DEF Beneath, Under
<1>6. CASE \E n \in writes : n.ent = e
  <2>1. PICK n \in writes : n.ent = e /\ dom'[d][e] = n.rec.hash
    BY <1>2, <1>6
  <2>2. EntryVerdict(d, n) = "update"
    BY <1>3, <1>4, <2>1 DEF EntryVerdict
  <2>3. n.rec.hash # Gone /\ x \in {n.rec.parent, n.rec.ancestor}
    BY <1>3, <2>1, <2>2 DEF EntryVerdict
  <2>4. RecordOK(n.rec)
    BY <2>1 DEF Ordinary, DeltaOK
  <2>5. n.rec.hash \in Contents /\ x \in Beneath(n.rec.hash)
    BY <2>3, <2>4 DEF RecordOK, Hashes
  <2> QED BY <1>3, <1>5, <2>1, <2>5
<1>7. CASE ~(\E n \in writes : n.ent = e) /\ \E o \in decides : o.ent = e
  <2>1. PICK o \in decides : o.ent = e /\ dom'[d][e] = o.hash
    BY <1>2, <1>7
  <2>2. x \in o.heads
    <3>1. Effective(d, e) \in o.heads \cup {o.hash}
      BY <1>1, <2>1, CommittedDelta
    <3> QED BY <1>3, <2>1, <3>1 DEF Effective
  <2>3. DecisionOK(o) /\ o.hash # Gone
    BY <2>1 DEF Accepted, DeltaOK, OperationOK
  <2>4. o.hash \in Contents /\ x \in Beneath(o.hash)
    BY <2>2, <2>3 DEF DecisionOK, Hashes
  <2> QED BY <1>3, <1>5, <2>1, <2>4
<1> QED BY <1>2, <1>6, <1>7

LEMMA ReplacedStep ==
  ASSUME SyncInv, EditInv, [Next]_vars, NEW d \in Devices, NEW e \in Entities,
         Replaces(d, e), meta[d][e].hash # Gone
  PROVE  dom[d][e] \in past[dom'[d][e]]
<1>1. ~ UNCHANGED vars
  BY DEF Replaces, vars, syncVars
<1>2. PICK a \in Devices : Acts(a)
  BY <1>1, NextActs
<1>3. a = d
  BY <1>2, CommandElsewhere DEF Replaces
<1>4. DOMAIN job = Devices
  BY DEF SyncInv, JobInv
<1>5. ApplyCommits(d)
  <2> SUFFICES ASSUME ~ApplyCommits(d) PROVE FALSE
    OBVIOUS
  <2>1. job[d].op = "received" /\ job'[d].op = "committed"
    BY DEF Replaces
  <2>2. \/ \E x \in Entities : Write(d, x) \/ Erase(d, x)
        \/ ApplyRefused(d) \/ ApplyConflicts(d) \/ Crash(d)
    <3>1. job[d].op \notin {"sending", "committed", "recording"} /\ job[d] # Idle
      BY <2>1 DEF Idle
    <3>2. /\ ~OpenInbox(d) /\ ~LoseMetadata(d) /\ ~Trusts(d)
          /\ \A p \in Devices : ~Export(d, p)
          /\ \A m \in sent : ~Receive(d, m)
          /\ \A i, choice : ~Resolve(d, i, choice)
      BY <3>1, Zenon DEF OpenInbox, LoseMetadata, Trusts, Export, Receive, Resolve
    <3>3. ~Send(d) /\ ~SendFails(d) /\ ~Checkpoint(d) /\ ~RecordResolution(d) /\ ~Complete(d)
      BY <3>1, Zenon DEF Send, SendFails, Checkpoint, RecordResolution, Complete
    <3> QED BY <1>2, <1>3, <3>2, <3>3, Zenon DEF Acts
  <2>3. job'[d].op \in {"received", "idle"}
    <3>1. CASE \E x \in Entities : Write(d, x) \/ Erase(d, x)
      BY <2>1, <3>1 DEF Write, Erase
    <3>2. CASE ApplyRefused(d) \/ ApplyConflicts(d) \/ Crash(d)
      <4>1. job' = [job EXCEPT ![d] = Idle]
        BY <3>2, Zenon DEF ApplyRefused, ApplyConflicts, Crash
      <4> QED BY <1>4, <4>1 DEF Idle
    <3> QED BY <2>2, <3>1, <3>2
  <2> QED BY <2>1, <2>3
<1>6. DeltaOK(job[d].msg.payload)
  BY DEF Replaces, SyncInv, JobInv, JobOK, Answering, EditInv, SentInv
<1> QED BY <1>5, <1>6, RowReplaced DEF Replaces, EditInv

(* No edit is overwritten in silence: a row that a delta replaces had been    *)
(* seen by whoever wrote what takes its place, however many edits, deletions  *)
(* and decisions went before and however late the envelope is.                *)
THEOREM NoEditOverwritten == Spec => NoSilentOverwrite
<1>1. SyncInv /\ EditInv /\ [Next]_vars =>
        [\A d \in Devices, e \in Entities :
           Replaces(d, e) /\ meta[d][e].hash # Gone
             => dom[d][e] \in past[dom'[d][e]]]_vars
  BY ReplacedStep
<1> QED BY <1>1, EditInvariant, PTL DEF Spec, NoSilentOverwrite

-----------------------------------------------------------------------------
(* Devices that never met a conflict                                          *)

(* As long as no conflict was recorded and no change left unsent, no device   *)
(* has decided anything or lost its records.                                  *)
Undisputed == ~dropped /\ \A d \in Devices : conflicts[d] = <<>>

(* Content y may take the place of x.                                         *)
Yields(x, y) == y = Gone \/ x \in Under(y)

(* The records of d are at what the delta reports, or further on.             *)
Passed(d, delta) == \A n \in delta.entries : Yields(n.rec.hash, meta[d][n.ent].hash)

(* A command that is writing what it received is on its way there.            *)
CommandReports(d, j) ==
  /\ j.op = "sending" => j.to # d /\ j.delta.resolutions = {} /\ Passed(d, j.delta)
  /\ j.op \in {"committed", "recording"} => j.todo = {}
  /\ j.op = "committed" =>
       \A n \in j.msg.payload.entries :
         meta[d][n.ent].hash = NoHash \/ Yields(meta[d][n.ent].hash, n.rec.hash)
  /\ j.op = "recording" => Passed(d, j.msg.payload)

FileReports(m) ==
  /\ m.from # m.to /\ m.payload.resolutions = {}
  /\ Passed(m.from, m.payload)
  /\ m.id \in completed[m.to] => Passed(m.to, m.payload)

Reports(delta, e, h) == \E n \in delta.entries : n.ent = e /\ n.rec.hash = h
Reported(e, h) ==
  \/ \E m \in sent : Reports(m.payload, e, h)
  \/ \E d \in Devices : job[d].op = "sending" /\ Reports(job[d].delta, e, h)

(* A record is the one both devices began with, or one that was reported.     *)
Begun(e) == IF e \in Original THEN e ELSE NoHash
RecordReports(d, e) ==
  /\ meta[d][e].hash = Begun(e) \/ Reported(e, meta[d][e].hash)
  /\ e \in Original => Yields(e, meta[d][e].hash)

ReportInv ==
  Undisputed =>
    /\ \A d \in Devices :
         /\ baselined[d] /\ resolutions[d] = <<>>
         /\ CommandReports(d, job[d])
         /\ \A e \in Entities : RecordReports(d, e)
    /\ \A m \in sent : FileReports(m)

LEMMA YieldsRises ==
  ASSUME Rises, NEW x, NEW y, Yields(x, y) PROVE Yields(x, y)'
  BY UnderRises DEF Yields

LEMMA YieldsThrough ==
  ASSUME HistoryInv, NEW x, NEW y, NEW z, Yields(x, y), Yields(y, z) PROVE Yields(x, z)
<1>1. Gone \notin Under(z)
  BY UnderIsContent, HistoryDomain
<1>2. CASE y = Gone
  BY <1>1, <1>2 DEF Yields
<1>3. CASE x \in Under(y) /\ y \in Under(z)
  BY <1>3, UnderClosed DEF Yields
<1> QED BY <1>2, <1>3 DEF Yields

LEMMA YieldsItself ==
  ASSUME NEW x \in Hashes PROVE Yields(x, x)
  BY ContentOverItself DEF Yields, Hashes

LEMMA NoneInRange == Range(<<>>) = {} /\ DOMAIN <<>> = {}
  BY DEF Range

(* A conflict that was recorded stays in the table, open or not.              *)
LEMMA UndisputedBefore ==
  ASSUME SyncInv, NEW d \in Devices, Acts(d), Undisputed' PROVE Undisputed
<1> USE DEF SyncInv, ArtifactInv
<1>1. ~dropped' /\ \A c \in Devices : conflicts'[c] = <<>>
  BY DEF Undisputed
<1>2. CASE \E e \in Entities : Write(d, e) \/ Erase(d, e)
  BY <1>1, <1>2 DEF Write, Erase, metaVars, Undisputed
<1>3. ~OpenInbox(d) /\ ~LoseMetadata(d)
  BY <1>1, Zenon DEF OpenInbox, LoseMetadata
<1>4. ASSUME NEW p \in Devices, Export(d, p) PROVE Undisputed
  <2>1. conflicts' = conflicts
    BY <1>4 DEF Export, Reconcile
  <2>2. ~dropped
    BY <1>1, <1>4, Zenon DEF Export
  <2> QED BY <1>1, <2>1, <2>2 DEF Undisputed
<1>5. CASE Send(d) \/ SendFails(d)
  <2>1. conflicts' = conflicts
    BY <1>5 DEF Send, SendFails, metaVars
  <2>2. ~dropped
    BY <1>1, <1>5, Zenon DEF Send, SendFails
  <2> QED BY <1>1, <2>1, <2>2 DEF Undisputed
<1>6. CASE (\E m \in sent : Receive(d, m)) \/ ApplyRefused(d) \/ ApplyCommits(d)
  BY <1>1, <1>6 DEF Receive, ApplyRefused, ApplyCommits, metaVars, Undisputed
<1>7. ~ApplyConflicts(d)
  <2> SUFFICES ASSUME ApplyConflicts(d) PROVE FALSE
    OBVIOUS
  <2>1. PICK r : RecordConflict(d, r)
    BY DEF ApplyConflicts
  <2>2. PICK s : s = conflicts[d]
    OBVIOUS
  <2>3. s \in Seq(Range(s))
    BY <2>2
  <2>4. conflicts'[d] = IF \E c \in Range(s) : SameConflict(c, r)
          THEN [i \in DOMAIN s |-> IF SameConflict(s[i], r)
                  THEN [s[i] EXCEPT !.artifact = r.artifact] ELSE s[i]]
          ELSE Append(s, r)
    BY <2>1, <2>2 DEF RecordConflict
  <2>5. CASE \E c \in Range(s) : SameConflict(c, r)
    <3>1. DOMAIN conflicts'[d] = DOMAIN s
      BY <2>4, <2>5
    <3>2. DOMAIN s # {}
      BY <2>5 DEF Range
    <3> QED BY <1>1, <3>1, <3>2, NoneInRange
  <2>6. CASE ~ \E c \in Range(s) : SameConflict(c, r)
    <3>1. conflicts'[d] = Append(s, r)
      BY <2>4, <2>6
    <3>2. s \in Seq(Range(s) \cup {r})
      BY <2>3, SeqMonotonic
    <3>3. Append(s, r) # <<>>
      BY <3>2, AppendProperties
    <3> QED BY <1>1, <3>1, <3>3
  <2> QED BY <2>5, <2>6
<1>8. CASE Checkpoint(d) \/ Crash(d)
  BY <1>1, <1>8 DEF Checkpoint, Crash, metaVars, Undisputed
<1>9. CASE RecordResolution(d)
  <2>1. PICK k : conflicts' = [conflicts EXCEPT ![d] =
                   [conflicts[d] EXCEPT ![k] = [conflicts[d][k] EXCEPT !.open = FALSE, !.artifact = 0]]]
    BY <1>9 DEF RecordResolution
  <2>2. DOMAIN conflicts'[d] = DOMAIN conflicts[d] /\ \A c \in Devices \ {d} : conflicts'[c] = conflicts[c]
    BY <2>1
  <2>3. DOMAIN conflicts[d] = {}
    BY <1>1, <2>2, NoneInRange
  <2>4. conflicts[d] = <<>>
    <3>1. conflicts[d] \in Seq(Range(conflicts[d]))
      OBVIOUS
    <3>2. Len(conflicts[d]) \in Nat /\ DOMAIN conflicts[d] = 1..Len(conflicts[d])
      BY <3>1, LenProperties
    <3>3. Len(conflicts[d]) = 0
      BY <2>3, <3>2
    <3> QED BY <3>1, <3>3, EmptySeq
  <2>5. ~dropped
    BY <1>1, <1>9 DEF RecordResolution
  <2> QED BY <1>1, <2>2, <2>4, <2>5 DEF Undisputed
<1>10. CASE Complete(d)
  <2>1. conflicts' = conflicts
    BY <1>10 DEF Complete, metaVars
  <2>2. ~dropped
    BY <1>1, <1>10, Zenon DEF Complete
  <2> QED BY <1>1, <2>1, <2>2 DEF Undisputed
<1>11. ASSUME NEW i, NEW choice, Resolve(d, i, choice) PROVE Undisputed
  <2>1. conflicts' = conflicts
    BY <1>11, ResolveReads DEF metaVars
  <2>2. ~dropped
    BY <1>1, <1>11, Zenon DEF Resolve
  <2> QED BY <1>1, <2>1, <2>2 DEF Undisputed
<1>12. CASE Trusts(d)
  BY <1>1, <1>12 DEF Trusts, syncVars, metaVars, Undisputed
<1> QED
  BY <1>2, <1>3, <1>4, <1>5, <1>6, <1>7, <1>8, <1>9, <1>10, <1>11, <1>12 DEF Acts

(* The steps of devices that stay undisputed, by what they do to the records. *)
Undisturbed(d) ==
  \/ \E e \in Entities : Write(d, e) \/ Erase(d, e)
  \/ Send(d) \/ SendFails(d)
  \/ \E m \in sent : Receive(d, m)
  \/ ApplyRefused(d) \/ ApplyCommits(d) \/ Complete(d) \/ Crash(d) \/ Trusts(d)

LEMMA UndisputedActs ==
  ASSUME SyncInv, ReportInv, Undisputed, NEW d \in Devices, Acts(d), Undisputed'
  PROVE  (\E p \in Devices : Export(d, p)) \/ Checkpoint(d) \/ Undisturbed(d)
<1>1. ~OpenInbox(d) /\ ~LoseMetadata(d)
  BY Zenon DEF Undisputed, OpenInbox, LoseMetadata
<1>2. ~RecordResolution(d)
  BY DEF RecordResolution, ReportInv, CommandReports
<1>3. \A i \in DOMAIN conflicts[d] : FALSE
  BY NoneInRange DEF Undisputed
<1>4. ~ApplyConflicts(d)
  <2> SUFFICES ASSUME ApplyConflicts(d) PROVE FALSE
    OBVIOUS
  <2>1. PICK r : RecordConflict(d, r)
    BY DEF ApplyConflicts
  <2>2. conflicts[d] = <<>> /\ DOMAIN conflicts = Devices
    BY DEF Undisputed, SyncInv, ArtifactInv
  <2>3. conflicts'[d] = Append(<<>>, r)
    BY <2>1, <2>2, NoneInRange DEF RecordConflict
  <2>4. Append(<<>>, r) # <<>>
    BY AppendProperties, EmptySeq
  <2> QED BY <2>3, <2>4 DEF Undisputed
<1> QED BY <1>1, <1>2, <1>3, <1>4 DEF Acts, Undisturbed

LEMMA RecordsUndisturbed ==
  ASSUME NEW d \in Devices, Undisturbed(d) PROVE UNCHANGED <<meta, baselined, resolutions>>
<1>1. CASE \/ \E e \in Entities : Write(d, e) \/ Erase(d, e)
           \/ Send(d) \/ SendFails(d) \/ \E m \in sent : Receive(d, m)
  BY <1>1 DEF Write, Erase, Send, SendFails, Receive, metaVars
<1>2. CASE ApplyRefused(d) \/ ApplyCommits(d) \/ Complete(d) \/ Crash(d) \/ Trusts(d)
  BY <1>2 DEF ApplyRefused, ApplyCommits, Complete, Crash, Trusts, metaVars, syncVars
<1> QED BY <1>1, <1>2 DEF Undisturbed

(* A scan of a device that kept its baseline.                                 *)
LEMMA RecordsScanned ==
  ASSUME SyncInv, EditInv, NEW d \in Devices, NEW p \in Devices, Export(d, p), baselined[d],
         NEW e \in Entities
  PROVE  /\ meta'[d][e] = IF e \in Changed(d) THEN NextRevision(d, e) ELSE meta[d][e]
         /\ UNCHANGED <<resolutions, past>> /\ baselined'[d]
         /\ \A c \in Devices \ {d} : meta'[c] = meta[c] /\ baselined'[c] = baselined[c]
<1>1. DOMAIN meta = Devices /\ DOMAIN baselined = Devices
  BY DEF SyncInv, RecordInv
<1>2. /\ meta' = [meta EXCEPT ![d] = Observed(d)] /\ baselined' = [baselined EXCEPT ![d] = TRUE]
      /\ UNCHANGED <<resolutions, past>>
  BY DEF Export, Reconcile, rowVars
<1>3. Observed(d)[e] = IF e \in Changed(d) THEN NextRevision(d, e) ELSE meta[d][e]
  BY DEF Observed
<1> QED BY <1>1, <1>2, <1>3

LEMMA RecordsTaken ==
  ASSUME SyncInv, EditInv, NEW d \in Devices, Checkpoint(d),
         job[d].msg.payload.resolutions = {}
  PROVE  /\ \A n \in job[d].msg.payload.entries : n.ent \in Entities /\ meta'[d][n.ent] = n.rec
         /\ \A e \in Entities :
              (\E n \in job[d].msg.payload.entries : n.ent = e) \/ meta'[d][e] = meta[d][e]
         /\ \A c \in Devices \ {d} : meta'[c] = meta[c]
         /\ UNCHANGED <<baselined, resolutions, past, sent, completed>>
<1> DEFINE seen == job[d].msg.payload.entries
<1>1. DOMAIN meta = Devices
  BY DEF SyncInv, RecordInv
<1>2. job[d].msg \in sent
  BY DEF Checkpoint, SyncInv, JobInv, JobOK, Answering
<1>3. /\ \A n \in seen : n.ent \in Entities
      /\ \A n, k \in seen : n.ent = k.ent => n = k
  BY <1>2 DEF EditInv, SentInv, DeltaOK
<1>4. Ordinary(job[d].msg) = seen
  BY DEF Ordinary
<1>5. /\ meta' = [meta EXCEPT ![d] = [e \in Entities |->
                    IF \E n \in seen : n.ent = e
                    THEN (CHOOSE n \in seen : n.ent = e).rec ELSE meta[d][e]]]
      /\ UNCHANGED <<baselined, resolutions, past, sent, completed>>
  BY <1>4 DEF Checkpoint, rowVars, envelopeVars
<1> QED BY <1>1, <1>3, <1>5

(* What has its place in the records keeps it: a scan puts on top of a record *)
(* what was made over it, a checkpoint what the command found to be over it.  *)
LEMMA RecordsClimb ==
  ASSUME SyncInv, EditInv, ReportInv, Undisputed, NEW d \in Devices, Acts(d), Undisputed',
         NEW c \in Devices, NEW e \in Entities, NEW x, Yields(x, meta[c][e].hash)
  PROVE  Yields(x, meta[c][e].hash)'
<1>1. HistoryInv /\ HistoryInv' /\ Rises
  BY RowsHold DEF EditInv
<1>2. PICK y : y = meta[c][e].hash
  OBVIOUS
<1>3. Yields(x, y) /\ Yields(x, y)'
  BY <1>1, <1>2, YieldsRises
<1>4. ASSUME meta'[c][e].hash = y PROVE Yields(x, meta[c][e].hash)'
  BY <1>3, <1>4 DEF Yields, Under
<1>5. ASSUME NEW z, meta'[c][e].hash = z, y = NoHash \/ Yields(y, z)
      PROVE  Yields(x, meta[c][e].hash)'
  <2>1. y # NoHash
    <3>1. NoHash \notin Contents /\ NoHash # Gone
      BY <1>1, HistoryDomain DEF NoHash, Gone
    <3> QED BY <1>3, <3>1 DEF Yields, Under
  <2>2. Yields(x, z)
    BY <1>1, <1>3, <1>5, <2>1, YieldsThrough
  <2>3. Yields(x, z)'
    BY <1>1, <2>2, YieldsRises
  <2> QED BY <1>5, <2>3 DEF Yields, Under
<1>6. CASE Undisturbed(d)
  BY <1>2, <1>4, <1>6, RecordsUndisturbed
<1>7. CASE c # d
  BY <1>2, <1>4, <1>7, CommandElsewhere
<1>8. ASSUME c = d, NEW p \in Devices, Export(d, p) PROVE Yields(x, meta[c][e].hash)'
  <2>1. /\ baselined[d]
        /\ meta'[d][e] = IF e \in Changed(d) THEN NextRevision(d, e) ELSE meta[d][e]
    BY <1>8, RecordsScanned DEF ReportInv
  <2>2. CASE e \notin Changed(d)
    BY <1>2, <1>4, <1>8, <2>1, <2>2
  <2>3. CASE e \in Vanished(d)
    BY <1>5, <1>8, <2>1, <2>3 DEF Changed, NextRevision, Yields
  <2>4. CASE e \in Changed(d) /\ e \notin Vanished(d)
    <3>1. e \in Rewritten(d)
      BY <2>4 DEF Changed
    <3>2. PICK z : z = dom[d][e]
      OBVIOUS
    <3>3. z # NoHash /\ Latest(d, e) = z /\ y # Gone
      BY <1>2, <1>8, <3>1, <3>2 DEF Rewritten, Candidates, Latest
    <3>4. y \in Beneath(z)
      BY <1>2, <1>8, <3>3 DEF EditInv, RecordsInv, RowRecordOK
    <3>5. meta'[d][e].hash = z
      BY <2>1, <2>4, <3>2 DEF NextRevision
    <3> QED BY <1>5, <1>8, <3>3, <3>4, <3>5 DEF Beneath, Yields
  <2> QED BY <2>2, <2>3, <2>4
<1>9. CASE c = d /\ Checkpoint(d)
  <2>1. job[d].op = "committed" /\ job[d].msg \in sent
    BY <1>9 DEF Checkpoint, SyncInv, JobInv, JobOK, Answering
  <2>2. job[d].msg.payload.resolutions = {}
    BY <2>1 DEF ReportInv, FileReports
  <2>3. CASE meta'[d][e] = meta[d][e]
    BY <1>2, <1>4, <1>9, <2>3
  <2>4. ASSUME NEW n \in job[d].msg.payload.entries, n.ent = e
        PROVE  Yields(x, meta[c][e].hash)'
    <3>1. meta'[d][e] = n.rec
      BY <1>9, <2>2, <2>4, RecordsTaken
    <3>2. meta[d][e].hash = NoHash \/ Yields(meta[d][e].hash, n.rec.hash)
      BY <2>1, <2>4 DEF ReportInv, CommandReports
    <3> QED BY <1>2, <1>5, <1>9, <3>1, <3>2
  <2> QED BY <1>9, <2>2, <2>3, <2>4, RecordsTaken
<1> QED BY <1>6, <1>7, <1>8, <1>9, UndisputedActs

LEMMA PassedStays ==
  ASSUME SyncInv, EditInv, ReportInv, Undisputed, NEW d \in Devices, Acts(d), Undisputed',
         NEW c \in Devices, NEW delta, DeltaOK(delta), Passed(c, delta)
  PROVE  Passed(c, delta)'
<1> SUFFICES ASSUME NEW n \in delta.entries PROVE Yields(n.rec.hash, meta[c][n.ent].hash)'
  BY DEF Passed
<1>1. PICK e, x : e = n.ent /\ x = n.rec.hash
  OBVIOUS
<1>2. e \in Entities /\ Yields(x, meta[c][e].hash)
  BY <1>1 DEF DeltaOK, Passed
<1>3. Yields(x, meta[c][e].hash)'
  BY <1>2, RecordsClimb
<1> QED BY <1>1, <1>3

(* The record a committed delta will leave stands over the present one.       *)
LEMMA CommitReports ==
  ASSUME SyncInv, EditInv, ReportInv, Undisputed, NEW d \in Devices, ApplyCommits(d), Acts(d)
  PROVE  CommandReports(d, job[d])'
<1> USE DEF EditInv
<1> DEFINE m == job[d].msg
           writes == {n \in Ordinary(m) : EntryVerdict(d, n) \in {"insert", "update"}}
           decides == {o \in Accepted(d, m) : o.hash # Gone}
<1>1. m \in sent /\ DOMAIN job = Devices
  BY DEF ApplyCommits, SyncInv, JobInv, JobOK, Answering
<1>2. m.payload.resolutions = {} /\ DeltaOK(m.payload)
  BY <1>1 DEF ReportInv, FileReports, SentInv
<1>3. Ordinary(m) = m.payload.entries /\ Accepted(d, m) = {}
  BY <1>2 DEF Ordinary, Accepted
<1>4. /\ job'[d].op = "committed" /\ job'[d].msg = m /\ job'[d].todo = {}
      /\ meta' = meta
  BY <1>1, <1>3 DEF ApplyCommits, metaVars
<1>5. ASSUME NEW n \in m.payload.entries
      PROVE  meta[d][n.ent].hash = NoHash \/ Yields(meta[d][n.ent].hash, n.rec.hash)'
  <2>1. PICK e, h, x : e = n.ent /\ h = n.rec.hash /\ x = meta[d][n.ent].hash
    OBVIOUS
  <2>2. e \in Entities /\ h \in Hashes /\ \A k \in m.payload.entries : k.ent = e => k = n
    BY <1>2, <2>1 DEF DeltaOK, RecordOK
  <2>3. SUFFICES ASSUME h # Gone, x # NoHash PROVE Yields(x, h)'
    <3>1. h = Gone => Yields(x, h)'
      BY DEF Yields
    <3> QED BY <1>4, <2>1, <2>3, <3>1 DEF Yields, Under
  <2>4. EntryVerdict(d, n) \in Plans
    BY <1>2, <1>3, CommittedDelta DEF ApplyCommits
  <2>5. x # Gone /\ EntryVerdict(d, n) # "deleted"
    BY <2>1, <2>3, <2>4 DEF EntryVerdict, Plans
  <2>6. dom'[d][e] = h
    <3>1. dom'[d][e] = IF \E k \in writes : k.ent = e
                       THEN (CHOOSE k \in writes : k.ent = e).rec.hash
                       ELSE IF \E o \in decides : o.ent = e
                       THEN (CHOOSE o \in decides : o.ent = e).hash
                       ELSE dom[d][e]
      BY <2>2 DEF ApplyCommits, RowsInv
    <3>2. CASE n \in writes
      BY <1>3, <2>1, <2>2, <3>1, <3>2
    <3>3. CASE n \notin writes
      <4>1. EntryVerdict(d, n) = "noop"
        BY <1>3, <2>4, <2>5, <3>3 DEF Plans
      <4>2. dom[d][e] = h
        BY <2>1, <2>3, <4>1 DEF EntryVerdict
      <4> QED BY <1>3, <2>1, <2>2, <3>1, <3>3, <4>2
    <3> QED BY <3>2, <3>3
  <2>7. h \in Contents /\ h # NoHash
    BY <2>2, <2>3, HistoryDomain DEF Hashes
  <2>8. Latest(d, e)' = h
    BY <2>6, <2>7 DEF Latest
  <2>9. x \in Beneath(Latest(d, e))
    BY <2>1, <2>2, <2>5 DEF RecordsInv, RowRecordOK
  <2>10. Follows(d, e)
    BY <1>1, <1>2, <2>1, <2>2, <2>5, RowsApplied
  <2>11. x \in Beneath(Latest(d, e))'
    BY <2>9, <2>10 DEF Follows
  <2>12. x \in Under(Latest(d, e))'
    BY <2>3, <2>5, <2>11 DEF Beneath
  <2> QED BY <2>8, <2>12 DEF Yields, Under
<1> QED BY <1>4, <1>5, Zenon DEF CommandReports, Yields, Under

LEMMA CommandReportsStays ==
  ASSUME SyncInv, EditInv, ReportInv, Undisputed, NEW d \in Devices, Acts(d), Undisputed',
         NEW c \in Devices, job'[c] = job[c], meta'[c] = meta[c]
  PROVE  CommandReports(c, job[c])'
<1>1. PICK j : j = job[c]
  OBVIOUS
<1>2. CommandReports(c, j)
  BY <1>1 DEF ReportInv
<1>3. Rises
  BY RowsHold
<1>4. j.op = "sending" => Passed(c, j.delta)'
  BY <1>1, <1>2, PassedStays DEF CommandReports, EditInv, CarriedInv, Carries
<1>5. j.op \in Answering => j.msg \in sent
  BY <1>1 DEF SyncInv, JobInv, JobOK
<1>6. j.op = "recording" => Passed(c, j.msg.payload)'
  BY <1>2, <1>5, PassedStays DEF CommandReports, EditInv, SentInv, Answering
<1>7. j.op = "committed" =>
        \A n \in j.msg.payload.entries :
          meta'[c][n.ent].hash = NoHash \/ Yields(meta[c][n.ent].hash, n.rec.hash)'
  <2> SUFFICES ASSUME j.op = "committed", NEW n \in j.msg.payload.entries,
                      meta[c][n.ent].hash # NoHash
               PROVE  Yields(meta[c][n.ent].hash, n.rec.hash)'
    OBVIOUS
  <2>1. PICK x : x = meta[c][n.ent].hash
    OBVIOUS
  <2>2. Yields(x, n.rec.hash)
    BY <1>2, <2>1 DEF CommandReports
  <2>3. Yields(x, n.rec.hash)'
    BY <1>3, <2>2, YieldsRises
  <2> QED BY <2>1, <2>3 DEF Yields
<1> QED BY <1>1, <1>2, <1>4, <1>6, <1>7 DEF CommandReports, Passed

LEMMA CommandsReport ==
  ASSUME SyncInv, EditInv, ReportInv, Undisputed, NEW d \in Devices, Acts(d), Undisputed',
         NEW c \in Devices
  PROVE  CommandReports(c, job[c])'
<1>1. DOMAIN job = Devices
  BY DEF SyncInv, JobInv
<1>2. CASE c # d
  BY <1>2, CommandElsewhere, CommandReportsStays
<1>3. ASSUME c = d, job'[d] = job[d], meta'[d] = meta[d] PROVE CommandReports(c, job[c])'
  BY <1>3, CommandReportsStays
<1>4. ASSUME c = d, job'[d].op \in {"idle", "received"} PROVE CommandReports(c, job[c])'
  BY <1>4 DEF CommandReports
<1>5. ASSUME c = d, NEW p \in Devices, Export(d, p) PROVE CommandReports(c, job[c])'
  <2>1. CASE ScanRaises(d)
    <3>1. job'[d] = job[d] /\ job[d] = Idle
      BY <1>5, <2>1 DEF Export
    <3> QED BY <1>4, <1>5, <3>1 DEF Idle
  <2>2. CASE ~ScanRaises(d)
    <3>1. job'[d] = [op |-> "sending", to |-> p, delta |-> ScanDelta(d)] /\ p # d
      BY <1>1, <1>5, <2>2 DEF Export
    <3>2. ScanDelta(d).resolutions = {}
      <4>1. resolutions[d] = <<>>
        BY DEF ReportInv
      <4>2. Standing(d) = {}
        BY <4>1, NoneInRange DEF Standing
      <4> QED BY <4>2 DEF ScanDelta
    <3>3. ASSUME NEW n \in ScanDelta(d).entries
          PROVE  Yields(n.rec.hash, meta[d][n.ent].hash)'
      <4>1. PICK e \in Changed(d) : n.ent = e /\ n.rec = NextRevision(d, e)
        BY DEF ScanDelta
      <4>2. e \in Entities
        BY DEF Changed, Rewritten, Vanished, Candidates
      <4>3. meta'[d][e] = n.rec
        BY <1>5, <4>1, <4>2, RecordsScanned DEF ReportInv
      <4>4. PICK h : h = n.rec.hash
        OBVIOUS
      <4>5. h \in Hashes
        BY <4>1, <4>2, <4>4, ChangeObserved DEF EditInv, RecordOK
      <4>6. Yields(h, h)'
        BY <4>5, YieldsItself, YieldsRises, RowsHold
      <4> QED BY <4>1, <4>3, <4>4, <4>6 DEF Yields, Under
    <3> QED BY <1>5, <3>1, <3>2, <3>3 DEF CommandReports, Passed
  <2> QED BY <2>1, <2>2
<1>6. CASE c = d /\ Checkpoint(d)
  <2>1. PICK m : m = job[d].msg
    OBVIOUS
  <2>2. job[d].op = "committed" /\ m \in sent /\ job[d].todo = {}
    BY <1>6, <2>1 DEF Checkpoint, SyncInv, JobInv, JobOK, Answering, ReportInv, CommandReports
  <2>3. m.payload.resolutions = {} /\ DeltaOK(m.payload)
    BY <2>2 DEF ReportInv, FileReports, EditInv, SentInv
  <2>4. job'[d] = Recording(m, {}, 0)
    BY <1>1, <1>6, <2>1, <2>2 DEF Checkpoint
  <2>5. ASSUME NEW n \in m.payload.entries PROVE Yields(n.rec.hash, meta[d][n.ent].hash)'
    <3>1. meta'[d][n.ent] = n.rec
      BY <1>6, <2>1, <2>3, RecordsTaken
    <3>2. PICK h : h = n.rec.hash
      OBVIOUS
    <3>3. h \in Hashes
      BY <2>3, <3>2 DEF DeltaOK, RecordOK
    <3>4. Yields(h, h)'
      BY <3>3, YieldsItself, YieldsRises, RowsHold
    <3> QED BY <3>1, <3>2, <3>4 DEF Yields, Under
  <2> QED BY <1>6, <2>4, <2>5 DEF CommandReports, Passed, Recording
<1>7. CASE c = d /\ ApplyCommits(d)
  BY <1>7, CommitReports
<1>8. CASE c = d /\ \/ Send(d) \/ SendFails(d) \/ ApplyRefused(d) \/ Complete(d) \/ Crash(d)
                    \/ \E m \in sent : Receive(d, m)
  <2>1. CASE Send(d) \/ SendFails(d) \/ ApplyRefused(d) \/ Complete(d) \/ Crash(d)
    <3>1. job'[d] = Idle
      BY <1>1, <2>1 DEF Send, SendFails, ApplyRefused, Complete, Crash
    <3> QED BY <1>4, <1>8, <3>1 DEF Idle
  <2>2. ASSUME NEW m \in sent, Receive(d, m) PROVE CommandReports(c, job[c])'
    <3>1. job'[d].op = "received"
      BY <1>1, <2>2 DEF Receive
    <3> QED BY <1>4, <1>8, <3>1
  <2> QED BY <1>8, <2>1, <2>2
<1>9. CASE c = d /\ (Trusts(d) \/ \E e \in Entities : Write(d, e) \/ Erase(d, e))
  <2>1. job' = job /\ meta' = meta
    BY <1>9 DEF Trusts, Write, Erase, syncVars, metaVars
  <2> QED BY <1>3, <1>9, <2>1
<1> QED
  BY <1>2, <1>5, <1>6, <1>7, <1>8, <1>9, UndisputedActs DEF Undisturbed

(* What happens to files: they are written by Send and completed by Complete. *)
LEMMA FilesStay ==
  ASSUME NEW d \in Devices, Acts(d)
  PROVE  (Send(d) \/ sent' = sent) /\ (Complete(d) \/ completed' = completed)
<1>1. CASE SendFails(d) \/ Trusts(d)
  BY <1>1 DEF SendFails, WasteSequence, Trusts, LoseSecret, GenerateSecret, ResetAnchor,
              Pair, Revoke, envelopeVars, syncVars
<1>2. CASE (\E m \in sent : Receive(d, m)) \/ Complete(d)
  BY <1>2 DEF Receive, Reserve, Complete, CompleteInbound
<1>3. CASE \E i \in DOMAIN conflicts[d] :
             \E choice \in Offers(conflicts[d][i].type) : Resolve(d, i, choice)
  BY <1>3 DEF Resolve, Reserve
<1>4. CASE \/ \E e \in Entities : Write(d, e) \/ Erase(d, e)
           \/ OpenInbox(d) \/ \E p \in Devices : Export(d, p)
           \/ ApplyRefused(d) \/ ApplyConflicts(d) \/ ApplyCommits(d)
           \/ Checkpoint(d) \/ RecordResolution(d) \/ Crash(d) \/ LoseMetadata(d)
  BY <1>4 DEF Write, Erase, OpenInbox, Export, ApplyRefused, ApplyConflicts, ApplyCommits,
              Checkpoint, RecordResolution, Crash, LoseMetadata, envelopeVars
<1>5. CASE Send(d)
  BY <1>5 DEF Send
<1> QED BY <1>1, <1>2, <1>3, <1>4, <1>5 DEF Acts

LEMMA FileSent ==
  ASSUME SyncInv, EditInv, ReportInv, Undisputed, NEW d \in Devices, Send(d)
  PROVE  \E n : /\ sent' = sent \cup {n} /\ n \notin sent
                /\ n.from = d /\ n.to \in Devices \ {d} /\ n.payload = job[d].delta
                /\ n.id \notin {m.id : m \in sent}
<1> DEFINE n == Sealed(d, job[d].to, job[d].delta)
<1>1. /\ n.id = Cardinality(sent) + 1 /\ n.from = d /\ n.to = job[d].to
      /\ n.payload = job[d].delta
  BY DEF Sealed
<1>2. sent' = sent \cup {n} /\ job[d].op = "sending"
  BY DEF Send, Encrypt
<1>3. job[d].to \in Devices \ {d}
  BY <1>2 DEF SyncInv, JobInv, JobOK, ReportInv, CommandReports
<1>4. Cardinality(sent) \in Nat /\ \A m \in sent : m.id \in Nat /\ m.id <= Cardinality(sent)
  BY FS_CardinalityType DEF SyncInv, EnvelopeInv, EnvelopeTypeOK, FilesNumbered
<1>5. n.id \notin {m.id : m \in sent}
  BY <1>1, <1>4
<1> HIDE DEF n
<1> QED BY <1>1, <1>2, <1>3, <1>5

LEMMA FilesReport ==
  ASSUME SyncInv, EditInv, ReportInv, Undisputed, NEW d \in Devices, Acts(d), Undisputed',
         NEW m \in sent'
  PROVE  FileReports(m)'
<1>1. \A k \in sent : k.from \in Devices /\ k.to \in Devices /\ DeltaOK(k.payload)
  BY DEF SyncInv, EnvelopeInv, EnvelopeTypeOK, EditInv, SentInv
<1>2. ASSUME m \in sent, m.id \in completed'[m.to] => Passed(m.to, m.payload)
      PROVE  FileReports(m)'
  <2>1. m.from # m.to /\ m.payload.resolutions = {} /\ Passed(m.from, m.payload)
    BY <1>2 DEF ReportInv, FileReports
  <2>2. Passed(m.from, m.payload)'
    BY <1>1, <1>2, <2>1, PassedStays
  <2>3. m.id \in completed'[m.to] => Passed(m.to, m.payload)'
    BY <1>1, <1>2, PassedStays
  <2> QED BY <2>1, <2>2, <2>3 DEF FileReports, Passed
<1>3. CASE m \in sent /\ completed' = completed
  BY <1>2, <1>3 DEF ReportInv, FileReports
<1>4. CASE Complete(d)
  <2>1. /\ job[d].op = "recording" /\ sent' = sent
        /\ completed' = [completed EXCEPT ![d] = completed[d] \cup {job[d].msg.id}]
    BY <1>4, FilesStay DEF Complete, Send
  <2>2. Passed(d, job[d].msg.payload) /\ job[d].msg \in sent /\ DOMAIN completed = Devices
    BY <2>1 DEF ReportInv, CommandReports, SyncInv, JobInv, JobOK, Answering, CompletedInv
  <2>3. m \in sent
    BY <2>1
  <2>4. CASE m.id \in completed[m.to]
    BY <1>2, <2>3, <2>4 DEF ReportInv, FileReports
  <2>5. CASE m.id \in completed'[m.to] /\ m.id \notin completed[m.to]
    <3>1. m.to = d /\ m.id = job[d].msg.id
      BY <1>1, <2>1, <2>2, <2>3, <2>5
    <3>2. m = job[d].msg
      BY <2>2, <2>3, <3>1 DEF SyncInv, EnvelopeInv, FilesNumbered
    <3> QED BY <1>2, <2>2, <2>3, <3>1, <3>2
  <2> QED BY <1>2, <2>3, <2>4, <2>5
<1>5. CASE Send(d)
  <2>1. PICK n : /\ sent' = sent \cup {n}
                 /\ n.from = d /\ n.to \in Devices \ {d} /\ n.payload = job[d].delta
                 /\ n.id \notin {k.id : k \in sent}
    BY <1>5, FileSent
  <2>2. completed' = completed /\ job[d].op = "sending"
    BY <1>5 DEF Send
  <2>3. CASE m \in sent
    BY <1>3, <2>2, <2>3
  <2>4. CASE m = n
    <3>1. PICK delta : delta = job[d].delta
      OBVIOUS
    <3>2. delta.resolutions = {} /\ Passed(d, delta) /\ DeltaOK(delta)
      BY <2>2, <3>1 DEF ReportInv, CommandReports, EditInv, CarriedInv, Carries
    <3>3. Passed(d, delta)'
      BY <3>2, PassedStays
    <3>4. n.id \notin completed[n.to]
      BY <2>1 DEF SyncInv, CompletedInv
    <3> QED BY <2>1, <2>2, <2>4, <3>1, <3>2, <3>3, <3>4 DEF FileReports, Passed
  <2> QED BY <2>1, <2>3, <2>4
<1> QED BY <1>3, <1>4, <1>5, FilesStay

LEMMA ReportedStays ==
  ASSUME SyncInv, EditInv, ReportInv, Undisputed, NEW d \in Devices, Acts(d), Undisputed',
         NEW e, NEW h, Reported(e, h)
  PROVE  Reported(e, h)'
<1>1. CASE \E m \in sent : Reports(m.payload, e, h)
  <2>1. sent \subseteq sent'
    BY FilesStay, FileSent
  <2> QED BY <1>1, <2>1 DEF Reported, Reports
<1>2. ASSUME NEW c \in Devices, job[c].op = "sending", Reports(job[c].delta, e, h)
      PROVE  Reported(e, h)'
  <2>1. CASE job'[c] = job[c]
    BY <1>2, <2>1 DEF Reported, Reports
  <2>2. CASE c = d /\ Send(d)
    <3>1. PICK n : sent' = sent \cup {n} /\ n.payload = job[d].delta
      BY <2>2, FileSent
    <3> QED BY <1>2, <2>2, <3>1 DEF Reported, Reports
  <2>3. ~SendFails(c) \/ c # d
    <3> SUFFICES ASSUME SendFails(d), c = d PROVE FALSE
      OBVIOUS
    <3>1. job[d].delta.entries # {}
      BY <1>2 DEF Reports
    <3> QED BY <3>1 DEF SendFails, Undisputed
  <2>4. CASE c = d /\ job'[c] # job[c] /\ ~Send(d)
    <3>1. job[d].op = "sending" /\ job[d] # Idle
      BY <1>2, <2>4 DEF Idle
    <3>2. /\ \A p \in Devices : ~Export(d, p)
          /\ \A m \in sent : ~Receive(d, m)
      BY <3>1, Zenon DEF Export, Receive
    <3>3. ~ApplyRefused(d) /\ ~ApplyCommits(d) /\ ~Checkpoint(d) /\ ~Complete(d) /\ ~Crash(d)
      BY <3>1 DEF ApplyRefused, ApplyCommits, Checkpoint, Complete, Crash
    <3>4. ~Trusts(d) /\ \A x \in Entities : ~Write(d, x) /\ ~Erase(d, x)
      BY <2>4 DEF Trusts, Write, Erase, syncVars
    <3> QED BY <2>3, <2>4, <3>2, <3>3, <3>4, UndisputedActs DEF Undisturbed
  <2> QED BY <2>1, <2>2, <2>4, CommandElsewhere
<1> QED BY <1>1, <1>2 DEF Reported

LEMMA RecordsReport ==
  ASSUME SyncInv, EditInv, ReportInv, Undisputed, NEW d \in Devices, Acts(d), Undisputed',
         NEW c \in Devices, NEW e \in Entities
  PROVE  RecordReports(c, e)'
<1>1. RecordReports(c, e)
  BY DEF ReportInv
<1>2. e \in Original => Yields(e, meta[c][e].hash)'
  BY <1>1, RecordsClimb DEF RecordReports
<1>3. ASSUME NEW h, h = meta'[c][e].hash, Reported(e, h)' PROVE RecordReports(c, e)'
  BY <1>2, <1>3 DEF RecordReports, Reported, Reports
<1>4. ASSUME meta'[c][e] = meta[c][e] PROVE RecordReports(c, e)'
  <2>1. PICK h : h = meta[c][e].hash
    OBVIOUS
  <2>2. h = Begun(e) \/ Reported(e, h)'
    BY <1>1, <2>1, ReportedStays DEF RecordReports
  <2> QED BY <1>2, <1>4, <2>1, <2>2 DEF RecordReports, Begun, Reported, Reports
<1>5. CASE c # d
  BY <1>4, <1>5, CommandElsewhere
<1>6. CASE Undisturbed(d)
  BY <1>4, <1>6, RecordsUndisturbed
<1>7. ASSUME c = d, NEW p \in Devices, Export(d, p) PROVE RecordReports(c, e)'
  <2>1. meta'[d][e] = IF e \in Changed(d) THEN NextRevision(d, e) ELSE meta[d][e]
    BY <1>7, RecordsScanned DEF ReportInv
  <2>2. CASE e \notin Changed(d)
    BY <1>4, <1>7, <2>1, <2>2
  <2>3. CASE e \in Changed(d)
    <3>1. ~ScanRaises(d)
      BY <1>7, <2>3, Zenon DEF Export, Undisputed
    <3>2. DOMAIN job = Devices
      BY DEF SyncInv, JobInv
    <3>3. job'[d].op = "sending" /\ job'[d].delta = ScanDelta(d)
      BY <1>7, <3>1, <3>2 DEF Export
    <3>4. [ent |-> e, change |-> Change(d, e), rec |-> NextRevision(d, e)] \in ScanDelta(d).entries
      BY <2>3 DEF ScanDelta
    <3>5. PICK h : h = meta'[d][e].hash
      OBVIOUS
    <3>6. Reported(e, h)'
      BY <2>1, <2>3, <3>3, <3>4, <3>5 DEF Reported, Reports
    <3> QED BY <1>3, <1>7, <3>5, <3>6
  <2> QED BY <2>2, <2>3
<1>8. CASE c = d /\ Checkpoint(d)
  <2>1. job[d].msg \in sent
    BY <1>8 DEF Checkpoint, SyncInv, JobInv, JobOK, Answering
  <2>2. job[d].msg.payload.resolutions = {} /\ sent' = sent
    BY <1>8, <2>1 DEF ReportInv, FileReports, Checkpoint, envelopeVars
  <2>3. CASE meta'[d][e] = meta[d][e]
    BY <1>4, <1>8, <2>3
  <2>4. ASSUME NEW n \in job[d].msg.payload.entries, n.ent = e PROVE RecordReports(c, e)'
    <3>1. meta'[d][e] = n.rec
      BY <1>8, <2>2, <2>4, RecordsTaken
    <3>2. PICK h : h = n.rec.hash
      OBVIOUS
    <3>3. Reported(e, h)'
      BY <2>1, <2>2, <2>4, <3>2 DEF Reported, Reports
    <3> QED BY <1>3, <1>8, <3>1, <3>2, <3>3
  <2> QED BY <1>8, <2>2, <2>3, <2>4, RecordsTaken
<1> QED BY <1>5, <1>6, <1>7, <1>8, UndisputedActs

LEMMA ReportsHold ==
  ASSUME SyncInv, EditInv, ReportInv, [Next]_vars PROVE ReportInv'
<1>1. CASE UNCHANGED vars
  <2>1. UNCHANGED <<meta, baselined, resolutions, conflicts, job, sent, completed, past, dropped>>
    BY <1>1 DEF vars, syncVars, rowVars, metaVars, envelopeVars
  <2>2. \A x, y : Yields(x, y)' <=> Yields(x, y)
    BY <2>1 DEF Yields, Under, Contents
  <2>3. \A d, delta : Passed(d, delta)' <=> Passed(d, delta)
    BY <2>1, <2>2 DEF Passed, Yields, Under, Contents
  <2>4. \A d \in Devices : CommandReports(d, job[d]) => CommandReports(d, job[d])'
    BY <2>1 DEF CommandReports, Passed, Yields, Under, Contents
  <2>5. \A d \in Devices, e \in Entities : RecordReports(d, e) => RecordReports(d, e)'
    BY <2>1 DEF RecordReports, Reported, Reports, Yields, Under, Contents
  <2>6. \A m \in sent : FileReports(m) => FileReports(m)'
    BY <2>1, <2>3 DEF FileReports
  <2>7. Undisputed' <=> Undisputed
    BY <2>1 DEF Undisputed
  <2> QED BY <2>1, <2>4, <2>5, <2>6, <2>7 DEF ReportInv
<1>2. ASSUME NEW d \in Devices, Acts(d) PROVE ReportInv'
  <2> SUFFICES ASSUME Undisputed'
      PROVE  /\ \A c \in Devices :
                  /\ baselined'[c] /\ resolutions'[c] = <<>>
                  /\ CommandReports(c, job[c])'
                  /\ \A e \in Entities : RecordReports(c, e)'
             /\ \A m \in sent' : FileReports(m)'
    BY DEF ReportInv
  <2>1. Undisputed
    BY <1>2, UndisputedBefore
  <2>2. \A c \in Devices : baselined[c] /\ resolutions[c] = <<>>
    BY <2>1 DEF ReportInv
  <2>3. ASSUME NEW c \in Devices PROVE baselined'[c] /\ resolutions'[c] = <<>>
    <3>1. CASE Undisturbed(d)
      BY <2>2, <3>1, RecordsUndisturbed
    <3>2. ASSUME NEW p \in Devices, Export(d, p) PROVE baselined'[c] /\ resolutions'[c] = <<>>
      <4>1. baselined' = [baselined EXCEPT ![d] = TRUE] /\ resolutions' = resolutions
        BY <3>2 DEF Export, Reconcile
      <4>2. DOMAIN baselined = Devices
        BY DEF SyncInv, RecordInv
      <4> QED BY <2>2, <4>1, <4>2
    <3>3. CASE Checkpoint(d)
      BY <2>2, <3>3 DEF Checkpoint
    <3> QED BY <1>2, <2>1, <3>1, <3>2, <3>3, UndisputedActs
  <2> QED BY <1>2, <2>1, <2>3, CommandsReport, RecordsReport, FilesReport
<1> QED BY <1>1, <1>2, NextActs

LEMMA ReportsFirst == Init => ReportInv
<1> SUFFICES ASSUME Init PROVE ReportInv
  OBVIOUS
<1>1. sent = {} /\ \A d \in Devices : job[d] = Idle /\ baselined[d] /\ resolutions[d] = <<>>
  BY DEF Init, EnvelopeInit
<1>2. \A d \in Devices : CommandReports(d, job[d])
  BY <1>1 DEF CommandReports, Idle
<1>3. ASSUME NEW d \in Devices, NEW e \in Entities PROVE RecordReports(d, e)
  <2>1. meta[d][e].hash = Begun(e)
    BY DEF Init, BaselineRevision, Begun
  <2>2. e \in Original => Yields(e, meta[d][e].hash)
    <3>1. Contents = Entities
      BY DEF Init, Contents
    <3> QED BY <2>1, <3>1, ContentOverItself DEF Yields, Begun
  <2> QED BY <2>1, <2>2 DEF RecordReports
<1> QED BY <1>1, <1>2, <1>3 DEF ReportInv

(* There are no more than two devices: a change goes to the peer it is        *)
(* exported to, and to no third one.                                          *)
Paired == \A c, d, p \in Devices : c = d \/ d = p \/ c = p

(* Two devices that were never in conflict, have nothing left to exchange and *)
(* left no change out agree on every row and every deletion, for any number   *)
(* of entities, edits, files and crashes, unless an import repeated after a   *)
(* crash has brought an older version of an erased row back.                  *)
THEOREM DevicesConverge ==
  ASSUME Paired PROVE Spec => []ConvergedWithoutConflict
<1>1. SyncInv /\ EditInv /\ ReportInv => ConvergedWithoutConflict
  <2> SUFFICES ASSUME SyncInv, EditInv, ReportInv, Settled, Undisputed, ~Overturned,
                      NEW d \in Devices, NEW p \in Devices, NEW e \in Entities
               PROVE  Agree(d, p, e)
    BY DEF ConvergedWithoutConflict, Converged, Undisputed
  <2>1. ASSUME NEW c \in Devices, NEW q \in Devices, c # q PROVE
          \/ meta[c][e].hash = NoHash /\ e \notin Original
          \/ Yields(meta[c][e].hash, meta[q][e].hash)
    <3>1. RecordReports(c, e) /\ RecordReports(q, e)
      BY DEF ReportInv
    <3>2. CASE meta[c][e].hash = Begun(e)
      BY <3>1, <3>2 DEF RecordReports, Begun
    <3>3. CASE Reported(e, meta[c][e].hash)
      <4>1. \A x \in Devices : job[x].op # "sending"
        BY DEF Settled, Quiet, Idle
      <4>2. PICK m \in sent : \E n \in m.payload.entries : n.ent = e /\ n.rec.hash = meta[c][e].hash
        BY <3>3, <4>1 DEF Reported, Reports
      <4>3. m.from \in Devices /\ m.to \in Devices /\ m.from # m.to
        BY DEF SyncInv, EnvelopeInv, EnvelopeTypeOK, ReportInv, FileReports
      <4>4. m.id \in completed[m.to]
        BY <4>3 DEF Settled, Quiet
      <4>5. q \in {m.from, m.to}
        BY <2>1, <4>3 DEF Paired
      <4>6. Passed(q, m.payload)
        BY <4>4, <4>5 DEF ReportInv, FileReports
      <4> QED BY <4>2, <4>6 DEF Passed
    <3> QED BY <3>1, <3>2, <3>3 DEF RecordReports
  <2>2. CASE d = p
    BY <2>2 DEF Agree
  <2>3. CASE d # p
    <3>1. PICK x, y : x = meta[d][e].hash /\ y = meta[p][e].hash
      OBVIOUS
    <3>2. /\ (x = NoHash /\ e \notin Original) \/ Yields(x, y)
          /\ (y = NoHash /\ e \notin Original) \/ Yields(y, x)
      BY <2>1, <2>3, <3>1
    <3>3. NoHash \notin Contents /\ Gone \notin Contents /\ Gone # NoHash
      BY HistoryDomain DEF EditInv, NoHash, Gone
    <3>4. x = y
      <4>0. {NoHash, Gone} \cap (Under(x) \cup Under(y)) = {}
        BY <3>3, UnderIsContent DEF EditInv
      <4>1. CASE x = NoHash \/ y = NoHash
        BY <3>2, <3>3, <4>0, <4>1 DEF Yields, Under
      <4>2. CASE x = Gone \/ y = Gone
        BY <3>2, <3>3, <4>0, <4>2 DEF Yields
      <4>3. CASE x \in Under(y) /\ y \in Under(x)
        BY <4>3 DEF Overturned, Under
      <4> QED BY <3>2, <4>1, <4>2, <4>3 DEF Yields
    <3>5. ASSUME NEW c \in Devices, meta[c][e].hash # Gone PROVE dom[c][e] = meta[c][e].hash
      <4>1. Changed(c) = {} /\ baselined[c]
        BY DEF Settled, Quiet
      <4>2. e \notin Rewritten(c) /\ e \notin Vanished(c)
        BY <4>1 DEF Changed
      <4> QED BY <3>5, <4>2 DEF Rewritten, Vanished, Candidates
    <3> QED BY <3>1, <3>4, <3>5 DEF Agree
  <2> QED BY <2>2, <2>3
<1>2. SyncInv /\ EditInv /\ ReportInv /\ [Next]_vars => ReportInv'
  BY ReportsHold
<1> QED BY <1>1, <1>2, ReportsFirst, EditInvariant, PTL DEF Spec

=============================================================================
