---------------------------- MODULE SyncEnvelope ----------------------------
(* The envelopes of persona_sync_crypto.py: device identity, trust in peers,  *)
(* the outbound sequence and the replay state of received messages.           *)
(*                                                                            *)
(* Keys are numbers: the n-th key a device generated.  The cipher is assumed: *)
(* an envelope opens for its recipient under the two keys it was sealed with  *)
(* and nowhere else, and its fields cannot be changed.  Envelopes travel as   *)
(* files: any file may be imported at any time, again, late or never.         *)
EXTENDS Integers, FiniteSets

CONSTANTS
  Devices,       \* installations of one persona
  ReplayLimit,   \* received_message rows kept per sender (100_000)
  MaxSequence,   \* last outbound sequence (0x7FFFFFFFFFFFFFFF)
  MaxKeys,       \* bound: keys a device generates
  MaxRevocations \* bound: trust withdrawn by a user

ASSUME EnvelopeAssumption ==
  {ReplayLimit, MaxSequence, MaxKeys, MaxRevocations} \subseteq Nat

VARIABLES
  secret,      \* secret[d]: private key in the OS credential store, 0 if gone
  anchor,      \* anchor[d]: key of identity_anchor
  made,        \* made[d]: keys generated so far (history)
  trust,       \* trust[d][p]: the trusted_peer row
  outbound,    \* outbound[d][p]: the outbound_sequence row
  received,    \* received[d]: the received_message rows
  highest,     \* highest[d][p]: the peer_sequence row
  sent,        \* every envelope ever written to a file
  revocations  \* counter for the bound

envelopeVars == <<secret, anchor, made, trust, outbound, received, highest,
                  sent, revocations>>

Peers(d) == Devices \ {d}
Stranger == [state |-> "UNKNOWN", key |-> 0]
TrustRow == [state : {"UNKNOWN", "TRUSTED", "REVOKED"}, key : Nat]
ReceivedRow == [from : Devices, id : Nat, sequence : Nat,
                state : {"PENDING", "APPLIED"}]

EnvelopeTypeOK ==
  /\ {secret, anchor, made} \subseteq [Devices -> Nat]
  /\ trust \in [Devices -> [Devices -> TrustRow]]
  /\ {outbound, highest} \subseteq [Devices -> [Devices -> Nat]]
  /\ received \in [Devices -> SUBSET ReceivedRow]
  /\ \A m \in sent : /\ {m.from, m.to} \subseteq Devices
                     /\ {m.id, m.sequence, m.fromKey, m.toKey} \subseteq Nat
  /\ revocations \in Nat

\* Both devices have been paired with their first keys.
EnvelopeInit ==
  /\ secret = [d \in Devices |-> 1]
  /\ anchor = secret
  /\ made = secret
  /\ trust = [d \in Devices |-> [p \in Devices |->
                IF p = d THEN Stranger ELSE [state |-> "TRUSTED", key |-> 1]]]
  /\ outbound = [d \in Devices |-> [p \in Devices |-> 0]]
  /\ received = [d \in Devices |-> {}]
  /\ highest = outbound
  /\ sent = {}
  /\ revocations = 0

(* identity() comes first in every command: a device acts under the key its   *)
(* anchor names, or repairs the anchor before anything else.                  *)
Identified(d) == secret[d] # 0 /\ secret[d] = anchor[d]

\* The credential store loses the key.
LoseSecret(d) ==
  /\ secret[d] # 0 /\ made[d] < MaxKeys
  /\ secret' = [secret EXCEPT ![d] = 0]
  /\ UNCHANGED <<anchor, made, trust, outbound, received, highest, sent, revocations>>

\* identity(): the new key is stored before the anchor is written.
GenerateSecret(d) ==
  /\ secret[d] = 0
  /\ made' = [made EXCEPT ![d] = @ + 1]
  /\ secret' = [secret EXCEPT ![d] = made'[d]]
  /\ UNCHANGED <<anchor, trust, outbound, received, highest, sent, revocations>>

\* identity(): a changed fingerprint drops trust, replay state and sequences.
ResetAnchor(d) ==
  /\ secret[d] \notin {0, anchor[d]}
  /\ anchor' = [anchor EXCEPT ![d] = secret[d]]
  /\ trust' = [trust EXCEPT ![d] = [p \in Devices |->
                 IF @[p] = Stranger THEN @[p] ELSE [@[p] EXCEPT !.state = "REVOKED"]]]
  /\ outbound' = [outbound EXCEPT ![d] = [p \in Devices |-> 0]]
  /\ received' = [received EXCEPT ![d] = {}]
  /\ highest' = [highest EXCEPT ![d] = [p \in Devices |-> 0]]
  /\ UNCHANGED <<secret, made, sent, revocations>>

\* As Pair, starting the sequence towards the peer again.
PairResetting(d, p) ==
  /\ p # d /\ Identified(d) /\ Identified(p)
  /\ trust[d][p] # [state |-> "TRUSTED", key |-> anchor[p]]
  /\ trust' = [trust EXCEPT ![d][p] = [state |-> "TRUSTED", key |-> anchor[p]]]
  /\ outbound' = [outbound EXCEPT ![d][p] = 0]
  /\ UNCHANGED <<secret, anchor, made, received, highest, sent, revocations>>

(* The user confirms the fingerprint the peer shows: the key is its present   *)
(* one.  Sequences and replay state stay as they are.                         *)
Pair(d, p) ==
  /\ p # d /\ Identified(d) /\ Identified(p)
  /\ trust[d][p] # [state |-> "TRUSTED", key |-> anchor[p]]
  /\ trust' = [trust EXCEPT ![d][p] = [state |-> "TRUSTED", key |-> anchor[p]]]
  /\ UNCHANGED <<secret, anchor, made, outbound, received, highest, sent, revocations>>

\* As Revoke, cleaning up what was received from the peer.
RevokeForgetting(d, p) ==
  /\ trust[d][p].state = "TRUSTED" /\ revocations < MaxRevocations
  /\ trust' = [trust EXCEPT ![d][p].state = "REVOKED"]
  /\ received' = [received EXCEPT ![d] = {r \in @ : r.from # p}]
  /\ highest' = [highest EXCEPT ![d][p] = 0]
  /\ revocations' = revocations + 1
  /\ UNCHANGED <<secret, anchor, made, outbound, sent>>

Revoke(d, p) ==
  /\ trust[d][p].state = "TRUSTED" /\ revocations < MaxRevocations
  /\ trust' = [trust EXCEPT ![d][p].state = "REVOKED"]
  /\ revocations' = revocations + 1
  /\ UNCHANGED <<secret, anchor, made, outbound, received, highest, sent>>

(* encrypt: the sequence is taken in a transaction of its own, then the       *)
(* payload is sealed.  A failure after it leaves a gap.                       *)
MayEncrypt(d, p) ==
  /\ Identified(d)
  /\ trust[d][p].state = "TRUSTED"
  /\ outbound[d][p] < MaxSequence

TakeSequence(d, p) == outbound' = [outbound EXCEPT ![d][p] = @ + 1]

Sealed(d, p, payload) ==
  [id |-> Cardinality(sent) + 1, from |-> d, to |-> p,
   fromKey |-> anchor[d], toKey |-> trust[d][p].key,
   sequence |-> outbound[d][p] + 1, payload |-> payload]

Encrypt(d, p, payload) ==
  /\ MayEncrypt(d, p)
  /\ TakeSequence(d, p)
  /\ sent' = sent \cup {Sealed(d, p, payload)}
  /\ UNCHANGED <<secret, anchor, made, trust, received, highest, revocations>>

WasteSequence(d, p) ==
  /\ MayEncrypt(d, p)
  /\ TakeSequence(d, p)
  /\ UNCHANGED <<secret, anchor, made, trust, received, highest, sent, revocations>>

(* decrypt_and_reserve                                                        *)
Opens(d, m) ==
  /\ m.to = d /\ Identified(d) /\ m.toKey = anchor[d]
  /\ trust[d][m.from] = [state |-> "TRUSTED", key |-> m.fromKey]

ReceiptOf(d, m) == {r \in received[d] : r.from = m.from /\ r.id = m.id}

PendingFrom(d, p) == {r \in received[d] : r.from = p /\ r.state = "PENDING"}

Retries(d, m) ==
  \E r \in ReceiptOf(d, m) : r.sequence = m.sequence /\ r.state = "PENDING"

Fresh(d, m) ==
  /\ ReceiptOf(d, m) = {}
  /\ m.sequence > highest[d][m.from]
  /\ \A r \in PendingFrom(d, m.from) : m.sequence > r.sequence
  /\ Cardinality({r \in received[d] : r.from = m.from}) < ReplayLimit

Reserve(d, m) ==
  /\ Opens(d, m)
  /\ \/ /\ Retries(d, m)
        /\ UNCHANGED received
     \/ /\ Fresh(d, m)
        /\ received' = [received EXCEPT ![d] = @ \cup
             {[from |-> m.from, id |-> m.id, sequence |-> m.sequence,
               state |-> "PENDING"]}]
  /\ UNCHANGED <<secret, anchor, made, trust, outbound, highest, sent, revocations>>

\* complete_inbound
CompleteInbound(d, m) ==
  /\ Retries(d, m)
  /\ received' = [received EXCEPT ![d] =
       {IF r.id = m.id THEN [r EXCEPT !.state = "APPLIED"] ELSE r : r \in @}]
  /\ highest' = [highest EXCEPT ![d][m.from] =
       IF m.sequence > @ THEN m.sequence ELSE @]
  /\ UNCHANGED <<secret, anchor, made, trust, outbound, sent, revocations>>

(* A nonce is derived from the two keys and the sequence: no two envelopes    *)
(* may share them, although sequences restart when a device loses its key.    *)
NonceUnique ==
  \A m, n \in sent :
    <<m.from, m.to, m.fromKey, m.toKey, m.sequence>>
      = <<n.from, n.to, n.fromKey, n.toKey, n.sequence>> => m = n

=============================================================================
