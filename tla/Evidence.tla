------------------------------- MODULE Evidence -------------------------------
(* The running totals a persona keeps of what happened to it: its needs       *)
(* (goals.py), the relationship (relationship.py) and its emotional state     *)
(* (internal_state.py).  Each is one durable row that events change by an     *)
(* amount depending on what the row holds, and a log with one row per event   *)
(* that makes an event count once.                                            *)
(*                                                                            *)
(* A value is the bag of the events that went into it: totals differ when and *)
(* only when their events do, and a lost update is an event missing from the  *)
(* bag.  `total` says which of the three a behaviour is about.                *)
EXTENDS WriterLock

CONSTANTS
  Workers,      \* tasks that apply events: requests, recovery, retries
  Events,       \* what is counted: experiences, messages, need signals
  MaxTries      \* RELATIONSHIP_ and NEED_EVENT_MAX_ATTEMPTS

ASSUME EvidenceAssumption ==
  /\ None \notin Workers
  /\ MaxTries \in Nat \ {0}

VARIABLES
  total,      \* "need", "relationship" or "emotion"
  claims,     \* events with a row in the log
  absorbed,   \* absorbed[s]: how often the event s went into the durable value
  step,       \* step[w]: how far the task is
  event,      \* event[w]: the event it applies
  hint,       \* hint[w]: the value its caller read, needs or current_state
  base,       \* base[w]: the value it read in its transaction
  tries       \* tries[w]: transactions it began

workVars == <<step, event, hint, base, tries>>
evidenceVars == <<total, claims, absorbed, workVars>>

Nothing == [s \in Events |-> 0]
With(value, s) == [value EXCEPT ![s] = @ + 1]

\* update_from_user_event does not try again.
Limit == IF total = "emotion" THEN 1 ELSE MaxTries

EvidenceInit ==
  /\ total \in {"need", "relationship", "emotion"}
  /\ claims = {} /\ absorbed = Nothing
  /\ step = [w \in Workers |-> "idle"]
  /\ event = [w \in Workers |-> None]
  /\ hint = [w \in Workers |-> Nothing]
  /\ base = [w \in Workers |-> Nothing]
  /\ tries = [w \in Workers |-> 0]

To(w, place) == step' = [step EXCEPT ![w] = place]

Ends(w) ==
  /\ To(w, "idle")
  /\ event' = [event EXCEPT ![w] = None]
  /\ hint' = [hint EXCEPT ![w] = Nothing]
  /\ base' = [base EXCEPT ![w] = Nothing]
  /\ tries' = [tries EXCEPT ![w] = 0]

-----------------------------------------------------------------------------
\* A call, with what its caller knows of the value: it was read before the
\* answer of the model and is used for provisional columns of the log only.
Begin(w, s) ==
  /\ step[w] = "idle" /\ Begins
  /\ To(w, "trying")
  /\ event' = [event EXCEPT ![w] = s]
  /\ hint' = [hint EXCEPT ![w] = absorbed]
  /\ tries' = [tries EXCEPT ![w] = 1]
  /\ UNCHANGED <<writer, total, claims, absorbed, base>>

\* insert ... on conflict do nothing: the first statement, so it takes the
\* reservation, and no row of an event that is already there.
Claim(w) ==
  /\ step[w] = "trying" /\ event[w] \notin claims
  /\ Reserves(w) /\ UNCHANGED <<faults, begun>>
  /\ To(w, "claimed")
  /\ UNCHANGED <<total, claims, absorbed, event, hint, base, tries>>

Duplicate(w) ==
  /\ step[w] = "trying" /\ event[w] \in claims /\ Unreserved
  /\ Ends(w)
  /\ UNCHANGED <<lockVars, total, claims, absorbed>>

\* "database is locked": another transaction, or the exception of the last try.
Busy(w) ==
  /\ step[w] = "trying" /\ ~Unreserved
  /\ \/ /\ tries[w] < Limit
        /\ tries' = [tries EXCEPT ![w] = @ + 1]
        /\ UNCHANGED <<step, event, hint, base>>
     \/ tries[w] >= Limit /\ Ends(w)
  /\ UNCHANGED <<lockVars, total, claims, absorbed>>

Read(w) ==
  /\ step[w] = "claimed" /\ Holds(w)
  /\ To(w, "read")
  /\ base' = [base EXCEPT ![w] = absorbed]
  /\ UNCHANGED <<lockVars, total, claims, absorbed, event, hint, tries>>

\* Mutant of Apply: the caller's value is taken for the current one.
ApplyHint(w) ==
  /\ step[w] = "read" /\ Releases(w) /\ UNCHANGED <<faults, begun>>
  /\ absorbed' = With(hint[w], event[w])
  /\ claims' = claims \cup {event[w]}
  /\ Ends(w)
  /\ UNCHANGED total

\* The row and its log row are written and the transaction commits.  The needs
\* and the relationship are updated on the condition that the row still is what
\* was read, and tried again if it is not: under the reservation it always is.
\* The emotional state is overwritten.
Apply(w) ==
  /\ step[w] = "read" /\ Releases(w) /\ UNCHANGED <<faults, begun>>
  /\ total # "emotion" => absorbed = base[w]
  /\ absorbed' = With(base[w], event[w])
  /\ claims' = claims \cup {event[w]}
  /\ Ends(w)
  /\ UNCHANGED total

\* A statement or the commit fails with any other error, which is not retried.
Fail(w) ==
  /\ step[w] \in {"claimed", "read"} /\ RollsBack(w)
  /\ Ends(w)
  /\ UNCHANGED <<total, claims, absorbed>>

Expire(w) ==
  /\ step[w] \in {"claimed", "read"} /\ ServerEnds(w)
  /\ UNCHANGED evidenceVars

EvidenceRestart ==
  /\ step' = [w \in Workers |-> "idle"]
  /\ event' = [w \in Workers |-> None]
  /\ hint' = [w \in Workers |-> Nothing]
  /\ base' = [w \in Workers |-> Nothing]
  /\ tries' = [w \in Workers |-> 0]
  /\ UNCHANGED <<total, claims, absorbed>>

WorkSteps(w) ==
  \/ \E s \in Events : Begin(w, s)
  \/ Claim(w)
  \/ Duplicate(w)
  \/ Busy(w)
  \/ Read(w)
  \/ Apply(w)
  \/ Fail(w)
  \/ Expire(w)

-----------------------------------------------------------------------------
(* Property.                                                                  *)

\* An event went into the durable value once if the log has it and never if it
\* does not: none is lost to a concurrent one, and none is counted twice by a
\* retry, a second request for it, or the recovery after a restart.
CountedOnce ==
  \A s \in Events : absorbed[s] = IF s \in claims THEN 1 ELSE 0

=============================================================================
