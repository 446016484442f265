-------------------------- MODULE MigrationsProofs --------------------------
(* Proofs about Migrations, for every set of processes and personas and      *)
(* every number of failures.                                                 *)
EXTENDS Migrations, TLAPS

Versions == 21 .. 24

Bound(d) == "metadata" \in d.tables

LEMMA Released ==
  ASSUME NEW v \in Versions, NEW rows \in Ledgers(v)
  PROVE  Versioned(v, rows) \in Recognised
<1>1. v \in Registered \cup {Target}
  BY DEF Versions, Registered, Target
<1> QED BY <1>1 DEF Recognised

LEMMA RecognisedCases ==
  ASSUME NEW d \in Recognised
  PROVE  \/ d = Empty \/ d = Versionless(21) \/ d = Versionless(24)
         \/ \E v \in Versions : \E rows \in Ledgers(v) : d = Versioned(v, rows)
BY DEF Recognised, Versions, Registered, Target

LEMMA LedgerCases ==
  ASSUME NEW v \in Versions, NEW rows \in Ledgers(v), rows # {}
  PROVE  \E b \in 21 .. v : rows = {Baseline(b)} \cup {Step(w) : w \in b .. v - 1}
BY DEF Ledgers

LEMMA EmptyFields ==
  /\ Empty.tables = {} /\ Empty.version = 0 /\ Empty.ledger = {} /\ Empty.flaw = "none"
  /\ Empty.context = FALSE
BY DEF Empty, Database, NoVersion

LEMMA VersionlessFields ==
  ASSUME NEW v \in Versions
  PROVE  /\ Versionless(v).tables = SchemaOf(v) /\ Versionless(v).version = 0
         /\ Versionless(v).ledger = {} /\ Versionless(v).flaw = "none"
         /\ Versionless(v).context = HasContext(v)
BY DEF Versionless, Database, NoVersion

LEMMA VersionedFields ==
  ASSUME NEW v \in Versions, NEW rows
  PROVE  /\ Versioned(v, rows).tables = SchemaOf(v) \cup {"metadata"}
                                        \cup (IF rows = {} THEN {} ELSE {"ledger"})
         /\ Versioned(v, rows).version = v /\ Versioned(v, rows).ledger = rows
         /\ Versioned(v, rows).flaw = "none" /\ Versioned(v, rows).context = HasContext(v)
BY DEF Versioned, Database

LEMMA SchemaTables ==
  ASSUME NEW v \in Versions
  PROVE  /\ SchemaOf(v) \subseteq Required
         /\ "metadata" \notin SchemaOf(v) /\ "ledger" \notin SchemaOf(v)
         /\ "core" \in SchemaOf(v) /\ "rest" \in SchemaOf(v)
         /\ "turns" \in SchemaOf(v) <=> v >= 22
         /\ "executions" \in SchemaOf(v) <=> v = 24
BY DEF SchemaOf, Required, Versions

\* A recognised database with a version is the release of that version; one
\* without is empty or was released before there were versions.
LEMMA UnboundCases ==
  ASSUME NEW d \in Recognised, ~Bound(d)
  PROVE  d = Empty \/ d = Versionless(21) \/ d = Versionless(24)
BY RecognisedCases, VersionedFields DEF Bound

LEMMA BoundCase ==
  ASSUME NEW d \in Recognised, Bound(d) \/ d.version # 0
  PROVE  /\ Bound(d) /\ d.version \in Versions /\ d.ledger \in Ledgers(d.version)
         /\ d = Versioned(d.version, d.ledger)
<1>1. 21 \in Versions /\ 24 \in Versions
  BY DEF Versions
<1>2. d # Empty
  BY EmptyFields DEF Bound
<1>3. d # Versionless(21) /\ d # Versionless(24)
  BY <1>1, VersionlessFields, SchemaTables DEF Bound
<1> QED BY <1>2, <1>3, RecognisedCases, VersionedFields DEF Bound

Reports == [tables : SUBSET Tables, context : BOOLEAN, version : Nat]

LEMMA RecognisedType ==
  ASSUME NEW d \in Recognised
  PROVE  /\ d.tables \subseteq Tables /\ d.context \in BOOLEAN /\ d.version \in Nat
         /\ d.flaw = "none"
<1>1. 21 \in Versions /\ 24 \in Versions
  BY DEF Versions
<1>2. \A v \in Versions : SchemaOf(v) \subseteq Tables
  BY SchemaTables DEF Tables
<1>3. \A v \in Versions : HasContext(v) \in BOOLEAN
  BY DEF HasContext
<1>4. d.tables \subseteq Tables
  <2>1. {"metadata", "ledger"} \subseteq Tables
    BY DEF Tables
  <2> QED BY <1>1, <1>2, <2>1, RecognisedCases, EmptyFields, VersionlessFields, VersionedFields
<1>5. d.context \in BOOLEAN
  <2>1. \/ d.context = FALSE
        \/ \E v \in Versions : d.context = HasContext(v)
    BY <1>1, RecognisedCases, EmptyFields, VersionlessFields, VersionedFields
  <2>2. ASSUME NEW v \in Versions, d.context = HasContext(v) PROVE d.context \in BOOLEAN
    BY <1>3, <2>2, Zenon
  <2> QED BY <2>1, <2>2, Zenon
<1>6. d.version \in Nat /\ d.flaw = "none"
  <2>1. Versions \subseteq Nat /\ 0 \in Nat
    BY DEF Versions
  <2> QED BY <1>1, <2>1, RecognisedCases, EmptyFields, VersionlessFields, VersionedFields
<1> QED BY <1>4, <1>5, <1>6

---------------------------------------------------------------------------
(* The transactions, on a recognised database *)

LEMMA Bootstrapped == Versioned(Target, {}) \in Recognised /\ Bound(Versioned(Target, {}))
<1>1. 24 \in Versions /\ {} \in Ledgers(24) /\ Target = 24
  BY DEF Versions, Ledgers, Target
<1> QED BY <1>1, Released, VersionedFields DEF Bound

LEMMA Adopted ==
  ASSUME NEW v \in {21, 24}, db = Versionless(v)
  PROVE  AdoptedAs(v) \in Recognised /\ Bound(AdoptedAs(v))
<1>1. v \in Versions
  BY DEF Versions
<1>2. {Baseline(v)} \in Ledgers(v)
  <2>1. v \in 21 .. v /\ {Step(w) : w \in v .. v - 1} = {}
    BY <1>1 DEF Versions
  <2>2. {Baseline(v)} = {Baseline(v)} \cup {Step(w) : w \in v .. v - 1}
    BY <2>1
  <2> QED BY <2>1, <2>2 DEF Ledgers
<1>3. db = [tables |-> SchemaOf(v), context |-> HasContext(v), version |-> 0,
            ledger |-> {}, flaw |-> "none"]
  BY DEF Versionless, Database, NoVersion
<1>4. AdoptedAs(v) = [tables |-> SchemaOf(v) \cup {"metadata", "ledger"},
                      context |-> HasContext(v), version |-> v,
                      ledger |-> {} \cup {Baseline(v)}, flaw |-> "none"]
  BY <1>3 DEF AdoptedAs, Becomes
<1>5. AdoptedAs(v) = Versioned(v, {Baseline(v)})
  <2>1. {} \cup {Baseline(v)} = {Baseline(v)} /\ {Baseline(v)} # {}
    OBVIOUS
  <2>2. SchemaOf(v) \cup {"metadata", "ledger"} = SchemaOf(v) \cup {"metadata"} \cup {"ledger"}
    OBVIOUS
  <2> QED BY <1>4, <2>1, <2>2 DEF Versioned, Database
<1> QED BY <1>1, <1>2, <1>5, Released, VersionedFields DEF Bound

LEMMA LedgerAdopted ==
  ASSUME db \in Recognised, Bound(db), db.ledger = {}
  PROVE  LET e == Becomes(db.tables \cup {"ledger"}, db.context, db.version, {Baseline(db.version)})
         IN  e \in Recognised /\ Bound(e) /\ e.version = db.version /\ e.ledger # {}
<1> DEFINE v == db.version
           e == Becomes(db.tables \cup {"ledger"}, db.context, v, {Baseline(v)})
<1>1. v \in Versions /\ db = Versioned(v, {})
  BY BoundCase
<1>2. {Baseline(v)} \in Ledgers(v)
  <2>1. v \in 21 .. v /\ {Step(w) : w \in v .. v - 1} = {}
    BY <1>1 DEF Versions
  <2>2. {Baseline(v)} = {Baseline(v)} \cup {Step(w) : w \in v .. v - 1}
    BY <2>1
  <2> QED BY <2>1, <2>2 DEF Ledgers
<1>3. db = [tables |-> SchemaOf(v) \cup {"metadata"} \cup {}, context |-> HasContext(v),
            version |-> v, ledger |-> {}, flaw |-> "none"]
  BY <1>1 DEF Versioned, Database
<1>4. e = [tables |-> SchemaOf(v) \cup {"metadata"} \cup {} \cup {"ledger"},
           context |-> HasContext(v), version |-> v,
           ledger |-> {Baseline(v)}, flaw |-> "none"]
  <2> HIDE DEF v
  <2> QED BY <1>3 DEF Becomes
<1>5. e = Versioned(v, {Baseline(v)})
  <2> HIDE DEF v
  <2>1. {Baseline(v)} # {}
    OBVIOUS
  <2>2. SchemaOf(v) \cup {"metadata"} \cup {} \cup {"ledger"}
          = SchemaOf(v) \cup {"metadata"} \cup {"ledger"}
    OBVIOUS
  <2> HIDE DEF e
  <2> QED BY <1>4, <2>1, <2>2 DEF Versioned, Database
<1> HIDE DEF e, v
<1>6. e \in Recognised /\ Bound(e) /\ e.version = v /\ e.ledger # {}
  BY <1>1, <1>2, <1>5, Released, VersionedFields DEF Bound
<1> QED BY <1>6 DEF e, v

LEMMA StepApplied ==
  ASSUME db \in Recognised, db.ledger # {}, NEW v \in Registered, db.version = v
  PROVE  /\ Migrated(v) \in Recognised /\ Bound(Migrated(v))
         /\ Migrated(v).version = v + 1 /\ Migrated(v).ledger # {}
<1>1. /\ v \in Versions /\ v + 1 \in Versions /\ v \in Nat
      /\ db = Versioned(v, db.ledger) /\ db.ledger \in Ledgers(v)
  BY BoundCase DEF Versions, Registered
<1>2. PICK b \in 21 .. v : db.ledger = {Baseline(b)} \cup {Step(w) : w \in b .. v - 1}
  BY <1>1, LedgerCases
<1> DEFINE rows == db.ledger \cup {Step(v)}
<1>3. rows \in Ledgers(v + 1)
  <2>1. b .. (v + 1) - 1 = (b .. v - 1) \cup {v}
    BY <1>1 DEF Versions
  <2>2. rows = {Baseline(b)} \cup {Step(w) : w \in b .. (v + 1) - 1}
    BY <1>2, <2>1
  <2>3. b \in 21 .. v + 1
    BY <1>1 DEF Versions
  <2> QED BY <2>2, <2>3 DEF Ledgers
<1>4. rows # {}
  OBVIOUS
<1>5. Migrated(v) = Versioned(v + 1, rows)
  <2> DEFINE t == SchemaOf(v) \cup {"metadata"} \cup {"ledger"}
  <2>1. db = [tables |-> t, context |-> HasContext(v), version |-> v,
              ledger |-> db.ledger, flaw |-> "none"]
    BY <1>1 DEF Versioned, Database
  <2>2. Migrated(v) = [tables |-> t \cup SchemaOf(v + 1), context |-> HasContext(v + 1),
                       version |-> v + 1, ledger |-> rows, flaw |-> "none"]
    <3> HIDE DEF t
    <3> QED BY <2>1 DEF Migrated, Becomes
  <2>3. SchemaOf(v) \subseteq SchemaOf(v + 1)
    BY <1>1 DEF SchemaOf, Versions
  <2>4. t \cup SchemaOf(v + 1) = SchemaOf(v + 1) \cup {"metadata"} \cup {"ledger"}
    BY <2>3
  <2> HIDE DEF t, rows
  <2> QED BY <2>2, <2>4, <1>4 DEF Versioned, Database
<1> HIDE DEF rows
<1> QED BY <1>1, <1>3, <1>4, <1>5, Released, VersionedFields DEF Bound
---------------------------------------------------------------------------
(* The databases that are to stay as they are *)

BadLedger(d) == d.ledger # {} /\ ~ValidLedger(d.ledger, d.version)

\* What is wrong with a stranger is one of five things.
Wrong(d) ==
  \/ "rest" \notin d.tables
  \/ d.flaw # "none"
  \/ Bound(d) /\ d.version \notin Versions
  \/ Bound(d) /\ BadLedger(d)
  \/ /\ ~Bound(d) /\ "executions" \notin d.tables
     /\ "turns" \in d.tables \/ "ledger" \in d.tables

Typed(d) ==
  /\ d.tables \subseteq Tables /\ d.context \in BOOLEAN /\ d.version \in Nat
  /\ "core" \in d.tables

LEMMA Kinds ==
  \A b, c \in Nat : /\ Baseline(b) # Altered(c) /\ Baseline(b) # Step(c)
                    /\ Baseline(b) = Baseline(c) => b = c
BY DEF Baseline, Altered, Step

LEMMA BadLedgers ==
  ASSUME NEW v \in Versions
  PROVE  /\ ~ValidLedger({Altered(v)}, v)
         /\ ~ValidLedger({Baseline(v - 1)}, v)
         /\ ~ValidLedger({Step(22)}, 23)
<1>1. v \in Nat /\ v - 1 \in Nat /\ 22 \in Nat /\ 1 .. v \subseteq Nat /\ 1 .. 23 \subseteq Nat
  BY DEF Versions
<1>2. ~ValidLedger({Altered(v)}, v)
  BY <1>1, Kinds DEF ValidLedger
<1>3. ~ValidLedger({Step(22)}, 23)
  <2> SUFFICES ASSUME NEW b \in 1 .. 23,
                      {Step(22)} = {Baseline(b)} \cup {Step(w) : w \in b .. 23 - 1}
               PROVE  FALSE
    BY DEF ValidLedger
  <2>1. Baseline(b) = Step(22) /\ b \in Nat
    OBVIOUS
  <2> QED BY <1>1, <2>1, Kinds
<1>4. ~ValidLedger({Baseline(v - 1)}, v)
  <2> SUFFICES ASSUME NEW b \in 1 .. v,
                      {Baseline(v - 1)} = {Baseline(b)} \cup {Step(w) : w \in b .. v - 1}
               PROVE  FALSE
    BY DEF ValidLedger
  <2>1. Baseline(b) = Baseline(v - 1)
    OBVIOUS
  <2>2. b = v - 1
    BY <1>1, <2>1, Kinds
  <2>3. v - 1 \in b .. v - 1
    BY <1>1, <2>2
  <2>4. Step(v - 1) = Baseline(v - 1)
    BY <2>3
  <2> QED BY <1>1, <2>4, Kinds
<1> QED BY <1>2, <1>3, <1>4

LEMMA VersionlessTyped ==
  ASSUME NEW v \in Versions
  PROVE  Typed(Versionless(v))
<1>1. HasContext(v) \in BOOLEAN
  BY DEF HasContext
<1>2. SchemaOf(v) \subseteq Tables /\ "core" \in SchemaOf(v) /\ 0 \in Nat
  BY SchemaTables DEF Tables
<1> QED BY <1>1, <1>2, VersionlessFields DEF Typed

LEMMA VersionedTyped ==
  ASSUME NEW v \in Versions, NEW rows
  PROVE  Typed(Versioned(v, rows)) /\ Bound(Versioned(v, rows))
<1>1. HasContext(v) \in BOOLEAN
  BY DEF HasContext
<1>2. SchemaOf(v) \cup {"metadata", "ledger"} \subseteq Tables /\ "core" \in SchemaOf(v) /\ v \in Nat
  BY SchemaTables DEF Tables, Versions
<1> QED BY <1>1, <1>2, VersionedFields DEF Typed, Bound

\* A flaw, a missing table or a strange version on top of a typed database
LEMMA ChangedFields ==
  ASSUME NEW t, NEW c, NEW v, NEW rows, NEW x, NEW d, d = Database(t, c, v, rows)
  PROVE  /\ [d EXCEPT !.tables = x].tables = x
         /\ [d EXCEPT !.tables = x].context = c
         /\ [d EXCEPT !.tables = x].version = v
         /\ [d EXCEPT !.flaw = x].tables = t
         /\ [d EXCEPT !.flaw = x].context = c
         /\ [d EXCEPT !.flaw = x].version = v
         /\ [d EXCEPT !.flaw = x].flaw = x
         /\ [d EXCEPT !.version = x].tables = t
         /\ [d EXCEPT !.version = x].context = c
         /\ [d EXCEPT !.version = x].version = x
         /\ d.tables = t /\ d.context = c /\ d.version = v /\ d.ledger = rows
BY DEF Database


LEMMA AsDatabase ==
  ASSUME NEW v \in Versions
  PROVE  /\ \A rows : \E tables : Versioned(v, rows) = Database(tables, HasContext(v), v, rows)
         /\ Versionless(v) = Database(SchemaOf(v), HasContext(v), 0, {})
BY DEF Versioned, Versionless, NoVersion

\* What a released database becomes when something is wrong with it
LEMMA WithoutRest ==
  ASSUME NEW t, NEW c, NEW v, NEW rows, NEW d, d = Database(t, c, v, rows), Typed(d)
  PROVE  LET e == [d EXCEPT !.tables = @ \ {"rest"}] IN Typed(e) /\ Wrong(e)
<1> DEFINE x == d.tables \ {"rest"}
           e == [d EXCEPT !.tables = x]
<1>1. e.tables = x /\ e.context = c /\ e.version = v /\ d.context = c /\ d.version = v
  BY ChangedFields
<1> HIDE DEF e
<1>2. Typed(e) /\ Wrong(e)
  BY <1>1 DEF Typed, Wrong
<1> QED BY <1>2 DEF e

LEMMA WithFlaw ==
  ASSUME NEW t, NEW c, NEW v, NEW rows, NEW d, d = Database(t, c, v, rows), Typed(d),
         NEW f \in {"structure", "data"}
  PROVE  LET e == [d EXCEPT !.flaw = f] IN Typed(e) /\ Wrong(e)
<1> DEFINE e == [d EXCEPT !.flaw = f]
<1>1. /\ e.tables = t /\ e.context = c /\ e.version = v /\ e.flaw = f
      /\ d.tables = t /\ d.context = c /\ d.version = v
  BY ChangedFields
<1> HIDE DEF e
<1>2. Typed(e) /\ Wrong(e)
  BY <1>1 DEF Typed, Wrong
<1> QED BY <1>2 DEF e

LEMMA WithVersion ==
  ASSUME NEW t, NEW c, NEW v, NEW rows, NEW d, d = Database(t, c, v, rows), Typed(d), Bound(d),
         NEW w \in Nat, w \notin Versions
  PROVE  LET e == [d EXCEPT !.version = w] IN Typed(e) /\ Wrong(e)
<1> DEFINE e == [d EXCEPT !.version = w]
<1>1. /\ e.tables = t /\ e.context = c /\ e.version = w
      /\ d.tables = t /\ d.context = c
  BY ChangedFields
<1> HIDE DEF e
<1>2. Typed(e) /\ Wrong(e)
  BY <1>1 DEF Typed, Wrong, Bound
<1> QED BY <1>2 DEF e

LEMMA OldTyped ==
  ASSUME NEW d \in Old \cup {Versioned(Target, rows) : rows \in Ledgers(Target)}
  PROVE  Typed(d) /\ \E t, c, v, rows : d = Database(t, c, v, rows)
<1>1. Registered \subseteq Versions /\ Target \in Versions /\ 21 \in Versions
  BY DEF Versions, Registered, Target
<1>2. \/ d = Versionless(21)
      \/ \E v \in Versions : \E rows : d = Versioned(v, rows)
  BY <1>1 DEF Old
<1> QED BY <1>1, <1>2, VersionlessTyped, VersionedTyped, AsDatabase

LEMMA StrangerWrong ==
  ASSUME NEW d \in Strangers
  PROVE  Typed(d) /\ Wrong(d)
<1>0. /\ 21 \in Versions /\ 22 \in Versions /\ 23 \in Versions /\ 24 \in Versions
      /\ Target = 24 /\ Registered \cup {Target} = Versions
      /\ 0 \notin Versions /\ 20 \notin Versions /\ 25 \notin Versions
      /\ 0 \in Nat /\ 20 \in Nat /\ 25 \in Nat
  BY DEF Versions, Registered, Target
<1>1. CASE d \in Partials
  <2>1. PICK e \in Old : d = [e EXCEPT !.tables = @ \ {"rest"}]
    BY <1>1 DEF Partials
  <2>2. PICK t, c, v, rows : e = Database(t, c, v, rows)
    BY OldTyped
  <2> QED BY <2>1, <2>2, OldTyped, WithoutRest
<1>2. CASE d \in Malformed
  <2>1. PICK e \in Old \cup {Versioned(Target, rows) : rows \in Ledgers(Target)},
             f \in {"structure", "data"} : d = [e EXCEPT !.flaw = f]
    BY <1>2 DEF Malformed
  <2>2. PICK t, c, v, rows : e = Database(t, c, v, rows)
    BY OldTyped
  <2> QED BY <2>1, <2>2, OldTyped, WithFlaw
<1>3. CASE d \in Misnumbered
  <2>1. PICK rows \in Ledgers(24), w \in {0, 20, 25} : d = [Versioned(24, rows) EXCEPT !.version = w]
    BY <1>0, <1>3 DEF Misnumbered, NoVersion
  <2> DEFINE e == Versioned(24, rows)
  <2>2. PICK t, c, v, q : e = Database(t, c, v, q)
    BY <1>0, AsDatabase
  <2>3. Typed(e) /\ Bound(e) /\ d = [e EXCEPT !.version = w] /\ w \in Nat /\ w \notin Versions
    BY <1>0, <2>1, VersionedTyped
  <2> HIDE DEF e
  <2> QED BY <2>2, <2>3, WithVersion
<1>4. CASE d \in Misled
  <2>1. \/ \E v \in Versions : \/ d = Versioned(v, {Altered(v)})
                              \/ d = Versioned(v, {Baseline(v - 1)})
        \/ d = Versioned(23, {Step(22)})
    BY <1>0, <1>4 DEF Misled
  <2>2. PICK v \in Versions :
           \E rows : d = Versioned(v, rows) /\ rows # {} /\ ~ValidLedger(rows, v)
    BY <1>0, <2>1, BadLedgers
  <2>3. PICK rows : d = Versioned(v, rows) /\ rows # {} /\ ~ValidLedger(rows, v)
    BY <2>2
  <2> QED BY <2>3, VersionedTyped, VersionedFields DEF Wrong, BadLedger
<1>5. CASE d = Versionless(22) \/ d = Versionless(23)
  BY <1>0, <1>5, VersionlessTyped, VersionlessFields, SchemaTables DEF Wrong, Bound
<1>6. CASE d = [Versionless(21) EXCEPT !.tables = @ \cup {"ledger"}]
  <2> DEFINE e == Versionless(21)
             x == e.tables \cup {"ledger"}
  <2>1. /\ Typed(e) /\ e.tables = SchemaOf(21)
        /\ e = Database(SchemaOf(21), HasContext(21), 0, {})
    BY <1>0, VersionlessTyped, VersionlessFields, AsDatabase
  <2>2. d = [e EXCEPT !.tables = x]
    BY <1>6
  <2> HIDE DEF e
  <2>3. /\ d.tables = x /\ d.context = e.context /\ d.version = e.version
    BY <2>1, <2>2, ChangedFields
  <2>4. ~Bound(d) /\ "ledger" \in d.tables /\ "executions" \notin d.tables
    BY <1>0, <2>1, <2>3, SchemaTables DEF Bound
  <2> QED BY <2>1, <2>3, <2>4 DEF Typed, Wrong, Tables
<1> QED BY <1>1, <1>2, <1>3, <1>4, <1>5, <1>6 DEF Strangers, Unreleased
---------------------------------------------------------------------------
(* What a report of a stranger is decided to be, if it is complete *)

LEMMA StrangerClassified ==
  ASSUME NEW d, Typed(d), Wrong(d), NEW r, r.tables = d.tables,
         r.version = (IF Bound(d) THEN d.version ELSE NoVersion)
  PROVE  /\ Classify(r, d.flaw # "none") # "COMPATIBLE_LEGACY"
         /\ Classify(r, d.flaw # "none") = "CURRENT" => Bound(d) /\ BadLedger(d)
         /\ Classify(r, d.flaw # "none") # "EMPTY"
<1>1. "core" \in r.tables /\ r.tables # {} /\ Target = 24 /\ 24 \in Versions
  BY DEF Typed, Target, Versions
<1>2. CASE "rest" \notin d.tables \/ (~Bound(d) /\ "executions" \notin d.tables)
  <2>1. MissingTables(r) # {}
    BY <1>2 DEF MissingTables, Required
  <2> QED BY <1>1, <2>1 DEF Classify
<1>3. CASE d.flaw # "none"
  BY <1>1, <1>3 DEF Classify
<1>4. CASE Bound(d) /\ d.version \notin Versions
  BY <1>1, <1>4 DEF Classify, VersionIssue, Bound
<1>5. CASE Bound(d) /\ BadLedger(d)
  BY <1>1, <1>5 DEF Classify, Bound
<1> QED BY <1>2, <1>3, <1>4, <1>5 DEF Wrong

LEMMA StrangerGap ==
  ASSUME NEW d, Typed(d), Wrong(d), NEW r, r.tables = d.tables, NEW v \in 21 .. 23,
         ReleasedGap(r, d.flaw # "none", v)
  PROVE  /\ Bound(d) /\ d.version \in Versions => BadLedger(d)
         /\ ~Bound(d) => v # 21 \/ "ledger" \in d.tables
<1>1. v \in Versions /\ "rest" \in SchemaOf(v)
  BY SchemaTables DEF Versions
<1>2. Required \ d.tables = Required \ SchemaOf(v) /\ d.flaw = "none"
  BY DEF ReleasedGap, MissingTables
<1>3. "rest" \in d.tables
  BY <1>1, <1>2 DEF Required
<1>4. v = 21 => "turns" \notin d.tables
  BY <1>1, <1>2, SchemaTables DEF Required
<1> QED BY <1>2, <1>3, <1>4 DEF Wrong

LEMMA CurrentClassified ==
  ASSUME NEW r, NEW f, Classify(r, f) = "CURRENT"
  PROVE  /\ "metadata" \in r.tables /\ r.version = Target
BY DEF Classify, VersionIssue

\* A legacy release is recognised by what was read of it.
LEMMA LegacyClassified ==
  ASSUME NEW d \in Recognised, ~Bound(d), NEW r, r.tables = d.tables, r.context = d.context,
         NEW f, Classify(r, f) = "COMPATIBLE_LEGACY"
  PROVE  d = Versionless(24)
<1>1. 21 \in Versions /\ 24 \in Versions
  BY DEF Versions
<1>2. d # Empty
  BY EmptyFields DEF Classify
<1>3. d # Versionless(21)
  BY <1>1, VersionlessFields, SchemaTables DEF Classify, MissingTables, Required
<1> QED BY <1>2, <1>3, UnboundCases

LEMMA GapClassified ==
  ASSUME NEW d \in Recognised, ~Bound(d), NEW r, r.tables = d.tables,
         NEW f, ReleasedGap(r, f, 21)
  PROVE  d = Versionless(21)
<1>1. 21 \in Versions /\ 24 \in Versions
  BY DEF Versions
<1>2. "core" \in d.tables /\ "executions" \notin d.tables
  BY <1>1, SchemaTables DEF ReleasedGap, MissingTables, Required
<1>3. d # Empty /\ d # Versionless(24)
  BY <1>1, <1>2, EmptyFields, VersionlessFields, SchemaTables
<1> QED BY <1>3, UnboundCases

LEMMA TargetIsCurrent ==
  ASSUME NEW d \in Recognised, d.version = Target, d.ledger # {}, NEW r,
         r.tables = d.tables, r.context = d.context, r.version = d.version
  PROVE  Classify(r, FALSE) = "CURRENT" /\ ValidLedger(d.ledger, Target)
<1>1. /\ Target = 24 /\ 24 \in Versions /\ Bound(d) /\ d.ledger \in Ledgers(24)
      /\ d = Versioned(24, d.ledger)
  BY BoundCase DEF Target, Versions
<1>2. Classify(r, FALSE) = "CURRENT"
  <2>1. MissingTables(r) = {} /\ r.tables # {} /\ "metadata" \in r.tables
    BY <1>1, VersionedFields, SchemaTables DEF MissingTables, Required
  <2>2. r.context
    <3>1. HasContext(24)
      BY DEF HasContext
    <3>2. r.context = HasContext(24)
      BY <1>1, VersionedFields
    <3> QED BY <3>1, <3>2, Zenon
  <2> QED BY <1>1, <2>1, <2>2 DEF Classify, MissingContext, VersionIssue
<1>3. ValidLedger(d.ledger, 24)
  <2>1. PICK b \in 21 .. 24 : d.ledger = {Baseline(b)} \cup {Step(w) : w \in b .. 24 - 1}
    BY <1>1, LedgerCases
  <2>2. b \in 1 .. 24 /\ b .. 24 - 1 \subseteq Registered
    BY DEF Registered
  <2> QED BY <2>1, <2>2 DEF ValidLedger
<1> QED BY <1>1, <1>2, <1>3
---------------------------------------------------------------------------
(* The inductive invariant: what each process has found out fits the         *)
(* database as it is now, although others have changed it since.             *)

Ats == {"down", "inspecting", "tables", "columns", "version", "deciding", "shaping",
        "bootstrapping", "adopting", "adopting21", "planning", "ledgering", "migrating",
        "validating", "ready", "refused"}
Rows == [at : Ats, report : Reports, next : Nat]

\* A recognised database without a version row is still the one that was
\* looked at.  One with a version got its ledger at the version that every
\* process about to adopt one has read.
Fits(d, r) ==
  /\ ~Bound(d) =>
       /\ r.at \in {"columns", "version", "deciding", "shaping"} => r.report.tables = d.tables
       /\ r.at \in {"version", "deciding", "shaping"} => r.report.context = d.context
       /\ r.at = "adopting" => d = Versionless(24)
       /\ r.at = "adopting21" => d = Versionless(21)
  /\ r.at = "ledgering" => /\ Bound(d) /\ r.next \in Versions
                           /\ d.ledger = {} => r.next = d.version
  /\ r.at = "migrating" => r.next \in Registered /\ d.ledger # {}
  /\ r.at = "ready" => d.version = Target /\ d.ledger # {}

\* A stranger is never written to: a process that gets as far as the ledger
\* will be stopped by it.
Stays(d, r) ==
  /\ r.at \notin {"bootstrapping", "adopting", "adopting21", "migrating", "validating"}
  /\ r.at \in {"columns", "version", "deciding", "shaping"} => r.report.tables = d.tables
  /\ r.at = "deciding" => r.report.version = IF Bound(d) THEN d.version ELSE NoVersion
  /\ r.at \in {"planning", "ledgering"} => Bound(d) /\ BadLedger(d)
  /\ r.at = "ledgering" => r.next = d.version

IsCurrent(d) ==
  /\ Classify([tables |-> d.tables, context |-> d.context, version |-> d.version],
              d.flaw = "structure") = "CURRENT"
  /\ d.ledger # {} /\ ValidLedger(d.ledger, Target)

Known == /\ origin = Empty /\ db \in Recognised
         /\ \A p \in Processes : Fits(db, proc[p])
Strange == /\ origin \in Strangers /\ db = origin
           /\ \A p \in Processes :
                Stays(db, proc[p]) /\ (proc[p].at = "ready" => IsCurrent(db))

StorageInv == proc \in [Processes -> Rows] /\ (Known \/ Strange)

\* What a transaction of a recognised database may do to it
Evolves(d, e) ==
  \/ e = d
  \/ ~Bound(d) /\ Bound(e)
  \/ Bound(d) /\ Bound(e) /\ d.ledger = {} /\ e.ledger # {} /\ e.version = d.version
  \/ Bound(d) /\ Bound(e) /\ d.ledger # {} /\ e.ledger # {} /\ d.version # Target

LEMMA FitsStill ==
  ASSUME NEW d \in Recognised, NEW e \in Recognised, Evolves(d, e), NEW r, Fits(d, r)
  PROVE  Fits(e, r)
<1>1. ~Bound(d) => d.ledger = {} /\ d.version # Target
  <2>1. 21 \in Versions /\ 24 \in Versions /\ Target # 0
    BY DEF Versions, Target
  <2> QED BY <2>1, UnboundCases, EmptyFields, VersionlessFields
<1> QED BY <1>1 DEF Evolves, Fits

LEMMA KnownStep ==
  ASSUME proc \in [Processes -> Rows], Known, origin' = origin,
         NEW p \in Processes, NEW r \in Rows, proc' = [proc EXCEPT ![p] = r],
         db' \in Recognised, Evolves(db, db'), Fits(db', r)
  PROVE  StorageInv'
<1>1. proc' \in [Processes -> Rows] /\ proc'[p] = r
  OBVIOUS
<1>2. \A q \in Processes \ {p} : proc'[q] = proc[q]
  OBVIOUS
<1>3. \A q \in Processes : Fits(db', proc'[q])
  BY <1>1, <1>2, FitsStill DEF Known
<1> QED BY <1>1, <1>3 DEF StorageInv, Known

LEMMA StrangeStep ==
  ASSUME proc \in [Processes -> Rows], Strange, origin' = origin, db' = db,
         NEW p \in Processes, NEW r \in Rows, proc' = [proc EXCEPT ![p] = r],
         Stays(db, r), r.at = "ready" => IsCurrent(db)
  PROVE  StorageInv'
<1>1. proc' \in [Processes -> Rows] /\ proc'[p] = r
  OBVIOUS
<1>2. \A q \in Processes \ {p} : proc'[q] = proc[q]
  OBVIOUS
<1>3. \A q \in Processes : Stays(db', proc'[q]) /\ (proc'[q].at = "ready" => IsCurrent(db'))
  BY <1>1, <1>2 DEF Strange
<1> QED BY <1>1, <1>3 DEF StorageInv, Strange

LEMMA TypedAlways ==
  ASSUME StorageInv
  PROVE  db.tables \subseteq Tables /\ db.context \in BOOLEAN /\ db.version \in Nat
BY RecognisedType, StrangerWrong DEF StorageInv, Known, Strange, Typed

LEMMA InitStorage == StorageInit => StorageInv
<1> SUFFICES ASSUME StorageInit PROVE StorageInv
  OBVIOUS
<1>1. Down \in Rows /\ Down.at = "down"
  BY DEF Down, Row, Rows, Ats, NoReport, Reports, NoVersion
<1>2. proc \in [Processes -> Rows] /\ \A p \in Processes : proc[p].at = "down"
  BY <1>1 DEF StorageInit
<1>3. CASE db \in Strangers
  BY <1>2, <1>3 DEF StorageInit, StorageInv, Strange, Stays
<1>4. CASE db \notin Strangers
  BY <1>2, <1>4 DEF StorageInit, StorageInv, Known, Fits
<1> QED BY <1>3, <1>4
---------------------------------------------------------------------------
(* The rows that steps leave behind *)

LEMMA RowType ==
  ASSUME NEW at \in Ats, NEW report \in Reports, NEW next \in Nat
  PROVE  /\ Row(at, report, next) \in Rows /\ Row(at, report, next).at = at
         /\ Row(at, report, next).report = report /\ Row(at, report, next).next = next
BY DEF Row, Rows

LEMMA NoReportType == NoReport \in Reports /\ NoVersion \in Nat /\ NoReport.tables = {}
BY DEF NoReport, Reports, NoVersion

LEMMA LeaveType ==
  ASSUME NEW at \in Ats
  PROVE  Row(at, NoReport, NoVersion) \in Rows /\ Row(at, NoReport, NoVersion).at = at
BY RowType, NoReportType

LEMMA GotoType ==
  ASSUME NEW row \in Rows, NEW at \in Ats
  PROVE  LET r == [row EXCEPT !.at = at]
         IN  r \in Rows /\ r.at = at /\ r.report = row.report /\ r.next = row.next
BY DEF Rows

LEMMA WithTables ==
  ASSUME NEW r \in Reports, NEW t \in SUBSET Tables
  PROVE  [r EXCEPT !.tables = t] \in Reports /\ [r EXCEPT !.tables = t].tables = t
BY DEF Reports

LEMMA WithContext ==
  ASSUME NEW r \in Reports, NEW c \in BOOLEAN
  PROVE  /\ [r EXCEPT !.context = c] \in Reports /\ [r EXCEPT !.context = c].context = c
         /\ [r EXCEPT !.context = c].tables = r.tables
BY DEF Reports

LEMMA AtVersion ==
  ASSUME NEW r \in Reports, NEW v \in Nat
  PROVE  /\ [r EXCEPT !.version = v] \in Reports /\ [r EXCEPT !.version = v].version = v
         /\ [r EXCEPT !.version = v].tables = r.tables
         /\ [r EXCEPT !.version = v].context = r.context
BY DEF Reports

LEMMA Looks ==
  ASSUME StorageInv, db' = db, origin' = origin,
         NEW p \in Processes, NEW r \in Rows, Become(p, r),
         Known => Fits(db, r),
         Strange => Stays(db, r) /\ (r.at = "ready" => IsCurrent(db))
  PROVE  StorageInv'
BY KnownStep, StrangeStep DEF StorageInv, Become, Evolves, Known

LEMMA Ends ==
  ASSUME StorageInv, db' = db, origin' = origin,
         NEW p \in Processes, NEW r \in Rows, Become(p, r),
         r.at \in {"down", "refused", "inspecting", "tables"}
  PROVE  StorageInv'
BY Looks DEF Fits, Stays

LEMMA RefuseEnds ==
  ASSUME StorageInv, db' = db, origin' = origin, NEW p \in Processes, Refuse(p)
  PROVE  StorageInv'
BY LeaveType, Ends DEF Refuse, Leave, Ats

\* A transaction keeps the invariant if what it writes is a release again.
LEMMA Writes ==
  ASSUME StorageInv, origin' = origin, NEW p \in Processes, NEW ok, NEW d, NEW r \in Rows,
         Transaction(p, ok, d, r),
         ok => Known /\ d \in Recognised /\ Evolves(db, d) /\ Fits(d, r)
  PROVE  StorageInv'
<1>1. CASE ok /\ db' = d /\ Become(p, r)
  BY <1>1, KnownStep DEF Become, StorageInv
<1>2. CASE ok /\ db' \in {db, d} /\ Refuse(p)
  <2> DEFINE q == Row("refused", NoReport, NoVersion)
  <2>1. q \in Rows /\ q.at = "refused" /\ proc' = [proc EXCEPT ![p] = q]
    BY <1>2, LeaveType DEF Refuse, Leave, Become, Ats
  <2>2. Fits(d, q) /\ Fits(db, q)
    BY <2>1 DEF Fits
  <2>3. Evolves(db, db) /\ db \in Recognised
    BY <1>2 DEF Evolves, Known
  <2> HIDE DEF q
  <2> QED BY <1>2, <2>1, <2>2, <2>3, KnownStep DEF StorageInv
<1>3. CASE ~ok /\ NoWrite /\ Refuse(p)
  BY <1>3, RefuseEnds DEF NoWrite
<1> QED BY <1>1, <1>2, <1>3 DEF Transaction
---------------------------------------------------------------------------
(* Looking at the database *)

LEMMA LooksAround ==
  ASSUME StorageInv, NEW p \in Processes, Start(p) \/ ReadTables(p) \/ ReadColumns(p)
  PROVE  StorageInv'
<1>0. /\ proc[p] \in Rows /\ proc[p].report \in Reports /\ db' = db /\ origin' = origin
      /\ "inspecting" \in Ats /\ "tables" \in Ats /\ "columns" \in Ats /\ "version" \in Ats
      /\ "bootstrapping" \in Ats
  BY DEF StorageInv, Start, ReadTables, ReadColumns, NoWrite, KeepRest, Rows, Ats
<1>1. CASE Start(p)
  BY <1>0, <1>1, GotoType, Ends DEF Start, Goto
<1>2. CASE ReadTables(p)
  <2> DEFINE seen == [NoReport EXCEPT !.tables = db.tables]
             at == IF db.tables = {} THEN "bootstrapping" ELSE "columns"
             r == Row(at, seen, NoVersion)
  <2>1. seen \in Reports /\ seen.tables = db.tables
    <3>1. NoReport \in Reports /\ db.tables \in SUBSET Tables
      BY NoReportType, TypedAlways
    <3> QED BY <3>1, WithTables
  <2>2. at \in Ats /\ at \in {"bootstrapping", "columns"} /\ (at = "bootstrapping" <=> db.tables = {})
    BY <1>0
  <2> HIDE DEF seen, at
  <2>3. r \in Rows /\ r.at = at /\ r.report = seen
    BY <2>1, <2>2, RowType, NoReportType
  <2>4. Become(p, r)
    BY <1>2 DEF ReadTables, at, seen
  <2> HIDE DEF r
  <2>5. Fits(db, r)
    BY <2>1, <2>2, <2>3 DEF Fits
  <2>6. Strange => Stays(db, r) /\ r.at # "ready"
    BY <2>1, <2>2, <2>3, StrangerWrong DEF Stays, Strange, Typed
  <2> QED BY <1>0, <2>3, <2>4, <2>5, <2>6, Looks
<1>3. CASE ReadColumns(p)
  <2> DEFINE seen == [proc[p].report EXCEPT !.context = db.context]
             r == Row("version", seen, NoVersion)
  <2>1. seen \in Reports /\ seen.tables = proc[p].report.tables /\ seen.context = db.context
    <3>1. db.context \in BOOLEAN
      BY TypedAlways
    <3> HIDE DEF r
    <3> QED BY <3>1, <1>0, WithContext, Zenon
  <2> HIDE DEF seen
  <2>2. r \in Rows /\ r.at = "version" /\ r.report = seen
    BY <1>0, <2>1, RowType, NoReportType
  <2>3. Become(p, r) /\ proc[p].at = "columns"
    BY <1>3 DEF ReadColumns, seen
  <2> HIDE DEF r
  <2>4. Known => Fits(db, r)
    BY <2>1, <2>2, <2>3 DEF Fits, Known
  <2>5. Strange => Stays(db, r) /\ r.at # "ready"
    BY <2>1, <2>2, <2>3 DEF Stays, Strange
  <2> QED BY <1>0, <2>2, <2>3, <2>4, <2>5, Looks
<1> QED BY <1>1, <1>2, <1>3

LEMMA TakesFastPath ==
  ASSUME StorageInv, NEW p \in Processes, FastPath(p)
  PROVE  StorageInv'
<1>0. /\ proc[p] \in Rows /\ db' = db /\ origin' = origin /\ "tables" \in Ats /\ "ready" \in Ats
  BY DEF StorageInv, FastPath, NoWrite, KeepRest, Ats
<1>1. CASE LooksCurrent /\ ValidLedger(db.ledger, Target) /\ Goto(p, "ready")
  <2> DEFINE r == [proc[p] EXCEPT !.at = "ready"]
  <2>1. r \in Rows /\ r.at = "ready"
    BY <1>0, GotoType
  <2>2. Become(p, r)
    BY <1>1 DEF Goto
  <2>3. IsCurrent(db) /\ db.version = Target
    BY <1>1, CurrentClassified DEF LooksCurrent, IsCurrent, Snapshot
  <2> HIDE DEF r
  <2>4. Fits(db, r) /\ Stays(db, r)
    BY <2>1, <2>3 DEF Fits, Stays, IsCurrent
  <2> QED BY <1>0, <2>1, <2>2, <2>3, <2>4, Looks
<1>2. CASE Refuse(p)
  BY <1>0, <1>2, RefuseEnds
<1>3. CASE Goto(p, "tables")
  BY <1>0, <1>3, GotoType, Ends DEF Goto
<1> QED BY <1>1, <1>2, <1>3 DEF FastPath

LEMMA ReadsVersion ==
  ASSUME StorageInv, NEW p \in Processes, ReadVersion(p)
  PROVE  StorageInv'
<1> DEFINE seen == [proc[p].report EXCEPT
                      !.version = IF "metadata" \in proc[p].report.tables THEN db.version ELSE NoVersion]
           class == Classify(seen, db.flaw # "none")
<1>0. /\ proc[p] \in Rows /\ proc[p].report \in Reports /\ proc[p].at = "version"
      /\ db' = db /\ origin' = origin
      /\ {"adopting", "planning", "deciding"} \subseteq Ats
  BY DEF StorageInv, ReadVersion, NoWrite, KeepRest, Ats, Rows
<1>1. /\ seen \in Reports /\ seen.tables = proc[p].report.tables
      /\ seen.context = proc[p].report.context
      /\ seen.version = IF "metadata" \in proc[p].report.tables THEN db.version ELSE NoVersion
  <2>1. (IF "metadata" \in proc[p].report.tables THEN db.version ELSE NoVersion) \in Nat
    BY TypedAlways, NoReportType
  <2> HIDE DEF class
  <2> QED BY <1>0, <2>1, AtVersion, Zenon
<1>2. /\ class = "COMPATIBLE_LEGACY" => Leave(p, "adopting")
      /\ class = "CURRENT" => Leave(p, "planning")
      /\ class \notin {"COMPATIBLE_LEGACY", "CURRENT"} => Become(p, Row("deciding", seen, NoVersion))
  BY DEF ReadVersion
<1>3. Known /\ ~Bound(db) => seen.tables = db.tables /\ seen.context = db.context
  BY <1>0, <1>1 DEF Known, Fits
<1>4. Strange => /\ Typed(db) /\ Wrong(db) /\ seen.tables = db.tables
                 /\ seen.version = IF Bound(db) THEN db.version ELSE NoVersion
  BY <1>0, <1>1, StrangerWrong DEF Strange, Stays, Bound
<1> HIDE DEF seen
<1>5. Strange => /\ class # "COMPATIBLE_LEGACY"
                 /\ class = "CURRENT" => Bound(db) /\ BadLedger(db)
  BY <1>4, StrangerClassified
<1>6. Known /\ ~Bound(db) /\ class = "COMPATIBLE_LEGACY" => db = Versionless(24)
  BY <1>3, LegacyClassified DEF Known
<1> HIDE DEF class
<1>7. CASE class = "COMPATIBLE_LEGACY"
  <2> DEFINE r == Row("adopting", NoReport, NoVersion)
  <2>1. r \in Rows /\ r.at = "adopting" /\ Become(p, r)
    BY <1>0, <1>2, <1>7, LeaveType DEF Leave
  <2> HIDE DEF r
  <2>2. Known => Fits(db, r)
    BY <1>6, <1>7, <2>1 DEF Fits
  <2> QED BY <1>0, <1>5, <1>7, <2>1, <2>2, Looks
<1>8. CASE class = "CURRENT"
  <2> DEFINE r == Row("planning", NoReport, NoVersion)
  <2>1. r \in Rows /\ r.at = "planning" /\ Become(p, r)
    BY <1>0, <1>2, <1>8, LeaveType DEF Leave
  <2> HIDE DEF r
  <2>2. Fits(db, r) /\ (Strange => Stays(db, r))
    BY <1>5, <1>8, <2>1 DEF Fits, Stays
  <2> QED BY <1>0, <2>1, <2>2, Looks
<1>9. CASE class \notin {"COMPATIBLE_LEGACY", "CURRENT"}
  <2> DEFINE r == Row("deciding", seen, NoVersion)
  <2>1. r \in Rows /\ r.at = "deciding" /\ r.report = seen /\ Become(p, r)
    BY <1>0, <1>1, <1>2, <1>9, RowType, NoReportType
  <2> HIDE DEF r
  <2>2. Known => Fits(db, r)
    BY <1>3, <2>1 DEF Fits
  <2>3. Strange => Stays(db, r)
    BY <1>4, <2>1 DEF Stays
  <2> QED BY <1>0, <2>1, <2>2, <2>3, Looks
<1> QED BY <1>7, <1>8, <1>9

LEMMA Decides ==
  ASSUME StorageInv, NEW p \in Processes, Decide(p)
  PROVE  StorageInv'
<1>0. /\ proc[p] \in Rows /\ proc[p].at = "deciding" /\ db' = db /\ origin' = origin
      /\ "shaping" \in Ats /\ "planning" \in Ats
  BY DEF StorageInv, Decide, NoWrite, KeepRest, Ats
<1>1. CASE "metadata" \notin db.tables /\ Goto(p, "shaping")
  <2> DEFINE r == [proc[p] EXCEPT !.at = "shaping"]
  <2>1. r \in Rows /\ r.at = "shaping" /\ r.report = proc[p].report
    BY <1>0, GotoType
  <2>2. Become(p, r)
    BY <1>1 DEF Goto
  <2> HIDE DEF r
  <2>3. Known => Fits(db, r)
    BY <1>0, <2>1 DEF Known, Fits
  <2>4. Strange => Stays(db, r)
    BY <1>0, <2>1 DEF Strange, Stays
  <2> QED BY <1>0, <2>1, <2>2, <2>3, <2>4, Looks
<1>2. CASE /\ "metadata" \in db.tables /\ db.version \in Registered
           /\ ReleasedGap(proc[p].report, db.flaw # "none", db.version)
           /\ Leave(p, "planning")
  <2> DEFINE r == Row("planning", NoReport, NoVersion)
  <2>1. r \in Rows /\ r.at = "planning" /\ Become(p, r)
    BY <1>0, <1>2, LeaveType DEF Leave
  <2> HIDE DEF r
  <2>2. Strange => Bound(db) /\ BadLedger(db)
    <3>1. Strange => Typed(db) /\ Wrong(db) /\ proc[p].report.tables = db.tables
      BY <1>0, StrangerWrong DEF Strange, Stays
    <3>2. Bound(db) /\ db.version \in Versions /\ db.version \in 21 .. 23
      BY <1>2 DEF Bound, Versions, Registered
    <3> QED BY <1>2, <3>1, <3>2, StrangerGap
  <2>3. Fits(db, r) /\ (Strange => Stays(db, r))
    BY <2>1, <2>2 DEF Fits, Stays
  <2> QED BY <1>0, <2>1, <2>3, Looks
<1>3. CASE Refuse(p)
  BY <1>0, <1>3, RefuseEnds
<1> QED BY <1>1, <1>2, <1>3 DEF Decide

LEMMA Shapes ==
  ASSUME StorageInv, NEW p \in Processes, Shape(p)
  PROVE  StorageInv'
<1>0. /\ proc[p] \in Rows /\ proc[p].report \in Reports /\ proc[p].at = "shaping"
      /\ db' = db /\ origin' = origin /\ "adopting21" \in Ats
  BY DEF StorageInv, Shape, NoWrite, KeepRest, Ats, Rows
<1> DEFINE seen == [proc[p].report EXCEPT !.version = 21]
<1>1. seen.tables = proc[p].report.tables
  BY <1>0, AtVersion
<1>2. CASE /\ {"metadata", "ledger"} \cap db.tables = {}
           /\ ReleasedGap(seen, db.flaw # "none", 21)
           /\ Leave(p, "adopting21")
  <2> HIDE DEF seen
  <2> DEFINE r == Row("adopting21", NoReport, NoVersion)
  <2>1. r \in Rows /\ r.at = "adopting21" /\ Become(p, r)
    BY <1>0, <1>2, LeaveType DEF Leave
  <2> HIDE DEF r
  <2>2. ~Bound(db) /\ "ledger" \notin db.tables
    BY <1>2 DEF Bound
  <2>3. Known => db = Versionless(21)
    <3>1. Known => seen.tables = db.tables
      BY <1>0, <1>1, <2>2 DEF Known, Fits
    <3> QED BY <1>2, <2>2, <3>1, GapClassified DEF Known
  <2>4. ~Strange
    <3>1. Strange => seen.tables = db.tables /\ Typed(db) /\ Wrong(db)
      BY <1>0, <1>1, StrangerWrong DEF Strange, Stays
    <3>2. 21 \in 21 .. 23
      OBVIOUS
    <3> QED BY <1>2, <2>2, <3>1, <3>2, StrangerGap
  <2>5. Known => Fits(db, r)
    BY <2>1, <2>3 DEF Fits
  <2> QED BY <1>0, <2>1, <2>4, <2>5, Looks
<1>3. CASE Refuse(p)
  BY <1>0, <1>3, RefuseEnds
<1> QED BY <1>2, <1>3 DEF Shape

LEMMA Plans ==
  ASSUME StorageInv, NEW p \in Processes, Plan(p)
  PROVE  StorageInv'
<1>0. /\ proc[p].at = "planning" /\ db' = db /\ origin' = origin /\ "ledgering" \in Ats
  BY DEF Plan, NoWrite, KeepRest, Ats
<1>1. CASE /\ "metadata" \in db.tables /\ db.version \in Registered \cup {Target}
           /\ Become(p, Row("ledgering", NoReport, db.version))
  <2> DEFINE r == Row("ledgering", NoReport, db.version)
  <2>1. db.version \in Nat /\ db.version \in Versions
    BY <1>1, TypedAlways DEF Versions, Registered, Target
  <2>2. r \in Rows /\ r.at = "ledgering" /\ r.next = db.version
    BY <1>0, <2>1, RowType, NoReportType
  <2>3. Become(p, r)
    BY <1>1
  <2> HIDE DEF r
  <2>4. Known => Fits(db, r)
    BY <1>1, <2>1, <2>2 DEF Fits, Bound
  <2>5. Strange => Stays(db, r)
    BY <1>0, <2>2 DEF Strange, Stays
  <2> QED BY <1>0, <2>2, <2>3, <2>4, <2>5, Looks
<1>2. CASE Refuse(p)
  BY <1>0, <1>2, RefuseEnds
<1> QED BY <1>1, <1>2 DEF Plan

LEMMA Validates ==
  ASSUME StorageInv, NEW p \in Processes, Validate(p)
  PROVE  StorageInv'
<1>0. /\ proc[p].at = "validating" /\ db' = db /\ origin' = origin /\ "ready" \in Ats
  BY DEF Validate, NoWrite, KeepRest, Ats
<1>1. CASE db.version = Target /\ db.ledger # {} /\ Leave(p, "ready")
  <2> DEFINE r == Row("ready", NoReport, NoVersion)
  <2>1. r \in Rows /\ r.at = "ready" /\ Become(p, r)
    BY <1>0, <1>1, LeaveType DEF Leave
  <2> HIDE DEF r
  <2>2. Fits(db, r)
    BY <1>1, <2>1 DEF Fits
  <2>3. ~Strange
    BY <1>0 DEF Strange, Stays
  <2> QED BY <1>0, <2>1, <2>2, <2>3, Looks
<1>2. CASE Refuse(p)
  BY <1>0, <1>2, RefuseEnds
<1> QED BY <1>1, <1>2 DEF Validate
---------------------------------------------------------------------------
(* Writing to it *)

LEMMA Bootstraps ==
  ASSUME StorageInv, NEW p \in Processes, Bootstrap(p)
  PROVE  StorageInv'
<1> DEFINE d == Versioned(Target, {})
           r == Row("planning", NoReport, NoVersion)
<1>1. r \in Rows /\ r.at = "planning"
  BY LeaveType DEF Ats
<1>2. db.tables = {} => Known
  BY StrangerWrong DEF StorageInv, Strange, Typed
<1>3. d \in Recognised /\ Bound(d)
  BY Bootstrapped
<1>4. db.tables = {} => ~Bound(db)
  BY DEF Bound
<1>5. origin' = origin /\ Transaction(p, db.tables = {}, d, r)
  BY DEF Bootstrap, KeepRest
<1> HIDE DEF d, r
<1>6. Fits(d, r)
  BY <1>1, <1>3 DEF Fits
<1> QED BY <1>1, <1>2, <1>3, <1>4, <1>5, <1>6, Writes DEF Evolves

LEMMA Adopts ==
  ASSUME StorageInv, NEW p \in Processes, NEW v \in {21, Target}, Adopt(p, v)
  PROVE  StorageInv'
<1> DEFINE d == AdoptedAs(v)
           r == Row("planning", NoReport, NoVersion)
           ok == /\ "metadata" \notin db.tables /\ Baseline(v) \notin db.ledger
                 /\ ValidLedger(d.ledger, v)
<1>1. r \in Rows /\ r.at = "planning"
  BY LeaveType DEF Ats
<1>2. origin' = origin /\ Transaction(p, ok, d, r)
  BY DEF Adopt, KeepRest
<1>3. ok => Known /\ ~Bound(db) /\ db = Versionless(v)
  BY DEF Adopt, StorageInv, Strange, Stays, Known, Fits, Bound, Target
<1>4. ok => d \in Recognised /\ Bound(d)
  BY <1>3, Adopted DEF Target
<1> HIDE DEF d, r, ok
<1>5. ok => Fits(d, r)
  BY <1>1, <1>4 DEF Fits
<1> QED BY <1>1, <1>2, <1>3, <1>4, <1>5, Writes DEF Evolves

\* The next step of a process whose ledger is in order
LEMMA OnwardFits ==
  ASSUME NEW v \in Versions, NEW d, d.ledger # {}
  PROVE  Onward(v) \in Rows /\ Fits(d, Onward(v))
<1>1. {"validating", "migrating"} \subseteq Ats /\ v \in Nat
  BY DEF Ats, Versions
<1>2. CASE v = Target
  BY <1>1, <1>2, LeaveType DEF Onward, Fits
<1>3. CASE v # Target
  <2> DEFINE r == Row("migrating", NoReport, v)
  <2>1. r \in Rows /\ r.at = "migrating" /\ r.next = v /\ v \in Registered
    BY <1>1, <1>3, RowType, NoReportType DEF Versions, Registered, Target
  <2>2. Onward(v) = r
    BY <1>3 DEF Onward
  <2> HIDE DEF r
  <2> QED BY <2>1, <2>2 DEF Fits
<1> QED BY <1>2, <1>3

LEMMA LedgerKept ==
  ASSUME db \in Recognised, Bound(db), db.ledger # {}
  PROVE  Becomes(db.tables \cup {"ledger"}, db.context, db.version, db.ledger) = db
<1> DEFINE v == db.version
           t == SchemaOf(v) \cup {"metadata"} \cup {"ledger"}
<1>1. db = Versioned(v, db.ledger) /\ v \in Versions
  BY BoundCase
<1>2. db = [tables |-> t, context |-> HasContext(v), version |-> v, ledger |-> db.ledger,
            flaw |-> "none"]
  BY <1>1 DEF Versioned, Database
<1>3. "ledger" \in t
  OBVIOUS
<1> HIDE DEF t, v
<1>4. /\ db.tables = t /\ db.context = HasContext(v) /\ db.version = v /\ db.flaw = "none"
  BY <1>2
<1>5. t \cup {"ledger"} = t
  BY <1>3
<1> QED BY <1>2, <1>4, <1>5 DEF Becomes

LEMMA AdoptsLedger ==
  ASSUME StorageInv, NEW p \in Processes, AdoptLedger(p)
  PROVE  StorageInv'
<1> DEFINE v == proc[p].next
           rows == IF db.ledger = {} THEN {Baseline(v)} ELSE db.ledger
           d == Becomes(db.tables \cup {"ledger"}, db.context, db.version, rows)
           ok == ValidLedger(rows, v)
<1>1. origin' = origin /\ Transaction(p, ok, d, Onward(v)) /\ proc[p].at = "ledgering"
  BY DEF AdoptLedger, KeepRest
<1>2. ok => ~Strange
  BY <1>1 DEF Strange, Stays, BadLedger
<1>3. Known => /\ db \in Recognised /\ Bound(db) /\ v \in Versions
               /\ db.ledger = {} => v = db.version
  BY <1>1 DEF Known, Fits
<1>4. Known => d \in Recognised /\ Evolves(db, d) /\ d.ledger # {}
  <2>1. CASE db.ledger = {}
    <3>1. Known => d = Becomes(db.tables \cup {"ledger"}, db.context, db.version, {Baseline(db.version)})
      BY <1>3, <2>1
    <3> HIDE DEF d
    <3> QED BY <1>3, <2>1, <3>1, LedgerAdopted DEF Evolves
  <2>2. CASE db.ledger # {}
    <3>1. d = Becomes(db.tables \cup {"ledger"}, db.context, db.version, db.ledger)
      BY <2>2
    <3> HIDE DEF d
    <3> QED BY <1>3, <2>2, <3>1, LedgerKept DEF Evolves
  <2> QED BY <2>1, <2>2
<1>5. ~Known => Strange
  BY DEF StorageInv
<1> HIDE DEF ok, d, rows, v
<1>6. CASE ~Known
  <2>1. ~ok
    BY <1>2, <1>5, <1>6
  <2> QED BY <1>1, <2>1, RefuseEnds DEF Transaction, NoWrite
<1>7. CASE Known
  BY <1>1, <1>3, <1>4, <1>7, OnwardFits, Writes
<1> QED BY <1>6, <1>7

LEMMA Migrates ==
  ASSUME StorageInv, NEW p \in Processes, Migrate(p)
  PROVE  StorageInv'
<1> DEFINE v == proc[p].next
           ok == /\ db.version = v /\ ValidLedger(db.ledger, v)
                 /\ Step(v) \notin db.ledger /\ Applicable(v)
<1>1. proc[p].at = "migrating" /\ origin' = origin
  BY DEF Migrate, KeepRest
<1>2. Known /\ db \in Recognised /\ v \in Registered /\ db.ledger # {}
  BY <1>1 DEF StorageInv, Strange, Stays, Known, Fits
<1>3. v + 1 \in Versions /\ v # Target
  BY <1>2 DEF Registered, Versions, Target
<1>4. \/ /\ Become(p, Onward(v + 1)) \/ Refuse(p)
         /\ NoWrite
      \/ Transaction(p, ok, Migrated(v), Onward(v + 1))
  BY DEF Migrate
<1>5. ok => /\ Migrated(v) \in Recognised /\ Evolves(db, Migrated(v))
            /\ Migrated(v).ledger # {}
  <2>1. ok => Bound(db) /\ db.version # Target
    BY <1>2, <1>3, BoundCase DEF Registered
  <2> QED BY <1>2, <2>1, StepApplied DEF Evolves
<1> HIDE DEF ok, v
<1>6. CASE Become(p, Onward(v + 1)) /\ NoWrite
  <2>1. Onward(v + 1) \in Rows /\ Fits(db, Onward(v + 1))
    BY <1>2, <1>3, OnwardFits
  <2>2. ~Strange
    BY <1>1 DEF Strange, Stays
  <2> QED BY <1>1, <1>6, <2>1, <2>2, Looks DEF NoWrite
<1>7. CASE Refuse(p) /\ NoWrite
  BY <1>1, <1>7, RefuseEnds DEF NoWrite
<1>8. CASE Transaction(p, ok, Migrated(v), Onward(v + 1))
  <2>1. Onward(v + 1) \in Rows /\ (ok => Fits(Migrated(v), Onward(v + 1)))
    BY <1>2, <1>3, <1>5, OnwardFits
  <2> QED BY <1>1, <1>2, <1>5, <1>8, <2>1, Writes
<1> QED BY <1>4, <1>6, <1>7, <1>8

---------------------------------------------------------------------------
LEMMA EnsuresInv ==
  ASSUME StorageInv, NEW p \in Processes, Ensures(p)
  PROVE  StorageInv'
<1>1. CASE ReadFails(p)
  BY <1>1, RefuseEnds DEF ReadFails, NoWrite, KeepRest
<1>2. CASE Start(p) \/ ReadTables(p) \/ ReadColumns(p) \/ FastPath(p) \/ ReadVersion(p)
  BY <1>2, LooksAround, TakesFastPath, ReadsVersion
<1>3. CASE Decide(p) \/ Shape(p) \/ Plan(p) \/ Validate(p)
  BY <1>3, Decides, Shapes, Plans, Validates
<1>4. CASE Bootstrap(p) \/ Adopt(p, Target) \/ Adopt(p, 21) \/ AdoptLedger(p) \/ Migrate(p)
  BY <1>4, Bootstraps, Adopts, AdoptsLedger, Migrates
<1> QED BY <1>1, <1>2, <1>3, <1>4 DEF Ensures

LEMMA Unseen ==
  ASSUME StorageInv, UNCHANGED <<db, origin, proc>>
  PROVE  StorageInv'
BY DEF StorageInv, Known, Strange

LEMMA StorageStep == StorageInv /\ [StorageNext]_storageVars => StorageInv'
<1> SUFFICES ASSUME StorageInv, [StorageNext]_storageVars PROVE StorageInv'
  OBVIOUS
<1>1. ASSUME NEW p \in Processes, Ensures(p) PROVE StorageInv'
  BY <1>1, EnsuresInv
<1>2. ASSUME NEW p \in Processes, Serves(p) PROVE StorageInv'
  BY <1>2, Unseen DEF Serves, ReadOwner, CheckOwner, Bind, KeepSchema
<1>3. ASSUME NEW p \in Processes, Crash(p) \/ Restart(p) PROVE StorageInv'
  <2>1. Down \in Rows /\ Down.at = "down"
    BY LeaveType DEF Down, Ats
  <2> QED BY <1>3, <2>1, Ends DEF Crash, Restart
<1>4. CASE UNCHANGED storageVars
  BY <1>4, Unseen DEF storageVars
<1> QED BY <1>1, <1>2, <1>3, <1>4 DEF StorageNext

LEMMA StorageInductive == StorageSpec => []StorageInv
BY InitStorage, StorageStep, PTL DEF StorageSpec

(* However many processes start on a database at once, and whichever of them *)
(* dies or loses an answer between two transactions: a database that was      *)
(* recognised is at every moment a released one, with the ledger that leads   *)
(* there, and a process is ready only over the current schema                 *)
(* (ensure_turso_schema_current, run_forward_migrations).                     *)
THEOREM SchemaIsTrue == StorageSpec => []SchemaTruth
<1>1. StorageInv => SchemaTruth
  <2> SUFFICES ASSUME StorageInv PROVE SchemaTruth
    OBVIOUS
  <2>1. origin \in Recognised => db \in Recognised
    BY DEF StorageInv, Known, Strange
  <2>2. ASSUME NEW p \in Processes, proc[p].at = "ready" PROVE IsCurrent(db)
    <3>1. CASE Known
      <4>1. db \in Recognised /\ db.version = Target /\ db.ledger # {} /\ db.flaw = "none"
        BY <2>2, <3>1, RecognisedType DEF Known, Fits
      <4> DEFINE r == [tables |-> db.tables, context |-> db.context, version |-> db.version]
      <4>2. r.tables = db.tables /\ r.context = db.context /\ r.version = db.version
        OBVIOUS
      <4> HIDE DEF r
      <4>3. Classify(r, FALSE) = "CURRENT" /\ ValidLedger(db.ledger, Target)
        BY <4>1, <4>2, TargetIsCurrent
      <4>4. (db.flaw = "structure") = FALSE
        BY <4>1
      <4> QED BY <4>1, <4>3, <4>4 DEF IsCurrent, r
    <3>2. CASE Strange
      BY <2>2, <3>2 DEF Strange
    <3> QED BY <3>1, <3>2 DEF StorageInv
  <2> QED BY <2>1, <2>2 DEF SchemaTruth, IsCurrent, Snapshot
<1> QED BY <1>1, StorageInductive, PTL

(* No start changes a database it does not recognise, in whatever way it      *)
(* differs from a release and whatever other processes do to it meanwhile     *)
(* (classify_turso_schema, _adopt_version_into_ledger).                       *)
THEOREM StrangersStay == StorageSpec => []StrangersUntouched
<1>1. StorageInv => StrangersUntouched
  <2>1. Empty \notin Strangers
    BY StrangerWrong, EmptyFields DEF Typed
  <2> QED BY <2>1 DEF StorageInv, Known, Strange, StrangersUntouched
<1> QED BY <1>1, StorageInductive, PTL
---------------------------------------------------------------------------
(* Who owns the database *)

Requests == [at : {"none", "legacy", "binding"}, owner : Personas \cup {None}]
Gates == [request : Requests, persona : Personas]

\* The owner never changes once there is one, so what a request has read of it
\* is still true when it goes on, and a request without an owner has seen that
\* no other persona has a legacy claim.
OwnerInv ==
  /\ owner \in [current : Personas \cup {None}, legacy : Personas \cup {None}]
  /\ gate \in [Processes -> Gates]
  /\ served \subseteq Processes
  /\ \A p \in Processes :
       /\ Request(p).owner # None => owner.current = Request(p).owner
       /\ Request(p).at = "binding" => owner.legacy \in {None, Mine(p)}
  /\ OnlyOwnerServed

LEMMA InitOwner == StorageInit => OwnerInv
<1> SUFFICES ASSUME StorageInit PROVE OwnerInv
  OBVIOUS
<1>1. PICK expected \in [Processes -> Personas] :
         gate = [p \in Processes |-> [request |-> NoRequest, persona |-> expected[p]]]
  BY DEF StorageInit
<1>2. NoRequest \in Requests /\ NoRequest.owner = None /\ NoRequest.at = "none"
  BY DEF NoRequest, Requests
<1>3. gate \in [Processes -> Gates]
  BY <1>1, <1>2 DEF Gates
<1>4. \A p \in Processes : Request(p) = NoRequest
  BY <1>1 DEF Request
<1>5. owner \in [current : Personas \cup {None}, legacy : Personas \cup {None}] /\ served = {}
  BY DEF StorageInit
<1> QED BY <1>2, <1>3, <1>4, <1>5 DEF OwnerInv, OnlyOwnerServed

LEMMA AskFacts ==
  ASSUME gate \in [Processes -> Gates], NEW p \in Processes, NEW request \in Requests,
         Ask(p, request)
  PROVE  /\ gate' \in [Processes -> Gates] /\ gate'[p].request = request
         /\ gate'[p].persona = gate[p].persona
         /\ \A q \in Processes \ {p} : gate'[q] = gate[q]
BY DEF Ask, Gates

\* A step of one request that leaves the owner as it is
LEMMA Asks ==
  ASSUME OwnerInv, UNCHANGED owner, NEW p \in Processes, NEW request \in Requests, Ask(p, request),
         request.owner # None => owner.current = request.owner,
         request.at = "binding" => owner.legacy \in {None, Mine(p)},
         \/ served' = served
         \/ /\ served' = served \cup {p}
            /\ owner.current = Mine(p) /\ owner.legacy \in {None, Mine(p)}
  PROVE  OwnerInv'
<1>1. /\ gate' \in [Processes -> Gates] /\ gate'[p].request = request
      /\ \A q \in Processes : gate'[q].persona = gate[q].persona
      /\ \A q \in Processes \ {p} : gate'[q] = gate[q]
  BY AskFacts DEF OwnerInv
<1>2. \A q \in Processes :
        /\ gate'[q].request.owner # None => owner.current = gate'[q].request.owner
        /\ gate'[q].request.at = "binding" => owner.legacy \in {None, gate[q].persona}
  BY <1>1 DEF OwnerInv, Request, Mine
<1>3. \A q \in served' : q \in Processes /\ owner.current = gate[q].persona
                                        /\ owner.legacy \in {None, gate[q].persona}
  BY DEF OwnerInv, OnlyOwnerServed, Mine
<1> QED BY <1>1, <1>2, <1>3 DEF OwnerInv, OnlyOwnerServed, Request, Mine

LEMMA NoRequestType == NoRequest \in Requests /\ NoRequest.owner = None /\ NoRequest.at = "none"
BY DEF NoRequest, Requests

LEMMA Binds ==
  ASSUME OwnerInv, NEW p \in Processes, Bind(p)
  PROVE  OwnerInv'
<1>1. CASE UNCHANGED owner /\ Answer(p, FALSE)
  BY <1>1, Asks, NoRequestType DEF Answer
<1>2. CASE owner.current # None /\ UNCHANGED owner /\ Answer(p, owner.current = Mine(p))
  <2>1. owner.legacy \in {None, Mine(p)}
    BY DEF Bind, OwnerInv
  <2> QED BY <1>2, <2>1, Asks, NoRequestType DEF Answer
<1>3. ASSUME owner.current = None, Ask(p, NoRequest),
             owner' = [owner EXCEPT !.current = Mine(p)], served' \in {served, served \cup {p}}
      PROVE  OwnerInv'
  <2>1. /\ gate' \in [Processes -> Gates] /\ gate'[p].request = NoRequest
        /\ \A q \in Processes : gate'[q].persona = gate[q].persona
        /\ \A q \in Processes \ {p} : gate'[q] = gate[q]
    BY <1>3, AskFacts, NoRequestType DEF OwnerInv
  <2>2. served = {}
    <3>1. \A q \in served : Mine(q) \in Personas /\ owner.current = Mine(q)
      BY DEF OwnerInv, OnlyOwnerServed, Mine, Gates
    <3> QED BY <1>3, <3>1, MigrationsAssumption
  <2>3. \A q \in Processes : gate'[q].request.owner = None
    BY <1>3, <2>1, NoRequestType DEF OwnerInv, Request
  <2>4. /\ owner' \in [current : Personas \cup {None}, legacy : Personas \cup {None}]
        /\ owner'.legacy = owner.legacy /\ owner'.current = Mine(p)
    BY <1>3 DEF OwnerInv, Mine, Gates
  <2>5. \A q \in Processes : gate'[q].request.at = "binding" =>
                                owner'.legacy \in {None, gate'[q].persona}
    BY <2>1, <2>4, NoRequestType DEF OwnerInv, Request, Mine
  <2>6. owner.legacy \in {None, Mine(p)}
    BY DEF Bind, OwnerInv
  <2>7. \A q \in served' : /\ q \in Processes /\ owner'.current = gate'[q].persona
                            /\ owner'.legacy \in {None, gate'[q].persona}
    BY <1>3, <2>1, <2>2, <2>4, <2>6 DEF Mine
  <2> QED BY <2>1, <2>3, <2>4, <2>5, <2>7 DEF OwnerInv, OnlyOwnerServed, Request, Mine
<1>4. CASE owner.current = None
  <2>1. \/ UNCHANGED owner /\ Answer(p, FALSE)
        \/ /\ owner' = [owner EXCEPT !.current = Mine(p)]
           /\ Ask(p, NoRequest) /\ served' \in {served, served \cup {p}}
    BY <1>4 DEF Bind, Answer
  <2> QED BY <1>1, <1>3, <1>4, <2>1
<1>5. CASE owner.current # None
  BY <1>1, <1>2, <1>5 DEF Bind
<1> QED BY <1>4, <1>5

LEMMA OwnerStep == OwnerInv /\ [StorageNext]_storageVars => OwnerInv'
<1> SUFFICES ASSUME OwnerInv, [StorageNext]_storageVars PROVE OwnerInv'
  OBVIOUS
<1>1. ASSUME UNCHANGED <<owner, gate, served>> PROVE OwnerInv'
  BY <1>1 DEF OwnerInv, OnlyOwnerServed, Request, Mine
<1>2. ASSUME NEW p \in Processes, Ensures(p) PROVE OwnerInv'
  BY <1>1, <1>2 DEF Ensures, Start, FastPath, ReadTables, ReadColumns, ReadVersion, Decide, Shape,
       Bootstrap, Adopt, Plan, AdoptLedger, Migrate, Validate, ReadFails, KeepRest
<1>3. ASSUME NEW p \in Processes, ReadOwner(p) PROVE OwnerInv'
  <2> DEFINE q == [at |-> "legacy", owner |-> owner.current]
  <2>1. q \in Requests /\ q.at = "legacy" /\ q.owner = owner.current
    BY DEF OwnerInv, Requests
  <2>2. Ask(p, q) /\ UNCHANGED <<owner, served>>
    BY <1>3 DEF ReadOwner
  <2> HIDE DEF q
  <2> QED BY <2>1, <2>2, Asks
<1>4. ASSUME NEW p \in Processes, CheckOwner(p) PROVE OwnerInv'
  <2>1. UNCHANGED owner
    BY <1>4 DEF CheckOwner
  <2>2. CASE Answer(p, FALSE)
    BY <2>1, <2>2, Asks, NoRequestType DEF Answer
  <2>3. CASE /\ owner.legacy \in {None, Mine(p)} /\ Request(p).owner = None
             /\ Ask(p, [at |-> "binding", owner |-> None]) /\ UNCHANGED served
    <3> DEFINE q == [at |-> "binding", owner |-> None]
    <3>1. q \in Requests /\ q.at = "binding" /\ q.owner = None
      BY DEF Requests
    <3>2. Ask(p, q)
      BY <2>3
    <3> HIDE DEF q
    <3> QED BY <2>1, <2>3, <3>1, <3>2, Asks
  <2>4. CASE /\ owner.legacy \in {None, Mine(p)} /\ Request(p).owner # None
             /\ Answer(p, Request(p).owner = Mine(p))
    <3>1. owner.current = Request(p).owner
      BY <2>4 DEF OwnerInv
    <3> QED BY <2>1, <2>4, <3>1, Asks, NoRequestType DEF Answer
  <2> QED BY <1>4, <2>2, <2>3, <2>4 DEF CheckOwner
<1>5. ASSUME NEW p \in Processes, Crash(p) \/ Restart(p) PROVE OwnerInv'
  BY <1>5, Asks, NoRequestType DEF Crash, Restart
<1>6. ASSUME UNCHANGED storageVars PROVE OwnerInv'
  BY <1>1, <1>6 DEF storageVars
<1> QED BY <1>2, <1>3, <1>4, <1>5, <1>6, Binds DEF StorageNext, Serves

(* Whichever personas the backends on one database are configured for, and    *)
(* however their requests interleave, requests that write are admitted for    *)
(* the one that owns it (validate_for_protected_action, bind_persona_identity).*)
THEOREM OneOwner == StorageSpec => []OnlyOwnerServed
<1>1. OwnerInv => OnlyOwnerServed
  BY DEF OwnerInv
<1> QED BY <1>1, InitOwner, OwnerStep, PTL DEF StorageSpec
=============================================================================
