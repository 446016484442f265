--------------------------- MODULE SchemaContract ---------------------------
(* What schema_contract.py and migrations.py say of a database: which        *)
(* released version it has, what is missing from it, whether its ledger is    *)
(* in order.  Columns, indexes and constraints matter as far as the upgrades  *)
(* tell them apart: the tables come in groups, the three columns of turn      *)
(* context are one part, and anything else that may be wrong is a flaw.       *)
EXTENDS Naturals, FiniteSets

Target == 24                 \* CURRENT_TURSO_BASELINE_VERSION
Registered == 21 .. 23       \* the from_version of each registered migration
NoVersion == 0               \* schema_metadata has no version row

\* The tables of the contract, in the groups that are found or missing
\* together: chat_turns with chat_turn_stages, autonomy_executions, and two
\* halves of all others, so that a database may be partial.
Required == {"core", "rest", "turns", "executions"}
Tables == Required \cup {"metadata", "ledger"}

\* A missing constraint, or rows that integrity_check or foreign_key_check
\* object to, which the start-up snapshot does not look at.
Flaws == {"none", "structure", "data"}

Baseline(v) == [kind |-> "baseline", from |-> v, to |-> v]
Step(v) == [kind |-> "step", from |-> v, to |-> v + 1]
Altered(v) == [kind |-> "altered", from |-> v, to |-> v]   \* another checksum

\* What the migrations 022, 023 and 024 add.
SchemaOf(v) == {"core", "rest"} \cup (IF v >= 22 THEN {"turns"} ELSE {})
                                \cup (IF v >= 24 THEN {"executions"} ELSE {})
HasContext(v) == v >= 23

---------------------------------------------------------------------------
(* SchemaReport: r is what was read of tables, columns and version. *)

MissingTables(r) == Required \ r.tables
MissingContext(r) == "turns" \in r.tables /\ ~r.context
VersionIssue(r) == "metadata" \in r.tables /\ r.version # Target

\* _report_from_metadata
Classify(r, flawed) ==
  IF r.tables = {} THEN "EMPTY"
  ELSE IF MissingTables(r) # {} \/ MissingContext(r) \/ flawed \/ VersionIssue(r)
         THEN "PARTIAL_OR_UNKNOWN"
  ELSE IF "metadata" \in r.tables THEN "CURRENT" ELSE "COMPATIBLE_LEGACY"

\* Whatever else is missing is ignored when the durability tables are.
LooseGap(r, flawed, v) ==
  /\ r.version = v
  /\ MissingTables(r) # {}

\* The exact gap between a released version and the contract.
ReleasedGap(r, flawed, v) ==
  /\ r.version = v
  /\ ~flawed
  /\ MissingTables(r) = Required \ SchemaOf(v)
  /\ MissingContext(r) = (v = 22)

\* _validate_ledger_rows: in the order of their versions, a baseline and the
\* registered steps that follow it without a gap, up to the current version.
ValidLedger(rows, current) ==
  rows = {} \/ \E b \in 1 .. current :
                 /\ rows = {Baseline(b)} \cup {Step(v) : v \in b .. current - 1}
                 /\ b .. current - 1 \subseteq Registered

---------------------------------------------------------------------------
(* The databases a process may find. *)

Database(tables, context, version, rows) ==
  [tables |-> tables, context |-> context, version |-> version, ledger |-> rows,
   flaw |-> "none"]

Empty == Database({}, FALSE, NoVersion, {})
Versionless(v) == Database(SchemaOf(v), HasContext(v), NoVersion, {})
Versioned(v, rows) ==
  Database(SchemaOf(v) \cup {"metadata"} \cup (IF rows = {} THEN {} ELSE {"ledger"}),
           HasContext(v), v, rows)

\* A released database keeps a ledger or, before there was one, none.
Ledgers(v) ==
  {{}} \cup {{Baseline(b)} \cup {Step(w) : w \in b .. v - 1} : b \in 21 .. v}

\* The databases docs/schema-migrations.md promises to bring up to date.
Recognised ==
  {Empty, Versionless(21), Versionless(Target)} \cup
  UNION {{Versioned(v, rows) : rows \in Ledgers(v)} : v \in Registered \cup {Target}}

\* Those it promises to leave alone are partial, malformed, newer or unknown,
\* or their ledger is not the one that leads to their version.
Old == {Versioned(v, rows) : v \in Registered, rows \in {{}, {Baseline(21)}}} \cup {Versionless(21)}
Partials == {[d EXCEPT !.tables = @ \ {"rest"}] : d \in Old}
Malformed ==
  {[d EXCEPT !.flaw = f] : d \in Old \cup {Versioned(Target, rows) : rows \in Ledgers(Target)},
                           f \in {"structure", "data"}}
Misnumbered ==
  {[Versioned(Target, rows) EXCEPT !.version = v] : rows \in Ledgers(Target), v \in {NoVersion, 20, 25}}
Misled ==
  {Versioned(v, {Altered(v)}) : v \in Registered \cup {Target}} \cup
  {Versioned(v, {Baseline(v - 1)}) : v \in {22, Target}} \cup {Versioned(23, {Step(22)})}
Unreleased ==
  {Versionless(22), Versionless(23), [Versionless(21) EXCEPT !.tables = @ \cup {"ledger"}]}

Strangers == Partials \cup Malformed \cup Misnumbered \cup Misled \cup Unreleased
=============================================================================
