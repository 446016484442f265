----------------------------- MODULE Migrations -----------------------------
(* Every start of a backend, and the Initialize action of the desktop, runs  *)
(* ensure_turso_schema_current on a database that other processes may be      *)
(* bringing up to date at the same moment, and goes on serving whatever came  *)
(* of it.  In SHARED mode each request that writes first claims or checks the *)
(* persona that owns the database (persona_storage.py).  Reads are one query  *)
(* each, transactions are atomic; a commit may be reported as failed.         *)
EXTENDS SchemaContract

CONSTANTS
  Processes,    \* backends on one database
  Personas,     \* what they are configured for
  MaxTroubles,  \* bound on failed queries and commits and on deaths
  None

ASSUME MigrationsAssumption ==
  /\ MaxTroubles \in Nat
  /\ None \notin Personas

VARIABLES
  db,           \* the database: tables, version, ledger
  owner,        \* schema_metadata: mindcore_persona_id and android_persona_id
  origin,       \* the database as it was found, if that is to stay as it is
  proc,         \* how far each process is in bringing it up to date
  gate,         \* how far each process is in admitting a request
  served,       \* processes that have admitted a request that writes
  troubles      \* failures and deaths so far

storageVars == <<db, owner, origin, proc, gate, served, troubles>>

NoReport == [tables |-> {}, context |-> FALSE, version |-> NoVersion]
Row(at, report, next) == [at |-> at, report |-> report, next |-> next]
Down == Row("down", NoReport, NoVersion)
NoRequest == [at |-> "none", owner |-> None]

StorageInit ==
  /\ db \in Recognised \cup Strangers
  /\ \E legacy \in Personas \cup {None}, claimed \in Personas \cup {None} :
       /\ claimed # None => "metadata" \in db.tables /\ legacy \in {None, claimed}
       /\ legacy # None => "metadata" \in db.tables
       /\ owner = [current |-> claimed, legacy |-> legacy]
  /\ origin = IF db \in Strangers THEN db ELSE Empty
  /\ proc = [p \in Processes |-> Down]
  /\ \E expected \in [Processes -> Personas] :
       gate = [p \in Processes |-> [request |-> NoRequest, persona |-> expected[p]]]
  /\ served = {}
  /\ troubles = 0

---------------------------------------------------------------------------
(* What every step is made of. *)

Trouble == troubles < MaxTroubles /\ troubles' = troubles + 1

Become(p, row) == proc' = [proc EXCEPT ![p] = row]
Goto(p, at) == Become(p, [proc[p] EXCEPT !.at = at])

\* What was read is forgotten once it is decided upon.
Leave(p, at) == Become(p, Row(at, NoReport, NoVersion))

\* ensure_turso_schema_current raises; the lifespan logs it and the process
\* goes on without recovery and without autonomy.
Refuse(p) == Leave(p, "refused")

KeepRest == UNCHANGED <<owner, origin, gate, served>>
Quietly == UNCHANGED troubles
NoWrite == UNCHANGED db

\* An atomic transaction that turns the database into d if all its statements
\* succeed.  Its commit may fail, or succeed and be reported as failed.
Transaction(p, ok, d, then) ==
  \/ ok /\ db' = d /\ Become(p, then) /\ Quietly
  \/ ok /\ db' \in {db, d} /\ Refuse(p) /\ Trouble
  \/ ~ok /\ NoWrite /\ Refuse(p) /\ Quietly

---------------------------------------------------------------------------
(* ensure_turso_schema_current up to its decision *)

Start(p) ==
  /\ proc[p].at = "down"
  /\ Goto(p, "inspecting")
  /\ NoWrite /\ KeepRest /\ Quietly

Snapshot == [tables |-> db.tables, context |-> db.context, version |-> db.version]

\* inspect_current_turso_schema: one query, which fails without the two tables
\* and does not look at rows.
LooksCurrent ==
  /\ {"metadata", "ledger"} \subseteq db.tables
  /\ Classify(Snapshot, db.flaw = "structure") = "CURRENT"
  /\ db.ledger # {}

FastPath(p) ==
  /\ proc[p].at = "inspecting"
  /\ \/ LooksCurrent /\ ValidLedger(db.ledger, Target) /\ Goto(p, "ready")
     \/ LooksCurrent /\ ~ValidLedger(db.ledger, Target) /\ Refuse(p)
     \/ ~LooksCurrent /\ Goto(p, "tables")
  /\ NoWrite /\ KeepRest /\ Quietly

\* classify_turso_schema reads the tables, then their columns and constraints,
\* then the version.
ReadTables(p) ==
  /\ proc[p].at = "tables"
  /\ Become(p, Row(IF db.tables = {} THEN "bootstrapping" ELSE "columns",
                   [NoReport EXCEPT !.tables = db.tables], NoVersion))
  /\ NoWrite /\ KeepRest /\ Quietly

ReadColumns(p) ==
  /\ proc[p].at = "columns"
  /\ Become(p, Row("version", [proc[p].report EXCEPT !.context = db.context], NoVersion))
  /\ NoWrite /\ KeepRest /\ Quietly

ReadVersion(p) ==
  /\ proc[p].at = "version"
  /\ LET seen == [proc[p].report EXCEPT
                    !.version = IF "metadata" \in proc[p].report.tables THEN db.version ELSE NoVersion]
     IN CASE Classify(seen, db.flaw # "none") = "COMPATIBLE_LEGACY" -> Leave(p, "adopting")
          [] Classify(seen, db.flaw # "none") = "CURRENT" -> Leave(p, "planning")
          [] OTHER -> Become(p, Row("deciding", seen, NoVersion))
  /\ NoWrite /\ KeepRest /\ Quietly

\* The version is read again: a partial database is upgraded only over the
\* exact gap of the release it says it is.
Decide(p) ==
  /\ proc[p].at = "deciding"
  /\ \/ "metadata" \notin db.tables /\ Goto(p, "shaping")
     \/ /\ "metadata" \in db.tables
        /\ IF db.version \in Registered
              /\ ReleasedGap(proc[p].report, db.flaw # "none", db.version)
             THEN Leave(p, "planning")
             ELSE Refuse(p)
  /\ NoWrite /\ KeepRest /\ Quietly

\* _is_unversioned_released_v21_turn_durability_upgrade reads the tables again.
Shape(p) ==
  /\ proc[p].at = "shaping"
  /\ IF /\ {"metadata", "ledger"} \cap db.tables = {}
        /\ "metadata" \notin proc[p].report.tables
        /\ ReleasedGap([proc[p].report EXCEPT !.version = 21], db.flaw # "none", 21)
       THEN Leave(p, "adopting21")
       ELSE Refuse(p)
  /\ NoWrite /\ KeepRest /\ Quietly

---------------------------------------------------------------------------
(* The transactions *)


\* Its first statement creates schema_metadata, the following ones the tables.
Bootstrap(p) ==
  /\ proc[p].at = "bootstrapping"
  /\ Transaction(p, db.tables = {}, Versioned(Target, {}), Row("planning", NoReport, NoVersion))
  /\ KeepRest

\* The database with what a transaction writes: what is wrong with it stays.
Becomes(tables, context, version, rows) ==
  [tables |-> tables, context |-> context, version |-> version, ledger |-> rows,
   flaw |-> db.flaw]

\* A database without a version gets one, and a ledger that begins there.
AdoptedAs(v) ==
  Becomes(db.tables \cup {"metadata", "ledger"}, db.context, v, db.ledger \cup {Baseline(v)})

\* schema_metadata is created and must not be there; a ledger may be.
Adopt(p, v) ==
  /\ proc[p].at = IF v = Target THEN "adopting" ELSE "adopting21"
  /\ Transaction(p, /\ "metadata" \notin db.tables
                    /\ Baseline(v) \notin db.ledger
                    /\ ValidLedger(AdoptedAs(v).ledger, v),
                 AdoptedAs(v), Row("planning", NoReport, NoVersion))
  /\ KeepRest

\* run_forward_migrations: the version, and the steps from there to the target
Plan(p) ==
  /\ proc[p].at = "planning"
  /\ IF "metadata" \in db.tables /\ db.version \in Registered \cup {Target}
       THEN Become(p, Row("ledgering", NoReport, db.version))
       ELSE Refuse(p)
  /\ NoWrite /\ KeepRest /\ Quietly

\* The steps that are left when the version is v.
Onward(v) ==
  IF v = Target THEN Row("validating", NoReport, NoVersion)
                ELSE Row("migrating", NoReport, v)

\* The baseline is inserted whatever rows there are.
AdoptLedgerAlways(p) ==
  /\ proc[p].at = "ledgering"
  /\ LET v == proc[p].next
         rows == db.ledger \cup {Baseline(v)}
     IN Transaction(p, ValidLedger(rows, v),
                    Becomes(db.tables \cup {"ledger"}, db.context, db.version, rows), Onward(v))
  /\ KeepRest

\* _adopt_version_into_ledger, for the version read before
AdoptLedger(p) ==
  /\ proc[p].at = "ledgering"
  /\ LET v == proc[p].next
         rows == IF db.ledger = {} THEN {Baseline(v)} ELSE db.ledger
     IN Transaction(p, ValidLedger(rows, v),
                    Becomes(db.tables \cup {"ledger"}, db.context, db.version, rows), Onward(v))
  /\ KeepRest

\* The version row is not part of the step.
MigratedBehind(v) ==
  Becomes(db.tables \cup SchemaOf(v + 1), HasContext(v + 1), db.version,
          db.ledger \cup {Step(v)})

\* The tables and columns of migration v, its ledger row and the new version
Migrated(v) ==
  Becomes(db.tables \cup SchemaOf(v + 1), HasContext(v + 1), v + 1,
          db.ledger \cup {Step(v)})

\* What the step would create is not there yet.
Applicable(v) ==
  /\ (SchemaOf(v + 1) \ SchemaOf(v)) \cap db.tables = {}
  /\ HasContext(v + 1) /\ ~HasContext(v) => ~db.context

\* One registered step; the version it starts from is read again inside.
Migrate(p) ==
  /\ proc[p].at = "migrating"
  /\ LET v == proc[p].next
     IN \/ /\ db.version = v + 1          \* another process was first
           /\ IF ValidLedger(db.ledger, v + 1)
                THEN Become(p, Onward(v + 1))
                ELSE Refuse(p)
           /\ NoWrite /\ Quietly
        \/ /\ db.version # v + 1
           /\ Transaction(p, /\ db.version = v
                             /\ ValidLedger(db.ledger, v)
                             /\ Step(v) \notin db.ledger
                             /\ Applicable(v),
                          Migrated(v), Onward(v + 1))
  /\ KeepRest

\* The final version and ledger and validate_turso_schema_full.  At the target
\* nothing changes any more, so its reads are one.
Validate(p) ==
  /\ proc[p].at = "validating"
  /\ IF /\ db.version = Target /\ db.ledger # {}
        /\ ValidLedger(db.ledger, Target)
        /\ Classify(Snapshot, db.flaw # "none") = "CURRENT"
       THEN Leave(p, "ready")
       ELSE Refuse(p)
  /\ NoWrite /\ KeepRest /\ Quietly

Reading == {"tables", "columns", "version", "deciding", "shaping", "planning", "validating"}

ReadFails(p) ==
  /\ proc[p].at \in Reading
  /\ Refuse(p) /\ Trouble
  /\ NoWrite /\ KeepRest

---------------------------------------------------------------------------
(* validate_for_protected_action, before each request that writes *)

Request(p) == gate[p].request
Mine(p) == gate[p].persona

Ask(p, request) == gate' = [gate EXCEPT ![p] = [@ EXCEPT !.request = request]]

Answer(p, admitted) ==
  /\ Ask(p, NoRequest)
  /\ served' = IF admitted THEN served \cup {p} ELSE served

KeepSchema == UNCHANGED <<db, origin, proc>>

\* The gate asks for the owner, whatever the start has come to.
ReadOwner(p) ==
  /\ proc[p].at \in {"ready", "refused"}
  /\ Request(p).at = "none"
  /\ "metadata" \in db.tables
  /\ Ask(p, [at |-> "legacy", owner |-> owner.current])
  /\ KeepSchema /\ UNCHANGED <<owner, served>> /\ Quietly

CheckOwner(p) ==
  /\ Request(p).at = "legacy"
  /\ \/ /\ owner.legacy \notin {None, Mine(p)}
        /\ Answer(p, FALSE)
     \/ /\ owner.legacy \in {None, Mine(p)} /\ Request(p).owner = None
        /\ Ask(p, [at |-> "binding", owner |-> None])
        /\ UNCHANGED served
     \/ /\ owner.legacy \in {None, Mine(p)} /\ Request(p).owner # None
        /\ Answer(p, Request(p).owner = Mine(p))
  /\ KeepSchema /\ UNCHANGED owner /\ Quietly

\* The owner is not read again after the insert.
BindUnread(p) ==
  /\ Request(p).at = "binding"
  /\ owner' = IF owner.current = None THEN [owner EXCEPT !.current = Mine(p)] ELSE owner
  /\ Answer(p, TRUE)
  /\ KeepSchema /\ Quietly

\* bind_persona_identity: insert if there is no owner, and read who it is.
Bind(p) ==
  /\ Request(p).at = "binding"
  /\ LET claimed == IF owner.current = None THEN [owner EXCEPT !.current = Mine(p)] ELSE owner
     IN \/ owner' = claimed /\ Answer(p, claimed.current = Mine(p)) /\ Quietly
        \/ owner' \in {owner, claimed} /\ Answer(p, FALSE) /\ Trouble
  /\ KeepSchema

---------------------------------------------------------------------------

Crash(p) ==
  /\ proc[p].at # "down"
  /\ Trouble
  /\ Become(p, Down)
  /\ Ask(p, NoRequest)
  /\ UNCHANGED <<db, owner, origin, served>>

\* The user starts the backend again.
Restart(p) ==
  /\ proc[p].at = "refused"
  /\ Become(p, Down)
  /\ Ask(p, NoRequest)
  /\ UNCHANGED <<db, owner, origin, served>> /\ Quietly

Ensures(p) ==
  \/ Start(p) \/ FastPath(p)
  \/ ReadTables(p) \/ ReadColumns(p) \/ ReadVersion(p) \/ Decide(p) \/ Shape(p)
  \/ Bootstrap(p) \/ Adopt(p, Target) \/ Adopt(p, 21)
  \/ Plan(p) \/ AdoptLedger(p) \/ Migrate(p) \/ Validate(p)
  \/ ReadFails(p)

Serves(p) == ReadOwner(p) \/ CheckOwner(p) \/ Bind(p)

StorageNext == \E p \in Processes : Ensures(p) \/ Serves(p) \/ Crash(p) \/ Restart(p)

\* A process that is started gets on with its start, and one that could not
\* bring the schema up to date is started again some day.
StorageSpec ==
  /\ StorageInit
  /\ [][StorageNext]_storageVars
  /\ \A p \in Processes : WF_storageVars(Ensures(p)) /\ WF_storageVars(Restart(p))

---------------------------------------------------------------------------
(* Properties *)

(* The version row, the tables and the ledger never disagree, whoever dies    *)
(* between two transactions: a database that was recognised has at every      *)
(* moment the schema of the version it says, with the ledger that leads       *)
(* there, and a process is ready only over the current one.                   *)
SchemaTruth ==
  /\ origin \in Recognised => db \in Recognised
  /\ \A p \in Processes : proc[p].at = "ready" =>
       /\ Classify(Snapshot, db.flaw = "structure") = "CURRENT"
       /\ db.ledger # {} /\ ValidLedger(db.ledger, Target)

(* "A partial, malformed, unknown, or newer database is rejected rather than  *)
(* guessed at or repaired" (docs/schema-migrations.md): no start changes it.  *)
StrangersUntouched == origin \in Strangers => db = origin

(* Requests that write are admitted for one persona, the one that owns the    *)
(* database, although owner, legacy owner and claim are separate accesses and *)
(* two personas may make their first request at once.                         *)
OnlyOwnerServed ==
  \A p \in served : owner.current = Mine(p) /\ owner.legacy \in {None, Mine(p)}

(* A recognised database is current in the end and every backend ready: no    *)
(* crash and no lost commit leaves a state that a later start refuses.        *)
SettlesCurrent ==
  <>[](origin \in Recognised => \A p \in Processes : proc[p].at = "ready")
=============================================================================
