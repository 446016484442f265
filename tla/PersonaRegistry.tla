-------------------------- MODULE PersonaRegistry --------------------------
(* The personas of the desktop application live in a registry file, one     *)
(* directory each and one slot of the operating system's credential store.  *)
(* The commands of main.rs change them one file at a time, and each command  *)
(* begins with registry(), which brings the files in line with the registry  *)
(* and goes on with deletions that were not finished.  Commands run one at a *)
(* time on the main thread, except manual_sync_action, which runs registry() *)
(* on a thread of its own and takes no lock.                                 *)
(*                                                                           *)
(* The backend process is abstracted to the persona it serves: that it is    *)
(* gone when stop_sidecar returns, and that it is ours when start_sidecar    *)
(* succeeds, is what SidecarLifecycle is about.                              *)
EXTENDS Naturals, FiniteSets

CONSTANTS
  Personas,      \* identifiers; a fresh one is drawn for each new persona
  Names,         \* display names
  Formats,       \* avatar formats: png, jpg, webp
  MaxCommands,   \* bound on the commands given on the main thread
  MaxSyncs,      \* bound on the calls of manual_sync_action
  MaxFaults,     \* bound on the writes that fail
  MaxCrashes,    \* bound on the deaths of the application
  None

ASSUME RegistryAssumption ==
  /\ MaxCommands \in Nat /\ MaxSyncs \in Nat /\ MaxFaults \in Nat /\ MaxCrashes \in Nat
  /\ None \notin Personas \cup Names \cup Formats
  /\ None \notin [name : Names \cup {None}, tuned : BOOLEAN]

VARIABLES
  registry,      \* personas.json
  disk,          \* per persona: persona.env, identity, avatars, credential slot
  global,        \* the configuration shared by all personas is there
  backend,       \* the persona the running backend was started for
  job,           \* the command of each thread
  done,          \* commands, syncs, faults and crashes so far
  deleted,       \* personas whose deletion was completed
  overwritten,   \* manual_sync_action saved a registry over one it had not read
  confessed      \* a rollback has reported itself incomplete

registryVars ==
  <<registry, disk, global, backend, job, done, deleted, overwritten, confessed>>

Threads == {"main", "sync"}
States == {"absent", "provisioning", "ready", "deleting"}

\* "first" is the persona of the initial setup: its identity file lies outside
\* the directory of the persona.
NoRegistry ==
  [active |-> None, first |-> None, state |-> [p \in Personas |-> "absent"],
   name |-> [p \in Personas |-> None], avatar |-> [p \in Personas |-> None]]

Nothing == [config |-> None, identity |-> FALSE, credential |-> FALSE, avatars |-> {}]

\* persona.env as profile_config_text writes it: settings of any other kind
\* (here: tuned) are not copied.
Projection(n) == [name |-> n, tuned |-> FALSE]

Idle == [op |-> "none", at |-> "idle", p |-> None, arg |-> None, step |-> 0,
         seen |-> NoRegistry, todo |-> {}, freed |-> {}, after |-> "idle",
         reg |-> NoRegistry, was |-> NoRegistry, kept |-> Nothing,
         keptGlobal |-> FALSE, chosen |-> None, fresh |-> FALSE, second |-> FALSE]

\* The application starts its backend as soon as it is set up.
StartUp == [Idle EXCEPT !.op = "start", !.at = "starting"]

Listed(r) == {p \in Personas : r.state[p] # "absent"}
Ready(r) == {p \in Personas : r.state[p] = "ready"}
Deleting(r) == {p \in Personas : r.state[p] = "deleting"}

\* A new installation, or one on which every persona is set up.
RegistryInit ==
  /\ \/ /\ registry = NoRegistry
        /\ disk = [p \in Personas |-> Nothing]
        /\ global = FALSE
     \/ \E n \in [Personas -> Names], f \in Personas :
          /\ \A p, q \in Personas : n[p] = n[q] => p = q
          /\ registry = [NoRegistry EXCEPT !.active = f, !.first = f, !.name = n,
                                           !.state = [p \in Personas |-> "ready"]]
          /\ disk = [p \in Personas |->
                       [Nothing EXCEPT !.config = Projection(n[p]), !.identity = TRUE,
                                       !.credential = TRUE]]
          /\ global = TRUE
  /\ backend = None
  /\ job = [t \in Threads |-> IF t = "main" THEN StartUp ELSE Idle]
  /\ done = [commands |-> 0, syncs |-> 0, faults |-> 0, crashes |-> 0]
  /\ deleted = {}
  /\ overwritten = FALSE
  /\ confessed = FALSE

---------------------------------------------------------------------------
(* What every step is made of. *)

Fault == done.faults < MaxFaults /\ done' = [done EXCEPT !.faults = @ + 1]
NoFault == UNCHANGED done

Goto(t, at) == job' = [job EXCEPT ![t].at = at]
Return(t) == job' = [job EXCEPT ![t] = Idle]

\* secure_atomic_write of personas.json: a command saves the registry it has made
\* from the one it loaded.
Commit(r) == registry' = r /\ UNCHANGED overwritten

KeepFiles == UNCHANGED <<disk, global>>
KeepRegistry == UNCHANGED <<registry, overwritten>>
KeepRest == UNCHANGED <<backend, deleted, confessed>>

---------------------------------------------------------------------------
(* registry(): load, project, go on with deletions. *)

Load(t) ==
  /\ job[t].at = "loading"
  /\ IF registry = NoRegistry
       THEN IF job[t].op = "save"
              THEN job' = [job EXCEPT ![t] = [@ EXCEPT !.at = job[t].after, !.seen = registry]]
              ELSE Return(t)
       ELSE job' = [job EXCEPT ![t] = [@ EXCEPT !.at = "projecting", !.seen = registry]]
  /\ KeepFiles /\ KeepRegistry /\ KeepRest /\ NoFault

\* A start that meets an error is a failed start of its command; any other
\* command ends.
StartFails(t) ==
  IF job[t].op \in {"switch", "update", "settings"} /\ ~job[t].second
    THEN Goto(t, "undoing")
    ELSE Return(t)

LoadFails(t) ==
  IF job[t].after \in {"completing", "choosing"} THEN StartFails(t) ELSE Return(t)

\* migrate_profile_database_credential for every profile not being deleted
Project(t) ==
  /\ job[t].at = "projecting"
  /\ LET r == job[t].seen
         todo == Listed(r) \ Deleting(r)
         Projected(S) == [p \in Personas |->
           IF p \in S THEN [disk[p] EXCEPT !.config = Projection(r.name[p])] ELSE disk[p]]
     IN \/ /\ \A p \in todo : disk[p].config # None
           /\ disk' = Projected(todo)
           /\ job' = [job EXCEPT ![t] = [@ EXCEPT !.at = "recovering", !.todo = Deleting(r),
                                                  !.freed = {}]]
           /\ NoFault
        \/ \E p \in todo, S \in SUBSET todo :
             /\ p \notin S
             /\ \A q \in S : disk[q].config # None
             /\ disk' = Projected(S)
             /\ \/ disk[p].config = None /\ NoFault
                \/ disk[p].config \notin {None, Projection(r.name[p])} /\ Fault
             /\ LoadFails(t)
  /\ UNCHANGED global /\ KeepRegistry /\ KeepRest

\* The configuration goes first, and with it the name of the credential.
CleanedConfigFirst(r, p, k) ==
  [disk EXCEPT ![p] =
    [credential |-> disk[p].credential /\ (k < 3 \/ disk[p].config = None),
     avatars    |-> IF k < 2 THEN disk[p].avatars ELSE disk[p].avatars \ {r.avatar[p]},
     config     |-> IF k < 1 THEN disk[p].config ELSE None,
     identity   |-> disk[p].identity /\ (k < 4 \/ p = r.first)]]

\* cleanup_profile_and_database_credential, stopped after k of its pieces:
\* credential, avatar, configuration, identity, directory.
Cleaned(r, p, k) ==
  [disk EXCEPT ![p] =
    [credential |-> disk[p].credential /\ (k < 1 \/ disk[p].config = None),
     avatars    |-> IF k < 2 THEN disk[p].avatars ELSE disk[p].avatars \ {r.avatar[p]},
     config     |-> IF k < 3 THEN disk[p].config ELSE None,
     identity   |-> disk[p].identity /\ (k < 4 \/ p = r.first)]]

\* The cleanup of p is complete, or something of p is left.  The directory is
\* not removed while it holds an avatar that the registry does not know of.
CleanUp(r, p, complete) ==
  \E k \in 0 .. 5 :
    /\ disk' = Cleaned(r, p, k)
    /\ LET stray == k >= 4 /\ disk'[p].avatars # {}
       IN /\ complete <=> (k = 5 /\ ~stray)
          /\ k = 5 => ~stray
          /\ IF k = 5 \/ stray THEN NoFault ELSE Fault

Without(r, S) ==
  [r EXCEPT !.state = [p \in Personas |-> IF p \in S THEN "absent" ELSE r.state[p]],
            !.name = [p \in Personas |-> IF p \in S THEN None ELSE r.name[p]],
            !.avatar = [p \in Personas |-> IF p \in S THEN None ELSE r.avatar[p]]]

\* recover_deleting_personas_with: one profile
RecoverOne(t) ==
  /\ job[t].at = "recovering"
  /\ \E p \in job[t].todo, complete \in BOOLEAN :
       /\ CleanUp(job[t].seen, p, complete)
       /\ job' = [job EXCEPT ![t] = [@ EXCEPT
             !.todo = job[t].todo \ {p},
             !.freed = job[t].freed \cup IF complete THEN {p} ELSE {}]]
  /\ UNCHANGED global /\ KeepRegistry /\ KeepRest

\* ... and the registry without those that are gone.
RecoverSave(t) ==
  /\ job[t].at = "recovering"
  /\ job[t].todo = {}
  /\ LET r == Without(job[t].seen, job[t].freed)
     IN \/ /\ job[t].freed = {}
           /\ Goto(t, job[t].after)
           /\ KeepRegistry /\ NoFault /\ UNCHANGED deleted
        \/ /\ job[t].freed # {}
           /\ registry' = r
           /\ overwritten' = (overwritten \/ (t = "sync" /\ registry # job[t].seen))
           /\ deleted' = deleted \cup job[t].freed
           /\ job' = [job EXCEPT ![t] = [@ EXCEPT !.at = job[t].after, !.seen = r]]
           /\ NoFault
        \/ /\ job[t].freed # {}
           /\ Goto(t, job[t].after)
           /\ KeepRegistry /\ Fault /\ UNCHANGED deleted
  /\ KeepFiles /\ UNCHANGED <<backend, confessed>>

Registry(t) == Load(t) \/ Project(t) \/ RecoverOne(t) \/ RecoverSave(t)

---------------------------------------------------------------------------
(* start_sidecar and stop_sidecar, as far as they read the registry *)

\* A backend that runs is left running, whatever persona it serves.
Start ==
  /\ job["main"].at = "starting"
  /\ \/ backend # None /\ Return("main")
     \/ backend = None /\ ~global /\ StartFails("main")
     \/ /\ backend = None /\ global
        /\ job' = [job EXCEPT !["main"] = [@ EXCEPT !.at = "loading", !.after = "completing"]]
  /\ KeepFiles /\ KeepRegistry /\ KeepRest /\ NoFault

Whole(p) == disk[p].config # None /\ disk[p].identity /\ disk[p].credential

\* config_is_complete, then active_profile with a load of its own
Complete ==
  /\ job["main"].at = "completing"
  /\ \/ /\ Whole(job["main"].seen.active)
        /\ job' = [job EXCEPT !["main"] = [@ EXCEPT !.at = "loading", !.after = "choosing"]]
     \/ ~Whole(job["main"].seen.active) /\ StartFails("main")
  /\ KeepFiles /\ KeepRegistry /\ KeepRest /\ NoFault

Choose ==
  /\ job["main"].at = "choosing"
  /\ LET p == job["main"].seen.active
     IN \/ /\ disk[p].config # None /\ disk[p].credential
           /\ job' = [job EXCEPT !["main"] = [@ EXCEPT !.at = "launching", !.chosen = p]]
        \/ /\ disk[p].config = None \/ ~disk[p].credential
           /\ StartFails("main")
  /\ KeepFiles /\ KeepRegistry /\ KeepRest /\ NoFault

Launch ==
  /\ job["main"].at = "launching"
  /\ \/ /\ backend' = job["main"].chosen
        /\ Return("main")
     \/ /\ StartFails("main")
        /\ UNCHANGED backend
  /\ KeepFiles /\ KeepRegistry /\ NoFault /\ UNCHANGED <<deleted, confessed>>

Stop ==
  /\ job["main"].at = "stopping"
  /\ backend' = None
  /\ IF job["main"].op = "stop" THEN Return("main")
     ELSE Goto("main", IF job["main"].op = "switch" THEN "saving" ELSE "starting")
  /\ KeepFiles /\ KeepRegistry /\ NoFault /\ UNCHANGED <<deleted, confessed>>

BackendDies ==
  /\ backend # None
  /\ backend' = None
  /\ KeepFiles /\ KeepRegistry /\ NoFault /\ UNCHANGED <<job, deleted, confessed>>

---------------------------------------------------------------------------
(* The commands.  Each begins with registry() and acts on what it returned. *)

Me == job["main"]
Acting(op) == Me.at = "acting" /\ Me.op = op
At(op, at) == Me.op = op /\ Me.at = at

Refuse == Return("main") /\ KeepFiles /\ KeepRegistry /\ KeepRest /\ NoFault

\* The first step of a command: r is the registry it means to save.
Begin(at, r) ==
  /\ job' = [job EXCEPT !["main"] =
               [@ EXCEPT !.at = at, !.reg = r, !.was = Me.seen, !.step = 1,
                         !.seen = NoRegistry, !.kept = disk[Me.p], !.keptGlobal = global]]
  /\ KeepFiles /\ KeepRegistry /\ KeepRest /\ NoFault

NameTaken(r, n, p) == \E q \in Listed(r) \ {p} : r.name[q] = n

\* list_personas, get_active_persona, get_setup_status; all that
\* manual_sync_action does with the registry
ReadOnly(t) ==
  /\ job[t].at = "acting" /\ job[t].op \in {"read", "sync"}
  /\ Return(t)
  /\ KeepFiles /\ KeepRegistry /\ KeepRest /\ NoFault

\* The backend is not stopped before the registry is saved.
SwitchBeginUnstopped ==
  /\ Acting("switch")
  /\ IF Me.seen.active = Me.p \/ Me.seen.state[Me.p] # "ready"
       THEN Refuse
       ELSE Begin("saving", [Me.seen EXCEPT !.active = Me.p])

\* switch_active_persona
SwitchBegin ==
  /\ Acting("switch")
  /\ IF Me.seen.active = Me.p \/ Me.seen.state[Me.p] # "ready"
       THEN Refuse
       ELSE Begin("stopping", [Me.seen EXCEPT !.active = Me.p])

SwitchSave ==
  /\ At("switch", "saving")
  /\ \/ Commit(Me.reg) /\ NoFault /\ Goto("main", "starting")
     \/ /\ KeepRegistry /\ Fault
        /\ job' = [job EXCEPT !["main"] = [@ EXCEPT !.at = "starting", !.second = TRUE]]
  /\ KeepFiles /\ KeepRest

\* The start with the new persona failed: the old registry is put back.
SwitchUndo ==
  /\ At("switch", "undoing")
  /\ \/ Commit(Me.was) /\ NoFault
     \/ KeepRegistry /\ Fault
  /\ job' = [job EXCEPT !["main"] = [@ EXCEPT !.at = "starting", !.second = TRUE]]
  /\ KeepFiles /\ KeepRest

\* update_persona: persist_profile_update_with, then a restart if p is active
UpdateBegin ==
  /\ Acting("update")
  /\ IF \/ Me.seen.state[Me.p] # "ready"
        \/ disk[Me.p].config = None
        \/ NameTaken(Me.seen, Me.arg, Me.p)
       THEN Refuse
       ELSE Begin("writing", [Me.seen EXCEPT !.name[Me.p] = Me.arg])

\* Of a persist that is over: the first is reported or followed by a restart,
\* the one of a rollback is followed by a start whatever it came to.
UpdateEnds(ok) ==
  IF Me.second THEN Goto("main", "starting")
  ELSE IF ok /\ Me.was.active = Me.p THEN Goto("main", "stopping")
  ELSE Return("main")

UpdateWrite ==
  /\ At("update", "writing")
  /\ \/ /\ disk' = [disk EXCEPT ![Me.p].config = Projection(Me.reg.name[Me.p])]
        /\ Goto("main", "saving")
        /\ NoFault
     \/ /\ UNCHANGED disk
        /\ UpdateEnds(FALSE)
        /\ Fault
  /\ UNCHANGED global /\ KeepRegistry /\ KeepRest

UpdateSave ==
  /\ At("update", "saving")
  /\ \/ Commit(Me.reg) /\ NoFault /\ UpdateEnds(TRUE)
     \/ KeepRegistry /\ Fault /\ Goto("main", "restoring")
  /\ KeepFiles /\ KeepRest

UpdateRestore ==
  /\ At("update", "restoring")
  /\ \/ disk' = [disk EXCEPT ![Me.p].config = Me.kept.config] /\ NoFault
     \/ UNCHANGED disk /\ Fault
  /\ UpdateEnds(FALSE)
  /\ UNCHANGED global /\ KeepRegistry /\ KeepRest

UpdateUndo ==
  /\ At("update", "undoing")
  /\ job' = [job EXCEPT !["main"] =
               [@ EXCEPT !.at = IF disk[Me.p].config = None THEN "starting" ELSE "writing",
                         !.reg.name[Me.p] = Me.was.name[Me.p],
                         !.kept = disk[Me.p], !.second = TRUE]]
  /\ KeepFiles /\ KeepRegistry /\ KeepRest /\ NoFault

\* update_proactive_settings
SettingsBegin ==
  /\ Acting("settings")
  /\ IF Me.p \notin Listed(Me.seen) \/ disk[Me.p].config = None
       THEN Refuse
       ELSE Begin("writing", Me.seen)

SettingsWrite ==
  /\ At("settings", "writing")
  /\ \/ /\ disk' = [disk EXCEPT ![Me.p].config = [Me.kept.config EXCEPT !.tuned = TRUE]]
        /\ IF Me.was.active = Me.p THEN Goto("main", "stopping") ELSE Return("main")
        /\ NoFault
     \/ UNCHANGED disk /\ Return("main") /\ Fault
  /\ UNCHANGED global /\ KeepRegistry /\ KeepRest

SettingsUndo ==
  /\ At("settings", "undoing")
  /\ \/ disk' = [disk EXCEPT ![Me.p].config = Me.kept.config] /\ NoFault
     \/ UNCHANGED disk /\ Fault
  /\ job' = [job EXCEPT !["main"] = [@ EXCEPT !.at = "starting", !.second = TRUE]]
  /\ UNCHANGED global /\ KeepRegistry /\ KeepRest

---------------------------------------------------------------------------
(* create_persona: provision_persona_with *)

Pending(r, n) == {p \in Personas : r.state[p] = "provisioning" /\ r.name[p] = n}
Unused == {p \in Personas : /\ p \notin Listed(Me.seen) \cup Listed(registry) \cup deleted
                            /\ disk[p] = Nothing}

\* Asked again for a persona that is still being set up, it takes that one up.
CreateBegin ==
  /\ Acting("create")
  /\ LET taken == Pending(Me.seen, Me.arg)
     IN IF taken = {} /\ NameTaken(Me.seen, Me.arg, None)
          THEN Refuse
          ELSE \E p \in IF taken # {} THEN taken ELSE Unused :
                 /\ job' = [job EXCEPT !["main"] =
                      [@ EXCEPT !.at = "creating", !.step = 1, !.p = p,
                                !.fresh = (taken = {}), !.seen = NoRegistry,
                                !.reg = [Me.seen EXCEPT !.state[p] = "provisioning",
                                                        !.name[p] = Me.arg,
                                                        !.avatar[p] = None]]]
                 /\ KeepFiles /\ KeepRegistry /\ KeepRest /\ NoFault

\* 1 identity, 2 configuration, 4 credential
CreateFile ==
  /\ At("create", "creating")
  /\ Me.step \in {1, 2, 4}
  /\ \/ /\ disk' = CASE Me.step = 1 -> [disk EXCEPT ![Me.p].identity = TRUE]
                     [] Me.step = 2 -> [disk EXCEPT ![Me.p].config = Projection(Me.arg)]
                     [] Me.step = 4 -> [disk EXCEPT ![Me.p].credential = TRUE]
        /\ job' = [job EXCEPT !["main"].step = @ + 1]
        /\ NoFault
     \/ /\ disk' = IF Me.fresh /\ Me.step < 4 THEN [disk EXCEPT ![Me.p] = Nothing] ELSE disk
        /\ Return("main")
        /\ Fault
  /\ UNCHANGED global /\ KeepRegistry /\ KeepRest

\* 3 registered as provisioning
CreateRegister ==
  /\ At("create", "creating")
  /\ Me.step = 3
  /\ \/ /\ Commit(Me.reg)
        /\ job' = [job EXCEPT !["main"].step = 4]
        /\ UNCHANGED disk /\ NoFault
     \/ /\ KeepRegistry
        /\ disk' = IF Me.fresh THEN [disk EXCEPT ![Me.p] = Nothing] ELSE disk
        /\ Return("main")
        /\ Fault
  /\ UNCHANGED global /\ KeepRest

\* 5 preflight and initialize, 6 registered as ready
CreatePublish ==
  /\ At("create", "creating")
  /\ Me.step \in {5, 6}
  /\ \/ /\ Me.step = 5
        /\ \/ job' = [job EXCEPT !["main"].step = 6]
           \/ Return("main")
        /\ KeepRegistry /\ NoFault
     \/ /\ Me.step = 6
        /\ \/ Commit([Me.reg EXCEPT !.state[Me.p] = "ready"]) /\ NoFault
           \/ KeepRegistry /\ Fault
        /\ Return("main")
  /\ KeepFiles /\ KeepRest

---------------------------------------------------------------------------
(* delete_persona: delete_persona_with *)

DeleteBegin ==
  /\ Acting("delete")
  /\ IF \/ Cardinality(Ready(Me.seen)) <= 1
        \/ Me.seen.active = Me.p
        \/ Me.p \notin Ready(Me.seen)
       THEN Refuse
       ELSE Begin("marking", [Me.seen EXCEPT !.state[Me.p] = "deleting"])

DeleteMark ==
  /\ At("delete", "marking")
  /\ \/ Commit(Me.reg) /\ NoFault /\ Goto("main", "erasing")
     \/ KeepRegistry /\ Fault /\ Return("main")
  /\ KeepFiles /\ KeepRest

DeleteErase ==
  /\ At("delete", "erasing")
  /\ \E complete \in BOOLEAN :
       /\ CleanUp(Me.reg, Me.p, complete)
       /\ IF complete THEN Goto("main", "forgetting") ELSE Return("main")
  /\ UNCHANGED global /\ KeepRegistry /\ KeepRest

DeleteForget ==
  /\ At("delete", "forgetting")
  /\ \/ /\ Commit(Without(Me.reg, {Me.p}))
        /\ deleted' = deleted \cup {Me.p}
        /\ NoFault
     \/ KeepRegistry /\ UNCHANGED deleted /\ Fault
  /\ Return("main")
  /\ KeepFiles /\ UNCHANGED <<backend, confessed>>

---------------------------------------------------------------------------
(* set_persona_avatar and remove_persona_avatar (arg is None) *)

AvatarBegin ==
  /\ Acting("avatar")
  /\ IF Me.p \notin Listed(Me.seen)
       THEN Refuse
       ELSE Begin("drawing", [Me.seen EXCEPT !.avatar[Me.p] = Me.arg])

\* 1 the new file, 2 the old one goes
AvatarFile ==
  /\ At("avatar", "drawing")
  /\ Me.step \in {1, 2}
  /\ \/ /\ disk' = [disk EXCEPT ![Me.p].avatars =
              IF Me.step = 1 THEN @ \cup ({Me.arg} \ {None})
              ELSE IF Me.was.avatar[Me.p] # Me.arg THEN @ \ {Me.was.avatar[Me.p]} ELSE @]
        /\ job' = [job EXCEPT !["main"].step = @ + 1]
        /\ NoFault
     \/ UNCHANGED disk /\ Return("main") /\ Fault
  /\ UNCHANGED global /\ KeepRegistry /\ KeepRest

AvatarSave ==
  /\ At("avatar", "drawing")
  /\ Me.step = 3
  /\ \/ Commit(Me.reg) /\ NoFault
     \/ KeepRegistry /\ Fault
  /\ Return("main")
  /\ KeepFiles /\ KeepRest

---------------------------------------------------------------------------
(* save_mindcore_config_with: the first setup, or another one of the active  *)
(* persona *)

SetupParts == <<"credential", "identity", "config", "registry", "global">>
\* The parts are taken back in the order they were written.
UndoPartsForward == <<"credential", "identity", "config", "registry", "global">>
UndoParts == <<"global", "registry", "identity", "config", "credential">>

SetupBegin ==
  /\ Acting("save")
  /\ \E p \in IF Me.seen = NoRegistry THEN Unused ELSE {Me.seen.active} :
       LET first == Me.seen = NoRegistry
       IN /\ job' = [job EXCEPT !["main"] =
               [@ EXCEPT !.at = "saving", !.step = 1, !.p = p, !.was = Me.seen,
                         !.seen = NoRegistry, !.kept = disk[p], !.keptGlobal = global,
                         !.reg = [Me.seen EXCEPT
                           !.active = p, !.first = IF first THEN p ELSE @,
                           !.state[p] = "ready", !.name[p] = Me.arg]]]
          /\ KeepFiles /\ KeepRegistry /\ KeepRest /\ NoFault

\* One part is written: the value it has afterwards.
PutPart(part, d, r, g) ==
  /\ disk' = CASE part \in {"credential", "identity", "config"} ->
                    [disk EXCEPT ![Me.p][part] = d[part]]
               [] OTHER -> disk
  /\ IF part = "registry" THEN Commit(r) ELSE KeepRegistry
  /\ global' = IF part = "global" THEN g ELSE global

SetupPut ==
  /\ At("save", "saving")
  /\ \/ /\ Me.step = 3 => ~NameTaken(Me.reg, Me.arg, Me.p)
        /\ PutPart(SetupParts[Me.step],
                   [config |-> Projection(Me.arg), identity |-> TRUE, credential |-> TRUE],
                   Me.reg, TRUE)
        /\ IF Me.step = 5 THEN Return("main") ELSE job' = [job EXCEPT !["main"].step = @ + 1]
        /\ NoFault
     \/ /\ KeepFiles /\ KeepRegistry
        /\ \/ Me.step = 3 /\ NameTaken(Me.reg, Me.arg, Me.p) /\ NoFault
           \/ Fault
        /\ IF Me.step = 1 THEN Return("main")
           ELSE job' = [job EXCEPT !["main"] = [@ EXCEPT !.at = "undoing", !.step = 1]]
  /\ KeepRest

\* A part that cannot be restored does not keep the others from being; the
\* command then says that the rollback is incomplete.
SetupUndo ==
  /\ At("save", "undoing")
  /\ \/ /\ PutPart(UndoParts[Me.step], Me.kept, Me.was, Me.keptGlobal)
        /\ NoFault /\ UNCHANGED confessed
     \/ KeepFiles /\ KeepRegistry /\ Fault /\ confessed' = TRUE
  /\ IF Me.step = 5 THEN Return("main") ELSE job' = [job EXCEPT !["main"].step = @ + 1]
  /\ UNCHANGED <<backend, deleted>>

---------------------------------------------------------------------------

\* The window offers the personas that are ready.
Call ==
  /\ Me.at = "idle"
  /\ done.commands < MaxCommands
  /\ done' = [done EXCEPT !.commands = @ + 1]
  /\ \E op \in {"read", "start", "stop", "switch", "update", "settings", "create",
                "delete", "avatar", "save"} :
     \E p \in IF op \in {"switch", "update", "settings", "delete", "avatar"}
                THEN Ready(registry) ELSE {None} :
     \E x \in CASE op \in {"update", "create", "save"} -> Names
                [] op = "avatar" -> Formats \cup {None}
                [] OTHER -> {None} :
       job' = [job EXCEPT !["main"] =
                [Idle EXCEPT !.op = op, !.p = p, !.arg = x, !.after = "acting",
                             !.at = CASE op = "start" -> "starting"
                                      [] op = "stop" -> "stopping"
                                      [] OTHER -> "loading"]]
  /\ KeepFiles /\ KeepRegistry /\ KeepRest

CallSync ==
  /\ job["sync"].at = "idle"
  /\ done.syncs < MaxSyncs
  /\ done' = [done EXCEPT !.syncs = @ + 1]
  /\ job' = [job EXCEPT !["sync"] =
              [Idle EXCEPT !.op = "sync", !.at = "loading", !.after = "acting"]]
  /\ KeepFiles /\ KeepRegistry /\ KeepRest

\* The application dies and is started again; its backend leaves with it.
Crash ==
  /\ done.crashes < MaxCrashes
  /\ done' = [done EXCEPT !.crashes = @ + 1]
  /\ job' = [t \in Threads |-> IF t = "main" THEN StartUp ELSE Idle]
  /\ backend' = None
  /\ KeepFiles /\ KeepRegistry /\ UNCHANGED <<deleted, confessed>>

RegistryNext ==
  \/ Call \/ CallSync \/ Crash \/ BackendDies
  \/ \E t \in Threads : Registry(t) \/ ReadOnly(t)
  \/ Start \/ Complete \/ Choose \/ Launch \/ Stop
  \/ SwitchBegin \/ SwitchSave \/ SwitchUndo
  \/ UpdateBegin \/ UpdateWrite \/ UpdateSave \/ UpdateRestore \/ UpdateUndo
  \/ SettingsBegin \/ SettingsWrite \/ SettingsUndo
  \/ CreateBegin \/ CreateFile \/ CreateRegister \/ CreatePublish
  \/ DeleteBegin \/ DeleteMark \/ DeleteErase \/ DeleteForget
  \/ AvatarBegin \/ AvatarFile \/ AvatarSave
  \/ SetupBegin \/ SetupPut \/ SetupUndo

RegistrySpec == RegistryInit /\ [][RegistryNext]_registryVars

---------------------------------------------------------------------------
(* Properties *)

\* When no command is under way, a running backend serves the active persona
\* of the registry: whatever failed in a switch, a rename or a rollback, the
\* user is not answered by another persona than the one shown.  The exception
\* is a registry saved by manual_sync_action over a command's.
RunningServesActive ==
  ~overwritten /\ Me.at = "idle" /\ backend # None => backend = registry.active

\* A persona that is registered as ready has its configuration, its identity
\* and its credential, after any fault and any crash, unless a rollback has
\* said that it is incomplete.
ReadyIsWhole ==
  ~overwritten /\ ~confessed => \A p \in Ready(registry) : Whole(p)

\* Of a persona whose deletion was completed no configuration, credential or
\* avatar is left, however often the deletion was interrupted.
DeletedLeavesNothing ==
  ~overwritten => \A p \in deleted :
    disk[p].config = None /\ ~disk[p].credential /\ disk[p].avatars = {}
============================================================================
