--------------------------- MODULE RegistryProofs ----------------------------
(* Proofs about PersonaRegistry, for every set of personas, names and avatar  *)
(* formats and every bound: the running backend serves the active persona, a  *)
(* ready persona is whole, a deleted one leaves nothing.                      *)
EXTENDS PersonaRegistry, TLAPS

-----------------------------------------------------------------------------
(* Types                                                                      *)
Registries ==
  [active : Personas \cup {None}, first : Personas \cup {None},
   state : [Personas -> States], name : [Personas -> Names \cup {None}],
   avatar : [Personas -> Formats \cup {None}]]
Configs == {None} \cup [name : Names \cup {None}, tuned : BOOLEAN]
Pieces == [config : Configs, identity : BOOLEAN, credential : BOOLEAN,
           avatars : SUBSET (Formats \cup {None})]

Ops == {"none", "read", "start", "stop", "switch", "update", "settings", "create",
        "delete", "avatar", "save", "sync"}
Reading == {"projecting", "recovering"}
Launching == {"completing", "choosing", "launching"}
Places == {"idle", "acting", "starting", "loading", "stopping", "saving", "undoing",
           "writing", "restoring", "creating", "marking", "erasing", "forgetting",
           "drawing"} \cup Reading \cup Launching

(* What is saved names an active persona or is nothing at all.                *)
Saved == {r \in Registries : r = NoRegistry \/ r.active \in Personas}

Rows ==
  [op : Ops, at : Places, p : Personas \cup {None},
   arg : Names \cup Formats \cup {None}, step : 0 .. 6, seen : Saved,
   todo : SUBSET Personas, freed : SUBSET Personas,
   after : {"idle", "acting", "completing", "choosing"}, reg : Registries,
   was : Saved, kept : Pieces, keptGlobal : BOOLEAN,
   chosen : Personas \cup {None}, fresh : BOOLEAN, second : BOOLEAN]

Renders == {"switch", "update", "settings", "avatar"}
Changes == Renders \cup {"delete", "create", "save"}

(* A command that has not begun reads the registry; the setup never starts a  *)
(* backend.                                                                   *)
Setting(r) ==
  /\ r.op \in Changes /\ r.step = 0 =>
       r.at \in {"loading", "acting"} \cup Reading /\ r.after = "acting"
  /\ r.op = "save" =>
       r.at \in {"loading", "acting", "saving", "undoing"} \cup Reading /\ r.after = "acting"

(* What a command has by then: a registry, a persona, arguments.              *)
RowOK(r) ==
  /\ r.at \in Reading \cup {"completing", "choosing"} \/ (r.at = "acting" /\ r.op # "save")
       => r.seen.active \in Personas
  /\ r.op \in Renders \cup {"delete"} \/ (r.op \in {"create", "save"} /\ r.step # 0)
       => r.p \in Personas
  /\ r.step # 0 => r.reg.active \in Personas
  /\ r.op \in {"update", "create", "save"} => r.arg \in Names
  /\ r.op = "avatar" => r.arg \in Formats \cup {None}
  /\ r.op = "save" => r.step <= 5
  /\ Setting(r)
  /\ r.op = "settings" /\ r.step # 0 => r.kept.config # None

RegistryTypeOK ==
  /\ registry \in Saved
  /\ disk \in [Personas -> Pieces]
  /\ global \in BOOLEAN
  /\ backend \in Personas \cup {None}
  /\ job \in [Threads -> Rows]
  /\ \A t \in Threads : RowOK(job[t])
  /\ deleted \subseteq Personas
  /\ overwritten \in BOOLEAN /\ confessed \in BOOLEAN

-----------------------------------------------------------------------------
(* What has been deleted, or will be                                          *)
Bare(q) == disk[q].config = None /\ ~disk[q].credential /\ disk[q].avatars = {}
Named(q) == disk[q].config = None => ~disk[q].credential
Gone == {"absent", "deleting"}
Doomed(q) == q \in deleted \/ registry.state[q] = "deleting"

(* A deleted persona is bare, and at most registered for deletion again; of   *)
(* one that is being deleted the configuration names the credential as long   *)
(* as it has one.                                                             *)
DeletionInv ==
  /\ \A q \in deleted : Bare(q) /\ registry.state[q] \in Gone
  /\ \A q \in Personas : registry.state[q] = "deleting" => Named(q)

(* A thread removes only what is to be deleted, and frees what it found bare. *)
RecoveryOf(t) ==
  job[t].at \in Reading =>
    /\ \A q \in Deleting(job[t].seen) : Doomed(q)
    /\ job[t].at = "recovering" =>
         /\ job[t].todo \cup job[t].freed \subseteq Deleting(job[t].seen)
         /\ \A q \in job[t].freed : Bare(q)
RecoveryInv == \A t \in Threads : RecoveryOf(t)

-----------------------------------------------------------------------------
(* What the main thread holds of the registry                                 *)

(* It differs in what was removed, or put back for removal, since.            *)
Same(q, s) == s = registry.state[q] \/ (q \in deleted /\ s \in Gone)
Matches(r) == \A q \in Personas : Same(q, r.state[q])
MatchesBut(r, p) == \A q \in Personas \ {p} : Same(q, r.state[q])

WellFormed(r) == r = NoRegistry \/ r.active \in Ready(r)

Begun == Me.step # 0
SeenInv ==
  /\ Me.at \in Reading \cup {"acting", "completing", "choosing"} =>
       /\ Matches(Me.seen) /\ WellFormed(Me.seen)
       /\ Me.seen.active = registry.active
  /\ Me.at = "launching" => Me.chosen = registry.active
  /\ Me.at \in {"recovering", "acting"} =>
       \A q \in Personas : Me.seen.state[q] \in {"ready", "provisioning"} => disk[q].config # None

(* The persona a command is about                                             *)
SubjectInv ==
  Me.op \in Renders \/ (Me.op = "delete" /\ (~Begun \/ Me.at = "marking")) =>
    Me.p \in Ready(registry)

RenderInv ==
  Begun /\ Me.op \in Renders =>
    /\ Me.reg.state = Me.was.state /\ Matches(Me.was) /\ WellFormed(Me.was)
    /\ Me.op # "switch" => Me.reg.active = Me.was.active /\ Me.was.active = registry.active
    /\ Me.op = "update" => Me.kept.config # None /\ disk[Me.p].config # None

SwitchInv ==
  Begun /\ Me.op = "switch" =>
    /\ Me.at # "stopping" => backend = None
    /\ Me.reg.active = Me.p

DeleteInv ==
  Begun /\ Me.op = "delete" =>
    /\ MatchesBut(Me.reg, Me.p) /\ Me.reg.state[Me.p] = "deleting"
    /\ Me.reg.active = registry.active /\ WellFormed(Me.reg)
    /\ Me.at = "marking" => disk[Me.p].config # None
    /\ Me.at \in {"erasing", "forgetting"} => Doomed(Me.p)
    /\ Me.at = "forgetting" => Bare(Me.p)

CreateInv ==
  Begun /\ Me.op = "create" =>
    /\ MatchesBut(Me.reg, Me.p) /\ Me.reg.state[Me.p] = "provisioning"
    /\ Me.reg.active = registry.active /\ WellFormed(Me.reg)
    /\ Me.p \notin deleted
    /\ registry.state[Me.p] = IF Me.fresh /\ Me.step <= 3 THEN "absent" ELSE "provisioning"
    /\ Me.step > 1 => disk[Me.p].identity
    /\ Me.step > 2 => disk[Me.p].config # None
    /\ Me.step > 4 => disk[Me.p].credential

Entire(k) == k.config # None /\ k.identity /\ k.credential

SetupInv ==
  Begun /\ Me.op = "save" =>
    /\ MatchesBut(Me.was, Me.p) /\ WellFormed(Me.was)
    /\ Me.reg.state = [Me.was.state EXCEPT ![Me.p] = "ready"] /\ Me.reg.active = Me.p
    /\ Me.p \notin deleted
    /\ Me.was = NoRegistry => backend = None
    /\ Me.was # NoRegistry => Me.was.active = Me.p /\ registry.active = Me.p
    /\ registry.state[Me.p] \in {"ready", Me.was.state[Me.p]}
    /\ ~confessed /\ Me.was # NoRegistry => Entire(Me.kept)
    /\ Me.at = "saving" =>
         /\ Me.step > 1 => disk[Me.p].credential
         /\ Me.step > 2 => disk[Me.p].identity
         /\ Me.step > 3 => disk[Me.p].config # None
         /\ Me.step > 4 => registry.state[Me.p] = "ready"
    /\ Me.at = "undoing" /\ Me.step > 2 /\ ~confessed =>
         registry.state[Me.p] = Me.was.state[Me.p]

ServesActive == backend # None => backend = registry.active

CommandInv ==
  SubjectInv /\ RenderInv /\ SwitchInv /\ DeleteInv /\ CreateInv /\ SetupInv

(* What holds until manual_sync_action overwrites a command's registry.       *)
Tidy ==
  /\ DeletionInv /\ RecoveryInv /\ WellFormed(registry)
  /\ SeenInv /\ CommandInv
  /\ ServesActive /\ ReadyIsWhole

RegistryInv == RegistryTypeOK /\ (~overwritten => Tidy)

-----------------------------------------------------------------------------
(* Every step keeps the types.                                                *)

(* Thread t moves on to a row that is in order.                               *)
Steps(t) ==
  /\ job' \in [Threads -> Rows] /\ RowOK(job'[t])
  /\ \A u \in Threads \ {t} : job'[u] = job[u]

LEMMA IdleType ==
  /\ RowOK(Idle) /\ RowOK(StartUp) /\ Idle \in Rows /\ StartUp \in Rows
  /\ NoRegistry \in Saved /\ Nothing \in Pieces
<1>1. NoRegistry \in Saved
  BY DEF NoRegistry, Saved, Registries, States
<1>2. Nothing \in Pieces
  BY DEF Nothing, Pieces, Configs
<1>3. Idle \in Rows
  BY <1>1, <1>2 DEF Idle, Rows, Ops, Places, Saved
<1>4. StartUp \in Rows
  BY <1>3, ZenonT(60) DEF StartUp, Rows, Ops, Places
<1>5. RowOK(Idle)
  BY DEF RowOK, Idle, Reading, Renders, Setting, Changes
<1>6. RowOK(StartUp)
  BY <1>3 DEF RowOK, Idle, StartUp, Reading, Renders, Setting, Changes
<1> QED BY <1>1, <1>2, <1>3, <1>4, <1>5, <1>6

(* A row is in order if it is about the same, and what it looks at is.        *)
Looking == Reading \cup {"completing", "choosing", "acting"}
About(s, r) == /\ s.op = r.op /\ s.p = r.p /\ s.step = r.step /\ s.reg = r.reg
               /\ s.arg = r.arg /\ s.kept = r.kept /\ s.after = r.after
Looks(s) ==
  s.at \in Reading \cup {"completing", "choosing"} \/ (s.at = "acting" /\ s.op # "save")
    => s.seen.active \in Personas

LEMMA SameType ==
  ASSUME RegistryTypeOK, NEW t \in Threads, job' \in [Threads -> Rows],
         \A u \in Threads \ {t} : job'[u] = job[u],
         About(job'[t], job[t]), Looks(job'[t]), Setting(job'[t])
  PROVE  Steps(t)
<1>1. RowOK(job[t])
  BY DEF RegistryTypeOK
<1> QED BY <1>1 DEF Steps, RowOK, About, Looks, Setting

LEMMA GotoType ==
  ASSUME RegistryTypeOK, NEW t \in Threads, NEW at \in Places \ Looking, Goto(t, at),
         job[t].op \in Changes => job[t].step # 0, job[t].op = "save" => at \in {"saving", "undoing"}
  PROVE  Steps(t) /\ About(job'[t], job[t]) /\ job'[t].at = at
<1>1. /\ job' \in [Threads -> Rows] /\ job'[t].at = at
      /\ \A u \in Threads \ {t} : job'[u] = job[u]
  BY DEF Goto, RegistryTypeOK, Rows
<1>2. About(job'[t], job[t])
  BY DEF Goto, RegistryTypeOK, Rows, About
<1>3. Looks(job'[t]) /\ Setting(job'[t])
  BY <1>1, <1>2 DEF Looks, Looking, Setting, About, RegistryTypeOK, RowOK
<1> QED BY <1>1, <1>2, <1>3, SameType

LEMMA ReturnType ==
  ASSUME RegistryTypeOK, NEW t \in Threads, Return(t)
  PROVE  Steps(t) /\ job'[t] = Idle
BY IdleType DEF Return, Steps, RegistryTypeOK

LEMMA FailType ==
  ASSUME RegistryTypeOK, NEW t \in Threads,
         (StartFails(t) /\ job[t].at \notin {"loading", "acting"} \cup Reading) \/ LoadFails(t)
  PROVE  Steps(t)
<1>1. Return(t) => Steps(t)
  BY ReturnType
<1>2. ASSUME Goto(t, "undoing"), job[t].op \in {"switch", "update", "settings"},
             job[t].at \notin {"loading", "acting"} \cup Reading \/ job[t].after # "acting"
      PROVE  Steps(t)
  <2>1. job[t].step # 0
    BY <1>2 DEF RegistryTypeOK, RowOK, Setting, Changes, Renders
  <2> QED BY <1>2, <2>1, GotoType DEF Places, Looking, Reading
<1> QED BY <1>1, <1>2 DEF StartFails, LoadFails

LEMMA StepsTyped ==
  ASSUME RegistryTypeOK, NEW t \in Threads, Steps(t)
  PROVE  job' \in [Threads -> Rows] /\ \A u \in Threads : RowOK(job'[u])
BY DEF RegistryTypeOK, Steps

LEMMA RowStep ==
  ASSUME RegistryTypeOK, NEW t \in Threads, NEW s \in Rows, job' = [job EXCEPT ![t] = s]
  PROVE  /\ job'[t] = s /\ job' \in [Threads -> Rows]
         /\ \A u \in Threads \ {t} : job'[u] = job[u]
         /\ RowOK(s) => Steps(t)
         /\ About(s, job[t]) /\ Looks(s) /\ Setting(s) => Steps(t)
<1>1. /\ job'[t] = s /\ job' \in [Threads -> Rows]
      /\ \A u \in Threads \ {t} : job'[u] = job[u]
  BY DEF RegistryTypeOK
<1> QED BY <1>1, SameType DEF Steps

LEMMA LoadType ==
  ASSUME RegistryTypeOK, NEW t \in Threads, Load(t) PROVE RegistryTypeOK'
<1>0. job[t] \in Rows /\ RowOK(job[t]) /\ registry \in Saved
  BY DEF RegistryTypeOK
<1>1. CASE registry # NoRegistry
  <2> DEFINE s == [job[t] EXCEPT !.at = "projecting", !.seen = registry]
  <2>1. job' = [job EXCEPT ![t] = s]
    BY <1>1 DEF Load
  <2>2. s \in Rows /\ About(s, job[t]) /\ s.at = "projecting" /\ s.seen = registry
    BY <1>0 DEF Rows, Places, Reading, About
  <2>3. Looks(s) /\ Setting(s)
    BY <1>0, <1>1, <2>2 DEF Looks, Setting, Saved, Reading, RowOK, About, Load
  <2>4. Steps(t)
    BY <2>1, <2>2, <2>3, RowStep
  <2> QED BY <2>4, StepsTyped DEF Load, RegistryTypeOK, KeepFiles, KeepRegistry, KeepRest
<1>2. CASE registry = NoRegistry /\ job[t].op = "save"
  <2> DEFINE s == [job[t] EXCEPT !.at = job[t].after, !.seen = registry]
  <2>1. job' = [job EXCEPT ![t] = s]
    BY <1>2 DEF Load
  <2>0. job[t].after \in Places
    BY <1>0 DEF Rows, Places, Launching
  <2>2. s \in Rows /\ About(s, job[t]) /\ s.at = job[t].after /\ s.seen = registry
    BY <1>0, <2>0 DEF Rows, About
  <2>3. Looks(s) /\ Setting(s)
    BY <1>0, <1>2, <2>2 DEF Looks, Setting, RowOK, About, Reading, Changes, Renders
  <2>4. Steps(t)
    BY <2>1, <2>2, <2>3, RowStep
  <2> QED BY <2>4, StepsTyped DEF Load, RegistryTypeOK, KeepFiles, KeepRegistry, KeepRest
<1>3. CASE registry = NoRegistry /\ job[t].op # "save"
  <2>1. Steps(t)
    BY <1>3, ReturnType DEF Load
  <2> QED BY <2>1, StepsTyped DEF Load, RegistryTypeOK, KeepFiles, KeepRegistry, KeepRest
<1> QED BY <1>1, <1>2, <1>3

LEMMA DiskType ==
  ASSUME RegistryTypeOK, NEW p \in Personas, NEW d \in Pieces, disk' = [disk EXCEPT ![p] = d]
  PROVE  disk' \in [Personas -> Pieces]
BY DEF RegistryTypeOK

LEMMA PieceType ==
  ASSUME NEW d \in Pieces
  PROVE  /\ \A c \in Configs : [d EXCEPT !.config = c] \in Pieces
         /\ \A b \in BOOLEAN : /\ [d EXCEPT !.identity = b] \in Pieces
                               /\ [d EXCEPT !.credential = b] \in Pieces
         /\ \A a \in SUBSET (Formats \cup {None}) : [d EXCEPT !.avatars = a] \in Pieces
         /\ d.config \in Configs /\ d.avatars \in SUBSET (Formats \cup {None})
         /\ d.identity \in BOOLEAN /\ d.credential \in BOOLEAN
BY DEF Pieces

LEMMA ProjectionType ==
  ASSUME NEW r \in Registries, NEW p \in Personas
  PROVE  Projection(r.name[p]) \in Configs /\ Projection(r.name[p]) # None
<1>1. Projection(r.name[p]) \in [name : Names \cup {None}, tuned : BOOLEAN]
  BY DEF Projection, Registries
<1> QED BY <1>1, RegistryAssumption DEF Configs

LEMMA CleanedType ==
  ASSUME RegistryTypeOK, NEW r \in Registries, NEW p \in Personas, NEW complete \in BOOLEAN,
         CleanUp(r, p, complete)
  PROVE  disk' \in [Personas -> Pieces]
<1>1. disk[p] \in Pieces
  BY DEF RegistryTypeOK
<1>2. PICK k \in 0 .. 5 : disk' = Cleaned(r, p, k)
  BY DEF CleanUp
<1>3. [credential |-> disk[p].credential /\ (k < 1 \/ disk[p].config = None),
       avatars    |-> IF k < 2 THEN disk[p].avatars ELSE disk[p].avatars \ {r.avatar[p]},
       config     |-> IF k < 3 THEN disk[p].config ELSE None,
       identity   |-> disk[p].identity /\ (k < 4 \/ p = r.first)] \in Pieces
  BY <1>1 DEF Pieces, Configs
<1> QED BY <1>2, <1>3, DiskType DEF Cleaned

LEMMA WithoutType ==
  ASSUME NEW r \in Saved, NEW S \in SUBSET Personas
  PROVE  /\ Without(r, S) \in Registries
         /\ Without(r, S).active = r.active
         /\ \A q \in Personas : Without(r, S).state[q] = IF q \in S THEN "absent" ELSE r.state[q]
         /\ r.active \in Personas => Without(r, S) \in Saved
BY DEF Without, Saved, Registries, States

LEMMA ProjectType ==
  ASSUME RegistryTypeOK, NEW t \in Threads, Project(t) PROVE RegistryTypeOK'
<1> DEFINE r == job[t].seen
           todo == Listed(r) \ Deleting(r)
           Projected(S) == [p \in Personas |->
             IF p \in S THEN [disk[p] EXCEPT !.config = Projection(r.name[p])] ELSE disk[p]]
<1>0. r \in Registries /\ RowOK(job[t]) /\ job[t] \in Rows
  BY DEF RegistryTypeOK, Rows, Saved
<1>1. \A S \in SUBSET todo : Projected(S) \in [Personas -> Pieces]
  BY <1>0, ProjectionType, PieceType DEF RegistryTypeOK
<1>2. CASE disk' = Projected(todo) /\ job' = [job EXCEPT ![t] =
             [@ EXCEPT !.at = "recovering", !.todo = Deleting(r), !.freed = {}]]
  <2>1. /\ job' \in [Threads -> Rows] /\ job'[t].at = "recovering" /\ job'[t].seen = r
        /\ \A u \in Threads \ {t} : job'[u] = job[u]
    BY <1>0, <1>2, ZenonT(60) DEF RegistryTypeOK, Rows, Places, Reading, Deleting
  <2>2. About(job'[t], job[t])
    BY <1>0, <1>2 DEF RegistryTypeOK, Rows, About
  <2>3. Looks(job'[t]) /\ Setting(job'[t])
    BY <1>0, <2>1, <2>2 DEF Looks, Setting, Reading, RowOK, Project, About
  <2> QED BY <1>1, <1>2, <2>1, <2>2, <2>3, SameType, StepsTyped
          DEF Project, RegistryTypeOK, KeepRegistry, KeepRest
<1>3. CASE LoadFails(t) /\ \E S \in SUBSET todo : disk' = Projected(S)
  BY <1>1, <1>3, FailType, StepsTyped DEF Project, RegistryTypeOK, KeepRegistry, KeepRest
<1> QED BY <1>2, <1>3 DEF Project

LEMMA RecoverOneType ==
  ASSUME RegistryTypeOK, NEW t \in Threads, RecoverOne(t) PROVE RegistryTypeOK'
<1>0. job[t].seen \in Registries /\ RowOK(job[t]) /\ job[t] \in Rows
  BY DEF RegistryTypeOK, Rows, Saved
<1>1. PICK p \in job[t].todo, complete \in BOOLEAN :
        /\ CleanUp(job[t].seen, p, complete)
        /\ job' = [job EXCEPT ![t] = [@ EXCEPT
              !.todo = job[t].todo \ {p},
              !.freed = job[t].freed \cup IF complete THEN {p} ELSE {}]]
  BY DEF RecoverOne
<1>2. p \in Personas
  BY <1>0 DEF Rows
<1>3. disk' \in [Personas -> Pieces]
  BY <1>0, <1>1, <1>2, CleanedType
<1> DEFINE s == [job[t] EXCEPT !.todo = job[t].todo \ {p},
                               !.freed = job[t].freed \cup IF complete THEN {p} ELSE {}]
<1>4. s \in Rows /\ About(s, job[t]) /\ s.at = job[t].at /\ s.seen = job[t].seen
  BY <1>0, <1>2 DEF Rows, About
<1>5. Looks(s) /\ Setting(s)
  BY <1>0, <1>4 DEF Looks, Setting, Reading, RowOK, About
<1>6. Steps(t)
  BY <1>1, <1>4, <1>5, RowStep
<1> QED BY <1>3, <1>6, StepsTyped DEF RecoverOne, RegistryTypeOK, KeepRegistry, KeepRest

LEMMA AfterType ==
  ASSUME RegistryTypeOK, NEW t \in Threads, job[t].at = "recovering",
         job' \in [Threads -> Rows], \A u \in Threads \ {t} : job'[u] = job[u],
         About(job'[t], job[t]), job'[t].at = job[t].after,
         job'[t].seen.active = job[t].seen.active
  PROVE  Steps(t)
<1>1. Looks(job'[t]) /\ Setting(job'[t])
  BY DEF RegistryTypeOK, RowOK, Looks, Setting, Reading, About
<1> QED BY <1>1, SameType

LEMMA RecoverSaveType ==
  ASSUME RegistryTypeOK, NEW t \in Threads, RecoverSave(t) PROVE RegistryTypeOK'
<1>0. /\ job[t].seen \in Saved /\ RowOK(job[t]) /\ job[t] \in Rows
      /\ job[t].freed \in SUBSET Personas /\ job[t].seen.active \in Personas
  BY DEF RegistryTypeOK, Rows, RowOK, RecoverSave, Reading
<1>1. PICK r \in Saved : r = Without(job[t].seen, job[t].freed) /\ r.active = job[t].seen.active
  BY <1>0, WithoutType
<1>2. CASE registry' = r /\ job' = [job EXCEPT ![t] = [@ EXCEPT !.at = job[t].after, !.seen = r]]
           /\ deleted' = deleted \cup job[t].freed
           /\ overwritten' = (overwritten \/ (t = "sync" /\ registry # job[t].seen))
  <2>1. /\ job' \in [Threads -> Rows] /\ job'[t].at = job[t].after /\ job'[t].seen = r
        /\ \A u \in Threads \ {t} : job'[u] = job[u]
    <3>1. job' = [job EXCEPT ![t] = [@ EXCEPT !.at = job[t].after, !.seen = r]]
      BY <1>2
    <3>2. job \in [Threads -> Rows] /\ job[t].after \in Places
      BY <1>0 DEF RegistryTypeOK, Rows, Places, Launching
    <3>3. [job[t] EXCEPT !.at = job[t].after, !.seen = r] \in Rows
      BY <1>0, <1>1, <3>2 DEF Rows
    <3>4. job' = [job EXCEPT ![t] = [job[t] EXCEPT !.at = job[t].after, !.seen = r]]
      BY <3>1, <3>2
    <3> QED BY <1>0, <3>2, <3>3, <3>4 DEF Rows
  <2>2. About(job'[t], job[t])
    BY <1>0, <1>2 DEF RegistryTypeOK, Rows, About
  <2>3. Steps(t)
    BY <1>1, <2>1, <2>2, AfterType DEF RecoverSave
  <2> QED BY <1>0, <1>1, <1>2, <2>3, StepsTyped DEF RecoverSave, RegistryTypeOK, KeepFiles
<1>3. CASE Goto(t, job[t].after) /\ KeepRegistry /\ UNCHANGED deleted
  <2>1. /\ job' \in [Threads -> Rows] /\ job'[t].at = job[t].after /\ job'[t].seen = job[t].seen
        /\ \A u \in Threads \ {t} : job'[u] = job[u]
    BY <1>0, <1>3 DEF RegistryTypeOK, Rows, Places, Launching, Goto
  <2>2. About(job'[t], job[t])
    BY <1>0, <1>3 DEF RegistryTypeOK, Rows, About, Goto
  <2>3. Steps(t)
    BY <1>1, <2>1, <2>2, AfterType DEF RecoverSave
  <2> QED BY <1>3, <2>3, StepsTyped DEF RecoverSave, RegistryTypeOK, KeepFiles, KeepRegistry
<1> QED BY <1>1, <1>2, <1>3 DEF RecoverSave

(* The main thread.                                                           *)
LEMMA MainType ==
  ASSUME RegistryTypeOK
  PROVE  /\ "main" \in Threads /\ "sync" \in Threads /\ Me = job["main"]
         /\ Me \in Rows /\ RowOK(Me)
         /\ Me.reg \in Registries /\ Me.was \in Saved /\ Me.seen \in Saved
         /\ Me.was \in Registries /\ Me.seen \in Registries
         /\ Me.kept \in Pieces /\ Me.step \in 0 .. 6
         /\ Me.step # 0 => Me.reg \in Saved
         /\ Me.op \in Renders \cup {"delete"} \/ (Me.op \in {"create", "save"} /\ Me.step # 0)
              => Me.p \in Personas /\ disk[Me.p] \in Pieces
         /\ Me.op \in Changes /\ Me.at \notin {"loading", "acting"} \cup Reading => Me.step # 0
<1>1. /\ "main" \in Threads /\ "sync" \in Threads /\ Me = job["main"] /\ Me \in Rows /\ RowOK(Me)
  BY DEF RegistryTypeOK, Threads, Me
<1>2. Me.reg \in Registries /\ Me.was \in Saved /\ Me.seen \in Saved
      /\ Me.kept \in Pieces /\ Me.step \in 0 .. 6
  BY <1>1 DEF Rows
<1>3. Me.was \in Registries /\ Me.seen \in Registries /\ (Me.step # 0 => Me.reg \in Saved)
  BY <1>1, <1>2 DEF Saved, RowOK
<1>4. Me.op \in Renders \cup {"delete"} \/ (Me.op \in {"create", "save"} /\ Me.step # 0)
        => Me.p \in Personas /\ disk[Me.p] \in Pieces
  BY <1>1 DEF RowOK, RegistryTypeOK
<1>5. Me.op \in Changes /\ Me.at \notin {"loading", "acting"} \cup Reading => Me.step # 0
  BY <1>1 DEF RowOK, Setting
<1> QED BY <1>1, <1>2, <1>3, <1>4, <1>5

LEMMA StartType ==
  ASSUME RegistryTypeOK, Start \/ Complete \/ Choose \/ Launch \/ Stop PROVE RegistryTypeOK'
<1>0. /\ job \in [Threads -> Rows] /\ RowOK(job["main"]) /\ job["main"] \in Rows
      /\ "main" \in Threads
  BY DEF RegistryTypeOK, Threads
<1>a. Me.op # "save" /\ Me.at \notin {"loading", "acting"} \cup Reading
  BY <1>0 DEF Start, Complete, Choose, Launch, Stop, RowOK, Setting, Me, Reading
<1>1. StartFails("main") \/ Return("main") => Steps("main")
  BY <1>0, <1>a, FailType, ReturnType DEF Me
<1>2. ASSUME NEW after \in {"completing", "choosing"},
             job' = [job EXCEPT !["main"] = [@ EXCEPT !.at = "loading", !.after = after]]
      PROVE  Steps("main")
  <2>1. job' = [job EXCEPT !["main"] = [job["main"] EXCEPT !.at = "loading", !.after = after]]
    BY <1>0, <1>2
  <2>2. [job["main"] EXCEPT !.at = "loading", !.after = after] \in Rows
    BY <1>0 DEF Rows, Places
  <2>3. job' \in [Threads -> Rows] /\ \A u \in Threads \ {"main"} : job'[u] = job[u]
    BY <1>0, <2>1, <2>2
  <2>4. RowOK(job'["main"])
    <3> DEFINE s == [job["main"] EXCEPT !.at = "loading", !.after = after]
    <3>1. /\ s.at = "loading" /\ s.op = Me.op /\ s.p = Me.p /\ s.step = Me.step
          /\ s.reg = Me.reg /\ s.arg = Me.arg /\ s.kept = Me.kept
      BY <1>0 DEF Rows, Me
    <3>2. RowOK(s)
      BY <1>0, <1>2, <1>a, <3>1 DEF RowOK, Me, Reading, Setting
    <3> QED BY <1>0, <2>1, <3>2
  <2> QED BY <2>3, <2>4 DEF Steps
<1>3. CASE Start
  BY <1>0, <1>1, <1>2, <1>3, StepsTyped
     DEF Start, RegistryTypeOK, KeepFiles, KeepRegistry, KeepRest
<1>4. CASE Complete
  BY <1>0, <1>1, <1>2, <1>4, StepsTyped
     DEF Complete, RegistryTypeOK, KeepFiles, KeepRegistry, KeepRest
<1>5. CASE Choose
  <2>1. Me.seen.active \in Personas
    BY <1>0, <1>5 DEF Choose, RowOK, Me, Reading
  <2>2. ASSUME job' = [job EXCEPT !["main"] = [@ EXCEPT !.at = "launching", !.chosen = Me.seen.active]]
        PROVE  Steps("main")
    <3>1. job' = [job EXCEPT !["main"] =
                    [job["main"] EXCEPT !.at = "launching", !.chosen = Me.seen.active]]
      BY <1>0, <2>2
    <3>2. [job["main"] EXCEPT !.at = "launching", !.chosen = Me.seen.active] \in Rows
      BY <1>0, <2>1 DEF Rows, Places, Launching
    <3>3. job' \in [Threads -> Rows] /\ \A u \in Threads \ {"main"} : job'[u] = job[u]
      BY <1>0, <3>1, <3>2
    <3>4. RowOK(job'["main"])
      <4> DEFINE s == [job["main"] EXCEPT !.at = "launching", !.chosen = Me.seen.active]
      <4>1. About(s, job["main"]) /\ s.at = "launching"
        BY <1>0 DEF Rows, About
      <4>2. RowOK(s)
        BY <1>0, <1>a, <2>1, <4>1 DEF RowOK, Me, Reading, Setting, About
      <4> QED BY <1>0, <3>1, <4>2
    <3> QED BY <3>3, <3>4 DEF Steps
  <2> QED BY <1>0, <1>1, <1>5, <2>2, StepsTyped
          DEF Choose, RegistryTypeOK, KeepFiles, KeepRegistry, KeepRest, Me
<1>6. CASE Launch
  <2>1. job["main"].chosen \in Personas \cup {None}
    BY <1>0 DEF Rows
  <2> QED BY <1>0, <1>1, <1>6, <2>1, StepsTyped
          DEF Launch, RegistryTypeOK, KeepFiles, KeepRegistry
<1>7. CASE Stop
  <2>2. Goto("main", "saving") \/ Goto("main", "starting") => Steps("main")
    BY <1>0, <1>a, GotoType, MainType DEF Places, Looking, Reading, Me
  <2> QED BY <1>0, <1>1, <1>7, <2>2, StepsTyped
          DEF Stop, RegistryTypeOK, KeepFiles, KeepRegistry
<1> QED BY <1>3, <1>4, <1>5, <1>6, <1>7

LEMMA BeginRow ==
  ASSUME NEW m \in Rows, NEW at \in Places, NEW r \in Registries, NEW w \in Saved,
         NEW n \in Saved, NEW k \in Pieces, NEW g \in BOOLEAN, NEW step \in 0 .. 6
  PROVE  [m EXCEPT !.at = at, !.reg = r, !.was = w, !.step = step,
                   !.seen = n, !.kept = k, !.keptGlobal = g] \in Rows
BY DEF Rows

LEMMA BeginType ==
  ASSUME RegistryTypeOK, NEW at \in {"stopping", "writing", "marking", "drawing"},
         NEW r \in Registries, r.active = Me.seen.active \/ r.active \in Personas,
         Begin(at, r), Me.at = "acting", Me.op \in Renders \cup {"delete"},
         Me.op = "settings" => disk[Me.p].config # None
  PROVE  RegistryTypeOK'
<1> DEFINE s == [job["main"] EXCEPT !.at = at, !.reg = r, !.was = Me.seen, !.step = 1,
                   !.seen = NoRegistry, !.kept = disk[Me.p], !.keptGlobal = global]
<1>0. /\ job \in [Threads -> Rows] /\ RowOK(job["main"]) /\ job["main"] \in Rows
      /\ "main" \in Threads /\ Me.seen \in Saved /\ Me.seen.active \in Personas
      /\ Me = job["main"] /\ Me.p \in Personas /\ disk[Me.p] \in Pieces /\ global \in BOOLEAN
  BY MainType DEF RegistryTypeOK, RowOK, Renders
<1>1. job' = [job EXCEPT !["main"] = s]
  BY DEF Begin
<1>2. s \in Rows
  <2>1. at \in Places /\ NoRegistry \in Saved /\ 1 \in 0 .. 6
    BY IdleType DEF Places
  <2>2. PICK m, w, k : m = job["main"] /\ w = Me.seen /\ k = disk[Me.p]
    OBVIOUS
  <2>3. /\ s = [m EXCEPT !.at = at, !.reg = r, !.was = w, !.step = 1, !.seen = NoRegistry,
                       !.kept = k, !.keptGlobal = global]
        /\ m \in Rows /\ w \in Saved /\ k \in Pieces
    BY <1>0, <2>2
  <2>4. PICK a, n, g : a = at /\ n = NoRegistry /\ g = global
    BY Zenon
  <2>5. [m EXCEPT !.at = a, !.reg = r, !.was = w, !.step = 1, !.seen = n, !.kept = k,
                  !.keptGlobal = g] \in Rows
    BY <1>0, <2>1, <2>3, <2>4, BeginRow, ZenonT(60)
  <2> HIDE DEF s
  <2> QED BY <2>3, <2>4, <2>5
<1>3. /\ s.at = at /\ s.op = Me.op /\ s.p = Me.p /\ s.reg = r /\ s.kept = disk[Me.p]
      /\ s.arg = Me.arg /\ s.step = 1
  BY <1>0 DEF Rows
<1>4. RowOK(s)
  BY <1>0, <1>2, <1>3 DEF RowOK, Renders, Reading, Setting, Changes
<1>5. Steps("main")
  BY <1>0, <1>1, <1>2, <1>4 DEF Steps
<1> QED BY <1>0, <1>5, StepsTyped DEF Begin, RegistryTypeOK, KeepFiles, KeepRegistry, KeepRest

LEMMA RegistryUpdates ==
  ASSUME NEW r \in Registries, NEW p \in Personas
  PROVE  /\ \A s \in States : [r EXCEPT !.state[p] = s] \in Registries
         /\ \A n \in Names : [r EXCEPT !.name[p] = n] \in Registries
         /\ \A a \in Formats \cup {None} : [r EXCEPT !.avatar[p] = a] \in Registries
         /\ [r EXCEPT !.active = p] \in Registries
         /\ \A s \in States : [r EXCEPT !.state[p] = s].active = r.active
         /\ \A n \in Names : [r EXCEPT !.name[p] = n].active = r.active
         /\ \A a \in Formats \cup {None} : [r EXCEPT !.avatar[p] = a].active = r.active
         /\ [r EXCEPT !.active = p].active = p
BY DEF Registries

LEMMA RefuseType ==
  ASSUME RegistryTypeOK, Refuse PROVE RegistryTypeOK'
BY MainType, ReturnType, StepsTyped
   DEF Refuse, RegistryTypeOK, KeepFiles, KeepRegistry, KeepRest

LEMMA BeginsType ==
  ASSUME RegistryTypeOK,
         SwitchBegin \/ UpdateBegin \/ SettingsBegin \/ DeleteBegin \/ AvatarBegin
  PROVE  RegistryTypeOK'
<1>0. /\ Me.seen \in Registries /\ Me.at = "acting" /\ Me.op \in Renders \cup {"delete"}
      /\ Me.p \in Personas
  BY MainType DEF SwitchBegin, UpdateBegin, SettingsBegin, DeleteBegin, AvatarBegin, Acting, Renders
<1>1. CASE SwitchBegin
  <2>1. [Me.seen EXCEPT !.active = Me.p] \in Registries /\ [Me.seen EXCEPT !.active = Me.p].active = Me.p
    BY <1>0, RegistryUpdates
  <2> QED BY <1>0, <1>1, <2>1, BeginType, RefuseType DEF SwitchBegin, Acting
<1>2. CASE UpdateBegin
  <2>1. Me.arg \in Names
    BY <1>2, MainType DEF UpdateBegin, Acting, RowOK
  <2>2. /\ [Me.seen EXCEPT !.name[Me.p] = Me.arg] \in Registries
        /\ [Me.seen EXCEPT !.name[Me.p] = Me.arg].active = Me.seen.active
    BY <1>0, <2>1, RegistryUpdates, ZenonT(60)
  <2>3. Me.op = "update" /\ (Refuse \/ Begin("writing", [Me.seen EXCEPT !.name[Me.p] = Me.arg]))
    BY <1>2 DEF UpdateBegin, Acting
  <2> DEFINE g == [Me.seen EXCEPT !.name[Me.p] = Me.arg]
  <2> HIDE DEF g
  <2>4. ASSUME Begin("writing", g), g \in Registries, g.active = Me.seen.active
        PROVE  RegistryTypeOK'
    BY <1>0, <2>3, <2>4, BeginType
  <2> QED BY <2>2, <2>3, <2>4, RefuseType DEF g
<1>3. CASE SettingsBegin
  BY <1>0, <1>3, BeginType, RefuseType DEF SettingsBegin, Acting
<1>4. CASE DeleteBegin
  <2>1. /\ [Me.seen EXCEPT !.state[Me.p] = "deleting"] \in Registries
        /\ [Me.seen EXCEPT !.state[Me.p] = "deleting"].active = Me.seen.active
    BY <1>0, RegistryUpdates DEF States
  <2> QED BY <1>0, <1>4, <2>1, BeginType, RefuseType DEF DeleteBegin, Acting
<1>5. CASE AvatarBegin
  <2>1. Me.arg \in Formats \cup {None}
    BY <1>5, MainType DEF AvatarBegin, Acting, RowOK
  <2>2. /\ [Me.seen EXCEPT !.avatar[Me.p] = Me.arg] \in Registries
        /\ [Me.seen EXCEPT !.avatar[Me.p] = Me.arg].active = Me.seen.active
    BY <1>0, <2>1, RegistryUpdates, ZenonT(60)
  <2>3. Me.op = "avatar" /\ (Refuse \/ Begin("drawing", [Me.seen EXCEPT !.avatar[Me.p] = Me.arg]))
    BY <1>5 DEF AvatarBegin, Acting
  <2> DEFINE g == [Me.seen EXCEPT !.avatar[Me.p] = Me.arg]
  <2> HIDE DEF g
  <2>4. ASSUME Begin("drawing", g), g \in Registries, g.active = Me.seen.active
        PROVE  RegistryTypeOK'
    BY <1>0, <2>3, <2>4, BeginType
  <2> QED BY <2>2, <2>3, <2>4, RefuseType DEF g
<1> QED BY <1>1, <1>2, <1>3, <1>4, <1>5

(* A second start follows.                                                    *)
LEMMA RestartType ==
  ASSUME RegistryTypeOK, Me.op # "save", Me.step # 0,
         job' = [job EXCEPT !["main"] = [@ EXCEPT !.at = "starting", !.second = TRUE]]
  PROVE  Steps("main")
<1> DEFINE s == [job["main"] EXCEPT !.at = "starting", !.second = TRUE]
<1>0. "main" \in Threads /\ job["main"] \in Rows /\ Me = job["main"]
  BY MainType
<1>1. s \in Rows /\ About(s, job["main"]) /\ s.at = "starting"
  BY <1>0 DEF Rows, Places, About
<1>2. Looks(s) /\ Setting(s)
  BY <1>0, <1>1 DEF Looks, Setting, Reading, About, Changes, Renders
<1> QED BY <1>0, <1>1, <1>2, RowStep

(* The main thread goes on with a command that is not the setup.              *)
LEMMA GoesType ==
  ASSUME RegistryTypeOK, NEW at \in Places \ Looking, Goto("main", at) \/ Return("main"),
         Me.op # "save", Me.step # 0
  PROVE  Steps("main")
BY MainType, GotoType, ReturnType

LEMMA SavesType ==
  ASSUME RegistryTypeOK, (Me.step # 0 /\ Commit(Me.reg)) \/ Commit(Me.was) \/ KeepRegistry
  PROVE  registry' \in Saved /\ overwritten' \in BOOLEAN
BY MainType DEF Commit, KeepRegistry, RegistryTypeOK

LEMMA SwitchType ==
  ASSUME RegistryTypeOK, SwitchSave \/ SwitchUndo PROVE RegistryTypeOK'
<1>0. Me.step # 0 /\ Me.op = "switch"
  BY MainType DEF SwitchSave, SwitchUndo, At, Changes, Renders, Reading
<1>1. registry' \in Saved /\ overwritten' \in BOOLEAN
  BY <1>0, SavesType DEF SwitchSave, SwitchUndo
<1>2. Steps("main")
  BY <1>0, GoesType, RestartType DEF SwitchSave, SwitchUndo, At, Places, Looking, Reading
<1> QED BY <1>1, <1>2, MainType, StepsTyped
        DEF SwitchSave, SwitchUndo, RegistryTypeOK, KeepFiles, KeepRest

LEMMA ConfigWritten ==
  ASSUME RegistryTypeOK, Me.op \in Renders, NEW c \in Configs,
         disk' = [disk EXCEPT ![Me.p].config = c] \/ UNCHANGED disk
  PROVE  disk' \in [Personas -> Pieces]
BY MainType, PieceType, DiskType DEF RegistryTypeOK

LEMMA UpdateType ==
  ASSUME RegistryTypeOK, UpdateWrite \/ UpdateSave \/ UpdateRestore PROVE RegistryTypeOK'
<1>0. Me.op = "update" /\ Me.op \in Renders /\ Me.p \in Personas /\ Me.step # 0
  BY MainType DEF UpdateWrite, UpdateSave, UpdateRestore, At, Renders, Changes, Reading
<1>1. registry' \in Saved /\ overwritten' \in BOOLEAN
  BY <1>0, SavesType DEF UpdateWrite, UpdateSave, UpdateRestore
<1>2. \A ok \in BOOLEAN : UpdateEnds(ok) => Steps("main")
  BY <1>0, GoesType DEF UpdateEnds, Places, Looking, Reading
<1>3. Goto("main", "saving") \/ Goto("main", "restoring") => Steps("main")
  BY <1>0, GoesType DEF Places, Looking, Reading
<1>4. Projection(Me.reg.name[Me.p]) \in Configs /\ Me.kept.config \in Configs
  BY <1>0, MainType, ProjectionType, PieceType
<1>5. disk' \in [Personas -> Pieces]
  BY <1>0, <1>4, ConfigWritten DEF UpdateWrite, UpdateSave, UpdateRestore, KeepFiles
<1> QED BY <1>1, <1>2, <1>3, <1>5, MainType, StepsTyped
        DEF UpdateWrite, UpdateSave, UpdateRestore, RegistryTypeOK, KeepFiles, KeepRest

LEMMA UpdateUndoType ==
  ASSUME RegistryTypeOK, UpdateUndo PROVE RegistryTypeOK'
<1> DEFINE r == [Me.reg EXCEPT !.name[Me.p] = Me.was.name[Me.p]]
           at == IF disk[Me.p].config = None THEN "starting" ELSE "writing"
           s == [job["main"] EXCEPT !.at = at, !.reg = r, !.kept = disk[Me.p], !.second = TRUE]
<1>0. Me.op = "update" /\ Me.p \in Personas /\ Me.step # 0 /\ Me = job["main"] /\ "main" \in Threads
  BY MainType DEF UpdateUndo, At, Renders, Changes, Reading
<1>1. job["main"] \in Rows /\ Me.reg \in Registries /\ Me.was \in Registries /\ disk[Me.p] \in Pieces
  BY <1>0, MainType DEF Renders
<1>2. r \in Registries /\ r.active = Me.reg.active
  BY <1>0, <1>1 DEF Registries
<1>3. s \in Rows
  <2> HIDE DEF r
  <2>1. at \in Places
    BY DEF Places
  <2> QED BY <1>0, <1>1, <1>2, <2>1 DEF Rows
<1>4. /\ s.at = at /\ s.op = Me.op /\ s.p = Me.p /\ s.step = Me.step /\ s.reg = r
      /\ s.arg = Me.arg
  <2> HIDE DEF r, at
  <2> QED BY <1>0, <1>1 DEF Rows
<1>5. job' = [job EXCEPT !["main"] = s]
  BY <1>0 DEF UpdateUndo
<1>6. RowOK(s)
  <2>1. RowOK(Me)
    BY MainType
  <2> HIDE DEF r, s
  <2> QED BY <1>0, <1>2, <1>4, <2>1 DEF RowOK, Setting, Changes, Renders, Reading
<1>7. Steps("main")
  <2> HIDE DEF s
  <2> QED BY <1>0, <1>3, <1>5, <1>6, RowStep
<1> QED BY <1>0, <1>7, StepsTyped
        DEF UpdateUndo, RegistryTypeOK, KeepFiles, KeepRegistry, KeepRest

LEMMA SettingsType ==
  ASSUME RegistryTypeOK, SettingsWrite \/ SettingsUndo PROVE RegistryTypeOK'
<1>0. Me.op = "settings" /\ Me.op \in Renders /\ Me.step # 0
  BY MainType DEF SettingsWrite, SettingsUndo, At, Renders, Changes, Reading
<1>1. Me.kept.config \in Configs /\ Me.kept.config # None
  BY <1>0, MainType, PieceType DEF RowOK
<1>2. [Me.kept.config EXCEPT !.tuned = TRUE] \in Configs
  BY <1>1 DEF Configs
<1>3. disk' \in [Personas -> Pieces]
  BY <1>0, <1>1, <1>2, ConfigWritten DEF SettingsWrite, SettingsUndo
<1>4. Steps("main")
  BY <1>0, GoesType, RestartType DEF SettingsWrite, SettingsUndo, Places, Looking, Reading
<1> QED BY <1>3, <1>4, MainType, StepsTyped
        DEF SettingsWrite, SettingsUndo, RegistryTypeOK, KeepRegistry, KeepRest

LEMMA CreateRow ==
  ASSUME NEW m \in Rows, NEW r \in Registries, NEW p \in Personas, NEW b \in BOOLEAN,
         NEW n \in Saved, NEW step \in 0 .. 6
  PROVE  [m EXCEPT !.at = "creating", !.step = step, !.p = p, !.fresh = b, !.seen = n,
                   !.reg = r] \in Rows
<1>1. "creating" \in Places
  BY DEF Places
<1> QED BY <1>1 DEF Rows

LEMMA CreateBeginType ==
  ASSUME RegistryTypeOK, CreateBegin PROVE RegistryTypeOK'
<1> DEFINE taken == Pending(Me.seen, Me.arg)
           reg(p) == [Me.seen EXCEPT !.state[p] = "provisioning", !.name[p] = Me.arg,
                                     !.avatar[p] = None]
           s(p) == [job["main"] EXCEPT !.at = "creating", !.step = 1, !.p = p,
                                       !.fresh = (taken = {}), !.seen = NoRegistry,
                                       !.reg = reg(p)]
<1>0. /\ Me.op = "create" /\ Me = job["main"] /\ "main" \in Threads /\ job["main"] \in Rows
      /\ Me.arg \in Names /\ Me.seen \in Registries /\ Me.seen.active \in Personas
  BY MainType DEF CreateBegin, Acting, RowOK
<1>1. CASE Refuse
  BY <1>1, RefuseType, SMTT(60)
<1>2. CASE ~Refuse
  <2>1. PICK p \in IF taken # {} THEN taken ELSE Unused :
          job' = [job EXCEPT !["main"] = s(p)] /\ KeepFiles /\ KeepRegistry /\ KeepRest /\ NoFault
    BY <1>2 DEF CreateBegin
  <2>2. p \in Personas
    BY <2>1 DEF Pending, Unused
  <2>3. reg(p) \in Registries /\ reg(p).active = Me.seen.active
    BY <1>0, <2>2, ZenonT(60) DEF Registries, States
  <2>4. s(p) \in Rows
    <3>1. 1 \in 0 .. 6 /\ NoRegistry \in Saved /\ (taken = {}) \in BOOLEAN
      BY IdleType
    <3> QED BY <1>0, <2>2, <2>3, <3>1, CreateRow, ZenonT(60)
  <2>5. /\ s(p).at = "creating" /\ s(p).op = "create" /\ s(p).p = p /\ s(p).step = 1
        /\ s(p).reg = reg(p) /\ s(p).arg = Me.arg
    <3> HIDE DEF reg, taken
    <3> QED BY <1>0 DEF Rows
  <2>6. RowOK(s(p))
    <3> HIDE DEF reg, s
    <3> QED BY <1>0, <2>2, <2>3, <2>5 DEF RowOK, Setting, Changes, Renders, Reading
  <2>7. Steps("main")
    <3> HIDE DEF s
    <3> QED BY <1>0, <2>1, <2>4, <2>6, RowStep
  <2> QED BY <1>0, <2>1, <2>7, StepsTyped
          DEF RegistryTypeOK, KeepFiles, KeepRegistry, KeepRest
<1> QED BY <1>1, <1>2

(* The next step of a command that goes on.                                   *)
LEMMA AdvanceType ==
  ASSUME RegistryTypeOK, Me.op \in {"create", "avatar", "save"}, Me.step # 0,
         NEW n \in 1 .. 6, Me.op = "save" => n <= 5,
         job' = [job EXCEPT !["main"].step = n]
  PROVE  Steps("main")
<1> DEFINE s == [job["main"] EXCEPT !.step = n]
<1>0. "main" \in Threads /\ job["main"] \in Rows /\ Me = job["main"] /\ RowOK(Me)
  BY MainType
<1>1. n \in 0 .. 6 /\ n # 0
  OBVIOUS
<1>2. s \in Rows
  BY <1>0, <1>1 DEF Rows
<1>3. /\ s.at = Me.at /\ s.op = Me.op /\ s.p = Me.p /\ s.step = n /\ s.reg = Me.reg
      /\ s.arg = Me.arg /\ s.kept = Me.kept /\ s.seen = Me.seen /\ s.after = Me.after
  BY <1>0 DEF Rows
<1>4. RowOK(s)
  <2> HIDE DEF s
  <2> QED BY <1>0, <1>1, <1>3 DEF RowOK, Setting
<1> QED BY <1>0, <1>2, <1>4, RowStep

LEMMA CreateType ==
  ASSUME RegistryTypeOK, CreateFile \/ CreateRegister \/ CreatePublish PROVE RegistryTypeOK'
<1>0. /\ Me.op = "create" /\ Me.step # 0 /\ Me.p \in Personas /\ Me.arg \in Names
      /\ disk[Me.p] \in Pieces /\ Me.reg \in Saved /\ Me.reg \in Registries /\ Me.reg.active \in Personas
  BY MainType DEF CreateFile, CreateRegister, CreatePublish, At, Changes, Reading, RowOK
<1>1. Steps("main")
  <2>1. CASE CreateFile
    <3>1. Me.step + 1 \in 1 .. 6 /\ (job' = [job EXCEPT !["main"].step = Me.step + 1] \/ Return("main"))
      BY <2>1, MainType DEF CreateFile
    <3> QED BY <1>0, <3>1, MainType, AdvanceType, ReturnType
  <2>2. CASE CreateRegister
    <3>1. 4 \in 1 .. 6
      OBVIOUS
    <3> QED BY <1>0, <2>2, <3>1, MainType, AdvanceType, ReturnType DEF CreateRegister
  <2>3. CASE CreatePublish
    <3>1. 6 \in 1 .. 6
      OBVIOUS
    <3> QED BY <1>0, <2>3, <3>1, MainType, AdvanceType, ReturnType DEF CreatePublish
  <2> QED BY <2>1, <2>2, <2>3
<1>2. registry' \in Saved /\ overwritten' \in BOOLEAN
  <2>1. [Me.reg EXCEPT !.state[Me.p] = "ready"] \in Saved
    BY <1>0, RegistryUpdates DEF Saved, States
  <2> QED BY <1>0, <2>1 DEF CreateFile, CreateRegister, CreatePublish, Commit, KeepRegistry, RegistryTypeOK
<1>3. disk' \in [Personas -> Pieces]
  <2>1. Projection(Me.arg) \in Configs
    BY <1>0 DEF Projection, Configs
  <2>2. /\ [disk EXCEPT ![Me.p] = Nothing] \in [Personas -> Pieces]
        /\ [disk EXCEPT ![Me.p].identity = TRUE] \in [Personas -> Pieces]
        /\ [disk EXCEPT ![Me.p].credential = TRUE] \in [Personas -> Pieces]
        /\ [disk EXCEPT ![Me.p].config = Projection(Me.arg)] \in [Personas -> Pieces]
    BY <1>0, <2>1, IdleType, PieceType DEF RegistryTypeOK
  <2> QED BY <2>2 DEF CreateFile, CreateRegister, CreatePublish, KeepFiles, RegistryTypeOK
<1> QED BY <1>1, <1>2, <1>3, MainType, StepsTyped
        DEF CreateFile, CreateRegister, CreatePublish, RegistryTypeOK, KeepFiles, KeepRest

LEMMA DeleteType ==
  ASSUME RegistryTypeOK, DeleteMark \/ DeleteErase \/ DeleteForget PROVE RegistryTypeOK'
<1>0. /\ Me.op = "delete" /\ Me.step # 0 /\ Me.p \in Personas /\ Me.reg \in Saved
      /\ Me.reg \in Registries /\ Me.reg.active \in Personas
  BY MainType DEF DeleteMark, DeleteErase, DeleteForget, At, Changes, Reading, RowOK
<1>1. Steps("main")
  BY <1>0, GoesType, MainType, ReturnType DEF DeleteMark, DeleteErase, DeleteForget, Places, Looking, Reading
<1>2. registry' \in Saved /\ overwritten' \in BOOLEAN
  BY <1>0, WithoutType DEF DeleteMark, DeleteErase, DeleteForget, Commit, KeepRegistry, RegistryTypeOK
<1>3. disk' \in [Personas -> Pieces]
  BY <1>0, CleanedType DEF DeleteMark, DeleteErase, DeleteForget, KeepFiles, RegistryTypeOK
<1> QED BY <1>0, <1>1, <1>2, <1>3, MainType, StepsTyped
        DEF DeleteMark, DeleteErase, DeleteForget, RegistryTypeOK, KeepFiles, KeepRest

LEMMA AvatarType ==
  ASSUME RegistryTypeOK, AvatarFile \/ AvatarSave PROVE RegistryTypeOK'
<1>0. /\ Me.op = "avatar" /\ Me.step # 0 /\ Me.p \in Personas /\ disk[Me.p] \in Pieces
      /\ Me.arg \in Formats \cup {None} /\ Me.was \in Registries
  BY MainType DEF AvatarFile, AvatarSave, At, Changes, Reading, RowOK, Renders
<1>1. Steps("main")
  <2>1. CASE AvatarFile
    <3>1. Me.step + 1 \in 1 .. 6 /\ (job' = [job EXCEPT !["main"].step = Me.step + 1] \/ Return("main"))
      BY <2>1, MainType DEF AvatarFile
    <3> QED BY <1>0, <3>1, MainType, AdvanceType, ReturnType
  <2>2. CASE AvatarSave
    BY <2>2, MainType, ReturnType DEF AvatarSave
  <2> QED BY <2>1, <2>2
<1>2. registry' \in Saved /\ overwritten' \in BOOLEAN
  BY <1>0, SavesType DEF AvatarFile, AvatarSave
<1>3. disk' \in [Personas -> Pieces]
  <2>1. \A a \in SUBSET (Formats \cup {None}) :
          [disk EXCEPT ![Me.p].avatars = a] \in [Personas -> Pieces]
    BY <1>0, PieceType DEF RegistryTypeOK
  <2>2. disk[Me.p].avatars \in SUBSET (Formats \cup {None})
    BY <1>0, PieceType
  <2>3. /\ disk[Me.p].avatars \cup ({Me.arg} \ {None}) \in SUBSET (Formats \cup {None})
        /\ \A a : disk[Me.p].avatars \ {a} \in SUBSET (Formats \cup {None})
    BY <1>0, <2>2
  <2> DEFINE a == IF Me.step = 1 THEN disk[Me.p].avatars \cup ({Me.arg} \ {None})
                  ELSE IF Me.was.avatar[Me.p] # Me.arg
                       THEN disk[Me.p].avatars \ {Me.was.avatar[Me.p]}
                       ELSE disk[Me.p].avatars
  <2>4. a \in SUBSET (Formats \cup {None})
    BY <2>2, <2>3
  <2>5. disk' = disk \/ disk' = [disk EXCEPT ![Me.p].avatars = a]
    BY DEF AvatarFile, AvatarSave, KeepFiles
  <2> HIDE DEF a
  <2> QED BY <2>1, <2>4, <2>5 DEF RegistryTypeOK
<1> QED BY <1>1, <1>2, <1>3, MainType, StepsTyped
        DEF AvatarFile, AvatarSave, RegistryTypeOK, KeepFiles, KeepRest

LEMMA SetupRow ==
  ASSUME NEW m \in Rows, NEW r \in Registries, NEW p \in Personas, NEW w \in Saved,
         NEW n \in Saved, NEW k \in Pieces, NEW g \in BOOLEAN, NEW step \in 0 .. 6
  PROVE  [m EXCEPT !.at = "saving", !.step = step, !.p = p, !.was = w, !.seen = n,
                   !.kept = k, !.keptGlobal = g, !.reg = r] \in Rows
<1>1. "saving" \in Places
  BY DEF Places
<1> QED BY <1>1 DEF Rows

LEMMA SetupBeginType ==
  ASSUME RegistryTypeOK, SetupBegin PROVE RegistryTypeOK'
<1> DEFINE reg(p) == [Me.seen EXCEPT
             !.active = p, !.first = IF Me.seen = NoRegistry THEN p ELSE @,
             !.state[p] = "ready", !.name[p] = Me.arg]
           s(p) == [job["main"] EXCEPT !.at = "saving", !.step = 1, !.p = p, !.was = Me.seen,
                      !.seen = NoRegistry, !.kept = disk[p], !.keptGlobal = global,
                      !.reg = reg(p)]
<1>0. /\ Me.op = "save" /\ Me = job["main"] /\ "main" \in Threads /\ job["main"] \in Rows
      /\ Me.arg \in Names /\ Me.seen \in Registries /\ Me.seen \in Saved /\ RowOK(Me)
      /\ global \in BOOLEAN
  BY MainType DEF SetupBegin, Acting, RowOK, RegistryTypeOK
<1>1. PICK p \in IF Me.seen = NoRegistry THEN Unused ELSE {Me.seen.active} :
        job' = [job EXCEPT !["main"] = s(p)] /\ KeepFiles /\ KeepRegistry /\ KeepRest /\ NoFault
  BY DEF SetupBegin
<1>2. p \in Personas /\ disk[p] \in Pieces
  BY <1>0, <1>1 DEF Unused, Saved, RegistryTypeOK
<1>3. reg(p) \in Registries /\ reg(p).active = p
  BY <1>0, <1>2 DEF Registries, States
<1>4. s(p) \in Rows
  <2>1. 1 \in 0 .. 6 /\ NoRegistry \in Saved
    BY IdleType
  <2>2. Me.seen \in Saved /\ disk[p] \in Pieces /\ global \in BOOLEAN /\ p \in Personas
    BY <1>0, <1>2
  <2> HIDE DEF reg
  <2> QED BY <1>0, <1>3, <2>1, <2>2, SetupRow, ZenonT(60)
<1>5. /\ s(p).at = "saving" /\ s(p).op = "save" /\ s(p).p = p /\ s(p).step = 1
      /\ s(p).reg = reg(p) /\ s(p).arg = Me.arg /\ s(p).after = Me.after
  <2> HIDE DEF reg
  <2> QED BY <1>0 DEF Rows
<1>6. RowOK(s(p))
  <2> HIDE DEF reg, s
  <2> QED BY <1>0, <1>2, <1>3, <1>5 DEF RowOK, Setting, Changes, Renders, Reading
<1>7. Steps("main")
  <2> HIDE DEF s
  <2> QED BY <1>0, <1>1, <1>4, <1>6, RowStep
<1> QED BY <1>0, <1>1, <1>7, StepsTyped
        DEF RegistryTypeOK, KeepFiles, KeepRegistry, KeepRest

LEMMA PutType ==
  ASSUME RegistryTypeOK, Me.p \in Personas, NEW part,
         part \in {"credential", "identity", "config", "registry", "global"},
         NEW d, d.config \in Configs, d.identity \in BOOLEAN, d.credential \in BOOLEAN,
         NEW r \in Saved, NEW g \in BOOLEAN, PutPart(part, d, r, g)
  PROVE  /\ disk' \in [Personas -> Pieces] /\ registry' \in Saved /\ global' \in BOOLEAN
         /\ overwritten' \in BOOLEAN
<1>1. /\ [disk EXCEPT ![Me.p].identity = d.identity] \in [Personas -> Pieces]
      /\ [disk EXCEPT ![Me.p].credential = d.credential] \in [Personas -> Pieces]
      /\ [disk EXCEPT ![Me.p].config = d.config] \in [Personas -> Pieces]
  BY PieceType DEF RegistryTypeOK
<1>2. disk' = CASE part = "identity" -> [disk EXCEPT ![Me.p].identity = d.identity]
                [] part = "credential" -> [disk EXCEPT ![Me.p].credential = d.credential]
                [] part = "config" -> [disk EXCEPT ![Me.p].config = d.config]
                [] OTHER -> disk
  BY DEF PutPart
<1> QED BY <1>1, <1>2 DEF PutPart, Commit, KeepRegistry, RegistryTypeOK

LEMMA SetupPutType ==
  ASSUME RegistryTypeOK, SetupPut PROVE RegistryTypeOK'
<1>0. /\ Me.op = "save" /\ Me.step # 0 /\ Me.p \in Personas /\ Me.reg \in Saved
      /\ Me.arg \in Names /\ Me.step \in 1 .. 5 /\ "main" \in Threads /\ Me.at = "saving"
      /\ Me = job["main"] /\ job["main"] \in Rows
  BY MainType DEF SetupPut, At, Changes, Reading, RowOK
<1>1. SetupParts[Me.step] \in {"credential", "identity", "config", "registry", "global"}
  BY <1>0 DEF SetupParts
<1> DEFINE d == [config |-> Projection(Me.arg), identity |-> TRUE, credential |-> TRUE]
<1>2. d.config \in Configs /\ d.identity \in BOOLEAN /\ d.credential \in BOOLEAN
  BY <1>0 DEF Projection, Configs
<1>3. /\ disk' \in [Personas -> Pieces] /\ registry' \in Saved /\ global' \in BOOLEAN
      /\ overwritten' \in BOOLEAN
  <2>1. CASE PutPart(SetupParts[Me.step], d, Me.reg, TRUE)
    <3> HIDE DEF d
    <3> QED BY <1>0, <1>1, <1>2, <2>1, PutType, ZenonT(60)
  <2>2. CASE KeepFiles /\ KeepRegistry
    BY <2>2 DEF KeepFiles, KeepRegistry, RegistryTypeOK
  <2> QED BY <2>1, <2>2 DEF SetupPut
<1>5. Steps("main")
  <2>1. Me.step + 1 \in 1 .. 6 /\ (Me.step # 5 => Me.step + 1 <= 5)
    BY <1>0
  <2>2. CASE Return("main")
    BY <1>0, <2>2, ReturnType
  <2>3. CASE Me.step # 5 /\ job' = [job EXCEPT !["main"].step = Me.step + 1]
    BY <1>0, <2>1, <2>3, AdvanceType
  <2>4. CASE job' = [job EXCEPT !["main"] = [@ EXCEPT !.at = "undoing", !.step = 1]]
    <3> DEFINE s == [job["main"] EXCEPT !.at = "undoing", !.step = 1]
    <3>1. 1 \in 0 .. 6 /\ "undoing" \in Places
      BY DEF Places
    <3>2. s \in Rows
      BY <1>0, <3>1 DEF Rows
    <3>3. /\ s.at = "undoing" /\ s.op = "save" /\ s.p = Me.p /\ s.step = 1 /\ s.reg = Me.reg
          /\ s.arg = Me.arg /\ s.after = Me.after
      BY <1>0 DEF Rows
    <3>4. RowOK(s)
      <4>1. RowOK(Me)
        BY MainType
      <4> HIDE DEF s
      <4> QED BY <1>0, <3>3, <4>1 DEF RowOK, Setting, Changes, Renders, Reading
    <3> HIDE DEF s
    <3> QED BY <1>0, <2>4, <3>2, <3>4, RowStep DEF s
  <2> QED BY <2>2, <2>3, <2>4 DEF SetupPut, Me
<1> QED BY <1>0, <1>3, <1>5, StepsTyped DEF SetupPut, RegistryTypeOK, KeepRest

LEMMA SetupUndoType ==
  ASSUME RegistryTypeOK, SetupUndo PROVE RegistryTypeOK'
<1>0. /\ Me.op = "save" /\ Me.step # 0 /\ Me.p \in Personas /\ Me.was \in Saved
      /\ Me.step \in 1 .. 5 /\ "main" \in Threads /\ Me.kept \in Pieces /\ Me.keptGlobal \in BOOLEAN
  BY MainType DEF SetupUndo, At, Changes, Reading, RowOK, Rows
<1>1. UndoParts[Me.step] \in {"credential", "identity", "config", "registry", "global"}
  BY <1>0 DEF UndoParts
<1>2. /\ disk' \in [Personas -> Pieces] /\ registry' \in Saved /\ global' \in BOOLEAN
      /\ overwritten' \in BOOLEAN
  <2>1. CASE PutPart(UndoParts[Me.step], Me.kept, Me.was, Me.keptGlobal)
    <3>1. Me.kept.config \in Configs /\ Me.kept.identity \in BOOLEAN
          /\ Me.kept.credential \in BOOLEAN
      BY <1>0, PieceType
    <3>2. PICK part, d, w, g : /\ part = UndoParts[Me.step] /\ d = Me.kept
                               /\ w = Me.was /\ g = Me.keptGlobal
      OBVIOUS
    <3>3. PutPart(part, d, w, g)
      BY <2>1, <3>2
    <3> QED BY <1>0, <1>1, <3>1, <3>2, <3>3, PutType
  <2>2. CASE KeepFiles /\ KeepRegistry
    BY <2>2 DEF KeepFiles, KeepRegistry, RegistryTypeOK
  <2> QED BY <2>1, <2>2 DEF SetupUndo
<1>3. Steps("main")
  <2>1. Me.step + 1 \in 1 .. 6 /\ (Me.step # 5 => Me.step + 1 <= 5)
    BY <1>0
  <2>2. CASE Return("main")
    BY <1>0, <2>2, ReturnType
  <2>3. CASE Me.step # 5 /\ job' = [job EXCEPT !["main"].step = Me.step + 1]
    BY <1>0, <2>1, <2>3, AdvanceType
  <2> QED BY <2>2, <2>3 DEF SetupUndo, Me
<1> QED BY <1>0, <1>2, <1>3, StepsTyped DEF SetupUndo, RegistryTypeOK

LEMMA CallType ==
  ASSUME RegistryTypeOK, Call PROVE RegistryTypeOK'
<1> DEFINE s(op, p, x) ==
      [Idle EXCEPT !.op = op, !.p = p, !.arg = x, !.after = "acting",
                   !.at = CASE op = "start" -> "starting"
                            [] op = "stop" -> "stopping"
                            [] OTHER -> "loading"]
<1>1. PICK op \in {"read", "start", "stop", "switch", "update", "settings", "create",
                "delete", "avatar", "save"} :
        \E p \in IF op \in {"switch", "update", "settings", "delete", "avatar"}
                   THEN Ready(registry) ELSE {None} :
        \E x \in CASE op \in {"update", "create", "save"} -> Names
                   [] op = "avatar" -> Formats \cup {None}
                   [] OTHER -> {None} :
          job' = [job EXCEPT !["main"] = s(op, p, x)]
  BY Zenon DEF Call
<1>2. PICK p \in IF op \in {"switch", "update", "settings", "delete", "avatar"}
                   THEN Ready(registry) ELSE {None} :
        \E x \in CASE op \in {"update", "create", "save"} -> Names
                   [] op = "avatar" -> Formats \cup {None}
                   [] OTHER -> {None} :
          job' = [job EXCEPT !["main"] = s(op, p, x)]
  BY <1>1
<1>3. PICK x \in CASE op \in {"update", "create", "save"} -> Names
                   [] op = "avatar" -> Formats \cup {None}
                   [] OTHER -> {None} :
          job' = [job EXCEPT !["main"] = s(op, p, x)]
  BY <1>2
<1>4. p \in Personas \cup {None} /\ (op \in Renders \cup {"delete"} => p \in Personas)
  BY <1>1, <1>2 DEF Ready, Renders
<1>5. /\ x \in Names \cup Formats \cup {None}
      /\ op \in {"update", "create", "save"} => x \in Names
      /\ op = "avatar" => x \in Formats \cup {None}
  <2>1. CASE op \in {"update", "create", "save"}
    BY <1>3, <2>1
  <2>2. CASE op = "avatar"
    BY <1>3, <2>2
  <2>3. CASE op \notin {"update", "create", "save", "avatar"}
    BY <1>3, <2>3
  <2> QED BY <2>1, <2>2, <2>3
<1> DEFINE r == s(op, p, x)
<1>6. r.at \in {"starting", "stopping", "loading"} /\ (op \notin {"start", "stop"} => r.at = "loading")
  BY <1>1 DEF Idle
<1>7. r \in Rows
  <2>1. op \in Ops
    BY <1>1 DEF Ops
  <2>2. (CASE op = "start" -> "starting" [] op = "stop" -> "stopping" [] OTHER -> "loading") \in Places
    BY DEF Places
  <2> QED BY <1>4, <1>5, <2>1, <2>2, IdleType DEF Rows
<1>8. r.op = op /\ r.p = p /\ r.arg = x /\ r.after = "acting" /\ r.step = 0
  BY DEF Idle
<1>9. RowOK(r)
  <2> HIDE DEF r
  <2> QED BY <1>1, <1>4, <1>5, <1>6, <1>8 DEF RowOK, Setting, Changes, Renders, Reading
<1>10. Steps("main")
  <2> HIDE DEF r
  <2> QED BY <1>3, <1>7, <1>9, MainType, RowStep DEF r
<1> QED BY <1>10, MainType, StepsTyped DEF Call, RegistryTypeOK, KeepFiles, KeepRegistry, KeepRest

LEMMA OtherType ==
  ASSUME RegistryTypeOK, CallSync \/ Crash \/ BackendDies \/ \E t \in Threads : ReadOnly(t)
  PROVE  RegistryTypeOK'
<1>1. CASE CallSync
  <2> DEFINE s == [Idle EXCEPT !.op = "sync", !.at = "loading", !.after = "acting"]
  <2>1. s \in Rows /\ RowOK(s)
    <3>1. s \in Rows
      BY IdleType, ZenonT(60) DEF Rows, Ops, Places
    <3>2. s.op = "sync" /\ s.at = "loading" /\ s.step = 0 /\ s.after = "acting"
      BY DEF Idle
    <3> HIDE DEF s
    <3> QED BY <3>1, <3>2 DEF RowOK, Setting, Changes, Renders, Reading
  <2>2. Steps("sync")
    <3> HIDE DEF s
    <3> QED BY <1>1, <2>1, MainType, RowStep DEF CallSync, s
  <2> QED BY <1>1, <2>2, MainType, StepsTyped
          DEF CallSync, RegistryTypeOK, KeepFiles, KeepRegistry, KeepRest
<1>2. CASE Crash
  BY <1>2, IdleType DEF Crash, RegistryTypeOK, KeepFiles, KeepRegistry
<1>3. CASE BackendDies
  BY <1>3 DEF BackendDies, RegistryTypeOK, KeepFiles, KeepRegistry
<1>4. CASE \E t \in Threads : ReadOnly(t)
  BY <1>4, ReturnType, StepsTyped DEF ReadOnly, RegistryTypeOK, KeepFiles, KeepRegistry, KeepRest
<1> QED BY <1>1, <1>2, <1>3, <1>4

LEMMA TypesBegin == RegistryInit => RegistryTypeOK
<1> SUFFICES ASSUME RegistryInit PROVE RegistryTypeOK
  OBVIOUS
<1>1. registry \in Saved /\ disk \in [Personas -> Pieces] /\ global \in BOOLEAN
  <2>1. CASE /\ registry = NoRegistry /\ disk = [p \in Personas |-> Nothing] /\ global = FALSE
    BY <2>1, IdleType
  <2>2. CASE \E n \in [Personas -> Names], f \in Personas :
          /\ registry = [NoRegistry EXCEPT !.active = f, !.first = f, !.name = n,
                                           !.state = [p \in Personas |-> "ready"]]
          /\ disk = [p \in Personas |->
                       [Nothing EXCEPT !.config = Projection(n[p]), !.identity = TRUE,
                                       !.credential = TRUE]]
          /\ global = TRUE
    <3>1. PICK n \in [Personas -> Names], f \in Personas :
          /\ registry = [NoRegistry EXCEPT !.active = f, !.first = f, !.name = n,
                                           !.state = [p \in Personas |-> "ready"]]
          /\ disk = [p \in Personas |->
                       [Nothing EXCEPT !.config = Projection(n[p]), !.identity = TRUE,
                                       !.credential = TRUE]]
          /\ global = TRUE
      BY <2>2
    <3>2. registry = [active |-> f, first |-> f, state |-> [p \in Personas |-> "ready"],
                      name |-> n, avatar |-> [p \in Personas |-> None]]
      BY <3>1 DEF NoRegistry
    <3>3. registry \in Saved
      BY <3>2 DEF Saved, Registries, States
    <3>4. \A p \in Personas : [Nothing EXCEPT !.config = Projection(n[p]), !.identity = TRUE,
                                              !.credential = TRUE] \in Pieces
      BY DEF Nothing, Pieces, Configs, Projection
    <3> QED BY <3>1, <3>3, <3>4
  <2> QED BY <2>1, <2>2 DEF RegistryInit
<1> QED BY <1>1, IdleType DEF RegistryInit, RegistryTypeOK

LEMMA TypesKept == RegistryTypeOK /\ [RegistryNext]_registryVars => RegistryTypeOK'
<1> SUFFICES ASSUME RegistryTypeOK, [RegistryNext]_registryVars PROVE RegistryTypeOK'
  OBVIOUS
<1>1. CASE UNCHANGED registryVars
  BY <1>1 DEF registryVars, RegistryTypeOK
<1>2. CASE Call \/ CallSync \/ Crash \/ BackendDies \/ \E t \in Threads : ReadOnly(t)
  BY <1>2, CallType, OtherType
<1>3. CASE \E t \in Threads : Registry(t)
  BY <1>3, LoadType, ProjectType, RecoverOneType, RecoverSaveType DEF Registry
<1>4. CASE Start \/ Complete \/ Choose \/ Launch \/ Stop
  BY <1>4, StartType
<1>5. CASE \/ SwitchBegin \/ UpdateBegin \/ SettingsBegin \/ DeleteBegin \/ AvatarBegin
           \/ CreateBegin \/ SetupBegin
  BY <1>5, BeginsType, CreateBeginType, SetupBeginType
<1>6. CASE \/ SwitchSave \/ SwitchUndo \/ UpdateWrite \/ UpdateSave \/ UpdateRestore \/ UpdateUndo
           \/ SettingsWrite \/ SettingsUndo
  BY <1>6, SwitchType, UpdateType, UpdateUndoType, SettingsType
<1>7. CASE \/ CreateFile \/ CreateRegister \/ CreatePublish \/ DeleteMark \/ DeleteErase
           \/ DeleteForget \/ AvatarFile \/ AvatarSave \/ SetupPut \/ SetupUndo
  BY <1>7, CreateType, DeleteType, AvatarType, SetupPutType, SetupUndoType
<1> QED BY <1>1, <1>2, <1>3, <1>4, <1>5, <1>6, <1>7 DEF RegistryNext

(* The registry, the files and what each command has read of them have their  *)
(* types: no command acts on a persona, a registry or a configuration it did  *)
(* not read (registry, active_profile, profile_config).                       *)
THEOREM RegistryTypes == RegistrySpec => []RegistryTypeOK
BY TypesBegin, TypesKept, PTL DEF RegistrySpec

-----------------------------------------------------------------------------
(* What most steps leave alone: outside P, personas keep their place in the   *)
(* registry, those to be deleted gain nothing and the others lose nothing.    *)
Calm(P) ==
  /\ deleted \subseteq deleted' /\ (confessed => confessed')
  /\ \A q \in P : ~Doomed(q) /\ q \notin deleted'
  /\ \A q \in Personas \ P :
       /\ \/ registry'.state[q] = registry.state[q]
          \/ q \in deleted' /\ registry.state[q] \in Gone /\ registry'.state[q] \in Gone
       /\ q \in deleted' \ deleted => Doomed(q) /\ Bare(q)
       /\ Doomed(q) => (Bare(q) => Bare(q)') /\ (Named(q) => Named(q)')
       /\ ~Doomed(q) => /\ disk[q].config # None => disk'[q].config # None
                        /\ disk[q].identity => disk'[q].identity
                        /\ disk[q].credential => disk'[q].credential

LEMMA CalmDoomed ==
  ASSUME RegistryTypeOK, RegistryTypeOK', DeletionInv, NEW P \in SUBSET Personas, Calm(P)
  PROVE  \A q \in Personas : /\ Doomed(q) => Doomed(q)' /\ registry'.state[q] \in Gone
                             /\ Doomed(q) /\ Bare(q) => Bare(q)'
                             /\ registry.state[q] = "deleting" => Doomed(q)
                             /\ q \in deleted => Doomed(q) /\ Bare(q) /\ registry.state[q] \in Gone
BY DEF Calm, Doomed, DeletionInv, Gone

LEMMA CalmDeletion ==
  ASSUME RegistryTypeOK, RegistryTypeOK', DeletionInv, NEW P \in SUBSET Personas, Calm(P),
         \A q \in P : registry'.state[q] = "deleting" => Named(q)'
  PROVE  DeletionInv'
<1>1. ASSUME NEW q \in deleted' PROVE Bare(q)' /\ registry'.state[q] \in Gone
  <2>1. q \in Personas \ P
    BY <1>1 DEF Calm, RegistryTypeOK
  <2>2. Doomed(q) /\ Bare(q)
    BY <1>1, <2>1, CalmDoomed DEF Calm
  <2> QED BY <2>1, <2>2, CalmDoomed
<1>2. ASSUME NEW q \in Personas \ P, registry'.state[q] = "deleting" PROVE Named(q)'
  <2>1. CASE q \in deleted'
    BY <1>1, <2>1 DEF Bare, Named
  <2>2. CASE q \notin deleted'
    BY <1>2, <2>2, CalmDoomed DEF Calm, DeletionInv
  <2> QED BY <2>1, <2>2
<1> QED BY <1>1, <1>2 DEF DeletionInv

LEMMA CalmSame ==
  ASSUME RegistryTypeOK, RegistryTypeOK', DeletionInv, NEW P \in SUBSET Personas, Calm(P),
         NEW q \in Personas \ P, NEW s, Same(q, s)
  PROVE  Same(q, s)'
BY CalmDoomed DEF Calm, Same, Gone

LEMMA CalmReady ==
  ASSUME RegistryTypeOK, RegistryTypeOK', DeletionInv, NEW P \in SUBSET Personas, Calm(P),
         ~overwritten, ReadyIsWhole,
         ~confessed' => \A q \in P : registry'.state[q] = "ready" => Whole(q)'
  PROVE  ReadyIsWhole'
<1> SUFFICES ASSUME ~confessed', NEW q \in Personas \ P, registry'.state[q] = "ready"
             PROVE  Whole(q)'
  BY DEF ReadyIsWhole, Ready
<1>1. registry.state[q] = "ready" /\ ~Doomed(q)
  BY CalmDoomed DEF Calm, Gone
<1>2. Whole(q)
  BY <1>1 DEF ReadyIsWhole, Ready, Calm
<1> QED BY <1>1, <1>2 DEF Calm, Whole

LEMMA CalmRecovery ==
  ASSUME RegistryTypeOK, RegistryTypeOK', DeletionInv, NEW P \in SUBSET Personas, Calm(P),
         NEW t \in Threads, RecoveryOf(t), job'[t] = job[t]
  PROVE  RecoveryOf(t)'
<1>1. Deleting(job[t].seen) \subseteq Personas
  BY DEF Deleting
<1> QED BY <1>1, CalmDoomed DEF RecoveryOf

(* A row about the same command, at a place where no more is known of it.     *)
Alike(s, r) ==
  /\ s.op = r.op /\ s.p = r.p /\ s.arg = r.arg /\ s.reg = r.reg
  /\ s.step = r.step \/ (s.op = "avatar" /\ s.step # 0 /\ r.step # 0)
  /\ s.was = r.was /\ s.kept = r.kept /\ s.fresh = r.fresh
Plain(s, r) ==
  s.at = r.at \/ /\ s.op \in {"delete", "save"} => s.at \notin {"marking", "erasing", "forgetting", "saving", "undoing"}
                 /\ s.op = "switch" /\ r.at = "stopping" => backend' = None

LEMMA CalmWell ==
  ASSUME RegistryTypeOK, RegistryTypeOK', DeletionInv, NEW r \in Registries, Calm({}), Matches(r)
  PROVE  Matches(r)'
BY CalmSame DEF Matches

LEMMA CalmCommand ==
  ASSUME RegistryTypeOK, RegistryTypeOK', DeletionInv, CommandInv, Calm({}),
         Alike(Me', Me), Plain(Me', Me), backend' \in {None, backend},
         registry'.active = registry.active \/ Me.op = "switch"
  PROVE  CommandInv'
<1>0. /\ Me.was \in Registries /\ Me.reg \in Registries
      /\ Me.op \in Renders \cup {"delete"} \/ (Me.op \in {"create", "save"} /\ Begun) => Me.p \in Personas
      /\ Begun' <=> Begun
  BY MainType DEF Begun, Alike
<1>1. \A q \in Personas : registry.state[q] \notin Gone => registry'.state[q] = registry.state[q] /\ ~Doomed(q)
  <2>1. \A q \in Personas : q \in deleted => registry.state[q] \in Gone
    BY CalmDoomed
  <2>2. \A q \in Personas : registry.state[q] \notin Gone => registry'.state[q] = registry.state[q]
    BY DEF Calm
  <2> QED BY <2>1, <2>2 DEF Gone, Doomed
<1>3. \A q \in Personas : ~Doomed(q) =>
        /\ q \notin deleted /\ q \notin deleted'
        /\ disk[q].config # None => disk'[q].config # None
        /\ disk[q].identity => disk'[q].identity
        /\ disk[q].credential => disk'[q].credential
        /\ registry'.state[q] = registry.state[q]
  BY DEF Calm, Doomed
<1>4. SubjectInv'
  BY <1>0, <1>1 DEF CommandInv, SubjectInv, Alike, Plain, Ready, Gone
<1>5. RenderInv'
  <2>1. Begun /\ Me.op = "update" => ~Doomed(Me.p)
    BY <1>0, <1>1 DEF CommandInv, SubjectInv, Renders, Ready, Gone
  <2> QED BY <1>0, <1>3, <2>1, CalmWell DEF CommandInv, RenderInv, Alike, WellFormed, Renders
<1>6. SwitchInv'
  BY <1>0 DEF CommandInv, SwitchInv, Alike, Plain
<1>7. DeleteInv'
  <2> SUFFICES ASSUME Begun, Me.op = "delete" PROVE DeleteInv'
    BY <1>0 DEF DeleteInv, Alike
  <2>1. DeleteInv
    BY DEF CommandInv
  <2>2. MatchesBut(Me.reg, Me.p)'
    BY <1>0, <2>1, CalmSame DEF DeleteInv, MatchesBut, Alike
  <2>3. Me.at = "marking" => Me.p \in Ready(registry)
    BY DEF CommandInv, SubjectInv
  <2> QED BY <1>0, <1>1, <1>3, <2>1, <2>2, <2>3, CalmDoomed DEF DeleteInv, Alike, Plain, WellFormed, Ready, Gone
<1>8. CreateInv'
  <2> SUFFICES ASSUME Begun, Me.op = "create" PROVE CreateInv'
    BY <1>0 DEF CreateInv, Alike
  <2>1. CreateInv
    BY DEF CommandInv
  <2>2. MatchesBut(Me.reg, Me.p)'
    BY <1>0, <2>1, CalmSame DEF CreateInv, MatchesBut, Alike
  <2>3. ~Doomed(Me.p)
    BY <1>0, <2>1 DEF CreateInv, Doomed
  <2> QED BY <1>0, <1>3, <2>1, <2>2, <2>3 DEF CreateInv, Alike, WellFormed
<1>9. SetupInv'
  <2> SUFFICES ASSUME Begun, Me.op = "save" PROVE SetupInv'
    BY <1>0 DEF SetupInv, Alike
  <2>1. SetupInv
    BY DEF CommandInv
  <2>2. MatchesBut(Me.was, Me.p)'
    BY <1>0, <2>1, CalmSame DEF SetupInv, MatchesBut, Alike
  <2>3. ~Doomed(Me.p)
    BY <1>0, <2>1 DEF SetupInv, Doomed, WellFormed, Ready, NoRegistry
  <2> QED BY <1>0, <1>3, <2>1, <2>2, <2>3 DEF SetupInv, Alike, Plain, WellFormed, Calm
<1> QED BY <1>4, <1>5, <1>6, <1>7, <1>8, <1>9 DEF CommandInv

LEMMA CalmSeen ==
  ASSUME RegistryTypeOK, RegistryTypeOK', DeletionInv, SeenInv, Calm({}), Me' = Me,
         registry'.active = registry.active
  PROVE  SeenInv'
<1>1. Me.seen \in Registries
  BY MainType
<1>2. Me.at \in Reading \cup {"acting", "completing", "choosing"} => Matches(Me.seen)'
  BY <1>1, CalmWell DEF SeenInv
<1>3. ASSUME Me.at \in {"recovering", "acting"}, NEW q \in Personas,
             Me.seen.state[q] \in {"ready", "provisioning"}
      PROVE  disk'[q].config # None
  <2>1. Same(q, Me.seen.state[q]) /\ disk[q].config # None
    BY <1>3 DEF SeenInv, Matches, Reading
  <2>2. ~Doomed(q)
    BY <1>3, <2>1, CalmDoomed DEF Same, Gone, Doomed
  <2> QED BY <2>1, <2>2 DEF Calm
<1> QED BY <1>2, <1>3 DEF SeenInv, WellFormed

LEMMA CalmServes ==
  ASSUME ServesActive, backend' \in {None, backend}, registry'.active = registry.active
  PROVE  ServesActive'
BY DEF ServesActive

(* A thread that is idle, or starts the backend of a new application, has    *)
(* promised nothing.                                                          *)
LEMMA IdlePromises ==
  ASSUME job'["main"] \in {Idle, StartUp}
  PROVE  SeenInv' /\ CommandInv' /\ RecoveryOf("main")'
<1>1. /\ Me'.step = 0 /\ Me'.op \in {"none", "start"} /\ Me'.at \in {"idle", "starting"}
      /\ job'["main"].at \in {"idle", "starting"}
  <2>1. /\ Idle.step = 0 /\ Idle.op = "none" /\ Idle.at = "idle"
        /\ StartUp.step = 0 /\ StartUp.op = "start" /\ StartUp.at = "starting"
    BY DEF Idle, StartUp
  <2> QED BY <2>1 DEF Me
<1> QED BY <1>1 DEF SeenInv, CommandInv, RecoveryOf, SubjectInv, RenderInv, SwitchInv, DeleteInv,
                    CreateInv, SetupInv, Begun, Reading, Renders

(* A step that changes nothing but rows is calm.                              *)
Untouched == UNCHANGED <<registry, disk, deleted, confessed>>

LEMMA UntouchedCalm ==
  ASSUME Untouched PROVE Calm({})
BY DEF Untouched, Calm, Doomed, Bare, Named

LEMMA UntouchedKeeps ==
  ASSUME RegistryTypeOK, RegistryTypeOK', Tidy, ~overwritten, Untouched, backend' \in {None, backend}
  PROVE  /\ DeletionInv' /\ WellFormed(registry)' /\ ServesActive' /\ ReadyIsWhole'
         /\ \A t \in Threads : job'[t] = job[t] => RecoveryOf(t)'
         /\ Alike(Me', Me) /\ Plain(Me', Me) => CommandInv'
<1>1. Calm({}) /\ {} \in SUBSET Personas
  BY UntouchedCalm
<1>2. registry' = registry
  BY DEF Untouched
<1>3. DeletionInv /\ RecoveryInv /\ CommandInv /\ ServesActive /\ ReadyIsWhole /\ WellFormed(registry)
  BY DEF Tidy
<1>4. DeletionInv'
  BY <1>1, <1>3, CalmDeletion
<1>5. ReadyIsWhole'
  BY <1>1, <1>3, CalmReady
<1>6. \A t \in Threads : job'[t] = job[t] => RecoveryOf(t)'
  BY <1>1, <1>3, CalmRecovery DEF RecoveryInv
<1>7. Alike(Me', Me) /\ Plain(Me', Me) => CommandInv'
  BY <1>1, <1>2, <1>3, CalmCommand
<1> QED BY <1>2, <1>3, <1>4, <1>5, <1>6, <1>7, CalmServes DEF WellFormed, Ready

(* Steps of the other thread, and the end of the backend.                     *)
LEMMA SyncKeeps ==
  ASSUME RegistryTypeOK, RegistryTypeOK', Tidy, ~overwritten, Calm({}), Me' = Me,
         registry'.active = registry.active, WellFormed(registry)',
         backend' \in {None, backend}, RecoveryOf("sync")'
  PROVE  Tidy'
<1>1. DeletionInv /\ RecoveryInv /\ CommandInv /\ ServesActive /\ ReadyIsWhole /\ SeenInv
  BY DEF Tidy
<1>2. DeletionInv' /\ ReadyIsWhole' /\ ServesActive' /\ SeenInv'
  BY <1>1, CalmDeletion, CalmReady, CalmServes, CalmSeen
<1>3. CommandInv'
  BY <1>1, CalmCommand DEF Alike, Plain
<1>4. RecoveryOf("main")'
  BY <1>1, MainType, CalmRecovery DEF RecoveryInv, Me
<1> QED BY <1>2, <1>3, <1>4 DEF Tidy, RecoveryInv, Threads

-----------------------------------------------------------------------------
(* registry() on either thread.                                               *)

LEMMA ProjectCalm ==
  ASSUME RegistryTypeOK, NEW t \in Threads, Project(t)
  PROVE  /\ Calm({}) /\ registry' = registry /\ backend' = backend
         /\ \A q \in Personas : disk[q].config # None => disk'[q].config # None
<1> DEFINE r == job[t].seen
           todo == Listed(r) \ Deleting(r)
           Projected(S) == [p \in Personas |->
             IF p \in S THEN [disk[p] EXCEPT !.config = Projection(r.name[p])] ELSE disk[p]]
<1>1. r \in Registries
  BY DEF RegistryTypeOK, Rows, Saved
<1>2. PICK S \in SUBSET todo : disk' = Projected(S) /\ \A q \in S : disk[q].config # None
  BY DEF Project
<1>3. \A q \in Personas : /\ disk'[q].identity = disk[q].identity
                          /\ disk'[q].credential = disk[q].credential
                          /\ disk'[q].avatars = disk[q].avatars
                          /\ q \notin S => disk'[q] = disk[q]
                          /\ q \in S => disk'[q].config # None
  <2>1. disk \in [Personas -> Pieces]
    BY DEF RegistryTypeOK
  <2>2. \A q \in Personas : Projection(r.name[q]) # None
    BY <1>1, ProjectionType
  <2> HIDE DEF r, todo
  <2> QED BY <1>2, <2>1, <2>2 DEF Pieces
<1>4. registry' = registry /\ deleted' = deleted /\ confessed' = confessed /\ backend' = backend
  BY DEF Project, KeepRegistry, KeepRest
<1> QED BY <1>2, <1>3, <1>4 DEF Calm, Doomed, Bare, Named

LEMMA ProjectRow ==
  ASSUME RegistryTypeOK, NEW t \in Threads, Project(t)
  PROVE  /\ \A u \in Threads \ {t} : job'[u] = job[u]
         /\ \/ /\ Alike(job'[t], job[t]) /\ job'[t].at = "recovering" /\ job'[t].seen = job[t].seen
               /\ job'[t].todo = Deleting(job[t].seen) /\ job'[t].freed = {}
               /\ \A q \in Listed(job[t].seen) \ Deleting(job[t].seen) : disk'[q].config # None
            \/ LoadFails(t)
<1>1. job \in [Threads -> Rows]
  BY DEF RegistryTypeOK
<1>2. CASE LoadFails(t)
  BY <1>1, <1>2 DEF LoadFails, StartFails, Goto, Return
<1>3. CASE /\ job' = [job EXCEPT ![t] = [@ EXCEPT !.at = "recovering",
                        !.todo = Deleting(job[t].seen), !.freed = {}]]
           /\ \A p \in Listed(job[t].seen) \ Deleting(job[t].seen) : disk[p].config # None
  BY <1>1, <1>3, ProjectCalm DEF Rows, Alike, Listed
<1> QED BY <1>2, <1>3 DEF Project

LEMMA CleanedCalm ==
  ASSUME RegistryTypeOK, DeletionInv, NEW p \in Personas, Doomed(p), NEW r \in Registries,
         NEW complete \in BOOLEAN, CleanUp(r, p, complete),
         UNCHANGED <<registry, deleted, confessed>>
  PROVE  /\ Calm({}) /\ (complete => Bare(p)')
         /\ \A q \in Personas \ {p} : disk'[q] = disk[q]
<1>1. PICK k \in 0 .. 5 :
        /\ disk' = Cleaned(r, p, k)
        /\ LET stray == k >= 4 /\ disk'[p].avatars # {}
           IN /\ complete <=> (k = 5 /\ ~stray)
              /\ k = 5 => ~stray
  BY DEF CleanUp
<1>2. /\ disk'[p].credential <=> disk[p].credential /\ (k < 1 \/ disk[p].config = None)
      /\ disk'[p].avatars = IF k < 2 THEN disk[p].avatars ELSE disk[p].avatars \ {r.avatar[p]}
      /\ disk'[p].config = IF k < 3 THEN disk[p].config ELSE None
      /\ \A q \in Personas \ {p} : disk'[q] = disk[q]
  BY <1>1 DEF Cleaned, RegistryTypeOK, Pieces
<1>3. (Bare(p) => Bare(p)') /\ (Named(p) => Named(p)')
  BY <1>2 DEF Bare, Named
<1>4. \A q \in Personas \ {p} : (Bare(q) => Bare(q)') /\ (Named(q) => Named(q)')
  BY <1>2 DEF Bare, Named
<1>5. complete => k = 5 /\ disk'[p].avatars = {}
  BY <1>1
<1>6. Named(p)
  BY DEF DeletionInv, Doomed, Bare, Named
<1>7. complete => Bare(p)'
  BY <1>2, <1>5, <1>6 DEF Bare, Named
<1> QED BY <1>2, <1>3, <1>4, <1>7 DEF Calm

LEMMA RecoverOneFacts ==
  ASSUME RegistryTypeOK, Tidy, NEW t \in Threads, RecoverOne(t)
  PROVE  /\ Calm({}) /\ registry' = registry /\ backend' = backend
         /\ \A q \in Personas : ~Doomed(q) => disk'[q] = disk[q]
         /\ \A u \in Threads \ {t} : job'[u] = job[u]
         /\ Alike(job'[t], job[t]) /\ job'[t].at = job[t].at /\ job'[t].seen = job[t].seen
         /\ job'[t].chosen = job[t].chosen
         /\ RecoveryOf(t)'
<1>0. /\ job[t].seen \in Registries /\ job[t] \in Rows /\ job[t].todo \subseteq Personas
      /\ job[t].freed \subseteq Personas /\ job \in [Threads -> Rows]
  BY DEF RegistryTypeOK, Rows, Saved
<1>1. PICK p \in job[t].todo, complete \in BOOLEAN :
        /\ CleanUp(job[t].seen, p, complete)
        /\ job' = [job EXCEPT ![t] = [@ EXCEPT
              !.todo = job[t].todo \ {p},
              !.freed = job[t].freed \cup IF complete THEN {p} ELSE {}]]
  BY DEF RecoverOne
<1>2. registry' = registry /\ deleted' = deleted /\ confessed' = confessed /\ backend' = backend
  BY DEF RecoverOne, KeepRegistry, KeepRest
<1>3. RecoveryOf(t) /\ job[t].at = "recovering"
  BY DEF Tidy, RecoveryInv, RecoverOne
<1>4. p \in Personas /\ p \in Deleting(job[t].seen) /\ Doomed(p)
  BY <1>0, <1>1, <1>3 DEF RecoveryOf, Reading
<1>5. /\ Calm({}) /\ (complete => Bare(p)')
      /\ \A q \in Personas \ {p} : disk'[q] = disk[q]
  BY <1>0, <1>1, <1>2, <1>4, CleanedCalm DEF Tidy
<1>6. /\ \A u \in Threads \ {t} : job'[u] = job[u]
      /\ Alike(job'[t], job[t]) /\ job'[t].at = job[t].at /\ job'[t].seen = job[t].seen
      /\ job'[t].chosen = job[t].chosen
      /\ job'[t].todo = job[t].todo \ {p}
      /\ job'[t].freed = job[t].freed \cup IF complete THEN {p} ELSE {}
  BY <1>0, <1>1 DEF Rows, Alike
<1>7. RecoveryOf(t)'
  <2>1. \A q \in Personas : (Doomed(q) => Doomed(q)') /\ (Doomed(q) /\ Bare(q) => Bare(q)')
    BY <1>2, <1>5 DEF Calm, Doomed
  <2>2. Deleting(job[t].seen) \subseteq Personas
    BY DEF Deleting
  <2>3. \A q \in job'[t].freed : Bare(q)'
    <3> SUFFICES ASSUME NEW q \in job'[t].freed PROVE Bare(q)'
      OBVIOUS
    <3>1. CASE q \in job[t].freed
      BY <1>3, <2>1, <2>2, <3>1 DEF RecoveryOf, Reading
    <3>2. CASE q \notin job[t].freed
      BY <1>5, <1>6, <3>2
    <3> QED BY <3>1, <3>2
  <2>4. job'[t].todo \cup job'[t].freed \subseteq Deleting(job[t].seen)
    BY <1>3, <1>4, <1>6 DEF RecoveryOf, Reading
  <2>5. \A q \in Deleting(job'[t].seen) : Doomed(q)'
    BY <1>3, <1>6, <2>1, <2>2 DEF RecoveryOf, Reading
  <2> QED BY <1>6, <2>3, <2>4, <2>5 DEF RecoveryOf
<1> QED BY <1>2, <1>4, <1>5, <1>6, <1>7

LEMMA SeenMatches ==
  ASSUME RegistryTypeOK, RegistryTypeOK', DeletionInv, Calm({}), Matches(Me.seen), Me'.seen = Me.seen
  PROVE  Matches(Me.seen)'
<1>1. PICK r \in Registries : r = Me.seen
  BY MainType
<1>2. Matches(r)'
  BY <1>1, CalmWell DEF Matches
<1> QED BY <1>1, <1>2 DEF Matches, Same

LEMMA LoadKeeps ==
  ASSUME RegistryTypeOK, RegistryTypeOK', Tidy, ~overwritten, NEW t \in Threads, Load(t)
  PROVE  Tidy'
<1>1. Untouched /\ backend' = backend /\ registry' = registry
  BY DEF Load, KeepFiles, KeepRegistry, KeepRest, Untouched
<1>2. job \in [Threads -> Rows] /\ \A u \in Threads \ {t} : job'[u] = job[u]
  BY DEF Load, RegistryTypeOK, Return
<1>3. \/ Return(t)
      \/ /\ Alike(job'[t], job[t]) /\ job'[t].seen = registry
         /\ \/ job'[t].at = "projecting"
            \/ registry = NoRegistry /\ job'[t].at = job[t].after /\ job[t].op = "save"
  <2>0. job[t] \in Rows /\ job \in [Threads -> Rows]
    BY DEF RegistryTypeOK
  <2>1. CASE registry # NoRegistry
    <3> DEFINE s == [job[t] EXCEPT !.at = "projecting", !.seen = registry]
    <3>1. job' = [job EXCEPT ![t] = s]
      BY <2>1 DEF Load
    <3>2. Alike(s, job[t]) /\ s.at = "projecting" /\ s.seen = registry
      BY <2>0 DEF Rows, Alike
    <3> HIDE DEF s
    <3> QED BY <2>0, <3>1, <3>2
  <2>2. CASE registry = NoRegistry /\ job[t].op = "save"
    <3> DEFINE s == [job[t] EXCEPT !.at = job[t].after, !.seen = registry]
    <3>1. job' = [job EXCEPT ![t] = s]
      BY <2>2 DEF Load
    <3>2. Alike(s, job[t]) /\ s.at = job[t].after /\ s.seen = registry
      BY <2>0 DEF Rows, Alike
    <3> HIDE DEF s
    <3> QED BY <2>0, <2>2, <3>1, <3>2
  <2>3. CASE registry = NoRegistry /\ job[t].op # "save"
    BY <2>3 DEF Load
  <2> QED BY <2>1, <2>2, <2>3
<1>4. CASE Return(t)
  <2>1. job'[t] = Idle
    BY <1>2, <1>4 DEF Return
  <2>2. CASE t = "main"
    BY <1>1, <1>2, <2>1, <2>2, UntouchedKeeps, IdlePromises, MainType DEF Tidy, RecoveryInv, Threads
  <2>3. CASE t = "sync"
    <3>1. RecoveryOf("sync")'
      BY <2>1, <2>3 DEF RecoveryOf, Idle, Reading
    <3> QED BY <1>1, <1>2, <2>3, <3>1, MainType, SyncKeeps, UntouchedCalm DEF Me, Tidy, WellFormed, Ready
  <2> QED BY <2>2, <2>3 DEF Threads
<1>5. CASE ~Return(t)
  <2>1. job[t].op = "save" => job[t].after = "acting"
    BY DEF RegistryTypeOK, RowOK, Setting
  <2>2. RecoveryOf(t)'
    BY <1>1, <1>3, <1>5, <2>1 DEF RecoveryOf, Reading, Doomed, Deleting
  <2>3. CASE t = "sync"
    BY <1>1, <1>2, <2>2, <2>3, MainType, SyncKeeps, UntouchedCalm DEF Me, Tidy, WellFormed, Ready
  <2>4. CASE t = "main"
    <3>1. /\ Alike(Me', Me) /\ Me'.seen = registry
          /\ \/ Me'.at = "projecting"
             \/ registry = NoRegistry /\ Me'.at = "acting"
      <4>1. job["main"].op = "save" => job["main"].after = "acting"
        BY <2>1, <2>4
      <4>2. ~Return("main")
        BY <1>5, <2>4
      <4>3. /\ Alike(job'["main"], job["main"]) /\ job'["main"].seen = registry
            /\ \/ job'["main"].at = "projecting"
               \/ /\ registry = NoRegistry /\ job["main"].op = "save"
                  /\ job'["main"].at = job["main"].after
        BY <1>3, <2>4, <4>2
      <4>4. Alike(job'["main"], job["main"])
        BY <4>3
      <4>5. /\ job'["main"].seen = registry
            /\ \/ job'["main"].at = "projecting"
               \/ registry = NoRegistry /\ job'["main"].at = "acting"
        BY <4>1, <4>3
      <4> QED BY <4>4, <4>5 DEF Me, Alike
    <3>2. Plain(Me', Me)
      BY <2>4, <3>1 DEF Plain, Load, Me
    <3>3. SeenInv'
      <4>1. NoRegistry.state = [p \in Personas |-> "absent"]
        BY DEF NoRegistry
      <4> QED BY <1>1, <3>1, <4>1 DEF SeenInv, Matches, Same, WellFormed, Ready, Tidy
    <3>4. RecoveryOf("sync")'
      BY <1>1, <1>2, <2>4, UntouchedKeeps, MainType
    <3> QED BY <1>1, <2>2, <2>4, <3>2, <3>1, <3>3, <3>4, UntouchedKeeps DEF Tidy, RecoveryInv, Threads
  <2> QED BY <2>3, <2>4 DEF Threads
<1> QED BY <1>4, <1>5

(* What is left when a thread goes to undo its command, or ends.              *)
LEMMA FailsRow ==
  ASSUME RegistryTypeOK, StartFails("main") \/ LoadFails("main")
  PROVE  /\ job'["sync"] = job["sync"]
         /\ \/ Me' = Idle
            \/ Alike(Me', Me) /\ Me'.at = "undoing" /\ Me.op \in {"switch", "update", "settings"}
<1>1. job \in [Threads -> Rows] /\ Me = job["main"]
  BY DEF RegistryTypeOK, Me
<1>2. Me' = Idle \/ (Goto("main", "undoing") /\ Me.op \in {"switch", "update", "settings"})
  BY <1>1 DEF StartFails, LoadFails, Return, Threads, Me
<1>3. job'["sync"] = job["sync"]
  BY <1>1 DEF StartFails, LoadFails, Return, Goto, Threads
<1>4. Goto("main", "undoing") => Alike(Me', Me) /\ Me'.at = "undoing"
  BY <1>1 DEF Goto, Threads, Rows, Alike, Me
<1> QED BY <1>2, <1>3, <1>4

LEMMA FailsKeeps ==
  ASSUME RegistryTypeOK, RegistryTypeOK', Tidy, StartFails("main") \/ LoadFails("main"),
         Calm({}), backend' \in {None, backend}, registry'.active = registry.active,
         Me.op = "switch" /\ Me.at = "stopping" => backend' = None
  PROVE  SeenInv' /\ CommandInv' /\ RecoveryOf("main")'
<1>1. CASE Me' = Idle
  BY <1>1, IdlePromises DEF Me
<1>2. CASE Me' # Idle
  <2>1. Alike(Me', Me) /\ Me'.at = "undoing" /\ Me.op \in {"switch", "update", "settings"}
    BY <1>2, FailsRow
  <2>2. CommandInv'
    BY <2>1, CalmCommand DEF Alike, Plain, Tidy
  <2> QED BY <2>1, <2>2 DEF SeenInv, RecoveryOf, Reading, Me
<1> QED BY <1>1, <1>2

LEMMA SyncCalm ==
  ASSUME RegistryTypeOK, RegistryTypeOK', Tidy, Calm({}), job'["sync"] = job["sync"]
  PROVE  RecoveryOf("sync")'
BY MainType, CalmRecovery, SMTT(60) DEF Tidy, RecoveryInv

LEMMA ProjectKeeps ==
  ASSUME RegistryTypeOK, RegistryTypeOK', Tidy, ~overwritten, NEW t \in Threads, Project(t)
  PROVE  Tidy'
<1>1. Calm({}) /\ registry' = registry /\ backend' = backend /\ job[t].at = "projecting"
  BY ProjectCalm, ZenonT(60) DEF Project
<1>2. RecoveryOf(t) /\ DeletionInv /\ WellFormed(registry)'
  BY <1>1 DEF Tidy, RecoveryInv, WellFormed, Ready
<1>3. \A u \in Threads \ {t} : job'[u] = job[u]
  BY ProjectRow
<1>4. ASSUME ~LoadFails(t) PROVE RecoveryOf(t)'
  <2>1. \A q \in Personas : Doomed(q) => Doomed(q)'
    BY <1>1 DEF Calm, Doomed
  <2>2. \A q \in Deleting(job[t].seen) : q \in Personas /\ Doomed(q)
    BY <1>1, <1>2 DEF RecoveryOf, Reading, Deleting
  <2> QED BY <1>4, <2>1, <2>2, ProjectRow DEF RecoveryOf
<1>5. CASE t = "sync"
  <2>1. RecoveryOf("sync")'
    <3>1. LoadFails("sync") => job'["sync"].at = "idle" \/ job'["sync"].at = "undoing"
      <4>1. "sync" \in Threads /\ job \in [Threads -> Rows] /\ Idle.at = "idle"
        BY MainType DEF RegistryTypeOK, Idle
      <4> QED BY <4>1 DEF LoadFails, StartFails, Goto, Return, Rows
    <3> QED BY <1>4, <1>5, <3>1 DEF RecoveryOf, Reading
  <2> QED BY <1>1, <1>2, <1>3, <1>5, <2>1, MainType, SyncKeeps DEF Me
<1>6. CASE t = "main"
  <2>1. SeenInv' /\ CommandInv' /\ RecoveryOf("main")'
    <3>1. CASE LoadFails("main")
      <4>1. Me.at = "projecting"
        BY <1>1, <1>6 DEF Me
      <4> QED BY <1>1, <3>1, <4>1, FailsKeeps
    <3>2. CASE ~LoadFails("main")
      <4>1. /\ Alike(Me', Me) /\ Me'.at = "recovering" /\ Me'.seen = Me.seen /\ Me.at = "projecting"
            /\ \A q \in Listed(Me.seen) \ Deleting(Me.seen) : disk'[q].config # None
        BY <1>1, <1>6, <3>2, ProjectRow DEF Me
      <4>2. CommandInv'
        BY <1>1, <4>1, CalmCommand DEF Plain, Tidy
      <4>3. SeenInv'
        <5>1. Matches(Me.seen) /\ WellFormed(Me.seen) /\ Me.seen.active = registry.active
          BY <4>1 DEF Tidy, SeenInv, Reading
        <5>2. Matches(Me.seen)'
          BY <1>1, <1>2, <4>1, <5>1, SeenMatches
        <5>3. \A q \in Personas : Me.seen.state[q] \in {"ready", "provisioning"} => disk'[q].config # None
          BY <4>1 DEF Listed, Deleting
        <5> QED BY <1>1, <4>1, <5>1, <5>2, <5>3 DEF SeenInv, WellFormed
      <4> QED BY <1>4, <1>6, <3>2, <4>2, <4>3
    <3> QED BY <3>1, <3>2
  <2>2. RecoveryOf("sync")'
    BY <1>1, <1>3, <1>6, SyncCalm, MainType
  <2>3. DeletionInv' /\ ReadyIsWhole' /\ ServesActive'
    BY <1>1, <1>2, CalmDeletion, CalmReady, CalmServes DEF Tidy
  <2> QED BY <1>2, <2>1, <2>2, <2>3 DEF Tidy, RecoveryInv, Threads
<1> QED BY <1>5, <1>6 DEF Threads

LEMMA RecoverOneKeeps ==
  ASSUME RegistryTypeOK, RegistryTypeOK', Tidy, ~overwritten, NEW t \in Threads, RecoverOne(t)
  PROVE  Tidy'
<1>1. /\ Calm({}) /\ registry' = registry /\ backend' = backend
      /\ \A u \in Threads \ {t} : job'[u] = job[u]
      /\ Alike(job'[t], job[t]) /\ job'[t].at = job[t].at /\ job'[t].seen = job[t].seen
      /\ job'[t].chosen = job[t].chosen
      /\ RecoveryOf(t)'
  BY RecoverOneFacts
<1>2. DeletionInv /\ WellFormed(registry)'
  BY <1>1 DEF Tidy, WellFormed, Ready
<1>3. CASE t = "sync"
  BY <1>1, <1>2, <1>3, MainType, SyncKeeps DEF Me
<1>4. CASE t = "main"
  <2>1. /\ Alike(Me', Me) /\ Me'.at = Me.at /\ Me'.seen = Me.seen /\ Me'.chosen = Me.chosen
        /\ Me.at = "recovering"
    BY <1>1, <1>4 DEF Me, RecoverOne
  <2>2. CommandInv'
    BY <1>1, <2>1, CalmCommand DEF Plain, Tidy
  <2>3. SeenInv'
    <3>1. Matches(Me.seen) /\ WellFormed(Me.seen) /\ Me.seen.active = registry.active
      BY <2>1 DEF Tidy, SeenInv, Reading
    <3>2. Matches(Me.seen)'
      BY <1>1, <1>2, <2>1, <3>1, SeenMatches
    <3>3. ASSUME NEW q \in Personas, Me.seen.state[q] \in {"ready", "provisioning"}
          PROVE  disk'[q].config # None
      <4>1. disk[q].config # None /\ Same(q, Me.seen.state[q])
        BY <2>1, <3>1, <3>3 DEF Tidy, SeenInv, Matches
      <4>2. ~Doomed(q)
        BY <1>2, <3>3, <4>1 DEF Same, Gone, Doomed, Tidy, DeletionInv
      <4> QED BY <4>1, <4>2, RecoverOneFacts
    <3> QED BY <1>1, <2>1, <3>1, <3>2, <3>3 DEF SeenInv, WellFormed
  <2>4. RecoveryOf("sync")'
    BY <1>1, <1>4, SyncCalm, MainType
  <2>5. DeletionInv' /\ ReadyIsWhole' /\ ServesActive'
    BY <1>1, <1>2, CalmDeletion, CalmReady, CalmServes DEF Tidy
  <2> QED BY <1>1, <1>2, <1>4, <2>2, <2>3, <2>4, <2>5 DEF Tidy, RecoveryInv, Threads
<1> QED BY <1>3, <1>4 DEF Threads

LEMMA RecoverSaveCalm ==
  ASSUME RegistryTypeOK, Tidy, NEW t \in Threads, job[t].at = "recovering",
         registry' = Without(job[t].seen, job[t].freed), deleted' = deleted \cup job[t].freed,
         UNCHANGED <<disk, confessed>>,
         t = "main" \/ registry = job[t].seen
  PROVE  /\ Calm({}) /\ WellFormed(registry)' /\ registry'.active = registry.active
         /\ \A q \in Personas : registry'.state[q] = "absent" \/ registry'.state[q] = job[t].seen.state[q]
<1> DEFINE r == job[t].seen
<1>1. r \in Saved /\ job[t].freed \in SUBSET Personas /\ r.active \in Personas
  BY DEF RegistryTypeOK, Rows, RowOK, Reading
<1>2. /\ registry'.active = r.active
      /\ \A q \in Personas : registry'.state[q] = IF q \in job[t].freed THEN "absent" ELSE r.state[q]
  BY <1>1, WithoutType
<1>3. \A q \in job[t].freed : q \in Personas /\ r.state[q] = "deleting" /\ Doomed(q) /\ Bare(q)
  BY DEF Tidy, RecoveryInv, RecoveryOf, Reading, Deleting
<1>4. Matches(r) /\ WellFormed(r) /\ r.active = registry.active
  <2>1. CASE t = "main"
    BY <2>1 DEF Tidy, SeenInv, Reading, Me
  <2>2. CASE registry = r
    BY <2>2 DEF Tidy, Matches, Same
  <2> QED BY <2>1, <2>2
<1>5. WellFormed(registry)'
  <2>1. r # NoRegistry
    BY <1>1, RegistryAssumption DEF NoRegistry
  <2>2. r.state[r.active] = "ready" /\ r.active \in Personas
    BY <1>4, <2>1 DEF WellFormed, Ready
  <2>3. registry'.state[registry'.active] = "ready"
    BY <1>2, <1>3, <2>2
  <2> QED BY <1>2, <2>2, <2>3 DEF WellFormed, Ready
<1>6. \A q \in Personas : \/ registry'.state[q] = registry.state[q]
                          \/ q \in deleted' /\ registry.state[q] \in Gone /\ registry'.state[q] \in Gone
  <2> SUFFICES ASSUME NEW q \in Personas
               PROVE  \/ registry'.state[q] = registry.state[q]
                      \/ q \in deleted' /\ registry.state[q] \in Gone /\ registry'.state[q] \in Gone
    OBVIOUS
  <2>1. Same(q, r.state[q]) /\ (q \in deleted => registry.state[q] \in Gone)
    BY <1>4 DEF Matches, Tidy, DeletionInv
  <2>2. CASE q \in job[t].freed
    BY <1>2, <1>3, <2>1, <2>2 DEF Same, Gone
  <2>3. CASE q \notin job[t].freed
    BY <1>2, <2>1, <2>3 DEF Same
  <2> QED BY <2>2, <2>3
<1>7. \A q \in Personas : (Bare(q) => Bare(q)') /\ (Named(q) => Named(q)')
  BY DEF Bare, Named
<1>8. \A q \in deleted' \ deleted : Doomed(q) /\ Bare(q)
  BY <1>3
<1>9. deleted \subseteq deleted' /\ confessed' = confessed /\ disk' = disk
  OBVIOUS
<1>10. Calm({})
  BY <1>6, <1>7, <1>8, <1>9 DEF Calm
<1> QED BY <1>2, <1>4, <1>5, <1>10

LEMMA RecoverSaveKeeps ==
  ASSUME RegistryTypeOK, RegistryTypeOK', Tidy, ~overwritten, ~overwritten',
         NEW t \in Threads, RecoverSave(t)
  PROVE  Tidy'
<1>0. job[t] \in Rows /\ job \in [Threads -> Rows] /\ job[t].at = "recovering"
  BY DEF RegistryTypeOK, RecoverSave
<1>1. UNCHANGED <<disk, global, backend, confessed>>
  BY DEF RecoverSave, KeepFiles
<1>2. \/ /\ UNCHANGED <<registry, deleted>>
         /\ \A u \in Threads \ {t} : job'[u] = job[u]
         /\ Alike(job'[t], job[t]) /\ job'[t].at = job[t].after /\ job'[t].seen = job[t].seen
      \/ /\ registry' = Without(job[t].seen, job[t].freed) /\ deleted' = deleted \cup job[t].freed
         /\ t = "main" \/ registry = job[t].seen
         /\ \A u \in Threads \ {t} : job'[u] = job[u]
         /\ Alike(job'[t], job[t]) /\ job'[t].at = job[t].after /\ job'[t].seen = registry'
  <2>1. CASE Goto(t, job[t].after) /\ KeepRegistry /\ UNCHANGED deleted
    BY <1>0, <2>1 DEF Goto, Rows, Alike, KeepRegistry
  <2>2. CASE /\ registry' = Without(job[t].seen, job[t].freed)
             /\ overwritten' = (overwritten \/ (t = "sync" /\ registry # job[t].seen))
             /\ deleted' = deleted \cup job[t].freed
             /\ job' = [job EXCEPT ![t] = [@ EXCEPT !.at = job[t].after,
                          !.seen = Without(job[t].seen, job[t].freed)]]
    <3>1. PICK r : r = Without(job[t].seen, job[t].freed)
      OBVIOUS
    <3> DEFINE s == [job[t] EXCEPT !.at = job[t].after, !.seen = r]
    <3>2. job' = [job EXCEPT ![t] = s]
      BY <2>2, <3>1
    <3>3. Alike(s, job[t]) /\ s.at = job[t].after /\ s.seen = r
      BY <1>0 DEF Rows, Alike
    <3> HIDE DEF s
    <3>4. job'[t] = s /\ \A u \in Threads \ {t} : job'[u] = job[u]
      BY <1>0, <3>2
    <3> QED BY <2>2, <3>1, <3>3, <3>4 DEF Threads
  <2> QED BY <2>1, <2>2 DEF RecoverSave
<1>3. /\ Calm({}) /\ WellFormed(registry)' /\ registry'.active = registry.active
      /\ \A q \in Personas : \/ registry'.state[q] = "absent"
                             \/ registry'.state[q] = job[t].seen.state[q]
                             \/ registry' = registry
  <2>1. CASE UNCHANGED <<registry, deleted>>
    BY <1>1, <2>1, UntouchedCalm DEF Untouched, WellFormed, Ready, Tidy
  <2>2. CASE /\ registry' = Without(job[t].seen, job[t].freed) /\ deleted' = deleted \cup job[t].freed
             /\ t = "main" \/ registry = job[t].seen
    BY <1>0, <1>1, <2>2, RecoverSaveCalm
  <2> QED BY <1>2, <2>1, <2>2
<1>4. /\ \A u \in Threads \ {t} : job'[u] = job[u]
      /\ Alike(job'[t], job[t]) /\ job'[t].at = job[t].after
      /\ job[t].after \in {"idle", "acting", "completing", "choosing"}
  BY <1>0, <1>2 DEF Rows
<1>5. RecoveryOf(t)'
  BY <1>4 DEF RecoveryOf, Reading
<1>6. CASE t = "sync"
  BY <1>1, <1>3, <1>4, <1>5, <1>6, MainType, SyncKeeps DEF Me
<1>7. CASE t = "main"
  <2>1. /\ Alike(Me', Me) /\ Me'.at = Me.after /\ Me.at = "recovering"
        /\ Me.after \in {"idle", "acting", "completing", "choosing"}
    BY <1>0, <1>4, <1>7 DEF Me, Alike
  <2>2. CommandInv'
    BY <1>1, <1>3, <2>1, CalmCommand DEF Plain, Tidy
  <2>3. SeenInv'
    <3>1. Matches(Me.seen) /\ WellFormed(Me.seen) /\ Me.seen.active = registry.active
      BY <2>1 DEF Tidy, SeenInv, Reading
    <3>2. \A q \in Personas : Me.seen.state[q] \in {"ready", "provisioning"} => disk'[q].config # None
      BY <1>1, <2>1 DEF Tidy, SeenInv
    <3>3. CASE registry' = registry /\ Me'.seen = Me.seen
      <4>1. Matches(Me.seen)'
        BY <1>3, <3>1, <3>3, SeenMatches DEF Tidy
      <4> QED BY <2>1, <3>1, <3>2, <3>3, <4>1 DEF SeenInv, WellFormed
    <3>4. CASE Me'.seen = registry'
      <4>1. ASSUME NEW q \in Personas, registry'.state[q] \in {"ready", "provisioning"}
            PROVE  disk'[q].config # None
        <5>1. CASE registry'.state[q] = job[t].seen.state[q]
          BY <1>7, <3>2, <4>1, <5>1 DEF Me
        <5>2. CASE registry' = registry
          <6>1. Same(q, Me.seen.state[q]) /\ (q \in deleted => registry.state[q] \in Gone)
            BY <3>1 DEF Matches, Tidy, DeletionInv
          <6> QED BY <3>2, <4>1, <5>2, <6>1 DEF Same, Gone
        <5> QED BY <1>3, <4>1, <5>1, <5>2
      <4> QED BY <1>3, <2>1, <3>4, <4>1 DEF SeenInv, Matches, Same
    <3> QED BY <1>2, <1>7, <3>3, <3>4 DEF Me
  <2>4. RecoveryOf("sync")'
    BY <1>3, <1>4, <1>7, SyncCalm, MainType
  <2>5. DeletionInv' /\ ReadyIsWhole' /\ ServesActive'
    BY <1>1, <1>3, CalmDeletion, CalmReady, CalmServes DEF Tidy
  <2> QED BY <1>3, <1>5, <1>7, <2>2, <2>3, <2>4, <2>5 DEF Tidy, RecoveryInv, Threads
<1> QED BY <1>6, <1>7 DEF Threads

LEMMA ReadOnlyKeeps ==
  ASSUME RegistryTypeOK, RegistryTypeOK', Tidy, ~overwritten, NEW t \in Threads, ReadOnly(t)
  PROVE  Tidy'
<1>1. Untouched /\ backend' = backend /\ registry' = registry
  BY DEF ReadOnly, KeepFiles, KeepRegistry, KeepRest, Untouched
<1>2. job'[t] = Idle /\ \A u \in Threads \ {t} : job'[u] = job[u]
  BY DEF ReadOnly, RegistryTypeOK, Return
<1>3. RecoveryOf(t)'
  BY <1>2 DEF RecoveryOf, Idle, Reading
<1>4. CASE t = "main"
  BY <1>1, <1>2, <1>4, UntouchedKeeps, IdlePromises, MainType DEF Tidy, RecoveryInv, Threads
<1>5. CASE t = "sync"
  BY <1>1, <1>2, <1>3, <1>5, MainType, SyncKeeps, UntouchedCalm DEF Me, Tidy, WellFormed, Ready
<1> QED BY <1>4, <1>5 DEF Threads

LEMMA OthersKeep ==
  ASSUME RegistryTypeOK, RegistryTypeOK', Tidy, ~overwritten, CallSync \/ Crash \/ BackendDies \/ Refuse
  PROVE  Tidy'
<1>1. CASE CallSync
  <2>1. Untouched /\ backend' = backend /\ registry' = registry
    BY <1>1 DEF CallSync, KeepFiles, KeepRegistry, KeepRest, Untouched
  <2>2. Me' = Me /\ job'["sync"].at = "loading"
    BY <1>1, MainType DEF CallSync, Me, RegistryTypeOK, Threads, Idle
  <2>3. RecoveryOf("sync")'
    BY <2>2 DEF RecoveryOf, Reading
  <2> QED BY <2>1, <2>2, <2>3, SyncKeeps, UntouchedCalm DEF Tidy, WellFormed, Ready
<1>2. CASE Crash
  <2>1. Untouched /\ backend' = None /\ registry' = registry
    BY <1>2 DEF Crash, KeepFiles, KeepRegistry, Untouched
  <2>2. job'["main"] = StartUp /\ job'["sync"] = Idle
    BY <1>2 DEF Crash, Threads
  <2>3. RecoveryOf("sync")'
    BY <2>2 DEF RecoveryOf, Reading, Idle
  <2> QED BY <2>1, <2>2, <2>3, UntouchedKeeps, IdlePromises DEF Tidy, RecoveryInv, Threads
<1>3. CASE BackendDies
  <2>1. Untouched /\ backend' = None /\ registry' = registry /\ job' = job
    BY <1>3 DEF BackendDies, KeepFiles, KeepRegistry, Untouched
  <2>2. Me' = Me /\ RecoveryOf("sync")'
    BY <2>1, MainType, UntouchedKeeps DEF Me
  <2> QED BY <2>1, <2>2, SyncKeeps, UntouchedCalm DEF Tidy, WellFormed, Ready
<1>4. CASE Refuse
  <2>1. Untouched /\ backend' = backend /\ registry' = registry
    BY <1>4 DEF Refuse, KeepFiles, KeepRegistry, KeepRest, Untouched
  <2>2. job'["main"] = Idle /\ job'["sync"] = job["sync"]
    BY <1>4 DEF Refuse, Return, RegistryTypeOK, Threads
  <2> QED BY <2>1, <2>2, UntouchedKeeps, IdlePromises, MainType DEF Tidy, RecoveryInv, Threads
<1> QED BY <1>1, <1>2, <1>3, <1>4

-----------------------------------------------------------------------------
(* start_sidecar and stop_sidecar.                                            *)

(* A step of the main thread that touches no file and no registry.            *)
LEMMA MainKeeps ==
  ASSUME RegistryTypeOK, RegistryTypeOK', Tidy, ~overwritten, Untouched,
         job'["sync"] = job["sync"], SeenInv', CommandInv', RecoveryOf("main")', ServesActive'
  PROVE  Tidy'
<1>1. Calm({}) /\ registry' = registry
  BY UntouchedCalm DEF Untouched
<1>2. DeletionInv' /\ ReadyIsWhole' /\ WellFormed(registry)'
  BY <1>1, CalmDeletion, CalmReady DEF Tidy, WellFormed, Ready
<1>3. RecoveryOf("sync")'
  BY <1>1, SyncCalm
<1> QED BY <1>2, <1>3 DEF Tidy, RecoveryInv, Threads

LEMMA StartFailsKeeps ==
  ASSUME RegistryTypeOK, RegistryTypeOK', Tidy, ~overwritten, Untouched, backend' = backend,
         Me.at # "stopping", StartFails("main")
  PROVE  Tidy'
<1>1. SeenInv' /\ CommandInv' /\ RecoveryOf("main")'
  BY FailsKeeps, UntouchedCalm DEF Untouched
<1>2. ServesActive' /\ job'["sync"] = job["sync"]
  BY FailsRow DEF Tidy, ServesActive, Untouched
<1> QED BY <1>1, <1>2, MainKeeps

LEMMA ReturnKeeps ==
  ASSUME RegistryTypeOK, RegistryTypeOK', Tidy, ~overwritten, Untouched, ServesActive', Return("main")
  PROVE  Tidy'
<1>1. job'["main"] = Idle /\ job'["sync"] = job["sync"]
  BY DEF Return, RegistryTypeOK, Threads
<1> QED BY <1>1, IdlePromises, MainKeeps

LEMMA StartKeeps ==
  ASSUME RegistryTypeOK, RegistryTypeOK', Tidy, ~overwritten, Start PROVE Tidy'
<1>1. Untouched /\ backend' = backend /\ registry' = registry /\ Me.at = "starting"
  BY DEF Start, KeepFiles, KeepRegistry, KeepRest, Untouched, Me
<1>2. ServesActive'
  BY <1>1 DEF Tidy, ServesActive
<1>3. CASE StartFails("main")
  BY <1>1, <1>3, StartFailsKeeps
<1>4. CASE Return("main")
  BY <1>1, <1>2, <1>4, ReturnKeeps
<1>5. CASE job' = [job EXCEPT !["main"] = [@ EXCEPT !.at = "loading", !.after = "completing"]]
  <2>1. Me = job["main"] /\ Me \in Rows /\ job \in [Threads -> Rows] /\ "main" \in Threads
    BY MainType DEF RegistryTypeOK
  <2>2. Alike(Me', Me) /\ Me'.at = "loading" /\ job'["sync"] = job["sync"]
    BY <1>5, <2>1 DEF Rows, Alike, Me
  <2>3. CommandInv'
    BY <1>1, <2>2, UntouchedKeeps DEF Plain
  <2>4. SeenInv' /\ RecoveryOf("main")'
    BY <2>2 DEF SeenInv, RecoveryOf, Reading, Me
  <2> QED BY <1>1, <1>2, <2>2, <2>3, <2>4, MainKeeps
<1> QED BY <1>3, <1>4, <1>5 DEF Start

LEMMA CompleteKeeps ==
  ASSUME RegistryTypeOK, RegistryTypeOK', Tidy, ~overwritten, Complete PROVE Tidy'
<1>1. Untouched /\ backend' = backend /\ registry' = registry /\ Me.at = "completing"
  BY DEF Complete, KeepFiles, KeepRegistry, KeepRest, Untouched, Me
<1>2. ServesActive'
  BY <1>1 DEF Tidy, ServesActive
<1>3. CASE StartFails("main")
  BY <1>1, <1>3, StartFailsKeeps
<1>4. CASE job' = [job EXCEPT !["main"] = [@ EXCEPT !.at = "loading", !.after = "choosing"]]
  <2>1. Me = job["main"] /\ Me \in Rows /\ job \in [Threads -> Rows] /\ "main" \in Threads
    BY MainType DEF RegistryTypeOK
  <2>2. Alike(Me', Me) /\ Me'.at = "loading" /\ job'["sync"] = job["sync"]
    BY <1>4, <2>1 DEF Rows, Alike, Me
  <2>3. CommandInv'
    BY <1>1, <2>2, UntouchedKeeps DEF Plain
  <2>4. SeenInv' /\ RecoveryOf("main")'
    BY <2>2 DEF SeenInv, RecoveryOf, Reading, Me
  <2> QED BY <1>1, <1>2, <2>2, <2>3, <2>4, MainKeeps
<1> QED BY <1>3, <1>4 DEF Complete

LEMMA ChooseKeeps ==
  ASSUME RegistryTypeOK, RegistryTypeOK', Tidy, ~overwritten, Choose PROVE Tidy'
<1>1. Untouched /\ backend' = backend /\ registry' = registry /\ Me.at = "choosing"
  BY DEF Choose, KeepFiles, KeepRegistry, KeepRest, Untouched, Me
<1>2. ServesActive'
  BY <1>1 DEF Tidy, ServesActive
<1>3. CASE StartFails("main")
  BY <1>1, <1>3, StartFailsKeeps
<1>4. CASE job' = [job EXCEPT !["main"] = [@ EXCEPT !.at = "launching", !.chosen = Me.seen.active]]
  <2>1. Me = job["main"] /\ Me \in Rows /\ job \in [Threads -> Rows] /\ "main" \in Threads
    BY MainType DEF RegistryTypeOK
  <2>2. /\ Alike(Me', Me) /\ Me'.at = "launching" /\ job'["sync"] = job["sync"]
        /\ Me'.chosen = Me.seen.active
    BY <1>4, <2>1 DEF Rows, Alike, Me
  <2>3. CommandInv'
    BY <1>1, <2>2, UntouchedKeeps DEF Plain
  <2>4. Me.seen.active = registry.active
    BY <1>1 DEF Tidy, SeenInv
  <2>5. SeenInv' /\ RecoveryOf("main")'
    BY <1>1, <2>2, <2>4 DEF SeenInv, RecoveryOf, Reading, Me
  <2> QED BY <1>1, <1>2, <2>2, <2>3, <2>5, MainKeeps
<1> QED BY <1>3, <1>4 DEF Choose, Me

LEMMA LaunchKeeps ==
  ASSUME RegistryTypeOK, RegistryTypeOK', Tidy, ~overwritten, Launch PROVE Tidy'
<1>1. Untouched /\ registry' = registry /\ Me.at = "launching"
  BY DEF Launch, KeepFiles, KeepRegistry, Untouched, Me
<1>2. CASE backend' = job["main"].chosen /\ Return("main")
  <2>1. ServesActive'
    BY <1>1, <1>2 DEF Tidy, SeenInv, ServesActive, Me
  <2> QED BY <1>1, <1>2, <2>1, ReturnKeeps
<1>3. CASE StartFails("main") /\ backend' = backend
  BY <1>1, <1>3, StartFailsKeeps
<1> QED BY <1>2, <1>3 DEF Launch

LEMMA StopKeeps ==
  ASSUME RegistryTypeOK, RegistryTypeOK', Tidy, ~overwritten, Stop PROVE Tidy'
<1>1. Untouched /\ backend' = None /\ registry' = registry /\ Me.at = "stopping"
  BY DEF Stop, KeepFiles, KeepRegistry, Untouched, Me
<1>2. ServesActive'
  BY <1>1 DEF ServesActive
<1>3. CASE Return("main")
  BY <1>1, <1>2, <1>3, ReturnKeeps
<1>4. CASE Goto("main", IF Me.op = "switch" THEN "saving" ELSE "starting")
  <2>1. Me = job["main"] /\ Me \in Rows /\ job \in [Threads -> Rows] /\ "main" \in Threads
    BY MainType DEF RegistryTypeOK
  <2>2. /\ Alike(Me', Me) /\ Me'.at = (IF Me.op = "switch" THEN "saving" ELSE "starting")
        /\ job'["sync"] = job["sync"]
    BY <1>4, <2>1 DEF Rows, Alike, Me, Goto
  <2>3. CommandInv'
    BY <1>1, <2>2, UntouchedKeeps DEF Plain, Alike
  <2>4. SeenInv' /\ RecoveryOf("main")'
    BY <2>2 DEF SeenInv, RecoveryOf, Reading, Me
  <2> QED BY <1>1, <1>2, <2>2, <2>3, <2>4, MainKeeps
<1> QED BY <1>3, <1>4 DEF Stop, Me

-----------------------------------------------------------------------------
(* The commands.                                                              *)

LEMMA BeginFacts ==
  ASSUME RegistryTypeOK, NEW at, NEW r, Begin(at, r)
  PROVE  /\ Untouched /\ backend' = backend /\ registry' = registry /\ disk' = disk
         /\ deleted' = deleted
         /\ job'["sync"] = job["sync"]
         /\ Me'.at = at /\ Me'.op = Me.op /\ Me'.p = Me.p /\ Me'.reg = r /\ Me'.was = Me.seen
         /\ Me'.step = 1 /\ Me'.kept = disk[Me.p]
<1>1. Me = job["main"] /\ Me \in Rows /\ job \in [Threads -> Rows] /\ "main" \in Threads /\ "sync" \in Threads
  BY MainType DEF RegistryTypeOK
<1> DEFINE s == [job["main"] EXCEPT !.at = at, !.reg = r, !.was = Me.seen, !.step = 1,
                   !.seen = NoRegistry, !.kept = disk[Me.p], !.keptGlobal = global]
<1>2. job' = [job EXCEPT !["main"] = s]
  BY DEF Begin
<1>3. /\ s.at = at /\ s.op = Me.op /\ s.p = Me.p /\ s.reg = r /\ s.was = Me.seen
      /\ s.step = 1 /\ s.kept = disk[Me.p]
  BY <1>1 DEF Rows
<1>4. Me' = s /\ job'["sync"] = job["sync"]
  <2> HIDE DEF s
  <2> QED BY <1>1, <1>2 DEF Me
<1> HIDE DEF s
<1> QED BY <1>3, <1>4 DEF Begin, KeepFiles, KeepRegistry, KeepRest, Untouched

LEMMA ActingSees ==
  ASSUME RegistryTypeOK, Tidy, Me.at = "acting"
  PROVE  /\ Matches(Me.seen) /\ WellFormed(Me.seen) /\ Me.seen.active = registry.active
         /\ \A q \in Personas : Me.seen.state[q] \in {"ready", "provisioning"} =>
              /\ disk[q].config # None /\ registry.state[q] = Me.seen.state[q] /\ q \notin deleted
<1>1. /\ Matches(Me.seen) /\ WellFormed(Me.seen) /\ Me.seen.active = registry.active
      /\ \A q \in Personas : Me.seen.state[q] \in {"ready", "provisioning"} => disk[q].config # None
      /\ \A q \in deleted : registry.state[q] \in Gone
  BY DEF Tidy, SeenInv, DeletionInv
<1> QED BY <1>1 DEF Matches, Same, Gone

LEMMA RenderBegins ==
  ASSUME RegistryTypeOK, RegistryTypeOK', Tidy, ~overwritten,
         NEW at \in {"stopping", "writing", "drawing"}, NEW r \in Registries, Begin(at, r),
         Me.at = "acting", Me.op \in Renders, r.state = Me.seen.state,
         Me.op # "switch" => r.active = Me.seen.active,
         Me.op = "switch" => at = "stopping" /\ r.active = Me.p,
         Me.op = "update" => disk[Me.p].config # None
  PROVE  Tidy'
<1>1. /\ Untouched /\ backend' = backend /\ registry' = registry /\ disk' = disk
      /\ deleted' = deleted
      /\ job'["sync"] = job["sync"]
      /\ Me'.at = at /\ Me'.op = Me.op /\ Me'.p = Me.p /\ Me'.reg = r /\ Me'.was = Me.seen
      /\ Me'.step = 1 /\ Me'.kept = disk[Me.p]
  BY BeginFacts
<1>2. Matches(Me.seen) /\ WellFormed(Me.seen) /\ Me.seen.active = registry.active
  BY ActingSees
<1>3. SubjectInv /\ Me.op \in {"switch", "update", "settings", "avatar"}
  BY DEF Tidy, CommandInv, Renders
<1>4. SubjectInv'
  BY <1>1, <1>3 DEF SubjectInv, Ready
<1>5. RenderInv'
  <2>1. Matches(Me.was)'
    BY <1>1, <1>2 DEF Matches, Same
  <2> QED BY <1>1, <1>2, <2>1 DEF RenderInv, WellFormed
<1>6. SwitchInv' /\ DeleteInv' /\ CreateInv' /\ SetupInv'
  BY <1>1, <1>3 DEF SwitchInv, DeleteInv, CreateInv, SetupInv
<1>7. SeenInv' /\ RecoveryOf("main")'
  <2>1. Me'.at \in {"stopping", "writing", "drawing"}
    BY <1>1
  <2> QED BY <2>1 DEF SeenInv, RecoveryOf, Reading, Me
<1>8. ServesActive'
  BY <1>1 DEF Tidy, ServesActive
<1> QED BY <1>1, <1>4, <1>5, <1>6, <1>7, <1>8, MainKeeps DEF CommandInv

LEMMA RendersBegin ==
  ASSUME RegistryTypeOK, RegistryTypeOK', Tidy, ~overwritten,
         SwitchBegin \/ UpdateBegin \/ SettingsBegin \/ AvatarBegin
  PROVE  Tidy'
<1>0. Me.seen \in Registries /\ Me.at = "acting" /\ Me.op \in Renders /\ Me.p \in Personas
  BY MainType DEF SwitchBegin, UpdateBegin, SettingsBegin, AvatarBegin, Acting, Renders
<1>1. CASE Refuse
  BY <1>1, OthersKeep
<1>2. CASE SwitchBegin /\ ~Refuse
  <2>1. /\ [Me.seen EXCEPT !.active = Me.p] \in Registries
        /\ [Me.seen EXCEPT !.active = Me.p].active = Me.p
        /\ [Me.seen EXCEPT !.active = Me.p].state = Me.seen.state
    BY <1>0 DEF Registries
  <2> QED BY <1>0, <1>2, <2>1, RenderBegins DEF SwitchBegin, Acting
<1>3. CASE UpdateBegin /\ ~Refuse
  <2>1. Me.arg \in Names
    BY <1>3, MainType DEF UpdateBegin, Acting, RowOK
  <2>2. /\ [Me.seen EXCEPT !.name[Me.p] = Me.arg] \in Registries
        /\ [Me.seen EXCEPT !.name[Me.p] = Me.arg].active = Me.seen.active
        /\ [Me.seen EXCEPT !.name[Me.p] = Me.arg].state = Me.seen.state
    BY <1>0, <2>1 DEF Registries
  <2> QED BY <1>0, <1>3, <2>2, RenderBegins DEF UpdateBegin, Acting
<1>4. CASE SettingsBegin /\ ~Refuse
  BY <1>0, <1>4, RenderBegins DEF SettingsBegin, Acting
<1>5. CASE AvatarBegin /\ ~Refuse
  <2>1. Me.arg \in Formats \cup {None}
    BY <1>5, MainType DEF AvatarBegin, Acting, RowOK
  <2>2. /\ [Me.seen EXCEPT !.avatar[Me.p] = Me.arg] \in Registries
        /\ [Me.seen EXCEPT !.avatar[Me.p] = Me.arg].active = Me.seen.active
        /\ [Me.seen EXCEPT !.avatar[Me.p] = Me.arg].state = Me.seen.state
    BY <1>0, <2>1 DEF Registries
  <2> QED BY <1>0, <1>5, <2>2, RenderBegins DEF AvatarBegin, Acting
<1> QED BY <1>1, <1>2, <1>3, <1>4, <1>5

LEMMA DeleteBegins ==
  ASSUME RegistryTypeOK, RegistryTypeOK', Tidy, ~overwritten, DeleteBegin PROVE Tidy'
<1> DEFINE r == [Me.seen EXCEPT !.state[Me.p] = "deleting"]
<1>0. Me.seen \in Registries /\ Me.at = "acting" /\ Me.op = "delete" /\ Me.p \in Personas
  BY MainType DEF DeleteBegin, Acting
<1>1. CASE Refuse
  BY <1>1, OthersKeep
<1>2. CASE ~Refuse
  <2>1. Begin("marking", r) /\ Me.seen.active # Me.p /\ Me.seen.state[Me.p] = "ready"
    BY <1>2 DEF DeleteBegin, Ready
  <2>2. /\ r.state[Me.p] = "deleting" /\ r.active = Me.seen.active
        /\ \A q \in Personas \ {Me.p} : r.state[q] = Me.seen.state[q]
    BY <1>0 DEF Registries
  <2> HIDE DEF r
  <2>3. /\ Untouched /\ backend' = backend /\ registry' = registry /\ disk' = disk
        /\ deleted' = deleted
        /\ job'["sync"] = job["sync"]
        /\ Me'.at = "marking" /\ Me'.op = Me.op /\ Me'.p = Me.p /\ Me'.reg = r
        /\ Me'.step = 1
    BY <2>1, BeginFacts
  <2>4. /\ Matches(Me.seen) /\ WellFormed(Me.seen) /\ Me.seen.active = registry.active
        /\ disk[Me.p].config # None /\ registry.state[Me.p] = "ready"
    BY <1>0, <2>1, ActingSees
  <2>5. SubjectInv'
    BY <1>0, <2>3, <2>4 DEF SubjectInv, Ready
  <2>6. DeleteInv'
    <3>1. MatchesBut(Me.reg, Me.p)'
      BY <2>2, <2>3, <2>4 DEF Matches, MatchesBut, Same
    <3>2. Me.seen # NoRegistry
      BY <1>0, <2>1 DEF NoRegistry
    <3>3. r.active \in Personas /\ r.state[r.active] = "ready"
      BY <2>1, <2>2, <2>4, <3>2 DEF WellFormed, Ready
    <3>4. WellFormed(Me.reg)'
      BY <2>3, <3>3 DEF WellFormed, Ready
    <3> QED BY <1>0, <2>2, <2>3, <2>4, <3>1, <3>4 DEF DeleteInv
  <2>7. RenderInv' /\ SwitchInv' /\ CreateInv' /\ SetupInv'
    BY <1>0, <2>3 DEF SwitchInv, RenderInv, CreateInv, SetupInv, Renders
  <2>8. SeenInv' /\ RecoveryOf("main")'
    BY <2>3 DEF SeenInv, RecoveryOf, Reading, Me
  <2>9. ServesActive'
    BY <2>3 DEF Tidy, ServesActive
  <2> QED BY <2>3, <2>5, <2>6, <2>7, <2>8, <2>9, MainKeeps DEF CommandInv
<1> QED BY <1>1, <1>2

(* A command given: nothing is known of it but its subject.                   *)
LEMMA CallKeeps ==
  ASSUME RegistryTypeOK, RegistryTypeOK', Tidy, ~overwritten, Call PROVE Tidy'
<1>1. Untouched /\ backend' = backend /\ registry' = registry
  BY DEF Call, KeepFiles, KeepRegistry, KeepRest, Untouched
<1> DEFINE s(op, p, x) ==
      [Idle EXCEPT !.op = op, !.p = p, !.arg = x, !.after = "acting",
                   !.at = CASE op = "start" -> "starting"
                            [] op = "stop" -> "stopping"
                            [] OTHER -> "loading"]
<1>2. PICK op \in {"read", "start", "stop", "switch", "update", "settings", "create",
                "delete", "avatar", "save"} :
        \E p \in IF op \in {"switch", "update", "settings", "delete", "avatar"}
                   THEN Ready(registry) ELSE {None} :
        \E x \in CASE op \in {"update", "create", "save"} -> Names
                   [] op = "avatar" -> Formats \cup {None}
                   [] OTHER -> {None} :
          job' = [job EXCEPT !["main"] = s(op, p, x)]
  BY Zenon DEF Call
<1>3. PICK p \in IF op \in {"switch", "update", "settings", "delete", "avatar"}
                   THEN Ready(registry) ELSE {None} :
        \E x : job' = [job EXCEPT !["main"] = s(op, p, x)]
  BY <1>2, ZenonT(60)
<1>0. PICK x : job' = [job EXCEPT !["main"] = s(op, p, x)]
  BY <1>3
<1>4. /\ Me'.op = op /\ Me'.p = p /\ Me'.step = 0 /\ job'["sync"] = job["sync"]
      /\ Me'.at \in {"starting", "stopping", "loading"}
  <2> DEFINE r == s(op, p, x)
  <2>1. r.op = op /\ r.p = p /\ r.step = 0 /\ r.at \in {"starting", "stopping", "loading"}
    BY DEF Idle
  <2> HIDE DEF r
  <2>2. job \in [Threads -> Rows] /\ "main" \in Threads /\ "sync" \in Threads
    BY MainType DEF RegistryTypeOK
  <2>3. job' = [job EXCEPT !["main"] = r]
    BY <1>0 DEF r
  <2> QED BY <2>3, <2>1, <2>2, <2>3 DEF Me
<1>5. CommandInv'
  BY <1>1, <1>0, <1>3, <1>4 DEF CommandInv, SubjectInv, RenderInv, SwitchInv, DeleteInv, CreateInv,
     SetupInv, Begun, Renders, Ready
<1>6. SeenInv' /\ RecoveryOf("main")'
  BY <1>4 DEF SeenInv, RecoveryOf, Reading, Me
<1>7. ServesActive'
  BY <1>1 DEF Tidy, ServesActive
<1> QED BY <1>1, <1>4, <1>5, <1>6, <1>7, MainKeeps

(* A step of a command on the main thread.                                    *)
Doing == {"idle", "starting", "loading", "stopping", "saving", "undoing", "writing",
          "restoring", "creating", "marking", "erasing", "forgetting", "drawing"}

LEMMA CommandKeeps ==
  ASSUME RegistryTypeOK, RegistryTypeOK', Tidy, ~overwritten, NEW P \in SUBSET Personas, Calm(P),
         \A q \in P : registry'.state[q] = "deleting" => Named(q)',
         ~confessed' => \A q \in P : registry'.state[q] = "ready" => Whole(q)',
         job'["sync"] = job["sync"], Me'.at \in Doing,
         WellFormed(registry)', ServesActive', CommandInv'
  PROVE  Tidy'
<1>1. DeletionInv /\ RecoveryOf("sync") /\ ReadyIsWhole
  BY MainType DEF Tidy, RecoveryInv
<1>2. DeletionInv' /\ ReadyIsWhole'
  BY <1>1, CalmDeletion, CalmReady
<1>3. RecoveryOf("sync")'
  BY <1>1, MainType, CalmRecovery
<1>4. SeenInv' /\ RecoveryOf("main")'
  BY DEF SeenInv, RecoveryOf, Reading, Doing, Me
<1> QED BY <1>2, <1>3, <1>4 DEF Tidy, RecoveryInv, Threads

(* A command about a persona that is and stays ready: it saves one of its two *)
(* registries, or writes the persona's files.                                 *)
LEMMA RenderCalm ==
  ASSUME RegistryTypeOK, RegistryTypeOK', Tidy, ~overwritten, Begun, Me.op \in Renders,
         registry' \in {registry, Me.reg, Me.was}, UNCHANGED <<deleted, confessed>>,
         \A q \in Personas \ {Me.p} : disk'[q] = disk[q],
         disk[Me.p].config # None => disk'[Me.p].config # None,
         disk'[Me.p].identity = disk[Me.p].identity,
         disk'[Me.p].credential = disk[Me.p].credential
  PROVE  /\ Calm({}) /\ WellFormed(registry)'
         /\ Me.op # "switch" => registry'.active = registry.active
<1>1. /\ Me.p \in Personas /\ Me.p \in Ready(registry) /\ ~Doomed(Me.p)
      /\ \A q \in deleted : registry.state[q] \in Gone
      /\ Me.reg.active \in Personas
  BY MainType DEF Tidy, CommandInv, SubjectInv, DeletionInv, Doomed, Gone, Ready, Begun, RowOK
<1>2. /\ Me.reg.state = Me.was.state /\ Matches(Me.was) /\ WellFormed(Me.was)
      /\ Me.op # "switch" => Me.reg.active = Me.was.active /\ Me.was.active = registry.active
      /\ Me.op = "switch" => Me.reg.active = Me.p
  BY DEF Tidy, CommandInv, RenderInv, SwitchInv
<1>3. \A q \in Personas : \/ registry'.state[q] = registry.state[q]
                          \/ q \in deleted /\ registry.state[q] \in Gone /\ registry'.state[q] \in Gone
  BY <1>1, <1>2 DEF Matches, Same
<1>4. WellFormed(registry)'
  <2>1. CASE registry' = registry
    BY <2>1 DEF Tidy, WellFormed, Ready
  <2>2. CASE registry' = Me.was
    BY <1>2, <2>2 DEF WellFormed, Ready
  <2>3. CASE registry' = Me.reg /\ Me.op = "switch"
    BY <1>1, <1>2, <1>3, <2>3 DEF WellFormed, Ready, Gone
  <2>4. CASE registry' = Me.reg /\ Me.op # "switch"
    <3>1. Me.was # NoRegistry
      BY <1>1, <1>2, <2>4, RegistryAssumption DEF NoRegistry
    <3> QED BY <1>2, <2>4, <3>1 DEF WellFormed, Ready
  <2> QED BY <2>1, <2>2, <2>3, <2>4
<1>5. \A q \in Personas :
        /\ Doomed(q) => (Bare(q) => Bare(q)') /\ (Named(q) => Named(q)')
        /\ ~Doomed(q) => /\ disk[q].config # None => disk'[q].config # None
                         /\ disk[q].identity => disk'[q].identity
                         /\ disk[q].credential => disk'[q].credential
  <2> SUFFICES ASSUME NEW q \in Personas
               PROVE  /\ Doomed(q) => (Bare(q) => Bare(q)') /\ (Named(q) => Named(q)')
                      /\ ~Doomed(q) => /\ disk[q].config # None => disk'[q].config # None
                                       /\ disk[q].identity => disk'[q].identity
                                       /\ disk[q].credential => disk'[q].credential
    OBVIOUS
  <2>1. CASE q = Me.p
    BY <1>1, <2>1
  <2>2. CASE q # Me.p
    BY <2>2 DEF Bare, Named
  <2> QED BY <2>1, <2>2
<1>6. Calm({})
  BY <1>3, <1>5 DEF Calm
<1> QED BY <1>2, <1>4, <1>6

LEMMA RenderKeeps ==
  ASSUME RegistryTypeOK, RegistryTypeOK', Tidy, ~overwritten, Begun, Me.op \in Renders,
         registry' \in {registry, Me.reg, Me.was}, UNCHANGED <<deleted, confessed, backend>>,
         \A q \in Personas \ {Me.p} : disk'[q] = disk[q],
         disk[Me.p].config # None => disk'[Me.p].config # None,
         disk'[Me.p].identity = disk[Me.p].identity,
         disk'[Me.p].credential = disk[Me.p].credential,
         Me.op = "switch" => Me.at # "stopping",
         job'["sync"] = job["sync"],
         Me' = Idle \/ (Alike(Me', Me) /\ Me'.at \in Doing)
  PROVE  Tidy'
<1>1. /\ Calm({}) /\ WellFormed(registry)'
      /\ Me.op # "switch" => registry'.active = registry.active
  BY RenderCalm
<1>2. ServesActive'
  BY <1>1 DEF Tidy, CommandInv, SwitchInv, ServesActive
<1>3. CommandInv'
  <2>1. CASE Me' = Idle
    BY <2>1, IdlePromises DEF Me
  <2>2. CASE Alike(Me', Me)
    <3>1. Plain(Me', Me)
      BY <2>2 DEF Plain, Alike, Renders
    <3> QED BY <1>1, <2>2, <3>1, CalmCommand DEF Tidy
  <2> QED BY <2>1, <2>2
<1>4. Me'.at \in Doing
  BY DEF Doing, Idle
<1> QED BY <1>1, <1>2, <1>3, <1>4, CommandKeeps

LEMMA GoesRow ==
  ASSUME RegistryTypeOK, NEW at \in Doing,
         \/ Goto("main", at) \/ Return("main")
         \/ job' = [job EXCEPT !["main"] = [@ EXCEPT !.at = at, !.second = TRUE]]
  PROVE  /\ job'["sync"] = job["sync"]
         /\ Me' = Idle \/ (Alike(Me', Me) /\ Me'.at = at)
<1>1. Me = job["main"] /\ Me \in Rows /\ job \in [Threads -> Rows] /\ "main" \in Threads
      /\ "sync" \in Threads
  BY MainType DEF RegistryTypeOK
<1>2. CASE Goto("main", at)
  BY <1>1, <1>2 DEF Goto, Rows, Alike, Me
<1>3. CASE Return("main")
  BY <1>1, <1>3 DEF Return, Me
<1>4. CASE job' = [job EXCEPT !["main"] = [@ EXCEPT !.at = at, !.second = TRUE]]
  BY <1>1, <1>4 DEF Rows, Alike, Me
<1> QED BY <1>2, <1>3, <1>4

LEMMA AdvanceRow ==
  ASSUME RegistryTypeOK, NEW n \in 1 .. 6, job' = [job EXCEPT !["main"].step = n]
  PROVE  /\ job'["sync"] = job["sync"]
         /\ Me'.op = Me.op /\ Me'.at = Me.at /\ Me'.p = Me.p /\ Me'.arg = Me.arg /\ Me'.step = n
         /\ Me'.reg = Me.reg /\ Me'.was = Me.was /\ Me'.kept = Me.kept /\ Me'.fresh = Me.fresh
<1>1. Me = job["main"] /\ Me \in Rows /\ job \in [Threads -> Rows] /\ "main" \in Threads
      /\ "sync" \in Threads
  BY MainType DEF RegistryTypeOK
<1> QED BY <1>1 DEF Rows, Me

(* persona.env of the persona is written, or not.                             *)
LEMMA ConfigEffect ==
  ASSUME RegistryTypeOK, Me.op \in Renders, NEW c, c # None,
         disk' = [disk EXCEPT ![Me.p].config = c] \/ UNCHANGED disk
  PROVE  /\ \A q \in Personas \ {Me.p} : disk'[q] = disk[q]
         /\ disk[Me.p].config # None => disk'[Me.p].config # None
         /\ disk'[Me.p].identity = disk[Me.p].identity
         /\ disk'[Me.p].credential = disk[Me.p].credential
<1>1. Me.p \in Personas /\ disk \in [Personas -> Pieces] /\ disk[Me.p] \in Pieces
  BY MainType DEF RegistryTypeOK
<1>2. CASE disk' = [disk EXCEPT ![Me.p].config = c]
  BY <1>1, <1>2 DEF Pieces
<1> QED BY <1>2

LEMMA SwitchKeeps ==
  ASSUME RegistryTypeOK, RegistryTypeOK', Tidy, ~overwritten, SwitchSave \/ SwitchUndo
  PROVE  Tidy'
<1>1. Me.op = "switch" /\ Me.op \in Renders /\ Begun /\ Me.at # "stopping"
  BY MainType DEF SwitchSave, SwitchUndo, At, Begun, Renders, Changes, Reading
<1>2. registry' \in {registry, Me.reg, Me.was} /\ disk' = disk
      /\ UNCHANGED <<deleted, confessed, backend>>
  BY DEF SwitchSave, SwitchUndo, Commit, KeepRegistry, KeepFiles, KeepRest
<1>3. job'["sync"] = job["sync"] /\ (Me' = Idle \/ (Alike(Me', Me) /\ Me'.at = "starting"))
  BY GoesRow DEF SwitchSave, SwitchUndo, Doing
<1> QED BY <1>1, <1>2, <1>3, RenderKeeps DEF Doing

LEMMA UpdateKeeps ==
  ASSUME RegistryTypeOK, RegistryTypeOK', Tidy, ~overwritten,
         UpdateWrite \/ UpdateSave \/ UpdateRestore
  PROVE  Tidy'
<1>1. Me.op = "update" /\ Me.op \in Renders /\ Begun /\ Me.reg \in Registries /\ Me.p \in Personas
  BY MainType DEF UpdateWrite, UpdateSave, UpdateRestore, At, Begun, Renders, Changes, Reading
<1>2. Me.kept.config # None /\ Projection(Me.reg.name[Me.p]) # None
  BY <1>1, ProjectionType DEF Tidy, CommandInv, RenderInv
<1>3. registry' \in {registry, Me.reg, Me.was} /\ UNCHANGED <<deleted, confessed, backend>>
  BY DEF UpdateWrite, UpdateSave, UpdateRestore, Commit, KeepRegistry, KeepRest
<1>4. /\ \A q \in Personas \ {Me.p} : disk'[q] = disk[q]
      /\ disk[Me.p].config # None => disk'[Me.p].config # None
      /\ disk'[Me.p].identity = disk[Me.p].identity
      /\ disk'[Me.p].credential = disk[Me.p].credential
  BY <1>1, <1>2, ConfigEffect DEF UpdateWrite, UpdateSave, UpdateRestore, KeepFiles
<1>5. job'["sync"] = job["sync"] /\ (Me' = Idle \/ (Alike(Me', Me) /\ Me'.at \in Doing))
  <2>1. PICK at \in {"starting", "stopping", "saving", "restoring"} : Goto("main", at) \/ Return("main")
    BY DEF UpdateWrite, UpdateSave, UpdateRestore, UpdateEnds
  <2> QED BY <2>1, GoesRow DEF Doing
<1> QED BY <1>1, <1>3, <1>4, <1>5, RenderKeeps

LEMMA SettingsKeeps ==
  ASSUME RegistryTypeOK, RegistryTypeOK', Tidy, ~overwritten, SettingsWrite \/ SettingsUndo
  PROVE  Tidy'
<1>1. Me.op = "settings" /\ Me.op \in Renders /\ Begun /\ Me.kept \in Pieces /\ Me.kept.config # None
  BY MainType DEF SettingsWrite, SettingsUndo, At, Begun, Renders, Changes, Reading, RowOK
<1>2. [Me.kept.config EXCEPT !.tuned = TRUE] # None
  <2>1. [Me.kept.config EXCEPT !.tuned = TRUE] \in [name : Names \cup {None}, tuned : BOOLEAN]
    BY <1>1 DEF Pieces, Configs
  <2> QED BY <2>1, RegistryAssumption
<1>3. registry' = registry /\ UNCHANGED <<deleted, confessed, backend>>
  BY DEF SettingsWrite, SettingsUndo, KeepRegistry, KeepRest
<1>4. /\ \A q \in Personas \ {Me.p} : disk'[q] = disk[q]
      /\ disk[Me.p].config # None => disk'[Me.p].config # None
      /\ disk'[Me.p].identity = disk[Me.p].identity
      /\ disk'[Me.p].credential = disk[Me.p].credential
  BY <1>1, <1>2, ConfigEffect DEF SettingsWrite, SettingsUndo
<1>5. job'["sync"] = job["sync"] /\ (Me' = Idle \/ (Alike(Me', Me) /\ Me'.at \in Doing))
  <2>1. PICK at \in {"starting", "stopping"} :
          \/ Goto("main", at) \/ Return("main")
          \/ job' = [job EXCEPT !["main"] = [@ EXCEPT !.at = at, !.second = TRUE]]
    BY DEF SettingsWrite, SettingsUndo
  <2> QED BY <2>1, GoesRow DEF Doing
<1> QED BY <1>1, <1>3, <1>4, <1>5, RenderKeeps

(* The rollback of a rename begins as another update does.                    *)
LEMMA UpdateUndoKeeps ==
  ASSUME RegistryTypeOK, RegistryTypeOK', Tidy, ~overwritten, UpdateUndo PROVE Tidy'
<1>0. /\ Me.op = "update" /\ Begun /\ Me.p \in Personas /\ Me.reg \in Registries
      /\ Me = job["main"] /\ Me \in Rows /\ job \in [Threads -> Rows] /\ "main" \in Threads
      /\ "sync" \in Threads
  BY MainType DEF RegistryTypeOK, UpdateUndo, At, Begun, Renders, Changes, Reading
<1>1. Untouched /\ backend' = backend /\ registry' = registry /\ disk' = disk /\ deleted' = deleted
  BY DEF UpdateUndo, KeepFiles, KeepRegistry, KeepRest, Untouched
<1>2. /\ SubjectInv /\ RenderInv /\ disk[Me.p].config # None
  BY <1>0 DEF Tidy, CommandInv, RenderInv, Renders
<1>3. /\ Me'.op = "update" /\ Me'.at = "writing" /\ Me'.p = Me.p /\ Me'.step = Me.step
      /\ Me'.was = Me.was /\ Me'.kept = disk[Me.p]
      /\ Me'.reg.state = Me.reg.state /\ Me'.reg.active = Me.reg.active
      /\ job'["sync"] = job["sync"]
  <2>1. PICK k : k = disk[Me.p]
    OBVIOUS
  <2>2. PICK r : r = [Me.reg EXCEPT !.name[Me.p] = Me.was.name[Me.p]]
    OBVIOUS
  <2>3. r.state = Me.reg.state /\ r.active = Me.reg.active
    BY <1>0, <2>2 DEF Registries
  <2> DEFINE s == [Me EXCEPT !.at = "writing", !.reg = r, !.kept = k, !.second = TRUE]
  <2>4. job' = [job EXCEPT !["main"] = s]
    BY <1>0, <1>2, <2>1, <2>2 DEF UpdateUndo
  <2>5. /\ s.op = Me.op /\ s.at = "writing" /\ s.p = Me.p /\ s.step = Me.step
        /\ s.was = Me.was /\ s.kept = k /\ s.reg = r
    BY <1>0 DEF Rows
  <2> HIDE DEF s
  <2>6. Me' = s /\ job'["sync"] = job["sync"]
    BY <1>0, <2>4 DEF Me
  <2> QED BY <1>0, <2>1, <2>3, <2>5, <2>6
<1>4. SubjectInv'
  BY <1>0, <1>1, <1>2, <1>3 DEF SubjectInv, Ready, Renders
<1>5. RenderInv'
  <2>1. Matches(Me.was)'
    BY <1>0, <1>1, <1>2, <1>3 DEF RenderInv, Matches, Same, Renders
  <2> QED BY <1>0, <1>1, <1>2, <1>3, <2>1 DEF RenderInv, WellFormed, Begun, Renders
<1>6. SwitchInv' /\ DeleteInv' /\ CreateInv' /\ SetupInv'
  BY <1>3 DEF SwitchInv, DeleteInv, CreateInv, SetupInv
<1>7. SeenInv' /\ RecoveryOf("main")' /\ ServesActive'
  BY <1>1, <1>3 DEF SeenInv, RecoveryOf, Reading, Me, Tidy, ServesActive
<1> QED BY <1>1, <1>3, <1>4, <1>5, <1>6, <1>7, MainKeeps DEF CommandInv

LEMMA AvatarKeeps ==
  ASSUME RegistryTypeOK, RegistryTypeOK', Tidy, ~overwritten, AvatarFile \/ AvatarSave
  PROVE  Tidy'
<1>1. Me.op = "avatar" /\ Me.op \in Renders /\ Begun /\ Me.p \in Personas /\ disk[Me.p] \in Pieces
      /\ disk \in [Personas -> Pieces] /\ Me.at = "drawing"
  BY MainType DEF AvatarFile, AvatarSave, At, Begun, Renders, Changes, Reading, RegistryTypeOK
<1>2. registry' \in {registry, Me.reg, Me.was} /\ UNCHANGED <<deleted, confessed, backend>>
  BY DEF AvatarFile, AvatarSave, Commit, KeepRegistry, KeepRest
<1>3. /\ \A q \in Personas \ {Me.p} : disk'[q] = disk[q]
      /\ disk[Me.p].config # None => disk'[Me.p].config # None
      /\ disk'[Me.p].identity = disk[Me.p].identity
      /\ disk'[Me.p].credential = disk[Me.p].credential
  <2>1. CASE disk' = disk
    BY <2>1
  <2>2. CASE disk' # disk
    <3>1. PICK a : disk' = [disk EXCEPT ![Me.p].avatars = a]
      BY <2>2, Zenon DEF AvatarFile, AvatarSave, KeepFiles
    <3> QED BY <1>1, <3>1 DEF Pieces
  <2> QED BY <2>1, <2>2
<1>4. job'["sync"] = job["sync"] /\ (Me' = Idle \/ (Alike(Me', Me) /\ Me'.at \in Doing))
  <2>1. CASE Return("main")
    BY <2>1, GoesRow DEF Doing
  <2>2. CASE Me.step \in {1, 2} /\ job' = [job EXCEPT !["main"].step = Me.step + 1]
    <3>1. Me.step + 1 \in 1 .. 6
      BY <2>2
    <3>2. /\ job'["sync"] = job["sync"]
          /\ Me'.op = Me.op /\ Me'.at = Me.at /\ Me'.p = Me.p /\ Me'.arg = Me.arg
          /\ Me'.step = Me.step + 1 /\ Me'.reg = Me.reg /\ Me'.was = Me.was
          /\ Me'.kept = Me.kept /\ Me'.fresh = Me.fresh
      BY <2>2, <3>1, AdvanceRow
    <3> QED BY <1>1, <2>2, <3>2 DEF Alike, Doing
  <2>3. \/ Return("main")
        \/ Me.step \in {1, 2} /\ job' = [job EXCEPT !["main"].step = Me.step + 1]
    BY DEF AvatarFile, AvatarSave, Me
  <2> QED BY <2>1, <2>2, <2>3
<1> QED BY <1>1, <1>2, <1>3, <1>4, RenderKeeps

-----------------------------------------------------------------------------
(* delete_persona.                                                            *)

LEMMA CalmBut ==
  ASSUME RegistryTypeOK, RegistryTypeOK', DeletionInv, NEW P \in SUBSET Personas, Calm(P),
         NEW p, P \subseteq {p}, NEW r \in Registries, MatchesBut(r, p)
  PROVE  MatchesBut(r, p)'
BY CalmSame DEF MatchesBut

(* The registry a command saves changes the place of its persona only.        *)
LEMMA CommitCalm ==
  ASSUME RegistryTypeOK, DeletionInv, NEW p \in Personas, NEW r \in Registries, MatchesBut(r, p),
         registry' = r, UNCHANGED <<disk, deleted, confessed>>, ~Doomed(p)
  PROVE  Calm({p})
<1>1. \A q \in Personas \ {p} :
        \/ registry'.state[q] = registry.state[q]
        \/ q \in deleted' /\ registry.state[q] \in Gone /\ registry'.state[q] \in Gone
  BY DEF MatchesBut, Same, DeletionInv
<1>2. p \notin deleted'
  BY DEF Doomed
<1> QED BY <1>1, <1>2 DEF Calm, Bare, Named

LEMMA DeleteFacts ==
  ASSUME RegistryTypeOK, Tidy, Me.op = "delete", Me.at \in {"marking", "erasing", "forgetting"}
  PROVE  /\ Begun /\ Me.p \in Personas /\ Me.reg \in Registries /\ Me.reg \in Saved
         /\ DeletionInv /\ MatchesBut(Me.reg, Me.p) /\ Me.reg.state[Me.p] = "deleting"
         /\ Me.reg.active = registry.active /\ WellFormed(Me.reg)
         /\ Me.reg.active \in Personas /\ Me.reg.active # Me.p
         /\ Me.reg.state[Me.reg.active] = "ready"
         /\ Me.at = "marking" => disk[Me.p].config # None /\ registry.state[Me.p] = "ready"
         /\ Me.at \in {"erasing", "forgetting"} => Doomed(Me.p)
         /\ Me.at = "forgetting" => Bare(Me.p)
<1>1. Begun /\ Me.p \in Personas /\ Me.reg \in Registries /\ Me.reg \in Saved
  BY MainType DEF Begun, Changes, Reading
<1>2. DeleteInv /\ SubjectInv /\ DeletionInv
  BY DEF Tidy, CommandInv
<1>3. Me.reg # NoRegistry
  BY <1>1, <1>2 DEF DeleteInv, NoRegistry
<1>4. Me.reg.active \in Personas /\ Me.reg.state[Me.reg.active] = "ready"
  BY <1>1, <1>2, <1>3 DEF DeleteInv, WellFormed, Ready
<1> QED BY <1>1, <1>2, <1>4 DEF DeleteInv, SubjectInv, Ready

LEMMA DeleteMarkKeeps ==
  ASSUME RegistryTypeOK, RegistryTypeOK', Tidy, ~overwritten, DeleteMark PROVE Tidy'
<1>0. Me.op = "delete" /\ Me.at = "marking"
  BY DEF DeleteMark, At
<1>1. /\ Begun /\ Me.p \in Personas /\ Me.reg \in Registries
      /\ DeletionInv /\ MatchesBut(Me.reg, Me.p) /\ Me.reg.state[Me.p] = "deleting"
      /\ Me.reg.active = registry.active /\ WellFormed(Me.reg)
      /\ disk[Me.p].config # None /\ registry.state[Me.p] = "ready"
  BY <1>0, DeleteFacts
<1>2. UNCHANGED <<disk, deleted, confessed, backend>>
  BY DEF DeleteMark, KeepFiles, KeepRest
<1>3. CASE registry' = registry /\ Return("main")
  <2>1. Untouched /\ ServesActive'
    BY <1>2, <1>3 DEF Untouched, Tidy, ServesActive
  <2> QED BY <1>3, <2>1, ReturnKeeps
<1>4. CASE registry' = Me.reg /\ Goto("main", "erasing")
  <2>1. Me' = Idle \/ (Alike(Me', Me) /\ Me'.at = "erasing")
    BY <1>4, GoesRow DEF Doing
  <2>2. job'["sync"] = job["sync"]
    BY <1>4, GoesRow DEF Doing
  <2>3. PICK p : p = Me.p
    OBVIOUS
  <2>4. Calm({p}) /\ {p} \in SUBSET Personas
    <3>1. ~Doomed(p)
      BY <1>1, <2>3 DEF Doomed, DeletionInv, Gone
    <3> QED BY <1>1, <1>2, <1>4, <2>3, <3>1, CommitCalm
  <2>5. Named(p)' /\ registry'.state[p] # "ready"
    BY <1>1, <1>2, <1>4, <2>3 DEF Named
  <2>6. WellFormed(registry)' /\ ServesActive'
    BY <1>1, <1>2, <1>4 DEF WellFormed, Ready, Tidy, ServesActive
  <2>7. Me'.at \in Doing
    BY <2>1 DEF Doing, Idle
  <2>8. CommandInv'
    <3>1. CASE Me' = Idle
      BY <3>1, IdlePromises DEF Me
    <3>2. CASE Alike(Me', Me) /\ Me'.at = "erasing"
      <4>1. MatchesBut(Me.reg, Me.p)'
        <5>1. PICK r : r = Me.reg
          OBVIOUS
        <5>2. MatchesBut(r, p)'
          BY <1>1, <2>3, <2>4, <5>1, CalmBut
        <5> QED BY <2>3, <3>2, <5>1, <5>2 DEF Alike, MatchesBut, Same
      <4>2. DeleteInv'
        BY <1>0, <1>1, <1>4, <3>2, <4>1 DEF DeleteInv, Alike, WellFormed, Ready, Doomed
      <4>3. SubjectInv' /\ RenderInv' /\ SwitchInv' /\ CreateInv' /\ SetupInv'
        BY <1>0, <1>1, <3>2 DEF SubjectInv, RenderInv, SwitchInv, CreateInv, SetupInv, Alike,
           Renders, Begun
      <4> QED BY <4>2, <4>3 DEF CommandInv
    <3> QED BY <2>1, <3>1, <3>2
  <2> QED BY <2>2, <2>4, <2>5, <2>6, <2>7, <2>8, CommandKeeps
<1> QED BY <1>3, <1>4 DEF DeleteMark, Commit, KeepRegistry

LEMMA DeleteEraseKeeps ==
  ASSUME RegistryTypeOK, RegistryTypeOK', Tidy, ~overwritten, DeleteErase PROVE Tidy'
<1>0. Me.op = "delete" /\ Me.at = "erasing"
  BY DEF DeleteErase, At
<1>1. /\ Begun /\ Me.p \in Personas /\ Me.reg \in Registries
      /\ DeletionInv /\ MatchesBut(Me.reg, Me.p) /\ Me.reg.state[Me.p] = "deleting"
      /\ Me.reg.active = registry.active /\ WellFormed(Me.reg)
      /\ Doomed(Me.p)
  BY <1>0, DeleteFacts
<1>2. UNCHANGED <<registry, deleted, confessed, backend>>
  BY DEF DeleteErase, KeepRegistry, KeepRest
<1>3. PICK complete \in BOOLEAN :
        /\ CleanUp(Me.reg, Me.p, complete)
        /\ IF complete THEN Goto("main", "forgetting") ELSE Return("main")
  BY DEF DeleteErase
<1>4. Calm({}) /\ (complete => Bare(Me.p)')
  <2>1. PICK p : p = Me.p
    OBVIOUS
  <2>2. Calm({}) /\ (complete => Bare(p)')
    BY <1>1, <1>2, <1>3, <2>1, CleanedCalm
  <2>3. Goto("main", "forgetting") => Me'.p = Me.p
    BY MainType DEF Goto, RegistryTypeOK, Rows, Me
  <2> QED BY <1>3, <2>1, <2>2, <2>3 DEF Bare
<1>5. /\ job'["sync"] = job["sync"]
      /\ Me' = Idle \/ (complete /\ Alike(Me', Me) /\ Me'.at = "forgetting")
  <2>1. CASE complete
    BY <1>3, <2>1, GoesRow DEF Doing
  <2>2. CASE ~complete
    BY <1>3, <2>2, MainType DEF Return, RegistryTypeOK, Me
  <2> QED BY <2>1, <2>2
<1>6. WellFormed(registry)' /\ ServesActive' /\ Me'.at \in Doing
  BY <1>2, <1>5 DEF WellFormed, Ready, Tidy, ServesActive, Doing, Idle
<1>7. CommandInv'
  <2>1. CASE Me' = Idle
    BY <2>1, IdlePromises DEF Me
  <2>2. CASE complete /\ Alike(Me', Me) /\ Me'.at = "forgetting"
    <3>1. MatchesBut(Me.reg, Me.p)' /\ Doomed(Me.p)'
      BY <1>1, <1>2, <2>2 DEF Alike, MatchesBut, Same, Doomed
    <3>2. DeleteInv'
      BY <1>0, <1>1, <1>2, <1>4, <2>2, <3>1 DEF DeleteInv, Alike, WellFormed, Ready
    <3>3. SubjectInv' /\ RenderInv' /\ SwitchInv' /\ CreateInv' /\ SetupInv'
      BY <1>0, <1>1, <2>2 DEF SubjectInv, RenderInv, SwitchInv, CreateInv, SetupInv, Alike,
         Renders, Begun
    <3> QED BY <3>2, <3>3 DEF CommandInv
  <2> QED BY <1>5, <2>1, <2>2
<1> QED BY <1>4, <1>5, <1>6, <1>7, CommandKeeps

LEMMA DeleteForgetKeeps ==
  ASSUME RegistryTypeOK, RegistryTypeOK', Tidy, ~overwritten, DeleteForget PROVE Tidy'
<1>0. Me.op = "delete" /\ Me.at = "forgetting" /\ Return("main")
  BY DEF DeleteForget, At
<1>1. /\ Begun /\ Me.p \in Personas /\ Me.reg \in Registries /\ Me.reg \in Saved
      /\ DeletionInv /\ MatchesBut(Me.reg, Me.p)
      /\ Me.reg.active = registry.active /\ Me.reg.active \in Personas /\ Me.reg.active # Me.p
      /\ Me.reg.state[Me.reg.active] = "ready"
      /\ Doomed(Me.p) /\ Bare(Me.p)
  BY <1>0, DeleteFacts
<1>2. UNCHANGED <<disk, confessed, backend>>
  BY DEF DeleteForget, KeepFiles
<1>3. CASE UNCHANGED <<registry, deleted>>
  <2>1. Untouched /\ ServesActive'
    BY <1>2, <1>3 DEF Untouched, Tidy, ServesActive
  <2> QED BY <1>0, <2>1, ReturnKeeps
<1>4. CASE registry' = Without(Me.reg, {Me.p}) /\ deleted' = deleted \cup {Me.p}
  <2>1. /\ registry'.active = Me.reg.active
        /\ \A q \in Personas : registry'.state[q] = IF q = Me.p THEN "absent" ELSE Me.reg.state[q]
    BY <1>1, <1>4, WithoutType
  <2>2. \A q \in Personas :
          \/ registry'.state[q] = registry.state[q]
          \/ q \in deleted' /\ registry.state[q] \in Gone /\ registry'.state[q] \in Gone
    <3> SUFFICES ASSUME NEW q \in Personas
                 PROVE  \/ registry'.state[q] = registry.state[q]
                        \/ q \in deleted' /\ registry.state[q] \in Gone /\ registry'.state[q] \in Gone
      OBVIOUS
    <3>1. CASE q = Me.p
      BY <1>1, <1>4, <2>1, <3>1 DEF Doomed, DeletionInv, Gone
    <3>2. CASE q # Me.p
      BY <1>1, <1>4, <2>1, <3>2 DEF MatchesBut, Same, DeletionInv
    <3> QED BY <3>1, <3>2
  <2>3. Calm({})
    BY <1>1, <1>2, <1>4, <2>2 DEF Calm, Bare, Named
  <2>4. WellFormed(registry)' /\ ServesActive'
    BY <1>1, <1>2, <2>1 DEF WellFormed, Ready, Tidy, ServesActive
  <2>5. Me' = Idle /\ job'["sync"] = job["sync"]
    BY <1>0, MainType DEF Return, RegistryTypeOK, Me
  <2>6. CommandInv' /\ Me'.at \in Doing
    BY <2>5, IdlePromises DEF Doing, Idle, Me
  <2> QED BY <2>3, <2>4, <2>5, <2>6, CommandKeeps
<1> QED BY <1>3, <1>4 DEF DeleteForget, Commit, KeepRegistry

-----------------------------------------------------------------------------
(* create_persona.                                                            *)

LEMMA CreateFacts ==
  ASSUME RegistryTypeOK, Tidy, At("create", "creating")
  PROVE  /\ Me.op = "create" /\ Me.at = "creating" /\ Begun /\ Me.p \in Personas
         /\ Me.reg \in Registries /\ Me.arg \in Names /\ Me.step \in 1 .. 6
         /\ disk \in [Personas -> Pieces] /\ disk[Me.p] \in Pieces
         /\ DeletionInv /\ CreateInv /\ MatchesBut(Me.reg, Me.p)
         /\ Me.reg.active = registry.active /\ WellFormed(Me.reg)
         /\ Me.reg.active \in Personas /\ Me.reg.active # Me.p /\ Me.reg.state[Me.reg.active] = "ready"
         /\ registry.state[Me.p] \in {"absent", "provisioning"}
         /\ ~Doomed(Me.p) /\ Me.p \notin deleted
<1>1. /\ Me.op = "create" /\ Me.at = "creating" /\ Begun /\ Me.p \in Personas
      /\ Me.reg \in Registries /\ Me.arg \in Names /\ Me.step \in 1 .. 6 /\ Me.reg \in Saved
      /\ disk \in [Personas -> Pieces] /\ disk[Me.p] \in Pieces
  BY MainType DEF At, Begun, Changes, Reading, RowOK, RegistryTypeOK
<1>2. DeletionInv /\ CreateInv
  BY DEF Tidy, CommandInv
<1>3. Me.reg # NoRegistry
  BY <1>1, <1>2 DEF CreateInv, NoRegistry
<1>4. Me.reg.active \in Personas /\ Me.reg.state[Me.reg.active] = "ready"
  BY <1>1, <1>2, <1>3 DEF CreateInv, WellFormed, Ready
<1> QED BY <1>1, <1>2, <1>4 DEF CreateInv, Doomed

LEMMA CreateOnly ==
  ASSUME Me'.op = "create", CreateInv' PROVE CommandInv'
BY DEF CommandInv, SubjectInv, RenderInv, SwitchInv, DeleteInv, SetupInv, Renders

LEMMA CreateBeginKeeps ==
  ASSUME RegistryTypeOK, RegistryTypeOK', Tidy, ~overwritten, CreateBegin PROVE Tidy'
<1>0. /\ Me.op = "create" /\ Me.at = "acting" /\ Me.seen \in Registries /\ Me.seen.active \in Personas
      /\ Me.arg \in Names /\ Me = job["main"] /\ Me \in Rows /\ job \in [Threads -> Rows]
      /\ "main" \in Threads /\ "sync" \in Threads
  BY MainType DEF RegistryTypeOK, CreateBegin, Acting, RowOK
<1>1. CASE Refuse
  BY <1>1, OthersKeep
<1>2. CASE ~Refuse
  <2> DEFINE taken == Pending(Me.seen, Me.arg)
  <2>1. PICK p \in IF taken # {} THEN taken ELSE Unused :
          /\ job' = [job EXCEPT !["main"] =
               [@ EXCEPT !.at = "creating", !.step = 1, !.p = p,
                         !.fresh = (taken = {}), !.seen = NoRegistry,
                         !.reg = [Me.seen EXCEPT !.state[p] = "provisioning",
                                                 !.name[p] = Me.arg, !.avatar[p] = None]]]
          /\ KeepFiles /\ KeepRegistry /\ KeepRest
    BY <1>2, Zenon DEF CreateBegin
  <2>2. /\ Matches(Me.seen) /\ WellFormed(Me.seen) /\ Me.seen.active = registry.active
        /\ \A q \in Personas : Me.seen.state[q] \in {"ready", "provisioning"} =>
             registry.state[q] = Me.seen.state[q] /\ q \notin deleted
    BY <1>0, ActingSees
  <2>3. /\ p \in Personas /\ p \notin deleted /\ Me.seen.state[p] # "ready"
        /\ registry.state[p] = IF taken = {} THEN "absent" ELSE "provisioning"
    <3>1. CASE taken # {}
      BY <2>1, <2>2, <3>1 DEF Pending
    <3>2. CASE taken = {}
      BY <2>1, <3>2 DEF Unused, Listed
    <3> QED BY <3>1, <3>2
  <2>4. Untouched /\ backend' = backend /\ registry' = registry /\ deleted' = deleted
    BY <2>1 DEF KeepFiles, KeepRegistry, KeepRest, Untouched
  <2>5. PICK r : r = [Me.seen EXCEPT !.state[p] = "provisioning", !.name[p] = Me.arg,
                                      !.avatar[p] = None]
    OBVIOUS
  <2>6. /\ r.active = Me.seen.active /\ r.state[p] = "provisioning"
        /\ \A q \in Personas \ {p} : r.state[q] = Me.seen.state[q]
    BY <1>0, <2>3, <2>5 DEF Registries
  <2>7. PICK fresh \in BOOLEAN : fresh = (taken = {})
    OBVIOUS
  <2>8. /\ Me'.op = "create" /\ Me'.at = "creating" /\ Me'.step = 1 /\ Me'.p = p
        /\ Me'.fresh = fresh /\ Me'.reg = r /\ job'["sync"] = job["sync"]
    <3> DEFINE s == [job["main"] EXCEPT !.at = "creating", !.step = 1, !.p = p, !.fresh = fresh,
                       !.seen = NoRegistry, !.reg = r]
    <3>1. job' = [job EXCEPT !["main"] = s]
      BY <1>0, <2>1, <2>5, <2>7
    <3>2. /\ s.op = Me.op /\ s.at = "creating" /\ s.step = 1 /\ s.p = p
          /\ s.fresh = fresh /\ s.reg = r
      BY <1>0 DEF Rows
    <3> HIDE DEF s
    <3>3. Me' = s /\ job'["sync"] = job["sync"]
      BY <1>0, <3>1 DEF Me
    <3> QED BY <1>0, <3>2, <3>3
  <2>9. CreateInv'
    <3>1. MatchesBut(Me.reg, Me.p)'
      BY <2>2, <2>4, <2>6, <2>8 DEF MatchesBut, Matches, Same
    <3>2. Me.seen # NoRegistry
      BY <1>0, RegistryAssumption DEF NoRegistry
    <3>3. r.active \in Personas /\ r.state[r.active] = "ready"
      BY <1>0, <2>2, <2>3, <2>6, <3>2 DEF WellFormed, Ready
    <3>4. registry.state[p] = IF fresh THEN "absent" ELSE "provisioning"
      BY <2>3, <2>7
    <3>5. WellFormed(Me.reg)'
      BY <2>8, <3>3 DEF WellFormed, Ready
    <3> HIDE DEF taken
    <3> QED BY <2>2, <2>3, <2>4, <2>6, <2>8, <3>1, <3>4, <3>5 DEF CreateInv
  <2>10. SeenInv' /\ RecoveryOf("main")' /\ ServesActive'
    BY <2>4, <2>8 DEF SeenInv, RecoveryOf, Reading, Me, Tidy, ServesActive
  <2> QED BY <2>4, <2>8, <2>9, <2>10, CreateOnly, MainKeeps
<1> QED BY <1>1, <1>2

LEMMA CreateFails ==
  ASSUME RegistryTypeOK, RegistryTypeOK', Tidy, ~overwritten, At("create", "creating"),
         disk' = disk \/ (registry.state[Me.p] = "absent" /\ disk' = [disk EXCEPT ![Me.p] = Nothing]),
         UNCHANGED <<registry, deleted, confessed, backend>>, Return("main")
  PROVE  Tidy'
<1>0. PICK p : p = Me.p
  OBVIOUS
<1>1. /\ p \in Personas /\ p \notin deleted /\ disk \in [Personas -> Pieces]
      /\ registry.state[p] \in {"absent", "provisioning"}
      /\ ~Doomed(p)
  <2>1. /\ Me.p \in Personas /\ Me.p \notin deleted /\ disk \in [Personas -> Pieces]
        /\ registry.state[Me.p] \in {"absent", "provisioning"}
    BY CreateFacts
  <2> QED BY <1>0, <2>1 DEF Doomed
<1>2. \A q \in Personas \ {p} : disk'[q] = disk[q]
  BY <1>0, <1>1
<1>3. Calm({p}) /\ {p} \in SUBSET Personas
  BY <1>1, <1>2 DEF Calm, Bare, Named
<1>4. job'["main"] = Idle /\ job'["sync"] = job["sync"]
  BY DEF Return, RegistryTypeOK, Threads
<1>5. CommandInv' /\ Me'.at \in Doing
  BY <1>4, IdlePromises DEF Doing, Idle, Me
<1>6. WellFormed(registry)' /\ ServesActive'
  BY DEF WellFormed, Ready, Tidy, ServesActive
<1> QED BY <1>1, <1>3, <1>4, <1>5, <1>6, CommandKeeps

LEMMA CreateFileKeeps ==
  ASSUME RegistryTypeOK, RegistryTypeOK', Tidy, ~overwritten, CreateFile PROVE Tidy'
<1>0. At("create", "creating") /\ Me.step \in {1, 2, 4}
      /\ UNCHANGED <<registry, deleted, confessed, backend>>
  BY DEF CreateFile, KeepRegistry, KeepRest
<1>1. CASE /\ disk' = IF Me.fresh /\ Me.step < 4 THEN [disk EXCEPT ![Me.p] = Nothing] ELSE disk
           /\ Return("main")
  <2>1. Me.fresh /\ Me.step < 4 => registry.state[Me.p] = "absent"
    BY <1>0, CreateFacts DEF CreateInv
  <2> QED BY <1>0, <1>1, <2>1, CreateFails
<1>2. CASE /\ disk' = CASE Me.step = 1 -> [disk EXCEPT ![Me.p].identity = TRUE]
                        [] Me.step = 2 -> [disk EXCEPT ![Me.p].config = Projection(Me.arg)]
                        [] Me.step = 4 -> [disk EXCEPT ![Me.p].credential = TRUE]
           /\ job' = [job EXCEPT !["main"].step = @ + 1]
  <2>0. PICK p : p = Me.p
    OBVIOUS
  <2>1. p \in Personas /\ ~Doomed(p) /\ disk \in [Personas -> Pieces] /\ disk[p] \in Pieces
        /\ DeletionInv /\ CreateInv /\ Begun /\ Me.op = "create"
        /\ Me.step + 1 \in 1 .. 6
    BY <1>0, <2>0, CreateFacts
  <2>2. Projection(Me.arg) # None
    <3>1. Me.arg \in Names
      BY <1>0, CreateFacts
    <3>2. Projection(Me.arg) \in [name : Names \cup {None}, tuned : BOOLEAN]
      BY <3>1 DEF Projection
    <3> QED BY <3>2, RegistryAssumption
  <2>3. /\ \A q \in Personas \ {p} : disk'[q] = disk[q]
        /\ disk[p].config # None \/ Me.step = 2 => disk'[p].config # None
        /\ disk[p].identity \/ Me.step = 1 => disk'[p].identity
        /\ disk[p].credential \/ Me.step = 4 => disk'[p].credential
    <3>1. CASE Me.step = 1 /\ disk' = [disk EXCEPT ![p].identity = TRUE]
      BY <2>1, <3>1 DEF Pieces
    <3>2. CASE Me.step = 2 /\ disk' = [disk EXCEPT ![p].config = Projection(Me.arg)]
      BY <2>1, <2>2, <3>2 DEF Pieces
    <3>3. CASE Me.step = 4 /\ disk' = [disk EXCEPT ![p].credential = TRUE]
      BY <2>1, <3>3 DEF Pieces
    <3> QED BY <1>0, <1>2, <2>0, <3>1, <3>2, <3>3
  <2>4. Calm({})
    <3>1. \A q \in Personas : Doomed(q) => disk'[q] = disk[q]
      BY <2>1, <2>3
    <3>2. \A q \in Personas : Doomed(q) => (Bare(q) => Bare(q)') /\ (Named(q) => Named(q)')
      BY <3>1 DEF Bare, Named
    <3>3. \A q \in Personas : ~Doomed(q) =>
            /\ disk[q].config # None => disk'[q].config # None
            /\ disk[q].identity => disk'[q].identity
            /\ disk[q].credential => disk'[q].credential
      BY <2>3
    <3> QED BY <1>0, <3>2, <3>3 DEF Calm
  <2>5. /\ job'["sync"] = job["sync"]
        /\ Me'.op = "create" /\ Me'.at = "creating" /\ Me'.p = p
        /\ Me'.step = Me.step + 1 /\ Me'.reg = Me.reg /\ Me'.fresh = Me.fresh
    BY <1>0, <1>2, <2>0, <2>1, AdvanceRow DEF At, Me
  <2>6. MatchesBut(Me.reg, Me.p)'
    <3>1. PICK r : r = Me.reg
      OBVIOUS
    <3>2. MatchesBut(r, p)'
      BY <1>0, <2>0, <2>1, <2>4, <3>1, CalmBut, CreateFacts
    <3> QED BY <2>5, <3>1, <3>2 DEF MatchesBut, Same
  <2>7. CreateInv'
    BY <1>0, <2>0, <2>1, <2>3, <2>5, <2>6 DEF CreateInv, WellFormed, Ready
  <2>8. WellFormed(registry)' /\ ServesActive' /\ Me'.at \in Doing
    BY <1>0, <2>5 DEF WellFormed, Ready, Tidy, ServesActive, Doing
  <2> QED BY <2>4, <2>5, <2>7, <2>8, CreateOnly, CommandKeeps
<1> QED BY <1>1, <1>2 DEF CreateFile

LEMMA CreateRegisterKeeps ==
  ASSUME RegistryTypeOK, RegistryTypeOK', Tidy, ~overwritten, CreateRegister PROVE Tidy'
<1>0. At("create", "creating") /\ Me.step = 3 /\ UNCHANGED <<deleted, confessed, backend>>
  BY DEF CreateRegister, KeepRest
<1>1. CASE /\ registry' = registry
           /\ disk' = IF Me.fresh THEN [disk EXCEPT ![Me.p] = Nothing] ELSE disk
           /\ Return("main")
  <2>1. Me.fresh => registry.state[Me.p] = "absent"
    BY <1>0, CreateFacts DEF CreateInv
  <2> QED BY <1>0, <1>1, <2>1, CreateFails
<1>2. CASE registry' = Me.reg /\ job' = [job EXCEPT !["main"].step = 4] /\ disk' = disk
  <2>0. PICK p, r : p = Me.p /\ r = Me.reg
    OBVIOUS
  <2>1. /\ p \in Personas /\ r \in Registries /\ DeletionInv /\ CreateInv /\ Begun
        /\ MatchesBut(r, p) /\ ~Doomed(p) /\ Me.op = "create"
        /\ r.active \in Personas /\ r.state[r.active] = "ready" /\ r.active = registry.active
        /\ r.state[p] = "provisioning"
    BY <1>0, <2>0, CreateFacts DEF CreateInv
  <2>2. Calm({p}) /\ {p} \in SUBSET Personas
    BY <1>0, <1>2, <2>0, <2>1, CommitCalm
  <2>3. /\ job'["sync"] = job["sync"]
        /\ Me'.op = "create" /\ Me'.at = "creating" /\ Me'.p = p
        /\ Me'.step = 4 /\ Me'.reg = r /\ Me'.fresh = Me.fresh
    BY <1>0, <1>2, <2>0, <2>1, AdvanceRow DEF At
  <2>4. MatchesBut(r, p)'
    BY <2>1, <2>2, CalmBut
  <2>5. CreateInv'
    BY <1>0, <1>2, <2>0, <2>1, <2>3, <2>4 DEF CreateInv, WellFormed, Ready, MatchesBut, Same
  <2>6. WellFormed(registry)' /\ ServesActive' /\ Me'.at \in Doing
    BY <1>0, <1>2, <2>0, <2>1, <2>3 DEF WellFormed, Ready, Tidy, ServesActive, Doing
  <2> QED BY <1>2, <2>0, <2>1, <2>2, <2>3, <2>5, <2>6, CreateOnly, CommandKeeps
<1> QED BY <1>1, <1>2 DEF CreateRegister, Commit, KeepRegistry

LEMMA CreatePublishKeeps ==
  ASSUME RegistryTypeOK, RegistryTypeOK', Tidy, ~overwritten, CreatePublish PROVE Tidy'
<1>0. At("create", "creating") /\ UNCHANGED <<disk, deleted, confessed, backend>>
  BY DEF CreatePublish, KeepFiles, KeepRest
<1>1. CASE registry' = registry /\ Return("main")
  BY <1>0, <1>1, CreateFails
<1>2. CASE registry' = registry /\ Me.step = 5 /\ job' = [job EXCEPT !["main"].step = 6]
  <2>1. /\ job'["sync"] = job["sync"]
        /\ Me'.op = "create" /\ Me'.at = "creating" /\ Me'.p = Me.p
        /\ Me'.step = 6 /\ Me'.reg = Me.reg /\ Me'.fresh = Me.fresh
    BY <1>0, <1>2, AdvanceRow DEF At
  <2>2. MatchesBut(Me.reg, Me.p)'
    BY <1>0, <1>2, <2>1, CreateFacts DEF MatchesBut, Same
  <2>3. CreateInv'
    BY <1>0, <1>2, <2>1, <2>2, CreateFacts DEF CreateInv, WellFormed, Ready
  <2>4. Untouched /\ ServesActive' /\ SeenInv' /\ RecoveryOf("main")'
    BY <1>0, <1>2, <2>1 DEF Untouched, SeenInv, RecoveryOf, Reading, Me, Tidy, ServesActive
  <2> QED BY <2>1, <2>3, <2>4, CreateOnly, MainKeeps
<1>3. CASE /\ registry' = [Me.reg EXCEPT !.state[Me.p] = "ready"]
           /\ Me.step = 6 /\ Return("main")
  <2>0. PICK p, r : p = Me.p /\ r = [Me.reg EXCEPT !.state[p] = "ready"]
    OBVIOUS
  <2>1. /\ p \in Personas /\ Me.reg \in Registries /\ DeletionInv /\ CreateInv /\ Begun
        /\ MatchesBut(Me.reg, p) /\ ~Doomed(p) /\ Me.op = "create"
        /\ Me.reg.active \in Personas /\ Me.reg.state[Me.reg.active] = "ready"
        /\ Me.reg.active = registry.active /\ Me.reg.active # p
    BY <1>0, <2>0, CreateFacts
  <2>2. /\ r \in Registries /\ r.active = Me.reg.active /\ r.state[p] = "ready"
        /\ \A q \in Personas \ {p} : r.state[q] = Me.reg.state[q]
    BY <2>0, <2>1 DEF Registries, States
  <2>3. MatchesBut(r, p)
    BY <2>1, <2>2 DEF MatchesBut
  <2>4. Calm({p}) /\ {p} \in SUBSET Personas
    BY <1>0, <1>3, <2>0, <2>1, <2>2, <2>3, CommitCalm
  <2>5. Whole(p)'
    BY <1>0, <1>3, <2>0, <2>1 DEF CreateInv, Whole
  <2>6. job'["main"] = Idle /\ job'["sync"] = job["sync"]
    BY <1>3 DEF Return, RegistryTypeOK, Threads
  <2>7. CommandInv' /\ Me'.at \in Doing
    BY <2>6, IdlePromises DEF Doing, Idle, Me
  <2>8. WellFormed(registry)' /\ ServesActive'
    BY <1>0, <1>3, <2>0, <2>1, <2>2 DEF WellFormed, Ready, Tidy, ServesActive
  <2> QED BY <1>3, <2>0, <2>2, <2>4, <2>5, <2>6, <2>7, <2>8, CommandKeeps
<1> QED BY <1>1, <1>2, <1>3 DEF CreatePublish, Commit, KeepRegistry

-----------------------------------------------------------------------------
(* save_mindcore_config.                                                      *)

LEMMA SetupOnly ==
  ASSUME Me'.op = "save", SetupInv' PROVE CommandInv'
BY DEF CommandInv, SubjectInv, RenderInv, SwitchInv, DeleteInv, CreateInv, Renders

LEMMA SetupBeginKeeps ==
  ASSUME RegistryTypeOK, RegistryTypeOK', Tidy, ~overwritten, SetupBegin PROVE Tidy'
<1>0. /\ Me.op = "save" /\ Me.at = "acting" /\ Me.seen \in Registries /\ Me.seen \in Saved
      /\ Me.arg \in Names /\ Me = job["main"] /\ Me \in Rows /\ job \in [Threads -> Rows]
      /\ "main" \in Threads /\ "sync" \in Threads /\ disk \in [Personas -> Pieces]
  BY MainType DEF RegistryTypeOK, SetupBegin, Acting, RowOK
<1> DEFINE first == Me.seen = NoRegistry
<1>1. PICK p \in IF Me.seen = NoRegistry THEN Unused ELSE {Me.seen.active} :
        job' = [job EXCEPT !["main"] =
               [@ EXCEPT !.at = "saving", !.step = 1, !.p = p, !.was = Me.seen,
                         !.seen = NoRegistry, !.kept = disk[p], !.keptGlobal = global,
                         !.reg = [Me.seen EXCEPT
                           !.active = p, !.first = IF first THEN p ELSE @,
                           !.state[p] = "ready", !.name[p] = Me.arg]]]
  BY Zenon DEF SetupBegin
<1>2. Untouched /\ backend' = backend /\ registry' = registry /\ deleted' = deleted /\ disk' = disk
      /\ confessed' = confessed
  BY DEF SetupBegin, KeepFiles, KeepRegistry, KeepRest, Untouched
<1>3. /\ Matches(Me.seen) /\ WellFormed(Me.seen) /\ Me.seen.active = registry.active
      /\ \A q \in Personas : Me.seen.state[q] \in {"ready", "provisioning"} =>
           registry.state[q] = Me.seen.state[q] /\ q \notin deleted
  BY <1>0, ActingSees
<1>4. /\ p \in Personas /\ p \notin deleted /\ registry.state[p] \in {"ready", Me.seen.state[p]}
      /\ Me.seen = NoRegistry => backend = None
      /\ Me.seen # NoRegistry => Me.seen.active = p /\ registry.active = p
      /\ ~confessed /\ Me.seen # NoRegistry => Entire(disk[p])
  <2>1. CASE Me.seen = NoRegistry
    <3>1. p \in Unused
      BY <1>1, <2>1
    <3>2. registry.state[p] = "absent" /\ p \in Personas /\ p \notin deleted
      BY <3>1 DEF Unused, Listed
    <3>3. Me.seen.state[p] = "absent" /\ Me.seen.active = None
      BY <2>1, <3>2 DEF NoRegistry
    <3> QED BY <1>3, <2>1, <3>2, <3>3 DEF Tidy, ServesActive
  <2>2. CASE Me.seen # NoRegistry
    <3>1. p = Me.seen.active /\ p \in Personas /\ Me.seen.state[p] = "ready"
      BY <1>1, <1>3, <2>2 DEF WellFormed, Ready
    <3>2. registry.state[p] = "ready" /\ p \notin deleted
      BY <1>3, <3>1
    <3>3. ~confessed => Entire(disk[p])
      BY <3>1, <3>2 DEF Tidy, ReadyIsWhole, Ready, Whole, Entire
    <3> QED BY <1>3, <2>2, <3>1, <3>2, <3>3
  <2> QED BY <2>1, <2>2
<1>5. PICK r : r = [Me.seen EXCEPT !.active = p, !.first = IF first THEN p ELSE @,
                                   !.state[p] = "ready", !.name[p] = Me.arg]
  OBVIOUS
<1>6. r.active = p /\ r.state = [Me.seen.state EXCEPT ![p] = "ready"]
  BY <1>0, <1>4, <1>5 DEF Registries
<1>7. PICK w, k : w = Me.seen /\ k = disk[p]
  OBVIOUS
<1>8. /\ Me'.op = "save" /\ Me'.at = "saving" /\ Me'.step = 1 /\ Me'.p = p
      /\ Me'.was = w /\ Me'.kept = k /\ Me'.reg = r /\ job'["sync"] = job["sync"]
  <2> DEFINE s == [job["main"] EXCEPT !.at = "saving", !.step = 1, !.p = p, !.was = w,
                     !.seen = NoRegistry, !.kept = k, !.keptGlobal = global, !.reg = r]
  <2>1. job' = [job EXCEPT !["main"] = s]
    BY <1>0, <1>1, <1>5, <1>7
  <2>2. /\ s.op = Me.op /\ s.at = "saving" /\ s.step = 1 /\ s.p = p
        /\ s.was = w /\ s.kept = k /\ s.reg = r
    BY <1>0 DEF Rows
  <2> HIDE DEF s
  <2>3. Me' = s /\ job'["sync"] = job["sync"]
    BY <1>0, <2>1 DEF Me
  <2> QED BY <1>0, <2>2, <2>3
<1>9. SetupInv'
  <2>1. MatchesBut(Me.was, Me.p)'
    BY <1>2, <1>3, <1>7, <1>8 DEF MatchesBut, Matches, Same
  <2>2. WellFormed(Me.was)'
    BY <1>3, <1>7, <1>8 DEF WellFormed, Ready
  <2> QED BY <1>2, <1>4, <1>6, <1>7, <1>8, <2>1, <2>2 DEF SetupInv
<1>10. SeenInv' /\ RecoveryOf("main")' /\ ServesActive'
  BY <1>2, <1>8 DEF SeenInv, RecoveryOf, Reading, Me, Tidy, ServesActive
<1> QED BY <1>2, <1>8, <1>9, <1>10, SetupOnly, MainKeeps

LEMMA SetupFacts ==
  ASSUME RegistryTypeOK, Tidy, Me.op = "save", Me.at \in {"saving", "undoing"}
  PROVE  /\ Begun /\ Me.p \in Personas /\ Me.reg \in Registries /\ Me.was \in Registries
         /\ Me.arg \in Names /\ Me.step \in 1 .. 5 /\ Me.kept \in Pieces
         /\ disk \in [Personas -> Pieces] /\ disk[Me.p] \in Pieces
         /\ DeletionInv /\ SetupInv /\ MatchesBut(Me.was, Me.p)
         /\ MatchesBut(Me.reg, Me.p) /\ Me.reg.state[Me.p] = "ready" /\ Me.reg.active = Me.p
         /\ WellFormed(Me.was)
         /\ Me.was = NoRegistry => Me.was.state[Me.p] = "absent" /\ Me.was.active = None /\ backend = None
         /\ Me.was # NoRegistry => /\ Me.was.state[Me.p] = "ready" /\ Me.was.active = Me.p
                                   /\ registry.active = Me.p
         /\ registry.state[Me.p] \in {"ready", Me.was.state[Me.p]}
         /\ registry.state[Me.p] \in {"absent", "ready"}
         /\ ~Doomed(Me.p) /\ Me.p \notin deleted
<1>1. /\ Begun /\ Me.p \in Personas /\ Me.reg \in Registries /\ Me.was \in Registries
      /\ Me.arg \in Names /\ Me.step \in 1 .. 5 /\ Me.kept \in Pieces
      /\ disk \in [Personas -> Pieces] /\ disk[Me.p] \in Pieces
  BY MainType DEF Begun, Changes, Reading, RowOK, RegistryTypeOK
<1>2. DeletionInv /\ SetupInv
  BY DEF Tidy, CommandInv
<1>3. /\ MatchesBut(Me.was, Me.p) /\ WellFormed(Me.was) /\ Me.p \notin deleted
      /\ Me.reg.state = [Me.was.state EXCEPT ![Me.p] = "ready"] /\ Me.reg.active = Me.p
      /\ Me.was = NoRegistry => backend = None
      /\ Me.was # NoRegistry => Me.was.active = Me.p /\ registry.active = Me.p
      /\ registry.state[Me.p] \in {"ready", Me.was.state[Me.p]}
  BY <1>1, <1>2 DEF SetupInv
<1>4. /\ Me.was = NoRegistry => Me.was.state[Me.p] = "absent" /\ Me.was.active = None
      /\ Me.was # NoRegistry => Me.was.state[Me.p] = "ready"
  BY <1>1, <1>3 DEF WellFormed, Ready, NoRegistry
<1>5. MatchesBut(Me.reg, Me.p) /\ Me.reg.state[Me.p] = "ready"
  <2>1. Me.was.state \in [Personas -> States]
    BY <1>1 DEF Registries
  <2> QED BY <1>1, <1>3, <2>1 DEF MatchesBut
<1>6. registry.state[Me.p] \in {"absent", "ready"} /\ ~Doomed(Me.p)
  BY <1>3, <1>4 DEF Doomed
<1> QED BY <1>1, <1>2, <1>3, <1>4, <1>5, <1>6

(* What holds at every step of a setup, whichever of its two registries it    *)
(* puts in place.                                                             *)
LEMMA SetupHolds ==
  ASSUME RegistryTypeOK, RegistryTypeOK', Tidy, Me.op = "save", Me.at \in {"saving", "undoing"},
         NEW p, p = Me.p, NEW P \in SUBSET Personas, P \subseteq {p}, Calm(P),
         UNCHANGED <<backend, deleted>>, registry' \in {registry, Me.reg, Me.was},
         Me'.op = "save", Me'.p = Me.p, Me'.was = Me.was, Me'.reg = Me.reg, Me'.kept = Me.kept,
         Me'.at = "saving" =>
           /\ Me'.step > 1 => disk'[p].credential
           /\ Me'.step > 2 => disk'[p].identity
           /\ Me'.step > 3 => disk'[p].config # None
           /\ Me'.step > 4 => registry'.state[p] = "ready",
         Me'.at = "undoing" /\ Me'.step > 2 /\ ~confessed' => registry'.state[p] = Me.was.state[p]
  PROVE  SetupInv'
<1>1. /\ Begun /\ p \in Personas /\ Me.was \in Registries
      /\ DeletionInv /\ SetupInv /\ MatchesBut(Me.was, p)
      /\ Me.reg.state[p] = "ready" /\ Me.reg.active = p
      /\ Me.was # NoRegistry => Me.was.active = p /\ registry.active = p
      /\ registry.state[p] \in {"ready", Me.was.state[p]}
      /\ p \notin deleted
  BY SetupFacts
<1>2. MatchesBut(Me.was, Me.p)'
  <2>1. PICK r : r = Me.was
    OBVIOUS
  <2>2. MatchesBut(r, p)'
    BY <1>1, <2>1, CalmBut
  <2> QED BY <2>1, <2>2 DEF MatchesBut, Same
<1>3. /\ WellFormed(Me.was)'
      /\ Me.reg.state = [Me.was.state EXCEPT ![p] = "ready"]
      /\ Me.was = NoRegistry => backend' = None
      /\ ~confessed' /\ Me.was # NoRegistry => Entire(Me.kept)
  BY <1>1 DEF SetupInv, Calm, WellFormed, Ready
<1>4. /\ registry'.state[p] \in {"ready", Me.was.state[p]}
      /\ Me.was # NoRegistry => registry'.active = p
  BY <1>1
<1>5. PICK w : w = Me.was
  OBVIOUS
<1> QED BY <1>1, <1>2, <1>3, <1>4 DEF SetupInv

LEMMA SetupServes ==
  ASSUME RegistryTypeOK, RegistryTypeOK', Tidy, Me.op = "save", Me.at \in {"saving", "undoing"},
         backend' = backend, registry' \in {registry, Me.reg, Me.was}
  PROVE  WellFormed(registry)' /\ ServesActive'
<1>1. /\ Me.p \in Personas /\ WellFormed(Me.was)
      /\ Me.reg.state[Me.p] = "ready" /\ Me.reg.active = Me.p
      /\ Me.was = NoRegistry => backend = None
      /\ Me.was # NoRegistry => Me.was.active = Me.p /\ registry.active = Me.p
  BY SetupFacts
<1>2. CASE registry' = registry
  BY <1>2 DEF Tidy, WellFormed, Ready, ServesActive
<1>3. CASE registry' = Me.reg
  BY <1>1, <1>3 DEF Tidy, WellFormed, Ready, ServesActive
<1>4. CASE registry' = Me.was
  BY <1>1, <1>4 DEF Tidy, WellFormed, Ready, ServesActive
<1> QED BY <1>2, <1>3, <1>4

LEMMA SetupReturns ==
  ASSUME RegistryTypeOK, RegistryTypeOK', Tidy, ~overwritten,
         Me.op = "save", Me.at \in {"saving", "undoing"},
         backend' = backend, registry' \in {registry, Me.reg, Me.was},
         NEW P \in SUBSET Personas, Calm(P),
         \A q \in P : registry'.state[q] = "deleting" => Named(q)',
         ~confessed' => \A q \in P : registry'.state[q] = "ready" => Whole(q)',
         Return("main")
  PROVE  Tidy'
<1>1. job'["main"] = Idle /\ job'["sync"] = job["sync"]
  BY DEF Return, RegistryTypeOK, Threads
<1>2. CommandInv' /\ Me'.at \in Doing
  BY <1>1, IdlePromises DEF Doing, Idle, Me
<1>3. WellFormed(registry)' /\ ServesActive'
  BY SetupServes
<1> QED BY <1>1, <1>2, <1>3, CommandKeeps

(* The files of a persona whose setup goes on are its own.                    *)
LEMMA OwnFilesCalm ==
  ASSUME RegistryTypeOK, NEW p \in Personas, ~Doomed(p), UNCHANGED <<registry, deleted>>,
         confessed => confessed', \A q \in Personas \ {p} : disk'[q] = disk[q]
  PROVE  Calm({p})
<1>1. \A q \in Personas \ {p} : (Bare(q) => Bare(q)') /\ (Named(q) => Named(q)')
  BY DEF Bare, Named
<1>2. p \notin deleted'
  BY DEF Doomed
<1> QED BY <1>1, <1>2 DEF Calm

LEMMA PutEffect ==
  ASSUME RegistryTypeOK, Me.p \in Personas, NEW part,
         part \in {"credential", "identity", "config", "registry", "global"},
         NEW d, NEW r, NEW g, PutPart(part, d, r, g)
  PROVE  /\ \A q \in Personas \ {Me.p} : disk'[q] = disk[q]
         /\ disk'[Me.p].credential = IF part = "credential" THEN d.credential ELSE disk[Me.p].credential
         /\ disk'[Me.p].identity = IF part = "identity" THEN d.identity ELSE disk[Me.p].identity
         /\ disk'[Me.p].config = IF part = "config" THEN d.config ELSE disk[Me.p].config
         /\ registry' = IF part = "registry" THEN r ELSE registry
<1>1. disk \in [Personas -> Pieces] /\ disk[Me.p] \in Pieces
  BY DEF RegistryTypeOK
<1>2. registry' = IF part = "registry" THEN r ELSE registry
  BY DEF PutPart, Commit, KeepRegistry
<1>3. CASE part = "credential"
  <2>1. disk' = [disk EXCEPT ![Me.p].credential = d.credential]
    BY <1>3 DEF PutPart
  <2> QED BY <1>1, <1>2, <1>3, <2>1 DEF Pieces
<1>4. CASE part = "identity"
  <2>1. disk' = [disk EXCEPT ![Me.p].identity = d.identity]
    BY <1>4 DEF PutPart
  <2> QED BY <1>1, <1>2, <1>4, <2>1 DEF Pieces
<1>5. CASE part = "config"
  <2>1. disk' = [disk EXCEPT ![Me.p].config = d.config]
    BY <1>5 DEF PutPart
  <2> QED BY <1>1, <1>2, <1>5, <2>1 DEF Pieces
<1>6. CASE part \in {"registry", "global"}
  BY <1>2, <1>6 DEF PutPart
<1> QED BY <1>3, <1>4, <1>5, <1>6

LEMMA SetupPutKeeps ==
  ASSUME RegistryTypeOK, RegistryTypeOK', Tidy, ~overwritten, SetupPut PROVE Tidy'
<1>0. Me.op = "save" /\ Me.at = "saving" /\ UNCHANGED <<backend, deleted, confessed>>
  BY DEF SetupPut, At, KeepRest
<1>p. PICK p : p = Me.p
  OBVIOUS
<1>1. /\ Begun /\ p \in Personas /\ {p} \in SUBSET Personas /\ Me.step \in 1 .. 5
      /\ Me.arg \in Names /\ disk \in [Personas -> Pieces] /\ DeletionInv /\ SetupInv
      /\ Me.reg \in Registries /\ MatchesBut(Me.reg, p) /\ Me.reg.state[p] = "ready"
      /\ registry.state[p] \in {"absent", "ready"} /\ p \notin deleted /\ ~Doomed(p)
  <2>1. ~Doomed(p)
    BY <1>0, <1>p, SetupFacts DEF Doomed
  <2> QED BY <1>0, <1>p, <2>1, SetupFacts
<1>2. /\ Me.step > 1 => disk[p].credential
      /\ Me.step > 2 => disk[p].identity
      /\ Me.step > 3 => disk[p].config # None
      /\ Me.step > 4 => registry.state[p] = "ready"
  BY <1>0, <1>p, <1>1 DEF SetupInv
<1>3. CASE KeepFiles /\ KeepRegistry /\ Return("main")
  <2>1. Untouched /\ ServesActive'
    BY <1>0, <1>3 DEF Untouched, KeepFiles, KeepRegistry, Tidy, ServesActive
  <2> QED BY <1>3, <2>1, ReturnKeeps
<1>4. CASE /\ KeepFiles /\ KeepRegistry
           /\ job' = [job EXCEPT !["main"] = [@ EXCEPT !.at = "undoing", !.step = 1]]
  <2>1. Untouched /\ backend' = backend /\ registry' = registry /\ ServesActive'
    BY <1>0, <1>4 DEF Untouched, KeepFiles, KeepRegistry, Tidy, ServesActive
  <2>2. /\ Me'.op = "save" /\ Me'.at = "undoing" /\ Me'.step = 1 /\ Me'.p = Me.p
        /\ Me'.was = Me.was /\ Me'.kept = Me.kept /\ Me'.reg = Me.reg /\ job'["sync"] = job["sync"]
    <3>1. Me = job["main"] /\ Me \in Rows /\ job \in [Threads -> Rows] /\ "main" \in Threads
          /\ "sync" \in Threads
      BY MainType DEF RegistryTypeOK
    <3> DEFINE s == [job["main"] EXCEPT !.at = "undoing", !.step = 1]
    <3>2. /\ s.op = Me.op /\ s.at = "undoing" /\ s.step = 1 /\ s.p = Me.p
          /\ s.was = Me.was /\ s.kept = Me.kept /\ s.reg = Me.reg
      BY <3>1 DEF Rows
    <3>3. job' = [job EXCEPT !["main"] = s]
      BY <1>4
    <3> HIDE DEF s
    <3>4. Me' = s /\ job'["sync"] = job["sync"]
      BY <3>1, <3>3 DEF Me
    <3> QED BY <1>0, <3>2, <3>4
  <2>3. Calm({}) /\ {} \subseteq {p}
    BY <2>1, UntouchedCalm
  <2>4. SetupInv'
    BY <1>0, <1>p, <2>1, <2>2, <2>3, SetupHolds
  <2>5. SeenInv' /\ RecoveryOf("main")'
    BY <2>2 DEF SeenInv, RecoveryOf, Reading, Me
  <2> QED BY <2>1, <2>2, <2>4, <2>5, SetupOnly, MainKeeps
<1>5. CASE /\ PutPart(SetupParts[Me.step],
                     [config |-> Projection(Me.arg), identity |-> TRUE, credential |-> TRUE],
                     Me.reg, TRUE)
           /\ IF Me.step = 5 THEN Return("main") ELSE job' = [job EXCEPT !["main"].step = @ + 1]
  <2>1. /\ \A q \in Personas \ {p} : disk'[q] = disk[q]
        /\ disk'[p].credential <=> (Me.step = 1 \/ disk[p].credential)
        /\ disk'[p].identity <=> (Me.step = 2 \/ disk[p].identity)
        /\ disk'[p].config = IF Me.step = 3 THEN Projection(Me.arg) ELSE disk[p].config
        /\ registry' = IF Me.step = 4 THEN Me.reg ELSE registry
    <3> DEFINE d == [config |-> Projection(Me.arg), identity |-> TRUE, credential |-> TRUE]
    <3>1. PICK part, r, g : part = SetupParts[Me.step] /\ r = Me.reg /\ g = TRUE
      OBVIOUS
    <3>2. /\ part \in {"credential", "identity", "config", "registry", "global"}
          /\ part = "credential" <=> Me.step = 1
          /\ part = "identity" <=> Me.step = 2
          /\ part = "config" <=> Me.step = 3
          /\ part = "registry" <=> Me.step = 4
      BY <1>1, <3>1 DEF SetupParts
    <3>3. d.config = Projection(Me.arg) /\ d.identity = TRUE /\ d.credential = TRUE
      OBVIOUS
    <3>4. PutPart(part, d, r, g)
      BY <1>5, <3>1
    <3> HIDE DEF d
    <3>5. /\ \A q \in Personas \ {Me.p} : disk'[q] = disk[q]
          /\ disk'[Me.p].credential = IF part = "credential" THEN d.credential ELSE disk[Me.p].credential
          /\ disk'[Me.p].identity = IF part = "identity" THEN d.identity ELSE disk[Me.p].identity
          /\ disk'[Me.p].config = IF part = "config" THEN d.config ELSE disk[Me.p].config
          /\ registry' = IF part = "registry" THEN r ELSE registry
      BY <1>p, <1>1, <3>2, <3>4, PutEffect
    <3> QED BY <1>p, <3>1, <3>2, <3>3, <3>5
  <2>2. Projection(Me.arg) # None
    <3>1. Projection(Me.arg) \in [name : Names \cup {None}, tuned : BOOLEAN]
      BY <1>1 DEF Projection
    <3> QED BY <3>1, RegistryAssumption
  <2>3. Calm({p})
    <3>1. CASE registry' = registry
      BY <1>0, <1>1, <2>1, <3>1, OwnFilesCalm
    <3>2. CASE registry' = Me.reg /\ Me.step = 4
      <4>1. \A q \in Personas \ {p} : (Bare(q) => Bare(q)') /\ (Named(q) => Named(q)')
        BY <2>1 DEF Bare, Named
      <4>2. \A q \in Personas \ {p} :
              \/ registry'.state[q] = registry.state[q]
              \/ q \in deleted' /\ registry.state[q] \in Gone /\ registry'.state[q] \in Gone
        BY <1>0, <1>1, <3>2 DEF MatchesBut, Same, DeletionInv
      <4> QED BY <1>0, <1>1, <2>1, <4>1, <4>2 DEF Calm
    <3> QED BY <2>1, <3>1, <3>2
  <2>4. registry'.state[p] # "deleting" /\ registry' \in {registry, Me.reg, Me.was}
    BY <1>1, <2>1
  <2>5. ~confessed' /\ registry'.state[p] = "ready" => Whole(p)'
    <3>1. CASE registry.state[p] = "ready"
      <4>1. ~confessed => Whole(p)
        BY <1>1, <3>1 DEF Tidy, ReadyIsWhole, Ready
      <4> QED BY <1>0, <2>1, <2>2, <4>1 DEF Whole
    <3>2. CASE registry.state[p] # "ready" /\ Me.step = 4
      BY <1>2, <2>1, <3>2 DEF Whole
    <3>3. CASE registry.state[p] # "ready" /\ Me.step # 4
      BY <2>1, <3>3
    <3> QED BY <3>1, <3>2, <3>3
  <2>6. CASE Return("main")
    BY <1>0, <1>1, <2>3, <2>4, <2>5, <2>6, SetupReturns
  <2>7. CASE Me.step # 5 /\ job' = [job EXCEPT !["main"].step = Me.step + 1]
    <3>1. Me.step + 1 \in 1 .. 6
      BY <1>1
    <3>2. /\ job'["sync"] = job["sync"]
          /\ Me'.op = Me.op /\ Me'.at = Me.at /\ Me'.p = Me.p /\ Me'.step = Me.step + 1
          /\ Me'.reg = Me.reg /\ Me'.was = Me.was /\ Me'.kept = Me.kept
      BY <2>7, <3>1, AdvanceRow
    <3>3. /\ Me'.step > 1 => disk'[p].credential
          /\ Me'.step > 2 => disk'[p].identity
          /\ Me'.step > 3 => disk'[p].config # None
          /\ Me'.step > 4 => registry'.state[p] = "ready"
      BY <1>1, <1>2, <2>1, <2>2, <2>7, <3>2
    <3>4. SetupInv'
      BY <1>0, <1>p, <1>1, <2>3, <2>4, <3>2, <3>3, SetupHolds
    <3>5. WellFormed(registry)' /\ ServesActive' /\ Me'.at \in Doing
      BY <1>0, <2>4, <3>2, SetupServes DEF Doing
    <3> QED BY <1>0, <1>1, <2>3, <2>4, <2>5, <3>2, <3>4, <3>5, SetupOnly, CommandKeeps
  <2> QED BY <1>5, <2>6, <2>7 DEF Me
<1> QED BY <1>3, <1>4, <1>5 DEF SetupPut

LEMMA SetupUndoKeeps ==
  ASSUME RegistryTypeOK, RegistryTypeOK', Tidy, ~overwritten, SetupUndo PROVE Tidy'
<1>0. Me.op = "save" /\ Me.at = "undoing" /\ UNCHANGED <<backend, deleted>>
  BY DEF SetupUndo, At
<1>p. PICK p : p = Me.p
  OBVIOUS
<1>1. /\ Begun /\ p \in Personas /\ {p} \in SUBSET Personas /\ Me.step \in 1 .. 5
      /\ disk \in [Personas -> Pieces] /\ DeletionInv /\ SetupInv
      /\ Me.was \in Registries /\ MatchesBut(Me.was, p)
      /\ Me.was = NoRegistry => Me.was.state[p] = "absent"
      /\ Me.was # NoRegistry => Me.was.state[p] = "ready"
      /\ registry.state[p] \in {"ready", Me.was.state[p]}
      /\ p \notin deleted /\ ~Doomed(p)
  <2>1. ~Doomed(p)
    BY <1>0, <1>p, SetupFacts DEF Doomed
  <2> QED BY <1>0, <1>p, <2>1, SetupFacts
<1>2. /\ ~confessed /\ Me.was # NoRegistry => Entire(Me.kept)
      /\ Me.step > 2 /\ ~confessed => registry.state[p] = Me.was.state[p]
  BY <1>0, <1>p, <1>1 DEF SetupInv
<1>3. \/ /\ PutPart(UndoParts[Me.step], Me.kept, Me.was, Me.keptGlobal)
         /\ UNCHANGED confessed
      \/ KeepFiles /\ KeepRegistry /\ confessed' = TRUE
  BY DEF SetupUndo
<1>4. /\ \A q \in Personas \ {p} : disk'[q] = disk[q]
      /\ confessed => confessed'
      /\ registry' = registry \/ (Me.step = 2 /\ registry' = Me.was)
      /\ ~confessed' =>
           /\ Me.step = 2 => registry' = Me.was
           /\ disk'[p].identity = IF Me.step = 3 THEN Me.kept.identity ELSE disk[p].identity
           /\ disk'[p].config = IF Me.step = 4 THEN Me.kept.config ELSE disk[p].config
           /\ disk'[p].credential = IF Me.step = 5 THEN Me.kept.credential ELSE disk[p].credential
  <2>1. CASE KeepFiles /\ KeepRegistry /\ confessed' = TRUE
    BY <2>1 DEF KeepFiles, KeepRegistry
  <2>2. CASE /\ PutPart(UndoParts[Me.step], Me.kept, Me.was, Me.keptGlobal)
             /\ UNCHANGED confessed
    <3>1. PICK part, d, r, g : /\ part = UndoParts[Me.step] /\ d = Me.kept /\ r = Me.was
                               /\ g = Me.keptGlobal
      OBVIOUS
    <3>2. /\ part \in {"credential", "identity", "config", "registry", "global"}
          /\ part = "identity" <=> Me.step = 3
          /\ part = "config" <=> Me.step = 4
          /\ part = "credential" <=> Me.step = 5
          /\ part = "registry" <=> Me.step = 2
      BY <1>1, <3>1 DEF UndoParts
    <3>3. PutPart(part, d, r, g)
      BY <2>2, <3>1
    <3>4. /\ \A q \in Personas \ {Me.p} : disk'[q] = disk[q]
          /\ disk'[Me.p].credential = IF part = "credential" THEN d.credential ELSE disk[Me.p].credential
          /\ disk'[Me.p].identity = IF part = "identity" THEN d.identity ELSE disk[Me.p].identity
          /\ disk'[Me.p].config = IF part = "config" THEN d.config ELSE disk[Me.p].config
          /\ registry' = IF part = "registry" THEN r ELSE registry
      <4>1. Me.p \in Personas
        BY <1>p, <1>1
      <4> QED BY <4>1, <3>2, <3>3, PutEffect
    <3> QED BY <1>p, <2>2, <3>1, <3>2, <3>4
  <2> QED BY <1>3, <2>1, <2>2
<1>5. Calm({p})
  <2>1. CASE registry' = registry
    BY <1>0, <1>1, <1>4, <2>1, OwnFilesCalm
  <2>2. CASE registry' = Me.was
    <3>1. \A q \in Personas \ {p} : (Bare(q) => Bare(q)') /\ (Named(q) => Named(q)')
      BY <1>4 DEF Bare, Named
    <3>2. \A q \in Personas \ {p} :
            \/ registry'.state[q] = registry.state[q]
            \/ q \in deleted' /\ registry.state[q] \in Gone /\ registry'.state[q] \in Gone
      BY <1>0, <1>1, <2>2 DEF MatchesBut, Same, DeletionInv
    <3> QED BY <1>0, <1>1, <1>4, <3>1, <3>2 DEF Calm
  <2> QED BY <1>4, <2>1, <2>2
<1>6. registry'.state[p] # "deleting" /\ registry' \in {registry, Me.reg, Me.was}
  BY <1>1, <1>4
<1>7. ~confessed' /\ registry'.state[p] = "ready" => Whole(p)'
  <2> SUFFICES ASSUME ~confessed', registry'.state[p] = "ready" PROVE Whole(p)'
    OBVIOUS
  <2>1. registry.state[p] = "ready" /\ ~confessed
    BY <1>1, <1>4
  <2>2. Whole(p)
    BY <1>1, <2>1 DEF Tidy, ReadyIsWhole, Ready
  <2>3. Me.step > 2 => Entire(Me.kept)
    BY <1>1, <1>2, <2>1
  <2>4. CASE Me.step > 2
    BY <1>4, <2>2, <2>3, <2>4 DEF Whole, Entire
  <2>5. CASE ~(Me.step > 2)
    <3>1. Me.step # 3 /\ Me.step # 4 /\ Me.step # 5
      BY <1>1, <2>5
    <3> QED BY <1>4, <2>2, <3>1 DEF Whole
  <2> QED BY <2>4, <2>5
<1>8. CASE Return("main")
  BY <1>0, <1>1, <1>5, <1>6, <1>7, <1>8, SetupReturns
<1>9. CASE Me.step # 5 /\ job' = [job EXCEPT !["main"].step = Me.step + 1]
  <2>1. Me.step + 1 \in 1 .. 6
    BY <1>1
  <2>2. /\ job'["sync"] = job["sync"]
        /\ Me'.op = Me.op /\ Me'.at = Me.at /\ Me'.p = Me.p /\ Me'.step = Me.step + 1
        /\ Me'.reg = Me.reg /\ Me'.was = Me.was /\ Me'.kept = Me.kept
    BY <1>9, <2>1, AdvanceRow
  <2>3. Me'.step > 2 /\ ~confessed' => registry'.state[p] = Me.was.state[p]
    BY <1>1, <1>2, <1>4, <2>2
  <2>4. SetupInv'
    BY <1>0, <1>p, <1>1, <1>5, <1>6, <2>2, <2>3, SetupHolds
  <2>5. WellFormed(registry)' /\ ServesActive' /\ Me'.at \in Doing
    BY <1>0, <1>6, <2>2, SetupServes DEF Doing
  <2> QED BY <1>0, <1>1, <1>5, <1>6, <1>7, <2>2, <2>4, <2>5, SetupOnly, CommandKeeps
<1> QED BY <1>8, <1>9 DEF SetupUndo, Me

-----------------------------------------------------------------------------
(* The invariant.                                                             *)

LEMMA InvBegins == RegistryInit => RegistryInv
<1> SUFFICES ASSUME RegistryInit PROVE RegistryInv
  OBVIOUS
<1>1. RegistryTypeOK
  BY TypesBegin
<1>2. deleted = {} /\ backend = None /\ confessed = FALSE /\ Me = StartUp /\ job["sync"] = Idle
      /\ job["main"] = StartUp
  BY DEF RegistryInit, Me, Threads
<1>3. /\ StartUp.at = "starting" /\ StartUp.op = "start" /\ StartUp.step = 0 /\ Idle.at = "idle"
  BY DEF StartUp, Idle
<1>4. SeenInv /\ CommandInv /\ RecoveryInv
  BY <1>2, <1>3 DEF SeenInv, CommandInv, SubjectInv, RenderInv, SwitchInv, DeleteInv, CreateInv,
     SetupInv, Begun, Renders, Reading, RecoveryInv, RecoveryOf, Threads
<1>5. /\ WellFormed(registry)
      /\ \A q \in Personas : registry.state[q] # "deleting"
      /\ \A q \in Personas : registry.state[q] = "ready" => Whole(q)
  <2>1. CASE registry = NoRegistry
    BY <2>1 DEF WellFormed, NoRegistry
  <2>2. CASE registry # NoRegistry
    <3>1. PICK n \in [Personas -> Names], f \in Personas :
            /\ registry = [NoRegistry EXCEPT !.active = f, !.first = f, !.name = n,
                                             !.state = [p \in Personas |-> "ready"]]
            /\ disk = [p \in Personas |->
                         [Nothing EXCEPT !.config = Projection(n[p]), !.identity = TRUE,
                                         !.credential = TRUE]]
      BY <2>2 DEF RegistryInit
    <3>2. registry.active = f /\ \A q \in Personas : registry.state[q] = "ready"
      BY <3>1 DEF NoRegistry
    <3>3. \A q \in Personas : Projection(n[q]) # None
      <4>1. \A q \in Personas : Projection(n[q]) \in [name : Names \cup {None}, tuned : BOOLEAN]
        BY DEF Projection
      <4> QED BY <4>1, RegistryAssumption
    <3>4. \A q \in Personas : Whole(q)
      BY <3>1, <3>3 DEF Whole, Nothing
    <3> QED BY <3>2, <3>4, SMTT(60) DEF WellFormed, Ready
  <2> QED BY <2>1, <2>2
<1>6. DeletionInv /\ ServesActive /\ ReadyIsWhole
  BY <1>2, <1>5 DEF DeletionInv, ServesActive, ReadyIsWhole, Ready
<1> QED BY <1>1, <1>4, <1>5, <1>6 DEF RegistryInv, Tidy

(* What manual_sync_action has overwritten stays overwritten.                 *)
LEMMA OverwrittenStays ==
  ASSUME RegistryTypeOK, [RegistryNext]_registryVars, overwritten PROVE overwritten'
<1>1. CASE UNCHANGED registryVars
  BY <1>1, SMTT(60) DEF registryVars
<1>2. CASE Call \/ CallSync \/ Crash \/ BackendDies \/ \E t \in Threads : ReadOnly(t)
  BY <1>2, ZenonT(60) DEF Call, CallSync, Crash, BackendDies, ReadOnly, KeepRegistry
<1>3. CASE \E t \in Threads : Registry(t)
  BY <1>3, ZenonT(60) DEF Registry, Load, Project, RecoverOne, RecoverSave, KeepRegistry
<1>4. CASE Start \/ Complete \/ Choose \/ Launch \/ Stop
  BY <1>4 DEF Start, Complete, Choose, Launch, Stop, KeepRegistry
<1>5. CASE \/ SwitchBegin \/ UpdateBegin \/ SettingsBegin \/ DeleteBegin \/ AvatarBegin
           \/ CreateBegin \/ SetupBegin
  <2>1. KeepRegistry
    <3>1. CASE SwitchBegin \/ UpdateBegin \/ SettingsBegin \/ DeleteBegin \/ AvatarBegin
      BY <3>1 DEF SwitchBegin, UpdateBegin, SettingsBegin, DeleteBegin, AvatarBegin, Begin,
         Refuse
    <3>2. CASE CreateBegin \/ SetupBegin
      BY <3>2 DEF CreateBegin, SetupBegin, Refuse
    <3> QED BY <1>5, <3>1, <3>2
  <2> QED BY <2>1 DEF KeepRegistry
<1>6. CASE \/ SwitchSave \/ SwitchUndo \/ UpdateWrite \/ UpdateSave \/ UpdateRestore \/ UpdateUndo
           \/ SettingsWrite \/ SettingsUndo
  <2>1. CASE SwitchSave \/ SwitchUndo \/ UpdateWrite \/ UpdateSave
    BY <2>1 DEF SwitchSave, SwitchUndo, UpdateWrite, UpdateSave, Commit, KeepRegistry
  <2>2. CASE UpdateRestore \/ UpdateUndo \/ SettingsWrite \/ SettingsUndo
    BY <2>2 DEF UpdateRestore, UpdateUndo, SettingsWrite, SettingsUndo, Commit, KeepRegistry
  <2> QED BY <1>6, <2>1, <2>2
<1>7. CASE \/ CreateFile \/ CreateRegister \/ CreatePublish \/ DeleteMark \/ DeleteErase
           \/ DeleteForget \/ AvatarFile \/ AvatarSave
  <2>1. CASE CreateFile \/ CreateRegister \/ CreatePublish \/ DeleteMark
    BY <2>1 DEF CreateFile, CreateRegister, CreatePublish, DeleteMark, Commit, KeepRegistry
  <2>2. CASE DeleteErase \/ DeleteForget \/ AvatarFile \/ AvatarSave
    BY <2>2 DEF DeleteErase, DeleteForget, AvatarFile, AvatarSave, Commit, KeepRegistry
  <2> QED BY <1>7, <2>1, <2>2
<1>8. CASE SetupPut \/ SetupUndo
  BY <1>8 DEF SetupPut, SetupUndo, PutPart, Commit, KeepRegistry
<1> QED BY <1>1, <1>2, <1>3, <1>4, <1>5, <1>6, <1>7, <1>8 DEF RegistryNext

LEMMA InvKept == RegistryInv /\ [RegistryNext]_registryVars => RegistryInv'
<1> SUFFICES ASSUME RegistryInv, [RegistryNext]_registryVars PROVE RegistryInv'
  OBVIOUS
<1>1. RegistryTypeOK /\ RegistryTypeOK'
  BY TypesKept DEF RegistryInv
<1>2. CASE overwritten'
  BY <1>1, <1>2 DEF RegistryInv
<1>3. CASE ~overwritten'
  <2>1. Tidy /\ ~overwritten
    BY <1>1, <1>3, OverwrittenStays DEF RegistryInv
  <2>2. CASE UNCHANGED registryVars
    <3>1. Untouched /\ backend' = backend /\ job' = job
      BY <2>2 DEF registryVars, Untouched
    <3>2. Me' = Me /\ registry' = registry
      BY <3>1 DEF Me, Untouched
    <3>3. RecoveryOf("sync")'
      BY <1>1, <2>1, <3>1, MainType, UntouchedKeeps
    <3> QED BY <1>1, <2>1, <3>1, <3>2, <3>3, SyncKeeps, UntouchedCalm DEF Tidy, WellFormed, Ready, RegistryInv
  <2>3. CASE Call \/ CallSync \/ Crash \/ BackendDies \/ \E t \in Threads : ReadOnly(t)
    BY <1>1, <2>1, <2>3, CallKeeps, OthersKeep, ReadOnlyKeeps DEF RegistryInv
  <2>4. CASE \E t \in Threads : Registry(t)
    BY <1>1, <1>3, <2>1, <2>4, LoadKeeps, ProjectKeeps, RecoverOneKeeps, RecoverSaveKeeps
       DEF Registry, RegistryInv
  <2>5. CASE Start \/ Complete \/ Choose \/ Launch \/ Stop
    BY <1>1, <2>1, <2>5, StartKeeps, CompleteKeeps, ChooseKeeps, LaunchKeeps, StopKeeps DEF RegistryInv
  <2>6. CASE \/ SwitchBegin \/ UpdateBegin \/ SettingsBegin \/ DeleteBegin \/ AvatarBegin
             \/ CreateBegin \/ SetupBegin
    BY <1>1, <2>1, <2>6, RendersBegin, DeleteBegins, CreateBeginKeeps, SetupBeginKeeps DEF RegistryInv
  <2>7. CASE \/ SwitchSave \/ SwitchUndo \/ UpdateWrite \/ UpdateSave \/ UpdateRestore \/ UpdateUndo
             \/ SettingsWrite \/ SettingsUndo
    BY <1>1, <2>1, <2>7, SwitchKeeps, UpdateKeeps, UpdateUndoKeeps, SettingsKeeps DEF RegistryInv
  <2>8. CASE \/ CreateFile \/ CreateRegister \/ CreatePublish \/ DeleteMark \/ DeleteErase
             \/ DeleteForget \/ AvatarFile \/ AvatarSave \/ SetupPut \/ SetupUndo
    BY <1>1, <2>1, <2>8, CreateFileKeeps, CreateRegisterKeeps, CreatePublishKeeps, DeleteMarkKeeps,
       DeleteEraseKeeps, DeleteForgetKeeps, AvatarKeeps, SetupPutKeeps, SetupUndoKeeps DEF RegistryInv
  <2> QED BY <2>2, <2>3, <2>4, <2>5, <2>6, <2>7, <2>8 DEF RegistryNext
<1> QED BY <1>2, <1>3

(* Until manual_sync_action saves a registry over one it had not read, every  *)
(* command holds what the files still say: the persona it is about, the       *)
(* registry it will put back, what it has written (commands of main.rs).      *)
THEOREM RegistryInvariant == RegistrySpec => []RegistryInv
BY InvBegins, InvKept, PTL DEF RegistrySpec

(* When no command is under way, the backend that runs serves the persona the *)
(* registry names as active, whatever failed in a switch, a rename, a         *)
(* rollback or the application itself (switch_active_persona, start_sidecar). *)
THEOREM BackendServesActive == RegistrySpec => []RunningServesActive
<1>1. RegistryInv => RunningServesActive
  BY DEF RegistryInv, Tidy, ServesActive, RunningServesActive
<1> QED BY <1>1, RegistryInvariant, PTL

(* A persona registered as ready has its configuration, its identity and its  *)
(* credential, unless a rollback has reported itself incomplete               *)
(* (provision_persona_with, save_mindcore_config_with).                       *)
THEOREM ReadyPersonasWhole == RegistrySpec => []ReadyIsWhole
<1>1. RegistryInv => ReadyIsWhole
  BY DEF RegistryInv, Tidy, ReadyIsWhole
<1> QED BY <1>1, RegistryInvariant, PTL

(* A persona whose deletion was completed has left no configuration, no       *)
(* credential and no avatar, however often the deletion was interrupted and   *)
(* taken up again by either thread (recover_deleting_personas_with).          *)
THEOREM DeletedPersonasGone == RegistrySpec => []DeletedLeavesNothing
<1>1. RegistryInv => DeletedLeavesNothing
  BY DEF RegistryInv, Tidy, DeletionInv, Bare, DeletedLeavesNothing
<1> QED BY <1>1, RegistryInvariant, PTL

==============================================================================
