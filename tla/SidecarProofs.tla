--------------------------- MODULE SidecarProofs ---------------------------
(* Proofs about SidecarLifecycle, for every set of threads and personas, and *)
(* every number of processes and troubles.                                   *)
EXTENDS SidecarLifecycle, TLAPS

---------------------------------------------------------------------------
(* The inductive invariant.  Generations identify processes only among those *)
(* of the living application: they start again when it is started again.     *)

\* A generation is current exactly in the three busy phases, and the active
\* process is the one of that generation.
LifecycleInv ==
  /\ lifecycle.current_generation = 0 <=> lifecycle.phase \in {"Stopped", "Failed"}
  /\ lifecycle.active # 0 =>
       /\ lifecycle.active <= spawned
       /\ child[lifecycle.active].parent
       /\ child[lifecycle.active].heard
       /\ lifecycle.current_generation # 0
       /\ child[lifecycle.active].generation = lifecycle.current_generation
  /\ lifecycle.phase = "Running" =>
       lifecycle.active # 0 /\ child[lifecycle.active].state # "starting"

\* A generation belongs to one process, which its task stops hearing of for
\* good, and is gone when that task is told of its end.
ChildInv ==
  /\ \A s \in Spawns :
       /\ child[s].parent => s <= spawned /\ child[s].generation \in 1 .. lifecycle.next_generation
       /\ child[s].heard => child[s].parent
       /\ child[s].event = "terminated" => child[s].state = "gone"
  /\ \A s, r \in Spawns :
       child[s].parent /\ child[r].parent /\ child[s].generation = child[r].generation => s = r

Owns(c) == call[c].at \in StartSteps \ {"sharing"}
HasChild(c) == call[c].at \in {"attaching", "awaiting", "marking"}

\* A generation is drawn by one thread, which spawns one process for it.
CallInv ==
  /\ \A c \in Callers :
       /\ Owns(c) => call[c].generation \in 1 .. lifecycle.next_generation
       /\ Owns(c) /\ ~HasChild(c) =>
            \A s \in Spawns : child[s].parent => child[s].generation # call[c].generation
       /\ HasChild(c) => /\ call[c].child \in 1 .. spawned
                         /\ child[call[c].child].parent
                         /\ child[call[c].child].generation = call[c].generation
       /\ call[c].at = "marking" => child[call[c].child].state # "starting"
  /\ \A c, d \in Callers :
       Owns(c) /\ Owns(d) /\ call[c].generation = call[d].generation => c = d

SidecarInv ==
  SidecarTypeOK /\ LifecycleInv /\ ChildInv /\ CallInv /\ LostOnlyByReadError
---------------------------------------------------------------------------
LEMMA InitInv == SidecarInit => SidecarInv
BY SidecarAssumption
   DEF SidecarInit, SidecarInv, SidecarTypeOK, ChildRow, CallRow, Lifecycles, Phases,
       Fresh, NoChild, Resting, Between, StartSteps, StopSteps, Spawns, LifecycleInv, ChildInv,
       CallInv, LostOnlyByReadError, Owns, HasChild, Alive

---------------------------------------------------------------------------
(* What the operators return. *)

LEMMA ClearedType ==
  ASSUME NEW l \in Lifecycles, NEW to \in {"Stopped", "Failed"}
  PROVE  /\ Cleared(l, to) \in Lifecycles
         /\ Cleared(l, to) = [phase |-> to, next_generation |-> l.next_generation,
                              current_generation |-> 0, active |-> 0]
BY SidecarAssumption DEF Cleared, Lifecycles, Phases

LEMMA BegunType ==
  ASSUME NEW l \in Lifecycles, l.next_generation <= MaxSpawns
  PROVE  /\ BeginStart(l) \in Lifecycles
         /\ BeginStart(l) = [phase |-> "Starting", next_generation |-> l.next_generation + 1,
                             current_generation |-> l.next_generation + 1, active |-> 0]
BY SidecarAssumption DEF BeginStart, Lifecycles, Phases

LEMMA DeadType ==
  ASSUME NEW r \in ChildRow
  PROVE  /\ Dead(r) \in ChildRow
         /\ Dead(r).parent = r.parent /\ Dead(r).heard = r.heard
         /\ Dead(r).generation = r.generation /\ Dead(r).state = "gone"
         /\ Dead(r).event = IF r.event = "none" THEN "terminated" ELSE r.event
BY DEF Dead, ChildRow

LEMMA KilledType ==
  ASSUME child \in [Spawns -> ChildRow], NEW s \in 0 .. MaxSpawns
  PROVE  /\ Killed(s) \in [Spawns -> ChildRow]
         /\ \A r \in Spawns : Killed(s)[r] = IF r = s THEN Dead(child[r]) ELSE child[r]
BY DeadType, SidecarAssumption DEF Killed, Spawns

Ats == {"idle", "done"} \cup StartSteps \cup StopSteps

LEMMA ToFacts ==
  ASSUME call \in [Callers -> CallRow], NEW c \in Callers, NEW at \in Ats, To(c, at)
  PROVE  /\ call' \in [Callers -> CallRow]
         /\ \A d \in Callers \ {c} : call'[d] = call[d]
         /\ call'[c].at = at
         /\ call'[c].generation = call[c].generation
         /\ call'[c].child = call[c].child
BY DEF To, CallRow, Ats

LEMMA ReturnFacts ==
  ASSUME call \in [Callers -> CallRow], NEW c \in Callers, NEW ok \in BOOLEAN, Return(c, ok)
  PROVE  /\ call' \in [Callers -> CallRow]
         /\ \A d \in Callers \ {c} : call'[d] = call[d]
         /\ call'[c].at = "done"
<1>1. Between("done", ok) \in CallRow /\ Between("done", ok).at = "done"
  BY SidecarAssumption DEF Between, CallRow
<1> QED BY <1>1 DEF Return

---------------------------------------------------------------------------
(* Most steps draw no generation, spawn, attach and mark nothing: threads    *)
(* move on or leave, processes move on or die, the lifecycle is cleared.     *)

LifecycleKept ==
  /\ lifecycle'.next_generation = lifecycle.next_generation
  /\ \/ lifecycle' = lifecycle
     \/ /\ lifecycle'.phase = "Stopping"
        /\ lifecycle'.active = lifecycle.active /\ lifecycle.active # 0
        /\ lifecycle'.current_generation = lifecycle.current_generation
     \/ /\ lifecycle'.phase \in {"Stopped", "Failed"}
        /\ lifecycle'.active = 0 /\ lifecycle'.current_generation = 0
        /\ \A s \in Spawns :
             lifecycle.active = s => ~Alive(s)' \/ child'[s].event = "error"

ChildrenKept ==
  \A s \in Spawns :
    /\ child'[s].parent = child[s].parent
    /\ child'[s].generation = child[s].generation
    /\ child'[s].heard => child[s].heard
    /\ lifecycle'.active = s => child'[s].heard = child[s].heard
    /\ child'[s].state = "starting" => child[s].state = "starting"
    /\ Alive(s)' => Alive(s)
    /\ child[s].event = "error" => child'[s].event = "error"
    /\ child'[s].event = "terminated" => child'[s].state = "gone"

CallsKept ==
  \A c \in Callers :
    /\ Owns(c)' => /\ Owns(c)
                   /\ HasChild(c)' <=> HasChild(c)
                   /\ call'[c].generation = call[c].generation
                   /\ call'[c].child = call[c].child
    /\ call'[c].at = "marking" =>
         call[c].at = "marking" \/ child[call[c].child].state # "starting"
    /\ \A s \in Spawns :
         call[c].at = "attaching" /\ call[c].child = s =>
           call'[c].at = "attaching" \/ ~Alive(s)'

LEMMA QuietStep ==
  ASSUME SidecarInv, SidecarTypeOK', spawned' = spawned,
         LifecycleKept, ChildrenKept, CallsKept
  PROVE  SidecarInv'
<1> USE SidecarAssumption DEF SidecarInv
<1>0. /\ lifecycle.active \in Spawns \cup {0} /\ lifecycle'.active \in Spawns \cup {0}
      /\ spawned \in 0 .. MaxSpawns
      /\ 1 .. spawned \subseteq Spawns
  BY DEF SidecarTypeOK, Lifecycles, Spawns
<1>1. LifecycleInv'
  BY <1>0 DEF LifecycleInv, LifecycleKept, ChildrenKept
<1>2. ChildInv'
  BY <1>0 DEF ChildInv, ChildrenKept, LifecycleKept
<1>3. CallInv'
  <2>2. ASSUME NEW c \in Callers
        PROVE  /\ Owns(c)' => call'[c].generation \in 1 .. lifecycle'.next_generation
               /\ Owns(c)' /\ ~HasChild(c)' =>
                    \A s \in Spawns : child'[s].parent => child'[s].generation # call'[c].generation
    BY DEF CallInv, CallsKept, ChildrenKept, LifecycleKept
  <2>3. ASSUME NEW c \in Callers, HasChild(c)'
        PROVE  /\ call'[c].child \in 1 .. spawned'
               /\ child'[call'[c].child].parent
               /\ child'[call'[c].child].generation = call'[c].generation
    <3>1. HasChild(c) /\ call'[c].generation = call[c].generation /\ call'[c].child = call[c].child
      BY <2>3 DEF CallsKept, Owns, HasChild, StartSteps
    <3>2. call[c].child \in 1 .. spawned /\ child[call[c].child].parent
          /\ child[call[c].child].generation = call[c].generation
      BY <3>1 DEF CallInv
    <3>3. call[c].child \in Spawns
      BY <3>2, <1>0
    <3>4. child'[call[c].child].parent = child[call[c].child].parent
          /\ child'[call[c].child].generation = child[call[c].child].generation
      BY <3>3 DEF ChildrenKept
    <3> QED BY <3>1, <3>2, <3>4
  <2>4. ASSUME NEW c \in Callers, call'[c].at = "marking"
        PROVE  child'[call'[c].child].state # "starting"
    <3>1. HasChild(c) /\ call'[c].child = call[c].child /\ child[call[c].child].state # "starting"
      BY <2>4 DEF CallInv, CallsKept, Owns, HasChild, StartSteps
    <3>2. call[c].child \in Spawns
      BY <3>1, <1>0 DEF CallInv
    <3> QED BY <3>1, <3>2 DEF ChildrenKept
  <2>5. ASSUME NEW c \in Callers, NEW d \in Callers, Owns(c)', Owns(d)',
               call'[c].generation = call'[d].generation
        PROVE  c = d
    BY <2>5 DEF CallInv, CallsKept
  <2> QED BY <2>2, <2>3, <2>4, <2>5 DEF CallInv
<1>4. LostOnlyByReadError'
  <2> SUFFICES ASSUME NEW s \in Spawns, Alive(s)', child'[s].parent
               PROVE  \/ lifecycle'.active = s
                      \/ \E c \in Callers : call'[c].at = "attaching" /\ call'[c].child = s
                      \/ child'[s].event = "error"
    BY DEF LostOnlyByReadError
  <2>1. Alive(s) /\ child[s].parent
    BY DEF ChildrenKept
  <2>2. CASE lifecycle.active = s
    BY <2>2, <1>0 DEF LifecycleKept, Spawns
  <2>3. ASSUME NEW c \in Callers, call[c].at = "attaching", call[c].child = s
        PROVE  call'[c].at = "attaching" /\ call'[c].child = s
    BY <2>3 DEF CallsKept, Owns, StartSteps
  <2>4. CASE child[s].event = "error"
    BY <2>4 DEF ChildrenKept
  <2> QED BY <2>1, <2>2, <2>3, <2>4 DEF LostOnlyByReadError
<1> QED BY <1>1, <1>2, <1>3, <1>4
---------------------------------------------------------------------------
(* The steps of the threads. *)

LEMMA CallSilently ==
  ASSUME SidecarInv, UNCHANGED <<lifecycle, child, spawned, trouble>>,
         NEW c \in Callers, call' \in [Callers -> CallRow],
         \A d \in Callers \ {c} : call'[d] = call[d],
         Owns(c)' => /\ Owns(c)
                     /\ HasChild(c)' <=> HasChild(c)
                     /\ call'[c].generation = call[c].generation
                     /\ call'[c].child = call[c].child,
         call'[c].at = "marking" =>
           call[c].at = "marking" \/ child[call[c].child].state # "starting",
         call[c].at = "attaching" => call'[c].at = "attaching"
  PROVE  SidecarInv'
<1>1. SidecarTypeOK'
  BY DEF SidecarInv, SidecarTypeOK
<1>2. LifecycleKept
  BY DEF LifecycleKept
<1>3. ChildrenKept
  BY DEF ChildrenKept, Alive, SidecarInv, ChildInv
<1>4. CallsKept
  BY DEF CallsKept, Owns, HasChild
<1> QED BY <1>1, <1>2, <1>3, <1>4, QuietStep

\* Giving up clears the lifecycle of one's own generation, whose process, if
\* there is one, has been killed or taken by nobody.
LEMMA CallGivesUp ==
  ASSUME SidecarInv, NEW c \in Callers, NEW to \in {"Stopped", "Failed"}, NEW ok \in BOOLEAN,
         Return(c, ok), call[c].at # "attaching", UNCHANGED <<spawned, trouble>>,
         \/ lifecycle' = Cleared(lifecycle, to) /\ child' = Killed(lifecycle.active)
         \/ lifecycle' = lifecycle /\ UNCHANGED child
  PROVE  SidecarInv'
<1> USE DEF SidecarInv
<1>1. /\ call' \in [Callers -> CallRow] /\ call'[c].at = "done"
      /\ \A d \in Callers \ {c} : call'[d] = call[d]
  BY ReturnFacts DEF SidecarTypeOK
<1>2. /\ lifecycle' \in Lifecycles
      /\ \/ lifecycle' = lifecycle
         \/ /\ lifecycle'.phase \in {"Stopped", "Failed"} /\ lifecycle'.active = 0
            /\ lifecycle'.current_generation = 0
            /\ lifecycle'.next_generation = lifecycle.next_generation
  <2>1. CASE lifecycle' = Cleared(lifecycle, to)
    <3>1. lifecycle \in Lifecycles
      BY DEF SidecarTypeOK
    <3> QED BY <2>1, <3>1, SidecarAssumption DEF Cleared, Lifecycles, Phases
  <2>2. CASE lifecycle' = lifecycle
    BY <2>2 DEF SidecarTypeOK
  <2> QED BY <2>1, <2>2
<1>3. /\ child' \in [Spawns -> ChildRow]
      /\ \A s \in Spawns : child'[s] = child[s]
                           \/ child'[s] = Dead(child[s])
      /\ lifecycle' # lifecycle =>
           \A s \in Spawns : lifecycle.active = s => child'[s] = Dead(child[s])
  <2>1. lifecycle.active \in 0 .. MaxSpawns
    BY DEF SidecarTypeOK, Lifecycles
  <2> QED BY <2>1, KilledType DEF SidecarTypeOK
<1>4. \A s \in Spawns : child[s] \in ChildRow
  BY DEF SidecarTypeOK
<1>5. SidecarTypeOK'
  BY <1>1, <1>2, <1>3, SidecarAssumption DEF SidecarTypeOK, Lifecycles
<1>6. LifecycleKept
  BY <1>2, <1>3, <1>4, DeadType DEF LifecycleKept, Alive
<1>7. ChildrenKept
  <2> SUFFICES ASSUME NEW s \in Spawns
               PROVE  /\ child'[s].parent = child[s].parent
                      /\ child'[s].generation = child[s].generation
                      /\ child'[s].heard = child[s].heard
                      /\ child'[s].state = "starting" => child[s].state = "starting"
                      /\ Alive(s)' => Alive(s)
                      /\ child[s].event = "error" => child'[s].event = "error"
                      /\ child'[s].event = "terminated" => child'[s].state = "gone"
    BY DEF ChildrenKept
  <2>1. CASE child'[s] = child[s]
    BY <2>1 DEF ChildInv, Alive
  <2>2. CASE child'[s] = Dead(child[s])
    BY <2>2, <1>4, DeadType DEF Alive
  <2> QED BY <2>1, <2>2, <1>3
<1>8. CallsKept
  BY <1>1 DEF CallsKept, Owns, HasChild, StartSteps
<1> QED BY <1>5, <1>6, <1>7, <1>8, QuietStep

LEMMA Begins ==
  ASSUME SidecarInv, NEW c \in Callers, lifecycle.active = 0,
         lifecycle.phase \in {"Stopped", "Failed", "Running"}, ~Owns(c),
         lifecycle.next_generation <= MaxSpawns,
         lifecycle' = BeginStart(lifecycle),
         call' = [call EXCEPT ![c] = [@ EXCEPT !.at = "preparing",
                                  !.generation = lifecycle'.current_generation]],
         UNCHANGED <<child, spawned, trouble>>
  PROVE  SidecarInv'
<1> USE SidecarAssumption DEF SidecarInv
<1>1. /\ lifecycle' \in Lifecycles
      /\ lifecycle'.phase = "Starting" /\ lifecycle'.active = 0
      /\ lifecycle'.next_generation = lifecycle.next_generation + 1
      /\ lifecycle'.current_generation = lifecycle.next_generation + 1
      /\ lifecycle.next_generation \in Nat
      /\ lifecycle'.current_generation \in 0 .. MaxSpawns + 1
  BY BegunType DEF SidecarTypeOK, Lifecycles
<1>2. /\ call' \in [Callers -> CallRow] /\ call'[c].at = "preparing"
      /\ call'[c].generation = lifecycle.next_generation + 1
      /\ \A d \in Callers \ {c} : call'[d] = call[d]
  BY <1>1 DEF SidecarTypeOK, CallRow, StartSteps
<1>3. SidecarTypeOK'
  BY <1>1, <1>2 DEF SidecarTypeOK
<1>4. LifecycleInv'
  BY <1>1 DEF LifecycleInv
<1>5. ChildInv'
  BY <1>1 DEF ChildInv
<1>6. CallInv'
  BY <1>1, <1>2 DEF CallInv, ChildInv, Owns, HasChild, StartSteps
<1>7. LostOnlyByReadError'
  BY <1>1, <1>2 DEF LostOnlyByReadError, Alive, Owns, StartSteps, Spawns
<1> QED BY <1>3, <1>4, <1>5, <1>6, <1>7

LEMMA Spawning ==
  ASSUME SidecarInv, NEW c \in Callers, Spawn(c)
  PROVE  SidecarInv'
<1> USE SidecarAssumption DEF SidecarInv
<1> DEFINE new == spawned + 1
<1>1. /\ spawned \in Nat /\ new \in Spawns /\ spawned' = new /\ new \in 0 .. MaxSpawns
      /\ lifecycle' = lifecycle /\ trouble' = trouble
      /\ call[c].at = "spawning"
  BY DEF Spawn, SidecarTypeOK, Spawns
<1>2. /\ call[c].generation \in 0 .. MaxSpawns + 1 /\ call[c].persona \in Personas \cup {None}
      /\ call[c] \in CallRow
  BY DEF SidecarTypeOK, CallRow
<1>3. /\ child' \in [Spawns -> ChildRow]
      /\ child'[new].state = "starting" /\ child'[new].parent
      /\ child'[new].generation = call[c].generation
      /\ ~child'[new].heard /\ child'[new].event = "none"
      /\ \A s \in Spawns \ {new} : child'[s] = child[s]
  <2> DEFINE row == Started(call[c].generation, call[c].persona)
  <2>1. row \in ChildRow
    BY <1>2 DEF ChildRow, Started
  <2>2. /\ row.state = "starting" /\ row.parent /\ row.generation = call[c].generation
        /\ ~row.heard /\ row.event = "none"
    BY DEF Started
  <2>3. child' = [child EXCEPT ![new] = row]
    BY DEF Spawn
  <2> HIDE DEF row
  <2> QED BY <2>1, <2>2, <2>3, <1>1 DEF SidecarTypeOK
<1>4. /\ call' \in [Callers -> CallRow] /\ call'[c].at = "attaching"
      /\ call'[c].generation = call[c].generation /\ call'[c].child = new
      /\ \A d \in Callers \ {c} : call'[d] = call[d]
  BY <1>1, <1>2 DEF Spawn, SidecarTypeOK, CallRow, StartSteps
<1>5. SidecarTypeOK'
  BY <1>1, <1>3, <1>4 DEF SidecarTypeOK
<1>6. /\ ~child[new].parent /\ lifecycle.active # new
      /\ lifecycle.active \in Spawns \cup {0}
      /\ lifecycle.active # 0 => lifecycle.active \in Spawns \ {new}
  BY <1>1 DEF ChildInv, LifecycleInv, SidecarTypeOK, Lifecycles, Spawns
<1>7. LifecycleInv'
  <2>1. ASSUME lifecycle.active # 0
        PROVE  lifecycle.active <= new /\ child'[lifecycle.active] = child[lifecycle.active]
    <3>1. lifecycle.active <= spawned /\ lifecycle.active \in Spawns
      BY <2>1, <1>6 DEF LifecycleInv
    <3> QED BY <2>1, <3>1, <1>1, <1>3, <1>6 DEF Spawns
  <2> HIDE DEF new
  <2> QED BY <2>1, <1>1 DEF LifecycleInv
<1>8. Owns(c) /\ ~HasChild(c)
  BY <1>1 DEF Owns, HasChild, StartSteps
<1>9. ChildInv'
  <2>1. /\ call[c].generation \in 1 .. lifecycle.next_generation
        /\ \A s \in Spawns : child[s].parent => child[s].generation # call[c].generation
    BY <1>8 DEF CallInv
  <2>2. ASSUME NEW s \in Spawns
        PROVE  /\ child'[s].parent => s <= new /\ child'[s].generation \in 1 .. lifecycle.next_generation
               /\ child'[s].heard => child'[s].parent
               /\ child'[s].event = "terminated" => child'[s].state = "gone"
    <3>1. CASE s = new
      BY <3>1, <2>1, <1>3, <1>1
    <3>2. CASE s # new
      <4>1. child'[s] = child[s]
        BY <3>2, <1>3
      <4>2. child[s].parent => s <= spawned /\ child[s].generation \in 1 .. lifecycle.next_generation
        BY DEF ChildInv
      <4>3. s <= spawned => s <= new
        BY <1>1 DEF Spawns
      <4> HIDE DEF new
      <4> QED BY <4>1, <4>2, <4>3 DEF ChildInv
    <3> QED BY <3>1, <3>2
  <2> HIDE DEF new
  <2>3. ASSUME NEW s \in Spawns, NEW r \in Spawns, child'[s].parent, child'[r].parent,
               child'[s].generation = child'[r].generation
        PROVE  s = r
    BY <2>3, <2>1, <1>3 DEF ChildInv
  <2> QED BY <1>1, <2>2, <2>3 DEF ChildInv
<1> HIDE DEF new
<1>10. CallInv'
  BY <1>1, <1>3, <1>4, <1>8 DEF CallInv, Owns, HasChild, StartSteps, ChildInv, new, Spawns
<1>11. LostOnlyByReadError'
  BY <1>1, <1>3, <1>4 DEF LostOnlyByReadError, Alive, Owns, StartSteps
<1> QED BY <1>5, <1>7, <1>9, <1>10, <1>11

LEMMA Attaches ==
  ASSUME SidecarInv, NEW c \in Callers, call[c].at = "attaching",
         MayAttach(lifecycle, call[c].generation),
         lifecycle' = [lifecycle EXCEPT !.active = call[c].child],
         child' = [child EXCEPT ![call[c].child].heard = TRUE],
         To(c, "awaiting"), UNCHANGED <<spawned, trouble>>
  PROVE  SidecarInv'
<1> USE SidecarAssumption DEF SidecarInv
<1>1. PICK s \in Spawns : s = call[c].child /\ s <= spawned /\ child[s].parent
                          /\ child[s].generation = call[c].generation
  BY DEF CallInv, HasChild, SidecarTypeOK, Spawns
<1>2. /\ lifecycle' \in Lifecycles /\ lifecycle'.active = s
      /\ lifecycle'.phase = "Starting" /\ lifecycle.phase = "Starting"
      /\ lifecycle'.next_generation = lifecycle.next_generation
      /\ lifecycle'.current_generation = child[s].generation
      /\ lifecycle.current_generation = child[s].generation /\ lifecycle.active = 0
  BY <1>1 DEF SidecarTypeOK, Lifecycles, MayAttach, Spawns
<1>3. /\ child' \in [Spawns -> ChildRow]
      /\ child'[s].heard
      /\ \A r \in Spawns :
           /\ child'[r].parent = child[r].parent /\ child'[r].state = child[r].state
           /\ child'[r].generation = child[r].generation
           /\ child'[r].event = child[r].event
           /\ r # s => child'[r].heard = child[r].heard
  BY <1>1 DEF SidecarTypeOK, ChildRow
<1>4. /\ call' \in [Callers -> CallRow] /\ call'[c].at = "awaiting"
      /\ call'[c].generation = call[c].generation /\ call'[c].child = call[c].child
      /\ \A d \in Callers \ {c} : call'[d] = call[d]
  BY ToFacts DEF SidecarTypeOK, Ats, StartSteps
<1>5. SidecarTypeOK'
  BY <1>2, <1>3, <1>4 DEF SidecarTypeOK
<1>6. LifecycleInv'
  BY <1>1, <1>2, <1>3 DEF LifecycleInv, Spawns
<1>7. ChildInv'
  BY <1>1, <1>2, <1>3 DEF ChildInv
<1>8. CallInv'
  BY <1>1, <1>2, <1>3, <1>4 DEF CallInv, Owns, HasChild, StartSteps
<1>9. LostOnlyByReadError'
  BY <1>1, <1>2, <1>3, <1>4 DEF LostOnlyByReadError, Alive, Spawns
<1> QED BY <1>5, <1>6, <1>7, <1>8, <1>9

LEMMA Runs ==
  ASSUME SidecarInv, NEW c \in Callers, call[c].at = "marking",
         MayRun(lifecycle, call[c].generation),
         lifecycle' = [lifecycle EXCEPT !.phase = "Running"],
         Return(c, TRUE), UNCHANGED <<child, spawned, trouble>>
  PROVE  SidecarInv'
<1> USE SidecarAssumption DEF SidecarInv
<1>1. /\ lifecycle' \in Lifecycles /\ lifecycle'.phase = "Running"
      /\ lifecycle'.next_generation = lifecycle.next_generation
      /\ lifecycle'.current_generation = lifecycle.current_generation
      /\ lifecycle'.active = lifecycle.active
  BY DEF SidecarTypeOK, Lifecycles, Phases
<1>2. /\ call' \in [Callers -> CallRow] /\ call'[c].at = "done"
      /\ \A d \in Callers \ {c} : call'[d] = call[d]
  BY ReturnFacts DEF SidecarTypeOK
<1>3. lifecycle.active \in Spawns /\ call[c].child \in Spawns
  BY DEF MayRun, SidecarTypeOK, Lifecycles, Spawns, CallInv, HasChild
<1>4. lifecycle.active = call[c].child
  BY <1>3 DEF MayRun, CallInv, ChildInv, LifecycleInv, HasChild
<1>5. SidecarTypeOK'
  BY <1>1, <1>2 DEF SidecarTypeOK
<1>6. LifecycleInv'
  BY <1>1, <1>4 DEF LifecycleInv, MayRun, CallInv
<1>7. ChildInv'
  BY <1>1 DEF ChildInv
<1>8. CallInv'
  BY <1>1, <1>2 DEF CallInv, Owns, HasChild, StartSteps
<1>9. LostOnlyByReadError'
  BY <1>1, <1>2 DEF LostOnlyByReadError, Alive
<1> QED BY <1>5, <1>6, <1>7, <1>8, <1>9

LEMMA Dying ==
  ASSUME SidecarInv, AppDies
  PROVE  SidecarInv'
<1> USE SidecarAssumption DEF SidecarInv
<1>1. /\ lifecycle' \in Lifecycles /\ lifecycle'.phase = "Stopped"
      /\ lifecycle'.current_generation = 0 /\ lifecycle'.active = 0
      /\ lifecycle'.next_generation = 0
  <2>1. Fresh \in Lifecycles
    BY DEF Fresh, Lifecycles, Phases
  <2>2. /\ Fresh.phase = "Stopped" /\ Fresh.current_generation = 0 /\ Fresh.active = 0
        /\ Fresh.next_generation = 0
    BY DEF Fresh
  <2> QED BY <2>1, <2>2 DEF AppDies
<1>2. /\ child' \in [Spawns -> ChildRow]
      /\ \A s \in Spawns : /\ ~child'[s].parent /\ ~child'[s].heard
                           /\ child'[s].state = child[s].state
                           /\ child'[s].event = child[s].event
  <2>1. \A s \in Spawns : child[s] \in ChildRow
    BY DEF SidecarTypeOK
  <2>2. ASSUME NEW r \in ChildRow
        PROVE  LET q == [r EXCEPT !.parent = FALSE, !.heard = FALSE]
               IN  /\ q \in ChildRow /\ ~q.parent /\ ~q.heard
                   /\ q.state = r.state /\ q.event = r.event
    BY DEF ChildRow
  <2> QED BY <2>1, <2>2 DEF AppDies
<1>3. /\ call' \in [Callers -> CallRow]
      /\ \A c \in Callers : call'[c].at = "idle"
  <2>1. Resting \in CallRow /\ Resting.at = "idle"
    BY DEF Resting, Between, CallRow
  <2> QED BY <2>1 DEF AppDies
<1>4. SidecarTypeOK'
  <2>1. spawned' = spawned /\ trouble' \in 0 .. MaxTrouble
    <3>1. trouble \in 0 .. MaxTrouble /\ MaxTrouble \in Nat
      BY DEF SidecarTypeOK
    <3>2. trouble < MaxTrouble /\ trouble' = trouble + 1 /\ spawned' = spawned
      BY Zenon DEF AppDies
    <3> QED BY <3>1, <3>2
  <2> QED BY <1>1, <1>2, <1>3, <2>1 DEF SidecarTypeOK
<1>5. LifecycleInv' /\ ChildInv' /\ LostOnlyByReadError'
  BY <1>1, <1>2 DEF LifecycleInv, ChildInv, LostOnlyByReadError
<1>6. CallInv'
  BY <1>3 DEF CallInv, Owns, HasChild, StartSteps
<1> QED BY <1>4, <1>5, <1>6
---------------------------------------------------------------------------
(* The steps of the processes and of the tasks that hear of them. *)

LEMMA ChildSilently ==
  ASSUME SidecarInv, UNCHANGED <<lifecycle, spawned, call>>, trouble' \in 0 .. MaxTrouble,
         NEW s \in Spawns, NEW r \in ChildRow, child' = [child EXCEPT ![s] = r],
         r.parent = child[s].parent, r.generation = child[s].generation,
         r.heard = child[s].heard,
         r.state = "starting" => child[s].state = "starting",
         r.state \in {"starting", "serving", "leaving"} => Alive(s),
         child[s].event = "error" => r.event = "error",
         r.event = "terminated" => r.state = "gone"
  PROVE  SidecarInv'
<1> USE DEF SidecarInv
<1>1. /\ child' \in [Spawns -> ChildRow] /\ child'[s] = r
      /\ \A q \in Spawns \ {s} : child'[q] = child[q]
  BY DEF SidecarTypeOK
<1>2. SidecarTypeOK'
  BY <1>1 DEF SidecarTypeOK
<1>3. LifecycleKept
  BY DEF LifecycleKept
<1>4. ChildrenKept
  <2> SUFFICES ASSUME NEW q \in Spawns
               PROVE  /\ child'[q].parent = child[q].parent
                      /\ child'[q].generation = child[q].generation
                      /\ child'[q].heard = child[q].heard
                      /\ child'[q].state = "starting" => child[q].state = "starting"
                      /\ Alive(q)' => Alive(q)
                      /\ child[q].event = "error" => child'[q].event = "error"
                      /\ child'[q].event = "terminated" => child'[q].state = "gone"
    BY DEF ChildrenKept
  <2>1. CASE q = s
    BY <2>1, <1>1 DEF Alive
  <2>2. CASE q # s
    BY <2>2, <1>1 DEF ChildInv, Alive
  <2> QED BY <2>1, <2>2
<1>5. CallsKept
  BY DEF CallsKept, Owns, HasChild, CallInv
<1> QED BY <1>2, <1>3, <1>4, <1>5, QuietStep

LEMMA Hearing ==
  ASSUME SidecarInv, NEW s \in Spawns, HearExit(s)
  PROVE  SidecarInv'
<1> USE SidecarAssumption DEF SidecarInv
<1>1. /\ child' \in [Spawns -> ChildRow] /\ ~child'[s].heard
      /\ child'[s].parent = child[s].parent /\ child'[s].generation = child[s].generation
      /\ child'[s].state = child[s].state /\ child'[s].event = child[s].event
      /\ \A q \in Spawns \ {s} : child'[q] = child[q]
  BY DEF HearExit, SidecarTypeOK, ChildRow
<1>2. /\ child[s].heard /\ child[s].parent /\ child[s].event \in {"terminated", "error"}
      /\ child[s].generation \in Nat /\ child[s].generation # 0
  BY DEF HearExit, SidecarTypeOK, ChildRow, ChildInv, Lifecycles
<1>3. \/ lifecycle' = lifecycle /\ lifecycle.current_generation # child[s].generation
      \/ /\ lifecycle.current_generation = child[s].generation
         /\ lifecycle'.phase \in {"Stopped", "Failed"} /\ lifecycle'.active = 0
         /\ lifecycle'.current_generation = 0
         /\ lifecycle'.next_generation = lifecycle.next_generation
         /\ lifecycle' \in Lifecycles
  BY DEF HearExit, RecordExit, Cleared, Lifecycles, Phases, SidecarTypeOK
<1>4. lifecycle.active # 0 =>
        /\ lifecycle.active \in Spawns
        /\ lifecycle.current_generation = child[s].generation <=> lifecycle.active = s
  BY <1>2 DEF LifecycleInv, ChildInv, SidecarTypeOK, Lifecycles, Spawns
<1>5. SidecarTypeOK'
  BY <1>1, <1>3 DEF HearExit, SidecarTypeOK, Lifecycles
<1>6. LifecycleKept
  BY <1>1, <1>2, <1>3, <1>4 DEF LifecycleKept, Alive, ChildInv, Spawns
<1>7. ChildrenKept
  <2>1. lifecycle'.active # s
    BY <1>3, <1>4 DEF Spawns
  <2> QED BY <2>1, <1>1 DEF ChildrenKept, ChildInv, Alive
<1>8. CallsKept
  BY DEF HearExit, CallsKept, Owns, HasChild
<1> QED BY <1>5, <1>6, <1>7, <1>8, QuietStep DEF HearExit

LEMMA ChildStepsInv ==
  ASSUME SidecarInv, NEW s \in Spawns, ChildSteps(s)
  PROVE  SidecarInv'
<1> USE SidecarAssumption DEF SidecarInv
<1>1. child[s] \in ChildRow /\ trouble \in 0 .. MaxTrouble
  BY DEF SidecarTypeOK
<1>2. CASE HearExit(s)
  BY <1>2, Hearing
<1>3. ASSUME Alive(s), child' = Gone(s), UNCHANGED <<lifecycle, spawned, call>>,
             trouble' \in 0 .. MaxTrouble
      PROVE  SidecarInv'
  BY <1>1, <1>3, DeadType, ChildSilently DEF Gone
<1>4. CASE StartupFails(s) \/ Leave(s) \/ Crash(s)
  BY <1>1, <1>3, <1>4 DEF StartupFails, Leave, Crash, Alive
<1>5. ASSUME NEW to \in {"serving", "leaving"}, Alive(s), child' = [child EXCEPT ![s].state = to],
             UNCHANGED <<lifecycle, spawned, call, trouble>>
      PROVE  SidecarInv'
  <2> DEFINE r == [child[s] EXCEPT !.state = to]
  <2>1. /\ r \in ChildRow /\ r.state = to /\ r.parent = child[s].parent
        /\ r.generation = child[s].generation /\ r.heard = child[s].heard
        /\ r.event = child[s].event
    BY <1>1 DEF ChildRow
  <2>2. child' = [child EXCEPT ![s] = r]
    BY <1>5
  <2>3. r.event # "terminated"
    BY <1>5, <2>1 DEF ChildInv, Alive
  <2> HIDE DEF r
  <2> QED BY <1>1, <1>5, <2>1, <2>2, <2>3, ChildSilently
<1>6. CASE Serve(s) \/ Orphaned(s)
  BY <1>5, <1>6 DEF Serve, Orphaned, Alive
<1>7. CASE ReadError(s)
  <2> DEFINE r == [child[s] EXCEPT !.event = "error"]
  <2>1. /\ r \in ChildRow /\ r.state = child[s].state /\ r.parent = child[s].parent
        /\ r.generation = child[s].generation /\ r.heard = child[s].heard
        /\ r.event = "error"
    BY <1>1 DEF ChildRow
  <2>2. child' = [child EXCEPT ![s] = r]
    BY <1>7 DEF ReadError
  <2>3. trouble' \in 0 .. MaxTrouble /\ UNCHANGED <<lifecycle, spawned, call>> /\ Alive(s)
    BY <1>1, <1>7 DEF ReadError
  <2> HIDE DEF r
  <2> QED BY <2>1, <2>2, <2>3, ChildSilently
<1> QED BY <1>2, <1>4, <1>6, <1>7 DEF ChildSteps

LEMMA Asking ==
  ASSUME SidecarInv, NEW c \in Callers, AskShutdown(c)
  PROVE  SidecarInv'
<1> USE DEF SidecarInv
<1>1. /\ call' \in [Callers -> CallRow] /\ call'[c].at = "leaving"
      /\ \A d \in Callers \ {c} : call'[d] = call[d]
  BY ToFacts DEF AskShutdown, SidecarTypeOK, Ats, StopSteps
<1>2. /\ child' \in [Spawns -> ChildRow]
      /\ \A s \in Spawns :
           /\ child'[s].parent = child[s].parent /\ child'[s].heard = child[s].heard
           /\ child'[s].generation = child[s].generation /\ child'[s].event = child[s].event
           /\ \/ child'[s].state = child[s].state
              \/ child[s].state = "serving" /\ child'[s].state = "leaving"
  <2> DEFINE q == call[c].child
             r == [child[q] EXCEPT !.state = IF @ = "serving" THEN "leaving" ELSE @]
  <2>1. child' = [child EXCEPT ![q] = r] /\ child \in [Spawns -> ChildRow]
    BY DEF AskShutdown, SidecarTypeOK
  <2>2. ASSUME q \in Spawns
        PROVE  /\ r \in ChildRow /\ r.parent = child[q].parent /\ r.heard = child[q].heard
               /\ r.generation = child[q].generation /\ r.event = child[q].event
               /\ \/ r.state = child[q].state
                  \/ child[q].state = "serving" /\ r.state = "leaving"
    <3>1. child[q] \in ChildRow
      BY <2>1, <2>2
    <3> QED BY <3>1 DEF ChildRow
  <2> HIDE DEF q, r
  <2> QED BY <2>1, <2>2
<1>3. SidecarTypeOK'
  BY <1>1, <1>2 DEF AskShutdown, SidecarTypeOK
<1>4. LifecycleKept
  BY DEF LifecycleKept, AskShutdown
<1>5. ChildrenKept
  BY <1>2 DEF ChildrenKept, Alive, ChildInv
<1>6. CallsKept
  BY <1>1 DEF CallsKept, Owns, HasChild, StartSteps, AskShutdown
<1> QED BY <1>3, <1>4, <1>5, <1>6, QuietStep DEF AskShutdown
---------------------------------------------------------------------------
(* Every step of a thread. *)

\* The generation of a thread that owns one is current or past, and what is
\* handed out with it is the process the lifecycle gives up.
LEMMA GivingUp ==
  ASSUME SidecarInv, NEW c \in Callers, call[c].at \in StartSteps \cup StopSteps,
         call[c].at # "attaching", UNCHANGED <<spawned, trouble>>,
         NEW to \in {"Stopped", "Failed"}, NEW ok \in BOOLEAN, Return(c, ok),
         NEW g, g = call[c].generation,
         lifecycle' = IF lifecycle.current_generation # g THEN lifecycle
                                                          ELSE Cleared(lifecycle, to),
         child' = Killed(Handed(g))
  PROVE  SidecarInv'
<1>1. CASE lifecycle.current_generation = g
  BY <1>1, CallGivesUp DEF Handed
<1>2. CASE lifecycle.current_generation # g
  BY <1>2, CallGivesUp DEF Handed, Killed
<1> QED BY <1>1, <1>2

\* Before a process is attached there is none to kill.
LEMMA NothingToKill ==
  ASSUME SidecarInv, NEW c \in Callers, Owns(c), ~HasChild(c),
         lifecycle.current_generation = call[c].generation
  PROVE  lifecycle.active = 0
BY DEF SidecarInv, SidecarTypeOK, Lifecycles, LifecycleInv, CallInv, Spawns

LEMMA GivingUpEarly ==
  ASSUME SidecarInv, NEW c \in Callers, call[c].at \in {"preparing", "checking", "spawning"},
         GiveUpStart(c), UNCHANGED <<child, spawned, trouble>>
  PROVE  SidecarInv'
<1>1. Owns(c) /\ ~HasChild(c) /\ call[c].at # "attaching"
  BY DEF Owns, HasChild, StartSteps
<1>2. CASE lifecycle.current_generation = call[c].generation
  <2>1. child = Killed(lifecycle.active)
    BY <1>1, <1>2, NothingToKill DEF Killed
  <2> QED BY <1>1, <1>2, <2>1, CallGivesUp DEF GiveUpStart, FailStart
<1>3. CASE lifecycle.current_generation # call[c].generation
  BY <1>1, <1>3, CallGivesUp DEF GiveUpStart, FailStart
<1> QED BY <1>2, <1>3

\* A child that comes too late is killed by its own starter.
LEMMA ComesTooLate ==
  ASSUME SidecarInv, NEW c \in Callers, call[c].at = "attaching",
         child' = Killed(call[c].child), Return(c, FALSE),
         UNCHANGED <<lifecycle, spawned, trouble>>
  PROVE  SidecarInv'
<1> USE DEF SidecarInv
<1>1. /\ call' \in [Callers -> CallRow] /\ call'[c].at = "done"
      /\ \A d \in Callers \ {c} : call'[d] = call[d]
  BY ReturnFacts DEF SidecarTypeOK
<1>2. call[c].child \in 0 .. MaxSpawns
  BY DEF SidecarTypeOK, CallRow
<1>3. /\ child' \in [Spawns -> ChildRow]
      /\ \A s \in Spawns : child'[s] = IF s = call[c].child THEN Dead(child[s]) ELSE child[s]
  BY <1>2, KilledType DEF SidecarTypeOK
<1>4. SidecarTypeOK'
  BY <1>1, <1>3 DEF SidecarTypeOK
<1>5. LifecycleKept
  BY DEF LifecycleKept
<1>6. ChildrenKept
  <2> SUFFICES ASSUME NEW s \in Spawns
               PROVE  /\ child'[s].parent = child[s].parent
                      /\ child'[s].generation = child[s].generation
                      /\ child'[s].heard = child[s].heard
                      /\ child'[s].state = "starting" => child[s].state = "starting"
                      /\ Alive(s)' => Alive(s)
                      /\ child[s].event = "error" => child'[s].event = "error"
                      /\ child'[s].event = "terminated" => child'[s].state = "gone"
    BY DEF ChildrenKept
  <2>1. child[s] \in ChildRow
    BY DEF SidecarTypeOK
  <2>2. CASE s # call[c].child
    BY <2>2, <1>3 DEF ChildInv, Alive
  <2>3. CASE s = call[c].child
    <3>1. child'[s] = Dead(child[s])
      BY <2>3, <1>3
    <3> QED BY <3>1, <2>1, DeadType DEF Alive
  <2> QED BY <2>2, <2>3
<1>7. CallsKept
  <2>1. \A s \in Spawns : call[c].child = s => ~Alive(s)'
    <3> SUFFICES ASSUME NEW s \in Spawns, call[c].child = s PROVE ~Alive(s)'
      OBVIOUS
    <3>1. child[s] \in ChildRow /\ child'[s] = Dead(child[s])
      BY <1>3 DEF SidecarTypeOK
    <3> QED BY <3>1, DeadType DEF Alive
  <2> QED BY <1>1, <2>1 DEF CallsKept, Owns, HasChild, StartSteps
<1> QED BY <1>4, <1>5, <1>6, <1>7, QuietStep

LEMMA StartCallInv ==
  ASSUME SidecarInv, NEW c \in Callers, StartCall(c)
  PROVE  SidecarInv'
<1> USE DEF SidecarInv
<1>0. call \in [Callers -> CallRow] /\ ~Owns(c) /\ ~HasChild(c)
  BY DEF StartCall, SidecarTypeOK, Owns, HasChild, StartSteps
<1>1. ASSUME Return(c, TRUE), UNCHANGED lifecycle PROVE SidecarInv'
  BY <1>0, <1>1, ReturnFacts, CallSilently
     DEF StartCall, Owns, HasChild, StartSteps
<1>2. ASSUME To(c, "sharing"), UNCHANGED lifecycle PROVE SidecarInv'
  <2>1. "sharing" \in Ats
    BY DEF Ats, StartSteps
  <2>2. /\ call' \in [Callers -> CallRow] /\ call'[c].at = "sharing"
        /\ \A d \in Callers \ {c} : call'[d] = call[d]
    BY <1>0, <1>2, <2>1, ToFacts
  <2> QED BY <1>0, <1>2, <2>2, CallSilently DEF StartCall, Owns, HasChild, StartSteps
<1>3. ASSUME \/ lifecycle.phase \in {"Stopped", "Failed"}
             \/ lifecycle.phase = "Running" /\ ~IsRunning,
             lifecycle.next_generation <= MaxSpawns,
             lifecycle' = BeginStart(lifecycle),
             call' = [call EXCEPT ![c] = [@ EXCEPT !.at = "preparing",
                                      !.generation = lifecycle'.current_generation]]
      PROVE  SidecarInv'
  <2>1. lifecycle.active = 0
    BY <1>3 DEF LifecycleInv, IsRunning
  <2> QED BY <1>0, <1>3, <2>1, Begins DEF StartCall
<1> QED BY <1>1, <1>2, <1>3 DEF StartCall

LEMMA StopCallInv ==
  ASSUME SidecarInv, NEW c \in Callers, StopCall(c)
  PROVE  SidecarInv'
<1> USE DEF SidecarInv
<1>0. /\ call \in [Callers -> CallRow] /\ ~Owns(c) /\ ~HasChild(c)
      /\ call[c].at = "idle" /\ UNCHANGED <<child, spawned, trouble>>
  BY DEF StopCall, SidecarTypeOK, Owns, HasChild, StartSteps
<1>1. ASSUME To(c, "waiting"), UNCHANGED lifecycle PROVE SidecarInv'
  <2>1. "waiting" \in Ats
    BY DEF Ats, StopSteps
  <2>2. /\ call' \in [Callers -> CallRow] /\ call'[c].at = "waiting"
        /\ \A d \in Callers \ {c} : call'[d] = call[d]
    BY <1>0, <1>1, <2>1, ToFacts
  <2> QED BY <1>0, <1>1, <2>2, CallSilently DEF Owns, HasChild, StartSteps
<1>2. ASSUME lifecycle.active = 0, lifecycle' = Cleared(lifecycle, "Stopped"), Return(c, TRUE)
      PROVE  SidecarInv'
  <2>1. child' = Killed(lifecycle.active)
    BY <1>0, <1>2 DEF Killed
  <2> QED BY <1>0, <1>2, <2>1, CallGivesUp
<1>3. ASSUME lifecycle.active # 0, lifecycle' = [lifecycle EXCEPT !.phase = "Stopping"],
             call' = [call EXCEPT ![c] = [@ EXCEPT
                        !.at = "asking", !.child = lifecycle.active,
                        !.generation = child[lifecycle.active].generation]]
      PROVE  SidecarInv'
  <2>1. /\ lifecycle' \in Lifecycles /\ lifecycle'.phase = "Stopping"
        /\ lifecycle'.active = lifecycle.active
        /\ lifecycle'.next_generation = lifecycle.next_generation
        /\ lifecycle'.current_generation = lifecycle.current_generation
    BY <1>3 DEF SidecarTypeOK, Lifecycles, Phases
  <2>2. lifecycle.active \in 0 .. MaxSpawns
        /\ child[lifecycle.active].generation \in 0 .. MaxSpawns + 1
    BY <1>3 DEF SidecarTypeOK, Lifecycles, LifecycleInv
  <2>3. /\ call' \in [Callers -> CallRow] /\ call'[c].at = "asking"
        /\ \A d \in Callers \ {c} : call'[d] = call[d]
    BY <1>0, <1>3, <2>2 DEF CallRow, StopSteps
  <2>4. SidecarTypeOK'
    BY <1>0, <2>1, <2>3 DEF SidecarTypeOK
  <2>5. LifecycleKept
    BY <1>3, <2>1 DEF LifecycleKept
  <2>6. ChildrenKept
    BY <1>0, <2>1 DEF ChildrenKept, Alive, ChildInv
  <2>7. CallsKept
    BY <1>0, <2>3 DEF CallsKept, Owns, HasChild, StartSteps
  <2> QED BY <1>0, <2>4, <2>5, <2>6, <2>7, QuietStep
<1> QED BY <1>1, <1>2, <1>3 DEF StopCall

LEMMA CallStepsInv ==
  ASSUME SidecarInv, NEW c \in Callers, CallSteps(c)
  PROVE  SidecarInv'
<1> USE DEF SidecarInv
<1>0. call \in [Callers -> CallRow] /\ call[c] \in CallRow
  BY DEF SidecarTypeOK
<1>1. ASSUME NEW ok \in BOOLEAN, Return(c, ok), UNCHANGED <<lifecycle, child, spawned, trouble>>,
             call[c].at # "attaching"
      PROVE  SidecarInv'
  BY <1>0, <1>1, ReturnFacts, CallSilently DEF Owns, HasChild, StartSteps
<1>2. CASE Share(c) \/ SeeExit(c) \/ SeeStopped(c) \/ WaitStopped(c)
  BY <1>1, <1>2 DEF Share, SeeExit, SeeStopped, WaitStopped
<1>3. ASSUME NEW p \in Personas, Prepare(c, p) PROVE SidecarInv'
  <2>1. /\ call' \in [Callers -> CallRow] /\ call'[c].at = "checking"
        /\ call'[c].generation = call[c].generation /\ call'[c].child = call[c].child
        /\ \A d \in Callers \ {c} : call'[d] = call[d]
    BY <1>0, <1>3 DEF Prepare, CallRow, StartSteps
  <2> QED BY <1>3, <2>1, CallSilently DEF Prepare, Owns, HasChild, StartSteps
<1>4. CASE PrepareFails(c) \/ SpawnFails(c) \/ (CheckPort(c) /\ PortTaken)
  BY <1>4, GivingUpEarly DEF PrepareFails, SpawnFails, CheckPort
<1>5. CASE CheckPort(c) /\ ~PortTaken
  <2>1. "spawning" \in Ats
    BY DEF Ats, StartSteps
  <2>2. /\ call' \in [Callers -> CallRow] /\ call'[c].at = "spawning"
        /\ call'[c].generation = call[c].generation /\ call'[c].child = call[c].child
        /\ \A d \in Callers \ {c} : call'[d] = call[d]
    BY <1>0, <1>5, <2>1, ToFacts DEF CheckPort
  <2> QED BY <1>5, <2>2, CallSilently DEF CheckPort, Owns, HasChild, StartSteps
<1>6. CASE Spawn(c)
  BY <1>6, Spawning
<1>7. CASE Attach(c)
  <2>1. CASE MayAttach(lifecycle, call[c].generation)
    BY <1>7, <2>1, Attaches DEF Attach
  <2>2. CASE ~MayAttach(lifecycle, call[c].generation)
    BY <1>7, <2>2, ComesTooLate DEF Attach
  <2> QED BY <2>1, <2>2
<1>8. CASE AskReady(c)
  <2>1. "marking" \in Ats
    BY DEF Ats, StartSteps
  <2>2. /\ call' \in [Callers -> CallRow] /\ call'[c].at = "marking"
        /\ call'[c].generation = call[c].generation /\ call'[c].child = call[c].child
        /\ \A d \in Callers \ {c} : call'[d] = call[d]
    BY <1>0, <1>8, <2>1, ToFacts DEF AskReady
  <2> QED BY <1>8, <2>2, CallSilently DEF AskReady, AnswersReady, Owns, HasChild, StartSteps
<1>9. CASE StartTimesOut(c)
  BY <1>9, GivingUp DEF StartTimesOut, GiveUpStart, FailStart, StartSteps
<1>10. CASE MarkRunning(c)
  <2>1. CASE MayRun(lifecycle, call[c].generation)
    BY <1>10, <2>1, Runs DEF MarkRunning
  <2>2. CASE ~MayRun(lifecycle, call[c].generation)
    BY <1>1, <1>10, <2>2 DEF MarkRunning
  <2> QED BY <2>1, <2>2
<1>11. CASE AskShutdown(c)
  BY <1>11, Asking
<1>12. CASE StopTimesOut(c)
  BY <1>12, GivingUp DEF StopTimesOut, FinishStop, StopSteps
<1>13. CASE PrepareFails(c) \/ SpawnFails(c) \/ CheckPort(c)
  BY <1>4, <1>5, <1>13
<1> QED
  BY <1>2, <1>3, <1>13, <1>6, <1>7, <1>8, <1>9, <1>10, <1>11, <1>12, Zenon DEF CallSteps

LEMMA AcceptInv ==
  ASSUME SidecarInv, NEW c \in Callers, Accept(c)
  PROVE  SidecarInv'
<1>1. Resting \in CallRow /\ Resting.at = "idle"
  BY SidecarAssumption DEF Resting, Between, CallRow
<1>2. /\ call' \in [Callers -> CallRow] /\ call'[c].at = "idle"
      /\ \A d \in Callers \ {c} : call'[d] = call[d]
  BY <1>1 DEF Accept, SidecarInv, SidecarTypeOK
<1> QED BY <1>2, CallSilently DEF Accept, Owns, HasChild, StartSteps

LEMMA StepInv == SidecarInv /\ [SidecarNext]_sidecarVars => SidecarInv'
<1> SUFFICES ASSUME SidecarInv, [SidecarNext]_sidecarVars PROVE SidecarInv'
  OBVIOUS
<1>1. ASSUME NEW c \in Callers, StartCall(c) \/ StopCall(c) \/ CallSteps(c) \/ Accept(c)
      PROVE  SidecarInv'
  BY <1>1, StartCallInv, StopCallInv, CallStepsInv, AcceptInv
<1>2. ASSUME NEW s \in Spawns, ChildSteps(s) PROVE SidecarInv'
  BY <1>2, ChildStepsInv
<1>3. CASE AppDies
  BY <1>3, Dying
<1>4. CASE UNCHANGED sidecarVars
  <2>1. SidecarTypeOK'
    BY <1>4 DEF sidecarVars, SidecarInv, SidecarTypeOK
  <2>2. LifecycleKept /\ ChildrenKept /\ CallsKept
    BY <1>4 DEF sidecarVars, LifecycleKept, ChildrenKept, CallsKept, Alive, Owns, HasChild,
                SidecarInv, ChildInv
  <2> QED BY <1>4, <2>1, <2>2, QuietStep DEF sidecarVars
<1> QED BY <1>1, <1>2, <1>3, <1>4 DEF SidecarNext

---------------------------------------------------------------------------
LEMMA SidecarInductive == SidecarSpec => []SidecarInv
BY InitInv, StepInv, PTL DEF SidecarSpec

(* The lifecycle, the processes and the calls keep their types, and an        *)
(* inactive lifecycle has no current generation: what an earlier process      *)
(* reports finds nothing to change (record_exit, fail_start, finish_stop).    *)
THEOREM SidecarTypes == SidecarSpec => []SidecarTypeOK
<1>1. SidecarInv => SidecarTypeOK
  BY DEF SidecarInv
<1> QED BY <1>1, SidecarInductive, PTL

(* However many threads start and stop, and whenever the process or the      *)
(* application dies: "Running" is said of a process of the current           *)
(* generation, spawned by this application, that has itself answered, and    *)
(* whose end will be heard (mark_running, attach_child, record_exit).        *)
THEOREM SidecarRunsOurs == SidecarSpec => []RunningIsOurs
<1>1. SidecarInv => RunningIsOurs
  BY DEF SidecarInv, LifecycleInv, RunningIsOurs
<1> QED BY <1>1, SidecarInductive, PTL

(* No living process of this application loses its owner, except by an error *)
(* in reading its output (start_sidecar, fail_start, finish_stop).           *)
THEOREM SidecarLosesNone == SidecarSpec => []LostOnlyByReadError
<1>1. SidecarInv => LostOnlyByReadError
  BY DEF SidecarInv
<1> QED BY <1>1, SidecarInductive, PTL
============================================================================
