------------------------- MODULE SidecarLifecycle -------------------------
(* The desktop application manages one backend process, the sidecar.       *)
(* sidecar_lifecycle.rs is a state machine behind a mutex; start_sidecar    *)
(* and stop_sidecar in main.rs drive it from the threads of the commands,   *)
(* and a task per process reports its exit.  Between two locked sections    *)
(* anything may happen: another command, the exit of the process, the       *)
(* death of the application.                                                *)
EXTENDS Naturals

CONSTANTS
  Callers,        \* threads that run start_sidecar and stop_sidecar
  Personas,       \* what a backend can be started for
  MaxSpawns,      \* bound on the processes ever spawned
  MaxTrouble,     \* bound on spontaneous exits, read errors and deaths
  None

ASSUME SidecarAssumption == MaxSpawns \in Nat /\ MaxTrouble \in Nat

VARIABLES
  lifecycle,      \* SidecarLifecycle: phase, generations, active child
  child,          \* the processes, by order of spawning
  spawned,        \* how many there are
  call,           \* where each thread is in start_sidecar or stop_sidecar
  trouble         \* spontaneous exits, read errors and deaths so far

sidecarVars == <<lifecycle, child, spawned, call, trouble>>

Spawns == 1 .. MaxSpawns
Phases == {"Stopped", "Starting", "Running", "Stopping", "Failed"}
StartSteps == {"sharing", "preparing", "checking", "spawning", "attaching",
               "awaiting", "marking"}
StopSteps == {"asking", "leaving", "waiting"}

\* ActiveChild is the number of the process: its shutdown capability is drawn
\* for that process alone, and its generation is kept with the process.
Lifecycles ==
  [phase: Phases, next_generation: 0 .. MaxSpawns + 1,
   current_generation: 0 .. MaxSpawns + 1, active: 0 .. MaxSpawns]

Fresh == [phase |-> "Stopped", next_generation |-> 0,
          current_generation |-> 0, active |-> 0]

\* A process binds the port only after its own start-up, so it is first
\* "starting" and then "serving"; "event" is what its task has to report.
NoChild == [state |-> "none", generation |-> 0, persona |-> None,
            parent |-> FALSE, heard |-> FALSE, event |-> "none"]
\* A thread outside of both calls, with the result of the last one.
Between(at, ok) == [at |-> at, generation |-> 0, child |-> 0, persona |-> None, ok |-> ok]
Resting == Between("idle", FALSE)

ChildRow ==
  [state: {"none", "starting", "serving", "leaving", "gone"},
   generation: 0 .. MaxSpawns + 1, persona: Personas \cup {None},
   parent: BOOLEAN, heard: BOOLEAN, event: {"none", "terminated", "error"}]
CallRow ==
  [at: {"idle", "done"} \cup StartSteps \cup StopSteps,
   generation: 0 .. MaxSpawns + 1, child: 0 .. MaxSpawns,
   persona: Personas \cup {None}, ok: BOOLEAN]

SidecarInit ==
  /\ lifecycle = Fresh
  /\ child = [s \in Spawns |-> NoChild]
  /\ spawned = 0
  /\ call = [c \in Callers |-> Resting]
  /\ trouble = 0

Alive(s) == child[s].state \in {"starting", "serving", "leaving"}
PortTaken == \E s \in Spawns : child[s].state \in {"serving", "leaving"}

---------------------------------------------------------------------------
(* The methods of SidecarLifecycle, as functions of its value. *)

IsRunning == lifecycle.phase = "Running" /\ lifecycle.active # 0
IsInactive == lifecycle.active = 0 /\ lifecycle.phase \in {"Stopped", "Failed"}
IsGenerationActive(g) ==
  /\ lifecycle.current_generation = g
  /\ lifecycle.phase \in {"Starting", "Running", "Stopping"}

BeginStart(l) ==
  [phase |-> "Starting", next_generation |-> l.next_generation + 1,
   current_generation |-> l.next_generation + 1, active |-> 0]

MayAttach(l, g) ==
  /\ l.phase = "Starting"
  /\ l.current_generation = g
  /\ l.active = 0

MayRun(l, g) ==
  /\ l.phase = "Starting"
  /\ l.current_generation = g
  /\ l.active # 0
  /\ child[l.active].generation = g

Cleared(l, to) ==
  [phase |-> to, next_generation |-> l.next_generation,
   current_generation |-> 0, active |-> 0]

\* The fence is left out: the exit of any generation clears the current one.
RecordExitUnfenced(l, g, isError) ==
  Cleared(l, IF l.phase = "Stopping" /\ ~isError THEN "Stopped" ELSE "Failed")

RecordExit(l, g, isError) ==
  IF l.current_generation # g
    THEN l
    ELSE Cleared(l, IF l.phase = "Stopping" /\ ~isError THEN "Stopped" ELSE "Failed")

FailStart(l, g) == IF l.current_generation # g THEN l ELSE Cleared(l, "Failed")
FinishStop(l, g) == IF l.current_generation # g THEN l ELSE Cleared(l, "Stopped")

\* fail_start and finish_stop hand out the child, and the caller kills it.
Handed(g) == IF lifecycle.current_generation = g THEN lifecycle.active ELSE 0

\* A process that is gone has its exit to report.
Dead(r) == [r EXCEPT !.state = "gone",
                     !.event = IF @ = "none" THEN "terminated" ELSE @]

\* CommandChild::kill: the process is gone, and its task is told.
Killed(s) ==
  IF s = 0
    THEN child
    ELSE [child EXCEPT ![s] = Dead(@)]

---------------------------------------------------------------------------
(* start_sidecar *)

To(c, step) == call' = [call EXCEPT ![c].at = step]
Return(c, result) == call' = [call EXCEPT ![c] = Between("done", result)]

StartCall(c) ==
  /\ call[c].at = "idle"
  /\ \/ /\ IsRunning
        /\ Return(c, TRUE)
        /\ UNCHANGED lifecycle
     \/ /\ lifecycle.phase \in {"Starting", "Stopping"}
        /\ To(c, "sharing")
        /\ UNCHANGED lifecycle
     \/ /\ lifecycle.phase \in {"Stopped", "Failed"} \/ (lifecycle.phase = "Running" /\ ~IsRunning)
        /\ lifecycle.next_generation <= MaxSpawns
        /\ lifecycle' = BeginStart(lifecycle)
        /\ call' = [call EXCEPT ![c] = [@ EXCEPT !.at = "preparing",
                                     !.generation = lifecycle'.current_generation]]
  /\ UNCHANGED <<child, spawned, trouble>>

\* A caller that finds a start in flight waits for its outcome, or for 45 s.
Share(c) ==
  /\ call[c].at = "sharing"
  /\ \/ IsRunning /\ Return(c, TRUE)
     \/ ~IsRunning /\ Return(c, FALSE)
  /\ UNCHANGED <<lifecycle, child, spawned, trouble>>

GiveUpStart(c) ==
  /\ lifecycle' = FailStart(lifecycle, call[c].generation)
  /\ Return(c, FALSE)

\* Configuration, profile and credential were read for persona p.
Prepare(c, p) ==
  /\ call[c].at = "preparing"
  /\ call' = [call EXCEPT ![c] = [@ EXCEPT !.at = "checking", !.persona = p]]
  /\ UNCHANGED <<lifecycle, child, spawned, trouble>>

PrepareFails(c) ==
  /\ call[c].at = "preparing"
  /\ GiveUpStart(c)
  /\ UNCHANGED <<child, spawned, trouble>>

CheckPort(c) ==
  /\ call[c].at = "checking"
  /\ \/ /\ PortTaken
        /\ GiveUpStart(c)
     \/ /\ ~PortTaken
        /\ To(c, "spawning")
        /\ UNCHANGED lifecycle
  /\ UNCHANGED <<child, spawned, trouble>>

\* The process knows its parent, and nobody listens to it yet.
Started(g, p) == [state |-> "starting", generation |-> g, persona |-> p,
                  parent |-> TRUE, heard |-> FALSE, event |-> "none"]

Spawn(c) ==
  /\ call[c].at = "spawning"
  /\ spawned < MaxSpawns
  /\ spawned' = spawned + 1
  /\ child' = [child EXCEPT ![spawned + 1] =
                 Started(call[c].generation, call[c].persona)]
  /\ call' = [call EXCEPT ![c] = [@ EXCEPT !.at = "attaching", !.child = spawned + 1]]
  /\ UNCHANGED <<lifecycle, trouble>>

SpawnFails(c) ==
  /\ call[c].at = "spawning"
  /\ GiveUpStart(c)
  /\ UNCHANGED <<child, spawned, trouble>>

\* The task that hears of the exit is started once the child is attached; a
\* child that comes too late is killed on the spot.
Attach(c) ==
  /\ call[c].at = "attaching"
  /\ LET s == call[c].child
     IN \/ /\ MayAttach(lifecycle, call[c].generation)
           /\ lifecycle' = [lifecycle EXCEPT !.active = s]
           /\ child' = [child EXCEPT ![s].heard = TRUE]
           /\ To(c, "awaiting")
        \/ /\ ~MayAttach(lifecycle, call[c].generation)
           /\ child' = Killed(s)
           /\ Return(c, FALSE)
           /\ UNCHANGED lifecycle
  /\ UNCHANGED <<spawned, trouble>>

\* Any answer on the port would do.
AnswersAtAll(c) == PortTaken

\* Whoever holds the port answers, but only the process that was given this
\* capability answers with it.
AnswersReady(c) == child[call[c].child].state = "serving"

AskReady(c) ==
  /\ call[c].at = "awaiting"
  /\ IsGenerationActive(call[c].generation)
  /\ AnswersReady(c)
  /\ To(c, "marking")
  /\ UNCHANGED <<lifecycle, child, spawned, trouble>>

SeeExit(c) ==
  /\ call[c].at = "awaiting"
  /\ ~IsGenerationActive(call[c].generation)
  /\ Return(c, FALSE)
  /\ UNCHANGED <<lifecycle, child, spawned, trouble>>

\* The loop of start_sidecar has no deadline: it asks for ever.
StartNeverTimesOut(c) ==
  /\ call[c].at = "awaiting"
  /\ UNCHANGED sidecarVars

StartTimesOut(c) ==
  /\ call[c].at = "awaiting"
  /\ IsGenerationActive(call[c].generation)
  /\ GiveUpStart(c)
  /\ child' = Killed(Handed(call[c].generation))
  /\ UNCHANGED <<spawned, trouble>>

MarkRunning(c) ==
  /\ call[c].at = "marking"
  /\ \/ /\ MayRun(lifecycle, call[c].generation)
        /\ lifecycle' = [lifecycle EXCEPT !.phase = "Running"]
        /\ Return(c, TRUE)
     \/ /\ ~MayRun(lifecycle, call[c].generation)
        /\ Return(c, FALSE)
        /\ UNCHANGED lifecycle
  /\ UNCHANGED <<child, spawned, trouble>>

---------------------------------------------------------------------------
(* stop_sidecar *)

StopCall(c) ==
  /\ call[c].at = "idle"
  /\ \/ /\ lifecycle.phase = "Stopping"
        /\ To(c, "waiting")
        /\ UNCHANGED lifecycle
     \/ /\ lifecycle.phase # "Stopping" /\ lifecycle.active = 0
        /\ lifecycle' = Cleared(lifecycle, "Stopped")
        /\ Return(c, TRUE)
     \/ /\ lifecycle.phase # "Stopping" /\ lifecycle.active # 0
        /\ lifecycle' = [lifecycle EXCEPT !.phase = "Stopping"]
        /\ call' = [call EXCEPT ![c] = [@ EXCEPT
                        !.at = "asking", !.child = lifecycle.active,
                        !.generation = child[lifecycle.active].generation]]
  /\ UNCHANGED <<child, spawned, trouble>>

\* The request reaches whoever holds the port and is obeyed only by the
\* process with this capability.
AskShutdown(c) ==
  /\ call[c].at = "asking"
  /\ child' = [child EXCEPT ![call[c].child].state = IF @ = "serving" THEN "leaving" ELSE @]
  /\ To(c, "leaving")
  /\ UNCHANGED <<lifecycle, spawned, trouble>>

SeeStopped(c) ==
  /\ call[c].at = "leaving"
  /\ ~IsGenerationActive(call[c].generation)
  /\ Return(c, TRUE)
  /\ UNCHANGED <<lifecycle, child, spawned, trouble>>

\* Five seconds have passed: the child is taken out and killed.
StopTimesOut(c) ==
  /\ call[c].at = "leaving"
  /\ lifecycle' = FinishStop(lifecycle, call[c].generation)
  /\ child' = Killed(Handed(call[c].generation))
  /\ Return(c, TRUE)
  /\ UNCHANGED <<spawned, trouble>>

WaitStopped(c) ==
  /\ call[c].at = "waiting"
  /\ Return(c, TRUE)
  /\ UNCHANGED <<lifecycle, child, spawned, trouble>>

---------------------------------------------------------------------------
(* The task per process, and the processes themselves. *)

\* The first event ends the task.
HearExit(s) ==
  /\ child[s].heard
  /\ child[s].event # "none"
  /\ lifecycle' = RecordExit(lifecycle, child[s].generation, child[s].event = "error")
  /\ child' = [child EXCEPT ![s].heard = FALSE]
  /\ UNCHANGED <<spawned, call, trouble>>

Gone(s) == [child EXCEPT ![s] = Dead(@)]

Serve(s) ==
  /\ child[s].state = "starting"
  /\ ~PortTaken
  /\ child' = [child EXCEPT ![s].state = "serving"]
  /\ UNCHANGED <<lifecycle, spawned, call, trouble>>

\* Start-up fails: the port is taken, the schema is refused, the database is
\* out of reach.
StartupFails(s) ==
  /\ child[s].state = "starting"
  /\ child' = Gone(s)
  /\ UNCHANGED <<lifecycle, spawned, call, trouble>>

Leave(s) ==
  /\ child[s].state = "leaving"
  /\ child' = Gone(s)
  /\ UNCHANGED <<lifecycle, spawned, call, trouble>>

Crash(s) ==
  /\ child[s].state = "serving"
  /\ trouble < MaxTrouble
  /\ trouble' = trouble + 1
  /\ child' = Gone(s)
  /\ UNCHANGED <<lifecycle, spawned, call>>

\* Reading the output of the process fails; the process goes on.
ReadError(s) ==
  /\ Alive(s)
  /\ child[s].event = "none"
  /\ trouble < MaxTrouble
  /\ trouble' = trouble + 1
  /\ child' = [child EXCEPT ![s].event = "error"]
  /\ UNCHANGED <<lifecycle, spawned, call>>

\* _stop_when_parent_exits: a process whose application has died leaves.
Orphaned(s) ==
  /\ child[s].state = "serving"
  /\ ~child[s].parent
  /\ child' = [child EXCEPT ![s].state = "leaving"]
  /\ UNCHANGED <<lifecycle, spawned, call, trouble>>

\* The application dies and is started again.
AppDies ==
  /\ trouble < MaxTrouble
  /\ trouble' = trouble + 1
  /\ lifecycle' = Fresh
  /\ call' = [c \in Callers |-> Resting]
  /\ child' = [s \in Spawns |-> [child[s] EXCEPT !.parent = FALSE, !.heard = FALSE]]
  /\ UNCHANGED spawned

---------------------------------------------------------------------------

CallSteps(c) ==
  \/ Share(c)
  \/ \E p \in Personas : Prepare(c, p)
  \/ PrepareFails(c)
  \/ CheckPort(c) \/ Spawn(c) \/ SpawnFails(c) \/ Attach(c)
  \/ AskReady(c) \/ SeeExit(c) \/ StartTimesOut(c) \/ MarkRunning(c)
  \/ AskShutdown(c) \/ SeeStopped(c) \/ StopTimesOut(c) \/ WaitStopped(c)

ChildSteps(s) ==
  \/ HearExit(s)
  \/ Serve(s) \/ StartupFails(s) \/ Leave(s) \/ Orphaned(s)
  \/ Crash(s) \/ ReadError(s)

\* The caller of start_sidecar or stop_sidecar goes on.
Accept(c) ==
  /\ call[c].at = "done"
  /\ call' = [call EXCEPT ![c] = Resting]
  /\ UNCHANGED <<lifecycle, child, spawned, trouble>>

SidecarNext ==
  \/ \E c \in Callers : StartCall(c) \/ StopCall(c) \/ CallSteps(c) \/ Accept(c)
  \/ \E s \in Spawns : ChildSteps(s)
  \/ AppDies

\* A thread inside a call keeps running: its loops sleep 250 ms and have a
\* deadline.  Nothing else has to happen for a call to return.
SidecarSpec ==
  /\ SidecarInit
  /\ [][SidecarNext]_sidecarVars
  /\ \A c \in Callers : WF_sidecarVars(CallSteps(c))

---------------------------------------------------------------------------
(* Properties *)

(* Types; an inactive lifecycle has no current generation, so nothing an     *)
(* earlier child reports can touch it (record_exit, fail_start, finish_stop). *)
SidecarTypeOK ==
  /\ lifecycle \in Lifecycles
  /\ child \in [Spawns -> ChildRow]
  /\ spawned \in 0 .. MaxSpawns
  /\ call \in [Callers -> CallRow]
  /\ trouble \in 0 .. MaxTrouble
  /\ lifecycle.current_generation <= lifecycle.next_generation
  /\ lifecycle.phase \in {"Stopped", "Failed"} => lifecycle.current_generation = 0

\* "Running" is said of a process of this application and of the current
\* generation that has itself answered, and if that process is on its way out
\* or gone, the task that will say so still listens: the phase never stays
\* Running over a process that is not there.
RunningIsOurs ==
  lifecycle.phase = "Running" =>
    LET s == lifecycle.active
    IN /\ s # 0
       /\ child[s].generation = lifecycle.current_generation
       /\ child[s].parent
       /\ child[s].state # "starting"
       /\ child[s].heard

\* No process of this application is lost: one that lives is the active one,
\* or its starter has yet to attach or kill it.  The exception is a process
\* whose output could not be read: record_exit drops its handle unkilled.
LostOnlyByReadError ==
  \A s \in Spawns :
    Alive(s) /\ child[s].parent =>
      \/ lifecycle.active = s
      \/ \E c \in Callers : call[c].at = "attaching" /\ call[c].child = s
      \/ child[s].event = "error"

\* start_sidecar and stop_sidecar return, whatever the process does and
\* whoever else starts and stops.
CallsReturn ==
  \A c \in Callers :
    (call[c].at \in StartSteps \cup StopSteps) ~> (call[c].at \in {"idle", "done"})
============================================================================
