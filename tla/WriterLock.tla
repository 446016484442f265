------------------------------ MODULE WriterLock ------------------------------
(* The one write reservation of a SQLite or libSQL database, as the tasks of  *)
(* a backend meet it (database/turso.py).  BEGIN reserves nothing, the first  *)
(* statement that writes does; a task that finds the reservation taken gets   *)
(* "database is locked".  A remote server ends a transaction that stays idle  *)
(* and frees the reservation while its task still believes that it holds it.  *)
EXTENDS Naturals

CONSTANTS
  None,      \* no task, no event
  MaxFaults,   \* bound: statements, commits and sessions that fail
  MaxTasks     \* bound: tasks begun

VARIABLES
  writer,      \* the task whose transaction holds the reservation
  faults,      \* failures so far
  begun        \* tasks so far

lockVars == <<writer, faults, begun>>

Unreserved == writer = None
Holds(task) == writer = task
Reserves(task) == Unreserved /\ writer' = task
Releases(task) == Holds(task) /\ writer' = None

Begins == begun < MaxTasks /\ begun' = begun + 1 /\ UNCHANGED faults
Trouble == faults < MaxFaults /\ faults' = faults + 1 /\ UNCHANGED begun

\* A statement or the commit fails, for want of the transaction if the server
\* has ended it, and what the transaction wrote is rolled back.
RollsBack(task) ==
  IF Holds(task) THEN writer' = None /\ Trouble
                 ELSE UNCHANGED lockVars

ServerEnds(task) == Holds(task) /\ writer' = None /\ Trouble

LockInit == writer = None /\ faults = 0 /\ begun = 0

=============================================================================
