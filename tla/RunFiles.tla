------------------------------- MODULE RunFiles -------------------------------
(***************************************************************************)
(* The files of consecutive runs in one directory: the FireFly log, which  *)
(* FireFly writes under a fixed name and FireflyLogArchive moves to the    *)
(* outputs, protecting a log that was there before (FireflyLogArchive.cpp, *)
(* AtomicFile.hpp, main.cpp), and the output files written after it.       *)
(* Every system call may fail and the process may die between any two; the *)
(* next run finds what is left.                                            *)
(***************************************************************************)
EXTENDS Integers

CONSTANT MaxRuns   \* bound: runs, one after the other

ASSUME RunFilesAssumption == MaxRuns \in Nat \ {0}

\* What a file holds: the text of one run (0: what was there before the first),
\* whole or not yet; a missing file holds the text of nobody.
Contents == [by : -1 .. MaxRuns, whole : BOOLEAN]
Missing == [by |-> -1, whole |-> TRUE]
Text(r) == [by |-> r, whole |-> TRUE]
Partial(r) == [by |-> r, whole |-> FALSE]

Outputs == {"results", "basis"}   \* differential equations and IR: written alike

VARIABLES
  run,           \* number of the run
  crossDevice,   \* the outputs are on another file system than firefly.log
  source,        \* source_, firefly.log in the working directory
  archive,       \* destination_, firefly.log in the outputs
  backup,        \* the file backup_ names
  oldBackups,    \* the backups earlier runs have left
  temporary,     \* the temporary sibling in use
  outputs,       \* the output files
  at,            \* where main is
  attempt,       \* who calls finish: main, the destructor for it or after it failed
  exitCode,      \* StillRunning until main returns
  wrote,         \* has FireFly logged in this run
  earlier, earlierArchive  \* source and archive at the start of the run

files == <<source, archive, backup, oldBackups, temporary, outputs>>
notes == <<wrote, earlier, earlierArchive, run, crossDevice>>
vars == <<files, at, attempt, exitCode, notes>>

StillRunning == -1

Init ==
  /\ run = 1 /\ crossDevice \in BOOLEAN
  /\ source \in {Missing, Text(0)} /\ archive \in {Missing, Text(0)}
  /\ backup = Missing /\ oldBackups = {} /\ temporary = Missing
  /\ outputs \in [Outputs -> {Missing, Text(0)}]
  /\ at = "protect" /\ attempt = "main" /\ exitCode = StillRunning
  /\ wrote = FALSE /\ earlier = source /\ earlierArchive = archive

Exit(code) == at' = "exit" /\ exitCode' = code
Goto(to) == at' = to /\ UNCHANGED exitCode

\* The constructor; if it throws there is nothing to destruct.
Protect ==
  /\ at = "protect" /\ UNCHANGED <<archive, oldBackups, temporary, outputs, attempt, notes>>
  /\ \/ source = Missing /\ Goto("reduce") /\ UNCHANGED <<source, backup>>
     \/ source # Missing /\ Goto("reduce") /\ backup' = source /\ source' = Missing
     \/ source # Missing /\ Exit(2) /\ UNCHANGED <<source, backup>>

\* The reduction: FireFly may log, and the reduction may fail, which destructs
\* the archive object.
FireflyLogs ==
  /\ at = "reduce"
  /\ source' = Text(run) /\ wrote' = TRUE
  /\ UNCHANGED <<archive, backup, oldBackups, temporary, outputs, at, attempt,
                 exitCode, earlier, earlierArchive, run, crossDevice>>

ReductionEnds ==
  /\ at = "reduce"
  /\ attempt' \in {"main", "destructor"}
  /\ Goto("move")
  /\ UNCHANGED <<files, notes>>

\* finish failed: if main has called it, leaving the try block destructs the
\* object, which tries once more; a failure in the destructor is swallowed.
Ignore == Goto("restore") /\ UNCHANGED attempt
Fail ==
  \/ attempt = "main" /\ attempt' = "retry" /\ Goto("move")
  \/ attempt = "retry" /\ attempt' = "gaveUp" /\ Exit(2)
  \/ attempt = "destructor" /\ UNCHANGED attempt /\ Exit(2)

\* move_or_copy: the rename and, between file systems, copy, replace and remove.
Move ==
  /\ at = "move" /\ UNCHANGED <<backup, oldBackups, temporary, outputs, notes>>
  /\ \/ /\ source = Missing /\ Goto("restore")
        /\ UNCHANGED <<source, archive, attempt>>
     \/ /\ source # Missing /\ ~crossDevice /\ Goto("restore")
        /\ archive' = source /\ source' = Missing /\ UNCHANGED attempt
     \/ /\ source # Missing /\ crossDevice /\ Goto("copy")
        /\ UNCHANGED <<source, archive, attempt>>
     \/ source # Missing /\ Fail /\ UNCHANGED <<source, archive>>

\* Where copy_file puts its bytes.
CopyInPlace(c) == archive' = c /\ UNCHANGED temporary
CopyTo(c) == temporary' = c /\ UNCHANGED archive

BeginCopy ==
  /\ at = "copy" /\ Goto("copying")
  /\ CopyTo(Partial(source.by))
  /\ UNCHANGED <<source, backup, oldBackups, outputs, attempt, notes>>

EndCopy ==
  /\ at = "copying" /\ UNCHANGED <<source, backup, oldBackups, outputs, notes>>
  /\ \/ CopyTo(source) /\ Goto("replace") /\ UNCHANGED attempt
     \/ CopyTo(Missing) /\ Fail

Replace ==
  /\ at = "replace" /\ UNCHANGED <<source, backup, oldBackups, outputs, notes>>
  /\ temporary' = Missing
  /\ \/ archive' = temporary /\ Goto("remove") /\ UNCHANGED attempt
     \/ UNCHANGED archive /\ Fail

\* The log is at its destination and still at its source; removing it may fail.
Remove ==
  /\ at = "remove" /\ UNCHANGED <<archive, backup, oldBackups, temporary, outputs, notes>>
  /\ \/ source' = Missing /\ Goto("restore") /\ UNCHANGED attempt
     \/ UNCHANGED source /\ Fail

\* restore_backup, then finalized_.
NotRestored == source
Restored == IF backup = Missing THEN source ELSE backup

Restore ==
  /\ at = "restore" /\ UNCHANGED <<archive, oldBackups, temporary, outputs, notes>>
  /\ \/ /\ source' = Restored /\ backup' = Missing /\ UNCHANGED attempt
        /\ IF attempt = "main" THEN Goto("results") ELSE Exit(2)
     \/ backup # Missing /\ Fail /\ UNCHANGED <<source, backup>>

\* atomic_file::write of each output file: the temporary file may be incomplete
\* until it is closed.
BeginWrite ==
  /\ at \in Outputs /\ temporary = Missing
  /\ temporary' = Partial(run)
  /\ UNCHANGED <<source, archive, backup, oldBackups, outputs, at, attempt, exitCode, notes>>

EndWrite ==
  /\ at \in Outputs /\ temporary = Partial(run)
  /\ UNCHANGED <<source, archive, backup, oldBackups, outputs, attempt, notes>>
  /\ \/ temporary' = Text(run) /\ UNCHANGED <<at, exitCode>>
     \/ temporary' = Missing /\ Exit(2)

Publish ==
  /\ at \in Outputs /\ temporary = Text(run)
  /\ UNCHANGED <<source, archive, backup, oldBackups, attempt, notes>>
  /\ temporary' = Missing
  /\ \/ /\ outputs' = [outputs EXCEPT ![at] = temporary]
        /\ IF at = "results" THEN Goto("basis") ELSE Exit(0)
     \/ UNCHANGED outputs /\ Exit(2)

\* The process dies; what it has kept in memory is gone.
Crash ==
  /\ at # "exit" /\ Exit(9)
  /\ UNCHANGED <<files, attempt, notes>>

NextRun ==
  /\ at = "exit" /\ run < MaxRuns
  /\ run' = run + 1
  /\ oldBackups' = IF backup = Missing THEN oldBackups ELSE oldBackups \cup {backup}
  /\ backup' = Missing /\ temporary' = Missing
  /\ at' = "protect" /\ attempt' = "main" /\ exitCode' = StillRunning
  /\ wrote' = FALSE /\ earlier' = source /\ earlierArchive' = archive
  /\ UNCHANGED <<source, archive, outputs, crossDevice>>

AllEnded == at = "exit" /\ run = MaxRuns /\ UNCHANGED vars

Next ==
  \/ Protect \/ FireflyLogs \/ ReductionEnds \/ Move \/ BeginCopy \/ EndCopy \/ Replace
  \/ Remove \/ Restore \/ BeginWrite \/ EndWrite \/ Publish \/ Crash \/ NextRun \/ AllEnded

Spec == Init /\ [][Next]_vars

----------------------------------------------------------------------------
Places == {"protect", "reduce", "move", "copy", "copying", "replace", "remove", "restore",
           "exit"} \cup Outputs

\* Every variable has its type; a run that ends has an exit code.
TypeOK ==
  /\ run \in 1 .. MaxRuns /\ crossDevice \in BOOLEAN
  /\ source \in Contents /\ archive \in Contents /\ backup \in Contents
  /\ temporary \in Contents
  /\ oldBackups \subseteq Contents /\ outputs \in [Outputs -> Contents]
  /\ at \in Places /\ attempt \in {"main", "destructor", "retry", "gaveUp"} /\ wrote \in BOOLEAN
  /\ exitCode \in {StillRunning, 0, 2, 9} /\ (at = "exit" <=> exitCode # StillRunning)
  /\ earlier \in Contents /\ earlierArchive \in Contents

\* A log found at the start of a run, the user's or one that a crashed run has
\* left, is never lost: it is in its place or in a backup file, through every
\* failed call, retry and crash.
Kept == {source, backup} \cup oldBackups
PreRunLogKept == earlier = Missing \/ earlier \in Kept

\* The log of the current run is somewhere once it is written.
OwnLogKept == wrote => Text(run) \in {source, archive}

\* No output and no archived log is ever found half written.
DestinationsWhole == archive.whole /\ \A o \in Outputs : outputs[o].whole

\* A run that reports success has archived its own log if there is one, put back
\* the log it found, and written every output.
SuccessComplete ==
  exitCode = 0 =>
    /\ archive = IF wrote THEN Text(run) ELSE earlierArchive
    /\ source = earlier /\ backup = Missing
    /\ \A o \in Outputs : outputs[o] = Text(run)
=============================================================================
