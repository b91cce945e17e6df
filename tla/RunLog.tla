-------------------------------- MODULE RunLog --------------------------------
(***************************************************************************)
(* How runs that start in the same second and write to the same directory  *)
(* choose their log files (RunLog.cpp, reserve_log_path and the            *)
(* constructor): look whether the name is taken, reserve it by creating a  *)
(* lock directory, open the log, remove the lock directory.  A run may     *)
(* crash between any two of these system calls.                            *)
(***************************************************************************)
EXTENDS Integers, FiniteSets

CONSTANTS
  Runs,       \* processes with one output directory and one time stamp
  MaxIndex    \* bound: the suffixes tried (max size_t in the code)

ASSUME RunLogAssumption == IsFiniteSet(Runs) /\ MaxIndex \in Nat

NoPath == -1
Names == 0 .. MaxIndex   \* the index of the suffix stands for the name

VARIABLES
  logs,           \* the log files that exist
  reservations,   \* the lock directories that exist
  call,           \* by run: the next system call
  index,          \* by run: index of the loop
  path            \* by run: path_, once the log is open

logVars == <<logs, reservations, call, index, path>>

LogInit ==
  /\ logs = {} /\ reservations = {}
  /\ call = [r \in Runs |-> "exists"]
  /\ index = [r \in Runs |-> 0]
  /\ path = [r \in Runs |-> NoPath]

Call(r, to) == call' = [call EXCEPT ![r] = to]

\* ++index; beyond the last suffix the run fails.
TrySame(r) == UNCHANGED index /\ Call(r, "exists")
TryNext(r) ==
  IF index[r] < MaxIndex
    THEN index' = [index EXCEPT ![r] = @ + 1] /\ Call(r, "exists")
    ELSE UNCHANGED index /\ Call(r, "failed")

\* filesystem::exists(candidate)
Exists(r) ==
  /\ call[r] = "exists"
  /\ \/ index[r] \in logs /\ TryNext(r)
     \/ index[r] \notin logs /\ Call(r, "reserve") /\ UNCHANGED index
  /\ UNCHANGED <<logs, reservations, path>>

\* filesystem::create_directory(reservation): true if it made the directory.
AnyCreatable(name) == TRUE
Creatable(name) == name \notin reservations

Reserve(r) ==
  /\ call[r] = "reserve"
  /\ \/ /\ Creatable(index[r])
        /\ reservations' = reservations \cup {index[r]}
        /\ Call(r, "open") /\ UNCHANGED index
     \/ ~Creatable(index[r]) /\ TryNext(r) /\ UNCHANGED reservations
  /\ UNCHANGED <<logs, path>>

\* stream_.open with trunc; it may fail, the reservation is removed all the same.
Open(r) ==
  /\ call[r] = "open"
  /\ Call(r, "release")
  /\ \/ logs' = logs \cup {index[r]} /\ path' = [path EXCEPT ![r] = index[r]]
     \/ UNCHANGED <<logs, path>>
  /\ UNCHANGED <<reservations, index>>

\* The reservation is removed, or that fails: so does the run.
Release(r) ==
  /\ call[r] = "release"
  /\ \/ reservations' = reservations \ {index[r]}
        /\ Call(r, IF path[r] = NoPath THEN "failed" ELSE "logging")
     \/ UNCHANGED reservations /\ Call(r, "failed")
  /\ UNCHANGED <<logs, index, path>>

CrashLogging(r) ==
  /\ call[r] \in {"exists", "reserve", "open", "release", "logging"}
  /\ Call(r, "crashed")
  /\ UNCHANGED <<logs, reservations, index, path>>

Ended(r) == call[r] \in {"logging", "failed", "crashed"}
AllLogsEnded == (\A r \in Runs : Ended(r)) /\ UNCHANGED logVars

Step(r) == Exists(r) \/ Reserve(r) \/ Open(r) \/ Release(r)
LogNext == (\E r \in Runs : Step(r) \/ CrashLogging(r)) \/ AllLogsEnded

LogSpec == LogInit /\ [][LogNext]_logVars /\ \A r \in Runs : WF_logVars(Step(r))

----------------------------------------------------------------------------
\* Every variable has its type, and a run that logs has a path.
LogTypeOK ==
  /\ logs \subseteq Names /\ reservations \subseteq Names
  /\ call \in [Runs -> {"exists", "reserve", "open", "release", "logging", "failed", "crashed"}]
  /\ index \in [Runs -> Names]
  /\ path \in [Runs -> Names \cup {NoPath}]

\* Between its reservation and its release a run has its name for itself, and
\* the lock directory is there: no two runs open a log at the same time, and
\* none removes the reservation of another, whoever crashed before.
Holders == {r \in Runs : call[r] \in {"open", "release"}}
ReservationsExclusive ==
  \A r \in Holders :
    /\ index[r] \in reservations
    /\ \A q \in Holders : index[q] = index[r] => q = r

\* Every run gets a log, fails or crashes: runs never wait for each other, a
\* lock directory left by a crash included.
EveryRunEnds == \A r \in Runs : <>Ended(r)

\* Two runs that log have different logs ("failed to select a unique reduction
\* log path").  It does not hold: see the README.
LogsUnique ==
  \A r, q \in Runs : call[r] = "logging" /\ call[q] = "logging" /\ r # q => path[r] # path[q]
=============================================================================
