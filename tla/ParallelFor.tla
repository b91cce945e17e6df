---------------------------- MODULE ParallelFor ----------------------------
(***************************************************************************)
(* What core::ParallelForExecutor promises its callers, with no thread in  *)
(* sight: a call run(n, f) evaluates f on indices below n, returns         *)
(* normally only after every index has completed and none has thrown, and  *)
(* rethrows otherwise; between two calls nothing runs.                     *)
(***************************************************************************)
EXTENDS Naturals

CONSTANT MaxCount   \* largest batch a caller asks for

VARIABLES
  phase,      \* "running" while a call of run is on the stack
  count,      \* the size of the latest batch
  completed,  \* indices whose task returned in the latest batch
  failed,     \* indices whose task threw in the latest batch
  result      \* how the latest call ended

absVars == <<phase, count, completed, failed, result>>

AbsInit ==
  /\ phase = "idle"
  /\ count = 0
  /\ completed = {}
  /\ failed = {}
  /\ result = "none"

Begin(n) ==
  /\ phase = "idle"
  /\ phase' = "running"
  /\ count' = n
  /\ completed' = {}
  /\ failed' = {}
  /\ result' = "none"

Pending == (0 .. count - 1) \ (completed \cup failed)

Complete(i) ==
  /\ phase = "running"
  /\ i \in Pending
  /\ completed' = completed \cup {i}
  /\ UNCHANGED <<phase, count, failed, result>>

Throw(i) ==
  /\ phase = "running"
  /\ i \in Pending
  /\ failed' = failed \cup {i}
  /\ UNCHANGED <<phase, count, completed, result>>

Return ==
  /\ phase = "running"
  /\ phase' = "idle"
  /\ \/ /\ failed = {} /\ completed = 0 .. count - 1
        /\ result' = "ok"
     \/ /\ failed # {}
        /\ result' = "error"
  /\ UNCHANGED <<count, completed, failed>>

AbsNext ==
  \/ \E n \in 0 .. MaxCount : Begin(n)
  \/ \E i \in 0 .. MaxCount - 1 : Complete(i) \/ Throw(i)
  \/ Return

AbsSpec == AbsInit /\ [][AbsNext]_absVars
=============================================================================
