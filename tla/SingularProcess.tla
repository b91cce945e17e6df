--------------------------- MODULE SingularProcess ---------------------------
(***************************************************************************)
(* masters/detail/SingularProcess.cpp: run_singular_process, called by     *)
(* several threads of one program at a time (MasterFinder,                 *)
(* SectorDimensionCounter).  Each call makes three pipes, forks a child    *)
(* that becomes Singular, feeds it the script and collects what it writes. *)
(* All calls share one descriptor table, so a pipe that is not yet marked  *)
(* close-on-exec when another call forks stays open in the other child.    *)
(* Scripts and outputs are counted in chunks: a pipe keeps their order.    *)
(* The child is external and does what Singular does with a script: it     *)
(* writes what a chunk produces before it reads the next one, blocked      *)
(* while the pipe is full, and it ends after "exit;" or at end of input.   *)
(***************************************************************************)
EXTENDS Integers, FiniteSets

CONSTANTS
  Calls,      \* the calls, each by a thread of its own
  Scripts,    \* the chunks of the scripts the calls may be given
  Replies,    \* the chunks one script chunk may make the child write
  Capacity    \* chunks a pipe holds

ASSUME ProcessAssumption ==
  /\ Scripts \subseteq [Calls -> Nat]
  /\ Replies \subseteq [{2, 3} -> Nat]
  /\ Capacity \in Nat \ {0}

Stdin == 1
Stdout == 2
Stderr == 3
Pipes == Stdin .. Stderr
OutputPipes == {Stdout, Stderr}

VARIABLES
  stage,     \* where the call is in run_singular_process
  pipe,      \* the pipe make_pipe is working on
  ready,     \* revents of the latest poll that are not served yet
  parent,    \* the pipe ends open in the program's descriptor table
  exposed,   \* those of them without FD_CLOEXEC
  child,     \* the state of the call's child process
  held,      \* the pipe ends open in the child
  leaked,    \* those of other calls that survive its exec
  size,      \* chunks of the script
  put,       \* chunks written into each pipe so far
  taken,     \* chunks read out of each pipe so far
  owed,      \* chunks the child has to write before it reads on
  status     \* the exit status of the child

thread == <<stage, pipe, ready, size>>
table == <<parent, exposed>>
process == <<child, held, leaked, owed, status>>
processVars == <<thread, table, process, put, taken>>

Ends == Calls \X Pipes \X {"read", "write"}

\* The end of a pipe that the program keeps, and the one it hands over.
OwnEnd(c, p) == <<c, p, IF p = Stdin THEN "write" ELSE "read">>
ChildEnd(c, p) == <<c, p, IF p = Stdin THEN "read" ELSE "write">>
EndsOf(c) == {c} \X Pipes \X {"read", "write"}

\* A pipe has a reader or a writer while any process keeps that end open.
IsOpen(e) == e \in parent \/ \E d \in Calls : e \in held[d]

Buffered(c, p) == put[c][p] - taken[c][p]

\* The descriptors poll is given: -1 stands for a closed one.
Polled(c) == {p \in Pipes : OwnEnd(c, p) \in parent}

Lesser(a, b) == IF a < b THEN a ELSE b

Proceed(c, to) == stage' = [stage EXCEPT ![c] = to]
Add(f, c, p, n) == [f EXCEPT ![c][p] = @ + n]

ProcessInit ==
  /\ stage = [c \in Calls |-> "make"]
  /\ pipe = [c \in Calls |-> Stdin]
  /\ ready = [c \in Calls |-> {}]
  /\ parent = {} /\ exposed = {}
  /\ child = [c \in Calls |-> "none"]
  /\ held = [c \in Calls |-> {}]
  /\ leaked = [c \in Calls |-> {}]
  /\ size \in Scripts
  /\ put = [c \in Calls |-> [p \in Pipes |-> 0]]
  /\ taken = [c \in Calls |-> [p \in Pipes |-> 0]]
  /\ owed = [c \in Calls |-> [p \in OutputPipes |-> 0]]
  /\ status = [c \in Calls |-> "none"]

-----------------------------------------------------------------------------
(* The pipes *)

\* pipe(): both ends exist, and a child forked now would keep them.
MakePipe(c) ==
  /\ stage[c] = "make"
  /\ LET both == {<<c, pipe[c], "read">>, <<c, pipe[c], "write">>}
     IN  /\ parent' = parent \cup both
         /\ exposed' = exposed \cup both
  /\ Proceed(c, "mark_read")
  /\ UNCHANGED <<pipe, ready, size, process, put, taken>>

\* set_close_on_exec for the read end.
MarkRead(c) ==
  /\ stage[c] = "mark_read"
  /\ exposed' = exposed \ {<<c, pipe[c], "read">>}
  /\ Proceed(c, "mark_write")
  /\ UNCHANGED <<pipe, ready, size, parent, process, put, taken>>

\* set_close_on_exec for the write end; then the next pipe, or the fork.
MarkWrite(c) ==
  /\ stage[c] = "mark_write"
  /\ exposed' = exposed \ {<<c, pipe[c], "write">>}
  /\ IF pipe[c] = Stderr
       THEN Proceed(c, "fork") /\ UNCHANGED pipe
       ELSE Proceed(c, "make") /\ pipe' = [pipe EXCEPT ![c] = @ + 1]
  /\ UNCHANGED <<ready, size, parent, process, put, taken>>

\* fork(): the child gets a copy of the whole descriptor table.
Fork(c) ==
  /\ stage[c] = "fork"
  /\ child' = [child EXCEPT ![c] = "forked"]
  /\ held' = [held EXCEPT ![c] = parent]
  /\ leaked' = [leaked EXCEPT ![c] = exposed]
  /\ Proceed(c, "close")
  /\ UNCHANGED <<pipe, ready, size, table, owed, status, put, taken>>

\* Mutant: the program keeps the end the child writes its output to.
OutputKept(c) == {ChildEnd(c, p) : p \in {Stdin, Stderr}}

\* The ends the program has no use for once the child has them.
HandedOver(c) == {ChildEnd(c, p) : p \in Pipes}

\* The child's ends are closed here, and the input if the script is empty.
CloseChildEnds(c) ==
  /\ stage[c] = "close"
  /\ parent' = parent \ (HandedOver(c) \cup
                         IF size[c] = 0 THEN {OwnEnd(c, Stdin)} ELSE {})
  /\ Proceed(c, "poll")
  /\ UNCHANGED <<pipe, ready, size, exposed, process, put, taken>>

\* Mutant: the child is waited for only if it has ended already.
ReapedIfEnded(state) == IF state = "zombie" THEN "reaped" ELSE state

\* ~ChildProcess: SIGKILL and waitpid, whatever the child is doing.
KilledAndReaped(state) == IF state = "none" THEN "none" ELSE "reaped"

\* pipe, fcntl, fork or poll fails, or reading or writing a pipe does.  The
\* destructors kill and reap the child, if there is one, and then close the
\* pipes, whose contents are lost; kill and waitpid are one step, as nobody else waits for the child.
Throw(c) ==
  /\ stage[c] \in {"make", "mark_read", "mark_write", "fork", "poll"}
  /\ child' = [child EXCEPT ![c] = KilledAndReaped(@)]
  /\ held' = [held EXCEPT ![c] = {}]
  /\ parent' = parent \ EndsOf(c)
  /\ exposed' = exposed \ EndsOf(c)
  /\ ready' = [ready EXCEPT ![c] = {}]
  /\ owed' = [owed EXCEPT ![c] = [p \in OutputPipes |-> 0]]
  /\ put' = [put EXCEPT ![c] = [p \in Pipes |-> 0]]
  /\ taken' = [taken EXCEPT ![c] = [p \in Pipes |-> 0]]
  /\ Proceed(c, "threw")
  /\ UNCHANGED <<pipe, size, leaked, status>>

-----------------------------------------------------------------------------
(* The poll loop *)

\* What poll reports: room or nobody left to read (POLLOUT, POLLERR); data
\* or nobody left to write (POLLIN, POLLHUP).
Reported(c, p) ==
  IF p = Stdin
    THEN Buffered(c, p) < Capacity \/ ~IsOpen(<<c, p, "read">>)
    ELSE Buffered(c, p) > 0 \/ ~IsOpen(<<c, p, "write">>)

\* poll without a timeout: it returns once something is reported.
Poll(c) ==
  /\ stage[c] = "poll" /\ ready[c] = {}
  /\ \E p \in Polled(c) : Reported(c, p)
  /\ ready' = [ready EXCEPT ![c] = {p \in Polled(c) : Reported(c, p)}]
  /\ UNCHANGED <<stage, pipe, size, table, process, put, taken>>

\* The reported pipes are served in the order of the array.
Turn(c, p) ==
  /\ stage[c] = "poll"
  /\ p \in ready[c] /\ \A q \in ready[c] : p <= q
  /\ ready' = [ready EXCEPT ![c] = @ \ {p}]

\* write(): as much as the pipe takes; the input is closed after the last
\* chunk, and on EPIPE or POLLERR, which leave the verdict to the status.
ServeInput(c) ==
  /\ Turn(c, Stdin)
  /\ IF IsOpen(<<c, Stdin, "read">>)
       THEN LET n == Lesser(Capacity - Buffered(c, Stdin), size[c] - put[c][Stdin])
            IN  /\ put' = Add(put, c, Stdin, n)
                /\ parent' = IF put[c][Stdin] + n = size[c]
                               THEN parent \ {OwnEnd(c, Stdin)} ELSE parent
       ELSE /\ parent' = parent \ {OwnEnd(c, Stdin)}
            /\ UNCHANGED put
  /\ UNCHANGED <<stage, pipe, size, exposed, process, taken>>

\* Mutant: a pipe that hung up is closed without being read.
LostOnHangup(c, p) == IF IsOpen(<<c, p, "write">>) THEN Buffered(c, p) ELSE 0

Drained(c, p) == Buffered(c, p)

\* drain_output: everything there is, and then end of file, which is read
\* once nobody can write any more, or EAGAIN.
ServeOutput(c) ==
  \E p \in OutputPipes :
    /\ Turn(c, p)
    /\ taken' = Add(taken, c, p, Drained(c, p))
    /\ parent' = IF IsOpen(<<c, p, "write">>)
                   THEN parent ELSE parent \ {OwnEnd(c, p)}
    /\ UNCHANGED <<stage, pipe, size, exposed, process, put>>

\* child.wait() after the loop: all three ends are closed.
Reap(c) ==
  /\ stage[c] = "poll" /\ Polled(c) = {}
  /\ child[c] = "zombie"
  /\ child' = [child EXCEPT ![c] = "reaped"]
  /\ Proceed(c, "returned")
  /\ UNCHANGED <<pipe, ready, size, table, held, leaked, owed, status, put, taken>>

-----------------------------------------------------------------------------
(* The child *)

\* A process that ends closes what it holds.
Dies(c, how) ==
  /\ child' = [child EXCEPT ![c] = "zombie"]
  /\ held' = [held EXCEPT ![c] = {}]
  /\ owed' = [owed EXCEPT ![c] = [p \in OutputPipes |-> 0]]
  /\ status' = [status EXCEPT ![c] = how]

\* dup2 three times, close_child_pipes and execlp: the child keeps its own
\* ends and what was not marked when it was forked.
Exec(c) ==
  /\ child[c] = "forked"
  /\ child' = [child EXCEPT ![c] = "running"]
  /\ held' = [held EXCEPT ![c] = {ChildEnd(c, p) : p \in Pipes} \cup leaked[c]]
  /\ leaked' = [leaked EXCEPT ![c] = {}]
  /\ UNCHANGED <<thread, table, owed, status, put, taken>>

\* dup2 or execlp fails: child_failure writes its message, which the pipe
\* gets if stderr is already redirected, and ends the child.
ExecFails(c) ==
  /\ child[c] = "forked"
  /\ \E n \in {0, 1} : put' = Add(put, c, Stderr, n)
  /\ Dies(c, "failed")
  /\ UNCHANGED <<thread, table, leaked, taken>>

IsIdle(c) == child[c] = "running" /\ \A p \in OutputPipes : owed[c][p] = 0

\* The child takes a chunk of its input and now owes what that prints.
Read(c) ==
  /\ IsIdle(c)
  /\ Buffered(c, Stdin) > 0
  /\ taken' = Add(taken, c, Stdin, 1)
  /\ \E reply \in Replies : owed' = [owed EXCEPT ![c] = reply]
  /\ UNCHANGED <<thread, table, child, held, leaked, status, put>>

Write(c) ==
  \E p \in OutputPipes :
    /\ child[c] = "running" /\ owed[c][p] > 0
    /\ Buffered(c, p) < Capacity
    /\ put' = Add(put, c, p, 1)
    /\ owed' = Add(owed, c, p, -1)
    /\ UNCHANGED <<thread, table, child, held, leaked, status, taken>>

\* "exit;" was the last chunk, or there is no input and never will be.
Quit(c) ==
  /\ IsIdle(c)
  /\ \/ size[c] > 0 /\ taken[c][Stdin] = size[c]
     \/ Buffered(c, Stdin) = 0 /\ ~IsOpen(<<c, Stdin, "write">>)
  /\ Dies(c, "ok")
  /\ UNCHANGED <<thread, table, leaked, put, taken>>

\* A signal or an error ends the child, wherever it is.
ChildCrashes(c) ==
  /\ child[c] = "running"
  /\ Dies(c, "failed")
  /\ UNCHANGED <<thread, table, leaked, put, taken>>

-----------------------------------------------------------------------------
Advance(c) ==
  \/ MakePipe(c) \/ MarkRead(c) \/ MarkWrite(c) \/ Fork(c) \/ CloseChildEnds(c)
  \/ Poll(c) \/ ServeInput(c) \/ ServeOutput(c) \/ Reap(c)

Work(c) == Exec(c) \/ ExecFails(c) \/ Read(c) \/ Write(c) \/ Quit(c)

ProcessNext == \E c \in Calls : Advance(c) \/ Throw(c) \/ Work(c) \/ ChildCrashes(c)

\* The threads of the calls are scheduled, and Singular gets on with its
\* script; nothing has to fail.
Fairness == \A c \in Calls : WF_processVars(Advance(c)) /\ WF_processVars(Work(c))

ProcessSpec == ProcessInit /\ [][ProcessNext]_processVars /\ Fairness

-----------------------------------------------------------------------------
EndedStages == {"returned", "threw"}

ProcessTypeOK ==
  /\ stage \in [Calls -> {"make", "mark_read", "mark_write", "fork", "close",
                          "poll", "returned", "threw"}]
  /\ pipe \in [Calls -> Pipes]
  /\ ready \in [Calls -> SUBSET Pipes]
  /\ \A c \in Calls : ready[c] \subseteq {p \in Pipes : OwnEnd(c, p) \in parent}
  /\ exposed \subseteq parent
  /\ parent \subseteq Ends
  /\ child \in [Calls -> {"none", "forked", "running", "zombie", "reaped"}]
  /\ held \in [Calls -> SUBSET Ends]
  /\ leaked \in [Calls -> SUBSET Ends]
  /\ size \in Scripts
  /\ put \in [Calls -> [Pipes -> Nat]]
  /\ taken \in [Calls -> [Pipes -> Nat]]
  /\ owed \in [Calls -> [OutputPipes -> Nat]]
  /\ status \in [Calls -> {"none", "ok", "failed"}]

\* A call that returns has the whole output: nothing the child wrote is left
\* in a pipe, however the end of the child, the end-of-file conditions and the
\* drain of the two streams interleave, and a status "ok" means that the child
\* read the whole script.  SectorDimensionCounter.cpp:118 never accepts partial
\* output: it relies on this whenever the status is good.
OutputComplete ==
  \A c \in Calls : stage[c] = "returned" =>
    /\ \A p \in OutputPipes : taken[c][p] = put[c][p]
    /\ status[c] = "ok" => taken[c][Stdin] = size[c]

\* Whichever way a call ends it leaves no pipe end open in the program and no
\* child running or unreaped, also when it fails half way through making the
\* pipes or while the child is blocked on one.
NothingLeftBehind ==
  \A c \in Calls : stage[c] \in EndedStages =>
    /\ parent \cap EndsOf(c) = {}
    /\ child[c] \in {"none", "reaped"} /\ held[c] = {}

\* Every call ends, although it waits without a timeout: neither a full pipe
\* on both sides, nor a reader or writer that leaked into the child of another
\* call, makes two processes wait for each other for ever.
CallEnds == \A c \in Calls : <>(stage[c] \in EndedStages)
=============================================================================
