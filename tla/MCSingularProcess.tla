------------------------- MODULE MCSingularProcess -------------------------
(***************************************************************************)
(* Two calls at a time.  The scripts are short enough for every order of   *)
(* the two, and one is longer than a pipe, so that the program waits to    *)
(* write while the child waits to write.                                   *)
(***************************************************************************)
EXTENDS SingularProcess

CONSTANTS c1, c2

MCCalls == {c1, c2}

\* The chunks of both scripts: each pair once, as the calls are alike.
Pair(m, n) == [c \in MCCalls |-> IF c = c1 THEN m ELSE n]
MCScripts == {Pair(1, 1), Pair(0, 3)}

\* Silence, an answer longer than a pipe, or a message on stderr.
Reply(out, err) == [p \in OutputPipes |-> IF p = Stdout THEN out ELSE err]
MCReplies == {Reply(0, 0), Reply(2, 0), Reply(0, 1)}
=============================================================================
