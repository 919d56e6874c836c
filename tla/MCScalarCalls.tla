--------------------------- MODULE MCScalarCalls ---------------------------
(* Two sessions and three queries over at most two rows. *)
EXTENDS ScalarCalls, TLC

CONSTANTS s1, s2

MCSession == {s1, s2}

Call(f, constant) == [function |-> f, constant |-> constant]

\* Calls with constant arguments, as the documentation writes them, and lists
\* in which a call for each row stands beside one the optimizer may move.
MCQuery ==
  {<< <<Call(f, TRUE)>>, 1>> :
     f \in {"rollback", "autocommit_on", "autocommit_off", "disconnect"}}
  \cup {<< <<Call("execute", FALSE), Call("commit", TRUE)>>, 2>>,
        << <<Call("execute", TRUE), Call("commit", FALSE)>>, 0>>,
        << <<Call("execute", TRUE), Call("commit", FALSE)>>, 1>>,
        << <<Call("execute", FALSE), Call("commit", FALSE)>>, 2>>}

Symmetric == Permutations(MCSession)
=============================================================================
