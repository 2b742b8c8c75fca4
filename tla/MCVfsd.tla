------------------------------- MODULE MCVfsd -------------------------------
(***************************************************************************)
(* Instances of Vfsd.                                                      *)
(***************************************************************************)
EXTENDS Vfsd

Setup(w, q, p, f, c, n) ==
  [worker |-> w, queue |-> q, pend |-> p, first |-> f, calls |-> c, budget |-> n]

\* Two threads that make the same calls.
Both(c) == <<c \union {"mount"}, c, {}>>

\* Descriptors that are opened, swept, closed and used again, by two threads and
\* by three; every call beside another; a queue for one call; a channel that
\* fills; no mounted directory.
MCSetups ==
  {Setup(TRUE, 9, 2, 1, Both({"open", "close", "getdents", "umount"}), 5),
   Setup(TRUE, 9, 3, 1, <<{"mount", "open", "getdents"}, {"open"}, {"close"}>>, 4),
   Setup(TRUE, 9, 2, 1, Both({"open", "read", "write", "flush", "fstat", "close"}), 4),
   Setup(TRUE, 9, 2, 1, Both({"mkdir", "lstat", "pathstat", "readlink"}), 3),
   Setup(TRUE, 9, 1, 1, Both({"open", "read", "write", "readlink"}), 4),
   Setup(TRUE, 2, 2, 1, Both({"open", "mkdir", "readlink", "fstat"}), 3),
   Setup(FALSE, 9, 2, 1, Both({"open", "mkdir", "lstat", "pathstat", "readlink"}), 3)}

\* A channel that fills, and identifiers that are about to wrap around.
MCFull == {Setup(TRUE, 2, 2, 1, Both({"mkdir"}), 3)}
MCWrap == {Setup(TRUE, 9, 2, LastId - 2, Both({"open", "close"}), 5)}

MCParts == [op \in PathOps |->
              CASE op = "open" -> {2} [] op = "mkdir" -> {3} [] op = "pathstat" -> {0}
                [] OTHER -> {0, 2}]
=============================================================================
