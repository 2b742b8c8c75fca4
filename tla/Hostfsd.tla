------------------------------ MODULE Hostfsd ------------------------------
(***************************************************************************)
(* The host side of the host file system: the I/O handler of a standalone  *)
(* virtual machine (src/uservm/src/standalone.rs), which hands the frames  *)
(* that vfsd writes to a worker thread, and the request handler that the   *)
(* worker runs (src/daemons/hostfsd).                                      *)
(*                                                                         *)
(*   stdout   the frames on their way from the guest to the I/O handler    *)
(*   stdin    the responses on their way to vfsd                           *)
(*   chan     the frames in the bounded channel to the worker              *)
(*   tracked  worker_long_op_id: the call whose parts are being forwarded  *)
(*   asm      the parts of a long request that the handler has collected   *)
(*   fds      the open remote descriptors: TRUE for a directory            *)
(*   nextFd   the next remote descriptor                                   *)
(*   refused  a frame found the channel full                               *)
(*   setup    how this machine was started, and what its limits are        *)
(*                                                                         *)
(* A request is one frame, or a stream of parts (of > 0) that the handler  *)
(* puts together.  The field by, which the code does not have, names the   *)
(* guest threads whose calls a frame was made for.                         *)
(***************************************************************************)
EXTENDS Integers, Sequences, FiniteSets, TLC
LOCAL INSTANCE Functions

CONSTANTS Thread,      \* the guest threads that call vfsd
          Setups,      \* worker: is there a worker thread?  queue: the frames
                       \* its channel holds.  pend: MAX_PENDING_OPS.  first: the
                       \* first op_id.  calls[t]: the calls that thread t makes.
                       \* budget: how many op_ids are used
          MaxRemote,   \* MAX_OPEN_FDS
          Entries,     \* the entries of a directory
          LinkParts,   \* the parts of a long readlink response
          LastId       \* u32::MAX, OperationId::INVALID

ASSUME HostAssumption ==
  /\ \A s \in Setups : s.worker \in BOOLEAN /\ {s.queue, s.pend, s.first, s.budget} \subseteq Nat
  /\ {MaxRemote, Entries, LinkParts, LastId} \subseteq Nat /\ LinkParts > 1

VARIABLES stdout, stdin, chan, tracked, asm, fds, nextFd, refused, setup

hostVars == <<stdout, stdin, chan, tracked, asm, fds, nextFd, refused, setup>>

NoId == -1
NoFd == 0

\* A request that fits one frame, and the parts of one that does not.
Single(hdr, id, t, fd, off) ==
  <<[hdr |-> hdr, id |-> id, by |-> {t}, fd |-> fd, off |-> off, part |-> 0, of |-> 0]>>
Stream(hdr, id, t, n) ==
  [i \in 1..n |-> [hdr |-> hdr, id |-> id, by |-> {t}, fd |-> NoFd, off |-> 0,
                   part |-> i - 1, of |-> n]]

\* A response of one frame; st is what its first field tells vfsd.
Response(hdr, id, by, st) ==
  [hdr |-> hdr, id |-> id, by |-> by, st |-> st, fd |-> NoFd, dir |-> FALSE,
   part |-> 0, of |-> 0]

NoAsm == [hdr |-> "none", id |-> NoId, by |-> {}, next |-> 0, of |-> 0]

HostInit ==
  /\ setup \in Setups
  /\ stdout = <<>> /\ stdin = <<>> /\ chan = <<>>
  /\ tracked = NoId /\ asm = NoAsm
  /\ fds = <<>> /\ nextFd = 1
  /\ refused = FALSE

(***************************************************************************)
(* The I/O handler.                                                        *)
(***************************************************************************)

\* The requests whose parts the I/O handler knows as parts; the handler of
\* hostfsd also knows those of a following stat.
PartHeaders == {"open", "mkdir", "readlink", "lstat"}

\* hostfs_part_info() is not None.
IsPart(f) == f.of > 0 /\ f.hdr \in PartHeaders

\* get_op_id(): where a part has its numbers, a whole request has its op_id.
WireId(f) == IF f.of = 0 THEN f.id ELSE f.of + 65536 * f.part

\* hostfs_error_target().
ErrorTarget(f) == IF ~IsPart(f) THEN WireId(f) ELSE IF f.part = 0 THEN f.id ELSE NoId

\* send_hostfs_error(): zeros where vfsd is thought to take them for an error.
ErrorResponse(f, id) ==
  Response(f.hdr, id, f.by,
           CASE f.hdr = "fstat" -> "zeros" [] f.hdr = "readdir" -> "end" [] OTHER -> "error")

SendError(f, id) ==
  stdin' = IF id = NoId THEN stdin ELSE Append(stdin, ErrorResponse(f, id))

\* The branch of standalone_io_handler() for a frame of the host file system.
Forward ==
  /\ stdout # <<>>
  /\ stdout' = Tail(stdout)
  /\ UNCHANGED <<asm, fds, nextFd, setup>>
  /\ LET f      == Head(stdout)
         target == ErrorTarget(f)
         long   == IF IsPart(f) /\ f.part = 0 THEN target ELSE tracked
     IN  \/ /\ setup.worker /\ Len(chan) < setup.queue
            /\ chan' = Append(chan, f)
            /\ tracked' = IF IsPart(f) /\ f.part + 1 = f.of THEN NoId ELSE long
            /\ UNCHANGED <<stdin, refused>>
         \/ /\ setup.worker /\ Len(chan) = setup.queue
            /\ SendError(f, IF target = NoId THEN long ELSE target)
            /\ tracked' = NoId /\ refused' = TRUE
            /\ UNCHANGED chan
         \/ /\ ~setup.worker
            /\ SendError(f, target)
            /\ tracked' = long
            /\ UNCHANGED <<chan, refused>>

(***************************************************************************)
(* The request handler.  An outcome of a request is what becomes of the    *)
(* remote descriptors and the responses.  What a host call returns is not  *)
(* known; the listing of a directory does not change.  Remote descriptors  *)
(* are given out in order, far from the wrap-around of an i32.             *)
(***************************************************************************)

Outcome(f, r) == [fds |-> f, next |-> nextFd, out |-> <<r>>]

\* A host call of which nothing but the status matters.
Attempt(q) == {Outcome(fds, Response(q.hdr, q.id, q.by, st)) : st \in {"ok", "error"}}
Failure(q) == {Outcome(fds, Response(q.hdr, q.id, q.by, "error"))}

\* handle_long_open(): a full FdTable fails, and so may the host.
ExecOpen(q) ==
  Failure(q) \union
    {[fds |-> (nextFd :> dir) @@ fds, next |-> nextFd + 1,
      out |-> <<[Response(q.hdr, q.id, q.by, "ok") EXCEPT !.fd = nextFd, !.dir = dir]>>] :
       dir \in {d \in BOOLEAN : Cardinality(DOMAIN fds) < MaxRemote}}

\* handle_close().
ExecClose(q) ==
  IF q.fd \in DOMAIN fds
  THEN {Outcome(Restrict(fds, DOMAIN fds \ {q.fd}), Response(q.hdr, q.id, q.by, "ok"))}
  ELSE Failure(q)

\* handle_read() and handle_write() refuse directories.
ExecData(q) ==
  IF q.fd \in DOMAIN fds /\ ~fds[q.fd] THEN Attempt(q) ELSE Failure(q)

\* handle_flush(); handle_lseek() and handle_truncate() are alike.
ExecFd(q) == IF q.fd \in DOMAIN fds THEN Attempt(q) ELSE Failure(q)

\* handle_stat().
ExecStat(q) == ExecFd(q)

\* handle_readdir(): an empty name stands for the end and for every failure.
ExecReaddir(q) ==
  {Outcome(fds, Response(q.hdr, q.id, q.by,
     IF q.fd \in DOMAIN fds /\ q.off < Entries THEN "entry" ELSE "end"))}

\* do_readlink(): a long target is a stream of parts, the first with the op_id.
ExecReadlink(q) ==
  Attempt(q) \union
    {[fds |-> fds, next |-> nextFd,
      out |-> [i \in 1..LinkParts |->
                 [Response(q.hdr, IF i = 1 THEN q.id ELSE NoId, q.by, "ok")
                    EXCEPT !.part = i - 1, !.of = LinkParts]]]}

\* The requests that change what is at a path.
ExecPath(q) == Attempt(q)

\* do_lstat() and do_pathstat().
ExecPathStat(q) == Attempt(q)

Outcomes(q) ==
  CASE q.hdr = "open"              -> ExecOpen(q)
    [] q.hdr = "close"             -> ExecClose(q)
    [] q.hdr \in {"read", "write"} -> ExecData(q)
    [] q.hdr = "readdir"           -> ExecReaddir(q)
    [] q.hdr = "readlink"          -> ExecReadlink(q)
    [] q.hdr = "flush"             -> ExecFd(q)
    [] q.hdr = "fstat"             -> ExecStat(q)
    [] q.hdr = "mkdir"             -> ExecPath(q)
    [] q.hdr \in {"lstat", "pathstat"} -> ExecPathStat(q)

Run(q) ==
  \E o \in Outcomes(q) : fds' = o.fds /\ nextFd' = o.next /\ stdin' = stdin \o o.out

\* HostFsAssembler::add_part() returns Error: a first part inside a stream, or
\* a part that does not continue the stream.
BadPart(f) ==
  \/ f.part # asm.next
  \/ asm # NoAsm /\ (f.hdr # asm.hdr \/ f.of # asm.of)

\* handle_long_part().
LongPart(f) ==
  LET s == [hdr |-> f.hdr, id |-> IF f.part = 0 THEN f.id ELSE asm.id,
            by |-> asm.by \union f.by, next |-> f.part + 1, of |-> f.of]
  IN  \/ /\ BadPart(f)
         /\ stdin' = Append(stdin,
              IF asm = NoAsm THEN Response(f.hdr, LastId, f.by, "error")
                             ELSE Response(asm.hdr, asm.id, asm.by, "error"))
         /\ asm' = NoAsm
         /\ UNCHANGED <<fds, nextFd>>
      \/ /\ ~BadPart(f) /\ s.next < s.of
         /\ asm' = s
         /\ UNCHANGED <<stdin, fds, nextFd>>
      \/ /\ ~BadPart(f) /\ s.next = s.of
         /\ Run([f EXCEPT !.id = s.id, !.by = s.by])
         /\ asm' = NoAsm

\* The loop of the worker: handle_request(), and every part of its response.
\* An error of the I/O handler may come between the parts, which vfsd collects
\* apart from other responses.
Serve ==
  /\ chan # <<>>
  /\ chan' = Tail(chan)
  /\ LET f == Head(chan)
     IN  \/ f.of > 0 /\ LongPart(f)
         \/ f.of = 0 /\ Run(f) /\ UNCHANGED asm
  /\ UNCHANGED <<stdout, tracked, refused, setup>>
=============================================================================
