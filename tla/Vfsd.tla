-------------------------------- MODULE Vfsd --------------------------------
(***************************************************************************)
(* The file system daemon of the guest (src/daemons/vfsd) as it forwards   *)
(* calls to the host file system, its callers, and the host side of        *)
(* Hostfsd.  vfsd has one thread.  It forwards a call under an operation   *)
(* identifier, keeps it pending and takes the next message; responses of   *)
(* the host are matched to pending calls by that identifier alone.         *)
(*                                                                         *)
(*   cl       the call of each thread: bulk is the transfer it blocks in   *)
(*            before it takes its reply, and reply that the reply is sent  *)
(*   pending  the pending calls by operation identifier                    *)
(*   nextId   the next identifier to try                                   *)
(*   slots    the descriptor table: the handles on remote descriptors      *)
(*   links    readlink_response_asm: the parts of a long readlink response *)
(*   mounted  is the host file system mounted?                             *)
(*                                                                         *)
(* off is the directory cursor of a handle; read, which the code does not  *)
(* have, is the number of entries that calls on that handle returned.      *)
(* Paths are left out: a call that names a path names one under the mount  *)
(* point.  Calls on the guest's own file system are answered at once.      *)
(***************************************************************************)
EXTENDS Hostfsd
LOCAL INSTANCE Functions
LOCAL INSTANCE FiniteSetsExt

CONSTANTS Slots,      \* the descriptors of the table
          Parts,      \* Parts[op]: the parts of a request, 0 for one frame
          Wants       \* the entries that a getdents call may ask for

ASSUME VfsdAssumption == 
  /\ Slots \subseteq Nat \ {NoFd} /\ \A u \in Setups : u.budget <= LastId
  /\ \A op \in DOMAIN Parts : Parts[op] \subseteq Nat

VARIABLES cl, pending, nextId, slots, links, mounted

guestVars == <<cl, pending, nextId, slots, links, mounted>>
vars == <<hostVars, guestVars>>

NoHandle == [rfd |-> NoFd, dir |-> FALSE, off |-> 0, read |-> 0]
NoLinks  == [id |-> NoId, by |-> {}, n |-> 0]
Idle     == [pc |-> "idle", op |-> "none", slot |-> NoFd, bulk |-> FALSE, reply |-> FALSE]

VfsdInit ==
  /\ cl = [t \in Thread |-> Idle]
  /\ pending = <<>> /\ nextId = setup.first
  /\ slots = [s \in Slots |-> NoHandle]
  /\ links = NoLinks
  /\ mounted = FALSE

Init == HostInit /\ VfsdInit

(***************************************************************************)
(* The callers.                                                            *)
(***************************************************************************)

FdOps   == {"close", "read", "write", "flush", "fstat", "getdents"}
PathOps == {"open", "mkdir", "lstat", "pathstat", "readlink"}

\* Bounds the identifiers that are used: calls not yet taken may need one.
InBudget ==
  ((nextId - setup.first) % (LastId + 1)) + Cardinality({t \in Thread : cl[t].pc = "sent"})
    < setup.budget

\* A thread sends a request to vfsd and blocks: in recv(), or after a write in
\* push() and after a read in pull().
Call(t, op, s) ==
  /\ cl[t] = Idle /\ InBudget
  /\ s # NoFd <=> op \in FdOps
  /\ cl' = [cl EXCEPT ![t] = [pc |-> "sent", op |-> op, slot |-> s,
                              bulk |-> op \in {"read", "write"}, reply |-> FALSE]]
  /\ UNCHANGED <<hostVars, pending, nextId, slots, links, mounted>>

\* A push to or a pull from t frees it for its reply; c are the callers.
Transfer(c, t) == [c EXCEPT ![t] = IF @.reply THEN Idle ELSE [@ EXCEPT !.bulk = FALSE]]

\* send_response(): a caller that is still in a transfer takes it later.
Reply(c, t) == [c EXCEPT ![t] = IF @.bulk THEN [@ EXCEPT !.pc = "taken", !.reply = TRUE] ELSE Idle]

(***************************************************************************)
(* The pending queue.                                                      *)
(***************************************************************************)

\* PendingQueue::has_capacity().
HasCapacity == Cardinality(DOMAIN pending) < setup.pend

\* Mutant: the lowest free identifier, so that a late response finds its
\* identifier in use again.
AllocId_Bug == Min((1..(LastId - 1)) \ DOMAIN pending)

\* OperationIdAllocator::alloc(): the next that is neither invalid nor in use.
AllocId ==
  LET at(k) == (nextId + k) % (LastId + 1)
  IN  at(Min({k \in 0..LastId : at(k) # LastId /\ at(k) \notin DOMAIN pending}))

\* PendingQueue::remove().
Remove(ids) == pending' = Restrict(pending, DOMAIN pending \ ids)

(***************************************************************************)
(* Requests.  Each handler forwards a call that the host serves, unless    *)
(* the queue is full, and answers every other call.                        *)
(***************************************************************************)

\* vfs_hostfs_remote_fd(): is the descriptor of t's call one of the host?
OnHost(t) == cl[t].slot # NoFd /\ slots[cl[t].slot] # NoHandle

\* The request is pending under id, and its frames are written.
Submit(t, hdr, id, frames, c) ==
  /\ LET s == cl[t].slot
         h == IF s = NoFd THEN NoHandle ELSE slots[s]
     IN  \E w \in IF hdr = "readdir" THEN Wants ELSE {0} :
           pending' = (id :> [by |-> t, hdr |-> hdr, slot |-> s, rfd |-> h.rfd,
                              off |-> h.off, left |-> w]) @@ pending
  /\ nextId' = (id + 1) % (LastId + 1)
  /\ stdout' = stdout \o frames
  /\ cl' = [c EXCEPT ![t].pc = "taken"]
  /\ UNCHANGED <<stdin, chan, tracked, asm, fds, nextFd, refused, setup, links, mounted>>

\* A request that is answered at once.
Answer(c) == cl' = c /\ UNCHANGED <<hostVars, pending, nextId, slots, links, mounted>>

Taken(t, op) == cl[t].pc = "sent" /\ cl[t].op = op
Fd(t) == slots[cl[t].slot].rfd

\* handle_close_with_hostfs(): the descriptor is released once the request is sent.
HandleClose(t) ==
  /\ Taken(t, "close")
  /\ \/ ~(OnHost(t) /\ HasCapacity) /\ Answer(Reply(cl, t))
     \/ /\ OnHost(t) /\ HasCapacity
        /\ Submit(t, "close", AllocId, Single("close", AllocId, t, Fd(t), 0), cl)
        /\ slots' = [slots EXCEPT ![cl[t].slot] = NoHandle]

\* handle_fsync_with_hostfs(); seek and ftruncate differ in their header alone.
HandleFlush(t) ==
  /\ Taken(t, "flush")
  /\ \/ ~(OnHost(t) /\ HasCapacity) /\ Answer(Reply(cl, t))
     \/ /\ OnHost(t) /\ HasCapacity
        /\ Submit(t, "flush", AllocId, Single("flush", AllocId, t, Fd(t), 0), cl)
        /\ UNCHANGED slots

\* handle_fstat_with_hostfs().
HandleFstat(t) ==
  /\ Taken(t, "fstat")
  /\ \/ ~(OnHost(t) /\ HasCapacity) /\ Answer(Reply(cl, t))
     \/ /\ OnHost(t) /\ HasCapacity
        /\ Submit(t, "fstat", AllocId, Single("fstat", AllocId, t, Fd(t), 0), cl)
        /\ UNCHANGED slots


\* handle_read_with_hostfs(), handle_read(): a call that fails gets an empty push.
HandleRead(t) ==
  /\ Taken(t, "read")
  /\ \/ ~(OnHost(t) /\ HasCapacity) /\ Answer(Reply(Transfer(cl, t), t))
     \/ /\ OnHost(t) /\ HasCapacity
        /\ Submit(t, "read", AllocId, Single("read", AllocId, t, Fd(t), 0), cl)
        /\ UNCHANGED slots

\* handle_write_with_hostfs(), handle_write(): the data are pulled first, but
\* not when the queue is full.
HandleWrite(t) ==
  /\ Taken(t, "write")
  /\ \/ ~OnHost(t) /\ Answer(Reply(Transfer(cl, t), t))
     \/ OnHost(t) /\ ~HasCapacity /\ Answer(Reply(cl, t))
     \/ /\ OnHost(t) /\ HasCapacity
        /\ Submit(t, "write", AllocId, Single("write", AllocId, t, Fd(t), 0), Transfer(cl, t))
        /\ UNCHANGED slots

\* handle_getdents_with_hostfs(): a sweep that starts at the cursor.
HandleGetdents(t) ==
  LET ready == OnHost(t) /\ slots[cl[t].slot].dir /\ HasCapacity
  IN  /\ Taken(t, "getdents")
      /\ \/ ~ready /\ Answer(Reply(cl, t))
         \/ /\ ready
            /\ Submit(t, "readdir", AllocId,
                      Single("readdir", AllocId, t, Fd(t), slots[cl[t].slot].off), cl)
            /\ UNCHANGED slots

\* The handlers of calls that name a path: always a stream of parts, or one
\* where the path does not fit a frame.
HandlePath(t, op, frames) ==
  /\ Taken(t, op)
  /\ \/ ~(mounted /\ HasCapacity) /\ Answer(Reply(cl, t))
     \/ mounted /\ HasCapacity /\ Submit(t, op, AllocId, frames, cl) /\ UNCHANGED slots

HandleOpenat(t) ==
  \E n \in Parts["open"] : HandlePath(t, "open", Stream("open", AllocId, t, n))

HandleMkdirat(t) ==
  \E n \in Parts["mkdir"] : HandlePath(t, "mkdir", Stream("mkdir", AllocId, t, n))

ShortOrLong(t, op) ==
  \E n \in Parts[op] :
    HandlePath(t, op, IF n = 0 THEN Single(op, AllocId, t, NoFd, 0) ELSE Stream(op, AllocId, t, n))

HandleFstatat(t)  == ShortOrLong(t, "lstat") \/ ShortOrLong(t, "pathstat")
HandleReadlink(t) == ShortOrLong(t, "readlink")

\* handle_mount() and handle_umount(): mounting twice, or unmounting what is not
\* mounted, fails.  Handles and pending calls stay.
HandleMount(t) ==
  /\ cl[t].pc = "sent" /\ cl[t].op \in {"mount", "umount"}
  /\ mounted' = (cl[t].op = "mount")
  /\ cl' = Reply(cl, t)
  /\ UNCHANGED <<hostVars, pending, nextId, slots, links>>

Handle(t) ==
  \/ HandleClose(t) \/ HandleFlush(t) \/ HandleFstat(t) \/ HandleRead(t) \/ HandleWrite(t)
  \/ HandleGetdents(t) \/ HandleOpenat(t) \/ HandleMkdirat(t) \/ HandleFstatat(t)
  \/ HandleReadlink(t) \/ HandleMount(t)

(***************************************************************************)
(* Responses.                                                              *)
(***************************************************************************)

\* VfsFdTable::alloc() takes the first of these.
FreeSlots == {s \in Slots : slots[s] = NoHandle}

\* vfs_alloc_hostfs(): a handle, if there is a slot for it.
AllocHandle(r) ==
  IF r.st = "ok" /\ FreeSlots # {}
  THEN slots' = [slots EXCEPT ![Min(FreeSlots)] =
                   [rfd |-> r.fd, dir |-> r.dir, off |-> 0, read |-> 0]]
  ELSE UNCHANGED slots

\* complete_open(): where no slot is free, the remote descriptor is closed with
\* a request that nobody waits for.
CompleteOpen(r, t) ==
  /\ cl' = Reply(cl, t)
  /\ AllocHandle(r)
  /\ stdout' = IF r.st = "ok" /\ FreeSlots = {}
               THEN stdout \o Single("close", 0, t, r.fd, 0) ELSE stdout

\* complete_read(): the data, or nothing, are pushed before the reply.
CompleteRead(t) == cl' = Reply(Transfer(cl, t), t) /\ UNCHANGED <<slots, stdout>>

\* complete_close(), complete_write(), complete_status(), complete_stat(),
\* complete_readlink(), complete_lstat(): the reply.
CompleteStatus(t) == cl' = Reply(cl, t) /\ UNCHANGED <<slots, stdout>>

\* Mutant: a response of another kind, or an error, leaves the call pending.
CompletePendingOp_Bug(r) ==
  LET p == pending[r.id]
  IN  /\ IF r.hdr = p.hdr /\ r.st = "ok" THEN Remove({r.id}) ELSE UNCHANGED pending
      /\ \/ p.hdr = "read" /\ CompleteRead(p.by)
         \/ p.hdr = "open" /\ r.hdr = "open" /\ CompleteOpen(r, p.by)
         \/ /\ p.hdr # "read" /\ ~(p.hdr = "open" /\ r.hdr = "open")
            /\ CompleteStatus(p.by)

\* complete_pending_op(): a response of another kind fails the call.
CompletePendingOp(r) ==
  LET p == pending[r.id]
  IN  /\ Remove({r.id})
      /\ \/ p.hdr = "read" /\ CompleteRead(p.by)
         \/ p.hdr = "open" /\ r.hdr = "open" /\ CompleteOpen(r, p.by)
         \/ /\ p.hdr # "read" /\ ~(p.hdr = "open" /\ r.hdr = "open")
            /\ CompleteStatus(p.by)

\* Mutant: kept if the descriptor is a handle, whichever it is.
KeepCursor_Bug(p) == p.slot \in Slots /\ slots[p.slot] # NoHandle

\* finish_getdents(): the cursor is kept if the descriptor is still the handle
\* that the sweep began on.
KeepCursor(p) == p.slot \in Slots /\ slots[p.slot].rfd = p.rfd

FinishGetdents(id, p) ==
  /\ Remove({id})
  /\ cl' = Reply(cl, p.by)
  /\ slots' = [s \in Slots |->
       [slots[s] EXCEPT
          !.off  = IF s = p.slot /\ KeepCursor(p) THEN p.off ELSE @,
          !.read = IF s = p.slot /\ slots[s].rfd = p.rfd /\ p.off > @ THEN p.off ELSE @]]
  /\ UNCHANGED stdout

\* step_getdents(): one entry, and the request for the next unless it is the
\* last that was asked for.
StepGetdents(r) ==
  LET p == pending[r.id]
      q == [p EXCEPT !.off = @ + 1, !.left = @ - 1]
  IN  \/ r.st # "entry" /\ FinishGetdents(r.id, p)
      \/ r.st = "entry" /\ q.left = 0 /\ FinishGetdents(r.id, q)
      \/ /\ r.st = "entry" /\ q.left > 0
         /\ pending' = [pending EXCEPT ![r.id] = q]
         /\ stdout' = stdout \o Single("readdir", r.id, p.by, p.rfd, q.off)
         /\ UNCHANGED <<cl, slots>>

\* A part of a long readlink response: the first starts a stream, and cancels
\* the call of one that is incomplete; the last completes the call.
ReadlinkPart(r) ==
  LET s     == IF r.part = 0 THEN [id |-> r.id, by |-> {}, n |-> 0] ELSE links
      stale == IF r.part = 0 /\ links # NoLinks THEN {links.id} ELSE {}
      last  == s # NoLinks /\ s.n + 1 = r.of
      ended == (stale \union IF last THEN {s.id} ELSE {}) \intersect DOMAIN pending
  IN  /\ links' = IF s = NoLinks \/ last THEN NoLinks
                  ELSE [s EXCEPT !.n = @ + 1, !.by = @ \union r.by]
      /\ Remove(ended)
      /\ cl' = [t \in Thread |->
                  IF \E i \in ended : pending[i].by = t THEN Reply(cl, t)[t] ELSE cl[t]]
      /\ UNCHANGED <<slots, stdout>>

\* The main loop for a message of the host: a response that no call waits for
\* is dropped.
Receive ==
  /\ stdin # <<>>
  /\ stdin' = Tail(stdin)
  /\ LET r     == Head(stdin)
         sweep == r.hdr = "readdir" /\ pending[r.id].hdr = "readdir"
     IN  \/ r.of > 0 /\ ReadlinkPart(r)
         \/ /\ r.of = 0 /\ r.id \notin DOMAIN pending
            /\ UNCHANGED <<cl, pending, slots, links, stdout>>
         \/ /\ r.of = 0 /\ r.id \in DOMAIN pending
            /\ IF sweep THEN StepGetdents(r) ELSE CompletePendingOp(r)
            /\ UNCHANGED links
  /\ UNCHANGED <<chan, tracked, asm, fds, nextFd, refused, setup, nextId, mounted>>

Next ==
  \/ \E t \in Thread, s \in Slots \union {NoFd} :
       \E op \in setup.calls[t] : Call(t, op, s)
  \/ \E t \in Thread : Handle(t)
  \/ Receive
  \/ Forward /\ UNCHANGED guestVars
  \/ Serve /\ UNCHANGED guestVars

Spec == Init /\ [][Next]_vars

\* The main loops of vfsd, of the I/O handler and of the worker take the next
\* message, vfsd's mailbox is a queue, and the host's calls return.  Nothing is
\* assumed of the callers.
FairSpec ==
  /\ Spec
  /\ \A t \in Thread : WF_vars(Handle(t))
  /\ WF_vars(Receive)
  /\ WF_vars(Forward /\ UNCHANGED guestVars)
  /\ WF_vars(Serve /\ UNCHANGED guestVars)

(***************************************************************************)
(* Properties.                                                             *)
(***************************************************************************)

\* Types: the queues hold frames and responses, the tables what they should.
VfsdTypeOK ==
  /\ setup \in Setups /\ refused \in BOOLEAN /\ mounted \in BOOLEAN
  /\ Len(chan) <= setup.queue
  /\ \A t \in Thread : /\ cl[t].pc \in {"idle", "sent", "taken"}
                       /\ cl[t].slot \in Slots \union {NoFd}
                       /\ cl[t].bulk \in BOOLEAN /\ cl[t].reply \in BOOLEAN
  /\ DOMAIN pending \subseteq 0..(LastId - 1) /\ Cardinality(DOMAIN pending) <= setup.pend
  /\ nextId \in 0..LastId /\ tracked \in {NoId} \union 0..LastId
  /\ \A s \in Slots : slots[s].rfd \in Nat /\ slots[s].off \in 0..Entries
  /\ Cardinality(DOMAIN fds) <= MaxRemote

\* The frames, parts and responses that are on their way, and the two streams
\* that are being put together.
Frames   == Range(stdout) \union Range(chan)
InFlight == Frames \union Range(stdin) \union {asm, links}

\* A response that is about to be matched to a pending call was made for that
\* call, and so was a stream of readlink parts: no thread gets the answer, or
\* the error, of another's call, and none fails for a response of another kind.
AnswersMatch ==
  /\ stdin # <<>> =>
       LET r == Head(stdin)
       IN  r.id \in DOMAIN pending =>
             r.by = {pending[r.id].by} /\ r.hdr = pending[r.id].hdr
  /\ links.id \in DOMAIN pending =>
       links.by = {pending[links.id].by} /\ pending[links.id].hdr = "readlink"

\* While no frame is refused, the pending calls are exactly those that a frame
\* or a response is on its way for: none is forgotten, and none is worked on
\* that was already answered.  Identifier 0 is that of a close nobody waits for.
PendingExact ==
  /\ VfsdTypeOK
  /\ setup.worker /\ ~refused =>
       DOMAIN pending = {f.id : f \in InFlight} \ {0, NoId}

\* A guest descriptor stands for an open remote descriptor of its own, of the
\* same kind, that no close is on its way for.
HandlesOpen ==
  \A s \in Slots :
    slots[s] # NoHandle =>
      /\ slots[s].rfd \in DOMAIN fds /\ fds[slots[s].rfd] = slots[s].dir
      /\ \A u \in Slots \ {s} : slots[u].rfd # slots[s].rfd
      /\ \A f \in Frames : f.hdr = "close" => f.fd # slots[s].rfd

\* While no frame is refused, no remote descriptor leaks: it has a handle, or
\* is on its way to the caller that opened it, or a close for it is.
DescriptorsHeld ==
  ~refused =>
    \A d \in DOMAIN fds :
      \/ \E s \in Slots : slots[s].rfd = d
      \/ \E f \in Frames : f.hdr = "close" /\ f.fd = d
      \/ \E r \in Range(stdin) : r.hdr = "open" /\ r.fd = d /\ r.id \in DOMAIN pending

\* The cursor of a directory never passes the entries that were returned through
\* the same handle, so that no entry is skipped when a descriptor is used again.
NoEntrySkipped == \A s \in Slots : slots[s].off <= slots[s].read

\* Handles are exact: each stands for one open remote descriptor and for the
\* entries read through it, and every remote descriptor is some handle's.
HandlesExact == HandlesOpen /\ DescriptorsHeld /\ NoEntrySkipped

\* A writer that got its reply while vfsd left its data where they are.
BusyWriter(t) == cl[t].op = "write" /\ cl[t].reply


\* A request that is executed is made of the parts of one call.
ExecutedWhole == \A r \in Range(stdin) : r.st = "ok" => Cardinality(r.by) = 1

\* Every call returns.
CallsReturn == \A t \in Thread : []<>(cl[t].pc = "idle")
=============================================================================
