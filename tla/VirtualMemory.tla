--------------------------- MODULE VirtualMemory ---------------------------
(***************************************************************************)
(* User memory: the frame allocator (mm/phys), the address spaces and      *)
(* their page tables (mm/virt, hal/.../mmu/page_table.rs), copy-on-write,  *)
(* and the calls that change them: create_process, duplicate_process,      *)
(* mmap, munmap, mctrl, the copies between address spaces, page faults and *)
(* the end of a process.                                                   *)
(*                                                                         *)
(*   started   the process identifiers given out, which are not reused     *)
(*   alive     the processes that run in their address space               *)
(*   pte       the page-table entry of each user page                      *)
(*   used      the bitmap, restricted to user frames                       *)
(*   refcount  the reference counts of the frames                          *)
(*   data      what each frame holds, one value per page                   *)
(*   kernel    the kernel frames of a process, one element each: its page  *)
(*             directory, its kernel stack, its page tables.  They come    *)
(*             from the same bitmap; which frame each has does not matter  *)
(*   ustack    whether the main thread owns the user stack: the thread of  *)
(*             a duplicate does not                                        *)
(*   call      the kernel call in progress.  The kernel runs on one core   *)
(*             with interrupts off, so a call that takes several steps     *)
(*             here is not interleaved with another one; its steps are     *)
(*             kept apart because each may fail and has to be undone       *)
(*   lost      history: the references that were dropped with a page table *)
(*             and never given back                                        *)
(*   entry     history: the memory when the call in progress started       *)
(*                                                                         *)
(* Kernel copies are modelled page by page.  A copy to a page that is not  *)
(* mapped panics the kernel and is left to the callers.                    *)
(***************************************************************************)
EXTENDS Integers, FiniteSets

CONSTANTS Proc, NoProc, Frame, NoFrame, Value,
          Zero, Unmapped,
          NumPages, PagesPerTable,
          NumFrames,                  \* how many frames there are, for users and the kernel;
                                      \* Frame are those that users may get
          KERNEL_WATERMARK, MMAP_BATCH_SIZE,
          MaxRef,                     \* u8::MAX
          KStackFrames,               \* KSTACK_SIZE / PAGE_SIZE
          Segment,                    \* the pages of the program image: [Page -> what they hold]
          ReadOnlyImage,              \* the pages of it that are mapped read-only
          UserStack, InitialStack,    \* the user stack, and what of it is mapped at start
          MapAccess,                  \* whether mmap maps writable pages: subset of BOOLEAN
          CtrlAccess,                 \* what mctrl sets: subset of BOOLEAN
          CopyToReadOnly              \* whether buffers given to the kernel may be read-only

Page == 0 .. NumPages - 1
Table(v) == v \div PagesPerTable
Tables == {Table(v) : v \in Page}
PageDirectory == -1
KernelStack == {-(i + 1) : i \in 1 .. KStackFrames}
KernelSlot == Tables \union {PageDirectory} \union KernelStack
Loaded == DOMAIN Segment

ASSUME MemoryAssumption ==
  /\ NoProc \notin Proc /\ NoFrame \notin Frame /\ IsFiniteSet(Frame) /\ IsFiniteSet(Proc)
  /\ Zero \in Value /\ Unmapped \notin Value
  /\ NumPages \in Nat /\ PagesPerTable \in Nat \ {0} /\ NumFrames \in Nat
  /\ KERNEL_WATERMARK \in Nat /\ MMAP_BATCH_SIZE \in Nat \ {0}
  /\ MaxRef \in Nat \ {0} /\ KStackFrames \in Nat
  /\ Loaded \subseteq Page /\ \A v \in Loaded : Segment[v] \in Value
  /\ ReadOnlyImage \subseteq Loaded
  /\ UserStack \subseteq Page \ Loaded /\ InitialStack \subseteq UserStack
  /\ MapAccess \subseteq BOOLEAN /\ CtrlAccess \subseteq BOOLEAN /\ CopyToReadOnly \in BOOLEAN

VARIABLES started, alive, pte, used, refcount, data, kernel, ustack, call, lost, entry

spaceVars == <<started, alive, pte, kernel, ustack>>
frameVars == <<used, refcount, data>>
vars == <<spaceVars, frameVars, call, lost, entry>>

Entries == [frame : Frame \union {NoFrame}, write : BOOLEAN, cow : BOOLEAN]
NotPresent == [frame |-> NoFrame, write |-> FALSE, cow |-> FALSE]
NoSpace == [v \in Page |-> NotPresent]
Kinds == {"idle", "load", "stack", "link", "unlink", "mmap", "undo", "harvest"}
NoEntry == [pte |-> NoSpace, refcount |-> [f \in Frame |-> 0], kernel |-> {}]

Idle == [kind |-> "idle", proc |-> NoProc, parent |-> NoProc, todo |-> {}, batch |-> {},
         done |-> {}, uframes |-> {}, access |-> FALSE]

Calls == [kind : Kinds, proc : Proc \union {NoProc}, parent : Proc \union {NoProc},
          todo : SUBSET Page, batch : SUBSET Page, done : SUBSET Page,
          uframes : SUBSET Frame, access : BOOLEAN]

MemTypeOK ==
  /\ started \subseteq Proc
  /\ alive \subseteq started
  /\ pte \in [Proc -> [Page -> Entries]]
  /\ used \subseteq Frame
  /\ refcount \in [Frame -> 0 .. MaxRef]
  /\ data \in [Frame -> Value]
  /\ kernel \subseteq Proc \X KernelSlot
  /\ ustack \in [Proc -> BOOLEAN]
  /\ call \in Calls
  /\ lost \in [Frame -> Nat]

Init ==
  /\ started = {}
  /\ alive = {}
  /\ pte = [p \in Proc |-> NoSpace]
  /\ used = {}
  /\ refcount = [f \in Frame |-> 0]
  /\ data = [f \in Frame |-> Zero]
  /\ kernel = {}
  /\ ustack = [p \in Proc |-> FALSE]
  /\ call = Idle
  /\ lost = [f \in Frame |-> 0]
  /\ entry = NoEntry

(***************************************************************************)
(* Frames.                                                                 *)
(***************************************************************************)

\* frame::free_count().
FreeCount == NumFrames - Cardinality(used) - Cardinality(kernel)

\* check_user_watermark(): user frames stop short of what the kernel needs.
UserFramesLeft(n) ==
  /\ FreeCount >= KERNEL_WATERMARK + n
  /\ Cardinality(Frame \ used) >= n

\* alloc(): the frames fs have one owner.
Alloc(fs) ==
  /\ fs \subseteq Frame \ used
  /\ used' = used \union fs
  /\ refcount' = [f \in Frame |-> IF f \in fs THEN 1 ELSE refcount[f]]

\* free(): the frame returns to the bitmap with its last reference.
Release(f) ==
  /\ refcount' = [refcount EXCEPT ![f] = @ - 1]
  /\ used' = IF refcount[f] = 1 THEN used \ {f} ELSE used

(***************************************************************************)
(* Page tables.                                                            *)
(***************************************************************************)

HasSpace(p) == <<p, PageDirectory>> \in kernel
Mapped(p) == {v \in Page : pte[p][v].frame # NoFrame}
HasTable(p, v) == <<p, Table(v)>> \in kernel
Present(f, w) == [frame |-> f, write |-> w, cow |-> FALSE]
Shared(f) == [frame |-> f, write |-> FALSE, cow |-> TRUE]

\* The pages that map a frame.
Users(f) == {x \in Proc \X Page : pte[x[1]][x[2]].frame = f}

\* Vmem::map() allocates the page table when it is missing.
CanMap(p, v) == HasTable(p, v) \/ FreeCount >= 1
WithTable(p, v) == kernel \union {<<p, Table(v)>>}

\* Vmem::unmap() drops the page table that has no entry left.
WithoutTable(p, v) ==
  IF \E u \in Mapped(p) \ {v} : Table(u) = Table(v) THEN kernel
  ELSE kernel \ {<<p, Table(v)>>}

Unmap(p, v) ==
  /\ pte' = [pte EXCEPT ![p][v] = NotPresent]
  /\ kernel' = WithoutTable(p, v)
  /\ Release(pte[p][v].frame)
  /\ UNCHANGED <<data, lost>>

\* Vmem::drop() frees the page directory and the page tables; it does not visit the entries.
DropSpace(p) ==
  /\ pte' = [pte EXCEPT ![p] = NoSpace]
  /\ kernel' = {k \in kernel : k[1] # p}
  /\ lost' = [f \in Frame |-> lost[f] + Cardinality({x \in Users(f) : x[1] = p})]
  /\ UNCHANGED frameVars

Begin(c) ==
  /\ call = Idle
  /\ call' = c
  /\ entry' = [pte |-> pte[c.parent], refcount |-> refcount, kernel |-> kernel]
Continue(c) == call' = c /\ UNCHANGED entry
Return == call' = Idle /\ entry' = NoEntry

(***************************************************************************)
(* create_process(): the page directory, the segments of the program, the  *)
(* kernel stack, the first pages of the user stack.  When a step fails the *)
(* address space is dropped.                                               *)
(***************************************************************************)

\* try_next_pid() fails.
NoProcessLeft ==
  /\ call = Idle /\ started = Proc
  /\ UNCHANGED vars

CreateProcess(p) ==
  /\ p \notin started
  /\ FreeCount >= 1
  /\ Begin([Idle EXCEPT !.kind = "load", !.proc = p, !.parent = p, !.todo = Loaded])
  /\ kernel' = kernel \union {<<p, PageDirectory>>}
  /\ UNCHANGED <<started, alive, pte, ustack, frameVars, lost>>

\* alloc_upages() of one page.
CanAllocPage(p, v) ==
  /\ UserFramesLeft(1)
  /\ HasTable(p, v) \/ FreeCount >= 2

AllocPage(p, v, w, x) ==
  \E f \in Frame \ used :
    /\ Alloc({f})
    /\ pte' = [pte EXCEPT ![p][v] = Present(f, w)]
    /\ data' = [data EXCEPT ![f] = x]
    /\ kernel' = WithTable(p, v)
    /\ UNCHANGED <<started, alive, ustack, lost>>

LoadSegment ==
  \E v \in call.todo :
    /\ call.kind = "load"
    /\ CanAllocPage(call.proc, v)
    /\ AllocPage(call.proc, v, v \notin ReadOnlyImage, Segment[v])
    /\ Continue([call EXCEPT !.todo = @ \ {v}])

\* forge_user_context(): the frames of a kernel stack are contiguous, so this may fail at any time.
ForgeContext ==
  /\ call.kind = "load" /\ call.todo = {}
  /\ FreeCount >= KStackFrames
  /\ kernel' = kernel \union ({call.proc} \X KernelStack)
  /\ Continue([call EXCEPT !.kind = "stack", !.todo = InitialStack])
  /\ UNCHANGED <<started, alive, pte, ustack, frameVars, lost>>

MapInitialStack ==
  \E v \in call.todo :
    /\ call.kind = "stack"
    /\ CanAllocPage(call.proc, v)
    /\ AllocPage(call.proc, v, TRUE, Zero)
    /\ Continue([call EXCEPT !.todo = @ \ {v}])

StartProcess ==
  /\ call.kind = "stack" /\ call.todo = {}
  /\ started' = started \union {call.proc}
  /\ alive' = alive \union {call.proc}
  /\ ustack' = [ustack EXCEPT ![call.proc] = TRUE]
  /\ Return
  /\ UNCHANGED <<pte, kernel, frameVars, lost>>

CreateProcessFails ==
  /\ call.kind \in {"load", "stack"}
  /\ \/ \E v \in call.todo : ~CanAllocPage(call.proc, v)
     \/ call.kind = "load" /\ call.todo = {}
  /\ DropSpace(call.proc)
  /\ Return
  /\ UNCHANGED <<started, alive, ustack>>

(***************************************************************************)
(* duplicate_process(): link_user_pages() shares the frames of the parent, *)
(* and undoes what it did when a page cannot be linked.                    *)
(***************************************************************************)

DuplicateProcess(p, c) ==
  /\ p \in alive /\ c \notin started
  /\ FreeCount >= 1
  /\ Begin([Idle EXCEPT !.kind = "link", !.proc = c, !.parent = p, !.todo = Mapped(p)])
  /\ kernel' = kernel \union {<<c, PageDirectory>>}
  /\ UNCHANGED <<started, alive, pte, ustack, frameVars, lost>>

CanLink(v) ==
  /\ refcount[pte[call.parent][v].frame] < MaxRef
  /\ CanMap(call.proc, v)

LinkedEntries_Bug(e) == \* the parent's page stays writable
  [parent |-> e, child |-> IF e.write THEN Shared(e.frame) ELSE Present(e.frame, FALSE)]

\* link_one_user_page(): a writable page is shared copy-on-write, any other one as it is.
LinkedEntries(e) ==
  IF e.write THEN [parent |-> Shared(e.frame), child |-> Shared(e.frame)]
  ELSE [parent |-> e, child |-> Present(e.frame, FALSE)]

LinkPage ==
  \E v \in call.todo :
    LET e == pte[call.parent][v] IN
    /\ call.kind = "link"
    /\ CanLink(v)
    /\ refcount' = [refcount EXCEPT ![e.frame] = @ + 1]
    /\ pte' = [pte EXCEPT ![call.proc][v] = LinkedEntries(e).child,
                          ![call.parent][v] = LinkedEntries(e).parent]
    /\ kernel' = WithTable(call.proc, v)
    /\ Continue([call EXCEPT !.todo = @ \ {v}, !.done = @ \union {v}])
    /\ UNCHANGED <<started, alive, ustack, used, data, lost>>

LinkFails ==
  /\ call.kind = "link" /\ \E v \in call.todo : ~CanLink(v)
  /\ Continue([call EXCEPT !.kind = "unlink", !.todo = {}])
  /\ UNCHANGED <<spaceVars, frameVars, lost>>


\* What rollback_linked_pages() leaves in the parent: unmark_cow() if the child's entry has the mark.
UnlinkedEntry(e, child) ==
  IF child.cow /\ e.cow THEN Present(e.frame, TRUE) ELSE e

UnlinkPage ==
  \E v \in call.done :
    LET c == call.proc IN
    /\ call.kind = "unlink"
    /\ pte' = [pte EXCEPT ![c][v] = NotPresent,
                          ![call.parent][v] = UnlinkedEntry(@, pte[c][v])]
    /\ kernel' = WithoutTable(c, v)
    /\ Release(pte[c][v].frame)
    /\ Continue([call EXCEPT !.done = @ \ {v}])
    /\ UNCHANGED <<started, alive, ustack, data, lost>>

DuplicateFails ==
  /\ call.kind = "unlink" /\ call.done = {}
  /\ DropSpace(call.proc)
  /\ Return
  /\ UNCHANGED <<started, alive, ustack>>

StartDuplicate ==
  /\ call.kind = "link" /\ call.todo = {}
  /\ FreeCount >= KStackFrames
  /\ kernel' = kernel \union ({call.proc} \X KernelStack)
  /\ started' = started \union {call.proc}
  /\ alive' = alive \union {call.proc}
  /\ ustack' = [ustack EXCEPT ![call.proc] = FALSE]
  /\ Return
  /\ UNCHANGED <<pte, frameVars, lost>>

\* No kernel stack: the linked pages go with the new address space.
DuplicateForgeFails ==
  /\ call.kind = "link" /\ call.todo = {}
  /\ DropSpace(call.proc)
  /\ Return
  /\ UNCHANGED <<started, alive, ustack>>

(***************************************************************************)
(* mmap(): batches of pages, undone together when one of them fails.       *)
(***************************************************************************)

MmapCall(p, w, vs) == [Idle EXCEPT !.kind = "mmap", !.proc = p, !.parent = p, !.todo = vs, !.access = w]

Mmap(p, w, first, last) ==
  /\ p \in alive
  /\ Begin(MmapCall(p, w, first .. last))
  /\ UNCHANGED <<spaceVars, frameVars, lost>>

\* handle_stack_page_fault(): a page of the user stack is mapped when it is first used.
StackFault(p, v) ==
  /\ p \in alive /\ v \in UserStack \ Mapped(p)
  /\ Begin(MmapCall(p, TRUE, {v}))
  /\ UNCHANGED <<spaceVars, frameVars, lost>>

\* The next pages to map; one page when the kernel heap has no room for a longer list.
Batches ==
  {vs \in SUBSET call.todo :
     /\ Cardinality(vs) \in {1, MMAP_BATCH_SIZE, Cardinality(call.todo)}
     /\ vs # {} /\ Cardinality(vs) <= MMAP_BATCH_SIZE
     /\ \A v \in vs, u \in call.todo \ vs : v < u}

CanAllocBatch(vs) == vs \intersect Mapped(call.proc) = {} /\ UserFramesLeft(Cardinality(vs))

MmapBatch ==
  \E vs \in Batches, fs \in SUBSET (Frame \ used) :
    /\ call.kind = "mmap" /\ call.batch = {}
    /\ CanAllocBatch(vs)
    /\ Cardinality(fs) = Cardinality(vs)
    /\ Alloc(fs)
    /\ Continue([call EXCEPT !.todo = @ \ vs, !.batch = vs, !.uframes = fs])
    /\ UNCHANGED <<spaceVars, data, lost>>

MmapPage ==
  \E v \in call.batch, f \in call.uframes :
    /\ call.kind = "mmap"
    /\ \A u \in call.batch : v <= u
    /\ CanMap(call.proc, v)
    /\ pte' = [pte EXCEPT ![call.proc][v] = Present(f, call.access)]
    /\ data' = [data EXCEPT ![f] = Zero]
    /\ kernel' = WithTable(call.proc, v)
    /\ Continue([call EXCEPT !.batch = @ \ {v}, !.uframes = @ \ {f}, !.done = @ \union {v}])
    /\ UNCHANGED <<started, alive, ustack, used, refcount, lost>>

MmapDone ==
  /\ call.kind = "mmap" /\ call.todo = {} /\ call.batch = {}
  /\ Return
  /\ UNCHANGED <<spaceVars, frameVars, lost>>

\* The frames of the batch that are not mapped are dropped.
MmapFails ==
  /\ call.kind = "mmap"
  /\ \/ call.batch = {} /\ call.todo # {}   \* the page list does not fit the kernel heap,
                                            \* a page is mapped already, or no frames are left
     \/ \E v \in call.batch : ~CanMap(call.proc, v)
  /\ used' = used \ call.uframes
  /\ refcount' = [f \in Frame |-> IF f \in call.uframes THEN 0 ELSE refcount[f]]
  /\ Continue([call EXCEPT !.kind = "undo", !.todo = {}, !.batch = {}, !.uframes = {}])
  /\ UNCHANGED <<spaceVars, data, lost>>

\* alloc_upages() unmaps its batch, rollback_mmap() the batches before it.
UndoPage ==
  \E v \in call.done :
    /\ call.kind = "undo"
    /\ Unmap(call.proc, v)
    /\ Continue([call EXCEPT !.done = @ \ {v}])
    /\ UNCHANGED <<started, alive, ustack>>

MmapUndone ==
  /\ call.kind = "undo" /\ call.done = {}
  /\ Return
  /\ UNCHANGED <<spaceVars, frameVars, lost>>

Munmap(p, v) ==
  /\ call = Idle /\ p \in alive /\ v \in Mapped(p)
  /\ Unmap(p, v)
  /\ UNCHANGED <<started, alive, ustack, call, entry>>

\* ctrl() sets the writable bit and leaves the copy-on-write mark.
Mctrl(p, v, w) ==
  /\ call = Idle /\ p \in alive /\ v \in Mapped(p)
  /\ pte' = [pte EXCEPT ![p][v].write = w]
  /\ UNCHANGED <<started, alive, kernel, ustack, frameVars, call, lost, entry>>

(***************************************************************************)
(* Stores, copy-on-write faults and kernel copies.                         *)
(***************************************************************************)

\* The processor lets a user store through when the entry is writable.
Store(p, v, x) ==
  /\ call = Idle /\ p \in alive /\ v \in Mapped(p) /\ pte[p][v].write
  /\ data' = [data EXCEPT ![pte[p][v].frame] = x]
  /\ UNCHANGED <<spaceVars, used, refcount, call, lost, entry>>

\* resolve_cow_at(): the last owner takes the frame over.
TakeOver(p, v) ==
  /\ pte[p][v].cow /\ refcount[pte[p][v].frame] = 1
  /\ pte' = [pte EXCEPT ![p][v] = Present(@.frame, TRUE)]
  /\ UNCHANGED <<used, refcount>>

CopyFrame_Bug(p, v, x) == \* the shared frame keeps the reference
  /\ pte[p][v].cow /\ refcount[pte[p][v].frame] > 1 /\ ~pte[p][v].write
  /\ UserFramesLeft(1)
  /\ \E f \in Frame \ used :
       /\ Alloc({f})
       /\ pte' = [pte EXCEPT ![p][v] = Present(f, TRUE)]
       /\ data' = [data EXCEPT ![f] = x]

\* resolve_cow_at(): the page moves to a frame of its own, which is then to hold x.
CopyFrame(p, v, x) ==
  LET old == pte[p][v].frame IN
  /\ pte[p][v].cow /\ refcount[old] > 1 /\ ~pte[p][v].write
  /\ UserFramesLeft(1)
  /\ \E f \in Frame \ used :
       /\ pte' = [pte EXCEPT ![p][v] = Present(f, TRUE)]
       /\ used' = used \union {f}
       /\ refcount' = [refcount EXCEPT ![f] = 1, ![old] = @ - 1]
       /\ data' = [data EXCEPT ![f] = x]

\* try_resolve_cow_fault(): the store is tried again afterwards.  A process for which no
\* frame is left is killed, which is left to Exit.
CowFault(p, v) ==
  /\ call = Idle /\ p \in alive /\ v \in Mapped(p) /\ ~pte[p][v].write
  /\ \/ TakeOver(p, v) /\ UNCHANGED data
     \/ CopyFrame(p, v, data[pte[p][v].frame])
  /\ UNCHANGED <<started, alive, kernel, ustack, call, lost, entry>>

WriteFrame_Bug(p, v, x) == \* the copy-on-write page is not resolved first
  /\ pte[p][v].write \/ pte[p][v].cow \/ CopyToReadOnly
  /\ data' = [data EXCEPT ![pte[p][v].frame] = x]
  /\ UNCHANGED <<pte, used, refcount>>

\* The kernel writes to the frame and does not look at the writable bit.
WriteFrame(p, v, x) ==
  \/ /\ ~pte[p][v].cow /\ (pte[p][v].write \/ CopyToReadOnly)
     /\ data' = [data EXCEPT ![pte[p][v].frame] = x]
     /\ UNCHANGED <<pte, used, refcount>>
  \/ /\ TakeOver(p, v)
     /\ data' = [data EXCEPT ![pte[p][v].frame] = x]
  \/ CopyFrame(p, v, x)

\* copy_to_user_unaligned(), for example of a message.
CopyToUser(p, v, x) ==
  /\ call = Idle /\ p \in alive /\ v \in Mapped(p)
  /\ WriteFrame(p, v, x)
  /\ UNCHANGED <<started, alive, kernel, ustack, call, lost, entry>>

\* vmcopy_user_to_user(), and mcopy() which does the same through a page of the kernel.
CopyUserToUser(s, u, p, v) ==
  /\ call = Idle /\ {s, p} \subseteq alive /\ u \in Mapped(s) /\ v \in Mapped(p)
  /\ WriteFrame(p, v, data[pte[s][u].frame])
  /\ UNCHANGED <<started, alive, kernel, ustack, call, lost, entry>>

(***************************************************************************)
(* The end of a process.  Some time after it exited, harvest_zombies()     *)
(* unmaps the user stacks of its threads and drops the address space.      *)
(***************************************************************************)

Exit(p) ==
  /\ call = Idle /\ p \in alive
  /\ alive' = alive \ {p}
  /\ UNCHANGED <<started, pte, kernel, ustack, frameVars, call, lost, entry>>

HarvestZombie(p) ==
  /\ HasSpace(p) /\ p \notin alive
  /\ Begin([Idle EXCEPT !.kind = "harvest", !.proc = p, !.parent = p,
                        !.done = IF ustack[p] THEN UserStack \intersect Mapped(p) ELSE {}])
  /\ UNCHANGED <<spaceVars, frameVars, lost>>

HarvestStackPage ==
  \E v \in call.done :
    /\ call.kind = "harvest"
    /\ Unmap(call.proc, v)
    /\ Continue([call EXCEPT !.done = @ \ {v}])
    /\ UNCHANGED <<started, alive, ustack>>

DropZombie ==
  /\ call.kind = "harvest" /\ call.done = {}
  /\ DropSpace(call.proc)
  /\ Return
  /\ UNCHANGED <<started, alive, ustack>>

Next ==
  \/ \E p \in Proc : CreateProcess(p) \/ Exit(p) \/ HarvestZombie(p)
  \/ NoProcessLeft \/ LoadSegment \/ ForgeContext \/ MapInitialStack \/ StartProcess \/ CreateProcessFails
  \/ \E p, c \in Proc : DuplicateProcess(p, c)
  \/ LinkPage \/ LinkFails \/ UnlinkPage \/ DuplicateFails \/ StartDuplicate \/ DuplicateForgeFails
  \/ \E p \in Proc, w \in MapAccess, first, last \in Page : first <= last /\ Mmap(p, w, first, last)
  \/ MmapBatch \/ MmapPage \/ MmapDone \/ MmapFails \/ UndoPage \/ MmapUndone
  \/ \E p \in Proc, v \in Page :
       \/ StackFault(p, v) \/ Munmap(p, v) \/ CowFault(p, v)
       \/ \E w \in CtrlAccess : Mctrl(p, v, w)
       \/ \E x \in Value : Store(p, v, x) \/ CopyToUser(p, v, x)
  \/ \E s, p \in Proc, u, v \in Page : CopyUserToUser(s, u, p, v)
  \/ HarvestStackPage \/ DropZombie

Spec == Init /\ [][Next]_vars

(***************************************************************************)
(* Properties.                                                             *)
(***************************************************************************)

\* What mmap() holds for the pages it is about to map.
Held(f) == IF f \in call.uframes THEN 1 ELSE 0

\* Reference counts are exact: a frame has one reference for each page-table entry that
\* points to it (frame.rs), one while mmap() holds it for a page it is about to map, and the
\* ones that went with a dropped page table.  It is in the bitmap as long as it has one, so a
\* frame in use is never handed out again.
RefcountExact ==
  \A f \in Frame :
    /\ refcount[f] = Cardinality(Users(f)) + Held(f) + lost[f]
    /\ (f \in used) <=> (refcount[f] > 0)

\* A frame that a process can write to without a fault is mapped nowhere else: sharing by
\* link_user_pages(), its rollback and resolve_cow_at() keep writable frames private.
WritableIsPrivate ==
  \A p, q \in Proc, v, u \in Page :
    pte[p][v].write /\ pte[q][u].frame = pte[p][v].frame => q = p /\ u = v


\* The memory of each process as it sees it.
View == [p \in Proc |-> [v \in Page |->
           IF p \in alive /\ pte[p][v].frame # NoFrame THEN data[pte[p][v].frame] ELSE Unmapped]]

Private == INSTANCE PrivateMemory
             WITH mem <- View,
                  Image <- [v \in Page |-> IF v \in Loaded THEN Segment[v]
                                           ELSE IF v \in InitialStack THEN Zero ELSE Unmapped]

\* Sharing frames is invisible: whatever is shared, copied, taken over or rolled back, each
\* process reads and writes as if its pages were its own, and a duplicate starts with a copy
\* of its parent's.
ImplementsPrivateMemory == Private!MemSpec

\* "at most MAX_PROCESSES (<= 255) processes can simultaneously share a frame, so the refcount
\* of any frame is bounded by 255" (frame.rs): no frame has more references than there are
\* address spaces.
RefcountWithinProcesses ==
  \A f \in Frame : refcount[f] <= Cardinality({p \in Proc : HasSpace(p)})
=============================================================================
