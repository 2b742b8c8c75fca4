------------------------ MODULE PrivateMemoryProofs ------------------------
(***************************************************************************)
(* VirtualMemory implements PrivateMemory, when mctrl() does not make      *)
(* read-only pages writable and programs give the kernel no read-only      *)
(* buffers to write to.  The invariants of VirtualMemoryProofs are used    *)
(* throughout.                                                             *)
(***************************************************************************)
EXTENDS VirtualMemoryProofs

Discipline == CtrlAccess \subseteq {FALSE} /\ ~CopyToReadOnly

\* What duplicate_process() has shared so far is shared by parent and child only.
LinksPrivate ==
  call.kind \in {"link", "unlink"} =>
    \A v \in Page :
      LET c == pte[call.proc][v] IN
      c.cow => /\ pte[call.parent][v].frame = c.frame
               /\ \A q \in Proc, u \in Page :
                    pte[q][u].frame = c.frame => u = v /\ q \in {call.parent, call.proc}

\* What the new process will start with.
SpaceBuilt ==
  /\ call.kind \in {"load", "stack"} =>
       \A v \in Page :
         LET e == pte[call.proc][v] IN
         /\ v \in Mapped(call.proc) <=>
              v \in (IF call.kind = "load" THEN Loaded ELSE Loaded \union InitialStack) \ call.todo
         /\ v \in Mapped(call.proc) => data[e.frame] = IF v \in Loaded THEN Segment[v] ELSE Zero
  /\ call.kind = "stack" => call.todo \subseteq InitialStack
  /\ call.kind = "link" =>
       \A v \in Page \ call.todo : pte[call.proc][v].frame = pte[call.parent][v].frame

SharingInv == WritableIsPrivate /\ LinksPrivate

(***************************************************************************)
(* Writable frames stay private.                                           *)
(***************************************************************************)

\* A frame with one reference and a user has no other user.
LEMMA SoleUser ==
  ASSUME FramesInv, NEW p \in Proc, NEW v \in Page, NEW f \in Frame,
         pte[p][v].frame = f, refcount[f] = 1
  PROVE  \A q \in Proc, u \in Page : pte[q][u].frame = f => q = p /\ u = v
<1>1. <<p, v>> \in Users(f)
  BY Zenon DEF Users
<1>2. refcount[f] = Cardinality(Users(f)) + Held(f) + lost[f] /\ lost[f] \in Nat /\ Held(f) \in Nat
  BY Zenon DEF FramesInv, RefcountExact, MemTypeOK, Held
<1>3. IsFiniteSet(Users(f)) /\ Cardinality(Users(f)) \in Nat
  BY UsersFinite, Zenon
<1>4. Cardinality(Users(f)) # 0
  BY <1>1, <1>3, FS_EmptySet, Zenon
<1>5. Cardinality(Users(f)) = 1
  BY <1>2, <1>3, <1>4
<1>6. PICK x : Users(f) = {x}
  BY <1>3, <1>5, FS_Singleton, Zenon
<1>7. Users(f) = {<<p, v>>}
  BY <1>1, <1>6, Zenon
<1>8. \A q \in Proc, u \in Page : pte[q][u].frame = f => <<q, u>> \in Users(f)
  BY Zenon DEF Users
<1> QED BY <1>7, <1>8, Zenon

\* A frame that is not used, or that mmap() holds, is mapped nowhere.
LEMMA NoUser ==
  ASSUME FramesInv, NEW f \in (Frame \ used) \union call.uframes
  PROVE  \A q \in Proc, u \in Page : pte[q][u].frame # f
<1>1. Users(f) = {}
  BY UnusedFrame, Zenon DEF FramesInv, HeldFrames
<1>2. \A q \in Proc, u \in Page : pte[q][u].frame = f => <<q, u>> \in Users(f)
  BY Zenon DEF Users
<1> QED BY <1>1, <1>2, Zenon

LEMMA CreateSharing ==
  ASSUME FramesInv, SharingInv, NEW p \in Proc, CreateProcess(p)
  PROVE  SharingInv'
BY DEF SharingInv, WritableIsPrivate, LinksPrivate, CreateProcess, Begin, Idle

\* A page that gets a frame of its own is not shared.
LEMMA FreshSharing ==
  ASSUME FramesInv, SharingInv, call'.kind \notin {"link", "unlink"},
         NEW p \in Proc, NEW v \in Page, NEW f \in (Frame \ used) \union call.uframes, NEW w,
         \A q \in Proc, u \in Page : pte'[q][u] = IF q = p /\ u = v THEN Present(f, w) ELSE pte[q][u]
  PROVE  SharingInv'
<1>1. \A q \in Proc, u \in Page : pte[q][u].frame # f
  BY NoUser, Zenon
<1>2. WritableIsPrivate'
  BY <1>1 DEF SharingInv, WritableIsPrivate, Present
<1> QED BY <1>2, Zenon DEF SharingInv, LinksPrivate

\* alloc_upages() while a process is created.
LEMMA AllocPageSharing ==
  ASSUME FramesInv, SharingInv, call.kind \in {"load", "stack"}, NEW v \in call.todo, NEW w, NEW x,
         AllocPage(call.proc, v, w, x), Continue([call EXCEPT !.todo = @ \ {v}])
  PROVE  SharingInv'
<1>1. PICK f \in Frame \ used : pte' = [pte EXCEPT ![call.proc][v] = Present(f, w)]
  BY Zenon DEF AllocPage
<1>2. call'.kind \notin {"link", "unlink"}
  BY Zenon DEF Continue, FramesInv, MemTypeOK, Calls
<1>3. PICK p \in Proc : p = call.proc
  BY Zenon DEF FramesInv, CallOK
<1>4. v \in Page
  BY Zenon DEF FramesInv, MemTypeOK, Calls
<1>5. \A q \in Proc, u \in Page : pte'[q][u] = IF q = p /\ u = v THEN Present(f, w) ELSE pte[q][u]
  BY <1>1, <1>3, <1>4, Zenon DEF FramesInv, MemTypeOK
<1> QED BY <1>1, <1>2, <1>3, <1>4, <1>5, FreshSharing

\* mmap() of a page of the batch.
LEMMA MmapPageSharing == ASSUME FramesInv, SharingInv, MmapPage PROVE SharingInv'
<1>1. PICK v \in call.batch, f \in call.uframes :
        /\ call.kind = "mmap"
        /\ pte' = [pte EXCEPT ![call.proc][v] = Present(f, call.access)]
        /\ Continue([call EXCEPT !.batch = @ \ {v}, !.uframes = @ \ {f}, !.done = @ \union {v}])
  BY Zenon DEF MmapPage
<1>2. call'.kind \notin {"link", "unlink"}
  BY <1>1, Zenon DEF Continue, FramesInv, MemTypeOK, Calls
<1>3. PICK p \in Proc : p = call.proc
  BY <1>1, Zenon DEF FramesInv, MemTypeOK, CallOK
<1>4. v \in Page
  BY <1>1, Zenon DEF FramesInv, MemTypeOK, Calls
<1>5. \A q \in Proc, u \in Page :
        pte'[q][u] = IF q = p /\ u = v THEN Present(f, call.access) ELSE pte[q][u]
  BY <1>1, <1>3, <1>4, Zenon DEF FramesInv, MemTypeOK
<1> QED BY <1>1, <1>2, <1>3, <1>4, <1>5, FreshSharing

\* Steps that leave every page in its frame and make none writable.
LEMMA KeptSharing ==
  ASSUME SharingInv, call'.kind \notin {"link", "unlink"},
         \A q \in Proc, u \in Page : /\ pte'[q][u].frame = pte[q][u].frame
                                     /\ pte'[q][u].write => pte[q][u].write
  PROVE  SharingInv'
BY DEF SharingInv, WritableIsPrivate, LinksPrivate

LEMMA SameEntriesSharing ==
  ASSUME SharingInv, call'.kind \notin {"link", "unlink"}, pte' = pte
  PROVE  SharingInv'
BY KeptSharing, Zenon

LEMMA LinkFailsSharing == ASSUME FramesInv, SharingInv, LinkFails PROVE SharingInv'
<1>1. call.kind = "link" /\ pte' = pte /\ call'.proc = call.proc /\ call'.parent = call.parent
  BY Zenon DEF LinkFails, Continue, spaceVars, FramesInv, MemTypeOK, Calls
<1> QED BY <1>1 DEF SharingInv, WritableIsPrivate, LinksPrivate

LEMMA MctrlSharing ==
  ASSUME FramesInv, SharingInv, Discipline, NEW p \in Proc, NEW v \in Page, NEW w \in CtrlAccess,
         Mctrl(p, v, w)
  PROVE  SharingInv'
<1>1. ~w /\ call' = Idle /\ pte' = [pte EXCEPT ![p][v].write = w]
  BY Zenon DEF Mctrl, Discipline
<1>2. \A q \in Proc, u \in Page : /\ pte'[q][u].frame = pte[q][u].frame
                                  /\ pte'[q][u].write => pte[q][u].write
  BY <1>1 DEF FramesInv, MemTypeOK, Entries
<1> QED BY <1>1, <1>2, KeptSharing, Zenon DEF Idle

\* resolve_cow_at() of the last owner.
LEMMA TakeOverSharing ==
  ASSUME FramesInv, SharingInv, NEW p \in Proc, NEW v \in Page, TakeOver(p, v), call' = Idle
  PROVE  SharingInv'
<1>1. PICK f : f = pte[p][v].frame
  BY Zenon
<1>2. f \in Frame /\ refcount[f] = 1
  BY <1>1 DEF TakeOver, FramesInv, EntriesOK, MemTypeOK, Entries
<1>3. \A q \in Proc, u \in Page :
        pte'[q][u] = IF q = p /\ u = v THEN Present(f, TRUE) ELSE pte[q][u]
  BY <1>1, Zenon DEF TakeOver, FramesInv, MemTypeOK
<1>4. \A q \in Proc, u \in Page : pte[q][u].frame = f => q = p /\ u = v
  BY <1>1, <1>2, SoleUser
<1>5. WritableIsPrivate'
  BY <1>1, <1>3, <1>4 DEF SharingInv, WritableIsPrivate, Present
<1> QED BY <1>5, Zenon DEF SharingInv, LinksPrivate, Idle

\* resolve_cow_at() of another owner.
LEMMA CopyFrameSharing ==
  ASSUME FramesInv, SharingInv, NEW p \in Proc, NEW v \in Page, NEW x, CopyFrame(p, v, x), call' = Idle
  PROVE  SharingInv'
<1>1. PICK w : w = TRUE
  BY Zenon
<1>2. PICK f \in Frame \ used : pte' = [pte EXCEPT ![p][v] = Present(f, w)]
  BY <1>1, Zenon DEF CopyFrame
<1>3. \A q \in Proc, u \in Page : pte'[q][u] = IF q = p /\ u = v THEN Present(f, w) ELSE pte[q][u]
  BY <1>2, Zenon DEF FramesInv, MemTypeOK
<1>4. call'.kind \notin {"link", "unlink"}
  BY Zenon DEF Idle
<1> QED BY <1>2, <1>3, <1>4, FreshSharing

LEMMA WriteFrameSharing ==
  ASSUME FramesInv, SharingInv, NEW p \in Proc, NEW v \in Page, NEW x, WriteFrame(p, v, x), call' = Idle
  PROVE  SharingInv'
<1>1. CASE pte' = pte
  BY <1>1, SameEntriesSharing, Zenon DEF Idle
<1>2. CASE TakeOver(p, v)
  BY <1>2, TakeOverSharing, Zenon
<1>3. CASE CopyFrame(p, v, x)
  BY <1>3, CopyFrameSharing, Zenon
<1> QED BY <1>1, <1>2, <1>3, Zenon DEF WriteFrame

\* Clearing entries shares nothing.
LEMMA ClearedSharing ==
  ASSUME FramesInv, SharingInv, call'.kind \notin {"link", "unlink"},
         \A q \in Proc, u \in Page : pte'[q][u] = pte[q][u] \/ pte'[q][u] = NotPresent
  PROVE  SharingInv'
<1>1. WritableIsPrivate'
  BY MemoryAssumption DEF SharingInv, WritableIsPrivate, NotPresent, FramesInv, EntriesOK
<1> QED BY <1>1, Zenon DEF SharingInv, LinksPrivate

LEMMA DropSharing ==
  ASSUME FramesInv, SharingInv, call.proc \in Proc, DropSpace(call.proc), Return
  PROVE  SharingInv'
<1>1. \A q \in Proc, u \in Page : pte'[q][u] = pte[q][u] \/ pte'[q][u] = NotPresent
  BY Zenon DEF FramesInv, MemTypeOK, DropSpace, NoSpace
<1>2. call'.kind = "idle"
  BY Zenon DEF Return, Idle
<1> QED BY <1>1, <1>2, ClearedSharing, Zenon

LEMMA UnmapSharing ==
  ASSUME FramesInv, SharingInv, NEW p \in Proc, NEW v \in Page, Unmap(p, v),
         call'.kind \notin {"link", "unlink"}
  PROVE  SharingInv'
<1>1. \A q \in Proc, u \in Page : pte'[q][u] = pte[q][u] \/ pte'[q][u] = NotPresent
  BY Zenon DEF FramesInv, MemTypeOK, Unmap
<1> QED BY <1>1, ClearedSharing, Zenon

LEMMA DuplicateSharing ==
  ASSUME FramesInv, SharingInv, NEW p \in Proc, NEW c \in Proc, DuplicateProcess(p, c)
  PROVE  SharingInv'
<1>1. pte' = pte /\ call = Idle /\ call'.proc = c /\ c \notin started
  BY Zenon DEF DuplicateProcess, Begin, Idle
<1>2. Mapped(c) = {}
  BY <1>1, MemoryAssumption, Zenon DEF FramesInv, CallOK, Idle
<1>3. \A v \in Page : ~pte[c][v].cow
  BY <1>2, Zenon DEF FramesInv, EntriesOK, Mapped
<1> QED BY <1>1, <1>3 DEF SharingInv, WritableIsPrivate, LinksPrivate

LEMMA LinkSharing == ASSUME FramesInv, SharingInv, LinkPage PROVE SharingInv'
<1>1. PICK v \in call.todo :
        LET e == pte[call.parent][v] IN
        /\ call.kind = "link"
        /\ pte' = [pte EXCEPT ![call.proc][v] = LinkedEntries(e).child,
                              ![call.parent][v] = LinkedEntries(e).parent]
        /\ Continue([call EXCEPT !.todo = @ \ {v}, !.done = @ \union {v}])
  BY Zenon DEF LinkPage
<1>2. PICK c \in Proc \ started, p \in alive : c = call.proc /\ p = call.parent
  BY <1>1, Zenon DEF FramesInv, CallOK
<1>3. p \in Proc /\ p # c /\ v \in Page
  BY <1>1, <1>2, Zenon DEF FramesInv, MemTypeOK, Calls
<1>4. PICK e \in Entries : e = pte[p][v]
  BY <1>3, Zenon DEF FramesInv, MemTypeOK
<1>5. call'.kind = "link" /\ call'.proc = c /\ call'.parent = p
  BY <1>1, <1>2, Zenon DEF FramesInv, MemTypeOK, Calls, Continue
<1>6. \A q \in Proc, u \in Page :
         pte'[q][u] = IF q = c /\ u = v THEN LinkedEntries(e).child
                      ELSE IF q = p /\ u = v THEN LinkedEntries(e).parent ELSE pte[q][u]
  BY <1>1, <1>2, <1>3, <1>4, Zenon DEF FramesInv, MemTypeOK
<1>7. pte[c][v].frame = NoFrame
  BY <1>1, <1>2, <1>3, Zenon DEF FramesInv, CallOK, Mapped
<1>8. /\ LinkedEntries(e).parent.frame = e.frame /\ LinkedEntries(e).child.frame = e.frame
      /\ ~LinkedEntries(e).parent.write /\ ~LinkedEntries(e).child.write
      /\ LinkedEntries(e).child.cow => e.write
  BY Zenon DEF LinkedEntries, Shared, Present
<1>9. WritableIsPrivate'
  <2> SUFFICES ASSUME NEW p1 \in Proc, NEW q \in Proc, NEW v1 \in Page, NEW u \in Page,
                      pte'[p1][v1].write, pte'[q][u].frame = pte'[p1][v1].frame
               PROVE  q = p1 /\ u = v1
    BY Zenon DEF WritableIsPrivate
  <2>1. pte'[p1][v1] = pte[p1][v1] /\ ~(v1 = v /\ p1 \in {c, p})
    BY <1>6, <1>8, Zenon
  <2>2. pte[p1][v1].frame # e.frame
    BY <1>3, <1>4, <2>1 DEF SharingInv, WritableIsPrivate
  <2>3. ~(u = v /\ q \in {c, p}) /\ pte'[q][u] = pte[q][u]
    BY <1>6, <1>8, <2>1, <2>2, Zenon
  <2> QED BY <2>1, <2>3 DEF SharingInv, WritableIsPrivate
<1>10. LinksPrivate'
  <2> SUFFICES ASSUME NEW v1 \in Page, pte'[c][v1].cow
               PROVE  /\ pte'[p][v1].frame = pte'[c][v1].frame
                      /\ \A q \in Proc, u \in Page :
                           pte'[q][u].frame = pte'[c][v1].frame => u = v1 /\ q \in {p, c}
    BY <1>5 DEF LinksPrivate
  <2>1. CASE v1 = v
    <3>1. e.write /\ pte'[c][v].frame = e.frame /\ pte'[p][v].frame = e.frame
      BY <1>3, <1>6, <1>8, <2>1, Zenon
    <3>2. ASSUME NEW q \in Proc, NEW u \in Page, pte'[q][u].frame = e.frame
          PROVE  u = v /\ q \in {p, c}
      BY <1>3, <1>4, <1>6, <3>1, <3>2 DEF SharingInv, WritableIsPrivate
    <3> QED BY <2>1, <3>1, <3>2, Zenon
  <2>2. CASE v1 # v
    <3>1. pte'[c][v1] = pte[c][v1] /\ pte'[p][v1] = pte[p][v1] /\ pte[c][v1].cow
      BY <1>3, <1>6, <2>2, Zenon
    <3>2. /\ pte[p][v1].frame = pte[c][v1].frame
          /\ \A q \in Proc, u \in Page :
               pte[q][u].frame = pte[c][v1].frame => u = v1 /\ q \in {p, c}
      BY <1>1, <1>2, <3>1 DEF SharingInv, LinksPrivate
    <3>3. e.frame # pte[c][v1].frame
      BY <1>3, <1>4, <2>2, <3>2, Zenon
    <3>4. \A q \in Proc, u \in Page :
            pte'[q][u].frame = pte[c][v1].frame => pte'[q][u] = pte[q][u]
      BY <1>6, <1>8, <3>3
    <3> QED BY <3>1, <3>2, <3>4
  <2> QED BY <2>1, <2>2, Zenon
<1> QED BY <1>9, <1>10, Zenon DEF SharingInv

LEMMA UnlinkSharing == ASSUME FramesInv, SharingInv, UnlinkPage PROVE SharingInv'
<1>1. PICK v \in call.done :
        LET c == call.proc IN
        /\ call.kind = "unlink"
        /\ pte' = [pte EXCEPT ![c][v] = NotPresent,
                              ![call.parent][v] = UnlinkedEntry(@, pte[c][v])]
        /\ Continue([call EXCEPT !.done = @ \ {v}])
  BY Zenon DEF UnlinkPage
<1>2. PICK c \in Proc \ started, p \in alive : c = call.proc /\ p = call.parent
  BY <1>1, Zenon DEF FramesInv, CallOK
<1>3. p \in Proc /\ p # c /\ v \in Page
  BY <1>1, <1>2, Zenon DEF FramesInv, MemTypeOK, Calls
<1>4. PICK e \in Entries, ec \in Entries : e = pte[p][v] /\ ec = pte[c][v]
  BY <1>3, Zenon DEF FramesInv, MemTypeOK
<1>5. call'.kind = "unlink" /\ call'.proc = c /\ call'.parent = p
  BY <1>1, <1>2, Zenon DEF FramesInv, MemTypeOK, Calls, Continue
<1>6. \A q \in Proc, u \in Page :
         pte'[q][u] = IF q = c /\ u = v THEN NotPresent
                      ELSE IF q = p /\ u = v THEN UnlinkedEntry(e, ec) ELSE pte[q][u]
  BY <1>1, <1>2, <1>3, <1>4, Zenon DEF FramesInv, MemTypeOK
<1>7. /\ UnlinkedEntry(e, ec).frame = e.frame
      /\ UnlinkedEntry(e, ec).write => e.write \/ ec.cow
  BY Zenon DEF UnlinkedEntry, Present
<1>8. \A q \in Proc, u \in Page :
        pte'[q][u].frame = IF q = c /\ u = v THEN NoFrame ELSE pte[q][u].frame
  BY <1>4, <1>6, <1>7 DEF NotPresent
<1>9. ec.cow => /\ e.frame = ec.frame /\ ec.frame # NoFrame
                /\ \A q \in Proc, u \in Page : pte[q][u].frame = ec.frame => u = v /\ q \in {p, c}
  BY <1>1, <1>2, <1>3, <1>4, Zenon DEF SharingInv, LinksPrivate, FramesInv, EntriesOK
<1>10. WritableIsPrivate'
  <2> SUFFICES ASSUME NEW p1 \in Proc, NEW q \in Proc, NEW v1 \in Page, NEW u \in Page,
                      pte'[p1][v1].write, pte'[q][u].frame = pte'[p1][v1].frame
               PROVE  q = p1 /\ u = v1
    BY Zenon DEF WritableIsPrivate
  <2>1. ~(p1 = c /\ v1 = v)
    BY <1>6 DEF NotPresent
  <2>2. CASE p1 = p /\ v1 = v /\ ec.cow
    BY <1>3, <1>4, <1>8, <1>9, <2>2
  <2>3. CASE ~(p1 = p /\ v1 = v /\ ec.cow)
    <3>1. pte[p1][v1].write /\ pte[p1][v1].frame # NoFrame
      BY <1>4, <1>6, <1>7, <2>1, <2>3 DEF FramesInv, EntriesOK
    <3>2. pte'[p1][v1].frame = pte[p1][v1].frame /\ pte[q][u].frame = pte[p1][v1].frame
      BY <1>8, <2>1, <3>1, Zenon
    <3> QED BY <3>1, <3>2 DEF SharingInv, WritableIsPrivate
  <2> QED BY <2>2, <2>3, Zenon
<1>11. LinksPrivate'
  <2> SUFFICES ASSUME NEW v1 \in Page, pte'[c][v1].cow
               PROVE  /\ pte'[p][v1].frame = pte'[c][v1].frame
                      /\ \A q \in Proc, u \in Page :
                           pte'[q][u].frame = pte'[c][v1].frame => u = v1 /\ q \in {p, c}
    BY <1>5 DEF LinksPrivate
  <2>1. v1 # v /\ pte'[c][v1] = pte[c][v1]
    BY <1>3, <1>6 DEF NotPresent
  <2>2. pte[c][v1].frame # NoFrame
    BY <2>1, Zenon DEF FramesInv, EntriesOK
  <2>3. /\ pte[p][v1].frame = pte[c][v1].frame
        /\ \A q \in Proc, u \in Page :
             pte[q][u].frame = pte[c][v1].frame => u = v1 /\ q \in {p, c}
    BY <1>1, <1>2, <2>1 DEF SharingInv, LinksPrivate
  <2> QED BY <1>2, <1>3, <1>8, <2>1, <2>2, <2>3
<1> QED BY <1>10, <1>11, Zenon DEF SharingInv

LEMMA SharingInvInit == Init => SharingInv
BY DEF Init, SharingInv, WritableIsPrivate, LinksPrivate, NoSpace, NotPresent, Idle

\* The steps of Next, with what each one is an instance of.
LEMMA SharingInvStep ==
  ASSUME Discipline PROVE FramesInv /\ SharingInv /\ [Next]_vars => SharingInv'
<1> SUFFICES ASSUME FramesInv, SharingInv, [Next]_vars PROVE SharingInv'
  BY Zenon
<1>1. CASE UNCHANGED vars
  BY <1>1 DEF vars, spaceVars, SharingInv, WritableIsPrivate, LinksPrivate
<1>2. ASSUME NEW p \in Proc, CreateProcess(p) \/ Exit(p) \/ HarvestZombie(p) PROVE SharingInv'
  <2>1. CASE Exit(p)
    BY <2>1, SameEntriesSharing, Zenon DEF Exit, Idle
  <2>2. CASE HarvestZombie(p)
    BY <2>2, SameEntriesSharing, Zenon DEF HarvestZombie, Begin, Idle, spaceVars
  <2> QED BY <1>2, <2>1, <2>2, CreateSharing, Zenon
<1>3. CASE LoadSegment
  BY <1>3, AllocPageSharing, Zenon DEF LoadSegment
<1>4. CASE MapInitialStack
  BY <1>4, AllocPageSharing, Zenon DEF MapInitialStack
<1>5. CASE ForgeContext
  <2>1. call'.kind = "stack" /\ pte' = pte
    BY <1>5, Zenon DEF ForgeContext, Continue, FramesInv, MemTypeOK, Calls
  <2> QED BY <2>1, SameEntriesSharing, Zenon
<1>6. CASE StartProcess \/ StartDuplicate \/ MmapDone \/ MmapUndone
  BY <1>6, SameEntriesSharing DEF StartProcess, StartDuplicate, MmapDone, MmapUndone, Return, Idle, spaceVars
<1>7. CASE CreateProcessFails \/ DuplicateFails \/ DuplicateForgeFails \/ DropZombie
  <2>1. call.proc \in Proc /\ DropSpace(call.proc) /\ Return
    BY <1>7, Zenon DEF CreateProcessFails, DuplicateFails, DuplicateForgeFails, DropZombie, FramesInv, CallOK
  <2> QED BY <2>1, DropSharing, Zenon
<1>8. ASSUME NEW p \in Proc, NEW c \in Proc, DuplicateProcess(p, c) PROVE SharingInv'
  BY <1>8, DuplicateSharing, Zenon
<1>9. CASE MmapBatch \/ MmapFails
  <2>1. pte' = pte /\ call'.kind \in {"mmap", "undo"}
    BY <1>9, Zenon DEF MmapBatch, MmapFails, Continue, spaceVars, FramesInv, MemTypeOK, Calls
  <2> QED BY <2>1, SameEntriesSharing, Zenon
<1>10. CASE UndoPage \/ HarvestStackPage
  <2>1. PICK v \in call.done : Unmap(call.proc, v) /\ Continue([call EXCEPT !.done = @ \ {v}])
                               /\ call.kind \in {"undo", "harvest"}
    BY <1>10, Zenon DEF UndoPage, HarvestStackPage
  <2>2. call.proc \in Proc /\ v \in Page /\ call'.kind = call.kind
    BY <2>1, Zenon DEF FramesInv, MemTypeOK, CallOK, Calls, Continue
  <2> QED BY <2>1, <2>2, UnmapSharing, Zenon
<1>11. ASSUME NEW p \in Proc, NEW w \in MapAccess, NEW first \in Page, NEW last \in Page,
              Mmap(p, w, first, last)
       PROVE  SharingInv'
  BY <1>11, SameEntriesSharing, Zenon DEF Mmap, MmapCall, Begin, Idle, spaceVars
<1>12. ASSUME NEW p \in Proc, NEW v \in Page,
              \/ StackFault(p, v) \/ Munmap(p, v) \/ CowFault(p, v)
              \/ \E w \in CtrlAccess : Mctrl(p, v, w)
              \/ \E x \in Value : Store(p, v, x) \/ CopyToUser(p, v, x)
       PROVE  SharingInv'
  <2>1. CASE StackFault(p, v)
    BY <2>1, SameEntriesSharing, Zenon DEF StackFault, MmapCall, Begin, Idle, spaceVars
  <2>2. CASE Munmap(p, v)
    BY <2>2, UnmapSharing, Zenon DEF Munmap, Idle
  <2>3. CASE CowFault(p, v)
    BY <2>3, TakeOverSharing, CopyFrameSharing, Zenon DEF CowFault
  <2>4. ASSUME NEW x \in Value, Store(p, v, x) PROVE SharingInv'
    BY <2>4, SameEntriesSharing, Zenon DEF Store, Idle, spaceVars
  <2>5. ASSUME NEW x \in Value, CopyToUser(p, v, x) PROVE SharingInv'
    BY <2>5, WriteFrameSharing, Zenon DEF CopyToUser
  <2> QED BY <1>12, <2>1, <2>2, <2>3, <2>4, <2>5, MctrlSharing, Zenon
<1>13. ASSUME NEW s \in Proc, NEW p \in Proc, NEW u \in Page, NEW v \in Page, CopyUserToUser(s, u, p, v)
       PROVE  SharingInv'
  BY <1>13, WriteFrameSharing, Zenon DEF CopyUserToUser
<1>14. CASE NoProcessLeft
  BY <1>1, <1>14, Zenon DEF NoProcessLeft
<1> QED BY <1>1, <1>2, <1>3, <1>4, <1>5, <1>6, <1>7, <1>8, <1>9, <1>10, <1>11, <1>12, <1>13, <1>14,
           LinkSharing, LinkFailsSharing, UnlinkSharing, MmapPageSharing, Zenon DEF Next

\* Writable frames are private (link_user_pages(), its rollback, resolve_cow_at()), for any
\* number of processes, pages and frames, as long as mctrl() does not make pages writable.
THEOREM WritableFramesPrivate == ASSUME Discipline PROVE Spec => []WritableIsPrivate
<1>1. Init => SharingInv
  BY SharingInvInit, Zenon
<1>2. FramesInv /\ SharingInv /\ [Next]_vars => SharingInv'
  BY SharingInvStep, Zenon
<1>3. SharingInv => WritableIsPrivate
  BY Zenon DEF SharingInv
<1> QED BY <1>1, <1>2, <1>3, FramesInvariant, PTL DEF Spec

(***************************************************************************)
(* What a new process starts with.                                         *)
(***************************************************************************)

LEMMA CreateBuilds ==
  ASSUME FramesInv, NEW p \in Proc, CreateProcess(p) PROVE SpaceBuilt'
<1>1. /\ call = Idle /\ pte' = pte /\ p \notin started
      /\ call'.kind = "load" /\ call'.proc = p /\ call'.todo = Loaded
  BY Zenon DEF CreateProcess, Begin, Idle
<1>2. Mapped(p) = {}
  BY <1>1, MemoryAssumption, Zenon DEF FramesInv, CallOK, Idle
<1>3. \A v \in Page : pte'[p][v].frame = NoFrame
  BY <1>1, <1>2, Zenon DEF Mapped
<1> QED BY <1>1, <1>3, Zenon DEF SpaceBuilt, Mapped

LEMMA DuplicateBuilds ==
  ASSUME FramesInv, NEW p \in Proc, NEW c \in Proc, DuplicateProcess(p, c) PROVE SpaceBuilt'
<1>1. /\ call = Idle /\ pte' = pte /\ c \notin started
      /\ call'.kind = "link" /\ call'.proc = c /\ call'.parent = p /\ call'.todo = Mapped(p)
  BY Zenon DEF DuplicateProcess, Begin, Idle
<1>2. Mapped(c) = {}
  BY <1>1, MemoryAssumption, Zenon DEF FramesInv, CallOK, Idle
<1>3. \A v \in Page : pte[c][v].frame = NoFrame
  BY <1>2, Zenon DEF Mapped
<1>4. \A v \in Page \ Mapped(p) : pte[p][v].frame = NoFrame
  BY Zenon DEF Mapped
<1> QED BY <1>1, <1>3, <1>4, Zenon DEF SpaceBuilt

\* alloc_upages() adds one page with its content.
LEMMA AllocPageBuilds ==
  ASSUME FramesInv, SpaceBuilt, call.kind \in {"load", "stack"}, NEW v \in call.todo, NEW w,
         AllocPage(call.proc, v, w, IF v \in Loaded THEN Segment[v] ELSE Zero),
         Continue([call EXCEPT !.todo = @ \ {v}])
  PROVE  SpaceBuilt'
<1> DEFINE x == IF v \in Loaded THEN Segment[v] ELSE Zero
<1>1. PICK f \in Frame \ used :
        /\ pte' = [pte EXCEPT ![call.proc][v] = Present(f, w)]
        /\ data' = [data EXCEPT ![f] = x]
  BY Zenon DEF AllocPage
<1>2. /\ call'.kind = call.kind /\ call'.proc = call.proc /\ call'.todo = call.todo \ {v}
      /\ call'.parent = call.parent
  BY Zenon DEF Continue, FramesInv, MemTypeOK, Calls
<1>3. PICK p \in Proc : p = call.proc
  BY Zenon DEF FramesInv, CallOK
<1>4. v \in Page /\ call.todo \subseteq Page
  BY Zenon DEF FramesInv, MemTypeOK, Calls
<1>5. \A u \in Page : pte'[p][u] = IF u = v THEN Present(f, w) ELSE pte[p][u]
  BY <1>1, <1>3, <1>4, Zenon DEF FramesInv, MemTypeOK
<1>6. \A u \in Page : pte[p][u].frame # f
  BY NoUser, Zenon
<1>7. data'[f] = x /\ \A h \in Frame : h # f => data'[h] = data[h]
  BY <1>1, Zenon DEF FramesInv, MemTypeOK
<1>8. f # NoFrame /\ pte'[p][v].frame = f
  BY <1>4, <1>5, MemoryAssumption DEF Present
<1>9. v \in (IF call.kind = "load" THEN Loaded ELSE Loaded \union InitialStack)
  BY Zenon DEF SpaceBuilt, FramesInv, CallOK
<1>10. ASSUME NEW u \in Page
       PROVE  /\ u \in Mapped(p)' <=>
                   u \in (IF call.kind = "load" THEN Loaded ELSE Loaded \union InitialStack) \ (call.todo \ {v})
              /\ u \in Mapped(p)' => data'[pte'[p][u].frame] = IF u \in Loaded THEN Segment[u] ELSE Zero
  <2>1. CASE u = v
    BY <1>4, <1>7, <1>8, <1>9, <2>1, Zenon DEF Mapped
  <2>2. CASE u # v
    <3>1. pte'[p][u] = pte[p][u] /\ (u \in Mapped(p)' <=> u \in Mapped(p))
      BY <1>5, <2>2, Zenon DEF Mapped
    <3>2. u \in Mapped(p) => pte[p][u].frame \in Frame
      BY DEF Mapped, FramesInv, MemTypeOK, Entries
    <3>3. u \in Mapped(p) => data'[pte'[p][u].frame] = data[pte[p][u].frame]
      BY <1>6, <1>7, <3>1, <3>2, Zenon
    <3> QED BY <1>3, <2>2, <3>1, <3>3, Zenon DEF SpaceBuilt
  <2> QED BY <2>1, <2>2, Zenon
<1>11. call.kind = "stack" => call.todo \ {v} \subseteq InitialStack
  BY Zenon DEF SpaceBuilt
<1> QED BY <1>2, <1>3, <1>10, <1>11 DEF SpaceBuilt, Mapped

LEMMA ForgeBuilds == ASSUME FramesInv, SpaceBuilt, ForgeContext PROVE SpaceBuilt'
<1>1. /\ call.kind = "load" /\ call.todo = {} /\ pte' = pte /\ data' = data
      /\ call'.kind = "stack" /\ call'.proc = call.proc /\ call'.todo = InitialStack
  BY Zenon DEF ForgeContext, Continue, frameVars, FramesInv, MemTypeOK, Calls
<1>2. InitialStack \intersect Loaded = {}
  BY MemoryAssumption, Zenon
<1> QED BY <1>1, <1>2, Zenon DEF SpaceBuilt, Mapped

LEMMA LinkBuilds == ASSUME FramesInv, SpaceBuilt, LinkPage PROVE SpaceBuilt'
<1>1. PICK v \in call.todo :
        LET e == pte[call.parent][v] IN
        /\ call.kind = "link"
        /\ pte' = [pte EXCEPT ![call.proc][v] = LinkedEntries(e).child,
                              ![call.parent][v] = LinkedEntries(e).parent]
        /\ Continue([call EXCEPT !.todo = @ \ {v}, !.done = @ \union {v}])
  BY Zenon DEF LinkPage
<1>2. PICK c \in Proc \ started, p \in alive : c = call.proc /\ p = call.parent
  BY <1>1, Zenon DEF FramesInv, CallOK
<1>3. p \in Proc /\ p # c /\ v \in Page
  BY <1>1, <1>2, Zenon DEF FramesInv, MemTypeOK, Calls
<1>4. PICK e \in Entries : e = pte[p][v]
  BY <1>3, Zenon DEF FramesInv, MemTypeOK
<1>5. call'.kind = "link" /\ call'.proc = c /\ call'.parent = p /\ call'.todo = call.todo \ {v}
  BY <1>1, <1>2, Zenon DEF FramesInv, MemTypeOK, Calls, Continue
<1>6. LinkedEntries(e).parent.frame = e.frame /\ LinkedEntries(e).child.frame = e.frame
  BY Zenon DEF LinkedEntries, Shared, Present
<1>7. \A q \in Proc, u \in Page :
         pte'[q][u] = IF q = c /\ u = v THEN LinkedEntries(e).child
                      ELSE IF q = p /\ u = v THEN LinkedEntries(e).parent ELSE pte[q][u]
  BY <1>1, <1>2, <1>3, <1>4, Zenon DEF FramesInv, MemTypeOK
<1>8. \A u \in Page \ call.todo : pte[c][u].frame = pte[p][u].frame
  BY <1>1, <1>2, Zenon DEF SpaceBuilt
<1>9. \A u \in Page \ (call.todo \ {v}) : pte'[c][u].frame = pte'[p][u].frame
  BY <1>2, <1>3, <1>6, <1>7, <1>8, Zenon
<1> QED BY <1>5, <1>9, Zenon DEF SpaceBuilt

\* Every other step ends, or is not part of, the building of an address space.
LEMMA SpaceBuiltElse ==
  ASSUME call'.kind \notin {"load", "stack", "link"} PROVE SpaceBuilt'
BY Zenon DEF SpaceBuilt

LEMMA SpaceBuiltInit == Init => SpaceBuilt
BY DEF Init, SpaceBuilt, Idle

LEMMA SpaceBuiltStep == FramesInv /\ SpaceBuilt /\ [Next]_vars => SpaceBuilt'
<1> SUFFICES ASSUME FramesInv, SpaceBuilt, [Next]_vars PROVE SpaceBuilt'
  BY Zenon
<1>1. CASE UNCHANGED vars
  BY <1>1, Zenon DEF vars, spaceVars, frameVars, SpaceBuilt, Mapped
<1>2. ASSUME NEW p \in Proc, CreateProcess(p) \/ Exit(p) \/ HarvestZombie(p) PROVE SpaceBuilt'
  <2>1. Exit(p) => call'.kind = "idle"
    BY DEF Exit, Idle
  <2>2. HarvestZombie(p) => call'.kind = "harvest"
    BY Zenon DEF HarvestZombie, Begin, Idle
  <2> QED BY <1>2, <2>1, <2>2, CreateBuilds, SpaceBuiltElse, Zenon
<1>3. CASE LoadSegment
  <2>1. PICK v \in call.todo :
          /\ call.kind = "load"
          /\ AllocPage(call.proc, v, v \notin ReadOnlyImage, Segment[v])
          /\ Continue([call EXCEPT !.todo = @ \ {v}])
    BY <1>3, Zenon DEF LoadSegment
  <2>2. PICK w : w = (v \notin ReadOnlyImage)
    BY Zenon
  <2>3. v \in Loaded
    BY <2>1, Zenon DEF FramesInv, CallOK
  <2>4. AllocPage(call.proc, v, w, IF v \in Loaded THEN Segment[v] ELSE Zero)
    BY <2>1, <2>2, <2>3, Zenon
  <2> QED BY <2>1, <2>4, AllocPageBuilds, Zenon
<1>4. CASE MapInitialStack
  <2>1. PICK v \in call.todo :
          /\ call.kind = "stack"
          /\ AllocPage(call.proc, v, TRUE, Zero)
          /\ Continue([call EXCEPT !.todo = @ \ {v}])
    BY <1>4, Zenon DEF MapInitialStack
  <2>2. PICK w : w = TRUE
    BY Zenon
  <2>3. v \notin Loaded
    BY <2>1, MemoryAssumption, Zenon DEF SpaceBuilt
  <2>4. AllocPage(call.proc, v, w, IF v \in Loaded THEN Segment[v] ELSE Zero)
    BY <2>1, <2>2, <2>3, Zenon
  <2> QED BY <2>1, <2>4, AllocPageBuilds, Zenon
<1>5. CASE \/ StartProcess \/ StartDuplicate \/ MmapDone \/ MmapUndone
           \/ CreateProcessFails \/ DuplicateFails \/ DuplicateForgeFails \/ DropZombie
  <2>1. Return
    BY <1>5, Zenon DEF StartProcess, StartDuplicate, MmapDone, MmapUndone, CreateProcessFails,
       DuplicateFails, DuplicateForgeFails, DropZombie
  <2>2. call'.kind = "idle"
    BY <2>1, Zenon DEF Return, Idle
  <2> QED BY <2>2, SpaceBuiltElse, Zenon
<1>6. CASE LinkFails \/ UnlinkPage \/ MmapBatch \/ MmapPage \/ MmapFails \/ UndoPage \/ HarvestStackPage
  <2>1. call'.kind \notin {"load", "stack", "link"}
    BY <1>6, Zenon DEF LinkFails, UnlinkPage, MmapBatch, MmapPage, MmapFails, UndoPage, HarvestStackPage, Continue,
       FramesInv, MemTypeOK, Calls
  <2> QED BY <2>1, SpaceBuiltElse, Zenon
<1>7. ASSUME NEW p \in Proc, NEW w \in MapAccess, NEW first \in Page, NEW last \in Page,
             Mmap(p, w, first, last)
      PROVE  SpaceBuilt'
  BY <1>7, SpaceBuiltElse, Zenon DEF Mmap, MmapCall, Begin, Idle
<1>8. ASSUME NEW p \in Proc, NEW v \in Page,
             \/ StackFault(p, v) \/ Munmap(p, v) \/ CowFault(p, v)
             \/ \E w \in CtrlAccess : Mctrl(p, v, w)
             \/ \E x \in Value : Store(p, v, x) \/ CopyToUser(p, v, x)
      PROVE  SpaceBuilt'
  <2>1. StackFault(p, v) => call'.kind = "mmap"
    BY Zenon DEF StackFault, MmapCall, Begin, Idle
  <2>2. ~StackFault(p, v) => call' = Idle
    BY <1>8, Zenon DEF Munmap, CowFault, Mctrl, Store, CopyToUser
  <2> QED BY <2>1, <2>2, SpaceBuiltElse DEF Idle
<1>9. ASSUME NEW s \in Proc, NEW p \in Proc, NEW u \in Page, NEW v \in Page, CopyUserToUser(s, u, p, v)
      PROVE  SpaceBuilt'
  BY <1>9, SpaceBuiltElse, Zenon DEF CopyUserToUser, Idle
<1>10. CASE NoProcessLeft
  BY <1>1, <1>10, Zenon DEF NoProcessLeft
<1> QED BY <1>1, <1>2, <1>3, <1>4, <1>5, <1>6, <1>7, <1>8, <1>9, <1>10,
           DuplicateBuilds, ForgeBuilds, LinkBuilds, Zenon DEF Next

(***************************************************************************)
(* What each step does to the memory that processes see.                   *)
(***************************************************************************)

\* Which frame backs a page may change as long as the content is the same.
LEMMA ViewSame ==
  ASSUME alive' = alive,
         \A q \in alive, u \in Page :
           /\ pte'[q][u].frame = NoFrame <=> pte[q][u].frame = NoFrame
           /\ pte[q][u].frame # NoFrame => data'[pte'[q][u].frame] = data[pte[q][u].frame]
  PROVE  View' = View
BY Zenon DEF View

LEMMA ViewOne ==
  ASSUME alive' = alive, NEW p \in Proc, NEW v \in Page, NEW y, View'[p][v] = y,
         \A q \in alive, u \in Page : ~(q = p /\ u = v) =>
           /\ pte'[q][u].frame = NoFrame <=> pte[q][u].frame = NoFrame
           /\ pte[q][u].frame # NoFrame => data'[pte'[q][u].frame] = data[pte[q][u].frame]
  PROVE  View' = [View EXCEPT ![p][v] = y]
<1>1. ASSUME NEW q \in Proc, NEW u \in Page, ~(q = p /\ u = v) PROVE View'[q][u] = View[q][u]
  BY <1>1, Zenon DEF View
<1>2. \A q \in Proc : q # p => View'[q] = View[q]
  BY <1>1, Zenon DEF View
<1>3. View'[p] = [View[p] EXCEPT ![v] = y]
  <2>1. \A u \in Page : View'[p][u] = IF u = v THEN y ELSE View[p][u]
    BY <1>1, Zenon
  <2>2. View'[p] = [u \in Page |-> View'[p][u]] /\ View[p] = [u \in Page |-> View[p][u]]
    BY Zenon DEF View
  <2> QED BY <2>1, <2>2, Zenon
<1>4. View' = [q \in Proc |-> View'[q]] /\ View = [q \in Proc |-> View[q]]
  BY Zenon DEF View
<1> QED BY <1>2, <1>3, <1>4, Zenon

\* Steps that change no entry, no frame and no process.
LEMMA QuietStep ==
  ASSUME alive' = alive, data' = data, \A q \in alive, u \in Page : pte'[q][u].frame = pte[q][u].frame
  PROVE  View' = View
BY ViewSame, Zenon

\* Steps on the address space of a process that does not run.
LEMMA HiddenStep ==
  ASSUME FramesInv, call.proc \notin alive, alive' = alive, data' = data,
         \A q \in Proc \ {call.proc}, u \in Page : pte'[q][u].frame = pte[q][u].frame
  PROVE  View' = View
<1>1. alive \subseteq Proc \ {call.proc}
  BY Zenon DEF FramesInv, MemTypeOK
<1> QED BY <1>1, QuietStep, Zenon

\* What a running process sees of a mapped page.
LEMMA MappedView ==
  ASSUME FramesInv, NEW p \in alive, NEW v \in Page
  PROVE  View[p][v] # Unmapped <=> v \in Mapped(p)
<1>1. p \in Proc
  BY Zenon DEF FramesInv, MemTypeOK
<1>2. v \in Mapped(p) => data[pte[p][v].frame] \in Value
  BY <1>1 DEF Mapped, FramesInv, MemTypeOK, Entries
<1> QED BY <1>1, <1>2, MemoryAssumption, Zenon DEF View, Mapped

\* alloc_upages() fills the page of a process that does not run, from a frame nobody uses.
LEMMA AllocPageView ==
  ASSUME FramesInv, call.proc \in Proc \ started, NEW v \in Page, NEW w, NEW x, AllocPage(call.proc, v, w, x)
  PROVE  View' = View
<1>1. PICK f \in Frame \ used :
        /\ pte' = [pte EXCEPT ![call.proc][v] = Present(f, w)]
        /\ data' = [data EXCEPT ![f] = x]
        /\ alive' = alive
  BY Zenon DEF AllocPage
<1>2. alive \subseteq Proc /\ call.proc \notin alive
  BY Zenon DEF FramesInv, MemTypeOK
<1>3. \A q \in alive, u \in Page : pte'[q][u] = pte[q][u]
  BY <1>1, <1>2, Zenon DEF FramesInv, MemTypeOK
<1>4. \A q \in alive, u \in Page : pte[q][u].frame # f
  BY <1>2, NoUser, Zenon
<1>5. \A h \in Frame : h # f => data'[h] = data[h]
  BY <1>1, Zenon DEF FramesInv, MemTypeOK
<1>6. \A q \in alive, u \in Page : pte[q][u].frame # NoFrame => pte[q][u].frame \in Frame
  BY <1>2 DEF FramesInv, MemTypeOK, Entries
<1> QED BY <1>1, <1>3, <1>4, <1>5, <1>6, ViewSame, Zenon

LEMMA DropSpaceView ==
  ASSUME FramesInv, call.proc \in Proc \ alive, DropSpace(call.proc), alive' = alive
  PROVE  View' = View
<1>1. \A q \in Proc \ {call.proc}, u \in Page : pte'[q][u].frame = pte[q][u].frame
  BY Zenon DEF DropSpace, FramesInv, MemTypeOK
<1> QED BY <1>1, HiddenStep, Zenon DEF DropSpace, frameVars

LEMMA LinkPageView == ASSUME FramesInv, LinkPage PROVE View' = View
<1>1. PICK v \in call.todo :
        LET e == pte[call.parent][v] IN
        /\ call.kind = "link"
        /\ pte' = [pte EXCEPT ![call.proc][v] = LinkedEntries(e).child,
                              ![call.parent][v] = LinkedEntries(e).parent]
        /\ alive' = alive /\ data' = data
  BY Zenon DEF LinkPage
<1>2. PICK c \in Proc \ started, p \in alive : c = call.proc /\ p = call.parent
  BY <1>1, Zenon DEF FramesInv, CallOK
<1>3. p \in Proc /\ p # c /\ v \in Page
  BY <1>1, <1>2, Zenon DEF FramesInv, MemTypeOK, Calls
<1>4. PICK e \in Entries : e = pte[p][v]
  BY <1>3, Zenon DEF FramesInv, MemTypeOK
<1>5. LinkedEntries(e).parent.frame = e.frame
  BY Zenon DEF LinkedEntries, Shared
<1>6. \A q \in Proc, u \in Page :
         pte'[q][u] = IF q = c /\ u = v THEN LinkedEntries(e).child
                      ELSE IF q = p /\ u = v THEN LinkedEntries(e).parent ELSE pte[q][u]
  BY <1>1, <1>2, <1>3, <1>4, Zenon DEF FramesInv, MemTypeOK
<1>7. \A q \in Proc \ {c}, u \in Page : pte'[q][u].frame = pte[q][u].frame
  BY <1>4, <1>5, <1>6, Zenon
<1>8. c \notin alive
  BY <1>2, Zenon DEF FramesInv, MemTypeOK
<1> QED BY <1>1, <1>2, <1>7, <1>8, HiddenStep, Zenon

LEMMA UnlinkPageView == ASSUME FramesInv, UnlinkPage PROVE View' = View
<1>1. PICK v \in call.done :
        LET c == call.proc IN
        /\ call.kind = "unlink"
        /\ pte' = [pte EXCEPT ![c][v] = NotPresent,
                              ![call.parent][v] = UnlinkedEntry(@, pte[c][v])]
        /\ alive' = alive /\ data' = data
  BY Zenon DEF UnlinkPage
<1>2. PICK c \in Proc \ started, p \in alive : c = call.proc /\ p = call.parent
  BY <1>1, Zenon DEF FramesInv, CallOK
<1>3. p \in Proc /\ p # c /\ v \in Page
  BY <1>1, <1>2, Zenon DEF FramesInv, MemTypeOK, Calls
<1>4. PICK e \in Entries, ec \in Entries : e = pte[p][v] /\ ec = pte[c][v]
  BY <1>3, Zenon DEF FramesInv, MemTypeOK
<1>5. UnlinkedEntry(e, ec).frame = e.frame
  BY Zenon DEF UnlinkedEntry, Present
<1>6. \A q \in Proc, u \in Page :
         pte'[q][u] = IF q = c /\ u = v THEN NotPresent
                      ELSE IF q = p /\ u = v THEN UnlinkedEntry(e, ec) ELSE pte[q][u]
  BY <1>1, <1>2, <1>3, <1>4, Zenon DEF FramesInv, MemTypeOK
<1>7. \A q \in Proc \ {c}, u \in Page : pte'[q][u].frame = pte[q][u].frame
  BY <1>4, <1>5, <1>6, Zenon
<1>8. c \notin alive
  BY <1>2, Zenon DEF FramesInv, MemTypeOK
<1> QED BY <1>1, <1>2, <1>7, <1>8, HiddenStep, Zenon

\* The page moves to a frame of its own: its content becomes x and no other page changes.
LEMMA CopyFrameView ==
  ASSUME FramesInv, NEW p \in alive, NEW v \in Page, NEW x, CopyFrame(p, v, x), alive' = alive
  PROVE  View' = [View EXCEPT ![p][v] = x]
<1>1. PICK f \in Frame \ used :
        /\ pte' = [pte EXCEPT ![p][v] = Present(f, TRUE)]
        /\ data' = [data EXCEPT ![f] = x]
  BY Zenon DEF CopyFrame
<1>2. alive \subseteq Proc /\ p \in Proc
  BY Zenon DEF FramesInv, MemTypeOK
<1>3. pte'[p][v] = Present(f, TRUE) /\ \A q \in alive, u \in Page : ~(q = p /\ u = v) => pte'[q][u] = pte[q][u]
  BY <1>1, <1>2, Zenon DEF FramesInv, MemTypeOK
<1>4. \A q \in alive, u \in Page : pte[q][u].frame # f
  BY <1>2, NoUser, Zenon
<1>5. data'[f] = x /\ \A h \in Frame : h # f => data'[h] = data[h]
  BY <1>1, Zenon DEF FramesInv, MemTypeOK
<1>6. \A q \in alive, u \in Page : pte[q][u].frame # NoFrame => pte[q][u].frame \in Frame
  BY <1>2 DEF FramesInv, MemTypeOK, Entries
<1>7. View'[p][v] = x
  BY <1>1, <1>2, <1>3, <1>5, MemoryAssumption DEF View, Present
<1> QED BY <1>2, <1>3, <1>4, <1>5, <1>6, <1>7, ViewOne

\* A frame with one user is written: no other page changes.
LEMMA SoleFrameView ==
  ASSUME FramesInv, NEW p \in alive, NEW v \in Mapped(p), NEW x, alive' = alive,
         NEW f \in Frame, f = pte[p][v].frame,
         \A h \in Frame : data'[h] = IF h = f THEN x ELSE data[h],
         \A q \in Proc, u \in Page : pte'[q][u].frame = pte[q][u].frame,
         \A q \in Proc, u \in Page : pte[q][u].frame = f => q = p /\ u = v
  PROVE  View' = [View EXCEPT ![p][v] = x]
<1>1. v \in Page /\ alive \subseteq Proc /\ p \in Proc
  BY Zenon DEF Mapped, FramesInv, MemTypeOK
<1>2. \A q \in alive, u \in Page : pte[q][u].frame # NoFrame => pte[q][u].frame \in Frame
  BY <1>1 DEF FramesInv, MemTypeOK, Entries
<1>3. View'[p][v] = x
  BY <1>1, MemoryAssumption DEF View
<1>4. \A q \in alive, u \in Page : ~(q = p /\ u = v) => pte[q][u].frame # f
  BY <1>1, Zenon
<1> QED BY <1>1, <1>2, <1>3, <1>4, ViewOne

LEMMA WriteFrameView ==
  ASSUME FramesInv, SharingInv, Discipline, NEW p \in alive, NEW v \in Mapped(p), NEW x,
         WriteFrame(p, v, x), alive' = alive
  PROVE  View' = [View EXCEPT ![p][v] = x]
<1>1. v \in Page /\ p \in Proc
  BY Zenon DEF Mapped, FramesInv, MemTypeOK
<1>2. PICK f \in Frame : f = pte[p][v].frame
  BY <1>1 DEF Mapped, FramesInv, MemTypeOK, Entries
<1>3. data' = [data EXCEPT ![f] = x] => \A h \in Frame : data'[h] = IF h = f THEN x ELSE data[h]
  BY Zenon DEF FramesInv, MemTypeOK
<1>4. CASE pte[p][v].write /\ pte' = pte /\ data' = [data EXCEPT ![f] = x]
  <2>1. \A q \in Proc, u \in Page : pte[q][u].frame = f => q = p /\ u = v
    BY <1>1, <1>2, <1>4, Zenon DEF SharingInv, WritableIsPrivate
  <2> QED BY <1>2, <1>3, <1>4, <2>1, SoleFrameView
<1>5. CASE TakeOver(p, v) /\ data' = [data EXCEPT ![f] = x]
  <2>1. refcount[f] = 1 /\ pte' = [pte EXCEPT ![p][v] = Present(f, TRUE)]
    BY <1>1, <1>2, <1>5, Zenon DEF TakeOver, FramesInv, MemTypeOK
  <2>2. \A q \in Proc, u \in Page : pte'[q][u].frame = pte[q][u].frame
    BY <1>1, <1>2, <2>1, Zenon DEF Present, FramesInv, MemTypeOK
  <2>3. \A q \in Proc, u \in Page : pte[q][u].frame = f => q = p /\ u = v
    BY <1>1, <1>2, <2>1, SoleUser
  <2> QED BY <1>2, <1>3, <1>5, <2>2, <2>3, SoleFrameView
<1>6. CASE CopyFrame(p, v, x)
  BY <1>1, <1>6, CopyFrameView, Zenon
<1> QED BY <1>2, <1>4, <1>5, <1>6, Zenon DEF WriteFrame, Discipline

LEMMA MmapPageView == ASSUME FramesInv, MmapPage PROVE \E p \in Proc, v \in Page : Private!MapPage(p, v)
<1>1. PICK v \in call.batch, f \in call.uframes :
        /\ call.kind = "mmap"
        /\ pte' = [pte EXCEPT ![call.proc][v] = Present(f, call.access)]
        /\ data' = [data EXCEPT ![f] = Zero]
        /\ alive' = alive
  BY Zenon DEF MmapPage
<1>2. PICK p \in alive : p = call.proc
  BY <1>1, Zenon DEF FramesInv, CallOK
<1>3. alive \subseteq Proc /\ p \in Proc /\ v \in Page /\ f \in Frame /\ v \notin Mapped(p)
  BY <1>1, <1>2, Zenon DEF FramesInv, MemTypeOK, Calls, CallOK
<1>4. /\ pte'[p][v].frame = f
      /\ \A q \in alive, u \in Page : ~(q = p /\ u = v) => pte'[q][u] = pte[q][u]
  BY <1>1, <1>2, <1>3, Zenon DEF FramesInv, MemTypeOK, Present
<1>5. \A q \in alive, u \in Page : pte[q][u].frame # f
  BY <1>3, NoUser, Zenon
<1>6. data'[f] = Zero /\ \A h \in Frame : h # f => data'[h] = data[h]
  BY <1>1, <1>3, Zenon DEF FramesInv, MemTypeOK
<1>7. \A q \in alive, u \in Page : pte[q][u].frame # NoFrame => pte[q][u].frame \in Frame
  BY <1>3 DEF FramesInv, MemTypeOK, Entries
<1>8. View'[p][v] = Zero
  BY <1>1, <1>2, <1>3, <1>4, <1>6, MemoryAssumption, Zenon DEF View
<1>9. View' = [View EXCEPT ![p][v] = Zero]
  BY <1>1, <1>3, <1>4, <1>5, <1>6, <1>7, <1>8, ViewOne
<1>10. View[p][v] = Unmapped
  BY <1>2, <1>3, MappedView, Zenon
<1> QED BY <1>3, <1>9, <1>10, Zenon DEF Private!MapPage

LEMMA UnmapView ==
  ASSUME FramesInv, NEW p \in alive, NEW v \in Mapped(p), Unmap(p, v), alive' = alive
  PROVE  p \in Proc /\ v \in Page /\ Private!UnmapPage(p, v)
<1>1. alive \subseteq Proc /\ p \in Proc /\ v \in Page
  BY Zenon DEF FramesInv, MemTypeOK, Mapped
<1>2. pte' = [pte EXCEPT ![p][v] = NotPresent] /\ data' = data
  BY Zenon DEF Unmap
<1>3. /\ pte'[p][v].frame = NoFrame
      /\ \A q \in alive, u \in Page : ~(q = p /\ u = v) => pte'[q][u] = pte[q][u]
  BY <1>1, <1>2, Zenon DEF FramesInv, MemTypeOK, NotPresent
<1>4. View'[p][v] = Unmapped
  BY <1>1, <1>3, Zenon DEF View
<1>5. View' = [View EXCEPT ![p][v] = Unmapped]
  BY <1>1, <1>2, <1>3, <1>4, ViewOne
<1>6. View[p][v] # Unmapped
  BY <1>1, MappedView, Zenon
<1> QED BY <1>1, <1>5, <1>6, Zenon DEF Private!UnmapPage

LEMMA StartProcessView ==
  ASSUME FramesInv, SpaceBuilt, StartProcess PROVE \E p \in Proc : Private!Start(p)
<1> DEFINE Image == [v \in Page |-> IF v \in Loaded THEN Segment[v]
                                    ELSE IF v \in InitialStack THEN Zero ELSE Unmapped]
<1>1. /\ call.kind = "stack" /\ call.todo = {} /\ alive' = alive \union {call.proc}
      /\ pte' = pte /\ data' = data
  BY Zenon DEF StartProcess, frameVars
<1>2. PICK p \in Proc \ alive : p = call.proc
  BY <1>1, Zenon DEF FramesInv, MemTypeOK, CallOK
<1>3. ASSUME NEW v \in Page
      PROVE  /\ pte[p][v].frame # NoFrame <=> v \in Loaded \union InitialStack
             /\ pte[p][v].frame # NoFrame => data[pte[p][v].frame] = IF v \in Loaded THEN Segment[v] ELSE Zero
  BY <1>1, <1>2, Zenon DEF SpaceBuilt, Mapped
<1>4. View'[p] = Image
  BY <1>1, <1>2, <1>3, Zenon DEF View
<1>5. \A q \in Proc : q # p => View'[q] = View[q]
  BY <1>1, <1>2, Zenon DEF View
<1>6. View[p] = [v \in Page |-> Unmapped]
  BY <1>2, Zenon DEF View
<1>7. View' = [q \in Proc |-> View'[q]] /\ View = [q \in Proc |-> View[q]]
  BY Zenon DEF View
<1>8. View' = [View EXCEPT ![p] = Image]
  BY <1>4, <1>5, <1>7, Zenon
<1> QED BY <1>6, <1>8, Zenon DEF Private!Start, Private!NoPages

LEMMA StartDuplicateView ==
  ASSUME FramesInv, SpaceBuilt, StartDuplicate PROVE \E p, c \in Proc : Private!Duplicate(p, c)
<1>1. /\ call.kind = "link" /\ call.todo = {} /\ alive' = alive \union {call.proc}
      /\ pte' = pte /\ data' = data
  BY Zenon DEF StartDuplicate, frameVars
<1>2. PICK c \in Proc \ alive, p \in alive : c = call.proc /\ p = call.parent
  BY <1>1, Zenon DEF FramesInv, MemTypeOK, CallOK
<1>3. p \in Proc
  BY Zenon DEF FramesInv, MemTypeOK
<1>4. \A v \in Page : pte[c][v].frame = pte[p][v].frame
  BY <1>1, <1>2, Zenon DEF SpaceBuilt
<1>5. View'[c] = View[p]
  BY <1>1, <1>2, <1>3, <1>4, Zenon DEF View
<1>6. \A q \in Proc : q # c => View'[q] = View[q]
  BY <1>1, <1>2, Zenon DEF View
<1>7. View[c] = [v \in Page |-> Unmapped]
  BY <1>2, Zenon DEF View
<1>8. View' = [q \in Proc |-> View'[q]] /\ View = [q \in Proc |-> View[q]]
  BY Zenon DEF View
<1>9. View' = [View EXCEPT ![c] = View[p]]
  BY <1>5, <1>6, <1>8, Zenon
<1> QED BY <1>3, <1>7, <1>9, Zenon DEF Private!Duplicate, Private!NoPages

LEMMA ExitView == ASSUME NEW p \in Proc, Exit(p) PROVE Private!Vanish(p)
<1>1. alive' = alive \ {p} /\ pte' = pte /\ data' = data
  BY Zenon DEF Exit, frameVars
<1>2. View'[p] = [v \in Page |-> Unmapped]
  BY <1>1, Zenon DEF View
<1>3. \A q \in Proc : q # p => View'[q] = View[q]
  BY <1>1, Zenon DEF View
<1>4. View' = [q \in Proc |-> View'[q]] /\ View = [q \in Proc |-> View[q]]
  BY Zenon DEF View
<1> QED BY <1>2, <1>3, <1>4, Zenon DEF Private!Vanish, Private!NoPages

LEMMA CowFaultView ==
  ASSUME FramesInv, NEW p \in Proc, NEW v \in Page, CowFault(p, v) PROVE View' = View
<1>1. p \in alive /\ alive' = alive /\ v \in Mapped(p)
  BY Zenon DEF CowFault
<1>2. CASE TakeOver(p, v) /\ data' = data
  <2>1. \A q \in Proc, u \in Page : pte'[q][u].frame = pte[q][u].frame
    BY <1>2, Zenon DEF TakeOver, Present, FramesInv, MemTypeOK
  <2> QED BY <1>1, <1>2, <2>1, QuietStep, Zenon DEF FramesInv, MemTypeOK
<1>3. CASE CopyFrame(p, v, data[pte[p][v].frame])
  <2>1. View' = [View EXCEPT ![p][v] = data[pte[p][v].frame]]
    BY <1>1, <1>3, CopyFrameView
  <2>2. View[p][v] = data[pte[p][v].frame]
    BY <1>1, Zenon DEF View, Mapped
  <2>3. View = [q \in Proc |-> View[q]] /\ View[p] = [u \in Page |-> View[p][u]]
    BY Zenon DEF View
  <2>4. [View[p] EXCEPT ![v] = View[p][v]] = View[p]
    BY <2>3, Zenon
  <2> QED BY <2>1, <2>2, <2>3, <2>4, Zenon
<1> QED BY <1>2, <1>3, Zenon DEF CowFault

LEMMA StoreView ==
  ASSUME FramesInv, SharingInv, NEW p \in Proc, NEW v \in Page, NEW x, Store(p, v, x)
  PROVE  Private!StorePage(p, v, x)
<1>1. /\ p \in alive /\ alive' = alive /\ v \in Mapped(p) /\ pte[p][v].write
      /\ pte' = pte /\ data' = [data EXCEPT ![pte[p][v].frame] = x]
  BY Zenon DEF Store, spaceVars
<1>2. PICK f \in Frame : f = pte[p][v].frame
  BY <1>1 DEF Mapped, FramesInv, MemTypeOK, Entries
<1>3. \A h \in Frame : data'[h] = IF h = f THEN x ELSE data[h]
  BY <1>1, <1>2, Zenon DEF FramesInv, MemTypeOK
<1>4. \A q \in Proc, u \in Page : pte[q][u].frame = f => q = p /\ u = v
  BY <1>1, <1>2, Zenon DEF SharingInv, WritableIsPrivate
<1>5. View' = [View EXCEPT ![p][v] = x]
  BY <1>1, <1>2, <1>3, <1>4, SoleFrameView
<1> QED BY <1>1, <1>5, MappedView, Zenon DEF Private!StorePage

LEMMA PrivateInit == Init => Private!MemInit
BY Zenon DEF Init, Private!MemInit, Private!NoPages, View

\* Every step is a step of PrivateMemory or leaves what processes see as it was.
LEMMA PrivateStep ==
  ASSUME Discipline
  PROVE  FramesInv /\ SharingInv /\ SpaceBuilt /\ [Next]_vars => [Private!MemNext]_View
<1> SUFFICES ASSUME FramesInv, SharingInv, SpaceBuilt, [Next]_vars PROVE Private!MemNext \/ View' = View
  BY Zenon
<1>1. CASE UNCHANGED vars
  BY <1>1, QuietStep, Zenon DEF vars, spaceVars, frameVars
<1>2. CASE \/ NoProcessLeft \/ ForgeContext \/ LinkFails \/ MmapBatch \/ MmapDone \/ MmapFails \/ MmapUndone
           \/ \E p \in Proc : CreateProcess(p) \/ HarvestZombie(p)
           \/ \E p, c \in Proc : DuplicateProcess(p, c)
           \/ \E p \in Proc, w \in MapAccess, first, last \in Page : first <= last /\ Mmap(p, w, first, last)
           \/ \E p \in Proc, v \in Page : StackFault(p, v)
  <2>1. alive' = alive /\ data' = data /\ pte' = pte
    BY <1>2, Zenon DEF NoProcessLeft, ForgeContext, LinkFails, MmapBatch, MmapDone, MmapFails, MmapUndone,
       CreateProcess, HarvestZombie, DuplicateProcess, Mmap, StackFault, vars, spaceVars, frameVars
  <2> QED BY <2>1, QuietStep, Zenon
<1>3. CASE LoadSegment \/ MapInitialStack
  <2>1. call.kind \in {"load", "stack"} /\ \E v \in call.todo : \E w, x : AllocPage(call.proc, v, w, x)
    BY <1>3, Zenon DEF LoadSegment, MapInitialStack
  <2>2. call.proc \in Proc \ started /\ call.todo \subseteq Page
    BY <2>1, Zenon DEF FramesInv, CallOK, MemTypeOK, Calls
  <2> QED BY <2>1, <2>2, AllocPageView, Zenon
<1>4. CASE CreateProcessFails \/ DuplicateFails \/ DuplicateForgeFails \/ DropZombie
  <2>1. call.proc \in Proc \ alive /\ DropSpace(call.proc) /\ alive' = alive
    BY <1>4, Zenon DEF CreateProcessFails, DuplicateFails, DuplicateForgeFails, DropZombie, FramesInv, MemTypeOK, CallOK
  <2> QED BY <2>1, DropSpaceView, Zenon
<1>5. CASE StartProcess
  BY <1>5, StartProcessView, Zenon DEF Private!MemNext
<1>6. CASE StartDuplicate
  BY <1>6, StartDuplicateView, Zenon DEF Private!MemNext
<1>7. CASE MmapPage
  BY <1>7, MmapPageView, Zenon DEF Private!MemNext
<1>8. CASE UndoPage
  <2>1. PICK v \in call.done : call.kind = "undo" /\ Unmap(call.proc, v) /\ alive' = alive
    BY <1>8, Zenon DEF UndoPage
  <2>2. call.proc \in alive /\ v \in Mapped(call.proc)
    BY <2>1, Zenon DEF FramesInv, CallOK
  <2> QED BY <2>1, <2>2, UnmapView, Zenon DEF Private!MemNext
<1>9. CASE HarvestStackPage
  <2>1. PICK v \in call.done : call.kind = "harvest" /\ Unmap(call.proc, v) /\ alive' = alive
    BY <1>9, Zenon DEF HarvestStackPage
  <2>2. call.proc \in Proc \ alive /\ v \in Page
    BY <2>1, Zenon DEF FramesInv, CallOK, MemTypeOK, Calls
  <2>3. \A q \in Proc \ {call.proc}, u \in Page : pte'[q][u].frame = pte[q][u].frame
    BY <2>1, <2>2, Zenon DEF Unmap, FramesInv, MemTypeOK
  <2> QED BY <2>1, <2>2, <2>3, HiddenStep, Zenon DEF Unmap
<1>10. ASSUME NEW p \in Proc, Exit(p) PROVE Private!MemNext
  BY <1>10, ExitView, Zenon DEF Private!MemNext
<1>11. ASSUME NEW p \in Proc, NEW v \in Page,
              \/ Munmap(p, v) \/ CowFault(p, v) \/ \E w \in CtrlAccess : Mctrl(p, v, w)
              \/ \E x \in Value : Store(p, v, x) \/ CopyToUser(p, v, x)
       PROVE  Private!MemNext \/ View' = View
  <2>1. CASE Munmap(p, v)
    BY <2>1, UnmapView, Zenon DEF Munmap, Private!MemNext
  <2>2. CASE CowFault(p, v)
    BY <2>2, CowFaultView, Zenon
  <2>3. ASSUME NEW w \in CtrlAccess, Mctrl(p, v, w) PROVE View' = View
    <3>1. alive' = alive /\ data' = data /\ pte' = [pte EXCEPT ![p][v].write = w]
      BY <2>3, Zenon DEF Mctrl, frameVars
    <3>2. \A q \in Proc, u \in Page : pte'[q][u].frame = pte[q][u].frame
      BY <3>1 DEF FramesInv, MemTypeOK, Entries
    <3> QED BY <3>1, <3>2, QuietStep, Zenon DEF FramesInv, MemTypeOK
  <2>4. ASSUME NEW x \in Value, Store(p, v, x) PROVE Private!MemNext
    BY <2>4, StoreView, Zenon DEF Private!MemNext
  <2>5. ASSUME NEW x \in Value, CopyToUser(p, v, x) PROVE Private!MemNext
    <3>1. p \in alive /\ v \in Mapped(p) /\ WriteFrame(p, v, x) /\ alive' = alive
      BY <2>5, Zenon DEF CopyToUser
    <3>2. View' = [View EXCEPT ![p][v] = x] /\ View[p][v] # Unmapped
      BY <3>1, WriteFrameView, MappedView, Zenon
    <3> QED BY <3>2, Zenon DEF Private!StorePage, Private!MemNext
  <2> QED BY <1>11, <2>1, <2>2, <2>3, <2>4, <2>5, Zenon
<1>12. ASSUME NEW s \in Proc, NEW p \in Proc, NEW u \in Page, NEW v \in Page, CopyUserToUser(s, u, p, v)
       PROVE  Private!MemNext
  <2>1. /\ p \in alive /\ s \in alive /\ u \in Mapped(s) /\ v \in Mapped(p) /\ alive' = alive
        /\ WriteFrame(p, v, data[pte[s][u].frame])
    BY <1>12, Zenon DEF CopyUserToUser
  <2>2. View[s][u] = data[pte[s][u].frame] /\ View[s][u] # Unmapped /\ View[p][v] # Unmapped
    BY <2>1, MappedView, Zenon DEF View, Mapped
  <2>3. View' = [View EXCEPT ![p][v] = View[s][u]]
    BY <2>1, <2>2, WriteFrameView
  <2> QED BY <2>2, <2>3, Zenon DEF Private!CopyPage, Private!MemNext
<1> QED BY <1>1, <1>2, <1>3, <1>4, <1>5, <1>6, <1>7, <1>8, <1>9, <1>10, <1>11, <1>12,
           LinkPageView, UnlinkPageView, Zenon DEF Next

\* Copy-on-write is invisible (link_user_pages(), its rollback, resolve_cow_at(), the kernel's
\* copies, mmap() and its rollback): whatever is shared, every process reads and writes as if
\* its pages were its own, for any number of processes, pages, frames and references.
THEOREM PrivateMemoryImplemented == ASSUME Discipline PROVE Spec => ImplementsPrivateMemory
<1>1. Init => SharingInv /\ SpaceBuilt /\ Private!MemInit
  BY SharingInvInit, SpaceBuiltInit, PrivateInit, Zenon
<1>2. FramesInv /\ SharingInv /\ [Next]_vars => SharingInv'
  BY SharingInvStep, Zenon
<1>3. FramesInv /\ SpaceBuilt /\ [Next]_vars => SpaceBuilt'
  BY SpaceBuiltStep, Zenon
<1>4. FramesInv /\ SharingInv /\ SpaceBuilt /\ [Next]_vars => [Private!MemNext]_View
  BY PrivateStep, Zenon
<1> QED BY <1>1, <1>2, <1>3, <1>4, FramesInvariant, PTL DEF Spec, ImplementsPrivateMemory, Private!MemSpec
=============================================================================
