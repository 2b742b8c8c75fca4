------------------------ MODULE VirtualMemoryCalls ------------------------
(***************************************************************************)
(* The calls that take several steps (create_process(),                    *)
(* duplicate_process(), mmap(), the harvest of a zombie) keep the          *)
(* invariant.                                                              *)
(***************************************************************************)
EXTENDS VirtualMemoryLemmas

LEMMA CreateProcessFrames ==
  ASSUME FramesInv, NEW p \in Proc, CreateProcess(p)
  PROVE  FramesInv'
<1>1. /\ call = Idle /\ call' \in Calls /\ call'.kind = "load" /\ call'.proc = p
      /\ call'.todo = Loaded /\ call'.batch = {} /\ call'.uframes = {}
  BY MemoryAssumption, Zenon DEF CreateProcess, Begin, Idle, Calls, Kinds
<1>2. UNCHANGED <<started, alive, pte, ustack, used, refcount, data, lost>>
  BY Zenon DEF CreateProcess, frameVars
<1>3. kernel' \subseteq Proc \X KernelSlot
  BY DEF FramesInv, MemTypeOK, CreateProcess, KernelSlot
<1>4. call'.uframes = call.uframes
  BY <1>1, Zenon DEF Idle
<1>5. (CallOK' => FramesInv') /\ \A q \in Proc : Mapped(q)' = Mapped(q)
  BY <1>1, <1>2, <1>3, <1>4, CallStep, Zenon DEF FramesInv, MemTypeOK
<1>6. p \notin started /\ Mapped(p) = {}
  BY <1>1, MemoryAssumption, Zenon DEF CreateProcess, FramesInv, CallOK, Idle
<1>7. CallOK'
  BY <1>1, <1>2, <1>5, <1>6, MemoryAssumption DEF FramesInv, CallOK, Idle
<1> QED BY <1>5, <1>7, Zenon

LEMMA ForgeContextFrames == ASSUME FramesInv, ForgeContext PROVE FramesInv'
<1>1. /\ call.kind = "load" /\ call.todo = {}
      /\ call' \in Calls /\ call'.kind = "stack" /\ call'.proc = call.proc
      /\ call'.todo = InitialStack /\ call'.batch = call.batch /\ call'.uframes = call.uframes
  BY MemoryAssumption, Zenon DEF ForgeContext, Continue, FramesInv, MemTypeOK, Calls, Kinds
<1>2. UNCHANGED <<started, alive, pte, ustack, used, refcount, data, lost>>
  BY Zenon DEF ForgeContext, frameVars
<1>3. kernel' \subseteq Proc \X KernelSlot
  BY <1>1, Zenon DEF FramesInv, MemTypeOK, CallOK, ForgeContext, KernelSlot
<1>4. (CallOK' => FramesInv') /\ \A q \in Proc : Mapped(q)' = Mapped(q)
  BY <1>1, <1>2, <1>3, CallStep, Zenon DEF FramesInv, MemTypeOK
<1>5. CallOK'
  BY <1>1, <1>2, <1>4, MemoryAssumption DEF FramesInv, CallOK
<1> QED BY <1>4, <1>5, Zenon

LEMMA AllocPageFrames ==
  ASSUME FramesInv, call.kind \in {"load", "stack"}, NEW v \in call.todo,
         NEW w \in BOOLEAN, NEW x \in Value,
         AllocPage(call.proc, v, w, x), Continue([call EXCEPT !.todo = @ \ {v}])
  PROVE  FramesInv'
<1>1. PICK f \in Frame \ used :
        /\ Alloc({f})
        /\ pte' = [pte EXCEPT ![call.proc][v] = Present(f, w)]
        /\ data' = [data EXCEPT ![f] = x]
        /\ kernel' = WithTable(call.proc, v)
        /\ UNCHANGED <<started, alive, ustack, lost>>
  BY Zenon DEF AllocPage
<1>2. PICK p \in Proc \ started : p = call.proc
  BY Zenon DEF FramesInv, CallOK
<1>3. v \in Page /\ v \notin Mapped(p) /\ pte[p][v].frame = NoFrame
  BY <1>2, Zenon DEF FramesInv, CallOK, Mapped, MemTypeOK, Calls
<1>4. /\ call' \in Calls /\ call'.kind = call.kind /\ call'.proc = p
      /\ call'.todo = call.todo \ {v} /\ call'.batch = call.batch /\ call'.uframes = call.uframes
  BY <1>2, Zenon DEF FramesInv, MemTypeOK, Calls, Continue
<1>5. \A q \in Proc, u \in Page :
        pte'[q][u] = IF q = p /\ u = v THEN Present(f, w) ELSE pte[q][u]
  BY <1>1, <1>2, <1>3, Zenon DEF FramesInv, MemTypeOK
<1>6. \A q \in Proc, u \in Page :
        pte'[q][u].frame = IF q = p /\ u = v THEN f ELSE pte[q][u].frame
  BY <1>5 DEF Present
<1>7. MemTypeOK'
  <2>1. pte' \in [Proc -> [Page -> Entries]]
    BY <1>1, <1>2, <1>3, Zenon DEF FramesInv, MemTypeOK, Present, Entries
  <2>2. refcount' \in [Frame -> 0 .. MaxRef] /\ used' \subseteq Frame
    BY <1>1, MemoryAssumption DEF FramesInv, MemTypeOK, Alloc
  <2>3. data' \in [Frame -> Value]
    BY <1>1, Zenon DEF FramesInv, MemTypeOK
  <2>4. kernel' \subseteq Proc \X KernelSlot
    BY <1>1, <1>2, <1>3 DEF FramesInv, MemTypeOK, WithTable, KernelSlot, Tables
  <2> QED BY <1>1, <1>4, <2>1, <2>2, <2>3, <2>4, Zenon DEF FramesInv, MemTypeOK
<1>8. EntriesOK'
  BY <1>5, MemoryAssumption DEF FramesInv, EntriesOK, Present
<1>9. RefcountExact' /\ HeldFrames'
  BY <1>1, <1>3, <1>4, <1>6, FreshMapped, Zenon DEF FramesInv
<1>10. CallOK'
  <2>1. \A q \in Proc : Mapped(q)' = IF q = p THEN Mapped(q) \union {v} ELSE Mapped(q)
    BY <1>3, <1>6, MemoryAssumption DEF Mapped
  <2> QED BY <1>1, <1>2, <1>4, <2>1 DEF FramesInv, CallOK
<1> QED BY <1>7, <1>8, <1>9, <1>10, Zenon DEF FramesInv

LEMMA LoadSegmentFrames == ASSUME FramesInv, LoadSegment PROVE FramesInv'
<1>1. PICK v \in call.todo : /\ call.kind = "load"
                             /\ AllocPage(call.proc, v, v \notin ReadOnlyImage, Segment[v])
                             /\ Continue([call EXCEPT !.todo = @ \ {v}])
  BY Zenon DEF LoadSegment
<1>2. Segment[v] \in Value
  BY <1>1, MemoryAssumption, Zenon DEF FramesInv, CallOK
<1> QED BY <1>1, <1>2, AllocPageFrames, Zenon

LEMMA MapInitialStackFrames == ASSUME FramesInv, MapInitialStack PROVE FramesInv'
<1>1. PICK v \in call.todo : /\ call.kind = "stack"
                             /\ AllocPage(call.proc, v, TRUE, Zero)
                             /\ Continue([call EXCEPT !.todo = @ \ {v}])
  BY Zenon DEF MapInitialStack
<1> QED BY <1>1, AllocPageFrames, MemoryAssumption, Zenon

LEMMA StartProcessFrames == ASSUME FramesInv, StartProcess PROVE FramesInv'
<1>1. /\ call.kind = "stack" /\ Return
      /\ started' = started \union {call.proc} /\ alive' = alive \union {call.proc}
      /\ ustack' = [ustack EXCEPT ![call.proc] = TRUE]
      /\ UNCHANGED <<pte, kernel, used, refcount, data, lost>>
  BY Zenon DEF StartProcess, frameVars
<1>2. call.proc \in Proc \ started /\ call.uframes = {}
  BY <1>1, Zenon DEF FramesInv, CallOK
<1>3. call' \in Calls /\ call'.uframes = {}
  BY <1>1, ReturnCall, Zenon
<1>4. (CallOK' => FramesInv') /\ \A q \in Proc : Mapped(q)' = Mapped(q)
  BY <1>1, <1>2, <1>3, CallStep, Zenon DEF FramesInv, MemTypeOK
<1>5. \A q \in Proc \ started' : Mapped(q)' = {}
  BY <1>1, <1>4, Zenon DEF FramesInv, CallOK
<1> QED BY <1>1, <1>4, <1>5, ReturnCall, Zenon

\* The end of a call that drops the address space it is about.
LEMMA DropSpaceFrames ==
  ASSUME FramesInv, call.kind # "mmap", call.proc \in Proc, DropSpace(call.proc), Return,
         UNCHANGED <<started, alive, ustack>>
  PROVE  FramesInv'
<1>1. call' \in Calls /\ call'.uframes = {} /\ call.uframes = {}
  BY ReturnCall, Zenon DEF FramesInv, CallOK
<1>2. RefcountExact' /\ HeldFrames' /\ lost' \in [Frame -> Nat]
  BY <1>1, SpaceDropped, Zenon DEF FramesInv
<1>3. \A q \in Proc, u \in Page : pte'[q][u] = IF q = call.proc THEN NotPresent ELSE pte[q][u]
  BY Zenon DEF FramesInv, MemTypeOK, DropSpace, NoSpace
<1>4. MemTypeOK'
  <2>1. pte' \in [Proc -> [Page -> Entries]]
    BY Zenon DEF FramesInv, MemTypeOK, DropSpace, NoSpace, NotPresent, Entries
  <2>2. kernel' \subseteq Proc \X KernelSlot
    BY Zenon DEF FramesInv, MemTypeOK, DropSpace
  <2> QED BY <1>1, <1>2, <2>1, <2>2, Zenon DEF FramesInv, MemTypeOK, DropSpace, frameVars
<1>5. EntriesOK'
  BY <1>3 DEF FramesInv, EntriesOK, NotPresent
<1>6. \A q \in Proc : Mapped(q)' = IF q = call.proc THEN {} ELSE Mapped(q)
  BY <1>3 DEF Mapped, NotPresent
<1>7. CallOK'
  BY <1>6, ReturnCall, Zenon DEF FramesInv, CallOK
<1> QED BY <1>2, <1>4, <1>5, <1>7, Zenon DEF FramesInv

LEMMA CreateProcessFailsFrames == ASSUME FramesInv, CreateProcessFails PROVE FramesInv'
BY DropSpaceFrames, Zenon DEF CreateProcessFails, FramesInv, CallOK

LEMMA DuplicateFailsFrames == ASSUME FramesInv, DuplicateFails PROVE FramesInv'
BY DropSpaceFrames, Zenon DEF DuplicateFails, FramesInv, CallOK

LEMMA DuplicateForgeFailsFrames == ASSUME FramesInv, DuplicateForgeFails PROVE FramesInv'
BY DropSpaceFrames, Zenon DEF DuplicateForgeFails, FramesInv, CallOK

LEMMA DropZombieFrames == ASSUME FramesInv, DropZombie PROVE FramesInv'
BY DropSpaceFrames, Zenon DEF DropZombie, FramesInv, CallOK

LEMMA DuplicateProcessFrames ==
  ASSUME FramesInv, NEW p \in Proc, NEW c \in Proc, DuplicateProcess(p, c)
  PROVE  FramesInv'
<1>1. /\ call = Idle /\ call' \in Calls /\ call'.kind = "link" /\ call'.proc = c /\ call'.parent = p
      /\ call'.todo = Mapped(p) /\ call'.batch = {} /\ call'.uframes = {} /\ call'.done = {}
  BY Zenon DEF DuplicateProcess, Begin, Idle, Calls, Kinds, Mapped
<1>2. UNCHANGED <<started, alive, pte, ustack, used, refcount, data, lost>>
  BY Zenon DEF DuplicateProcess, frameVars
<1>3. kernel' \subseteq Proc \X KernelSlot
  BY DEF FramesInv, MemTypeOK, DuplicateProcess, KernelSlot
<1>4. call'.uframes = call.uframes
  BY <1>1, Zenon DEF Idle
<1>5. (CallOK' => FramesInv') /\ \A q \in Proc : Mapped(q)' = Mapped(q)
  BY <1>1, <1>2, <1>3, <1>4, CallStep, Zenon DEF FramesInv, MemTypeOK
<1>6. p \in alive /\ c \notin started /\ Mapped(c) = {}
  BY <1>1, MemoryAssumption, Zenon DEF DuplicateProcess, FramesInv, CallOK, Idle
<1>7. CallOK'
  BY <1>1, <1>2, <1>5, <1>6, MemoryAssumption DEF FramesInv, CallOK, Idle
<1> QED BY <1>5, <1>7, Zenon

LEMMA LinkPageFrames == ASSUME FramesInv, LinkPage PROVE FramesInv'
<1>1. PICK v \in call.todo :
        LET e == pte[call.parent][v] IN
        /\ call.kind = "link"
        /\ CanLink(v)
        /\ refcount' = [refcount EXCEPT ![e.frame] = @ + 1]
        /\ pte' = [pte EXCEPT ![call.proc][v] = LinkedEntries(e).child,
                              ![call.parent][v] = LinkedEntries(e).parent]
        /\ kernel' = WithTable(call.proc, v)
        /\ Continue([call EXCEPT !.todo = @ \ {v}, !.done = @ \union {v}])
        /\ UNCHANGED <<started, alive, ustack, used, data, lost>>
  BY Zenon DEF LinkPage
<1>2. PICK c \in Proc \ started, p \in alive : c = call.proc /\ p = call.parent
  BY <1>1, Zenon DEF FramesInv, CallOK
<1>3. p \in Proc /\ p # c
  BY <1>2, Zenon DEF FramesInv, MemTypeOK
<1>4. v \in Page /\ v \in Mapped(p) /\ v \notin Mapped(c) /\ pte[c][v].frame = NoFrame
  BY <1>1, <1>2, Zenon DEF FramesInv, CallOK, Mapped
<1>5. PICK e \in Entries : e = pte[p][v]
  BY <1>3, <1>4, Zenon DEF FramesInv, MemTypeOK
<1>6. PICK f \in Frame : /\ f = e.frame /\ f \in used /\ f \notin call.uframes
                         /\ refcount[f] \in 1 .. MaxRef /\ refcount[f] < MaxRef
  BY <1>1, <1>2, <1>3, <1>4, <1>5, MappedFrame, Zenon DEF FramesInv, CanLink
<1>7. /\ call' \in Calls /\ call'.kind = "link" /\ call'.proc = c /\ call'.parent = p
      /\ call'.todo = call.todo \ {v} /\ call'.done = call.done \union {v}
      /\ call'.batch = call.batch /\ call'.uframes = call.uframes
  BY <1>1, <1>2, <1>4, Zenon DEF FramesInv, MemTypeOK, Calls, Continue
<1>8. /\ LinkedEntries(e).parent \in Entries /\ LinkedEntries(e).parent.frame = f
      /\ LinkedEntries(e).child \in Entries /\ LinkedEntries(e).child.frame = f
  BY <1>5, <1>6, Zenon DEF LinkedEntries, Shared, Present, Entries
<1>9. pte' = [pte EXCEPT ![c][v] = LinkedEntries(e).child, ![p][v] = LinkedEntries(e).parent]
  BY <1>1, <1>2, <1>5, Zenon
<1>10. \A q \in Proc, u \in Page :
         pte'[q][u] = IF q = c /\ u = v THEN LinkedEntries(e).child
                      ELSE IF q = p /\ u = v THEN LinkedEntries(e).parent ELSE pte[q][u]
  BY <1>3, <1>4, <1>9, Zenon DEF FramesInv, MemTypeOK
<1>11. \A q \in Proc, u \in Page :
         pte'[q][u].frame = IF q = c /\ u = v THEN f ELSE pte[q][u].frame
  BY <1>5, <1>6, <1>8, <1>10, Zenon
<1>16. refcount' = [refcount EXCEPT ![f] = @ + 1] /\ used' = used /\ lost' = lost
  BY <1>1, <1>2, <1>5, <1>6, Zenon
<1>12. MemTypeOK'
  <2>1. pte' \in [Proc -> [Page -> Entries]]
    BY <1>3, <1>4, <1>8, <1>9, Zenon DEF FramesInv, MemTypeOK
  <2>2. refcount' \in [Frame -> 0 .. MaxRef]
    BY <1>6, <1>16, MemoryAssumption DEF FramesInv, MemTypeOK
  <2>3. kernel' \subseteq Proc \X KernelSlot
    BY <1>1, <1>2, <1>4 DEF FramesInv, MemTypeOK, WithTable, KernelSlot, Tables
  <2> QED BY <1>1, <1>7, <2>1, <2>2, <2>3, Zenon DEF FramesInv, MemTypeOK
<1>13. EntriesOK'
  BY <1>6, <1>8, <1>10, MemoryAssumption DEF FramesInv, EntriesOK
<1>14. RefcountExact' /\ HeldFrames'
  <2>1. \A h \in Frame : refcount'[h] = IF h = f THEN refcount[f] + 1 ELSE refcount[h]
    BY <1>16, Zenon DEF FramesInv, MemTypeOK
  <2> QED BY <1>4, <1>6, <1>7, <1>11, <1>16, <2>1, FrameShared DEF FramesInv
<1>15. CallOK'
  <2>1. \A q \in Proc : Mapped(q)' = IF q = c THEN Mapped(q) \union {v} ELSE Mapped(q)
    BY <1>4, <1>6, <1>11, MemoryAssumption DEF Mapped
  <2> QED BY <1>1, <1>2, <1>3, <1>7, <2>1 DEF FramesInv, CallOK
<1> QED BY <1>12, <1>13, <1>14, <1>15, Zenon DEF FramesInv

LEMMA LinkFailsFrames == ASSUME FramesInv, LinkFails PROVE FramesInv'
<1>1. /\ call.kind = "link" /\ call' \in Calls /\ call'.kind = "unlink" /\ call'.proc = call.proc
      /\ call'.parent = call.parent /\ call'.done = call.done
      /\ call'.batch = call.batch /\ call'.uframes = call.uframes
  BY Zenon DEF LinkFails, Continue, FramesInv, MemTypeOK, Calls, Kinds
<1>2. UNCHANGED <<started, alive, pte, kernel, ustack, used, refcount, data, lost>>
  BY Zenon DEF LinkFails, frameVars, spaceVars
<1>3. (CallOK' => FramesInv') /\ \A q \in Proc : Mapped(q)' = Mapped(q)
  BY <1>1, <1>2, CallStep, Zenon DEF FramesInv, MemTypeOK
<1>4. CallOK'
  BY <1>1, <1>2, <1>3 DEF FramesInv, CallOK
<1> QED BY <1>3, <1>4, Zenon

LEMMA UnlinkPageFrames == ASSUME FramesInv, UnlinkPage PROVE FramesInv'
<1>1. PICK v \in call.done :
        LET c == call.proc IN
        /\ call.kind = "unlink"
        /\ pte' = [pte EXCEPT ![c][v] = NotPresent,
                              ![call.parent][v] = UnlinkedEntry(@, pte[c][v])]
        /\ kernel' = WithoutTable(c, v)
        /\ Release(pte[c][v].frame)
        /\ Continue([call EXCEPT !.done = @ \ {v}])
        /\ UNCHANGED <<started, alive, ustack, data, lost>>
  BY Zenon DEF UnlinkPage
<1>2. PICK c \in Proc \ started, p \in alive : c = call.proc /\ p = call.parent
  BY <1>1, Zenon DEF FramesInv, CallOK
<1>3. p \in Proc /\ p # c
  BY <1>2, Zenon DEF FramesInv, MemTypeOK
<1>4. v \in Page /\ v \in Mapped(c)
  BY <1>1, <1>2, Zenon DEF FramesInv, CallOK, Mapped
<1>5. PICK e \in Entries : e = pte[p][v]
  BY <1>3, <1>4, Zenon DEF FramesInv, MemTypeOK
<1>6. /\ UnlinkedEntry(e, pte[c][v]) \in Entries
      /\ UnlinkedEntry(e, pte[c][v]).frame = e.frame
      /\ UnlinkedEntry(e, pte[c][v]) # e => e.cow
  BY Zenon DEF UnlinkedEntry, Present, Entries
<1>7. \A q \in Proc, u \in Page :
        pte'[q][u] = IF q = c /\ u = v THEN NotPresent
                     ELSE IF q = p /\ u = v THEN UnlinkedEntry(e, pte[c][v]) ELSE pte[q][u]
  BY <1>1, <1>2, <1>3, <1>4, <1>5, Zenon DEF FramesInv, MemTypeOK
<1>8. \A q \in Proc, u \in Page :
        pte'[q][u].frame = IF q = c /\ u = v THEN NoFrame ELSE pte[q][u].frame
  BY <1>5, <1>6, <1>7 DEF NotPresent
<1>9. pte' \in [Proc -> [Page -> Entries]]
  BY <1>1, <1>2, <1>3, <1>4, <1>5, <1>6, Zenon DEF FramesInv, MemTypeOK, NotPresent, Entries
<1>10. EntriesOK'
  BY <1>3, <1>4, <1>5, <1>6, <1>7 DEF FramesInv, EntriesOK, NotPresent
<1>11. /\ call' \in Calls /\ call'.kind = "unlink" /\ call'.proc = c /\ call'.parent = p
       /\ call'.done = call.done \ {v} /\ call'.batch = call.batch /\ call'.uframes = call.uframes
  BY <1>1, <1>2, Zenon DEF FramesInv, MemTypeOK, Calls, Continue
<1>12. /\ CallOK' => FramesInv'
       /\ \A q \in Proc : Mapped(q)' = IF q = c THEN Mapped(q) \ {v} ELSE Mapped(q)
  BY <1>1, <1>2, <1>4, <1>8, <1>9, <1>10, <1>11, UnmapStep, Zenon
<1>13. CallOK'
  BY <1>1, <1>2, <1>11, <1>12, Zenon DEF FramesInv, CallOK
<1> QED BY <1>12, <1>13, Zenon

LEMMA StartDuplicateFrames == ASSUME FramesInv, StartDuplicate PROVE FramesInv'
<1>1. /\ call.kind = "link" /\ Return
      /\ kernel' = kernel \union ({call.proc} \X KernelStack)
      /\ started' = started \union {call.proc} /\ alive' = alive \union {call.proc}
      /\ ustack' = [ustack EXCEPT ![call.proc] = FALSE]
      /\ UNCHANGED <<pte, used, refcount, data, lost>>
  BY Zenon DEF StartDuplicate, frameVars
<1>2. call.proc \in Proc \ started /\ call.uframes = {}
  BY <1>1, Zenon DEF FramesInv, CallOK
<1>3. call' \in Calls /\ call'.uframes = {}
  BY <1>1, ReturnCall, Zenon
<1>4. kernel' \subseteq Proc \X KernelSlot
  BY <1>1, <1>2, Zenon DEF FramesInv, MemTypeOK, KernelSlot
<1>5. (CallOK' => FramesInv') /\ \A q \in Proc : Mapped(q)' = Mapped(q)
  BY <1>1, <1>2, <1>3, <1>4, CallStep, Zenon DEF FramesInv, MemTypeOK
<1>6. \A q \in Proc \ started' : Mapped(q)' = {}
  BY <1>1, <1>5, Zenon DEF FramesInv, CallOK
<1> QED BY <1>1, <1>5, <1>6, ReturnCall, Zenon

LEMMA MmapFrames ==
  ASSUME FramesInv, NEW p \in alive, NEW w \in BOOLEAN, NEW vs \in SUBSET Page,
         Begin(MmapCall(p, w, vs)), UNCHANGED <<spaceVars, frameVars, lost>>
  PROVE  FramesInv'
<1>1. p \in Proc /\ call = Idle /\ call.uframes = {}
  BY Zenon DEF FramesInv, MemTypeOK, Begin, Idle
<1>2. /\ call' \in Calls /\ call'.kind = "mmap" /\ call'.proc = p
      /\ call'.batch = {} /\ call'.uframes = {} /\ call'.done = {}
  BY <1>1, Zenon DEF Begin, MmapCall, Idle, Calls, Kinds
<1>3. UNCHANGED <<started, alive, pte, kernel, ustack, used, refcount, data, lost>>
  BY Zenon DEF spaceVars, frameVars
<1>4. (CallOK' => FramesInv') /\ \A q \in Proc : Mapped(q)' = Mapped(q)
  BY <1>1, <1>2, <1>3, CallStep, Zenon DEF FramesInv, MemTypeOK
<1>5. CallOK'
  BY <1>1, <1>2, <1>3, <1>4, MemoryAssumption, Zenon DEF FramesInv, CallOK, Idle
<1> QED BY <1>4, <1>5, Zenon

LEMMA MmapBatchFrames == ASSUME FramesInv, MmapBatch PROVE FramesInv'
<1>1. PICK vs \in SUBSET call.todo, fs \in SUBSET (Frame \ used) :
        /\ call.kind = "mmap" /\ call.batch = {}
        /\ vs \intersect Mapped(call.proc) = {}
        /\ Cardinality(fs) = Cardinality(vs)
        /\ Alloc(fs)
        /\ Continue([call EXCEPT !.todo = @ \ vs, !.batch = vs, !.uframes = fs])
        /\ UNCHANGED <<spaceVars, data, lost>>
  BY Zenon DEF MmapBatch, Batches, CanAllocBatch
<1>2. /\ call' \in Calls /\ call'.kind = "mmap" /\ call'.proc = call.proc
      /\ call'.batch = vs /\ call'.uframes = fs /\ call'.done = call.done
  BY <1>1, Zenon DEF Continue, FramesInv, MemTypeOK, Calls
<1>3. call.uframes = {}
  <2>1. Cardinality(call.uframes) = 0 /\ call.uframes \subseteq Frame
    BY <1>1, FS_EmptySet, Zenon DEF FramesInv, CallOK, MemTypeOK, Calls
  <2>2. IsFiniteSet(call.uframes)
    BY <2>1, FS_Subset, MemoryAssumption, Zenon
  <2> QED BY <2>1, <2>2, FS_EmptySet, Zenon
<1>4. UNCHANGED <<started, alive, pte, kernel, ustack, data, lost>>
  BY <1>1, Zenon DEF spaceVars
<1>5. RefcountExact' /\ HeldFrames'
  BY <1>1, <1>2, <1>3, <1>4, FramesHeld, Zenon DEF FramesInv
<1>6. refcount' \in [Frame -> 0 .. MaxRef] /\ used' \subseteq Frame
  BY <1>1, MemoryAssumption DEF FramesInv, MemTypeOK, Alloc
<1>7. MemTypeOK'
  BY <1>2, <1>4, <1>6, Zenon DEF FramesInv, MemTypeOK
<1>8. EntriesOK'
  BY <1>4, Zenon DEF FramesInv, EntriesOK
<1>9. \A q \in Proc : Mapped(q)' = Mapped(q)
  BY <1>4, Zenon DEF Mapped
<1>10. call.proc \in Proc
  BY <1>1, Zenon DEF FramesInv, CallOK, MemTypeOK
<1>11. CallOK'
  BY <1>1, <1>2, <1>4, <1>9, <1>10 DEF FramesInv, CallOK
<1> QED BY <1>5, <1>7, <1>8, <1>11, Zenon DEF FramesInv

LEMMA MmapPageFrames == ASSUME FramesInv, MmapPage PROVE FramesInv'
<1>1. PICK v \in call.batch, f \in call.uframes :
        /\ call.kind = "mmap"
        /\ pte' = [pte EXCEPT ![call.proc][v] = Present(f, call.access)]
        /\ data' = [data EXCEPT ![f] = Zero]
        /\ kernel' = WithTable(call.proc, v)
        /\ Continue([call EXCEPT !.batch = @ \ {v}, !.uframes = @ \ {f}, !.done = @ \union {v}])
        /\ UNCHANGED <<started, alive, ustack, used, refcount, lost>>
  BY Zenon DEF MmapPage
<1>2. PICK p \in Proc : p = call.proc /\ p \in alive
  BY <1>1, Zenon DEF FramesInv, CallOK, MemTypeOK
<1>3. v \in Page /\ f \in Frame /\ v \notin Mapped(p) /\ pte[p][v].frame = NoFrame
  BY <1>1, <1>2, Zenon DEF FramesInv, CallOK, MemTypeOK, Calls, Mapped
<1>4. /\ call' \in Calls /\ call'.kind = "mmap" /\ call'.proc = p
      /\ call'.batch = call.batch \ {v} /\ call'.uframes = call.uframes \ {f}
      /\ call'.done = call.done \union {v}
  BY <1>1, <1>2, <1>3, Zenon DEF Continue, FramesInv, MemTypeOK, Calls
<1>5. \A q \in Proc, u \in Page :
        pte'[q][u] = IF q = p /\ u = v THEN Present(f, call.access) ELSE pte[q][u]
  BY <1>1, <1>2, <1>3, Zenon DEF FramesInv, MemTypeOK
<1>6. \A q \in Proc, u \in Page :
        pte'[q][u].frame = IF q = p /\ u = v THEN f ELSE pte[q][u].frame
  BY <1>5 DEF Present
<1>7. MemTypeOK'
  <2>1. pte' \in [Proc -> [Page -> Entries]]
    BY <1>1, <1>2, <1>3, Zenon DEF FramesInv, MemTypeOK, Present, Entries, Calls
  <2>2. data' \in [Frame -> Value]
    BY <1>1, MemoryAssumption, Zenon DEF FramesInv, MemTypeOK
  <2>3. kernel' \subseteq Proc \X KernelSlot
    BY <1>1, <1>2, <1>3 DEF FramesInv, MemTypeOK, WithTable, KernelSlot, Tables
  <2> QED BY <1>1, <1>4, <2>1, <2>2, <2>3, Zenon DEF FramesInv, MemTypeOK
<1>8. EntriesOK'
  BY <1>3, <1>5, MemoryAssumption DEF FramesInv, EntriesOK, Present
<1>9. RefcountExact' /\ HeldFrames'
  BY <1>1, <1>3, <1>4, <1>6, HeldMapped DEF FramesInv
<1>10. Cardinality(call.uframes \ {f}) = Cardinality(call.batch \ {v})
  <2>1. IsFiniteSet(Page)
    BY FS_Interval, MemoryAssumption DEF Page
  <2>2. IsFiniteSet(call.uframes) /\ IsFiniteSet(call.batch)
    BY <2>1, FS_Subset, MemoryAssumption, Zenon DEF FramesInv, MemTypeOK, Calls
  <2>3. /\ Cardinality(call.uframes \ {f}) = Cardinality(call.uframes) - 1
        /\ Cardinality(call.batch \ {v}) = Cardinality(call.batch) - 1
    BY <2>2, FS_RemoveElement, Zenon
  <2> QED BY <2>3, Zenon DEF FramesInv, CallOK
<1>11. CallOK'
  <2>1. \A q \in Proc : Mapped(q)' = IF q = p THEN Mapped(q) \union {v} ELSE Mapped(q)
    BY <1>3, <1>6, MemoryAssumption DEF Mapped
  <2> QED BY <1>1, <1>2, <1>4, <1>10, <2>1, Zenon DEF FramesInv, CallOK, MemTypeOK
<1> QED BY <1>7, <1>8, <1>9, <1>11, Zenon DEF FramesInv

\* A call that returns and changes nothing else.
LEMMA ReturnFrames ==
  ASSUME FramesInv, call.kind \in {"mmap", "undo"}, call.uframes = {}, Return,
         UNCHANGED <<spaceVars, frameVars, lost>>
  PROVE  FramesInv'
<1>1. call' \in Calls /\ call'.uframes = {}
  BY ReturnCall, Zenon
<1>2. UNCHANGED <<started, alive, pte, kernel, ustack, used, refcount, data, lost>>
  BY Zenon DEF spaceVars, frameVars
<1>3. (CallOK' => FramesInv') /\ \A q \in Proc : Mapped(q)' = Mapped(q)
  BY <1>1, <1>2, CallStep, Zenon DEF FramesInv, MemTypeOK
<1>4. \A q \in Proc \ started' : Mapped(q)' = {}
  BY <1>2, <1>3 DEF FramesInv, CallOK, MemTypeOK
<1> QED BY <1>3, <1>4, ReturnCall, Zenon

LEMMA MmapDoneFrames == ASSUME FramesInv, MmapDone PROVE FramesInv'
<1>1. Cardinality(call.uframes) = 0 /\ call.uframes \subseteq Frame
  BY FS_EmptySet, Zenon DEF FramesInv, CallOK, MemTypeOK, Calls, MmapDone
<1>2. IsFiniteSet(call.uframes)
  BY <1>1, FS_Subset, MemoryAssumption, Zenon
<1>3. call.uframes = {}
  BY <1>1, <1>2, FS_EmptySet, Zenon
<1> QED BY <1>3, ReturnFrames, Zenon DEF MmapDone

LEMMA MmapUndoneFrames == ASSUME FramesInv, MmapUndone PROVE FramesInv'
BY ReturnFrames, Zenon DEF MmapUndone, FramesInv, CallOK

LEMMA MmapFailsFrames == ASSUME FramesInv, MmapFails PROVE FramesInv'
<1>1. /\ call.kind = "mmap" /\ call' \in Calls /\ call'.kind = "undo" /\ call'.proc = call.proc
      /\ call'.batch = {} /\ call'.uframes = {} /\ call'.done = call.done
  BY Zenon DEF MmapFails, Continue, FramesInv, MemTypeOK, Calls, Kinds
<1>2. UNCHANGED <<started, alive, pte, kernel, ustack, data, lost>>
  BY Zenon DEF MmapFails, spaceVars
<1>3. /\ used' = used \ call.uframes
      /\ refcount' = [f \in Frame |-> IF f \in call.uframes THEN 0 ELSE refcount[f]]
  BY Zenon DEF MmapFails
<1>4. \A f \in Frame : refcount'[f] = IF f \in call.uframes THEN 0 ELSE refcount[f]
  BY <1>3, Zenon
<1>5. RefcountExact' /\ HeldFrames'
  BY <1>1, <1>2, <1>3, <1>4, HeldDropped, Zenon DEF FramesInv
<1>6. MemTypeOK'
  <2>1. refcount' \in [Frame -> 0 .. MaxRef] /\ used' \subseteq Frame
    BY <1>3, MemoryAssumption DEF FramesInv, MemTypeOK
  <2> QED BY <1>1, <1>2, <2>1, Zenon DEF FramesInv, MemTypeOK
<1>7. EntriesOK'
  BY <1>2, Zenon DEF FramesInv, EntriesOK
<1>8. \A q \in Proc : Mapped(q)' = Mapped(q)
  BY <1>2, Zenon DEF Mapped
<1>9. CallOK'
  <2>1. call.proc \in alive /\ call.proc \in Proc /\ call.done \subseteq Mapped(call.proc)
    BY <1>1, Zenon DEF FramesInv, CallOK, MemTypeOK
  <2>2. \A q \in Proc \ started' : q = call'.proc \/ Mapped(q)' = {}
    BY <1>1, <1>2, <1>8, Zenon DEF FramesInv, CallOK
  <2> QED BY <1>1, <1>2, <1>8, <2>1, <2>2, Zenon DEF CallOK
<1> QED BY <1>5, <1>6, <1>7, <1>9, Zenon DEF FramesInv

\* The calls that unmap the pages they have listed.
LEMMA UnmapListed ==
  ASSUME FramesInv, call.kind \in {"undo", "harvest"}, NEW v \in call.done,
         Unmap(call.proc, v), Continue([call EXCEPT !.done = @ \ {v}]),
         UNCHANGED <<started, alive, ustack>>
  PROVE  FramesInv'
<1>1. call.proc \in Proc /\ v \in Mapped(call.proc)
  BY Zenon DEF FramesInv, CallOK, MemTypeOK
<1>2. /\ call' \in Calls /\ call'.kind = call.kind /\ call'.proc = call.proc
      /\ call'.done = call.done \ {v} /\ call'.batch = call.batch /\ call'.uframes = call.uframes
  BY Zenon DEF FramesInv, MemTypeOK, Calls, Continue
<1>3. /\ CallOK' => FramesInv'
      /\ \A q \in Proc : Mapped(q)' = IF q = call.proc THEN Mapped(q) \ {v} ELSE Mapped(q)
  BY <1>1, <1>2, UnmapFrames, Zenon
<1>4. CallOK'
  BY <1>1, <1>2, <1>3, Zenon DEF FramesInv, CallOK
<1> QED BY <1>3, <1>4, Zenon

LEMMA UndoPageFrames == ASSUME FramesInv, UndoPage PROVE FramesInv'
BY UnmapListed, Zenon DEF UndoPage

LEMMA HarvestStackPageFrames == ASSUME FramesInv, HarvestStackPage PROVE FramesInv'
BY UnmapListed, Zenon DEF HarvestStackPage

=============================================================================
