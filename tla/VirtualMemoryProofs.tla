----------------------- MODULE VirtualMemoryProofs ------------------------
(***************************************************************************)
(* Proofs about VirtualMemory, for any number of processes, pages, frames  *)
(* and references.                                                         *)
(***************************************************************************)
EXTENDS VirtualMemoryCalls

(***************************************************************************)
(* The calls that take one step keep the invariant.                        *)
(***************************************************************************)

LEMMA MunmapFrames ==
  ASSUME FramesInv, NEW p \in Proc, NEW v \in Page, Munmap(p, v)
  PROVE  FramesInv'
<1>1. call = Idle /\ call' = call /\ v \in Mapped(p) /\ Unmap(p, v) /\ UNCHANGED <<started, alive, ustack>>
  BY Zenon DEF Munmap
<1>2. call.kind = "idle"
  BY <1>1, Zenon DEF Idle
<1>3. /\ CallOK' => FramesInv'
      /\ \A q \in Proc : Mapped(q)' = IF q = p THEN Mapped(q) \ {v} ELSE Mapped(q)
  BY <1>1, UnmapFrames, Zenon DEF FramesInv, MemTypeOK
<1>4. CallOK'
  BY <1>1, <1>2, <1>3, Zenon DEF FramesInv, CallOK
<1> QED BY <1>3, <1>4, Zenon

\* Between calls: entries keep their frames, and only bits of entries and contents change.
LEMMA ContentStep ==
  ASSUME FramesInv, call = Idle, pte' \in [Proc -> [Page -> Entries]], EntriesOK',
         \A q \in Proc, u \in Page : pte'[q][u].frame = pte[q][u].frame,
         data' \in [Frame -> Value],
         UNCHANGED <<started, alive, kernel, ustack, used, refcount, lost, call>>
  PROVE  FramesInv'
<1>1. MemTypeOK'
  BY Zenon DEF FramesInv, MemTypeOK
<1>2. RefcountExact' /\ HeldFrames'
  BY FramesKept, Zenon DEF FramesInv
<1>3. \A q \in Proc : Mapped(q)' = Mapped(q)
  BY Zenon DEF Mapped
<1>4. CallOK'
  BY <1>3, Zenon DEF FramesInv, CallOK, Idle
<1> QED BY <1>1, <1>2, <1>4, Zenon DEF FramesInv

LEMMA MctrlFrames ==
  ASSUME FramesInv, NEW p \in Proc, NEW v \in Page, NEW w \in BOOLEAN, Mctrl(p, v, w)
  PROVE  FramesInv'
<1>1. /\ call = Idle /\ pte[p][v].frame # NoFrame
      /\ pte' = [pte EXCEPT ![p][v].write = w]
      /\ UNCHANGED <<started, alive, kernel, ustack, used, refcount, data, lost, call>>
  BY Zenon DEF Mctrl, frameVars, Mapped
<1>2. PICK e \in Entries : e = pte[p][v]
  BY Zenon DEF FramesInv, MemTypeOK
<1>3. [e EXCEPT !.write = w] \in Entries /\ [e EXCEPT !.write = w].frame = e.frame
  BY Zenon DEF Entries
<1>4. \A q \in Proc, u \in Page :
        pte'[q][u] = IF q = p /\ u = v THEN [e EXCEPT !.write = w] ELSE pte[q][u]
  BY <1>1, <1>2, Zenon DEF FramesInv, MemTypeOK
<1>5. pte' \in [Proc -> [Page -> Entries]]
  BY <1>1, <1>2, <1>3, Zenon DEF FramesInv, MemTypeOK
<1>6. \A q \in Proc, u \in Page : pte'[q][u].frame = pte[q][u].frame
  BY <1>2, <1>3, <1>4, Zenon
<1>7. EntriesOK'
  BY <1>1, <1>2, <1>3, <1>4 DEF FramesInv, EntriesOK
<1> QED BY <1>1, <1>5, <1>6, <1>7, ContentStep, Zenon DEF FramesInv, MemTypeOK

LEMMA StoreFrames ==
  ASSUME FramesInv, NEW p \in Proc, NEW v \in Page, NEW x \in Value, Store(p, v, x)
  PROVE  FramesInv'
<1>1. /\ call = Idle /\ data' = [data EXCEPT ![pte[p][v].frame] = x]
      /\ UNCHANGED <<started, alive, pte, kernel, ustack, used, refcount, lost, call>>
  BY Zenon DEF Store, spaceVars
<1>2. data' \in [Frame -> Value]
  BY <1>1, Zenon DEF FramesInv, MemTypeOK
<1> QED BY <1>1, <1>2, ContentStep, Zenon DEF FramesInv, MemTypeOK, EntriesOK

\* TakeOver leaves the frame and clears the mark.
LEMMA TakeOverFrames ==
  ASSUME FramesInv, call = Idle, NEW p \in Proc, NEW v \in Mapped(p), TakeOver(p, v),
         data' \in [Frame -> Value], UNCHANGED <<started, alive, kernel, ustack, lost, call>>
  PROVE  FramesInv'
<1>1. PICK f \in Frame : f = pte[p][v].frame /\ v \in Page
  BY MappedFrame, Zenon DEF FramesInv
<1>2. /\ pte' = [pte EXCEPT ![p][v] = Present(f, TRUE)]
      /\ UNCHANGED <<used, refcount>>
  BY <1>1, Zenon DEF TakeOver
<1>3. \A q \in Proc, u \in Page : pte'[q][u] = IF q = p /\ u = v THEN Present(f, TRUE) ELSE pte[q][u]
  BY <1>1, <1>2, Zenon DEF FramesInv, MemTypeOK
<1>4. pte' \in [Proc -> [Page -> Entries]]
  BY <1>1, <1>2, Zenon DEF FramesInv, MemTypeOK, Present, Entries
<1>5. \A q \in Proc, u \in Page : pte'[q][u].frame = pte[q][u].frame
  BY <1>1, <1>3 DEF Present
<1>6. EntriesOK'
  BY <1>1, <1>3, MemoryAssumption DEF FramesInv, EntriesOK, Present
<1> QED BY <1>2, <1>4, <1>5, <1>6, ContentStep, Zenon

LEMMA CopyFrameFrames ==
  ASSUME FramesInv, call = Idle, NEW p \in Proc, NEW v \in Mapped(p), NEW x \in Value,
         CopyFrame(p, v, x), UNCHANGED <<started, alive, kernel, ustack, lost, call>>
  PROVE  FramesInv'
<1>1. PICK old \in Frame : /\ old = pte[p][v].frame /\ v \in Page /\ old \in used
                           /\ refcount[old] \in 1 .. MaxRef
  BY MappedFrame, Zenon DEF FramesInv
<1>2. refcount[old] > 1
  BY <1>1, Zenon DEF CopyFrame
<1>3. PICK f \in Frame \ used :
        /\ pte' = [pte EXCEPT ![p][v] = Present(f, TRUE)]
        /\ used' = used \union {f}
        /\ refcount' = [refcount EXCEPT ![f] = 1, ![old] = @ - 1]
        /\ data' = [data EXCEPT ![f] = x]
  BY <1>1, Zenon DEF CopyFrame
<1>4. \A h \in Frame :
        refcount'[h] = IF h = f THEN 1 ELSE IF h = old THEN refcount[old] - 1 ELSE refcount[h]
  <2>1. f # old /\ refcount \in [Frame -> 0 .. MaxRef]
    BY <1>1, Zenon DEF FramesInv, MemTypeOK
  <2> QED BY <1>3, <2>1, Zenon
<1>5. \A q \in Proc, u \in Page : pte'[q][u] = IF q = p /\ u = v THEN Present(f, TRUE) ELSE pte[q][u]
  BY <1>1, <1>3, Zenon DEF FramesInv, MemTypeOK
<1>6. \A q \in Proc, u \in Page :
        pte'[q][u].frame = IF q = p /\ u = v THEN f ELSE pte[q][u].frame
  BY <1>5 DEF Present
<1>7. RefcountExact' /\ HeldFrames'
  <2>1. used' = used \union {f} /\ lost' = lost /\ call'.uframes = call.uframes
    BY <1>3, Zenon
  <2>2. MemTypeOK /\ RefcountExact /\ HeldFrames
    BY Zenon DEF FramesInv
  <2> QED BY <1>1, <1>2, <1>4, <1>6, <2>1, <2>2, FrameMoved, Zenon
<1>8. MemTypeOK'
  <2>1. pte' \in [Proc -> [Page -> Entries]]
    BY <1>1, <1>3, Zenon DEF FramesInv, MemTypeOK, Present, Entries
  <2>2. refcount' \in [Frame -> 0 .. MaxRef] /\ used' \subseteq Frame
    BY <1>1, <1>2, <1>3, <1>4, MemoryAssumption DEF FramesInv, MemTypeOK
  <2>3. data' \in [Frame -> Value]
    BY <1>3, Zenon DEF FramesInv, MemTypeOK
  <2> QED BY <2>1, <2>2, <2>3, Zenon DEF FramesInv, MemTypeOK
<1>9. EntriesOK'
  BY <1>5, MemoryAssumption DEF FramesInv, EntriesOK, Present
<1>10. \A q \in Proc : Mapped(q)' = Mapped(q)
  BY <1>1, <1>6, MemoryAssumption, Zenon DEF Mapped
<1>11. CallOK'
  BY <1>10, Zenon DEF FramesInv, CallOK, Idle
<1> QED BY <1>7, <1>8, <1>9, <1>11, Zenon DEF FramesInv

LEMMA CowFaultFrames ==
  ASSUME FramesInv, NEW p \in Proc, NEW v \in Page, CowFault(p, v)
  PROVE  FramesInv'
<1>1. call = Idle /\ v \in Mapped(p) /\ UNCHANGED <<started, alive, kernel, ustack, lost, call>>
  BY Zenon DEF CowFault
<1>2. data \in [Frame -> Value] /\ data[pte[p][v].frame] \in Value
  BY <1>1, MappedFrame, Zenon DEF FramesInv, MemTypeOK
<1>3. CASE TakeOver(p, v) /\ UNCHANGED data
  BY <1>1, <1>2, <1>3, TakeOverFrames, Zenon
<1>4. CASE CopyFrame(p, v, data[pte[p][v].frame])
  BY <1>1, <1>2, <1>4, CopyFrameFrames, Zenon
<1> QED BY <1>3, <1>4, Zenon DEF CowFault

LEMMA WriteFrameFrames ==
  ASSUME FramesInv, call = Idle, NEW p \in Proc, NEW v \in Mapped(p), NEW x \in Value,
         WriteFrame(p, v, x), UNCHANGED <<started, alive, kernel, ustack, lost, call>>
  PROVE  FramesInv'
<1>1. CASE data' = [data EXCEPT ![pte[p][v].frame] = x] /\ UNCHANGED <<pte, used, refcount>>
  BY <1>1, ContentStep, Zenon DEF FramesInv, MemTypeOK, EntriesOK
<1>2. CASE TakeOver(p, v) /\ data' = [data EXCEPT ![pte[p][v].frame] = x]
  BY <1>2, TakeOverFrames, Zenon DEF FramesInv, MemTypeOK
<1>3. CASE CopyFrame(p, v, x)
  BY <1>3, CopyFrameFrames, Zenon
<1> QED BY <1>1, <1>2, <1>3, Zenon DEF WriteFrame

LEMMA CopyToUserFrames ==
  ASSUME FramesInv, NEW p \in Proc, NEW v \in Page, NEW x \in Value, CopyToUser(p, v, x)
  PROVE  FramesInv'
BY WriteFrameFrames, Zenon DEF CopyToUser

LEMMA CopyUserToUserFrames ==
  ASSUME FramesInv, NEW s \in Proc, NEW u \in Page, NEW p \in Proc, NEW v \in Page,
         CopyUserToUser(s, u, p, v)
  PROVE  FramesInv'
<1>1. u \in Mapped(s) /\ v \in Mapped(p)
  BY Zenon DEF CopyUserToUser
<1>2. data[pte[s][u].frame] \in Value
  BY <1>1, MappedFrame, Zenon DEF FramesInv, MemTypeOK
<1> QED BY <1>1, <1>2, WriteFrameFrames, Zenon DEF CopyUserToUser

LEMMA ExitFrames ==
  ASSUME FramesInv, NEW p \in Proc, Exit(p)
  PROVE  FramesInv'
<1>1. /\ call = Idle /\ call' = call /\ alive' = alive \ {p}
      /\ UNCHANGED <<started, pte, kernel, ustack, used, refcount, data, lost>>
  BY Zenon DEF Exit, frameVars
<1>2. (CallOK' => FramesInv') /\ \A q \in Proc : Mapped(q)' = Mapped(q)
  BY <1>1, CallStep, Zenon DEF FramesInv, MemTypeOK
<1>3. CallOK'
  BY <1>1, <1>2, Zenon DEF FramesInv, CallOK, Idle
<1> QED BY <1>2, <1>3, Zenon

LEMMA HarvestZombieFrames ==
  ASSUME FramesInv, NEW p \in Proc, HarvestZombie(p)
  PROVE  FramesInv'
<1>1. /\ call = Idle /\ call' \in Calls /\ call'.kind = "harvest" /\ call'.proc = p
      /\ call'.batch = {} /\ call'.uframes = {} /\ call'.done \subseteq Mapped(p)
  <2> DEFINE d == IF ustack[p] THEN UserStack \intersect Mapped(p) ELSE {}
  <2>1. d \subseteq Page /\ d \subseteq Mapped(p)
    BY Zenon DEF Mapped
  <2> HIDE DEF d
  <2>2. call = Idle /\ call' = [Idle EXCEPT !.kind = "harvest", !.proc = p, !.parent = p, !.done = d]
    BY Zenon DEF HarvestZombie, Begin, d
  <2> QED BY <2>1, <2>2, Zenon DEF Idle, Calls, Kinds
<1>2. UNCHANGED <<started, alive, pte, kernel, ustack, used, refcount, data, lost>> /\ p \notin alive
  BY Zenon DEF HarvestZombie, frameVars, spaceVars
<1>3. call'.uframes = call.uframes
  BY <1>1, Zenon DEF Idle
<1>4. (CallOK' => FramesInv') /\ \A q \in Proc : Mapped(q)' = Mapped(q)
  BY <1>1, <1>2, <1>3, CallStep, Zenon DEF FramesInv, MemTypeOK
<1>5. CallOK'
  <2>1. call.proc \notin Proc
    BY <1>1, MemoryAssumption, Zenon DEF Idle
  <2>2. \A q \in Proc \ started' : Mapped(q)' = {}
    BY <1>2, <1>4, <2>1, Zenon DEF FramesInv, CallOK
  <2>3. (call.done \subseteq Mapped(call.proc))'
    BY <1>1, <1>4, Zenon
  <2> QED BY <1>1, <1>2, <2>2, <2>3, Zenon DEF CallOK
<1> QED BY <1>4, <1>5, Zenon

(***************************************************************************)
(* The theorems.                                                           *)
(***************************************************************************)

LEMMA FramesInvInit == Init => FramesInv
<1> SUFFICES ASSUME Init PROVE FramesInv
  BY Zenon
<1>1. call = Idle /\ Idle \in Calls /\ Idle.uframes = {} /\ Idle.batch = {} /\ Idle.kind = "idle" /\ Idle.proc = NoProc
  BY Zenon DEF Init, Idle, Calls, Kinds
<1>2. \A p \in Proc, v \in Page : pte[p][v] = NotPresent
  BY Zenon DEF Init, NoSpace
<1>3. MemTypeOK
  <2>1. pte \in [Proc -> [Page -> Entries]]
    BY Zenon DEF Init, NoSpace, NotPresent, Entries
  <2> QED BY <1>1, <2>1, MemoryAssumption DEF Init, MemTypeOK
<1>4. EntriesOK
  BY <1>2 DEF EntriesOK, NotPresent
<1>5. RefcountExact
  <2>1. \A f \in Frame : Users(f) = {}
    BY <1>2, MemoryAssumption DEF Users, NotPresent
  <2>2. \A f \in Frame : Held(f) = 0
    BY <1>1, Zenon DEF Held
  <2> QED BY <2>1, <2>2, FS_EmptySet DEF Init, RefcountExact
<1>6. HeldFrames
  BY <1>1, Zenon DEF HeldFrames
<1>7. CallOK
  BY <1>1, <1>2 DEF CallOK, Mapped, NotPresent
<1> QED BY <1>3, <1>4, <1>5, <1>6, <1>7, Zenon DEF FramesInv

LEMMA FramesInvStutter == ASSUME FramesInv, UNCHANGED vars PROVE FramesInv'
<1>1. UNCHANGED <<started, alive, pte, kernel, ustack, used, refcount, data, call, lost>>
  BY Zenon DEF vars, spaceVars, frameVars
<1>2. (CallOK' => FramesInv') /\ \A q \in Proc : Mapped(q)' = Mapped(q)
  BY <1>1, CallStep, Zenon DEF FramesInv, MemTypeOK
<1>3. CallOK'
  BY <1>1, Zenon DEF FramesInv, CallOK, Mapped
<1> QED BY <1>2, <1>3, Zenon

LEMMA FramesInvStep == FramesInv /\ [Next]_vars => FramesInv'
<1> SUFFICES ASSUME FramesInv, [Next]_vars PROVE FramesInv'
  BY Zenon
<1>1. CASE \E p \in Proc : CreateProcess(p) \/ Exit(p) \/ HarvestZombie(p)
  BY <1>1, CreateProcessFrames, ExitFrames, HarvestZombieFrames, Zenon
<1>2. CASE NoProcessLeft
  BY <1>2, FramesInvStutter, Zenon DEF NoProcessLeft
<1>3. CASE LoadSegment \/ ForgeContext \/ MapInitialStack \/ StartProcess \/ CreateProcessFails
  BY <1>3, LoadSegmentFrames, ForgeContextFrames, MapInitialStackFrames, StartProcessFrames,
     CreateProcessFailsFrames, Zenon
<1>4. CASE \E p, c \in Proc : DuplicateProcess(p, c)
  BY <1>4, DuplicateProcessFrames, Zenon
<1>5. CASE \/ LinkPage \/ LinkFails \/ UnlinkPage
           \/ DuplicateFails \/ StartDuplicate \/ DuplicateForgeFails
  BY <1>5, LinkPageFrames, LinkFailsFrames, UnlinkPageFrames, DuplicateFailsFrames,
     StartDuplicateFrames, DuplicateForgeFailsFrames, Zenon
<1>6. CASE \E p \in Proc, w \in MapAccess, first, last \in Page : first <= last /\ Mmap(p, w, first, last)
  <2>1. PICK p \in Proc, w \in MapAccess, first \in Page, last \in Page : Mmap(p, w, first, last)
    BY <1>6, Zenon
  <2>2. first .. last \subseteq Page /\ w \in BOOLEAN
    BY MemoryAssumption DEF Page
  <2> QED BY <2>1, <2>2, MmapFrames, Zenon DEF Mmap
<1>7. CASE MmapBatch \/ MmapPage \/ MmapDone \/ MmapFails \/ UndoPage \/ MmapUndone
  BY <1>7, MmapBatchFrames, MmapPageFrames, MmapDoneFrames, MmapFailsFrames, UndoPageFrames,
     MmapUndoneFrames, Zenon
<1>8. ASSUME NEW p \in Proc, NEW v \in Page, StackFault(p, v) PROVE FramesInv'
  BY <1>8, MmapFrames, Zenon DEF StackFault
<1>9. ASSUME NEW p \in Proc, NEW v \in Page, Munmap(p, v) \/ CowFault(p, v) PROVE FramesInv'
  BY <1>9, MunmapFrames, CowFaultFrames, Zenon
<1>10. ASSUME NEW p \in Proc, NEW v \in Page, NEW w \in CtrlAccess, Mctrl(p, v, w) PROVE FramesInv'
  BY <1>10, MctrlFrames, MemoryAssumption, Zenon
<1>11. ASSUME NEW p \in Proc, NEW v \in Page, NEW x \in Value, Store(p, v, x) \/ CopyToUser(p, v, x)
       PROVE  FramesInv'
  BY <1>11, StoreFrames, CopyToUserFrames, Zenon
<1>12. CASE \E s, p \in Proc, u, v \in Page : CopyUserToUser(s, u, p, v)
  BY <1>12, CopyUserToUserFrames, Zenon
<1>13. CASE HarvestStackPage \/ DropZombie
  BY <1>13, HarvestStackPageFrames, DropZombieFrames, Zenon
<1>14. CASE UNCHANGED vars
  BY <1>14, FramesInvStutter, Zenon
<1> QED BY <1>1, <1>2, <1>3, <1>4, <1>5, <1>6, <1>7, <1>8, <1>9, <1>10, <1>11, <1>12, <1>13, <1>14, Zenon DEF Next

LEMMA FramesInvariant == Spec => []FramesInv
BY FramesInvInit, FramesInvStep, PTL DEF Spec

\* Every variable keeps its type; the reference count of a frame stays within a byte.
THEOREM MemTypeCorrect == Spec => []MemTypeOK
<1>1. FramesInv => MemTypeOK
  BY Zenon DEF FramesInv
<1> QED BY <1>1, FramesInvariant, PTL

\* Whatever is mapped, shared, copied, rolled back or dropped, a frame has as many references
\* as entries map it, mmap() holds it or dropped tables had it, and is in use while it has one.
THEOREM RefcountsExact == Spec => []RefcountExact
<1>1. FramesInv => RefcountExact
  BY Zenon DEF FramesInv
<1> QED BY <1>1, FramesInvariant, PTL
=============================================================================
