----------------------- MODULE VirtualMemoryLemmas ------------------------
(***************************************************************************)
(* Lemmas for the proofs about VirtualMemory: the inductive invariant, and *)
(* how the ways in which steps change frames keep the counts exact.        *)
(***************************************************************************)
EXTENDS VirtualMemory, TLAPS, FiniteSetTheorems

(***************************************************************************)
(* The inductive invariant.                                                *)
(***************************************************************************)

EntriesOK ==
  \A p \in Proc, v \in Page : pte[p][v].frame = NoFrame => ~pte[p][v].write /\ ~pte[p][v].cow

HeldFrames == \A f \in call.uframes : Users(f) = {} /\ refcount[f] = 1

\* Who the call in progress is for, and which of its pages are mapped.
CallOK ==
  /\ call.kind = "idle" => call.proc = NoProc
  /\ call.kind \in {"load", "stack", "link", "unlink"} => call.proc \in Proc \ started
  /\ call.kind \in {"link", "unlink"} => call.parent \in alive
  /\ call.kind \in {"mmap", "undo"} => call.proc \in alive
  /\ call.kind = "harvest" => call.proc \in Proc \ alive
  /\ call.kind # "mmap" => call.uframes = {}
  /\ call.kind \in {"load", "stack", "link"} => call.todo \intersect Mapped(call.proc) = {}
  /\ call.kind = "load" => call.todo \union Mapped(call.proc) \subseteq Loaded
  /\ call.kind = "link" => call.todo \subseteq Mapped(call.parent)
  /\ call.kind = "mmap" => call.batch \intersect Mapped(call.proc) = {}
  /\ call.kind \in {"link", "unlink", "mmap", "undo", "harvest"} => call.done \subseteq Mapped(call.proc)
  /\ Cardinality(call.uframes) = Cardinality(call.batch)
  /\ \A p \in Proc \ started : p = call.proc \/ Mapped(p) = {}

FramesInv == MemTypeOK /\ EntriesOK /\ RefcountExact /\ HeldFrames /\ CallOK

(***************************************************************************)
(* Counting the users of a frame.                                          *)
(***************************************************************************)

LEMMA UsersFinite ==
  ASSUME NEW f PROVE IsFiniteSet(Users(f)) /\ Cardinality(Users(f)) \in Nat
<1>1. IsFiniteSet(Page)
  BY FS_Interval, MemoryAssumption DEF Page
<1>2. IsFiniteSet(Proc \X Page)
  BY <1>1, FS_Product, MemoryAssumption, Zenon
<1>3. Users(f) \subseteq Proc \X Page
  BY Zenon DEF Users
<1> QED BY <1>2, <1>3, FS_Subset, FS_CardinalityType, Zenon

\* One entry changes: its old frame loses a user and its new frame gains one.
LEMMA OneEntryChanges ==
  ASSUME NEW p \in Proc, NEW v \in Page, NEW f \in Frame \union {NoFrame},
         pte[p][v].frame # f,
         \A q \in Proc, u \in Page :
           pte'[q][u].frame = IF q = p /\ u = v THEN f ELSE pte[q][u].frame,
         NEW h \in Frame
  PROVE  /\ h = f => /\ Users(h)' = Users(h) \union {<<p, v>>}
                     /\ Cardinality(Users(h)') = Cardinality(Users(h)) + 1
         /\ h = pte[p][v].frame => /\ Users(h)' = Users(h) \ {<<p, v>>}
                                   /\ Cardinality(Users(h)') = Cardinality(Users(h)) - 1
         /\ h # f /\ h # pte[p][v].frame => Users(h)' = Users(h)
<1>1. ASSUME NEW x \in Proc \X Page
      PROVE  x \in Users(h)' <=> IF x = <<p, v>> THEN h = f ELSE x \in Users(h)
  BY DEF Users
<1>2. <<p, v>> \in Users(h) <=> h = pte[p][v].frame
  BY Zenon DEF Users
<1>3. Users(h) \subseteq Proc \X Page /\ Users(h)' \subseteq Proc \X Page
  BY Zenon DEF Users
<1>4. CASE h = f
  <2>1. Users(h)' = Users(h) \union {<<p, v>>}
    BY <1>1, <1>3, <1>4, Zenon
  <2>2. Cardinality(Users(h) \union {<<p, v>>}) = Cardinality(Users(h)) + 1
    BY <1>2, <1>4, UsersFinite, FS_AddElement, Zenon
  <2> QED BY <2>1, <2>2, <1>4, Zenon
<1>5. CASE h = pte[p][v].frame
  <2>1. Users(h)' = Users(h) \ {<<p, v>>}
    BY <1>1, <1>3, <1>5, Zenon
  <2>2. Cardinality(Users(h) \ {<<p, v>>}) = Cardinality(Users(h)) - 1
    BY <1>2, <1>5, UsersFinite, FS_RemoveElement, Zenon
  <2> QED BY <2>1, <2>2, <1>5, Zenon
<1>6. CASE h # f /\ h # pte[p][v].frame
  BY <1>1, <1>2, <1>3, <1>6, Zenon
<1> QED BY <1>4, <1>5, <1>6, Zenon

\* The entries keep their frames.
LEMMA NoEntryChanges ==
  ASSUME \A q \in Proc, u \in Page : pte'[q][u].frame = pte[q][u].frame,
         NEW h
  PROVE  Users(h)' = Users(h)
BY Zenon DEF Users

LEMMA UnusedFrame ==
  ASSUME MemTypeOK, RefcountExact, NEW f \in Frame \ used
  PROVE  refcount[f] = 0 /\ Users(f) = {} /\ f \notin call.uframes /\ lost[f] = 0
<1>1. refcount[f] = 0 /\ refcount[f] = Cardinality(Users(f)) + Held(f) + lost[f]
  BY DEF MemTypeOK, RefcountExact
<1>2. Held(f) \in Nat /\ lost[f] \in Nat /\ Cardinality(Users(f)) \in Nat
  BY UsersFinite, Zenon DEF MemTypeOK, Held
<1>3. Held(f) = 0 /\ lost[f] = 0 /\ Cardinality(Users(f)) = 0
  BY <1>1, <1>2
<1> QED BY <1>1, <1>3, UsersFinite, FS_EmptySet DEF Held

LEMMA MappedFrame ==
  ASSUME MemTypeOK, RefcountExact, HeldFrames, NEW p \in Proc, NEW v \in Mapped(p)
  PROVE  LET f == pte[p][v].frame IN
         /\ v \in Page /\ f \in Frame /\ f \in used /\ refcount[f] \in 1 .. MaxRef
         /\ <<p, v>> \in Users(f) /\ f \notin call.uframes
<1> DEFINE f == pte[p][v].frame
<1>1. v \in Page /\ f \in Frame /\ <<p, v>> \in Users(f)
  BY DEF Mapped, MemTypeOK, Entries, Users
<1>2. f \notin call.uframes
  BY <1>1, Zenon DEF HeldFrames
<1>3. f \in used
  BY <1>1, UnusedFrame, Zenon
<1>4. refcount[f] \in 1 .. MaxRef
  BY <1>1, <1>3 DEF RefcountExact, MemTypeOK
<1> QED BY <1>1, <1>2, <1>3, <1>4, Zenon

(***************************************************************************)
(* The ways in which steps change frames.                                  *)
(***************************************************************************)

\* The entries keep their frames and no reference is taken or dropped.
LEMMA FramesKept ==
  ASSUME RefcountExact, HeldFrames,
         \A q \in Proc, u \in Page : pte'[q][u].frame = pte[q][u].frame,
         refcount' = refcount, used' = used, lost' = lost, call'.uframes = call.uframes
  PROVE  RefcountExact' /\ HeldFrames'
<1>1. \A h : Users(h)' = Users(h)
  BY NoEntryChanges, Zenon
<1>2. RefcountExact'
  BY <1>1, Zenon DEF RefcountExact, Held
<1>3. HeldFrames'
  BY <1>1, Zenon DEF HeldFrames
<1> QED BY <1>2, <1>3, Zenon

\* A fresh frame is mapped where there was none.
LEMMA FreshMapped ==
  ASSUME MemTypeOK, RefcountExact, HeldFrames,
         NEW p \in Proc, NEW v \in Page, NEW f \in Frame \ used,
         pte[p][v].frame = NoFrame,
         \A q \in Proc, u \in Page :
           pte'[q][u].frame = IF q = p /\ u = v THEN f ELSE pte[q][u].frame,
         Alloc({f}), lost' = lost, call'.uframes = call.uframes
  PROVE  RefcountExact' /\ HeldFrames'
<1>1. f # NoFrame
  BY MemoryAssumption, Zenon
<1>2. refcount[f] = 0 /\ Users(f) = {} /\ f \notin call.uframes /\ lost[f] = 0
  BY UnusedFrame, Zenon
<1>3. \A h \in Frame : h # f => Users(h)' = Users(h)
  BY <1>1, OneEntryChanges, MemoryAssumption
<1>4. Cardinality(Users(f)') = 1
  <2>1. Cardinality(Users(f)') = Cardinality(Users(f)) + 1
    BY <1>1, OneEntryChanges
  <2>2. Cardinality(Users(f)) = 0
    BY <1>2, FS_EmptySet, Zenon
  <2> QED BY <2>1, <2>2
<1>5. refcount'[f] = 1 /\ \A h \in Frame : h # f => refcount'[h] = refcount[h]
  BY Zenon DEF Alloc
<1>6. used' = used \union {f}
  BY Zenon DEF Alloc
<1>7. RefcountExact'
  <2> SUFFICES ASSUME NEW h \in Frame
      PROVE /\ refcount'[h] = Cardinality(Users(h)') + Held(h)' + lost'[h]
            /\ h \in used' <=> refcount'[h] > 0
    BY Zenon DEF RefcountExact
  <2>1. CASE h = f
    BY <2>1, <1>2, <1>4, <1>5, <1>6 DEF Held
  <2>2. CASE h # f
    BY <2>2, <1>3, <1>5, <1>6, Zenon DEF Held, RefcountExact
  <2> QED BY <2>1, <2>2, Zenon
<1>8. HeldFrames'
  BY <1>2, <1>3, <1>5, Zenon DEF HeldFrames, MemTypeOK, Calls
<1> QED BY <1>7, <1>8, Zenon

\* An entry is cleared and its reference dropped.
LEMMA FrameUnmapped ==
  ASSUME MemTypeOK, RefcountExact, HeldFrames,
         NEW p \in Proc, NEW v \in Mapped(p),
         \A q \in Proc, u \in Page :
           pte'[q][u].frame = IF q = p /\ u = v THEN NoFrame ELSE pte[q][u].frame,
         Release(pte[p][v].frame), lost' = lost, call'.uframes = call.uframes
  PROVE  RefcountExact' /\ HeldFrames'
<1> PICK f \in Frame : f = pte[p][v].frame
  BY MappedFrame, Zenon
<1>1. v \in Page /\ f \in used /\ refcount[f] \in 1 .. MaxRef /\ f \notin call.uframes
  BY MappedFrame, Zenon
<1>2. f # NoFrame
  BY <1>1, MemoryAssumption, Zenon
<1>3. \A h \in Frame : h # f => Users(h)' = Users(h)
  BY <1>1, <1>2, OneEntryChanges, MemoryAssumption
<1>4. Cardinality(Users(f)') = Cardinality(Users(f)) - 1 /\ Cardinality(Users(f)) \in Nat
  BY <1>1, <1>2, OneEntryChanges, UsersFinite
<1>5. refcount'[f] = refcount[f] - 1 /\ \A h \in Frame : h # f => refcount'[h] = refcount[h]
  BY <1>1, Zenon DEF Release, MemTypeOK
<1>6. used' = IF refcount[f] = 1 THEN used \ {f} ELSE used
  BY Zenon DEF Release
<1>7. RefcountExact'
  <2> SUFFICES ASSUME NEW h \in Frame
      PROVE /\ refcount'[h] = Cardinality(Users(h)') + Held(h)' + lost'[h]
            /\ h \in used' <=> refcount'[h] > 0
    BY Zenon DEF RefcountExact
  <2>1. CASE h = f
    <3>1. refcount[f] = Cardinality(Users(f)) + Held(f) + lost[f] /\ lost[f] \in Nat
      BY Zenon DEF RefcountExact, MemTypeOK
    <3>2. Held(f) = 0 /\ Held(f)' = 0
      BY <1>1, Zenon DEF Held
    <3>3. refcount'[f] = Cardinality(Users(f)') + Held(f)' + lost'[f]
      BY <3>1, <3>2, <1>4, <1>5
    <3>4. f \in used' <=> refcount'[f] > 0
      BY <1>1, <1>5, <1>6, MemoryAssumption
    <3> QED BY <2>1, <3>3, <3>4, Zenon
  <2>2. CASE h # f
    BY <2>2, <1>3, <1>5, <1>6, Zenon DEF Held, RefcountExact
  <2> QED BY <2>1, <2>2, Zenon
<1>8. HeldFrames'
  BY <1>1, <1>3, <1>5, Zenon DEF HeldFrames, MemTypeOK, Calls
<1> QED BY <1>7, <1>8, Zenon

\* One more entry maps a frame that is mapped already.
LEMMA FrameShared ==
  ASSUME MemTypeOK, RefcountExact, HeldFrames,
         NEW p \in Proc, NEW v \in Page, NEW f \in Frame,
         f \in used, f \notin call.uframes, pte[p][v].frame = NoFrame,
         \A q \in Proc, u \in Page :
           pte'[q][u].frame = IF q = p /\ u = v THEN f ELSE pte[q][u].frame,
         \A h \in Frame : refcount'[h] = IF h = f THEN refcount[f] + 1 ELSE refcount[h], used' = used,
         lost' = lost, call'.uframes = call.uframes
  PROVE  RefcountExact' /\ HeldFrames'
<1>1. f # NoFrame
  BY MemoryAssumption, Zenon
<1>2. \A h \in Frame : h # f => Users(h)' = Users(h)
  BY <1>1, OneEntryChanges, MemoryAssumption
<1>3. Cardinality(Users(f)') = Cardinality(Users(f)) + 1 /\ Cardinality(Users(f)) \in Nat
  BY <1>1, OneEntryChanges, UsersFinite
<1>4. refcount'[f] = refcount[f] + 1 /\ refcount[f] \in Nat /\ \A h \in Frame : h # f => refcount'[h] = refcount[h]
  BY DEF MemTypeOK
<1>5. RefcountExact'
  <2> SUFFICES ASSUME NEW h \in Frame
      PROVE /\ refcount'[h] = Cardinality(Users(h)') + Held(h)' + lost'[h]
            /\ h \in used' <=> refcount'[h] > 0
    BY Zenon DEF RefcountExact
  <2>1. CASE h = f
    <3>1. refcount[f] = Cardinality(Users(f)) + Held(f) + lost[f] /\ lost[f] \in Nat
      BY Zenon DEF RefcountExact, MemTypeOK
    <3>2. Held(f) = 0 /\ Held(f)' = 0
      BY Zenon DEF Held
    <3> QED BY <2>1, <3>1, <3>2, <1>3, <1>4
  <2>2. CASE h # f
    BY <2>2, <1>2, <1>4, Zenon DEF Held, RefcountExact
  <2> QED BY <2>1, <2>2, Zenon
<1>6. HeldFrames'
  BY <1>2, <1>4, Zenon DEF HeldFrames, MemTypeOK, Calls
<1> QED BY <1>5, <1>6, Zenon

\* An entry moves from a shared frame to a fresh one.
LEMMA FrameMoved ==
  ASSUME MemTypeOK, RefcountExact, HeldFrames,
         NEW p \in Proc, NEW v \in Mapped(p), NEW f \in Frame \ used, NEW old \in Frame,
         old = pte[p][v].frame, refcount[old] > 1,
         \A q \in Proc, u \in Page :
           pte'[q][u].frame = IF q = p /\ u = v THEN f ELSE pte[q][u].frame,
         \A h \in Frame :
           refcount'[h] = IF h = f THEN 1 ELSE IF h = old THEN refcount[old] - 1 ELSE refcount[h],
         used' = used \union {f},
         lost' = lost, call'.uframes = call.uframes
  PROVE  RefcountExact' /\ HeldFrames'
<1>1. v \in Page /\ old \in used /\ refcount[old] \in 1 .. MaxRef /\ old \notin call.uframes
  BY MappedFrame, Zenon
<1>2. refcount[f] = 0 /\ Users(f) = {} /\ f \notin call.uframes /\ lost[f] = 0
  BY UnusedFrame, Zenon
<1>9. f # old
  BY <1>1, Zenon
<1>3. \A h \in Frame : h # f /\ h # old => Users(h)' = Users(h)
  BY <1>1, <1>9, OneEntryChanges
<1>4. Cardinality(Users(f)') = 1
  <2>1. Cardinality(Users(f)') = Cardinality(Users(f)) + 1
    BY <1>1, <1>9, OneEntryChanges
  <2>2. Cardinality(Users(f)) = 0
    BY <1>2, FS_EmptySet, Zenon
  <2> QED BY <2>1, <2>2
<1>5. Cardinality(Users(old)') = Cardinality(Users(old)) - 1 /\ Cardinality(Users(old)) \in Nat
  BY <1>1, <1>9, OneEntryChanges, UsersFinite
<1>6. /\ refcount'[f] = 1 /\ refcount'[old] = refcount[old] - 1
      /\ \A h \in Frame : h # f /\ h # old => refcount'[h] = refcount[h]
  BY <1>9, Zenon DEF MemTypeOK
<1>7. RefcountExact'
  <2> SUFFICES ASSUME NEW h \in Frame
      PROVE /\ refcount'[h] = Cardinality(Users(h)') + Held(h)' + lost'[h]
            /\ h \in used' <=> refcount'[h] > 0
    BY Zenon DEF RefcountExact
  <2>1. CASE h = old
    <3>1. refcount[old] = Cardinality(Users(old)) + Held(old) + lost[old] /\ lost[old] \in Nat
      BY Zenon DEF RefcountExact, MemTypeOK
    <3>2. Held(old) = 0 /\ Held(old)' = 0
      BY <1>1, Zenon DEF Held
    <3>3. refcount'[old] = Cardinality(Users(old)') + Held(old)' + lost'[old]
      BY <3>1, <3>2, <1>5, <1>6
    <3>4. old \in used'
      BY <1>1, Zenon
    <3>5. refcount[old] \in Int
      BY <1>1, MemoryAssumption
    <3>6. refcount'[old] > 0
      BY <1>6, <3>5
    <3> QED BY <2>1, <3>3, <3>4, <3>6, Zenon
  <2>2. CASE h = f
    BY <2>2, <1>2, <1>4, <1>6 DEF Held
  <2>3. CASE h # f /\ h # old
    BY <2>3, <1>3, <1>6, Zenon DEF Held, RefcountExact
  <2> QED BY <2>1, <2>2, <2>3, Zenon
<1>8. HeldFrames'
  BY <1>1, <1>2, <1>3, <1>6, Zenon DEF HeldFrames, MemTypeOK, Calls
<1> QED BY <1>7, <1>8, Zenon

\* mmap() takes frames for a batch of pages.
LEMMA FramesHeld ==
  ASSUME MemTypeOK, RefcountExact, call.uframes = {},
         NEW fs \in SUBSET (Frame \ used), Alloc(fs), pte' = pte, lost' = lost,
         call'.uframes = fs
  PROVE  RefcountExact' /\ HeldFrames'
<1>1. \A h : Users(h)' = Users(h)
  BY NoEntryChanges, Zenon
<1>2. \A f \in fs : refcount[f] = 0 /\ Users(f) = {} /\ lost[f] = 0 /\ refcount'[f] = 1
  BY UnusedFrame, Zenon DEF Alloc
<1>3. RefcountExact'
  <2> SUFFICES ASSUME NEW h \in Frame
      PROVE /\ refcount'[h] = Cardinality(Users(h)') + Held(h)' + lost'[h]
            /\ h \in used' <=> refcount'[h] > 0
    BY Zenon DEF RefcountExact
  <2>1. CASE h \in fs
    <3>1. Cardinality(Users(h)') = 0
      BY <1>1, <1>2, <2>1, FS_EmptySet, Zenon
    <3> QED BY <1>2, <2>1, <3>1 DEF Held, Alloc
  <2>2. CASE h \notin fs
    BY <1>1, <2>2, Zenon DEF Held, Alloc, RefcountExact
  <2> QED BY <2>1, <2>2, Zenon
<1>4. HeldFrames'
  BY <1>1, <1>2, Zenon DEF HeldFrames
<1> QED BY <1>3, <1>4, Zenon

\* mmap() maps one of them.
LEMMA HeldMapped ==
  ASSUME MemTypeOK, RefcountExact, HeldFrames,
         NEW p \in Proc, NEW v \in Page, NEW f \in call.uframes,
         pte[p][v].frame = NoFrame,
         \A q \in Proc, u \in Page :
           pte'[q][u].frame = IF q = p /\ u = v THEN f ELSE pte[q][u].frame,
         refcount' = refcount, used' = used, lost' = lost, call'.uframes = call.uframes \ {f}
  PROVE  RefcountExact' /\ HeldFrames'
<1>1. f \in Frame /\ f # NoFrame /\ refcount[f] = 1
  BY MemoryAssumption DEF MemTypeOK, HeldFrames, Calls
<1>2. \A h \in Frame : h # f => Users(h)' = Users(h)
  BY <1>1, OneEntryChanges, MemoryAssumption
<1>3. Cardinality(Users(f)') = Cardinality(Users(f)) + 1 /\ Cardinality(Users(f)) \in Nat
  BY <1>1, OneEntryChanges, UsersFinite
<1>4. RefcountExact'
  <2> SUFFICES ASSUME NEW h \in Frame
      PROVE /\ refcount'[h] = Cardinality(Users(h)') + Held(h)' + lost'[h]
            /\ h \in used' <=> refcount'[h] > 0
    BY Zenon DEF RefcountExact
  <2>1. CASE h = f
    <3>1. refcount[f] = Cardinality(Users(f)) + Held(f) + lost[f] /\ lost[f] \in Nat
      BY <1>1, Zenon DEF RefcountExact, MemTypeOK
    <3>2. Held(f) = 1 /\ Held(f)' = 0
      BY Zenon DEF Held
    <3>3. refcount'[f] = Cardinality(Users(f)') + Held(f)' + lost'[f]
      BY <3>1, <3>2, <1>1, <1>3
    <3>4. f \in used' <=> refcount'[f] > 0
      BY <1>1, Zenon DEF RefcountExact
    <3> QED BY <2>1, <3>3, <3>4, Zenon
  <2>2. CASE h # f
    BY <2>2, <1>2, Zenon DEF Held, RefcountExact
  <2> QED BY <2>1, <2>2, Zenon
<1>5. HeldFrames'
  BY <1>2, Zenon DEF HeldFrames, MemTypeOK, Calls
<1> QED BY <1>4, <1>5, Zenon

\* mmap() gives back the ones it has not mapped.
LEMMA HeldDropped ==
  ASSUME MemTypeOK, RefcountExact, HeldFrames, pte' = pte, lost' = lost,
         used' = used \ call.uframes,
         \A f \in Frame : refcount'[f] = IF f \in call.uframes THEN 0 ELSE refcount[f],
         call'.uframes = {}
  PROVE  RefcountExact' /\ HeldFrames'
<1>1. \A h : Users(h)' = Users(h)
  BY NoEntryChanges, Zenon
<1>2. RefcountExact'
  <2> SUFFICES ASSUME NEW h \in Frame
      PROVE /\ refcount'[h] = Cardinality(Users(h)') + Held(h)' + lost'[h]
            /\ h \in used' <=> refcount'[h] > 0
    BY Zenon DEF RefcountExact
  <2>1. CASE h \in call.uframes
    <3>1. refcount[h] = 1 /\ Users(h) = {} /\ Cardinality(Users(h)) = 0
      BY <2>1, FS_EmptySet, Zenon DEF HeldFrames
    <3>2. refcount[h] = Cardinality(Users(h)) + 1 + lost[h] /\ lost[h] \in Nat
      BY <2>1, Zenon DEF RefcountExact, Held, MemTypeOK
    <3>3. lost[h] = 0
      BY <3>1, <3>2
    <3> QED BY <1>1, <2>1, <3>1, <3>3 DEF Held
  <2>2. CASE h \notin call.uframes
    BY <1>1, <2>2, Zenon DEF Held, RefcountExact
  <2> QED BY <2>1, <2>2, Zenon
<1>3. HeldFrames'
  BY Zenon DEF HeldFrames
<1> QED BY <1>2, <1>3, Zenon

\* Dropping an address space loses the references of its entries.
LEMMA SpaceDropped ==
  ASSUME MemTypeOK, RefcountExact, HeldFrames, NEW p \in Proc, DropSpace(p),
         call'.uframes = call.uframes
  PROVE  RefcountExact' /\ HeldFrames' /\ lost' \in [Frame -> Nat]
<1>1. \A q \in Proc, u \in Page : pte'[q][u].frame = IF q = p THEN NoFrame ELSE pte[q][u].frame
  BY Zenon DEF DropSpace, MemTypeOK, NoSpace, NotPresent
<1>2. ASSUME NEW h \in Frame
      PROVE  /\ Cardinality(Users(h)') + lost'[h] = Cardinality(Users(h)) + lost[h]
             /\ lost'[h] \in Nat
             /\ Users(h)' \subseteq Users(h)
  <2> DEFINE D == {x \in Users(h) : x[1] = p}
             R == {x \in Users(h) : x[1] # p}
  <2>1. Users(h)' = R
    BY <1>1, MemoryAssumption DEF Users
  <2>2. IsFiniteSet(D) /\ IsFiniteSet(R) /\ D \union R = Users(h) /\ D \intersect R = {}
    BY UsersFinite, FS_Subset, Zenon
  <2>3. Cardinality(D \union R) = Cardinality(D) + Cardinality(R) - Cardinality(D \intersect R)
    BY <2>2, FS_Union, Zenon
  <2>4. Cardinality(D) \in Nat /\ Cardinality(R) \in Nat /\ Cardinality(D \intersect R) = 0
    BY <2>2, FS_CardinalityType, FS_EmptySet, Zenon
  <2>5. lost'[h] = lost[h] + Cardinality(D) /\ lost[h] \in Nat
    BY Zenon DEF DropSpace, MemTypeOK
  <2> HIDE DEF D, R
  <2>6. Cardinality(Users(h)) = Cardinality(D) + Cardinality(R)
    <3>1. Cardinality(D \union R) = Cardinality(D) + Cardinality(R)
      BY <2>3, <2>4
    <3>2. D \union R = Users(h)
      BY <2>2, Zenon
    <3> QED BY <3>1, <3>2, Zenon
  <2>7. Cardinality(Users(h)') + lost'[h] = Cardinality(Users(h)) + lost[h]
    BY <2>1, <2>4, <2>5, <2>6
  <2>8. lost'[h] \in Nat
    BY <2>4, <2>5
  <2>9. Users(h)' \subseteq Users(h)
    BY <2>1, <2>2, Zenon
  <2> QED BY <2>7, <2>8, <2>9, Zenon
<1>3. refcount' = refcount /\ used' = used
  BY Zenon DEF DropSpace, frameVars
<1>4. RefcountExact'
  <2> SUFFICES ASSUME NEW h \in Frame
      PROVE /\ refcount'[h] = Cardinality(Users(h)') + Held(h)' + lost'[h]
            /\ h \in used' <=> refcount'[h] > 0
    BY Zenon DEF RefcountExact
  <2>1. Cardinality(Users(h)') \in Nat /\ lost'[h] \in Nat /\ lost[h] \in Nat /\ Cardinality(Users(h)) \in Nat
    BY <1>2, UsersFinite, FS_Subset, FS_CardinalityType, Zenon DEF MemTypeOK
  <2>2. Held(h)' = Held(h) /\ Held(h) \in {0, 1}
    BY Zenon DEF Held
  <2>3. refcount[h] = Cardinality(Users(h)) + Held(h) + lost[h]
    BY Zenon DEF RefcountExact
  <2>4. refcount[h] = Cardinality(Users(h)') + Held(h)' + lost'[h]
    BY <1>2, <2>1, <2>2, <2>3
  <2> QED BY <1>3, <2>4, Zenon DEF RefcountExact
<1>5. HeldFrames'
  BY <1>2, <1>3, Zenon DEF HeldFrames, MemTypeOK, Calls
<1>6. lost' \in [Frame -> Nat]
  BY <1>2, Zenon DEF DropSpace
<1> QED BY <1>4, <1>5, <1>6, Zenon

(***************************************************************************)
(* Steps in terms of the call they belong to.                              *)
(***************************************************************************)

\* Steps that change the processes, their kernel frames and the call only.
LEMMA CallStep ==
  ASSUME FramesInv, UNCHANGED <<pte, used, refcount, data, lost>>,
         started' \subseteq Proc, alive' \subseteq started', ustack' \in [Proc -> BOOLEAN],
         kernel' \subseteq Proc \X KernelSlot, call' \in Calls, call'.uframes = call.uframes
  PROVE  /\ CallOK' => FramesInv'
         /\ \A q \in Proc : Mapped(q)' = Mapped(q)
<1>1. MemTypeOK'
  BY Zenon DEF FramesInv, MemTypeOK
<1>2. EntriesOK'
  BY Zenon DEF FramesInv, EntriesOK
<1>3. RefcountExact' /\ HeldFrames'
  BY FramesKept, Zenon DEF FramesInv
<1>4. \A q \in Proc : Mapped(q)' = Mapped(q)
  BY Zenon DEF Mapped
<1> QED BY <1>1, <1>2, <1>3, <1>4, Zenon DEF FramesInv

\* Return leaves no call.
LEMMA ReturnCall ==
  ASSUME FramesInv, Return
  PROVE  /\ call' \in Calls /\ call'.uframes = {}
         /\ (\A p \in Proc \ started' : Mapped(p)' = {}) => CallOK'
<1>1. /\ call' \in Calls /\ call'.uframes = {} /\ call'.batch = {} /\ call'.kind = "idle"
      /\ call'.proc = NoProc
  BY Zenon DEF Return, Idle, Calls, Kinds
<1> QED BY <1>1, Zenon DEF CallOK

\* The entry of page v of p is cleared; entries of others may change but for their frames.
LEMMA UnmapStep ==
  ASSUME FramesInv, NEW p \in Proc, NEW v \in Mapped(p),
         pte' \in [Proc -> [Page -> Entries]], EntriesOK',
         \A q \in Proc, u \in Page :
           pte'[q][u].frame = IF q = p /\ u = v THEN NoFrame ELSE pte[q][u].frame,
         kernel' = WithoutTable(p, v), Release(pte[p][v].frame),
         UNCHANGED <<started, alive, ustack, data, lost>>,
         call' \in Calls, call'.uframes = call.uframes
  PROVE  /\ CallOK' => FramesInv'
         /\ \A q \in Proc : Mapped(q)' = IF q = p THEN Mapped(q) \ {v} ELSE Mapped(q)
<1>1. RefcountExact' /\ HeldFrames'
  BY FrameUnmapped, Zenon DEF FramesInv
<1>2. PICK f \in Frame : f = pte[p][v].frame /\ refcount[f] \in 1 .. MaxRef /\ v \in Page
  BY MappedFrame, Zenon DEF FramesInv
<1>3. refcount' \in [Frame -> 0 .. MaxRef] /\ used' \subseteq Frame
  BY <1>2, MemoryAssumption DEF FramesInv, MemTypeOK, Release
<1>4. kernel' \subseteq Proc \X KernelSlot
  BY Zenon DEF FramesInv, MemTypeOK, WithoutTable
<1>5. MemTypeOK'
  BY <1>3, <1>4, Zenon DEF FramesInv, MemTypeOK
<1>6. \A q \in Proc : Mapped(q)' = IF q = p THEN Mapped(q) \ {v} ELSE Mapped(q)
  BY <1>2, Zenon DEF Mapped
<1> QED BY <1>1, <1>5, <1>6, Zenon DEF FramesInv

LEMMA UnmapFrames ==
  ASSUME FramesInv, NEW p \in Proc, NEW v \in Mapped(p), Unmap(p, v),
         UNCHANGED <<started, alive, ustack>>, call' \in Calls, call'.uframes = call.uframes
  PROVE  /\ CallOK' => FramesInv'
         /\ \A q \in Proc : Mapped(q)' = IF q = p THEN Mapped(q) \ {v} ELSE Mapped(q)
<1>1. v \in Page
  BY Zenon DEF Mapped
<1>2. pte' \in [Proc -> [Page -> Entries]]
  BY <1>1, Zenon DEF FramesInv, MemTypeOK, Unmap, NotPresent, Entries
<1>3. \A q \in Proc, u \in Page : pte'[q][u] = IF q = p /\ u = v THEN NotPresent ELSE pte[q][u]
  BY <1>1, Zenon DEF FramesInv, MemTypeOK, Unmap
<1>4. \A q \in Proc, u \in Page :
        pte'[q][u].frame = IF q = p /\ u = v THEN NoFrame ELSE pte[q][u].frame
  BY <1>3 DEF NotPresent
<1>5. EntriesOK'
  BY <1>3 DEF FramesInv, EntriesOK, NotPresent
<1>6. kernel' = WithoutTable(p, v) /\ Release(pte[p][v].frame) /\ UNCHANGED <<data, lost>>
  BY Zenon DEF Unmap
<1> QED BY <1>2, <1>4, <1>5, <1>6, UnmapStep, Zenon

=============================================================================
