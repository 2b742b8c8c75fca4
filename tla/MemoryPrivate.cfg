\* Two processes at a time, of the three that are ever started; frames and references run out.
SPECIFICATION Spec
CONSTANTS
  Proc = {p1, p2, p3}
  NoProc = NoProc
  Frame = {f1, f2, f3}
  NoFrame = NoFrame
  zero = zero
  one = one
  Value <- MCValue
  Zero = zero
  Unmapped = Unmapped
  NumPages = 2
  PagesPerTable = 2
  NumFrames = 8
  KERNEL_WATERMARK = 1
  MMAP_BATCH_SIZE = 2
  MaxRef = 2
  KStackFrames = 1
  Segment <- MCSegment
  ReadOnlyImage = {0}
  UserStack = {1}
  InitialStack = {1}
  MapAccess = {TRUE}
  CtrlAccess = {FALSE}
  CopyToReadOnly = FALSE
SYMMETRY MCSymmetry
INVARIANTS RefcountExact WritableIsPrivate
PROPERTIES ImplementsPrivateMemory 
