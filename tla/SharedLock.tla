----------------------------- MODULE SharedLock -----------------------------
(***************************************************************************)
(* What a read-write lock promises: many readers or one writer.  RwLock,   *)
(* which is built from a mutex, two condition variables and three          *)
(* counters, is shown to implement this specification.                     *)
(***************************************************************************)
EXTENDS FiniteSets
CONSTANT Thread
VARIABLES reading, writing   \* the threads that hold the lock

LockInit == reading = {} /\ writing = {}

AcquireRead(t) ==
  /\ writing = {} /\ t \notin reading
  /\ reading' = reading \union {t}
  /\ UNCHANGED writing

AcquireWrite(t) ==
  /\ writing = {} /\ reading = {}
  /\ writing' = {t}
  /\ UNCHANGED reading

Release(t) ==
  /\ t \in reading \union writing
  /\ reading' = reading \ {t}
  /\ writing' = writing \ {t}

LockNext == \E t \in Thread : AcquireRead(t) \/ AcquireWrite(t) \/ Release(t)

LockSpec == LockInit /\ [][LockNext]_<<reading, writing>>
=============================================================================
