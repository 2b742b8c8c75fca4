------------------------------- MODULE RwLock -------------------------------
(***************************************************************************)
(* pthread_rwlock_rdlock(), pthread_rwlock_wrlock() and                    *)
(* pthread_rwlock_unlock() of the system-call library, on one lock that is *)
(* initialised and stays so.  The lock keeps three counters; a mutex of    *)
(* the kernel protects them, and the threads that cannot have the lock     *)
(* sleep on one of two condition variables of the kernel.                  *)
(*                                                                         *)
(* The kernel calls are modelled by what KernelSync shows of them: a mutex *)
(* and a condition variable have queues of sleepers, unlock_mutex() wakes  *)
(* the first, which tries again and may find the mutex taken, and          *)
(* wait_cond() releases the mutex and sleeps at once.  wait_cond() returns *)
(* an error, without the mutex, when a table of the process is full.       *)
(*                                                                         *)
(* Threads are preempted between any two actions.  Programs unlock only    *)
(* what they have locked.                                                  *)
(***************************************************************************)
EXTENDS Integers, Sequences, FiniteSets

CONSTANTS Thread, None,
          MaxLocks,  \* how often each thread takes the lock
          Unlucky    \* the threads that may find a table full

VARIABLES rw,      \* ReadWriteLockState
          mutex,   \* the state mutex: its owner and its sleepers
          conds,   \* the sleepers of the condition variables of readers and of writers
          th,      \* where each thread is
          leaked   \* the calls of wrlock() that failed while they were counted as waiting

vars == <<rw, mutex, conds, th, leaked>>

Kind == {"read", "write"}

Init ==
  /\ rw = [readers |-> 0, writer_active |-> FALSE, writers_waiting |-> 0]
  /\ mutex = [owner |-> None, queue |-> <<>>]
  /\ conds = [k \in Kind |-> <<>>]
  /\ th = [t \in Thread |-> [pc |-> "out", op |-> "read", counted |-> FALSE, holds |-> "no", locks |-> 0]]
  /\ leaked = 0

(***************************************************************************)
(* The kernel.                                                             *)
(***************************************************************************)

\* Threads get up and go on at pc.
Woken(threads, pc, all) == [t \in Thread |-> IF t \in threads THEN [all[t] EXCEPT !.pc = pc] ELSE all[t]]

First(queue) == IF queue = <<>> THEN {} ELSE {Head(queue)}
Rest(queue)  == IF queue = <<>> THEN <<>> ELSE Tail(queue)
All(queue)   == {queue[i] : i \in DOMAIN queue}

UnlockMutex_Bug(th1) ==   \* nobody is notified
  /\ mutex' = [mutex EXCEPT !.owner = None]
  /\ th' = th1

\* unlock_mutex(), by a thread that goes on as th1 says.
UnlockMutex(th1) ==
  /\ mutex' = [owner |-> None, queue |-> Rest(mutex.queue)]
  /\ th' = Woken(First(mutex.queue), "lock", th1)

LockMutex(t) ==
  /\ th[t].pc \in {"lock", "relock"}
  /\ IF mutex.owner = None
     THEN /\ mutex' = [mutex EXCEPT !.owner = t]
          /\ th' = [th EXCEPT ![t].pc = "inside"]
     ELSE /\ mutex' = [mutex EXCEPT !.queue = Append(@, t)]
          /\ th' = [th EXCEPT ![t].pc = "blocked"]
  /\ UNCHANGED <<rw, conds, leaked>>

\* wait_cond(): the mutex is released.
WaitCond(t, kind, counted) ==
  /\ conds' = [conds EXCEPT ![kind] = Append(@, t)]
  /\ UnlockMutex([th EXCEPT ![t].pc = "waiting", ![t].counted = counted])

(***************************************************************************)
(* The calls.                                                              *)
(***************************************************************************)

Lock(t, kind) ==
  /\ th[t].pc = "out" /\ th[t].holds = "no" /\ th[t].locks < MaxLocks[t]
  /\ th' = [th EXCEPT ![t].pc = "lock", ![t].op = kind, ![t].locks = @ + 1]
  /\ UNCHANGED <<rw, mutex, conds, leaked>>

Unlock(t) ==
  /\ th[t].pc = "out" /\ th[t].holds # "no"
  /\ th' = [th EXCEPT ![t].pc = "lock", ![t].op = "unlock"]
  /\ UNCHANGED <<rw, mutex, conds, leaked>>

MayRead == ~rw.writer_active /\ rw.writers_waiting = 0

ReadLock(t) ==
  /\ th[t].pc = "inside" /\ th[t].op = "read"
  /\ IF MayRead
     THEN /\ rw' = [rw EXCEPT !.readers = @ + 1]
          /\ th' = [th EXCEPT ![t].pc = "leave"]
          /\ UNCHANGED <<mutex, conds>>
     ELSE WaitCond(t, "read", FALSE) /\ UNCHANGED rw
  /\ UNCHANGED leaked

MayWrite_Bug ==   \* readers are forgotten
  ~rw.writer_active

MayWrite == ~rw.writer_active /\ rw.readers = 0

\* A writer is counted as waiting until it has the lock.
Counted(t) == IF th[t].counted THEN rw.writers_waiting ELSE rw.writers_waiting + 1

WriteLock(t) ==
  LET waiting == Counted(t)
  IN  /\ th[t].pc = "inside" /\ th[t].op = "write"
      /\ IF MayWrite
         THEN /\ rw' = [rw EXCEPT !.writer_active = TRUE, !.writers_waiting = waiting - 1]
              /\ th' = [th EXCEPT ![t].pc = "leave", ![t].counted = FALSE]
              /\ UNCHANGED <<mutex, conds>>
         ELSE WaitCond(t, "write", TRUE) /\ rw' = [rw EXCEPT !.writers_waiting = waiting]
      /\ UNCHANGED leaked

\* wait_cond() fails, at once or when the thread was woken: the call returns, and a writer stays counted.
WaitFails(t) ==
  /\ t \in Unlucky
  /\ \/ /\ th[t].pc = "inside"
        /\ \/ th[t].op = "read" /\ ~MayRead /\ UNCHANGED rw
           \/ /\ th[t].op = "write" /\ ~MayWrite
              /\ rw' = [rw EXCEPT !.writers_waiting = Counted(t)]
        /\ UnlockMutex([th EXCEPT ![t].pc = "out", ![t].counted = FALSE])
     \/ /\ th[t].pc = "relock"
        /\ th' = [th EXCEPT ![t].pc = "out", ![t].counted = FALSE]
        /\ UNCHANGED <<rw, mutex>>
  /\ leaked' = IF th[t].op = "write" THEN leaked + 1 ELSE leaked
  /\ UNCHANGED conds


\* Whom the thread that gives the lock up wakes, when left readers still have it.
NextAwake(left) ==
  CASE rw.writers_waiting > 0 /\ left = 0 -> "write"
    [] rw.writers_waiting = 0 /\ rw.writer_active -> "read"
    [] OTHER -> "none"

\* The sleepers are woken while the state mutex is held: one writer, or all readers.
ReleaseLock(t) ==
  LET left == IF rw.writer_active THEN 0 ELSE rw.readers - 1
      kind == NextAwake(left)
      woken == CASE kind = "write" -> First(conds["write"])
                 [] kind = "read" -> All(conds["read"])
                 [] OTHER -> {}
  IN  /\ th[t].pc = "inside" /\ th[t].op = "unlock"
      /\ rw' = IF rw.writer_active THEN [rw EXCEPT !.writer_active = FALSE] ELSE [rw EXCEPT !.readers = left]
      /\ th' = Woken(woken, "relock", [th EXCEPT ![t].pc = "leave"])
      /\ conds' = IF kind = "none" THEN conds
                  ELSE [conds EXCEPT ![kind] = SelectSeq(@, LAMBDA u : u \notin woken)]
      /\ UNCHANGED <<mutex, leaked>>

\* The state mutex is released, and the call returns.
Return(t) ==
  /\ th[t].pc = "leave"
  /\ UnlockMutex([th EXCEPT ![t].pc = "out", ![t].holds = IF th[t].op = "unlock" THEN "no" ELSE th[t].op])
  /\ UNCHANGED <<rw, conds, leaked>>

Step(t) == LockMutex(t) \/ ReadLock(t) \/ WriteLock(t) \/ ReleaseLock(t) \/ WaitFails(t) \/ Return(t)

Next == \E t \in Thread : Unlock(t) \/ Step(t) \/ \E kind \in Kind : Lock(t, kind)

\* Every thread that can run is scheduled again and again, and programs give up what they have locked.
Fairness == \A t \in Thread : WF_vars(Step(t)) /\ WF_vars(Unlock(t))

Spec == Init /\ [][Next]_vars /\ Fairness

(***************************************************************************)
(* Properties.                                                             *)
(***************************************************************************)

RwTypeOK ==
  /\ rw \in [readers : 0..Cardinality(Thread), writer_active : BOOLEAN, writers_waiting : Nat]
  /\ mutex.owner \in Thread \union {None}
  /\ th \in [Thread -> [pc : {"out", "lock", "relock", "blocked", "inside", "waiting", "leave"},
                        op : Kind \union {"unlock"}, counted : BOOLEAN, holds : Kind \union {"no"},
                        locks : Nat]]
  /\ \A k \in Kind : All(conds[k]) = {t \in Thread : th[t].pc = "waiting" /\ th[t].op = k}
  /\ All(mutex.queue) = {t \in Thread : th[t].pc = "blocked"}

\* A thread has the lock from the moment the counters say so until they no longer do.
Holding(kind) ==
  {t \in Thread : IF th[t].pc = "leave" THEN th[t].op = kind ELSE th[t].holds = kind}

\* The counters, and the order in which sleepers are woken and find the state mutex taken by
\* others, give many readers or one writer.
Shared == INSTANCE SharedLock WITH reading <- Holding("read"), writing <- Holding("write")
ImplementsSharedLock == Shared!LockSpec

\* The counters agree with the threads: the readers and the writer that have the lock, and the
\* writers that wait for it, with those whose wait_cond() failed.
CountersExact ==
  /\ rw.readers = Cardinality(Holding("read"))
  /\ rw.writer_active <=> Holding("write") # {}
  /\ rw.writers_waiting = leaked + Cardinality({t \in Thread : th[t].counted})

\* When no thread is on its way, a writer sleeps only while another thread has the lock, and a
\* reader only while a writer has it or waits for it: unlock() wakes the right threads.
NoLostWakeup ==
  (\A t \in Thread : th[t].pc \in {"out", "waiting"}) /\ leaked = 0 =>
    /\ conds["write"] # <<>> => Holding("read") \union Holding("write") # {}
    /\ conds["read"] # <<>> => Holding("write") # {} \/ conds["write"] # <<>>


\* Every call returns when threads give the lock up, unless wait_cond() failed for a writer.
EveryCallReturns == <>(leaked > 0) \/ \A t \in Thread : []<>(th[t].pc = "out")

\* "Number of writers waiting."
WritersWaitingExact == rw.writers_waiting = Cardinality({t \in Thread : th[t].counted})
=============================================================================
