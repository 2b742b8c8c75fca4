----------------------------- MODULE KernelSync -----------------------------
(***************************************************************************)
(* Mutexes and condition variables of user threads (src/kernel/src/pm/sync *)
(* and the kernel calls lock_mutex, unlock_mutex, wait_cond, signal_cond)  *)
(* over the scheduler.  A process names a mutex or a condition variable by *)
(* an address; the kernel keeps, per process, a table from addresses to    *)
(* reference-counted objects and drops an entry when nobody uses it.       *)
(*                                                                         *)
(*   ks.table   the object of each address of each process                 *)
(*   ks.locked  the locked mutexes                                         *)
(*   ks.queue   the threads that sleep on an object, first come first      *)
(*   ks.guard   the mutexes held: the object by thread and address         *)
(*   ks.clone   the reference that a blocked kernel call keeps on its      *)
(*              stack.  A thread that is killed while it is ready never    *)
(*              runs again, so its reference is never given back           *)
(*   call       the arguments of the blocked call, and what wait_cond will *)
(*              return once it has the mutex again                         *)
(*                                                                         *)
(* Joining and detaching are left out: the guards of a thread that exits   *)
(* are released when its process is harvested.                             *)
(***************************************************************************)
EXTENDS Scheduler, Sequences
LOCAL INSTANCE SequencesExt

CONSTANTS Mutexes, Conds,   \* addresses
          Object, NoObject, \* enough objects for every address and every clone
          MutexOpenMax, CondOpenMax,  \* config::kernel::*_OPEN_MAX
          Timeouts          \* whether lock_mutex and wait_cond have a timeout

ASSUME SyncAssumption ==
  /\ Mutexes \intersect Conds = {} /\ NoObject \notin Object
  /\ MutexOpenMax \in Nat /\ CondOpenMax \in Nat /\ Timeouts \subseteq BOOLEAN

Address == Mutexes \union Conds
Refs == Object \union {NoObject}
NoCall == [mutex |-> "none", cond |-> "none", timed |-> FALSE, result |-> "none"]

VARIABLES ks, call

syncVars == <<ks, call>>
allVars == <<vars, syncVars>>

SyncTypeOK ==
  /\ pm \in ProcessManagers
  /\ pc \in [Thread -> {"user", "sleep", "lock", "relock", "cond"}]
  /\ ks.table \in [Proc -> [Address -> Refs]]
  /\ ks.locked \in [Object -> BOOLEAN]
  /\ ks.queue \in [Object -> Seq(Thread)]
  /\ ks.guard \in [Thread -> [Mutexes -> Refs]]
  /\ ks.clone \in [Thread -> Refs]

SyncInit ==
  /\ Init
  /\ ks = [table  |-> [p \in Proc |-> [a \in Address |-> NoObject]],
           locked |-> [o \in Object |-> FALSE],
           queue  |-> [o \in Object |-> <<>>],
           guard  |-> [t \in Thread |-> [m \in Mutexes |-> NoObject]],
           clone  |-> [t \in Thread |-> NoObject]]
  /\ call = [t \in Thread |-> NoCall]

(***************************************************************************)
(* The tables.                                                             *)
(***************************************************************************)

\* Arc::strong_count().
RefCount(s, o) ==
  Cardinality({x \in Proc \X Address : s.table[x[1]][x[2]] = o})
    + Cardinality({x \in Thread \X Mutexes : s.guard[x[1]][x[2]] = o})
    + Cardinality({t \in Thread : s.clone[t] = o})

\* get_mutex() and get_cond() fail only when they would grow a full table.
CanGet(s, p, a) ==
  \/ s.table[p][a] # NoObject
  \/ a \in Mutexes /\ Cardinality({b \in Mutexes : s.table[p][b] # NoObject}) < MutexOpenMax
  \/ a \in Conds /\ Cardinality({b \in Conds : s.table[p][b] # NoObject}) < CondOpenMax

\* The table with an entry for a, and a clone of it for thread t.
Get(s, t, p, a) ==
  LET o == IF s.table[p][a] # NoObject THEN s.table[p][a]
           ELSE CHOOSE x \in Object : RefCount(s, x) = 0
  IN  [s EXCEPT !.table[p][a] = o, !.clone[t] = o]

PutMutex_Bug(s, p, m) == \* a clone too many is taken for unused
  IF RefCount(s, s.table[p][m]) <= 3 THEN [s EXCEPT !.table[p][m] = NoObject] ELSE s

\* put_mutex() runs while the guard exists: the table and the guard are the
\* two references of a mutex that nobody waits for.
PutMutex(s, p, m) ==
  IF RefCount(s, s.table[p][m]) <= 2 THEN [s EXCEPT !.table[p][m] = NoObject] ELSE s

PutCond_Bug(s, p, c) == \* the threshold of put_mutex()
  IF RefCount(s, s.table[p][c]) <= 2 THEN [s EXCEPT !.table[p][c] = NoObject] ELSE s

PutCond(s, p, c) ==
  IF RefCount(s, s.table[p][c]) <= 1 THEN [s EXCEPT !.table[p][c] = NoObject] ELSE s

(***************************************************************************)
(* Notifying and unlocking: operators on a manager q and a sync state s.   *)
(***************************************************************************)

\* The first thread leaves the queue, also when it cannot be woken.
NotifyFirst(q, s, o) ==
  IF s.queue[o] = <<>> THEN [pm |-> q, ks |-> s]
  ELSE [pm |-> Wakeup(q, {Head(s.queue[o])}),
        ks |-> [s EXCEPT !.queue[o] = Tail(@)]]

NotifyAll(q, s, o) ==
  [pm |-> Wakeup(q, ToSet(s.queue[o])), ks |-> [s EXCEPT !.queue[o] = <<>>]]

Unlock_Bug(q, t, m) == \* nobody is notified
  LET o == ks.guard[t][m]
      s == PutMutex(ks, q.owner[t], m)
  IN  [pm |-> q, ks |-> [s EXCEPT !.guard[t][m] = NoObject, !.locked[o] = FALSE]]

\* take_mutex_guard(), and the guard is dropped.
Unlock(q, t, m) ==
  LET o == ks.guard[t][m]
      s == PutMutex(ks, q.owner[t], m)
  IN  NotifyFirst(q, [s EXCEPT !.guard[t][m] = NoObject, !.locked[o] = FALSE], o)

\* wait() was interrupted: the thread leaves the queue and drops its clone.
Dequeue(s, t) ==
  [s EXCEPT !.queue[s.clone[t]] = SelectSeq(@, LAMBDA u : u # t),
            !.clone[t] = NoObject]

(***************************************************************************)
(* Locking.                                                                *)
(***************************************************************************)

\* The call returns, or handle_sleep_error() exits the process.
Finish(t, q, result) ==
  /\ IF result = "killed" THEN Exit(t, q, "interrupted") ELSE pm' = q /\ UNCHANGED doomed
  /\ pc' = [pc EXCEPT ![t] = "user"]
  /\ call' = [call EXCEPT ![t] = NoCall]

Block(t, q, s, at, c) ==
  /\ ks' = [s EXCEPT !.queue[s.clone[t]] = Append(@, t)]
  /\ pm' \in DoSleep(ReapDeferred(q), IF c.timed THEN "set" ELSE "none")
  /\ pc' = [pc EXCEPT ![t] = at]
  /\ call' = [call EXCEPT ![t] = c]
  /\ UNCHANGED doomed

\* One round of the loop of lock(), on the mutex whose clone t holds.  A
\* timeout may have passed by the time wait() looks at it.
Lock(t, q, s, at, c) ==
  LET o == s.clone[t] IN
  \/ /\ ~s.locked[o]
     /\ ks' = [s EXCEPT !.locked[o] = TRUE, !.guard[t][c.mutex] = o, !.clone[t] = NoObject]
     /\ Finish(t, q, c.result)
  \/ /\ s.locked[o] /\ c.timed
     /\ ks' = [s EXCEPT !.clone[t] = NoObject]
     /\ Finish(t, q, "none")
  \/ s.locked[o] /\ Block(t, q, s, at, c)

LockCall(t, m, timed) ==
  /\ InUser(t)
  /\ CanGet(ks, pm.owner[t], m)
  /\ Lock(t, pm, Get(ks, t, pm.owner[t], m), "lock",
          [NoCall EXCEPT !.mutex = m, !.timed = timed])
  /\ UNCHANGED <<joining, joiners, phase>>

LockReturns(t) ==
  /\ Resuming(t) /\ pc[t] \in {"lock", "relock"}
  /\ IF pm.intr = "none" THEN Lock(t, Taken, ks, pc[t], call[t])
     ELSE ks' = Dequeue(ks, t) /\ Finish(t, Taken, pm.intr)
  /\ UNCHANGED <<joining, joiners, phase>>

UnlockCall(t, m) ==
  /\ InUser(t)
  /\ ks.guard[t][m] # NoObject
  /\ LET x == Unlock(pm, t, m) IN pm' = x.pm /\ ks' = x.ks
  /\ UNCHANGED <<pc, joining, joiners, phase, doomed, call>>

(***************************************************************************)
(* Condition variables.                                                    *)
(***************************************************************************)

\* The end of wait_cond(): the mutex is taken again, without a timeout.  When
\* the table of mutexes is full the call returns without it.
Relock(t, q, s, c) ==
  LET p == pm.owner[t] IN
  \/ /\ CanGet(s, p, c.mutex)
     /\ Lock(t, q, Get(s, t, p, c.mutex), "relock", [c EXCEPT !.timed = FALSE])
  \/ /\ ~CanGet(s, p, c.mutex)
     /\ ks' = s
     /\ Finish(t, q, "none")

\* The mutex is released and the thread sleeps, unless the timeout has passed.
\* When the table of condition variables is full the call returns without the
\* mutex.
WaitCall(t, c, m, timed) ==
  /\ InUser(t)
  /\ ks.guard[t][m] # NoObject
  /\ LET p == pm.owner[t]
         x == Unlock(pm, t, m)
         s == Get(x.ks, t, p, c)
         args == [mutex |-> m, cond |-> c, timed |-> timed, result |-> "none"]
     IN
     \/ /\ ~CanGet(x.ks, p, c)
        /\ ks' = x.ks
        /\ Finish(t, x.pm, "none")
     \/ CanGet(x.ks, p, c) /\ Block(t, x.pm, s, "cond", args)
     \/ /\ CanGet(x.ks, p, c) /\ timed
        /\ Relock(t, x.pm, PutCond([s EXCEPT !.clone[t] = NoObject], p, c), args)
  /\ UNCHANGED <<joining, joiners, phase>>


Relocked(t, s) == Relock(t, Taken, s, [call[t] EXCEPT !.result = pm.intr])

WaitReturns(t) ==
  /\ Resuming(t) /\ pc[t] = "cond"
  /\ LET s == IF pm.intr = "none" THEN [ks EXCEPT !.clone[t] = NoObject]
              ELSE Dequeue(ks, t)
     IN  Relocked(t, PutCond(s, pm.owner[t], call[t].cond))
  /\ UNCHANGED <<joining, joiners, phase>>

\* The entry is put back unless nobody could be woken and someone should have
\* been: the error is returned before.
SignalCall(t, c, all) ==
  /\ InUser(t)
  /\ CanGet(ks, pm.owner[t], c)
  /\ LET p == pm.owner[t]
         s == Get(ks, t, p, c)
         o == s.clone[t]
         x == IF all THEN NotifyAll(pm, s, o) ELSE NotifyFirst(pm, s, o)
         r == [x.ks EXCEPT !.clone[t] = NoObject]
     IN
     /\ pm' = x.pm
     /\ ks' = IF s.queue[o] # <<>> /\ x.pm = pm THEN r ELSE PutCond(r, p, c)
  /\ UNCHANGED <<pc, joining, joiners, phase, doomed, call>>

(***************************************************************************)
(* The specification.                                                      *)
(***************************************************************************)

\* The guards of the threads and the tables go with the process.
DropProcess(p) ==
  LET held == {o \in Object : \E t \in Thread, m \in Mutexes :
                                pm.owner[t] = p /\ ks.guard[t][m] = o}
  IN
  ks' = [ks EXCEPT
           !.table[p] = [a \in Address |-> NoObject],
           !.locked = [o \in Object |-> ks.locked[o] /\ o \notin held],
           !.queue = [o \in Object |-> IF o \in held /\ ks.queue[o] # <<>>
                                       THEN Tail(ks.queue[o]) ELSE ks.queue[o]],
           !.guard = [t \in Thread |-> IF pm.owner[t] = p
                                       THEN [m \in Mutexes |-> NoObject]
                                       ELSE ks.guard[t]]]

SyncHarvest(p) == (Harvest(p) \/ Shutdown(p)) /\ DropProcess(p) /\ UNCHANGED call

OtherStep ==
  /\ \/ Boot \/ Idle
     \/ \E p \in Proc, t \in Thread : Spawn(p, t) \/ TerminateCall(t, p)
     \/ \E t \in Thread : \/ GiveUp(t) \/ AlarmDue(t) \/ SleepCall(t) \/ SleepReturns(t)
                          \/ ExitCall(t, "ok") \/ ExitThreadCall(t, "ok")
                          \/ pc[t] = "sleep" /\ Killed(t)
     \/ \E t, u \in Thread : Create(t, u)
  /\ UNCHANGED syncVars

SyncCall(t) ==
  \/ \E m \in Mutexes : UnlockCall(t, m) \/ \E b \in Timeouts : LockCall(t, m, b)
  \/ \E c \in Conds, b \in BOOLEAN : SignalCall(t, c, b)
  \/ \E c \in Conds, m \in Mutexes, b \in Timeouts : WaitCall(t, c, m, b)

SyncContinue(t) == LockReturns(t) \/ WaitReturns(t)

SyncNext ==
  \/ OtherStep
  \/ \E t \in Thread : SyncCall(t) \/ SyncContinue(t)
  \/ \E p \in Proc : SyncHarvest(p)

SyncSpec == SyncInit /\ [][SyncNext]_allVars

\* What the CPU does of itself.
SyncCpuStep ==
  \/ OtherStep /\ CpuStep
  \/ \E t \in Thread : SyncContinue(t)
  \/ \E p \in Proc : SyncHarvest(p)

\* The CPU does not stop, as in Scheduler, and timeouts fall due.
SyncFairness ==
  /\ []<>Quiescent \/ []<><<SyncCpuStep>>_allVars
  /\ \A t \in Thread : WF_allVars(AlarmDue(t) /\ UNCHANGED syncVars)

SyncFairSpec == SyncSpec /\ SyncFairness

(***************************************************************************)
(* Properties.                                                             *)
(***************************************************************************)

\* No two threads of a process hold the mutex of one address, whatever objects
\* the address has stood for: an entry is never dropped while it is in use.
MutualExclusion ==
  /\ SyncTypeOK
  /\ \A t, u \in Thread, m \in Mutexes :
       /\ pm.owner[t] = pm.owner[u]
       /\ ks.guard[t][m] # NoObject /\ ks.guard[u][m] # NoObject
       => t = u

\* While a thread sleeps on a free mutex, another one has been woken and is on
\* its way to take it.
NoLostUnlock ==
  \A t \in Thread :
    /\ pm.tstate[t] = "sleeping" /\ pc[t] \in {"lock", "relock"}
    /\ ~ks.locked[ks.clone[t]]
    => \E u \in Thread : /\ ks.clone[u] = ks.clone[t]
                         /\ pm.tstate[u] \in {"ready", "running", "interrupted"}

\* A thread that sleeps on a condition variable is in the queue of the object
\* that signal_cond() finds at its address, and no condition variable is dropped
\* with threads in its queue, for which the kernel panics.
WaitersCanBeSignalled ==
  /\ \A t \in Thread :
       pm.tstate[t] = "sleeping" /\ pc[t] = "cond" =>
         LET o == ks.table[pm.owner[t]][call[t].cond]
         IN  o # NoObject /\ t \in ToSet(ks.queue[o])
  /\ \A o \in Object : ks.queue[o] # <<>> => RefCount(ks, o) > 0

=============================================================================
