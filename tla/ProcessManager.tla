-------------------------- MODULE ProcessManager --------------------------
(***************************************************************************)
(* The kernel's process manager (src/kernel/src/pm/process and pm/thread)  *)
(* as operators on a record pm.  The machine has one core and the kernel   *)
(* runs with interrupts disabled, so a handler is atomic up to its next    *)
(* context switch: each operator maps the state a handler starts from to   *)
(* the state, or the set of states, it ends in.                            *)
(*                                                                         *)
(*   running    the thread on the CPU; NoThread while self.running is None *)
(*   intr       self.interrupt_reason, read by the thread that is resumed  *)
(*   place      the list of the manager that holds each process            *)
(*   tstate     the list of its process that holds each thread             *)
(*   owner      the process of each thread                                 *)
(*   ahead      for a ready thread, the ready threads with an earlier      *)
(*              admission time                                             *)
(*   reason     why an interrupted thread was interrupted                  *)
(*   alarm      a sleeping thread's alarm: none, set, or due (now >= alarm)*)
(*   detached   the detached threads                                       *)
(*   deferred   self.deferred_reap: detached zombies not reaped yet        *)
(*   pending    a process's pending exit status                            *)
(*   status     the exit status of a zombie process                        *)
(*   plive      self.live_count; tlive is the thread manager's             *)
(*                                                                         *)
(* Lists are sets: where the code takes the first element of one, any      *)
(* element may be taken, except that ready threads keep the order of their *)
(* admission times.  Threads admitted in one kernel step are not ordered   *)
(* among themselves.  Thread and process identifiers are never reused.     *)
(*                                                                         *)
(* An operator whose name ends in _Bug is the operator it precedes with a  *)
(* mistake; the properties are checked to notice it.                       *)
(***************************************************************************)
EXTENDS Naturals, FiniteSets

CONSTANTS Proc, Thread,            \* identifiers that may ever be allocated
          Kernel, KernelThread,    \* the kernel process and its only thread
          NoThread,                \* None
          MaxProcesses, MaxThreads \* config::kernel::MAX_PROCESSES, MAX_THREADS

ASSUME KernelAssumption == Kernel \in Proc /\ KernelThread \in Thread
ASSUME NoThreadAssumption == NoThread \notin Thread
ASSUME BoundAssumption == MaxProcesses \in Nat \ {0} /\ MaxThreads \in Nat \ {0}
ASSUME FiniteAssumption == IsFiniteSet(Proc) /\ IsFiniteSet(Thread)

Places == {"none", "running", "ready", "suspended", "interrupted", "zombie",
           "buried"}
ThreadStates == {"none", "running", "ready", "sleeping", "interrupted",
                 "zombie", "deferred", "reaped"}
Reasons == {"none", "killed", "timedout"}
Alarms == {"none", "set", "due"}

\* Exit statuses: the one a program chose, and ErrorCode::Interrupted.
Statuses == {"ok", "interrupted"}

ProcessManagers ==
  [running  : Thread \union {NoThread},
   intr     : Reasons,
   place    : [Proc -> Places],
   tstate   : [Thread -> ThreadStates],
   owner    : [Thread -> Proc],
   ahead    : [Thread -> SUBSET Thread],
   reason   : [Thread -> Reasons],
   alarm    : [Thread -> Alarms],
   detached : SUBSET Thread,
   deferred : SUBSET Thread,
   pending  : [Proc -> Statuses \union {"none"}],
   status   : [Proc -> Statuses \union {"none"}],
   plive    : Nat,
   tlive    : Nat]

\* The threads of process p that are in state s.
In(pm, p, s) == {t \in Thread : pm.owner[t] = p /\ pm.tstate[t] = s}

ReadyThreads(pm) == {t \in Thread : pm.tstate[t] = "ready"}

(***************************************************************************)
(* Moving threads and processes between lists.                             *)
(***************************************************************************)

\* The threads of S enter list s.  A thread that becomes ready is admitted
\* now; a thread that leaves the sleeping list loses its alarm; the reason of
\* an interruption stays with the thread until it runs.
Move(pm, S, s) ==
  [pm EXCEPT
     !.tstate = [t \in Thread |-> IF t \in S THEN s ELSE pm.tstate[t]],
     !.ahead  = [t \in Thread |->
                   IF t \notin S THEN pm.ahead[t] \ S
                   ELSE IF s = "ready" THEN ReadyThreads(pm) \ S
                   ELSE {}],
     !.reason = [t \in Thread |->
                   IF t \in S /\ s # "ready" THEN "none" ELSE pm.reason[t]],
     !.alarm  = [t \in Thread |-> IF t \in S THEN "none" ELSE pm.alarm[t]]]

\* SleepingThread::interrupt() on every thread of S.
Interrupt(pm, S, r) ==
  LET q == Move(pm, S, "interrupted") IN
  [q EXCEPT !.reason = [t \in Thread |-> IF t \in S THEN r ELSE q.reason[t]]]

\* The process goes to the back of list l of the manager.
Put(pm, p, l) ==
  [pm EXCEPT !.place = [x \in Proc |-> IF x = p THEN l ELSE pm.place[x]]]

\* InterruptedProcess::resume(): one interrupted thread becomes ready, the
\* others stay interrupted.
Resume(pm, t) == Put(Move(pm, {t}, "ready"), pm.owner[t], "ready")

\* What a process that gave up the CPU, or was terminated, becomes.
Settle(pm, p, s) ==
  IF In(pm, p, "ready") # {} THEN {Put(pm, p, "ready")}
  ELSE IF In(pm, p, "interrupted") # {}
       THEN {Resume(pm, t) : t \in In(pm, p, "interrupted")}
  ELSE IF In(pm, p, "sleeping") # {} THEN {Put(pm, p, "suspended")}
  ELSE {[Put(pm, p, "zombie") EXCEPT
           !.status[p] = IF pm.pending[p] = "none" THEN s ELSE pm.pending[p],
           !.pending[p] = "none"]}

Kill_Bug(pm, p) == \* the ready threads are left alone
  Interrupt(pm, In(pm, p, "sleeping"), "killed")

\* Ready threads become zombies without running again; sleeping threads are
\* interrupted, to unwind their kernel call.  Threads already interrupted keep
\* the reason they have.
Kill(pm, p) ==
  Interrupt(Move(pm, In(pm, p, "ready"), "zombie"), In(pm, p, "sleeping"),
            "killed")

(***************************************************************************)
(* Dispatching.                                                            *)
(***************************************************************************)

Earliest_Bug(pm) == \* the admission times are not compared
  {t \in ReadyThreads(pm) : pm.place[pm.owner[t]] = "ready"}

\* The choices of take_earliest_ready() and RunnableProcess::run().
Earliest(pm) ==
  {t \in ReadyThreads(pm) : pm.ahead[t] = {} /\ pm.place[pm.owner[t]] = "ready"}

Run(pm, t) ==
  [Put(Move(pm, {t}, "running"), pm.owner[t], "running") EXCEPT
     !.running = t, !.intr = pm.reason[t]]

Dispatch(pm) == {Run(pm, t) : t \in Earliest(pm)}

\* check_alarm(): looks only at the processes of the suspended list.
Expired(pm) == {t \in Thread : /\ pm.place[pm.owner[t]] = "suspended"
                               /\ pm.tstate[t] = "sleeping"
                               /\ pm.alarm[t] = "due"}

CheckAlarm(pm) ==
  LET E == Expired(pm) IN
  [Interrupt(pm, E, "timedout") EXCEPT
     !.place = [p \in Proc |-> IF \E t \in E : pm.owner[t] = p
                               THEN "interrupted" ELSE pm.place[p]]]

\* The ways to take one interrupted thread from each interrupted process.
Resumable(pm) ==
  {R \in SUBSET {t \in Thread : /\ pm.tstate[t] = "interrupted"
                                /\ pm.place[pm.owner[t]] = "interrupted"} :
     /\ \A p \in Proc : pm.place[p] = "interrupted" => \E t \in R : pm.owner[t] = p
     /\ \A t, u \in R : pm.owner[t] = pm.owner[u] => t = u}

\* schedule() resumes every process of the interrupted list.
Drain(pm, R) ==
  [Move(pm, R, "ready") EXCEPT
     !.place = [p \in Proc |-> IF \E t \in R : pm.owner[t] = p
                               THEN "ready" ELSE pm.place[p]]]

(***************************************************************************)
(* Reaping.                                                                *)
(***************************************************************************)

Reap(pm, S) ==
  [Move(pm, S, "reaped") EXCEPT !.tlive = @ - Cardinality(S),
                                !.detached = @ \ S]

ReapDeferred_Bug(pm) == \* on_thread_reaped() is not called
  [Move(pm, pm.deferred, "reaped") EXCEPT !.deferred = {}]

\* harvest_zombie_thread() returns early, without counting the thread, when
\* its process is gone.
ReapDeferred(pm) ==
  LET found == {t \in pm.deferred : pm.place[pm.owner[t]] # "buried"} IN
  [Reap(pm, found) EXCEPT !.deferred = {}]

HarvestZombie(pm, p) ==
  [Put(Reap(pm, In(pm, p, "zombie")), p, "buried") EXCEPT !.plive = @ - 1]

(***************************************************************************)
(* The operations of the manager.                                          *)
(***************************************************************************)

Running(pm) == pm.owner[pm.running]

\* The running thread leaves the CPU for list s of its process.
Leave(pm, s) == [Move(pm, {pm.running}, s) EXCEPT !.running = NoThread]

DoSleep(pm, a) ==
  LET t == pm.running
      q == [Leave(pm, "sleeping") EXCEPT !.alarm[t] = a]
  IN  UNION {Dispatch(r) : r \in Settle(q, Running(pm), "ok")}

Schedule_Bug(pm) == \* the interrupted processes are not resumed
  Dispatch(CheckAlarm(Put(Leave(pm, "ready"), Running(pm), "ready")))

Schedule(pm) ==
  LET q == CheckAlarm(Put(Leave(pm, "ready"), Running(pm), "ready"))
  IN  UNION {Dispatch(Drain(q, R)) : R \in Resumable(q)}

DoExit_Bug(pm, s) == \* the last exit status wins
  LET p == Running(pm)
      q == [Leave(pm, "zombie") EXCEPT !.pending[p] = s]
  IN  UNION {Dispatch(r) : r \in Settle(Kill(q, p), p, s)}

DoExit(pm, s) ==
  LET p == Running(pm)
      q == [Leave(pm, "zombie") EXCEPT
              !.pending[p] = IF @ = "none" THEN s ELSE @]
  IN  UNION {Dispatch(r) : r \in Settle(Kill(q, p), p, s)}

\* A detached thread that is not the last of its process is not kept as a
\* zombie: it is reaped once the switch away from it is complete.
DoExitThread(pm, s) ==
  LET t == pm.running
      p == Running(pm)
      others == In(pm, p, "ready") \union In(pm, p, "interrupted")
                  \union In(pm, p, "sleeping")
      q == IF t \in pm.detached /\ others # {}
           THEN [Leave(pm, "deferred") EXCEPT !.deferred = @ \union {t}]
           ELSE Leave(pm, "zombie")
  IN  UNION {Dispatch(r) : r \in Settle(q, p, s)}

\* Refused for the kernel, for the running process, and for a process that is
\* neither ready nor suspended.
Terminable(pm, p) == p # Kernel /\ pm.place[p] \in {"ready", "suspended"}

Terminate_Bug(pm, p) == \* a suspended process stays in the suspended list
  IF pm.place[p] = "ready"
  THEN Settle(Kill(pm, p), p, "interrupted")
  ELSE {Kill(pm, p)}

Terminate(pm, p) ==
  IF pm.place[p] = "ready"
  THEN Settle(Kill(pm, p), p, "interrupted")
  ELSE {Put(Kill(pm, p), p, "interrupted")}

\* do_wakeup() finds a sleeping thread of the running process, of a suspended
\* one or of a ready one; it does not search the interrupted list.
Awakable(pm, t) ==
  /\ pm.tstate[t] = "sleeping"
  /\ pm.place[pm.owner[t]] \in {"running", "suspended", "ready"}

Wakeup_Bug(pm, S) == \* the process is not moved to the ready list
  Move(pm, {t \in S : Awakable(pm, t)}, "ready")

Wakeup(pm, S) ==
  LET W == {t \in S : Awakable(pm, t)} IN
  [Move(pm, W, "ready") EXCEPT
     !.place = [p \in Proc |->
                  IF pm.place[p] = "suspended" /\ \E t \in W : pm.owner[t] = p
                  THEN "ready" ELSE pm.place[p]]]

CreateThread(pm, t, p) ==
  [Move([pm EXCEPT !.owner[t] = p], {t}, "ready") EXCEPT !.tlive = @ + 1]

CreateProcess(pm, p, t) ==
  [Put(CreateThread(pm, t, p), p, "ready") EXCEPT !.plive = @ + 1]

(***************************************************************************)
(* ProcessManager::new(): the kernel process alone, running its thread.    *)
(***************************************************************************)
New ==
  [running  |-> KernelThread,
   intr     |-> "none",
   place    |-> [p \in Proc |-> IF p = Kernel THEN "running" ELSE "none"],
   tstate   |-> [t \in Thread |-> IF t = KernelThread THEN "running" ELSE "none"],
   owner    |-> [t \in Thread |-> Kernel],
   ahead    |-> [t \in Thread |-> {}],
   reason   |-> [t \in Thread |-> "none"],
   alarm    |-> [t \in Thread |-> "none"],
   detached |-> {},
   deferred |-> {},
   pending  |-> [p \in Proc |-> "none"],
   status   |-> [p \in Proc |-> "none"],
   plive    |-> 1,
   tlive    |-> 1]

(***************************************************************************)
(* What the handlers rely on.                                              *)
(***************************************************************************)

\* The list that holds process p agrees with the states of its threads.
Placed(q, p) ==
  /\ q.place[p] = "running" <=> \E t \in Thread : t = q.running /\ q.owner[t] = p
  /\ q.place[p] = "ready" => In(q, p, "ready") # {}
  /\ In(q, p, "ready") # {} => q.place[p] \in {"ready", "running"}
  /\ q.place[p] = "suspended" => /\ In(q, p, "sleeping") # {}
                                 /\ In(q, p, "interrupted") = {}
  /\ q.place[p] = "interrupted" => In(q, p, "interrupted") # {}
  /\ q.place[p] \in {"zombie", "buried", "none"} =>
       In(q, p, "sleeping") = {} /\ In(q, p, "interrupted") = {}
  /\ q.place[p] = "zombie" => In(q, p, "zombie") # {}
  /\ In(q, p, "zombie") # {} => q.place[p] \notin {"none", "buried"}

OneRunning(q) == \A t \in Thread : q.tstate[t] = "running" <=> t = q.running

\* A thread in deferred_reap is reaped while its process exists: not even a
\* zombie process has one when the kernel gets to run and may harvest it.
Deferrals(q) ==
  \A t \in q.deferred :
    /\ q.tstate[t] = "deferred"
    /\ q.place[q.owner[t]] \notin {"none", "buried"}
    /\ q.running \in {KernelThread, NoThread} => q.place[q.owner[t]] # "zombie"

LiveThreads(q) == {t \in Thread : q.tstate[t] \notin {"none", "reaped"}}
LiveProcs(q) == {p \in Proc : q.place[p] \notin {"none", "buried"}}

Counted(q) ==
  /\ q.tlive = Cardinality(LiveThreads(q)) /\ q.tlive <= MaxThreads
  /\ q.plive = Cardinality(LiveProcs(q)) /\ q.plive <= MaxProcesses

\* The kernel process has one thread and it never blocks, so there is always a
\* thread to dispatch.
KernelReady(q) ==
  /\ q.owner[KernelThread] = Kernel /\ q.tstate[KernelThread] \in {"running", "ready"}
  /\ \A t \in Thread : q.owner[t] = Kernel /\ q.tstate[t] # "none" => t = KernelThread

\* wakeup() finds every sleeping thread.
AllAwakable(q) == \A t \in Thread : q.tstate[t] = "sleeping" => Awakable(q, t)
=============================================================================
